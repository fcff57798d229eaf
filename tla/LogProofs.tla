----------------------------- MODULE LogProofs -----------------------------
(***************************************************************************)
(* Proofs about module Log: what is logged and where, what recovery        *)
(* restores, and that the log with its recovery implements AtomicDisk.     *)
(***************************************************************************)
EXTENDS Log, FiniteSetTheorems, TLAPS

-----------------------------------------------------------------------------
(* The inductive invariant                                                 *)

\* The processes between begin_op() and end_op(), and the labels of commit().
In == {p \in Procs : pc[p] = "in"}
Committing == {"write_log", "install", "end_commit"}

\* log.outstanding counts the system calls in progress; one process at most
\* commits, while there are none; before recovery is over nobody does anything.
Calls ==
  /\ IsFiniteSet(In) /\ outstanding = Cardinality(In)
  /\ committing => In = {}
  /\ \A p \in Procs : pc[p] \in Committing => committing
  /\ \A p, q \in Procs : pc[p] \in Committing /\ pc[q] \in Committing => p = q
  /\ \A p \in Procs : buf[p] # NoBuf => pc[p] = "in"
  /\ mode # "up" => ~committing /\ \A p \in Procs : pc[p] = "out"

Distinct(s) == \A i, j \in 1..Len(s) : s[i] = s[j] => i = j

\* Neither header names a block twice or has more blocks than the log.  Between
\* the two writes of the header by a commit, and during recovery, the header on the
\* disk is the one in memory; otherwise it is empty, and so is the one in memory
\* when nobody uses the log.
Installing == \E p \in Procs : pc[p] = "install"

Headers ==
  /\ Distinct(lh) /\ Distinct(dhead) /\ Len(lh) <= NLOG - 1 /\ Len(dhead) <= NLOG - 1
  /\ mode = "read_head" => lh = << >>
  /\ mode = "install" => lh = dhead
  /\ mode = "up" => dhead = IF Installing THEN lh ELSE << >>
  /\ mode = "up" /\ ~committing /\ In = {} => lh = << >>
  /\ \A p \in Procs : pc[p] = "end_commit" => lh = << >>

\* A block is pinned, once, from log_write() to its installation.
Pinned(b) ==
  /\ mode = "up"
  /\ \E i \in 1..Len(lh) : /\ lh[i] = b
                           /\ \A p \in Procs : pc[p] = "install" => i >= tail[p]

Pins == \A b \in Blocks : pins[b] = IF Pinned(b) THEN 1 ELSE 0

\* A buffer that is not pinned holds what recovery would restore; write_log() has
\* copied pinned buffers to the log, and install_trans() the log to its place.
Data ==
  /\ \A b \in Blocks : pins[b] = 0 => cache[b] \in {NoBuf, Recovered[b]}
  /\ \A b \in Blocks : pins[b] # 0 => cache[b] # NoBuf
  /\ \A p \in Procs : pc[p] = "write_log" =>
       \A i \in 1..Len(lh) : i < tail[p] => dlog[i] = cache[lh[i]]
  /\ \A p \in Procs : pc[p] = "install" =>
       \A i \in 1..Len(lh) : IF i < tail[p] THEN disk[lh[i]] = dlog[i]
                                            ELSE cache[lh[i]] = dlog[i]
  /\ mode = "install" => \A i \in 1..Len(lh) : i < rtail => disk[lh[i]] = dlog[i]

LogInv == TypeOK /\ Calls /\ Headers /\ Pins /\ Data

-----------------------------------------------------------------------------
(* Types                                                                   *)

\* A call in progress is counted.
LEMMA Counted ==
  ASSUME Calls, NEW p \in Procs, pc[p] = "in"
  PROVE  outstanding \in Nat \ {0} /\ ~committing
<1>1. p \in In
  BY Zenon DEF In
<1> QED BY <1>1, FS_EmptySet, FS_CardinalityType, Zenon DEF Calls

\* Every step keeps the types.
LEMMA TypeStep ==
  ASSUME LogInv, [Next]_vars
  PROVE  TypeOK'
<1> USE DEF LogInv, TypeOK, diskVars, cacheVars, logVars, procVars, bootVars
<1>1. \A b \in Blocks : Contents(b) \in Vals \cup {Torn}
  BY Zenon DEF Contents
<1>2. \A i \in 1..Len(lh) : lh[i] \in Blocks /\ i \in Slots
  BY LogConstants DEF Headers, Slots
<1>3. ASSUME NEW p \in Procs, SystemCall(p) PROVE TypeOK'
  <2>1. CASE begin_op_sleep(p)
    BY <2>1, Zenon DEF begin_op_sleep
  <2>7. CASE begin_op(p)
    BY <2>7 DEF begin_op
  <2>2. ASSUME NEW b \in Blocks, bread(p, b) PROVE TypeOK'
    BY <1>1, <2>2, Zenon DEF bread
  <2>3. ASSUME NEW v \in Vals, log_write(p, v) PROVE TypeOK'
    <3>1. buf[p] \in Blocks
      BY <2>3, Zenon DEF log_write
    <3>2. lh' \in Seq(Blocks)
      BY <2>3, <3>1 DEF log_write
    <3>3. pins' \in [Blocks -> Nat]
      <4>1. pins' = pins \/ pins' = [pins EXCEPT ![buf[p]] = @ + 1]
        BY <2>3, Zenon DEF log_write, bpin
      <4>2. [pins EXCEPT ![buf[p]] = @ + 1] \in [Blocks -> Nat]
        BY <3>1
      <4> QED BY <4>1, <4>2, Zenon
    <3> QED BY <2>3, <3>1, <3>2, <3>3, Zenon DEF log_write
  <2>4. CASE brelse(p)
    BY <2>4, Zenon DEF brelse
  <2>5. CASE end_op_more(p)
    <3>1. outstanding - 1 \in Nat
      BY <2>5, Counted DEF end_op_more
    <3>2. pc' \in [Procs -> {"out", "asleep", "begin", "in", "write_log", "install", "end_commit"}]
      BY <2>5, Zenon DEF end_op_more, Woken
    <3> QED BY <2>5, <3>1, <3>2, Zenon DEF end_op_more
  <2>6. CASE end_op_last(p)
    BY <2>6 DEF end_op_last
  <2> QED BY <1>3, <2>1, <2>2, <2>3, <2>4, <2>5, <2>6, <2>7, Zenon DEF SystemCall
<1>4. ASSUME NEW p \in Procs, Commit(p) PROVE TypeOK'
  <2>1. CASE write_log(p)
    <3>1. lh[tail[p]] \in Blocks /\ tail[p] \in Slots
      BY <1>2, <2>1 DEF write_log
    <3> QED BY <1>1, <2>1, <3>1 DEF write_log
  <2>2. CASE write_head(p)
    BY <2>2 DEF write_head
  <2>3. CASE install_trans(p)
    <3>1. lh[tail[p]] \in Blocks /\ tail[p] \in Slots
      BY <1>2, <2>3 DEF install_trans
    <3>5. \A q \in Procs : pc[q] = "install" => q = p
      BY <2>3, Zenon DEF install_trans, Calls, Committing
    <3>2. Pinned(lh[tail[p]])
      <4>1. tail[p] \in 1..Len(lh) /\ mode = "up"
        BY <2>3 DEF install_trans
      <4>2. \A q \in Procs : pc[q] = "install" => tail[p] >= tail[q]
        BY <3>5
      <4> QED BY <4>1, <4>2, Zenon DEF Pinned
    <3>3. pins' = [pins EXCEPT ![lh[tail[p]]] = @ - 1] /\ pins[lh[tail[p]]] = 1
      BY <2>3, <3>1, <3>2, Zenon DEF install_trans, bunpin, Pins
    <3>4. pins' \in [Blocks -> Nat]
      BY <3>1, <3>3
    <3>6. cache' \in [Blocks -> Vals \cup {Torn, NoBuf}] /\ disk' \in [Blocks -> Vals \cup {Torn}]
      BY <2>3, <3>1, Zenon DEF install_trans
    <3>7. tail' \in [Procs -> Nat \ {0}]
      BY <2>3 DEF install_trans
    <3> QED BY <2>3, <3>4, <3>6, <3>7, Zenon DEF install_trans
  <2>4. CASE erase_head(p)
    BY <2>4 DEF erase_head
  <2>5. CASE end_commit(p)
    BY <2>5, Zenon DEF end_commit, Woken
  <2> QED BY <1>4, <2>1, <2>2, <2>3, <2>4, <2>5, Zenon DEF Commit
<1>5. ASSUME NEW b \in Blocks, recycle(b) PROVE TypeOK'
  BY <1>5, Zenon DEF recycle
<1>6. CASE Recover
  <2>1. CASE read_head
    BY <2>1 DEF read_head
  <2>3. CASE clear_log
    BY <2>3 DEF clear_log
  <2>2. CASE install_recovering
    <3>1. lh[rtail] \in Blocks /\ rtail \in Slots
      BY <1>2, <2>2 DEF install_recovering
    <3> QED BY <2>2, <3>1 DEF install_recovering
  <2> QED BY <1>6, <2>1, <2>2, <2>3, Zenon DEF Recover
<1>7. CASE Crash
  <2>1. disk' \in [Blocks -> Vals \cup {Torn}] /\ dlog' \in [Slots -> Vals \cup {Torn}]
    BY <1>7, Zenon DEF Crash
  <2>2. crashes' \in 0..MAXCRASH
    BY <1>7, LogConstants DEF Crash
  <2>3. /\ cache' = [b \in Blocks |-> NoBuf] /\ pins' = [b \in Blocks |-> 0]
        /\ pc' = [p \in Procs |-> "out"] /\ buf' = [p \in Procs |-> NoBuf]
        /\ wrote' = [p \in Procs |-> {}] /\ tail' = [p \in Procs |-> 1]
    BY <1>7, Zenon DEF Crash, ColdMemory
  <2>4. lh' = << >> /\ dhead' = dhead /\ outstanding' = 0 /\ committing' = FALSE
          /\ mode' = "read_head" /\ rtail' = 1
    BY <1>7, Zenon DEF Crash
  <2>5. << >> \in Seq(Blocks)
    OBVIOUS
  <2>6. /\ cache' \in [Blocks -> Vals \cup {Torn, NoBuf}] /\ pins' \in [Blocks -> Nat]
        /\ buf' \in [Procs -> Blocks \cup {NoBuf}] /\ wrote' \in [Procs -> SUBSET Blocks]
        /\ tail' \in [Procs -> Nat \ {0}]
        /\ pc' \in [Procs -> {"out", "asleep", "begin", "in", "write_log", "install", "end_commit"}]
    BY <2>3
  <2>7. /\ lh' \in Seq(Blocks) /\ dhead' \in Seq(Blocks) /\ outstanding' \in Nat
        /\ mode' \in {"read_head", "install", "up"} /\ rtail' \in Nat \ {0}
    BY <2>4, <2>5
  <2>8. committing' \in BOOLEAN
    BY <2>4, Zenon
  <2> QED BY <2>1, <2>2, <2>6, <2>7, <2>8, Zenon
<1>8. CASE UNCHANGED vars
  BY <1>8, Zenon DEF vars
<1> QED BY <1>3, <1>4, <1>5, <1>6, <1>7, <1>8, Zenon DEF Next

-----------------------------------------------------------------------------
(* Calls                                                                   *)

\* begin_op(), end_op() and the commit keep count of the calls in progress.
LEMMA CallsStep ==
  ASSUME LogInv, [Next]_vars
  PROVE  Calls'
<1> USE DEF LogInv
<1>t. /\ pc \in [Procs -> {"out", "asleep", "begin", "in", "write_log", "install", "end_commit"}]
      /\ buf \in [Procs -> Blocks \cup {NoBuf}] /\ NoBuf \notin Blocks
  BY LogSentinels, Zenon DEF TypeOK
<1>0. ASSUME UNCHANGED <<pc, buf, outstanding, committing>>, mode = "up" => mode' = "up"
      PROVE  Calls'
  BY <1>0, Zenon DEF Calls, In
<1>1. ASSUME NEW p \in Procs, SystemCall(p) PROVE Calls'
  <2>1. CASE begin_op_sleep(p)
    <3>1. pc' = [pc EXCEPT ![p] = "asleep"] /\ pc[p] \in {"out", "begin"} /\ mode = "up"
            /\ UNCHANGED <<buf, outstanding, committing, mode>>
      BY <2>1, Zenon DEF begin_op_sleep, logVars, bootVars
    <3>2. In' = In
      BY <1>t, <3>1, Zenon DEF In
    <3> QED BY <1>t, <3>1, <3>2, Zenon DEF Calls, Committing
  <2>2. CASE begin_op(p)
    <3>1. pc' = [pc EXCEPT ![p] = "in"] /\ pc[p] \in {"out", "begin"} /\ mode = "up" /\ ~committing
            /\ outstanding' = outstanding + 1 /\ UNCHANGED <<buf, committing, mode>>
      BY <2>2, Zenon DEF begin_op, bootVars
    <3>2. In' = In \cup {p} /\ p \notin In
      BY <1>t, <3>1, Zenon DEF In
    <3>3. IsFiniteSet(In') /\ outstanding' = Cardinality(In')
      BY <3>1, <3>2, FS_AddElement, Zenon DEF Calls
    <3> QED BY <1>t, <3>1, <3>3, Zenon DEF Calls, Committing
  <2>3. ASSUME NEW b \in Blocks, bread(p, b) PROVE Calls'
    <3>1. /\ buf' = [buf EXCEPT ![p] = b] /\ pc[p] = "in" /\ mode = "up"
          /\ UNCHANGED <<pc, outstanding, committing, mode>>
      BY <2>3, Zenon DEF bread, logVars, bootVars
    <3> QED BY <1>t, <3>1, Zenon DEF Calls, In
  <2>4. ASSUME NEW v \in Vals, log_write(p, v) PROVE Calls'
    BY <1>0, <2>4, Zenon DEF log_write, bootVars
  <2>5. CASE brelse(p)
    <3>1. /\ buf' = [buf EXCEPT ![p] = NoBuf]
          /\ UNCHANGED <<pc, outstanding, committing, mode>>
      BY <2>5, Zenon DEF brelse, logVars, bootVars
    <3> QED BY <1>t, <3>1, Zenon DEF Calls, In
  <2>6. ASSUME pc[p] = "in", buf[p] = NoBuf
        PROVE  IsFiniteSet(In \ {p}) /\ Cardinality(In \ {p}) = outstanding - 1
    BY <2>6, FS_RemoveElement, Zenon DEF Calls, In
  <2>7. CASE end_op_more(p)
    <3>1. /\ pc' = Woken([pc EXCEPT ![p] = "out"]) /\ pc[p] = "in" /\ buf[p] = NoBuf /\ mode = "up"
          /\ outstanding' = outstanding - 1 /\ ~committing /\ UNCHANGED <<buf, committing, mode>>
      BY <2>7, Zenon DEF end_op_more, bootVars
    <3>2. \A q \in Procs : pc'[q] = IF q = p THEN "out" ELSE IF pc[q] = "asleep" THEN "begin" ELSE pc[q]
      BY <1>t, <3>1, Zenon DEF Woken
    <3>3. In' = In \ {p}
      BY <1>t, <3>2, Zenon DEF In
    <3> QED BY <2>6, <3>1, <3>2, <3>3, Zenon DEF Calls, Committing
  <2>8. CASE end_op_last(p)
    <3>1. /\ pc' = [pc EXCEPT ![p] = IF lh = << >> THEN "end_commit" ELSE "write_log"]
          /\ pc[p] = "in" /\ buf[p] = NoBuf /\ mode = "up" /\ outstanding = 1 /\ outstanding' = 0
          /\ ~committing /\ committing' = TRUE /\ UNCHANGED <<buf, mode>>
      BY <2>8, Zenon DEF end_op_last, bootVars
    <3>2. \A q \in Procs : q # p => pc'[q] = pc[q]
      BY <1>t, <3>1, Zenon
    <3>3. pc'[p] \in {"end_commit", "write_log"}
      BY <1>t, <3>1, Zenon
    <3>4. In' = In \ {p}
      BY <3>2, <3>3, Zenon DEF In
    <3>5. In' = {} /\ IsFiniteSet(In') /\ outstanding' = Cardinality(In')
      BY <2>6, <3>1, <3>4, FS_EmptySet
    <3> QED BY <3>1, <3>2, <3>3, <3>5, Zenon DEF Calls, Committing
  <2> QED BY <1>1, <2>1, <2>2, <2>3, <2>4, <2>5, <2>7, <2>8, Zenon DEF SystemCall
<1>2. ASSUME NEW p \in Procs, Commit(p) PROVE Calls'
  <2>1. CASE write_log(p) \/ install_trans(p)
    BY <1>0, <2>1, Zenon DEF write_log, install_trans, logVars, bootVars
  <2>2. CASE write_head(p) \/ erase_head(p)
    <3>1. PICK l \in {"install", "end_commit"} :
            /\ pc' = [pc EXCEPT ![p] = l] /\ pc[p] \in {"write_log", "install"} /\ mode = "up"
            /\ UNCHANGED <<buf, outstanding, committing, mode>>
      BY <2>2, Zenon DEF write_head, erase_head, logVars, bootVars
    <3>2. In' = In
      BY <1>t, <3>1, Zenon DEF In
    <3> QED BY <1>t, <3>1, <3>2, Zenon DEF Calls, Committing
  <2>3. CASE end_commit(p)
    <3>1. /\ pc' = Woken([pc EXCEPT ![p] = "out"]) /\ pc[p] = "end_commit" /\ mode = "up"
          /\ committing' = FALSE /\ UNCHANGED <<buf, outstanding, mode>>
      BY <2>3, Zenon DEF end_commit, bootVars
    <3>2. \A q \in Procs : pc'[q] = IF q = p THEN "out" ELSE IF pc[q] = "asleep" THEN "begin" ELSE pc[q]
      BY <1>t, <3>1, Zenon DEF Woken
    <3>3. In' = In
      BY <3>1, <3>2, Zenon DEF In
    <3> QED BY <3>1, <3>2, <3>3, Zenon DEF Calls, Committing
  <2> QED BY <1>2, <2>1, <2>2, <2>3, Zenon DEF Commit
<1>3. ASSUME NEW b \in Blocks, recycle(b) PROVE Calls'
  BY <1>0, <1>3, Zenon DEF recycle, procVars, logVars, bootVars
<1>4. CASE Recover
  BY <1>0, <1>4, Zenon DEF Recover, read_head, install_recovering, clear_log,
     procVars, logVars
<1>5. CASE Crash
  <2>1. /\ pc' = [p \in Procs |-> "out"] /\ buf' = [p \in Procs |-> NoBuf]
        /\ outstanding' = 0 /\ committing' = FALSE
    BY <1>5, Zenon DEF Crash, ColdMemory
  <2>2. In' = {}
    BY <2>1, Zenon DEF In
  <2> QED BY <2>1, <2>2, FS_EmptySet, Zenon DEF Calls, Committing
<1>6. CASE UNCHANGED vars
  BY <1>0, <1>6, Zenon DEF vars, procVars, logVars, bootVars
<1> QED BY <1>1, <1>2, <1>3, <1>4, <1>5, <1>6, Zenon DEF Next

-----------------------------------------------------------------------------
(* Headers                                                                 *)

\* The blocks of a header.
LEMMA ElemsOf == ASSUME NEW S, NEW s \in Seq(S) PROVE Elems(s) = {s[i] : i \in 1..Len(s)}
  BY DEF Elems

\* A block that is not in the header yet can be appended to it.
LEMMA AppendDistinct ==
  ASSUME NEW S, NEW s \in Seq(S), NEW e \in S, Distinct(s), e \notin Elems(s)
  PROVE  Distinct(Append(s, e)) /\ Len(Append(s, e)) = Len(s) + 1
<1>1. \A i \in 1..(Len(s) + 1) : Append(s, e)[i] = IF i <= Len(s) THEN s[i] ELSE e
  OBVIOUS
<1>2. \A i \in 1..Len(s) : s[i] # e
  BY ElemsOf, Zenon
<1>3. Len(Append(s, e)) = Len(s) + 1 /\ Len(s) \in Nat
  OBVIOUS
<1>4. ASSUME NEW i \in 1..(Len(s) + 1), NEW j \in 1..(Len(s) + 1), Append(s, e)[i] = Append(s, e)[j]
      PROVE  i = j
  <2>1. CASE i <= Len(s) /\ j <= Len(s)
    BY <1>1, <1>4, <2>1 DEF Distinct
  <2>2. CASE i <= Len(s) /\ j = Len(s) + 1
    BY <1>1, <1>2, <1>3, <1>4, <2>2
  <2>3. CASE i = Len(s) + 1 /\ j <= Len(s)
    BY <1>1, <1>2, <1>3, <1>4, <2>3
  <2>4. CASE i = Len(s) + 1 /\ j = Len(s) + 1
    BY <2>4, Zenon
  <2> QED BY <1>3, <2>1, <2>2, <2>3, <2>4
<1> QED BY <1>3, <1>4, Zenon DEF Distinct

\* An empty header.
LEMMA EmptyHeader == Distinct(<< >>) /\ Len(<< >>) = 0 /\ Len(<< >>) <= NLOG - 1
  BY LogConstants DEF Distinct

\* log_write(), the commit and recovery keep both headers in agreement.
LEMMA HeadersStep ==
  ASSUME LogInv, [Next]_vars
  PROVE  Headers'
<1> USE DEF LogInv
<1>t. /\ pc \in [Procs -> {"out", "asleep", "begin", "in", "write_log", "install", "end_commit"}]
      /\ lh \in Seq(Blocks)
  BY Zenon DEF TypeOK
<1>0. ASSUME UNCHANGED <<pc, lh, dhead, committing, mode>> PROVE Headers'
  BY <1>0, Zenon DEF Headers, Installing, In
<1>1. ASSUME NEW p \in Procs, SystemCall(p) PROVE Headers'
  <2>0. mode = "up" /\ mode' = "up" /\ dhead' = dhead
    BY <1>1, Zenon DEF SystemCall, begin_op_sleep, begin_op, bread, log_write,
       brelse, end_op_more,
                end_op_last, bootVars, diskVars
  <2>1. CASE begin_op_sleep(p) \/ begin_op(p)
    <3>1. PICK l \in {"asleep", "in"} :
            /\ pc' = [pc EXCEPT ![p] = l] /\ pc[p] \in {"out", "begin"}
            /\ l = "in" \/ committing \/ lh = << >> \/ In # {}
            /\ UNCHANGED <<lh, committing>>
      BY <2>0, <2>1, Zenon DEF begin_op_sleep, begin_op, logVars, Headers
    <3>2. \A q \in Procs : q # p => pc'[q] = pc[q]
      BY <1>t, <3>1, Zenon
    <3>3. pc'[p] = l
      BY <1>t, <3>1, Zenon
    <3>4. Installing' <=> Installing
      BY <3>1, <3>2, <3>3, Zenon DEF Installing
    <3>5. In' = {} => In = {} /\ l # "in"
      BY <3>1, <3>2, <3>3, Zenon DEF In
    <3> QED BY <2>0, <3>1, <3>2, <3>3, <3>4, <3>5, Zenon DEF Headers
  <2>2. ASSUME NEW b \in Blocks, bread(p, b) PROVE Headers'
    BY <1>0, <2>0, <2>2, Zenon DEF bread, logVars
  <2>3. ASSUME NEW v \in Vals, log_write(p, v) PROVE Headers'
    <3>1. /\ UNCHANGED <<pc, committing>> /\ pc[p] = "in" /\ ~TooBig /\ buf[p] \in Blocks
          /\ lh' = IF buf[p] \notin Elems(lh) THEN Append(lh, buf[p]) ELSE lh
      BY <2>3, Zenon DEF log_write, TypeOK
    <3>2. Distinct(lh') /\ Len(lh') <= NLOG - 1
      <4>1. CASE buf[p] \in Elems(lh)
        BY <3>1, <4>1, Zenon DEF Headers
      <4>2. CASE buf[p] \notin Elems(lh)
        <5>1. Distinct(lh') /\ Len(lh') = Len(lh) + 1
          BY <1>t, <3>1, <4>2, AppendDistinct, Zenon DEF Headers
        <5>2. Len(lh) < NLOG - 1
          BY <1>t, <3>1, LogConstants DEF TooBig
        <5> QED BY <1>t, <5>1, <5>2, LogConstants
      <4> QED BY <4>1, <4>2, Zenon
    <3>3. p \in In' /\ ~committing /\ \A q \in Procs : pc'[q] \notin Committing
      BY <3>1, Counted, Zenon DEF In, Calls
    <3>4. (Installing' <=> Installing) /\ ~Installing
      BY <3>1, <3>3, Zenon DEF Installing, Committing
    <3> QED BY <2>0, <3>1, <3>2, <3>3, <3>4, Zenon DEF Headers, Committing
  <2>4. CASE brelse(p)
    BY <1>0, <2>0, <2>4, Zenon DEF brelse, logVars
  <2>5. CASE end_op_more(p)
    <3>1. /\ pc' = Woken([pc EXCEPT ![p] = "out"]) /\ pc[p] = "in"
          /\ ~committing /\ outstanding # 1 /\ UNCHANGED <<lh, committing>>
      BY <2>5, Zenon DEF end_op_more
    <3>2. \A q \in Procs : pc'[q] = IF q = p THEN "out" ELSE IF pc[q] = "asleep" THEN "begin" ELSE pc[q]
      BY <1>t, <3>1, Zenon DEF Woken
    <3>3. In' = In \ {p} /\ p \in In
      BY <1>t, <3>1, <3>2, Zenon DEF In
    <3>4. In' # {}
      <4>1. ASSUME In' = {} PROVE In = {p}
        BY <3>3, <4>1, Zenon
      <4>2. Cardinality({p}) = 1
        BY FS_Singleton, Zenon
      <4> QED BY <3>1, <4>1, <4>2, Zenon DEF Calls
    <3>5. (Installing' <=> Installing) /\ \A q \in Procs : pc'[q] = "end_commit" => pc[q] = "end_commit"
      BY <3>1, <3>2, ZenonT(40) DEF Installing
    <3> QED BY <2>0, <3>1, <3>4, <3>5, Zenon DEF Headers
  <2>6. CASE end_op_last(p)
    <3>1. /\ pc' = [pc EXCEPT ![p] = IF lh = << >> THEN "end_commit" ELSE "write_log"]
          /\ pc[p] = "in" /\ committing' = TRUE /\ UNCHANGED lh
      BY <2>6, Zenon DEF end_op_last
    <3>2. \A q \in Procs : q # p => pc'[q] = pc[q]
      BY <1>t, <3>1, Zenon
    <3>3. pc'[p] = IF lh = << >> THEN "end_commit" ELSE "write_log"
      BY <1>t, <3>1, Zenon
    <3>4. Installing' <=> Installing
      BY <3>1, <3>2, <3>3 DEF Installing
    <3> QED BY <2>0, <3>1, <3>2, <3>3, <3>4 DEF Headers
  <2> QED BY <1>1, <2>1, <2>2, <2>3, <2>4, <2>5, <2>6, Zenon DEF SystemCall
<1>2. ASSUME NEW p \in Procs, Commit(p) PROVE Headers'
  <2>0. /\ mode = "up" /\ mode' = "up" /\ pc[p] \in Committing /\ committing
        /\ \A q \in Procs : pc[q] \in Committing => q = p
    BY <1>2, Zenon DEF Commit, write_log, write_head, install_trans, erase_head,
       end_commit, bootVars,
                Committing, Calls
  <2>1. CASE write_log(p) \/ install_trans(p)
    BY <1>0, <2>0, <2>1, Zenon DEF write_log, install_trans, logVars
  <2>2. CASE write_head(p)
    <3>1. pc' = [pc EXCEPT ![p] = "install"] /\ dhead' = lh /\ UNCHANGED <<lh, committing>>
      BY <2>2, Zenon DEF write_head, logVars
    <3>2. pc'[p] = "install" /\ \A q \in Procs : q # p => pc'[q] = pc[q]
      BY <1>t, <3>1, Zenon
    <3>3. Installing' /\ \A q \in Procs : pc'[q] # "end_commit"
      BY <2>0, <3>2, Zenon DEF Installing, Committing
    <3> QED BY <2>0, <3>1, <3>3, Zenon DEF Headers
  <2>3. CASE erase_head(p)
    <3>1. /\ pc' = [pc EXCEPT ![p] = "end_commit"] /\ lh' = << >> /\ dhead' = << >>
      BY <2>3, Zenon DEF erase_head
    <3> QED BY <2>0, <3>1, EmptyHeader, Zenon DEF Headers
  <2>4. CASE end_commit(p)
    <3>1. /\ pc' = Woken([pc EXCEPT ![p] = "out"]) /\ pc[p] = "end_commit"
          /\ UNCHANGED <<lh, dhead>>
      BY <2>4, Zenon DEF end_commit, diskVars
    <3>2. lh = << >> /\ ~Installing
      BY <2>0, <3>1, Zenon DEF Headers, Installing, Committing
    <3> QED BY <2>0, <3>1, <3>2, EmptyHeader, Zenon DEF Headers
  <2> QED BY <1>2, <2>1, <2>2, <2>3, <2>4, Zenon DEF Commit
<1>3. ASSUME NEW b \in Blocks, recycle(b) PROVE Headers'
  BY <1>0, <1>3, Zenon DEF recycle, procVars, logVars, bootVars, diskVars
<1>4. CASE Recover
  <2>0. UNCHANGED <<pc, committing>> /\ mode # "up"
    BY <1>4, Zenon DEF Recover, read_head, install_recovering, clear_log, procVars,
       logVars
  <2>1. \A q \in Procs : pc[q] = "out"
    BY <2>0, Zenon DEF Calls
  <2>2. CASE read_head
    BY <2>0, <2>1, <2>2, Zenon DEF read_head, diskVars, Headers
  <2>3. CASE install_recovering
    BY <1>0, <2>0, <2>3, Zenon DEF install_recovering, logVars
  <2>4. CASE clear_log
    BY <2>0, <2>1, <2>4, EmptyHeader, Zenon DEF clear_log, Headers
  <2> QED BY <1>4, <2>2, <2>3, <2>4, Zenon DEF Recover
<1>5. CASE Crash
  <2>1. /\ pc' = [p \in Procs |-> "out"] /\ lh' = << >> /\ dhead' = dhead /\ mode' = "read_head"
    BY <1>5, Zenon DEF Crash, ColdMemory
  <2> QED BY <2>1, EmptyHeader, Zenon DEF Headers
<1>6. CASE UNCHANGED vars
  BY <1>0, <1>6, Zenon DEF vars, procVars, logVars, bootVars, diskVars
<1> QED BY <1>1, <1>2, <1>3, <1>4, <1>5, <1>6, Zenon DEF Next

-----------------------------------------------------------------------------
(* Pins                                                                    *)

\* Unless a commit is installing, the pinned blocks are those of the header.
LEMMA PinnedIsLogged ==
  ASSUME lh \in Seq(Blocks), mode = "up", ~Installing, NEW b
  PROVE  Pinned(b) <=> b \in Elems(lh)
<1>1. Elems(lh) = {lh[i] : i \in 1..Len(lh)}
  BY ElemsOf, Zenon
<1> QED BY <1>1, Zenon DEF Pinned, Installing

\* The process at label "install" is the only one.
LEMMA PinnedInstalling ==
  ASSUME LogInv, NEW p \in Procs, pc[p] = "install", mode = "up", NEW b
  PROVE  Pinned(b) <=> \E i \in 1..Len(lh) : lh[i] = b /\ i >= tail[p]
  BY Zenon DEF LogInv, Pinned, Calls, Committing

\* log_write() pins a block once, and install_trans() unpins it.
LEMMA PinsStep ==
  ASSUME LogInv, TypeOK', Calls', Headers', [Next]_vars
  PROVE  Pins'
<1> USE DEF LogInv
<1>t. /\ pc \in [Procs -> {"out", "asleep", "begin", "in", "write_log", "install", "end_commit"}]
      /\ lh \in Seq(Blocks) /\ tail \in [Procs -> Nat \ {0}] /\ pins \in [Blocks -> Nat]
  BY SMTT(30), Zenon DEF TypeOK
<1>0. ASSUME UNCHANGED <<lh, mode, pins>>,
             \A q \in Procs : /\ pc'[q] = "install" <=> pc[q] = "install"
                              /\ pc[q] = "install" => tail'[q] = tail[q]
      PROVE  Pins'
  <2>1. \A b \in Blocks : Pinned(b)' <=> Pinned(b)
    BY <1>0, Zenon DEF Pinned
  <2> QED BY <1>0, <2>1, Zenon DEF Pins
<1>e. ASSUME mode' = "up" => lh' = << >>, \A b \in Blocks : pins'[b] = 0 PROVE Pins'
  BY <1>e, EmptyHeader DEF Pins, Pinned
<1>1. ASSUME NEW p \in Procs, SystemCall(p) PROVE Pins'
  <2>0. mode = "up" /\ mode' = "up"
    BY <1>1, Zenon DEF SystemCall, begin_op_sleep, begin_op, bread, log_write,
       brelse, end_op_more,
                end_op_last, bootVars
  <2>1. CASE begin_op_sleep(p)
    BY <1>0, <1>t, <2>0, <2>1, Zenon DEF begin_op_sleep, logVars, cacheVars
  <2>2. CASE begin_op(p)
    BY <1>0, <1>t, <2>0, <2>2, Zenon DEF begin_op, cacheVars
  <2>3. ASSUME NEW b \in Blocks, bread(p, b) PROVE Pins'
    BY <1>0, <2>0, <2>3, Zenon DEF bread, logVars
  <2>4. ASSUME NEW v \in Vals, log_write(p, v) PROVE Pins'
    <3>1. /\ UNCHANGED pc /\ pc[p] = "in" /\ buf[p] \in Blocks
          /\ lh' = IF buf[p] \notin Elems(lh) THEN Append(lh, buf[p]) ELSE lh
          /\ pins' = IF buf[p] \notin Elems(lh) THEN [pins EXCEPT ![buf[p]] = @ + 1] ELSE pins
      BY <2>4, Zenon DEF log_write, bpin, TypeOK
    <3>2. ~Installing /\ ~Installing' /\ lh' \in Seq(Blocks)
      BY <1>t, <3>1, Counted DEF Installing, Calls, Committing
    <3>3. \A b \in Blocks : (Pinned(b) <=> b \in Elems(lh)) /\ (Pinned(b)' <=> b \in Elems(lh'))
      <4>1. \A b \in Blocks : Pinned(b) <=> b \in Elems(lh)
        BY <1>t, <2>0, <3>2, PinnedIsLogged, Zenon
      <4>2. Elems(lh') = {lh'[i] : i \in 1..Len(lh')}
        BY <3>2, ElemsOf, Zenon
      <4>3. \A b \in Blocks : Pinned(b)' <=> b \in Elems(lh')
        BY <2>0, <3>2, <4>2, Zenon DEF Pinned, Installing
      <4> QED BY <4>1, <4>3, Zenon
    <3>4. CASE buf[p] \in Elems(lh)
      BY <3>1, <3>3, <3>4, Zenon DEF Pins
    <3>5. CASE buf[p] \notin Elems(lh)
      <4>1. Elems(lh') = Elems(lh) \cup {buf[p]}
        <5>1. \A i \in 1..(Len(lh) + 1) : lh'[i] = IF i <= Len(lh) THEN lh[i] ELSE buf[p]
          BY <1>t, <3>1, <3>5
        <5>2. Len(lh') = Len(lh) + 1 /\ Len(lh) \in Nat
          BY <1>t, <3>1, <3>5
        <5>3. Elems(lh) = {lh[i] : i \in 1..Len(lh)} /\ Elems(lh') = {lh'[i] : i \in 1..(Len(lh) + 1)}
          BY <1>t, <3>2, <5>2, ElemsOf, Zenon
        <5>4. 1..(Len(lh) + 1) = 1..Len(lh) \cup {Len(lh) + 1}
          BY <5>2
        <5> HIDE DEF Elems
        <5> QED BY <5>1, <5>2, <5>3, <5>4
      <4>2. pins[buf[p]] = 0
        BY <3>1, <3>3, <3>5, Zenon DEF Pins
      <4> QED BY <1>t, <3>1, <3>3, <3>5, <4>1, <4>2 DEF Pins
    <3> QED BY <3>4, <3>5, Zenon
  <2>5. CASE brelse(p)
    BY <1>0, <2>0, <2>5, Zenon DEF brelse, logVars, cacheVars
  <2>6. CASE end_op_more(p)
    <3>1. \A q \in Procs : pc'[q] = "install" <=> pc[q] = "install"
      BY <1>t, <2>6, Zenon DEF end_op_more, Woken
    <3> QED BY <1>0, <2>0, <2>6, <3>1, ZenonT(40) DEF end_op_more, cacheVars
  <2>7. CASE end_op_last(p)
    <3>1. \A q \in Procs : /\ pc'[q] = "install" <=> pc[q] = "install"
                           /\ pc[q] = "install" => tail'[q] = tail[q]
      BY <1>t, <2>7, Zenon DEF end_op_last
    <3> QED BY <1>0, <2>0, <2>7, <3>1, Zenon DEF end_op_last, cacheVars
  <2> QED BY <1>1, <2>1, <2>2, <2>3, <2>4, <2>5, <2>6, <2>7, Zenon DEF SystemCall
<1>2. ASSUME NEW p \in Procs, Commit(p) PROVE Pins'
  <2>0. /\ mode = "up" /\ mode' = "up" /\ pc[p] \in Committing
        /\ \A q \in Procs : pc[q] \in Committing => q = p
    BY <1>2, Zenon
      DEF Commit, write_log, write_head, install_trans, erase_head, end_commit,
      bootVars,
                Committing, Calls
  <2>1. CASE write_log(p)
    <3>1. \A q \in Procs : pc[q] = "install" => tail'[q] = tail[q]
      BY <1>t, <2>0, <2>1, Zenon DEF write_log, Committing
    <3> QED BY <1>0, <2>0, <2>1, <3>1, Zenon DEF write_log, logVars
  <2>2. CASE write_head(p)
    <3>1. /\ pc' = [pc EXCEPT ![p] = "install"] /\ tail' = [tail EXCEPT ![p] = 1]
          /\ pc[p] = "write_log" /\ UNCHANGED <<lh, pins>>
      BY <2>2, Zenon DEF write_head, logVars, cacheVars
    <3>2. \A q \in Procs : pc'[q] = "install" => tail'[q] = 1
      BY <1>t, <2>0, <3>1, Zenon DEF Committing
    <3>3. \A q \in Procs : pc[q] # "install"
      BY <2>0, <3>1, Zenon DEF Committing
    <3>4. \A b \in Blocks : Pinned(b)' <=> Pinned(b)
      BY <2>0, <3>1, <3>2, <3>3 DEF Pinned
    <3> QED BY <3>1, <3>4, Zenon DEF Pins
  <2>3. CASE install_trans(p)
    <3> DEFINE t == tail[p]
    <3>1. /\ pc[p] = "install" /\ t \in 1..Len(lh) /\ lh[t] \in Blocks
          /\ pins' = [pins EXCEPT ![lh[t]] = @ - 1]
          /\ tail' = [tail EXCEPT ![p] = t + 1] /\ UNCHANGED <<lh, pc>>
      BY <1>t, <2>3 DEF install_trans, bunpin, logVars
    <3>2. \A b \in Blocks : Pinned(b) <=> \E i \in 1..Len(lh) : lh[i] = b /\ i >= t
      BY <2>0, <3>1, PinnedInstalling, Zenon
    <3>3. tail'[p] = t + 1 /\ \A q \in Procs : pc'[q] = "install" => q = p
      BY <1>t, <2>0, <3>1, Zenon DEF Committing
    <3>4. \A b \in Blocks : Pinned(b)' <=> \E i \in 1..Len(lh) : lh[i] = b /\ i >= t + 1
      BY <2>0, <3>1, <3>3, Zenon DEF Pinned
    <3>5. \A i \in 1..Len(lh) : lh[i] = lh[t] => i = t
      BY <3>1, Zenon DEF Headers, Distinct
    <3>6. t \in Nat /\ Len(lh) \in Nat
      BY <1>t
    <3> HIDE DEF t
    <3>7. \A b \in Blocks : Pinned(b)' <=> Pinned(b) /\ b # lh[t]
      BY <3>1, <3>2, <3>4, <3>5, <3>6
    <3>8. Pinned(lh[t])
      BY <3>1, <3>2, <3>6
    <3> QED BY <1>t, <3>1, <3>7, <3>8 DEF Pins
  <2>4. CASE erase_head(p)
    <3>1. pc[p] = "install" /\ tail[p] > Len(lh) /\ lh' = << >> /\ pins' = pins
      BY <2>4, Zenon DEF erase_head, cacheVars
    <3>2. \A b \in Blocks : ~Pinned(b)
      BY <1>t, <2>0, <3>1, PinnedInstalling
    <3> QED BY <1>e, <3>1, <3>2, Zenon DEF Pins
  <2>5. CASE end_commit(p)
    <3>1. \A q \in Procs : pc'[q] = "install" <=> pc[q] = "install"
      BY <1>t, <2>5, Zenon DEF end_commit, Woken
    <3> QED BY <1>0, <2>0, <2>5, <3>1, Zenon DEF end_commit, cacheVars
  <2> QED BY <1>2, <2>1, <2>2, <2>3, <2>4, <2>5, Zenon DEF Commit
<1>3. ASSUME NEW b \in Blocks, recycle(b) PROVE Pins'
  BY <1>0, <1>3, Zenon DEF recycle, procVars, logVars, bootVars
<1>4. CASE Recover
  <2>1. pins' = pins /\ mode # "up" /\ (mode' = "up" => lh' = << >>)
    BY <1>4, Zenon DEF Recover, read_head, install_recovering, clear_log, cacheVars
  <2>2. \A b \in Blocks : pins[b] = 0
    BY <2>1, Zenon DEF Pins, Pinned
  <2> QED BY <1>e, <2>1, <2>2, Zenon
<1>5. CASE Crash
  BY <1>e, <1>5, ZenonT(40) DEF Crash, ColdMemory
<1>6. CASE UNCHANGED vars
  BY <1>0, <1>6, Zenon DEF vars, procVars, logVars, bootVars, cacheVars
<1> QED BY <1>1, <1>2, <1>3, <1>4, <1>5, <1>6, Zenon DEF Next

-----------------------------------------------------------------------------
(* What recovery restores                                                  *)

Restored(d, l, h) ==
  [b \in Blocks |->
     LET at == {i \in DOMAIN h : h[i] = b}
     IN  IF at = {} THEN d[b] ELSE l[CHOOSE i \in at : TRUE]]

\* A block of the header is restored from its log block.
LEMMA RestoredIn ==
  ASSUME NEW d, NEW l, NEW h \in Seq(Blocks), Distinct(h), NEW i \in 1..Len(h)
  PROVE  Restored(d, l, h)[h[i]] = l[i]
<1>1. h[i] \in Blocks /\ i \in DOMAIN h /\ DOMAIN h = 1..Len(h)
  OBVIOUS
<1>2. {j \in DOMAIN h : h[j] = h[i]} = {i}
  BY <1>1, Zenon DEF Distinct
<1> QED BY <1>1, <1>2, Zenon DEF Restored

\* A block that is not in the header stays as it is.
LEMMA RestoredOut ==
  ASSUME NEW d, NEW l, NEW h \in Seq(Blocks), NEW b \in Blocks,
         \A i \in 1..Len(h) : h[i] # b
  PROVE  Restored(d, l, h)[b] = d[b]
<1>1. {j \in DOMAIN h : h[j] = b} = {}
  OBVIOUS
<1> QED BY <1>1, Zenon DEF Restored

\* An empty header restores nothing.
LEMMA RestoredEmpty ==
  ASSUME NEW d, NEW l
  PROVE  \A b \in Blocks : Restored(d, l, << >>)[b] = d[b]
<1>1. << >> \in Seq(Blocks) /\ Len(<< >>) = 0
  OBVIOUS
<1>2. \A i \in 1..Len(<< >>) : FALSE
  BY <1>1
<1> QED BY <1>1, <1>2, RestoredOut, ZenonT(40)

\* Recovery installs the log under the header on the disk.
LEMMA RecoveredIs ==
  /\ Recovered = Restored(disk, dlog, dhead)
  /\ Recovered' = Restored(disk', dlog', dhead')
  BY Zenon DEF Recovered, Restored

\* Recovery takes a block that the header names from the log.
LEMMA RecoveredAt ==
  ASSUME lh \in Seq(Blocks), dhead = lh, Distinct(lh), NEW i \in 1..Len(lh)
  PROVE  Recovered[lh[i]] = dlog[i]
<1>1. Recovered = Restored(disk, dlog, lh)
  BY RecoveredIs, Zenon
<1>2. Restored(disk, dlog, lh)[lh[i]] = dlog[i]
  BY RestoredIn
<1> QED BY <1>1, <1>2, Zenon

\* When every committed block is in its place, the header can be erased.
LEMMA RestoredErased ==
  ASSUME NEW d, NEW l, NEW h \in Seq(Blocks), Distinct(h),
         \A i \in 1..Len(h) : d[h[i]] = l[i]
  PROVE  Restored(d, l, << >>) = Restored(d, l, h)
<1>1. ASSUME NEW b \in Blocks PROVE Restored(d, l, << >>)[b] = Restored(d, l, h)[b]
  <2>1. Restored(d, l, << >>)[b] = d[b]
    BY RestoredEmpty, Zenon
  <2>2. CASE \E i \in 1..Len(h) : h[i] = b
    BY <2>1, <2>2, RestoredIn
  <2>3. CASE \A i \in 1..Len(h) : h[i] # b
    BY <2>1, <2>3, RestoredOut, Zenon
  <2> QED BY <2>2, <2>3, Zenon
<1> QED BY <1>1, Zenon DEF Restored

\* Of all steps only the first write of the header changes what recovery
\* restores: an install, torn by a power failure or not, overwrites a block that
\* the log holds, and write_log() writes to a log that is empty.
LEMMA RecoveredSame ==
  ASSUME LogInv, [Next]_vars, \A p \in Procs : ~write_head(p)
  PROVE  Recovered' = Recovered
<1> USE DEF LogInv
<1>t. dhead \in Seq(Blocks) /\ lh \in Seq(Blocks) /\ tail \in [Procs -> Nat \ {0}]
  BY Zenon DEF TypeOK
<1>0. ASSUME dhead' = dhead, dhead = << >> \/ dlog' = dlog,
             \A b \in Blocks : disk'[b] = disk[b] \/ \E i \in 1..Len(dhead) : dhead[i] = b
      PROVE  Recovered' = Recovered
  <2>1. DOMAIN dhead = 1..Len(dhead)
    BY <1>t
  <2>2. CASE dlog' = dlog
    BY <1>0, <2>1, <2>2 DEF Recovered
  <2>3. CASE dhead = << >>
    <3>1. \A b \in Blocks : disk'[b] = disk[b]
      BY <1>0, <2>3, EmptyHeader
    <3>2. \A b \in Blocks : {i \in DOMAIN dhead : dhead[i] = b} = {}
      BY <2>1, <2>3, EmptyHeader
    <3> QED BY <1>0, <3>1, <3>2 DEF Recovered
  <2> QED BY <1>0, <2>2, <2>3, Zenon
<1>1. ASSUME NEW p \in Procs, SystemCall(p) PROVE Recovered' = Recovered
  <2>1. UNCHANGED diskVars
    BY <1>1, Zenon DEF SystemCall, begin_op_sleep, begin_op, bread, log_write,
       brelse, end_op_more,
                end_op_last
  <2> QED BY <1>0, <2>1, Zenon DEF diskVars
<1>2. ASSUME NEW p \in Procs, Commit(p) PROVE Recovered' = Recovered
  <2>1. CASE write_log(p)
    <3>1. mode = "up" /\ pc[p] = "write_log" /\ UNCHANGED <<disk, dhead>>
      BY <2>1, Zenon DEF write_log
    <3>2. dhead = << >>
      BY <3>1, Zenon DEF Headers, Installing, Calls, Committing
    <3> QED BY <1>0, <3>1, <3>2, Zenon
  <2>2. CASE install_trans(p)
    <3>1. /\ mode = "up" /\ pc[p] = "install" /\ tail[p] \in 1..Len(lh)
          /\ disk' = [disk EXCEPT ![lh[tail[p]]] = dlog[tail[p]]] /\ UNCHANGED <<dlog, dhead>>
      BY <1>t, <2>2, SMTT(30) DEF install_trans
    <3>2. dhead = lh
      BY <3>1, Zenon DEF Headers, Installing
    <3>3. \A b \in Blocks : disk'[b] = disk[b] \/ b = dhead[tail[p]]
      BY <3>1, <3>2, Zenon DEF TypeOK
    <3> QED BY <1>0, <3>1, <3>2, <3>3, Zenon
  <2>3. CASE erase_head(p)
    <3>1. /\ mode = "up" /\ pc[p] = "install" /\ tail[p] > Len(lh)
          /\ dhead' = << >> /\ UNCHANGED <<disk, dlog>>
      BY <2>3, Zenon DEF erase_head
    <3>2. dhead = lh
      BY <3>1, Zenon DEF Headers, Installing
    <3>3. \A i \in 1..Len(dhead) : disk[dhead[i]] = dlog[i]
      BY <1>t, <3>1, <3>2 DEF Data
    <3> QED BY <1>t, <3>1, <3>3, RecoveredIs, RestoredErased, Zenon DEF Headers
  <2>4. CASE end_commit(p)
    BY <1>0, <2>4, Zenon DEF end_commit, diskVars
  <2> QED BY <1>2, <2>1, <2>2, <2>3, <2>4, Zenon DEF Commit
<1>3. ASSUME NEW b \in Blocks, recycle(b) PROVE Recovered' = Recovered
  BY <1>0, <1>3, Zenon DEF recycle, diskVars
<1>4. CASE Recover
  <2>1. CASE read_head
    BY <1>0, <2>1, Zenon DEF read_head, diskVars
  <2>2. CASE install_recovering
    <3>1. /\ mode = "install" /\ rtail \in 1..Len(lh)
          /\ disk' = [disk EXCEPT ![lh[rtail]] = dlog[rtail]] /\ UNCHANGED <<dlog, dhead>>
      BY <1>t, <2>2 DEF install_recovering, TypeOK
    <3>2. dhead = lh
      BY <3>1, Zenon DEF Headers
    <3>3. \A b \in Blocks : disk'[b] = disk[b] \/ b = dhead[rtail]
      BY <3>1, <3>2, Zenon DEF TypeOK
    <3> QED BY <1>0, <3>1, <3>2, <3>3, Zenon
  <2>3. CASE clear_log
    <3>1. mode = "install" /\ rtail > Len(lh) /\ dhead' = << >> /\ UNCHANGED <<disk, dlog>>
      BY <2>3, Zenon DEF clear_log
    <3>2. dhead = lh
      BY <3>1, Zenon DEF Headers
    <3>3. \A i \in 1..Len(dhead) : disk[dhead[i]] = dlog[i]
      BY <1>t, <3>1, <3>2 DEF Data, TypeOK
    <3> QED BY <1>t, <3>1, <3>3, RecoveredIs, RestoredErased, Zenon DEF Headers
  <2> QED BY <1>4, <2>1, <2>2, <2>3, Zenon DEF Recover
<1>5. CASE Crash
  <2>1. PICK H \in SUBSET HomeInFlight, S \in SUBSET SlotInFlight :
          /\ disk' = [b \in Blocks |-> IF b \in H THEN Torn ELSE disk[b]]
          /\ dlog' = [i \in Slots |-> IF i \in S THEN Torn ELSE dlog[i]]
    BY <1>5, Zenon DEF Crash
  <2>2. \A b \in HomeInFlight : \E i \in 1..Len(dhead) : dhead[i] = b
    <3>1. ASSUME NEW q \in Procs, pc[q] = "install", tail[q] <= Len(lh)
          PROVE  \E i \in 1..Len(dhead) : dhead[i] = lh[tail[q]]
      <4>1. mode = "up"
        BY <3>1, Zenon DEF Calls, TypeOK
      <4>2. dhead = lh
        BY <3>1, <4>1, Zenon DEF Headers, Installing
      <4> QED BY <1>t, <3>1, <4>2
    <3>2. ASSUME mode = "install", rtail <= Len(lh)
          PROVE  \E i \in 1..Len(dhead) : dhead[i] = lh[rtail]
      <4>1. dhead = lh
        BY <3>2, Zenon DEF Headers
      <4> QED BY <1>t, <3>2, <4>1 DEF TypeOK
    <3> QED BY <3>1, <3>2 DEF HomeInFlight
  <2>3. CASE SlotInFlight = {}
    <3>1. dlog' = dlog
      BY <2>1, <2>3, Zenon DEF TypeOK
    <3> QED BY <1>0, <1>5, <2>1, <2>2, <3>1, Zenon DEF Crash
  <2>4. CASE SlotInFlight # {}
    <3>1. PICK q \in Procs : pc[q] = "write_log"
      BY <2>4, Zenon DEF SlotInFlight
    <3>2. mode = "up" /\ ~Installing
      BY <3>1, Zenon DEF Calls, TypeOK, Installing, Committing
    <3>3. dhead = << >>
      BY <3>2, Zenon DEF Headers
    <3> QED BY <1>0, <1>5, <2>1, <2>2, <3>3, Zenon DEF Crash
  <2> QED BY <2>3, <2>4, Zenon
<1>6. CASE UNCHANGED vars
  BY <1>0, <1>6, Zenon DEF vars, diskVars
<1> QED BY <1>1, <1>2, <1>3, <1>4, <1>5, <1>6, Zenon DEF Next

-----------------------------------------------------------------------------
(* Contents                                                                *)

\* What the system calls read.
Seen == [b \in Blocks |-> IF cache[b] # NoBuf THEN cache[b] ELSE Recovered[b]]

\* A block of the header of a commit that has not installed it is pinned.
LEMMA LoggedPinned ==
  ASSUME LogInv, mode = "up", ~Installing, NEW i \in 1..Len(lh)
  PROVE  lh[i] \in Blocks /\ pins[lh[i]] = 1 /\ cache[lh[i]] # NoBuf
<1>1. lh[i] \in Blocks
  BY DEF LogInv, TypeOK
<1>2. Pinned(lh[i])
  BY Zenon DEF Pinned, Installing
<1> QED BY <1>1, <1>2 DEF LogInv, Pins, Data

\* The first write of the header commits what the system calls wrote.
LEMMA RecoveredCommits ==
  ASSUME LogInv, NEW p \in Procs, write_head(p)
  PROVE  Recovered' = Seen
<1> USE DEF LogInv
<1>1. /\ mode = "up" /\ pc[p] = "write_log" /\ tail[p] > Len(lh)
      /\ dhead' = lh /\ UNCHANGED <<disk, dlog, cache>>
  BY Zenon DEF write_head, cacheVars
<1>2. ~Installing /\ dhead = << >>
  BY <1>1, Zenon DEF Installing, Headers, Calls, Committing
<1>3. Recovered = Restored(disk, dlog, << >>) /\ Recovered' = Restored(disk, dlog, lh)
  BY <1>1, <1>2, RecoveredIs, Zenon
<1>4. lh \in Seq(Blocks) /\ Distinct(lh) /\ Len(lh) \in Nat /\ tail[p] \in Nat
  BY DEF TypeOK, Headers
<1>5. ASSUME NEW b \in Blocks PROVE Recovered'[b] = Seen[b]
  <2>1. CASE \E i \in 1..Len(lh) : lh[i] = b
    <3>1. PICK i \in 1..Len(lh) : lh[i] = b
      BY <2>1, Zenon
    <3>2. Recovered'[b] = dlog[i]
      BY <1>3, <1>4, <3>1, RestoredIn, SMTT(30)
    <3>3. dlog[i] = cache[b]
      BY <1>1, <1>4, <3>1 DEF Data
    <3>4. cache[b] # NoBuf
      BY <1>1, <1>2, <3>1, LoggedPinned, Zenon
    <3> QED BY <3>2, <3>3, <3>4, Zenon DEF Seen
  <2>2. CASE \A i \in 1..Len(lh) : lh[i] # b
    <3>1. Recovered'[b] = disk[b] /\ Recovered[b] = disk[b]
      BY <1>3, <1>4, <2>2, RestoredOut, RestoredEmpty
    <3>2. pins[b] = 0
      BY <2>2, Zenon DEF Pins, Pinned
    <3>3. cache[b] \in {NoBuf, Recovered[b]}
      BY <3>2, Zenon DEF Data
    <3> QED BY <3>1, <3>3, Zenon DEF Seen
  <2> QED BY <2>1, <2>2, Zenon
<1>6. Recovered' = [b \in Blocks |-> Recovered'[b]]
  BY <1>3 DEF Restored
<1> QED BY <1>5, <1>6, Zenon DEF Seen



-----------------------------------------------------------------------------
(* Data: every step keeps it                                               *)

\* Every step, a power failure included, keeps the contents as Data says.
LEMMA DataStep ==
  ASSUME LogInv, TypeOK', Calls', Headers', Pins', [Next]_vars
  PROVE  Data'
<1> USE DEF LogInv
<1>t. /\ pc \in [Procs -> {"out", "asleep", "begin", "in", "write_log", "install", "end_commit"}]
      /\ lh \in Seq(Blocks) /\ tail \in [Procs -> Nat \ {0}] /\ pins \in [Blocks -> Nat]
      /\ cache \in [Blocks -> Vals \cup {Torn, NoBuf}] /\ Len(lh) \in Nat
      /\ disk \in [Blocks -> Vals \cup {Torn}] /\ dlog \in [Slots -> Vals \cup {Torn}]
      /\ NoBuf \notin Vals \cup {Torn}
  BY LogSentinels DEF TypeOK
<1>0. ASSUME UNCHANGED <<diskVars, cacheVars, lh, mode, rtail>>, Recovered' = Recovered,
             \A q \in Procs : pc'[q] \in {"write_log", "install"} =>
                                pc'[q] = pc[q] /\ tail'[q] = tail[q]
      PROVE  Data'
  <2>1. disk' = disk /\ dlog' = dlog /\ cache' = cache /\ pins' = pins
    BY <1>0, Zenon DEF diskVars, cacheVars
  <2> QED BY <1>0, <2>1 DEF Data
<1>q. ASSUME \A q \in Procs : pc'[q] \notin {"write_log", "install"}, mode' # "install",
             \A b \in Blocks : pins'[b] = 0 => cache'[b] \in {NoBuf, Recovered'[b]},
             \A b \in Blocks : pins'[b] # 0 => cache'[b] # NoBuf
      PROVE  Data'
  BY <1>q, Zenon DEF Data
<1>1. ASSUME NEW p \in Procs, SystemCall(p) PROVE Data'
  <2>r. Recovered' = Recovered
    <3>1. UNCHANGED diskVars
      BY <1>1, Zenon DEF SystemCall, begin_op_sleep, begin_op, bread, log_write,
         brelse, end_op_more,
                  end_op_last
    <3> QED BY <3>1 DEF Recovered, diskVars
  <2>1. CASE begin_op_sleep(p)
    BY <1>0, <1>t, <2>r, <2>1, Zenon DEF begin_op_sleep, logVars, bootVars
  <2>2. CASE begin_op(p)
    BY <1>0, <1>t, <2>r, <2>2, Zenon DEF begin_op, bootVars
  <2>3. ASSUME NEW b \in Blocks, bread(p, b) PROVE Data'
    <3>1. /\ mode = "up" /\ pc[p] = "in" /\ mode' = "up" /\ UNCHANGED <<pc, pins>>
          /\ cache' = [cache EXCEPT ![b] = Contents(b)]
      BY <2>3, Zenon DEF bread, bootVars
    <3>2. \A q \in Procs : pc[q] \notin {"write_log", "install"}
      BY <3>1, Counted, Zenon DEF Calls, Committing
    <3>3. dhead = << >>
      BY <3>1, <3>2, Zenon DEF Headers, Installing
    <3>4. Recovered[b] = disk[b]
      BY <3>3, RecoveredIs, RestoredEmpty, Zenon
    <3>5. Contents(b) # NoBuf /\ (pins[b] = 0 => Contents(b) = Recovered[b])
      BY <1>t, <3>4 DEF Contents, Data
    <3>6. \A x \in Blocks : cache'[x] = IF x = b THEN Contents(b) ELSE cache[x]
      BY <1>t, <3>1, Zenon
    <3>7. \A x \in Blocks : pins'[x] = 0 => cache'[x] \in {NoBuf, Recovered'[x]}
      BY <2>r, <3>1, <3>5, <3>6 DEF Data
    <3>8. \A x \in Blocks : pins'[x] # 0 => cache'[x] # NoBuf
      BY <3>1, <3>5, <3>6 DEF Data
    <3> QED BY <1>q, <3>1, <3>2, <3>7, <3>8, Zenon
  <2>4. ASSUME NEW v \in Vals, log_write(p, v) PROVE Data'
    <3>1. /\ mode = "up" /\ pc[p] = "in" /\ mode' = "up" /\ UNCHANGED pc /\ buf[p] \in Blocks
          /\ cache' = [cache EXCEPT ![buf[p]] = v]
          /\ pins' = IF buf[p] \notin Elems(lh) THEN [pins EXCEPT ![buf[p]] = @ + 1] ELSE pins
      BY <2>4, Zenon DEF log_write, bpin, TypeOK, bootVars
    <3>2. \A q \in Procs : pc[q] \notin {"write_log", "install"}
      BY <3>1, Counted, Zenon DEF Calls, Committing
    <3>3. buf[p] \in Elems(lh) => pins[buf[p]] = 1
      <4>1. Pinned(buf[p]) <=> buf[p] \in Elems(lh)
        BY <1>t, <3>1, <3>2, PinnedIsLogged, Zenon DEF Installing
      <4> QED BY <3>1, <4>1, Zenon DEF Pins
    <3>4. \A x \in Blocks : /\ pins'[x] = 0 => x # buf[p]
                            /\ x # buf[p] => pins'[x] = pins[x] /\ cache'[x] = cache[x]
      BY <1>t, <3>1, <3>3
    <3>5. cache'[buf[p]] # NoBuf
      BY <1>t, <3>1, Zenon
    <3>6. \A x \in Blocks : pins'[x] = 0 => cache'[x] \in {NoBuf, Recovered'[x]}
      BY <2>r, <3>4, Zenon DEF Data
    <3>7. \A x \in Blocks : pins'[x] # 0 => cache'[x] # NoBuf
      BY <3>4, <3>5 DEF Data
    <3> QED BY <1>q, <3>1, <3>2, <3>6, <3>7, Zenon
  <2>5. CASE brelse(p)
    BY <1>0, <2>r, <2>5, Zenon DEF brelse, logVars, bootVars
  <2>6. CASE end_op_more(p)
    <3>1. \A q \in Procs : pc'[q] \in {"write_log", "install"} => pc'[q] = pc[q]
      BY <1>t, <2>6, Zenon DEF end_op_more, Woken
    <3> QED BY <1>0, <2>r, <2>6, <3>1, Zenon DEF end_op_more, bootVars
  <2>7. CASE end_op_last(p)
    <3>1. /\ pc[p] = "in" /\ mode = "up" /\ mode' = "up" /\ UNCHANGED <<cache, pins, lh, dlog>>
          /\ pc' = [pc EXCEPT ![p] = IF lh = << >> THEN "end_commit" ELSE "write_log"]
          /\ tail' = [tail EXCEPT ![p] = 1]
      BY <2>7, Zenon DEF end_op_last, cacheVars, bootVars, diskVars
    <3>2. \A q \in Procs : pc[q] \notin {"write_log", "install"}
      BY <3>1, Counted, Zenon DEF Calls, Committing
    <3>3. \A q \in Procs : pc'[q] # "install" /\ (pc'[q] = "write_log" => tail'[q] = 1)
      BY <1>t, <3>1, <3>2, Zenon
    <3>4. \A i \in 1..Len(lh) : ~(i < 1)
      BY <1>t
    <3> QED BY <2>r, <3>1, <3>3, <3>4, Zenon DEF Data
  <2> QED BY <1>1, <2>1, <2>2, <2>3, <2>4, <2>5, <2>6, <2>7 DEF SystemCall
<1>2. ASSUME NEW p \in Procs, Commit(p) PROVE Data'
  <2>0. /\ mode = "up" /\ mode' = "up" /\ pc[p] \in Committing
        /\ \A q \in Procs : pc[q] \in Committing => q = p
    BY <1>2, Zenon
      DEF Commit, write_log, write_head, install_trans, erase_head, end_commit,
      bootVars,
                Committing, Calls
  <2>1. CASE write_log(p)
    <3> DEFINE t == tail[p]
    <3>1. /\ pc[p] = "write_log" /\ t \in 1..Len(lh) /\ UNCHANGED <<lh, pc, pins>>
          /\ cache' = [cache EXCEPT ![lh[t]] = Contents(lh[t])]
          /\ dlog' = [dlog EXCEPT ![t] = Contents(lh[t])]
          /\ tail' = [tail EXCEPT ![p] = t + 1]
      BY <1>t, <2>1 DEF write_log, logVars
    <3>2. ~Installing
      BY <2>0, <3>1, Zenon DEF Installing, Committing
    <3>3. lh[t] \in Blocks /\ cache[lh[t]] # NoBuf
      BY <2>0, <3>1, <3>2, LoggedPinned, Zenon
    <3>4. cache' = cache
      BY <1>t, <3>1, <3>3, Zenon DEF Contents
    <3>5. t \in Slots /\ t \in Nat /\ tail'[p] = t + 1
      BY <1>t, <3>1, LogConstants DEF Slots, Headers
    <3>6. \A i \in Slots : dlog'[i] = IF i = t THEN cache[lh[t]] ELSE dlog[i]
      BY <1>t, <3>1, <3>3, <3>5, Zenon DEF Contents
    <3>7. 1..Len(lh) \subseteq Slots
      BY <1>t, LogConstants DEF Slots, Headers
    <3>8. \A i \in 1..Len(lh) : i < t => dlog[i] = cache[lh[i]]
      BY <3>1, Zenon DEF Data
    <3> HIDE DEF t
    <3>9. \A i \in 1..Len(lh) : i < t + 1 => dlog'[i] = cache[lh[i]]
      BY <3>1, <3>5, <3>6, <3>7, <3>8
    <3>10. \A q \in Procs : pc[q] # "install" /\ (pc[q] = "write_log" => q = p)
      BY <2>0, <3>1, Zenon DEF Committing
    <3>11. Recovered' = Recovered
      <4>1. \A q \in Procs : ~write_head(q)
        BY <1>t, <2>1, <3>10, Zenon DEF write_log, write_head
      <4> QED BY <4>1, RecoveredSame, Zenon
    <3> QED BY <2>0, <3>1, <3>4, <3>5, <3>9, <3>10, <3>11 DEF Data
  <2>2. CASE write_head(p)
    <3>1. /\ pc[p] = "write_log" /\ tail[p] > Len(lh) /\ UNCHANGED <<lh, pins, cache, dlog, disk>>
          /\ pc' = [pc EXCEPT ![p] = "install"] /\ tail' = [tail EXCEPT ![p] = 1]
      BY <2>2, Zenon DEF write_head, logVars, cacheVars
    <3>2. \A q \in Procs : pc'[q] # "write_log" /\ (pc'[q] = "install" => tail'[q] = 1)
      BY <1>t, <2>0, <3>1, Zenon DEF Committing
    <3>3. \A i \in 1..Len(lh) : cache[lh[i]] = dlog[i] /\ ~(i < 1)
      BY <1>t, <3>1 DEF Data
    <3>4. \A b \in Blocks : cache[b] # NoBuf => Recovered'[b] = cache[b]
      BY <2>2, RecoveredCommits, Zenon DEF Seen
    <3>5. \A b \in Blocks : pins'[b] = 0 => cache'[b] \in {NoBuf, Recovered'[b]}
      BY <3>1, <3>4, Zenon
    <3>6. \A b \in Blocks : pins'[b] # 0 => cache'[b] # NoBuf
      BY <3>1, Zenon DEF Data
    <3>7. \A q \in Procs : pc'[q] = "install" =>
            \A i \in 1..Len(lh') : ~(i < tail'[q]) /\ cache'[lh'[i]] = dlog'[i]
      BY <3>1, <3>2, <3>3, Zenon
    <3> QED BY <2>0, <3>2, <3>5, <3>6, <3>7, Zenon DEF Data
  <2>3. CASE install_trans(p)
    <3> DEFINE t == tail[p]
    <3>1. /\ pc[p] = "install" /\ t \in 1..Len(lh) /\ lh[t] \in Blocks
          /\ cache' = [cache EXCEPT ![lh[t]] = dlog[t]]
          /\ disk' = [disk EXCEPT ![lh[t]] = dlog[t]]
          /\ pins' = [pins EXCEPT ![lh[t]] = @ - 1]
          /\ tail' = [tail EXCEPT ![p] = t + 1] /\ UNCHANGED <<lh, pc, dlog>>
      BY <1>t, <2>3 DEF install_trans, bunpin, logVars
    <3>2. dhead = lh
      BY <2>0, <3>1, Zenon DEF Headers, Installing
    <3>3. Recovered[lh[t]] = dlog[t]
      BY <1>t, <3>1, <3>2, RecoveredAt, Zenon DEF Headers
    <3>4. Recovered' = Recovered
      BY <2>3, <3>1, RecoveredSame, Zenon DEF write_head, Calls, Committing
    <3>5. t \in Slots /\ t \in Nat /\ tail'[p] = t + 1
      BY <1>t, <3>1, LogConstants DEF Slots, Headers
    <3>6. dlog[t] # NoBuf
      BY <1>t, <3>5, Zenon
    <3>7. \A b \in Blocks : /\ cache'[b] = IF b = lh[t] THEN dlog[t] ELSE cache[b]
                            /\ disk'[b] = IF b = lh[t] THEN dlog[t] ELSE disk[b]
                            /\ b # lh[t] => pins'[b] = pins[b]
      BY <1>t, <3>1, Zenon
    <3>8. \A i \in 1..Len(lh) : lh[i] \in Blocks /\ (lh[i] = lh[t] => i = t)
      BY <1>t, <3>1 DEF Headers, Distinct
    <3>9. \A i \in 1..Len(lh) : IF i < t THEN disk[lh[i]] = dlog[i] ELSE cache[lh[i]] = dlog[i]
      BY <3>1, Zenon DEF Data
    <3> HIDE DEF t
    <3>10. \A i \in 1..Len(lh) : IF i < t + 1 THEN disk'[lh[i]] = dlog[i]
                                              ELSE cache'[lh[i]] = dlog[i]
      BY <3>5, <3>7, <3>8, <3>9
    <3>11. \A b \in Blocks : pins'[b] = 0 => cache'[b] \in {NoBuf, Recovered'[b]}
      BY <3>3, <3>4, <3>7, Zenon DEF Data
    <3>12. \A b \in Blocks : pins'[b] # 0 => cache'[b] # NoBuf
      BY <3>6, <3>7 DEF Data
    <3>13. \A q \in Procs : pc'[q] # "write_log" /\ (pc'[q] = "install" => q = p)
      BY <2>0, <3>1, Zenon DEF Committing
    <3> QED BY <2>0, <3>1, <3>5, <3>10, <3>11, <3>12, <3>13 DEF Data
  <2>4. CASE erase_head(p)
    <3>1. pc[p] = "install" /\ pc' = [pc EXCEPT ![p] = "end_commit"] /\ UNCHANGED <<cache, pins>>
      BY <2>4, Zenon DEF erase_head, cacheVars
    <3>2. Recovered' = Recovered
      BY <2>4, <3>1, RecoveredSame, Zenon DEF write_head, Calls, Committing
    <3>3. \A q \in Procs : pc'[q] \notin {"write_log", "install"}
      BY <1>t, <2>0, <3>1, Zenon DEF Committing
    <3> QED BY <1>q, <2>0, <3>1, <3>2, <3>3, Zenon DEF Data
  <2>5. CASE end_commit(p)
    <3>1. \A q \in Procs : pc'[q] \in {"write_log", "install"} => pc'[q] = pc[q]
      BY <1>t, <2>5, Zenon DEF end_commit, Woken
    <3>2. Recovered' = Recovered
      BY <2>5 DEF end_commit, Recovered, diskVars
    <3> QED BY <1>0, <2>5, <3>1, <3>2, Zenon DEF end_commit, bootVars
  <2> QED BY <1>2, <2>1, <2>2, <2>3, <2>4, <2>5, Zenon DEF Commit
<1>3. ASSUME NEW b \in Blocks, recycle(b) PROVE Data'
  <2>1. /\ pins[b] = 0 /\ cache' = [cache EXCEPT ![b] = NoBuf]
        /\ UNCHANGED <<disk, dlog, dhead, pins, lh, pc, tail, mode, rtail>>
    BY <1>3, Zenon DEF recycle, diskVars, logVars, procVars, bootVars
  <2>2. Recovered' = Recovered
    BY <2>1 DEF Recovered
  <2>3. \A x \in Blocks : cache'[x] = IF x = b THEN NoBuf ELSE cache[x]
    BY <1>t, <2>1, Zenon
  <2>4. \A x \in Blocks : Pinned(x) => x # b
    BY <2>1 DEF Pins
  <2>5. ASSUME NEW q \in Procs, pc[q] = "write_log", NEW i \in 1..Len(lh)
        PROVE  cache'[lh[i]] = cache[lh[i]]
    <3>1. mode = "up" /\ ~Installing
      BY <2>5, Zenon DEF Calls, Installing, Committing, TypeOK
    <3> QED BY <2>1, <2>3, <3>1, LoggedPinned
  <2>6. ASSUME NEW q \in Procs, pc[q] = "install", NEW i \in 1..Len(lh), ~(i < tail[q])
        PROVE  cache'[lh[i]] = cache[lh[i]]
    <3>1. mode = "up"
      BY <2>6, Zenon DEF Calls
    <3>2. lh[i] \in Blocks /\ tail[q] \in Nat
      BY <1>t, <2>6
    <3>3. Pinned(lh[i])
      BY <2>6, <3>1, <3>2, PinnedInstalling
    <3> QED BY <2>3, <2>4, <3>2, <3>3, Zenon
  <2>7. \A x \in Blocks : pins'[x] = 0 => cache'[x] \in {NoBuf, Recovered'[x]}
    BY <2>1, <2>2, <2>3, SMTT(30) DEF Data
  <2>8. \A x \in Blocks : pins'[x] # 0 => cache'[x] # NoBuf
    BY <2>1, <2>3 DEF Data
  <2> QED BY <2>1, <2>5, <2>6, <2>7, <2>8 DEF Data
<1>4. CASE Recover
  <2>0. mode # "up" /\ pc' = pc /\ pins' = pins
    BY <1>4, Zenon DEF Recover, read_head, install_recovering, clear_log, procVars,
       cacheVars
  <2>1. \A q \in Procs : pc[q] = "out"
    BY <2>0, Zenon DEF Calls
  <2>2. Recovered' = Recovered
    BY <1>4, <2>0, RecoveredSame, Zenon DEF write_head, Next
  <2>3. CASE read_head
    <3>1. cache' = cache /\ rtail' = 1 /\ \A i \in 1..Len(lh') : ~(i < 1)
      BY <2>3, SMTT(30) DEF read_head, cacheVars, TypeOK
    <3> QED BY <2>0, <2>1, <2>2, <3>1, Zenon DEF Data
  <2>4. CASE install_recovering
    <3>1. /\ mode = "install" /\ rtail \in 1..Len(lh) /\ lh[rtail] \in Blocks
          /\ cache' = [cache EXCEPT ![lh[rtail]] = dlog[rtail]]
          /\ disk' = [disk EXCEPT ![lh[rtail]] = dlog[rtail]]
          /\ rtail' = rtail + 1 /\ UNCHANGED <<lh, dlog>>
      BY <1>t, <2>4 DEF install_recovering, logVars, TypeOK
    <3>2. dhead = lh
      BY <3>1, Zenon DEF Headers
    <3>3. Recovered[lh[rtail]] = dlog[rtail]
      BY <1>t, <3>1, <3>2, RecoveredAt, Zenon DEF Headers
    <3>4. \A b \in Blocks : /\ cache'[b] = IF b = lh[rtail] THEN dlog[rtail] ELSE cache[b]
                            /\ disk'[b] = IF b = lh[rtail] THEN dlog[rtail] ELSE disk[b]
                            /\ pins[b] = 0
      BY <1>t, <2>0, <3>1, Zenon DEF Pins, Pinned
    <3>5. \A i \in 1..Len(lh) : i < rtail + 1 => disk'[lh[i]] = dlog[i]
      <4>1. \A i \in 1..Len(lh) : lh[i] \in Blocks /\ (lh[i] = lh[rtail] => i = rtail)
        BY <1>t, <3>1 DEF Headers, Distinct
      <4>2. \A i \in 1..Len(lh) : i < rtail => disk[lh[i]] = dlog[i]
        BY <3>1, Zenon DEF Data
      <4> QED BY <3>1, <3>4, <4>1, <4>2
    <3>6. \A b \in Blocks : cache'[b] \in {NoBuf, Recovered'[b]}
      BY <2>2, <3>3, <3>4, Zenon DEF Data
    <3>7. mode' = "install" => \A i \in 1..Len(lh') : i < rtail' => disk'[lh'[i]] = dlog'[i]
      BY <3>1, <3>5, Zenon
    <3> QED BY <2>0, <2>1, <3>4, <3>6, <3>7, Zenon DEF Data
  <2>5. CASE clear_log
    BY <1>q, <2>0, <2>1, <2>2, <2>5, Zenon DEF clear_log, cacheVars, Data
  <2> QED BY <1>4, <2>3, <2>4, <2>5, Zenon DEF Recover
<1>5. CASE Crash
  <2>1. /\ cache' = [b \in Blocks |-> NoBuf] /\ pins' = [b \in Blocks |-> 0]
        /\ pc' = [q \in Procs |-> "out"] /\ mode' = "read_head"
    BY <1>5, ZenonT(40) DEF Crash, ColdMemory
  <2> QED BY <1>q, <2>1, Zenon
<1>6. CASE UNCHANGED vars
  BY <1>0, <1>6 DEF vars, procVars, logVars, bootVars, cacheVars, diskVars, Recovered
<1> QED BY <1>1, <1>2, <1>3, <1>4, <1>5, <1>6 DEF Next

-----------------------------------------------------------------------------
(* The theorems                                                            *)

\* A disk as mkfs leaves it, before initlog(), satisfies the invariant.
LEMMA LogInvInit == Init => LogInv
<1> SUFFICES ASSUME Init PROVE LogInv
  BY SMTT(30), Zenon
<1>1. /\ cache = [b \in Blocks |-> NoBuf] /\ pins = [b \in Blocks |-> 0]
      /\ pc = [p \in Procs |-> "out"] /\ buf = [p \in Procs |-> NoBuf]
      /\ wrote = [p \in Procs |-> {}] /\ tail = [p \in Procs |-> 1]
      /\ lh = << >> /\ dhead = << >> /\ outstanding = 0 /\ committing = FALSE
      /\ mode = "read_head" /\ rtail = 1 /\ crashes = 0
      /\ disk \in [Blocks -> Vals] /\ dlog = [i \in Slots |-> Torn]
  BY Zenon DEF Init, ColdMemory
<1>2. TypeOK
  <2>1. disk \in [Blocks -> Vals \cup {Torn}] /\ dlog \in [Slots -> Vals \cup {Torn}]
    BY <1>1, Zenon
  <2>2. dhead \in Seq(Blocks) /\ lh \in Seq(Blocks) /\ outstanding \in Nat
    BY <1>1
  <2>3. committing \in BOOLEAN
    BY <1>1, Zenon
  <2> QED BY <1>1, <2>1, <2>2, <2>3, LogConstants DEF TypeOK
<1>3. Calls
  <2>1. In = {}
    BY <1>1, Zenon DEF In
  <2> QED BY <1>1, <2>1, FS_EmptySet, Zenon DEF Calls, Committing
<1>4. Headers
  BY <1>1, EmptyHeader, Zenon DEF Headers
<1>5. Pins
  BY <1>1, Zenon DEF Pins, Pinned
<1>6. Data
  BY <1>1, Zenon DEF Data
<1> QED BY <1>2, <1>3, <1>4, <1>5, <1>6, Zenon DEF LogInv

\* log.c keeps its inductive invariant: the types, the count of calls in progress
\* and the single committer, the two headers, the pins, and what the cache, the log
\* and the home blocks hold at each point of a commit or a recovery.
THEOREM LogInvariant == Spec => []LogInv
<1>1. LogInv /\ [Next]_vars => LogInv'
  <2> SUFFICES ASSUME LogInv, [Next]_vars PROVE LogInv'
    BY Zenon
  <2>1. TypeOK'
    BY TypeStep, Zenon
  <2>2. Calls'
    BY <2>1, CallsStep, Zenon
  <2>3. Headers'
    BY <2>1, <2>2, HeadersStep, Zenon
  <2>4. Pins'
    BY <2>1, <2>2, <2>3, PinsStep, Zenon
  <2>5. Data'
    BY <2>1, <2>2, <2>3, <2>4, DataStep, Zenon
  <2> QED BY <2>1, <2>2, <2>3, <2>4, <2>5, Zenon DEF LogInv
<1> QED BY <1>1, LogInvInit, PTL DEF Spec

\* PinBalance: bpin() in log_write() and bunpin() in install_trans() balance, for
\* any number of blocks, calls and power failures.
THEOREM LogPinBalance == Spec => []PinBalance
<1>1. LogInv => PinBalance
  <2> SUFFICES ASSUME LogInv, NEW b \in Blocks
               PROVE  pins[b] = Cardinality({i \in DOMAIN lh :
                        /\ mode = "up" /\ lh[i] = b
                        /\ \A p \in Procs : pc[p] = "install" => i >= tail[p]})
    BY Zenon DEF PinBalance, LogInv
  <2> DEFINE S == {i \in DOMAIN lh : /\ mode = "up" /\ lh[i] = b
                                     /\ \A p \in Procs : pc[p] = "install" => i >= tail[p]}
  <2>1. DOMAIN lh = 1..Len(lh) /\ Distinct(lh)
    BY DEF LogInv, TypeOK, Headers
  <2>2. CASE Pinned(b)
    <3>1. PICK i \in S : TRUE
      BY <2>1, <2>2, Zenon DEF Pinned
    <3>2. S = {i}
      BY <2>1, <3>1, Zenon DEF Distinct
    <3> QED BY <2>2, <3>2, FS_Singleton, Zenon DEF LogInv, Pins
  <2>3. CASE ~Pinned(b)
    <3>1. S = {}
      BY <2>1, <2>3, Zenon DEF Pinned
    <3> QED BY <2>3, <3>1, FS_EmptySet, Zenon DEF LogInv, Pins
  <2> QED BY <2>2, <2>3, Zenon
<1> QED BY <1>1, LogInvariant, PTL

\* Every step of the log is a step of the atomic disk or leaves it alone.
LEMMA AtomicStep ==
  ASSUME LogInv, LogInv', [Next]_vars
  PROVE  [AD!Next]_(AD!vars)
<1> USE DEF LogInv
<1>t. /\ pc \in [Procs -> {"out", "asleep", "begin", "in", "write_log", "install", "end_commit"}]
      /\ lh \in Seq(Blocks) /\ tail \in [Procs -> Nat \ {0}] /\ Len(lh) \in Nat
      /\ cache \in [Blocks -> Vals \cup {Torn, NoBuf}]
      /\ disk \in [Blocks -> Vals \cup {Torn}] /\ NoBuf \notin Vals \cup {Torn}
  BY LogSentinels DEF TypeOK
<1>s. ASSUME Recovered' = Recovered,
             \A b \in Blocks : \/ cache'[b] = cache[b]
                               \/ /\ cache[b] \in {NoBuf, Recovered[b]}
                                  /\ cache'[b] \in {NoBuf, Recovered[b]}
      PROVE  Seen' = Seen
  BY <1>s, Zenon DEF Seen
<1>0. ASSUME Recovered' = Recovered, Seen' = Seen, In' = In PROVE [AD!Next]_(AD!vars)
  BY <1>0, Zenon DEF AD!vars, Seen, In
<1>1. ASSUME NEW p \in Procs, SystemCall(p) PROVE [AD!Next]_(AD!vars)
  <2>r. Recovered' = Recovered
    <3>1. UNCHANGED diskVars
      BY <1>1, Zenon DEF SystemCall, begin_op_sleep, begin_op, bread, log_write,
         brelse, end_op_more,
                  end_op_last
    <3> QED BY <3>1, SMTT(30) DEF Recovered, diskVars
  <2>s. UNCHANGED cache => Seen' = Seen
    BY <1>s, <2>r, Zenon
  <2>e. ASSUME pc[p] = "in", In' = In \ {p}, UNCHANGED cache PROVE [AD!Next]_(AD!vars)
    <3>1. AD!End(p)
      BY <2>e, <2>r, <2>s, Zenon DEF AD!End, Seen, In
    <3> QED BY <3>1, Zenon DEF AD!Next
  <2>1. CASE begin_op_sleep(p)
    <3>1. In' = In
      BY <1>t, <2>1, Zenon DEF begin_op_sleep, In
    <3> QED BY <1>0, <2>r, <2>s, <2>1, <3>1, Zenon DEF begin_op_sleep, cacheVars
  <2>2. CASE begin_op(p)
    <3>1. p \notin In /\ In' = In \cup {p}
      BY <1>t, <2>2, Zenon DEF begin_op, In
    <3>2. Seen' = Seen
      BY <2>s, <2>2, Zenon DEF begin_op, cacheVars
    <3>3. AD!Begin(p)
      BY <2>r, <3>1, <3>2, Zenon DEF AD!Begin, Seen, In
    <3> QED BY <3>3, Zenon DEF AD!Next
  <2>3. ASSUME NEW b \in Blocks, bread(p, b) PROVE [AD!Next]_(AD!vars)
    <3>1. /\ mode = "up" /\ pc[p] = "in" /\ UNCHANGED pc
          /\ cache' = [cache EXCEPT ![b] = Contents(b)]
      BY <2>3, ZenonT(40) DEF bread
    <3>2. \A q \in Procs : pc[q] # "install"
      BY <3>1, Counted, Zenon DEF Calls, Committing
    <3>3. dhead = << >>
      BY <3>1, <3>2, Zenon DEF Headers, Installing
    <3>4. Recovered[b] = disk[b]
      BY <3>3, RecoveredIs, RestoredEmpty, Zenon
    <3>5. Seen' = Seen
      BY <1>s, <1>t, <2>r, <3>1, <3>4, Zenon DEF Contents
    <3>6. In' = In
      BY <3>1, Zenon DEF In
    <3> QED BY <1>0, <2>r, <3>5, <3>6, Zenon
  <2>4. ASSUME NEW v \in Vals, log_write(p, v) PROVE [AD!Next]_(AD!vars)
    <3>1. /\ pc[p] = "in" /\ UNCHANGED pc /\ buf[p] \in Blocks
          /\ cache' = [cache EXCEPT ![buf[p]] = v]
      BY <2>4, Zenon DEF log_write, TypeOK
    <3>2. Seen' = [Seen EXCEPT ![buf[p]] = v]
      BY <1>t, <2>r, <3>1, Zenon DEF Seen
    <3>3. p \in In /\ In' = In
      BY <3>1, Zenon DEF In
    <3>4. AD!Write(p, buf[p], v)
      BY <2>r, <3>2, <3>3, Zenon DEF AD!Write, Seen, In
    <3> QED BY <3>1, <3>4, Zenon DEF AD!Next
  <2>5. CASE brelse(p)
    <3>1. In' = In
      BY <2>5, Zenon DEF brelse, In
    <3> QED BY <1>0, <2>r, <2>s, <2>5, <3>1, Zenon DEF brelse, cacheVars
  <2>6. CASE end_op_more(p)
    <3>1. pc[p] = "in" /\ In' = In \ {p}
      BY <1>t, <2>6, Zenon DEF end_op_more, In, Woken
    <3> QED BY <2>e, <2>6, <3>1, Zenon DEF end_op_more, cacheVars
  <2>7. CASE end_op_last(p)
    <3>1. pc[p] = "in" /\ In' = In \ {p}
      BY <1>t, <2>7, Zenon DEF end_op_last, In
    <3> QED BY <2>e, <2>7, <3>1, Zenon DEF end_op_last, cacheVars
  <2> QED BY <1>1, <2>1, <2>2, <2>3, <2>4, <2>5, <2>6, <2>7, Zenon DEF SystemCall
<1>2. ASSUME NEW p \in Procs, Commit(p) PROVE [AD!Next]_(AD!vars)
  <2>0. /\ mode = "up" /\ pc[p] \in Committing
        /\ \A q \in Procs : pc[q] \in Committing => q = p
    BY <1>2, ZenonT(40)
      DEF Commit, write_log, write_head, install_trans, erase_head, end_commit,
      Committing,
                Calls
  <2>i. In = {}
    BY <2>0, Zenon DEF Calls
  <2>n. In' = In
    <3>1. \A q \in Procs : pc'[q] # "in"
      BY <1>t, <1>2, <2>i, Zenon
        DEF Commit, write_log, write_head, install_trans, erase_head, end_commit,
                              Woken, In
    <3> QED BY <2>i, <3>1, Zenon DEF In
  <2>r. ASSUME ~write_head(p) PROVE Recovered' = Recovered
    <3>1. \A q \in Procs : ~write_head(q)
      BY <2>0, <2>r, Zenon DEF write_head, Committing
    <3> QED BY <3>1, RecoveredSame, Zenon
  <2>1. CASE write_log(p)
    <3>1. /\ pc[p] = "write_log" /\ tail[p] \in 1..Len(lh)
          /\ cache' = [cache EXCEPT ![lh[tail[p]]] = Contents(lh[tail[p]])]
      BY <1>t, <2>1, SMTT(30) DEF write_log
    <3>2. ~Installing
      BY <2>0, <3>1, Zenon DEF Installing, Committing
    <3>3. cache' = cache
      BY <1>t, <2>0, <3>1, <3>2, LoggedPinned, Zenon DEF Contents
    <3>4. ~write_head(p)
      BY <1>t, <3>1 DEF write_head
    <3> QED BY <1>0, <1>s, <2>n, <2>r, <3>3, <3>4, Zenon
  <2>2. CASE write_head(p)
    <3>1. Recovered' = Seen
      BY <2>2, RecoveredCommits, Zenon
    <3>2. cache' = cache
      BY <2>2, Zenon DEF write_head, cacheVars
    <3>3. Seen' = Seen
      BY <3>1, <3>2, Zenon DEF Seen
    <3>4. AD!Sync
      BY <2>i, <2>n, <3>1, <3>3, Zenon DEF AD!Sync, Seen, In
    <3> QED BY <3>4, Zenon DEF AD!Next
  <2>3. CASE install_trans(p)
    <3>1. /\ pc[p] = "install" /\ tail[p] \in 1..Len(lh)
          /\ cache' = [cache EXCEPT ![lh[tail[p]]] = dlog[tail[p]]]
      BY <1>t, <2>3, SMTT(30) DEF install_trans
    <3>2. cache[lh[tail[p]]] = dlog[tail[p]]
      BY <1>t, <3>1, SMTT(30) DEF Data
    <3>3. cache' = cache
      BY <1>t, <3>1, <3>2, Zenon
    <3> QED BY <1>0, <1>s, <2>n, <2>r, <3>1, <3>3, Zenon DEF write_head
  <2>4. CASE erase_head(p)
    BY <1>0, <1>s, <2>n, <2>r, <2>4, ZenonT(40) DEF erase_head, write_head, cacheVars
  <2>5. CASE end_commit(p)
    BY <1>0, <1>s, <2>n, <2>r, <2>5, Zenon DEF end_commit, write_head, cacheVars
  <2> QED BY <1>2, <2>1, <2>2, <2>3, <2>4, <2>5, Zenon DEF Commit
<1>3. ASSUME NEW b \in Blocks, recycle(b) PROVE [AD!Next]_(AD!vars)
  <2>1. /\ pins[b] = 0 /\ cache' = [cache EXCEPT ![b] = NoBuf]
        /\ UNCHANGED <<disk, dlog, dhead, pc>>
    BY <1>3, Zenon DEF recycle, diskVars, procVars
  <2>2. Recovered' = Recovered
    BY <2>1, SMTT(30) DEF Recovered
  <2>3. cache[b] \in {NoBuf, Recovered[b]}
    BY <2>1, Zenon DEF Data
  <2>4. Seen' = Seen
    BY <1>s, <1>t, <2>1, <2>2, <2>3, Zenon
  <2> QED BY <1>0, <2>1, <2>2, <2>4, Zenon DEF In
<1>4. CASE Recover
  <2>0. mode # "up" /\ pc' = pc /\ pins' = pins
    BY <1>4, Zenon DEF Recover, read_head, install_recovering, clear_log, procVars,
       cacheVars
  <2>1. Recovered' = Recovered
    BY <1>4, <2>0, RecoveredSame, Zenon DEF write_head, Next
  <2>2. \A b \in Blocks : pins[b] = 0
    BY <2>0, Zenon DEF Pins, Pinned
  <2>3. \A b \in Blocks : cache[b] \in {NoBuf, Recovered[b]} /\ cache'[b] \in {NoBuf, Recovered'[b]}
    BY <2>0, <2>2, Zenon DEF Data
  <2>4. Seen' = Seen
    BY <1>s, <2>1, <2>3, Zenon
  <2> QED BY <1>0, <2>0, <2>1, <2>4, Zenon DEF In
<1>5. CASE Crash
  <2>1. cache' = [b \in Blocks |-> NoBuf] /\ pc' = [q \in Procs |-> "out"] /\ mode' = "read_head"
    BY <1>5, Zenon DEF Crash, ColdMemory
  <2>2. Recovered' = Recovered
    <3>1. \A q \in Procs : ~write_head(q)
      BY <2>1, ZenonT(40) DEF write_head, bootVars, Calls, Committing
    <3> QED BY <1>5, <3>1, RecoveredSame, Zenon
  <2>3. Seen' = Recovered /\ In' = {}
    BY <2>1, <2>2, RecoveredIs, Zenon DEF Seen, In, Restored
  <2>4. AD!Crash
    BY <2>2, <2>3, Zenon DEF AD!Crash, Seen, In
  <2> QED BY <2>4, Zenon DEF AD!Next
<1>6. CASE UNCHANGED vars
  <2>1. Recovered' = Recovered /\ cache' = cache /\ pc' = pc
    BY <1>6 DEF vars, diskVars, cacheVars, procVars, Recovered
  <2> QED BY <1>0, <1>s, <2>1, Zenon DEF In
<1> QED BY <1>1, <1>2, <1>3, <1>4, <1>5, <1>6, Zenon DEF Next

\* Atomic: log.c implements AtomicDisk for any number of blocks, calls and power
\* failures, torn writes and failures during recovery included.
THEOREM LogAtomic == Spec => Atomic
<1>1. Init => AD!Init
  <2> SUFFICES ASSUME Init PROVE AD!Init
    BY Zenon
  <2>1. /\ cache = [b \in Blocks |-> NoBuf] /\ pc = [p \in Procs |-> "out"] /\ dhead = << >>
        /\ disk \in [Blocks -> Vals]
    BY Zenon DEF Init, ColdMemory
  <2>2. In = {}
    BY <2>1, Zenon DEF In
  <2>3. \A b \in Blocks : Recovered[b] = disk[b] /\ Seen[b] = Recovered[b]
    BY <2>1, RecoveredIs, RestoredEmpty, Zenon DEF Seen
  <2>4. Recovered \in [Blocks -> Vals]
    BY <2>1, <2>3, Zenon DEF Recovered
  <2>5. Seen = Recovered
    BY <2>3, <2>4, Zenon DEF Seen
  <2> QED BY <2>2, <2>4, <2>5, Zenon DEF AD!Init, Seen, In
<1>2. LogInv /\ LogInv' /\ [Next]_vars => [AD!Next]_(AD!vars)
  BY AtomicStep, Zenon
<1> QED BY <1>1, <1>2, LogInvariant, PTL DEF Spec, Atomic, AD!Spec

\* No wakeup is lost in begin_op(), if one system call alone has room in the log
\* (param.h: LOGSIZE is MAXOPBLOCKS*3).
THEOREM LogNoLostWakeup ==
  ASSUME MAXOPBLOCKS <= LOGSIZE
  PROVE  Spec => []NoLostWakeup
<1>1. Init => NoLostWakeup
  BY Zenon DEF Init, NoLostWakeup, ColdMemory
<1>2. ASSUME LogInv, NoLostWakeup, [Next]_vars PROVE NoLostWakeup'
  <2> USE DEF LogInv
  <2>t. /\ pc \in [Procs -> {"out", "asleep", "begin", "in", "write_log", "install", "end_commit"}]
        /\ outstanding \in Nat
    BY <1>2, Zenon DEF TypeOK
  <2>0. ASSUME UNCHANGED <<outstanding, committing>>,
               \A q \in Procs : pc'[q] = "asleep" => pc[q] = "asleep"
        PROVE  NoLostWakeup'
    BY <1>2, <2>0, Zenon DEF NoLostWakeup
  <2>1. ASSUME NEW p \in Procs, SystemCall(p) PROVE NoLostWakeup'
    <3>1. CASE begin_op_sleep(p)
      <4>1. mode = "up" /\ (committing \/ NoRoom) /\ UNCHANGED <<outstanding, committing>>
        BY <3>1, Zenon DEF begin_op_sleep, logVars
      <4>2. committing \/ outstanding > 0
        <5>1. ASSUME ~committing, outstanding = 0 PROVE FALSE
          <6>1. In = {}
            BY <1>2, <5>1, FS_EmptySet, ZenonT(40) DEF Calls
          <6>2. Len(lh) = 0
            BY <1>2, <4>1, <5>1, <6>1, EmptyHeader, Zenon DEF Headers
          <6> QED BY <4>1, <5>1, <6>2, LogConstants DEF NoRoom
        <5> QED BY <2>t, <5>1
      <4> QED BY <4>1, <4>2, Zenon DEF NoLostWakeup
    <3>2. CASE begin_op(p)
      BY <2>t, <3>2 DEF begin_op, NoLostWakeup
    <3>3. CASE \E b \in Blocks : bread(p, b)
      BY <2>0, <3>3, Zenon DEF bread, logVars
    <3>4. CASE \E v \in Vals : log_write(p, v)
      BY <2>0, <3>4, Zenon DEF log_write
    <3>5. CASE brelse(p)
      BY <2>0, <3>5, Zenon DEF brelse, logVars
    <3>6. CASE end_op_more(p)
      BY <2>t, <3>6, Zenon DEF end_op_more, Woken, NoLostWakeup
    <3>7. CASE end_op_last(p)
      BY <3>7, Zenon DEF end_op_last, NoLostWakeup
    <3> QED BY <2>1, <3>1, <3>2, <3>3, <3>4, <3>5, <3>6, <3>7, Zenon DEF SystemCall
  <2>2. ASSUME NEW p \in Procs, Commit(p) PROVE NoLostWakeup'
    <3>1. CASE end_commit(p)
      BY <2>t, <3>1, Zenon DEF end_commit, Woken, NoLostWakeup
    <3>2. CASE write_log(p) \/ install_trans(p)
      BY <2>0, <3>2, Zenon DEF write_log, install_trans, logVars
    <3>3. CASE write_head(p) \/ erase_head(p)
      BY <2>0, <2>t, <3>3, Zenon DEF write_head, erase_head, logVars
    <3> QED BY <2>2, <3>1, <3>2, <3>3, Zenon DEF Commit
  <2>3. CASE \E b \in Blocks : recycle(b)
    BY <2>0, <2>3, Zenon DEF recycle, logVars, procVars
  <2>4. CASE Recover
    BY <2>0, <2>4, Zenon DEF Recover, read_head, install_recovering, clear_log,
       logVars, procVars
  <2>5. CASE Crash
    BY <2>5, Zenon DEF Crash, ColdMemory, NoLostWakeup
  <2>6. CASE UNCHANGED vars
    BY <2>0, <2>6, Zenon DEF vars, logVars, procVars
  <2> QED BY <1>2, <2>1, <2>2, <2>3, <2>4, <2>5, <2>6, Zenon DEF Next
<1> QED BY <1>1, <1>2, LogInvariant, PTL DEF Spec

-----------------------------------------------------------------------------
(* The reservation of begin_op()                                           *)

\* What the calls in progress may still log.
Unused ==
  {x \in In \X (1..MAXOPBLOCKS) : x[2] <= MAXOPBLOCKS - Cardinality(wrote[x[1]])}

\* begin_op() keeps room in the log for all of it.
Reserved ==
  /\ \A p \in In : /\ IsFiniteSet(wrote[p]) /\ Cardinality(wrote[p]) <= OPBLOCKS
                   /\ wrote[p] \subseteq Elems(lh)
                   /\ \/ buf[p] \in wrote[p] \cup {NoBuf}
                      \/ Cardinality(wrote[p]) < OPBLOCKS
  /\ mode = "up" => Len(lh) + Cardinality(Unused) <= LOGSIZE

\* How many pairs there are.
LEMMA Pairs ==
  ASSUME NEW S, IsFiniteSet(S), NEW n \in Nat
  PROVE  IsFiniteSet(S \X (1..n)) /\ Cardinality(S \X (1..n)) = Cardinality(S) * n
<1> DEFINE T == 1..n
<1>1. IsFiniteSet(T) /\ Cardinality(T) = n
  BY FS_Interval
<1> HIDE DEF T
<1>2. IsFiniteSet(S \X T) /\ Cardinality(S \X T) = Cardinality(S) * Cardinality(T)
  BY <1>1, FS_Product, Zenon
<1> QED BY <1>1, <1>2, Zenon DEF T

\* The reservation is a number.
LEMMA UnusedFinite ==
  ASSUME Calls
  PROVE  /\ IsFiniteSet(Unused) /\ Cardinality(Unused) \in Nat
         /\ Cardinality(Unused) <= Cardinality(In) * MAXOPBLOCKS
<1>2. /\ IsFiniteSet(In \X (1..MAXOPBLOCKS))
      /\ Cardinality(In \X (1..MAXOPBLOCKS)) = Cardinality(In) * MAXOPBLOCKS
  BY Pairs, LogConstants, Zenon DEF Calls
<1>3. Unused \in SUBSET (In \X (1..MAXOPBLOCKS))
  BY Zenon DEF Unused
<1> QED BY <1>2, <1>3, FS_Subset, FS_CardinalityType, Zenon

\* begin_op() admits a call only when the log has room for it, log_write() spends what
\* its call reserved, and a commit starts with nothing reserved.
LEMMA ReservedStep ==
  ASSUME OPBLOCKS <= MAXOPBLOCKS, LogInv, LogInv', Reserved, [Next]_vars
  PROVE  Reserved'
<1> USE DEF LogInv
<1>t. /\ pc \in [Procs -> {"out", "asleep", "begin", "in", "write_log", "install", "end_commit"}]
      /\ lh \in Seq(Blocks) /\ Len(lh) \in Nat /\ outstanding \in Nat
      /\ wrote \in [Procs -> SUBSET Blocks] /\ buf \in [Procs -> Blocks \cup {NoBuf}]
  BY SMTT(30) DEF TypeOK
<1>u. /\ IsFiniteSet(Unused) /\ Cardinality(Unused) \in Nat
      /\ IsFiniteSet(Unused') /\ Cardinality(Unused') \in Nat
      /\ Cardinality(Unused') <= Cardinality(In') * MAXOPBLOCKS
  <2>1. (IsFiniteSet(Unused) /\ Cardinality(Unused) \in Nat
         /\ Cardinality(Unused) <= Cardinality(In) * MAXOPBLOCKS)'
    BY UnusedFinite, PTL
  <2> QED BY <2>1, UnusedFinite, Zenon
<1>0. ASSUME Unused' \subseteq Unused, lh' = lh, mode = "up"
      PROVE  Len(lh') + Cardinality(Unused') <= LOGSIZE
  <2>1. Cardinality(Unused') <= Cardinality(Unused)
    BY <1>0, <1>u, FS_Subset, Zenon
  <2> QED BY <1>0, <1>t, <1>u, <2>1, LogConstants DEF Reserved
<1>e. ASSUME In' = {}, mode' = "up" => (lh' = << >> \/ (lh' = lh /\ mode = "up"))
      PROVE  Reserved'
  <2>1. Unused' = {}
    BY <1>e, Zenon DEF Unused
  <2>2. Cardinality(Unused') = 0
    BY <2>1, FS_EmptySet, Zenon
  <2>3. mode' = "up" => Len(lh') <= LOGSIZE
    BY <1>e, <1>t, <1>u, EmptyHeader, LogConstants, SMTT(30) DEF Reserved
  <2>4. Len(lh') \in Nat
    BY SMTT(30), Zenon DEF TypeOK
  <2> QED BY <1>e, <2>2, <2>3, <2>4 DEF Reserved
<1>i. ASSUME NEW p \in Procs, pc[p] = "in"
      PROVE  /\ p \in In /\ IsFiniteSet(wrote[p]) /\ Cardinality(wrote[p]) \in Nat
             /\ Cardinality(wrote[p]) <= OPBLOCKS /\ wrote[p] \subseteq Elems(lh)
             /\ \/ buf[p] \in wrote[p] \cup {NoBuf}
                \/ Cardinality(wrote[p]) < OPBLOCKS
  BY <1>i, FS_CardinalityType, Zenon DEF Reserved, In
<1>s. ASSUME In' \subseteq In, UNCHANGED wrote PROVE Unused' \subseteq Unused
  BY <1>s, Zenon DEF Unused
<1>1. ASSUME NEW p \in Procs, SystemCall(p) PROVE Reserved'
  <2>0. mode = "up" /\ mode' = "up"
    BY <1>1, Zenon
      DEF SystemCall, begin_op_sleep, begin_op, bread, log_write, brelse, end_op_more,
                end_op_last, bootVars
  <2>1. CASE begin_op_sleep(p)
    <3>1. In' = In /\ UNCHANGED <<lh, buf, wrote>>
      BY <1>t, <2>1, Zenon DEF begin_op_sleep, In, logVars
    <3> QED BY <1>0, <1>s, <2>0, <3>1, Zenon DEF Reserved
  <2>2. CASE begin_op(p)
    <3>1. /\ pc[p] # "in" /\ ~NoRoom /\ outstanding' = outstanding + 1 /\ In' = In \cup {p}
          /\ wrote' = [wrote EXCEPT ![p] = {}] /\ UNCHANGED <<lh, buf>>
      BY <1>t, <2>2, Zenon DEF begin_op, In
    <3>2. Len(lh') + Cardinality(Unused') <= LOGSIZE
      <4>1. Cardinality(In') = outstanding + 1
        BY <3>1, Zenon DEF Calls
      <4>2. (outstanding + 1) * MAXOPBLOCKS \in Nat
        BY <1>t, LogConstants, SMTT(30)
      <4> QED BY <1>t, <1>u, <3>1, <4>1, <4>2, LogConstants, SMTT(30) DEF NoRoom
    <3>3. buf'[p] = NoBuf
      BY <1>t, <3>1, Zenon DEF Calls
    <3>4. IsFiniteSet({}) /\ Cardinality({}) = 0
      BY FS_EmptySet, Zenon
    <3>5. wrote'[p] = {} /\ \A q \in In : q # p /\ wrote'[q] = wrote[q]
      BY <1>t, <3>1, Zenon DEF In
    <3>6. /\ IsFiniteSet(wrote'[p]) /\ Cardinality(wrote'[p]) <= OPBLOCKS
          /\ wrote'[p] \subseteq Elems(lh') /\ buf'[p] \in wrote'[p] \cup {NoBuf}
      BY <3>3, <3>4, <3>5, LogConstants, SMTT(30)
    <3>7. \A q \in In : /\ IsFiniteSet(wrote'[q]) /\ Cardinality(wrote'[q]) <= OPBLOCKS
                        /\ wrote'[q] \subseteq Elems(lh')
                        /\ \/ buf'[q] \in wrote'[q] \cup {NoBuf}
                           \/ Cardinality(wrote'[q]) < OPBLOCKS
      BY <3>1, <3>5, ZenonT(40) DEF Reserved
    <3> QED BY <3>1, <3>2, <3>6, <3>7, ZenonT(40) DEF Reserved
  <2>3. ASSUME NEW b \in Blocks, bread(p, b) PROVE Reserved'
    <3>1. /\ pc[p] = "in" /\ In' = In /\ UNCHANGED <<lh, wrote>>
          /\ b \in wrote[p] \/ Cardinality(wrote[p]) < OPBLOCKS
          /\ buf' = [buf EXCEPT ![p] = b]
      BY <2>3, Zenon DEF bread, In, logVars
    <3>2. Len(lh') + Cardinality(Unused') <= LOGSIZE
      BY <1>0, <1>s, <2>0, <3>1, ZenonT(40)
    <3>3. \A q \in In : \/ buf'[q] \in wrote[q] \cup {NoBuf}
                        \/ Cardinality(wrote[q]) < OPBLOCKS
      BY <1>t, <3>1, Zenon DEF Reserved, In
    <3> QED BY <3>1, <3>2, <3>3, Zenon DEF Reserved
  <2>4. ASSUME NEW v \in Vals, log_write(p, v) PROVE Reserved'
    <3> DEFINE b == buf[p]
               c == Cardinality(wrote[p])
    <3>1. /\ pc[p] = "in" /\ In' = In /\ b \in Blocks /\ UNCHANGED buf
          /\ wrote' = [wrote EXCEPT ![p] = @ \cup {b}]
          /\ lh' = IF b \notin Elems(lh) THEN Append(lh, b) ELSE lh
      BY <1>t, <2>4, Zenon DEF log_write, In
    <3>2. /\ wrote'[p] = wrote[p] \cup {b}
          /\ \A q \in In : q # p => wrote'[q] = wrote[q]
      BY <1>t, <3>1, Zenon DEF In
    <3>3. /\ IsFiniteSet(wrote'[p])
          /\ Cardinality(wrote'[p]) = IF b \in wrote[p] THEN c ELSE c + 1
      <4> DEFINE W == wrote[p]
      <4>1. IsFiniteSet(W)
        BY <1>i, <3>1, Zenon
      <4> HIDE DEF W, b
      <4>2. /\ IsFiniteSet(W \cup {b})
            /\ Cardinality(W \cup {b}) = IF b \in W THEN Cardinality(W) ELSE Cardinality(W) + 1
        BY <4>1, FS_AddElement, Zenon
      <4> QED BY <3>2, <4>2, Zenon DEF W
    <3>4. c \in Nat /\ c <= OPBLOCKS /\ (b \in wrote[p] \/ c < OPBLOCKS) /\ p \in In
      BY <1>i, <3>1, LogSentinels, Zenon
    <3>5. Cardinality(wrote'[p]) <= OPBLOCKS
      BY <3>3, <3>4, LogConstants
    <3>6. Elems(lh) \subseteq Elems(lh') /\ b \in Elems(lh')
      <4>1. CASE b \in Elems(lh)
        BY <3>1, <4>1, Zenon
      <4>2. CASE b \notin Elems(lh)
        <5>1. lh' = Append(lh, b) /\ lh' \in Seq(Blocks)
          BY <1>t, <3>1, <4>2
        <5>2. DOMAIN lh' = 1..Len(lh') /\ DOMAIN lh = 1..Len(lh)
          BY <1>t, <5>1
        <5>3. /\ Len(lh') = Len(lh) + 1 /\ lh'[Len(lh) + 1] = b
              /\ \A i \in 1..Len(lh) : lh'[i] = lh[i]
          BY <1>t, <5>1
        <5>4. Len(lh) + 1 \in DOMAIN lh' /\ \A i \in DOMAIN lh : i \in DOMAIN lh'
          BY <1>t, <5>2, <5>3
        <5>5. b \in Elems(lh')
          BY <5>3, <5>4, Zenon DEF Elems
        <5>6. ASSUME NEW x \in Elems(lh) PROVE x \in Elems(lh')
          BY <5>2, <5>3, <5>4, <5>6, Zenon DEF Elems
        <5> QED BY <5>5, <5>6, Zenon
      <4> QED BY <4>1, <4>2, Zenon
    <3>7. \A q \in In : /\ IsFiniteSet(wrote'[q]) /\ Cardinality(wrote'[q]) <= OPBLOCKS
                        /\ wrote'[q] \subseteq Elems(lh')
                        /\ \/ buf'[q] \in wrote'[q] \cup {NoBuf}
                           \/ Cardinality(wrote'[q]) < OPBLOCKS
      <4>1. wrote'[p] \subseteq Elems(lh') /\ buf'[p] \in wrote'[p]
        BY <1>i, <3>1, <3>2, <3>6, ZenonT(40)
      <4>2. \A q \in In : q # p => wrote'[q] \subseteq Elems(lh')
        BY <3>2, <3>6, ZenonT(40) DEF Reserved
      <4>3. \A q \in In : q # p => \/ buf'[q] \in wrote'[q] \cup {NoBuf}
                                   \/ Cardinality(wrote'[q]) < OPBLOCKS
        BY <3>1, <3>2, ZenonT(40) DEF Reserved
      <4> QED BY <3>2, <3>3, <3>5, <4>1, <4>2, <4>3, ZenonT(40) DEF Reserved
    <3>8. \A q \in In : \A k \in 1..MAXOPBLOCKS :
            k <= MAXOPBLOCKS - Cardinality(wrote'[q]) =>
              /\ k <= MAXOPBLOCKS - Cardinality(wrote[q])
              /\ q = p /\ b \notin wrote[p] => k # MAXOPBLOCKS - c
      <4>1. ASSUME NEW q \in In, q # p PROVE Cardinality(wrote'[q]) = Cardinality(wrote[q])
        BY <3>2, <4>1, Zenon
      <4>2. ASSUME NEW k \in 1..MAXOPBLOCKS, k <= MAXOPBLOCKS - Cardinality(wrote'[p])
            PROVE  k <= MAXOPBLOCKS - c /\ (b \notin wrote[p] => k # MAXOPBLOCKS - c)
        BY <3>3, <3>4, <4>2, LogConstants, SMTT(30)
      <4> QED BY <4>1, <4>2, Zenon
    <3>9. Unused' \subseteq Unused /\ (b \notin wrote[p] => <<p, MAXOPBLOCKS - c>> \notin Unused')
      BY <3>1, <3>8, ZenonT(40) DEF Unused
    <3>10. Len(lh') + Cardinality(Unused') <= LOGSIZE
      <4>1. CASE b \in Elems(lh)
        BY <1>0, <2>0, <3>1, <3>9, <4>1, Zenon
      <4>2. CASE b \notin Elems(lh)
        <5>1. b \notin wrote[p] /\ Len(lh') = Len(lh) + 1
          BY <1>i, <1>t, <3>1, <4>2, SMTT(30)
        <5> DEFINE x == <<p, MAXOPBLOCKS - c>>
        <5>2. c < MAXOPBLOCKS /\ MAXOPBLOCKS - c \in 1..MAXOPBLOCKS
          BY <3>4, <5>1, LogConstants, SMTT(30)
        <5>3. x \in Unused
          BY <3>4, <5>2, SMTT(30) DEF Unused
        <5>4. Unused' \in SUBSET (Unused \ {x})
          BY <3>9, <5>1, Zenon
        <5> HIDE DEF x
        <5>5. IsFiniteSet(Unused \ {x}) /\ Cardinality(Unused \ {x}) = Cardinality(Unused) - 1
          BY <1>u, <5>3, FS_RemoveElement, Zenon
        <5>6. Cardinality(Unused') <= Cardinality(Unused) - 1
          BY <5>4, <5>5, FS_Subset, SMTT(30)
        <5> QED BY <1>t, <1>u, <2>0, <5>1, <5>6, LogConstants, SMTT(30) DEF Reserved
      <4> QED BY <4>1, <4>2, Zenon
    <3> QED BY <3>1, <3>7, <3>10, ZenonT(40) DEF Reserved
  <2>5. CASE brelse(p)
    <3>1. In' = In /\ UNCHANGED <<lh, wrote>> /\ buf' = [buf EXCEPT ![p] = NoBuf]
      BY <2>5, Zenon DEF brelse, In, logVars
    <3>2. \A q \in In : buf'[q] = buf[q] \/ buf'[q] = NoBuf
      BY <1>t, <3>1, Zenon DEF In
    <3>3. Len(lh') + Cardinality(Unused') <= LOGSIZE
      BY <1>0, <1>s, <2>0, <3>1, Zenon
    <3> QED BY <3>1, <3>2, <3>3, Zenon DEF Reserved
  <2>6. CASE end_op_more(p) \/ end_op_last(p)
    <3>1. In' \subseteq In /\ UNCHANGED <<lh, buf, wrote>>
      <4>1. CASE end_op_more(p)
        BY <1>t, <4>1, Zenon DEF end_op_more, In, Woken
      <4>2. CASE end_op_last(p)
        BY <1>t, <4>2, Zenon DEF end_op_last, In
      <4> QED BY <2>6, <4>1, <4>2, Zenon
    <3>2. Len(lh') + Cardinality(Unused') <= LOGSIZE
      BY <1>0, <1>s, <2>0, <3>1, Zenon
    <3> QED BY <3>1, <3>2, Zenon DEF Reserved
  <2> QED BY <1>1, <2>1, <2>2, <2>3, <2>4, <2>5, <2>6, Zenon DEF SystemCall
<1>2. ASSUME NEW p \in Procs, Commit(p) PROVE Reserved'
  <2>1. pc[p] \in Committing /\ mode = "up" /\ (lh' = lh \/ lh' = << >>)
    BY <1>2, ZenonT(40)
      DEF Commit, write_log, write_head, install_trans, erase_head, end_commit, logVars,
                Committing
  <2>2. In = {}
    BY <2>1, ZenonT(40) DEF Calls
  <2>3. In' = {}
    BY <1>t, <1>2, <2>2, ZenonT(40)
      DEF Commit, write_log, write_head, install_trans, erase_head, end_commit,
                            Woken, In
  <2> QED BY <1>e, <2>1, <2>3, Zenon
<1>3. ASSUME NEW b \in Blocks, recycle(b) PROVE Reserved'
  <2>1. In' = In /\ UNCHANGED <<lh, buf, wrote, mode>>
    BY <1>3, Zenon DEF recycle, In, logVars, procVars, bootVars
  <2> QED BY <1>0, <1>s, <2>1, ZenonT(40) DEF Reserved
<1>4. CASE Recover \/ Crash
  <2>1. (mode' = "up" => lh' = << >>) /\ \A q \in Procs : pc'[q] = "out"
    <3>1. CASE Recover
      BY <3>1, ZenonT(40) DEF Recover, read_head, install_recovering, clear_log,
         procVars, Calls
    <3>2. CASE Crash
      BY <3>2, ZenonT(40) DEF Crash, ColdMemory
    <3> QED BY <1>4, <3>1, <3>2, Zenon
  <2> QED BY <1>e, <2>1, Zenon DEF In
<1>5. CASE UNCHANGED vars
  <2>1. In' = In /\ UNCHANGED <<lh, buf, wrote, mode>>
    BY <1>5, Zenon DEF vars, In, logVars, procVars, bootVars
  <2> QED BY <1>0, <1>s, <2>1, ZenonT(40) DEF Reserved
<1> QED BY <1>1, <1>2, <1>3, <1>4, <1>5, Zenon DEF Next

\* NoPanic: no panic() of log.c is reached, if a system call writes fewer blocks
\* than begin_op() reserves for it and the log on the disk is not shorter than the
\* header by more than the difference (mkfs.c: nlog = LOGSIZE, so with param.h's
\* numbers, if a system call writes at most 8 blocks).
THEOREM LogNoPanic ==
  ASSUME OPBLOCKS < MAXOPBLOCKS, LOGSIZE + OPBLOCKS + 1 < NLOG + MAXOPBLOCKS
  PROVE  Spec => []NoPanic
<1>1. Init => Reserved
  <2> SUFFICES ASSUME Init PROVE Reserved
    BY SMTT(30), Zenon
  <2>1. In = {} /\ mode # "up"
    BY Zenon DEF Init, ColdMemory, In
  <2> QED BY <2>1, Zenon DEF Reserved
<1>2. LogInv /\ LogInv' /\ Reserved /\ [Next]_vars => Reserved'
  BY ReservedStep, LogConstants, SMTT(30)
<1>3. LogInv /\ Reserved => NoPanic
  <2> SUFFICES ASSUME LogInv, Reserved, NEW p \in Procs, pc[p] = "in", buf[p] # NoBuf
               PROVE  ~TooBig /\ outstanding >= 1
    BY Counted, ZenonT(40) DEF NoPanic, LogInv
  <2> DEFINE c == Cardinality(wrote[p])
             R == {p} \X (1..(MAXOPBLOCKS - c))
  <2>1. mode = "up" /\ outstanding >= 1 /\ Len(lh) \in Nat
    BY Counted, SMTT(30) DEF LogInv, TypeOK, Calls
  <2>2. p \in In /\ c \in Nat /\ c <= OPBLOCKS
    BY FS_CardinalityType, Zenon DEF Reserved, In
  <2>3. R \in SUBSET Unused
    BY <2>2, LogConstants, SMTT(30) DEF Unused
  <2>4. IsFiniteSet(R) /\ Cardinality(R) = MAXOPBLOCKS - c
    <3>1. MAXOPBLOCKS - c \in Nat
      BY <2>2, LogConstants, SMTT(30)
    <3>2. IsFiniteSet({p}) /\ Cardinality({p}) = 1
      BY FS_Singleton, Zenon
    <3>3. Cardinality(R) = 1 * (MAXOPBLOCKS - c) /\ IsFiniteSet(R)
      BY <3>1, <3>2, Pairs, Zenon
    <3> QED BY <2>2, <3>3, LogConstants, SMTT(60)
  <2>5. IsFiniteSet(Unused) /\ Cardinality(Unused) \in Nat
    BY UnusedFinite, Zenon DEF LogInv
  <2> HIDE DEF R, c
  <2>6. MAXOPBLOCKS - c <= Cardinality(Unused)
    BY <2>3, <2>4, <2>5, FS_Subset, Zenon
  <2>7. Len(lh) + Cardinality(Unused) <= LOGSIZE
    BY <2>1, Zenon DEF Reserved
  <2> QED BY <2>1, <2>2, <2>5, <2>6, <2>7, LogConstants, SMTT(30) DEF TooBig
<1> QED BY <1>1, <1>2, <1>3, LogInvariant, PTL DEF Spec
=============================================================================
