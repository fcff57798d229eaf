----------------------------- MODULE DiskProofs -----------------------------
(***************************************************************************)
(* Proofs about module Disk, for any number of processes and descriptors   *)
(* and any width of the ring indices that the size of the rings divides.   *)
(***************************************************************************)
EXTENDS Disk, FiniteSetTheorems, WellFoundedInduction, TLAPS

-----------------------------------------------------------------------------
(* The inductive invariant                                                 *)

\* The three descriptors of the request of b.
Owned(b) == {idx0[b], next[idx0[b]], next[next[idx0[b]]]}

\* A request takes three different descriptors, none free and none of another
\* request, and says whose it is; no descriptor is lost.
Chains ==
  /\ \A b \in Busy : /\ Owned(b) \subseteq Descs \ free
                     /\ idx0[b] # next[idx0[b]] /\ idx0[b] # next[next[idx0[b]]]
                     /\ next[idx0[b]] # next[next[idx0[b]]]
                     /\ addr[next[idx0[b]]] = b /\ info[idx0[b]] = b
  /\ \A b, c \in Busy : b # c => Owned(b) \cap Owned(c) = {}
  /\ \A d \in Descs \ free : \E b \in Busy : d \in Owned(b)

\* What the label of virtio_disk_rw(b) says of the request and of vdisk_lock.
Labels ==
  \A b \in Bufs :
    /\ b \in Busy <=> pc[b] \in {"ring", "publish", "asleep", "awake"}
    /\ lock = b <=> pc[b] \in {"ring", "publish"}
    /\ pc[b] \in {"ring", "publish"} => bdisk[b]
    /\ pc[b] = "publish" => avail[avail_idx % NUM] = idx0[b]
    /\ b \in Busy /\ ~bdisk[b] => b \in done

\* The request with first descriptor i has been published and not been reported.
Waiting(i) ==
  \E b \in Busy : idx0[b] = i /\ bdisk[b] /\ pc[b] \in {"asleep", "awake"}

\* How many entries of a ring lie between two indices, and which.
Dist(from, to) == IF to >= from THEN to - from ELSE to - from + WRAP
Slot(from, k) == (from + k) % NUM
NAvail == Dist(fetched, avail_idx)
NUsed == Dist(seen, used_idx)
AvailAt(k) == avail[Slot(fetched, k)]
UsedAt(k) == used[Slot(seen, k)]

\* A request is in one place at a time: in the avail ring, with the device, or in
\* the used ring.
Places ==
  /\ \A k \in 0..(NAvail - 1) : Waiting(AvailAt(k)) /\ AvailAt(k) \notin working
  /\ \A k, l \in 0..(NAvail - 1) : AvailAt(k) = AvailAt(l) => k = l
  /\ \A i \in working : Waiting(i)
  /\ \A k \in 0..(NUsed - 1) : /\ Waiting(UsedAt(k)) /\ UsedAt(k) \notin working
                               /\ status[UsedAt(k)] /\ addr[next[UsedAt(k)]] \in done
  /\ \A k, l \in 0..(NUsed - 1) : UsedAt(k) = UsedAt(l) => k = l
  /\ \A k \in 0..(NAvail - 1), l \in 0..(NUsed - 1) : AvailAt(k) # UsedAt(l)

Reported == seen # used_idx => irq \/ lock = "intr"

DiskInv == TypeOK /\ Chains /\ Labels /\ Places /\ Reported

-----------------------------------------------------------------------------
(* The ring indices                                                        *)

\* Two multiples of n less than n apart are equal.
LEMMA Multiples ==
  ASSUME NEW n \in Nat \ {0}, NEW p \in Int, NEW q \in Int, n * p < n * q + n, n * q < n * p + n
  PROVE  p = q
<1>1. ASSUME p >= q + 1 PROVE FALSE
  <2>1. n * p >= n * (q + 1)
    BY <1>1
  <2>2. n * (q + 1) = n * q + n
    OBVIOUS
  <2> QED BY <2>1, <2>2
<1>2. ASSUME q >= p + 1 PROVE FALSE
  <2>1. n * q >= n * (p + 1)
    BY <1>2
  <2>2. n * (p + 1) = n * p + n
    OBVIOUS
  <2> QED BY <2>1, <2>2
<1> QED BY <1>1, <1>2

\* What \div and % return.
LEMMA Division ==
  ASSUME NEW n \in Nat \ {0}, NEW a \in Int
  PROVE  \E q \in Int : a = n * q + (a % n) /\ a % n \in 0..(n - 1)
<1>1. a = n * (a \div n) + (a % n) /\ a % n \in 0..(n - 1) /\ a \div n \in Int
  OBVIOUS
<1> QED BY <1>1, Zenon

\* Quotient and remainder are unique.
LEMMA ModIs ==
  ASSUME NEW n \in Nat \ {0}, NEW a \in Int, NEW q \in Int, NEW r \in 0..(n - 1), a = n * q + r
  PROVE  a % n = r
<1>1. PICK p \in Int : a = n * p + (a % n) /\ a % n \in 0..(n - 1)
  BY Division, Zenon
<1>2. n * p \in Int /\ n * q \in Int
  OBVIOUS
<1>3. n * p < n * q + n /\ n * q < n * p + n
  BY <1>1, <1>2
<1>4. p = q
  BY <1>3, Multiples, Zenon
<1> QED BY <1>1, <1>2, <1>4

\* The ring indices wrap at a multiple of NUM, as 2^16 is of 8.
LEMMA WrapIs == \E m \in Int : WRAP = NUM * m
<1>0. NUM \in Nat \ {0} /\ WRAP \in Int
  BY DiskConstants
<1>1. PICK m \in Int : WRAP = NUM * m + (WRAP % NUM)
  BY <1>0, Division, Zenon
<1> QED BY <1>1, DiskConstants

\* An index can count a full ring.
LEMMA RingFits == NUM <= WRAP
<1>1. PICK m \in Int : WRAP = NUM * m
  BY WrapIs, Zenon
<1>2. m >= 1
  <2>1. ASSUME m <= 0 PROVE FALSE
    <3>1. NUM * m <= NUM * 0
      BY <2>1, DiskConstants
    <3> QED BY <1>1, <3>1, DiskConstants
  <2> QED BY <2>1
<1>3. NUM * m >= NUM * 1
  BY <1>2, DiskConstants
<1> QED BY <1>1, <1>3, DiskConstants

\* avail->idx and used->idx may wrap around: the size of a ring divides 2^16.
LEMMA ModWrap ==
  ASSUME NEW a \in Int
  PROVE  (a + WRAP) % NUM = a % NUM
<1>0. NUM \in Nat \ {0} /\ WRAP \in Int
  BY DiskConstants
<1>1. PICK m \in Int : WRAP = NUM * m
  BY WrapIs, Zenon
<1> DEFINE r == a % NUM
<1>2. PICK q \in Int : a = NUM * q + r /\ r \in 0..(NUM - 1)
  BY <1>0, Division, Zenon
<1> HIDE DEF r
<1>3. NUM * (q + m) = NUM * q + NUM * m /\ q + m \in Int /\ NUM * q \in Int /\ NUM * m \in Int
  BY <1>0
<1>4. a + WRAP = NUM * (q + m) + r /\ a + WRAP \in Int
  BY <1>0, <1>1, <1>2, <1>3
<1>5. (a + WRAP) % NUM = r
  BY <1>0, <1>2, <1>3, <1>4, ModIs, Zenon
<1> QED BY <1>5, Zenon DEF r

\* Incrementing an index without %.
LEMMA IncIs ==
  ASSUME NEW k \in Idx
  PROVE  Inc(k) = (IF k = WRAP - 1 THEN 0 ELSE k + 1) /\ Inc(k) \in Idx
<1>1. CASE k = WRAP - 1
  <2>1. k + 1 = WRAP * 1 + 0
    BY <1>1, DiskConstants
  <2>2. (k + 1) % WRAP = 0
    BY <2>1, ModIs, DiskConstants DEF Idx
  <2> QED BY <1>1, <2>2, DiskConstants DEF Inc, Idx
<1>2. CASE k # WRAP - 1
  <2>1. k + 1 = WRAP * 0 + (k + 1) /\ k + 1 \in 0..(WRAP - 1)
    BY <1>2, DiskConstants DEF Idx
  <2>2. (k + 1) % WRAP = k + 1
    BY <2>1, ModIs, DiskConstants
  <2> QED BY <1>2, <2>1, <2>2, DiskConstants, Zenon DEF Inc, Idx
<1> QED BY <1>1, <1>2, Zenon

\* The distance between two indices, and how moving either by one changes it.
LEMMA DistIs ==
  ASSUME NEW from \in Idx, NEW to \in Idx
  PROVE  /\ Dist(from, to) \in 0..(WRAP - 1)
         /\ Dist(from, to) = 0 <=> from = to
         /\ from # to => Dist(Inc(from), to) = Dist(from, to) - 1
         /\ Dist(from, to) < WRAP - 1 => Dist(from, Inc(to)) = Dist(from, to) + 1
         /\ (to - from) % WRAP = Dist(from, to)
<1>1. Dist(from, to) \in 0..(WRAP - 1) /\ (Dist(from, to) = 0 <=> from = to)
  BY DiskConstants DEF Idx, Dist
<1>2. from # to => Dist(Inc(from), to) = Dist(from, to) - 1
  BY IncIs, DiskConstants DEF Idx, Dist
<1>3. Dist(from, to) < WRAP - 1 => Dist(from, Inc(to)) = Dist(from, to) + 1
  BY IncIs, DiskConstants DEF Idx, Dist
<1>4. (to - from) % WRAP = Dist(from, to)
  <2>1. to - from = WRAP * 0 + Dist(from, to) \/ to - from = WRAP * (-1) + Dist(from, to)
    BY DiskConstants DEF Idx, Dist
  <2>2. to - from \in Int
    BY DEF Idx
  <2> QED BY <1>1, <2>1, <2>2, ModIs, DiskConstants
<1> QED BY <1>1, <1>2, <1>3, <1>4, Zenon

\* The slots of an index and of the next one; NUM consecutive slots are distinct.
LEMMA SlotIs ==
  ASSUME NEW from \in Idx
  PROVE  /\ \A k \in Nat : Slot(from, k) \in Descs /\ Slot(Inc(from), k) = Slot(from, k + 1)
         /\ \A k, l \in 0..(NUM - 1) : Slot(from, k) = Slot(from, l) => k = l
         /\ Slot(from, 0) = from % NUM
         /\ \A to \in Idx : Slot(from, Dist(from, to)) = to % NUM
<1>f. from \in Nat /\ from + 0 = from /\ NUM \in Nat \ {0}
  BY DiskConstants DEF Idx
<1>1. ASSUME NEW k \in Nat PROVE Slot(from, k) \in Descs /\ Slot(Inc(from), k) = Slot(from, k + 1)
  <2>1. Slot(from, k) \in Descs
    BY <1>f, Division, DiskConstants DEF Slot, Descs
  <2>2. CASE from = WRAP - 1
    <3>1. Inc(from) = 0 /\ 0 + k = k /\ from + (k + 1) = k + WRAP
      BY <2>2, IncIs, DiskConstants
    <3> QED BY <2>1, <3>1, ModWrap DEF Slot
  <2>3. CASE from # WRAP - 1
    <3>1. Inc(from) = from + 1 /\ (from + 1) + k = from + (k + 1)
      BY <1>f, <2>3, IncIs
    <3> QED BY <2>1, <3>1, Zenon DEF Slot
  <2> QED BY <2>2, <2>3, Zenon
<1>2. ASSUME NEW k \in 0..(NUM - 1), NEW l \in 0..(NUM - 1), Slot(from, k) = Slot(from, l)
      PROVE  k = l
  <2> DEFINE r == (from + k) % NUM
  <2>1. PICK p \in Int : from + k = NUM * p + r
    <3>1. from + k \in Int
      BY <1>f
    <3> QED BY <1>f, <3>1, Division, Zenon
  <2>2. PICK q \in Int : from + l = NUM * q + r /\ r \in 0..(NUM - 1)
    <3>1. from + l \in Int
      BY <1>f
    <3>2. r = (from + l) % NUM
      BY <1>2, Zenon DEF Slot
    <3> HIDE DEF r
    <3> QED BY <1>f, <3>1, <3>2, Division, Zenon
  <2> HIDE DEF r
  <2>3. NUM * p \in Int /\ NUM * q \in Int
    BY DiskConstants
  <2>4. NUM * p < NUM * q + NUM /\ NUM * q < NUM * p + NUM
    BY <1>f, <2>1, <2>2, <2>3, DiskConstants
  <2>5. p = q
    BY <2>4, Multiples, DiskConstants, Zenon
  <2> QED BY <1>f, <2>1, <2>2, <2>3, <2>5
<1>3. ASSUME NEW to \in Idx PROVE Slot(from, Dist(from, to)) = to % NUM
  <2>1. to \in Int /\ (from + Dist(from, to) = to \/ from + Dist(from, to) = to + WRAP)
    BY DiskConstants DEF Idx, Dist
  <2> QED BY <2>1, ModWrap, Zenon DEF Slot
<1> QED BY <1>f, <1>1, <1>2, <1>3, Zenon DEF Slot

-----------------------------------------------------------------------------
(* Descriptors                                                             *)

\* The sentinels are no descriptors or processes.
LEMMA NilIs == Nil \notin Descs /\ Nil \notin Bufs /\ "intr" \notin Bufs /\ Nil # "intr"
  BY DiskConstants, DiskSentinels DEF Descs

\* The least element of a set of descriptors belongs to it.
LEMMA MinIn ==
  ASSUME NEW S, S \subseteq Descs, S # {}
  PROVE  Min(S) \in S
<1> DEFINE R == {ss \in Nat \X Nat : ss[1] < ss[2]}
<1>1. S \subseteq Nat
  BY DEF Descs
<1>2. IsWellFoundedOn(R, Nat)
  BY NatLessThanWellFounded, Zenon DEF OpToRel
<1>3. PICK x \in S : \A y \in S : ~(<<y, x>> \in R)
  <2> HIDE DEF R
  <2> QED BY <1>1, <1>2, WFMin, Zenon
<1>4. ASSUME NEW y \in S PROVE x <= y
  <2>1. <<y, x>> \notin R /\ <<y, x>> \in Nat \X Nat
    BY <1>1, <1>3, Zenon
  <2> QED BY <1>1, <2>1
<1> QED BY <1>4, Zenon DEF Min

\* There are NUM descriptors.
LEMMA DescsFinite == IsFiniteSet(Descs) /\ Cardinality(Descs) = NUM
<1>1. 0 \in Int /\ NUM - 1 \in Int /\ ~(0 > NUM - 1)
  BY DiskConstants
<1> QED BY <1>1, FS_Interval, DiskConstants DEF Descs

\* alloc3_desc() finds three different free descriptors if there are three.
LEMMA ThreeFree ==
  ASSUME free \subseteq Descs, Cardinality(free) >= 3
  PROVE  \E i, j, k \in free :
           /\ i = Min(free) /\ j = Min(free \ {i}) /\ k = Min(free \ {i, j})
           /\ i # j /\ i # k /\ j # k
<1>1. IsFiniteSet(free) /\ Cardinality(free) \in Nat
  BY DescsFinite, FS_Subset, FS_CardinalityType, Zenon
<1>2. free # {}
  BY FS_EmptySet
<1> DEFINE i == Min(free)
<1>3. i \in free
  BY <1>2, MinIn, Zenon
<1> DEFINE F == free \ {i}
<1> HIDE DEF i
<1>4. IsFiniteSet(F) /\ Cardinality(F) = Cardinality(free) - 1
  BY <1>1, <1>3, FS_RemoveElement, Zenon
<1>5. F # {}
  BY <1>1, <1>4, FS_EmptySet
<1> DEFINE j == Min(F)
<1>6. j \in F
  BY <1>5, MinIn, Zenon
<1> HIDE DEF j
<1> DEFINE G == F \ {j}
<1>7. IsFiniteSet(G) /\ Cardinality(G) = Cardinality(F) - 1
  <2> HIDE DEF F
  <2> QED BY <1>4, <1>6, FS_RemoveElement, Zenon
<1>8. G # {}
  BY <1>1, <1>4, <1>7, FS_EmptySet
<1>9. Min(G) \in G
  BY <1>8, MinIn, Zenon
<1>10. G = free \ {i, j}
  BY Zenon
<1>11. i = Min(free) /\ j = Min(free \ {i})
  BY Zenon DEF i, j
<1>12. Min(free \ {i, j}) \in free \ {i, j}
  BY <1>9, <1>10, Zenon
<1>13. j \in free \ {i}
  BY <1>6, Zenon
<1> HIDE DEF F, G
<1> DEFINE k == Min(free \ {i, j})
<1>14. k \in free /\ i # j /\ i # k /\ j # k /\ j \in free
  BY <1>12, <1>13, Zenon
<1> QED BY <1>3, <1>11, <1>14, Zenon

\* A ring cannot hold n different requests and the descriptors of another one
\* unless there are n + 3 descriptors.
LEMMA Pigeonhole ==
  ASSUME NEW n \in Nat, NEW T \in SUBSET Descs, NEW f \in [0..(n - 1) -> T],
         \A k, l \in 0..(n - 1) : f[k] = f[l] => k = l
  PROVE  n <= Cardinality(T)
<1> DEFINE S == 0..(n - 1)
<1>1. Cardinality(S) = n
  <2>1. 0 \in Int /\ n - 1 \in Int
    OBVIOUS
  <2>2. Cardinality(0..(n - 1)) = IF 0 > n - 1 THEN 0 ELSE (n - 1) - 0 + 1
    BY <2>1, FS_Interval, Zenon
  <2> QED BY <2>2
<1>2. IsFiniteSet(T)
  BY DescsFinite, FS_Subset, Zenon
<1>3. f \in Injection(S, T)
  BY Zenon DEF Injection, IsInjective
<1> HIDE DEF S
<1> QED BY <1>1, <1>2, <1>3, FS_Injection, Zenon

\* A chain leaves NUM - 3 descriptors.
LEMMA WithoutThree ==
  ASSUME NEW x \in Descs, NEW y \in Descs, NEW z \in Descs, x # y, x # z, y # z
  PROVE  Cardinality(Descs \ {x, y, z}) = NUM - 3
<1>1. IsFiniteSet(Descs \ {x}) /\ Cardinality(Descs \ {x}) = NUM - 1
  BY DescsFinite, FS_RemoveElement, Zenon
<1>2. /\ IsFiniteSet((Descs \ {x}) \ {y})
      /\ Cardinality((Descs \ {x}) \ {y}) = Cardinality(Descs \ {x}) - 1
  BY <1>1, FS_RemoveElement, Zenon
<1>3. Cardinality(((Descs \ {x}) \ {y}) \ {z}) = Cardinality((Descs \ {x}) \ {y}) - 1
  BY <1>2, FS_RemoveElement
<1>4. ((Descs \ {x}) \ {y}) \ {z} = Descs \ {x, y, z}
  BY Zenon
<1> QED BY <1>1, <1>2, <1>3, <1>4, DiskConstants

\* free_chain() walks exactly the three descriptors of a request.
LEMMA ChainIs ==
  ASSUME Chains, NEW b \in Busy
  PROVE  /\ Chain(idx0[b]) = Owned(b)
         /\ idx0[b] \in Descs /\ next[idx0[b]] \in Descs /\ next[next[idx0[b]]] \in Descs
<1>1. idx0[b] \in Descs /\ next[idx0[b]] \in Descs /\ next[next[idx0[b]]] \in Descs
  BY Zenon DEF Chains, Owned
<1> QED BY <1>1, NilIs, Zenon DEF Chain, Owned

\* A request that waits is the request of one buffer, whose descriptors it names.
LEMMA WaitingIs ==
  ASSUME Chains, NEW i, Waiting(i)
  PROVE  \E b \in Busy : /\ idx0[b] = i /\ bdisk[b] /\ pc[b] \in {"asleep", "awake"}
                         /\ i \in Descs \ free /\ next[i] \in Descs \ free
                         /\ info[i] = b /\ addr[next[i]] = b
                         /\ \A c \in Busy : i \in Owned(c) => c = b
<1>1. PICK b \in Busy : idx0[b] = i /\ bdisk[b] /\ pc[b] \in {"asleep", "awake"}
  BY Zenon DEF Waiting
<1>2. i \in Owned(b) /\ next[i] \in Owned(b)
  BY <1>1, Zenon DEF Owned
<1>3. \A c \in Busy : i \in Owned(c) => c = b
  BY <1>2, Zenon DEF Chains
<1> QED BY <1>1, <1>2, <1>3, Zenon DEF Chains

\* Every step keeps the types.
LEMMA TypeStep ==
  ASSUME DiskInv, [Next]_vars
  PROVE  TypeOK'
<1> USE DEF DiskInv, TypeOK
<1>n. 0 \in Descs /\ \A k \in Idx : k % NUM \in Descs
  <2>1. \A k \in Idx : Slot(k, 0) = k % NUM /\ Slot(k, 0) \in Descs
    BY SlotIs, Zenon
  <2> QED BY <2>1, DiskConstants DEF Descs
<1>1. ASSUME NEW b \in Bufs, rw(b) \/ sleep_again(b) \/ kill(b) PROVE TypeOK'
  <2>1. UNCHANGED <<descVars, availVars, usedVars, seen, bdisk, lock, idx0, deviceVars>>
    BY <1>1, Zenon DEF rw, sleep_again, kill
  <2>2. pc' \in [Bufs -> {"idle", "enter", "nodesc", "ring", "publish", "asleep", "awake"}]
    BY <1>1 DEF rw, sleep_again, kill
  <2> QED BY <2>1, <2>2, Zenon DEF descVars, availVars, usedVars, deviceVars
<1>2. ASSUME NEW b \in Bufs, alloc3_desc(b) PROVE TypeOK'
  <2>1. PICK i, j, k \in free : Format(b, i, j, k)
    BY <1>2, ThreeFree, Zenon DEF alloc3_desc
  <2> QED BY <2>1, Zenon DEF Format, availVars, usedVars, deviceVars
<1>3. ASSUME NEW b \in Bufs, alloc3_desc_fail(b) PROVE TypeOK'
  <2>1. UNCHANGED <<descVars, availVars, usedVars, seen, bdisk, lock, idx0, deviceVars>>
    BY <1>3, Zenon DEF alloc3_desc_fail
  <2>2. pc' \in [Bufs -> {"idle", "enter", "nodesc", "ring", "publish", "asleep", "awake"}]
    BY <1>3, Zenon DEF alloc3_desc_fail, Woken
  <2> QED BY <2>1, <2>2, Zenon DEF descVars, availVars, usedVars, deviceVars
<1>4. ASSUME NEW b \in Bufs, put_avail(b) PROVE TypeOK'
  <2>1. idx0[b] \in Descs
    BY <1>4, ChainIs, Zenon DEF put_avail, PutAvail, Labels
  <2> QED BY <1>4, <2>1, Zenon DEF put_avail, PutAvail, descVars, usedVars, deviceVars
<1>5. ASSUME NEW b \in Bufs, publish(b) PROVE TypeOK'
  BY <1>5, IncIs, Zenon DEF publish, descVars, usedVars, deviceVars
<1>6. ASSUME NEW b \in Bufs, free_chain(b) PROVE TypeOK'
  <2>1. b \in Busy
    BY <1>6, Zenon DEF free_chain, Finish, Labels
  <2>2. Chain(idx0[b]) \subseteq Descs /\ idx0[b] \in Descs
    BY <2>1, ChainIs DEF Chains
  <2>3. pc' \in [Bufs -> {"idle", "enter", "nodesc", "ring", "publish", "asleep", "awake"}]
    BY <1>6, Zenon DEF free_chain, Finish, Woken
  <2> QED BY <1>6, <2>2, <2>3, Zenon DEF free_chain, Finish, availVars, usedVars
<1>7. CASE fetch
  <2>1. avail[fetched % NUM] \in Descs
    BY <1>n, Zenon
  <2> QED BY <1>7, <1>n, <2>1, IncIs, Zenon DEF fetch, descVars, usedVars
<1>8. ASSUME NEW i \in Descs, complete(i) PROVE TypeOK'
  <2>1. addr[next[i]] \in Bufs
    BY <1>8, WaitingIs DEF complete, Places, Busy
  <2>2. done' \subseteq Bufs /\ working' \subseteq Descs /\ used' \in [Descs -> Descs]
    BY <1>8, <2>1, Zenon DEF complete
  <2>3. status' \in [Descs -> BOOLEAN] /\ irq' \in BOOLEAN
    BY <1>8, Zenon DEF complete
  <2>4. used_idx' \in Idx
    BY <1>8, IncIs, Zenon DEF complete
  <2> QED BY <1>8, <2>2, <2>3, <2>4, Zenon DEF complete, availVars
<1>9. CASE intr \/ intr_return
  BY <1>9, Zenon DEF intr, intr_return, descVars, availVars, usedVars, deviceVars
<1>10. CASE intr_one
  <2>1. pc' \in [Bufs -> {"idle", "enter", "nodesc", "ring", "publish", "asleep", "awake"}]
    BY <1>10, Zenon DEF intr_one, Woken
  <2>2. seen' \in Idx
    BY <1>10, IncIs, Zenon DEF intr_one
  <2>3. bdisk' \in [Bufs -> BOOLEAN] /\ used' \in [Descs -> Descs]
    BY <1>10, <1>n, Zenon DEF intr_one
  <2> QED BY <1>10, <2>1, <2>2, <2>3, Zenon
             DEF intr_one, descVars, availVars, deviceVars
<1>11. CASE UNCHANGED vars
  BY <1>11, Zenon DEF vars, descVars, availVars, usedVars, deviceVars
<1> QED BY <1>1, <1>2, <1>3, <1>4, <1>5, <1>6, <1>7, <1>8, <1>9, <1>10, <1>11, Zenon
        DEF Next, Running, Device, Interrupt

\* alloc3_desc() takes three free descriptors, free_chain() returns them, and no other
\* step touches a chain.
LEMMA ChainsStep ==
  ASSUME DiskInv, TypeOK', [Next]_vars
  PROVE  Chains'
<1> USE DEF DiskInv
<1>0. ASSUME UNCHANGED <<idx0, next, addr, info, free>> PROVE Chains'
  BY <1>0 DEF Chains, Busy, Owned
<1>1. ASSUME NEW b \in Bufs, alloc3_desc(b) PROVE Chains'
  <2>1. PICK i, j, k \in free : Format(b, i, j, k) /\ i # j /\ i # k /\ j # k /\ pc[b] = "enter"
    BY <1>1, ThreeFree, Zenon DEF alloc3_desc, TypeOK
  <2>2. /\ free' = free \ {i, j, k} /\ next' = [next EXCEPT ![i] = j, ![j] = k, ![k] = Nil]
        /\ addr' = [addr EXCEPT ![j] = b] /\ info' = [info EXCEPT ![i] = b]
        /\ idx0' = [idx0 EXCEPT ![b] = i]
    BY <2>1, Zenon DEF Format
  <2>3. i \in Descs /\ j \in Descs /\ k \in Descs /\ b \notin Busy
    BY <2>1, Zenon DEF TypeOK, Labels
  <2>4. Busy' = Busy \cup {b} /\ \A c \in Busy : c # b /\ idx0'[c] = idx0[c]
    BY <2>2, <2>3, NilIs DEF Busy, TypeOK
  <2>5. /\ idx0'[b] = i /\ next'[i] = j /\ next'[j] = k /\ addr'[j] = b /\ info'[i] = b
        /\ \A d \in Descs \ {i, j, k} :
             next'[d] = next[d] /\ addr'[d] = addr[d] /\ info'[d] = info[d]
    BY <2>1, <2>2, <2>3, SMTT(30) DEF TypeOK
  <2>6. Owned(b)' = {i, j, k}
    BY <2>5, Zenon DEF Owned
  <2>7. ASSUME NEW c \in Busy
        PROVE  /\ Owned(c)' = Owned(c) /\ idx0'[c] = idx0[c] /\ next'[idx0[c]] = next[idx0[c]]
               /\ next'[next[idx0[c]]] = next[next[idx0[c]]]
               /\ addr'[next[idx0[c]]] = addr[next[idx0[c]]] /\ info'[idx0[c]] = info[idx0[c]]
               /\ Owned(c) \cap {i, j, k} = {}
    <3>1. Owned(c) \subseteq Descs \ {i, j, k}
      BY <2>1 DEF Chains
    <3>2. idx0[c] \in Owned(c) /\ next[idx0[c]] \in Owned(c) /\ next[next[idx0[c]]] \in Owned(c)
      BY Zenon DEF Owned
    <3> QED BY <2>4, <2>5, <3>1, <3>2, SMTT(30) DEF Owned
  <2>8. \A c \in Busy' : /\ Owned(c)' \subseteq Descs \ free'
                         /\ idx0'[c] # next'[idx0'[c]] /\ idx0'[c] # next'[next'[idx0'[c]]]
                         /\ next'[idx0'[c]] # next'[next'[idx0'[c]]]
                         /\ addr'[next'[idx0'[c]]] = c /\ info'[idx0'[c]] = c
    <3>1. ASSUME NEW c \in Busy
          PROVE  /\ Owned(c)' \subseteq Descs \ free'
                 /\ idx0'[c] # next'[idx0'[c]] /\ idx0'[c] # next'[next'[idx0'[c]]]
                 /\ next'[idx0'[c]] # next'[next'[idx0'[c]]]
                 /\ addr'[next'[idx0'[c]]] = c /\ info'[idx0'[c]] = c
      <4>1. Owned(c)' \subseteq Descs \ free'
        BY <2>2, <2>7, SMTT(30) DEF Chains
      <4>2. idx0'[c] # next'[idx0'[c]] /\ idx0'[c] # next'[next'[idx0'[c]]]
        <5>1. idx0[c] # next[idx0[c]] /\ idx0[c] # next[next[idx0[c]]]
          BY Zenon DEF Chains
        <5>2. /\ idx0'[c] = idx0[c] /\ next'[idx0[c]] = next[idx0[c]]
              /\ next'[next[idx0[c]]] = next[next[idx0[c]]]
          BY <2>7, Zenon
        <5> QED BY <5>1, <5>2, Zenon
      <4>3. next'[idx0'[c]] # next'[next'[idx0'[c]]]
        BY <2>7 DEF Chains
      <4>4. addr'[next'[idx0'[c]]] = c /\ info'[idx0'[c]] = c
        BY <2>7 DEF Chains
      <4> QED BY <4>1, <4>2, <4>3, <4>4, Zenon
    <3>2. Owned(b)' \subseteq Descs \ free'
      BY <2>2, <2>3, <2>6, Zenon
    <3>3. /\ idx0'[b] # next'[idx0'[b]] /\ idx0'[b] # next'[next'[idx0'[b]]]
          /\ next'[idx0'[b]] # next'[next'[idx0'[b]]]
          /\ addr'[next'[idx0'[b]]] = b /\ info'[idx0'[b]] = b
      BY <2>1, <2>5, Zenon
    <3> QED BY <2>4, <3>1, <3>2, <3>3, Zenon
  <2>9. \A c, e \in Busy' : c # e => Owned(c)' \cap Owned(e)' = {}
    BY <2>4, <2>6, <2>7 DEF Chains
  <2>10. \A d \in Descs \ free' : \E c \in Busy' : d \in Owned(c)'
    BY <2>2, <2>4, <2>6, <2>7 DEF Chains
  <2> QED BY <2>8, <2>9, <2>10, Zenon DEF Chains
<1>2. ASSUME NEW b \in Bufs, free_chain(b) PROVE Chains'
  <2>1. b \in Busy
    BY <1>2, Zenon DEF free_chain, Finish, Labels
  <2>2. /\ free' = free \cup Owned(b)
        /\ addr' = [d \in Descs |-> IF d \in Owned(b) THEN Nil ELSE addr[d]]
        /\ next' = [d \in Descs |-> IF d \in Owned(b) THEN Nil ELSE next[d]]
        /\ info' = [info EXCEPT ![idx0[b]] = Nil] /\ idx0' = [idx0 EXCEPT ![b] = Nil]
    BY <1>2, <2>1, ChainIs, Zenon DEF free_chain, Finish
  <2>3. Busy' = Busy \ {b} /\ \A c \in Busy \ {b} : idx0'[c] = idx0[c]
    BY <2>2, Zenon DEF Busy, TypeOK
  <2>4. ASSUME NEW c \in Busy \ {b}
        PROVE  /\ Owned(c)' = Owned(c) /\ idx0'[c] = idx0[c] /\ next'[idx0[c]] = next[idx0[c]]
               /\ next'[next[idx0[c]]] = next[next[idx0[c]]]
               /\ addr'[next[idx0[c]]] = addr[next[idx0[c]]] /\ info'[idx0[c]] = info[idx0[c]]
               /\ Owned(c) \cap Owned(b) = {}
    <3>1. Owned(c) \cap Owned(b) = {} /\ Owned(c) \subseteq Descs
      BY <2>1, Zenon DEF Chains
    <3>2. /\ idx0[c] \in Owned(c) /\ next[idx0[c]] \in Owned(c) /\ next[next[idx0[c]]] \in Owned(c)
          /\ idx0[b] \in Owned(b)
      BY Zenon DEF Owned
    <3>3. idx0[c] # idx0[b]
      BY <3>1, <3>2, Zenon
    <3>4. \A d \in Owned(c) : d \in Descs /\ d \notin Owned(b)
      BY <3>1, Zenon
    <3>5. \A d \in Owned(c) : next'[d] = next[d] /\ addr'[d] = addr[d]
      BY <2>2, <3>4, Zenon
    <3>6. info'[idx0[c]] = info[idx0[c]]
      BY <2>2, <3>2, <3>3, <3>4, Zenon DEF TypeOK
    <3>7. Owned(c)' = Owned(c)
      BY <2>3, <3>2, <3>5, Zenon DEF Owned
    <3> QED BY <2>3, <3>1, <3>2, <3>5, <3>6, <3>7, Zenon
  <2>5. \A c \in Busy' : /\ Owned(c)' \subseteq Descs \ free'
                         /\ idx0'[c] # next'[idx0'[c]] /\ idx0'[c] # next'[next'[idx0'[c]]]
                         /\ next'[idx0'[c]] # next'[next'[idx0'[c]]]
                         /\ addr'[next'[idx0'[c]]] = c /\ info'[idx0'[c]] = c
    <3> SUFFICES ASSUME NEW c \in Busy \ {b}
                 PROVE  /\ Owned(c)' \subseteq Descs \ free'
                        /\ idx0'[c] # next'[idx0'[c]] /\ idx0'[c] # next'[next'[idx0'[c]]]
                        /\ next'[idx0'[c]] # next'[next'[idx0'[c]]]
                        /\ addr'[next'[idx0'[c]]] = c /\ info'[idx0'[c]] = c
      BY <2>3, Zenon
    <3>1. Owned(c)' \subseteq Descs \ free'
      BY <2>2, <2>4 DEF Chains
    <3>2. idx0'[c] # next'[idx0'[c]] /\ idx0'[c] # next'[next'[idx0'[c]]]
      BY <2>4 DEF Chains
    <3>3. next'[idx0'[c]] # next'[next'[idx0'[c]]]
      BY <2>4 DEF Chains
    <3>4. addr'[next'[idx0'[c]]] = c /\ info'[idx0'[c]] = c
      BY <2>4 DEF Chains
    <3> QED BY <3>1, <3>2, <3>3, <3>4, Zenon
  <2>6. \A c, e \in Busy' : c # e => Owned(c)' \cap Owned(e)' = {}
    BY <2>3, <2>4 DEF Chains
  <2>7. \A d \in Descs \ free' : \E c \in Busy' : d \in Owned(c)'
    BY <2>2, <2>3, <2>4 DEF Chains
  <2> QED BY <2>5, <2>6, <2>7, Zenon DEF Chains
<1>3. ASSUME NEW b \in Bufs,
             \/ rw(b) \/ alloc3_desc_fail(b) \/ put_avail(b)
             \/ publish(b) \/ sleep_again(b) \/ kill(b)
      PROVE  Chains'
  BY <1>0, <1>3, Zenon
    DEF rw, alloc3_desc_fail, put_avail, PutAvail, publish, sleep_again, kill, descVars
<1>4. CASE fetch \/ Interrupt
  BY <1>0, <1>4, ZenonT(40) DEF fetch, Interrupt, intr, intr_one, intr_return, descVars
<1>5. ASSUME NEW i \in Descs, complete(i) PROVE Chains'
  BY <1>0, <1>5, Zenon DEF complete
<1>6. CASE UNCHANGED vars
  BY <1>0, <1>6, Zenon DEF vars, descVars
<1> QED BY <1>1, <1>2, <1>3, <1>4, <1>5, <1>6, Zenon DEF Next, Running, Device

-----------------------------------------------------------------------------
(* The rings                                                               *)

\* The requests in the avail ring are different: it never overflows, and while
\* virtio_disk_rw() is adding one there is room.
LEMMA AvailFits ==
  ASSUME DiskInv
  PROVE  /\ NAvail \in 0..NUM /\ NAvail \in 0..(WRAP - 1)
         /\ \A b \in Bufs : pc[b] \in {"ring", "publish"} => NAvail <= NUM - 3
<1> USE DEF DiskInv
<1> DEFINE f == [k \in 0..(NAvail - 1) |-> AvailAt(k)]
<1>1. NAvail \in 0..(WRAP - 1) /\ NAvail \in Nat
  BY DistIs, DiskConstants DEF NAvail, TypeOK
<1>2. \A k \in 0..(NAvail - 1) : AvailAt(k) \in Descs
  BY WaitingIs, Zenon DEF Places
<1>3. \A k, l \in 0..(NAvail - 1) : f[k] = f[l] => k = l
  BY Zenon DEF Places
<1>4. NAvail <= NUM
  <2>1. f \in [0..(NAvail - 1) -> Descs]
    BY <1>2, Zenon
  <2> HIDE DEF f
  <2> QED BY <1>1, <1>3, <2>1, Pigeonhole, DescsFinite, Zenon
<1>5. ASSUME NEW b \in Bufs, pc[b] \in {"ring", "publish"} PROVE NAvail <= NUM - 3
  <2>1. b \in Busy
    BY <1>5, Zenon DEF Labels
  <2>2. ASSUME NEW k \in 0..(NAvail - 1) PROVE AvailAt(k) \notin Owned(b)
    <3>1. PICK c \in Busy : /\ pc[c] \in {"asleep", "awake"}
                            /\ \A e \in Busy : AvailAt(k) \in Owned(e) => e = c
      BY WaitingIs DEF Places
    <3> QED BY <1>5, <2>1, <3>1, Zenon
  <2>3. f \in [0..(NAvail - 1) -> Descs \ Owned(b)]
    BY <1>2, <2>2, Zenon
  <2>4. Cardinality(Descs \ Owned(b)) = NUM - 3
    BY <2>1, ChainIs, WithoutThree DEF Owned, Chains
  <2>5. Descs \ Owned(b) \in SUBSET Descs
    BY Zenon
  <2> HIDE DEF f
  <2> QED BY <1>1, <1>3, <2>3, <2>4, <2>5, Pigeonhole
<1> QED BY <1>1, <1>4, <1>5, DiskConstants

\* The same of the used ring, while the device is completing a request.
LEMMA UsedFits ==
  ASSUME DiskInv
  PROVE  /\ NUsed \in 0..NUM /\ NUsed \in 0..(WRAP - 1)
         /\ working # {} => NUsed <= NUM - 3
<1> USE DEF DiskInv
<1> DEFINE f == [k \in 0..(NUsed - 1) |-> UsedAt(k)]
<1>1. NUsed \in 0..(WRAP - 1) /\ NUsed \in Nat
  BY DistIs, DiskConstants DEF NUsed, TypeOK
<1>2. \A k \in 0..(NUsed - 1) : UsedAt(k) \in Descs
  BY WaitingIs, Zenon DEF Places
<1>3. \A k, l \in 0..(NUsed - 1) : f[k] = f[l] => k = l
  BY Zenon DEF Places
<1>4. NUsed <= NUM
  <2>1. f \in [0..(NUsed - 1) -> Descs]
    BY <1>2, Zenon
  <2> HIDE DEF f
  <2> QED BY <1>1, <1>3, <2>1, Pigeonhole, DescsFinite, Zenon
<1>5. ASSUME NEW i \in working PROVE NUsed <= NUM - 3
  <2>1. PICK b \in Busy : idx0[b] = i
    BY WaitingIs, Zenon DEF Places
  <2>2. ASSUME NEW k \in 0..(NUsed - 1) PROVE UsedAt(k) \notin Owned(b)
    <3>1. PICK c \in Busy : /\ idx0[c] = UsedAt(k)
                            /\ \A e \in Busy : UsedAt(k) \in Owned(e) => e = c
      BY WaitingIs DEF Places
    <3>2. UsedAt(k) # i
      BY Zenon DEF Places
    <3> QED BY <2>1, <3>1, <3>2, Zenon
  <2>3. f \in [0..(NUsed - 1) -> Descs \ Owned(b)]
    BY <1>2, <2>2, Zenon
  <2>4. Cardinality(Descs \ Owned(b)) = NUM - 3
    BY <2>1, ChainIs, WithoutThree DEF Owned, Chains
  <2>5. Descs \ Owned(b) \in SUBSET Descs
    BY Zenon
  <2> HIDE DEF f
  <2> QED BY <1>1, <1>3, <2>3, <2>4, <2>5, Pigeonhole
<1> QED BY <1>1, <1>4, <1>5, DiskConstants

\* A step that changes no more of the labels than who waits and who is awake.
SameLabels ==
  \A x \in Bufs : \/ pc'[x] = pc[x]
                  \/ pc'[x] \in {"idle", "enter", "nodesc"} /\ pc[x] \in {"idle", "enter", "nodesc"}
                  \/ pc'[x] \in {"asleep", "awake"} /\ pc[x] \in {"asleep", "awake"}

\* The first completion that virtio_disk_intr() has not seen.
LEMMA FirstUsed ==
  ASSUME DiskInv, seen # used_idx
  PROVE  /\ NUsed >= 1 /\ UsedAt(0) = used[seen % NUM]
         /\ \E b \in Busy : /\ idx0[b] = UsedAt(0) /\ bdisk[b] /\ pc[b] \in {"asleep", "awake"}
                            /\ info[UsedAt(0)] = b /\ b \in done /\ b \in Bufs
<1>1. NUsed \in Nat /\ NUsed # 0
  BY DistIs, DiskConstants DEF NUsed, DiskInv, TypeOK
<1>2. UsedAt(0) = used[seen % NUM] /\ 0 \in 0..(NUsed - 1)
  BY <1>1, SlotIs DEF UsedAt, DiskInv, TypeOK
<1>3. Waiting(UsedAt(0)) /\ addr[next[UsedAt(0)]] \in done
  BY <1>2, Zenon DEF DiskInv, Places
<1> QED BY <1>1, <1>2, <1>3, WaitingIs DEF DiskInv, Busy

\* Every step keeps the labels in agreement with b->disk and what the device transferred.
LEMMA LabelsStep ==
  ASSUME DiskInv, TypeOK', [Next]_vars
  PROVE  Labels'
<1> USE DEF DiskInv
<1>t. /\ pc \in [Bufs -> {"idle", "enter", "nodesc", "ring", "publish", "asleep", "awake"}]
      /\ idx0 \in [Bufs -> Descs \cup {Nil}] /\ bdisk \in [Bufs -> BOOLEAN]
  BY Zenon DEF TypeOK
<1>0. ASSUME UNCHANGED <<idx0, avail, avail_idx, bdisk>>, done \subseteq done', SameLabels,
             \A x \in Bufs : lock' = x <=> lock = x
      PROVE  Labels'
  BY <1>0 DEF Labels, SameLabels, Busy
<1>1. ASSUME NEW b \in Bufs, rw(b) \/ sleep_again(b) \/ kill(b) \/ alloc3_desc_fail(b) PROVE Labels'
  <2>1. SameLabels
    BY <1>t, <1>1, Zenon DEF SameLabels, rw, sleep_again, kill, alloc3_desc_fail, Woken
  <2> QED BY <1>0, <1>1, <2>1, Zenon
             DEF rw, sleep_again, kill, alloc3_desc_fail, availVars, deviceVars
<1>2. ASSUME NEW b \in Bufs, alloc3_desc(b) PROVE Labels'
  <2>1. PICK i, j, k \in free : Format(b, i, j, k) /\ pc[b] = "enter" /\ lock = Nil
    BY <1>2, ThreeFree, Zenon DEF alloc3_desc, TypeOK
  <2>2. /\ idx0' = [idx0 EXCEPT ![b] = i] /\ bdisk' = [bdisk EXCEPT ![b] = TRUE]
        /\ lock' = b /\ pc' = [pc EXCEPT ![b] = "ring"] /\ UNCHANGED <<avail, avail_idx, done>>
        /\ i # Nil
    BY <2>1, NilIs DEF Format, availVars, deviceVars, TypeOK
  <2>3. \A x \in Bufs : pc[x] \notin {"ring", "publish"}
    BY <2>1, NilIs, Zenon DEF Labels
  <2> QED BY <1>t, <2>1, <2>2, <2>3, Zenon DEF Labels, Busy
<1>3. ASSUME NEW b \in Bufs, put_avail(b) PROVE Labels'
  <2>1. /\ pc[b] = "ring" /\ pc' = [pc EXCEPT ![b] = "publish"]
        /\ avail' = [avail EXCEPT ![avail_idx % NUM] = idx0[b]]
        /\ UNCHANGED <<avail_idx, idx0, bdisk, lock, done>>
    BY <1>3, Zenon DEF put_avail, PutAvail, deviceVars
  <2>2. avail_idx % NUM \in Descs
    BY SlotIs, AvailFits DEF NAvail, TypeOK
  <2>3. avail'[avail_idx % NUM] = idx0[b]
    BY <2>1, <2>2, Zenon DEF TypeOK
  <2>4. lock = b /\ \A x \in Bufs : x # b => pc[x] \notin {"ring", "publish"}
    BY <2>1, Zenon DEF Labels
  <2>5. b \in Busy /\ bdisk[b] /\ Busy' = Busy
    BY <2>1, Zenon DEF Labels, Busy
  <2> QED BY <1>t, <2>1, <2>3, <2>4, <2>5, Zenon DEF Labels
<1>4. ASSUME NEW b \in Bufs, publish(b) PROVE Labels'
  <2>1. /\ pc[b] = "publish" /\ pc' = [pc EXCEPT ![b] = "asleep"] /\ lock' = Nil
        /\ UNCHANGED <<idx0, bdisk, done>>
    BY <1>4, Zenon DEF publish, deviceVars
  <2>2. \A x \in Bufs : x # b => pc[x] \notin {"ring", "publish"}
    BY <2>1, Zenon DEF Labels
  <2>3. b \in Busy /\ bdisk[b] /\ Busy' = Busy
    BY <2>1, Zenon DEF Labels, Busy
  <2> QED BY <1>t, <2>1, <2>2, <2>3, NilIs, Zenon DEF Labels
<1>5. ASSUME NEW b \in Bufs, free_chain(b) PROVE Labels'
  <2>1. /\ pc[b] = "awake" /\ lock = Nil /\ idx0' = [idx0 EXCEPT ![b] = Nil] /\ done' = done \ {b}
        /\ pc' = [Woken(pc, Bufs, "nodesc", "enter") EXCEPT ![b] = "idle"]
        /\ UNCHANGED <<avail, avail_idx, bdisk, lock>>
    BY <1>5, Zenon DEF free_chain, Finish, availVars
  <2>2. \A x \in Bufs : pc'[x] = IF x = b THEN "idle" ELSE IF pc[x] = "nodesc" THEN "enter" ELSE pc[x]
    BY <1>t, <2>1, Zenon DEF Woken
  <2>3. Busy' = Busy \ {b} /\ \A x \in Bufs : pc[x] \notin {"ring", "publish"}
    BY <1>t, <2>1, NilIs, Zenon DEF Busy, Labels
  <2> QED BY <2>1, <2>2, <2>3, NilIs, SMTT(30) DEF Labels
<1>6. CASE fetch
  <2>1. /\ fetched # avail_idx /\ avail' = [avail EXCEPT ![fetched % NUM] = 0]
        /\ UNCHANGED <<avail_idx, idx0, bdisk, lock, pc, done>>
    BY <1>6, Zenon DEF fetch
  <2>2. ASSUME NEW b \in Bufs, pc[b] = "publish"
        PROVE  avail'[avail_idx % NUM] = avail[avail_idx % NUM]
    <3>1. NAvail \in 0..(NUM - 1) /\ NAvail # 0 /\ NUM \in Nat
      BY <2>1, <2>2, AvailFits, DistIs, DiskConstants DEF NAvail, TypeOK
    <3>2. Slot(fetched, 0) # Slot(fetched, NAvail)
      BY <3>1, SlotIs DEF TypeOK
    <3>3. /\ Slot(fetched, 0) = fetched % NUM /\ Slot(fetched, NAvail) = avail_idx % NUM
          /\ Slot(fetched, NAvail) \in Descs
      BY <3>1, SlotIs DEF TypeOK, NAvail
    <3> QED BY <2>1, <3>2, <3>3, SMTT(30) DEF TypeOK
  <2> QED BY <2>1, <2>2, Zenon DEF Labels, Busy
<1>7. ASSUME NEW i \in Descs, complete(i) PROVE Labels'
  BY <1>0, <1>7, Zenon DEF complete, availVars, SameLabels
<1>8. CASE intr \/ intr_return
  <2>1. \A x \in Bufs : lock' = x <=> lock = x
    BY <1>8, NilIs, Zenon DEF intr, intr_return
  <2> QED BY <1>0, <1>8, <2>1, Zenon
             DEF intr, intr_return, availVars, deviceVars, SameLabels
<1>9. CASE intr_one
  <2> DEFINE b == info[used[seen % NUM]]
  <2>1. /\ seen # used_idx /\ bdisk' = [bdisk EXCEPT ![b] = FALSE]
        /\ pc' = Woken(pc, {b}, "asleep", "awake")
        /\ UNCHANGED <<avail, avail_idx, idx0, lock, done>>
    BY <1>9, Zenon DEF intr_one, availVars, deviceVars
  <2>2. b \in Busy /\ pc[b] \in {"asleep", "awake"} /\ b \in done /\ b \in Bufs
    BY <2>1, FirstUsed, Zenon
  <2> HIDE DEF b
  <2>3. SameLabels
    BY <1>t, <2>1, Zenon DEF SameLabels, Woken
  <2>4. \A x \in Bufs : bdisk'[x] = IF x = b THEN FALSE ELSE bdisk[x]
    BY <1>t, <2>1, Zenon
  <2>5. Busy' = Busy
    BY <2>1, Zenon DEF Busy
  <2> QED BY <2>1, <2>2, <2>3, <2>4, <2>5, SMTT(30) DEF Labels, SameLabels
<1>10. CASE UNCHANGED vars
  BY <1>0, <1>10, Zenon DEF vars, availVars, deviceVars, SameLabels
<1> QED BY <1>1, <1>2, <1>3, <1>4, <1>5, <1>6, <1>7, <1>8, <1>9, <1>10, Zenon
        DEF Next, Running, Device, Interrupt

\* A completion raises the interrupt that will see it.
LEMMA ReportedStep ==
  ASSUME DiskInv, [Next]_vars
  PROVE  Reported'
<1> USE DEF DiskInv, Reported
<1>0. ASSUME UNCHANGED <<seen, used_idx, irq>>, lock = "intr" => lock' = "intr" PROVE Reported'
  BY <1>0, Zenon
<1>1. ASSUME NEW b \in Bufs,
             rw(b) \/ sleep_again(b) \/ kill(b) \/ alloc3_desc_fail(b) \/ put_avail(b)
      PROVE  Reported'
  BY <1>0, <1>1, Zenon DEF rw, sleep_again, kill, alloc3_desc_fail, put_avail,
     PutAvail, usedVars
<1>2. ASSUME NEW b \in Bufs, alloc3_desc(b) PROVE Reported'
  BY <1>0, <1>2, NilIs, Zenon DEF alloc3_desc, Format, usedVars
<1>3. ASSUME NEW b \in Bufs, publish(b) PROVE Reported'
  <2>1. lock = b /\ b # "intr"
    BY <1>3, NilIs, Zenon DEF publish, Labels
  <2> QED BY <1>0, <1>3, <2>1, Zenon DEF publish, usedVars
<1>4. ASSUME NEW b \in Bufs, free_chain(b) PROVE Reported'
  BY <1>0, <1>4, Zenon DEF free_chain, Finish, usedVars
<1>5. CASE fetch
  BY <1>0, <1>5, Zenon DEF fetch, usedVars
<1>6. ASSUME NEW i \in Descs, complete(i) PROVE Reported'
  BY <1>6, Zenon DEF complete
<1>7. CASE intr \/ intr_one
  BY <1>7, Zenon DEF intr, intr_one
<1>8. CASE intr_return
  BY <1>8, Zenon DEF intr_return, usedVars
<1>9. CASE UNCHANGED vars
  BY <1>0, <1>9, Zenon DEF vars, usedVars
<1> QED BY <1>1, <1>2, <1>3, <1>4, <1>5, <1>6, <1>7, <1>8, <1>9, Zenon
        DEF Next, Running, Device, Interrupt

\* Every step keeps a published request in exactly one of its places.
LEMMA PlacesStep ==
  ASSUME DiskInv, TypeOK', [Next]_vars
  PROVE  Places'
<1> USE DEF DiskInv
<1>t. /\ pc \in [Bufs -> {"idle", "enter", "nodesc", "ring", "publish", "asleep", "awake"}]
      /\ idx0 \in [Bufs -> Descs \cup {Nil}] /\ bdisk \in [Bufs -> BOOLEAN]
      /\ avail \in [Descs -> Descs] /\ used \in [Descs -> Descs] /\ NUM \in Nat \ {0}
      /\ fetched \in Idx /\ avail_idx \in Idx /\ seen \in Idx /\ used_idx \in Idx
      /\ status \in [Descs -> BOOLEAN]
  BY DiskConstants, Zenon DEF TypeOK
<1>w. ASSUME UNCHANGED <<idx0, bdisk>>, SameLabels PROVE \A i : Waiting(i) => Waiting(i)'
  BY <1>w, Zenon DEF Waiting, Busy, SameLabels
<1>0. ASSUME UNCHANGED <<avail, avail_idx, used, used_idx, seen, fetched, working>>,
             \A i : Waiting(i) => Waiting(i)',
             \A i : Waiting(i) /\ status[i] /\ addr[next[i]] \in done =>
                      status'[i] /\ addr'[next'[i]] \in done'
      PROVE  Places'
  <2>1. NAvail' = NAvail /\ NUsed' = NUsed
    BY <1>0, Zenon DEF NAvail, NUsed
  <2>2. \A k : AvailAt(k)' = AvailAt(k) /\ UsedAt(k)' = UsedAt(k)
    BY <1>0, Zenon DEF AvailAt, UsedAt
  <2> QED BY <1>0, <2>1, <2>2, Zenon DEF Places
<1>1. ASSUME NEW b \in Bufs, rw(b) \/ sleep_again(b) \/ kill(b) \/ alloc3_desc_fail(b) PROVE Places'
  <2>1. SameLabels
    BY <1>t, <1>1, Zenon DEF SameLabels, rw, sleep_again, kill, alloc3_desc_fail, Woken
  <2>2. UNCHANGED <<descVars, availVars, usedVars, seen, bdisk, idx0, deviceVars>>
    BY <1>1, Zenon DEF rw, sleep_again, kill, alloc3_desc_fail
  <2> QED BY <1>0, <1>w, <2>1, <2>2, Zenon DEF descVars, availVars, usedVars, deviceVars
<1>2. ASSUME NEW b \in Bufs, alloc3_desc(b) PROVE Places'
  <2>1. PICK i, j, k \in free : Format(b, i, j, k) /\ pc[b] = "enter"
    BY <1>2, ThreeFree, Zenon DEF alloc3_desc, TypeOK
  <2>2. /\ next' = [next EXCEPT ![i] = j, ![j] = k, ![k] = Nil] /\ addr' = [addr EXCEPT ![j] = b]
        /\ status' = [status EXCEPT ![i] = FALSE] /\ idx0' = [idx0 EXCEPT ![b] = i]
        /\ bdisk' = [bdisk EXCEPT ![b] = TRUE] /\ pc' = [pc EXCEPT ![b] = "ring"]
        /\ UNCHANGED <<avail, avail_idx, used, used_idx, seen, fetched, working, done>>
    BY <2>1, Zenon DEF Format, availVars, usedVars, deviceVars
  <2>3. ASSUME NEW d, Waiting(d)
        PROVE  /\ Waiting(d)' /\ status'[d] = status[d]
               /\ next'[d] = next[d] /\ addr'[next[d]] = addr[next[d]]
    <3>1. PICK c \in Busy : /\ idx0[c] = d /\ bdisk[c] /\ pc[c] \in {"asleep", "awake"}
                            /\ d \in Descs \ free /\ next[d] \in Descs \ free
      BY <2>3, WaitingIs
    <3>2. c \in Bufs /\ c # b
      BY <2>1, <3>1, Zenon DEF Busy
    <3>3. idx0'[c] = d /\ bdisk'[c] /\ pc'[c] \in {"asleep", "awake"} /\ c \in Busy'
      BY <1>t, <2>2, <3>1, <3>2, Zenon DEF Busy
    <3>4. d \notin {i, j, k} /\ next[d] \notin {i, j, k}
      BY <2>1, <3>1, Zenon
    <3> QED BY <2>2, <3>1, <3>3, <3>4, ZenonT(40) DEF Waiting, TypeOK
  <2>4. ASSUME NEW d, Waiting(d), status[d], addr[next[d]] \in done
        PROVE  status'[d] /\ addr'[next'[d]] \in done'
    <3>1. addr'[next'[d]] = addr[next[d]] /\ done' = done /\ (status'[d] = status[d])
      BY <2>2, <2>3, <2>4, Zenon
    <3> QED BY <2>4, <3>1, Zenon
  <2> QED BY <1>0, <2>2, <2>3, <2>4, Zenon
<1>3. ASSUME NEW b \in Bufs, free_chain(b) PROVE Places'
  <2>1. b \in Busy
    BY <1>3, Zenon DEF free_chain, Finish, Labels
  <2>2. /\ ~bdisk[b] /\ pc[b] = "awake"
        /\ addr' = [d \in Descs |-> IF d \in Owned(b) THEN Nil ELSE addr[d]]
        /\ next' = [d \in Descs |-> IF d \in Owned(b) THEN Nil ELSE next[d]]
        /\ idx0' = [idx0 EXCEPT ![b] = Nil] /\ done' = done \ {b}
        /\ pc' = [Woken(pc, Bufs, "nodesc", "enter") EXCEPT ![b] = "idle"]
        /\ UNCHANGED <<avail, avail_idx, used, used_idx, seen, fetched, working, bdisk, status>>
    BY <1>3, <2>1, ChainIs, Zenon DEF free_chain, Finish, availVars, usedVars
  <2>3. ASSUME NEW d, Waiting(d)
        PROVE  Waiting(d)' /\ (addr[next[d]] \in done => addr'[next'[d]] \in done')
    <3>1. PICK c \in Busy : /\ idx0[c] = d /\ bdisk[c] /\ pc[c] \in {"asleep", "awake"}
                            /\ d \in Descs /\ next[d] \in Descs /\ addr[next[d]] = c
      BY <2>3, WaitingIs, Zenon
    <3>2. c \in Bufs /\ c # b
      BY <2>2, <3>1, Zenon DEF Busy
    <3>3. idx0'[c] = d /\ bdisk'[c] /\ pc'[c] \in {"asleep", "awake"} /\ c \in Busy'
      BY <1>t, <2>2, <3>1, <3>2, Zenon DEF Busy, Woken
    <3>4. d \in Owned(c) /\ next[d] \in Owned(c) /\ Owned(c) \cap Owned(b) = {}
      BY <2>1, <3>1, <3>2, SMTT(30) DEF Owned, Chains
    <3>5. next'[d] = next[d] /\ addr'[next[d]] = c
      BY <2>2, <3>1, <3>4, Zenon
    <3> QED BY <2>2, <3>1, <3>2, <3>3, <3>5, Zenon DEF Waiting
  <2> QED BY <1>0, <2>2, <2>3, ZenonT(40)
<1>4. ASSUME NEW b \in Bufs, put_avail(b) PROVE Places'
  <2>1. /\ pc[b] = "ring" /\ pc' = [pc EXCEPT ![b] = "publish"]
        /\ avail' = [avail EXCEPT ![avail_idx % NUM] = idx0[b]]
        /\ UNCHANGED <<avail_idx, fetched, used, used_idx, seen, working, idx0, bdisk, status, addr,
                       next, done>>
    BY <1>4, Zenon DEF put_avail, PutAvail, deviceVars, usedVars, descVars
  <2>2. ASSUME NEW d, Waiting(d) PROVE Waiting(d)'
    BY <1>t, <2>1, <2>2, Zenon DEF Waiting, Busy
  <2>3. NAvail \in 0..(NUM - 3) /\ Slot(fetched, NAvail) = avail_idx % NUM
    BY <1>t, <2>1, AvailFits, SlotIs DEF NAvail
  <2>4. ASSUME NEW k \in 0..(NAvail - 1) PROVE AvailAt(k)' = AvailAt(k)
    <3>1. k \in 0..(NUM - 1) /\ NAvail \in 0..(NUM - 1) /\ k # NAvail /\ k \in Nat
      BY <1>t, <2>3
    <3>2. Slot(fetched, k) # Slot(fetched, NAvail) /\ Slot(fetched, k) \in Descs
      BY <1>t, <3>1, SlotIs
    <3> QED BY <1>t, <2>1, <2>3, <3>2, Zenon DEF AvailAt
  <2>5. NAvail' = NAvail /\ NUsed' = NUsed /\ \A k : UsedAt(k)' = UsedAt(k)
    BY <2>1, Zenon DEF NAvail, NUsed, UsedAt
  <2> QED BY <2>1, <2>2, <2>4, <2>5, SMTT(30) DEF Places
<1>5. ASSUME NEW b \in Bufs, publish(b) PROVE Places'
  <2>1. /\ pc[b] = "publish" /\ pc' = [pc EXCEPT ![b] = "asleep"] /\ avail_idx' = Inc(avail_idx)
        /\ UNCHANGED <<avail, fetched, used, used_idx, seen, working, idx0, bdisk, status, addr,
                       next, done>>
    BY <1>5, Zenon DEF publish, deviceVars, usedVars, descVars
  <2>2. ASSUME NEW d, Waiting(d) PROVE Waiting(d)' /\ d # idx0[b]
    <3>1. b \in Busy /\ idx0[b] \in Owned(b)
      BY <2>1, Zenon DEF Labels, Owned
    <3>2. d # idx0[b]
      BY <2>1, <2>2, <3>1, WaitingIs
    <3> QED BY <1>t, <2>1, <2>2, <3>2, Zenon DEF Waiting, Busy
  <2>3. Waiting(idx0[b])'
    BY <1>t, <2>1, Zenon DEF Waiting, Busy, Labels
  <2>4. NAvail \in 0..(NUM - 3) /\ NAvail' = NAvail + 1
    BY <1>t, <2>1, AvailFits, DistIs, RingFits, DiskConstants DEF NAvail
  <2>5. AvailAt(NAvail) = idx0[b]
    BY <1>t, <2>1, SlotIs DEF NAvail, AvailAt, Labels
  <2>6. NUsed' = NUsed /\ \A k : UsedAt(k)' = UsedAt(k) /\ AvailAt(k)' = AvailAt(k)
    BY <2>1, Zenon DEF NUsed, UsedAt, AvailAt
  <2>7. \A k \in 0..(NAvail' - 1) : k = NAvail \/ k \in 0..(NAvail - 1)
    BY <1>t, <2>4, SMTT(30)
  <2>8. \A k \in 0..(NAvail' - 1) : Waiting(AvailAt(k))' /\ AvailAt(k)' \notin working'
    BY <2>1, <2>2, <2>3, <2>5, <2>6, <2>7, Zenon DEF Places
  <2>9. \A k, l \in 0..(NAvail' - 1) : AvailAt(k)' = AvailAt(l)' => k = l
    BY <2>2, <2>5, <2>6, <2>7, Zenon DEF Places
  <2>10. \A k \in 0..(NAvail' - 1), l \in 0..(NUsed' - 1) : AvailAt(k)' # UsedAt(l)'
    BY <2>2, <2>5, <2>6, <2>7, Zenon DEF Places
  <2> QED BY <2>1, <2>2, <2>6, <2>8, <2>9, <2>10 DEF Places
<1>6. CASE fetch
  <2>1. /\ fetched # avail_idx /\ working' = working \cup {avail[fetched % NUM]}
        /\ avail' = [avail EXCEPT ![fetched % NUM] = 0] /\ fetched' = Inc(fetched)
        /\ UNCHANGED <<avail_idx, used, used_idx, seen, idx0, bdisk, pc, status, addr, next, done>>
    BY <1>6, Zenon DEF fetch, usedVars, descVars
  <2>2. \A d : Waiting(d)' <=> Waiting(d)
    BY <2>1, Zenon DEF Waiting, Busy
  <2>3. NAvail \in 1..NUM /\ NAvail' = NAvail - 1 /\ fetched' \in Idx
    BY <1>t, <2>1, AvailFits, DistIs, IncIs DEF NAvail
  <2>4. AvailAt(0) = avail[fetched % NUM] /\ Slot(fetched, 0) = fetched % NUM
    BY <1>t, SlotIs, Zenon DEF AvailAt
  <2>5. ASSUME NEW k \in 0..(NAvail' - 1)
        PROVE  AvailAt(k)' = AvailAt(k + 1) /\ k + 1 \in 0..(NAvail - 1) /\ k + 1 # 0
    <3>1. /\ k \in Nat /\ k + 1 \in 0..(NUM - 1) /\ 0 \in 0..(NUM - 1)
          /\ k + 1 # 0 /\ k + 1 \in 0..(NAvail - 1)
      BY <1>t, <2>3
    <3>2. /\ Slot(fetched', k) = Slot(fetched, k + 1) /\ Slot(fetched, k + 1) \in Descs
          /\ Slot(fetched, k + 1) # Slot(fetched, 0)
      BY <1>t, <2>1, <3>1, SlotIs
    <3> QED BY <1>t, <2>1, <2>4, <3>1, <3>2, Zenon DEF AvailAt
  <2>6. 0 \in 0..(NAvail - 1)
    BY <2>3
  <2>7. NUsed' = NUsed /\ \A k : UsedAt(k)' = UsedAt(k)
    BY <2>1, Zenon DEF NUsed, UsedAt
  <2>8. \A k \in 0..(NAvail' - 1) : Waiting(AvailAt(k))' /\ AvailAt(k)' \notin working'
    BY <2>1, <2>2, <2>4, <2>5, <2>6 DEF Places
  <2>9. ASSUME NEW k \in 0..(NAvail' - 1), NEW l \in 0..(NAvail' - 1), AvailAt(k)' = AvailAt(l)'
        PROVE  k = l
    <3>1. k + 1 = l + 1
      BY <2>5, <2>9, Zenon DEF Places
    <3> QED BY <3>1, SMTT(30)
  <2>10. \A d \in working' : Waiting(d)'
    BY <2>1, <2>2, <2>4, <2>6, SMTT(30) DEF Places
  <2>11. \A k \in 0..(NUsed' - 1) : /\ Waiting(UsedAt(k))' /\ UsedAt(k)' \notin working'
                                    /\ status'[UsedAt(k)'] /\ addr'[next'[UsedAt(k)']] \in done'
    BY <2>1, <2>2, <2>4, <2>6, <2>7, Zenon DEF Places
  <2>12. \A k, l \in 0..(NUsed' - 1) : UsedAt(k)' = UsedAt(l)' => k = l
    BY <2>7, Zenon DEF Places
  <2>13. \A k \in 0..(NAvail' - 1), l \in 0..(NUsed' - 1) : AvailAt(k)' # UsedAt(l)'
    BY <2>5, <2>7, Zenon DEF Places
  <2> QED BY <2>8, <2>9, <2>10, <2>11, <2>12, <2>13, Zenon DEF Places
<1>7. ASSUME NEW i \in Descs, complete(i) PROVE Places'
  <2>1. /\ i \in working /\ working' = working \ {i} /\ done' = done \cup {addr[next[i]]}
        /\ status' = [status EXCEPT ![i] = TRUE] /\ used' = [used EXCEPT ![used_idx % NUM] = i]
        /\ used_idx' = Inc(used_idx)
        /\ UNCHANGED <<avail, avail_idx, fetched, seen, idx0, bdisk, pc, addr, next>>
    BY <1>7, Zenon DEF complete, availVars
  <2>2. \A d : Waiting(d)' <=> Waiting(d)
    BY <2>1, Zenon DEF Waiting, Busy
  <2>3. NUsed \in 0..(NUM - 3) /\ NUsed' = NUsed + 1 /\ Slot(seen, NUsed) = used_idx % NUM
    BY <1>t, <2>1, UsedFits, DistIs, SlotIs, RingFits, DiskConstants, SMTT(30) DEF NUsed
  <2>4. ASSUME NEW k \in 0..(NUsed - 1) PROVE UsedAt(k)' = UsedAt(k)
    <3>1. k \in 0..(NUM - 1) /\ NUsed \in 0..(NUM - 1) /\ k # NUsed /\ k \in Nat
      BY <1>t, <2>3
    <3>2. Slot(seen, k) # Slot(seen, NUsed) /\ Slot(seen, k) \in Descs
      BY <1>t, <3>1, SlotIs, SMTT(30)
    <3> QED BY <1>t, <2>1, <2>3, <3>2, Zenon DEF UsedAt
  <2>5. ASSUME NEW k, k = NUsed PROVE UsedAt(k)' = i
    <3>1. Slot(seen, k) \in Descs
      BY <1>t, <2>3, <2>5, SlotIs
    <3> QED BY <1>t, <2>1, <2>3, <2>5, <3>1, Zenon DEF UsedAt
  <2>6. \A k \in 0..(NUsed' - 1) : k = NUsed \/ k \in 0..(NUsed - 1)
    BY <1>t, <2>3, SMTT(30)
  <2>7. NAvail' = NAvail /\ \A k : AvailAt(k)' = AvailAt(k)
    BY <2>1, ZenonT(40) DEF NAvail, AvailAt
  <2>8. \A k \in 0..(NUsed - 1) : UsedAt(k) # i /\ UsedAt(k) \in Descs
    BY <2>1, WaitingIs, SMTT(30) DEF Places
  <2>9. ASSUME NEW k \in 0..(NUsed' - 1)
        PROVE  /\ Waiting(UsedAt(k))' /\ UsedAt(k)' \notin working'
               /\ status'[UsedAt(k)'] /\ addr'[next'[UsedAt(k)']] \in done'
    <3>1. CASE k = NUsed
      <4>1. UsedAt(k)' = i
        BY <2>5, <3>1, Zenon
      <4>2. Waiting(i)
        BY <2>1, Zenon DEF Places
      <4> QED BY <1>t, <2>1, <2>2, <4>1, <4>2, Zenon
    <3>2. CASE k \in 0..(NUsed - 1)
      <4>1. UsedAt(k)' = UsedAt(k)
        BY <2>4, <3>2, Zenon
      <4>2. /\ Waiting(UsedAt(k)) /\ UsedAt(k) \notin working
            /\ status[UsedAt(k)] /\ addr[next[UsedAt(k)]] \in done
        BY <3>2, Zenon DEF Places
      <4> QED BY <1>t, <2>1, <2>2, <2>8, <3>2, <4>1, <4>2, Zenon
    <3> QED BY <2>6, <3>1, <3>2, Zenon
  <2>10. \A k, l \in 0..(NUsed' - 1) : UsedAt(k)' = UsedAt(l)' => k = l
    BY <2>4, <2>5, <2>6, <2>8, Zenon DEF Places
  <2>11. \A k \in 0..(NAvail' - 1), l \in 0..(NUsed' - 1) : AvailAt(k)' # UsedAt(l)'
    BY <2>1, <2>4, <2>5, <2>6, <2>7, SMTT(30) DEF Places
  <2>12. \A k \in 0..(NAvail' - 1) : Waiting(AvailAt(k))' /\ AvailAt(k)' \notin working'
    BY <2>1, <2>2, <2>7, Zenon DEF Places
  <2>13. \A k, l \in 0..(NAvail' - 1) : AvailAt(k)' = AvailAt(l)' => k = l
    BY <2>7, Zenon DEF Places
  <2>14. \A d \in working' : Waiting(d)'
    BY <2>1, <2>2, Zenon DEF Places
  <2> QED BY <2>9, <2>10, <2>11, <2>12, <2>13, <2>14, Zenon DEF Places
<1>8. CASE intr \/ intr_return
  <2>1. SameLabels /\ UNCHANGED <<idx0, bdisk>>
    BY <1>8, Zenon DEF intr, intr_return, SameLabels
  <2> QED BY <1>0, <1>8, <1>w, <2>1
             DEF intr, intr_return, availVars, usedVars, deviceVars, descVars
<1>9. CASE intr_one
  <2> DEFINE b == info[used[seen % NUM]]
  <2>1. /\ seen # used_idx /\ bdisk' = [bdisk EXCEPT ![b] = FALSE]
        /\ pc' = Woken(pc, {b}, "asleep", "awake")
        /\ used' = [used EXCEPT ![seen % NUM] = 0] /\ seen' = Inc(seen)
        /\ UNCHANGED <<avail, avail_idx, fetched, used_idx, working, idx0, status, addr, next,
                       done>>
    BY <1>9, Zenon DEF intr_one, availVars, deviceVars, descVars
  <2>2. /\ b \in Busy /\ b \in Bufs /\ idx0[b] = UsedAt(0) /\ NUsed >= 1
        /\ UsedAt(0) = used[seen % NUM]
    BY <2>1, FirstUsed, Zenon
  <2> HIDE DEF b
  <2>3. ASSUME NEW d, Waiting(d), d # UsedAt(0) PROVE Waiting(d)'
    <3>1. PICK c \in Busy : idx0[c] = d /\ bdisk[c] /\ pc[c] \in {"asleep", "awake"}
      BY <2>3, Zenon DEF Waiting
    <3>2. c \in Bufs /\ c # b
      BY <2>2, <2>3, <3>1, Zenon DEF Busy
    <3> QED BY <1>t, <2>1, <3>1, <3>2, Zenon DEF Waiting, Busy, Woken
  <2>4. NUsed \in 1..NUM /\ NUsed' = NUsed - 1 /\ seen' \in Idx /\ Slot(seen, 0) = seen % NUM
    BY <1>t, <2>1, <2>2, UsedFits, DistIs, IncIs, SlotIs, SMTT(30) DEF NUsed
  <2>5. ASSUME NEW k \in 0..(NUsed' - 1)
        PROVE  UsedAt(k)' = UsedAt(k + 1) /\ k + 1 \in 0..(NUsed - 1) /\ k + 1 # 0
    <3>1. /\ k \in Nat /\ k + 1 \in 0..(NUM - 1) /\ 0 \in 0..(NUM - 1)
          /\ k + 1 # 0 /\ k + 1 \in 0..(NUsed - 1)
      BY <1>t, <2>4, SMTT(30)
    <3>2. /\ Slot(seen', k) = Slot(seen, k + 1) /\ Slot(seen, k + 1) \in Descs
          /\ Slot(seen, k + 1) # Slot(seen, 0)
      BY <1>t, <2>1, <3>1, SlotIs
    <3> QED BY <1>t, <2>1, <2>4, <3>1, <3>2, Zenon DEF UsedAt
  <2>6. 0 \in 0..(NUsed - 1)
    BY <2>4
  <2>7. NAvail' = NAvail /\ \A k : AvailAt(k)' = AvailAt(k)
    BY <2>1, Zenon DEF NAvail, AvailAt
  <2>8. \A k \in 0..(NAvail' - 1) : Waiting(AvailAt(k))' /\ AvailAt(k)' \notin working'
    BY <2>1, <2>3, <2>6, <2>7, Zenon DEF Places
  <2>9. \A k, l \in 0..(NAvail' - 1) : AvailAt(k)' = AvailAt(l)' => k = l
    BY <2>7, ZenonT(40) DEF Places
  <2>10. \A d \in working' : Waiting(d)'
    BY <2>1, <2>3, <2>6, ZenonT(40) DEF Places
  <2>11. ASSUME NEW k \in 0..(NUsed' - 1)
         PROVE  /\ Waiting(UsedAt(k))' /\ UsedAt(k)' \notin working'
                /\ status'[UsedAt(k)'] /\ addr'[next'[UsedAt(k)']] \in done'
    <3>1. UsedAt(k)' = UsedAt(k + 1) /\ k + 1 \in 0..(NUsed - 1) /\ k + 1 # 0
      BY <2>5, Zenon
    <3>2. UsedAt(k + 1) # UsedAt(0)
      BY <2>6, <3>1, ZenonT(40) DEF Places
    <3> QED BY <2>1, <2>3, <3>1, <3>2, Zenon DEF Places
  <2>12. ASSUME NEW k \in 0..(NUsed' - 1), NEW l \in 0..(NUsed' - 1), UsedAt(k)' = UsedAt(l)'
         PROVE  k = l
    <3>1. k + 1 = l + 1
      BY <2>5, <2>12, Zenon DEF Places
    <3> QED BY <3>1
  <2>13. \A k \in 0..(NAvail' - 1), l \in 0..(NUsed' - 1) : AvailAt(k)' # UsedAt(l)'
    BY <2>5, <2>7, Zenon DEF Places
  <2> QED BY <2>8, <2>9, <2>10, <2>11, <2>12, <2>13, ZenonT(40) DEF Places
<1>10. CASE UNCHANGED vars
  <2>1. SameLabels /\ UNCHANGED <<idx0, bdisk>>
    BY <1>10, Zenon DEF vars, SameLabels
  <2> QED BY <1>0, <1>10, <1>w, <2>1, Zenon
             DEF vars, availVars, usedVars, deviceVars, descVars
<1> QED BY <1>1, <1>2, <1>3, <1>4, <1>5, <1>6, <1>7, <1>8, <1>9, <1>10, Zenon
        DEF Next, Running, Device, Interrupt

-----------------------------------------------------------------------------
(* The theorems                                                            *)

\* virtio_disk_init() establishes the invariant.
LEMMA DiskInvInit == Init => DiskInv
<1> SUFFICES ASSUME Init PROVE DiskInv
  BY Zenon
<1> USE DEF Init
<1>1. 0 \in Descs /\ 0 \in Idx
  BY DiskConstants DEF Descs, Idx
<1>2. TypeOK
  <2>1. status \in [Descs -> BOOLEAN] /\ irq \in BOOLEAN /\ bdisk \in [Bufs -> BOOLEAN]
    BY Zenon
  <2> QED BY <1>1, <2>1, Zenon DEF TypeOK
<1>3. Busy = {}
  BY Zenon DEF Busy
<1>4. Chains
  BY <1>3, Zenon DEF Chains
<1>5. Labels
  BY <1>3, NilIs, Zenon DEF Labels
<1>6. NAvail = 0 /\ NUsed = 0
  BY <1>1, DistIs, Zenon DEF NAvail, NUsed
<1>7. \A k \in 0..(0 - 1) : FALSE
  OBVIOUS
<1>8. Places
  BY <1>6, <1>7, Zenon DEF Places
<1> QED BY <1>2, <1>4, <1>5, <1>8, Zenon DEF DiskInv, Reported

\* virtio_disk.c and the device keep the inductive invariant: the chains partition
\* the descriptors that are not free, and a published request is in exactly one of
\* the avail ring, the device and the used ring until virtio_disk_intr() sees it.
THEOREM DiskInvariant == Spec => []DiskInv
<1>1. DiskInv /\ [Next]_vars => DiskInv'
  <2> SUFFICES ASSUME DiskInv, [Next]_vars PROVE DiskInv'
    BY Zenon
  <2>1. TypeOK'
    BY TypeStep, Zenon
  <2> QED BY <2>1, ChainsStep, LabelsStep, PlacesStep, ReportedStep, Zenon DEF DiskInv
<1> QED BY <1>1, DiskInvInit, PTL DEF Spec

\* DescriptorsOwned: no descriptor is lost by free_chain() or shared by two requests,
\* for any number of processes and descriptors.
THEOREM DiskDescriptorsOwned == Spec => []DescriptorsOwned
<1>1. DiskInv => DescriptorsOwned
  <2> SUFFICES ASSUME DiskInv PROVE DescriptorsOwned
    BY Zenon
  <2>1. ASSUME NEW b \in Busy PROVE Cardinality(Chain(idx0[b])) = 3
    <3> DEFINE x == idx0[b]
               y == next[x]
               z == next[y]
    <3>1. Chain(x) = {x, y, z} /\ x # y /\ x # z /\ y # z
      BY ChainIs, Zenon DEF Owned, DiskInv, Chains
    <3> HIDE DEF x, y, z
    <3>2. IsFiniteSet({x}) /\ Cardinality({x}) = 1
      BY FS_Singleton, Zenon
    <3>3. IsFiniteSet({x} \cup {y}) /\ Cardinality({x} \cup {y}) = 2
      BY <3>1, <3>2, FS_AddElement
    <3>4. Cardinality(({x} \cup {y}) \cup {z}) = 3
      BY <3>1, <3>3, FS_AddElement
    <3>5. ({x} \cup {y}) \cup {z} = {x, y, z}
      BY Zenon
    <3> QED BY <3>1, <3>4, <3>5, Zenon DEF x
  <2>2. ASSUME NEW d \in Descs
        PROVE  Cardinality({b \in Busy : d \in Chain(idx0[b])}) = IF d \in free THEN 0 ELSE 1
    <3>1. {b \in Busy : d \in Chain(idx0[b])} = {b \in Busy : d \in Owned(b)}
      BY ChainIs, Zenon DEF DiskInv
    <3>2. CASE d \in free
      <4>1. {b \in Busy : d \in Owned(b)} = {}
        BY <3>2, Zenon DEF DiskInv, Chains
      <4> QED BY <3>1, <3>2, <4>1, FS_EmptySet, Zenon
    <3>3. CASE d \notin free
      <4>1. PICK b \in Busy : d \in Owned(b)
        BY <3>3, Zenon DEF DiskInv, Chains
      <4>2. {c \in Busy : d \in Owned(c)} = {b}
        BY <4>1 DEF DiskInv, Chains
      <4> QED BY <3>1, <3>3, <4>2, FS_Singleton, Zenon
    <3> QED BY <3>2, <3>3, Zenon
  <2> QED BY <2>1, <2>2, Zenon DEF DescriptorsOwned, DiskInv
<1> QED BY <1>1, DiskInvariant, PTL

\* The entries of a ring are its slots from one index up to the other.
LEMMA EntriesAre ==
  ASSUME TypeOK
  PROVE  /\ Entries(avail, fetched, avail_idx) = {AvailAt(k) : k \in 0..(NAvail - 1)}
         /\ Entries(used, seen, used_idx) = {UsedAt(k) : k \in 0..(NUsed - 1)}
<1>1. (avail_idx - fetched) % WRAP = NAvail /\ (used_idx - seen) % WRAP = NUsed
  BY DistIs, SMTT(30) DEF TypeOK, NAvail, NUsed
<1> QED BY <1>1, Zenon DEF Entries, AvailAt, UsedAt, Slot

\* DeviceSafe: the device only ever works on requests whose process waits for them,
\* and virtio_disk_intr() sees every completion, however the ring indices wrap.
THEOREM DiskDeviceSafe == Spec => []DeviceSafe
<1>1. DiskInv => DeviceSafe
  <2> SUFFICES ASSUME DiskInv PROVE DeviceSafe
    BY Zenon
  <2>1. ASSUME NEW i \in working \cup Entries(avail, fetched, avail_idx)
        PROVE  \E b \in Busy : /\ idx0[b] = i /\ addr[next[i]] = b
                               /\ bdisk[b] /\ pc[b] \in {"asleep", "awake"}
    <3>1. Waiting(i)
      BY EntriesAre DEF DiskInv, Places
    <3> QED BY <3>1, WaitingIs, ZenonT(40) DEF DiskInv
  <2>2. ASSUME NEW i \in Entries(used, seen, used_idx) PROVE status[i] /\ info[i] # Nil
    <3>1. Waiting(i) /\ status[i]
      BY EntriesAre DEF DiskInv, Places
    <3> QED BY <3>1, WaitingIs, NilIs DEF DiskInv, Busy
  <2> QED BY <2>1, <2>2, ZenonT(40) DEF DeviceSafe, CompletionsSeen, DiskInv, Reported
<1> QED BY <1>1, DiskInvariant, PTL

\* TransferredFirst: virtio_disk_rw() returns only after the device has transferred
\* the buffer, whatever wakes the process up before.
THEOREM DiskTransferredFirst == Spec => TransferredFirst
<1> DEFINE T == \A b \in Bufs : pc[b] = "awake" /\ pc'[b] = "idle" => b \in done
<1>1. DiskInv /\ [Next]_vars => [T]_vars
  <2> SUFFICES ASSUME DiskInv, [Next]_vars, NEW b \in Bufs, pc[b] = "awake", pc'[b] = "idle"
               PROVE  b \in done
    BY Zenon DEF vars
  <2> USE DEF DiskInv
  <2>t. pc \in [Bufs -> {"idle", "enter", "nodesc", "ring", "publish", "asleep", "awake"}]
    BY Zenon DEF TypeOK
  <2>1. ASSUME NEW c \in Bufs, free_chain(c) PROVE b \in done
    <3>1. ~bdisk[c] /\ pc' = [Woken(pc, Bufs, "nodesc", "enter") EXCEPT ![c] = "idle"]
      BY <2>1, Zenon DEF free_chain, Finish
    <3>2. c = b
      BY <2>t, <3>1, Zenon DEF Woken
    <3> QED BY <3>1, <3>2, Zenon DEF Labels
  <2>2. ASSUME NEW c \in Bufs,
               \/ rw(c) \/ alloc3_desc_fail(c) \/ put_avail(c)
               \/ publish(c) \/ sleep_again(c) \/ kill(c)
        PROVE  FALSE
    BY <2>t, <2>2, ZenonT(40)
      DEF rw, alloc3_desc_fail, put_avail, PutAvail, publish, sleep_again, kill, Woken
  <2>3. ASSUME NEW c \in Bufs, alloc3_desc(c) PROVE FALSE
    BY <2>t, <2>3, Zenon DEF alloc3_desc, Format
  <2>4. CASE Device
    BY <2>4, Zenon DEF Device, fetch, complete
  <2>5. CASE Interrupt
    BY <2>t, <2>5, Zenon DEF Interrupt, intr, intr_one, intr_return, Woken
  <2>6. CASE UNCHANGED vars
    BY <2>6, Zenon DEF vars
  <2> QED BY <2>1, <2>2, <2>3, <2>4, <2>5, <2>6, Zenon DEF Next, Running
<1> QED BY <1>1, DiskInvariant, PTL DEF Spec, TransferredFirst

=============================================================================
