----------------------------- MODULE UartProofs -----------------------------
(***************************************************************************)
(* Proofs about module Uart, for any number of writers, any size of the    *)
(* ring and any range of the indices that it divides, and up to NCPU harts *)
(* in printf(): what is written leaves the UART in order and complete.     *)
(***************************************************************************)
EXTENDS Uart, FiniteSetTheorems, TLAPS

-----------------------------------------------------------------------------
(* The inductive invariant                                                 *)

\* The index after x, and the distance from index y to x.
Inc(x) == (x + 1) % WRAP
Dist(x, y) == (x - y) % WRAP

Types ==
  /\ uart_tx_buf \in [0..UART_TX_BUF_SIZE - 1 -> Int]
  /\ uart_tx_r \in 0..WRAP - 1 /\ uart_tx_w \in 0..WRAP - 1 /\ sent \in 0..WRAP - 1
  /\ fifo \in Seq(Int) /\ DOMAIN pc = Actors

\* Who is in uartputc() or uartstart() holds uart_tx_lock.
Locked == {"putc", "start", "thr"}
Mutex == \A a \in Actors : pc[a] \in Locked => uart_tx_lock = a

\* uartstart() has a byte in hand exactly between its test of LSR_TX_IDLE and its
\* write to THR.
InHand == c # << >> <=> \E a \in Actors : pc[a] = "thr"

\* The UART has nothing to send but characters of uartputc_sync(), or one byte of
\* write(), b, among them.
Echoes(s) == \A i \in 1..Len(s) : s[i] = Echo
OneByte(s, b) ==
  \E i \in 1..Len(s) : s[i] = b /\ \A j \in 1..Len(s) : j # i => s[j] = Echo

\* The next byte on the wire is the next in the ring, or it is in the UART or in
\* hand, and then the ring goes on after it.
Wire ==
  \/ Echoes(fifo) /\ c = << >> /\ uart_tx_r = sent
  \/ OneByte(fifo, sent) /\ c = << >> /\ uart_tx_r = Inc(sent)
  \/ Echoes(fifo) /\ c = <<sent>> /\ uart_tx_r = Inc(sent)

\* Every hart that has seen LSR_TX_IDLE finds room for its byte.
Syncing == {a \in Senders : pc[a] = "sync"}
Room == Len(fifo) + Len(c) + Cardinality(Syncing) <= Cardinality(Senders) + 1

\* The bytes in the ring are where the indices say.
Ring(d, r, w) ==
  /\ Dist(w, r) <= UART_TX_BUF_SIZE
  /\ \A x \in 0..WRAP - 1 :
       Dist(x, r) < Dist(w, r) => d[x % UART_TX_BUF_SIZE] = x

UInv ==
  /\ Types /\ Mutex /\ InHand /\ Wire /\ Room
  /\ Ring(uart_tx_buf, uart_tx_r, uart_tx_w)

-----------------------------------------------------------------------------
(* Indices that wrap around                                                *)

\* A number is determined by its quotient and its remainder.
LEMMA DivMod ==
  ASSUME NEW m \in Nat \ {0}, NEW x \in Int
  PROVE  /\ x = (x \div m) * m + (x % m)
         /\ x \div m \in Int /\ x % m \in 0..(m - 1)
  OBVIOUS

\* Quotient and remainder are unique.
LEMMA ModUnique ==
  ASSUME NEW m \in Nat \ {0}, NEW q \in Int, NEW x \in Int, NEW r \in 0..(m - 1),
         x = q * m + r
  PROVE  x % m = r
  OBVIOUS

\* Two numbers less than the modulus apart with the same remainder are equal.
LEMMA ModInjective ==
  ASSUME NEW m \in Nat \ {0}, NEW x \in Int, NEW y \in Int,
         x % m = y % m, x <= y, y < x + m
  PROVE  x = y
<1>1. PICK a \in Int : x = a * m + (x % m)
  BY DivMod, Zenon
<1>2. PICK b \in Int : y = b * m + (y % m)
  BY DivMod, Zenon
<1>3. y - x = (b - a) * m /\ y - x >= 0 /\ y - x < m
  BY <1>1, <1>2, DivMod
<1> QED BY <1>3

\* What the sizes are.
LEMMA Sizes == /\ UART_TX_BUF_SIZE \in Nat \ {0} /\ WRAP \in Nat \ {0}
               /\ UART_TX_BUF_SIZE + 1 < WRAP
  BY UartConstants

\* The size of the ring divides the range of the indices.
LEMMA Divides == \E k \in Int : WRAP = k * UART_TX_BUF_SIZE
<1>1. WRAP = (WRAP \div UART_TX_BUF_SIZE) * UART_TX_BUF_SIZE + (WRAP % UART_TX_BUF_SIZE)
      /\ WRAP \div UART_TX_BUF_SIZE \in Int /\ WRAP % UART_TX_BUF_SIZE = 0
  BY Sizes, DivMod, UartConstants
<1>2. PICK k \in Int : k = WRAP \div UART_TX_BUF_SIZE
  BY <1>1, Zenon
<1>3. WRAP = k * UART_TX_BUF_SIZE
  BY Sizes, <1>1, <1>2
<1> QED BY <1>3, Zenon

\* The index after x.
LEMMA IncIs ==
  ASSUME NEW x \in 0..WRAP - 1
  PROVE  /\ Inc(x) = IF x + 1 = WRAP THEN 0 ELSE x + 1
         /\ Inc(x) \in 0..WRAP - 1
  BY Sizes DEF Inc

\* The distance from y to x.
LEMMA DiffIs ==
  ASSUME NEW x \in 0..WRAP - 1, NEW y \in 0..WRAP - 1
  PROVE  /\ Dist(x, y) = IF x >= y THEN x - y ELSE x - y + WRAP
         /\ Dist(x, y) \in 0..WRAP - 1
  BY Sizes DEF Dist

\* An index beyond x.
LEMMA SumIs ==
  ASSUME NEW x \in 0..WRAP - 1, NEW y \in 0..WRAP - 1
  PROVE  (x + y) % WRAP = IF x + y < WRAP THEN x + y ELSE x + y - WRAP
  BY Sizes

\* A place of the ring is the same one after the indices have wrapped around: WRAP
\* is a multiple of UART_TX_BUF_SIZE.
LEMMA PlaceWraps ==
  ASSUME NEW x \in Int
  PROVE  (x + WRAP) % UART_TX_BUF_SIZE = x % UART_TX_BUF_SIZE
<1> DEFINE m == UART_TX_BUF_SIZE
<1>1. PICK k \in Int : WRAP = k * m
  BY Divides, Zenon
<1>2. PICK q \in Int : x = q * m + (x % m)
  BY DivMod, Sizes, Zenon
<1>3. x % m \in 0..(m - 1) /\ m \in Nat \ {0} /\ x + WRAP \in Int /\ q + k \in Int
  BY DivMod, Sizes
<1>4. x + WRAP = (q + k) * m + (x % m)
  BY <1>1, <1>2, <1>3
<1> HIDE DEF m
<1>5. (x + WRAP) % m = x % m
  BY <1>3, <1>4, ModUnique, Zenon
<1> QED BY <1>5, Zenon DEF m

\* Two indices less than the size of the ring apart have places of their own.
LEMMA PlacesDiffer ==
  ASSUME NEW r \in 0..WRAP - 1, NEW x \in 0..WRAP - 1, NEW w \in 0..WRAP - 1,
         Dist(x, r) < Dist(w, r), Dist(w, r) < UART_TX_BUF_SIZE
  PROVE  x % UART_TX_BUF_SIZE # w % UART_TX_BUF_SIZE
<1> DEFINE m == UART_TX_BUF_SIZE
<1>1. \A v \in 0..WRAP - 1 : \E y \in Int : y = r + Dist(v, r) /\ y % m = v % m
  <2> TAKE v \in 0..WRAP - 1
  <2>1. PICK y \in Int : y = r + Dist(v, r)
    BY DiffIs
  <2>2. Dist(v, r) = IF v >= r THEN v - r ELSE v - r + WRAP
    BY DiffIs, Zenon
  <2>3. y = v \/ y = v + WRAP
    BY <2>1, <2>2, Sizes
  <2>4. (v + WRAP) % m = v % m
    BY PlaceWraps
  <2> QED BY <2>1, <2>3, <2>4, Zenon
<1>2. PICK y \in Int : y = r + Dist(x, r) /\ y % m = x % m
  BY <1>1, Zenon
<1>3. PICK z \in Int : z = r + Dist(w, r) /\ z % m = w % m
  BY <1>1, Zenon
<1>4. Dist(x, r) \in 0..WRAP - 1 /\ Dist(w, r) \in 0..WRAP - 1
  BY DiffIs, Zenon
<1>5. y <= z /\ z < y + m /\ y # z /\ m \in Nat \ {0}
  <2>1. m \in Nat \ {0} BY Sizes
  <2> HIDE DEF m
  <2>2. y = r + Dist(x, r) /\ z = r + Dist(w, r) BY <1>2, <1>3, Zenon
  <2>3. Dist(w, r) < m BY Zenon DEF m
  <2> QED BY <1>4, <2>1, <2>2, <2>3
<1>6. y % m # z % m
  BY <1>5, ModInjective, Zenon
<1> QED BY <1>2, <1>3, <1>6, Zenon

\* uartputc() adds a byte to a ring that is not full.
LEMMA RingStore ==
  ASSUME NEW d \in [0..UART_TX_BUF_SIZE - 1 -> Int], NEW r \in 0..WRAP - 1,
         NEW w \in 0..WRAP - 1, Ring(d, r, w), w # (r + UART_TX_BUF_SIZE) % WRAP
  PROVE  /\ Ring([d EXCEPT ![w % UART_TX_BUF_SIZE] = w], r, Inc(w))
         /\ [d EXCEPT ![w % UART_TX_BUF_SIZE] = w] \in [0..UART_TX_BUF_SIZE - 1 -> Int]
<1> DEFINE m == UART_TX_BUF_SIZE
           u == Dist(w, r)
           e == [d EXCEPT ![w % m] = w]
<1>1. u \in 0..WRAP - 1 /\ u <= m /\ u = IF w >= r THEN w - r ELSE w - r + WRAP
  BY DiffIs, Zenon DEF Ring
<1>2. (r + m) % WRAP = IF r + m < WRAP THEN r + m ELSE r + m - WRAP
  <2>1. m \in 0..WRAP - 1
    BY Sizes
  <2> QED BY <2>1, SumIs, Zenon
<1>3. u < m
  <2> HIDE DEF u
  <2> QED BY <1>1, <1>2, Sizes
<1>4. Dist(Inc(w), r) = u + 1
  <2>1. Dist(Inc(w), r) = IF Inc(w) >= r THEN Inc(w) - r ELSE Inc(w) - r + WRAP
    BY IncIs, DiffIs, Zenon
  <2>2. Inc(w) = IF w + 1 = WRAP THEN 0 ELSE w + 1
    BY IncIs, Zenon
  <2> HIDE DEF u
  <2> QED BY <1>1, <1>3, <2>1, <2>2, Sizes
<1>5. w % m \in 0..m - 1 /\ w \in Int /\ \A x \in 0..WRAP - 1 : x % m \in 0..m - 1
  BY Sizes
<1>6. /\ e \in [0..m - 1 -> Int] /\ e[w % m] = w
      /\ \A j \in 0..m - 1 : j # w % m => e[j] = d[j]
  BY <1>5, Zenon
<1>7. ASSUME NEW x \in 0..WRAP - 1, Dist(x, r) < u + 1
      PROVE  e[x % m] = x
  <2>1. CASE Dist(x, r) < u
    <3>1. x % m # w % m
      BY <1>3, <2>1, PlacesDiffer, Zenon
    <3>2. d[x % m] = x
      BY <2>1, Zenon DEF Ring
    <3> HIDE DEF e, m
    <3> QED BY <1>5, <1>6, <3>1, <3>2, Zenon
  <2>2. CASE Dist(x, r) = u
    <3>1. x = w
      <4>1. /\ Dist(x, r) = IF x >= r THEN x - r ELSE x - r + WRAP
            /\ Dist(w, r) = IF w >= r THEN w - r ELSE w - r + WRAP
        BY DiffIs, Zenon
      <4>2. Dist(x, r) = Dist(w, r)
        BY <2>2, Zenon
      <4> HIDE DEF u, e, m
      <4> QED BY <4>1, <4>2, Sizes
    <3> HIDE DEF e, m
    <3> QED BY <1>6, <3>1, Zenon
  <2>3. Dist(x, r) \in 0..WRAP - 1
    BY DiffIs, Zenon
  <2> HIDE DEF u, e, m
  <2> QED BY <1>1, <1>7, <2>1, <2>2, <2>3
<1>8. u + 1 <= m
  <2> HIDE DEF u, m
  <2>1. m \in Nat BY Sizes DEF m
  <2> QED BY <1>1, <1>3, <2>1
<1>9. Ring(e, r, Inc(w))
  <2> HIDE DEF e
  <2> QED BY <1>4, <1>7, <1>8, Zenon DEF Ring
<1> QED BY <1>6, <1>9, Zenon

\* uartstart() takes the next byte out of a ring that is not empty.
LEMMA RingTake ==
  ASSUME NEW d, NEW r \in 0..WRAP - 1, NEW w \in 0..WRAP - 1, Ring(d, r, w), w # r
  PROVE  d[r % UART_TX_BUF_SIZE] = r /\ Ring(d, Inc(r), w)
<1>1. /\ Dist(w, r) = IF w >= r THEN w - r ELSE w - r + WRAP
      /\ Dist(r, r) = IF r >= r THEN r - r ELSE r - r + WRAP
  BY DiffIs, Zenon
<1>2. Dist(r, r) = 0 /\ Dist(w, r) > 0
  BY <1>1, Sizes
<1>3. d[r % UART_TX_BUF_SIZE] = r
  BY <1>2 DEF Ring
<1>4. Inc(r) = IF r + 1 = WRAP THEN 0 ELSE r + 1
  BY IncIs, Zenon
<1>5. /\ Inc(r) \in 0..WRAP - 1
      /\ Dist(w, Inc(r)) = IF w >= Inc(r) THEN w - Inc(r) ELSE w - Inc(r) + WRAP
  BY IncIs, DiffIs, Zenon
<1>6. Dist(w, Inc(r)) = Dist(w, r) - 1
  BY <1>1, <1>4, <1>5, Sizes
<1>7. ASSUME NEW x \in 0..WRAP - 1, Dist(x, Inc(r)) < Dist(w, Inc(r))
      PROVE  Dist(x, r) < Dist(w, r)
  <2>1. /\ Dist(x, Inc(r)) = IF x >= Inc(r) THEN x - Inc(r) ELSE x - Inc(r) + WRAP
        /\ Dist(x, r) = IF x >= r THEN x - r ELSE x - r + WRAP
    BY <1>5, DiffIs, Zenon
  <2> QED BY <1>1, <1>4, <1>6, <1>7, <2>1, Sizes
<1>8. Dist(w, Inc(r)) <= UART_TX_BUF_SIZE
  <2>1. Dist(w, r) <= UART_TX_BUF_SIZE BY Zenon DEF Ring
  <2>2. Dist(w, r) \in Int BY <1>1, Sizes
  <2> QED BY <1>6, <2>1, <2>2, Sizes
<1>9. \A x \in 0..WRAP - 1 :
        Dist(x, Inc(r)) < Dist(w, Inc(r)) => d[x % UART_TX_BUF_SIZE] = x
  BY <1>7, Zenon DEF Ring
<1> QED BY <1>3, <1>8, <1>9, Zenon DEF Ring

-----------------------------------------------------------------------------
(* What the UART has to send                                               *)

\* A byte leaves the UART.
LEMMA TailWire ==
  ASSUME NEW s \in Seq(Int), s # << >>, NEW b \in Nat
  PROVE  /\ Echoes(s) => Head(s) = Echo /\ Echoes(Tail(s))
         /\ OneByte(s, b) /\ Head(s) = Echo => OneByte(Tail(s), b)
         /\ OneByte(s, b) /\ Head(s) # Echo => Head(s) = b /\ Echoes(Tail(s))
<1>1. /\ Len(s) \in Nat /\ Len(s) >= 1 /\ Head(s) = s[1]
      /\ Len(Tail(s)) = Len(s) - 1 /\ \A i \in 1..Len(s) - 1 : Tail(s)[i] = s[i + 1]
  OBVIOUS
<1>2. Echoes(s) => Head(s) = Echo /\ Echoes(Tail(s))
  BY <1>1 DEF Echoes
<1>3. ASSUME OneByte(s, b), Head(s) = Echo PROVE OneByte(Tail(s), b)
  <2>1. PICK i \in 1..Len(s) : s[i] = b /\ \A j \in 1..Len(s) : j # i => s[j] = Echo
    BY <1>3, Zenon DEF OneByte
  <2>2. i # 1
    BY <1>1, <1>3, <2>1 DEF Echo
  <2>3. i - 1 \in 1..Len(Tail(s)) /\ Tail(s)[i - 1] = b
    BY <1>1, <2>1, <2>2
  <2>4. \A j \in 1..Len(Tail(s)) : j # i - 1 => Tail(s)[j] = Echo
    BY <1>1, <2>1
  <2> QED BY <2>3, <2>4, Zenon DEF OneByte
<1>4. ASSUME OneByte(s, b), Head(s) # Echo PROVE Head(s) = b /\ Echoes(Tail(s))
  <2>1. PICK i \in 1..Len(s) : s[i] = b /\ \A j \in 1..Len(s) : j # i => s[j] = Echo
    BY <1>4, Zenon DEF OneByte
  <2>2. i = 1
    BY <1>1, <1>4, <2>1
  <2> QED BY <1>1, <2>1, <2>2 DEF Echoes
<1> QED BY <1>2, <1>3, <1>4, Zenon

\* A byte is written to THR.
LEMMA AppendWire ==
  ASSUME NEW s \in Seq(Int), NEW b \in Nat
  PROVE  /\ Echoes(s) => Echoes(Append(s, Echo)) /\ OneByte(Append(s, b), b)
         /\ OneByte(s, b) => OneByte(Append(s, Echo), b)
<1>1. ASSUME NEW x \in Int
      PROVE  /\ Len(s) \in Nat /\ Len(Append(s, x)) = Len(s) + 1
             /\ Append(s, x)[Len(s) + 1] = x
             /\ \A i \in 1..Len(s) : Append(s, x)[i] = s[i]
  OBVIOUS
<1>2. Echo \in Int /\ b \in Int
  BY DEF Echo
<1>3. ASSUME Echoes(s) PROVE Echoes(Append(s, Echo))
  BY <1>1, <1>2, <1>3 DEF Echoes
<1>4. ASSUME Echoes(s) PROVE OneByte(Append(s, b), b)
  <2>1. Len(s) + 1 \in 1..Len(Append(s, b)) /\ Append(s, b)[Len(s) + 1] = b
    BY <1>1, <1>2
  <2>2. \A j \in 1..Len(Append(s, b)) : j # Len(s) + 1 => Append(s, b)[j] = Echo
    BY <1>1, <1>2, <1>4 DEF Echoes
  <2> QED BY <2>1, <2>2, Zenon DEF OneByte
<1>5. ASSUME OneByte(s, b) PROVE OneByte(Append(s, Echo), b)
  <2>1. PICK i \in 1..Len(s) : s[i] = b /\ \A j \in 1..Len(s) : j # i => s[j] = Echo
    BY <1>5, Zenon DEF OneByte
  <2>2. i \in 1..Len(Append(s, Echo)) /\ Append(s, Echo)[i] = b
    BY <1>1, <1>2, <2>1
  <2>3. \A j \in 1..Len(Append(s, Echo)) : j # i => Append(s, Echo)[j] = Echo
    BY <1>1, <1>2, <2>1
  <2> QED BY <2>2, <2>3, Zenon DEF OneByte
<1> QED BY <1>3, <1>4, <1>5, Zenon

\* At most NCPU harts and the interrupt handler may be about to write a character.
LEMMA FewSenders ==
  /\ IsFiniteSet(Senders) /\ Cardinality(Senders) \in Nat
  /\ Cardinality(Senders) + 1 <= THRDepth
  /\ \A S \in SUBSET Senders :
       IsFiniteSet(S) /\ Cardinality(S) \in Nat /\ Cardinality(S) <= Cardinality(Senders)
<1>1. IsFiniteSet(Printers) /\ Cardinality(Printers) \in Nat /\ Cardinality(Printers) <= 8
  BY UartConstants, FS_CardinalityType, Zenon DEF NCPU
<1>2. /\ IsFiniteSet(Senders)
      /\ Cardinality(Senders) = IF Intr \in Printers THEN Cardinality(Printers)
                                ELSE Cardinality(Printers) + 1
  BY <1>1, FS_AddElement, Zenon DEF Senders
<1>3. Cardinality(Senders) \in Nat /\ Cardinality(Senders) + 1 <= THRDepth
  BY <1>1, <1>2 DEF THRDepth
<1>4. ASSUME NEW S \in SUBSET Senders
      PROVE  /\ IsFiniteSet(S) /\ Cardinality(S) \in Nat
             /\ Cardinality(S) <= Cardinality(Senders)
  BY <1>2, FS_Subset, FS_CardinalityType, Zenon
<1> QED BY <1>2, <1>3, <1>4, Zenon

-----------------------------------------------------------------------------
(* Steps from one label to another                                         *)

\* The lock is left alone, acquired when it is free, or released by its holder.
LEMMA MutexStep ==
  ASSUME UInv, NEW a \in Actors, NEW l, pc' = [pc EXCEPT ![a] = l],
         \/ uart_tx_lock' = uart_tx_lock /\ (l \in Locked => pc[a] \in Locked)
         \/ uart_tx_lock = None /\ uart_tx_lock' = a
         \/ pc[a] \in Locked /\ l \notin Locked
  PROVE  Mutex'
<1>1. pc'[a] = l /\ \A x \in Actors \ {a} : pc'[x] = pc[x]
  BY Zenon DEF UInv, Types
<1>2. Mutex /\ None \notin Actors
  BY UartConstants, Zenon DEF UInv, Actors, Senders, Starters
<1> SUFFICES ASSUME NEW x \in Actors, pc'[x] \in Locked PROVE uart_tx_lock' = x
  BY Zenon DEF Mutex
<1>3. x # a => pc[x] \in Locked /\ uart_tx_lock = x
  BY <1>1, <1>2, Zenon DEF Mutex
<1>4. pc[a] \in Locked => uart_tx_lock = a
  BY <1>2, Zenon DEF Mutex
<1>5. CASE x = a
  BY <1>1, <1>4, <1>5, Zenon
<1>6. CASE x # a
  BY <1>2, <1>3, <1>4, <1>6, Zenon
<1> QED BY <1>5, <1>6, Zenon

\* How many harts are about to write a character.
LEMMA RoomStep ==
  ASSUME UInv, NEW a \in Actors, NEW l, pc' = [pc EXCEPT ![a] = l],
         UNCHANGED <<fifo, c>>, l = "sync" => fifo = << >>
  PROVE  Room'
<1>1. pc'[a] = l /\ \A x \in Actors \ {a} : pc'[x] = pc[x]
  BY Zenon DEF UInv, Types
<1>2. Len(c) \in {0, 1} /\ Len(fifo) \in Nat /\ Room
  BY DEF UInv, Types, Wire
<1>3. Syncing \in SUBSET Senders /\ Syncing' \in SUBSET Senders
  BY Zenon DEF Syncing
<1>4. CASE l = "sync"
  <2>1. Len(fifo') = 0 /\ Len(c') \in {0, 1}
    BY <1>2, <1>4
  <2>2. Cardinality(Syncing') \in Nat /\ Cardinality(Syncing') <= Cardinality(Senders)
        /\ Cardinality(Senders) \in Nat
    BY <1>3, FewSenders, Zenon
  <2>3. \A k \in {0, 1}, m \in Nat, s \in Nat : m <= s => 0 + k + m <= s + 1
    BY SMT
  <2> QED BY <2>1, <2>2, <2>3, Zenon DEF Room
<1>5. CASE l # "sync"
  <2>1. Syncing' \subseteq Syncing
    BY <1>1, <1>5, Zenon DEF Syncing, Actors
  <2>2. Cardinality(Syncing') \in Nat /\ Cardinality(Syncing) \in Nat
        /\ Cardinality(Senders) \in Nat /\ IsFiniteSet(Syncing)
    BY <1>3, FewSenders, Zenon
  <2>3. Cardinality(Syncing') <= Cardinality(Syncing)
    BY <2>1, <2>2, FS_Subset, Zenon
  <2> QED BY <1>2, <2>2, <2>3 DEF Room
<1> QED BY <1>4, <1>5, Zenon

\* A step that moves one actor and touches no byte.
LEMMA LabelStep ==
  ASSUME UInv, NEW a \in Actors, NEW l, pc' = [pc EXCEPT ![a] = l],
         UNCHANGED <<tx, fifo, c, sent>>, pc[a] # "thr", l # "thr",
         l = "sync" => fifo = << >>,
         \/ uart_tx_lock' = uart_tx_lock /\ (l \in Locked => pc[a] \in Locked)
         \/ uart_tx_lock = None /\ uart_tx_lock' = a
         \/ pc[a] \in Locked /\ l \notin Locked
  PROVE  UInv'
<1>1. pc'[a] = l /\ \A x \in Actors \ {a} : pc'[x] = pc[x]
  BY Zenon DEF UInv, Types
<1>2. Mutex' /\ Room'
  BY MutexStep, RoomStep, Zenon
<1>3. Types' /\ Wire' /\ Ring(uart_tx_buf, uart_tx_r, uart_tx_w)'
  BY Zenon DEF UInv, Types, Wire, tx
<1>4. InHand'
  BY <1>1, Zenon DEF UInv, InHand
<1> QED BY <1>2, <1>3, <1>4, Zenon DEF UInv
-----------------------------------------------------------------------------
(* Steps that move a byte                                                  *)

\* uartputc() puts a byte into the ring.
LEMMA uartputc_store_step ==
  ASSUME UInv, NEW p \in Writers, uartputc_store(p)
  PROVE  UInv'
<1>1. p \in Actors /\ pc[p] = "putc" /\ pc' = [pc EXCEPT ![p] = "start"]
      /\ UNCHANGED <<uart_tx_r, uart_tx_lock, fifo, c, sent>>
  BY Zenon DEF uartputc_store, Goto, Actors, Starters
<1>2. pc'[p] = "start" /\ \A x \in Actors \ {p} : pc'[x] = pc[x]
  BY <1>1, Zenon DEF UInv, Types
<1>3. Mutex' /\ Room'
  <2>1. "putc" \in Locked
    BY Zenon DEF Locked
  <2> QED BY <1>1, <2>1, MutexStep, RoomStep, Zenon
<1>4. Wire' /\ InHand'
  BY <1>1, <1>2, Zenon DEF UInv, Wire, InHand
<1>5. /\ uart_tx_w \in 0..WRAP - 1 /\ uart_tx_r \in 0..WRAP - 1
      /\ uart_tx_buf \in [0..UART_TX_BUF_SIZE - 1 -> Int]
      /\ uart_tx_w # (uart_tx_r + UART_TX_BUF_SIZE) % WRAP
      /\ uart_tx_w' = Inc(uart_tx_w)
      /\ uart_tx_buf' = [uart_tx_buf EXCEPT ![uart_tx_w % UART_TX_BUF_SIZE] = uart_tx_w]
      /\ Ring(uart_tx_buf, uart_tx_r, uart_tx_w)
  BY Zenon DEF UInv, Types, uartputc_store, Full, Inc
<1>6. Ring(uart_tx_buf, uart_tx_r, uart_tx_w)'
  <2>1. Ring(uart_tx_buf', uart_tx_r, Inc(uart_tx_w))
    BY <1>5, RingStore, Zenon
  <2> QED BY <1>1, <1>5, <2>1, Zenon
<1>7. Types'
  <2>1. uart_tx_w' \in 0..WRAP - 1
    BY <1>5, IncIs, Zenon
  <2>2. uart_tx_buf' \in [0..UART_TX_BUF_SIZE - 1 -> Int]
    <3>1. uart_tx_w \in Int
      BY <1>5, Sizes
    <3> QED BY <1>5, <3>1, Zenon
  <2> QED BY <1>1, <2>1, <2>2, Zenon DEF UInv, Types
<1> QED BY <1>3, <1>4, <1>6, <1>7, Zenon DEF UInv

\* uartstart() takes a byte out of the ring and wakes the writers.
LEMMA uartstart_take_step ==
  ASSUME UInv, NEW a \in Starters, uartstart_take(a)
  PROVE  UInv'
<1>1. /\ a \in Actors /\ pc[a] = "start" /\ fifo = << >>
      /\ pc' = [Woken(pc) EXCEPT ![a] = "thr"]
      /\ UNCHANGED <<uart_tx_buf, uart_tx_w, uart_tx_lock, fifo, sent>>
  BY Zenon DEF uartstart_take, Idle, Actors
<1>2. /\ pc'[a] = "thr" /\ DOMAIN pc' = Actors
      /\ \A x \in Actors \ {a} :
           pc'[x] = pc[x] \/ (pc[x] = "asleep" /\ pc'[x] = "woken")
  BY <1>1, Zenon DEF UInv, Types, Woken
<1>3. /\ uart_tx_w \in 0..WRAP - 1 /\ uart_tx_r \in 0..WRAP - 1
      /\ uart_tx_buf \in [0..UART_TX_BUF_SIZE - 1 -> Int]
      /\ uart_tx_w # uart_tx_r /\ uart_tx_r' = Inc(uart_tx_r)
      /\ Ring(uart_tx_buf, uart_tx_r, uart_tx_w)
      /\ c' = <<uart_tx_buf[uart_tx_r % UART_TX_BUF_SIZE]>>
  BY Zenon DEF UInv, Types, uartstart_take, Inc
<1>4. /\ Ring(uart_tx_buf, Inc(uart_tx_r), uart_tx_w)
      /\ uart_tx_buf[uart_tx_r % UART_TX_BUF_SIZE] = uart_tx_r
  BY <1>3, RingTake, Zenon
<1>5. Len(fifo) = 0
  BY <1>1
<1>6. Echoes(fifo) /\ ~OneByte(fifo, sent)
  BY <1>5 DEF Echoes, OneByte
<1>7. Mutex'
  <2>1. "start" \in Locked /\ "woken" \notin Locked
    BY Zenon DEF Locked
  <2> QED BY <1>1, <1>2, <2>1, Zenon DEF UInv, Mutex
<1>8. uart_tx_r = sent /\ c = << >>
  <2>1. \A x \in Actors : pc[x] # "thr"
    <3> SUFFICES ASSUME NEW x \in Actors, pc[x] = "thr" PROVE FALSE
      OBVIOUS
    <3>1. pc[x] \in Locked /\ pc[a] \in Locked
      BY <1>1, Zenon DEF Locked
    <3> QED BY <1>1, <3>1, Zenon DEF UInv, Mutex
  <2>2. c = << >>
    BY <2>1, Zenon DEF UInv, InHand
  <2>3. <<sent>> # << >>
    OBVIOUS
  <2> QED BY <1>6, <2>2, <2>3, Zenon DEF UInv, Wire
<1>9. Wire'
  BY <1>1, <1>3, <1>4, <1>6, <1>8, Zenon DEF Wire
<1>10. InHand'
  <2>1. c' # << >>
    BY <1>3
  <2> QED BY <1>1, <1>2, <2>1, Zenon DEF InHand
<1>11. Room'
  <2>1. Len(fifo') = 0 /\ Len(c') = 1
    BY <1>1, <1>3
  <2>2. Syncing' \in SUBSET Senders
    BY Zenon DEF Syncing
  <2>3. Cardinality(Syncing') \in Nat /\ Cardinality(Syncing') <= Cardinality(Senders)
        /\ Cardinality(Senders) \in Nat
    BY <2>2, FewSenders, Zenon
  <2> QED BY <2>1, <2>3 DEF Room
<1>12. Types'
  <2>1. uart_tx_r' \in 0..WRAP - 1
    BY <1>3, IncIs, Zenon
  <2> QED BY <1>1, <1>2, <2>1, Zenon DEF UInv, Types
<1>13. Ring(uart_tx_buf, uart_tx_r, uart_tx_w)'
  BY <1>1, <1>3, <1>4, Zenon
<1> QED BY <1>7, <1>9, <1>10, <1>11, <1>12, <1>13, Zenon DEF UInv

\* uartstart() writes its byte to THR: it finds room there.
LEMMA uartstart_send_step ==
  ASSUME UInv, NEW a \in Starters, uartstart_send(a)
  PROVE  UInv'
<1>1. /\ a \in Actors /\ pc[a] = "thr" /\ c' = << >>
      /\ pc' = [pc EXCEPT ![a] = "start"]
      /\ UNCHANGED <<tx, uart_tx_lock, sent>>
      /\ fifo' = IF Len(fifo) < THRDepth THEN Append(fifo, Head(c)) ELSE fifo
  BY Zenon DEF uartstart_send, WriteTHR, Goto, Actors
<1>2. pc'[a] = "start" /\ \A x \in Actors \ {a} : pc'[x] = pc[x]
  BY <1>1, Zenon DEF UInv, Types
<1>3. Echoes(fifo) /\ c = <<sent>> /\ uart_tx_r = Inc(sent)
  BY <1>1, Zenon DEF UInv, InHand, Wire
<1>4. Head(c) = sent /\ Len(c) = 1
  BY <1>3
<1>5. sent \in Nat /\ fifo \in Seq(Int) /\ Len(fifo) \in Nat
  BY Sizes DEF UInv, Types
<1>6. /\ Syncing \in SUBSET Senders
      /\ Cardinality(Syncing) \in Nat /\ Cardinality(Senders) \in Nat
      /\ Cardinality(Senders) + 1 <= THRDepth
  <2>1. Syncing \in SUBSET Senders
    BY Zenon DEF Syncing
  <2> QED BY <2>1, FewSenders, Zenon
<1>7. Len(fifo) < THRDepth
  BY <1>4, <1>5, <1>6 DEF UInv, Room, THRDepth
<1>8. fifo' = Append(fifo, sent)
  BY <1>1, <1>4, <1>7, Zenon
<1>9. Wire'
  <2>1. OneByte(fifo', sent)
    BY <1>3, <1>5, <1>8, AppendWire, Zenon
  <2> QED BY <1>1, <1>3, <2>1, Zenon DEF Wire, tx
<1>10. Mutex'
  <2>1. "thr" \in Locked
    BY Zenon DEF Locked
  <2> QED BY <1>1, <2>1, MutexStep, Zenon
<1>11. InHand'
  <2>1. \A x \in Actors \ {a} : pc[x] # "thr"
    <3> SUFFICES ASSUME NEW x \in Actors \ {a}, pc[x] = "thr" PROVE FALSE
      OBVIOUS
    <3>1. pc[x] \in Locked /\ pc[a] \in Locked
      BY <1>1, Zenon DEF Locked
    <3> QED BY <1>1, <3>1, Zenon DEF UInv, Mutex
  <2> QED BY <1>1, <1>2, <2>1, Zenon DEF InHand
<1>12. Room'
  <2>1. Len(fifo') = Len(fifo) + 1 /\ Len(c') = 0
    BY <1>1, <1>5, <1>8
  <2>2. Syncing' = Syncing
    BY <1>1, <1>2, Zenon DEF Syncing, Actors
  <2> QED BY <1>4, <1>5, <1>6, <2>1, <2>2 DEF UInv, Room
<1>13. Types' /\ Ring(uart_tx_buf, uart_tx_r, uart_tx_w)'
  <2>1. fifo' \in Seq(Int)
    BY <1>5, <1>8
  <2> QED BY <1>1, <2>1, Zenon DEF UInv, Types, tx
<1> QED BY <1>9, <1>10, <1>11, <1>12, <1>13, Zenon DEF UInv

\* uartputc_sync() writes a character to THR, perhaps while uartstart() is about to.
LEMMA uartputc_sync_send_step ==
  ASSUME UInv, NEW a \in Senders, uartputc_sync_send(a)
  PROVE  UInv'
<1>1. /\ a \in Actors /\ pc[a] = "sync" /\ pc' = [pc EXCEPT ![a] = "next"]
      /\ UNCHANGED <<tx, uart_tx_lock, c, sent>>
      /\ fifo' = IF Len(fifo) < THRDepth THEN Append(fifo, Echo) ELSE fifo
  BY Zenon DEF uartputc_sync_send, WriteTHR, Goto, Actors
<1>2. pc'[a] = "next" /\ \A x \in Actors \ {a} : pc'[x] = pc[x]
  BY <1>1, Zenon DEF UInv, Types
<1>3. /\ sent \in Nat /\ fifo \in Seq(Int) /\ Len(fifo) \in Nat /\ Echo \in Int
      /\ Len(c) \in {0, 1}
  BY Sizes DEF UInv, Types, Wire, Echo
<1>4. /\ Cardinality(Syncing) \in Nat /\ Cardinality(Senders) \in Nat
      /\ Cardinality(Senders) + 1 <= THRDepth /\ IsFiniteSet(Syncing)
  <2>1. Syncing \in SUBSET Senders
    BY Zenon DEF Syncing
  <2> QED BY <2>1, FewSenders, Zenon
<1>5. Syncing' = Syncing \ {a} /\ a \in Syncing
  <2>1. a \in Syncing
    BY <1>1, Zenon DEF Syncing
  <2>2. Syncing' = Syncing \ {a}
    BY <1>2, Zenon DEF Syncing, Actors
  <2> QED BY <2>1, <2>2
<1>6. Cardinality(Syncing') = Cardinality(Syncing) - 1 /\ Cardinality(Syncing') \in Nat
  <2>1. /\ IsFiniteSet(Syncing \ {a})
        /\ Cardinality(Syncing \ {a}) = Cardinality(Syncing) - 1
    BY <1>4, <1>5, FS_RemoveElement, Zenon
  <2> QED BY <1>5, <2>1, FS_CardinalityType, Zenon
<1>7. fifo' = Append(fifo, Echo)
  <2>1. Len(fifo) < THRDepth
    BY <1>3, <1>4, <1>6 DEF UInv, Room, THRDepth
  <2> QED BY <1>1, <2>1, Zenon
<1>8. Wire'
  <2>1. /\ Echoes(fifo) => Echoes(fifo')
        /\ OneByte(fifo, sent) => OneByte(fifo', sent)
    BY <1>3, <1>7, AppendWire, Zenon
  <2> QED BY <1>1, <2>1, Zenon DEF UInv, Wire, tx
<1>9. Mutex'
  <2>1. "next" \notin Locked
    BY Zenon DEF Locked
  <2> QED BY <1>1, <2>1, MutexStep, Zenon
<1>10. InHand'
  BY <1>1, <1>2, Zenon DEF UInv, InHand
<1>11. Room'
  <2>1. Len(fifo') = Len(fifo) + 1 /\ Len(c') = Len(c)
    BY <1>1, <1>3, <1>7
  <2> QED BY <1>3, <1>4, <1>6, <2>1 DEF UInv, Room
<1>12. Types' /\ Ring(uart_tx_buf, uart_tx_r, uart_tx_w)'
  <2>1. fifo' \in Seq(Int)
    BY <1>3, <1>7
  <2> QED BY <1>1, <2>1, Zenon DEF UInv, Types, tx
<1> QED BY <1>8, <1>9, <1>10, <1>11, <1>12, Zenon DEF UInv

\* The UART sends a byte.
LEMMA transmit_step ==
  ASSUME UInv, transmit
  PROVE  UInv'
<1>1. /\ fifo # << >> /\ fifo' = Tail(fifo)
      /\ sent' = IF Head(fifo) = Echo THEN sent ELSE Inc(sent)
      /\ UNCHANGED <<tx, uart_tx_lock, pc, c>>
  BY Zenon DEF transmit, Inc
<1>2. sent \in Nat /\ sent \in 0..WRAP - 1 /\ fifo \in Seq(Int) /\ Len(c) \in {0, 1}
  BY Sizes DEF UInv, Types, Wire
<1>3. /\ Echoes(fifo) => Head(fifo) = Echo /\ Echoes(Tail(fifo))
      /\ OneByte(fifo, sent) /\ Head(fifo) = Echo => OneByte(Tail(fifo), sent)
      /\ OneByte(fifo, sent) /\ Head(fifo) # Echo => Echoes(Tail(fifo))
  BY <1>1, <1>2, TailWire, Zenon
<1>4. Wire'
  <2>1. CASE Head(fifo) = Echo
    <3>1. sent' = sent
      BY <1>1, <2>1, Zenon
    <3> QED BY <1>1, <1>3, <2>1, <3>1, Zenon DEF UInv, Wire, tx
  <2>2. CASE Head(fifo) # Echo
    <3>1. sent' = Inc(sent)
      BY <1>1, <2>2, Zenon
    <3> QED BY <1>1, <1>3, <2>2, <3>1, Zenon DEF UInv, Wire, tx
  <2> QED BY <2>1, <2>2
<1>5. Room'
  <2>1. Len(fifo') = Len(fifo) - 1 /\ Len(fifo) \in Nat /\ Len(c') = Len(c)
    BY <1>1, <1>2
  <2>2. Syncing' = Syncing /\ Syncing \in SUBSET Senders
    BY <1>1, Zenon DEF Syncing
  <2>3. Cardinality(Syncing) \in Nat /\ Cardinality(Senders) \in Nat
    BY <2>2, FewSenders, Zenon
  <2> QED BY <1>2, <2>1, <2>2, <2>3 DEF UInv, Room
<1>6. Types'
  <2>1. fifo' \in Seq(Int)
    BY <1>1, <1>2
  <2>2. sent' \in 0..WRAP - 1
    BY <1>1, <1>2, IncIs, Zenon
  <2> QED BY <1>1, <2>1, <2>2, Zenon DEF UInv, Types, tx
<1>7. Mutex' /\ InHand' /\ Ring(uart_tx_buf, uart_tx_r, uart_tx_w)'
  BY <1>1, Zenon DEF UInv, Mutex, InHand, tx
<1> QED BY <1>4, <1>5, <1>6, <1>7, Zenon DEF UInv
-----------------------------------------------------------------------------
(* The other steps                                                         *)

\* acquire(), sleep() in uartputc() and the end of uartstart().
LEMMA LockSteps ==
  ASSUME UInv, NEW a \in Starters, acquire(a) \/ uartputc_sleep(a) \/ uartstart_return(a)
  PROVE  UInv'
<1> a \in Actors
  BY Zenon DEF Actors
<1> DEFINE Lock(l) == \/ uart_tx_lock = None /\ uart_tx_lock' = a
                      \/ pc[a] \in Locked /\ l \notin Locked
<1> SUFFICES ASSUME NEW l, pc' = [pc EXCEPT ![a] = l], UNCHANGED <<tx, fifo, c, sent>>,
                    pc[a] # "thr", l # "thr", l # "sync", Lock(l)
             PROVE  UInv'
  <2>1. CASE acquire(a)
    <3>1. PICK l : /\ l = IF a = Intr THEN "start"
                         ELSE IF panicked /\ pc[a] = "acquire" THEN "frozen" ELSE "putc"
                   /\ pc' = [pc EXCEPT ![a] = l] /\ pc[a] \in {"acquire", "woken"}
                   /\ uart_tx_lock = None /\ uart_tx_lock' = a
                   /\ UNCHANGED <<tx, fifo, c, sent>>
      BY <2>1, Zenon DEF acquire, Goto
    <3>2. l \in {"start", "frozen", "putc"}
      BY <3>1, Zenon
    <3> QED BY <3>1, <3>2, Zenon
  <2>2. CASE uartputc_sleep(a)
    BY <2>2, Zenon DEF uartputc_sleep, Goto, Locked
  <2>3. CASE uartstart_return(a)
    <3>1. PICK l : /\ l = IF a = Intr THEN "out" ELSE "copyin"
                   /\ pc' = [pc EXCEPT ![a] = l] /\ pc[a] = "start"
                   /\ UNCHANGED <<tx, fifo, c, sent>>
      BY <2>3, Zenon DEF uartstart_return, Goto
    <3>2. l \in {"out", "copyin"}
      BY <3>1, Zenon
    <3> QED BY <3>1, <3>2, Zenon DEF Locked
  <2> QED BY <2>1, <2>2, <2>3, Zenon
<1> QED BY LabelStep, Zenon

\* The steps of consolewrite() without the lock.
LEMMA WriteSteps ==
  ASSUME UInv, NEW p \in Writers,
         \/ \E k \in Lengths : write(p, k)
         \/ consolewrite_byte(p) \/ consolewrite_return(p)
  PROVE  UInv'
<1> p \in Actors
  BY Zenon DEF Actors, Starters
<1> SUFFICES ASSUME NEW l, pc' = [pc EXCEPT ![p] = l],
                    UNCHANGED <<tx, uart_tx_lock, fifo, c, sent>>,
                    pc[p] # "thr", l # "thr", l # "sync", l \notin Locked
             PROVE  UInv'
  <2>1. CASE \E k \in Lengths : write(p, k)
    BY <2>1, Zenon DEF write, Goto, Locked
  <2>2. CASE consolewrite_byte(p)
    BY <2>2, Zenon DEF consolewrite_byte, Goto, Locked
  <2>3. CASE consolewrite_return(p)
    BY <2>3, Zenon DEF consolewrite_return, Goto, Locked
  <2> QED BY <2>1, <2>2, <2>3, Zenon
<1> QED BY LabelStep, Zenon

\* printf(), panic(), and uartputc_sync() but for its write to THR.
LEMMA SyncSteps ==
  ASSUME UInv, NEW a \in Senders,
         \/ printf(a) \/ panic(a)
         \/ uartputc_sync(a) \/ uartputc_sync_idle(a) \/ uartputc_sync_return(a)
  PROVE  UInv'
<1> a \in Actors
  BY Zenon DEF Actors
<1> SUFFICES ASSUME NEW l, pc' = [pc EXCEPT ![a] = l],
                    UNCHANGED <<tx, uart_tx_lock, fifo, c, sent>>,
                    pc[a] # "thr", l # "thr", l = "sync" => fifo = << >>, l \notin Locked
             PROVE  UInv'
  <2>1. CASE printf(a)
    BY <2>1, Zenon DEF printf, Goto, Locked
  <2>2. CASE uartputc_sync_idle(a)
    BY <2>2, Zenon DEF uartputc_sync_idle, Goto, Locked, Idle
  <2>3. CASE uartputc_sync_return(a)
    BY <2>3, Zenon DEF uartputc_sync_return, Goto, Locked
  <2>4. CASE panic(a)
    BY <2>4, Zenon DEF panic, Goto, Locked
  <2>5. CASE uartputc_sync(a)
    <3>1. PICK l : /\ l = IF panicked THEN "frozen" ELSE "wait"
                   /\ pc' = [pc EXCEPT ![a] = l] /\ pc[a] = "next"
                   /\ UNCHANGED <<tx, uart_tx_lock, fifo, c, sent>>
      BY <2>5, Zenon DEF uartputc_sync, Goto
    <3>2. l \in {"frozen", "wait"}
      BY <3>1, Zenon
    <3> QED BY <3>1, <3>2, Zenon DEF Locked
  <2> QED BY <2>1, <2>2, <2>3, <2>4, <2>5, Zenon
<1> QED BY LabelStep, Zenon

\* The interrupt, and the keys that it brings.
LEMMA IntrSteps ==
  ASSUME UInv, uartintr \/ uartgetc \/ uartgetc_none
  PROVE  UInv'
<1> Intr \in Actors
  BY Zenon DEF Actors, Senders
<1> SUFFICES ASSUME NEW l, pc' = [pc EXCEPT ![Intr] = l],
                    UNCHANGED <<tx, uart_tx_lock, fifo, c, sent>>,
                    pc[Intr] # "thr", l # "thr", l # "sync", l \notin Locked
             PROVE  UInv'
  <2>1. CASE uartintr
    BY <2>1, Zenon DEF uartintr, Goto, Locked
  <2>2. CASE uartgetc
    BY <2>2, Zenon DEF uartgetc, Goto, Locked
  <2>3. CASE uartgetc_none
    BY <2>3, Zenon DEF uartgetc_none, Goto, Locked
  <2> QED BY <2>1, <2>2, <2>3, Zenon
<1> QED BY LabelStep, Zenon

\* A step that leaves alone all that the invariant is about.
LEMMA QuietStep ==
  ASSUME UInv, UNCHANGED <<tx, uart_tx_lock, fifo, pc, c, sent>>
  PROVE  UInv'
  BY Zenon DEF UInv, Types, Mutex, InHand, Wire, Room, Syncing, tx

-----------------------------------------------------------------------------
(* The invariant                                                           *)

\* Nothing is written yet.
LEMMA InitInv == Init => UInv
<1> SUFFICES ASSUME Init PROVE UInv
  OBVIOUS
<1>1. Types
  <2>1. 0 \in 0..WRAP - 1 /\ 0 \in Int /\ << >> \in Seq(Int)
    BY Sizes
  <2> QED BY <2>1, Zenon DEF Init, Types
<1>2. \A a \in Actors : pc[a] = "out"
  BY Zenon DEF Init
<1>3. Mutex /\ InHand
  BY <1>2, Zenon DEF Init, Mutex, InHand, Locked
<1>4. Len(fifo) = 0 /\ Len(c) = 0
  BY DEF Init
<1>5. Wire
  <2>1. Echoes(fifo)
    BY <1>4 DEF Echoes
  <2> QED BY <2>1, Zenon DEF Init, Wire
<1>6. Room
  <2>1. Syncing = {}
    BY <1>2, Zenon DEF Syncing, Actors
  <2>2. Cardinality(Syncing) = 0 /\ Cardinality(Senders) \in Nat
    BY <2>1, FewSenders, FS_EmptySet, Zenon
  <2> QED BY <1>4, <2>2 DEF Room
<1>7. Ring(uart_tx_buf, uart_tx_r, uart_tx_w)
  <2>1. 0 \in 0..WRAP - 1
    BY Sizes
  <2>2. Dist(0, 0) = 0
    BY <2>1, DiffIs
  <2>3. \A x \in 0..WRAP - 1 : ~(Dist(x, 0) < 0)
    BY <2>1, DiffIs, Sizes
  <2>4. 0 <= UART_TX_BUF_SIZE
    BY Sizes
  <2> QED BY <2>2, <2>3, <2>4, Zenon DEF Init, Ring
<1> QED BY <1>1, <1>3, <1>5, <1>6, <1>7, Zenon DEF UInv

\* Every step preserves the invariant.
LEMMA NextInv == UInv /\ [Next]_vars => UInv'
<1> SUFFICES ASSUME UInv, [Next]_vars PROVE UInv'
  OBVIOUS
<1>1. CASE transmit
  BY <1>1, transmit_step, Zenon
<1>2. CASE receive
  BY <1>2, QuietStep, Zenon DEF receive
<1>3. CASE uartintr \/ uartgetc \/ uartgetc_none
  BY <1>3, IntrSteps, Zenon
<1>4. CASE \E a \in Starters : acquire(a) \/ Start(a)
  BY <1>4, LockSteps, uartstart_take_step, uartstart_send_step, Zenon DEF Start
<1>5. CASE \E a \in Senders : Sync(a)
  BY <1>5, SyncSteps, uartputc_sync_send_step, Zenon DEF Sync
<1>6. CASE \E p \in Writers, k \in Lengths : write(p, k)
  BY <1>6, WriteSteps, Zenon
<1>7. CASE \E p \in Writers : Writer(p)
  <2>1. PICK p \in Writers : Writer(p)
    BY <1>7, Zenon
  <2>2. p \in Starters
    BY Zenon DEF Starters
  <2> QED BY <2>1, <2>2, WriteSteps, LockSteps, uartputc_store_step, Zenon DEF Writer
<1>8. CASE \E a \in Printers : printf(a) \/ panic(a)
  <2>1. PICK a \in Printers : printf(a) \/ panic(a)
    BY <1>8, Zenon
  <2>2. a \in Senders
    BY Zenon DEF Senders
  <2> QED BY <2>1, <2>2, SyncSteps, Zenon
<1>9. CASE UNCHANGED vars
  BY <1>9, QuietStep, Zenon DEF vars
<1> QED BY <1>1, <1>2, <1>3, <1>4, <1>5, <1>6, <1>7, <1>8, <1>9, Zenon DEF Next

\* The UART, the byte in uartstart() and the ring hold the bytes of write() one
\* after the other, each hart that has seen LSR_TX_IDLE finds room in the FIFO, and
\* uartputc() and uartstart() run under uart_tx_lock, in every reachable state.
THEOREM UartInvariant == Spec => []UInv
  BY InitInv, NextInv, PTL DEF Spec

\* The bytes of write() among those that the UART has to send.
LEMMA BytesIs ==
  ASSUME UInv
  PROVE  /\ Echoes(fifo) => \A i \in 0..Len(fifo) : Bytes(i) = 0
         /\ OneByte(fifo, sent) =>
              /\ Bytes(Len(fifo)) = 1
              /\ \A i \in 1..Len(fifo) : fifo[i] # Echo => fifo[i] = sent /\ Bytes(i) = 1
<1>1. Len(fifo) \in Nat /\ sent # Echo
  BY Sizes DEF UInv, Types, Echo
<1>2. ASSUME Echoes(fifo), NEW i \in 0..Len(fifo) PROVE Bytes(i) = 0
  <2>1. {j \in 1..i : fifo[j] # Echo} = {}
    BY <1>1, <1>2 DEF Echoes
  <2> QED BY <2>1, FS_EmptySet, Zenon DEF Bytes
<1>3. ASSUME OneByte(fifo, sent)
      PROVE  /\ Bytes(Len(fifo)) = 1
             /\ \A i \in 1..Len(fifo) : fifo[i] # Echo => fifo[i] = sent /\ Bytes(i) = 1
  <2>1. PICK k \in 1..Len(fifo) :
          fifo[k] = sent /\ \A j \in 1..Len(fifo) : j # k => fifo[j] = Echo
    BY <1>3, Zenon DEF OneByte
  <2>2. ASSUME NEW i \in 1..Len(fifo), k <= i PROVE Bytes(i) = 1
    <3>1. 1..i \subseteq 1..Len(fifo) /\ k \in 1..i
      BY <1>1, <2>1, <2>2
    <3>2. {j \in 1..i : fifo[j] # Echo} = {k}
      BY <1>1, <2>1, <3>1, Zenon
    <3> QED BY <3>2, FS_Singleton, Zenon DEF Bytes
  <2>3. Len(fifo) \in 1..Len(fifo) /\ k <= Len(fifo) /\ k <= k
    BY <1>1, <2>1
  <2> QED BY <2>1, <2>2, <2>3, Zenon
<1> QED BY <1>2, <1>3, Zenon

\* The order of the bytes of write(), from the invariant.
LEMMA InOrder == UInv => OutputInOrder
<1> SUFFICES ASSUME UInv PROVE OutputInOrder
  OBVIOUS
<1>1. sent \in 0..WRAP - 1 /\ Len(fifo) \in Nat /\ fifo \in Seq(Int)
  BY DEF UInv, Types
<1>2. (sent + 0) % WRAP = sent /\ (sent + 1 - 1) % WRAP = sent /\ sent \in Int
  BY <1>1, Sizes
<1>3. /\ \A i \in 1..Len(fifo) : fifo[i] # Echo => fifo[i] = (sent + Bytes(i) - 1) % WRAP
      /\ \A i \in 1..Len(c) : c[i] = (sent + Bytes(Len(fifo)) + i - 1) % WRAP
      /\ uart_tx_r = (sent + Bytes(Len(fifo)) + Len(c)) % WRAP
  <2>1. CASE Echoes(fifo) /\ c = << >> /\ uart_tx_r = sent
    <3>1. Bytes(Len(fifo)) = 0 /\ Len(c) = 0
      BY <1>1, <2>1, BytesIs
    <3>2. \A i \in 1..Len(fifo) : fifo[i] = Echo
      BY <2>1, Zenon DEF Echoes
    <3>3. uart_tx_r = (sent + 0 + 0) % WRAP /\ \A i \in 1..0 : FALSE
      BY <1>1, <1>2, <2>1
    <3> QED BY <3>1, <3>2, <3>3, Zenon
  <2>2. CASE OneByte(fifo, sent) /\ c = << >> /\ uart_tx_r = Inc(sent)
    <3>1. Bytes(Len(fifo)) = 1
          /\ \A i \in 1..Len(fifo) : fifo[i] # Echo => fifo[i] = sent /\ Bytes(i) = 1
      BY <2>2, BytesIs, Zenon
    <3>2. Len(c) = 0
      BY <2>2
    <3>3. uart_tx_r = (sent + 1 + 0) % WRAP /\ \A i \in 1..0 : FALSE
      BY <1>1, <2>2 DEF Inc
    <3> QED BY <1>2, <3>1, <3>2, <3>3, Zenon
  <2>3. CASE Echoes(fifo) /\ c = <<sent>> /\ uart_tx_r = Inc(sent)
    <3>1. Bytes(Len(fifo)) = 0
      BY <1>1, <2>3, BytesIs
    <3>2. \A i \in 1..Len(fifo) : fifo[i] = Echo
      BY <2>3, Zenon DEF Echoes
    <3>3. Len(c) = 1 /\ c[1] = sent
      BY <2>3
    <3>4. uart_tx_r = (sent + 0 + 1) % WRAP /\ (sent + 0 + 1 - 1) % WRAP = sent
          /\ \A i \in 1..1 : i = 1
      BY <1>1, <1>2, <2>3 DEF Inc
    <3> QED BY <3>1, <3>2, <3>3, <3>4, Zenon
  <2> QED BY <2>1, <2>2, <2>3, Zenon DEF UInv, Wire
<1>4. /\ Queued <= UART_TX_BUF_SIZE
      /\ \A x \in 0..WRAP - 1 :
           (x - uart_tx_r) % WRAP < Queued => uart_tx_buf[x % UART_TX_BUF_SIZE] = x
  BY Zenon DEF UInv, Ring, Dist, Queued
<1> QED BY <1>3, <1>4, Zenon DEF OutputInOrder

\* The bytes that write() gives to uartputc() leave the UART all, once and in order,
\* whatever printf() and the echo write to THR in between, however full the ring
\* is, and also after uart_tx_w and uart_tx_r have wrapped around.
THEOREM UartOutputInOrder == Spec => []OutputInOrder
  BY UartInvariant, InOrder, PTL
=============================================================================
