-------------------------------- MODULE Disk --------------------------------
(***************************************************************************)
(* The virtio disk driver (kernel/virtio_disk.c) with the device it talks  *)
(* to.  virtio_disk_rw() publishes a request as a chain of three           *)
(* descriptors in the avail ring and sleeps; the device, which runs all    *)
(* the time and takes no lock, carries requests out in any order, puts     *)
(* them into the used ring and interrupts; virtio_disk_intr() wakes up.    *)
(*                                                                         *)
(* The caller of virtio_disk_rw() holds the sleep-lock of its buffer, so a *)
(* buffer stands for the process that uses it.  Code between acquire() and *)
(* release() of vdisk_lock is cut only where the device could see the      *)
(* difference.  The direction of a transfer makes none.                    *)
(***************************************************************************)
EXTENDS Integers, FiniteSets, FiniteSetsExt

CONSTANTS Bufs,       \* struct bufs, each locked by a process
          NUM,        \* descriptors, and entries of either ring
          WRAP,       \* 2^16: where the uint16 ring indices wrap around
          Nil         \* null pointer, no descriptor, no holder

ASSUME DiskConstants ==
  NUM \in Nat \ {0} /\ WRAP \in Nat \ {0} /\ WRAP % NUM = 0 /\ Nil \notin Bufs

ASSUME DiskSentinels == Nil \notin Int /\ Nil # "intr" /\ "intr" \notin Bufs

Descs == 0..(NUM - 1)
Idx == 0..(WRAP - 1)

VARIABLES
  \* Shared with the device
  addr, next,           \* desc[i].addr of a data descriptor; desc[i].next
  avail, avail_idx,     \* avail->ring, avail->idx
  used, used_idx,       \* used->ring, used->idx
  status,               \* info[i].status is 0
  irq,                  \* the interrupt status bit
  \* The driver
  free,                 \* descriptors with disk.free[i]
  info,                 \* info[i].b
  seen,                 \* disk.used_idx
  bdisk,                \* b->disk
  lock,                 \* holder of vdisk_lock: a process, "intr" or Nil
  pc, idx0,             \* where virtio_disk_rw(b) is, and its idx[0]
  \* The device
  fetched,              \* how far it has read the avail ring
  working,              \* requests it is carrying out
  done                  \* history: buffers transferred during the current call

descVars == <<addr, next, status, info, free>>
availVars == <<avail, avail_idx>>
usedVars == <<used, used_idx, irq>>
deviceVars == <<fetched, working, done>>
vars == <<descVars, availVars, usedVars, seen, bdisk, lock, pc, idx0, deviceVars>>

\* virtio_disk_init()
Init ==
  /\ addr = [i \in Descs |-> Nil] /\ next = [i \in Descs |-> Nil]
  /\ avail = [k \in Descs |-> 0] /\ avail_idx = 0
  /\ used = [k \in Descs |-> 0] /\ used_idx = 0
  /\ status = [i \in Descs |-> TRUE]
  /\ irq = FALSE
  /\ free = Descs /\ info = [i \in Descs |-> Nil] /\ seen = 0
  /\ bdisk = [b \in Bufs |-> FALSE]
  /\ lock = Nil
  /\ pc = [b \in Bufs |-> "idle"] /\ idx0 = [b \in Bufs |-> Nil]
  /\ fetched = 0 /\ working = {} /\ done = {}

Inc(k) == (k + 1) % WRAP

\* The chain that starts with descriptor i.
Chain(i) == LET j == next[i]
            IN  {i, j, IF j = Nil THEN Nil ELSE next[j]} \ {Nil}

\* wakeup(): the buffers of S whose process sleeps at label a go to label to.
Woken(f, S, a, to) == [b \in Bufs |-> IF b \in S /\ f[b] = a THEN to ELSE f[b]]

-----------------------------------------------------------------------------
(* virtio_disk_rw()                                                        *)

rw(b) ==
  /\ pc[b] = "idle"
  /\ pc' = [pc EXCEPT ![b] = "enter"]
  /\ UNCHANGED <<descVars, availVars, usedVars, seen, bdisk, lock, idx0, deviceVars>>

\* The request of b is written into descriptors i, j and k, and b is recorded in
\* info[i].
Format(b, i, j, k) ==
  /\ free' = free \ {i, j, k}
  /\ next' = [next EXCEPT ![i] = j, ![j] = k, ![k] = Nil]
  /\ addr' = [addr EXCEPT ![j] = b]
  /\ status' = [status EXCEPT ![i] = FALSE]
  /\ info' = [info EXCEPT ![i] = b]
  /\ idx0' = [idx0 EXCEPT ![b] = i]
  /\ bdisk' = [bdisk EXCEPT ![b] = TRUE]
  /\ lock' = b
  /\ pc' = [pc EXCEPT ![b] = "ring"]
  /\ UNCHANGED <<availVars, usedVars, seen, deviceVars>>

\* alloc3_desc() takes the three lowest free descriptors.
alloc3_desc(b) ==
  /\ pc[b] = "enter" /\ lock = Nil /\ Cardinality(free) >= 3
  /\ LET i == Min(free) j == Min(free \ {i}) IN Format(b, i, j, Min(free \ {i, j}))

\* alloc3_desc() fails: what it took it gives back with free_desc(), which wakes
\* up the others that wait for descriptors.
alloc3_desc_fail(b) ==
  /\ pc[b] = "enter" /\ lock = Nil
  /\ Cardinality(free) < 3
  /\ pc' = [Woken(pc, IF free = {} THEN {} ELSE Bufs, "nodesc", "enter")
              EXCEPT ![b] = "nodesc"]
  /\ UNCHANGED <<descVars, availVars, usedVars, seen, bdisk, lock, idx0, deviceVars>>

PutAvail(b, k) ==
  /\ pc[b] = "ring"
  /\ avail' = [avail EXCEPT ![k % NUM] = idx0[b]]
  /\ pc' = [pc EXCEPT ![b] = "publish"]
  /\ UNCHANGED <<descVars, avail_idx, usedVars, seen, bdisk, lock, idx0, deviceVars>>

\* Mutant: off by one.
put_avail_next(b) == PutAvail(b, avail_idx + 1)

\* avail->ring[avail->idx % NUM] = idx[0]
put_avail(b) == PutAvail(b, avail_idx)

\* avail->idx += 1, then sleep(b, &disk.vdisk_lock): virtio_disk_intr() cannot
\* have cleared b->disk before the lock is released.
publish(b) ==
  /\ pc[b] = "publish"
  /\ avail_idx' = Inc(avail_idx)
  /\ lock' = Nil
  /\ pc' = [pc EXCEPT ![b] = "asleep"]
  /\ UNCHANGED <<descVars, avail, usedVars, seen, bdisk, idx0, deviceVars>>

\* Woken up, and b->disk is still 1.
sleep_again(b) ==
  /\ pc[b] = "awake" /\ lock = Nil /\ bdisk[b]
  /\ pc' = [pc EXCEPT ![b] = "asleep"]
  /\ UNCHANGED <<descVars, availVars, usedVars, seen, bdisk, lock, idx0, deviceVars>>

\* virtio_disk_rw(b) frees the descriptors S, wakes up those of W who wait for
\* descriptors, and returns.
Finish(b, S, W) ==
  /\ pc[b] = "awake" /\ lock = Nil
  /\ info' = [info EXCEPT ![idx0[b]] = Nil]
  /\ free' = free \cup S
  /\ addr' = [d \in Descs |-> IF d \in S THEN Nil ELSE addr[d]]
  /\ next' = [d \in Descs |-> IF d \in S THEN Nil ELSE next[d]]
  /\ idx0' = [idx0 EXCEPT ![b] = Nil]
  /\ pc' = [Woken(pc, W, "nodesc", "enter") EXCEPT ![b] = "idle"]
  /\ done' = done \ {b}
  /\ UNCHANGED <<status, availVars, usedVars, seen, bdisk, lock, fetched, working>>

\* Mutants: only the first descriptor is freed; free_desc() does not wake up; the
\* loop around sleep() is an if.
free_chain_head(b) == ~bdisk[b] /\ Finish(b, {idx0[b]}, Bufs)
free_chain_silent(b) == ~bdisk[b] /\ Finish(b, Chain(idx0[b]), {})
free_chain_if(b) == Finish(b, Chain(idx0[b]), Bufs)

\* info[idx[0]].b = 0; free_chain(idx[0]); free_desc() calls wakeup().
free_chain(b) == ~bdisk[b] /\ Finish(b, Chain(idx0[b]), Bufs)

\* kill() makes a sleeping process runnable; both loops test again.
kill(b) ==
  /\ pc[b] \in {"asleep", "nodesc"}
  /\ pc' = [pc EXCEPT ![b] = IF @ = "asleep" THEN "awake" ELSE "enter"]
  /\ UNCHANGED <<descVars, availVars, usedVars, seen, bdisk, lock, idx0, deviceVars>>

-----------------------------------------------------------------------------
(* The device.  A ring entry that has been read is set to 0, to keep the   *)
(* number of states down.                                                  *)

fetch ==
  /\ fetched # avail_idx
  /\ working' = working \cup {avail[fetched % NUM]}
  /\ avail' = [avail EXCEPT ![fetched % NUM] = 0]
  /\ fetched' = Inc(fetched)
  /\ UNCHANGED <<descVars, avail_idx, usedVars, seen, bdisk, lock, pc, idx0, done>>

\* It transfers the buffer, writes the status and the used ring's entry, and
\* sets the interrupt status bit.
complete(i) ==
  /\ i \in working
  /\ working' = working \ {i}
  /\ done' = done \cup {addr[next[i]]}
  /\ status' = [status EXCEPT ![i] = TRUE]
  /\ used' = [used EXCEPT ![used_idx % NUM] = i]
  /\ used_idx' = Inc(used_idx)
  /\ irq' = TRUE
  /\ UNCHANGED <<addr, next, info, free, availVars, seen, bdisk, lock, pc, idx0, fetched>>

-----------------------------------------------------------------------------
(* virtio_disk_intr()                                                      *)

\* It acknowledges the interrupt before it looks at the used ring.
intr ==
  /\ irq /\ lock = Nil
  /\ irq' = FALSE
  /\ lock' = "intr"
  /\ UNCHANGED <<descVars, availVars, used, used_idx, seen, bdisk, pc, idx0, deviceVars>>

intr_one ==
  LET i == used[seen % NUM]
      b == info[i]
  IN  /\ lock = "intr" /\ seen # used_idx
      /\ status[i] /\ b # Nil             \* else panic, or a null pointer
      /\ bdisk' = [bdisk EXCEPT ![b] = FALSE]
      /\ pc' = Woken(pc, {b}, "asleep", "awake")
      /\ used' = [used EXCEPT ![seen % NUM] = 0]
      /\ seen' = Inc(seen)
      /\ UNCHANGED <<descVars, availVars, used_idx, irq, lock, idx0, deviceVars>>

intr_return ==
  /\ lock = "intr" /\ seen = used_idx
  /\ lock' = Nil
  /\ UNCHANGED <<descVars, availVars, usedVars, seen, bdisk, pc, idx0, deviceVars>>

-----------------------------------------------------------------------------
Running(b) ==
  \/ alloc3_desc(b) \/ alloc3_desc_fail(b) \/ put_avail(b) \/ publish(b)
  \/ sleep_again(b) \/ free_chain(b)
Device == fetch \/ \E i \in Descs : complete(i)
Interrupt == intr \/ intr_one \/ intr_return

Next ==
  \/ \E b \in Bufs : rw(b) \/ Running(b) \/ kill(b)
  \/ Device
  \/ Interrupt

Spec == Init /\ [][Next]_vars

\* Spin locks are granted fairly, and the device serves every request.
Fairness ==
  /\ \A b \in Bufs : SF_vars(Running(b))
  /\ WF_vars(fetch) /\ \A i \in Descs : WF_vars(complete(i))
  /\ SF_vars(intr) /\ WF_vars(intr_one \/ intr_return)

FairSpec == Spec /\ Fairness

-----------------------------------------------------------------------------
(* Properties                                                              *)

\* Every variable has its type.
TypeOK ==
  /\ addr \in [Descs -> Bufs \cup {Nil}] /\ next \in [Descs -> Descs \cup {Nil}]
  /\ avail \in [Descs -> Descs] /\ avail_idx \in Idx
  /\ used \in [Descs -> Descs] /\ used_idx \in Idx
  /\ status \in [Descs -> BOOLEAN] /\ irq \in BOOLEAN
  /\ free \subseteq Descs /\ info \in [Descs -> Bufs \cup {Nil}] /\ seen \in Idx
  /\ bdisk \in [Bufs -> BOOLEAN]
  /\ lock \in Bufs \cup {"intr", Nil}
  /\ pc \in [Bufs -> {"idle", "enter", "nodesc", "ring", "publish", "asleep", "awake"}]
  /\ idx0 \in [Bufs -> Descs \cup {Nil}]
  /\ fetched \in Idx /\ working \subseteq Descs /\ done \subseteq Bufs

Busy == {b \in Bufs : idx0[b] # Nil}

\* The variables have their types, and descriptors are neither lost nor shared:
\* each one is free or in the chain of exactly one request, and chains have three.
DescriptorsOwned ==
  /\ TypeOK
  /\ \A b \in Busy : Cardinality(Chain(idx0[b])) = 3
  /\ \A d \in Descs : Cardinality({b \in Busy : d \in Chain(idx0[b])})
                        = IF d \in free THEN 0 ELSE 1

\* Entries of a ring between two indices.
Entries(ring, from, to) ==
  {ring[(from + k) % NUM] : k \in 0..(((to - from) % WRAP) - 1)}

\* "this may race with the device writing new entries to the used ring [...]
\* which is harmless": a completion that virtio_disk_intr() has not seen will be
\* seen, and it meets neither a failed status nor a null buffer there.
CompletionsSeen ==
  /\ seen # used_idx => irq \/ lock = "intr"
  /\ \A i \in Entries(used, seen, used_idx) : status[i] /\ info[i] # Nil

\* The device works only on requests whose process waits for them: a buffer is
\* not given back, nor a descriptor used again, under its hands; and the driver
\* sees each of its completions, however completions, interrupts and new requests
\* overlap.
DeviceSafe ==
  /\ \A i \in working \cup Entries(avail, fetched, avail_idx) :
       \E b \in Busy : /\ idx0[b] = i /\ addr[next[i]] = b
                       /\ bdisk[b] /\ pc[b] \in {"asleep", "awake"}
  /\ CompletionsSeen

\* virtio_disk_rw() returns only after the device has transferred the buffer.
TransferredFirst ==
  [][\A b \in Bufs : pc[b] = "awake" /\ pc'[b] = "idle" => b \in done]_vars

\* A request that has its descriptors ends, and so does every wait for descriptors
\* in which nobody else gets them first.
RequestEnds ==
  \A b \in Bufs :
    /\ pc[b] = "ring" ~> pc[b] = "idle"
    /\ pc[b] = "nodesc" ~> pc[b] = "ring" \/ \E c \in Bufs \ {b} : pc[c] = "ring"
=============================================================================
