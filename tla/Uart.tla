-------------------------------- MODULE Uart --------------------------------
(***************************************************************************)
(* Console output: uart.c, consolewrite() and consputc() of console.c.     *)
(*                                                                         *)
(* Writers put bytes into the transmit ring under uart_tx_lock, and sleep  *)
(* while it is full; the interrupt handler sends on.  The echo of          *)
(* consoleintr() and kernel printf() go to the UART with uartputc_sync(),  *)
(* which takes no lock.  Every access to a register is an action.  The     *)
(* PLIC gives the interrupt to one hart at a time.  After a panic() on one *)
(* hart, the others stop where they next test panicked.                    *)
(***************************************************************************)
EXTENDS Integers, Sequences, FiniteSets

CONSTANTS Writers,        \* processes in consolewrite()
          Printers,       \* harts in printf()
          Intr,           \* the interrupt handler
          None,           \* nobody holds uart_tx_lock
          UART_TX_BUF_SIZE,
          WRAP,           \* bound on the indices, 2^64 in the code
          Lengths,        \* lengths of writes
          KeyEchoes       \* numbers of characters that consoleintr() sends for a key

NCPU == 8                         \* harts at most

\* The ring divides the range of the indices; printf() runs on at most NCPU harts.
ASSUME UartConstants ==
  /\ UART_TX_BUF_SIZE \in Nat \ {0} /\ WRAP \in Nat
  /\ WRAP % UART_TX_BUF_SIZE = 0 /\ WRAP > UART_TX_BUF_SIZE + 1
  /\ IsFiniteSet(Printers) /\ Cardinality(Printers) <= NCPU
  /\ KeyEchoes \subseteq Nat
  /\ None \notin Writers \cup Printers \cup {Intr}

Senders == Printers \cup {Intr}   \* may call uartputc_sync()
Starters == Writers \cup {Intr}   \* may call uartstart()
Actors == Senders \cup Starters

VARIABLES
  uart_tx_buf, uart_tx_r, uart_tx_w, uart_tx_lock,
  fifo,           \* bytes that the UART has to send
  rx,             \* has the UART received a byte?
  irq,            \* has the UART raised its interrupt?
  sent,           \* the number of the next written byte on the wire
  pc,
  n,              \* bytes that a writer has still to write
  c,              \* the byte in uartstart(), if any
  todo,           \* characters that a sender has still to send
  panicked

tx == <<uart_tx_buf, uart_tx_r, uart_tx_w>>
vars == <<tx, uart_tx_lock, fifo, rx, irq, sent, pc, n, c, todo, panicked>>

Init ==
  /\ uart_tx_buf = [i \in 0..UART_TX_BUF_SIZE - 1 |-> 0]
  /\ uart_tx_r = 0 /\ uart_tx_w = 0 /\ uart_tx_lock = None
  /\ fifo = << >> /\ rx = FALSE /\ irq = FALSE /\ sent = 0
  /\ pc = [a \in Actors |-> "out"]
  /\ n = [p \in Writers |-> 0]
  /\ c = << >>
  /\ todo = [a \in Senders |-> 0]
  /\ panicked = FALSE

Goto(a, l) == pc' = [pc EXCEPT ![a] = l]

\* wakeup(&uart_tx_r), on the program counters f.
Woken(f) == [a \in Actors |-> IF f[a] = "asleep" THEN "woken" ELSE f[a]]

-----------------------------------------------------------------------------
(* The UART, as uart.c uses it                                             *)

\* A character of uartputc_sync(); the bytes of write() are numbered.
Echo == -1

\* LSR_TX_IDLE
Idle == fifo = << >>

\* Mutant: uartinit() leaves the FIFOs off.
THRDepth_off == 1

\* uartinit() enables the FIFOs: they hold more bytes than there are harts that
\* can have seen LSR_TX_IDLE at the same time.
THRDepth == 16

\* WriteReg(THR, b): a byte that finds no room is lost.
WriteTHR(b) == fifo' = IF Len(fifo) < THRDepth THEN Append(fifo, b) ELSE fifo

\* A byte leaves; the UART interrupts when it has nothing more to send.
transmit ==
  /\ fifo # << >>
  /\ fifo' = Tail(fifo)
  /\ irq' = (irq \/ Len(fifo) = 1)
  /\ sent' = IF Head(fifo) = Echo THEN sent ELSE (sent + 1) % WRAP
  /\ UNCHANGED <<tx, uart_tx_lock, rx, pc, n, c, todo, panicked>>

\* A key is typed; the UART interrupts.
receive ==
  /\ ~rx
  /\ rx' = TRUE /\ irq' = TRUE
  /\ UNCHANGED <<tx, uart_tx_lock, fifo, pc, n, c, todo, sent, panicked>>

-----------------------------------------------------------------------------
(* consolewrite() and uartputc()                                           *)

write(p, k) ==
  /\ pc[p] = "out"
  /\ n' = [n EXCEPT ![p] = k]
  /\ Goto(p, "copyin")
  /\ UNCHANGED <<tx, uart_tx_lock, fifo, rx, irq, c, todo, sent, panicked>>

\* either_copyin() of a byte.
consolewrite_byte(p) ==
  /\ pc[p] = "copyin" /\ n[p] > 0
  /\ n' = [n EXCEPT ![p] = @ - 1]
  /\ Goto(p, "acquire")
  /\ UNCHANGED <<tx, uart_tx_lock, fifo, rx, irq, c, todo, sent, panicked>>

\* All bytes are written, or either_copyin() fails.
consolewrite_return(p) ==
  /\ pc[p] = "copyin"
  /\ n' = [n EXCEPT ![p] = 0]
  /\ Goto(p, "out")
  /\ UNCHANGED <<tx, uart_tx_lock, fifo, rx, irq, c, todo, sent, panicked>>

\* acquire(&uart_tx_lock): by uartputc(), which then tests panicked, by sleep() as it
\* returns, by uartintr().
acquire(a) ==
  /\ pc[a] \in {"acquire", "woken"} /\ uart_tx_lock = None
  /\ uart_tx_lock' = a
  /\ Goto(a, IF a = Intr THEN "start"
             ELSE IF panicked /\ pc[a] = "acquire" THEN "frozen" ELSE "putc")
  /\ UNCHANGED <<tx, fifo, rx, irq, n, c, todo, sent, panicked>>

Full == uart_tx_w = (uart_tx_r + UART_TX_BUF_SIZE) % WRAP

uartputc_sleep(p) ==
  /\ pc[p] = "putc" /\ Full
  /\ uart_tx_lock' = None
  /\ Goto(p, "asleep")
  /\ UNCHANGED <<tx, fifo, rx, irq, n, c, todo, sent, panicked>>

\* A byte that is written is known by its number.
uartputc_store(p) ==
  /\ pc[p] = "putc" /\ ~Full
  /\ uart_tx_buf' = [uart_tx_buf EXCEPT ![uart_tx_w % UART_TX_BUF_SIZE] = uart_tx_w]
  /\ uart_tx_w' = (uart_tx_w + 1) % WRAP
  /\ Goto(p, "start")
  /\ UNCHANGED <<uart_tx_r, uart_tx_lock, fifo, rx, irq, n, c, todo, sent, panicked>>

-----------------------------------------------------------------------------
(* uartstart(), by the holder a of uart_tx_lock                            *)

\* The UART is idle: the next byte, and room for a writer.
uartstart_take(a) ==
  /\ pc[a] = "start" /\ uart_tx_w # uart_tx_r /\ Idle
  /\ c' = <<uart_tx_buf[uart_tx_r % UART_TX_BUF_SIZE]>>
  /\ uart_tx_r' = (uart_tx_r + 1) % WRAP
  /\ pc' = [Woken(pc) EXCEPT ![a] = "thr"]
  /\ UNCHANGED <<uart_tx_buf, uart_tx_w, uart_tx_lock, fifo, rx, irq, n, todo, sent, panicked>>

uartstart_send(a) ==
  /\ pc[a] = "thr"
  /\ WriteTHR(Head(c))
  /\ c' = << >>
  /\ Goto(a, "start")
  /\ UNCHANGED <<tx, uart_tx_lock, rx, irq, n, todo, sent, panicked>>

\* Nothing to send, or the UART is busy.  A writer goes on with its next byte; the
\* handler has finished.
uartstart_return(a) ==
  /\ pc[a] = "start" /\ (uart_tx_w = uart_tx_r \/ ~Idle)
  /\ uart_tx_lock' = None
  /\ Goto(a, IF a = Intr THEN "out" ELSE "copyin")
  /\ UNCHANGED <<tx, fifo, rx, irq, n, c, todo, sent, panicked>>

-----------------------------------------------------------------------------
(* uartputc_sync()                                                         *)

\* A character of printf().
printf(a) ==
  /\ a \in Printers /\ pc[a] = "out"
  /\ todo' = [todo EXCEPT ![a] = 1]
  /\ Goto(a, "next")
  /\ UNCHANGED <<tx, uart_tx_lock, fifo, rx, irq, n, c, sent, panicked>>

\* panic(), after its message: nothing more from this hart.
panic(a) ==
  /\ a \in Printers /\ pc[a] = "out"
  /\ panicked' = TRUE
  /\ Goto(a, "frozen")
  /\ UNCHANGED <<tx, uart_tx_lock, fifo, rx, irq, n, c, todo, sent>>

\* uartputc_sync() is called, and tests panicked.
uartputc_sync(a) ==
  /\ pc[a] = "next" /\ todo[a] > 0
  /\ Goto(a, IF panicked THEN "frozen" ELSE "wait")
  /\ UNCHANGED <<tx, uart_tx_lock, fifo, rx, irq, n, c, todo, sent, panicked>>

\* LSR_TX_IDLE is set.
uartputc_sync_idle(a) ==
  /\ pc[a] = "wait" /\ Idle
  /\ Goto(a, "sync")
  /\ UNCHANGED <<tx, uart_tx_lock, fifo, rx, irq, n, c, todo, sent, panicked>>

uartputc_sync_send(a) ==
  /\ pc[a] = "sync"
  /\ WriteTHR(Echo)
  /\ todo' = [todo EXCEPT ![a] = @ - 1]
  /\ Goto(a, "next")
  /\ UNCHANGED <<tx, uart_tx_lock, rx, irq, n, c, sent, panicked>>

\* Back from printf(), or from consoleintr() to the loop of uartintr().
uartputc_sync_return(a) ==
  /\ pc[a] = "next" /\ todo[a] = 0
  /\ Goto(a, IF a = Intr THEN "getc" ELSE "out")
  /\ UNCHANGED <<tx, uart_tx_lock, fifo, rx, irq, n, c, todo, sent, panicked>>

-----------------------------------------------------------------------------
(* uartintr()                                                              *)

\* The interrupt is claimed at the PLIC.
uartintr ==
  /\ pc[Intr] = "out" /\ irq
  /\ irq' = FALSE
  /\ Goto(Intr, "getc")
  /\ UNCHANGED <<tx, uart_tx_lock, fifo, rx, n, c, todo, sent, panicked>>

\* A key: consoleintr() sends nothing or one character, three for each key that it
\* erases, or for ^P the list of processes.
uartgetc ==
  /\ pc[Intr] = "getc" /\ rx
  /\ rx' = FALSE
  /\ \E k \in KeyEchoes : todo' = [todo EXCEPT ![Intr] = k]
  /\ Goto(Intr, "next")
  /\ UNCHANGED <<tx, uart_tx_lock, fifo, irq, n, c, sent, panicked>>

\* Mutant: the handler returns after the last key.
uartgetc_none_out ==
  /\ pc[Intr] = "getc" /\ ~rx
  /\ Goto(Intr, "out")
  /\ UNCHANGED <<tx, uart_tx_lock, fifo, rx, irq, n, c, todo, sent, panicked>>

\* No more keys: on to uartstart().
uartgetc_none ==
  /\ pc[Intr] = "getc" /\ ~rx
  /\ Goto(Intr, "acquire")
  /\ UNCHANGED <<tx, uart_tx_lock, fifo, rx, irq, n, c, todo, sent, panicked>>

-----------------------------------------------------------------------------
Writer(p) ==
  \/ consolewrite_byte(p) \/ consolewrite_return(p)
  \/ uartputc_sleep(p) \/ uartputc_store(p)

Start(a) == uartstart_take(a) \/ uartstart_send(a) \/ uartstart_return(a)

Sync(a) ==
  \/ uartputc_sync(a) \/ uartputc_sync_idle(a) \/ uartputc_sync_send(a)
  \/ uartputc_sync_return(a)

Next ==
  \/ transmit \/ receive
  \/ uartintr \/ uartgetc \/ uartgetc_none
  \/ \E a \in Starters : acquire(a) \/ Start(a)
  \/ \E a \in Senders : Sync(a)
  \/ \E p \in Writers, k \in Lengths : write(p, k)
  \/ \E p \in Writers : Writer(p)
  \/ \E a \in Printers : printf(a) \/ panic(a)

Spec == Init /\ [][Next]_vars

\* The UART sends what it has, its interrupt is taken, harts run on, spin locks
\* are granted fairly, and a hart that waits for LSR_TX_IDLE sees it at last.
Fairness ==
  /\ WF_vars(transmit) /\ WF_vars(uartintr) /\ WF_vars(uartgetc) /\ WF_vars(uartgetc_none)
  /\ \A a \in Starters : SF_vars(acquire(a)) /\ WF_vars(Start(a))
  /\ \A a \in Senders : WF_vars(Sync(a)) /\ SF_vars(uartputc_sync_idle(a))
  /\ \A p \in Writers : WF_vars(Writer(p))

FairSpec == Spec /\ Fairness

-----------------------------------------------------------------------------
(* Properties                                                              *)

\* How many of the first i bytes that the UART has to send are bytes of write().
Bytes(i) == Cardinality({j \in 1..i : fifo[j] # Echo})

\* The number of bytes in the ring.
Queued == (uart_tx_w - uart_tx_r) % WRAP

\* The bytes that uartputc() has accepted and that are not yet on the wire are all
\* there and in order, first those in the UART, then the one in uartstart(), then
\* those in the ring: none is lost, doubled, overwritten or overtaken, although
\* uartputc_sync() takes no lock and may write to THR between uartstart()'s test of
\* LSR_TX_IDLE and its own write.
OutputInOrder ==
  /\ \A i \in 1..Len(fifo) : fifo[i] # Echo => fifo[i] = (sent + Bytes(i) - 1) % WRAP
  /\ \A i \in 1..Len(c) : c[i] = (sent + Bytes(Len(fifo)) + i - 1) % WRAP
  /\ uart_tx_r = (sent + Bytes(Len(fifo)) + Len(c)) % WRAP
  /\ Queued <= UART_TX_BUF_SIZE
  /\ \A x \in 0..WRAP - 1 :
       (x - uart_tx_r) % WRAP < Queued => uart_tx_buf[x % UART_TX_BUF_SIZE] = x

\* A process in write() gets out of it, once there is an end to the typing and
\* printing of others and if no hart has panicked.
WriteEnds ==
  <>[](~rx /\ ~panicked /\ \A a \in Printers : pc[a] = "out")
    => \A p \in Writers : pc[p] = "copyin" ~> pc[p] = "out"
=============================================================================
