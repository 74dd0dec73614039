-------------------------------- MODULE Uart --------------------------------
(***************************************************************************)
(* The 16550-like device of src/uart.c: its receive ring, filled by the    *)
(* receive thread; its registers, accessed by the CPU thread; the lock     *)
(* u->lock between them; and its request line, as the two state bits that  *)
(* the PLIC keeps for source 10.                                           *)
(*                                                                         *)
(* The transmit ring is left out: no code reaches tx_buf_push, so the      *)
(* transmit thread waits for ever.  THRE is cleared and set within one     *)
(* critical section, and the registers that only store a value (DLL, DLM,  *)
(* SCR, CTRL, MSR, IIR, irq_status) decide nothing, so they are left out.  *)
(***************************************************************************)
EXTENDS Integers, Sequences

CONSTANTS
  Chars,           \* the characters that may be typed
  Zero,            \* the zero byte that calloc leaves in the ring
  Size,            \* UART_RX_BUF_SIZE
  CountMod,        \* rx_count is a uint32_t: arithmetic modulo this
  MaxKeys,         \* bound: how many characters are typed
  Misuse           \* what the guest does that a driver should not: "emptyRead",
                   \* "txReset", "dllRead"

ASSUME UartConstants ==
  /\ Size \in Nat \ {0}
  /\ CountMod \in Nat /\ CountMod > Size
  /\ MaxKeys \in Nat

Slots == 0 .. Size - 1

VARIABLES
  buf, head, tail, count,  \* rx_buf, rx_head, rx_tail, rx_count
  dr,         \* LSR_DR
  oe,         \* LSR_OE
  ier,        \* the enabled causes among "rx" and "tx"
  dlab,       \* bit 7 of lcr
  latch,      \* irq_pending
  relocks,    \* whether u->lock can be taken twice: POSIX leaves it to the build
              \* (a default mutex), and with glibc the second lock blocks for ever
  lock,       \* who holds u->lock
  cpc,        \* the CPU thread: "run", in "update" (uart_update_irq), "blocked"
  rpc,        \* the receive thread: "idle", "push", "raise"
  key,        \* the character it has read
  keys,       \* characters not typed yet
  request,    \* the PLIC's pending bit of the UART
  inService   \* the PLIC's claimed bit of the UART

ring == <<buf, head, tail, count>>
regs == <<ier, dlab, latch, relocks>>
plic == <<request, inService>>
vars == <<ring, dr, oe, regs, lock, cpc, rpc, key, keys, plic>>

-----------------------------------------------------------------------------
(* The receive thread *)

Key(c) ==
  /\ rpc = "idle" /\ keys > 0
  /\ rpc' = "push" /\ key' = c /\ keys' = keys - 1
  /\ UNCHANGED <<ring, dr, oe, regs, lock, cpc, plic>>

\* Mutant of Push: the head does not wrap around.
Push_NoWrap ==
  /\ rpc = "push" /\ lock = "free"
  /\ rpc' = "raise" /\ lock' = "rx"
  /\ oe' = (oe \/ count >= Size)
  /\ buf' = [buf EXCEPT ![head] = key]
  /\ head' = head + 1
  /\ IF count >= Size
       THEN tail' = (tail + 1) % Size /\ UNCHANGED count
       ELSE UNCHANGED tail /\ count' = (count + 1) % CountMod
  /\ dr' = TRUE
  /\ UNCHANGED <<regs, cpc, key, keys, plic>>

\* Mutant of Push: an overrun does not move the tail.
Push_NoDrop ==
  /\ rpc = "push" /\ lock = "free"
  /\ rpc' = "raise" /\ lock' = "rx"
  /\ oe' = (oe \/ count >= Size)
  /\ buf' = [buf EXCEPT ![head] = key]
  /\ head' = (head + 1) % Size
  /\ count' = IF count >= Size THEN count ELSE count + 1
  /\ dr' = TRUE
  /\ UNCHANGED <<tail, regs, cpc, key, keys, plic>>

\* Mutant of Push: one character too many is let in.
Push_LateDrop ==
  /\ rpc = "push" /\ lock = "free"
  /\ rpc' = "raise" /\ lock' = "rx"
  /\ oe' = (oe \/ count > Size)
  /\ buf' = [buf EXCEPT ![head] = key]
  /\ head' = (head + 1) % Size
  /\ IF count > Size
       THEN tail' = (tail + 1) % Size /\ UNCHANGED count
       ELSE UNCHANGED tail /\ count' = (count + 1) % CountMod
  /\ dr' = TRUE
  /\ UNCHANGED <<regs, cpc, key, keys, plic>>

\* Mutant of Push: the lock is given back before the interrupt.
Push_EarlyUnlock ==
  /\ rpc = "push" /\ lock = "free"
  /\ rpc' = "raise"
  /\ oe' = (oe \/ count >= Size)
  /\ buf' = [buf EXCEPT ![head] = key]
  /\ head' = (head + 1) % Size
  /\ IF count >= Size
       THEN tail' = (tail + 1) % Size /\ UNCHANGED count
       ELSE UNCHANGED tail /\ count' = (count + 1) % CountMod
  /\ dr' = TRUE
  /\ UNCHANGED <<lock, regs, cpc, key, keys, plic>>

\* rx_buf_push under the lock, up to the interrupt.
Push ==
  /\ rpc = "push" /\ lock = "free"
  /\ rpc' = "raise" /\ lock' = "rx"
  /\ oe' = (oe \/ count >= Size)
  /\ buf' = [buf EXCEPT ![head] = key]
  /\ head' = (head + 1) % Size
  /\ IF count >= Size
       THEN tail' = (tail + 1) % Size /\ UNCHANGED count
       ELSE UNCHANGED tail /\ count' = (count + 1) % CountMod
  /\ dr' = TRUE
  /\ UNCHANGED <<regs, cpc, key, keys, plic>>

\* Mutant of Raise: the lock is kept when receive interrupts are off.
Raise_NoUnlock ==
  /\ rpc = "raise"
  /\ rpc' = "idle" /\ lock' = IF "rx" \in ier THEN "free" ELSE "rx"
  /\ request' = (request \/ "rx" \in ier)
  /\ UNCHANGED <<ring, dr, oe, regs, cpc, key, keys, inService>>

\* The rest of rx_buf_push; the CPU thread may claim or complete before it.
Raise ==
  /\ rpc = "raise"
  /\ rpc' = "idle" /\ lock' = "free"
  /\ request' = (request \/ "rx" \in ier)
  /\ UNCHANGED <<ring, dr, oe, regs, cpc, key, keys, inService>>

-----------------------------------------------------------------------------
(* The CPU thread: register accesses *)

\* The lock that uart_mmio_read and uart_mmio_write start with.
Enter == cpc = "run" /\ (lock = "free" \/ (lock = "cpu" /\ relocks))

\* Any access while the CPU thread itself holds the lock.
Block ==
  /\ cpc = "run" /\ lock = "cpu" /\ ~relocks
  /\ cpc' = "blocked"
  /\ UNCHANGED <<ring, dr, oe, regs, lock, rpc, key, keys, plic>>

\* Mutant of Pop: DR is cleared with one character left.
Pop_LastUntold ==
  /\ tail' = (tail + 1) % Size
  /\ count' = (count - 1) % CountMod
  /\ dr' = (count' > 1) /\ oe' = FALSE
  /\ request' = (latch /\ count' # 0)
  /\ UNCHANGED <<buf, head>>

\* rx_buf_pop, whose uart_update_lsr rewrites LSR and whose uart_update_irq
\* drives the request with the latch, and the test for an empty ring after it.
\* An empty ring is popped like any other.
Pop ==
  /\ tail' = (tail + 1) % Size
  /\ count' = (count - 1) % CountMod
  /\ dr' = (count' > 0) /\ oe' = FALSE
  /\ request' = (latch /\ count' # 0)
  /\ UNCHANGED <<buf, head>>

\* A load of RBR: uart_mmio_read holds the lock that rx_buf_pop takes.
ReadRbr ==
  /\ Enter /\ ~dlab
  /\ count > 0 \/ "emptyRead" \in Misuse
  /\ IF relocks
       THEN Pop /\ UNCHANGED <<lock, cpc>>
       ELSE /\ lock' = "cpu" /\ cpc' = "blocked"
            /\ UNCHANGED <<ring, dr, oe, request>>
  /\ UNCHANGED <<regs, rpc, key, keys, inService>>

\* The same load with DLAB set returns DLL without unlocking.
ReadDll ==
  /\ Enter /\ dlab /\ "dllRead" \in Misuse
  /\ lock' = "cpu"
  /\ UNCHANGED <<ring, dr, oe, regs, cpc, rpc, key, keys, plic>>

\* A store to THR is transmitted at once; uart_tx_complete raises the request.
WriteThr ==
  /\ Enter /\ ~dlab
  /\ latch' = (latch \/ "tx" \in ier)
  /\ request' = (request \/ "tx" \in ier)
  /\ UNCHANGED <<ring, dr, oe, ier, dlab, relocks, lock, cpc, rpc, key, keys, inService>>

\* A store to IER (DLM with DLAB); uart_update_irq follows after the unlock.
WriteIer(causes) ==
  /\ Enter
  /\ ier' = IF dlab THEN ier ELSE causes
  /\ cpc' = "update"
  /\ UNCHANGED <<ring, dr, oe, dlab, latch, relocks, lock, rpc, key, keys, plic>>

\* A store to MCR, likewise.
WriteMcr ==
  /\ Enter
  /\ cpc' = "update"
  /\ UNCHANGED <<ring, dr, oe, regs, lock, rpc, key, keys, plic>>

\* uart_update_irq: without the lock, from the transmit latch alone.
UpdateIrq ==
  /\ cpc = "update" /\ cpc' = "run"
  /\ request' = latch
  /\ UNCHANGED <<ring, dr, oe, regs, lock, rpc, key, keys, inService>>

\* A store to FCR with bits 1 and 2: a reset of the receive side goes first; a
\* reset of the transmit side alone sets rx_tail.  LSR and the request stay.
WriteFcr(resetRx, resetTx) ==
  /\ Enter
  /\ resetTx /\ ~resetRx => "txReset" \in Misuse
  /\ head'  = IF resetRx THEN 0 ELSE head
  /\ tail'  = IF resetRx \/ resetTx THEN 0 ELSE tail
  /\ count' = IF resetRx THEN 0 ELSE count
  /\ UNCHANGED <<buf, dr, oe, regs, lock, cpc, rpc, key, keys, plic>>

WriteLcr(bit) ==
  /\ Enter
  /\ dlab' = bit
  /\ UNCHANGED <<ring, dr, oe, ier, latch, relocks, lock, cpc, rpc, key, keys, plic>>

\* The claim and complete registers of the PLIC, for source 10; no UART lock.
Claim ==
  /\ cpc = "run" /\ request /\ ~inService
  /\ request' = FALSE /\ inService' = TRUE
  /\ UNCHANGED <<ring, dr, oe, regs, lock, cpc, rpc, key, keys>>

Complete ==
  /\ cpc = "run"
  /\ request' = FALSE /\ inService' = FALSE
  /\ UNCHANGED <<ring, dr, oe, regs, lock, cpc, rpc, key, keys>>

-----------------------------------------------------------------------------

Init ==
  /\ buf = [s \in Slots |-> Zero] /\ head = 0 /\ tail = 0 /\ count = 0
  /\ dr = FALSE /\ oe = FALSE
  /\ ier = {} /\ dlab = FALSE /\ latch = FALSE
  /\ relocks \in BOOLEAN
  /\ lock = "free" /\ cpc = "run" /\ rpc = "idle"
  /\ key = Zero /\ keys = MaxKeys
  /\ request = FALSE /\ inService = FALSE

Access ==
  \/ Block \/ ReadRbr \/ ReadDll \/ WriteThr \/ WriteMcr
  \/ \E causes \in SUBSET {"rx", "tx"} : WriteIer(causes)
  \/ \E resetRx, resetTx \in BOOLEAN : WriteFcr(resetRx, resetTx)
  \/ \E bit \in BOOLEAN : WriteLcr(bit)
  \/ Claim \/ Complete

RxSteps == Push \/ Raise

Next == (\E c \in Chars : Key(c)) \/ RxSteps \/ Access \/ UpdateIrq

\* Both threads keep running.  The CPU thread takes and gives back the lock in
\* one step unless it keeps it, so a free lock stays free for the receive
\* thread and weak fairness is enough.
Spec == Init /\ [][Next]_vars /\ WF_vars(RxSteps) /\ WF_vars(UpdateIrq)

-----------------------------------------------------------------------------
(* Properties *)

\* The variables keep their ranges.
TypeOK ==
  /\ buf \in [Slots -> Chars \cup {Zero}]
  /\ head \in Slots /\ tail \in Slots /\ count \in 0 .. CountMod - 1
  /\ dr \in BOOLEAN /\ oe \in BOOLEAN
  /\ ier \in SUBSET {"rx", "tx"} /\ dlab \in BOOLEAN /\ latch \in BOOLEAN
  /\ relocks \in BOOLEAN
  /\ lock \in {"free", "rx", "cpu"}
  /\ cpc \in {"run", "update", "blocked"} /\ rpc \in {"idle", "push", "raise"}
  /\ key \in Chars \cup {Zero} /\ keys \in 0 .. MaxKeys
  /\ request \in BOOLEAN /\ inService \in BOOLEAN

\* The three counters of the ring agree, for a guest that neither reads an
\* empty ring nor resets the transmit side alone.
RingCoherent == count <= Size /\ head = (tail + count) % Size

\* The ring, oldest character first.
Contents == [n \in 1 .. count |-> buf[(tail + n - 1) % Size]]

\* For the same guest the ring is the promised queue, overruns and resets
\* included.
Queue == INSTANCE RxQueue WITH queue <- Contents, Capacity <- Size
KeepsQueue == Queue!Spec

\* uart.c:218: a driver that polls LSR, as the guest's does, misses no character.
DataReadyTells == count > 0 => dr

\* What a driver is told with nothing in the ring: DR, or a request behind
\* which there is no transmission either.
Deceives == count = 0 /\ (dr \/ (request /\ ~latch))

\* uart.c:506: only a reset of the receive side makes a driver that answers DR
\* or a request find nothing: the reset leaves both. Neither a read of the last
\* character nor a reset between a push and its request does.
OnlyResetDeceives ==
  [][Deceives' => Deceives \/ \E resetTx \in BOOLEAN : WriteFcr(TRUE, resetTx)]_vars

\* A character that was read gets into the ring, however the guest uses the
\* registers, unless the CPU thread keeps the lock.
KeysGetIn == (rpc = "push") ~> (rpc = "idle" \/ lock = "cpu")
=============================================================================
