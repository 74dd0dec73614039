------------------------------ MODULE CpuLoop ------------------------------
(***************************************************************************)
(* The execution loop of src/main.c and the UART receive thread: how the   *)
(* CPU thread halts, sleeps on cpu->cond, is woken, stops, and blocks on   *)
(* the UART's lock, while keys arrive and a disk operation ages.           *)
(*                                                                         *)
(* The guest program is arbitrary: an iteration executes any instruction   *)
(* that touches this state.  The PLIC keeps the configuration of plic_init *)
(* (both sources enabled, priority 1, threshold 0), so the MEIP bit is up  *)
(* exactly while some source is pending and not in service; the module     *)
(* Plic has the controller itself.                                         *)
(***************************************************************************)
EXTENDS Integers

CONSTANTS
  Latency,   \* DISK_LATENCY_CYCLES
  MaxKeys    \* bound: how many characters are typed

ASSUME LoopConstants == Latency \in Nat \ {0} /\ MaxKeys \in Nat

Sources == {"disk", "uart"}   \* VIRTIO_IRQ = 1, UART_IRQ = 10
NoOp == -1                    \* no disk operation in flight
Started == 0                  \* an operation started in this cycle

VARIABLES
  running,    \* cpu[0].running
  halted,     \* cpu[0].halted
  signalled,  \* a signal of cpu->cond has reached the waiting CPU thread
  cpc,        \* where the CPU thread is
  rpc,        \* where the receive thread is
  pending,    \* plic.pending
  claimed,    \* plic.claimed[0]
  rxEnabled,  \* bit 0 of the IER register of the UART
  lock,       \* who holds u->lock of the UART: "free", "rx" or "cpu"
  relocks,    \* whether it can be taken twice (module Uart); glibc: FALSE
  disk,       \* cycles since the operation in flight was started, or NoOp
  keys,       \* characters not typed yet
  haltedBy,   \* history: what set halted last
  lateSteps   \* history: instructions executed while running was false

cpuVars == <<running, halted, signalled, cpc, disk, haltedBy, lateSteps>>
irqVars == <<pending, claimed, rxEnabled>>
rxVars  == <<rpc, keys>>
lockVars == <<lock, relocks>>
vars    == <<cpuVars, irqVars, rxVars, lockVars>>

\* The MEIP bit of csr[MIP] as plic_update leaves it.
Meip == pending \ claimed # {}

-----------------------------------------------------------------------------
(* cpu_try_wakeup: clears halted and signals, if the line is up.           *)

\* Mutant of TryWakeup: halted is cleared but the condition not signalled.
TryWakeup_NoSignal ==
  /\ halted' = (halted /\ ~Meip')
  /\ UNCHANGED signalled

TryWakeup ==
  /\ halted' = (halted /\ ~Meip')
  /\ signalled' = (signalled \/ (cpc = "asleep" /\ halted /\ Meip'))

-----------------------------------------------------------------------------
(* The CPU thread *)

\* cpu_init zeroes the state and sets running; the receive thread has been
\* started before it, by uart_create.
Boot ==
  /\ cpc = "boot" /\ cpc' = "top"
  /\ running' = TRUE /\ halted' = FALSE
  /\ UNCHANGED <<signalled, disk, haltedBy, lateSteps, irqVars, rxVars, lockVars>>

\* Mutant of Top: running is not looked at.
Top_NoCheck ==
  /\ cpc = "top" /\ cpc' = "gate"
  /\ UNCHANGED <<running, halted, signalled, disk, haltedBy, lateSteps, irqVars, rxVars, lockVars>>

\* if (cpu[0].running == false) break;
Top ==
  /\ cpc = "top" /\ cpc' = IF running THEN "gate" ELSE "exited"
  /\ UNCHANGED <<running, halted, signalled, disk, haltedBy, lateSteps, irqVars, rxVars, lockVars>>

\* while (cpu->halted) pthread_cond_wait(..): the lock is released and the
\* wait entered in one step.
Gate ==
  /\ cpc = "gate" /\ cpc' = IF halted THEN "asleep" ELSE "exec"
  /\ signalled' = FALSE
  /\ UNCHANGED <<running, halted, disk, haltedBy, lateSteps, irqVars, rxVars, lockVars>>

\* pthread_cond_wait returns, signalled or spuriously, and the loop looks at
\* halted again; running is not looked at.
Return ==
  /\ cpc = "asleep" /\ cpc' = IF halted THEN "asleep" ELSE "exec"
  /\ signalled' = FALSE
  /\ UNCHANGED <<running, halted, disk, haltedBy, lateSteps, irqVars, rxVars, lockVars>>

\* Mutant of Retire: the cycle is not counted.
Retire_NoCycle(op) ==
  /\ cpc = "exec" /\ cpc' = "devices"
  /\ disk' = op
  /\ lateSteps' = IF running \/ lateSteps = 2 THEN lateSteps ELSE lateSteps + 1
  /\ UNCHANGED <<signalled, rxVars>>

\* What every instruction does in cpu_step: a cycle passes.
Retire(op) ==
  /\ cpc = "exec" /\ cpc' = "devices"
  /\ disk' = IF op = NoOp THEN NoOp ELSE op + 1
  /\ lateSteps' = IF running \/ lateSteps = 2 THEN lateSteps ELSE lateSteps + 1
  /\ UNCHANGED <<signalled, rxVars>>

\* An instruction that touches none of this.
Plain ==
  /\ Retire(disk)
  /\ UNCHANGED <<running, halted, haltedBy, irqVars, lockVars>>

\* exec_wfi: halts under the lock, whatever is pending.
Wfi ==
  /\ Retire(disk)
  /\ halted' = TRUE /\ haltedBy' = "wfi"
  /\ UNCHANGED <<running, irqVars, lockVars>>

\* exec_ebreak, a store to an unmapped address (bus_write) and a value left in
\* x0 (main.c:184): halt without the lock.
HaltUnlocked(why) ==
  /\ Retire(disk)
  /\ halted' = TRUE /\ haltedBy' = why
  /\ UNCHANGED <<running, irqVars, lockVars>>

\* decode_and_execute meets the zero word or an unknown opcode.
Illegal ==
  /\ Retire(disk)
  /\ running' = FALSE
  /\ UNCHANGED <<halted, haltedBy, irqVars, lockVars>>

\* A queue notification starts a disk operation at the current cycle (bound:
\* one at a time), and this instruction is its first.
Notify ==
  /\ disk = NoOp
  /\ Retire(Started)
  /\ UNCHANGED <<running, halted, haltedBy, irqVars, lockVars>>

\* The lock that every access to the UART begins with. While the receive
\* thread has it the CPU thread waits; if it is the CPU thread's own, see Block.
Enter == lock = "free" \/ (lock = "cpu" /\ relocks)

Drive(level) ==
  pending' = IF level THEN pending \cup {"uart"} ELSE pending \ {"uart"}

\* A store to IER: uart_update_irq then drives the PLIC request with the level
\* of the transmit latch, either level here. The value that was there again:
\* also a store to MCR or THR.
WriteIer(enable, level) ==
  /\ Enter
  /\ Retire(disk)
  /\ rxEnabled' = enable
  /\ Drive(level)
  /\ UNCHANGED <<running, halted, haltedBy, claimed, lockVars>>

\* A load of RBR that ends: rx_buf_pop could take the lock again.
ReadRbr(level) ==
  /\ Enter /\ relocks
  /\ Retire(disk)
  /\ Drive(level)
  /\ UNCHANGED <<running, halted, haltedBy, claimed, rxEnabled, lockVars>>

\* The same load with DLAB set: DLL is returned with the lock held.
ReadDll ==
  /\ Enter
  /\ Retire(disk)
  /\ lock' = "cpu"
  /\ UNCHANGED <<running, halted, haltedBy, irqVars, relocks>>

\* An instruction that never ends, as the lock is the CPU thread's already: a
\* load of RBR, or any access after one of DLL.
Block ==
  /\ cpc = "exec" /\ ~relocks /\ lock \in {"free", "cpu"}
  /\ cpc' = "blocked" /\ lock' = "cpu"
  /\ UNCHANGED <<running, halted, signalled, disk, haltedBy, lateSteps, irqVars, rxVars, relocks>>

\* A load from the claim register: the lowest number wins a tie.
Claim ==
  LET best == IF "disk" \in pending \ claimed THEN "disk" ELSE "uart" IN
  /\ Meip
  /\ Retire(disk)
  /\ pending' = pending \ {best} /\ claimed' = claimed \cup {best}
  /\ UNCHANGED <<running, halted, haltedBy, rxEnabled, lockVars>>

\* A store to the complete register.
Complete(source) ==
  /\ Retire(disk)
  /\ pending' = pending \ {source} /\ claimed' = claimed \ {source}
  /\ UNCHANGED <<running, halted, haltedBy, rxEnabled, lockVars>>

\* Mutant of Devices: the operation completes one cycle later.
Devices_Later ==
  /\ cpc = "devices" /\ cpc' = "top"
  /\ UNCHANGED <<running, haltedBy, lateSteps, claimed, rxEnabled, rxVars, lockVars>>
  /\ IF disk > Latency
       THEN /\ disk' = NoOp
            /\ pending' = pending \cup {"disk"}
            /\ TryWakeup
       ELSE UNCHANGED <<disk, pending, halted, signalled>>

\* virtio_disk_update, then check_and_handle_interrupts, which touches none of
\* this: a trap is taken, but halted stays.
Devices ==
  /\ cpc = "devices" /\ cpc' = "top"
  /\ UNCHANGED <<running, haltedBy, lateSteps, claimed, rxEnabled, rxVars, lockVars>>
  /\ IF disk >= Latency
       THEN /\ disk' = NoOp
            /\ pending' = pending \cup {"disk"}
            /\ TryWakeup
       ELSE UNCHANGED <<disk, pending, halted, signalled>>

Execute ==
  \/ Plain
  \/ Wfi
  \/ \E why \in {"ebreak", "badAccess"} : HaltUnlocked(why)
  \/ Illegal
  \/ Notify
  \/ \E enable, level \in BOOLEAN : WriteIer(enable, level)
  \/ \E level \in BOOLEAN : ReadRbr(level)
  \/ ReadDll
  \/ Block
  \/ Claim
  \/ \E source \in Sources : Complete(source)

-----------------------------------------------------------------------------
(* The receive thread *)

\* A byte other than Ctrl-D is read.
Key ==
  /\ rpc = "idle" /\ keys > 0
  /\ rpc' = "push" /\ keys' = keys - 1
  /\ UNCHANGED <<cpuVars, irqVars, lockVars>>

\* Ctrl-D: running is cleared; nothing is signalled.
CtrlD ==
  /\ rpc = "idle" /\ keys > 0
  /\ keys' = keys - 1 /\ running' = FALSE
  /\ UNCHANGED <<rpc, halted, signalled, cpc, disk, haltedBy, lateSteps, irqVars, lockVars>>

\* Mutant of Push: a request is announced only when it is new.
Push_NewOnly ==
  /\ rpc = "push" /\ lock = "free"
  /\ IF rxEnabled /\ "uart" \notin pending
       THEN pending' = pending \cup {"uart"} /\ rpc' = "wake" /\ lock' = "rx"
       ELSE UNCHANGED <<pending, lock>> /\ rpc' = "idle"
  /\ UNCHANGED <<keys, claimed, rxEnabled, relocks, cpuVars>>

\* rx_buf_push waits for the lock, and raises the request if receive
\* interrupts are enabled; the lock is kept meanwhile.
Push ==
  /\ rpc = "push" /\ lock = "free"
  /\ IF rxEnabled THEN pending' = pending \cup {"uart"} /\ rpc' = "wake" /\ lock' = "rx"
                  ELSE UNCHANGED <<pending, lock>> /\ rpc' = "idle"
  /\ UNCHANGED <<keys, claimed, rxEnabled, relocks, cpuVars>>

\* The end of plic_update on that path, and the unlock.
Wake ==
  /\ rpc = "wake" /\ rpc' = "idle" /\ lock' = "free"
  /\ UNCHANGED <<running, cpc, disk, haltedBy, lateSteps, keys, irqVars, relocks>>
  /\ TryWakeup

-----------------------------------------------------------------------------

\* The receive thread runs before cpu_init.
Init ==
  /\ running = FALSE /\ halted = FALSE /\ signalled = FALSE
  /\ cpc = "boot" /\ rpc = "idle"
  /\ pending = {} /\ claimed = {} /\ rxEnabled = FALSE
  /\ lock = "free" /\ relocks \in BOOLEAN
  /\ disk = NoOp /\ keys = MaxKeys
  /\ haltedBy = "nothing" /\ lateSteps = 0

CpuSteps == Boot \/ Top \/ Gate \/ (signalled /\ Return) \/ Execute \/ Devices
RxSteps  == Push \/ Wake

Next == CpuSteps \/ Return \/ RxSteps \/ Key \/ CtrlD

\* Each thread goes on while it can: in "blocked" the CPU thread has no step,
\* and the receive thread has none while the CPU thread keeps the lock. The
\* CPU thread frees a lock it does not keep within one step, so the receive
\* thread's waiting needs no more than weak fairness. Nobody has to type, and
\* a wait that was not signalled need not return.
Spec == Init /\ [][Next]_vars /\ WF_vars(CpuSteps) /\ WF_vars(RxSteps)

-----------------------------------------------------------------------------
(* Properties *)

\* The variables keep their ranges.
TypeOK ==
  /\ running \in BOOLEAN /\ halted \in BOOLEAN /\ signalled \in BOOLEAN
  /\ cpc \in {"boot", "top", "gate", "asleep", "exec", "devices", "blocked", "exited"}
  /\ rpc \in {"idle", "push", "wake"}
  /\ pending \in SUBSET Sources /\ claimed \in SUBSET Sources
  /\ rxEnabled \in BOOLEAN /\ lock \in {"free", "rx", "cpu"} /\ relocks \in BOOLEAN
  /\ disk \in NoOp .. Latency /\ keys \in 0 .. MaxKeys
  /\ haltedBy \in {"nothing", "wfi", "ebreak", "badAccess"}
  /\ lateSteps \in 0 .. 2

\* No lost wakeup: whenever the CPU thread sleeps and no signal is on its way,
\* halted is set (cpu_try_wakeup and the wait of main.c:174 under one lock).
NoLostWakeup == cpc = "asleep" /\ ~signalled => halted

\* After running is cleared, by whichever thread and wherever the CPU thread
\* is, it executes at most one more instruction (main.c:170).
StopsPromptly == lateSteps <= 1

\* uart.c:315, decode.c:206: once running is cleared the loop ends, unless the
\* CPU thread sleeps, where it does not look at running, or blocks on u->lock,
\* which it has taken already (uart.c:342, 345): the stop is never missed
\* while the CPU thread goes round.
StopsUnlessWaiting ==
  (~running /\ cpc # "boot") ~> (cpc \in {"exited", "asleep", "blocked"})

\* A key typed while the CPU thread sleeps makes it execute again, if receive
\* interrupts are enabled, the UART is not in service already, and no load of
\* DLL has kept the lock that rx_buf_push needs (uart.c:342, 172).
KeyWakesSleeper ==
  (cpc = "asleep" /\ rpc = "push" /\ rxEnabled /\ "uart" \notin claimed /\ lock # "cpu")
    ~> (cpc = "exec")

\* An operation in flight completes, or the CPU thread sleeps, has stopped or
\* blocks for ever on u->lock: nothing else delays it (virtio_blk.c:265).
DiskCompletesUnlessWaiting ==
  (disk # NoOp) ~> (disk = NoOp \/ cpc \in {"asleep", "blocked", "exited"})

\* decode.c:68 "wfi wait for interrupt": a CPU that waits by WFI goes on when
\* an interrupt is pending or its disk operation is to raise one.
WfiEnds ==
  (cpc = "asleep" /\ haltedBy = "wfi" /\ (Meip \/ disk # NoOp)) ~> (cpc = "exec")
=============================================================================
