-------------------------------- MODULE Plic --------------------------------
(***************************************************************************)
(* The platform-level interrupt controller of src/plic.c together with the *)
(* two things it drives on a hart: the MEIP bit of csr[MIP] and the wakeup *)
(* of a halted hart (cpu_try_wakeup in src/cpu.c).                         *)
(*                                                                         *)
(* Every operation is one step.  Bitmaps are sets of interrupt numbers and *)
(* irq_pending[h], which the code always writes together with              *)
(* current_irq[h], is left out.  Only hart 0 executes instructions         *)
(* (src/main.c starts one), so it is the only issuer of MMIO accesses.     *)
(***************************************************************************)
EXTENDS Integers

CONSTANTS
  MaxIrqs,     \* MAX_IRQS: the valid sources are 1 .. MaxIrqs - 1
  MaxCores,    \* MAX_CORES
  WordBits,    \* interrupt sources per enable word (32)
  PrioLevels,  \* a written priority or threshold is kept modulo this (8)
  UartIrq,     \* UART_IRQ
  VirtioIrq    \* VIRTIO_IRQ

Harts == 0 .. MaxCores - 1
Irqs  == 1 .. MaxIrqs - 1
Prios == 0 .. PrioLevels - 1
Words == 0 .. (MaxIrqs \div WordBits) - 1   \* word_index < MAX_IRQS / 32

\* UART_IRQ is not a valid hart number, which is what keeps the affinity
\* calls of plic_init for it without effect; VIRTIO_IRQ is the only critical
\* interrupt that is.
ASSUME PlicConstants ==
  /\ MaxIrqs \in Nat \ {0}
  /\ MaxCores \in Nat \ {0}
  /\ WordBits \in Nat \ {0}
  /\ PrioLevels \in Nat \ {0, 1}
  /\ UartIrq \in Irqs /\ UartIrq >= MaxCores
  /\ VirtioIrq \in Irqs

VARIABLES
  priority,    \* plic.priority
  enable,      \* plic.enable, the set of enabled sources of each hart
  threshold,   \* plic.threshold
  pending,     \* plic.pending, shared by the harts
  claimed,     \* plic.claimed
  currentIrq,  \* plic.current_irq, 0 when nothing is presented
  meip,        \* the MEIP bit of cpu[h].csr[CSR_MIP]
  halted,      \* cpu[h].halted
  unseen       \* history: what changed since the last plic_update(0)

vars == <<priority, enable, threshold, pending, claimed, currentIrq, meip,
          halted, unseen>>

-----------------------------------------------------------------------------
(* The scan loop of plic_update and plic_claim: sources in increasing      *)
(* order, a running maximum that starts at the threshold and that only a   *)
(* strictly greater priority replaces.                                     *)

Scan(candidates, prio, thr) ==
  LET best[i \in 0 .. MaxIrqs - 1] ==
        IF i = 0 THEN [max |-> thr, irq |-> 0]
        ELSE IF i \in candidates /\ prio[i] > best[i - 1].max
             THEN [max |-> prio[i], irq |-> i]
             ELSE best[i - 1]
  IN  best[MaxIrqs - 1].irq

\* The sources the loop of plic_update does not skip.
Eligible(h) == {i \in Irqs : i \in enable[h] /\ i \in pending /\ i \notin claimed[h]}

UpdateWinner(h) == Scan(Eligible(h), priority, threshold[h])

\* Mutant of ClaimWinner: the loop starts at 0 instead of the threshold.
ClaimWinner_NoThreshold(h) ==
  Scan({i \in pending : i \notin claimed[h] /\ i \in enable[h]}, priority, 0)

ClaimWinner(h)  == Scan({i \in pending : i \notin claimed[h] /\ i \in enable[h]},
                        priority, threshold[h])

\* cpu_try_wakeup: clears halted when MEIP is set, as it is at its only call.
TryWakeup(h) == halted' = [halted EXCEPT ![h] = @ /\ ~meip'[h]]

\* plic_update, run at the end of an operation: scans the new registers.
PlicUpdate(h) ==
  /\ currentIrq' = [currentIrq EXCEPT ![h] = UpdateWinner(h)']
  /\ meip' = [meip EXCEPT ![h] = UpdateWinner(h)' # 0]
  /\ TryWakeup(h)
  /\ unseen' = IF h = 0 THEN {} ELSE unseen

NoUpdate == UNCHANGED <<currentIrq, meip, halted, unseen>>

-----------------------------------------------------------------------------

\* plic_set_irq.  Called by the UART receive thread, by the UART registers
\* and by a disk completion, so hart 0 may be halted.
SetIrq(irq, level) ==
  /\ pending' = IF level THEN pending \cup {irq} ELSE pending \ {irq}
  /\ UNCHANGED <<priority, enable, threshold, claimed>>
  /\ IF irq \in enable[0] THEN PlicUpdate(0) ELSE NoUpdate

\* Mutant of Claim: the pending bit of the claimed source is not cleared.
Claim_KeepsPending ==
  LET irq == ClaimWinner(0) IN
  /\ ~halted[0]
  /\ UNCHANGED <<priority, enable, threshold, pending>>
  /\ IF irq # 0
       THEN claimed' = [claimed EXCEPT ![0] = @ \cup {irq}] /\ PlicUpdate(0)
       ELSE UNCHANGED claimed /\ NoUpdate

\* plic_read of the claim register; every context page reads hart 0.
Claim ==
  LET irq == ClaimWinner(0) IN
  /\ ~halted[0]
  /\ UNCHANGED <<priority, enable, threshold>>
  /\ IF irq # 0
       THEN /\ claimed' = [claimed EXCEPT ![0] = @ \cup {irq}]
            /\ pending' = pending \ {irq}
            /\ PlicUpdate(0)
       ELSE UNCHANGED <<claimed, pending>> /\ NoUpdate

\* plic_write of the complete register.
Complete(irq) ==
  /\ ~halted[0]
  /\ claimed' = [claimed EXCEPT ![0] = @ \ {irq}]
  /\ pending' = pending \ {irq}
  /\ UNCHANGED <<priority, enable, threshold>>
  /\ PlicUpdate(0)

\* Mutant of WritePriority: the value is stored without its mask.
WritePriority_NoMask(irq, value) ==
  /\ ~halted[0]
  /\ priority' = [priority EXCEPT ![irq] = value]
  /\ unseen' = unseen \cup {"priority"}
  /\ UNCHANGED <<enable, threshold, pending, claimed, currentIrq, meip, halted>>

\* plic_write of a priority register: no plic_update follows.
WritePriority(irq, value) ==
  /\ ~halted[0]
  /\ priority' = [priority EXCEPT ![irq] = value % PrioLevels]
  /\ unseen' = unseen \cup {"priority"}
  /\ UNCHANGED <<enable, threshold, pending, claimed, currentIrq, meip, halted>>

\* plic_write of an enable word; the words of hart h are those the driver
\* finds at 0x2000 + 0x80 * h.
WriteEnable(h, word, bits) ==
  /\ ~halted[0]
  /\ enable' = [enable EXCEPT ![h] = {i \in @ : i \div WordBits # word} \cup bits]
  /\ UNCHANGED <<priority, threshold, pending, claimed>>
  /\ PlicUpdate(h)

\* Mutant of WriteThreshold: like a priority write, no plic_update follows.
WriteThreshold_NoUpdate(value) ==
  /\ ~halted[0]
  /\ threshold' = [threshold EXCEPT ![0] = value % PrioLevels]
  /\ UNCHANGED <<priority, enable, pending, claimed>> /\ NoUpdate

\* plic_write of a threshold register; every context page writes hart 0.
WriteThreshold(value) ==
  /\ ~halted[0]
  /\ threshold' = [threshold EXCEPT ![0] = value % PrioLevels]
  /\ UNCHANGED <<priority, enable, pending, claimed>>
  /\ PlicUpdate(0)

-----------------------------------------------------------------------------
(* What hart 0 does to the shared state outside the controller.            *)

\* exec_wfi and exec_ebreak.
Halt ==
  /\ ~halted[0]
  /\ halted' = [halted EXCEPT ![0] = TRUE]
  /\ UNCHANGED <<priority, enable, threshold, pending, claimed, currentIrq,
                 meip, unseen>>

\* exec_csr on MIP: every bit is writable, MEIP included.
CsrWriteMip(bit) ==
  /\ ~halted[0]
  /\ meip' = [meip EXCEPT ![0] = bit]
  /\ unseen' = unseen \cup {"mip"}
  /\ UNCHANGED <<priority, enable, threshold, pending, claimed, currentIrq, halted>>

-----------------------------------------------------------------------------
\* plic_set_irq_affinity hands (irq, cpu_id) to plic_set_enable(cpu_id, irq),
\* so the interrupt number selects the hart and the harts are the sources.
Affinity(en, irq, target) ==
  [h \in Harts |-> IF h = irq THEN (en[h] \ Harts) \cup ({target} \cap Irqs)
                              ELSE en[h]]

\* plic_init; setup_generic_irq_affinity finds no target and does nothing.
Init ==
  /\ priority = [i \in Irqs |-> 1]
  /\ enable = Affinity([h \in Harts |-> {UartIrq, VirtioIrq}], VirtioIrq, 0)
  /\ threshold = [h \in Harts |-> 0]
  /\ pending = {}
  /\ claimed = [h \in Harts |-> {}]
  /\ currentIrq = [h \in Harts |-> 0]
  /\ meip = [h \in Harts |-> FALSE]
  /\ halted = [h \in Harts |-> FALSE]
  /\ unseen = {}

WordIrqs(word) == {i \in Irqs : i \div WordBits = word}

Next ==
  \/ \E irq \in Irqs, level \in BOOLEAN : SetIrq(irq, level)
  \/ Claim
  \/ \E irq \in Irqs : Complete(irq)
  \/ \E irq \in Irqs, value \in 0 .. PrioLevels : WritePriority(irq, value)
  \/ \E h \in Harts, word \in Words : \E bits \in SUBSET WordIrqs(word) :
        WriteEnable(h, word, bits)
  \/ \E value \in 0 .. PrioLevels : WriteThreshold(value)
  \/ Halt
  \/ \E bit \in BOOLEAN : CsrWriteMip(bit)

Spec == Init /\ [][Next]_vars

-----------------------------------------------------------------------------
(* Properties *)

\* The registers keep their ranges.
TypeOK ==
  /\ priority \in [Irqs -> Prios]
  /\ enable \in [Harts -> SUBSET Irqs]
  /\ threshold \in [Harts -> Prios]
  /\ pending \in SUBSET Irqs
  /\ claimed \in [Harts -> SUBSET Irqs]
  /\ currentIrq \in [Harts -> 0 .. MaxIrqs - 1]
  /\ meip \in [Harts -> BOOLEAN]
  /\ halted \in [Harts -> BOOLEAN]
  /\ unseen \in SUBSET {"priority", "mip"}

\* plic_update is called on enough of the paths that change a register: what
\* hart 0 is shown (current_irq, MEIP) is what a scan of the registers would
\* find now, unless a priority register or the MIP csr was written since.
LineShowsWinner ==
  /\ "priority" \notin unseen => currentIrq[0] = UpdateWinner(0)
  /\ "mip" \notin unseen => (meip[0] <=> currentIrq[0] # 0)

\* The two scans, written separately in plic_update and plic_claim, agree: a
\* claim takes exactly the source that current_irq presents (none when it is
\* 0), unless priorities changed since, and then takes one hart 0 may have.
ClaimTakesPresented ==
  [][Claim => LET new == claimed'[0] \ claimed[0] IN
       /\ new \subseteq Eligible(0)
       /\ "priority" \notin unseen => new = {currentIrq[0]} \ {0}]_vars

\* The controller keeps the promise of IrqDelivery to hart 0.
Delivery == INSTANCE IrqDelivery WITH
  Sources <- Irqs, None <- 0,
  raised <- pending, serving <- claimed[0], offered <- currentIrq[0]
DeliversAsPromised == Delivery!Spec
=============================================================================
