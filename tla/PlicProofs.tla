----------------------------- MODULE PlicProofs -----------------------------
(***************************************************************************)
(* Theorems about Plic for every number of sources, harts and priority     *)
(* levels.  First the scan loop: it computes the best candidate.  Then the *)
(* invariants of the controller, by one inductive invariant.               *)
(***************************************************************************)
EXTENDS Plic, LoopLemmas

\* Even after a priority write that no update followed, the presented source
\* is one that hart 0 enabled, that is pending, and that is not in service.
PresentedEligible == currentIrq[0] # 0 => currentIrq[0] \in Eligible(0)

\* What the scan is to find: the candidate above the threshold of greatest
\* priority, the lowest numbered one among equals; 0 when there is none.
IsBest(irq, candidates, prio, thr) ==
  /\ irq # 0 => /\ irq \in candidates
                /\ prio[irq] > thr
                /\ \A j \in candidates : prio[j] < prio[irq] \/ (prio[j] = prio[irq] /\ irq <= j)
  /\ irq = 0 => \A j \in candidates : prio[j] <= thr

\* The loop of plic_update and plic_claim (Scan) finds the best candidate.
THEOREM ScanFindsBest ==
  ASSUME NEW candidates \in SUBSET Irqs, NEW prio \in [Irqs -> Nat], NEW thr \in Nat
  PROVE  LET irq == Scan(candidates, prio, thr) IN
         irq \in 0 .. MaxIrqs - 1 /\ IsBest(irq, candidates, prio, thr)
<1> USE PlicConstants
<1> DEFINE N == MaxIrqs - 1
           S == [max : Nat, irq : 0 .. N]
           z == [max |-> thr, irq |-> 0]
           Round(s, i) == IF i \in candidates /\ prio[i] > s.max
                          THEN [max |-> prio[i], irq |-> i] ELSE s
           step == [x \in S \X (1 .. N) |-> Round(x[1], x[2])]
           Loop(f) == f = [i \in 0 .. N |-> IF i = 0 THEN z ELSE Round(f[i - 1], i)]
           best == CHOOSE f : Loop(f)
<1>1. N \in Nat /\ z \in S /\ Irqs = 1 .. N
  BY DEF Irqs
<1>2. ASSUME NEW s \in S, NEW i \in 1 .. N PROVE Round(s, i) \in S /\ step[<<s, i>>] = Round(s, i)
  BY <1>1, <1>2
<1>3. step \in [S \X (1 .. N) -> S]
  BY <1>2
<1>4. \E f \in [0 .. N -> S] : Loop(f)
  <2> HIDE DEF N, S, z, step, Round
  <2>1. PICK f : IsLoop(f, N, S, z, step)
    BY <1>1, <1>3, LoopDefined
  <2>2. ASSUME NEW i \in 1 .. N PROVE f[i] = Round(f[i - 1], i)
    <3>1. f[i] = step[<<f[i - 1], i>>] /\ f[i - 1] \in S
      BY <1>1, <2>1 DEF IsLoop
    <3> QED BY <1>2, <3>1
  <2>3. Loop(f)
    BY <1>1, <2>1, <2>2 DEF IsLoop
  <2> QED BY <2>1, <2>3 DEF IsLoop
<1> DEFINE Upto(i) == {j \in candidates : j <= i}
           Good == {i \in 0 .. N : /\ best[i] \in S
                                   /\ best[i].irq <= i
                                   /\ best[i].max = IF best[i].irq = 0 THEN thr ELSE prio[best[i].irq]
                                   /\ IsBest(best[i].irq, Upto(i), prio, thr)}
<1>5. Loop(best)
  BY <1>4
<1>6. best[0] = z /\ \A i \in 1 .. N : best[i] = Round(best[i - 1], i)
  <2> HIDE DEF best, Round, z, N
  <2>1. 0 \in 0 .. N /\ \A i \in 1 .. N : i \in 0 .. N /\ i # 0
    BY <1>1
  <2> QED BY <1>5, <2>1
<1> HIDE DEF best
<1>7. 0 \in Good
  BY <1>1, <1>6 DEF IsBest
<1>8. ASSUME NEW i \in 1 .. N, i - 1 \in Good PROVE i \in Good
  <2>1. CASE i \in candidates /\ prio[i] > best[i - 1].max
    <3>1. best[i] = [max |-> prio[i], irq |-> i]
      BY <1>6, <2>1
    <3>2. ASSUME NEW j \in Upto(i)
          PROVE  prio[j] < prio[i] \/ (prio[j] = prio[i] /\ i <= j)
      <4>1. CASE j = i
        BY <4>1
      <4>2. CASE j # i
        <5>1. j \in Upto(i - 1)
          BY <1>1, <4>2
        <5>2. /\ IsBest(best[i - 1].irq, Upto(i - 1), prio, thr)
              /\ best[i - 1].max = IF best[i - 1].irq = 0 THEN thr ELSE prio[best[i - 1].irq]
              /\ best[i - 1].irq \in 0 .. N
          BY <1>8
        <5>3. prio[j] \in Nat /\ prio[i] \in Nat /\ (best[i - 1].irq # 0 => prio[best[i - 1].irq] \in Nat)
          BY <1>1, <5>2
        <5>4. prio[j] <= best[i - 1].max
          BY <5>1, <5>2, <5>3 DEF IsBest
        <5>5. prio[i] > best[i - 1].max /\ best[i - 1].max \in Nat
          BY <2>1, <5>2, <5>3
        <5> HIDE DEF Good, Upto
        <5> QED BY <5>3, <5>4, <5>5
      <4> QED BY <4>1, <4>2
    <3>3. i \in Upto(i) /\ prio[i] > thr
      <4>1. /\ IsBest(best[i - 1].irq, Upto(i - 1), prio, thr)
            /\ best[i - 1].max = IF best[i - 1].irq = 0 THEN thr ELSE prio[best[i - 1].irq]
            /\ best[i - 1].irq \in 0 .. N
        BY <1>8
      <4>2. best[i - 1].max >= thr
        BY <1>1, <4>1 DEF IsBest
      <4> QED BY <1>1, <2>1, <4>1, <4>2
    <3>4. best[i] \in S /\ best[i].irq = i /\ best[i].max = prio[i]
      BY <1>1, <2>1, <3>1
    <3>5. IsBest(i, Upto(i), prio, thr)
      <4> HIDE DEF Upto
      <4> QED BY <1>1, <3>2, <3>3 DEF IsBest
    <3>6. i \in 0 .. N /\ i # 0 /\ i <= i
      BY <1>1
    <3> HIDE DEF S, Upto, N, z, step
    <3> QED BY <3>4, <3>5, <3>6
  <2>2. CASE ~(i \in candidates /\ prio[i] > best[i - 1].max)
    <3>1. best[i] = best[i - 1]
      BY <1>6, <2>2
    <3>2. /\ best[i - 1] \in S /\ best[i - 1].irq <= i - 1
          /\ best[i - 1].max = IF best[i - 1].irq = 0 THEN thr ELSE prio[best[i - 1].irq]
          /\ IsBest(best[i - 1].irq, Upto(i - 1), prio, thr)
      BY <1>8
    <3>3. Upto(i) = Upto(i - 1) \cup ({i} \cap candidates)
      <4>1. \A j \in candidates : j \in Nat
        BY <1>1
      <4>2. i \in Nat /\ \A j \in Nat : j <= i <=> j <= i - 1 \/ j = i
        BY <1>1
      <4> QED BY <4>1, <4>2
    <3>4. i \in candidates => prio[i] <= best[i - 1].max
      BY <1>1, <2>2, <3>2
    <3>5. best[i - 1].irq \in 0 .. N /\ (best[i - 1].irq # 0 => prio[best[i - 1].irq] \in Nat)
      BY <1>1, <3>2
    <3>6. best[i - 1].irq <= i
      BY <1>1, <3>2, <3>5
    <3>7. IsBest(best[i - 1].irq, Upto(i), prio, thr)
      <4>1. CASE best[i - 1].irq = 0
        <5> HIDE DEF Upto
        <5> QED BY <3>2, <3>3, <3>4, <4>1 DEF IsBest
      <4>2. CASE best[i - 1].irq # 0
        <5>1. i \in candidates => prio[i] < prio[best[i - 1].irq]
                                 \/ (prio[i] = prio[best[i - 1].irq] /\ best[i - 1].irq <= i)
          BY <1>1, <3>2, <3>4, <3>5, <3>6, <4>2
        <5> HIDE DEF Upto
        <5> QED BY <3>2, <3>3, <4>2, <5>1 DEF IsBest
      <4> QED BY <4>1, <4>2
    <3> HIDE DEF S, Upto, N
    <3> QED BY <3>1, <3>2, <3>6, <3>7
  <2> QED BY <2>1, <2>2
<1>9. N \in Good
  <2> HIDE DEF Good, N
  <2>1. \A i \in 1 .. N : i - 1 \in Good => i \in Good
    BY <1>8
  <2>2. 0 .. N \subseteq Good
    BY <1>1, <1>7, <2>1, CounterInduction
  <2> QED BY <1>1, <2>2
<1>10. Upto(N) = candidates
  <2>1. \A j \in candidates : j <= N
    BY <1>1
  <2> HIDE DEF N
  <2> QED BY <2>1
<1>11. Scan(candidates, prio, thr) = best[N].irq
  BY DEF Scan, best
<1> QED BY <1>9, <1>10, <1>11

-----------------------------------------------------------------------------
(* Invariants *)

\* The part of TypeOK about the registers.
RegsOK ==
  /\ priority \in [Irqs -> Prios]
  /\ enable \in [Harts -> SUBSET Irqs]
  /\ threshold \in [Harts -> Prios]
  /\ pending \in SUBSET Irqs
  /\ claimed \in [Harts -> SUBSET Irqs]

\* Whatever well-typed registers plic_update finds, it computes a source that
\* is 0 or eligible.
LEMMA UpdateWinnerEligible ==
  ASSUME NEW h \in Harts, RegsOK'
  PROVE  UpdateWinner(h)' \in 0 .. MaxIrqs - 1 /\ (UpdateWinner(h)' # 0 => UpdateWinner(h)' \in Eligible(h)')
<1>1. Eligible(h)' \in SUBSET Irqs
  BY DEF Eligible
<1>2. priority' \in [Irqs -> Nat] /\ threshold'[h] \in Nat
  BY PlicConstants DEF RegsOK, Prios
<1>3. UpdateWinner(h)' = Scan(Eligible(h)', priority', threshold'[h])
  BY DEF UpdateWinner
<1> QED BY <1>1, <1>2, <1>3, ScanFindsBest DEF IsBest

\* What plic_update leaves of the derived state.
LEMMA PlicUpdateEffect ==
  ASSUME TypeOK, NEW h \in Harts, RegsOK', PlicUpdate(h)
  PROVE  /\ TypeOK'
         /\ h = 0 => LineShowsWinner' /\ PresentedEligible'
<1>1. currentIrq' \in [Harts -> 0 .. MaxIrqs - 1] /\ currentIrq'[h] = UpdateWinner(h)'
  BY UpdateWinnerEligible DEF TypeOK, PlicUpdate
<1>2. meip' \in [Harts -> BOOLEAN] /\ meip'[h] = (UpdateWinner(h)' # 0)
  BY DEF TypeOK, PlicUpdate
<1>3. halted' \in [Harts -> BOOLEAN]
  BY DEF TypeOK, PlicUpdate, TryWakeup
<1>4. unseen' \in SUBSET {"priority", "mip"} /\ (h = 0 => unseen' = {})
  BY DEF TypeOK, PlicUpdate
<1>5. TypeOK'
  BY <1>1, <1>2, <1>3, <1>4 DEF TypeOK, RegsOK
<1>6. ASSUME h = 0 PROVE LineShowsWinner' /\ PresentedEligible'
  BY <1>1, <1>2, <1>4, <1>6, UpdateWinnerEligible DEF LineShowsWinner, PresentedEligible
<1> QED BY <1>5, <1>6

IInv == TypeOK /\ LineShowsWinner /\ PresentedEligible

LEMMA HartZero == 0 \in Harts
  BY PlicConstants DEF Harts

LEMMA PlicInit == Init => IInv
<1> SUFFICES ASSUME Init PROVE IInv
  OBVIOUS
<1> USE PlicConstants, HartZero DEF Init
<1>1. enable \in [Harts -> SUBSET Irqs]
  BY DEF Affinity
<1>2. TypeOK
  <2>1. 0 \in Prios /\ 1 \in Prios /\ 0 \in 0 .. MaxIrqs - 1
    BY DEF Prios
  <2> QED BY <1>1, <2>1 DEF TypeOK
<1>3. UpdateWinner(0) = 0
  <2>1. Eligible(0) = {}
    BY DEF Eligible
  <2>2. priority \in [Irqs -> Nat] /\ threshold[0] \in Nat
    BY DEF Irqs
  <2> QED BY <2>1, <2>2, ScanFindsBest DEF UpdateWinner, IsBest
<1> QED BY <1>2, <1>3 DEF IInv, LineShowsWinner, PresentedEligible

\* When neither the eligible sources of hart 0 nor what it is shown change,
\* what it is shown stays right.
LEMMA Undisturbed ==
  ASSUME IInv, TypeOK', Eligible(0)' = Eligible(0), currentIrq'[0] = currentIrq[0],
         \/ priority' = priority /\ threshold'[0] = threshold[0] /\ unseen' = unseen
         \/ unseen' = unseen \cup {"priority"},
         meip'[0] = meip[0]
  PROVE  LineShowsWinner' /\ PresentedEligible'
<1>1. "priority" \notin unseen' => UpdateWinner(0)' = UpdateWinner(0)
  BY DEF UpdateWinner
<1> QED BY <1>1 DEF IInv, LineShowsWinner, PresentedEligible

LEMMA PlicStep == IInv /\ [Next]_vars => IInv'
<1> SUFFICES ASSUME IInv, [Next]_vars PROVE IInv'
  OBVIOUS
<1> USE HartZero
<1>0. TypeOK /\ RegsOK
  BY DEF IInv, TypeOK, RegsOK
<1>1. ASSUME NEW irq \in Irqs, NEW level \in BOOLEAN, SetIrq(irq, level) PROVE IInv'
  <2>1. RegsOK'
    BY <1>0, <1>1 DEF SetIrq, RegsOK
  <2>2. CASE irq \in enable[0]
    BY <1>0, <1>1, <2>1, <2>2, PlicUpdateEffect DEF SetIrq, IInv
  <2>3. CASE irq \notin enable[0]
    <3>1. Eligible(0)' = Eligible(0)
      BY <1>1, <2>3 DEF SetIrq, Eligible
    <3>2. TypeOK'
      BY <1>0, <1>1, <2>1, <2>3 DEF SetIrq, NoUpdate, TypeOK, RegsOK
    <3> QED BY <1>1, <2>3, <3>1, <3>2, Undisturbed DEF SetIrq, NoUpdate, IInv
  <2> QED BY <2>2, <2>3
<1>2. ASSUME Claim PROVE IInv'
  <2>1. CASE ClaimWinner(0) # 0
    <3>1. ClaimWinner(0) \in Irqs
      <4>1. priority \in [Irqs -> Nat] /\ threshold[0] \in Nat
        BY <1>0, PlicConstants DEF RegsOK, Prios
      <4> DEFINE C == {i \in pending : i \notin claimed[0] /\ i \in enable[0]}
      <4>2. C \in SUBSET Irqs /\ ClaimWinner(0) = Scan(C, priority, threshold[0])
        BY <1>0 DEF RegsOK, ClaimWinner
      <4> QED BY <2>1, <4>1, <4>2, ScanFindsBest DEF IsBest
    <3>2. RegsOK'
      BY <1>0, <1>2, <2>1, <3>1 DEF Claim, RegsOK
    <3> QED BY <1>0, <1>2, <2>1, <3>2, PlicUpdateEffect DEF Claim, IInv
  <2>2. CASE ClaimWinner(0) = 0
    <3>1. UNCHANGED vars
      BY <1>2, <2>2 DEF Claim, NoUpdate, vars
    <3> QED BY <3>1 DEF IInv, TypeOK, LineShowsWinner, PresentedEligible, UpdateWinner,
                        Eligible, vars
  <2> QED BY <2>1, <2>2
<1>3. ASSUME NEW irq \in Irqs, Complete(irq) PROVE IInv'
  <2>1. RegsOK'
    BY <1>0, <1>3 DEF Complete, RegsOK
  <2> QED BY <1>0, <1>3, <2>1, PlicUpdateEffect DEF Complete, IInv
<1>4. ASSUME NEW irq \in Irqs, NEW value \in 0 .. PrioLevels, WritePriority(irq, value)
      PROVE  IInv'
  <2>1. value % PrioLevels \in Prios
    BY PlicConstants DEF Prios
  <2>2. TypeOK'
    BY <1>0, <1>4, <2>1 DEF WritePriority, TypeOK
  <2>3. Eligible(0)' = Eligible(0)
    BY <1>4 DEF WritePriority, Eligible
  <2> QED BY <1>4, <2>2, <2>3, Undisturbed DEF WritePriority, IInv
<1>5. ASSUME NEW h \in Harts, NEW word \in Words, NEW bits \in SUBSET WordIrqs(word),
             WriteEnable(h, word, bits)
      PROVE  IInv'
  <2>1. RegsOK'
    BY <1>0, <1>5 DEF WriteEnable, RegsOK, WordIrqs
  <2>2. TypeOK' /\ (h = 0 => IInv')
    BY <1>0, <1>5, <2>1, PlicUpdateEffect DEF WriteEnable, IInv
  <2>3. CASE h # 0
    <3>1. Eligible(0)' = Eligible(0)
      BY <1>0, <1>5, <2>3 DEF WriteEnable, Eligible, RegsOK
    <3>2. currentIrq'[0] = currentIrq[0] /\ meip'[0] = meip[0] /\ unseen' = unseen
      BY <1>0, <1>5, <2>3 DEF WriteEnable, PlicUpdate, TypeOK
    <3> QED BY <1>5, <2>2, <3>1, <3>2, Undisturbed DEF WriteEnable, IInv
  <2> QED BY <2>2, <2>3
<1>6. ASSUME NEW value \in 0 .. PrioLevels, WriteThreshold(value) PROVE IInv'
  <2>1. value % PrioLevels \in Prios
    BY PlicConstants DEF Prios
  <2>2. RegsOK'
    BY <1>0, <1>6, <2>1 DEF WriteThreshold, RegsOK
  <2> QED BY <1>0, <1>6, <2>2, PlicUpdateEffect DEF WriteThreshold, IInv
<1>7. ASSUME Halt PROVE IInv'
  <2>1. TypeOK' /\ Eligible(0)' = Eligible(0)
    BY <1>0, <1>7 DEF Halt, TypeOK, Eligible
  <2> QED BY <1>7, <2>1, Undisturbed DEF Halt, IInv
<1>8. ASSUME NEW bit \in BOOLEAN, CsrWriteMip(bit) PROVE IInv'
  <2>1. TypeOK' /\ UpdateWinner(0)' = UpdateWinner(0) /\ Eligible(0)' = Eligible(0)
    BY <1>0, <1>8 DEF CsrWriteMip, TypeOK, UpdateWinner, Eligible
  <2> QED BY <1>8, <2>1 DEF CsrWriteMip, IInv, LineShowsWinner, PresentedEligible
<1>9. CASE UNCHANGED vars
  BY <1>9 DEF IInv, TypeOK, LineShowsWinner, PresentedEligible, UpdateWinner, Eligible, vars
<1> QED BY <1>1, <1>2, <1>3, <1>4, <1>5, <1>6, <1>7, <1>8, <1>9 DEF Next

LEMMA PlicInvariant == Spec => []IInv
  BY PlicInit, PlicStep, PTL DEF Spec

\* The registers of the controller keep their ranges.
THEOREM PlicTypeCorrect == Spec => []TypeOK
<1>1. IInv => TypeOK
  BY DEF IInv
<1> QED BY <1>1, PlicInvariant, PTL

\* Hart 0 is shown what a scan of the registers would find now, unless a
\* priority register or the MIP csr was written after the last plic_update.
THEOREM LineIsCurrent == Spec => []LineShowsWinner
<1>1. IInv => LineShowsWinner
  BY DEF IInv
<1> QED BY <1>1, PlicInvariant, PTL

\* The source presented to hart 0 is enabled, pending and not in service.
THEOREM PresentedIsEligible == Spec => []PresentedEligible
<1>1. IInv => PresentedEligible
  BY DEF IInv
<1> QED BY <1>1, PlicInvariant, PTL

\* A claim hands out the presented source, and never one that is in service.
THEOREM ClaimIsWhatWasPresented == Spec => ClaimTakesPresented
<1>1. ASSUME IInv, Claim
      PROVE  LET new == claimed'[0] \ claimed[0] IN
             /\ new \subseteq Eligible(0)
             /\ "priority" \notin unseen => new = {currentIrq[0]} \ {0}
  <2> DEFINE C == {i \in pending : i \notin claimed[0] /\ i \in enable[0]}
  <2>1. priority \in [Irqs -> Nat] /\ threshold[0] \in Nat /\ 0 \in Harts
    BY <1>1, HartZero, PlicConstants DEF IInv, TypeOK, Prios
  <2>2. C = Eligible(0) /\ C \in SUBSET Irqs
    BY <1>1 DEF IInv, TypeOK, Eligible
  <2>3. ClaimWinner(0) = UpdateWinner(0) /\ (ClaimWinner(0) # 0 => ClaimWinner(0) \in C)
    BY <2>1, <2>2, ScanFindsBest DEF ClaimWinner, UpdateWinner, IsBest
  <2>4. claimed'[0] \ claimed[0] = {ClaimWinner(0)} \ {0}
    BY <1>1, <2>1, <2>3 DEF Claim, IInv, TypeOK
  <2>5. "priority" \notin unseen => currentIrq[0] = ClaimWinner(0)
    BY <1>1, <2>3 DEF IInv, LineShowsWinner
  <2> QED BY <2>2, <2>3, <2>4, <2>5
<1> QED BY <1>1, PlicInvariant, PTL DEF ClaimTakesPresented

-----------------------------------------------------------------------------
(* Refinement *)

\* plic.c implements IrqDelivery for hart 0: claims are deliveries, completions
\* finish them, and every other operation changes at most what is offered.
THEOREM PlicImplementsDelivery == Spec => DeliversAsPromised
<1> USE HartZero
<1>1. Init => Delivery!Init
  BY DEF Init, Delivery!Init
<1>2. IInv /\ IInv' /\ [Next]_vars => [Delivery!Next]_(Delivery!vars)
  <2> SUFFICES ASSUME IInv, IInv', [Next]_vars PROVE [Delivery!Next]_(Delivery!vars)
    OBVIOUS
  <2>0. Delivery!Offer /\ claimed \in [Harts -> SUBSET Irqs]
    BY DEF IInv, PresentedEligible, Eligible, Delivery!Offer, TypeOK
  <2> USE DEF Delivery!Next, Delivery!vars
  <2>1. ASSUME NEW irq \in Irqs, NEW level \in BOOLEAN, SetIrq(irq, level)
        PROVE  Delivery!Raise(irq) \/ Delivery!Withdraw(irq)
    BY <2>0, <2>1 DEF SetIrq, Delivery!Raise, Delivery!Withdraw
  <2>2. ASSUME Claim PROVE Delivery!Reconsider \/ \E irq \in Irqs : Delivery!Deliver(irq)
    <3>1. CASE ClaimWinner(0) = 0
      BY <2>0, <2>2, <3>1 DEF Claim, Delivery!Reconsider
    <3>2. CASE ClaimWinner(0) # 0
      <4> DEFINE C == {i \in pending : i \notin claimed[0] /\ i \in enable[0]}
      <4>1. priority \in [Irqs -> Nat] /\ threshold[0] \in Nat /\ C \in SUBSET Irqs
        BY PlicConstants DEF IInv, TypeOK, Prios
      <4>2. ClaimWinner(0) \in C /\ ClaimWinner(0) \in Irqs
        BY <3>2, <4>1, ScanFindsBest DEF ClaimWinner, IsBest
      <4>3. Delivery!Deliver(ClaimWinner(0))
        BY <2>0, <2>2, <3>2, <4>2 DEF Claim, Delivery!Deliver
      <4> QED BY <4>2, <4>3
    <3> QED BY <3>1, <3>2
  <2>3. ASSUME NEW irq \in Irqs, Complete(irq) PROVE Delivery!Finish(irq)
    BY <2>0, <2>3 DEF Complete, Delivery!Finish
  <2>4. ASSUME NEW irq \in Irqs, NEW value \in 0 .. PrioLevels, WritePriority(irq, value)
        PROVE  Delivery!Reconsider
    BY <2>0, <2>4 DEF WritePriority, Delivery!Reconsider
  <2>5. ASSUME NEW h \in Harts, NEW word \in Words, NEW bits \in SUBSET WordIrqs(word),
               WriteEnable(h, word, bits)
        PROVE  Delivery!Reconsider
    BY <2>0, <2>5 DEF WriteEnable, Delivery!Reconsider
  <2>6. ASSUME NEW value \in 0 .. PrioLevels, WriteThreshold(value)
        PROVE  Delivery!Reconsider
    BY <2>0, <2>6 DEF WriteThreshold, Delivery!Reconsider
  <2>7. CASE Halt \/ (\E bit \in BOOLEAN : CsrWriteMip(bit)) \/ UNCHANGED vars
    BY <2>7 DEF Halt, CsrWriteMip, vars
  <2> QED BY <2>1, <2>2, <2>3, <2>4, <2>5, <2>6, <2>7 DEF Next
<1> QED BY <1>1, <1>2, PlicInvariant, PTL DEF Spec, DeliversAsPromised, Delivery!Spec
-----------------------------------------------------------------------------
(* The controller as its neighbours see it. CpuLoop, Uart, VirtioBlk and   *)
(* IrqRace keep two bits of each source and none of the other registers.   *)

\* The registers of hart 0 are as plic_init left them, or as a kernel that
\* wants the same has written them again, and have been scanned since.
Booted ==
  /\ priority = [i \in Irqs |-> 1] /\ threshold[0] = 0
  /\ enable[0] = {UartIrq, VirtioIrq} /\ unseen = {}

Requested == pending \cap {UartIrq, VirtioIrq}
InService == claimed[0] \cap {UartIrq, VirtioIrq}
Waiting   == Requested \ InService

\* The line is up exactly while a request waits, and shows the lowest number.
TwoBitLine ==
  Booted => /\ meip[0] <=> Waiting # {}
            /\ currentIrq[0] = 0 <=> Waiting = {}
            /\ Waiting # {} => currentIrq[0] \in Waiting /\ \A s \in Waiting : currentIrq[0] <= s

\* The steps that the neighbours have: a request comes or goes, the lowest
\* number that waits is claimed, a source is completed and its request lost.
Requests(s)  == Requested' \in {Requested \cup {s}, Requested \ {s}} /\ UNCHANGED InService
Claims(s)    == /\ s \in Waiting /\ \A x \in Waiting : s <= x
                /\ Requested' = Requested \ {s} /\ InService' = InService \cup {s}
Completes(s) == Requested' = Requested \ {s} /\ InService' = InService \ {s}
TwoBitStep ==
  \/ UNCHANGED <<Requested, InService>>
  \/ \E s \in {UartIrq, VirtioIrq} : Requests(s) \/ Claims(s) \/ Completes(s)

\* The scan of the booted registers: with one priority for all, any source
\* that waits is above the threshold and the lowest number wins.
LEMMA BootedWinner ==
  ASSUME IInv, Booted
  PROVE  /\ Eligible(0) = Waiting
         /\ UpdateWinner(0) = 0 <=> Waiting = {}
         /\ Waiting # {} => UpdateWinner(0) \in Waiting /\ \A s \in Waiting : UpdateWinner(0) <= s
<1>1. Eligible(0) = Waiting /\ Waiting \in SUBSET Irqs
  BY PlicConstants DEF Eligible, Booted, Waiting, Requested, InService, IInv, TypeOK
<1>2. priority \in [Irqs -> Nat] /\ threshold[0] \in Nat /\ \A i \in Irqs : priority[i] = 1 /\ i # 0
  BY DEF Booted, Irqs
<1>3. IsBest(UpdateWinner(0), Waiting, priority, 0)
  BY <1>1, <1>2, ScanFindsBest DEF UpdateWinner, Booted
<1> HIDE DEF Waiting
<1>4. UpdateWinner(0) = 0 => Waiting = {}
  BY <1>1, <1>2, <1>3 DEF IsBest
<1>5. UpdateWinner(0) # 0 => UpdateWinner(0) \in Waiting /\ \A s \in Waiting : UpdateWinner(0) <= s
  BY <1>1, <1>2, <1>3 DEF IsBest
<1> QED BY <1>1, <1>2, <1>4, <1>5

\* With the registers of plic_init the controller is the two bits that the
\* other modules keep: MEIP says whether a request of the UART or the disk
\* waits, and the one with the lower number is shown (plic.c:159).
THEOREM PlicBootedLine == Spec => []TwoBitLine
<1>1. IInv => TwoBitLine
  <2> SUFFICES ASSUME IInv, Booted
               PROVE  /\ meip[0] <=> Waiting # {}
                      /\ currentIrq[0] = 0 <=> Waiting = {}
                      /\ Waiting # {} => currentIrq[0] \in Waiting /\ \A s \in Waiting : currentIrq[0] <= s
    BY DEF TwoBitLine
  <2>1. currentIrq[0] = UpdateWinner(0) /\ (meip[0] <=> currentIrq[0] # 0)
    BY DEF IInv, LineShowsWinner, Booted
  <2> QED BY <2>1, BootedWinner
<1> QED BY <1>1, PlicInvariant, PTL

\* What a claim does under those registers, if anything waits.
LEMMA BootedClaim ==
  ASSUME IInv, Booted, Claim
  PROVE  IF Waiting = {} THEN UNCHANGED <<Requested, InService>>
         ELSE \E s \in {UartIrq, VirtioIrq} : Claims(s)
<1>1. ClaimWinner(0) = UpdateWinner(0)
  <2>1. {i \in pending : i \notin claimed[0] /\ i \in enable[0]} = Eligible(0)
    BY DEF IInv, TypeOK, Eligible
  <2> QED BY <2>1 DEF ClaimWinner, UpdateWinner
<1>2. CASE Waiting = {}
  BY <1>1, <1>2, BootedWinner DEF Claim, Requested, InService
<1>3. CASE Waiting # {}
  <2> DEFINE s == ClaimWinner(0)
  <2>1. s \in Waiting /\ (\A x \in Waiting : s <= x) /\ s # 0
    BY <1>1, <1>3, BootedWinner
  <2>2. pending' = pending \ {s} /\ claimed'[0] = claimed[0] \cup {s} /\ s \in {UartIrq, VirtioIrq}
    BY <2>1, HartZero DEF Claim, IInv, TypeOK, Waiting, Requested
  <2> HIDE DEF s
  <2>3. Requested' = Requested \ {s} /\ InService' = InService \cup {s}
    BY <2>2 DEF Requested, InService
  <2> QED BY <1>3, <2>1, <2>2, <2>3 DEF Claims
<1> QED BY <1>2, <1>3

\* With the registers of plic_init every step of the controller is one that
\* the other modules have, and a claim takes what waits if anything does.
THEOREM PlicBootedSteps ==
  Spec => [][Booted => TwoBitStep /\ (Claim /\ Waiting # {} => \E s \in Waiting : Claims(s))]_vars
<1>1. ASSUME IInv, Booted, Next
      PROVE  TwoBitStep /\ (Claim /\ Waiting # {} => \E s \in Waiting : Claims(s))
  <2> USE HartZero
  <2>0. claimed \in [Harts -> SUBSET Irqs]
    BY <1>1 DEF IInv, TypeOK
  <2>1. ASSUME NEW irq \in Irqs, NEW level \in BOOLEAN, SetIrq(irq, level) PROVE TwoBitStep
    <3>1. CASE irq \in {UartIrq, VirtioIrq}
      BY <2>1, <3>1 DEF SetIrq, TwoBitStep, Requests, Requested, InService
    <3>2. CASE irq \notin {UartIrq, VirtioIrq}
      BY <2>1, <3>2 DEF SetIrq, TwoBitStep, Requested, InService
    <3> QED BY <3>1, <3>2
  <2>2. ASSUME Claim
        PROVE  TwoBitStep /\ (Waiting # {} => \E s \in Waiting : Claims(s))
    BY <1>1, <2>2, BootedClaim DEF TwoBitStep, Claims
  <2>3. ASSUME NEW irq \in Irqs, Complete(irq) PROVE TwoBitStep
    <3>1. CASE irq \in {UartIrq, VirtioIrq}
      BY <2>0, <2>3, <3>1 DEF Complete, TwoBitStep, Completes, Requested, InService
    <3>2. CASE irq \notin {UartIrq, VirtioIrq}
      BY <2>0, <2>3, <3>2 DEF Complete, TwoBitStep, Requested, InService
    <3> QED BY <3>1, <3>2
  <2>4. ASSUME \/ \E irq \in Irqs, value \in 0 .. PrioLevels : WritePriority(irq, value)
               \/ \E h \in Harts, word \in Words : \E bits \in SUBSET WordIrqs(word) : WriteEnable(h, word, bits)
               \/ \E value \in 0 .. PrioLevels : WriteThreshold(value)
               \/ Halt \/ (\E bit \in BOOLEAN : CsrWriteMip(bit))
        PROVE  TwoBitStep
    <3>1. UNCHANGED <<pending, claimed>>
      BY <2>4 DEF WritePriority, WriteEnable, WriteThreshold, Halt, CsrWriteMip
    <3> QED BY <3>1 DEF TwoBitStep, Requested, InService
  <2>5. TwoBitStep
    BY <1>1, <2>1, <2>2, <2>3, <2>4 DEF Next
  <2> QED BY <2>2, <2>5
<1>2. IInv /\ [Next]_vars =>
        [Booted => TwoBitStep /\ (Claim /\ Waiting # {} => \E s \in Waiting : Claims(s))]_vars
  BY <1>1
<1> QED BY <1>2, PlicInvariant, PTL DEF Spec
=============================================================================
