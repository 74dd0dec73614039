------------------------------ MODULE CpuProofs -----------------------------
(***************************************************************************)
(* Theorems about the CPU thread. About its loop, for every disk latency   *)
(* and any number of keys: no wakeup is lost. About the instructions it    *)
(* executes, for words of every size, every memory and every program: each *)
(* does what the instruction set says unless it is on the list of          *)
(* exceptions, and even then its effects are confined.                     *)
(***************************************************************************)
EXTENDS CpuLoop, HartIsa, LoopLemmas, TLAPS

\* A CPU thread that has been woken but has not left its wait was woken for a
\* request that is still there.
WokenForInterrupt == cpc = "asleep" /\ ~halted => Meip

\* The one instruction executed after the stop is followed by the end.
LateStepIsLast ==
  lateSteps # 0 => lateSteps = 1 /\ ~running /\ cpc \in {"devices", "top", "exited"}

\* An operation is overdue only until virtio_disk_update looks at it.
DueIsSeen == disk = Latency => cpc = "devices"

IInv == TypeOK /\ DueIsSeen /\ NoLostWakeup /\ WokenForInterrupt /\ LateStepIsLast

LEMMA InitInductive == Init => IInv
<1> SUFFICES ASSUME Init PROVE IInv
  OBVIOUS
<1> USE LoopConstants DEF Init, NoOp
<1>1. disk \in NoOp .. Latency /\ keys \in 0 .. MaxKeys /\ disk # Latency
  OBVIOUS
<1>2. /\ running \in BOOLEAN /\ halted \in BOOLEAN /\ signalled \in BOOLEAN
      /\ rxEnabled \in BOOLEAN
  OBVIOUS
<1>3. /\ cpc = "boot" /\ rpc = "idle" /\ haltedBy = "nothing" /\ lateSteps \in 0 .. 2
      /\ pending \in SUBSET Sources /\ claimed \in SUBSET Sources
      /\ lock = "free" /\ relocks \in BOOLEAN
  OBVIOUS
<1>4. TypeOK
  BY <1>1, <1>2, <1>3 DEF TypeOK
<1> QED BY <1>1, <1>4 DEF IInv, DueIsSeen, NoLostWakeup, WokenForInterrupt, LateStepIsLast

\* What an instruction that ends may change, whichever it is.
LEMMA ExecuteChanges ==
  ASSUME TypeOK, DueIsSeen, Execute, ~Block
  PROVE  /\ cpc = "exec" /\ cpc' = "devices" /\ UNCHANGED <<signalled, rxVars>>
         /\ lateSteps' = IF running \/ lateSteps = 2 THEN lateSteps ELSE lateSteps + 1
         /\ disk' \in NoOp .. Latency
         /\ running' \in BOOLEAN /\ (running' => running)
         /\ halted' \in BOOLEAN /\ haltedBy' \in {"nothing", "wfi", "ebreak", "badAccess"}
         /\ pending' \in SUBSET Sources /\ claimed' \in SUBSET Sources /\ rxEnabled' \in BOOLEAN
         /\ lock' \in {"free", "rx", "cpu"} /\ UNCHANGED relocks
<1> USE LoopConstants DEF NoOp, Started, irqVars, rxVars, lockVars
<1>1. /\ cpc = "exec" /\ cpc' = "devices" /\ UNCHANGED <<signalled, rxVars>>
      /\ lateSteps' = IF running \/ lateSteps = 2 THEN lateSteps ELSE lateSteps + 1
      /\ \E op \in {disk, Started} : disk' = IF op = NoOp THEN NoOp ELSE op + 1
  BY DEF Execute, Plain, Wfi, HaltUnlocked, Illegal, Notify, WriteIer, ReadRbr, ReadDll, Claim, Complete, Retire
<1>2. disk' \in NoOp .. Latency
  BY <1>1 DEF TypeOK, DueIsSeen
<1>3. running' \in BOOLEAN /\ (running' => running)
  <2>1. running' = running \/ running' = FALSE
    BY DEF Execute, Plain, Wfi, HaltUnlocked, Illegal, Notify, WriteIer, ReadRbr, ReadDll, Claim, Complete
  <2>2. running = TRUE \/ running = FALSE
    BY DEF TypeOK
  <2>3. CASE running' = running
    BY <2>2, <2>3, Zenon
  <2> QED BY <2>1, <2>3, Zenon
<1>4. halted' \in BOOLEAN /\ haltedBy' \in {"nothing", "wfi", "ebreak", "badAccess"}
  BY DEF Execute, Plain, Wfi, HaltUnlocked, Illegal, Notify, WriteIer, ReadRbr, ReadDll, Claim, Complete, TypeOK
<1>5. pending' \in SUBSET Sources /\ claimed' \in SUBSET Sources /\ rxEnabled' \in BOOLEAN
  <2>1. CASE Claim
    BY <2>1 DEF Claim, TypeOK, Sources
  <2>2. CASE \E source \in Sources : Complete(source)
    BY <2>2 DEF Complete, TypeOK, Sources
  <2>3. CASE \E enable, level \in BOOLEAN : WriteIer(enable, level)
    BY <2>3 DEF WriteIer, Drive, TypeOK, Sources
  <2>4. CASE \E level \in BOOLEAN : ReadRbr(level)
    BY <2>4 DEF ReadRbr, Drive, TypeOK, Sources
  <2>5. CASE UNCHANGED irqVars
    BY <2>5 DEF TypeOK
  <2> QED BY <2>1, <2>2, <2>3, <2>4, <2>5
          DEF Execute, Plain, Wfi, HaltUnlocked, Illegal, Notify, ReadDll
<1>6. lock' \in {"free", "rx", "cpu"} /\ UNCHANGED relocks
  BY DEF Execute, Plain, Wfi, HaltUnlocked, Illegal, Notify, WriteIer, ReadRbr, ReadDll, Claim,
         Complete, TypeOK
<1> QED BY <1>1, <1>2, <1>3, <1>4, <1>5, <1>6

LEMMA ExecuteInductive == IInv /\ Execute => IInv'
<1> SUFFICES ASSUME IInv, Execute PROVE IInv'
  OBVIOUS
<1>1. TypeOK /\ DueIsSeen /\ LateStepIsLast
  BY DEF IInv
<1>2. CASE Block
  BY <1>1, <1>2 DEF Block, irqVars, rxVars, TypeOK, DueIsSeen, LateStepIsLast, IInv, NoLostWakeup,
     WokenForInterrupt
<1>3. CASE ~Block
  <2> USE ExecuteChanges, <1>1, <1>3
  <2>1. cpc = "exec" /\ cpc' = "devices"
    OBVIOUS
  <2>2. lateSteps = 0
    BY <2>1 DEF LateStepIsLast
  <2>3. LateStepIsLast'
    BY <2>1, <2>2 DEF LateStepIsLast, TypeOK
  <2>4. TypeOK'
    BY <2>1, <2>2 DEF TypeOK, rxVars
  <2> QED BY <2>1, <2>3, <2>4 DEF IInv, DueIsSeen, NoLostWakeup, WokenForInterrupt
<1> QED BY <1>2, <1>3

\* The other steps of the CPU thread; Return is also what a spurious wakeup
\* does.
LEMMA CpuInductive == IInv /\ (CpuSteps \/ Return) => IInv'
<1> SUFFICES ASSUME IInv, CpuSteps \/ Return PROVE IInv'
  OBVIOUS
<1> USE LoopConstants DEF NoOp, Sources, irqVars, rxVars, lockVars, IInv, TypeOK, DueIsSeen,
                         NoLostWakeup, WokenForInterrupt, LateStepIsLast
<1>1. CASE Boot
  BY <1>1 DEF Boot
<1>2. CASE Top
  BY <1>2 DEF Top
<1>3. CASE Gate
  BY <1>3 DEF Gate
<1>4. CASE Return
  BY <1>4 DEF Return, Meip
<1>5. CASE Execute
  BY <1>5, ExecuteInductive
<1>6. CASE Devices
  <2>1. disk' \in NoOp .. Latency /\ disk' # Latency
    BY <1>6 DEF Devices
  <2> QED BY <1>6, <2>1 DEF Devices, TryWakeup
<1> HIDE DEF IInv
<1> QED BY <1>1, <1>2, <1>3, <1>4, <1>5, <1>6 DEF CpuSteps

\* The steps of the receive thread.
LEMMA RxInductive == IInv /\ (RxSteps \/ Key \/ CtrlD) => IInv'
<1> SUFFICES ASSUME IInv, RxSteps \/ Key \/ CtrlD PROVE IInv'
  OBVIOUS
<1> USE LoopConstants DEF NoOp, Sources, cpuVars, irqVars, lockVars, IInv, TypeOK, DueIsSeen,
                         NoLostWakeup, WokenForInterrupt, LateStepIsLast
<1>1. CASE Push
  BY <1>1 DEF Push, Meip
<1>2. CASE Wake
  BY <1>2 DEF Wake, TryWakeup, Meip
<1>3. CASE Key
  BY <1>3 DEF Key, Meip
<1>4. CASE CtrlD
  <2>1. LateStepIsLast'
    BY <1>4 DEF CtrlD
  <2>2. keys' \in 0 .. MaxKeys
    BY <1>4 DEF CtrlD
  <2>3. TypeOK' /\ DueIsSeen'
    BY <1>4, <2>2 DEF CtrlD
  <2>4. NoLostWakeup' /\ WokenForInterrupt'
    BY <1>4 DEF CtrlD, Meip
  <2> QED BY <2>1, <2>3, <2>4
<1> HIDE DEF IInv
<1> QED BY <1>1, <1>2, <1>3, <1>4, Zenon DEF RxSteps

LEMMA Inductive == Spec => []IInv
<1>1. IInv /\ [Next]_vars => IInv'
  <2>1. IInv /\ UNCHANGED vars => IInv'
    BY DEF vars, cpuVars, irqVars, rxVars, lockVars, IInv, TypeOK, DueIsSeen, NoLostWakeup,
           WokenForInterrupt, LateStepIsLast, Meip
  <2> QED BY <2>1, CpuInductive, RxInductive DEF Next
<1> QED BY <1>1, InitInductive, PTL DEF Spec

\* The variables keep their ranges.
THEOREM LoopTypeCorrect == Spec => []TypeOK
<1>1. IInv => TypeOK
  BY DEF IInv
<1> QED BY <1>1, Inductive, PTL

\* No wakeup is lost: a CPU thread that sleeps with no signal on its way is
\* one that halted, whatever the receive thread does meanwhile.
THEOREM LoopLosesNoWakeup == Spec => []NoLostWakeup
<1>1. IInv => NoLostWakeup
  BY DEF IInv
<1> QED BY <1>1, Inductive, PTL

\* At most one instruction is executed after the stop.
THEOREM LoopStopsPromptly == Spec => []StopsPromptly
<1>1. IInv => StopsPromptly
  BY DEF IInv, LateStepIsLast, StopsPromptly, TypeOK
<1> QED BY <1>1, Inductive, PTL

\* A CPU thread that leaves its sleep does so with the interrupt line up: the
\* wakeup is not undone before the next instruction.
WakesForInterrupt == [][cpc = "asleep" /\ cpc' = "exec" => Meip]_vars

\* The interrupt that ended the sleep is still up at the next instruction.
THEOREM LoopWakesForInterrupt == Spec => WakesForInterrupt
<1>1. IInv /\ [Next]_vars => [cpc = "asleep" /\ cpc' = "exec" => Meip]_vars
  <2> SUFFICES ASSUME IInv, Next, cpc = "asleep", cpc' = "exec" PROVE Meip
    OBVIOUS
  <2>1. Return
    BY DEF Next, CpuSteps, RxSteps, Boot, Top, Gate, Execute, Plain, Wfi, HaltUnlocked,
           Illegal, Notify, WriteIer, ReadRbr, ReadDll, Block, Claim, Complete, Retire, Devices,
           Push, Wake, Key, CtrlD, cpuVars
  <2>2. ~halted
    BY <2>1 DEF Return
  <2> QED BY <2>2 DEF IInv, WokenForInterrupt
<1> QED BY <1>1, Inductive, PTL DEF Spec, WakesForInterrupt
-----------------------------------------------------------------------------
(* The promise of the controller, kept by the two bits that this module    *)
(* has of it; the lowest number is shown.                                  *)
Shown == IF ~Meip THEN "none" ELSE IF "disk" \in pending \ claimed THEN "disk" ELSE "uart"
Delivery == INSTANCE IrqDelivery WITH
  None <- "none", raised <- pending, serving <- claimed, offered <- Shown

\* What the CPU and the receive thread do to the controller is what
\* IrqDelivery, which Plic implements, allows.
THEOREM LoopDeliversAsPromised == Spec => Delivery!Spec
<1>1. Init => Delivery!Init
  BY DEF Init, Delivery!Init, Shown, Meip
<1>2. IInv /\ IInv' /\ [Next]_vars => [Delivery!Next]_(Delivery!vars)
  <2> SUFFICES ASSUME IInv, IInv', Next PROVE [Delivery!Next]_(Delivery!vars)
    BY DEF vars, irqVars, Delivery!vars, Shown, Meip
  <2>1. Delivery!Offer
    BY DEF Delivery!Offer, Shown, Meip, IInv, TypeOK, Sources
  <2>2. CASE UNCHANGED <<pending, claimed>>
    BY <2>1, <2>2 DEF Delivery!Next, Delivery!Reconsider
  <2>3. ASSUME NEW s \in Sources, UNCHANGED claimed, pending' = pending \cup {s}
        PROVE  Delivery!Next
    BY <2>1, <2>3 DEF Delivery!Next, Delivery!Raise
  <2>4. CASE Execute
    <3>1. CASE Claim
      <4> DEFINE best == IF "disk" \in pending \ claimed THEN "disk" ELSE "uart"
      <4>1. best \in pending \ claimed /\ best \in Sources
        BY <3>1 DEF Claim, Meip, IInv, TypeOK, Sources
      <4>2. Delivery!Deliver(best)
        BY <2>1, <3>1, <4>1 DEF Claim, Delivery!Deliver
      <4> QED BY <4>1, <4>2 DEF Delivery!Next
    <3>2. ASSUME NEW source \in Sources, Complete(source) PROVE Delivery!Next
      BY <2>1, <3>2 DEF Complete, Delivery!Next, Delivery!Finish
    <3>3. ASSUME NEW enable \in BOOLEAN, NEW level \in BOOLEAN, WriteIer(enable, level)
          PROVE  Delivery!Next
      BY <2>1, <2>3, <3>3 DEF WriteIer, Drive, Delivery!Next, Delivery!Withdraw, Sources
    <3>4. ASSUME NEW level \in BOOLEAN, ReadRbr(level) PROVE Delivery!Next
      BY <2>1, <2>3, <3>4 DEF ReadRbr, Drive, Delivery!Next, Delivery!Withdraw, Sources
    <3>5. CASE UNCHANGED irqVars
      BY <2>2, <3>5 DEF irqVars
    <3> QED BY <2>4, <3>1, <3>2, <3>3, <3>4, <3>5
            DEF Execute, Plain, Wfi, HaltUnlocked, Illegal, Notify, ReadDll, Block
  <2>5. CASE Devices \/ Push
    BY <2>2, <2>3, <2>5 DEF Devices, Push, Sources
  <2>6. CASE Boot \/ Top \/ Gate \/ Return \/ Wake \/ Key \/ CtrlD
    BY <2>2, <2>6 DEF Boot, Top, Gate, Return, Wake, Key, CtrlD, irqVars
  <2> QED BY <2>2, <2>4, <2>5, <2>6 DEF Next, CpuSteps, RxSteps
<1> QED BY <1>1, <1>2, Inductive, PTL DEF Spec, Delivery!Spec
-----------------------------------------------------------------------------
(* Words of any width.                                                     *)
LEMMA Sizes ==
  /\ Byte \in Nat \ {0} /\ Half \in Nat \ {0} /\ Word \in Nat \ {0} /\ Dword \in Nat \ {0}
  /\ Half = 2 * Byte /\ Word = 4 * Byte /\ Dword = 8 * Byte
  /\ Byte <= Word /\ Half <= Word /\ Word <= Dword /\ Dword >= 8
BY ByteBitsAssumption DEF Byte, Half, Word, Dword

\* U keeps the low bits: a number of the field is itself.
LEMMA LowBits ==
  ASSUME NEW x \in Int, NEW b \in Nat \ {0}
  PROVE  /\ U(x, b) \in Field(b) /\ U(x, b) \in Nat
         /\ x \in Field(b) => U(x, b) = x
         /\ U(U(x, b), b) = U(x, b)
         /\ U(x + 2^b, b) = U(x, b) /\ U(x - 2^b, b) = U(x, b)
<1> DEFINE n == 2^b
<1>1. n \in Nat \ {0}
  BY PowerFacts
<1>2. n * 1 = n /\ n * (-1) = -n
  BY <1>1, Products
<1> HIDE DEF n
<1>3. /\ x % n \in 0 .. n - 1
      /\ x \in 0 .. n - 1 => x % n = x
      /\ \A q \in Int : (x + n * q) % n = x % n
      /\ (x % n) % n = x % n
  BY <1>1, Remainder
<1>4. (x + n) % n = x % n
  BY <1>2, <1>3
<1>5. (x + (-n)) % n = x % n
  BY <1>2, <1>3
<1>6. x - n = x + (-n)
  BY <1>1
<1>7. x % n \in Nat
  BY <1>1, <1>3
<1> QED BY <1>1, <1>3, <1>4, <1>5, <1>6, <1>7 DEF n, U, Field

(* Numbers with the same low bits. *)
Same(x, y, b) == U(x, b) = U(y, b)

\* The low bits of a sum, difference or product depend on those of its terms only.
LEMMA SameLowBits ==
  ASSUME NEW x \in Int, NEW y \in Int, NEW v \in Int, NEW w \in Int, NEW b \in Nat \ {0},
         Same(x, v, b), Same(y, w, b)
  PROVE  Same(x + y, v + w, b) /\ Same(x - y, v - w, b) /\ Same(x * y, v * w, b)
<1>1. 2^b \in Nat \ {0}
  BY PowerFacts
<1>2. PICK n \in Nat \ {0} : n = 2^b
  BY <1>1
<1>3. Congruent(x, v, n) /\ Congruent(y, w, n)
  BY <1>2 DEF U, Same, Congruent
<1>4. Congruent(x + y, v + w, n) /\ Congruent(x - y, v - w, n) /\ Congruent(x * y, v * w, n)
  BY <1>3, CongruentSums
<1> QED BY <1>2, <1>4 DEF U, Same, Congruent

(* The signed numbers of b bits. *)
Signed(b) == -2^(b - 1) .. 2^(b - 1) - 1

\* SignExt gives the signed number with the same low bits.
LEMMA SignBits ==
  ASSUME NEW x \in Int, NEW b \in Nat \ {0}
  PROVE  /\ SignExt(x, b) \in Signed(b) /\ SignExt(x, b) \in Int
         /\ U(SignExt(x, b), b) = U(x, b)
         /\ x \in Signed(b) => SignExt(x, b) = x
         /\ \A y \in Int : U(x, b) = U(y, b) => SignExt(x, b) = SignExt(y, b)
<1> DEFINE h == 2^(b - 1)
<1>1. h \in Nat \ {0} /\ 2^b = 2 * h
  BY PowerFacts
<1>2. SignExt(x, b) = U(x + h, b) - h /\ Signed(b) = -h .. h - 1
  BY DEF SignExt, Signed
<1>3. ASSUME NEW y \in Int PROVE SignExt(y, b) = U(y + h, b) - h
  BY DEF SignExt
<1>4. Field(b) = 0 .. 2 * h - 1
  BY <1>1 DEF Field
<1> HIDE DEF h
<1>5. U(x + h, b) \in Field(b) /\ U(x + h, b) \in Nat
  BY <1>1, LowBits, x + h \in Int
<1>6. SignExt(x, b) \in Signed(b) /\ SignExt(x, b) \in Int
  BY <1>1, <1>2, <1>4, <1>5
<1>7. U(SignExt(x, b), b) = U(x, b)
  <2>1. PICK s \in Int : s = x + h
    BY <1>1
  <2>4. PICK t \in Int : t = U(s, b)
    BY LowBits
  <2>5. Same(t, s, b)
    BY <2>4, LowBits DEF Same
  <2>6. PICK g \in Int : g = h
    BY <1>1
  <2>8. Same(g, g, b)
    BY DEF Same
  <2>7. Same(t - g, s - g, b)
    BY <2>5, <2>8, SameLowBits
  <2>2. U(U(x + h, b) - h, b) = U((x + h) - h, b)
    BY <2>1, <2>4, <2>6, <2>7 DEF Same
  <2>3. (x + h) - h = x
    BY <1>1
  <2> QED BY <1>2, <2>2, <2>3
<1>8. x \in Signed(b) => SignExt(x, b) = x
  <2> SUFFICES ASSUME x \in Signed(b) PROVE SignExt(x, b) = x
    OBVIOUS
  <2>1. x + h \in Field(b) /\ x + h \in Int
    BY <1>1, <1>2, <1>4
  <2>2. U(x + h, b) = x + h
    BY <2>1, LowBits
  <2> QED BY <1>1, <1>2, <2>2
<1>9. ASSUME NEW y \in Int, U(x, b) = U(y, b) PROVE SignExt(x, b) = SignExt(y, b)
  <2>1. U(x + h, b) = U(y + h, b)
    <3>1. PICK g \in Int : g = h
      BY <1>1
    <3>2. Same(x, y, b) /\ Same(g, g, b)
      BY <1>9 DEF Same
    <3>3. Same(x + g, y + g, b)
      BY <3>2, SameLowBits
    <3> QED BY <3>1, <3>3 DEF Same
  <2> QED BY <1>3, <2>1
<1> QED BY <1>6, <1>7, <1>8, <1>9

(* What a wider word keeps of a narrower one. *)
LEMMA Narrower ==
  ASSUME NEW x \in Int, NEW a \in Nat \ {0}, NEW b \in Nat \ {0}, a <= b
  PROVE  /\ U(U(x, b), a) = U(x, a) /\ U(SignExt(x, b), a) = U(x, a)
         /\ SignExt(U(x, b), a) = SignExt(x, a)
         /\ SignExt(SignExt(x, b), a) = SignExt(x, a)
         /\ Field(a) \subseteq Field(b)
         /\ \A y \in Int : U(x, b) = U(y, b) => U(x, a) = U(y, a)
<1> DEFINE m == 2^a
           k == 2^(b - a)
<1>1. m \in Nat \ {0} /\ k \in Nat \ {0} /\ 2^b = m * k /\ m <= 2^b
  BY PowerDivides
<1>2. 2^b \in Nat
  BY PowerFacts
<1> HIDE DEF m, k
<1>3. /\ (x % (m * k)) % m = x % m
      /\ \A y \in Int : x % (m * k) = y % (m * k) => x % m = y % m
  BY <1>1, RemainderOfMultiple
<1>4. /\ U(U(x, b), a) = U(x, a)
      /\ \A y \in Int : U(x, b) = U(y, b) => U(x, a) = U(y, a)
  BY <1>1, <1>3 DEF U, m
<1>5. U(SignExt(x, b), b) = U(x, b) /\ SignExt(x, b) \in Int
  BY SignBits
<1>6. ASSUME NEW y \in Int, U(x, b) = U(y, b) PROVE U(x, a) = U(y, a)
  BY <1>4, <1>6
<1>7. U(SignExt(x, b), a) = U(x, a)
  BY <1>5, <1>6
<1>8. SignExt(SignExt(x, b), a) = SignExt(x, a)
  BY <1>5, <1>7, SignBits
<1>9. SignExt(U(x, b), a) = SignExt(x, a)
  BY <1>4, LowBits, SignBits, U(x, b) \in Int
<1>10. Field(a) \subseteq Field(b)
  BY <1>1, <1>2 DEF Field, m
<1> QED BY <1>4, <1>7, <1>8, <1>9, <1>10

-----------------------------------------------------------------------------
(* Sums. *)
IsSum(f, n, term) ==
  f \in [0 .. n -> Int] /\ f[0] = 0 /\ \A k \in 1 .. n : f[k] = f[k - 1] + term[k]

\* A total is the last value of its partial sums.
LEMMA TotalUnfolds ==
  ASSUME NEW n \in Nat, NEW term \in [1 .. n -> Int]
  PROVE  \E f : IsSum(f, n, term) /\ Total(n, term) = f[n]
<1> DEFINE step == [x \in Int \X (1 .. n) |-> x[1] + term[x[2]]]
           Loop(f) == f = [k \in 0 .. n |-> IF k = 0 THEN 0 ELSE f[k - 1] + term[k]]
           best == CHOOSE f : Loop(f)
<1>1. step \in [Int \X (1 .. n) -> Int]
  OBVIOUS
<1>2. ASSUME NEW s \in Int, NEW k \in 1 .. n PROVE step[<<s, k>>] = s + term[k]
  OBVIOUS
<1> HIDE DEF step
<1>3. PICK f : IsLoop(f, n, Int, 0, step)
  BY <1>1, LoopDefined, 0 \in Int, Zenon
<1>4. ASSUME NEW k \in 1 .. n PROVE f[k] = f[k - 1] + term[k]
  <2>1. f[k] = step[<<f[k - 1], k>>] /\ f[k - 1] \in Int
    BY <1>3 DEF IsLoop
  <2> QED BY <1>2, <2>1
<1>5. Loop(f)
  BY <1>3, <1>4 DEF IsLoop
<1>6. Loop(best)
  BY <1>5
<1>7. Total(n, term) = best[n]
  BY DEF Total
<1> HIDE DEF best
<1>8. best[0] = 0 /\ \A k \in 1 .. n : best[k] = best[k - 1] + term[k]
  <2>1. 0 \in 0 .. n /\ \A k \in 1 .. n : k \in 0 .. n /\ k # 0
    OBVIOUS
  <2> QED BY <1>6, <2>1
<1> DEFINE Good == {k \in 0 .. n : best[k] \in Int}
<1>9. 0 \in Good
  BY <1>8
<1>10. ASSUME NEW k \in 1 .. n, k - 1 \in Good PROVE k \in Good
  BY <1>8, <1>10
<1> HIDE DEF Good
<1>11. 0 .. n \subseteq Good
  BY <1>9, <1>10, CounterInduction
<1>12. best \in [0 .. n -> Int]
  <2>1. best = [k \in 0 .. n |-> best[k]]
    BY <1>6
  <2>2. \A k \in 0 .. n : best[k] \in Int
    BY <1>11 DEF Good
  <2> QED BY <2>1, <2>2
<1>13. IsSum(best, n, term)
  BY <1>8, <1>12 DEF IsSum
<1> QED BY <1>7, <1>13

\* A total of integers is an integer.
LEMMA TotalType ==
  ASSUME NEW n \in Nat, NEW term \in [1 .. n -> Int]
  PROVE  Total(n, term) \in Int
BY TotalUnfolds DEF IsSum

(* Term by term. *)
LEMMA TotalMonotone ==
  ASSUME NEW n \in Nat, NEW s \in [1 .. n -> Int], NEW t \in [1 .. n -> Int],
         \A k \in 1 .. n : s[k] <= t[k]
  PROVE  Total(n, s) <= Total(n, t)
<1>1. PICK f : IsSum(f, n, s) /\ Total(n, s) = f[n]
  BY TotalUnfolds
<1>2. PICK g : IsSum(g, n, t) /\ Total(n, t) = g[n]
  BY TotalUnfolds
<1> DEFINE Good == {k \in 0 .. n : f[k] <= g[k]}
<1>3. 0 \in Good
  BY <1>1, <1>2 DEF IsSum
<1>4. ASSUME NEW k \in 1 .. n, k - 1 \in Good PROVE k \in Good
  <2>1. f[k] = f[k - 1] + s[k] /\ g[k] = g[k - 1] + t[k] /\ s[k] <= t[k] /\ f[k - 1] <= g[k - 1]
    BY <1>1, <1>2, <1>4 DEF IsSum
  <2>2. f[k - 1] \in Int /\ g[k - 1] \in Int /\ s[k] \in Int /\ t[k] \in Int
    BY <1>1, <1>2 DEF IsSum
  <2> QED BY <2>1, <2>2
<1> HIDE DEF Good
<1>5. 0 .. n \subseteq Good
  BY <1>3, <1>4, CounterInduction
<1> QED BY <1>1, <1>2, <1>5 DEF Good

\* Totals subtract.
LEMMA TotalDifference ==
  ASSUME NEW n \in Nat, NEW s \in [1 .. n -> Int], NEW t \in [1 .. n -> Int],
         NEW d \in [1 .. n -> Int], \A k \in 1 .. n : d[k] = s[k] - t[k]
  PROVE  Total(n, d) = Total(n, s) - Total(n, t)
<1>1. PICK f : IsSum(f, n, s) /\ Total(n, s) = f[n]
  BY TotalUnfolds
<1>2. PICK g : IsSum(g, n, t) /\ Total(n, t) = g[n]
  BY TotalUnfolds
<1>3. PICK h : IsSum(h, n, d) /\ Total(n, d) = h[n]
  BY TotalUnfolds
<1> DEFINE Good == {k \in 0 .. n : h[k] = f[k] - g[k]}
<1>4. 0 \in Good
  BY <1>1, <1>2, <1>3 DEF IsSum
<1>5. ASSUME NEW k \in 1 .. n, k - 1 \in Good PROVE k \in Good
  <2>1. f[k] = f[k - 1] + s[k] /\ g[k] = g[k - 1] + t[k] /\ h[k] = h[k - 1] + d[k]
        /\ d[k] = s[k] - t[k] /\ h[k - 1] = f[k - 1] - g[k - 1]
    BY <1>1, <1>2, <1>3, <1>5 DEF IsSum
  <2>2. f[k - 1] \in Int /\ g[k - 1] \in Int /\ s[k] \in Int /\ t[k] \in Int
    BY <1>1, <1>2 DEF IsSum
  <2> QED BY <2>1, <2>2
<1> HIDE DEF Good
<1>6. 0 .. n \subseteq Good
  BY <1>4, <1>5, CounterInduction
<1> QED BY <1>1, <1>2, <1>3, <1>6 DEF Good

(* A number written with n digits of b bits.                               *)
Digits(n, b, d) == [k \in 1 .. n |-> 2^(b * (k - 1)) * d[k]]

\* The terms of a number in digits.
LEMMA DigitsTyped ==
  ASSUME NEW n \in Nat, NEW b \in Nat \ {0}, NEW d \in [1 .. n -> Int]
  PROVE  /\ Digits(n, b, d) \in [1 .. n -> Int]
         /\ \A k \in 1 .. n : 2^(b * (k - 1)) \in Nat \ {0} /\ b * (k - 1) \in Nat
<1>1. ASSUME NEW k \in 1 .. n
      PROVE  2^(b * (k - 1)) \in Nat \ {0} /\ 2^(b * (k - 1)) * d[k] \in Int /\ b * (k - 1) \in Nat
  <2>1. b * (k - 1) \in Nat
    BY Products, k - 1 \in Nat
  <2>2. 2^(b * (k - 1)) \in Nat \ {0}
    BY <2>1, PowerDoubles
  <2>3. PICK p \in Nat : p = 2^(b * (k - 1))
    BY <2>2
  <2>4. PICK e \in Int : e = d[k]
    OBVIOUS
  <2>5. p * e \in Int
    BY Products
  <2> QED BY <2>1, <2>2, <2>3, <2>4, <2>5
<1> QED BY <1>1 DEF Digits

\* n digits of b bits make a number of b * n bits.
LEMMA DigitsBelow ==
  ASSUME NEW n \in Nat, NEW b \in Nat \ {0}, NEW d \in [1 .. n -> Field(b)]
  PROVE  Total(n, Digits(n, b, d)) \in Field(b * n)
<1>0. Field(b) \subseteq Int /\ d \in [1 .. n -> Int]
  BY DEF Field
<1>1. Digits(n, b, d) \in [1 .. n -> Int]
  BY <1>0, DigitsTyped
<1>2. PICK f : IsSum(f, n, Digits(n, b, d)) /\ Total(n, Digits(n, b, d)) = f[n]
  BY <1>1, TotalUnfolds
<1> DEFINE Good == {k \in 0 .. n : f[k] \in 0 .. 2^(b * k) - 1}
<1>3. 0 \in Good
  <2>1. b * 0 = 0
    BY Products
  <2>2. f[0] \in 0 .. 2^(b * 0) - 1
    <3>1. f[0] = 0
      BY <1>2 DEF IsSum
    <3>2. 2^(b * 0) = 1
      BY <2>1, PowerZero
    <3> QED BY <3>1, <3>2
  <2> QED BY <2>2
<1>4. ASSUME NEW k \in 1 .. n, k - 1 \in Good PROVE k \in Good
  <2>1. PICK p \in Nat \ {0} : p = 2^(b * (k - 1))
    BY <1>0, DigitsTyped
  <2>2. PICK w \in Nat \ {0} : w = 2^b
    BY PowerFacts
  <2>3. PICK e \in 0 .. w - 1 : e = d[k]
    BY <2>2 DEF Field
  <2>4. 2^(b * k) = w * p
    <3>1. b * k = b + b * (k - 1) /\ b * (k - 1) \in Nat
      <4>1. b * (k - 1) = b * k - b * 1 /\ b * 1 = b /\ b * k \in Int /\ b * (k - 1) \in Int
        BY Products
      <4> QED BY <1>0, <4>1, DigitsTyped
    <3> QED BY <2>1, <2>2, <3>1, PowerAdds
  <2>5. f[k] = f[k - 1] + p * e
    BY <1>2, <2>1, <2>3 DEF IsSum, Digits
  <2>6. PICK g \in 0 .. p - 1 : g = f[k - 1]
    BY <1>4, <2>1
  <2>7. p * e >= 0 /\ p * e <= w * p - p
    BY Z3
  <2>8. g + p * e >= 0 /\ g + p * e <= w * p - 1 /\ g + p * e \in Int
    BY <2>7, Z3
  <2>9. PICK m \in Int : m = w * p
    BY Products
  <2>10. f[k] \in 0 .. m - 1
    BY <2>5, <2>6, <2>8, <2>9
  <2> QED BY <2>4, <2>9, <2>10
<1> HIDE DEF Good
<1>5. 0 .. n \subseteq Good
  BY <1>3, <1>4, CounterInduction
<1> QED BY <1>2, <1>5 DEF Good, Field

-----------------------------------------------------------------------------
(* Bits. *)
BitTerms(x, y, ones) ==
  [k \in 1 .. Dword |-> IF <<Bit(x, k - 1), Bit(y, k - 1)>> \in ones THEN 2^(k - 1) ELSE 0]

\* A bit is 0 or 1.
LEMMA BitType ==
  ASSUME NEW x \in Int, NEW k \in Nat
  PROVE  Bit(x, k) \in {0, 1} /\ x \div 2^k \in Int
<1>1. PICK p \in Nat \ {0} : p = 2^k
  BY PowerDoubles
<1>2. x \div p \in Int
  BY Division
<1>3. \A q \in Int : q % 2 \in {0, 1}
  OBVIOUS
<1> QED BY <1>1, <1>2, <1>3 DEF Bit

\* What BitByBit adds up, and the width of the sum.
LEMMA BitTermsTyped ==
  ASSUME NEW x \in Int, NEW y \in Int, NEW ones
  PROVE  /\ BitTerms(x, y, ones) \in [1 .. Dword -> Int]
         /\ BitByBit(x, y, ones) = Total(Dword, BitTerms(x, y, ones))
         /\ BitByBit(x, y, ones) \in Field(Dword)
<1> DEFINE d == [k \in 1 .. Dword |-> IF <<Bit(x, k - 1), Bit(y, k - 1)>> \in ones THEN 1 ELSE 0]
<1>0. Dword \in Nat \ {0} /\ 1 \in Nat \ {0}
  BY Sizes
<1>2. Field(1) = 0 .. 1
  <2>1. 2^1 = 2
    BY PowerZero, PowerDoubles, 0 + 1 = 1, 0 \in Nat
  <2> QED BY <2>1 DEF Field
<1>3. d \in [1 .. Dword -> Field(1)] /\ d \in [1 .. Dword -> Int]
  BY <1>2
<1>4. BitTerms(x, y, ones) = Digits(Dword, 1, d)
  <2>1. ASSUME NEW k \in 1 .. Dword
        PROVE  Digits(Dword, 1, d)[k] = BitTerms(x, y, ones)[k]
    <3>1. 1 * (k - 1) = k - 1
      BY <1>0
    <3>2. PICK p \in Nat : p = 2^(k - 1)
      BY <1>0, PowerDoubles, k - 1 \in Nat
    <3>3. p * 1 = p /\ p * 0 = 0
      BY Products
    <3>4. Digits(Dword, 1, d)[k] = p * d[k]
      BY <3>1, <3>2 DEF Digits
    <3> QED BY <3>2, <3>3, <3>4 DEF BitTerms
  <2> HIDE DEF d
  <2> QED BY <2>1 DEF BitTerms, Digits
<1> HIDE DEF d
<1>6. Digits(Dword, 1, d) \in [1 .. Dword -> Int]
  BY <1>0, <1>3, DigitsTyped
<1>7. Total(Dword, Digits(Dword, 1, d)) \in Field(1 * Dword)
  BY <1>0, <1>3, DigitsBelow
<1>8. 1 * Dword = Dword
  BY <1>0
<1>9. BitByBit(x, y, ones) = Total(Dword, BitTerms(x, y, ones))
  BY DEF BitByBit, BitTerms
<1> QED BY <1>4, <1>6, <1>7, <1>8, <1>9

\* And, Or and Xor give words.
LEMMA BitwiseType ==
  ASSUME NEW x \in Int, NEW y \in Int
  PROVE  And(x, y) \in Field(Dword) /\ Or(x, y) \in Field(Dword) /\ Xor(x, y) \in Field(Dword)
BY BitTermsTyped DEF And, Or, Xor

(* The next power's remainder has one bit more.                            *)
LEMMA NextBit ==
  ASSUME NEW x \in Int, NEW k \in Nat
  PROVE  x % 2^(k + 1) = (x % 2^k) + (IF Bit(x, k) = 1 THEN 2^k ELSE 0)
<1>1. PICK p \in Nat \ {0} : p = 2^k
  BY PowerDoubles
<1>2. 2^(k + 1) = 2 * p /\ 2 * p \in Nat \ {0}
  BY <1>1, PowerDoubles
<1>3. PICK q \in Int : q = x \div p
  BY <1>1, BitType
<1>4. PICK r \in 0 .. p - 1 : r = x % p
  BY Division
<1>5. x = p * q + r
  BY <1>3, <1>4, Division
<1>6. PICK e \in {0, 1} : e = q % 2
  OBVIOUS
<1>7. PICK h \in Int : h = q \div 2
  OBVIOUS
<1>8. q = 2 * h + e
  BY <1>6, <1>7
<1>9. x = (2 * p) * h + (p * e + r)
  BY <1>5, <1>8, Z3
<1>10. p * e + r \in 0 .. 2 * p - 1
  <2>1. p * 0 = 0 /\ p * 1 = p
    BY Products
  <2> QED BY <1>6, <2>1
<1>11. PICK n \in Nat \ {0} : n = 2 * p
  BY <1>2
<1>12. PICK s \in 0 .. n - 1 : s = p * e + r
  BY <1>10, <1>11
<1>13. x = n * h + s
  BY <1>9, <1>11, <1>12
<1>14. x % n = s
  BY <1>13, Division
<1>15. Bit(x, k) = e
  BY <1>1, <1>3, <1>6 DEF Bit
<1>16. p * e \in Int
  BY Products
<1>17. p * 0 = 0 /\ p * 1 = p
  BY Products
<1>18. s = r + (IF e = 1 THEN p ELSE 0)
  BY <1>6, <1>12, <1>17
<1> QED BY <1>1, <1>2, <1>4, <1>11, <1>14, <1>15, <1>18

\* A word is the sum of its bits.
LEMMA ValueOfBits ==
  ASSUME NEW x \in Field(Dword)
  PROVE  LET term == [k \in 1 .. Dword |-> IF Bit(x, k - 1) = 1 THEN 2^(k - 1) ELSE 0]
         IN  term \in [1 .. Dword -> Int] /\ Total(Dword, term) = x
<1> DEFINE term == [k \in 1 .. Dword |-> IF Bit(x, k - 1) = 1 THEN 2^(k - 1) ELSE 0]
<1>0. Dword \in Nat \ {0} /\ x \in Int
  BY Sizes DEF Field
<1>1. ASSUME NEW k \in 1 .. Dword
      PROVE  term[k] = (IF Bit(x, k - 1) = 1 THEN 2^(k - 1) ELSE 0) /\ term[k] \in Int
  BY <1>0, PowerDoubles, k - 1 \in Nat
<1>2. term \in [1 .. Dword -> Int]
  BY <1>1
<1> HIDE DEF term
<1>3. PICK f : IsSum(f, Dword, term) /\ Total(Dword, term) = f[Dword]
  BY <1>0, <1>2, TotalUnfolds
<1> DEFINE Good == {k \in 0 .. Dword : f[k] = x % 2^k}
<1>4. 0 \in Good
  <2>1. x % 1 = 0
    BY <1>0
  <2>2. f[0] = x % 2^0
    BY <1>3, <2>1, PowerZero DEF IsSum
  <2> QED BY <1>0, <2>2
<1>5. ASSUME NEW k \in 1 .. Dword, k - 1 \in Good PROVE k \in Good
  <2>1. k - 1 \in Nat /\ (k - 1) + 1 = k
    BY <1>0
  <2>2. x % 2^k = (x % 2^(k - 1)) + (IF Bit(x, k - 1) = 1 THEN 2^(k - 1) ELSE 0)
    BY <1>0, <2>1, NextBit
  <2>3. f[k] = f[k - 1] + term[k]
    BY <1>3 DEF IsSum
  <2> QED BY <1>1, <1>5, <2>2, <2>3
<1> HIDE DEF Good
<1>6. 0 .. Dword \subseteq Good
  BY <1>0, <1>4, <1>5, CounterInduction
<1>7. f[Dword] = x % 2^Dword
  BY <1>0, <1>6 DEF Good
<1>8. x % 2^Dword = x
  BY <1>0, LowBits DEF U
<1> QED BY <1>2, <1>3, <1>7, <1>8 DEF term

(* What the registers need of them: x & y takes bits of x away, x | 0 is   *)
(* x, and x - (x & m) is x & ~m.                                           *)
LEMMA AndBelow ==
  ASSUME NEW x \in Field(Dword), NEW y \in Int
  PROVE  And(x, y) <= x
<1> DEFINE t == [k \in 1 .. Dword |-> IF Bit(x, k - 1) = 1 THEN 2^(k - 1) ELSE 0]
           s == BitTerms(x, y, {<<1, 1>>})
<1>0. Dword \in Nat \ {0} /\ x \in Int
  BY Sizes DEF Field
<1>1. t \in [1 .. Dword -> Int] /\ Total(Dword, t) = x
  BY ValueOfBits
<1>2. s \in [1 .. Dword -> Int] /\ And(x, y) = Total(Dword, s)
  BY <1>0, BitTermsTyped DEF And
<1>3. ASSUME NEW k \in 1 .. Dword PROVE s[k] <= t[k]
  <2>1. 2^(k - 1) \in Nat
    BY <1>0, PowerDoubles, k - 1 \in Nat
  <2> QED BY <2>1 DEF BitTerms
<1> HIDE DEF s, t
<1> QED BY <1>0, <1>1, <1>2, <1>3, TotalMonotone

LEMMA OrZero ==
  ASSUME NEW x \in Field(Dword)
  PROVE  Or(x, 0) = x
<1> DEFINE t == [k \in 1 .. Dword |-> IF Bit(x, k - 1) = 1 THEN 2^(k - 1) ELSE 0]
           s == BitTerms(x, 0, {<<0, 1>>, <<1, 0>>, <<1, 1>>})
<1>0. Dword \in Nat \ {0} /\ x \in Int
  BY Sizes DEF Field
<1>1. Total(Dword, t) = x
  BY ValueOfBits
<1>2. Or(x, 0) = Total(Dword, s)
  BY <1>0, BitTermsTyped DEF Or
<1>3. ASSUME NEW k \in 1 .. Dword PROVE s[k] = t[k]
  <2>1. PICK p \in Nat \ {0} : p = 2^(k - 1)
    BY <1>0, PowerDoubles, k - 1 \in Nat
  <2>3. 0 \div p = 0
    BY Remainder, 0 \in 0 .. p - 1
  <2>4. Bit(0, k - 1) = 0
    BY <2>1, <2>3 DEF Bit
  <2>5. <<Bit(x, k - 1), 0>> \in {<<0, 1>>, <<1, 0>>, <<1, 1>>} <=> Bit(x, k - 1) = 1
    OBVIOUS
  <2> QED BY <2>4, <2>5 DEF BitTerms
<1>4. s = t
  BY <1>3 DEF BitTerms
<1> QED BY <1>1, <1>2, <1>4

\* The bits of the complement, and clearing bits by it.
LEMMA BitOfComplement ==
  ASSUME NEW m \in Field(Dword), NEW k \in 0 .. Dword - 1
  PROVE  Bit(2^Dword - 1 - m, k) = 1 - Bit(m, k)
<1>0. Dword \in Nat \ {0} /\ k \in Nat /\ Dword - k - 1 \in Nat /\ Dword - k - 1 + 1 = Dword - k
      /\ k <= Dword /\ m \in Int
  BY Sizes DEF Field
<1>1. PICK p \in Nat \ {0} : p = 2^k
  BY <1>0, PowerDoubles
<1>2. PICK h \in Nat \ {0} : h = 2^(Dword - k - 1)
  BY <1>0, PowerDoubles
<1>3. 2^Dword = p * (2 * h)
  <2>1. 2^(Dword - k) = 2 * h
    BY <1>0, <1>2, PowerDoubles
  <2> QED BY <1>0, <1>1, <2>1, PowerDivides
<1>i. PICK i \in Int : i = m
  BY <1>0
<1>4. PICK q \in Int : q = i \div p
  BY Division
<1>5. PICK r \in 0 .. p - 1 : r = i % p
  BY Division
<1>6. i = p * q + r
  BY <1>4, <1>5, Division
<1>7. PICK c \in Int : c = 2^Dword - 1 - m
  BY <1>0, PowerFacts
<1>8. c = p * (2 * h - 1 - q) + (p - 1 - r)
  <2>1. p * (2 * h - 1 - q) = p * (2 * h) - p * 1 - p * q
    BY Z3
  <2>2. PICK a \in Int, b \in Int : a = p * (2 * h) /\ b = p * q
    BY Products
  <2>3. p * 1 = p
    BY Products
  <2>4. p * (2 * h - 1 - q) = a - p - b
    BY <2>1, <2>2, <2>3
  <2>5. i = b + r /\ c = a - 1 - i
    BY <1>3, <1>i, <1>6, <1>7, <2>2
  <2> QED BY <2>4, <2>5
<1>9. PICK g \in Int : g = 2 * h - 1 - q
  OBVIOUS
<1>10. PICK s \in 0 .. p - 1 : s = p - 1 - r
  OBVIOUS
<1>11. c \div p = g
  <2>1. c = p * g + s
    BY <1>8, <1>9, <1>10
  <2> QED BY <2>1, Division
<1>12. g % 2 = 1 - (q % 2)
  BY <1>9
<1> QED BY <1>1, <1>i, <1>4, <1>7, <1>11, <1>12 DEF Bit

LEMMA AndComplement ==
  ASSUME NEW x \in Field(Dword), NEW m \in Field(Dword)
  PROVE  x - And(x, m) = And(x, 2^Dword - 1 - m)
<1> DEFINE t == [k \in 1 .. Dword |-> IF Bit(x, k - 1) = 1 THEN 2^(k - 1) ELSE 0]
           s == BitTerms(x, m, {<<1, 1>>})
<1>0. Dword \in Nat \ {0} /\ x \in Int /\ m \in Int
  BY Sizes DEF Field
<1>c. PICK c \in Int : c = 2^Dword - 1 - m
  BY <1>0, PowerFacts
<1> DEFINE d == BitTerms(x, c, {<<1, 1>>})
<1>1. t \in [1 .. Dword -> Int] /\ Total(Dword, t) = x
  BY ValueOfBits
<1>2. s \in [1 .. Dword -> Int] /\ And(x, m) = Total(Dword, s)
  BY <1>0, BitTermsTyped DEF And
<1>3. d \in [1 .. Dword -> Int] /\ And(x, c) = Total(Dword, d)
  BY <1>0, BitTermsTyped DEF And
<1>4. ASSUME NEW k \in 1 .. Dword PROVE d[k] = t[k] - s[k]
  <2>0. k - 1 \in Nat /\ k - 1 \in 0 .. Dword - 1
    BY <1>0
  <2>1. 2^(k - 1) \in Nat
    BY <2>0, PowerDoubles
  <2>2. Bit(x, k - 1) \in {0, 1} /\ Bit(m, k - 1) \in {0, 1}
    BY <1>0, <2>0, BitType
  <2>3. Bit(c, k - 1) = 1 - Bit(m, k - 1)
    BY <1>c, <2>0, BitOfComplement
  <2> QED BY <2>1, <2>2, <2>3 DEF BitTerms
<1> HIDE DEF s, t, d
<1>5. Total(Dword, d) = Total(Dword, t) - Total(Dword, s)
  BY <1>0, <1>1, <1>2, <1>3, <1>4, TotalDifference
<1> QED BY <1>c, <1>1, <1>2, <1>3, <1>5

-----------------------------------------------------------------------------
(* Quotients and memory.                                                   *)
LEMMA QuotientLow ==
  ASSUME NEW x \in Int, NEW k \in Nat, NEW b \in Nat \ {0}, NEW n \in Nat, k + b <= n
  PROVE  x \div 2^k \in Int /\ U(U(x, n) \div 2^k, b) = U(x \div 2^k, b)
<1>1. PICK p \in Nat \ {0} : p = 2^k
  BY PowerDoubles
<1>2. PICK m \in Nat \ {0} : m = 2^b
  BY PowerDoubles
<1>3. PICK h \in Nat \ {0} : h = 2^(n - k - b)
  BY PowerDoubles, n - k - b \in Nat
<1>4. PICK e \in Nat \ {0} : e = m * h
  BY Products
<1>5. PICK f \in Nat \ {0} : f = p * e
  BY Products
<1>6. 2^n = f
  <2>1. k + b \in Nat /\ n - k - b \in Nat /\ b + (n - k - b) = n - k /\ n - k \in Nat /\ k + (n - k) = n
    OBVIOUS
  <2>2. 2^(n - k) = m * h
    BY <1>2, <1>3, <2>1, PowerAdds
  <2> QED BY <1>1, <1>4, <1>5, <2>1, <2>2, PowerAdds
<1>7. PICK q \in Int : x = (x % f) + f * q
  BY Remainder
<1>8. PICK y \in Int : y = x % f
  BY Remainder
<1>9. PICK u \in Int : u = y \div p
  BY Division
<1>10. PICK r \in 0 .. p - 1 : r = y % p
  BY Division
<1>11. y = p * u + r
  BY <1>9, <1>10, Division
<1>12. PICK t \in Int : t = e * q
  BY Products
<1>13. f * q = p * t
  BY <1>5, <1>12, Products
<1>14. PICK w \in Int : w = u + t
  OBVIOUS
<1>15. x = p * w + r
  <2>1. p * (u + t) = p * u + p * t /\ p * u \in Int /\ p * t \in Int
    BY Products
  <2> QED BY <1>7, <1>8, <1>11, <1>13, <1>14, <2>1
<1>16. x \div p = w
  BY <1>15, Division
<1>17. w % m = u % m
  <2>1. t = m * (h * q) /\ h * q \in Int
    BY <1>4, <1>12, Products
  <2>2. PICK z \in Int : z = h * q
    BY <2>1
  <2>3. w = u + m * z
    BY <1>14, <2>1, <2>2
  <2>4. Congruent(w, u, m)
    BY <2>3, CongruentStep
  <2> QED BY <2>4 DEF Congruent
<1> QED BY <1>1, <1>2, <1>6, <1>8, <1>9, <1>16, <1>17 DEF U

Memory == [Ram -> Field(Byte)]

\* n bytes make a number of n bytes.
LEMMA GatherType ==
  ASSUME NEW m \in Memory, NEW n \in Nat \ {0}, NEW a \in Ram, a + n - 1 \in Ram
  PROVE  Gather(m, a, n) \in Field(Byte * n) /\ Gather(m, a, n) \in Int
<1> DEFINE d == [k \in 1 .. n |-> m[a + k - 1]]
<1>0. Ram \subseteq Nat /\ a .. a + n - 1 \subseteq Ram /\ Byte \in Nat \ {0}
  BY HartConstants, Sizes
<1>1. ASSUME NEW k \in 1 .. n PROVE m[a + k - 1] \in Field(Byte)
  <2>1. a + k - 1 \in a .. a + n - 1
    BY <1>0
  <2> QED BY <1>0, <2>1 DEF Memory
<1>2. d \in [1 .. n -> Field(Byte)]
  BY <1>1
<1>3. Gather(m, a, n) = Total(n, Digits(n, Byte, d))
  BY DEF Gather, Digits
<1> HIDE DEF d
<1>4. Total(n, Digits(n, Byte, d)) \in Field(Byte * n)
  BY <1>0, <1>2, DigitsBelow
<1> QED BY <1>3, <1>4 DEF Field

\* Scatter keeps memory typed and changes the addressed bytes only.
LEMMA ScatterType ==
  ASSUME NEW m \in Memory, NEW a \in Int, NEW n \in Int, NEW x \in Int
  PROVE  /\ Scatter(m, a, n, x) \in Memory
         /\ \A b \in Ram \ (a .. a + n - 1) : Scatter(m, a, n, x)[b] = m[b]
<1>0. Byte \in Nat \ {0} /\ Ram \subseteq Nat /\ DOMAIN m = Ram
  BY Sizes, HartConstants DEF Memory
<1>1. ASSUME NEW b \in Ram, b \in a .. a + n - 1
      PROVE  U(x \div 2^(Byte * (b - a)), Byte) \in Field(Byte)
  <2>1. PICK k \in Nat : k = Byte * (b - a)
    BY <1>0, <1>1, Products, b - a \in Nat
  <2>2. PICK y \in Int : y = x \div 2^k
    BY BitType
  <2>3. U(y, Byte) \in Field(Byte)
    BY <1>0, LowBits
  <2> QED BY <2>1, <2>2, <2>3
<1>2. \A b \in Ram : m[b] \in Field(Byte)
  BY DEF Memory
<1> QED BY <1>0, <1>1, <1>2 DEF Scatter, Memory

\* Scatter looks at the low dword only.
LEMMA ScatterLow ==
  ASSUME NEW m \in Memory, NEW a \in Int, NEW n \in 0 .. 8, NEW x \in Int
  PROVE  Scatter(m, a, n, U(x, Dword)) = Scatter(m, a, n, x)
<1>0. Byte \in Nat \ {0} /\ Dword \in Nat \ {0} /\ Dword = 8 * Byte /\ Ram \subseteq Nat /\ DOMAIN m = Ram
  BY Sizes, HartConstants DEF Memory
<1>1. ASSUME NEW b \in Ram, b \in a .. a + n - 1
      PROVE  U(U(x, Dword) \div 2^(Byte * (b - a)), Byte) = U(x \div 2^(Byte * (b - a)), Byte)
  <2>1. b - a \in Nat /\ b - a <= 7
    BY <1>0, <1>1
  <2>2. PICK k \in Nat : k = Byte * (b - a)
    BY <1>0, <2>1, Products
  <2>3. k <= Byte * 7
    BY <1>0, <2>1, <2>2, Products
  <2>4. k + Byte <= Dword
    BY <1>0, <2>3
  <2> QED BY <1>0, <2>2, <2>4, QuotientLow
<1> QED BY <1>0, <1>1 DEF Scatter
-----------------------------------------------------------------------------
(* What a step of Hart is measured by. *)
Typed ==
  /\ gpr \in [Regs -> Field(Dword)] /\ fgpr \in [Regs -> Field(Dword)]
  /\ mem \in Memory /\ csr \in Field(Dword) /\ pc \in Field(Dword)
  /\ status \in {"runs", "halted", "stopped", "crashed"}

Confined(i) ==
  LET b == ISA!Expand(i)
      a == IF b.op \in DOMAIN ISA!SizeOf THEN ISA!At(b) ELSE gpr[b.rs1]
      n == IF b.op \in ISA!Storing THEN ISA!SizeOf[b.op]
           ELSE IF b.op \in {"amoswap.w", "amoadd.w"} THEN 4 ELSE 0
  IN /\ \A r \in DOMAIN gpr \ {0, ISA!Dest(b)} : gpr'[r] = gpr[r] \/ (r = 1 /\ Links(i))
     /\ gpr'[0] # gpr[0] => i.rd = 0 /\ i.op \in ZeroUnchecked \cup {"div"}
     /\ \A x \in DOMAIN mem \ (a .. a + n - 1) : mem'[x] = mem[x]

Keeps(i) == ~Excepted(i) => ISA!Executes(i) /\ status' = "runs"

Good(i) == Typed' /\ Confined(i) /\ Keeps(i)

Ready(i) == Typed /\ Encodable(i) /\ gpr[0] = 0 /\ status = "runs"

\* The instruction set's words are those of the model.
LEMMA IsaWords ==
  /\ ISA!Byte = Byte /\ ISA!Word = Word /\ ISA!Dword = Dword
  /\ \A x, b : ISA!U(x, b) = U(x, b) /\ ISA!SignExt(x, b) = SignExt(x, b)
  /\ \A x, y : ISA!And(x, y) = And(x, y) /\ ISA!Or(x, y) = Or(x, y) /\ ISA!Xor(x, y) = Xor(x, y)
  /\ \A m, a, n : ISA!Gather(m, a, n) = Gather(m, a, n)
  /\ \A m, a, n, x : ISA!Scatter(m, a, n, x) = Scatter(m, a, n, x)
  /\ \A x : ISA!Unsigned(x) = U(x, Dword) /\ ISA!Low(x) = SignExt(x, Word)
<1>1. ISA!Byte = Byte /\ ISA!Word = Word /\ ISA!Dword = Dword
  BY DEF ISA!Byte, Byte, ISA!Word, Word, ISA!Dword, Dword
<1>2. \A x, b : ISA!U(x, b) = U(x, b)
  BY DEF ISA!U, U
<1>3. \A x, b : ISA!SignExt(x, b) = SignExt(x, b)
  BY <1>2 DEF ISA!SignExt, SignExt
<1>4. \A n, t : ISA!Total(n, t) = Total(n, t)
  BY DEF ISA!Total, Total
<1>5. \A x, k : ISA!Bit(x, k) = Bit(x, k)
  BY DEF ISA!Bit, Bit
<1>6. \A x, y, o : ISA!BitByBit(x, y, o) = BitByBit(x, y, o)
  BY <1>1, <1>4, <1>5 DEF ISA!BitByBit, BitByBit
<1>7. \A x, y : ISA!And(x, y) = And(x, y) /\ ISA!Or(x, y) = Or(x, y) /\ ISA!Xor(x, y) = Xor(x, y)
  BY <1>6 DEF ISA!And, And, ISA!Or, Or, ISA!Xor, Xor
<1>8. \A m, a, n : ISA!Gather(m, a, n) = Gather(m, a, n)
  BY <1>1, <1>4 DEF ISA!Gather, Gather
<1>9. \A m, a, n, x : ISA!Scatter(m, a, n, x) = Scatter(m, a, n, x)
  BY <1>1, <1>2 DEF ISA!Scatter, Scatter
<1>10. \A x : ISA!Unsigned(x) = U(x, Dword) /\ ISA!Low(x) = SignExt(x, Word)
  BY <1>1, <1>2, <1>3 DEF ISA!Unsigned, ISA!Low
<1> QED BY <1>1, <1>2, <1>3, <1>7, <1>8, <1>9, <1>10

(* A register as a signed number. *)
LEMMA Registers ==
  ASSUME Typed, gpr[0] = 0, NEW r \in Regs
  PROVE  /\ gpr[r] \in Field(Dword) /\ gpr[r] \in Nat
         /\ ISA!Reg(r) = S(r) /\ S(r) \in Int /\ S(r) \in Signed(Dword)
         /\ U(S(r), Dword) = gpr[r] /\ U(gpr[r], Dword) = gpr[r]
         /\ Same(S(r), gpr[r], Dword)
<1>1. gpr[r] \in Field(Dword) /\ gpr[r] \in Nat /\ Dword \in Nat \ {0}
  BY Sizes DEF Typed, Field
<1>2. PICK x \in Nat : x = gpr[r] /\ x \in Field(Dword)
  BY <1>1
<1>3. SignExt(x, Dword) \in Int /\ U(SignExt(x, Dword), Dword) = U(x, Dword)
      /\ SignExt(x, Dword) \in Signed(Dword)
  BY <1>1, SignBits
<1>4. U(x, Dword) = x
  BY <1>1, <1>2, LowBits
<1>5. SignExt(0, Dword) = 0
  <2>1. PICK h \in Nat \ {0} : h = 2^(Dword - 1)
    BY <1>1, PowerFacts
  <2>2. 0 \in -h .. h - 1
    OBVIOUS
  <2>3. 0 \in Signed(Dword)
    BY <2>1, <2>2 DEF Signed
  <2> QED BY <1>1, <2>3, SignBits
<1>6. ISA!Reg(r) = S(r)
  BY <1>5, IsaWords DEF ISA!Reg, S
<1> QED BY <1>1, <1>2, <1>3, <1>4, <1>6 DEF S, Same

-----------------------------------------------------------------------------
(* The ways a function ends. *)
LEMMA WritesOne ==
  ASSUME Typed, NEW rd \in Regs, NEW v \in Int, Writes(rd, v)
  PROVE  /\ gpr' \in [Regs -> Field(Dword)]
         /\ \A r \in Regs \ {rd} : gpr'[r] = gpr[r]
         /\ gpr' = [gpr EXCEPT ![rd] = U(v, Dword)]
<1>1. U(v, Dword) \in Field(Dword)
  BY Sizes, LowBits
<1> QED BY <1>1 DEF Typed, Writes

\* A write with the test for x0 leaves x0 alone.
LEMMA WriteOne ==
  ASSUME Typed, NEW rd \in Regs, NEW v \in Int, Write(rd, v)
  PROVE  /\ gpr' \in [Regs -> Field(Dword)]
         /\ \A r \in Regs \ {0, rd} : gpr'[r] = gpr[r]
         /\ gpr'[0] = gpr[0]
         /\ gpr' = IF rd = 0 THEN gpr ELSE [gpr EXCEPT ![rd] = U(v, Dword)]
<1>0. 0 \in Regs
  BY HartConstants
<1>1. CASE rd = 0
  BY <1>1 DEF Write, Typed
<1>2. CASE rd # 0
  <2>1. Writes(rd, v)
    BY <1>2 DEF Write
  <2>2. /\ gpr' \in [Regs -> Field(Dword)]
        /\ \A r \in Regs \ {rd} : gpr'[r] = gpr[r]
        /\ gpr' = [gpr EXCEPT ![rd] = U(v, Dword)]
    BY <2>1, WritesOne
  <2> QED BY <1>0, <1>2, <2>2
<1> QED BY <1>1, <1>2

\* A jump keeps the width of pc.
LEMMA GoesTyped ==
  ASSUME NEW t \in Int, Goes(t)
  PROVE  pc' \in Field(Dword) /\ pc' = U(t, Dword)
BY Sizes, LowBits DEF Goes
-----------------------------------------------------------------------------
(* The operations with two numbers for operands and one for a result. *)
Computing ==
  {"addi", "xori", "ori", "andi", "slti", "sltiu", "slli", "srli", "srai",
   "addiw", "slliw", "srliw", "sraiw",
   "add", "sub", "xor", "or", "and", "sltu", "srl", "mul", "div", "divu", "remu",
   "addw", "subw", "sllw", "divuw", "remuw"}

\* What the instruction set says of them, the result apart.
LEMMA IsaComputes ==
  ASSUME NEW b, b.op \in Computing
  PROVE  /\ ISA!Dest(b) = b.rd /\ ISA!Value(b) = ISA!Result(b) /\ ISA!Target(b) = pc + b.len
         /\ ISA!NewFloat(b) = fgpr /\ ISA!NewCsr(b) = csr /\ ISA!Stored(b) = mem
         /\ ~ISA!Traps(b) /\ b.op \notin ISA!Storing \cup {"amoswap.w", "amoadd.w"}
<1>1. ISA!Dest(b) = b.rd /\ b.op \notin ISA!Storing \cup {"amoswap.w", "amoadd.w"}
  BY DEF Computing, ISA!Dest, ISA!Storing, ISA!Branching, ISA!ToFloat
<1>2. ISA!Value(b) = ISA!Result(b)
  BY DEF Computing, ISA!Value, ISA!Loading, ISA!CsrOps
<1>3. ISA!Target(b) = pc + b.len
  BY DEF Computing, ISA!Target, ISA!Branching
<1>4. ISA!NewFloat(b) = fgpr
  BY DEF Computing, ISA!NewFloat
<1>5. ISA!NewCsr(b) = csr
  BY DEF Computing, ISA!NewCsr
<1>6. ISA!Stored(b) = mem
  BY DEF Computing, ISA!Stored, ISA!Storing
<1>7. ~ISA!Traps(b)
  BY DEF Computing, ISA!Traps
<1> QED BY <1>1, <1>2, <1>3, <1>4, <1>5, <1>6, <1>7

\* A step that writes their result, or is excepted, is as it should be.
LEMMA Computes ==
  ASSUME NEW i, Ready(i), NEW rd \in Regs, NEW v \in Int, NEW len \in Nat,
         ISA!Expand(i).op \in Computing, ISA!Expand(i).rd = rd, ISA!Expand(i).len = len,
         Write(rd, v), Skips(len), UNCHANGED <<fgpr, csr, mem, status>>,
         ~Excepted(i) /\ rd # 0 => Same(v, ISA!Result(ISA!Expand(i)), Dword)
  PROVE  Good(i)
<1> DEFINE b == ISA!Expand(i)
<1>1. /\ ISA!Dest(b) = rd /\ ISA!Value(b) = ISA!Result(b) /\ ISA!Target(b) = pc + len
      /\ ISA!NewFloat(b) = fgpr /\ ISA!NewCsr(b) = csr /\ ISA!Stored(b) = mem
      /\ ~ISA!Traps(b) /\ b.op \notin ISA!Storing \cup {"amoswap.w", "amoadd.w"}
  BY IsaComputes
<1> HIDE DEF b
<1>2. /\ gpr' \in [Regs -> Field(Dword)]
      /\ \A r \in Regs \ {0, rd} : gpr'[r] = gpr[r]
      /\ gpr'[0] = gpr[0]
      /\ gpr' = IF rd = 0 THEN gpr ELSE [gpr EXCEPT ![rd] = U(v, Dword)]
  BY WriteOne DEF Ready
<1>3. pc' \in Field(Dword) /\ pc' = U(pc + len, Dword)
  <2>1. pc + len \in Int
    BY DEF Ready, Typed, Field
  <2> QED BY <2>1, GoesTyped DEF Skips
<1>4. Typed'
  BY <1>2, <1>3 DEF Ready, Typed, Memory
<1>5. Confined(i)
  <2>1. DOMAIN gpr = Regs
    BY DEF Ready, Typed
  <2> QED BY <1>1, <1>2, <2>1 DEF Confined, b
<1>6. ASSUME rd = 0 \/ Same(v, ISA!Result(b), Dword) PROVE ISA!Executes(i)
  BY <1>1, <1>2, <1>3, <1>6, IsaWords DEF ISA!Executes, b, Same
<1>7. Keeps(i)
  BY <1>6 DEF Keeps, b, Ready
<1> QED BY <1>4, <1>5, <1>7 DEF Good

(* The shifts with an immediate, which is the only one not extended.        *)
Shifts == {"slli", "srli", "srai", "slliw", "srliw", "sraiw"}

\* An instruction of 32 bits is executed as it stands.
LEMMA ExpandFull ==
  ASSUME NEW i, i.op \in Computing
  PROVE  LET b == ISA!Expand(i)
         IN  /\ b.op = i.op /\ b.rd = i.rd /\ b.rs1 = i.rs1 /\ b.rs2 = i.rs2 /\ b.len = 4
             /\ b.imm = IF i.op \in Shifts THEN i.imm ELSE SignExt(i.imm, ImmBits)
<1>1. CASE i.op \in Shifts
  <2>1. ISA!Expand(i) = [op |-> i.op, rd |-> i.rd, rs1 |-> i.rs1, rs2 |-> i.rs2, len |-> 4, imm |-> i.imm]
    BY <1>1 DEF Shifts, ISA!Expand
  <2> HIDE DEF ISA!Expand
  <2> QED BY <1>1, <2>1
<1>2. CASE i.op \notin Shifts
  <2>1. ISA!Expand(i) = [op |-> i.op, rd |-> i.rd, rs1 |-> i.rs1, rs2 |-> i.rs2, len |-> 4,
                         imm |-> ISA!SignExt(i.imm, ImmBits)]
    BY <1>2 DEF Shifts, Computing, ISA!Expand
  <2>2. ISA!SignExt(i.imm, ImmBits) = SignExt(i.imm, ImmBits)
    BY IsaWords
  <2> QED BY <1>2, <2>1, <2>2
<1> QED BY <1>1, <1>2

\* The fields of an instruction.
LEMMA Immediates ==
  ASSUME NEW i, Encodable(i)
  PROVE  /\ i.rd \in Regs /\ i.rs1 \in Regs /\ i.rs2 \in Regs /\ i.imm \in Field(Dword) /\ i.imm \in Nat
         /\ SignExt(i.imm, ImmBits) \in Int /\ CImm(i) \in Int
         /\ Imm(i) \in Field(Dword) /\ Imm(i) \in Nat
         /\ Same(Imm(i), SignExt(i.imm, ImmBits), Dword) /\ U(Imm(i), Dword) = Imm(i)
<1>1. i.rd \in Regs /\ i.rs1 \in Regs /\ i.rs2 \in Regs /\ i.imm \in Field(Dword) /\ i.imm \in Nat
  BY DEF Encodable, Field
<1>2. ImmBits \in Nat \ {0} /\ CImmBits \in Nat \ {0}
  BY HartConstants
<1>3. SignExt(i.imm, ImmBits) \in Int /\ SignExt(i.imm, CImmBits) \in Int
  BY <1>1, <1>2, SignBits
<1>4. PICK m \in Int : m = SignExt(i.imm, ImmBits)
  BY <1>3
<1>5. U(m, Dword) \in Field(Dword) /\ U(m, Dword) \in Nat /\ U(U(m, Dword), Dword) = U(m, Dword)
  BY Sizes, LowBits
<1> QED BY <1>1, <1>3, <1>4, <1>5 DEF Imm, CImm, Same

(* The operands of an instruction: x is a register and X the signed number *)
(* it stands for.                                                          *)
Operands(i, x, X, y, Y, m, M) ==
  /\ x = gpr[i.rs1] /\ x \in Field(Dword) /\ x >= 0
  /\ X = S(i.rs1) /\ X = ISA!Reg(i.rs1) /\ U(X, Dword) = x /\ Same(x, X, Dword)
  /\ y = gpr[i.rs2] /\ y \in Field(Dword) /\ y >= 0
  /\ Y = S(i.rs2) /\ Y = ISA!Reg(i.rs2) /\ U(Y, Dword) = y /\ Same(y, Y, Dword)
  /\ m = Imm(i) /\ m >= 0 /\ M = SignExt(i.imm, ImmBits) /\ U(M, Dword) = m /\ Same(m, M, Dword)
  /\ i.rd \in Regs /\ Dword \in Nat \ {0}

\* Every instruction to be executed has its operands.
LEMMA OperandsExist ==
  ASSUME NEW i, Ready(i)
  PROVE  \E x, X, y, Y, m, M \in Int : Operands(i, x, X, y, Y, m, M)
<1>0. Typed /\ gpr[0] = 0 /\ Encodable(i)
  BY DEF Ready
<1>1. PICK x \in Int, X \in Int :
        /\ x = gpr[i.rs1] /\ x \in Field(Dword) /\ x >= 0
        /\ X = S(i.rs1) /\ X = ISA!Reg(i.rs1) /\ U(X, Dword) = x /\ Same(x, X, Dword)
  BY <1>0, Immediates, Registers DEF Same
<1>2. PICK y \in Int, Y \in Int :
        /\ y = gpr[i.rs2] /\ y \in Field(Dword) /\ y >= 0
        /\ Y = S(i.rs2) /\ Y = ISA!Reg(i.rs2) /\ U(Y, Dword) = y /\ Same(y, Y, Dword)
  BY <1>0, Immediates, Registers DEF Same
<1>3. PICK m \in Int, M \in Int :
        m = Imm(i) /\ m >= 0 /\ M = SignExt(i.imm, ImmBits) /\ U(M, Dword) = m /\ Same(m, M, Dword)
  BY <1>0, Immediates DEF Imm
<1>4. Operands(i, x, X, y, Y, m, M)
  BY <1>0, <1>1, <1>2, <1>3, Immediates, Sizes DEF Operands
<1> QED BY <1>4

(* Sums, differences, products and comparisons.                            *)
LEMMA FullSums ==
  ASSUME NEW i, Ready(i), exec_add(i) \/ exec_sub(i) \/ exec_addi(i) \/ exec_sltu(i) \/ exec_slti(i) \/ exec_sltiu(i)
  PROVE  Good(i)
<1> DEFINE b == ISA!Expand(i)
<1>0. PICK x, X, y, Y, m, M \in Int : Operands(i, x, X, y, Y, m, M)
  BY OperandsExist
<1>1. i.rd \in Regs /\ Dword \in Nat \ {0}
  BY <1>0 DEF Operands
<1>2. CASE exec_add(i)
  <2>1. i.op = "add" /\ Gives(i.rd, x + y)
    BY <1>0, <1>2 DEF exec_add, Operands
  <2>2. b.op = "add" /\ b.rd = i.rd /\ b.rs1 = i.rs1 /\ b.rs2 = i.rs2 /\ b.len = 4
    BY <1>0, <2>1, ExpandFull DEF Computing, Shifts, Operands
  <2> HIDE DEF b
  <2>3. ISA!Result(b) = X + Y
    BY <1>0, <2>2, IsaWords DEF Operands, ISA!Result, ISA!Apply, ISA!Immediate, ISA!OfWords
  <2>4. Same(x + y, X + Y, Dword)
    BY <1>0, SameLowBits DEF Operands
  <2> QED BY <1>1, <2>1, <2>2, <2>3, <2>4, Computes DEF b, Gives, Computing, Same
<1>3. CASE exec_sub(i)
  <2>1. i.op = "sub" /\ Gives(i.rd, X - Y)
    BY <1>0, <1>3 DEF exec_sub, Operands
  <2>2. b.op = "sub" /\ b.rd = i.rd /\ b.rs1 = i.rs1 /\ b.rs2 = i.rs2 /\ b.len = 4
    BY <1>0, <2>1, ExpandFull DEF Computing, Shifts, Operands
  <2> HIDE DEF b
  <2>3. ISA!Result(b) = X - Y
    BY <1>0, <2>2, IsaWords DEF Operands, ISA!Result, ISA!Apply, ISA!Immediate, ISA!OfWords
  <2> QED BY <1>1, <2>1, <2>2, <2>3, Computes DEF b, Gives, Computing, Same
<1>4. CASE exec_addi(i)
  <2>1. i.op = "addi" /\ Gives(i.rd, x + m)
    BY <1>0, <1>4 DEF exec_addi, Operands
  <2>2. b.op = "addi" /\ b.rd = i.rd /\ b.rs1 = i.rs1 /\ b.imm = M /\ b.len = 4
    BY <1>0, <2>1, ExpandFull DEF Computing, Shifts, Operands
  <2> HIDE DEF b
  <2>3. ISA!Result(b) = X + M
    BY <1>0, <2>2, IsaWords DEF Operands, ISA!Result, ISA!Apply, ISA!Immediate, ISA!OfWords
  <2>4. Same(x + m, X + M, Dword)
    BY <1>0, SameLowBits DEF Operands
  <2> QED BY <1>1, <2>1, <2>2, <2>3, <2>4, Computes DEF b, Gives, Computing, Same
<1>5. CASE exec_sltu(i)
  <2>1. i.op = "sltu" /\ Gives(i.rd, IF x < y THEN 1 ELSE 0)
    BY <1>0, <1>5 DEF exec_sltu, Operands
  <2>2. b.op = "sltu" /\ b.rd = i.rd /\ b.rs1 = i.rs1 /\ b.rs2 = i.rs2 /\ b.len = 4
    BY <1>0, <2>1, ExpandFull DEF Computing, Shifts, Operands
  <2> HIDE DEF b
  <2>3. ISA!Result(b) = IF x < y THEN 1 ELSE 0
    BY <1>0, <2>2, IsaWords DEF Operands, ISA!Result, ISA!Apply, ISA!Immediate, ISA!OfWords
  <2> QED BY <1>1, <2>1, <2>2, <2>3, Computes DEF b, Gives, Computing, Same
<1>6. CASE exec_slti(i)
  <2>1. i.op = "slti" /\ Gives(i.rd, IF X < M THEN 1 ELSE 0)
    BY <1>0, <1>6 DEF exec_slti, Operands
  <2>2. b.op = "slti" /\ b.rd = i.rd /\ b.rs1 = i.rs1 /\ b.imm = M /\ b.len = 4
    BY <1>0, <2>1, ExpandFull DEF Computing, Shifts, Operands
  <2> HIDE DEF b
  <2>3. ISA!Result(b) = IF X < M THEN 1 ELSE 0
    BY <1>0, <2>2, IsaWords DEF Operands, ISA!Result, ISA!Apply, ISA!Immediate, ISA!OfWords
  <2> QED BY <1>1, <2>1, <2>2, <2>3, Computes DEF b, Gives, Computing, Same
<1>7. CASE exec_sltiu(i)
  <2>1. i.op = "sltiu" /\ Gives(i.rd, IF x < m THEN 1 ELSE 0)
    BY <1>0, <1>7 DEF exec_sltiu, Operands
  <2>2. b.op = "sltiu" /\ b.rd = i.rd /\ b.rs1 = i.rs1 /\ b.imm = M /\ b.len = 4
    BY <1>0, <2>1, ExpandFull DEF Computing, Shifts, Operands
  <2> HIDE DEF b
  <2>3. ISA!Result(b) = IF x < m THEN 1 ELSE 0
    BY <1>0, <2>2, IsaWords DEF Operands, ISA!Result, ISA!Apply, ISA!Immediate, ISA!OfWords
  <2> QED BY <1>1, <2>1, <2>2, <2>3, Computes DEF b, Gives, Computing, Same
<1> QED BY <1>2, <1>3, <1>4, <1>5, <1>6, <1>7

(* Bit by bit.                                                             *)
LEMMA FullBitwise ==
  ASSUME NEW i, Ready(i), exec_xor(i) \/ exec_xori(i) \/ exec_ori(i) \/ exec_andi(i)
  PROVE  Good(i)
<1> DEFINE b == ISA!Expand(i)
<1>0. PICK x, X, y, Y, m, M \in Int : Operands(i, x, X, y, Y, m, M)
  BY OperandsExist
<1>1. i.rd \in Regs /\ Dword \in Nat \ {0}
  BY <1>0 DEF Operands
<1>2. CASE exec_xor(i)
  <2>1. i.op = "xor" /\ Gives(i.rd, Xor(x, y))
    BY <1>0, <1>2 DEF exec_xor, Operands
  <2>2. b.op = "xor" /\ b.rd = i.rd /\ b.rs1 = i.rs1 /\ b.rs2 = i.rs2 /\ b.len = 4
    BY <1>0, <2>1, ExpandFull DEF Computing, Shifts, Operands
  <2> HIDE DEF b
  <2>3. ISA!Result(b) = Xor(x, y)
    BY <1>0, <2>2, IsaWords DEF Operands, ISA!Result, ISA!Apply, ISA!Immediate, ISA!OfWords
  <2>4. Xor(x, y) \in Int
    BY BitwiseType DEF Field
  <2> QED BY <1>1, <2>1, <2>2, <2>3, <2>4, Computes DEF b, Gives, Computing, Same
<1>3. CASE exec_xori(i)
  <2>1. i.op = "xori" /\ Gives(i.rd, Xor(x, m))
    BY <1>0, <1>3 DEF exec_xori, Operands
  <2>2. b.op = "xori" /\ b.rd = i.rd /\ b.rs1 = i.rs1 /\ b.imm = M /\ b.len = 4
    BY <1>0, <2>1, ExpandFull DEF Computing, Shifts, Operands
  <2> HIDE DEF b
  <2>3. ISA!Result(b) = Xor(x, m)
    BY <1>0, <2>2, IsaWords DEF Operands, ISA!Result, ISA!Apply, ISA!Immediate, ISA!OfWords
  <2>4. Xor(x, m) \in Int
    BY BitwiseType DEF Field
  <2> QED BY <1>1, <2>1, <2>2, <2>3, <2>4, Computes DEF b, Gives, Computing, Same
<1>4. CASE exec_ori(i)
  <2>1. i.op = "ori" /\ Gives(i.rd, Or(x, m))
    BY <1>0, <1>4 DEF exec_ori, Operands
  <2>2. b.op = "ori" /\ b.rd = i.rd /\ b.rs1 = i.rs1 /\ b.imm = M /\ b.len = 4
    BY <1>0, <2>1, ExpandFull DEF Computing, Shifts, Operands
  <2> HIDE DEF b
  <2>3. ISA!Result(b) = Or(x, m)
    BY <1>0, <2>2, IsaWords DEF Operands, ISA!Result, ISA!Apply, ISA!Immediate, ISA!OfWords
  <2>4. Or(x, m) \in Int
    BY BitwiseType DEF Field
  <2> QED BY <1>1, <2>1, <2>2, <2>3, <2>4, Computes DEF b, Gives, Computing, Same
<1>5. CASE exec_andi(i)
  <2>1. i.op = "andi" /\ Gives(i.rd, And(x, m))
    BY <1>0, <1>5 DEF exec_andi, Operands
  <2>2. b.op = "andi" /\ b.rd = i.rd /\ b.rs1 = i.rs1 /\ b.imm = M /\ b.len = 4
    BY <1>0, <2>1, ExpandFull DEF Computing, Shifts, Operands
  <2> HIDE DEF b
  <2>3. ISA!Result(b) = And(x, m)
    BY <1>0, <2>2, IsaWords DEF Operands, ISA!Result, ISA!Apply, ISA!Immediate, ISA!OfWords
  <2>4. And(x, m) \in Int
    BY BitwiseType DEF Field
  <2> QED BY <1>1, <2>1, <2>2, <2>3, <2>4, Computes DEF b, Gives, Computing, Same
<1> QED BY <1>2, <1>3, <1>4, <1>5

-----------------------------------------------------------------------------
\* and and or, which reset x0 as well.
LEMMA FullAndOr ==
  ASSUME NEW i, Ready(i), exec_and(i) \/ exec_or(i)
  PROVE  Good(i)
<1> DEFINE b == ISA!Expand(i)
<1>0. PICK x, X, y, Y, m, M \in Int : Operands(i, x, X, y, Y, m, M)
  BY OperandsExist
<1>1. i.rd \in Regs /\ Dword \in Nat \ {0} /\ gpr \in [Regs -> Field(Dword)] /\ gpr[0] = 0 /\ 0 \in Regs
  BY <1>0, HartConstants DEF Operands, Ready, Typed
<1>2. ASSUME NEW v \in Field(Dword), ResetsZero(i.rd, v) PROVE Gives(i.rd, v) /\ v \in Int
  <2>1. v \in Int /\ U(v, Dword) = v
    BY <1>1, LowBits DEF Field
  <2>2. CASE i.rd = 0
    BY <1>1, <1>2, <2>1, <2>2 DEF ResetsZero, Gives, Write
  <2>3. CASE i.rd # 0
    <3>1. gpr' = [gpr EXCEPT ![i.rd] = v]
      BY <1>1, <1>2, <2>3 DEF ResetsZero
    <3> QED BY <1>2, <2>1, <2>3, <3>1 DEF ResetsZero, Gives, Write, Writes
  <2> QED BY <2>2, <2>3
<1>3. CASE exec_and(i)
  <2>0. And(x, y) \in Field(Dword)
    BY BitwiseType
  <2>1. i.op = "and" /\ Gives(i.rd, And(x, y)) /\ And(x, y) \in Int
    BY <1>0, <1>2, <1>3, <2>0 DEF exec_and, Operands
  <2>2. b.op = "and" /\ b.rd = i.rd /\ b.rs1 = i.rs1 /\ b.rs2 = i.rs2 /\ b.len = 4
    BY <2>1, ExpandFull DEF Computing
  <2> HIDE DEF b
  <2>3. ISA!Result(b) = And(x, y)
    BY <1>0, <2>2, IsaWords DEF Operands, ISA!Result, ISA!Apply, ISA!Immediate, ISA!OfWords
  <2> QED BY <1>1, <2>1, <2>2, <2>3, Computes DEF b, Gives, Computing, Same
<1>4. CASE exec_or(i)
  <2>0. Or(x, y) \in Field(Dword)
    BY BitwiseType
  <2>1. i.op = "or" /\ Gives(i.rd, Or(x, y)) /\ Or(x, y) \in Int
    BY <1>0, <1>2, <1>4, <2>0 DEF exec_or, Operands
  <2>2. b.op = "or" /\ b.rd = i.rd /\ b.rs1 = i.rs1 /\ b.rs2 = i.rs2 /\ b.len = 4
    BY <2>1, ExpandFull DEF Computing
  <2> HIDE DEF b
  <2>3. ISA!Result(b) = Or(x, y)
    BY <1>0, <2>2, IsaWords DEF Operands, ISA!Result, ISA!Apply, ISA!Immediate, ISA!OfWords
  <2> QED BY <1>1, <2>1, <2>2, <2>3, Computes DEF b, Gives, Computing, Same
<1> QED BY <1>3, <1>4

(* Shifts. *)
LEMMA ShiftsTyped ==
  ASSUME NEW x \in Int, NEW k \in Nat
  PROVE  /\ x \div 2^k \in Int /\ x * 2^k \in Int /\ 2^k \in Int
         /\ \A y \in Int, b \in Nat \ {0} : Same(x, y, b) => Same(x * 2^k, y * 2^k, b)
<1>1. PICK p \in Int : p = 2^k
  BY PowerDoubles
<1>2. x * p \in Int
  BY Products
<1>3. ASSUME NEW y \in Int, NEW b \in Nat \ {0}, Same(x, y, b) PROVE Same(x * p, y * p, b)
  <2>1. Same(p, p, b)
    BY DEF Same
  <2> QED BY <1>3, <2>1, SameLowBits
<1> QED BY <1>1, <1>2, <1>3, BitType

\* The shifts of dwords.
LEMMA FullShifts ==
  ASSUME NEW i, Ready(i), exec_srl(i) \/ exec_slli(i) \/ exec_si(i)
  PROVE  Good(i)
<1> DEFINE b == ISA!Expand(i)
<1>0. PICK x, X, y, Y, m, M \in Int : Operands(i, x, X, y, Y, m, M)
  BY OperandsExist
<1>1. i.rd \in Regs /\ Dword \in Nat \ {0}
  BY <1>0 DEF Operands
<1>2. U(i.imm, Dword) = i.imm /\ i.imm \in Nat
  BY <1>1, Immediates, LowBits DEF Ready
<1>3. PICK k \in Nat : k = y % Dword
  <2>1. PICK n \in Nat \ {0} : n = Dword
    BY <1>1
  <2>2. y % n \in 0 .. n - 1
    BY Remainder
  <2> QED BY <2>1, <2>2
<1>4. PICK j \in Nat : j = i.imm % Dword
  <2>1. PICK n \in Nat : n = i.imm
    BY <1>2
  <2> QED BY <1>1, <2>1, Remainder
<1>5. CASE exec_srl(i)
  <2>1. i.op = "srl" /\ Gives(i.rd, x \div 2^k)
    BY <1>0, <1>3, <1>5 DEF exec_srl, Operands
  <2>2. b.op = "srl" /\ b.rd = i.rd /\ b.rs1 = i.rs1 /\ b.rs2 = i.rs2 /\ b.len = 4
    BY <2>1, ExpandFull DEF Computing
  <2> HIDE DEF b
  <2>3. ISA!Result(b) = x \div 2^k
    BY <1>0, <1>3, <2>2, IsaWords DEF Operands, ISA!Result, ISA!Apply, ISA!Immediate, ISA!OfWords
  <2>4. x \div 2^k \in Int
    BY ShiftsTyped
  <2> QED BY <1>1, <2>1, <2>2, <2>3, <2>4, Computes DEF b, Gives, Computing, Same
<1>6. CASE exec_slli(i)
  <2>1. i.op = "slli" /\ Gives(i.rd, x * 2^j)
    BY <1>0, <1>4, <1>6 DEF exec_slli, Operands
  <2>2. b.op = "slli" /\ b.rd = i.rd /\ b.rs1 = i.rs1 /\ b.imm = i.imm /\ b.len = 4
    BY <2>1, ExpandFull DEF Computing, Shifts
  <2> HIDE DEF b
  <2>3. ISA!Result(b) = X * 2^j
    BY <1>0, <1>2, <1>4, <2>2, IsaWords DEF Operands, ISA!Result, ISA!Apply, ISA!Immediate, ISA!OfWords
  <2>4. x * 2^j \in Int /\ Same(x * 2^j, X * 2^j, Dword)
    BY <1>0, <1>1, ShiftsTyped DEF Operands
  <2> QED BY <1>1, <2>1, <2>2, <2>3, <2>4, Computes DEF b, Gives, Computing
<1>7. CASE exec_si(i)
  <2>1. CASE i.op = "srli" /\ Gives(i.rd, x \div 2^j)
    <3>2. b.op = "srli" /\ b.rd = i.rd /\ b.rs1 = i.rs1 /\ b.imm = i.imm /\ b.len = 4
      BY <2>1, ExpandFull DEF Computing, Shifts
    <3> HIDE DEF b
    <3>3. ISA!Result(b) = x \div 2^j
      BY <1>0, <1>2, <1>4, <3>2, IsaWords DEF Operands, ISA!Result, ISA!Apply, ISA!Immediate, ISA!OfWords
    <3>4. x \div 2^j \in Int
      BY ShiftsTyped
    <3> QED BY <1>1, <2>1, <3>2, <3>3, <3>4, Computes DEF b, Gives, Computing, Same
  <2>2. CASE i.op = "srai" /\ Gives(i.rd, X \div 2^j)
    <3>2. b.op = "srai" /\ b.rd = i.rd /\ b.rs1 = i.rs1 /\ b.imm = i.imm /\ b.len = 4
      BY <2>2, ExpandFull DEF Computing, Shifts
    <3> HIDE DEF b
    <3>3. ISA!Result(b) = X \div 2^j
      BY <1>0, <1>2, <1>4, <3>2, IsaWords DEF Operands, ISA!Result, ISA!Apply, ISA!Immediate, ISA!OfWords
    <3>4. X \div 2^j \in Int
      BY ShiftsTyped
    <3> QED BY <1>1, <2>2, <3>2, <3>3, <3>4, Computes DEF b, Gives, Computing, Same
  <2> QED BY <1>0, <1>4, <1>7, <2>1, <2>2 DEF exec_si, Operands
<1> QED BY <1>5, <1>6, <1>7

(* The low word of a product is the product if that is short. *)
LEMMA ShortProduct ==
  ASSUME NEW z \in Int, U(z, Dword) < 2^Word
  PROVE  U(z, Word) = U(z, Dword)
<1>1. Word \in Nat \ {0} /\ Dword \in Nat \ {0} /\ Word <= Dword
  BY Sizes
<1>2. PICK u \in Nat : u = U(z, Dword)
  BY <1>1, LowBits
<1>3. u \in Field(Word)
  <2>1. 2^Word \in Nat
    BY <1>1, PowerFacts
  <2> QED BY <1>2, <2>1 DEF Field
<1>4. U(u, Word) = u
  BY <1>1, <1>3, LowBits
<1>5. U(U(z, Dword), Word) = U(z, Word)
  BY <1>1, Narrower
<1> QED BY <1>2, <1>4, <1>5

\* mul keeps the low word, which is the product when it is short.
LEMMA FullMul ==
  ASSUME NEW i, Ready(i), exec_mul(i)
  PROVE  Good(i)
<1> DEFINE b == ISA!Expand(i)
<1>0. PICK x, X, y, Y, m, M \in Int : Operands(i, x, X, y, Y, m, M)
  BY OperandsExist
<1>1. i.rd \in Regs /\ Dword \in Nat \ {0} /\ Word \in Nat \ {0} /\ Word <= Dword
  BY <1>0, Sizes DEF Operands
<1>2. i.op = "mul" /\ Gives(i.rd, U(x * y, Word))
  BY <1>0 DEF exec_mul, Operands
<1>3. b.op = "mul" /\ b.rd = i.rd /\ b.rs1 = i.rs1 /\ b.rs2 = i.rs2 /\ b.len = 4
  BY <1>2, ExpandFull DEF Computing
<1>x. ~Excepted(i) /\ i.rd # 0 => U(X * Y, Dword) < 2^Word
  <2>1. PICK z \in Int : z = X * Y
    BY Products
  <2>2. U(z, Dword) \in Int /\ 2^Word \in Int
    BY <1>1, LowBits, PowerFacts
  <2>3. ~Excepted(i) /\ i.rd # 0 => ~(U(z, Dword) >= 2^Word)
    BY <1>0, <1>2, <2>1 DEF Excepted, Operands
  <2> QED BY <2>1, <2>2, <2>3
<1> HIDE DEF b
<1>4. ISA!Result(b) = X * Y
  BY <1>0, <1>3, IsaWords DEF Operands, ISA!Result, ISA!Apply, ISA!Immediate, ISA!OfWords
<1>9. Same(x * y, X * Y, Dword)
  BY <1>0, <1>1, SameLowBits DEF Operands
<1>5. PICK z \in Int, Z \in Int : z = x * y /\ Z = X * Y
  BY Products
<1>10. Same(z, Z, Dword)
  BY <1>5, <1>9
<1>6. U(z, Word) \in Int /\ U(z, Word) \in Field(Dword) /\ U(z, Word) \in Field(Word)
  BY <1>1, LowBits, Narrower
<1>7. ASSUME U(Z, Dword) < 2^Word PROVE Same(U(z, Word), Z, Dword)
  <2>1. U(z, Word) = U(z, Dword)
    BY <1>7, <1>10, ShortProduct DEF Same
  <2>2. U(U(z, Dword), Dword) = U(z, Dword)
    BY <1>1, LowBits
  <2> QED BY <1>10, <2>1, <2>2 DEF Same
<1>8. ~Excepted(i) /\ i.rd # 0 => Same(U(z, Word), ISA!Result(b), Dword)
  BY <1>4, <1>5, <1>7, <1>x
<1> QED BY <1>1, <1>2, <1>3, <1>5, <1>6, <1>8, Computes DEF b, Gives, Computing
-----------------------------------------------------------------------------
(* Division. *)
LEMMA QuotientsTyped ==
  ASSUME NEW x \in Int, NEW y \in Nat \ {0}
  PROVE  x \div y \in Int /\ x % y \in Int
BY Division

\* The division of C is the one of the instruction set.
LEMMA Truncates ==
  ASSUME NEW x \in Int, NEW y \in Int, y # 0
  PROVE  Quotient(x, y) = ISA!Toward0(x, y) /\ Quotient(x, y) \in Int
<1>1. CASE x >= 0 /\ y > 0
  <2>1. PICK q \in Int : q = x \div y
    BY <1>1, QuotientsTyped
  <2>2. Quotient(x, y) = q
    BY <1>1, <2>1 DEF Quotient
  <2>3. ISA!Toward0(x, y) = q
    BY <1>1, <2>1 DEF ISA!Toward0
  <2> QED BY <2>2, <2>3
<1>2. CASE x >= 0 /\ y < 0
  <2>0. PICK n \in Nat \ {0} : n = -y
    BY <1>2
  <2>1. PICK q \in Int : q = x \div n
    BY <2>0, QuotientsTyped
  <2>2. Quotient(x, y) = -q
    BY <1>2, <2>0, <2>1 DEF Quotient
  <2>3. ISA!Toward0(x, y) = -q
    BY <1>2, <2>0, <2>1 DEF ISA!Toward0
  <2> QED BY <2>2, <2>3
<1>3. CASE x < 0 /\ y > 0
  <2>0. PICK n \in Nat \ {0} : n = -x
    BY <1>3
  <2>1. PICK q \in Int : q = n \div y
    BY <1>3, <2>0, QuotientsTyped
  <2>2. Quotient(x, y) = -q
    BY <1>3, <2>0, <2>1 DEF Quotient
  <2>3. ISA!Toward0(x, y) = -q
    BY <1>3, <2>0, <2>1 DEF ISA!Toward0
  <2> QED BY <2>2, <2>3
<1>4. CASE x < 0 /\ y < 0
  <2>0. PICK n \in Nat \ {0}, k \in Nat \ {0} : n = -x /\ k = -y
    BY <1>4
  <2>1. PICK q \in Int : q = n \div k
    BY <2>0, QuotientsTyped
  <2>2. Quotient(x, y) = q
    BY <1>4, <2>0, <2>1 DEF Quotient
  <2>3. ISA!Toward0(x, y) = q
    BY <1>4, <2>0, <2>1 DEF ISA!Toward0
  <2> QED BY <2>2, <2>3
<1> QED BY <1>1, <1>2, <1>3, <1>4

\* Unsigned division.
LEMMA FullDivision ==
  ASSUME NEW i, Ready(i), exec_divu(i) \/ exec_remu(i)
  PROVE  Good(i)
<1> DEFINE b == ISA!Expand(i)
<1>0. PICK x, X, y, Y, m, M \in Int : Operands(i, x, X, y, Y, m, M)
  BY OperandsExist
<1>1. i.rd \in Regs /\ Dword \in Nat \ {0} /\ y >= 0
  BY <1>0 DEF Operands
<1>2. CASE exec_divu(i)
  <2>0. PICK v \in Int : v = IF y = 0 THEN -1 ELSE x \div y
    BY <1>1, QuotientsTyped
  <2>1. i.op = "divu" /\ Gives(i.rd, v)
    BY <1>0, <1>2, <2>0 DEF exec_divu, Operands
  <2>2. b.op = "divu" /\ b.rd = i.rd /\ b.rs1 = i.rs1 /\ b.rs2 = i.rs2 /\ b.len = 4
    BY <2>1, ExpandFull DEF Computing
  <2> HIDE DEF b
  <2>3. ISA!Result(b) = v
    BY <1>0, <2>0, <2>2, IsaWords DEF Operands, ISA!Result, ISA!Apply, ISA!Immediate, ISA!OfWords
  <2> QED BY <1>1, <2>1, <2>2, <2>3, Computes DEF b, Gives, Computing, Same
<1>3. CASE exec_remu(i)
  <2>0. PICK v \in Int : v = IF y = 0 THEN x ELSE x % y
    BY <1>1, QuotientsTyped
  <2>1. i.op = "remu" /\ Gives(i.rd, v)
    BY <1>0, <1>3, <2>0 DEF exec_remu, Operands
  <2>2. b.op = "remu" /\ b.rd = i.rd /\ b.rs1 = i.rs1 /\ b.rs2 = i.rs2 /\ b.len = 4
    BY <2>1, ExpandFull DEF Computing
  <2> HIDE DEF b
  <2>3. ISA!Result(b) = IF y = 0 THEN X ELSE x % y
    BY <1>0, <2>2, IsaWords DEF Operands, ISA!Result, ISA!Apply, ISA!Immediate, ISA!OfWords
  <2>4. Same(v, ISA!Result(b), Dword)
    BY <1>0, <2>0, <2>3 DEF Operands, Same
  <2> QED BY <1>1, <2>1, <2>2, <2>4, Computes DEF b, Gives, Computing
<1> QED BY <1>2, <1>3

\* Signed division; a zero field writes x0.
LEMMA FullDiv ==
  ASSUME NEW i, Ready(i), exec_div(i)
  PROVE  Good(i)
<1> DEFINE b == ISA!Expand(i)
<1>0. PICK x, X, y, Y, m, M \in Int : Operands(i, x, X, y, Y, m, M)
  BY OperandsExist
<1>1. i.rd \in Regs /\ Dword \in Nat \ {0} /\ Typed /\ status = "runs" /\ DOMAIN gpr = Regs /\ 0 \in Regs
  BY <1>0, HartConstants DEF Operands, Ready, Typed
<1>2. i.op = "div" /\ Skips(4) /\ UNCHANGED <<fgpr, csr, mem, status>>
  BY DEF exec_div
<1>3. b.op = "div" /\ b.rd = i.rd /\ b.rs1 = i.rs1 /\ b.rs2 = i.rs2 /\ b.len = 4
  BY <1>2, ExpandFull DEF Computing
<1>e. i.rs2 = 0 => Excepted(i)
  BY <1>2 DEF Excepted
<1> HIDE DEF b
<1>4. CASE i.rd = 0 /\ i.rs2 = 0
  <2>1. Writes(0, x)
    BY <1>0, <1>4 DEF exec_div, Operands
  <2>2. gpr' \in [Regs -> Field(Dword)] /\ \A r \in Regs \ {0} : gpr'[r] = gpr[r]
    BY <1>1, <2>1, WritesOne
  <2>3. pc' \in Field(Dword)
    BY <1>1, <1>2, GoesTyped, pc + 4 \in Int DEF Skips, Typed, Field
  <2>4. Typed'
    BY <1>1, <1>2, <2>2, <2>3 DEF Typed, Memory
  <2>5. Confined(i)
    BY <1>1, <1>2, <1>3, <1>4, <2>2 DEF Confined, b
  <2> QED BY <1>4, <1>e, <2>4, <2>5 DEF Good, Keeps
<1>5. CASE ~(i.rd = 0 /\ i.rs2 = 0)
  <2>0. Quotient(X, Y) \in Int \/ Y = 0
    BY Truncates
  <2>1. PICK v \in Int : v = IF i.rs2 = 0 THEN 0 ELSE IF Y = 0 THEN -1 ELSE Quotient(X, Y)
    BY <2>0
  <2>2. Write(i.rd, v)
    BY <1>0, <1>5, <2>1 DEF exec_div, Operands
  <2>3. ISA!Result(b) = IF Y = 0 THEN -1 ELSE ISA!Toward0(X, Y)
    BY <1>0, <1>3, IsaWords DEF Operands, ISA!Result, ISA!Apply, ISA!Immediate, ISA!OfWords
  <2>4. i.rs2 # 0 => v = ISA!Result(b)
    BY <2>1, <2>3, Truncates
  <2> QED BY <1>1, <1>2, <1>3, <1>e, <2>2, <2>4, Computes DEF b, Computing, Same
<1> QED BY <1>4, <1>5

-----------------------------------------------------------------------------
(* The low word of a register and of the number it stands for. *)
LEMMA LowWords ==
  ASSUME NEW x \in Int, NEW z \in Int, Same(x, z, Dword)
  PROVE  /\ SignExt(x, Word) = SignExt(z, Word) /\ SignExt(z, Word) \in Int
         /\ SignExt(z, Word) \in Signed(Word)
         /\ U(SignExt(z, Word), Word) = U(x, Word) /\ U(x, Word) \in Nat
         /\ Same(x, z, Word)
<1>1. Word \in Nat \ {0} /\ Dword \in Nat \ {0} /\ Word <= Dword
  BY Sizes
<1>2. U(x, Word) = U(z, Word)
  <2>1. U(x, Dword) = U(z, Dword)
    BY DEF Same
  <2> QED BY <1>1, <2>1, Narrower
<1>3. SignExt(x, Word) = SignExt(z, Word)
  BY <1>1, <1>2, SignBits
<1>4. U(SignExt(z, Word), Word) = U(z, Word) /\ SignExt(z, Word) \in Int /\ SignExt(z, Word) \in Signed(Word)
  BY <1>1, SignBits
<1>5. U(x, Word) \in Nat
  BY <1>1, LowBits
<1> QED BY <1>2, <1>3, <1>4, <1>5 DEF Same

(* The bits of a shift amount are the lowest ones, because a word has a    *)
(* power of two of them.                                                   *)
LEMMA ShiftField ==
  ASSUME NEW y \in Int
  PROVE  U(y, Word) % Word = y % Word /\ y % Word \in Nat
<1>1. PICK k \in 0 .. ByteBits : ByteBits = 2^k
  BY ByteBitsAssumption
<1>2. k \in Nat /\ k + 1 \in Nat /\ k + 2 \in Nat /\ (k + 1) + 1 = k + 2
  BY ByteBitsAssumption
<1>3. 2^(k + 1) = 2 * 2^k /\ 2^((k + 1) + 1) = 2 * 2^(k + 1) /\ 2^k \in Nat /\ 2^(k + 1) \in Nat
  BY <1>2, PowerDoubles
<1>4. Word = 2^(k + 2) /\ Word \in Nat \ {0}
  BY <1>1, <1>2, <1>3, Sizes DEF Word
<1>5. k + 2 <= Word
  BY <1>1, <1>2, ByteBitsAssumption DEF Word
<1>6. PICK h \in Nat \ {0} : 2^Word = 2^(k + 2) * h
  BY <1>2, <1>4, <1>5, PowerDivides
<1>7. PICK w \in Nat \ {0} : w = Word
  BY <1>4
<1>8. 2^Word = w * h
  BY <1>4, <1>6, <1>7
<1>9. (y % (w * h)) % w = y % w
  BY RemainderOfMultiple
<1>10. y % w \in Nat
  BY Remainder
<1> QED BY <1>7, <1>8, <1>9, <1>10 DEF U

\* An extension looks at the low word only.
LEMMA SignExtTyped ==
  ASSUME NEW x \in Int
  PROVE  SignExt(x, Word) \in Int /\ \A y \in Int : Same(x, y, Word) => SignExt(x, Word) = SignExt(y, Word)
BY Sizes, SignBits DEF Same

(* The word operations of Isa. *)
LEMMA WordResult ==
  ASSUME NEW b
  PROVE  LET l == SignExt(ISA!Reg(b.rs1), Word)
             r == SignExt(ISA!Reg(b.rs2), Word)
             n == SignExt(b.imm, Word)
         IN  /\ b.op = "addiw" => ISA!Result(b) = SignExt(ISA!Apply("add", l, n, Word), Word)
             /\ b.op = "slliw" => ISA!Result(b) = SignExt(ISA!Apply("sll", l, n, Word), Word)
             /\ b.op = "srliw" => ISA!Result(b) = SignExt(ISA!Apply("srl", l, n, Word), Word)
             /\ b.op = "sraiw" => ISA!Result(b) = SignExt(ISA!Apply("sra", l, n, Word), Word)
             /\ b.op = "addw" => ISA!Result(b) = SignExt(ISA!Apply("add", l, r, Word), Word)
             /\ b.op = "subw" => ISA!Result(b) = SignExt(ISA!Apply("sub", l, r, Word), Word)
             /\ b.op = "sllw" => ISA!Result(b) = SignExt(ISA!Apply("sll", l, r, Word), Word)
             /\ b.op = "divuw" => ISA!Result(b) = SignExt(ISA!Apply("divu", l, r, Word), Word)
             /\ b.op = "remuw" => ISA!Result(b) = SignExt(ISA!Apply("remu", l, r, Word), Word)
<1>1. b.op = "addiw" => ISA!Result(b) = SignExt(ISA!Apply("add", SignExt(ISA!Reg(b.rs1), Word), SignExt(b.imm, Word), Word), Word)
  BY IsaWords DEF ISA!Result, ISA!Immediate, ISA!OfWords
<1>2. b.op = "slliw" => ISA!Result(b) = SignExt(ISA!Apply("sll", SignExt(ISA!Reg(b.rs1), Word), SignExt(b.imm, Word), Word), Word)
  BY IsaWords DEF ISA!Result, ISA!Immediate, ISA!OfWords
<1>3. b.op = "srliw" => ISA!Result(b) = SignExt(ISA!Apply("srl", SignExt(ISA!Reg(b.rs1), Word), SignExt(b.imm, Word), Word), Word)
  BY IsaWords DEF ISA!Result, ISA!Immediate, ISA!OfWords
<1>4. b.op = "sraiw" => ISA!Result(b) = SignExt(ISA!Apply("sra", SignExt(ISA!Reg(b.rs1), Word), SignExt(b.imm, Word), Word), Word)
  BY IsaWords DEF ISA!Result, ISA!Immediate, ISA!OfWords
<1>5. b.op = "addw" => ISA!Result(b) = SignExt(ISA!Apply("add", SignExt(ISA!Reg(b.rs1), Word), SignExt(ISA!Reg(b.rs2), Word), Word), Word)
  BY IsaWords DEF ISA!Result, ISA!Immediate, ISA!OfWords
<1>6. b.op = "subw" => ISA!Result(b) = SignExt(ISA!Apply("sub", SignExt(ISA!Reg(b.rs1), Word), SignExt(ISA!Reg(b.rs2), Word), Word), Word)
  BY IsaWords DEF ISA!Result, ISA!Immediate, ISA!OfWords
<1>7. b.op = "sllw" => ISA!Result(b) = SignExt(ISA!Apply("sll", SignExt(ISA!Reg(b.rs1), Word), SignExt(ISA!Reg(b.rs2), Word), Word), Word)
  BY IsaWords DEF ISA!Result, ISA!Immediate, ISA!OfWords
<1>8. b.op = "divuw" => ISA!Result(b) = SignExt(ISA!Apply("divu", SignExt(ISA!Reg(b.rs1), Word), SignExt(ISA!Reg(b.rs2), Word), Word), Word)
  BY IsaWords DEF ISA!Result, ISA!Immediate, ISA!OfWords
<1>9. b.op = "remuw" => ISA!Result(b) = SignExt(ISA!Apply("remu", SignExt(ISA!Reg(b.rs1), Word), SignExt(ISA!Reg(b.rs2), Word), Word), Word)
  BY IsaWords DEF ISA!Result, ISA!Immediate, ISA!OfWords
<1> QED BY <1>1, <1>2, <1>3, <1>4, <1>5, <1>6, <1>7, <1>8, <1>9

\* The word operations with an immediate.
LEMMA FullImmediateWords ==
  ASSUME NEW i, Ready(i), exec_iw(i)
  PROVE  Good(i)
<1> DEFINE b == ISA!Expand(i)
           shamt == i.imm % Word
<1>0. PICK x, X, y, Y, m, M \in Int : Operands(i, x, X, y, Y, m, M)
  BY OperandsExist
<1>1. i.rd \in Regs /\ Word \in Nat \ {0}
  BY <1>0, Sizes DEF Operands
<1>2. PICK l \in Int : l = SignExt(X, Word) /\ l = Sw(i.rs1) /\ U(l, Word) = Uw(i.rs1) /\ l \in Signed(Word)
  BY <1>0, LowWords DEF Operands, Sw, Uw
<1>3. PICK k \in Int : k = i.imm
  BY Immediates DEF Ready
<1>4. PICK j \in Nat : j = k % Word /\ U(k, Word) % Word = j
  BY ShiftField
<1>5. i.op \in {"slliw", "srliw", "sraiw"} => U(SignExt(k, Word), Word) % Word = j
  BY <1>1, <1>4, SignBits
<1>6. CASE i.op = "addiw" /\ Gives(i.rd, SignExt(l + M, Word))
  <2>1. b.op = "addiw" /\ b.rd = i.rd /\ b.rs1 = i.rs1 /\ b.imm = M /\ b.len = 4
    BY <1>0, <1>6, ExpandFull DEF Computing, Shifts, Operands
  <2> HIDE DEF b
  <2>r. ISA!Result(b) = SignExt(ISA!Apply("add", l, SignExt(M, Word), Word), Word)
    BY <1>0, <1>2, <2>1, WordResult DEF Operands
  <2>a. ISA!Apply("add", l, SignExt(M, Word), Word) = l + SignExt(M, Word)
    BY <1>0, <1>2, <2>1, IsaWords DEF ISA!Apply
  <2>2. ISA!Result(b) = SignExt(l + SignExt(M, Word), Word)
    BY <2>r, <2>a
  <2>3. PICK n \in Int : n = SignExt(M, Word) /\ Same(M, n, Word)
    BY <1>1, SignBits DEF Same
  <2>4. Same(l + M, l + n, Word)
    <3>1. Same(l, l, Word)
      BY DEF Same
    <3> QED BY <1>1, <2>3, <3>1, SameLowBits
  <2>5. PICK s \in Int, t \in Int : s = l + M /\ t = l + n
    OBVIOUS
  <2>6. SignExt(l + M, Word) = ISA!Result(b) /\ SignExt(l + M, Word) \in Int
    BY <2>2, <2>3, <2>4, <2>5, SignExtTyped
  <2> QED BY <1>1, <1>6, <2>1, <2>6, Computes DEF b, Gives, Computing, Same
<1>7. CASE i.op = "slliw" /\ Gives(i.rd, SignExt(l * 2^j, Word))
  <2>1. b.op = "slliw" /\ b.rd = i.rd /\ b.rs1 = i.rs1 /\ b.imm = k /\ b.len = 4
    BY <1>3, <1>7, ExpandFull DEF Computing, Shifts
  <2> HIDE DEF b
  <2>r. ISA!Result(b) = SignExt(ISA!Apply("sll", l, SignExt(k, Word), Word), Word)
    BY <1>0, <1>2, <1>5, <1>7, <2>1, WordResult DEF Operands
  <2>a. ISA!Apply("sll", l, SignExt(k, Word), Word) = l * 2^j
    BY <1>0, <1>2, <1>5, <1>7, <2>1, IsaWords DEF ISA!Apply
  <2>2. ISA!Result(b) = SignExt(l * 2^j, Word)
    BY <2>r, <2>a
  <2>3. PICK v \in Int : v = l * 2^j
    BY ShiftsTyped
  <2>4. SignExt(v, Word) \in Int
    BY SignExtTyped
  <2> QED BY <1>1, <1>7, <2>1, <2>2, <2>3, <2>4, Computes DEF b, Gives, Computing, Same
<1>8. CASE i.op = "srliw" /\ Gives(i.rd, SignExt(Uw(i.rs1) \div 2^j, Word))
  <2>1. b.op = "srliw" /\ b.rd = i.rd /\ b.rs1 = i.rs1 /\ b.imm = k /\ b.len = 4
    BY <1>3, <1>8, ExpandFull DEF Computing, Shifts
  <2> HIDE DEF b
  <2>r. ISA!Result(b) = SignExt(ISA!Apply("srl", l, SignExt(k, Word), Word), Word)
    BY <1>0, <1>2, <1>5, <1>8, <2>1, WordResult DEF Operands
  <2>a. ISA!Apply("srl", l, SignExt(k, Word), Word) = Uw(i.rs1) \div 2^j
    BY <1>0, <1>2, <1>5, <1>8, <2>1, IsaWords DEF ISA!Apply
  <2>2. ISA!Result(b) = SignExt(Uw(i.rs1) \div 2^j, Word)
    BY <2>r, <2>a
  <2>3. PICK u \in Int : u = Uw(i.rs1)
    BY <1>1, <1>2, LowBits
  <2>5. PICK v \in Int : v = u \div 2^j
    BY ShiftsTyped
  <2>4. SignExt(v, Word) \in Int
    BY SignExtTyped
  <2> QED BY <1>1, <1>8, <2>1, <2>2, <2>3, <2>4, <2>5, Computes DEF b, Gives, Computing, Same
<1>9. CASE i.op = "sraiw" /\ Gives(i.rd, l \div 2^j)
  <2>1. b.op = "sraiw" /\ b.rd = i.rd /\ b.rs1 = i.rs1 /\ b.imm = k /\ b.len = 4
    BY <1>3, <1>9, ExpandFull DEF Computing, Shifts
  <2> HIDE DEF b
  <2>r. ISA!Result(b) = SignExt(ISA!Apply("sra", l, SignExt(k, Word), Word), Word)
    BY <1>0, <1>2, <1>5, <1>9, <2>1, WordResult DEF Operands
  <2>a. ISA!Apply("sra", l, SignExt(k, Word), Word) = l \div 2^j
    BY <1>0, <1>2, <1>5, <1>9, <2>1, IsaWords DEF ISA!Apply
  <2>2. ISA!Result(b) = SignExt(l \div 2^j, Word)
    BY <2>r, <2>a
  <2>3. PICK p \in Nat \ {0} : p = 2^j
    BY PowerDoubles
  <2>4. PICK h \in Nat : h = 2^(Word - 1)
    BY <1>1, PowerFacts
  <2>5. l >= -h /\ l < h
    BY <1>2, <2>4 DEF Signed
  <2>6. l \div p \in Int /\ l \div p >= -h /\ l \div p < h
    BY <2>5, QuotientBounds
  <2>7. PICK v \in Int : v = l \div p /\ v \in Signed(Word)
    BY <2>4, <2>6 DEF Signed
  <2>8. SignExt(v, Word) = v
    BY <1>1, <2>7, SignBits
  <2> QED BY <1>1, <1>9, <2>1, <2>2, <2>3, <2>7, <2>8, Computes DEF b, Gives, Computing, Same
<1> QED BY <1>0, <1>2, <1>3, <1>4, <1>6, <1>7, <1>8, <1>9 DEF exec_iw, Operands

\* The word operations on registers, sllw apart.
LEMMA FullWords ==
  ASSUME NEW i, Ready(i), exec_3b(i), i.op # "sllw"
  PROVE  Good(i)
<1> DEFINE b == ISA!Expand(i)
<1>0. PICK x, X, y, Y, m, M \in Int : Operands(i, x, X, y, Y, m, M)
  BY OperandsExist
<1>1. i.rd \in Regs /\ Word \in Nat \ {0}
  BY <1>0, Sizes DEF Operands
<1>2. PICK l \in Int : l = SignExt(X, Word) /\ l = Sw(i.rs1) /\ U(l, Word) = Uw(i.rs1)
  BY <1>0, LowWords DEF Operands, Sw, Uw
<1>3. PICK r \in Int : r = SignExt(Y, Word) /\ r = Sw(i.rs2) /\ U(r, Word) = Uw(i.rs2)
  BY <1>0, LowWords DEF Operands, Sw, Uw
<1>4. PICK u \in Nat, w \in Nat : u = Uw(i.rs1) /\ w = Uw(i.rs2) /\ u = U(l, Word) /\ w = U(r, Word)
  BY <1>1, <1>2, <1>3, LowBits
<1>5. CASE i.op = "addw" /\ Gives(i.rd, SignExt(l + r, Word))
  <2>1. b.op = "addw" /\ b.rd = i.rd /\ b.rs1 = i.rs1 /\ b.rs2 = i.rs2 /\ b.len = 4
    BY <1>5, ExpandFull DEF Computing
  <2> HIDE DEF b
  <2>r. ISA!Result(b) = SignExt(ISA!Apply("add", l, r, Word), Word)
    BY <1>0, <1>2, <1>3, <2>1, WordResult DEF Operands
  <2>a. ISA!Apply("add", l, r, Word) = l + r
    BY <1>0, <1>2, <1>3, <2>1, IsaWords DEF ISA!Apply
  <2>2. ISA!Result(b) = SignExt(l + r, Word)
    BY <2>r, <2>a
  <2>3. SignExt(l + r, Word) \in Int
    BY SignExtTyped, l + r \in Int
  <2> QED BY <1>1, <1>5, <2>1, <2>2, <2>3, Computes DEF b, Gives, Computing, Same
<1>6. CASE i.op = "subw" /\ Gives(i.rd, SignExt(l - r, Word))
  <2>1. b.op = "subw" /\ b.rd = i.rd /\ b.rs1 = i.rs1 /\ b.rs2 = i.rs2 /\ b.len = 4
    BY <1>6, ExpandFull DEF Computing
  <2> HIDE DEF b
  <2>r. ISA!Result(b) = SignExt(ISA!Apply("sub", l, r, Word), Word)
    BY <1>0, <1>2, <1>3, <2>1, WordResult DEF Operands
  <2>a. ISA!Apply("sub", l, r, Word) = l - r
    BY <1>0, <1>2, <1>3, <2>1, IsaWords DEF ISA!Apply
  <2>2. ISA!Result(b) = SignExt(l - r, Word)
    BY <2>r, <2>a
  <2>3. SignExt(l - r, Word) \in Int
    BY SignExtTyped, l - r \in Int
  <2> QED BY <1>1, <1>6, <2>1, <2>2, <2>3, Computes DEF b, Gives, Computing, Same
<1>7. CASE i.op = "divuw" /\ Gives(i.rd, SignExt(IF w = 0 THEN -1 ELSE u \div w, Word))
  <2>1. b.op = "divuw" /\ b.rd = i.rd /\ b.rs1 = i.rs1 /\ b.rs2 = i.rs2 /\ b.len = 4
    BY <1>7, ExpandFull DEF Computing
  <2> HIDE DEF b
  <2>r. ISA!Result(b) = SignExt(ISA!Apply("divu", l, r, Word), Word)
    BY <1>0, <1>2, <1>3, <1>4, <2>1, WordResult DEF Operands
  <2>a. ISA!Apply("divu", l, r, Word) = IF w = 0 THEN -1 ELSE u \div w
    BY <1>0, <1>2, <1>3, <1>4, <2>1, IsaWords DEF ISA!Apply
  <2>2. ISA!Result(b) = SignExt(IF w = 0 THEN -1 ELSE u \div w, Word)
    BY <2>r, <2>a
  <2>3. PICK v \in Int : v = IF w = 0 THEN -1 ELSE u \div w
    BY QuotientsTyped
  <2>4. SignExt(v, Word) \in Int
    BY SignExtTyped
  <2> QED BY <1>1, <1>7, <2>1, <2>2, <2>3, <2>4, Computes DEF b, Gives, Computing, Same
<1>8. CASE i.op = "remuw" /\ Gives(i.rd, SignExt(IF w = 0 THEN u ELSE u % w, Word))
  <2>1. b.op = "remuw" /\ b.rd = i.rd /\ b.rs1 = i.rs1 /\ b.rs2 = i.rs2 /\ b.len = 4
    BY <1>8, ExpandFull DEF Computing
  <2> HIDE DEF b
  <2>r. ISA!Result(b) = SignExt(ISA!Apply("remu", l, r, Word), Word)
    BY <1>0, <1>2, <1>3, <1>4, <2>1, WordResult DEF Operands
  <2>a. ISA!Apply("remu", l, r, Word) = IF w = 0 THEN l ELSE u % w
    BY <1>0, <1>2, <1>3, <1>4, <2>1, IsaWords DEF ISA!Apply
  <2>2. ISA!Result(b) = SignExt(IF w = 0 THEN l ELSE u % w, Word)
    BY <2>r, <2>a
  <2>3. PICK v \in Int : v = IF w = 0 THEN u ELSE u % w
    BY QuotientsTyped
  <2>4. SignExt(v, Word) \in Int
    BY SignExtTyped
  <2>5. SignExt(u, Word) = SignExt(l, Word)
    <3>1. Same(l, u, Word)
      BY <1>1, <1>4, LowBits DEF Same
    <3> QED BY <3>1, SignExtTyped
  <2>6. SignExt(v, Word) = ISA!Result(b)
    BY <2>2, <2>3, <2>5
  <2> QED BY <1>1, <1>8, <2>1, <2>3, <2>4, <2>6, Computes DEF b, Gives, Computing, Same
<1> QED BY <1>2, <1>3, <1>4, <1>5, <1>6, <1>7, <1>8 DEF exec_3b

\* sllw, which may write x0.
LEMMA FullSllw ==
  ASSUME NEW i, Ready(i), exec_3b(i), i.op = "sllw"
  PROVE  Good(i)
<1> DEFINE b == ISA!Expand(i)
<1>0. PICK x, X, y, Y, m, M \in Int : Operands(i, x, X, y, Y, m, M)
  BY OperandsExist
<1>1. /\ i.rd \in Regs /\ Word \in Nat \ {0} /\ Dword \in Nat \ {0} /\ Typed /\ status = "runs"
      /\ DOMAIN gpr = Regs /\ 0 \in Regs
  BY <1>0, Sizes, HartConstants DEF Operands, Ready, Typed
<1>2. PICK l \in Int : l = SignExt(X, Word) /\ U(l, Word) = Uw(i.rs1)
  BY <1>0, LowWords DEF Operands, Uw
<1>3. PICK u \in Nat : u = Uw(i.rs1)
  BY <1>1, <1>2, LowBits
<1>4. PICK j \in Nat : j = y % Word /\ U(SignExt(Y, Word), Word) % Word = j
  BY <1>0, LowWords, ShiftField DEF Operands
<1>5. PICK v \in Int : v = SignExt(u * 2^j, Word) /\ v = SignExt(l * 2^j, Word)
  <2>1. PICK s \in Int, t \in Int : s = u * 2^j /\ t = l * 2^j
    BY ShiftsTyped
  <2>2. Same(u, l, Word)
    BY <1>1, <1>2, <1>3, LowBits DEF Same
  <2>3. Same(u * 2^j, l * 2^j, Word)
    BY <1>1, <2>2, ShiftsTyped
  <2> QED BY <2>1, <2>3, SignExtTyped
<1>6. Writes(i.rd, v) /\ Skips(4) /\ UNCHANGED <<fgpr, csr, mem, status>>
  BY <1>0, <1>3, <1>4, <1>5 DEF exec_3b, Operands
<1>7. b.op = "sllw" /\ b.rd = i.rd /\ b.rs1 = i.rs1 /\ b.rs2 = i.rs2 /\ b.len = 4
  BY ExpandFull DEF Computing
<1>e. i.rd = 0 => Excepted(i)
  BY DEF Excepted, ZeroUnchecked
<1> HIDE DEF b
<1>8. ISA!Result(b) = v
  BY <1>0, <1>2, <1>4, <1>5, <1>7, IsaWords DEF Operands, ISA!Result, ISA!Apply, ISA!Immediate, ISA!OfWords
<1>9. CASE i.rd = 0
  <2>2. gpr' \in [Regs -> Field(Dword)] /\ \A r \in Regs \ {0} : gpr'[r] = gpr[r]
    BY <1>1, <1>6, <1>9, WritesOne
  <2>3. pc' \in Field(Dword)
    BY <1>1, <1>6, GoesTyped, pc + 4 \in Int DEF Skips, Typed, Field
  <2>4. Typed'
    BY <1>1, <1>6, <2>2, <2>3 DEF Typed, Memory
  <2>5. Confined(i)
    BY <1>1, <1>6, <1>7, <1>9, <2>2 DEF Confined, b, ZeroUnchecked
  <2> QED BY <1>9, <1>e, <2>4, <2>5 DEF Good, Keeps
<1>10. CASE i.rd # 0
  <2>1. Write(i.rd, v)
    BY <1>6, <1>10 DEF Write
  <2> QED BY <1>1, <1>6, <1>7, <1>8, <2>1, Computes DEF b, Computing, Same
<1> QED BY <1>9, <1>10

-----------------------------------------------------------------------------
(* Operations that change one register and the pc at most. *)
PlainOps == Computing \cup ISA!Loading \cup ISA!Branching \cup {"lui", "auipc", "jal", "jalr", "fence"}

\* What the instruction set says of them, the register and the pc apart.
LEMMA PlainEffects ==
  ASSUME NEW b, b.op \in PlainOps
  PROVE  /\ ISA!NewFloat(b) = fgpr /\ ISA!NewCsr(b) = csr /\ ISA!Stored(b) = mem
         /\ ~ISA!Traps(b) /\ b.op \notin ISA!Storing \cup {"amoswap.w", "amoadd.w"}
<1>1. ISA!NewFloat(b) = fgpr
  BY DEF PlainOps, Computing, ISA!Loading, ISA!Branching, ISA!NewFloat
<1>2. ISA!NewCsr(b) = csr
  BY DEF PlainOps, Computing, ISA!Loading, ISA!Branching, ISA!NewCsr
<1>3. ISA!Stored(b) = mem
  BY DEF PlainOps, Computing, ISA!Loading, ISA!Branching, ISA!Stored, ISA!Storing
<1>4. ~ISA!Traps(b)
  BY DEF PlainOps, Computing, ISA!Loading, ISA!Branching, ISA!Traps
<1>5. b.op \notin ISA!Storing \cup {"amoswap.w", "amoadd.w"}
  BY DEF PlainOps, Computing, ISA!Loading, ISA!Branching, ISA!Storing
<1> QED BY <1>1, <1>2, <1>3, <1>4, <1>5

(* The values and the targets of Isa, operation by operation. *)
LEMMA IsaValues ==
  ASSUME NEW b
  PROVE  /\ b.op = "lui" => ISA!Value(b) = b.imm
         /\ b.op = "auipc" => ISA!Value(b) = pc + b.imm
         /\ b.op \in {"jal", "jalr"} => ISA!Value(b) = pc + b.len
         /\ b.op \in ISA!CsrOps => ISA!Value(b) = csr
         /\ b.op = "fmv.x.w" => ISA!Value(b) = ISA!Low(fgpr[b.rs1])
         /\ b.op = "fmv.x.d" => ISA!Value(b) = fgpr[b.rs1]
<1>1. b.op = "lui" => ISA!Value(b) = b.imm
  BY DEF ISA!Value, ISA!Loading, ISA!CsrOps
<1>2. b.op = "auipc" => ISA!Value(b) = pc + b.imm
  BY DEF ISA!Value, ISA!Loading, ISA!CsrOps
<1>3. b.op \in {"jal", "jalr"} => ISA!Value(b) = pc + b.len
  BY DEF ISA!Value, ISA!Loading, ISA!CsrOps
<1>4. b.op \in ISA!CsrOps => ISA!Value(b) = csr
  BY DEF ISA!Value, ISA!Loading, ISA!CsrOps
<1>5. b.op = "fmv.x.w" => ISA!Value(b) = ISA!Low(fgpr[b.rs1])
  BY DEF ISA!Value, ISA!Loading, ISA!CsrOps
<1>6. b.op = "fmv.x.d" => ISA!Value(b) = fgpr[b.rs1]
  BY DEF ISA!Value, ISA!Loading, ISA!CsrOps
<1> QED BY <1>1, <1>2, <1>3, <1>4, <1>5, <1>6

LEMMA IsaTargets ==
  ASSUME NEW b
  PROVE  /\ b.op = "jal" => ISA!Target(b) = pc + b.imm
         /\ b.op = "jalr" => ISA!Target(b) = ((ISA!Reg(b.rs1) + b.imm) \div 2) * 2
         /\ b.op \in ISA!Branching => ISA!Target(b) = pc + (IF ISA!Taken(b) THEN b.imm ELSE b.len)
         /\ b.op \notin ISA!Branching \cup {"jal", "jalr"} => ISA!Target(b) = pc + b.len
<1>1. b.op = "jal" => ISA!Target(b) = pc + b.imm
  BY DEF ISA!Target, ISA!Branching
<1>2. b.op = "jalr" => ISA!Target(b) = ((ISA!Reg(b.rs1) + b.imm) \div 2) * 2
  BY DEF ISA!Target, ISA!Branching
<1>3. b.op \in ISA!Branching => ISA!Target(b) = pc + (IF ISA!Taken(b) THEN b.imm ELSE b.len)
  BY DEF ISA!Target, ISA!Branching
<1>4. b.op \notin ISA!Branching \cup {"jal", "jalr"} => ISA!Target(b) = pc + b.len
  BY DEF ISA!Target, ISA!Branching
<1> QED BY <1>1, <1>2, <1>3, <1>4

\* A step that changes that register and the pc as it should is as it should be.
LEMMA ChangesOne ==
  ASSUME NEW i, Ready(i), NEW rd \in Regs, NEW v \in Int, NEW t \in Int,
         ISA!Expand(i).op \in PlainOps, ISA!Dest(ISA!Expand(i)) = rd,
         Write(rd, v), Goes(t), UNCHANGED <<fgpr, csr, mem, status>>,
         ~Excepted(i) => /\ Same(t, ISA!Target(ISA!Expand(i)), Dword)
                         /\ rd # 0 => Same(v, ISA!Value(ISA!Expand(i)), Dword)
  PROVE  Good(i)
<1> DEFINE b == ISA!Expand(i)
<1>1. /\ ISA!NewFloat(b) = fgpr /\ ISA!NewCsr(b) = csr /\ ISA!Stored(b) = mem
      /\ ~ISA!Traps(b) /\ b.op \notin ISA!Storing \cup {"amoswap.w", "amoadd.w"}
  BY PlainEffects
<1> HIDE DEF b
<1>2. /\ gpr' \in [Regs -> Field(Dword)]
      /\ \A r \in Regs \ {0, rd} : gpr'[r] = gpr[r]
      /\ gpr'[0] = gpr[0]
      /\ gpr' = IF rd = 0 THEN gpr ELSE [gpr EXCEPT ![rd] = U(v, Dword)]
  BY WriteOne DEF Ready
<1>3. pc' \in Field(Dword) /\ pc' = U(t, Dword)
  BY GoesTyped
<1>4. Typed'
  BY <1>2, <1>3 DEF Ready, Typed, Memory
<1>5. Confined(i)
  <2>1. DOMAIN gpr = Regs
    BY DEF Ready, Typed
  <2> QED BY <1>1, <1>2, <2>1 DEF Confined, b
<1>6. ASSUME rd = 0 \/ Same(v, ISA!Value(b), Dword), Same(t, ISA!Target(b), Dword)
      PROVE  ISA!Executes(i)
  BY <1>1, <1>2, <1>3, <1>6, IsaWords DEF ISA!Executes, b, Same
<1>7. Keeps(i)
  BY <1>6 DEF Keeps, b, Ready
<1> QED BY <1>4, <1>5, <1>7 DEF Good

(* Operations of the list that change the pc at most. *)
LEMMA ChangesNone ==
  ASSUME NEW i, Ready(i), NEW t \in Int, Jumps(t) \/ UNCHANGED <<gpr, fgpr, csr, mem, pc>>,
         Jumps(t) => UNCHANGED status,
         status' \in {"runs", "halted", "stopped", "crashed"}, Excepted(i)
  PROVE  Good(i)
<1>1. UNCHANGED <<gpr, fgpr, csr, mem>>
  BY DEF Jumps
<1>2. pc' \in Field(Dword)
  BY GoesTyped DEF Jumps, Ready, Typed
<1>3. Typed'
  BY <1>1, <1>2 DEF Ready, Typed, Memory
<1>4. Confined(i)
  BY <1>1 DEF Confined
<1> QED BY <1>3, <1>4 DEF Good, Keeps

\* The program counter is a number.
LEMMA PcTyped ==
  ASSUME NEW i, Ready(i)
  PROVE  pc \in Nat /\ 0 \in Regs
BY HartConstants DEF Ready, Typed, Field

\* lui and auipc.
LEMMA FullUpper ==
  ASSUME NEW i, Ready(i), exec_lui(i) \/ exec_auipc(i)
  PROVE  Good(i)
<1> DEFINE b == ISA!Expand(i)
<1>0. i.rd \in Regs /\ i.imm \in Nat /\ pc \in Nat /\ Word \in Nat \ {0}
  BY Immediates, PcTyped, Sizes DEF Ready
<1>1. PICK n \in Int : n = SignExt(i.imm, Word)
  BY <1>0, SignBits
<1>2. CASE exec_lui(i)
  <2>1. i.op = "lui" /\ Gives(i.rd, n)
    BY <1>1, <1>2 DEF exec_lui
  <2>2. b = [op |-> "lui", rd |-> i.rd, rs1 |-> i.rs1, rs2 |-> i.rs2, len |-> 4, imm |-> n]
    BY <1>1, <2>1, IsaWords DEF ISA!Expand
  <2> HIDE DEF b
  <2>3. ISA!Dest(b) = i.rd
    BY <2>2 DEF ISA!Dest, ISA!Storing, ISA!Branching, ISA!ToFloat
  <2>4. ISA!Value(b) = n
    BY <2>2, IsaValues
  <2>5. ISA!Target(b) = pc + 4
    BY <2>2, IsaTargets DEF ISA!Branching
  <2>6. pc + 4 \in Int /\ Goes(pc + 4) /\ Write(i.rd, n) /\ UNCHANGED <<fgpr, csr, mem, status>>
    BY <1>0, <2>1 DEF Gives, Skips
  <2>7. b.op \in PlainOps
    BY <2>2 DEF PlainOps
  <2> QED BY <1>0, <2>3, <2>4, <2>5, <2>6, <2>7, ChangesOne DEF b, Same
<1>3. CASE exec_auipc(i)
  <2>1. i.op = "auipc" /\ Gives(i.rd, pc + n)
    BY <1>1, <1>3 DEF exec_auipc
  <2>2. b = [op |-> "auipc", rd |-> i.rd, rs1 |-> i.rs1, rs2 |-> i.rs2, len |-> 4, imm |-> n]
    BY <1>1, <2>1, IsaWords DEF ISA!Expand
  <2> HIDE DEF b
  <2>3. ISA!Dest(b) = i.rd
    BY <2>2 DEF ISA!Dest, ISA!Storing, ISA!Branching, ISA!ToFloat
  <2>4. ISA!Value(b) = pc + n
    BY <2>2, IsaValues
  <2>5. ISA!Target(b) = pc + 4
    BY <2>2, IsaTargets DEF ISA!Branching
  <2>6. pc + 4 \in Int /\ pc + n \in Int /\ Goes(pc + 4) /\ Write(i.rd, pc + n) /\ UNCHANGED <<fgpr, csr, mem, status>>
    BY <1>0, <2>1 DEF Gives, Skips
  <2>7. b.op \in PlainOps
    BY <2>2 DEF PlainOps
  <2> QED BY <1>0, <2>3, <2>4, <2>5, <2>6, <2>7, ChangesOne DEF b, Same
<1> QED BY <1>2, <1>3

\* fence only advances.
LEMMA FullFence ==
  ASSUME NEW i, Ready(i), exec_fence(i)
  PROVE  Good(i)
<1> DEFINE b == ISA!Expand(i)
<1>1. i.op = "fence" /\ Jumps(pc + 4)
  BY DEF exec_fence
<1>2. b.op = "fence" /\ b.len = 4
  BY <1>1 DEF ISA!Expand
<1> HIDE DEF b
<1>3. ISA!Dest(b) = 0 /\ ISA!Target(b) = pc + 4 /\ b.op \in PlainOps
  BY <1>2 DEF ISA!Dest, ISA!Target, ISA!Branching, PlainOps
<1>4. pc + 4 \in Int /\ 0 \in Regs /\ 0 \in Int
  BY PcTyped
<1> QED BY <1>1, <1>3, <1>4, ChangesOne DEF b, Same, Jumps, Write
-----------------------------------------------------------------------------
(* Jumps. *)
LEMMA EvenParts ==
  ASSUME NEW x \in Int, NEW z \in Int, Same(x, z, Dword)
  PROVE  Even(x) \in Int /\ Same(Even(x), (z \div 2) * 2, Dword)
<1>0. Dword \in Nat \ {0} /\ 1 \in Nat \ {0} /\ 1 <= Dword
  BY Sizes
<1>1. 2^1 = 2
  BY PowerZero, PowerDoubles, 0 + 1 = 1, 0 \in Nat
<1>2. U(x, 1) = U(z, 1)
  BY <1>0, Narrower DEF Same
<1>3. x % 2 = z % 2
  BY <1>1, <1>2 DEF U
<1>4. (z \div 2) * 2 = z - (z % 2)
  OBVIOUS
<1>5. PICK p \in Int : p = x % 2
  OBVIOUS
<1>6. Same(p, p, Dword)
  BY DEF Same
<1>7. Same(x - p, z - p, Dword)
  BY <1>0, <1>6, SameLowBits
<1> QED BY <1>3, <1>4, <1>5, <1>7 DEF Even

\* jal and jalr.
LEMMA FullJumps ==
  ASSUME NEW i, Ready(i), exec_jal(i) \/ exec_jalr(i)
  PROVE  Good(i)
<1> DEFINE b == ISA!Expand(i)
<1>0. i.rd \in Regs /\ i.imm \in Nat /\ pc \in Nat /\ pc + 4 \in Int /\ JumpBits \in Nat \ {0} /\ JumpBits - 1 \in Nat \ {0}
  BY Immediates, PcTyped, HartConstants DEF Ready
<1>1. PICK n \in Int, k \in Int : n = SignExt(i.imm, JumpBits) /\ k = SignExt(i.imm, JumpBits - 1)
  BY <1>0, SignBits
<1>2. CASE exec_jal(i)
  <2>1. i.op = "jal" /\ Write(i.rd, pc + 4) /\ Goes(pc + k) /\ UNCHANGED <<fgpr, csr, mem, status>>
    BY <1>1, <1>2 DEF exec_jal
  <2>2. b = [op |-> "jal", rd |-> i.rd, rs1 |-> i.rs1, rs2 |-> i.rs2, len |-> 4, imm |-> n]
    BY <1>1, <2>1, IsaWords DEF ISA!Expand
  <2> HIDE DEF b
  <2>3. ISA!Dest(b) = i.rd
    BY <2>2 DEF ISA!Dest, ISA!Storing, ISA!Branching, ISA!ToFloat
  <2>4. ISA!Value(b) = pc + 4
    BY <2>2, IsaValues
  <2>5. ISA!Target(b) = pc + n
    BY <2>2, IsaTargets
  <2>6. ~Excepted(i) => n = k
    BY <1>1, <2>1 DEF Excepted, Differs
  <2>7. b.op \in PlainOps /\ pc + k \in Int
    BY <1>0, <2>2 DEF PlainOps
  <2>8. ~Excepted(i) => Same(pc + k, ISA!Target(b), Dword) /\ Same(pc + 4, ISA!Value(b), Dword)
    BY <2>4, <2>5, <2>6 DEF Same
  <2> QED BY <1>0, <2>1, <2>3, <2>7, <2>8, ChangesOne DEF b
<1>3. CASE exec_jalr(i)
  <2>0. PICK x, X, y, Y, m, M \in Int : Operands(i, x, X, y, Y, m, M)
    BY OperandsExist
  <2>1. i.op = "jalr" /\ Write(i.rd, pc + 4) /\ Goes(Even(x + M)) /\ UNCHANGED <<fgpr, csr, mem, status>>
    BY <1>3, <2>0 DEF exec_jalr, Operands
  <2>2. b = [op |-> "jalr", rd |-> i.rd, rs1 |-> i.rs1, rs2 |-> i.rs2, len |-> 4, imm |-> M]
    BY <2>0, <2>1, IsaWords DEF ISA!Expand, Operands
  <2> HIDE DEF b
  <2>3. ISA!Dest(b) = i.rd
    BY <2>2 DEF ISA!Dest, ISA!Storing, ISA!Branching, ISA!ToFloat
  <2>4. ISA!Value(b) = pc + 4
    BY <2>2, IsaValues
  <2>5. ISA!Target(b) = ((X + M) \div 2) * 2
    BY <2>0, <2>2, IsaTargets DEF Operands
  <2>6. Same(x + M, X + M, Dword)
    <3>1. Same(M, M, Dword)
      BY DEF Same
    <3> QED BY <2>0, <3>1, SameLowBits DEF Operands
  <2>7. PICK s \in Int, t \in Int : s = x + M /\ t = X + M
    OBVIOUS
  <2>8. Even(s) \in Int /\ Same(Even(s), (t \div 2) * 2, Dword)
    BY <2>6, <2>7, EvenParts
  <2>9. b.op \in PlainOps
    BY <2>2 DEF PlainOps
  <2> QED BY <1>0, <2>1, <2>3, <2>4, <2>5, <2>7, <2>8, <2>9, ChangesOne DEF b, Same
<1> QED BY <1>2, <1>3

(* The sign of a bit field. *)
LEMMA SignOf ==
  ASSUME NEW b \in Nat \ {0}, NEW x \in Field(b)
  PROVE  /\ SignExt(x, b) >= 0 => SignExt(x, b) = x
         /\ SignExt(x, b) < 0 => SignExt(x, b) = x - 2^b
<1>0. x \in Int
  BY DEF Field
<1>1. PICK h \in Nat \ {0} : h = 2^(b - 1) /\ 2^b = 2 * h
  BY PowerFacts
<1>2. x \in 0 .. 2 * h - 1 /\ Signed(b) = -h .. h - 1
  BY <1>1 DEF Field, Signed
<1>3. CASE x < h
  <2>1. SignExt(x, b) = x
    BY <1>0, <1>2, <1>3, SignBits
  <2> QED BY <1>2, <2>1
<1>4. CASE x >= h
  <2>1. PICK z \in Int : z = x - 2^b
    BY <1>0, <1>1
  <2>2. z \in Signed(b) /\ z < 0
    BY <1>1, <1>2, <1>4, <2>1
  <2>3. SignExt(z, b) = z
    BY <1>0, <2>2, SignBits
  <2>4. U(z, b) = U(x, b)
    BY <1>0, <2>1, LowBits
  <2>5. SignExt(x, b) = z
    BY <1>0, <2>3, <2>4, SignBits
  <2> QED BY <2>1, <2>2, <2>5
<1> QED BY <1>0, <1>2, <1>3, <1>4

-----------------------------------------------------------------------------
(* Branches. *)
LEMMA ExpandBranch ==
  ASSUME NEW i, i.op \in ISA!Branching
  PROVE  LET b == ISA!Expand(i)
         IN  /\ b.op = i.op /\ b.rs1 = i.rs1 /\ b.rs2 = i.rs2 /\ b.len = 4
             /\ b.imm = SignExt(i.imm, BranchBits)
<1>1. ISA!Expand(i) = [op |-> i.op, rd |-> i.rd, rs1 |-> i.rs1, rs2 |-> i.rs2, len |-> 4,
                       imm |-> ISA!SignExt(i.imm, BranchBits)]
  BY DEF ISA!Branching, ISA!Expand
<1>2. ISA!SignExt(i.imm, BranchBits) = SignExt(i.imm, BranchBits)
  BY IsaWords
<1> QED BY <1>1, <1>2

\* A branch that adds the right offset is as it should be.
LEMMA BranchStep ==
  ASSUME NEW i, Ready(i), i.op \in ISA!Branching, NEW t \in Int, Jumps(pc + t),
         ~Excepted(i) => t = IF ISA!Taken(ISA!Expand(i)) THEN SignExt(i.imm, BranchBits) ELSE 4
  PROVE  Good(i)
<1> DEFINE b == ISA!Expand(i)
<1>1. b.op = i.op /\ b.len = 4 /\ b.imm = SignExt(i.imm, BranchBits)
  BY ExpandBranch
<1> HIDE DEF b
<1>2. ISA!Dest(b) = 0 /\ b.op \in PlainOps
  BY <1>1 DEF ISA!Dest, PlainOps
<1>3. ISA!Target(b) = pc + (IF ISA!Taken(b) THEN b.imm ELSE b.len)
  BY <1>1, IsaTargets
<1>4. pc + t \in Int /\ 0 \in Regs /\ 0 \in Int
  BY PcTyped
<1>5. Write(0, 0) /\ Goes(pc + t) /\ UNCHANGED <<fgpr, csr, mem, status>>
  BY DEF Jumps, Write
<1>6. ~Excepted(i) => Same(pc + t, ISA!Target(b), Dword)
  BY <1>1, <1>3 DEF b, Same
<1> QED BY <1>2, <1>4, <1>5, <1>6, ChangesOne DEF b

\* When a branch is taken.
LEMMA IsaTaken ==
  ASSUME NEW b, NEW X, NEW Y, X = ISA!Reg(b.rs1), Y = ISA!Reg(b.rs2)
  PROVE  /\ b.op = "beq" => (ISA!Taken(b) <=> X = Y)
         /\ b.op = "bne" => (ISA!Taken(b) <=> X # Y)
         /\ b.op = "blt" => (ISA!Taken(b) <=> X < Y)
         /\ b.op = "bge" => (ISA!Taken(b) <=> X >= Y)
         /\ b.op = "bltu" => (ISA!Taken(b) <=> U(X, Dword) < U(Y, Dword))
         /\ b.op = "bgeu" => (ISA!Taken(b) <=> U(X, Dword) >= U(Y, Dword))
<1>1. b.op = "beq" => (ISA!Taken(b) <=> X = Y)
  BY DEF ISA!Taken
<1>2. b.op = "bne" => (ISA!Taken(b) <=> X # Y)
  BY DEF ISA!Taken
<1>3. b.op = "blt" => (ISA!Taken(b) <=> X < Y)
  BY DEF ISA!Taken
<1>4. b.op = "bge" => (ISA!Taken(b) <=> X >= Y)
  BY DEF ISA!Taken
<1>5. b.op = "bltu" => (ISA!Taken(b) <=> U(X, Dword) < U(Y, Dword))
  BY IsaWords DEF ISA!Taken
<1>6. b.op = "bgeu" => (ISA!Taken(b) <=> U(X, Dword) >= U(Y, Dword))
  BY IsaWords DEF ISA!Taken
<1> QED BY <1>1, <1>2, <1>3, <1>4, <1>5, <1>6

(* Unsigned registers compare as signed ones when their signs agree. *)
LEMMA SignsAgree ==
  ASSUME NEW x \in Field(Dword), NEW y \in Field(Dword),
         (SignExt(x, Dword) < 0) = (SignExt(y, Dword) < 0)
  PROVE  x >= y <=> SignExt(x, Dword) >= SignExt(y, Dword)
<1>1. PICK X \in Int, Y \in Int : X = SignExt(x, Dword) /\ Y = SignExt(y, Dword)
  BY Sizes, SignBits DEF Field
<1>2. PICK n \in Int : n = 2^Dword
  BY Sizes, PowerFacts
<1>3. x \in Int /\ y \in Int
  BY DEF Field
<1>4. /\ X >= 0 => X = x
      /\ X < 0 => X = x - n
      /\ Y >= 0 => Y = y
      /\ Y < 0 => Y = y - n
  BY <1>1, <1>2, Sizes, SignOf
<1>5. X < 0 <=> Y < 0
  BY <1>1
<1> QED BY <1>1, <1>3, <1>4, <1>5

\* The six branches.
LEMMA FullBranches ==
  ASSUME NEW i, Ready(i), hande_b_type(i)
  PROVE  Good(i)
<1> DEFINE b == ISA!Expand(i)
<1>0. PICK x, X, y, Y, m, M \in Int : Operands(i, x, X, y, Y, m, M)
  BY OperandsExist
<1>1. PICK n \in Int, k \in Int : n = SignExt(i.imm, BranchBits) /\ k = SignExt(i.imm, BranchBits - 1)
  <2>1. i.imm \in Int /\ BranchBits \in Nat \ {0} /\ BranchBits - 1 \in Nat \ {0}
    BY Immediates, HartConstants DEF Ready
  <2> QED BY <2>1, SignBits
<1>2. x = y <=> X = Y
  <2>1. X = SignExt(x, Dword) /\ Y = SignExt(y, Dword) /\ x = U(X, Dword) /\ y = U(Y, Dword)
    BY <1>0 DEF Operands, S
  <2> QED BY <2>1, Zenon
<1>3. ASSUME i.op \in ISA!Branching
      PROVE  b.op = i.op /\ ISA!Reg(b.rs1) = X /\ ISA!Reg(b.rs2) = Y
  BY <1>0, <1>3, ExpandBranch DEF Operands
<1> HIDE DEF b
<1>4. CASE exec_beq(i)
  <2>1. PICK t \in Int : t = IF x = y THEN n ELSE 4
    OBVIOUS
  <2>2. i.op = "beq" /\ Jumps(pc + t)
    BY <1>0, <1>1, <1>4, <2>1 DEF exec_beq, Branches, Operands
  <2>3. i.op \in ISA!Branching
    BY <2>2 DEF ISA!Branching
  <2>4. ISA!Taken(b) <=> X = Y
    BY <1>3, <2>2, <2>3, IsaTaken
  <2> QED BY <1>1, <1>2, <2>1, <2>2, <2>3, <2>4, BranchStep DEF b
<1>5. CASE exec_bne(i)
  <2>1. PICK t \in Int : t = IF x # y THEN n ELSE 4
    OBVIOUS
  <2>2. i.op = "bne" /\ Jumps(pc + t)
    BY <1>0, <1>1, <1>5, <2>1 DEF exec_bne, Branches, Operands
  <2>3. i.op \in ISA!Branching
    BY <2>2 DEF ISA!Branching
  <2>4. ISA!Taken(b) <=> X # Y
    BY <1>3, <2>2, <2>3, IsaTaken
  <2> QED BY <1>1, <1>2, <2>1, <2>2, <2>3, <2>4, BranchStep DEF b
<1>6. CASE exec_blt(i)
  <2>1. PICK t \in Int : t = IF X < Y THEN k ELSE 4
    OBVIOUS
  <2>2. i.op = "blt" /\ Jumps(pc + t)
    BY <1>0, <1>1, <1>6, <2>1 DEF exec_blt, Branches, Operands
  <2>3. i.op \in ISA!Branching
    BY <2>2 DEF ISA!Branching
  <2>4. ISA!Taken(b) <=> X < Y
    BY <1>3, <2>2, <2>3, IsaTaken
  <2>5. ~Excepted(i) /\ X < Y => k = n
    BY <1>0, <1>1, <2>2 DEF Excepted, Differs, Operands
  <2> QED BY <1>1, <2>1, <2>2, <2>3, <2>4, <2>5, BranchStep DEF b
<1>7. CASE exec_bge(i)
  <2>1. PICK t \in Int : t = IF x >= y THEN n ELSE 4
    OBVIOUS
  <2>2. i.op = "bge" /\ Jumps(pc + t)
    BY <1>0, <1>1, <1>7, <2>1 DEF exec_bge, Branches, Operands
  <2>3. i.op \in ISA!Branching
    BY <2>2 DEF ISA!Branching
  <2>4. ISA!Taken(b) <=> X >= Y
    BY <1>3, <2>2, <2>3, IsaTaken
  <2>5. ~Excepted(i) => ((SignExt(x, Dword) < 0) = (SignExt(y, Dword) < 0))
    BY <1>0, <2>2 DEF Excepted, SignsDiffer, Negative, Operands
  <2>6. X = SignExt(x, Dword) /\ Y = SignExt(y, Dword)
    BY <1>0 DEF Operands, S
  <2>7. ~Excepted(i) => (x >= y <=> X >= Y)
    BY <1>0, <2>5, <2>6, SignsAgree DEF Operands
  <2> QED BY <1>1, <2>1, <2>2, <2>3, <2>4, <2>7, BranchStep DEF b
<1>8. CASE exec_bltu(i)
  <2>1. PICK t \in Int : t = IF x < y THEN n ELSE 4
    OBVIOUS
  <2>2. i.op = "bltu" /\ Jumps(pc + t)
    BY <1>0, <1>1, <1>8, <2>1 DEF exec_bltu, Branches, Operands
  <2>3. i.op \in ISA!Branching
    BY <2>2 DEF ISA!Branching
  <2>4. ISA!Taken(b) <=> x < y
    BY <1>0, <1>3, <2>2, <2>3, IsaTaken DEF Operands
  <2> QED BY <1>1, <2>1, <2>2, <2>3, <2>4, BranchStep DEF b
<1>9. CASE exec_bgeu(i)
  <2>1. PICK t \in Int : t = IF x >= y THEN n ELSE 4
    OBVIOUS
  <2>2. i.op = "bgeu" /\ Jumps(pc + t)
    BY <1>0, <1>1, <1>9, <2>1 DEF exec_bgeu, Branches, Operands
  <2>3. i.op \in ISA!Branching
    BY <2>2 DEF ISA!Branching
  <2>4. ISA!Taken(b) <=> x >= y
    BY <1>0, <1>3, <2>2, <2>3, IsaTaken DEF Operands
  <2> QED BY <1>1, <2>1, <2>2, <2>3, <2>4, BranchStep DEF b
<1> QED BY <1>4, <1>5, <1>6, <1>7, <1>8, <1>9 DEF hande_b_type

-----------------------------------------------------------------------------
(* Loads. *)
LEMMA ExpandMemory ==
  ASSUME NEW i, i.op \in ISA!Loading \cup ISA!Storing
  PROVE  LET b == ISA!Expand(i)
         IN  /\ b.op = i.op /\ b.rd = i.rd /\ b.rs1 = i.rs1 /\ b.rs2 = i.rs2 /\ b.len = 4
             /\ b.imm = SignExt(i.imm, ImmBits)
<1>1. ISA!Expand(i) = [op |-> i.op, rd |-> i.rd, rs1 |-> i.rs1, rs2 |-> i.rs2, len |-> 4,
                       imm |-> ISA!SignExt(i.imm, ImmBits)]
  BY DEF ISA!Loading, ISA!Storing, ISA!Expand
<1>2. ISA!SignExt(i.imm, ImmBits) = SignExt(i.imm, ImmBits)
  BY IsaWords
<1> QED BY <1>1, <1>2

\* The address of an access.
LEMMA Addresses ==
  ASSUME Typed, gpr[0] = 0, NEW b, b.rs1 \in Regs, b.imm \in Int
  PROVE  ISA!At(b) = Address(b.rs1, b.imm)
<1>1. PICK x \in Int, X \in Int : x = gpr[b.rs1] /\ X = ISA!Reg(b.rs1) /\ Same(x, X, Dword)
  BY Registers DEF Same
<1>2. PICK n \in Int : n = b.imm
  OBVIOUS
<1>3. Same(n, n, Dword) /\ Dword \in Nat \ {0}
  BY Sizes DEF Same
<1>4. Same(x + n, X + n, Dword)
  BY <1>1, <1>3, SameLowBits
<1> QED BY <1>1, <1>2, <1>4, IsaWords DEF ISA!At, Address, Same

\* What a load reads.
LEMMA IsaLoads ==
  ASSUME Typed, gpr[0] = 0, NEW b, b.rs1 \in Regs, b.imm \in Int
  PROVE  LET a == Address(b.rs1, b.imm)
         IN  /\ b.op = "lb" => ISA!Value(b) = SignExt(Gather(mem, a, 1), Byte)
             /\ b.op = "lh" => ISA!Value(b) = SignExt(Gather(mem, a, 2), Half)
             /\ b.op = "lw" => ISA!Value(b) = SignExt(Gather(mem, a, 4), Word)
             /\ b.op = "ld" => ISA!Value(b) = Gather(mem, a, 8)
             /\ b.op = "lbu" => ISA!Value(b) = Gather(mem, a, 1)
             /\ b.op = "lhu" => ISA!Value(b) = Gather(mem, a, 2)
             /\ b.op = "lwu" => ISA!Value(b) = Gather(mem, a, 4)
<1> DEFINE a == Address(b.rs1, b.imm)
<1>0. ISA!At(b) = a /\ 1 * Byte = Byte /\ 2 * Byte = Half /\ 4 * Byte = Word
  BY Addresses, Sizes
<1> HIDE DEF a
<1>1. b.op \in {"lb", "lh", "lw"} =>
        ISA!Value(b) = ISA!SignExt(ISA!Gather(mem, ISA!At(b), ISA!SizeOf[b.op]), ISA!SizeOf[b.op] * ISA!Byte)
  BY DEF ISA!Value, ISA!Loading, ISA!CsrOps
<1>2. b.op \in {"ld", "lbu", "lhu", "lwu"} => ISA!Value(b) = ISA!Gather(mem, ISA!At(b), ISA!SizeOf[b.op])
  BY DEF ISA!Value, ISA!Loading, ISA!CsrOps
<1>3. /\ ISA!SizeOf["lb"] = 1 /\ ISA!SizeOf["lh"] = 2 /\ ISA!SizeOf["lw"] = 4 /\ ISA!SizeOf["ld"] = 8
      /\ ISA!SizeOf["lbu"] = 1 /\ ISA!SizeOf["lhu"] = 2 /\ ISA!SizeOf["lwu"] = 4
  BY DEF ISA!SizeOf
<1> HIDE DEF ISA!SizeOf, ISA!Value
<1> QED BY <1>0, <1>1, <1>2, <1>3, IsaWords DEF a

\* A load of that value is as it should be.
LEMMA LoadStep ==
  ASSUME NEW i, Ready(i), NEW rd \in Regs, NEW len \in Nat, NEW v \in Int,
         ISA!Expand(i).op \in ISA!Loading, ISA!Expand(i).rd = rd, ISA!Expand(i).len = len,
         Write(rd, v), Skips(len), UNCHANGED <<fgpr, csr, mem, status>>,
         ~Excepted(i) /\ rd # 0 => v = ISA!Value(ISA!Expand(i))
  PROVE  Good(i)
<1> DEFINE b == ISA!Expand(i)
<1>0. b.op \in ISA!Loading /\ b.rd = rd /\ b.len = len
  OBVIOUS
<1> HIDE DEF b
<1>1. ISA!Dest(b) = rd /\ b.op \in PlainOps
  BY <1>0 DEF ISA!Dest, ISA!Loading, ISA!Storing, ISA!Branching, ISA!ToFloat, PlainOps
<1>2. ISA!Target(b) = pc + len
  BY <1>0, IsaTargets DEF ISA!Loading, ISA!Branching
<1>3. pc + len \in Int /\ Goes(pc + len)
  BY PcTyped DEF Skips
<1> QED BY <1>1, <1>2, <1>3, ChangesOne DEF b, Same

(* What a load inside the memory finds. *)
LEMMA Found ==
  ASSUME Typed, NEW n \in 1 .. 8, NEW a, InRam(a, n)
  PROVE  Gather(mem, a, n) \in Int /\ Gather(mem, a, n) \in Field(Byte * n)
<1>1. a \in Ram /\ a + n - 1 \in Ram /\ mem \in Memory
  BY DEF Typed, InRam, Memory
<1> QED BY <1>1, GatherType

\* The seven loads.
LEMMA FullLoads ==
  ASSUME NEW i, Ready(i), exec_load(i)
  PROVE  Good(i)
<1> DEFINE b == ISA!Expand(i)
           n == SignExt(i.imm, ImmBits)
           a == Address(i.rs1, n)
<1>0. /\ Typed /\ gpr[0] = 0 /\ i.rd \in Regs /\ i.rs1 \in Regs /\ n \in Int
      /\ Byte \in Nat \ {0} /\ Half \in Nat \ {0} /\ Word \in Nat \ {0}
  BY Immediates, Sizes DEF Ready
<1>1. i.op \in ISA!Loading
  BY DEF exec_load, ISA!Loading
<1>2. b.op = i.op /\ b.rd = i.rd /\ b.rs1 = i.rs1 /\ b.len = 4 /\ b.imm = n
  BY <1>1, ExpandMemory
<1> HIDE DEF b, n
<1>3. /\ i.op = "lb" => ISA!Value(b) = SignExt(Gather(mem, a, 1), Byte)
      /\ i.op = "lh" => ISA!Value(b) = SignExt(Gather(mem, a, 2), Half)
      /\ i.op = "lw" => ISA!Value(b) = SignExt(Gather(mem, a, 4), Word)
      /\ i.op = "ld" => ISA!Value(b) = Gather(mem, a, 8)
      /\ i.op = "lbu" => ISA!Value(b) = Gather(mem, a, 1)
      /\ i.op = "lhu" => ISA!Value(b) = Gather(mem, a, 2)
      /\ i.op = "lwu" => ISA!Value(b) = Gather(mem, a, 4)
  BY <1>0, <1>2, IsaLoads
<1>4. /\ \/ i.op = "lb" /\ Loads(i.rd, a, 1, AsByte, 4)
         \/ i.op = "lh" /\ Loads(i.rd, a, 2, AsHalf, 4)
         \/ i.op = "lw" /\ Loads(i.rd, a, 4, AsIs, 4)
         \/ i.op = "ld" /\ Loads(i.rd, a, 8, AsIs, 4)
         \/ i.op = "lbu" /\ Loads(i.rd, a, 1, AsIs, 4)
         \/ i.op = "lhu" /\ Loads(i.rd, a, 2, AsIs, 4)
         \/ i.op = "lwu" /\ Loads(i.rd, a, 4, AsIs, 4)
  BY DEF exec_load, n
<1> HIDE DEF a
<1>5. ASSUME NEW v \in Int, Write(i.rd, v), Skips(4), UNCHANGED <<fgpr, csr, mem, status>>,
             ~Excepted(i) /\ i.rd # 0 => v = ISA!Value(b)
      PROVE  Good(i)
  BY <1>0, <1>1, <1>2, <1>5, LoadStep DEF b
<1>6. CASE i.op = "lb" /\ Loads(i.rd, a, 1, AsByte, 4)
  <2>1. InRam(a, 1) /\ Write(i.rd, SignExt(Gather(mem, a, 1), Byte)) /\ Skips(4) /\ UNCHANGED <<fgpr, csr, mem, status>>
    BY <1>6 DEF Loads, AsByte
  <2>2. PICK g \in Int : g = Gather(mem, a, 1)
    BY <1>0, <2>1, Found
  <2>3. SignExt(g, Byte) \in Int
    BY <1>0, SignBits
  <2> QED BY <1>3, <1>5, <1>6, <2>1, <2>2, <2>3
<1>7. CASE i.op = "lh" /\ Loads(i.rd, a, 2, AsHalf, 4)
  <2>1. InRam(a, 2) /\ Write(i.rd, SignExt(Gather(mem, a, 2), Half)) /\ Skips(4) /\ UNCHANGED <<fgpr, csr, mem, status>>
    BY <1>7 DEF Loads, AsHalf
  <2>2. PICK g \in Int : g = Gather(mem, a, 2)
    BY <1>0, <2>1, Found
  <2>3. SignExt(g, Half) \in Int
    BY <1>0, SignBits
  <2> QED BY <1>3, <1>5, <1>7, <2>1, <2>2, <2>3
<1>8. CASE i.op = "lw" /\ Loads(i.rd, a, 4, AsIs, 4)
  <2>1. InRam(a, 4) /\ Write(i.rd, Gather(mem, a, 4)) /\ Skips(4) /\ UNCHANGED <<fgpr, csr, mem, status>>
    BY <1>8 DEF Loads, AsIs
  <2>2. PICK g \in Int : g = Gather(mem, a, 4) /\ g \in Field(Byte * 4)
    BY <1>0, <2>1, Found
  <2>3. g \in Field(Word) /\ SignExt(g, Word) \in Int /\ SignExt(SignExt(g, Word), Word) = SignExt(g, Word)
    BY <1>0, <2>2, Sizes, SignBits, Narrower
  <2>4. ~Excepted(i) /\ i.rd # 0 => ~(SignExt(SignExt(g, Word), Word) < 0)
    BY <1>3, <1>8, <2>2 DEF Excepted, Negative, b
  <2>5. ~Excepted(i) /\ i.rd # 0 => SignExt(g, Word) = g
    BY <1>0, <2>3, <2>4, SignOf
  <2> QED BY <1>3, <1>5, <1>8, <2>1, <2>2, <2>5
<1>9. CASE i.op = "ld" /\ Loads(i.rd, a, 8, AsIs, 4)
  <2>1. InRam(a, 8) /\ Write(i.rd, Gather(mem, a, 8)) /\ Skips(4) /\ UNCHANGED <<fgpr, csr, mem, status>>
    BY <1>9 DEF Loads, AsIs
  <2> QED BY <1>0, <1>3, <1>5, <1>9, <2>1, Found
<1>10. CASE i.op = "lbu" /\ Loads(i.rd, a, 1, AsIs, 4)
  <2>1. InRam(a, 1) /\ Write(i.rd, Gather(mem, a, 1)) /\ Skips(4) /\ UNCHANGED <<fgpr, csr, mem, status>>
    BY <1>10 DEF Loads, AsIs
  <2> QED BY <1>0, <1>3, <1>5, <1>10, <2>1, Found
<1>11. CASE i.op = "lhu" /\ Loads(i.rd, a, 2, AsIs, 4)
  <2>1. InRam(a, 2) /\ Write(i.rd, Gather(mem, a, 2)) /\ Skips(4) /\ UNCHANGED <<fgpr, csr, mem, status>>
    BY <1>11 DEF Loads, AsIs
  <2> QED BY <1>0, <1>3, <1>5, <1>11, <2>1, Found
<1>12. CASE i.op = "lwu" /\ Loads(i.rd, a, 4, AsIs, 4)
  <2>1. InRam(a, 4) /\ Write(i.rd, Gather(mem, a, 4)) /\ Skips(4) /\ UNCHANGED <<fgpr, csr, mem, status>>
    BY <1>12 DEF Loads, AsIs
  <2> QED BY <1>0, <1>3, <1>5, <1>12, <2>1, Found
<1> QED BY <1>4, <1>6, <1>7, <1>8, <1>9, <1>10, <1>11, <1>12

-----------------------------------------------------------------------------
(* Operations that write memory. *)
LEMMA IsaStores ==
  ASSUME NEW b
  PROVE  /\ b.op \in ISA!Storing =>
              /\ ISA!Stored(b) = Scatter(mem, ISA!At(b), ISA!SizeOf[b.op], U(ISA!Reg(b.rs2), Dword))
              /\ ISA!SizeOf[b.op] \in 0 .. 8 /\ b.op \in DOMAIN ISA!SizeOf
         /\ b.op = "amoswap.w" =>
              ISA!Stored(b) = Scatter(mem, U(ISA!Reg(b.rs1), Dword), 4, U(ISA!Reg(b.rs2), Dword))
         /\ b.op = "amoadd.w" =>
              ISA!Stored(b) = Scatter(mem, U(ISA!Reg(b.rs1), Dword), 4,
                                      U(ISA!Reg(b.rs2) + Gather(mem, U(ISA!Reg(b.rs1), Dword), 4), Dword))
         /\ b.op \in {"amoswap.w", "amoadd.w"} =>
              /\ ISA!Value(b) = SignExt(Gather(mem, U(ISA!Reg(b.rs1), Dword), 4), Word)
              /\ b.op \notin DOMAIN ISA!SizeOf /\ b.op \notin ISA!Storing
<1>1. b.op \in ISA!Storing => ISA!Stored(b) = ISA!Scatter(mem, ISA!At(b), ISA!SizeOf[b.op], ISA!Unsigned(ISA!Reg(b.rs2)))
  BY DEF ISA!Stored, ISA!Storing
<1>2. b.op \in ISA!Storing => ISA!SizeOf[b.op] \in 0 .. 8 /\ b.op \in DOMAIN ISA!SizeOf
  BY DEF ISA!Storing, ISA!SizeOf
<1>3. b.op = "amoswap.w" =>
        ISA!Stored(b) = ISA!Scatter(mem, ISA!Unsigned(ISA!Reg(b.rs1)), 4, ISA!Unsigned(ISA!Reg(b.rs2)))
  BY DEF ISA!Stored, ISA!Storing
<1>4. b.op = "amoadd.w" =>
        ISA!Stored(b) = ISA!Scatter(mem, ISA!Unsigned(ISA!Reg(b.rs1)), 4,
                 ISA!Unsigned(ISA!Reg(b.rs2) + ISA!Gather(mem, ISA!Unsigned(ISA!Reg(b.rs1)), 4)))
  BY DEF ISA!Stored, ISA!Storing
<1>5. b.op \in {"amoswap.w", "amoadd.w"} =>
        ISA!Value(b) = ISA!Low(ISA!Gather(mem, ISA!Unsigned(ISA!Reg(b.rs1)), 4))
  BY DEF ISA!Value, ISA!Loading, ISA!CsrOps
<1>6. b.op \in {"amoswap.w", "amoadd.w"} => b.op \notin DOMAIN ISA!SizeOf /\ b.op \notin ISA!Storing
  BY DEF ISA!Storing, ISA!SizeOf
<1> HIDE DEF ISA!SizeOf, ISA!Value, ISA!Stored, ISA!Storing
<1> QED BY <1>1, <1>2, <1>3, <1>4, <1>5, <1>6, IsaWords

Writing == ISA!Storing \cup {"amoswap.w", "amoadd.w"}

\* A step that writes the addressed bytes only, and the right ones unless it is excepted.
LEMMA ChangesMemory ==
  ASSUME NEW i, Ready(i), NEW rd \in Regs, NEW v \in Int, NEW t \in Int,
         NEW a \in Int, NEW n \in 0 .. 8, NEW x \in Int,
         ISA!Expand(i).op \in Writing, ISA!Dest(ISA!Expand(i)) = rd,
         IF ISA!Expand(i).op \in ISA!Storing
         THEN a = ISA!At(ISA!Expand(i)) /\ n = ISA!SizeOf[ISA!Expand(i).op]
         ELSE a = gpr[ISA!Expand(i).rs1] /\ n = 4,
         Write(rd, v), Goes(t), mem' = Scatter(mem, a, n, x), UNCHANGED <<fgpr, csr, status>>,
         ~Excepted(i) => /\ Same(t, ISA!Target(ISA!Expand(i)), Dword)
                         /\ rd # 0 => Same(v, ISA!Value(ISA!Expand(i)), Dword)
                         /\ mem' = ISA!Stored(ISA!Expand(i)) /\ ~ISA!Traps(ISA!Expand(i))
  PROVE  Good(i)
<1> DEFINE b == ISA!Expand(i)
<1>1. ISA!NewFloat(b) = fgpr
  BY DEF Writing, ISA!Storing, ISA!NewFloat
<1>8. ISA!NewCsr(b) = csr
  BY DEF Writing, ISA!Storing, ISA!NewCsr
<1>9. b.op \in ISA!Storing => b.op \in DOMAIN ISA!SizeOf
  BY IsaStores
<1>10. b.op \notin ISA!Storing => b.op \in {"amoswap.w", "amoadd.w"} /\ b.op \notin DOMAIN ISA!SizeOf
  BY IsaStores DEF Writing
<1> HIDE DEF b
<1>2. /\ gpr' \in [Regs -> Field(Dword)]
      /\ \A r \in Regs \ {0, rd} : gpr'[r] = gpr[r]
      /\ gpr'[0] = gpr[0]
      /\ gpr' = IF rd = 0 THEN gpr ELSE [gpr EXCEPT ![rd] = U(v, Dword)]
  BY WriteOne DEF Ready
<1>3. pc' \in Field(Dword) /\ pc' = U(t, Dword)
  BY GoesTyped
<1>11. mem \in Memory /\ DOMAIN mem = Ram
  BY DEF Ready, Typed, Memory
<1>12. mem' \in Memory /\ \A y \in Ram \ (a .. a + n - 1) : mem'[y] = mem[y]
  BY <1>11, ScatterType
<1>4. Typed'
  BY <1>2, <1>3, <1>12 DEF Ready, Typed, Memory
<1>5. Confined(i)
  <2>1. DOMAIN gpr = Regs
    BY DEF Ready, Typed
  <2>2. \A r \in DOMAIN gpr \ {0, ISA!Dest(b)} : gpr'[r] = gpr[r]
    BY <1>2, <2>1 DEF b
  <2>3. CASE b.op \in ISA!Storing
    BY <1>2, <1>9, <1>11, <1>12, <2>2, <2>3 DEF Confined, b
  <2>4. CASE b.op \notin ISA!Storing
    BY <1>2, <1>10, <1>11, <1>12, <2>2, <2>4 DEF Confined, b
  <2> QED BY <2>3, <2>4
<1>6. ASSUME rd = 0 \/ Same(v, ISA!Value(b), Dword), Same(t, ISA!Target(b), Dword),
             mem' = ISA!Stored(b), ~ISA!Traps(b)
      PROVE  ISA!Executes(i)
  BY <1>1, <1>2, <1>3, <1>6, <1>8, IsaWords DEF ISA!Executes, b, Same
<1>7. Keeps(i)
  BY <1>6 DEF Keeps, b, Ready
<1> QED BY <1>4, <1>5, <1>7 DEF Good

\* A store of the right bytes is as it should be.
LEMMA StoreStep ==
  ASSUME NEW i, Ready(i), NEW r \in Regs, NEW s \in Regs, NEW off \in Int, NEW len \in Nat, NEW n \in 0 .. 8,
         ISA!Expand(i).op \in ISA!Storing, ISA!Expand(i).rs1 = r, ISA!Expand(i).rs2 = s,
         ISA!Expand(i).imm = off, ISA!Expand(i).len = len, n = ISA!SizeOf[ISA!Expand(i).op],
         Stores(Address(r, off), n, gpr[s], len)
  PROVE  Good(i)
<1> DEFINE b == ISA!Expand(i)
<1>0. b.op \in ISA!Storing /\ b.rs1 = r /\ b.rs2 = s /\ b.imm = off /\ b.len = len /\ n = ISA!SizeOf[b.op]
  OBVIOUS
<1> HIDE DEF b
<1>1. PICK a \in Int : a = Address(r, off) /\ a = ISA!At(b)
  <2>1. PICK x \in Int : x = gpr[r]
    BY Registers DEF Ready
  <2>2. U(x + off, Dword) \in Int
    BY Sizes, LowBits, x + off \in Int
  <2> QED BY <1>0, <2>1, <2>2, Addresses DEF Address, Ready
<1>2. PICK x \in Int : x = gpr[s] /\ x = U(ISA!Reg(s), Dword)
  BY Registers DEF Ready
<1>3. ISA!Stored(b) = Scatter(mem, a, n, x)
  BY <1>0, <1>1, <1>2, IsaStores
<1>4. mem' = Scatter(mem, a, n, x) /\ Goes(pc + len) /\ UNCHANGED <<gpr, fgpr, csr, status>>
  BY <1>1, <1>2 DEF Stores, Skips
<1>5. ISA!Dest(b) = 0 /\ b.op \in Writing /\ ~ISA!Traps(b)
  BY <1>0 DEF ISA!Dest, Writing, ISA!Traps, ISA!Storing
<1>6. ISA!Target(b) = pc + len /\ pc + len \in Int /\ 0 \in Regs /\ 0 \in Int
  BY <1>0, IsaTargets, PcTyped DEF ISA!Storing, ISA!Branching
<1>7. Write(0, 0) /\ UNCHANGED <<fgpr, csr, status>>
  BY <1>4 DEF Write
<1> QED BY <1>0, <1>1, <1>3, <1>4, <1>5, <1>6, <1>7, ChangesMemory DEF b, Same

\* The four stores.
LEMMA FullStores ==
  ASSUME NEW i, Ready(i), exec_store(i)
  PROVE  Good(i)
<1> DEFINE b == ISA!Expand(i)
           n == StoreSize[i.op]
<1>1. i.op \in ISA!Storing /\ n \in 0 .. 8 /\ n = ISA!SizeOf[i.op]
  BY DEF exec_store, StoreSize, ISA!Storing, ISA!SizeOf
<1>2. b.op = i.op /\ b.rs1 = i.rs1 /\ b.rs2 = i.rs2 /\ b.len = 4 /\ b.imm = SignExt(i.imm, ImmBits)
  BY <1>1, ExpandMemory
<1>3. Stores(Address(i.rs1, SignExt(i.imm, ImmBits)), n, gpr[i.rs2], 4)
  BY DEF exec_store
<1>4. i.rs1 \in Regs /\ i.rs2 \in Regs /\ SignExt(i.imm, ImmBits) \in Int
  BY Immediates DEF Ready
<1> HIDE DEF b, n
<1> QED BY <1>1, <1>2, <1>3, <1>4, StoreStep DEF b
-----------------------------------------------------------------------------
(* Atomic operations. *)
LEMMA ExpandAmo ==
  ASSUME NEW i, i.op \in {"amoswap.w", "amoadd.w"}
  PROVE  LET b == ISA!Expand(i)
         IN  /\ b.op = i.op /\ b.rd = i.rd /\ b.rs1 = i.rs1 /\ b.rs2 = i.rs2 /\ b.len = 4
             /\ ISA!Dest(b) = i.rd /\ ISA!Target(b) = pc + 4 /\ b.op \in Writing /\ b.op \notin ISA!Storing
             /\ ISA!Traps(b) <=> ISA!Reg(i.rs1) % 4 # 0
<1> DEFINE b == ISA!Expand(i)
<1>1. b.op = i.op /\ b.rd = i.rd /\ b.rs1 = i.rs1 /\ b.rs2 = i.rs2 /\ b.len = 4
  BY DEF ISA!Expand
<1> HIDE DEF b
<1>2. ISA!Dest(b) = i.rd /\ b.op \in Writing /\ b.op \notin ISA!Storing
  BY <1>1 DEF ISA!Dest, ISA!Storing, ISA!Branching, ISA!ToFloat, Writing
<1>3. ISA!Target(b) = pc + 4
  BY <1>1, IsaTargets DEF ISA!Branching
<1>4. ISA!Traps(b) <=> ISA!Reg(i.rs1) % 4 # 0
  BY <1>1 DEF ISA!Traps
<1> QED BY <1>1, <1>2, <1>3, <1>4 DEF b

(* An address is aligned as a signed number if it is as an unsigned one. *)
LEMMA Aligned ==
  ASSUME NEW x \in Int, NEW X \in Int, Same(x, X, Dword)
  PROVE  x % 4 = X % 4
<1>1. 2^2 = 4
  <2>1. 2^1 = 2 * 2^0 /\ 2^2 = 2 * 2^1 /\ 2^0 = 1
    BY PowerZero, PowerDoubles, 0 \in Nat, 1 \in Nat, 0 + 1 = 1, 1 + 1 = 2
  <2> QED BY <2>1
<1>2. U(x, 2) = U(X, 2)
  <2>1. 2 \in Nat \ {0} /\ Dword \in Nat \ {0} /\ 2 <= Dword
    BY Sizes
  <2> QED BY <2>1, Narrower DEF Same
<1> QED BY <1>1, <1>2 DEF U

\* amoswap.w, which halts on a misaligned address.
LEMMA FullSwap ==
  ASSUME NEW i, Ready(i), exec_amoswap(i)
  PROVE  Good(i)
<1> DEFINE b == ISA!Expand(i)
<1>0. PICK x, X, y, Y, m, M \in Int : Operands(i, x, X, y, Y, m, M)
  BY OperandsExist
<1>1. i.op = "amoswap.w" /\ InRam(x, 4) /\ i.rd \in Regs /\ Typed /\ status = "runs"
  BY <1>0 DEF exec_amoswap, Operands, Ready
<1>2. CASE x % 4 # 0
  <2>1. status' = "halted" /\ UNCHANGED state
    BY <1>0, <1>2 DEF exec_amoswap, Operands
  <2>2. Excepted(i)
    BY <1>0, <1>1, <1>2 DEF Excepted, Operands
  <2>3. UNCHANGED <<gpr, fgpr, csr, mem, pc>> /\ ~Jumps(0) /\ 0 \in Int
    BY <1>1, <2>1 DEF state, Jumps
  <2> QED BY <2>1, <2>2, <2>3, ChangesNone
<1>3. CASE x % 4 = 0
  <2>1. /\ mem' = Scatter(mem, x, 4, y) /\ Write(i.rd, Gather(mem, x, 4)) /\ Goes(pc + 4)
        /\ UNCHANGED <<fgpr, csr, status>>
    BY <1>0, <1>3 DEF exec_amoswap, Operands, Skips
  <2>2. PICK g \in Int : g = Gather(mem, x, 4) /\ g \in Field(Byte * 4)
    BY <1>1, Found
  <2>3. /\ b.op = i.op /\ b.rd = i.rd /\ b.rs1 = i.rs1 /\ b.rs2 = i.rs2 /\ b.len = 4
        /\ ISA!Dest(b) = i.rd /\ ISA!Target(b) = pc + 4 /\ b.op \in Writing /\ b.op \notin ISA!Storing
        /\ ISA!Traps(b) <=> ISA!Reg(i.rs1) % 4 # 0
    BY <1>1, ExpandAmo
  <2> HIDE DEF b
  <2>4. ~ISA!Traps(b)
    BY <1>0, <1>3, <2>3, Aligned DEF Operands
  <2>5. ISA!Stored(b) = Scatter(mem, x, 4, y) /\ ISA!Value(b) = SignExt(g, Word)
    BY <1>0, <1>1, <2>2, <2>3, IsaStores DEF Operands
  <2>6. g \in Field(Word) /\ SignExt(g, Word) \in Int /\ SignExt(SignExt(g, Word), Word) = SignExt(g, Word)
        /\ Word \in Nat \ {0}
    BY <2>2, Sizes, SignBits, Narrower
  <2>7. ~Excepted(i) /\ i.rd # 0 => ~(SignExt(SignExt(g, Word), Word) < 0)
    BY <1>1, <2>5 DEF Excepted, Negative, b
  <2>8. ~Excepted(i) /\ i.rd # 0 => SignExt(g, Word) = g
    BY <2>6, <2>7, SignOf
  <2>9. pc + 4 \in Int /\ 4 \in 0 .. 8 /\ x = gpr[b.rs1]
    BY <1>0, <2>3, PcTyped DEF Operands
  <2> QED BY <1>1, <2>1, <2>2, <2>3, <2>4, <2>5, <2>8, <2>9, ChangesMemory DEF b, Same
<1> QED BY <1>2, <1>3

\* amoadd.w.
LEMMA FullAmoAdd ==
  ASSUME NEW i, Ready(i), exec_amoadd(i)
  PROVE  Good(i)
<1> DEFINE b == ISA!Expand(i)
<1>0. PICK x, X, y, Y, m, M \in Int : Operands(i, x, X, y, Y, m, M)
  BY OperandsExist
<1>1. i.op = "amoadd.w" /\ InRam(x, 4) /\ i.rd \in Regs /\ Typed /\ mem \in Memory /\ Dword \in Nat \ {0}
  BY <1>0 DEF exec_amoadd, Operands, Ready, Typed
<1>2. PICK g \in Int : g = Gather(mem, x, 4)
  BY <1>1, Found
<1>3. /\ mem' = Scatter(mem, x, 4, y + g) /\ Write(i.rd, SignExt(g, Word)) /\ Goes(pc + 4)
      /\ UNCHANGED <<fgpr, csr, status>>
  BY <1>0, <1>2 DEF exec_amoadd, Operands, Skips
<1>4. /\ b.op = i.op /\ b.rd = i.rd /\ b.rs1 = i.rs1 /\ b.rs2 = i.rs2 /\ b.len = 4
      /\ ISA!Dest(b) = i.rd /\ ISA!Target(b) = pc + 4 /\ b.op \in Writing /\ b.op \notin ISA!Storing
      /\ ISA!Traps(b) <=> ISA!Reg(i.rs1) % 4 # 0
  BY <1>1, ExpandAmo
<1>5. ~Excepted(i) => x % 4 = 0
  BY <1>0, <1>1 DEF Excepted, Operands
<1> HIDE DEF b
<1>6. ~Excepted(i) => ~ISA!Traps(b)
  BY <1>0, <1>4, <1>5, Aligned DEF Operands
<1>7. ISA!Stored(b) = Scatter(mem, x, 4, U(Y + g, Dword)) /\ ISA!Value(b) = SignExt(g, Word)
  BY <1>0, <1>1, <1>2, <1>4, IsaStores DEF Operands
<1>8. PICK s \in Int, t \in Int : s = y + g /\ t = Y + g
  OBVIOUS
<1>9. U(s, Dword) = U(t, Dword)
  <2>1. Same(y, Y, Dword) /\ Same(g, g, Dword)
    BY <1>0 DEF Operands, Same
  <2>2. Same(y + g, Y + g, Dword)
    BY <1>1, <2>1, SameLowBits
  <2> QED BY <1>8, <2>2 DEF Same
<1>10. 4 \in 0 .. 8
  OBVIOUS
<1>11. Scatter(mem, x, 4, U(t, Dword)) = Scatter(mem, x, 4, s)
  BY <1>1, <1>9, <1>10, ScatterLow
<1>12. pc + 4 \in Int /\ x = gpr[b.rs1] /\ SignExt(g, Word) \in Int
  BY <1>0, <1>4, PcTyped, SignExtTyped DEF Operands
<1> QED BY <1>1, <1>3, <1>4, <1>6, <1>7, <1>8, <1>10, <1>11, <1>12, ChangesMemory DEF b, Same

-----------------------------------------------------------------------------
(* Operations that leave memory alone. *)
LEMMA KeepsMemory ==
  ASSUME NEW i, Ready(i), gpr' \in [Regs -> Field(Dword)], fgpr' \in [Regs -> Field(Dword)],
         csr' \in Field(Dword), NEW t \in Int, Goes(t), UNCHANGED <<mem, status>>,
         \A r \in Regs \ {0, ISA!Dest(ISA!Expand(i))} : gpr'[r] = gpr[r],
         gpr'[0] # gpr[0] => i.rd = 0 /\ i.op \in ZeroUnchecked,
         ~Excepted(i) => /\ Same(t, ISA!Target(ISA!Expand(i)), Dword) /\ ~ISA!Traps(ISA!Expand(i))
                         /\ gpr' = (IF ISA!Dest(ISA!Expand(i)) = 0 THEN gpr
                                    ELSE [gpr EXCEPT ![ISA!Dest(ISA!Expand(i))] =
                                            U(ISA!Value(ISA!Expand(i)), Dword)])
                         /\ fgpr' = ISA!NewFloat(ISA!Expand(i)) /\ csr' = ISA!NewCsr(ISA!Expand(i))
                         /\ ISA!Stored(ISA!Expand(i)) = mem
  PROVE  Good(i)
<1> DEFINE b == ISA!Expand(i)
<1> HIDE DEF b
<1>1. pc' \in Field(Dword) /\ pc' = U(t, Dword)
  BY GoesTyped
<1>2. Typed'
  BY <1>1 DEF Ready, Typed, Memory
<1>3. Confined(i)
  <2>1. DOMAIN gpr = Regs
    BY DEF Ready, Typed
  <2> QED BY <2>1 DEF Confined
<1>4. ~Excepted(i) => ISA!Executes(i)
  BY <1>1, IsaWords DEF ISA!Executes, Same
<1> QED BY <1>2, <1>3, <1>4 DEF Good, Keeps, Ready
-----------------------------------------------------------------------------
(* CSR operations. *)
CsrRegister == {"csrrw", "csrrs", "csrrc"}
CsrImmediate == {"csrrwi", "csrrci"}

LEMMA ExpandCsr ==
  ASSUME NEW i, i.op \in CsrRegister \cup CsrImmediate
  PROVE  LET b == ISA!Expand(i)
         IN  /\ b.op = i.op /\ b.rd = i.rd /\ b.rs1 = i.rs1 /\ b.len = 4
             /\ i.op \in CsrImmediate => b.imm = i.imm
             /\ ISA!Dest(b) = i.rd /\ ISA!Target(b) = pc + 4 /\ ISA!Value(b) = csr
             /\ ISA!NewFloat(b) = fgpr /\ ISA!Stored(b) = mem /\ ~ISA!Traps(b)
<1> DEFINE b == ISA!Expand(i)
<1>1. b.op = i.op /\ b.rd = i.rd /\ b.rs1 = i.rs1 /\ b.len = 4
  BY DEF ISA!Expand, CsrRegister, CsrImmediate
<1>2. i.op \in CsrImmediate => b.imm = i.imm
  BY DEF ISA!Expand, CsrImmediate
<1> HIDE DEF b
<1>3. ISA!Dest(b) = i.rd
  BY <1>1 DEF ISA!Dest, ISA!Storing, ISA!Branching, ISA!ToFloat, CsrRegister, CsrImmediate
<1>4. ISA!Target(b) = pc + 4
  BY <1>1, IsaTargets DEF ISA!Branching, CsrRegister, CsrImmediate
<1>5. ISA!Value(b) = csr
  BY <1>1, IsaValues DEF ISA!CsrOps, CsrRegister, CsrImmediate
<1>6. ISA!NewFloat(b) = fgpr
  BY <1>1 DEF ISA!NewFloat, CsrRegister, CsrImmediate
<1>7. ISA!Stored(b) = mem
  BY <1>1 DEF ISA!Stored, ISA!Storing, CsrRegister, CsrImmediate
<1>8. ~ISA!Traps(b)
  BY <1>1 DEF ISA!Traps, CsrRegister, CsrImmediate
<1> QED BY <1>1, <1>2, <1>3, <1>4, <1>5, <1>6, <1>7, <1>8 DEF b

\* The CSR after them.
LEMMA IsaCsrs ==
  ASSUME NEW b
  PROVE  /\ b.op = "csrrw" => ISA!NewCsr(b) = U(ISA!Reg(b.rs1), Dword)
         /\ b.op = "csrrs" => ISA!NewCsr(b) = Or(csr, U(ISA!Reg(b.rs1), Dword))
         /\ b.op = "csrrc" => ISA!NewCsr(b) = And(csr, 2^Dword - 1 - U(ISA!Reg(b.rs1), Dword))
         /\ b.op = "csrrwi" => ISA!NewCsr(b) = b.imm
         /\ b.op = "csrrci" => ISA!NewCsr(b) = And(csr, 2^Dword - 1 - b.imm)
<1>1. b.op = "csrrw" => ISA!NewCsr(b) = ISA!Unsigned(ISA!Reg(b.rs1))
  BY DEF ISA!NewCsr
<1>2. b.op = "csrrs" => ISA!NewCsr(b) = ISA!Or(csr, ISA!Unsigned(ISA!Reg(b.rs1)))
  BY DEF ISA!NewCsr
<1>3. b.op = "csrrc" => ISA!NewCsr(b) = ISA!And(csr, 2^ISA!Dword - 1 - ISA!Unsigned(ISA!Reg(b.rs1)))
  BY DEF ISA!NewCsr
<1>4. b.op = "csrrwi" => ISA!NewCsr(b) = b.imm
  BY DEF ISA!NewCsr
<1>5. b.op = "csrrci" => ISA!NewCsr(b) = ISA!And(csr, 2^ISA!Dword - 1 - b.imm)
  BY DEF ISA!NewCsr
<1> HIDE DEF ISA!NewCsr
<1> QED BY <1>1, <1>2, <1>3, <1>4, <1>5, IsaWords

\* Clearing bits is And with the complement.
LEMMA ClearsTyped ==
  ASSUME NEW x \in Field(Dword), NEW m \in Field(Dword)
  PROVE  Clears(x, m) \in Field(Dword) /\ Clears(x, m) = And(x, 2^Dword - 1 - m)
<1>1. x \in Int /\ m \in Int /\ 2^Dword \in Nat
  BY Sizes, PowerFacts DEF Field
<1>2. And(x, m) <= x /\ And(x, m) \in Field(Dword)
  BY <1>1, AndBelow, BitwiseType
<1>3. And(x, m) \in Int /\ And(x, m) >= 0 /\ x >= 0 /\ x <= 2^Dword - 1
  BY <1>1, <1>2 DEF Field
<1>4. x - And(x, m) \in 0 .. 2^Dword - 1
  BY <1>1, <1>2, <1>3
<1> QED BY <1>4, AndComplement DEF Clears, Field

\* The CSR operations: the register that is read again after rd is written is the old one unless it is rd.
LEMMA FullCsr ==
  ASSUME NEW i, Ready(i), exec_csr(i)
  PROVE  Good(i)
<1> DEFINE b == ISA!Expand(i)
<1>0. PICK x, X, y, Y, m, M \in Int : Operands(i, x, X, y, Y, m, M)
  BY OperandsExist
<1>1. /\ i.rd \in Regs /\ i.rs1 \in Regs /\ Dword \in Nat \ {0} /\ gpr \in [Regs -> Field(Dword)] /\ gpr[0] = 0
      /\ fgpr \in [Regs -> Field(Dword)] /\ csr \in Field(Dword) /\ pc + 4 \in Int
      /\ i.imm \in Field(Dword) /\ x \in Field(Dword) /\ x = gpr[i.rs1] /\ x = U(ISA!Reg(i.rs1), Dword)
  BY <1>0, Immediates, PcTyped DEF Operands, Ready, Typed
<1>2. i.op \in CsrRegister \cup CsrImmediate
  BY DEF exec_csr, CsrRegister, CsrImmediate
<1>3. /\ b.op = i.op /\ b.rd = i.rd /\ b.rs1 = i.rs1 /\ b.len = 4
      /\ i.op \in CsrImmediate => b.imm = i.imm
      /\ ISA!Dest(b) = i.rd /\ ISA!Target(b) = pc + 4 /\ ISA!Value(b) = csr
      /\ ISA!NewFloat(b) = fgpr /\ ISA!Stored(b) = mem /\ ~ISA!Traps(b)
  BY <1>2, ExpandCsr
<1> HIDE DEF b
<1>4. gpr' = Reads(i) /\ Goes(pc + 4) /\ UNCHANGED <<fgpr, mem, status>>
  BY DEF exec_csr, Skips
<1>5. PICK w \in Field(Dword) : w = Reads(i)[i.rs1]
  BY <1>1 DEF Reads
<1>6. i.rd # i.rs1 \/ i.rd = 0 => w = x
  BY <1>1, <1>5 DEF Reads
<1>7. gpr' \in [Regs -> Field(Dword)] /\ \A r \in Regs \ {i.rd} : gpr'[r] = gpr[r]
  BY <1>1, <1>4 DEF Reads
<1>8. gpr' = IF i.rd = 0 THEN gpr ELSE [gpr EXCEPT ![i.rd] = U(csr, Dword)]
  <2>1. U(csr, Dword) = csr
    BY <1>1, LowBits DEF Field
  <2> QED BY <1>4, <2>1 DEF Reads
<1>9. csr' \in Field(Dword) /\ (~Excepted(i) => csr' = ISA!NewCsr(b))
  <2>1. CASE i.op = "csrrw" /\ csr' = gpr[i.rs1]
    BY <1>1, <1>3, <2>1, IsaCsrs
  <2>2. CASE i.op = "csrrs" /\ csr' = IF i.rs1 = 0 THEN csr ELSE Or(csr, w)
    <3>1. csr' \in Field(Dword)
      <4>1. csr \in Int /\ w \in Int
        BY <1>1 DEF Field
      <4> QED BY <1>1, <2>2, <4>1, BitwiseType
    <3>2. ISA!NewCsr(b) = Or(csr, x)
      BY <1>1, <1>3, <2>2, IsaCsrs
    <3>3. i.rs1 = 0 => csr = Or(csr, x)
      BY <1>1, OrZero
    <3>4. ~Excepted(i) /\ i.rs1 # 0 => w = x
      BY <1>6, <2>2 DEF Excepted
    <3> QED BY <2>2, <3>1, <3>2, <3>3, <3>4
  <2>3. CASE i.op = "csrrc" /\ csr' = Clears(csr, w)
    <3>1. csr' \in Field(Dword) /\ csr' = And(csr, 2^Dword - 1 - w)
      BY <1>1, <2>3, ClearsTyped
    <3>2. ISA!NewCsr(b) = And(csr, 2^Dword - 1 - x)
      BY <1>1, <1>3, <2>3, IsaCsrs
    <3>3. ~Excepted(i) => w = x
      BY <1>6, <2>3 DEF Excepted
    <3> QED BY <3>1, <3>2, <3>3
  <2>4. CASE i.op = "csrrwi" /\ csr' = i.imm
    BY <1>1, <1>3, <2>4, IsaCsrs DEF CsrImmediate
  <2>5. CASE i.op = "csrrci" /\ csr' = Clears(csr, i.imm)
    <3>1. csr' \in Field(Dword) /\ csr' = And(csr, 2^Dword - 1 - i.imm)
      BY <1>1, <2>5, ClearsTyped
    <3> QED BY <1>3, <2>5, <3>1, IsaCsrs DEF CsrImmediate
  <2> QED BY <1>5, <2>1, <2>2, <2>3, <2>4, <2>5 DEF exec_csr
<1>10. gpr'[0] = gpr[0]
  BY <1>7, <1>8, HartConstants
<1> QED BY <1>1, <1>3, <1>4, <1>7, <1>8, <1>9, <1>10, KeepsMemory DEF b, Same
-----------------------------------------------------------------------------
(* Moves between the register files. *)
Moves == {"fmv.x.w", "fmv.x.d", "fmv.w.x", "fmv.d.x", "fsgnj.d"}

LEMMA ExpandMoves ==
  ASSUME NEW i, i.op \in Moves
  PROVE  LET b == ISA!Expand(i)
         IN  /\ b.op = i.op /\ b.rd = i.rd /\ b.rs1 = i.rs1 /\ b.len = 4
             /\ ISA!Dest(b) = (IF i.op \in ISA!ToFloat THEN 0 ELSE i.rd) /\ ISA!Target(b) = pc + 4
             /\ ISA!NewCsr(b) = csr /\ ISA!Stored(b) = mem /\ ~ISA!Traps(b)
             /\ i.op \in {"fmv.x.w", "fmv.x.d"} => ISA!NewFloat(b) = fgpr
             /\ i.op = "fmv.d.x" => ISA!NewFloat(b) = [fgpr EXCEPT ![i.rd] = ISA!Unsigned(ISA!Reg(i.rs1))]
<1> DEFINE b == ISA!Expand(i)
<1>1. b.op = i.op /\ b.rd = i.rd /\ b.rs1 = i.rs1 /\ b.len = 4
  BY DEF ISA!Expand, Moves
<1> HIDE DEF b
<1>2. ISA!Dest(b) = IF i.op \in ISA!ToFloat THEN 0 ELSE i.rd
  BY <1>1 DEF ISA!Dest, ISA!Storing, ISA!Branching, ISA!ToFloat, Moves
<1>3. ISA!Target(b) = pc + 4
  BY <1>1, IsaTargets DEF ISA!Branching, Moves
<1>4. ISA!NewCsr(b) = csr
  BY <1>1 DEF ISA!NewCsr, Moves
<1>5. ISA!Stored(b) = mem
  BY <1>1 DEF ISA!Stored, ISA!Storing, Moves
<1>6. ~ISA!Traps(b)
  BY <1>1 DEF ISA!Traps, Moves
<1>7. i.op \in {"fmv.x.w", "fmv.x.d"} => ISA!NewFloat(b) = fgpr
  BY <1>1 DEF ISA!NewFloat
<1>8. i.op = "fmv.d.x" => ISA!NewFloat(b) = [fgpr EXCEPT ![i.rd] = ISA!Unsigned(ISA!Reg(i.rs1))]
  BY <1>1 DEF ISA!NewFloat
<1> QED BY <1>1, <1>2, <1>3, <1>4, <1>5, <1>6, <1>7, <1>8 DEF b

\* The moves, two of which may write x0.
LEMMA FullMoves ==
  ASSUME NEW i, Ready(i), exec_float(i)
  PROVE  Good(i)
<1> DEFINE b == ISA!Expand(i)
<1>0. PICK x, X, y, Y, m, M \in Int : Operands(i, x, X, y, Y, m, M)
  BY OperandsExist
<1>1. /\ i.rd \in Regs /\ i.rs1 \in Regs /\ gpr \in [Regs -> Field(Dword)] /\ 0 \in Regs /\ Typed
      /\ fgpr \in [Regs -> Field(Dword)] /\ csr \in Field(Dword) /\ pc + 4 \in Int
      /\ x \in Field(Dword) /\ x = gpr[i.rs1] /\ x = ISA!Unsigned(ISA!Reg(i.rs1))
      /\ Dword \in Nat \ {0} /\ Word \in Nat \ {0} /\ Word <= Dword
  BY <1>0, Immediates, PcTyped, Sizes, IsaWords DEF Operands, Ready, Typed
<1>2. i.op \in Moves
  BY DEF exec_float, Moves
<1>3. /\ b.op = i.op /\ b.rd = i.rd /\ b.rs1 = i.rs1 /\ b.len = 4
      /\ ISA!Dest(b) = (IF i.op \in ISA!ToFloat THEN 0 ELSE i.rd) /\ ISA!Target(b) = pc + 4
      /\ ISA!NewCsr(b) = csr /\ ISA!Stored(b) = mem /\ ~ISA!Traps(b)
      /\ i.op \in {"fmv.x.w", "fmv.x.d"} => ISA!NewFloat(b) = fgpr
      /\ i.op = "fmv.d.x" => ISA!NewFloat(b) = [fgpr EXCEPT ![i.rd] = ISA!Unsigned(ISA!Reg(i.rs1))]
  BY <1>2, ExpandMoves
<1> HIDE DEF b
<1>4. Goes(pc + 4) /\ UNCHANGED <<csr, mem, status>>
  BY DEF exec_float, Skips
<1>5. PICK f \in Nat : f = fgpr[i.rs1] /\ f \in Field(Dword)
  BY <1>1 DEF Field
<1>6. PICK s \in Int : s = SignExt(f, Word) /\ s = ISA!Low(fgpr[i.rs1])
  <2>1. SignExt(f, Word) \in Int
    BY <1>1, SignBits
  <2> QED BY <1>5, <2>1, IsaWords
<1>7. ASSUME NEW v \in Int, Writes(i.rd, v), UNCHANGED fgpr, i.op \in {"fmv.x.w", "fmv.x.d"},
             v = ISA!Value(b)
      PROVE  Good(i)
  <2>1. /\ gpr' \in [Regs -> Field(Dword)]
        /\ \A r \in Regs \ {i.rd} : gpr'[r] = gpr[r]
        /\ gpr' = [gpr EXCEPT ![i.rd] = U(v, Dword)]
    BY <1>1, <1>7, WritesOne
  <2>2. i.op \in ZeroUnchecked /\ ISA!Dest(b) = i.rd
    BY <1>3, <1>7 DEF ZeroUnchecked, ISA!ToFloat
  <2>3. ~Excepted(i) => i.rd # 0
    BY <2>2 DEF Excepted
  <2>4. gpr'[0] # gpr[0] => i.rd = 0
    BY <1>1, <2>1
  <2> QED BY <1>1, <1>3, <1>4, <1>7, <2>1, <2>2, <2>3, <2>4, KeepsMemory DEF b, Same
<1>8. CASE i.op = "fmv.x.w" /\ Writes(i.rd, s) /\ UNCHANGED fgpr
  BY <1>3, <1>6, <1>7, <1>8, IsaValues
<1>9. CASE i.op = "fmv.x.d" /\ Writes(i.rd, f) /\ UNCHANGED fgpr
  BY <1>3, <1>5, <1>7, <1>9, IsaValues
<1>10. ASSUME i.op \in ISA!ToFloat, UNCHANGED gpr, fgpr' \in [Regs -> Field(Dword)],
              ~Excepted(i) => fgpr' = ISA!NewFloat(b)
       PROVE  Good(i)
  <2>1. ISA!Dest(b) = 0
    BY <1>3, <1>10
  <2> QED BY <1>1, <1>3, <1>4, <1>10, <2>1, KeepsMemory DEF b, Same
<1>11. CASE i.op = "fmv.w.x" /\ fgpr' = [fgpr EXCEPT ![i.rd] = Uw(i.rs1)] /\ UNCHANGED gpr
  <2>1. Uw(i.rs1) \in Field(Dword)
    <3>1. U(x, Word) \in Field(Word) /\ Field(Word) \subseteq Field(Dword)
      BY <1>1, LowBits, Narrower
    <3> QED BY <1>1, <3>1 DEF Uw
  <2>2. fgpr' \in [Regs -> Field(Dword)]
    BY <1>1, <1>11, <2>1
  <2>3. Excepted(i) /\ i.op \in ISA!ToFloat
    BY <1>11 DEF Excepted, Mistaken, ISA!ToFloat
  <2> QED BY <1>10, <1>11, <2>2, <2>3
<1>12. CASE i.op = "fmv.d.x" /\ fgpr' = [fgpr EXCEPT ![i.rd] = x] /\ UNCHANGED gpr
  <2>1. fgpr' \in [Regs -> Field(Dword)]
    BY <1>1, <1>12
  <2>2. i.op \in ISA!ToFloat
    BY <1>12 DEF ISA!ToFloat
  <2> QED BY <1>1, <1>3, <1>10, <1>12, <2>1, <2>2
<1>13. CASE i.op = "fsgnj.d" /\ UNCHANGED <<gpr, fgpr>>
  <2>1. Excepted(i) /\ i.op \in ISA!ToFloat
    BY <1>13 DEF Excepted, Missing, ISA!ToFloat
  <2> QED BY <1>1, <1>10, <1>13, <2>1
<1> QED BY <1>1, <1>5, <1>6, <1>8, <1>9, <1>11, <1>12, <1>13 DEF exec_float
-----------------------------------------------------------------------------
(* What no function carries out. *)
LEMMA FullNone ==
  ASSUME NEW i, Ready(i),
         \/ exec_csr_none(i) \/ exec_ebreak(i) \/ NoCase(i) \/ NoOpcode(i) \/ NoHandler(i)
         \/ ZeroWord(i) /\ status' = "stopped" /\ UNCHANGED state
  PROVE  Good(i)
<1>1. Excepted(i)
  BY DEF exec_csr_none, exec_ebreak, NoCase, NoOpcode, NoHandler, ZeroWord, Excepted, Missing
<1>2. pc \in Int /\ pc + 4 \in Int /\ 0 \in Int /\ status \in {"runs"}
  BY PcTyped DEF Ready
<1>3. CASE exec_csr_none(i)
  <2>1. Jumps(pc + 4) /\ UNCHANGED status
    BY <1>3 DEF exec_csr_none, Jumps
  <2> QED BY <1>1, <1>2, <2>1, ChangesNone
<1>4. CASE NoCase(i)
  <2>1. Jumps(pc) /\ UNCHANGED status
    BY <1>4 DEF NoCase, Jumps
  <2> QED BY <1>1, <1>2, <2>1, ChangesNone
<1>5. CASE \/ exec_ebreak(i) \/ NoOpcode(i) \/ NoHandler(i)
           \/ ZeroWord(i) /\ status' = "stopped" /\ UNCHANGED state
  <2>1. status' \in {"halted", "stopped", "crashed"} /\ UNCHANGED <<gpr, fgpr, csr, mem, pc>>
    BY <1>5 DEF exec_ebreak, NoOpcode, NoHandler, state
  <2>2. ~Jumps(0)
    BY <1>2, <2>1 DEF Jumps
  <2> QED BY <1>1, <1>2, <2>1, <2>2, ChangesNone
<1> QED BY <1>3, <1>4, <1>5

-----------------------------------------------------------------------------
(* The full instruction of a short one. *)
Short(op, rd, rs1, rs2, imm) ==
  [op |-> op, rd |-> rd, rs1 |-> rs1, rs2 |-> rs2, imm |-> imm, len |-> 2]

\* What a compressed instruction stands for.
LEMMA ExpandShort ==
  ASSUME NEW i
  PROVE  /\ i.op = "c.addi4spn" => ISA!Expand(i) = Short("addi", i.rd, 2, 0, i.imm)
         /\ i.op = "c.lw" => ISA!Expand(i) = Short("lw", i.rd, i.rs1, 0, i.imm)
         /\ i.op = "c.ld" => ISA!Expand(i) = Short("ld", i.rd, i.rs1, 0, i.imm)
         /\ i.op = "c.sw" => ISA!Expand(i) = Short("sw", 0, i.rs1, i.rs2, i.imm)
         /\ i.op = "c.sd" => ISA!Expand(i) = Short("sd", 0, i.rs1, i.rs2, i.imm)
         /\ i.op = "c.addi" => ISA!Expand(i) = Short("addi", i.rd, i.rd, 0, CImm(i))
         /\ i.op = "c.addiw" => ISA!Expand(i) = Short("addiw", i.rd, i.rd, 0, CImm(i))
         /\ i.op = "c.li" => ISA!Expand(i) = Short("addi", i.rd, 0, 0, CImm(i))
         /\ i.op = "c.lui" => ISA!Expand(i) = Short("lui", i.rd, 0, 0, CImm(i) * 2^ImmBits)
         /\ i.op = "c.addi16sp" => ISA!Expand(i) = Short("addi", 2, 2, 0, CImm(i) * SpScale)
         /\ i.op = "c.srli" => ISA!Expand(i) = Short("srli", i.rd, i.rd, 0, i.imm)
         /\ i.op = "c.srai" => ISA!Expand(i) = Short("srai", i.rd, i.rd, 0, i.imm)
         /\ i.op = "c.slli" => ISA!Expand(i) = Short("slli", i.rd, i.rd, 0, i.imm)
         /\ i.op = "c.andi" => ISA!Expand(i) = Short("andi", i.rd, i.rd, 0, CImm(i))
         /\ i.op = "c.and" => ISA!Expand(i) = Short("and", i.rd, i.rd, i.rs2, 0)
         /\ i.op = "c.or" => ISA!Expand(i) = Short("or", i.rd, i.rd, i.rs2, 0)
         /\ i.op = "c.xor" => ISA!Expand(i) = Short("xor", i.rd, i.rd, i.rs2, 0)
         /\ i.op = "c.sub" => ISA!Expand(i) = Short("sub", i.rd, i.rd, i.rs2, 0)
         /\ i.op = "c.addw" => ISA!Expand(i) = Short("addw", i.rd, i.rd, i.rs2, 0)
         /\ i.op = "c.subw" => ISA!Expand(i) = Short("subw", i.rd, i.rd, i.rs2, 0)
         /\ i.op = "c.j" => ISA!Expand(i) = Short("jal", 0, 0, 0, SignExt(i.imm, CJumpBits))
         /\ i.op = "c.beqz" => ISA!Expand(i) = Short("beq", 0, i.rs1, 0, SignExt(i.imm, CBranchBits))
         /\ i.op = "c.bnez" => ISA!Expand(i) = Short("bne", 0, i.rs1, 0, SignExt(i.imm, CBranchBits))
         /\ i.op = "c.lwsp" => ISA!Expand(i) = Short("lw", i.rd, 2, 0, i.imm)
         /\ i.op = "c.ldsp" => ISA!Expand(i) = Short("ld", i.rd, 2, 0, i.imm)
         /\ i.op = "c.swsp" => ISA!Expand(i) = Short("sw", 0, 2, i.rs2, i.imm)
         /\ i.op = "c.sdsp" => ISA!Expand(i) = Short("sd", 0, 2, i.rs2, i.imm)
         /\ i.op = "c.jr" => ISA!Expand(i) = Short("jalr", 0, i.rs1, 0, 0)
         /\ i.op = "c.jalr" /\ i.rs1 # 0 => ISA!Expand(i) = Short("jalr", 1, i.rs1, 0, 0)
         /\ i.op = "c.mv" => ISA!Expand(i) = Short("add", i.rd, 0, i.rs2, 0)
         /\ i.op = "c.add" => ISA!Expand(i) = Short("add", i.rd, i.rd, i.rs2, 0)
<1>0. /\ CImm(i) = ISA!SignExt(i.imm, CImmBits)
      /\ SignExt(i.imm, CJumpBits) = ISA!SignExt(i.imm, CJumpBits)
      /\ SignExt(i.imm, CBranchBits) = ISA!SignExt(i.imm, CBranchBits)
  BY IsaWords DEF CImm
<1>1. i.op = "c.addi4spn" => ISA!Expand(i) = Short("addi", i.rd, 2, 0, i.imm)
  BY DEF Short, ISA!Expand
<1>2. i.op = "c.lw" => ISA!Expand(i) = Short("lw", i.rd, i.rs1, 0, i.imm)
  BY DEF Short, ISA!Expand
<1>3. i.op = "c.ld" => ISA!Expand(i) = Short("ld", i.rd, i.rs1, 0, i.imm)
  BY DEF Short, ISA!Expand
<1>4. i.op = "c.sw" => ISA!Expand(i) = Short("sw", 0, i.rs1, i.rs2, i.imm)
  BY DEF Short, ISA!Expand
<1>5. i.op = "c.sd" => ISA!Expand(i) = Short("sd", 0, i.rs1, i.rs2, i.imm)
  BY DEF Short, ISA!Expand
<1>6. i.op = "c.addi" => ISA!Expand(i) = Short("addi", i.rd, i.rd, 0, CImm(i))
  BY <1>0 DEF Short, ISA!Expand
<1>7. i.op = "c.addiw" => ISA!Expand(i) = Short("addiw", i.rd, i.rd, 0, CImm(i))
  BY <1>0 DEF Short, ISA!Expand
<1>8. i.op = "c.li" => ISA!Expand(i) = Short("addi", i.rd, 0, 0, CImm(i))
  BY <1>0 DEF Short, ISA!Expand
<1>9. i.op = "c.lui" => ISA!Expand(i) = Short("lui", i.rd, 0, 0, CImm(i) * 2^ImmBits)
  BY <1>0 DEF Short, ISA!Expand
<1>10. i.op = "c.addi16sp" => ISA!Expand(i) = Short("addi", 2, 2, 0, CImm(i) * SpScale)
  BY <1>0 DEF Short, ISA!Expand
<1>11. i.op = "c.srli" => ISA!Expand(i) = Short("srli", i.rd, i.rd, 0, i.imm)
  BY DEF Short, ISA!Expand
<1>12. i.op = "c.srai" => ISA!Expand(i) = Short("srai", i.rd, i.rd, 0, i.imm)
  BY DEF Short, ISA!Expand
<1>13. i.op = "c.slli" => ISA!Expand(i) = Short("slli", i.rd, i.rd, 0, i.imm)
  BY DEF Short, ISA!Expand
<1>14. i.op = "c.andi" => ISA!Expand(i) = Short("andi", i.rd, i.rd, 0, CImm(i))
  BY <1>0 DEF Short, ISA!Expand
<1>15. i.op = "c.and" => ISA!Expand(i) = Short("and", i.rd, i.rd, i.rs2, 0)
  BY DEF Short, ISA!Expand
<1>16. i.op = "c.or" => ISA!Expand(i) = Short("or", i.rd, i.rd, i.rs2, 0)
  BY DEF Short, ISA!Expand
<1>17. i.op = "c.xor" => ISA!Expand(i) = Short("xor", i.rd, i.rd, i.rs2, 0)
  BY DEF Short, ISA!Expand
<1>18. i.op = "c.sub" => ISA!Expand(i) = Short("sub", i.rd, i.rd, i.rs2, 0)
  BY DEF Short, ISA!Expand
<1>19. i.op = "c.addw" => ISA!Expand(i) = Short("addw", i.rd, i.rd, i.rs2, 0)
  BY DEF Short, ISA!Expand
<1>20. i.op = "c.subw" => ISA!Expand(i) = Short("subw", i.rd, i.rd, i.rs2, 0)
  BY DEF Short, ISA!Expand
<1>21. i.op = "c.j" => ISA!Expand(i) = Short("jal", 0, 0, 0, SignExt(i.imm, CJumpBits))
  BY <1>0 DEF Short, ISA!Expand
<1>22. i.op = "c.beqz" => ISA!Expand(i) = Short("beq", 0, i.rs1, 0, SignExt(i.imm, CBranchBits))
  BY <1>0 DEF Short, ISA!Expand
<1>23. i.op = "c.bnez" => ISA!Expand(i) = Short("bne", 0, i.rs1, 0, SignExt(i.imm, CBranchBits))
  BY <1>0 DEF Short, ISA!Expand
<1>24. i.op = "c.lwsp" => ISA!Expand(i) = Short("lw", i.rd, 2, 0, i.imm)
  BY DEF Short, ISA!Expand
<1>25. i.op = "c.ldsp" => ISA!Expand(i) = Short("ld", i.rd, 2, 0, i.imm)
  BY DEF Short, ISA!Expand
<1>26. i.op = "c.swsp" => ISA!Expand(i) = Short("sw", 0, 2, i.rs2, i.imm)
  BY DEF Short, ISA!Expand
<1>27. i.op = "c.sdsp" => ISA!Expand(i) = Short("sd", 0, 2, i.rs2, i.imm)
  BY DEF Short, ISA!Expand
<1>28. i.op = "c.jr" => ISA!Expand(i) = Short("jalr", 0, i.rs1, 0, 0)
  BY DEF Short, ISA!Expand
<1>29. i.op = "c.jalr" /\ i.rs1 # 0 => ISA!Expand(i) = Short("jalr", 1, i.rs1, 0, 0)
  BY DEF Short, ISA!Expand
<1>30. i.op = "c.mv" => ISA!Expand(i) = Short("add", i.rd, 0, i.rs2, 0)
  BY DEF Short, ISA!Expand
<1>31. i.op = "c.add" => ISA!Expand(i) = Short("add", i.rd, i.rd, i.rs2, 0)
  BY DEF Short, ISA!Expand
<1> QED BY <1>1, <1>2, <1>3, <1>4, <1>5, <1>6, <1>7, <1>8, <1>9, <1>10, <1>11, <1>12, <1>13, <1>14, <1>15, <1>16, <1>17, <1>18, <1>19, <1>20, <1>21, <1>22, <1>23, <1>24, <1>25, <1>26, <1>27, <1>28, <1>29, <1>30, <1>31

-----------------------------------------------------------------------------
\* The results of the operations that have a short form.
LEMMA ShortResults ==
  ASSUME NEW b, NEW X, NEW Y, X = ISA!Reg(b.rs1), Y = ISA!Reg(b.rs2)
  PROVE  /\ b.op = "addi" => ISA!Result(b) = X + b.imm
         /\ b.op = "andi" => ISA!Result(b) = And(U(X, Dword), U(b.imm, Dword))
         /\ b.op = "add" => ISA!Result(b) = X + Y
         /\ b.op = "sub" => ISA!Result(b) = X - Y
         /\ b.op = "and" => ISA!Result(b) = And(U(X, Dword), U(Y, Dword))
         /\ b.op = "or" => ISA!Result(b) = Or(U(X, Dword), U(Y, Dword))
         /\ b.op = "slli" => ISA!Result(b) = X * 2^(U(b.imm, Dword) % Dword)
         /\ b.op = "srli" => ISA!Result(b) = U(X, Dword) \div 2^(U(b.imm, Dword) % Dword)
         /\ b.op = "srai" => ISA!Result(b) = X \div 2^(U(b.imm, Dword) % Dword)
<1>1. b.op = "addi" => ISA!Result(b) = X + b.imm
  BY IsaWords DEF ISA!Result, ISA!Apply, ISA!Immediate, ISA!OfWords
<1>2. b.op = "andi" => ISA!Result(b) = And(U(X, Dword), U(b.imm, Dword))
  BY IsaWords DEF ISA!Result, ISA!Apply, ISA!Immediate, ISA!OfWords
<1>3. b.op = "add" => ISA!Result(b) = X + Y
  BY IsaWords DEF ISA!Result, ISA!Apply, ISA!Immediate, ISA!OfWords
<1>4. b.op = "sub" => ISA!Result(b) = X - Y
  BY IsaWords DEF ISA!Result, ISA!Apply, ISA!Immediate, ISA!OfWords
<1>5. b.op = "and" => ISA!Result(b) = And(U(X, Dword), U(Y, Dword))
  BY IsaWords DEF ISA!Result, ISA!Apply, ISA!Immediate, ISA!OfWords
<1>6. b.op = "or" => ISA!Result(b) = Or(U(X, Dword), U(Y, Dword))
  BY IsaWords DEF ISA!Result, ISA!Apply, ISA!Immediate, ISA!OfWords
<1>7. b.op = "slli" => ISA!Result(b) = X * 2^(U(b.imm, Dword) % Dword)
  BY IsaWords DEF ISA!Result, ISA!Apply, ISA!Immediate, ISA!OfWords
<1>8. b.op = "srli" => ISA!Result(b) = U(X, Dword) \div 2^(U(b.imm, Dword) % Dword)
  BY IsaWords DEF ISA!Result, ISA!Apply, ISA!Immediate, ISA!OfWords
<1>9. b.op = "srai" => ISA!Result(b) = X \div 2^(U(b.imm, Dword) % Dword)
  BY IsaWords DEF ISA!Result, ISA!Apply, ISA!Immediate, ISA!OfWords
<1> QED BY <1>1, <1>2, <1>3, <1>4, <1>5, <1>6, <1>7, <1>8, <1>9

(* A short operation on registers and immediates. *)
LEMMA ShortStep ==
  ASSUME NEW i, Ready(i), NEW op \in Computing, NEW rd \in Regs, NEW rs1, NEW rs2, NEW imm, NEW v \in Int,
         ISA!Expand(i) = Short(op, rd, rs1, rs2, imm), CGives(rd, v),
         ~Excepted(i) /\ rd # 0 => Same(v, ISA!Result(Short(op, rd, rs1, rs2, imm)), Dword)
  PROVE  Good(i)
<1> DEFINE b == ISA!Expand(i)
<1>1. b.op = op /\ b.rd = rd /\ b.len = 2
  BY DEF Short
<1> HIDE DEF b
<1>2. Write(rd, v) /\ Skips(2) /\ UNCHANGED <<fgpr, csr, mem, status>>
  BY DEF CGives
<1> QED BY <1>1, <1>2, Computes DEF b

(* A register as a number and as a signed number. *)
LEMMA RegisterPair ==
  ASSUME NEW i, Ready(i), NEW r \in Regs
  PROVE  \E x, X \in Int : /\ x = gpr[r] /\ X = S(r) /\ X = ISA!Reg(r) /\ U(X, Dword) = x /\ x \in Field(Dword)
                           /\ Same(x, X, Dword) /\ SignExt(x, Word) = Sw(r)
<1>1. /\ gpr[r] \in Int /\ S(r) \in Int /\ S(r) = ISA!Reg(r) /\ U(S(r), Dword) = gpr[r]
      /\ gpr[r] \in Field(Dword) /\ Same(S(r), gpr[r], Dword)
  BY Registers DEF Ready
<1>2. SignExt(gpr[r], Word) = Sw(r) /\ Same(gpr[r], S(r), Dword)
  BY <1>1 DEF Sw, Same
<1> QED BY <1>1, <1>2, Zenon

\* What a short instruction finds.
LEMMA ShortSetting ==
  ASSUME NEW i, Ready(i)
  PROVE  /\ 0 \in Regs /\ 1 \in Regs /\ 2 \in Regs /\ i.rd \in Regs /\ i.rs1 \in Regs /\ i.rs2 \in Regs
         /\ i.imm \in Nat /\ i.imm \in Field(Dword) /\ CImm(i) \in Int /\ pc \in Nat
         /\ Dword \in Nat \ {0} /\ Word \in Nat \ {0}
         /\ ISA!Reg(0) = 0 /\ gpr[0] = 0 /\ Typed
BY Immediates, PcTyped, Sizes, HartConstants DEF Ready, ISA!Reg

\* Short sums and moves.
LEMMA ShortSums ==
  ASSUME NEW i, Ready(i),
         \/ i.op = "c.addi4spn" /\ CGives(i.rd, IF i.imm = 0 THEN gpr[i.rd] ELSE gpr[2] + i.imm)
         \/ i.op = "c.addi" /\ CGives(i.rd, gpr[i.rd] + CImm(i))
         \/ i.op = "c.li" /\ CGives(i.rd, CImm(i))
         \/ i.op = "c.addi16sp" /\ CGives(2, gpr[2] + CImm(i) * SpScale)
         \/ i.op = "c.sub" /\ CGives(i.rd, gpr[i.rd] - gpr[i.rs2])
         \/ i.op = "c.mv" /\ CGives(i.rd, gpr[i.rs2])
         \/ i.op = "c.add" /\ CGives(i.rd, gpr[i.rd] + gpr[i.rs2])
  PROVE  Good(i)
<1>0. /\ 0 \in Regs /\ 1 \in Regs /\ 2 \in Regs /\ i.rd \in Regs /\ i.rs1 \in Regs /\ i.rs2 \in Regs
      /\ i.imm \in Nat /\ CImm(i) \in Int /\ Dword \in Nat \ {0}
      /\ ISA!Reg(0) = 0
  BY ShortSetting
<1>1. PICK x, X \in Int : x = gpr[i.rd] /\ X = ISA!Reg(i.rd) /\ Same(x, X, Dword)
  BY <1>0, RegisterPair
<1>2. PICK y, Y \in Int : y = gpr[i.rs2] /\ Y = ISA!Reg(i.rs2) /\ Same(y, Y, Dword)
  BY <1>0, RegisterPair
<1>3. PICK z, Z \in Int : z = gpr[2] /\ Z = ISA!Reg(2) /\ Same(z, Z, Dword)
  BY <1>0, RegisterPair
<1>4. PICK c \in Int, n \in Int, s \in Int : c = CImm(i) /\ n = i.imm /\ s = CImm(i) * SpScale
  <2>1. SpScale \in Int
    BY HartConstants
  <2> QED BY <1>0, <2>1, Products
<1>5. Same(c, c, Dword) /\ Same(n, n, Dword) /\ Same(s, s, Dword)
  BY DEF Same
<1>6. CASE i.op = "c.addi4spn" /\ CGives(i.rd, IF n = 0 THEN x ELSE z + n)
  <2> DEFINE b == Short("addi", i.rd, 2, 0, n)
  <2>1. ISA!Expand(i) = b
    BY <1>4, <1>6, ExpandShort
  <2>2. b.op = "addi" /\ b.rs1 = 2 /\ b.imm = n
    BY DEF Short
  <2> HIDE DEF b
  <2>3. ISA!Result(b) = Z + n
    BY <1>3, <2>2, ShortResults
  <2>4. Same(z + n, Z + n, Dword)
    BY <1>0, <1>3, <1>5, SameLowBits
  <2>5. ~Excepted(i) => n # 0
    BY <1>4, <1>6 DEF Excepted
  <2>6. PICK v \in Int : v = IF n = 0 THEN x ELSE z + n
    OBVIOUS
  <2>7. "addi" \in Computing
    BY DEF Computing
  <2> QED BY <1>0, <1>6, <2>1, <2>3, <2>4, <2>5, <2>6, <2>7, ShortStep DEF b
<1>7. CASE i.op = "c.addi" /\ CGives(i.rd, x + c)
  <2> DEFINE b == Short("addi", i.rd, i.rd, 0, c)
  <2>1. ISA!Expand(i) = b
    BY <1>4, <1>7, ExpandShort
  <2>2. b.op = "addi" /\ b.rs1 = i.rd /\ b.imm = c
    BY DEF Short
  <2> HIDE DEF b
  <2>3. ISA!Result(b) = X + c
    BY <1>1, <2>2, ShortResults
  <2>4. Same(x + c, X + c, Dword)
    BY <1>0, <1>1, <1>5, SameLowBits
  <2>5. x + c \in Int /\ "addi" \in Computing
    BY DEF Computing
  <2> QED BY <1>0, <1>7, <2>1, <2>3, <2>4, <2>5, ShortStep DEF b
<1>8. CASE i.op = "c.li" /\ CGives(i.rd, c)
  <2> DEFINE b == Short("addi", i.rd, 0, 0, c)
  <2>1. ISA!Expand(i) = b
    BY <1>4, <1>8, ExpandShort
  <2>2. b.op = "addi" /\ b.rs1 = 0 /\ b.imm = c
    BY DEF Short
  <2> HIDE DEF b
  <2>3. ISA!Result(b) = 0 + c /\ 0 + c = c
    BY <1>0, <2>2, ShortResults
  <2>4. "addi" \in Computing
    BY DEF Computing
  <2> QED BY <1>0, <1>5, <1>8, <2>1, <2>3, <2>4, ShortStep DEF b
<1>9. CASE i.op = "c.addi16sp" /\ CGives(2, z + s)
  <2> DEFINE b == Short("addi", 2, 2, 0, s)
  <2>1. ISA!Expand(i) = b
    BY <1>4, <1>9, ExpandShort
  <2>2. b.op = "addi" /\ b.rs1 = 2 /\ b.imm = s
    BY DEF Short
  <2> HIDE DEF b
  <2>3. ISA!Result(b) = Z + s
    BY <1>3, <2>2, ShortResults
  <2>4. Same(z + s, Z + s, Dword)
    BY <1>0, <1>3, <1>5, SameLowBits
  <2>5. z + s \in Int /\ "addi" \in Computing
    BY DEF Computing
  <2> QED BY <1>0, <1>9, <2>1, <2>3, <2>4, <2>5, ShortStep DEF b
<1>10. CASE i.op = "c.sub" /\ CGives(i.rd, x - y)
  <2> DEFINE b == Short("sub", i.rd, i.rd, i.rs2, 0)
  <2>1. ISA!Expand(i) = b
    BY <1>10, ExpandShort
  <2>2. b.op = "sub" /\ b.rs1 = i.rd /\ b.rs2 = i.rs2
    BY DEF Short
  <2> HIDE DEF b
  <2>3. ISA!Result(b) = X - Y
    BY <1>1, <1>2, <2>2, ShortResults
  <2>4. Same(x - y, X - Y, Dword)
    BY <1>0, <1>1, <1>2, SameLowBits
  <2>5. x - y \in Int /\ "sub" \in Computing
    BY DEF Computing
  <2> QED BY <1>0, <1>10, <2>1, <2>3, <2>4, <2>5, ShortStep DEF b
<1>11. CASE i.op = "c.mv" /\ CGives(i.rd, y)
  <2> DEFINE b == Short("add", i.rd, 0, i.rs2, 0)
  <2>1. ISA!Expand(i) = b
    BY <1>11, ExpandShort
  <2>2. b.op = "add" /\ b.rs1 = 0 /\ b.rs2 = i.rs2
    BY DEF Short
  <2> HIDE DEF b
  <2>3. ISA!Result(b) = 0 + Y /\ 0 + Y = Y
    BY <1>0, <1>2, <2>2, ShortResults
  <2>4. "add" \in Computing
    BY DEF Computing
  <2> QED BY <1>0, <1>2, <1>11, <2>1, <2>3, <2>4, ShortStep DEF b
<1>12. CASE i.op = "c.add" /\ CGives(i.rd, x + y)
  <2> DEFINE b == Short("add", i.rd, i.rd, i.rs2, 0)
  <2>1. ISA!Expand(i) = b
    BY <1>12, ExpandShort
  <2>2. b.op = "add" /\ b.rs1 = i.rd /\ b.rs2 = i.rs2
    BY DEF Short
  <2> HIDE DEF b
  <2>3. ISA!Result(b) = X + Y
    BY <1>1, <1>2, <2>2, ShortResults
  <2>4. Same(x + y, X + Y, Dword)
    BY <1>0, <1>1, <1>2, SameLowBits
  <2>5. x + y \in Int /\ "add" \in Computing
    BY DEF Computing
  <2> QED BY <1>0, <1>12, <2>1, <2>3, <2>4, <2>5, ShortStep DEF b
<1> QED BY <1>1, <1>2, <1>3, <1>4, <1>6, <1>7, <1>8, <1>9, <1>10, <1>11, <1>12

\* Short shifts and bitwise operations.
LEMMA ShortBits ==
  ASSUME NEW i, Ready(i),
         \/ i.op = "c.srli" /\ CGives(i.rd, gpr[i.rd] \div 2^i.imm)
         \/ i.op = "c.srai" /\ CGives(i.rd, S(i.rd) \div 2^i.imm)
         \/ i.op = "c.slli" /\ CGives(i.rd, gpr[i.rd] * 2^i.imm)
         \/ i.op = "c.andi" /\ CGives(i.rd, And(gpr[i.rd], U(CImm(i), Dword)))
         \/ i.op = "c.and" /\ CGives(i.rd, And(gpr[i.rd], gpr[i.rs2]))
         \/ i.op = "c.or" /\ CGives(i.rd, Or(gpr[i.rd], gpr[i.rs2]))
  PROVE  Good(i)
<1>0. /\ i.rd \in Regs /\ i.rs2 \in Regs /\ i.imm \in Nat /\ i.imm \in Field(Dword)
      /\ CImm(i) \in Int /\ Dword \in Nat \ {0}
  BY ShortSetting
<1>1. PICK x, X \in Int : x = gpr[i.rd] /\ X = S(i.rd) /\ X = ISA!Reg(i.rd) /\ U(X, Dword) = x /\ Same(x, X, Dword)
  BY <1>0, RegisterPair
<1>2. PICK y, Y \in Int : y = gpr[i.rs2] /\ Y = ISA!Reg(i.rs2) /\ U(Y, Dword) = y
  BY <1>0, RegisterPair
<1>3. PICK k \in Nat, c \in Int : k = i.imm /\ c = U(CImm(i), Dword)
  BY <1>0, LowBits
<1>4. ASSUME i.op \in {"c.slli", "c.srli", "c.srai"} PROVE U(i.imm, Dword) % Dword = k
  <2>1. k < Dword
    BY <1>3, <1>4 DEF Ready, Encodable
  <2>2. PICK n \in Nat \ {0} : n = Dword
    BY <1>0
  <2>3. k \in 0 .. n - 1
    BY <2>1, <2>2
  <2>4. k % n = k
    BY <2>3, Remainder, k \in Int, Zenon
  <2>5. U(k, Dword) = k
    BY <1>0, <1>3, LowBits
  <2> QED BY <1>3, <2>2, <2>4, <2>5
<1>5. CASE i.op = "c.srli" /\ CGives(i.rd, x \div 2^k)
  <2> DEFINE b == Short("srli", i.rd, i.rd, 0, i.imm)
  <2>1. ISA!Expand(i) = b
    BY <1>5, ExpandShort
  <2>2. b.op = "srli" /\ b.rs1 = i.rd /\ b.imm = i.imm
    BY DEF Short
  <2> HIDE DEF b
  <2>3. ISA!Result(b) = x \div 2^k
    BY <1>1, <1>4, <1>5, <2>2, ShortResults
  <2>4. x \div 2^k \in Int /\ "srli" \in Computing
    BY ShiftsTyped DEF Computing
  <2> QED BY <1>0, <1>5, <2>1, <2>3, <2>4, ShortStep DEF b, Same
<1>6. CASE i.op = "c.srai" /\ CGives(i.rd, X \div 2^k)
  <2> DEFINE b == Short("srai", i.rd, i.rd, 0, i.imm)
  <2>1. ISA!Expand(i) = b
    BY <1>6, ExpandShort
  <2>2. b.op = "srai" /\ b.rs1 = i.rd /\ b.imm = i.imm
    BY DEF Short
  <2> HIDE DEF b
  <2>3. ISA!Result(b) = X \div 2^k
    BY <1>1, <1>4, <1>6, <2>2, ShortResults
  <2>4. X \div 2^k \in Int /\ "srai" \in Computing
    BY ShiftsTyped DEF Computing
  <2> QED BY <1>0, <1>6, <2>1, <2>3, <2>4, ShortStep DEF b, Same
<1>7. CASE i.op = "c.slli" /\ CGives(i.rd, x * 2^k)
  <2> DEFINE b == Short("slli", i.rd, i.rd, 0, i.imm)
  <2>1. ISA!Expand(i) = b
    BY <1>7, ExpandShort
  <2>2. b.op = "slli" /\ b.rs1 = i.rd /\ b.imm = i.imm
    BY DEF Short
  <2> HIDE DEF b
  <2>3. ISA!Result(b) = X * 2^k
    BY <1>1, <1>4, <1>7, <2>2, ShortResults
  <2>4. x * 2^k \in Int /\ Same(x * 2^k, X * 2^k, Dword)
    BY <1>0, <1>1, ShiftsTyped
  <2>5. "slli" \in Computing
    BY DEF Computing
  <2> QED BY <1>0, <1>7, <2>1, <2>3, <2>4, <2>5, ShortStep DEF b
<1>8. CASE i.op = "c.andi" /\ CGives(i.rd, And(x, c))
  <2> DEFINE b == Short("andi", i.rd, i.rd, 0, CImm(i))
  <2>1. ISA!Expand(i) = b
    BY <1>8, ExpandShort
  <2>2. b.op = "andi" /\ b.rs1 = i.rd /\ b.imm = CImm(i)
    BY DEF Short
  <2> HIDE DEF b
  <2>3. ISA!Result(b) = And(x, c)
    BY <1>1, <1>3, <2>2, ShortResults
  <2>4. And(x, c) \in Int
    BY BitwiseType DEF Field
  <2>5. "andi" \in Computing
    BY DEF Computing
  <2> QED BY <1>0, <1>8, <2>1, <2>3, <2>4, <2>5, ShortStep DEF b, Same
<1>9. CASE i.op = "c.and" /\ CGives(i.rd, And(x, y))
  <2> DEFINE b == Short("and", i.rd, i.rd, i.rs2, 0)
  <2>1. ISA!Expand(i) = b
    BY <1>9, ExpandShort
  <2>2. b.op = "and" /\ b.rs1 = i.rd /\ b.rs2 = i.rs2
    BY DEF Short
  <2> HIDE DEF b
  <2>3. ISA!Result(b) = And(x, y)
    BY <1>1, <1>2, <2>2, ShortResults
  <2>4. And(x, y) \in Int
    BY BitwiseType DEF Field
  <2>5. "and" \in Computing
    BY DEF Computing
  <2> QED BY <1>0, <1>9, <2>1, <2>3, <2>4, <2>5, ShortStep DEF b, Same
<1>10. CASE i.op = "c.or" /\ CGives(i.rd, Or(x, y))
  <2> DEFINE b == Short("or", i.rd, i.rd, i.rs2, 0)
  <2>1. ISA!Expand(i) = b
    BY <1>10, ExpandShort
  <2>2. b.op = "or" /\ b.rs1 = i.rd /\ b.rs2 = i.rs2
    BY DEF Short
  <2> HIDE DEF b
  <2>3. ISA!Result(b) = Or(x, y)
    BY <1>1, <1>2, <2>2, ShortResults
  <2>4. Or(x, y) \in Int
    BY BitwiseType DEF Field
  <2>5. "or" \in Computing
    BY DEF Computing
  <2> QED BY <1>0, <1>10, <2>1, <2>3, <2>4, <2>5, ShortStep DEF b, Same
<1> QED BY <1>1, <1>2, <1>3, <1>5, <1>6, <1>7, <1>8, <1>9, <1>10

-----------------------------------------------------------------------------
(* Short operations on words, and those carried out as others. *)
LEMMA ShortWords ==
  ASSUME NEW i, Ready(i),
         \/ i.op = "c.addiw" /\ CGives(i.rd, gpr[i.rd] + CImm(i))
         \/ i.op \in {"c.addw", "c.xor"} /\ CGives(i.rd, SignExt(Sw(i.rd) + Sw(i.rs2), Word))
         \/ i.op = "c.subw" /\ CGives(i.rd, gpr[i.rd] - gpr[i.rs2])
  PROVE  Good(i)
<1>0. /\ i.rd \in Regs /\ i.rs2 \in Regs /\ CImm(i) \in Int /\ Dword \in Nat \ {0} /\ Word \in Nat \ {0}
  BY ShortSetting
<1>1. PICK x, X \in Int : /\ x = gpr[i.rd] /\ X = S(i.rd) /\ X = ISA!Reg(i.rd) /\ Same(x, X, Dword)
                          /\ SignExt(x, Word) = Sw(i.rd)
  BY <1>0, RegisterPair
<1>2. PICK y, Y \in Int : /\ y = gpr[i.rs2] /\ Y = ISA!Reg(i.rs2) /\ Same(y, Y, Dword)
                          /\ SignExt(y, Word) = Sw(i.rs2)
  BY <1>0, RegisterPair
<1>3. PICK c \in Int : c = CImm(i)
  BY <1>0
<1>4. PICK l \in Int, r \in Int, n \in Int :
         /\ l = SignExt(X, Word) /\ l = Sw(i.rd) /\ r = SignExt(Y, Word) /\ r = Sw(i.rs2)
         /\ n = SignExt(c, Word)
  BY <1>1, <1>2, LowWords, SignExtTyped
<1>5. CASE i.op = "c.addiw" /\ CGives(i.rd, x + c)
  <2> DEFINE b == Short("addiw", i.rd, i.rd, 0, c)
  <2>1. ISA!Expand(i) = b
    BY <1>3, <1>5, ExpandShort
  <2>2. b.op = "addiw" /\ b.rs1 = i.rd /\ b.imm = c
    BY DEF Short
  <2> HIDE DEF b
  <2>r. ISA!Result(b) = SignExt(ISA!Apply("add", l, n, Word), Word)
    BY <1>1, <1>4, <2>2, WordResult
  <2>a. ISA!Apply("add", l, n, Word) = l + n
    BY DEF ISA!Apply
  <2>3. PICK s \in Int, t \in Int : s = X + c /\ t = l + n
    OBVIOUS
  <2>4. Same(t, s, Word)
    <3>1. Same(l, X, Word) /\ Same(n, c, Word)
      BY <1>0, <1>4, SignBits DEF Same
    <3>2. Same(l + n, X + c, Word)
      BY <1>0, <3>1, SameLowBits
    <3> QED BY <2>3, <3>2
  <2>5. ISA!Result(b) = SignExt(s, Word)
    BY <2>r, <2>a, <2>3, <2>4, SignExtTyped
  <2>6. ~Excepted(i) => SignExt(s, Word) = s
    BY <1>1, <1>3, <1>5, <2>3 DEF Excepted, Fits
  <2>7. Same(x + c, X + c, Dword)
    <3>1. Same(c, c, Dword)
      BY DEF Same
    <3> QED BY <1>0, <1>1, <3>1, SameLowBits
  <2>8. ~Excepted(i) => Same(x + c, ISA!Result(b), Dword)
    BY <2>3, <2>5, <2>6, <2>7
  <2>9. x + c \in Int /\ "addiw" \in Computing
    BY DEF Computing
  <2> QED BY <1>0, <1>5, <2>1, <2>8, <2>9, ShortStep DEF b
<1>6. CASE i.op = "c.addw" /\ CGives(i.rd, SignExt(l + r, Word))
  <2> DEFINE b == Short("addw", i.rd, i.rd, i.rs2, 0)
  <2>1. ISA!Expand(i) = b
    BY <1>6, ExpandShort
  <2>2. b.op = "addw" /\ b.rs1 = i.rd /\ b.rs2 = i.rs2
    BY DEF Short
  <2> HIDE DEF b
  <2>r. ISA!Result(b) = SignExt(ISA!Apply("add", l, r, Word), Word)
    BY <1>1, <1>2, <1>4, <2>2, WordResult
  <2>a. ISA!Apply("add", l, r, Word) = l + r
    BY DEF ISA!Apply
  <2>3. SignExt(l + r, Word) \in Int /\ "addw" \in Computing
    BY SignExtTyped, l + r \in Int DEF Computing
  <2> QED BY <1>0, <1>6, <2>1, <2>r, <2>a, <2>3, ShortStep DEF b, Same
<1>7. CASE i.op = "c.xor" /\ CGives(i.rd, SignExt(l + r, Word))
  <2>1. ISA!Expand(i) = Short("xor", i.rd, i.rd, i.rs2, 0)
    BY <1>7, ExpandShort
  <2>2. Excepted(i)
    BY <1>7 DEF Excepted, Mistaken
  <2>3. SignExt(l + r, Word) \in Int /\ "xor" \in Computing
    BY SignExtTyped, l + r \in Int DEF Computing
  <2> QED BY <1>0, <1>7, <2>1, <2>2, <2>3, ShortStep
<1>8. CASE i.op = "c.subw" /\ CGives(i.rd, x - y)
  <2>1. ISA!Expand(i) = Short("subw", i.rd, i.rd, i.rs2, 0)
    BY <1>8, ExpandShort
  <2>2. Excepted(i)
    BY <1>8 DEF Excepted, Mistaken
  <2>3. x - y \in Int /\ "subw" \in Computing
    BY DEF Computing
  <2> QED BY <1>0, <1>8, <2>1, <2>2, <2>3, ShortStep
<1> QED BY <1>1, <1>2, <1>3, <1>4, <1>5, <1>6, <1>7, <1>8

(* Short jumps and branches, and c.lui. *)
LEMMA ShortJumps ==
  ASSUME NEW i, Ready(i),
         \/ i.op = "c.lui" /\ CGives(i.rd, CImm(i) * 2^ImmBits)
         \/ i.op = "c.j" /\ Jumps(pc + SignExt(i.imm, CJumpBits))
         \/ i.op = "c.beqz" /\ Jumps(pc + (IF gpr[i.rs1] = 0 THEN SignExt(i.imm, CBranchBits) ELSE 2))
         \/ i.op = "c.bnez" /\ Jumps(pc + (IF gpr[i.rs1] # 0 THEN SignExt(i.imm, CBranchBits) ELSE 2))
  PROVE  Good(i)
<1>0. /\ 0 \in Regs /\ i.rd \in Regs /\ i.rs1 \in Regs /\ i.imm \in Int /\ CImm(i) \in Int
      /\ Dword \in Nat \ {0} /\ pc \in Int /\ ISA!Reg(0) = 0
  BY ShortSetting
<1>1. PICK n \in Int, k \in Int, u \in Int :
        n = SignExt(i.imm, CJumpBits) /\ k = SignExt(i.imm, CBranchBits) /\ u = CImm(i) * 2^ImmBits
  <2>1. ImmBits \in Nat /\ CJumpBits \in Nat \ {0} /\ CBranchBits \in Nat \ {0}
    BY HartConstants
  <2>2. SignExt(i.imm, CJumpBits) \in Int /\ SignExt(i.imm, CBranchBits) \in Int
    BY <1>0, <2>1, SignBits
  <2>3. CImm(i) * 2^ImmBits \in Int
    BY <1>0, <2>1, ShiftsTyped
  <2> QED BY <2>2, <2>3
<1>2. PICK x, X \in Int : x = gpr[i.rs1] /\ X = ISA!Reg(i.rs1) /\ U(X, Dword) = x /\ X = S(i.rs1)
  BY <1>0, RegisterPair
<1>3. x = 0 <=> X = 0
  <2>1. X = SignExt(x, Dword)
    BY <1>2 DEF S
  <2>2. ISA!Reg(0) = SignExt(gpr[0], Dword)
    BY <1>0, Registers DEF Ready, S
  <2>3. SignExt(0, Dword) = 0 /\ U(0, Dword) = 0
    BY <1>0, <2>2, Registers DEF Ready
  <2> QED BY <1>2, <2>1, <2>3
<1>4. CASE i.op = "c.lui" /\ CGives(i.rd, u)
  <2> DEFINE b == Short("lui", i.rd, 0, 0, u)
  <2>1. ISA!Expand(i) = b
    BY <1>1, <1>4, ExpandShort
  <2>2. b.op = "lui" /\ b.imm = u /\ b.rd = i.rd /\ b.len = 2
    BY DEF Short
  <2> HIDE DEF b
  <2>3. ISA!Dest(b) = i.rd /\ b.op \in PlainOps
    BY <2>2 DEF ISA!Dest, ISA!Storing, ISA!Branching, ISA!ToFloat, PlainOps
  <2>4. ISA!Value(b) = u /\ ISA!Target(b) = pc + 2
    BY <2>2, IsaValues, IsaTargets DEF ISA!Branching
  <2>5. pc + 2 \in Int /\ Goes(pc + 2) /\ Write(i.rd, u) /\ UNCHANGED <<fgpr, csr, mem, status>>
    BY <1>0, <1>4 DEF CGives, Skips
  <2> QED BY <1>0, <2>1, <2>3, <2>4, <2>5, ChangesOne DEF Same
<1>5. ASSUME NEW t \in Int, Jumps(t), NEW b, ISA!Expand(i) = b, ISA!Dest(b) = 0, b.op \in PlainOps,
             ISA!Target(b) = t
      PROVE  Good(i)
  <2>1. Write(0, 0) /\ Goes(t) /\ UNCHANGED <<fgpr, csr, mem, status>> /\ 0 \in Int
    BY <1>5 DEF Jumps, Write
  <2> QED BY <1>0, <1>5, <2>1, ChangesOne DEF Same
<1>6. CASE i.op = "c.j" /\ Jumps(pc + n)
  <2> DEFINE b == Short("jal", 0, 0, 0, n)
  <2>1. ISA!Expand(i) = b
    BY <1>1, <1>6, ExpandShort
  <2>2. b.op = "jal" /\ b.imm = n /\ b.rd = 0
    BY DEF Short
  <2> HIDE DEF b
  <2>3. ISA!Dest(b) = 0 /\ b.op \in PlainOps
    BY <2>2 DEF ISA!Dest, ISA!Storing, ISA!Branching, ISA!ToFloat, PlainOps
  <2>4. ISA!Target(b) = pc + n /\ pc + n \in Int
    BY <1>0, <2>2, IsaTargets
  <2> QED BY <1>5, <1>6, <2>1, <2>3, <2>4
<1>7. CASE i.op = "c.beqz" /\ Jumps(pc + (IF x = 0 THEN k ELSE 2))
  <2> DEFINE b == Short("beq", 0, i.rs1, 0, k)
  <2>1. ISA!Expand(i) = b
    BY <1>1, <1>7, ExpandShort
  <2>2. b.op = "beq" /\ b.imm = k /\ b.rs1 = i.rs1 /\ b.rs2 = 0 /\ b.len = 2
    BY DEF Short
  <2> HIDE DEF b
  <2>3. ISA!Dest(b) = 0 /\ b.op \in PlainOps
    BY <2>2 DEF ISA!Dest, ISA!Storing, ISA!Branching, ISA!ToFloat, PlainOps
  <2>4. ISA!Taken(b) <=> X = 0
    BY <1>0, <1>2, <2>2, IsaTaken
  <2>5. ISA!Target(b) = pc + (IF ISA!Taken(b) THEN k ELSE 2)
    BY <2>2, IsaTargets DEF ISA!Branching
  <2>6. PICK t \in Int : t = pc + (IF x = 0 THEN k ELSE 2)
    BY <1>0
  <2> QED BY <1>3, <1>5, <1>7, <2>1, <2>3, <2>4, <2>5, <2>6
<1>8. CASE i.op = "c.bnez" /\ Jumps(pc + (IF x # 0 THEN k ELSE 2))
  <2> DEFINE b == Short("bne", 0, i.rs1, 0, k)
  <2>1. ISA!Expand(i) = b
    BY <1>1, <1>8, ExpandShort
  <2>2. b.op = "bne" /\ b.imm = k /\ b.rs1 = i.rs1 /\ b.rs2 = 0 /\ b.len = 2
    BY DEF Short
  <2> HIDE DEF b
  <2>3. ISA!Dest(b) = 0 /\ b.op \in PlainOps
    BY <2>2 DEF ISA!Dest, ISA!Storing, ISA!Branching, ISA!ToFloat, PlainOps
  <2>4. ISA!Taken(b) <=> X # 0
    BY <1>0, <1>2, <2>2, IsaTaken
  <2>5. ISA!Target(b) = pc + (IF ISA!Taken(b) THEN k ELSE 2)
    BY <2>2, IsaTargets DEF ISA!Branching
  <2>6. PICK t \in Int : t = pc + (IF x # 0 THEN k ELSE 2)
    BY <1>0
  <2> QED BY <1>3, <1>5, <1>8, <2>1, <2>3, <2>4, <2>5, <2>6
<1> QED BY <1>1, <1>2, <1>4, <1>6, <1>7, <1>8

-----------------------------------------------------------------------------
(* Short loads and stores. *)
LEMMA ShortLoads ==
  ASSUME NEW i, Ready(i), NEW r \in Regs, NEW a, a = Address(r, i.imm),
         \/ i.op = "c.lw" /\ r = i.rs1 /\ Loads(i.rd, a, 4, AsWord, 2)
         \/ i.op = "c.ld" /\ r = i.rs1 /\ Loads(i.rd, a, 8, AsIs, 2)
         \/ i.op = "c.lwsp" /\ r = 2 /\ Loads(i.rd, a, 4, AsIs, 2)
         \/ i.op = "c.ldsp" /\ r = 2 /\ InRam(a, 8) /\ Writes(i.rd, Gather(mem, a, 8)) /\ Skips(2)
                            /\ UNCHANGED <<fgpr, csr, mem, status>>
  PROVE  Good(i)
<1> DEFINE b == ISA!Expand(i)
<1>0. /\ i.rd \in Regs /\ i.imm \in Int /\ Word \in Nat \ {0} /\ Dword \in Nat \ {0} /\ Typed /\ gpr[0] = 0
      /\ pc \in Int /\ 0 \in Regs
  BY ShortSetting
<1>1. ASSUME NEW op \in {"lw", "ld"}, b = Short(op, i.rd, r, 0, i.imm)
      PROVE  /\ b.op = op /\ b.op \in ISA!Loading /\ b.rd = i.rd /\ b.rs1 = r /\ b.imm = i.imm /\ b.len = 2
             /\ op = "lw" => ISA!Value(b) = SignExt(Gather(mem, a, 4), Word)
             /\ op = "ld" => ISA!Value(b) = Gather(mem, a, 8)
  <2>1. /\ b.op = op /\ b.op \in ISA!Loading /\ b.rd = i.rd /\ b.rs1 = r /\ b.imm = i.imm /\ b.len = 2
    BY <1>1 DEF Short, ISA!Loading
  <2> HIDE DEF b
  <2> QED BY <1>0, <2>1, IsaLoads
<1>2. ASSUME NEW op \in {"lw", "ld"}, b = Short(op, i.rd, r, 0, i.imm), NEW v \in Int,
             Write(i.rd, v), Skips(2), UNCHANGED <<fgpr, csr, mem, status>>,
             ~Excepted(i) /\ i.rd # 0 => v = ISA!Value(b)
      PROVE  Good(i)
  <2>1. b.op \in ISA!Loading /\ b.rd = i.rd /\ b.len = 2
    BY <1>1, <1>2
  <2> QED BY <1>0, <1>2, <2>1, LoadStep
<1>3. CASE i.op = "c.lw" /\ r = i.rs1 /\ Loads(i.rd, a, 4, AsWord, 2)
  <2>1. b = Short("lw", i.rd, r, 0, i.imm)
    BY <1>3, ExpandShort
  <2>2. InRam(a, 4) /\ Write(i.rd, SignExt(Gather(mem, a, 4), Word)) /\ Skips(2) /\ UNCHANGED <<fgpr, csr, mem, status>>
    BY <1>3 DEF Loads, AsWord
  <2> HIDE DEF b
  <2>3. PICK g \in Int : g = Gather(mem, a, 4)
    BY <1>0, <2>2, Found
  <2>4. SignExt(g, Word) \in Int
    BY SignExtTyped
  <2> QED BY <1>1, <1>2, <2>1, <2>2, <2>3, <2>4
<1>4. CASE i.op = "c.ld" /\ r = i.rs1 /\ Loads(i.rd, a, 8, AsIs, 2)
  <2>1. b = Short("ld", i.rd, r, 0, i.imm)
    BY <1>4, ExpandShort
  <2>2. InRam(a, 8) /\ Write(i.rd, Gather(mem, a, 8)) /\ Skips(2) /\ UNCHANGED <<fgpr, csr, mem, status>>
    BY <1>4 DEF Loads, AsIs
  <2> HIDE DEF b
  <2>3. PICK g \in Int : g = Gather(mem, a, 8)
    BY <1>0, <2>2, Found
  <2> QED BY <1>1, <1>2, <2>1, <2>2, <2>3
<1>5. CASE i.op = "c.lwsp" /\ r = 2 /\ Loads(i.rd, a, 4, AsIs, 2)
  <2>1. b = Short("lw", i.rd, r, 0, i.imm)
    BY <1>5, ExpandShort
  <2>2. InRam(a, 4) /\ Write(i.rd, Gather(mem, a, 4)) /\ Skips(2) /\ UNCHANGED <<fgpr, csr, mem, status>>
    BY <1>5 DEF Loads, AsIs
  <2> HIDE DEF b
  <2>3. PICK g \in Int : g = Gather(mem, a, 4) /\ g \in Field(Byte * 4)
    BY <1>0, <2>2, Found
  <2>4. ISA!Value(b) = SignExt(g, Word)
    BY <1>1, <2>1, <2>3
  <2>5. g \in Field(Word) /\ SignExt(g, Word) \in Int /\ SignExt(SignExt(g, Word), Word) = SignExt(g, Word)
    BY <1>0, <2>3, Sizes, SignBits, Narrower
  <2>6. ~Excepted(i) /\ i.rd # 0 => ~(SignExt(SignExt(g, Word), Word) < 0)
    BY <1>5, <2>4 DEF Excepted, Negative, b
  <2>7. ~Excepted(i) /\ i.rd # 0 => SignExt(g, Word) = g
    BY <1>0, <2>5, <2>6, SignOf
  <2> QED BY <1>2, <2>1, <2>2, <2>3, <2>4, <2>7
<1>6. CASE i.op = "c.ldsp" /\ r = 2 /\ InRam(a, 8) /\ Writes(i.rd, Gather(mem, a, 8)) /\ Skips(2)
           /\ UNCHANGED <<fgpr, csr, mem, status>>
  <2>1. b = Short("ld", i.rd, r, 0, i.imm)
    BY <1>6, ExpandShort
  <2>2. PICK g \in Int : g = Gather(mem, a, 8)
    BY <1>0, <1>6, Found
  <2>e. i.op \in ZeroUnchecked /\ (i.rd = 0 => Excepted(i))
    BY <1>6 DEF Excepted, ZeroUnchecked
  <2>d. ISA!Dest(b) = i.rd
    BY <2>1 DEF ISA!Dest, ISA!Storing, ISA!Branching, ISA!ToFloat, Short
  <2> HIDE DEF b
  <2>3. CASE i.rd # 0
    <3>1. Write(i.rd, g) /\ Skips(2) /\ UNCHANGED <<fgpr, csr, mem, status>>
      BY <1>6, <2>2, <2>3 DEF Write
    <3> QED BY <1>1, <1>2, <2>1, <2>2, <3>1
  <2>4. CASE i.rd = 0
    <3>1. /\ gpr' \in [Regs -> Field(Dword)]
          /\ \A s \in Regs \ {i.rd} : gpr'[s] = gpr[s]
      BY <1>0, <1>6, <2>2, WritesOne
    <3>2. fgpr' \in [Regs -> Field(Dword)] /\ csr' \in Field(Dword) /\ pc + 2 \in Int /\ Goes(pc + 2)
      BY <1>0, <1>6 DEF Typed, Skips
    <3> QED BY <1>6, <2>e, <2>d, <2>4, <3>1, <3>2, KeepsMemory DEF b
  <2> QED BY <2>3, <2>4
<1> QED BY <1>3, <1>4, <1>5, <1>6

\* Short stores.
LEMMA ShortStores ==
  ASSUME NEW i, Ready(i), NEW r \in Regs,
         \/ i.op = "c.sw" /\ r = i.rs1 /\ Stores(Address(r, i.imm), 4, gpr[i.rs2], 2)
         \/ i.op = "c.sd" /\ r = i.rs1 /\ Stores(Address(r, i.imm), 8, gpr[i.rs2], 2)
         \/ i.op = "c.swsp" /\ r = 2 /\ Stores(Address(r, i.imm), 4, gpr[i.rs2], 2)
         \/ i.op = "c.sdsp" /\ r = 2 /\ Stores(Address(r, i.imm), 8, gpr[i.rs2], 2)
  PROVE  Good(i)
<1>0. i.rs2 \in Regs /\ i.imm \in Int
  BY ShortSetting
<1>1. CASE i.op \in {"c.sw", "c.swsp"}
  <2> DEFINE b == Short("sw", 0, r, i.rs2, i.imm)
  <2>1. ISA!Expand(i) = b /\ Stores(Address(r, i.imm), 4, gpr[i.rs2], 2)
    BY <1>1, ExpandShort
  <2>2. b.op = "sw" /\ b.rs1 = r /\ b.rs2 = i.rs2 /\ b.imm = i.imm /\ b.len = 2
    BY DEF Short
  <2>3. "sw" \in ISA!Storing /\ ISA!SizeOf["sw"] = 4 /\ 4 \in 0 .. 8
    BY DEF ISA!Storing, ISA!SizeOf
  <2> HIDE DEF b
  <2> QED BY <1>0, <2>1, <2>2, <2>3, StoreStep
<1>2. CASE i.op \in {"c.sd", "c.sdsp"}
  <2> DEFINE b == Short("sd", 0, r, i.rs2, i.imm)
  <2>1. ISA!Expand(i) = b /\ Stores(Address(r, i.imm), 8, gpr[i.rs2], 2)
    BY <1>2, ExpandShort
  <2>2. b.op = "sd" /\ b.rs1 = r /\ b.rs2 = i.rs2 /\ b.imm = i.imm /\ b.len = 2
    BY DEF Short
  <2>3. "sd" \in ISA!Storing /\ ISA!SizeOf["sd"] = 8 /\ 8 \in 0 .. 8
    BY DEF ISA!Storing, ISA!SizeOf
  <2> HIDE DEF b
  <2> QED BY <1>0, <2>1, <2>2, <2>3, StoreStep
<1> QED BY <1>1, <1>2

(* The two that write ra in place of what they stand for. *)
LEMMA ShortLinks ==
  ASSUME NEW i, Ready(i), Links(i), NEW t \in Int, Writes(1, pc + 2), Goes(t),
         UNCHANGED <<fgpr, csr, mem, status>>
  PROVE  Good(i)
<1>0. 0 \in Regs /\ 1 \in Regs /\ pc + 2 \in Int
  BY ShortSetting
<1>1. Write(1, pc + 2)
  BY DEF Write
<1>2. /\ gpr' \in [Regs -> Field(Dword)]
      /\ \A r \in Regs \ {0, 1} : gpr'[r] = gpr[r]
      /\ gpr'[0] = gpr[0]
  BY <1>0, <1>1, WriteOne DEF Ready
<1>3. pc' \in Field(Dword)
  BY GoesTyped
<1>4. Typed'
  BY <1>2, <1>3 DEF Ready, Typed, Memory
<1>5. Confined(i)
  <2>1. DOMAIN gpr = Regs
    BY DEF Ready, Typed
  <2> QED BY <1>2, <2>1 DEF Confined
<1>6. Excepted(i)
  BY DEF Excepted
<1> QED BY <1>4, <1>5, <1>6 DEF Good, Keeps

(* Short jumps through a register, and moves that never leave x0. *)
LEMMA ShortReturns ==
  ASSUME NEW i, Ready(i),
         \/ i.op = "c.jr" /\ Jumps(IF i.rs1 = 0 THEN pc ELSE gpr[i.rs1])
         \/ /\ i.op = "c.jalr"
            /\ gpr' = [gpr EXCEPT ![1] = U(pc + 2, Dword)]
            /\ Goes(IF i.rs1 = 0 THEN pc ELSE Even([gpr EXCEPT ![1] = U(pc + 2, Dword)][i.rs1]))
            /\ UNCHANGED <<fgpr, csr, mem, status>>
         \/ /\ i.op = "c.addiw" /\ i.rd = 0
            /\ Writes(1, pc + 2) /\ Goes(pc + SignExt(i.imm, CJumpBits))
            /\ UNCHANGED <<fgpr, csr, mem, status>>
         \/ i.op \in {"c.mv", "c.add"} /\ i.rd = 0 /\ Jumps(pc)
  PROVE  Good(i)
<1>0. /\ 0 \in Regs /\ 1 \in Regs /\ i.rs1 \in Regs /\ pc \in Int /\ Dword \in Nat \ {0}
      /\ gpr \in [Regs -> Field(Dword)]
  BY ShortSetting DEF Typed
<1>1. PICK x, X \in Int : x = gpr[i.rs1] /\ X = ISA!Reg(i.rs1) /\ Same(x, X, Dword)
  BY <1>0, RegisterPair
<1>2. Same(Even(x), ((X + 0) \div 2) * 2, Dword) /\ Even(x) \in Int
  <2>1. X + 0 = X
    OBVIOUS
  <2> QED BY <1>1, <2>1, EvenParts
<1>3. CASE i.op = "c.jr" /\ Jumps(IF i.rs1 = 0 THEN pc ELSE x)
  <2> DEFINE b == Short("jalr", 0, i.rs1, 0, 0)
  <2>1. ISA!Expand(i) = b
    BY <1>3, ExpandShort
  <2>2. b.op = "jalr" /\ b.imm = 0 /\ b.rd = 0 /\ b.rs1 = i.rs1
    BY DEF Short
  <2> HIDE DEF b
  <2>3. ISA!Dest(b) = 0 /\ b.op \in PlainOps
    BY <2>2 DEF ISA!Dest, ISA!Storing, ISA!Branching, ISA!ToFloat, PlainOps
  <2>4. ISA!Target(b) = ((X + 0) \div 2) * 2
    BY <1>1, <2>2, IsaTargets
  <2>5. ~Excepted(i) => i.rs1 # 0 /\ x % 2 # 1
    BY <1>1, <1>3 DEF Excepted
  <2>6. x % 2 # 1 => Even(x) = x
    BY DEF Even
  <2>7. PICK t \in Int : t = IF i.rs1 = 0 THEN pc ELSE x
    BY <1>0
  <2>8. ~Excepted(i) => Same(t, ISA!Target(b), Dword)
    BY <1>2, <2>4, <2>5, <2>6, <2>7
  <2>9. Write(0, 0) /\ Goes(t) /\ UNCHANGED <<fgpr, csr, mem, status>> /\ 0 \in Int
    BY <1>3, <2>7 DEF Jumps, Write
  <2> QED BY <1>0, <2>1, <2>3, <2>8, <2>9, ChangesOne
<1>4. CASE /\ i.op = "c.jalr" /\ i.rs1 # 0
           /\ gpr' = [gpr EXCEPT ![1] = U(pc + 2, Dword)]
           /\ Goes(Even([gpr EXCEPT ![1] = U(pc + 2, Dword)][i.rs1]))
           /\ UNCHANGED <<fgpr, csr, mem, status>>
  <2> DEFINE b == Short("jalr", 1, i.rs1, 0, 0)
  <2>1. ISA!Expand(i) = b
    BY <1>4, ExpandShort
  <2>2. b.op = "jalr" /\ b.imm = 0 /\ b.rd = 1 /\ b.rs1 = i.rs1 /\ b.len = 2
    BY DEF Short
  <2> HIDE DEF b
  <2>3. ISA!Dest(b) = 1 /\ b.op \in PlainOps
    BY <2>2 DEF ISA!Dest, ISA!Storing, ISA!Branching, ISA!ToFloat, PlainOps
  <2>4. ISA!Target(b) = ((X + 0) \div 2) * 2 /\ ISA!Value(b) = pc + 2
    BY <1>1, <2>2, IsaTargets, IsaValues
  <2>5. ~Excepted(i) => i.rs1 # 1
    BY <1>4 DEF Excepted
  <2>6. PICK w \in Int : w = [gpr EXCEPT ![1] = U(pc + 2, Dword)][i.rs1] /\ (i.rs1 # 1 => w = x)
    <3>1. U(pc + 2, Dword) \in Int
      BY <1>0, LowBits, pc + 2 \in Int
    <3> QED BY <1>0, <1>1, <3>1
  <2>7. Even(w) \in Int
    <3>1. Same(w, w, Dword)
      BY DEF Same
    <3> QED BY <3>1, EvenParts
  <2>8. PICK t \in Int : t = Even(w)
    BY <2>7
  <2>9. ~Excepted(i) => Same(t, ISA!Target(b), Dword)
    BY <1>2, <2>4, <2>5, <2>6, <2>8
  <2>10. Write(1, pc + 2) /\ Goes(t) /\ UNCHANGED <<fgpr, csr, mem, status>> /\ pc + 2 \in Int
    BY <1>0, <1>4, <2>6, <2>8 DEF Write, Writes
  <2> QED BY <1>0, <2>1, <2>3, <2>4, <2>9, <2>10, ChangesOne DEF Same
<1>5. CASE i.op \in {"c.mv", "c.add"} /\ i.rd = 0 /\ Jumps(pc)
  <2>1. Excepted(i) /\ status' \in {"runs"}
    BY <1>5 DEF Excepted, ZeroUnchecked, Jumps, Ready
  <2> QED BY <1>0, <1>5, <2>1, ChangesNone DEF Jumps
<1>6. CASE /\ i.op = "c.jalr" /\ i.rs1 = 0
           /\ gpr' = [gpr EXCEPT ![1] = U(pc + 2, Dword)] /\ Goes(pc)
           /\ UNCHANGED <<fgpr, csr, mem, status>>
  BY <1>0, <1>6, ShortLinks DEF Writes, Links
<1>7. CASE /\ i.op = "c.addiw" /\ i.rd = 0
           /\ Writes(1, pc + 2) /\ Goes(pc + SignExt(i.imm, CJumpBits))
           /\ UNCHANGED <<fgpr, csr, mem, status>>
  <2>1. i.imm \in Int /\ CJumpBits \in Nat \ {0}
    BY ShortSetting, HartConstants
  <2>2. PICK n \in Int : n = SignExt(i.imm, CJumpBits)
    BY <2>1, SignBits
  <2>3. PICK t \in Int : t = pc + n
    BY <1>0, <2>2
  <2> QED BY <1>7, <2>2, <2>3, ShortLinks DEF Links
<1> QED BY <1>1, <1>3, <1>4, <1>5, <1>6, <1>7

\* The three compressed quadrants.
LEMMA FullShort ==
  ASSUME NEW i, Ready(i), exec_c0(i) \/ exec_c1(i) \/ exec_c2(i)
  PROVE  Good(i)
<1>0. i.rs1 \in Regs /\ 2 \in Regs
  BY ShortSetting
<1>1. CASE exec_c0(i)
  BY <1>0, <1>1, ShortSums, ShortLoads, ShortStores DEF exec_c0
<1>2. CASE exec_c1(i)
  BY <1>2, ShortSums, ShortBits, ShortWords, ShortJumps, ShortReturns DEF exec_c1
<1>3. CASE exec_c2(i)
  BY <1>0, <1>3, ShortSums, ShortBits, ShortLoads, ShortStores, ShortReturns DEF exec_c2
<1> QED BY <1>1, <1>2, <1>3

(* Every instruction. *)
LEMMA EveryInstruction ==
  ASSUME NEW i, Ready(i), decode_and_execute(i)
  PROVE  Good(i)
<1>0. CASE ZeroWord(i) /\ status' = "stopped" /\ UNCHANGED state
  BY <1>0, FullNone
<1>1. CASE exec_load(i) \/ exec_store(i) \/ exec_amoswap(i) \/ exec_amoadd(i)
  BY <1>1, FullLoads, FullStores, FullSwap, FullAmoAdd
<1>2. CASE handle_i_imm_type(i)
  BY <1>2, FullSums, FullBitwise, FullShifts DEF handle_i_imm_type
<1>3. CASE handle_r_type(i)
  BY <1>3, FullSums, FullBitwise, FullAndOr, FullShifts, FullMul, FullDivision, FullDiv, FullNone
     DEF handle_r_type
<1>4. CASE exec_iw(i) \/ exec_3b(i)
  BY <1>4, FullImmediateWords, FullWords, FullSllw
<1>5. CASE exec_auipc(i) \/ exec_lui(i) \/ exec_jal(i) \/ exec_jalr(i) \/ hande_b_type(i) \/ exec_fence(i)
  BY <1>5, FullUpper, FullJumps, FullBranches, FullFence
<1>6. CASE exec_csr(i) \/ exec_csr_none(i) \/ exec_ebreak(i) \/ exec_float(i) \/ NoCase(i) \/ NoOpcode(i)
  BY <1>6, FullCsr, FullMoves, FullNone
<1>7. CASE exec_c0(i) \/ exec_c1(i) \/ exec_c2(i)
  BY <1>7, FullShort
<1> QED BY <1>0, <1>1, <1>2, <1>3, <1>4, <1>5, <1>6, <1>7 DEF decode_and_execute, handle_opcode

(* What every step needs of the state before it: Typed of module Hart's    *)
(* variables, a set of functions rather than a fact on each value.         *)
HartIInv == Typed /\ steps \in 0 .. MaxSteps

\* A step keeps the invariant and both promises.
LEMMA HartSteps ==
  ASSUME HartIInv, Step
  PROVE  HartIInv' /\ Confined(ir') /\ Keeps(ir')
<1>1. PICK i \in Program : decode_and_execute(i) /\ ir' = i
  BY DEF Step
<1>2. Ready(i)
  BY HartConstants DEF Step, Ready, HartIInv
<1>3. Good(i)
  BY <1>1, <1>2, EveryInstruction
<1>4. steps' \in 0 .. MaxSteps
  BY HartConstants DEF Step, HartIInv
<1> QED BY <1>1, <1>3, <1>4 DEF Good, HartIInv

\* The invariant holds throughout.
LEMMA HartInductive == HartSpec => []HartIInv
<1>1. HartInit => HartIInv
  BY HartConstants DEF HartInit, HartIInv, Typed, Memory
<1>2. HartIInv /\ [HartNext]_hartVars => HartIInv'
  <2> SUFFICES ASSUME HartIInv, [HartNext]_hartVars PROVE HartIInv'
    OBVIOUS
  <2>1. CASE Step
    BY <2>1, HartSteps
  <2>2. CASE ZeroCheck
    BY <2>2 DEF ZeroCheck, state, HartIInv, Typed, Memory
  <2>3. CASE UNCHANGED hartVars
    BY <2>3 DEF hartVars, HartIInv, Typed, Memory
  <2> QED BY <2>1, <2>2, <2>3 DEF HartNext
<1> QED BY <1>1, <1>2, PTL DEF HartSpec

(* Registers, memory and pc keep their widths through any program: what    *)
(* each function of instructions.c assigns is cut to the field it is       *)
(* assigned to (cpu.h: uint64_t gpr[32], pc; memory by bytes).             *)
THEOREM HartTypeCorrect == HartSpec => []HartTypeOK
<1>1. HartIInv => HartTypeOK
  BY DEF HartIInv, Typed, Memory, HartTypeOK
<1> QED BY <1>1, HartInductive, PTL

\* The steps that are counted are those of instructions.
LEMMA CountedStep ==
  ASSUME HartIInv, [HartNext]_hartVars, steps' # steps
  PROVE  Step
BY DEF HartNext, hartVars, ZeroCheck

(* Whatever the words, the memory and the order of instructions, every     *)
(* function that decode.c dispatches to does what the instruction set says *)
(* to all of the state, but for the cases that Excepted lists.             *)
THEOREM HartKeepsToIsa == HartSpec => KeepsToIsa
<1>1. HartIInv /\ [HartNext]_hartVars =>
        [steps' # steps /\ ~Excepted(ir') => ISA!Executes(ir') /\ status' = "runs"]_hartVars
  <2> SUFFICES ASSUME HartIInv, [HartNext]_hartVars, steps' # steps, ~Excepted(ir')
               PROVE  ISA!Executes(ir') /\ status' = "runs"
    OBVIOUS
  <2> QED BY CountedStep, HartSteps DEF Keeps
<1> QED BY <1>1, HartInductive, PTL DEF HartSpec, KeepsToIsa

(* And the cases it lists damage nothing else: no function of              *)
(* instructions.c changes a register that the instruction does not name,   *)
(* x0 and the ra of Links apart, or a byte outside the addressed ones.     *)
THEOREM HartEffectsConfined == HartSpec => EffectsConfined
<1>1. HartIInv /\ [HartNext]_hartVars => [steps' # steps => Confined(ir')]_hartVars
  <2> SUFFICES ASSUME HartIInv, [HartNext]_hartVars, steps' # steps PROVE Confined(ir')
    OBVIOUS
  <2> QED BY CountedStep, HartSteps
<1> QED BY <1>1, HartInductive, PTL DEF HartSpec, EffectsConfined, Confined
=============================================================================
