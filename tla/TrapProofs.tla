----------------------------- MODULE TrapProofs -----------------------------
(***************************************************************************)
(* Proofs about trap entry and return, for any places, any enable masks    *)
(* and any depth of the kernel's stack.                                    *)
(***************************************************************************)
EXTENDS Trap, SequenceTheorems, TLAPS

(***************************************************************************)
(* Sequences of contexts: pushing one and popping one.                     *)
(***************************************************************************)

\* A pushed sequence has the new head and the old elements after it.
LEMMA PushContext ==
  ASSUME NEW S, NEW s \in Seq(S), NEW c \in S
  PROVE  /\ <<c>> \o s \in Seq(S)
         /\ Len(<<c>> \o s) = Len(s) + 1
         /\ \A i \in 1..Len(<<c>> \o s) :
               (<<c>> \o s)[i] = IF i = 1 THEN c ELSE s[i - 1]
  OBVIOUS

\* The tail of a sequence has its elements but the first.
LEMMA PopContext ==
  ASSUME NEW S, NEW s \in Seq(S), s # <<>>
  PROVE  /\ Head(s) \in S /\ Head(s) = s[1] /\ 1 \in 1..Len(s)
         /\ Tail(s) \in Seq(S) /\ Len(Tail(s)) = Len(s) - 1
         /\ \A i \in 1..Len(Tail(s)) : Tail(s)[i] = s[i + 1] /\ i + 1 \in 1..Len(s)
  OBVIOUS

\* Pushing two contexts one after the other, or both at once.
LEMMA PushTwo ==
  ASSUME NEW S, NEW s \in Seq(S), NEW c \in S, NEW d \in S
  PROVE  <<c>> \o (<<d>> \o s) = <<c, d>> \o s
<1>1. <<c>> \in Seq(S) /\ <<d>> \in Seq(S) OBVIOUS
<1>2. <<c>> \o <<d>> = <<c, d>>
  <2>1. /\ <<c>> \o <<d>> \in Seq(S) /\ <<c, d>> \in Seq(S)
        /\ Len(<<c>> \o <<d>>) = 2 /\ Len(<<c, d>>) = 2
    BY <1>1, ConcatProperties
  <2>2. (<<c>> \o <<d>>)[1] = c /\ (<<c>> \o <<d>>)[2] = d BY <1>1, ConcatProperties
  <2>3. \A i \in 1..2 : (<<c>> \o <<d>>)[i] = <<c, d>>[i] BY <2>2
  <2> QED BY <2>1, <2>3, SeqEqual
<1>3. (<<c>> \o <<d>>) \o s = <<c>> \o (<<d>> \o s) BY <1>1, ConcatAssociative
<1> QED BY <1>2, <1>3

\* A sequence is its head pushed on its tail.
LEMMA HeadAndTail ==
  ASSUME NEW S, NEW s \in Seq(S), s # <<>>
  PROVE  s = <<Head(s)>> \o Tail(s)
<1>1. Head(s) \in S /\ Tail(s) \in Seq(S) BY PopContext
<1> DEFINE t == <<Head(s)>> \o Tail(s)
<1>2. t \in Seq(S) /\ Len(t) = Len(Tail(s)) + 1
      /\ \A i \in 1..Len(t) : t[i] = IF i = 1 THEN Head(s) ELSE Tail(s)[i - 1]
  BY <1>1, PushContext
<1> HIDE DEF t
<1>3. Len(s) \in Nat /\ Len(t) = Len(s) /\ Head(s) = s[1]
      /\ \A i \in 1..Len(Tail(s)) : Tail(s)[i] = s[i + 1]
      /\ Len(Tail(s)) = Len(s) - 1
  BY <1>2, PopContext
<1>4. \A i \in 1..Len(s) : s[i] = t[i]
  <2> TAKE i \in 1..Len(s)
  <2>1. CASE i = 1 BY <1>2, <1>3, <2>1
  <2>2. CASE i # 1
    <3>1. i - 1 \in 1..Len(Tail(s)) BY <1>3, <2>2
    <3> QED BY <1>2, <1>3, <2>2, <3>1
  <2> QED BY <2>1, <2>2
<1>5. s = t BY <1>2, <1>3, <1>4, SeqEqual
<1> QED BY <1>5 DEF t

(***************************************************************************)
(* Types                                                                   *)
(***************************************************************************)

\* Both traps write values of the registers' types.
LEMMA TakeSTypes ==
  ASSUME TypeOK, TakeS
  PROVE  /\ pc' \in Addresses /\ sepc' \in Addresses /\ privilege' \in {0, 1, 3}
         /\ sstatus' \in [sie : BOOLEAN, spie : BOOLEAN, spp : {0, 1}]
         /\ sFrame' \in BOOLEAN
BY DEF TypeOK, TakeS, EnterS, Addresses

LEMMA TakeMTypes ==
  ASSUME TypeOK, TakeM
  PROVE  /\ pc' \in Addresses /\ mepc' \in Addresses
         /\ mstatus' \in [mie : BOOLEAN, mpie : BOOLEAN, mpp : 0..3]
         /\ mFrame' \in BOOLEAN
BY TrapConstants DEF TypeOK, TakeM, Addresses

LEMMA TypeInit == Init => TypeOK
<1> SUFFICES ASSUME Init PROVE TypeOK OBVIOUS
<1>1. pc \in Addresses /\ mepc \in Addresses /\ sepc \in Addresses BY DEF Init, Addresses
<1>2. saved \in Seq(Contexts) /\ Len(saved) <= MaxSaved
  <2>1. saved = <<>> /\ MaxSaved \in Nat BY TrapConstants DEF Init
  <2> QED BY <2>1
<1>3. /\ enables \in [mie : SUBSET Kinds, sie : SUBSET Kinds, deleg : SUBSET Kinds]
      /\ mip \in SUBSET Pending
  BY DEF Init
<1>4. /\ mstatus \in [mie : BOOLEAN, mpie : BOOLEAN, mpp : 0..3]
      /\ sstatus \in [sie : BOOLEAN, spie : BOOLEAN, spp : {0, 1}]
  BY DEF Init
<1>5. /\ phase \in {"exec", "check"} /\ privilege \in {0, 1, 3}
      /\ mFrame \in BOOLEAN /\ sFrame \in BOOLEAN
  BY DEF Init
<1> QED BY <1>1, <1>2, <1>3, <1>4, <1>5, Zenon DEF TypeOK

LEMMA TypeStep == TypeOK /\ [Next]_vars => TypeOK'
<1> SUFFICES ASSUME TypeOK, [Next]_vars PROVE TypeOK' OBVIOUS
<1> USE DEF vars, machine, supervisor, Retire, CsrWrite, At
<1>1. CASE Compute  BY <1>1 DEF Compute, TypeOK, Addresses
<1>2. CASE Ecall
  <2>1. CASE privilege <= 1 BY <1>2, <2>1, TakeSTypes DEF Ecall, TypeOK, TakeS, EnterS
  <2>2. CASE ~(privilege <= 1)
    BY <1>2, <2>2, TakeMTypes DEF Ecall, TypeOK, TakeM
  <2> QED BY <2>1, <2>2
<1>3. CASE Mret
  <2>1. privilege' \in {0, 1, 3}
    <3>1. mstatus.mpp \in 0..3 /\ privilege \in {0, 1, 3} BY DEF TypeOK
    <3>2. privilege' = IF mstatus.mpp = 2 THEN privilege ELSE mstatus.mpp
      BY <1>3 DEF Mret, ReturnM
    <3> QED BY <3>1, <3>2
  <2>2. mstatus' \in [mie : BOOLEAN, mpie : BOOLEAN, mpp : 0..3]
    BY <1>3 DEF Mret, ReturnM, TypeOK
  <2> QED BY <1>3, <2>1, <2>2 DEF Mret, ReturnM, TypeOK
<1>4. CASE SretRefused  BY <1>4 DEF SretRefused, TypeOK
<1>5. CASE Sret         BY <1>5 DEF Sret, ReturnS, TypeOK
<1>6. CASE Save
  <2>1. InSupervisor \in Contexts BY DEF TypeOK, Contexts, InSupervisor
  <2>2. saved' = <<InSupervisor>> \o saved /\ Len(saved) < MaxSaved BY <1>6 DEF Save
  <2>3. saved' \in Seq(Contexts) /\ Len(saved') = Len(saved) + 1
    BY <2>1, <2>2, PushContext DEF TypeOK
  <2>4. Len(saved') <= MaxSaved BY <2>2, <2>3, TrapConstants DEF TypeOK
  <2> QED BY <1>6, <2>3, <2>4 DEF Save, TypeOK
<1>7. CASE Restore
  <2>1. Head(saved) \in Contexts /\ Tail(saved) \in Seq(Contexts) /\ Len(Tail(saved)) <= MaxSaved
    BY <1>7, PopContext, TrapConstants DEF Restore, TypeOK
  <2>2. sepc' = Head(saved).pc /\ sstatus'
          = [sie |-> FALSE, spie |-> Head(saved).on, spp |-> Head(saved).privilege]
    BY <1>7 DEF Restore, LoadSupervisor
  <2>3. sepc' \in Addresses /\ sstatus' \in [sie : BOOLEAN, spie : BOOLEAN, spp : {0, 1}]
    BY <2>1, <2>2 DEF Contexts
  <2> QED BY <1>7, <2>1, <2>3 DEF Restore, LoadSupervisor, TypeOK
<1>8. CASE MakeProgram
  <2>1. sepc' \in Addresses /\ sstatus' \in [sie : BOOLEAN, spie : BOOLEAN, spp : {0, 1}]
    BY <1>8 DEF MakeProgram, LoadSupervisor, Addresses
  <2> QED BY <1>8, <2>1 DEF MakeProgram, LoadSupervisor, TypeOK
<1>9. CASE MakeKernel
  <2>1. mepc' \in Addresses BY <1>9 DEF MakeKernel, Addresses
  <2>2. PICK mpp \in 0..3, on \in BOOLEAN :
          mstatus' = [mstatus EXCEPT !.mpp = mpp, !.mpie = on]
    BY <1>9 DEF MakeKernel
  <2>3. mstatus' \in [mie : BOOLEAN, mpie : BOOLEAN, mpp : 0..3]
    BY <2>2 DEF TypeOK
  <2> QED BY <1>9, <2>1, <2>3 DEF MakeKernel, TypeOK
<1>10. CASE WriteSie  BY <1>10 DEF WriteSie, TypeOK
<1>11. CASE WriteMie  BY <1>11 DEF WriteMie, TypeOK
<1>12. CASE Configure BY <1>12, TrapConstants DEF Configure, TypeOK
<1>13. CASE WriteMip  BY <1>13 DEF WriteMip, TypeOK, Pending
<1>14. CASE CheckInterrupts
  <2>1. phase' \in {"exec", "check"} /\ mip' \in SUBSET Pending
    BY <1>14 DEF CheckInterrupts, TypeOK
  <2>2. CASE Cause.to = "none"
    BY <1>14, <2>1, <2>2 DEF CheckInterrupts, TypeOK
  <2>3. CASE Cause.to = "M"
    <3>1. TakeM BY <1>14, <2>3 DEF CheckInterrupts
    <3> QED BY <1>14, <2>1, <3>1, TakeMTypes DEF CheckInterrupts, TypeOK, TakeM
  <2>4. CASE Cause.to = "S" /\ TakeS
    BY <1>14, <2>1, <2>4, TakeSTypes DEF CheckInterrupts, TypeOK, TakeS, EnterS
  <2> QED BY <1>14, <2>2, <2>3, <2>4 DEF CheckInterrupts
<1>15. CASE Line BY <1>15 DEF Line, TypeOK, Pending
<1>16. CASE Tick BY <1>16 DEF Tick, TypeOK, Pending
<1>17. CASE UNCHANGED vars BY <1>17 DEF TypeOK
<1> QED BY <1>1, <1>2, <1>3, <1>4, <1>5, <1>6, <1>7, <1>8, <1>9, <1>10, <1>11, <1>12,
           <1>13, <1>14, <1>15, <1>16, <1>17 DEF Next, Exec, Kernel

\* The registers keep their types, and the level is never the reserved 2,
\* whatever MPP the boot code writes.
THEOREM TrapTypeCorrect == Spec => []TypeOK
BY TypeInit, TypeStep, PTL DEF Spec

(***************************************************************************)
(* The invariant behind the rest.  The guest keeps to the levels and does  *)
(* not write SIE in machine mode; that is left for good, so the two levels *)
(* never both hold frames.                                                 *)
(***************************************************************************)

Levelled(p, level) == p # "mtvec" /\ (p = "stvec" => level = 1)

\* A live frame is in the level that runs, with that level's interrupts off.
FramesMasked ==
  /\ sFrame => privilege # 3 /\ privilege = 1 /\ ~sstatus.sie
  /\ mFrame => privilege = 3 /\ ~mstatus.mie
  /\ privilege = 3 => ~sFrame /\ saved = <<>> /\ ~sstatus.sie

\* Vectors are found at their level, running or to be resumed.
FramesLevelled ==
  /\ VectorLevel
  /\ sFrame => Levelled(sepc, sstatus.spp)
  /\ mFrame => mepc # "stvec" /\ (mepc = "mtvec" => mstatus.mpp = 3)
  /\ \A i \in 1..Len(saved) : Levelled(saved[i].pc, saved[i].privilege)

TrapInv == TypeOK /\ FramesMasked /\ FramesLevelled

\* In machine mode no interrupt goes to the supervisor, and below it none to
\* machine mode; a masked level gets none.
LEMMA CauseLevel ==
  ASSUME TypeOK, FramesMasked
  PROVE  /\ Cause.to \in {"none", "M", "S"}
         /\ Cause.to = "M" => privilege = 3 /\ mstatus.mie
         /\ Cause.to = "S" => privilege # 3 /\ ~(privilege = 1 /\ ~sstatus.sie)
<1>1. privilege = 3 => /\ MachineCause.to \in {"none", "M"}
                       /\ MachineCause.to = "M" => mstatus.mie
  BY DEF MachineCause, None, FramesMasked
<1>2. /\ SupervisorCause.to \in {"none", "S"}
      /\ SupervisorCause.to = "S" => ~(privilege = 1 /\ ~sstatus.sie)
  BY DEF SupervisorCause, CauseUnless, None
<1> QED BY <1>1, <1>2 DEF Cause

LEMMA MaskedInit == Init => FramesMasked
BY DEF Init, FramesMasked

LEMMA MaskedStep ==
  ASSUME KeepsLevels, 3 \notin SieLevels, TypeOK, FramesMasked, [Next]_vars
  PROVE  FramesMasked'
<1> USE DEF vars, machine, supervisor, Retire, CsrWrite, At, FramesMasked
<1>1. CASE Compute  BY <1>1 DEF Compute
<1>2. CASE Ecall
  <2>1. CASE privilege <= 1
    BY <1>2, <2>1 DEF Ecall, TakeS, EnterS, TypeOK
  <2>2. CASE ~(privilege <= 1)
    BY <1>2, <2>2 DEF Ecall, TakeM, TypeOK
  <2> QED BY <2>1, <2>2
<1>3. CASE Mret         BY <1>3 DEF Mret, ReturnM, TypeOK
<1>4. CASE SretRefused  BY <1>4 DEF SretRefused
<1>5. CASE Sret         BY <1>5 DEF Sret, ReturnS, TypeOK
<1>6. CASE Save         BY <1>6 DEF Save
<1>7. CASE Restore      BY <1>7 DEF Restore, LoadSupervisor
<1>8. CASE MakeProgram  BY <1>8 DEF MakeProgram, LoadSupervisor
<1>9. CASE MakeKernel   BY <1>9 DEF MakeKernel, TypeOK
<1>10. CASE WriteSie    BY <1>10 DEF WriteSie
<1>11. CASE WriteMie    BY <1>11 DEF WriteMie
<1>12. CASE Configure   BY <1>12 DEF Configure
<1>13. CASE WriteMip    BY <1>13 DEF WriteMip
<1>14. CASE CheckInterrupts
  <2>1. CASE Cause.to = "none" BY <1>14, <2>1 DEF CheckInterrupts
  <2>2. CASE Cause.to = "M" /\ TakeM
    BY <1>14, <2>2, CauseLevel DEF CheckInterrupts, TakeM
  <2>3. CASE Cause.to = "S" /\ TakeS
    BY <1>14, <2>3, CauseLevel DEF CheckInterrupts, TakeS, EnterS
  <2> QED BY <1>14, <2>1, <2>2, <2>3 DEF CheckInterrupts
<1>15. CASE Line BY <1>15 DEF Line
<1>16. CASE Tick BY <1>16 DEF Tick
<1>17. CASE UNCHANGED vars BY <1>17
<1> QED BY <1>1, <1>2, <1>3, <1>4, <1>5, <1>6, <1>7, <1>8, <1>9, <1>10, <1>11, <1>12,
           <1>13, <1>14, <1>15, <1>16, <1>17 DEF Next, Exec, Kernel

LEMMA LevelledStep ==
  ASSUME KeepsLevels, 3 \notin SieLevels, TypeOK, FramesMasked, FramesLevelled, [Next]_vars
  PROVE  FramesLevelled'
<1> USE DEF vars, machine, supervisor, Retire, CsrWrite, At, FramesLevelled, Levelled
<1>0. "stvec" \notin Places /\ "mtvec" \notin Places
      /\ "stvec" \notin OddPlaces /\ "mtvec" \notin OddPlaces
  BY TrapConstants
<1>1. CASE Compute  BY <1>0, <1>1 DEF Compute, VectorLevel
<1>a. ASSUME privilege # 3, TakeS, UNCHANGED saved PROVE FramesLevelled'
  BY <1>a DEF TakeS, EnterS, VectorLevel, TypeOK
<1>b. ASSUME privilege = 3, TakeM, UNCHANGED saved
      PROVE  FramesLevelled'
  BY <1>b DEF TakeM, VectorLevel, TypeOK
<1>2. CASE Ecall
  <2>1. CASE privilege <= 1 BY <1>2, <2>1, <1>a DEF Ecall
  <2>2. CASE ~(privilege <= 1)
    <3>1. TakeM /\ UNCHANGED saved BY <1>2, <2>2 DEF Ecall
    <3>2. privilege = 3 BY <2>2 DEF TypeOK
    <3> QED BY <3>1, <3>2, <1>b
  <2> QED BY <2>1, <2>2
<1>3. CASE Mret         BY <1>3 DEF Mret, ReturnM, VectorLevel, TypeOK, FramesMasked
<1>4. CASE SretRefused  BY <1>4 DEF SretRefused, VectorLevel
<1>5. CASE Sret         BY <1>5 DEF Sret, ReturnS, VectorLevel, FramesMasked
<1>6. CASE Save
  <2>1. saved' = <<InSupervisor>> \o saved /\ saved \in Seq(Contexts) /\ InSupervisor \in Contexts
    BY <1>6 DEF Save, TypeOK, Contexts, InSupervisor
  <2>2. Levelled(InSupervisor.pc, InSupervisor.privilege)
    BY <1>6 DEF Save, InSupervisor
  <2>3. Len(saved) \in Nat /\ Len(saved') = Len(saved) + 1
        /\ \A i \in 1..Len(saved') :
              saved'[i] = IF i = 1 THEN InSupervisor ELSE saved[i - 1]
    BY <2>1, PushContext
  <2>4. \A i \in 1..Len(saved') : Levelled(saved'[i].pc, saved'[i].privilege)
    <3> SUFFICES ASSUME NEW i \in 1..Len(saved')
                 PROVE  Levelled(saved'[i].pc, saved'[i].privilege)
      OBVIOUS
    <3>1. CASE i = 1 BY <3>1, <2>2, <2>3
    <3>2. CASE i # 1
      <4>1. i - 1 \in 1..Len(saved) /\ saved'[i] = saved[i - 1] BY <3>2, <2>3
      <4> QED BY <4>1
    <3> QED BY <3>1, <3>2
  <2> QED BY <1>6, <2>4 DEF Save, VectorLevel
<1>7. CASE Restore
  <2>1. saved \in Seq(Contexts) /\ saved # <<>> /\ saved' = Tail(saved)
    BY <1>7 DEF Restore, TypeOK
  <2>2. Head(saved) = saved[1] /\ 1 \in 1..Len(saved)
        /\ \A i \in 1..Len(saved') : saved'[i] = saved[i + 1] /\ i + 1 \in 1..Len(saved)
    BY <2>1, PopContext
  <2>3. sepc' = saved[1].pc /\ sstatus'.spp = saved[1].privilege
    BY <1>7, <2>2 DEF Restore, LoadSupervisor
  <2>4. Levelled(sepc', sstatus'.spp) BY <2>2, <2>3
  <2>5. \A i \in 1..Len(saved') : Levelled(saved'[i].pc, saved'[i].privilege) BY <2>2
  <2>6. UNCHANGED <<pc, privilege, mepc, mstatus, mFrame>>
    BY <1>7 DEF Restore, LoadSupervisor
  <2> QED BY <2>4, <2>5, <2>6 DEF VectorLevel
<1>8. CASE MakeProgram  BY <1>0, <1>8 DEF MakeProgram, LoadSupervisor, VectorLevel
<1>9. CASE MakeKernel   BY <1>0, <1>9 DEF MakeKernel, VectorLevel
<1>10. CASE WriteSie    BY <1>10 DEF WriteSie, VectorLevel
<1>11. CASE WriteMie    BY <1>11 DEF WriteMie, VectorLevel
<1>12. CASE Configure   BY <1>12 DEF Configure, VectorLevel
<1>13. CASE WriteMip    BY <1>13 DEF WriteMip, VectorLevel
<1>14. CASE CheckInterrupts
  <2>1. CASE Cause.to = "none" BY <1>14, <2>1 DEF CheckInterrupts, VectorLevel
  <2>2. CASE Cause.to = "M"
    <3>1. TakeM /\ UNCHANGED saved
      BY <1>14, <2>2 DEF CheckInterrupts
    <3>2. privilege = 3 BY <2>2, CauseLevel
    <3> QED BY <3>1, <3>2, <1>b
  <2>3. CASE Cause.to = "S" BY <1>14, <2>3, <1>a, CauseLevel DEF CheckInterrupts
  <2> QED BY <2>1, <2>2, <2>3, CauseLevel
<1>15. CASE Line BY <1>15 DEF Line, VectorLevel
<1>16. CASE Tick BY <1>16 DEF Tick, VectorLevel
<1>17. CASE UNCHANGED vars BY <1>17 DEF VectorLevel
<1> QED BY <1>1, <1>2, <1>3, <1>4, <1>5, <1>6, <1>7, <1>8, <1>9, <1>10, <1>11, <1>12,
           <1>13, <1>14, <1>15, <1>16, <1>17 DEF Next, Exec, Kernel

LEMMA TrapInvInit == Init => TrapInv
<1> SUFFICES ASSUME Init PROVE TrapInv OBVIOUS
<1>1. FramesLevelled
  BY TrapConstants DEF Init, FramesLevelled, VectorLevel, Levelled
<1> QED BY <1>1, TypeInit, MaskedInit DEF TrapInv

LEMMA TrapInvHolds == KeepsLevels /\ 3 \notin SieLevels => (Spec => []TrapInv)
<1> SUFFICES ASSUME KeepsLevels, 3 \notin SieLevels PROVE Spec => []TrapInv OBVIOUS
<1>1. TrapInv /\ [Next]_vars => TrapInv'
  BY TypeStep, MaskedStep, LevelledStep DEF TrapInv
<1> QED BY <1>1, TrapInvInit, PTL DEF Spec

\* Code at a trap vector runs at the vector's level, for any guest that keeps
\* to the levels, which exec_csr and exec_mret do not enforce, and keeps
\* supervisor interrupts off in machine mode.
THEOREM TrapVectorLevel == KeepsLevels /\ 3 \notin SieLevels => (Spec => []VectorLevel)
<1> SUFFICES ASSUME KeepsLevels, 3 \notin SieLevels PROVE Spec => []VectorLevel OBVIOUS
<1>1. TrapInv => VectorLevel BY DEF TrapInv, FramesLevelled
<1> QED BY <1>1, TrapInvHolds, PTL

\* No interrupt overwrites the only copy of an interrupted context.
THEOREM TrapFrameKept == KeepsLevels /\ 3 \notin SieLevels => (Spec => FrameKept)
<1> SUFFICES ASSUME KeepsLevels, 3 \notin SieLevels PROVE Spec => FrameKept OBVIOUS
<1>1. ASSUME TrapInv, [Next]_vars, phase = "check", vars' # vars
      PROVE  /\ sFrame => UNCHANGED <<sepc, sstatus>>
             /\ mFrame => UNCHANGED <<mepc, mstatus>>
  <2>1. CheckInterrupts \/ Line \/ Tick
    BY <1>1 DEF Next, Exec, Kernel, Compute, Ecall, Mret, ReturnM, SretRefused, Sret, ReturnS,
                Save, Restore, MakeProgram, LoadSupervisor, MakeKernel, WriteSie, WriteMie,
                Configure, WriteMip, CsrWrite, Retire
  <2>2. CASE Line \/ Tick BY <2>2 DEF Line, Tick, machine, supervisor
  <2>3. CASE CheckInterrupts
    <3>1. sFrame => Cause.to # "S" BY <1>1, CauseLevel DEF TrapInv, FramesMasked
    <3>2. mFrame => Cause.to = "none" BY <1>1, CauseLevel DEF TrapInv, FramesMasked
    <3>3. CASE Cause.to = "none"
      BY <2>3, <3>3 DEF CheckInterrupts, machine, supervisor
    <3>4. CASE Cause.to = "M"
      BY <2>3, <3>2, <3>4 DEF CheckInterrupts, TakeM, supervisor
    <3>5. CASE Cause.to = "S"
      BY <2>3, <3>1, <3>2, <3>5 DEF CheckInterrupts, TakeS, EnterS, machine
    <3> QED BY <1>1, <3>3, <3>4, <3>5, CauseLevel DEF TrapInv
  <2> QED BY <2>1, <2>2, <2>3
<1>2. TrapInv /\ [Next]_vars =>
        [phase = "check" => /\ sFrame => UNCHANGED <<sepc, sstatus>>
                            /\ mFrame => UNCHANGED <<mepc, mstatus>>]_vars
  BY <1>1
<1> QED BY <1>2, TrapInvHolds, PTL DEF Spec, FrameKept

(***************************************************************************)
(* Trap implements ContextStack.  Only one level has contexts below the    *)
(* running one, so that Below has a simple form in each.                   *)
(***************************************************************************)

AllContexts == Promise!Contexts

LEMMA ContextTypes ==
  ASSUME TypeOK
  PROVE  /\ Running \in AllContexts /\ InSupervisor \in AllContexts
         /\ InMachine \in AllContexts /\ saved \in Seq(AllContexts)
<1>1. Running \in AllContexts BY DEF TypeOK, Running, AllContexts, Promise!Contexts
<1>2. InSupervisor \in AllContexts
  BY DEF TypeOK, InSupervisor, AllContexts, Promise!Contexts
<1>3. InMachine \in AllContexts
  <2>1. mstatus.mpp \in 0..3 /\ mstatus.mpie \in BOOLEAN /\ sstatus.sie \in BOOLEAN
        /\ mepc \in Addresses
    BY DEF TypeOK
  <2> QED BY <2>1 DEF InMachine, AllContexts, Promise!Contexts
<1>4. saved \in Seq(AllContexts)
  <2>1. Contexts \subseteq AllContexts BY DEF Contexts, AllContexts, Promise!Contexts
  <2> QED BY <2>1, SeqMonotonic DEF TypeOK
<1> QED BY <1>1, <1>2, <1>3, <1>4

\* What lies below the running context, level by level.
BelowForm ==
  /\ Below \in Seq(AllContexts)
  /\ privilege = 3 /\ mFrame => Below = <<InMachine>>
  /\ privilege = 3 /\ ~mFrame => Below = <<>>
  /\ privilege # 3 /\ sFrame => Below = <<InSupervisor>> \o saved
  /\ privilege # 3 /\ ~sFrame => Below = saved

StackForm ==
  /\ Running \in AllContexts
  /\ Stack \in Seq(AllContexts) /\ Len(Stack) = Len(Below) + 1
  /\ Stack = <<Running>> \o Below /\ Head(Stack) = Running /\ Tail(Stack) = Below

LEMMA StackIsFormed == TypeOK /\ FramesMasked => BelowForm /\ StackForm
<1> SUFFICES ASSUME TypeOK, FramesMasked PROVE BelowForm /\ StackForm OBVIOUS
<1>1. /\ Running \in AllContexts /\ InSupervisor \in AllContexts
      /\ InMachine \in AllContexts /\ saved \in Seq(AllContexts)
  BY ContextTypes
<1>2. CASE privilege = 3
  <2>1. ~sFrame /\ saved = <<>> BY <1>2 DEF FramesMasked
  <2>2. Below = IF mFrame THEN <<InMachine>> ELSE <<>> BY <1>1, <2>1 DEF Below
  <2>3. BelowForm BY <1>1, <1>2, <2>2 DEF BelowForm
  <2> QED BY <1>1, <2>3 DEF BelowForm, StackForm, Stack
<1>3. CASE privilege # 3
  <2>1. ~mFrame BY <1>3 DEF FramesMasked
  <2>2. Below = (IF sFrame THEN <<InSupervisor>> ELSE <<>>) \o saved
    BY <1>1, <2>1 DEF Below
  <2>3. BelowForm BY <1>1, <1>3, <2>2 DEF BelowForm
  <2> QED BY <1>1, <2>3 DEF BelowForm, StackForm, Stack
<1> QED BY <1>2, <1>3

LEMMA StackStaysFormed == TypeOK' /\ FramesMasked' => BelowForm' /\ StackForm'
BY StackIsFormed, PTL

\* The four ways a step can change the stack.
LEMMA StackSteps ==
  ASSUME StackForm, BelowForm, StackForm', BelowForm'
  PROVE  /\ Below' = Below /\ Running'.privilege = Running.privilege => Promise!Next
         /\ /\ Below' = <<Running>> \o Below /\ ~Running'.on
            /\ Running'.privilege >= Running.privilege
            => Promise!Next
         /\ Below = <<Running'>> \o Below' => Promise!Next
         /\ Running' = Running /\ (\E c \in AllContexts : Below' = <<c>> \o Below) => Promise!Next
<1> USE DEF AllContexts
<1>1. ASSUME Below' = Below, Running'.privilege = Running.privilege PROVE Promise!Next
  <2>1. Promise!Run(Running') BY <1>1 DEF Promise!Run, StackForm
  <2> QED BY <2>1 DEF Promise!Next, StackForm
<1>2. ASSUME Below' = <<Running>> \o Below, ~Running'.on,
             Running'.privilege >= Running.privilege
      PROVE  Promise!Next
  <2>1. Promise!Trap(Running') BY <1>2 DEF Promise!Trap, StackForm
  <2> QED BY <2>1 DEF Promise!Next, StackForm
<1>3. ASSUME Below = <<Running'>> \o Below' PROVE Promise!Next
  <2>0. Running' \in AllContexts /\ Below' \in Seq(AllContexts)
    BY DEF StackForm, BelowForm
  <2>1. Len(Below) = Len(Below') + 1 /\ Len(Below') \in Nat
    <3> HIDE DEF AllContexts
    <3> QED BY <1>3, <2>0, PushContext
  <2>2. Promise!Return BY <1>3, <2>1 DEF Promise!Return, StackForm
  <2> QED BY <2>2 DEF Promise!Next
<1>4. ASSUME Running' = Running, NEW c \in AllContexts, Below' = <<c>> \o Below
      PROVE  Promise!Next
  <2>0. Running \in AllContexts /\ Below \in Seq(AllContexts) /\ Stack' = <<Running>> \o (<<c>> \o Below)
    BY <1>4 DEF StackForm, BelowForm
  <2>1. Stack' = <<Running, c>> \o Below
    <3> HIDE DEF AllContexts
    <3> QED BY <1>4, <2>0, PushTwo
  <2>2. Promise!Make(c) BY <2>1 DEF Promise!Make, StackForm
  <2> QED BY <2>2 DEF Promise!Next
<1> QED BY <1>1, <1>2, <1>3, <1>4

\* A trap pushes a handler, on either level.
LEMMA TakeSPushes ==
  ASSUME TypeOK, FramesMasked, TypeOK', FramesMasked',
         privilege # 3, ~sFrame, TakeS, UNCHANGED saved
  PROVE  Promise!Next
<1>1. BelowForm /\ StackForm /\ BelowForm' /\ StackForm'
  BY StackIsFormed, StackStaysFormed
<1>2. Below = saved BY <1>1 DEF BelowForm
<1>3. Below' = <<InSupervisor'>> \o saved' BY <1>1 DEF BelowForm, TakeS, EnterS
<1>4. InSupervisor' = Running BY DEF TakeS, EnterS, InSupervisor, Running, TypeOK
<1>5. Running.privilege <= 1 /\ Running'.privilege = 1 /\ ~Running'.on
  BY DEF TakeS, EnterS, Running, TypeOK
<1>6. Running'.privilege >= Running.privilege BY <1>5 DEF Running, TypeOK
<1> QED BY <1>1, <1>2, <1>3, <1>4, <1>5, <1>6, StackSteps

LEMMA TakeMPushes ==
  ASSUME TypeOK, FramesMasked, TypeOK', FramesMasked',
         privilege = 3, ~mFrame, TakeM, UNCHANGED saved
  PROVE  Promise!Next
<1>1. BelowForm /\ StackForm /\ BelowForm' /\ StackForm'
  BY StackIsFormed, StackStaysFormed
<1>2. Below = <<>> BY <1>1 DEF BelowForm
<1>3. Below' = <<InMachine'>> BY <1>1 DEF BelowForm, TakeM
<1>4. InMachine' = Running BY DEF TakeM, InMachine, Running
<1>5. Running'.privilege >= Running.privilege /\ ~Running'.on BY DEF TakeM, Running
<1>6. <<Running>> = <<Running>> \o <<>> BY <1>1 DEF StackForm
<1> QED BY <1>1, <1>2, <1>3, <1>4, <1>5, <1>6, StackSteps

LEMMA StackStep ==
  ASSUME KeepsLevels, TypeOK, FramesMasked, TypeOK', FramesMasked', [Next]_vars
  PROVE  [Promise!Next]_Stack
<1> USE DEF vars, machine, supervisor, Retire, CsrWrite, At
<1>0. BelowForm /\ StackForm /\ BelowForm' /\ StackForm'
  BY StackIsFormed, StackStaysFormed
<1>s. ASSUME UNCHANGED <<pc, privilege, machine, supervisor, saved>>
      PROVE  UNCHANGED Stack
  BY <1>s DEF Stack, Running, Below, InSupervisor, InMachine
<1>1. CASE Compute
  <2>1. Below' = Below /\ Running'.privilege = Running.privilege
    BY <1>1 DEF Compute, Below, Running, InSupervisor, InMachine
  <2> QED BY <1>0, <2>1, StackSteps
<1>2. CASE Ecall
  <2>1. CASE privilege <= 1 BY <1>2, <2>1, TakeSPushes DEF Ecall
  <2>2. CASE ~(privilege <= 1)
    <3>1. privilege = 3 BY <2>2 DEF TypeOK
    <3>2. ~mFrame /\ TakeM /\ UNCHANGED saved BY <1>2, <2>2 DEF Ecall
    <3> QED BY <3>1, <3>2, TakeMPushes
  <2> QED BY <2>1, <2>2
<1>3. CASE Mret
  <2>1. Below = <<InMachine>> /\ saved = <<>> /\ ~sFrame
    BY <1>0, <1>3 DEF BelowForm, Mret, ReturnM, FramesMasked
  <2>2. Below' = <<>> BY <1>0, <1>3, <2>1 DEF BelowForm, Mret, ReturnM
  <2>3. Running' = InMachine BY <1>3 DEF Mret, ReturnM, Running, InMachine, TypeOK
  <2>4. <<Running'>> = <<Running'>> \o <<>> BY <1>0 DEF StackForm
  <2> QED BY <1>0, <2>1, <2>2, <2>3, <2>4, StackSteps
<1>4. CASE SretRefused BY <1>4, <1>s DEF SretRefused
<1>5. CASE Sret
  <2>1. privilege # 3 /\ privilege' # 3 /\ sFrame /\ ~sFrame' /\ UNCHANGED saved
    BY <1>5 DEF Sret, ReturnS, TypeOK
  <2>2. Below = <<InSupervisor>> \o Below' BY <1>0, <2>1 DEF BelowForm
  <2>3. Running' = InSupervisor BY <1>5, <2>1 DEF Sret, ReturnS, Running, InSupervisor
  <2> QED BY <1>0, <2>2, <2>3, StackSteps
<1>6. CASE Save
  <2>1. privilege # 3 /\ privilege' # 3 /\ sFrame /\ ~sFrame' /\ saved' = <<InSupervisor>> \o saved
    BY <1>6 DEF Save
  <2>2. Below' = Below BY <1>0, <2>1 DEF BelowForm
  <2>3. Running'.privilege = Running.privilege BY <1>6 DEF Save, Running
  <2> QED BY <1>0, <2>2, <2>3, StackSteps
<1>7. CASE Restore
  <2>1. privilege # 3 /\ privilege' # 3 /\ ~sFrame /\ sFrame' /\ saved' = Tail(saved)
        /\ saved # <<>> /\ saved \in Seq(Contexts)
    BY <1>7 DEF Restore, LoadSupervisor, TypeOK
  <2>2. InSupervisor' = Head(saved)
    <3>1. Head(saved) \in Contexts BY <2>1, PopContext
    <3> QED BY <1>7, <3>1 DEF Restore, LoadSupervisor, InSupervisor, Contexts
  <2>3. saved = <<Head(saved)>> \o Tail(saved) BY <2>1, HeadAndTail
  <2>4. Below' = Below BY <1>0, <2>1, <2>2, <2>3 DEF BelowForm
  <2>5. Running'.privilege = Running.privilege
    BY <1>7 DEF Restore, LoadSupervisor, Running
  <2> QED BY <1>0, <2>4, <2>5, StackSteps
<1>8. CASE MakeProgram
  <2>1. privilege # 3 /\ privilege' # 3 /\ ~sFrame /\ sFrame' /\ saved' = saved
        /\ UNCHANGED <<pc, privilege>> /\ ~sstatus.sie /\ ~sstatus'.sie
    BY <1>8 DEF MakeProgram, LoadSupervisor
  <2>2. Below' = <<InSupervisor'>> \o Below BY <1>0, <2>1 DEF BelowForm
  <2>3. Running' = Running BY <2>1 DEF Running, TypeOK
  <2>4. InSupervisor' \in AllContexts
    <3>1. TypeOK' => InSupervisor' \in AllContexts
      BY DEF TypeOK, InSupervisor, AllContexts, Promise!Contexts
    <3> QED BY <3>1
  <2> QED BY <1>0, <2>2, <2>3, <2>4, StackSteps
<1>9. CASE MakeKernel
  <2>1. privilege = 3 /\ privilege' = 3 /\ ~mFrame /\ mFrame'
        /\ pc' = pc /\ mstatus'.mie = mstatus.mie
    BY <1>9 DEF MakeKernel, TypeOK
  <2>2. Below = <<>> /\ Below' = <<InMachine'>> BY <1>0, <2>1 DEF BelowForm
  <2>3. Running' = Running BY <2>1 DEF Running
  <2>4. InMachine' \in AllContexts
    <3>1. mstatus'.mpp \in 0..3 /\ mstatus'.mpie \in BOOLEAN /\ sstatus'.sie \in BOOLEAN
          /\ mepc' \in Addresses
      BY DEF TypeOK
    <3> QED BY <3>1 DEF InMachine, AllContexts, Promise!Contexts
  <2>5. <<InMachine'>> = <<InMachine'>> \o <<>> BY <2>4
  <2> QED BY <1>0, <2>2, <2>3, <2>4, <2>5, StackSteps
<1>10. CASE WriteSie
  <2>1. ~sFrame /\ ~sFrame' /\ saved' = saved /\ privilege' = privilege
        /\ (privilege = 3 => ~mFrame) /\ mFrame' = mFrame
    BY <1>10 DEF WriteSie
  <2>2. Below' = Below BY <1>0, <2>1 DEF BelowForm
  <2>3. Running'.privilege = Running.privilege BY <2>1 DEF Running
  <2> QED BY <1>0, <2>2, <2>3, StackSteps
<1>11. CASE WriteMie
  <2>1. privilege = 3 /\ privilege' = 3 /\ ~mFrame /\ ~mFrame' BY <1>11 DEF WriteMie
  <2>2. Below' = Below BY <1>0, <2>1 DEF BelowForm
  <2>3. Running'.privilege = Running.privilege BY <2>1 DEF Running
  <2> QED BY <1>0, <2>2, <2>3, StackSteps
<1>12. CASE Configure BY <1>12, <1>s DEF Configure
<1>13. CASE WriteMip  BY <1>13, <1>s DEF WriteMip
<1>14. CASE CheckInterrupts
  <2>1. CASE Cause.to = "none" BY <1>14, <2>1, <1>s DEF CheckInterrupts
  <2>2. CASE Cause.to = "M"
    <3>1. TakeM /\ UNCHANGED saved
      BY <1>14, <2>2 DEF CheckInterrupts
    <3>2. privilege = 3 /\ ~mFrame BY <2>2, CauseLevel DEF FramesMasked
    <3> QED BY <3>1, <3>2, TakeMPushes
  <2>3. CASE Cause.to = "S"
    <3>1. TakeS /\ UNCHANGED saved BY <1>14, <2>3 DEF CheckInterrupts
    <3>2. privilege # 3 /\ ~sFrame BY <2>3, CauseLevel DEF FramesMasked
    <3> QED BY <3>1, <3>2, TakeSPushes
  <2> QED BY <2>1, <2>2, <2>3, CauseLevel
<1>15. CASE Line BY <1>15, <1>s DEF Line
<1>16. CASE Tick BY <1>16, <1>s DEF Tick
<1>17. CASE UNCHANGED vars BY <1>17, <1>s
<1> QED BY <1>1, <1>2, <1>3, <1>4, <1>5, <1>6, <1>7, <1>8, <1>9, <1>10, <1>11, <1>12,
           <1>13, <1>14, <1>15, <1>16, <1>17 DEF Next, Exec, Kernel

LEMMA StackInit == Init => Promise!Init
<1> SUFFICES ASSUME Init PROVE Promise!Init OBVIOUS
<1>1. StackForm /\ BelowForm BY TypeInit, MaskedInit, StackIsFormed
<1>2. Below = <<>> BY <1>1 DEF BelowForm, Init
<1>3. Stack = <<Running>> BY <1>1, <1>2 DEF StackForm
<1> QED BY <1>1, <1>3 DEF StackForm, AllContexts, Promise!Init

\* Trap entry and return implement the stack of contexts: every return
\* resumes what its trap interrupted, for any depth of nesting.
THEOREM TrapResumesContexts == KeepsLevels /\ 3 \notin SieLevels => (Spec => ResumesContexts)
<1> SUFFICES ASSUME KeepsLevels, 3 \notin SieLevels PROVE Spec => ResumesContexts OBVIOUS
<1>1. TrapInv /\ TrapInv' /\ [Next]_vars => [Promise!Next]_Stack
  BY StackStep DEF TrapInv
<1> QED BY <1>1, StackInit, TrapInvHolds, PTL DEF Spec, ResumesContexts, Promise!Spec

=============================================================================
