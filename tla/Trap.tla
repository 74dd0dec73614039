-------------------------------- MODULE Trap --------------------------------
(***************************************************************************)
(* Trap entry and return: src/trap.c, and ecall, mret, sret and the CSR    *)
(* writes of src/instructions.c, one iteration of the loop of main.c being *)
(* an instruction and then check_and_handle_interrupts.                    *)
(*                                                                         *)
(* The CSRs are plain storage: sstatus is not a view of mstatus, nor sie   *)
(* of mie.  The guest is a kernel that saves sepc and sstatus before it    *)
(* enables interrupts or calls, restores them with interrupts off, and     *)
(* returns only to what it saved, received or made; its programs run at    *)
(* privilege 0 and compute, call and write the registers that are no trap  *)
(* frame.  None of this is enforced: exec_csr and exec_mret look at no     *)
(* level, and KeepsLevels says whether the guest looks after it.           *)
(***************************************************************************)
EXTENDS Integers, Sequences

CONSTANTS
  Places,      \* where guest code runs
  OddPlaces,   \* bad return addresses: bit 0 is set
  Configs,     \* what the guest writes to mie, sie and mideleg
  MaxSaved,    \* bound: frames on the kernel's stack
  SieLevels,   \* the levels at which the guest writes SIE of sstatus
  KeepsLevels  \* the guest leaves the trap frames, mstatus and mret to the
               \* level they are of

Kinds == {"ext", "timer", "soft"}
Pending == {"MEIP", "MTIP", "MSIP", "STIP"}
Addresses == Places \cup OddPlaces \cup {"reset", "stvec", "mtvec"}

ASSUME TrapConstants ==
  /\ (Places \cup OddPlaces) \cap {"reset", "stvec", "mtvec"} = {}
  /\ Configs \subseteq [mie : SUBSET Kinds, sie : SUBSET Kinds, deleg : SUBSET Kinds]
  /\ MaxSaved \in Nat /\ SieLevels \subseteq {0, 1, 3} /\ KeepsLevels \in BOOLEAN

VARIABLES
  phase,      \* "exec": cpu_step is next; "check": the interrupts are
  pc,
  privilege,
  mstatus,    \* MIE, MPIE, MPP
  sstatus,    \* SIE, SPIE, SPP
  mepc, sepc,
  mip,
  enables,    \* mie, sie, mideleg
  mFrame,     \* history: mepc and mstatus hold a context to return to
  sFrame,     \* history: sepc and sstatus do
  saved       \* the kernel's stack of saved sepc and sstatus

machine    == <<mstatus, mepc, mFrame>>
supervisor == <<sstatus, sepc, sFrame>>
vars == <<phase, pc, privilege, machine, supervisor, mip, enables, saved>>

-----------------------------------------------------------------------------
(* take_mmode_trap and take_smode_trap *)

\* take_mmode_trap: it does not set the privilege.  The cause registers are
\* left out, as nothing in the program reads them.
TakeM ==
  /\ mepc' = pc
  /\ mstatus' = [mie |-> FALSE, mpie |-> mstatus.mie, mpp |-> privilege]
  /\ mFrame' = TRUE
  /\ pc' = "mtvec"
  /\ UNCHANGED <<privilege, supervisor>>

EnterS(level, on) ==
  /\ sepc' = pc
  /\ sstatus' = [sie |-> on, spie |-> sstatus.sie, spp |-> IF privilege = 1 THEN 1 ELSE 0]
  /\ sFrame' = TRUE
  /\ privilege' = level
  /\ pc' = "stvec"
  /\ UNCHANGED machine

\* Mutants of TakeS: SIE stays as it was; the level is not raised.
TakeS_StaysOn == EnterS(1, sstatus.sie)
TakeS_SameLevel == EnterS(privilege, FALSE)

\* take_smode_trap: any level but 1 is recorded as 0.
TakeS == EnterS(1, FALSE)

-----------------------------------------------------------------------------
(* check_and_handle_interrupts *)

None == [to |-> "none", kind |-> "none"]

\* In machine mode the first pending bit decides, masked or not; a delegated
\* source goes to the supervisor if the supervisor takes it.
MachineCause ==
  LET First == IF "MEIP" \in mip THEN "ext"
               ELSE IF "MTIP" \in mip THEN "timer"
               ELSE IF "MSIP" \in mip THEN "soft" ELSE "none"
      toS == First \in enables.deleg /\ sstatus.sie /\ First \in enables.sie
  IN  IF ~mstatus.mie THEN None
      ELSE IF toS THEN [to |-> "S", kind |-> First]
      ELSE IF First \in enables.mie THEN [to |-> "M", kind |-> First]
      ELSE None

\* Below it, sources that are not delegated are not looked at (the timer
\* comes from STIP); a user program is interrupted whatever SIE says.
Shown == {k \in Kinds :
            \/ k = "ext" /\ "MEIP" \in mip /\ k \in enables.deleg
            \/ k = "timer" /\ "STIP" \in mip
            \/ k = "soft" /\ "MSIP" \in mip /\ k \in enables.deleg}

CauseUnless(masked) ==
  LET taken == Shown \cap enables.sie
  IN  IF masked \/ taken = {} THEN None
      ELSE [to |-> "S", kind |-> IF "ext" \in taken THEN "ext"
                                 ELSE IF "timer" \in taken THEN "timer" ELSE "soft"]

\* Mutant of SupervisorCause: a user program is shielded by SIE, too.
SupervisorCause_NeedsSie == CauseUnless(~sstatus.sie)

SupervisorCause == CauseUnless(privilege = 1 /\ ~sstatus.sie)

Cause == IF privilege = 3 THEN MachineCause ELSE SupervisorCause

\* A software interrupt is acknowledged here.
CheckInterrupts ==
  /\ phase = "check" /\ phase' = "exec"
  /\ mip' = IF Cause.kind = "soft" THEN mip \ {"MSIP"} ELSE mip
  /\ \/ Cause.to = "none" /\ UNCHANGED <<pc, privilege, machine, supervisor>>
     \/ Cause.to = "M" /\ TakeM
     \/ Cause.to = "S" /\ TakeS
  /\ UNCHANGED <<enables, saved>>

-----------------------------------------------------------------------------
(* Instructions *)

Retire == phase = "exec" /\ phase' = "check"

\* Anything that only computes, and jumps or not.
Compute ==
  /\ Retire
  /\ pc' \in Places
  /\ UNCHANGED <<privilege, machine, supervisor, mip, enables, saved>>

\* exec_ecall: levels 0 and 1 call the supervisor, level 3 the machine
\* handler.  medeleg is not looked at.
Ecall ==
  /\ Retire
  /\ IF privilege <= 1 THEN ~sFrame /\ TakeS
                       ELSE ~mFrame /\ TakeM
  /\ UNCHANGED <<mip, enables, saved>>

\* The guest's discipline: nothing in the code is this guard.
At(level) == KeepsLevels => privilege = level

ReturnM(level) ==
  /\ Retire
  /\ At(3) /\ mFrame
  /\ privilege' = level
  /\ mstatus' = [mie |-> mstatus.mpie, mpie |-> TRUE, mpp |-> 0]
  /\ pc' = mepc
  /\ mFrame' = FALSE
  /\ UNCHANGED <<mepc, supervisor, mip, enables, saved>>

\* Mutant of Mret: MPP is copied.
Mret_AnyLevel == ReturnM(mstatus.mpp)

\* exec_mret.  MPP = 2 leaves the level as it is.
Mret == ReturnM(IF mstatus.mpp = 2 THEN privilege ELSE mstatus.mpp)

\* exec_sret does nothing at level 0 and nothing for an odd sepc: the
\* instruction is executed again and again.
SretRefused ==
  /\ Retire
  /\ \/ privilege = 0
     \/ privilege = 1 /\ sFrame /\ sepc \in OddPlaces
  /\ UNCHANGED <<pc, privilege, machine, supervisor, mip, enables, saved>>

ReturnS(on) ==
  /\ Retire
  /\ privilege = 1 /\ sFrame /\ sepc \notin OddPlaces
  /\ pc' = sepc
  /\ privilege' = sstatus.spp
  /\ sstatus' = [sie |-> on, spie |-> FALSE, spp |-> 0]
  /\ sFrame' = FALSE
  /\ UNCHANGED <<sepc, machine, mip, enables, saved>>

\* Mutant of Sret: SIE is not taken back from SPIE.
Sret_StaysOff == ReturnS(FALSE)

\* exec_sret: SPIE is cleared, where mret sets MPIE.
Sret == ReturnS(sstatus.spie)

-----------------------------------------------------------------------------
(* What the guest does to the CSRs                                         *)

\* exec_csr: any level writes any register.
CsrWrite ==
  /\ Retire
  /\ UNCHANGED <<pc, privilege>>

WriteSie ==
  /\ CsrWrite /\ privilege \in SieLevels
  /\ ~sFrame /\ (privilege = 3 => ~mFrame)
  /\ \E on \in BOOLEAN : sstatus' = [sstatus EXCEPT !.sie = on]
  /\ UNCHANGED <<sepc, sFrame, machine, mip, enables, saved>>

WriteMie ==
  /\ CsrWrite /\ At(3) /\ ~mFrame
  /\ \E on \in BOOLEAN : mstatus' = [mstatus EXCEPT !.mie = on]
  /\ UNCHANGED <<mepc, mFrame, supervisor, mip, enables, saved>>

\* The context in sepc and sstatus.
InSupervisor == [pc |-> sepc, privilege |-> sstatus.spp, on |-> sstatus.spie]

\* The kernel pushes what a trap left in sepc and sstatus.
Save ==
  /\ CsrWrite /\ At(1) /\ sFrame /\ Len(saved) < MaxSaved
  /\ saved' = <<InSupervisor>> \o saved
  /\ sFrame' = FALSE
  /\ UNCHANGED <<sstatus, sepc, machine, mip, enables>>

\* It writes back what it saved, or a new program's first context.
LoadSupervisor(c) ==
  /\ CsrWrite /\ At(1) /\ ~sFrame /\ ~sstatus.sie
  /\ sepc' = c.pc
  /\ sstatus' = [sie |-> FALSE, spie |-> c.on, spp |-> c.privilege]
  /\ sFrame' = TRUE
  /\ UNCHANGED <<machine, mip, enables>>

Restore ==
  /\ saved # <<>>
  /\ LoadSupervisor(Head(saved)) /\ saved' = Tail(saved)

MakeProgram ==
  /\ \E p \in Places \cup OddPlaces, level \in {0, 1}, on \in BOOLEAN :
        LoadSupervisor([pc |-> p, privilege |-> level, on |-> on])
  /\ UNCHANGED saved

\* The boot code makes the context that mret will start, at any MPP.
MakeKernel ==
  /\ CsrWrite /\ At(3) /\ ~mFrame /\ ~mstatus.mie
  /\ \E p \in Places, mpp \in 0..3, on \in BOOLEAN :
        mepc' = p /\ mstatus' = [mstatus EXCEPT !.mpp = mpp, !.mpie = on]
  /\ mFrame' = TRUE
  /\ UNCHANGED <<supervisor, mip, enables, saved>>

\* mie, sie and mideleg, by the kernel or by any program.
Configure ==
  /\ CsrWrite
  /\ enables' \in Configs
  /\ UNCHANGED <<machine, supervisor, mip, saved>>

\* Only the guest sets MTIP and MSIP: the CLINT drives STIP alone.
WriteMip ==
  /\ CsrWrite
  /\ \E bits \in SUBSET {"MTIP", "MSIP"} : mip' = (mip \ {"MTIP", "MSIP"}) \cup bits
  /\ UNCHANGED <<machine, supervisor, enables, saved>>

-----------------------------------------------------------------------------
(* The lines *)

\* plic_update, on either thread.
Line ==
  /\ mip' \in {mip \cup {"MEIP"}, mip \ {"MEIP"}}
  /\ UNCHANGED <<phase, pc, privilege, machine, supervisor, enables, saved>>

\* clint_update_interrupts, from the tick at the end of cpu_step.
Tick ==
  /\ phase = "check"
  /\ mip' \in {mip \cup {"STIP"}, mip \ {"STIP"}}
  /\ UNCHANGED <<phase, pc, privilege, machine, supervisor, enables, saved>>

-----------------------------------------------------------------------------

Init ==
  /\ phase = "exec" /\ pc \in Places /\ privilege = 3
  /\ mstatus = [mie |-> FALSE, mpie |-> FALSE, mpp |-> 0]
  /\ sstatus = [sie |-> FALSE, spie |-> FALSE, spp |-> 0]
  /\ mepc = "reset" /\ sepc = "reset"
  /\ mip = {}
  /\ enables = [mie |-> {}, sie |-> {}, deleg |-> {}]
  /\ mFrame = FALSE /\ sFrame = FALSE
  /\ saved = <<>>

Kernel == Save \/ Restore \/ MakeProgram \/ MakeKernel \/ WriteSie \/ WriteMie
          \/ Configure \/ WriteMip

Exec == Compute \/ Ecall \/ Mret \/ SretRefused \/ Sret \/ Kernel

Next == Exec \/ CheckInterrupts \/ Line \/ Tick

\* The CPU thread runs: an iteration that has begun goes on.
Fairness == WF_vars(Exec) /\ WF_vars(CheckInterrupts)

Spec == Init /\ [][Next]_vars /\ Fairness

-----------------------------------------------------------------------------
(* Properties *)

Contexts == [pc : Addresses, privilege : {0, 1}, on : BOOLEAN]

\* Types; in particular the level is never the reserved 2.
TypeOK ==
  /\ phase \in {"exec", "check"} /\ pc \in Addresses /\ privilege \in {0, 1, 3}
  /\ mstatus \in [mie : BOOLEAN, mpie : BOOLEAN, mpp : 0..3]
  /\ sstatus \in [sie : BOOLEAN, spie : BOOLEAN, spp : {0, 1}]
  /\ mepc \in Addresses /\ sepc \in Addresses
  /\ mip \in SUBSET Pending
  /\ enables \in [mie : SUBSET Kinds, sie : SUBSET Kinds, deleg : SUBSET Kinds]
  /\ mFrame \in BOOLEAN /\ sFrame \in BOOLEAN
  /\ saved \in Seq(Contexts) /\ Len(saved) <= MaxSaved

\* Code at a trap vector runs at the vector's level, also when it is resumed,
\* although take_mmode_trap sets no level.
VectorLevel ==
  /\ pc = "stvec" => privilege = 1
  /\ pc = "mtvec" => privilege = 3

\* While sepc and sstatus, or mepc and mstatus, hold the only copy of an
\* interrupted context, no interrupt overwrites it.
FrameKept ==
  [][phase = "check" => /\ sFrame => UNCHANGED <<sepc, sstatus>>
                        /\ mFrame => UNCHANGED <<mepc, mstatus>>]_vars

\* The contexts the guest is in the middle of: the running one, and those in
\* the supervisor's registers, on the kernel's stack, in the machine's registers.
Running == [pc |-> pc, privilege |-> privilege,
            on |-> IF privilege = 3 THEN mstatus.mie ELSE sstatus.sie]
InMachine == LET level == IF mstatus.mpp = 2 THEN 3 ELSE mstatus.mpp
             IN  [pc |-> mepc, privilege |-> level,
                  on |-> IF level = 3 THEN mstatus.mpie ELSE sstatus.sie]
Below == (IF sFrame THEN <<InSupervisor>> ELSE <<>>)
         \o saved
         \o (IF mFrame THEN <<InMachine>> ELSE <<>>)
Stack == <<Running>> \o Below

Promise == INSTANCE ContextStack WITH stack <- Stack, Levels <- {0, 1, 3}

\* Every return resumes the context its trap interrupted, however traps nest.
ResumesContexts == Promise!Spec

\* trap.c:212: a delegated external interrupt takes the hart from a user
\* program whatever SIE says, unless the line falls or the program itself
\* clears sie or mideleg, which no level refuses it (instructions.c:1527).
InterruptsUser ==
  (privilege = 0 /\ "ext" \in Shown \cap enables.sie)
    ~> (privilege # 0 \/ "ext" \notin Shown \cap enables.sie)
=============================================================================
