------------------------------- MODULE Clint -------------------------------
(***************************************************************************)
(* The timer of src/clint.c: a clock that ticks once in Period             *)
(* instructions, the comparison with the deadline in csr[STIMECMP], and    *)
(* STIP, the pending bit that check_and_handle_interrupts looks at.        *)
(*                                                                         *)
(* The clock is only compared, so that MaxTime, which no deadline exceeds, *)
(* stands for every later time as well.  csr[SIP], a copy of csr[MIP] made *)
(* by each update, and csr[TIME], the other clock, which gains 10 with     *)
(* each instruction, decide nothing in src/ and are left out, and so are   *)
(* mtimecmp and msip, which no decision uses either.                       *)
(***************************************************************************)
EXTENDS Integers

CONSTANTS
  Period,    \* instructions from tick to tick (100)
  MaxTime,   \* bound: the latest time that is told from later ones
  Base,      \* CLINT_BASE_ADDR
  Size,      \* CLINT_SIZE
  Width,     \* offsets are computed modulo this (2^64)
  Registers, \* the offsets of msip and mtimecmp
  TimeAt     \* the offset of mtime

ASSUME ClintConstants ==
  /\ Period \in Nat \ {0} /\ MaxTime \in Nat
  /\ Base \in Nat /\ Size \in Nat /\ Base + Size <= Width /\ Width \in Nat
  /\ Registers \subseteq 0 .. Size - 1 /\ TimeAt \in (0 .. Size - 1) \ Registers

Times == 0 .. MaxTime

VARIABLES
  cycle,     \* cycle_count % Period
  mtime,     \* clint.mtime
  compare,   \* clint.stimecmp
  stimecmp,  \* csr[STIMECMP]
  sstc,      \* bit 63 of csr[MENVCFG]
  counter,   \* bit 1 of csr[MCOUNTERN]
  stip,      \* bit 5 of csr[MIP]
  answers    \* history: what the comparison has said since the last update

csrs == <<stimecmp, sstc, counter>>
clintVars == <<cycle, mtime, compare, csrs, stip, answers>>

-----------------------------------------------------------------------------

\* Mutant of Update: the deadline is the one of the update before.
Update_StaleDeadline ==
  /\ compare' = IF sstc' THEN stimecmp' ELSE compare
  /\ stip' = IF counter' THEN mtime' >= compare ELSE stip

\* clint_update_interrupts, at the end of an instruction.
Update ==
  /\ compare' = IF sstc' THEN stimecmp' ELSE compare
  /\ stip' = IF counter' THEN mtime' >= compare' ELSE stip

\* What the comparison says of the registers as they are.
Answer == IF counter THEN mtime >= (IF sstc THEN stimecmp ELSE compare) ELSE stip

Note(updated) == answers' = (IF updated THEN {} ELSE answers) \cup {Answer'}

Later(time) == IF time < MaxTime THEN time + 1 ELSE time

\* Mutant of Retire: the tick is due one instruction too late.
Retire_NoReset(time, updated) ==
  LET tick == cycle = Period - 1 IN
  /\ cycle' = cycle + 1
  /\ mtime' = IF tick THEN Later(time) ELSE time
  /\ IF tick \/ updated THEN Update ELSE UNCHANGED <<compare, stip>>
  /\ Note(tick \/ updated)

\* Mutant of Retire: a tick moves the clock and compares nothing.
Retire_NoUpdate(time, updated) ==
  LET tick == cycle = Period - 1 IN
  /\ cycle' = (cycle + 1) % Period
  /\ mtime' = IF tick THEN Later(time) ELSE time
  /\ IF updated THEN Update ELSE UNCHANGED <<compare, stip>>
  /\ Note(tick \/ updated)

\* The end of cpu_step with the tick; the instruction has set the clock to time
\* and has caused an update or not.
Retire(time, updated) ==
  LET tick == cycle = Period - 1 IN
  /\ cycle' = (cycle + 1) % Period
  /\ mtime' = IF tick THEN Later(time) ELSE time
  /\ IF tick \/ updated THEN Update ELSE UNCHANGED <<compare, stip>>
  /\ Note(tick \/ updated)

\* An instruction that touches no timer register.
Plain == UNCHANGED csrs /\ Retire(mtime, FALSE)

\* CSR writes, which compare nothing.
WriteStimecmp(deadline) ==
  /\ stimecmp' = deadline
  /\ UNCHANGED <<sstc, counter>>
  /\ Retire(mtime, FALSE)

WriteMenvcfg(bit) ==
  /\ sstc' = bit
  /\ UNCHANGED <<stimecmp, counter>>
  /\ Retire(mtime, FALSE)

WriteMcounteren(bit) ==
  /\ counter' = bit
  /\ UNCHANGED <<stimecmp, sstc>>
  /\ Retire(mtime, FALSE)

\* clint_write gets an offset from the bus and subtracts the base once more.
Reached(offset) == (offset - Base) % Width

Store(offset, value) ==
  /\ UNCHANGED csrs
  /\ Retire(IF Reached(offset) = TimeAt THEN value ELSE mtime,
            Reached(offset) \in Registers \cup {TimeAt})

-----------------------------------------------------------------------------

\* cpu_init clears everything.
ClintInit ==
  /\ cycle = 0 /\ mtime = 0 /\ compare = 0 /\ stimecmp = 0
  /\ sstc = FALSE /\ counter = FALSE /\ stip = FALSE
  /\ answers = {FALSE}

ClintNext ==
  \/ Plain
  \/ \E deadline \in Times : WriteStimecmp(deadline)
  \/ \E bit \in BOOLEAN : WriteMenvcfg(bit) \/ WriteMcounteren(bit)
  \/ \E offset \in Registers \cup {TimeAt}, value \in Times : Store(offset, value)

\* The CPU goes on executing.
ClintSpec == ClintInit /\ [][ClintNext]_clintVars /\ WF_clintVars(ClintNext)

-----------------------------------------------------------------------------
(* Properties *)

\* The variables keep their ranges.
ClintTypeOK ==
  /\ cycle \in 0 .. Period - 1
  /\ mtime \in Times /\ compare \in Times /\ stimecmp \in Times
  /\ sstc \in BOOLEAN /\ counter \in BOOLEAN /\ stip \in BOOLEAN
  /\ answers \in SUBSET BOOLEAN

\* The pending bit is an answer that the comparison gave since the last update:
\* whatever is written in between, it is never older than that.
StipLags == stip \in answers

\* While the kernel leaves the timer on, a deadline that it has set raises the
\* pending bit, unless the kernel sets another one.
DeadlineComes ==
  \A d \in Times :
    (sstc /\ counter /\ stimecmp = d) ~> (stip \/ ~sstc \/ ~counter \/ stimecmp # d)
=============================================================================
