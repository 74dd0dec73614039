# Verification of the RISC-V emulator

This directory is a TLA+ development of the emulator in `src/src` (C, about 7,600
lines).  It models the interrupt controller, the execution loop with the threads that
share its state, the UART, the disk, trap entry and return, address translation, the
timer, what an access reaches, and what each instruction does to the registers.
All paths below are relative to the repository root, `src/`; `plic.c:159` is
line 159 of `src/plic.c`.

## 1. The system

### 1.1 Threads

| thread | code | what it does |
|---|---|---|
| CPU | `main.c:154-192` | `while (1)`: stop if `running` is false; wait on `cpu->cond` while `halted`; fetch, decode and execute one instruction (`cpu.c:47`); let the disk progress (`virtio_blk.c:259`); take an interrupt (`trap.c:137`) |
| UART RX | `uart.c:284-328` | non-blocking read of stdin; Ctrl-D clears `cpu[0].running`, every other byte goes to `rx_buf_push` |
| UART TX | `uart.c:239-281` | waits for bytes in a ring that nothing fills |

Only `cpu[0]` is started (`MAX_CORES` is 4).  The CPU and the RX thread share
the receive ring and the UART registers (under `u->lock`), `cpu->halted` (under
`cpu->lock` when it is waited for or cleared, without it when an instruction
sets it), and, with no lock at all, `cpu->running`, `csr[MIP]` and every field of
the PLIC.

### 1.2 Components

| component | state | operations | hard part | correctness |
|---|---|---|---|---|
| PLIC `plic.c` | priority, enable, threshold, pending, claimed, current_irq; drives MEIP | set_irq, claim, complete, register reads and writes, update | called from two threads; each path has to rescan | what the hart sees is what the registers say; a claim takes it; nothing is lost |
| execution loop `main.c`, `cpu.c` | running, halted, cond/lock, cycle count | cpu_step, cpu_try_wakeup, stop, wait | lost wakeup, shutdown while asleep, devices that only progress while the CPU runs | a sleeping CPU has a reason to sleep and something wakes it; a stop stops |
| UART `uart.c` | 16550-like registers, RX ring, TX ring, IRQ latches, `u->lock` | push, pop, mmio_read, mmio_write, update_irq | two threads, a lock taken twice, level against edge interrupts | the ring is a FIFO; the DR bit and the interrupt follow the ring; a lock is given back |
| traps `trap.c`, ecall/mret/sret/csr in `instructions.c` | privilege, mstatus, sstatus, epc, cause, mip/mie, medeleg/mideleg | take_trap, exec_mret, exec_sret, exec_csr | separate storage for sstatus/mstatus; masked sources shadow others | a return undoes its trap; enabled interrupts are taken in the specified order |
| CLINT `clint.c` | msip, mtime, mtimecmp; drives MSIP/MTIP/STIP | tick, read, write, update | offsets are rebased twice; two clocks | the timer bit follows the comparison |
| virtio disk `virtio_blk.c` | rings, prev_avail, list of operations, interrupt status | mmio write, process_queue, virtio_disk_update, complete | asynchronous completion, 16-bit indices, restart of the queue | every request is completed once, in the ring, with an interrupt |
| MMU `mmu.c` | satp, TLB | translate, lookup, insert, flush | a cached translation against the walk | the TLB answers as the walk does |
| bus and memory `bus.c`, `memory.c` | region table, RAM | read, write, fetch | accesses across pages and past the end, faults that go on as address 0 | an access reaches the bytes it means |
| instructions `instructions.c`, `decode.c` | pc, registers | dispatch tables, about 120 exec functions | widths, signs, x0, what an unlisted operation does | the instruction set |
| ELF loader `elf_load.c`, `dts.c`, `trap_vector.c` | guest memory | load once before the loop starts | none: sequential, once | file format |

### 1.3 Interactions

* Device to CPU: `plic_set_irq` -> `plic_update` -> MEIP in `csr[MIP]` ->
  `cpu_try_wakeup`.  The RX thread does it while it holds `u->lock`; the disk
  does it from the CPU thread itself.
* CPU to device: `bus_read`/`bus_write` call the region's handler synchronously.
* `check_and_handle_interrupts` reads `csr[MIP]` once per instruction.
* The CLINT ticks, and disk operations age, only when an instruction executes:
  a sleeping CPU freezes both.

### 1.4 What is hard to test in it

PROJECT.json lists the hazards, each at its line, with the properties that
catch it.  In short:

* two threads and one unlocked controller: a key between any two steps of the
  CPU thread, in particular between its look at `halted` and its wait;
* a lock that is taken twice on one path and not given back on another;
* devices whose time is the instruction count, so that a CPU that waits for them
  stops them;
* level and edge mixed up: a request that is raised once, cleared by a completion
  or by a register write, and then owed to nobody;
* completions that happen long after the request, under another page table,
  in another order, after an index wrapped around;
* traps that nest, in one set of registers, around a kernel that saves them by
  hand.

## 2. Plan

| order | module | what it is | state |
|---|---|---|---|
| 1 | `Plic`, `IrqDelivery` | the controller; what it promises a hart | checked and proved |
| 2 | `CpuLoop` | the loop and the receive thread | checked, safety proved |
| 3 | `Uart`, `RxQueue` | the UART; the queue its ring is | checked, safety proved |
| 4 | `VirtioBlk`, `DiskService` | the disk; once-only service | checked, safety proved |
| 5 | `Trap`, `ContextStack` | trap entry and return; a stack of contexts | checked and proved |
| 6 | `Mmu` | the Sv39 walk, the TLB before it, and a kernel that edits tables and fences | checked, safety proved |
| 7 | `Clint` | the clock, `stimecmp`, STIP | checked, safety proved |
| 8 | `IrqRace` | the unlocked loads and stores of `plic.pending` and `csr[MIP]` on two threads | checked, safety proved |
| 9 | `Hart`, `Words`, `Isa`, `HartIsa` | every instruction; the instruction set; where they differ | checked and proved |
| 10 | `Access` | what a fetch, a load and a store reach in memory and on the bus | checked and proved |
| 11 | `Clock` | both clocks: `csr[TIME]`, ten per instruction, from which a kernel computes deadlines, and `mtime`, one per hundred, with which they are compared | to do |
| 12 | `Platform` | composition of `Plic`, `CpuLoop` and the drivers' side of `Uart`: a key reaches the guest's handler | to do |

Every safety property and refinement that a passing run checks is also a theorem (section 5); for `Trap`, `Uart` and `Mmu`, some hold under a hypothesis on the guest that is named there.
The proofs of a module are in the module named after it with `Proofs`; those of `IrqRace` and `Clint`, which are
about one register, `csr[MIP]`, are in `MipProofs`, those of `Access` in `MmuProofs`, after the walk whose
addresses it uses, and those of `CpuLoop` and `Hart`, the CPU thread's loop and the instructions it executes, in
`CpuProofs`.  So that one module can extend both of a pair, the second has names of its own for
`Init`, `Next`, `Spec` and `TypeOK` (`ClintSpec`, `BusSpec`, `HartSpec` and so on).  `LoopLemmas` has the arithmetic,
the sequences and the induction that several of them need.

Composition is by promise, and proved.  `CpuLoop`, `Uart` and `VirtioBlk` keep only two bits of the PLIC for each
source, pending and claimed.  With the registers that `plic_init` leaves, `Plic` is no more than those two bits
(`PlicBootedLine`, `PlicBootedSteps`); and each of the three modules implements `IrqDelivery` with them, as `Plic` does for
any registers (`LoopDeliversAsPromised`, `UartDeliversAsPromised`, `VirtioDeliversAsPromised`).  `IrqRace` does not implement it,
and should not: there a store of one thread takes back what another has just set.

## 3. The modules

Each definition names the function it stands for; `PROJECT.json` has the lines.
Mutants, plausible bugs of a definition, stand before it with a name that
extends its name; no specification uses them.

### 3.1 Plic

State: the arrays of `plic.h` (bitmaps as sets), plus the two things the
controller drives, `meip` (bit 11 of `csr[MIP]`) and `halted`.
Each exported function of `plic.c` is one action that ends, where the code does,
with `PlicUpdate` (the scan, `current_irq`, MEIP, `cpu_try_wakeup`).  Oddities
that are kept: the swapped arguments in `plic_set_irq_affinity`, the bound on
enable words, the threshold and claim of every context acting on hart 0, a
completion that also clears the pending bit, and a priority write that rescans
nothing.  `unseen` is a history variable: what was written since the last scan.

* `LineShowsWinner`: what hart 0 is shown is what a scan of the registers would
  find, unless a priority or `csr[MIP]` was written since.
* `ClaimTakesPresented`: the scan in `plic_claim` agrees with the one in
  `plic_update`.
* `PresentedEligible` (proved, in `PlicProofs`): even when the line is not current,
  what is shown may be shown.
* `DeliversAsPromised`: refinement of `IrqDelivery`.

### 3.2 CpuLoop

State: `running`, `halted`, the condition variable (`signalled`), a program counter
for each thread (`cpc`, `rpc`), the PLIC's two bits of the two sources, and the
age of one disk operation, and the holder of the UART's lock.  The CPU thread's iteration is `Top` (the running
check), `Gate` (the check of `halted` under the lock, and the wait), `Return` from the
wait, `Execute` (one instruction of an arbitrary guest) and `Devices`
(`virtio_disk_update`).  The receive thread is `Key`, `CtrlD`, `Push`
(`rx_buf_push` up to the pending bit) and `Wake` (`cpu_try_wakeup`, and the unlock).

The lock is what can stop either thread for good.  `Push` waits for it and `Wake` gives it back; an
instruction that accesses the UART begins with `Enter`.  A load of DLL returns with the
lock held (`ReadDll`, `uart.c:342`), and a load of RBR takes it twice (`uart.c:345`, then `uart.c:199`).  As in
`Uart`, `relocks` says whether the C library lets a thread do that; with glibc it does not, and `Block` is
that load, or any access after one of DLL: the CPU thread never leaves it, and no key gets in any more.
`rx_buf_push` and `plic_set_irq` between them are one step each; splitting them into
loads and stores is the matter of `IrqRace`.

* `NoLostWakeup`, `StopsPromptly`: safety of the wait and the stop; and, proved only,
  `WakesForInterrupt`: a CPU that leaves its sleep finds the line up.
* `StopsUnlessWaiting`: a stop that is asked for, by Ctrl-D or by the guest, ends the loop
  unless the CPU sleeps or blocks.  The exceptions are real: Ctrl-D clears `running` and wakes nobody
  (`uart.c:315`), a thread blocked on the lock looks at nothing, and before `cpu_init` the stop is forgotten.
* `KeyWakesSleeper`: a key typed while the CPU sleeps makes it execute again, if receive interrupts are enabled, the
  UART is not in service and the sleeper has not kept the lock.
* `DiskCompletesUnlessWaiting`: an operation in flight completes unless the CPU sleeps, blocks or has stopped.

### 3.3 Uart

State: the ring (`buf`, `head`, `tail`, `count` modulo 2^w), the LSR bits DR and OE,
IER, DLAB, the transmit latch `irq_pending`, the lock with its holder, the
receive thread between reading, pushing and raising, and the PLIC's two bits.
Each register access is an action.  Whether a second lock of
`u->lock` by the same thread blocks is left to the C library by POSIX, so
`relocks` is chosen at the start: with glibc it is FALSE, and the first load of RBR
then blocks the CPU thread for good (`uart.c:345` takes the lock that `rx_buf_pop` takes again).  `Misuse` lists
what a sane driver does not do (reading an empty ring, resetting the
transmit FIFO alone, reading DLL); each configuration says which it allows.

* `RingCoherent`, `KeepsQueue` (refinement of `RxQueue`): the ring is a bounded queue
  that keeps the newest.
* `DataReadyTells`: DR is set while there is data, so a driver that polls it misses no character.
* `OnlyResetDeceives`: the converse fails after a reset of the receive side, which leaves DR and the request
  as they were (`uart.c:506`); nothing else leaves either up with an empty ring.  (The transmit latch, which
  is never cleared, is a reason of its own for a request.)  It rests on the lock that `rx_buf_push` keeps until the request is raised.
* `KeysGetIn`: a key that was read gets in, unless the CPU thread keeps the lock.

### 3.4 VirtioBlk

State: the disk and the one-block cache, guest memory as far as the rings and
buffers go, `prev_avail`, the list `pending_ops` with what is left of each latency,
whether the installed page table maps the buffers, and the PLIC's two bits.
`ProcessQueue` is a notification, `Tick` an instruction that ages the list,
`Complete` one completion; a completion goes before the next instruction
(`Updating`).  The page table may change while operations are in flight (`SwitchTable`):
a completion reads the descriptors again through `get_pa`, and where that finds nothing
it moves no data and answers all the same (`virtio_blk.c:160`).  The driver (`Submit`, `Claim`,
`Collect`, `Leave`, `EndOfInterrupt`) is guest code and so not in `src/`; it is
the least that the device's rings require.

* `OnePlace`: a request is in exactly one of the avail ring, the list and the used
  ring, through the wrap-around of the indices.
* `CacheCoherent`: the cache is the disk.
* `ServesRequests`: refinement of `DiskService`, once-only service; with the data, if the
  driver's buffers can be reached at that moment (`Serve`, `Skip`).
* `StartedIsServed`: a started operation reaches the used ring.

### 3.5 Trap

State: `pc`, the privilege, the fields of `mstatus` and `sstatus` that traps use
(two separate registers, as in `csr[]`), the two exception pcs, the pending
bits, the enables, and the kernel's stack of saved frames.  `phase` divides an
iteration into the instruction and `check_and_handle_interrupts`.
`mFrame` and `sFrame` are history: the registers hold the only copy of
an interrupted context.  The guest is disciplined: its kernel saves a frame before it
enables interrupts or calls, restores with interrupts off and returns only to
contexts it saved, received or made; user code computes and calls.  Machine mode is left by `mret` and
never entered again by the code (calls of levels 0 and 1 go to the supervisor and
`medeleg` is not looked at), so the machine registers are the boot code's.

* `VectorLevel`: a handler runs at its vector's level.
* `FrameKept`: no interrupt overwrites the only copy of a context.
* `ResumesContexts`: refinement of `ContextStack`; every return resumes exactly
  what its trap interrupted.
* `InterruptsUser`: a user program is interrupted by a delegated external interrupt that stays pending and enabled, even if
  its kernel left SIE clear.  It can hold the interrupt off by clearing the enables, which it may:

`exec_csr` and `exec_mret` check no privilege (`instructions.c:1527`, `1128`), so any level may write the enables and
`mideleg` (`Configure`), SIE and the pending bits, and does so in the model.  What the guest must leave to its levels, since nothing
in the code guards it, are the frames (the two exception pcs and previous levels), `mstatus.MIE` and `mret`: `KeepsLevels` says that it does
(`At`), and the run and the theorems about contexts are for such a guest.

### 3.6 Mmu

State: the page tables, `satp`, the privilege, the TLB with its order of last use (`age`
ranks the slots, which is all that the counter `last_used` is compared for).  An address is the
tuple of its table indices.  `Access` is `get_pa`: a hit, which a failed
check ends (no walk follows), or a walk, whose success is inserted.  The kernel stores to
page tables, writes `satp`, which flushes nothing, and executes `sfence.vma`, which flushes everything.
`Levels`, `Fanout` and `TlbSize` are 3, 512 and 64 in the code.

* `OneMatch`: a page is in one slot at most, although the victim search begins with
  slot 1.
* `SinceLastFence`: an access ends where a leaf leads that was in force since the last
  fence, under its permissions and the privilege of now.  This is what the
  architecture promises a kernel that fences; `since` is the history it needs.

Two constants name what the code does not support.  With `Superpages` TRUE
`SinceLastFence` is violated (the walk answers 0, `mmu.c:245`, and the next access, from
the TLB, the base of the superpage), and with two `Asids` as well (`cpu->asid` is
always 0, so a tag tells no processes apart, although `mmu.c:386` says that they never
conflict).  `Used` leaves out pages that differ only in the bit that `Tag` drops.

### 3.7 Clint

State: the phase of the tick, `mtime`, the two copies of the deadline (`csr[STIMECMP]` and the
CLINT's), the enables in `menvcfg` and `mcounteren`, and STIP.  Each action is one
instruction and ends with `Retire`, the end of `cpu_step`.  `Reached` keeps the
second subtraction of the base address, so `Store` reaches no register.  `answers` is history.

* `StipLags`: STIP is what the comparison said at some moment since the last update.
* `DeadlineComes`: a deadline that is left alone raises STIP.

### 3.8 Hart, Isa, HartIsa

`Hart` has the registers, one CSR, a small RAM and pc, and one step for each instruction: the
dispatch of `decode.c` to an operator for each exec function (`exec_op`, `exec_load`, `exec_c1`, ...),
which is as wide, as signed and as careful about x0 as its function.  Widths are scaled: a
`Byte` of `ByteBits` bits (8, and for TLC 1), half, word and dword of two, four and eight of them, so that TLC
reaches every border.  `ByteBits` is a power of two because the shift amounts are taken from a bit field.  The registers, the RAM and
the widths of the immediates (12, 13, 21, 6, 12, 9) are constants, too.  An instruction is its operation, its
register fields and the immediate that the function puts together; the bit fields are
not modelled, and `Encodable` says how large they can be.  `And`, `Or` and `Xor` (`Words`) are defined by their bits.  `status` says how the hart may leave the loop: halted, stopped, or crashed in a
null handler.

`Isa` states the instruction set without looking at `instructions.c`: a compressed instruction
expands to a full one, registers are signed numbers, a result is a number of which a register keeps the low
bits.  `HartIsa` compares.  `Excepted` is the list of the instructions that differ and of
the operands for which they do: operations no function carries out, operations carried out as another,
words that should have been sign-extended, comparisons and jumps with a wrong border, writes to x0, and reserved
encodings: `c.addi4spn` with a zero immediate is executed as an addition, except that with rd 8 it is the word of zeros, which stops
the hart (`ZeroWord`, `decode.c:204`); `c.addiw` with rd 0 is executed as the `c.jal` of 32-bit machines, and `c.ebreak` as a
`c.jalr` that stays where it is, so that both write ra (`Links`).

* `KeepsToIsa`: an instruction that is not on that list does to the whole state what the instruction
  set says, and the hart goes on.
* `EffectsConfined`: one that is on it changes no register but its destination (x0 apart, and ra for the two
  of `Links`) and no byte of memory that it does not address.

### 3.9 IrqRace

State: one word of pending bits, the claimed bits, MEIP and STIP, and for each thread the
place it has come to in a call, the copy it has loaded and the result of its scan.  The calls
are the receive thread's raise and the CPU thread's raise (disk), lowering (last
character read), claim, completion and tick.  Each `|=` and `&=` is a load (`LoadPending`,
`LoadMip`) and a store (`StorePending`, `StoreMip`); the scan of `plic_update` is one step.
`uart->lock` excludes a key from the lowering only.  History: `safe`, the requests that the other
thread was not about to store over; `alone`, whether a call has overlapped none; `clean`,
whether an update has run alone since the last overlap.

* `RequestsKept`: a safe request stays pending until it is claimed, completed or withdrawn.  The
  others may be lost: a disk request that is lost is never raised again.
* `MeipRecovers`: what an overlap leaves in MEIP is put right by the next update that runs alone.
* `StipFollows`: a deadline that stays passed is shown for good, although an update on
  the receive thread may undo a tick.

### 3.10 Access

State: the frame of each virtual page and whether it may be written, RAM, whether the device was
reached, the last access and its answer.  `get_pa` translates the first byte only; `Fetch` goes to
`memory_read`, which turns any address below RAM into an offset into RAM (a fetch that faults reads
the start of RAM), `Load` and `Store` to the bus, which picks the region by the first byte.  A store to
no region halts the hart, and a `Wake` lets it go on with the next instruction (`bus.c:70`).

* `ReachesItsBytes`: an access all of whose bytes are in RAM reaches those and no others if it
  stays in its page or the frames of its two pages adjoin, and only then; a store that faults writes nothing, and a fetch that
  faults answers the start of RAM.

## 4. The runs

| run | shows | bounds and why they are enough |
|---|---|---|
| `plic` | 3.1 holds | three sources, so that a claim leaves two to choose between with a tie and without; three priority levels: below, at and above a threshold; a word of four sources so that words are distinct from their contents; one hart (only hart 0 executes) |
| `loop` | 3.2 holds | three keys: one that wakes, one that arrives before the wakeup is acted on, one after; a latency of three instructions, longer than a halt and its wakeup; both kinds of lock |
| `loop_wfi` | finding: WFI with an interrupt up, or with only the disk to wait for, does not end | one key |
| `uart` | 3.3 holds | a ring of two and three keys: overrun, wrap-around of both indices, drop of the oldest; both kinds of lock; counter modulo 4 > 2; the guest may read DLL, so that a kept lock occurs |
| `virtio` | 3.4 holds | two heads fill a queue of two; indices modulo four, twice the queue, wrap around repeatedly; two blocks and two values tell a stale cache and a swapped buffer; two instructions of latency order operations of different notifications |
| `virtio_lost` | finding: a completion while the driver leaves its handler is not announced | same |
| `trap` | 3.5 holds | two places tell a right return address from a wrong one, an odd one reaches the refusal of `sret`; one saved frame, so that a trap nests in a handler that has saved; three delegation set-ups: all, none, mixed |
| `mmu` | 3.6 holds | two levels of two tables, either of which may be the root; two slots for four pages, so that entries are evicted; a leaf for the supervisor, one for programs, a global one beyond the end of memory; two edits between fences: one to change a cached leaf, one to change it back or to switch tables |
| `clint` | 3.7 holds | three instructions to a tick, so that a write falls right before, at and after one; times up to 3, above which a later clock compares alike |
| `hart` | 3.8 holds | a byte of one bit, so that a dword of eight bits has every border among 14 values for each of two registers; each operation with the immediates that reach sign, overflow and misalignment; one instruction from every start, as the properties are about single steps |
| `race` | 3.9 holds | two keys and two disk operations: one to meet the other thread's call, one to come after it; no bound on ticks, claims, completions and reads |
| `access` | 3.10 holds | two pages of eight bytes over two frames, a device and nothing: every size at every place, crossing into an adjoining frame, another one, the device and the end of RAM; two accesses, so that one reads what another stored |

`CHECK_DEADLOCK FALSE` stands where the system may stop: the loop may exit (or
sleep with no keys left), a UART whose CPU thread is blocked accepts nothing once
all keys are typed, and `hart` and `access` end after their bounded number of steps.

### 4.1 Fairness

* `CpuLoop`: weak fairness of each thread's own steps while it has one: a thread that waits for a lock that is
  never given back has none.  A wait that was signalled
  returns (`signalled /\ Return`); a spurious return is possible and never
  assumed.  Nobody has to type.  The CPU thread holds the lock within one step unless it keeps it, as in `Uart`.
* `Uart`: weak fairness of the receive thread's steps and of
  `uart_update_irq` once entered.  Nothing of the guest is fair.  The CPU thread holds the lock
  within one step unless it keeps it for good, so the lock is never
  taken and freed for ever under the waiting receive thread.
* `VirtioBlk`: weak fairness of `Tick \/ Complete`: the CPU executes.  That it may
  sleep instead is the matter of `CpuLoop` (`loop_wfi`).
* `IrqRace`: weak fairness of each thread's progress within a call, and strong fairness of the tick:
  every hundredth instruction ticks, whatever the calls between.  Nothing else of the guest and no key is fair.
* `Clint`: weak fairness of the next instruction, as for `VirtioBlk`.
* `Trap`: weak fairness of the instruction and of the check that follows it: the
  loop goes on while it is not halted.  Lines and ticks are not fair.

## 5. What is proved

All with TLAPS, for all values of the constants within the named assumptions.

| theorem | of | statement |
|---|---|---|
| `ScanFindsBest` | `PlicProofs` | the scan returns the best candidate, for any number of sources |
| `PlicTypeCorrect`, `LineIsCurrent`, `PresentedIsEligible` | | `[]TypeOK`, `[]LineShowsWinner`, `[]PresentedEligible` |
| `ClaimIsWhatWasPresented` | | `ClaimTakesPresented` |
| `PlicImplementsDelivery` | | `Plic` refines `IrqDelivery` |
| `PlicBootedLine`, `PlicBootedSteps` | | with the registers of `plic_init`, `Plic` is a pending and a claimed bit for each source |
| `LoopDeliversAsPromised`, `UartDeliversAsPromised`, `VirtioDeliversAsPromised` | `CpuProofs`, `UartProofs`, `VirtioBlkProofs` | the two bits that `CpuLoop`, `Uart` and `VirtioBlk` keep refine `IrqDelivery` |
| `LoopTypeCorrect`, `LoopLosesNoWakeup`, `LoopStopsPromptly`, `LoopWakesForInterrupt` | `CpuProofs` | the safety properties of 3.2 |
| `HartTypeCorrect` | `CpuProofs` | `[]HartTypeOK` |
| `HartKeepsToIsa`, `HartEffectsConfined` | | the two properties of 3.8, for bytes of any power of two of bits, every value of every register, any memory and program |
| `TrapTypeCorrect` | `TrapProofs` | `[]TypeOK`; no step invents the level 2 |
| `TrapVectorLevel`, `TrapFrameKept`, `TrapResumesContexts` | | the safety properties of 3.5, and the refinement of `ContextStack`, when `KeepsLevels /\ 3 \notin SieLevels` |
| `ClintTypeCorrect`, `ClintStipLags` | `MipProofs` | `[]ClintTypeOK`, `[]StipLags`, for any period |
| `RaceTypeCorrect`, `RaceKeepsRequests`, `RaceMeipRecovers` | | `[]TypeOK`, `[]RequestsKept`, `[]MeipRecovers`, for any number of keys and operations |
| `UartTypeCorrect`, `UartDataReadyTells`, `UartOnlyResetDeceives` | `UartProofs` | `[]TypeOK`, `[]DataReadyTells`, `OnlyResetDeceives`, for every guest and any size of ring and counter |
| `UartRingCoherent`, `UartKeepsQueue` | | `[]RingCoherent` and the refinement of `RxQueue`, for a guest that is `Disciplined` |
| `VirtioTypeCorrect`, `VirtioOnePlace`, `VirtioCacheCoherent` | `VirtioBlkProofs` | `[]TypeOK`, `[]OnePlace`, `[]CacheCoherent`, for any number of requests, any size of queue, indices of any width that is a multiple of it, and any latency |
| `VirtioServesRequests` | | `VirtioBlk` refines `DiskService` |
| `MmuTypeCorrect`, `MmuOneMatch` | `MmuProofs` | `[]TypeOK`, `[]OneMatch`, for tables of any depth and width and a TLB of any size |
| `MmuSinceLastFence` | | `[]SinceLastFence`, for a guest that is `Plain` |
| `BusReachesItsBytes` | | `ReachesItsBytes` of `Access`, for any mapping, any memory and any size of page that is a multiple of 8 |

How they go:

* *Scan.* The loop is a recursive function, and the induction theorems of the library
  are out of the prover's reach, so `LoopLemmas` proves induction over a
  counter from the finiteness of intervals, and that such a function exists.
  The loop invariant is "the best of the first i candidates".
* *Plic.* The invariant is the conjunction of the three state properties: the line is
  current only because the presented source stays eligible while
  priorities change unseen (`Undisturbed`, `PlicUpdateEffect`).
* *CpuLoop.* None of the four is inductive alone.  `TypeOK` bounds the age of the disk
  operation because an overdue one is looked at before the next instruction
  (`DueIsSeen`); `WakesForInterrupt` needs that a sleeper whose `halted` was
  cleared has the line up (`WokenForInterrupt`); `StopsPromptly` needs that the one
  late instruction is followed by the check (`LateStepIsLast`).
* *Trap.* `TrapInv` is `TypeOK /\ FramesMasked /\ FramesLevelled`: while registers
  hold a frame interrupts are off at that level, and every saved, held or running
  context at a vector has the vector's level.  The refinement then has one lemma for each way a step changes
  the stack: it stays, it is pushed, popped, or a context is slipped under the top.
* *Clint.* Each of the two is inductive over `Retire`, of which every instruction is an
  instance (`StepRetires`).
* *IrqRace.*  A request is kept because a thread that is about to store knows: its copy holds every
  safe request but the one it raises, and what it clears is not safe (`Spares`).  MEIP recovers because
  a call that has run alone still sees what it saw (`Solitary`, `Knows`), and because while the past is clean
  every call runs alone.
* *Uart.*  `Pushing` (between push and interrupt the lock is the receive thread's and the ring is not empty) gives
  `OnlyResetDeceives`: no load or reset comes between a character and its request.  The refinement rests on four facts about sequences read off a ring of any size (`RingIsSeq`,
  `RingAppend`, `RingTail`, `RingEmpty`) and one about indices modulo that size (`HeadSteps`).
* *Mmu.*  The walk is a loop, too (`WalkUnfolds`, `FoundTyped`): because every pointer in a table leads to a
  table (`Wired`) it ends at a leaf or at nothing within `Levels` rounds.  `OneMatch` follows from `Distinct`: an
  entry is inserted only when none has its tag.  `SinceLastFence` needs two more conjuncts: the leaf of now is among those in
  force (`Current`), and whatever is cached was (`Cached`).
* *VirtioBlk.*  `OnePlace` counts ring entries, which is no help to a prover: the invariant says instead that the
  entries of each ring, told apart by their indices modulo `IdxMod` and by their slots modulo `QueueNum`,
  hold different heads (`Spread`), and that no head is in two of the available ring, the list of operations and the
  used ring (`Apart`).  Division with remainder (`Division`, `Turn`) gives that two indices less than a queue
  apart have different slots (`SlotsDiffer`), and with it what each ring holds after an append or a removal
  (`RingAppend`, `RingTail`).  `Apart` gives `OnePlace`, by counting once (`Sizes`).  In the refinement a completion is the abstract `Serve`
  or `Skip`, and `CacheCoherent` is what makes the block that `Load` takes from the cache the block of the disk
  (`CompleteData`).  Everything else the device does maps to a stutter.
* *Access.*  The names that `Access` gives to bytes are all different (`Traced`), so an answer is right only if it was read
  from the right bytes.  The bytes an access means are two rows, one in each page (`PageByPage`); they
  are the row that memory.c reaches only if the second frame follows the first (`Gapless`), because
  the second row begins at a multiple of `PageSize`, fewer than `PageSize` bytes away.

* *Hart.*  The invariant is `Typed`: registers, memory and pc are functions into fields of their widths.  Every lemma
  on an instruction proves `Good` of it: the state stays `Typed`, what it changes is `Confined`, and it `Keeps` to
  `Isa` unless `Excepted`.  There is one lemma for each group of functions that differ only in the operation
  (`FullSums`, `FullDiv`, `FullLoads`, `FullCsr`, `ShortSums`, ...), on four lemmas that say what is enough for
  a step that changes a register (`WriteOne`, `Computes`), the pc (`ChangesOne`) or memory (`ChangesMemory`).
  A compressed instruction is first shown to expand to the full one that its case in `exec_c0`, `exec_c1` or `exec_c2` imitates (`ExpandShort`).
  Below these are facts on words.  C computes modulo a power of two and `Isa` with signed numbers, so results are compared by
  their low bits (`Same`): sums and products of numbers with the same low bits have the same low bits (`SameLowBits`), and so has the sign extension
  (`SignBits`); `LowBits` tells when a number is its own field.  A memory row and a bitwise result are both a `Total` of digits, of which
  `DigitsBelow` bounds the width and `ValueOfBits` says that the bits of a word add up to it; hence
  `AndComplement`, on which `csrrc` rests.
* *Composition.*  `PlicBootedSteps` takes each action of `Plic` under the registers of `plic_init` (`Booted`) and finds
  the step of two bits it makes; the line is up exactly if one of them waits (`PlicBootedLine`), because there every priority
  is above the threshold and the scan loses nobody.  The three other theorems map each action of their module to a raise, a claim,
  a completion or a stutter of `IrqDelivery`.

*The hypothesis `KeepsLevels /\ 3 \notin SieLevels`.*  SIE of `sstatus` is not set in machine mode
(`SieLevels` is the set of levels at which the guest writes it).  If it were, an interrupt delegated to the supervisor
would be taken in machine mode by `take_smode_trap`, which records any level but 1 as
user level, and its `sret` would resume machine code as a user program:
with `SieLevels = {0, 1, 3}` TLC finds `ResumesContexts` violated.  `KeepsLevels` is 3.5's: a program that wrote `sepc` or
executed `mret` would end in a context nobody saved, and the code does not stop it.

*The hypothesis `Disciplined`.*  The guest neither reads RBR of an empty ring nor resets the transmit
side alone; each of the two breaks the agreement of the counters for good (`rx_buf_pop` pops an empty ring like
any other, `uart.c:203`, and `uart.c:513` sets `rx_tail`).

*The hypothesis `Plain`.*  No superpages, one ASID, and no two pages in use that differ only in the bit that
`Tag` drops; 3.6 says what happens without the first two, and the third would let one page answer for the other.

### Only model-checked

Liveness (`StopsUnlessWaiting`, `KeyWakesSleeper`, `DiskCompletesUnlessWaiting`, `KeysGetIn`, `StartedIsServed`,
`InterruptsUser`, `DeadlineComes`, `StipFollows`): liveness under fairness is out of the prover's reach.
`Excepted` is a list of cases in which the emulator may differ; that it does differ in each is not stated, so the list could be
longer than necessary.

## 6. Findings

Two runs are meant to find a violation; `PROJECT.json` quotes the line of the
code that each contradicts:

* `virtio_lost`: a completion that comes while the driver leaves its handler is not announced (`plic.c:147`);
* `loop_wfi`: WFI does not look at what is pending, and a sleeping CPU stops the devices it waits for
  (`instructions.c:1858`).

Known besides, and described where the models meet them:

* Ctrl-D stops neither a sleeping or blocked CPU nor one that is not initialised yet (`uart.c:315`);
* a load of RBR takes `u->lock` twice (`uart.c:345`) and one of DLL keeps it (`uart.c:342`): with glibc the CPU thread
  blocks for good, and the receive thread after it (3.2, 3.3);
* no privilege is checked by `exec_csr` and `exec_mret` (`instructions.c:1527`, `1128`): `KeepsLevels` (3.5);
* `c.addiw` with rd 0 jumps and writes ra (`instructions.c:195`), `c.ebreak` writes ra and is executed for ever
  (`instructions.c:518`), and the word of zeros, an illegal instruction, stops the hart (`decode.c:204`);
* a completion under a page table without the driver's buffers moves no data and reports success (`virtio_blk.c:160`);
* a disk request that is lost between two threads is not raised again (`plic.c:82`);
* the instructions of `Excepted` (3.8), although `dts.c:226` offers rv64imafdc to the guest;
* a fetch that faults executes the start of RAM (`memory.c:38`), an access across a page boundary goes on in the next
  frame (`decode.c:196`);
* a priority write takes effect only at the next rescan (`plic.c:263`): `unseen` in
  `LineShowsWinner`;
* an illegal access halts the CPU for good in intent, but shares its flag with WFI and is
  undone by the next interrupt (`bus.c:70`);
* in machine mode a pending external interrupt that is masked hides the timer and software
  interrupts (`trap.c:169`);
* a reset of the transmit FIFO sets `rx_tail` (`uart.c:513`): `Misuse`;
* a reset of the receive FIFO leaves DR set with an empty ring (`uart.c:506`);
* `irq_pending` of the UART is never cleared (`uart.c:106`);
* `uart_update_irq` drives the request from that latch alone (`uart.c:845`), so data in the ring
  goes unannounced after a store to IER or MCR or a completion, until the next key,
  although `uart.c:187` says that data raises an interrupt for as long as it is there;
* superpages, ASIDs and bit 38 of an address (3.6), and a page fault takes no trap:
  `get_pa` answers 0 and nothing reads the fault record (`mmu.c:550`);
* `cpu->sum` and `cpu->mxr` are never written, so the bits of `sstatus` have no effect;
* no store to the CLINT reaches a register (`clint.c:83`), and `rdtime` shows a clock that runs
  a thousand times as fast as the one deadlines are compared with (`cpu.c:76`).

## 7. What is not modelled

* ELF loading, the device tree and the trap vector helper: they run once before the loop, or never, and only
  prepare data.
* Of the instructions: how fields and immediates are put together from bits, floating-point arithmetic (no function
  computes any), and signed overflow as undefined behaviour, which is taken to wrap.
* Of the bus and memory: loading a file, `memory_write`, the bounds of the real regions.
* Of the MMU: bare mode, the A and D bits, the Sv32 functions, which nothing calls.  Of the CLINT:
  `mtimecmp` and `msip`, which no decision uses, and `csr[TIME]`.  In `Trap` the timer bit changes
  at random after an instruction, in `VirtioBlk` a page table maps the buffers or does not.
* Of the races: the scan of `plic_update` is one step, and the guest's own writes of `csr[MIP]` and of the PLIC's other registers
  do not occur in `IrqRace`.  Every other module has an operation on them as one step.
* The transmit side of the UART (its ring is never filled), functions that nothing calls, harts
  other than 0 (never started).
* A second set-up of the virtio queue (the static `prev_avail` survives it) and
  requests at odd sectors.
