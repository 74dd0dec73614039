------------------------------- MODULE Access -------------------------------
(***************************************************************************)
(* What an instruction fetch, a load and a store reach: get_pa for the     *)
(* first byte, then memory.c for a fetch and the bus for the rest. The     *)
(* translation itself is module Mmu; here a virtual page has a frame or    *)
(* none, and may be written or not. A fault is address 0, which no caller  *)
(* tests. The content of a byte is a name for where it comes from.         *)
(***************************************************************************)
EXTENDS Integers, Sequences

CONSTANTS PageSize,     \* bytes of a page, a multiple of 8
          Pages,        \* virtual pages 0 .. Pages - 1
          Frames,       \* frames of RAM
          MaxAccesses   \* accesses in a run

ASSUME AccessConstants ==
  /\ PageSize \in Nat \ {0} /\ PageSize % 8 = 0
  /\ Pages \in Nat \ {0} /\ Frames \in Nat \ {0} /\ MaxAccesses \in Nat

(* Physical pages: nothing answers at page 0, a device has page 1 and RAM  *)
(* begins at page 2 (MEMORY_BASE).                                         *)
DeviceBase == PageSize
RamBase == 2 * PageSize
RamSize == Frames * PageSize
RamPages == 2 .. Frames + 1
Fault == 0

VARIABLES
  map,       \* the frame of each virtual page, or 0
  writable,  \* the pages a store may use
  ram,       \* by offset from MEMORY_BASE
  dev,       \* whether a store has reached the device
  got,       \* what the last fetch or load answered
  last,      \* the last access
  halted, accesses

busVars == <<map, writable, ram, dev, got, last, halted, accesses>>

Vas == 0 .. Pages * PageSize - 1
None == [kind |-> "none", va |-> 0, size |-> 0]

(* A byte is the access that stored it and its place there: AtStart for    *)
(* what RAM holds at first. The others are answers RAM did not give.       *)
AtStart == -1
Zeros(n) == [k \in 1 .. n |-> <<-2, 0>>]
DeviceAnswer == << <<-3, 0>> >>
Unanswered == << <<-4, 0>> >>
Bytes(o, n) == [k \in 1 .. n |-> ram[o + k - 1]]
-----------------------------------------------------------------------------
get_pa(va, kind) ==
  LET page == va \div PageSize
  IN IF page \notin DOMAIN map \/ map[page] = 0 \/ (kind = "store" /\ page \notin writable)
     THEN Fault
     ELSE map[page] * PageSize + (va % PageSize)

(* memory_read, of fetches: an address below RAM becomes an offset into    *)
(* RAM all the same, the one from the base of its device window or 0.      *)
Offset(pa) ==
  IF pa >= RamBase THEN pa - RamBase ELSE IF pa >= DeviceBase THEN pa - DeviceBase ELSE 0
PastRam(pa, n) == Offset(pa) + n > RamSize
memory_read(pa, n) == IF PastRam(pa, n) THEN Zeros(n) ELSE Bytes(Offset(pa), n)

(* bus_read: the region decides by the first byte; RAM answers 0 to a read *)
(* past its end, and an address of no region leaves the result undefined.  *)
InRam(pa) == pa \in RamBase .. RamBase + RamSize - 1
InDevice(pa) == pa \in DeviceBase .. RamBase - 1
bus_read(pa, n) ==
  IF InRam(pa) THEN IF pa - RamBase + n > RamSize THEN Zeros(n) ELSE Bytes(pa - RamBase, n)
  ELSE IF InDevice(pa) THEN DeviceAnswer ELSE Unanswered

(* ram_write drops a store past the end of RAM. *)
\* Mutant: one byte too many.
ram_write_OneMore(o, n, tag) ==
  ram' = IF o + n > RamSize THEN ram
         ELSE [b \in DOMAIN ram |-> IF b \in o .. o + n THEN <<tag, b - o>> ELSE ram[b]]

ram_write(o, n, tag) ==
  ram' = IF o + n > RamSize THEN ram
         ELSE [b \in DOMAIN ram |-> IF b \in o .. o + n - 1 THEN <<tag, b - o>> ELSE ram[b]]

(* bus_write halts the hart at an address of no region. *)
bus_write(pa, n, tag) ==
  IF InRam(pa) THEN ram_write(pa - RamBase, n, tag) /\ UNCHANGED <<dev, halted>>
  ELSE IF InDevice(pa) THEN dev' = TRUE /\ UNCHANGED <<ram, halted>>
  ELSE halted' = TRUE /\ UNCHANGED <<ram, dev>>

-----------------------------------------------------------------------------
Begin(kind, va, size) ==
  /\ ~halted /\ accesses < MaxAccesses
  /\ accesses' = accesses + 1
  /\ last' = [kind |-> kind, va |-> va, size |-> size]
  /\ UNCHANGED <<map, writable>>

(* fetch_instruction: two bytes, and when they say so the two that follow  *)
(* them in physical memory. A read past the end of RAM halts the hart and  *)
(* is 0, which says that no bytes follow.                                  *)
Fetch(va, size) ==
  LET pa == get_pa(va, "fetch")
  IN /\ va % 2 = 0 /\ size \in {2, 4}
     /\ size = 4 => ~PastRam(pa, 2)
     /\ Begin("fetch", va, size)
     /\ halted' = PastRam(pa + size - 2, 2)
     /\ got' = IF size = 2 THEN memory_read(pa, 2) ELSE memory_read(pa, 2) \o memory_read(pa + 2, 2)
     /\ UNCHANGED <<ram, dev>>

Load(va, size) ==
  /\ Begin("load", va, size)
  /\ got' = bus_read(get_pa(va, "load"), size)
  /\ UNCHANGED <<ram, dev, halted>>

Store(va, size) ==
  /\ Begin("store", va, size)
  /\ bus_write(get_pa(va, "store"), size, accesses)
  /\ UNCHANGED got

(* cpu_try_wakeup, for a request of any device: the hart goes on after the *)
(* access that halted it.                                                 *)
Wake == halted /\ halted' = FALSE /\ UNCHANGED <<map, writable, ram, dev, got, last, accesses>>

BusInit ==
  /\ map \in [0 .. Pages - 1 -> 0 .. Frames + 1]
  /\ writable \in SUBSET (0 .. Pages - 1)
  /\ ram = [o \in 0 .. RamSize - 1 |-> <<AtStart, o>>]
  /\ dev = FALSE /\ got = Zeros(0) /\ last = None /\ halted = FALSE /\ accesses = 0

BusNext ==
  \/ \E va \in Vas, size \in {1, 2, 4, 8} : Fetch(va, size) \/ Load(va, size) \/ Store(va, size)
  \/ Wake
BusSpec == BusInit /\ [][BusNext]_busVars
-----------------------------------------------------------------------------
(* The bytes an access means: each byte in the frame of its own page.      *)
Meant(a) == [k \in 1 .. a.size |-> get_pa(a.va + k - 1, a.kind)]
ToRam(a) == \A k \in 1 .. a.size : InRam(Meant(a)[k])
OnePage(a) == (a.va % PageSize) + a.size <= PageSize
Adjoining(a) ==
  \A k \in 1 .. a.size : Meant(a)[k] = Meant(a)[1] + k - 1

(* An access all of whose bytes are in RAM reads or writes those bytes and *)
(* no others if it stays in its page; if it does not, exactly if the       *)
(* frames of the two pages adjoin (decode.c:196, memory.c:117, bus.c:58).  *)
(* A store that faults, which mmu.c:543 hands on as address 0, writes      *)
(* nothing; a fetch that faults answers the start of RAM (mmu.c:550).      *)
Reaches ==
  accesses' # accesses =>
    LET a == last'
        means == { Meant(a)[k] - RamBase : k \in 1 .. a.size }
        right == IF a.kind = "store"
                 THEN \A o \in DOMAIN ram : ram'[o] # ram[o] <=> o \in means
                 ELSE got' = [k \in 1 .. a.size |-> ram[Meant(a)[k] - RamBase]]
    IN /\ ToRam(a) => (right <=> OnePage(a) \/ Adjoining(a))
       /\ get_pa(a.va, a.kind) = Fault =>
            /\ UNCHANGED <<ram, dev>>
            /\ a.kind = "fetch" => got'[1] = ram[0] /\ got'[2] = ram[1]
ReachesItsBytes == [][Reaches]_busVars
=============================================================================
