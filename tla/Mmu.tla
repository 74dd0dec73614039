-------------------------------- MODULE Mmu --------------------------------
(***************************************************************************)
(* Address translation, src/mmu.c: the Sv39 walk, the TLB before it, and   *)
(* get_pa, which every fetch, load and store calls, for one hart and a     *)
(* kernel that edits page tables, switches between them and fences.        *)
(*                                                                         *)
(* Addresses are page numbers.  A virtual page is the tuple of its indices *)
(* into the tables, one for each level.  cpu->asid is 0 for good (nothing  *)
(* calls csr_write_satp), so tags carry no ASID; cpu->sum and cpu->mxr are *)
(* never written either.  The A and D bits decide nothing, and bare mode   *)
(* (the address is returned) is left by the boot code: both are left out.  *)
(***************************************************************************)
EXTENDS Integers, FiniteSets

CONSTANTS
  Levels,      \* SV39_LEVELS
  Fanout,      \* entries of a page table
  TlbSize,     \* TLB_SIZE
  LastPage,    \* the last page that phys_ok accepts
  Tables,      \* the pages that hold page tables
  Ptes,        \* what the kernel writes into them
  Used,        \* the virtual pages that are accessed
  Asids,       \* the ASIDs the kernel writes to satp
  Superpages,  \* whether it maps superpages
  MaxEdits     \* bound: changes of tables or satp between two fences

Level   == 0 .. Levels - 1
Indices == 0 .. Fanout - 1
Slots   == 0 .. TlbSize - 1
Vpns    == [Level -> Indices]
Perms   == {"R", "W", "X", "U", "G"}
Accesses == {"fetch", "load", "store"}

IsLeaf(pte) == pte.perms \cap {"R", "W", "X"} # {}

ASSUME MmuConstants ==
  /\ Levels \in Nat \ {0} /\ Fanout \in Nat \ {0, 1} /\ TlbSize \in Nat \ {0}
  /\ MaxEdits \in Nat /\ LastPage \in Nat /\ Superpages \in BOOLEAN
  /\ Tables \subseteq Nat /\ Used \subseteq Vpns
  /\ Ptes \subseteq [valid : BOOLEAN, perms : SUBSET Perms, page : Nat]
  /\ \A pte \in Ptes : IsLeaf(pte) \/ pte.page \in Tables

VARIABLES
  mem,        \* the page tables
  satp,       \* csr[SATP]: its ASID and its root
  privilege,  \* 0 or 1: machine mode runs in bare mode only
  tlb,        \* cpu->tlb.entries
  age,        \* last_used, as the rank of each slot: 0 is the oldest
  edits,      \* changes of tables or satp since the last fence
  since       \* history: the leaves in force since then, by ASID and page

vars == <<mem, satp, privilege, tlb, age, edits, since>>

-----------------------------------------------------------------------------
(* sv39_translate *)

\* Where the loop is: at a table, or done with a leaf or with nothing.
Table(page) == [done |-> FALSE, level |-> 0, page |-> page, perms |-> {}]
Nothing == [done |-> TRUE, level |-> 0, page |-> 0, perms |-> {}]

\* One round of the loop: s.page is the table, i the level.
Descend(tables, s, v, i) ==
  LET pte == tables[s.page][v[i]] IN
  IF s.done THEN s
  ELSE IF ~pte.valid \/ ("W" \in pte.perms /\ "R" \notin pte.perms) THEN Nothing
  ELSE IF IsLeaf(pte) THEN [done |-> TRUE, level |-> i, page |-> pte.page, perms |-> pte.perms]
  ELSE IF i = 0 THEN Nothing
  ELSE Table(pte.page)

\* The leaf the loop stops at, or Nothing.
FoundIn(tables, root, v) ==
  LET walk[k \in 0 .. Levels] ==
        IF k = 0 THEN Table(root) ELSE Descend(tables, walk[k - 1], v, Levels - k)
  IN  walk[Levels]
Found(v) == FoundIn(mem, satp.root, v)

\* A superpage starts at a multiple of its size.
Aligned(leaf) == leaf.page % Fanout ^ leaf.level = 0

\* The address of the page: the code has only the case of level 0, and 0 for
\* the others.
PageOf(leaf) == IF leaf.level = 0 THEN leaf.page ELSE 0

\* The leaf that a walk may use.
Usable(leaf) == IF Aligned(leaf) /\ PageOf(leaf) <= LastPage THEN leaf ELSE Nothing
Leaf(v) == Usable(Found(v))

\* Its permission checks, with sum and mxr 0.
WalkAllows(perms, acc) ==
  /\ "U" \in perms <=> privilege = 0
  /\ acc = "load" => "R" \in perms
  /\ acc = "fetch" => "X" \in perms
  /\ acc = "store" => "W" \in perms

Walk(v, acc) == IF WalkAllows(Leaf(v).perms, acc) THEN PageOf(Leaf(v)) ELSE 0

-----------------------------------------------------------------------------
(* The TLB *)

Empty == [valid |-> FALSE, tag |-> CHOOSE v \in Vpns : TRUE, page |-> 0, perms |-> {}]

\* 26 of the 27 bits of the page number.
Tag(v) == [v EXCEPT ![Levels - 1] = @ % (Fanout \div 2)]

\* tlb_lookup takes the first of the slots that match.
Matching(v) == {s \in Slots : tlb[s].valid /\ tlb[s].tag = Tag(v)}
First(slots) == CHOOSE s \in slots : \A t \in slots : s <= t

\* tlb_check, written separately, with sum and mxr 0.
TlbAllows(perms, acc) ==
  /\ privilege = 0 => "U" \in perms
  /\ privilege = 1 => "U" \notin perms
  /\ acc = "fetch" => "X" \in perms
  /\ acc = "load" => "R" \in perms
  /\ acc = "store" => "W" \in perms

\* What get_pa answers: a page, or 0 after a fault.
Result(v, acc) ==
  LET slot == First(Matching(v)) IN
  IF Matching(v) = {} THEN Walk(v, acc)
  ELSE IF TlbAllows(tlb[slot].perms, acc) THEN tlb[slot].page
  ELSE 0

\* Mutant of Touch: the others do not grow older.
Touch_NoShift(slot) ==
  age' = [age EXCEPT ![slot] = @ + TlbSize - 1]

Touch(slot) ==
  age' = [s \in Slots |-> IF s = slot THEN TlbSize - 1
                          ELSE IF age[s] > age[slot] THEN age[s] - 1 ELSE age[s]]

\* The first invalid slot but slot 0, or else the least recently used one.
Victim ==
  LET invalid == {s \in Slots \ {0} : ~tlb[s].valid}
  IN  IF invalid # {} THEN First(invalid)
      ELSE CHOOSE s \in Slots : \A t \in Slots : age[s] <= age[t]

\* tlb_insert: a superpage's entry is like a page's.
Insert(v) ==
  /\ tlb' = [tlb EXCEPT ![Victim] =
               [valid |-> TRUE, tag |-> Tag(v), page |-> Leaf(v).page, perms |-> Leaf(v).perms]]
  /\ Touch(Victim)

\* Mutant of Access: a fault in the TLB leads to a walk, too.
Access_WalksOnFault(v, acc) ==
  /\ IF Matching(v) # {} /\ TlbAllows(tlb[First(Matching(v))].perms, acc)
       THEN Touch(First(Matching(v))) /\ UNCHANGED tlb
       ELSE IF WalkAllows(Leaf(v).perms, acc) THEN Insert(v)
       ELSE UNCHANGED <<tlb, age>>
  /\ UNCHANGED <<mem, satp, privilege, edits, since>>

\* get_pa.
Access(v, acc) ==
  /\ IF Matching(v) # {}
       THEN Touch(First(Matching(v))) /\ UNCHANGED tlb
       ELSE IF WalkAllows(Leaf(v).perms, acc) THEN Insert(v)
       ELSE UNCHANGED <<tlb, age>>
  /\ UNCHANGED <<mem, satp, privilege, edits, since>>

-----------------------------------------------------------------------------
(* The kernel *)

Record ==
  since' = [since EXCEPT ![satp'.asid] = [v \in Used |-> @[v] \cup {Leaf(v)'}]]

Edit ==
  /\ privilege = 1
  /\ edits < MaxEdits /\ edits' = edits + 1
  /\ Superpages \/ \A v \in Used : Found(v)'.level = 0
  /\ Record
  /\ UNCHANGED <<privilege, tlb, age>>

\* A store to a page table.
WritePte(table, i, pte) ==
  /\ mem' = [mem EXCEPT ![table][i] = pte]
  /\ UNCHANGED satp
  /\ Edit

\* exec_csr on SATP: it flushes nothing.
WriteSatp(asid, root) ==
  /\ satp' = [asid |-> asid, root |-> root]
  /\ UNCHANGED mem
  /\ Edit

\* Mutant of Sfence: slot 0 is forgotten.
Sfence_NotAll ==
  /\ privilege = 1
  /\ tlb' = [s \in Slots |-> IF s = 0 THEN tlb[0] ELSE Empty]
  /\ edits' = 0
  /\ since' = [a \in Asids |-> [v \in Used |-> IF a = satp.asid THEN {Leaf(v)} ELSE {}]]
  /\ UNCHANGED <<mem, satp, privilege, age>>

\* exec_sfencevma flushes everything, whatever its operands.
Sfence ==
  /\ privilege = 1
  /\ tlb' = [s \in Slots |-> Empty]
  /\ edits' = 0
  /\ since' = [a \in Asids |-> [v \in Used |-> IF a = satp.asid THEN {Leaf(v)} ELSE {}]]
  /\ UNCHANGED <<mem, satp, privilege, age>>

\* A trap or a return.
Enter(level) ==
  /\ privilege' = level
  /\ UNCHANGED <<mem, satp, tlb, age, edits, since>>

-----------------------------------------------------------------------------

\* The boot code has cleared the tables and turned translation on.
Init ==
  /\ mem = [t \in Tables |-> [i \in Indices |-> [valid |-> FALSE, perms |-> {}, page |-> t]]]
  /\ satp \in [asid : Asids, root : Tables]
  /\ privilege = 1
  /\ tlb = [s \in Slots |-> Empty]
  /\ age = [s \in Slots |-> s]
  /\ edits = 0
  /\ since = [a \in Asids |-> [v \in Used |-> IF a = satp.asid THEN {Leaf(v)} ELSE {}]]

\* The other entries of the tables are not looked at.
Walked == {v[l] : v \in Used, l \in Level}

Next ==
  \/ \E v \in Used, acc \in Accesses : Access(v, acc)
  \/ \E t \in Tables, i \in Walked, pte \in Ptes : WritePte(t, i, pte)
  \/ \E a \in Asids, t \in Tables : WriteSatp(a, t)
  \/ Sfence
  \/ \E level \in {0, 1} : Enter(level)

Spec == Init /\ [][Next]_vars

-----------------------------------------------------------------------------
(* Properties *)

Leaves == [done : {TRUE}, level : Level, page : Nat, perms : SUBSET Perms]

\* The variables keep their ranges.
TypeOK ==
  /\ mem \in [Tables -> [Indices -> [valid : BOOLEAN, perms : SUBSET Perms, page : Nat]]]
  /\ satp \in [asid : Asids, root : Tables]
  /\ privilege \in {0, 1}
  /\ tlb \in [Slots -> [valid : BOOLEAN, tag : Vpns, page : Nat, perms : SUBSET Perms]]
  /\ age \in [Slots -> Slots]
  /\ edits \in 0 .. MaxEdits
  /\ since \in [Asids -> [Used -> SUBSET Leaves]]

\* The lookup, which stops at the first match, misses no other: a page is in
\* one slot at most.
OneMatch == \A v \in Used : Cardinality(Matching(v)) <= 1

\* What the architecture asks of a cached translation, before and after it is
\* cached: an access to a page ends where a leaf leads that was in force for
\* this ASID since the last fence, under the permissions of that leaf and the
\* privilege of now; just after a fence there is only one.
Permitted(leaf, acc) ==
  IF /\ "U" \in leaf.perms <=> privilege = 0
     /\ [fetch |-> "X", load |-> "R", store |-> "W"][acc] \in leaf.perms
  THEN leaf.page ELSE 0
SinceLastFence ==
  \A v \in Used, acc \in Accesses :
     Result(v, acc) \in {Permitted(leaf, acc) : leaf \in since[satp.asid][v]}
=============================================================================
