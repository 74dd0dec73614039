------------------------------ MODULE MmuProofs -----------------------------
(***************************************************************************)
(* What the walk and the TLB keep for page tables of any depth and width   *)
(* and a TLB of any size: the type invariant, OneMatch and, for a kernel   *)
(* that maps no superpages and uses one address space, SinceLastFence.     *)
(* Then what an access reaches with the address that the walk answers.     *)
(***************************************************************************)
EXTENDS Mmu, Access, LoopLemmas, SequenceTheorems

Pte == [valid : BOOLEAN, perms : SUBSET Perms, page : Nat]
Memory == [Tables -> [Indices -> Pte]]

(* A table that is not a leaf leads to a table. *)
Wired(m) == \A t \in Tables, i \in Indices : m[t][i].valid => IsLeaf(m[t][i]) \/ m[t][i].page \in Tables

(* A state of the loop of sv39_translate. *)
WalkState ==
  {s \in [done : BOOLEAN, level : Level, page : Nat, perms : SUBSET Perms] :
     s.done \/ s.page \in Tables}

LEMMA Constructors ==
  /\ Nothing \in Leaves /\ Nothing \in WalkState
  /\ \A t \in Tables : Table(t) \in WalkState /\ ~Table(t).done
<1>1. 0 \in Level /\ Tables \subseteq Nat
  BY MmuConstants DEF Level
<1>2. Nothing \in Leaves /\ Nothing \in WalkState
  BY <1>1 DEF Nothing, Leaves, WalkState
<1>3. ASSUME NEW t \in Tables PROVE Table(t) \in WalkState /\ ~Table(t).done
  BY <1>1 DEF Table, WalkState
<1> QED BY <1>2, <1>3

(* One round keeps to such states, and the last one ends the walk. *)
LEMMA DescendTyped ==
  ASSUME NEW m \in Memory, Wired(m), NEW v \in Vpns, NEW i \in Level, NEW s \in WalkState
  PROVE  /\ Descend(m, s, v, i) \in WalkState
         /\ i = 0 => Descend(m, s, v, i).done
<1>1. CASE s.done
  BY <1>1 DEF Descend
<1>2. CASE ~s.done
  <2> DEFINE pte == m[s.page][v[i]]
  <2>1. s.page \in Tables /\ v[i] \in Indices
    BY <1>2 DEF WalkState, Vpns
  <2>2. pte \in Pte /\ (pte.valid => IsLeaf(pte) \/ pte.page \in Tables)
    BY <2>1 DEF Memory, Wired
  <2> HIDE DEF pte
  <2>3. CASE ~pte.valid \/ ("W" \in pte.perms /\ "R" \notin pte.perms)
    <3>1. Descend(m, s, v, i) = Nothing
      BY <1>2, <2>3 DEF Descend, pte
    <3> QED BY <3>1, Constructors DEF Nothing
  <2>4. CASE ~(~pte.valid \/ ("W" \in pte.perms /\ "R" \notin pte.perms)) /\ IsLeaf(pte)
    <3>1. Descend(m, s, v, i) = [done |-> TRUE, level |-> i, page |-> pte.page, perms |-> pte.perms]
      BY <1>2, <2>4 DEF Descend, pte
    <3>2. pte.page \in Nat /\ pte.perms \in SUBSET Perms
      BY <2>2 DEF Pte
    <3> QED BY <3>1, <3>2 DEF WalkState
  <2>5. CASE ~(~pte.valid \/ ("W" \in pte.perms /\ "R" \notin pte.perms)) /\ ~IsLeaf(pte)
    <3>1. Descend(m, s, v, i) = IF i = 0 THEN Nothing ELSE Table(pte.page)
      BY <1>2, <2>5 DEF Descend, pte
    <3> QED BY <2>2, <2>5, <3>1, Constructors DEF Nothing
  <2> QED BY <2>3, <2>4, <2>5
<1> QED BY <1>1, <1>2

(* The loop as a function of the round, and its unfolding. *)
WalkFrom(m, root, v) ==
  CHOOSE f : f = [k \in 0 .. Levels |->
                    IF k = 0 THEN Table(root) ELSE Descend(m, f[k - 1], v, Levels - k)]

LEMMA WalkUnfolds ==
  ASSUME NEW m \in Memory, Wired(m), NEW root \in Tables, NEW v \in Vpns
  PROVE  LET f == WalkFrom(m, root, v)
         IN  /\ f[0] = Table(root)
             /\ \A k \in 1 .. Levels : f[k] = Descend(m, f[k - 1], v, Levels - k)
             /\ FoundIn(m, root, v) = f[Levels]
<1> DEFINE step == [x \in WalkState \X (1 .. Levels) |-> Descend(m, x[1], v, Levels - x[2])]
           Loop(f) == f = [k \in 0 .. Levels |->
                             IF k = 0 THEN Table(root) ELSE Descend(m, f[k - 1], v, Levels - k)]
           best == CHOOSE f : Loop(f)
<1>1. Levels \in Nat \ {0} /\ \A k \in 1 .. Levels : Levels - k \in Level
  BY MmuConstants DEF Level
<1>2. step \in [WalkState \X (1 .. Levels) -> WalkState]
  BY <1>1, DescendTyped
<1>3. ASSUME NEW s \in WalkState, NEW k \in 1 .. Levels
      PROVE  step[<<s, k>>] = Descend(m, s, v, Levels - k)
  OBVIOUS
<1>4. \E f : Loop(f)
  <2> HIDE DEF step
  <2>1. PICK f : IsLoop(f, Levels, WalkState, Table(root), step)
    BY <1>1, <1>2, LoopDefined, Constructors
  <2>2. ASSUME NEW k \in 1 .. Levels PROVE f[k] = Descend(m, f[k - 1], v, Levels - k)
    <3>1. f[k] = step[<<f[k - 1], k>>] /\ f[k - 1] \in WalkState
      BY <1>1, <2>1 DEF IsLoop
    <3> QED BY <1>3, <3>1
  <2>3. Loop(f)
    BY <1>1, <2>1, <2>2 DEF IsLoop
  <2> QED BY <2>3
<1>5. Loop(best)
  BY <1>4
<1>6. best[0] = Table(root) /\ \A k \in 1 .. Levels : best[k] = Descend(m, best[k - 1], v, Levels - k)
  <2> HIDE DEF best
  <2>1. 0 \in 0 .. Levels /\ \A k \in 1 .. Levels : k \in 0 .. Levels /\ k # 0
    BY <1>1
  <2> QED BY <1>5, <2>1
<1>7. FoundIn(m, root, v) = best[Levels] /\ WalkFrom(m, root, v) = best
  BY DEF FoundIn, WalkFrom
<1> HIDE DEF best
<1> QED BY <1>6, <1>7

(* The walk ends with a leaf or with nothing, and with nothing if no entry *)
(* is valid.                                                               *)
LEMMA FoundTyped ==
  ASSUME NEW m \in Memory, Wired(m), NEW root \in Tables, NEW v \in Vpns
  PROVE  FoundIn(m, root, v) \in Leaves
<1> DEFINE f == WalkFrom(m, root, v)
           Good == {k \in 0 .. Levels : f[k] \in WalkState}
<1>1. /\ f[0] = Table(root) /\ FoundIn(m, root, v) = f[Levels]
      /\ \A k \in 1 .. Levels : f[k] = Descend(m, f[k - 1], v, Levels - k)
  BY WalkUnfolds
<1> HIDE DEF f
<1>2. Levels \in Nat \ {0} /\ \A k \in 1 .. Levels : Levels - k \in Level
  BY MmuConstants DEF Level
<1>3. 0 \in Good
  BY <1>1, <1>2, Constructors
<1>4. ASSUME NEW k \in 1 .. Levels, k - 1 \in Good PROVE k \in Good
  <2>1. k \in 0 .. Levels /\ Levels - k \in Level
    BY <1>2
  <2> QED BY <1>1, <1>4, <2>1, DescendTyped
<1> HIDE DEF Good
<1>5. 0 .. Levels \subseteq Good
  BY <1>2, <1>3, <1>4, CounterInduction
<1>6. f[Levels] \in WalkState /\ f[Levels].done
  <2>1. Levels \in 1 .. Levels /\ Levels - 1 \in 0 .. Levels /\ Levels \in 0 .. Levels
        /\ Levels - Levels = 0 /\ 0 \in Level
    BY <1>2 DEF Level
  <2>2. f[Levels - 1] \in WalkState /\ f[Levels] \in WalkState
    BY <1>5, <2>1 DEF Good
  <2>3. f[Levels] = Descend(m, f[Levels - 1], v, 0)
    BY <1>1, <2>1
  <2> QED BY <2>1, <2>2, <2>3, DescendTyped
<1> QED BY <1>1, <1>6 DEF WalkState, Leaves

LEMMA FoundNothing ==
  ASSUME NEW m \in Memory, NEW root \in Tables, NEW v \in Vpns,
         \A t \in Tables, i \in Indices : ~m[t][i].valid
  PROVE  FoundIn(m, root, v) = Nothing
<1> DEFINE f == WalkFrom(m, root, v)
           Good == {k \in 0 .. Levels : k > 0 => f[k] = Nothing}
<1>0. Wired(m)
  BY DEF Wired
<1>1. /\ f[0] = Table(root) /\ FoundIn(m, root, v) = f[Levels]
      /\ \A k \in 1 .. Levels : f[k] = Descend(m, f[k - 1], v, Levels - k)
  BY <1>0, WalkUnfolds
<1> HIDE DEF f
<1>2. Levels \in Nat \ {0} /\ \A k \in 1 .. Levels : Levels - k \in Level
  BY MmuConstants DEF Level
<1>3. 0 \in Good
  BY <1>2
<1>4. ASSUME NEW k \in 1 .. Levels, k - 1 \in Good PROVE k \in Good
  <2>1. k \in 0 .. Levels /\ Levels - k \in Level /\ k \in Nat
    BY <1>2
  <2>2. CASE k = 1
    <3>1. f[1] = Descend(m, Table(root), v, Levels - 1)
      BY <1>1, <2>2
    <3>2. ~m[root][v[Levels - 1]].valid
      BY <2>1, <2>2 DEF Vpns
    <3>3. f[1] = Nothing
      BY <3>1, <3>2 DEF Descend, Table
    <3> QED BY <2>1, <2>2, <3>3
  <2>3. CASE k # 1
    <3>1. f[k - 1] = Nothing /\ f[k] = Descend(m, f[k - 1], v, Levels - k)
      BY <1>1, <1>4, <2>1, <2>3
    <3>2. f[k] = Nothing
      BY <3>1 DEF Descend, Nothing
    <3> QED BY <2>1, <3>2
  <2> QED BY <2>2, <2>3
<1> HIDE DEF Good
<1>5. 0 .. Levels \subseteq Good
  BY <1>2, <1>3, <1>4, CounterInduction
<1>6. f[Levels] = Nothing
  <2>1. Levels \in 0 .. Levels /\ Levels > 0
    BY <1>2
  <2> QED BY <1>5, <2>1 DEF Good
<1> QED BY <1>1, <1>6

LEMMA UsableTyped == ASSUME NEW leaf \in Leaves PROVE Usable(leaf) \in Leaves
BY Constructors DEF Usable

LEMMA TagTyped == ASSUME NEW v \in Vpns PROVE Tag(v) \in Vpns
<1>1. Levels - 1 \in Level
  BY MmuConstants DEF Level
<1>2. v[Levels - 1] \in Nat
  BY <1>1 DEF Vpns, Indices
<1>3. Fanout \div 2 \in Nat /\ Fanout \div 2 > 0 /\ Fanout \div 2 <= Fanout
  BY MmuConstants, Z3
<1>4. v[Levels - 1] % (Fanout \div 2) \in Indices
  <2> DEFINE h == Fanout \div 2
             x == v[Levels - 1]
  <2>1. h \in Nat /\ h > 0 /\ h <= Fanout /\ x \in Nat
    BY <1>2, <1>3
  <2> HIDE DEF h, x
  <2>2. x % h \in Indices
    BY <2>1, MmuConstants, Z3 DEF Indices
  <2> QED BY <2>2 DEF h, x
<1> QED BY <1>1, <1>4 DEF Tag, Vpns

(* The choices that the TLB makes are slots. *)
LEMMA FirstIsOne == ASSUME NEW T \in SUBSET Slots, T # {} PROVE First(T) \in T
<1>1. T \in SUBSET Nat
  BY DEF Slots
<1>2. \E s \in T : \A t \in T : s <= t
  BY <1>1, LeastElement
<1> QED BY <1>2 DEF First

LEMMA OldestIsSlot ==
  ASSUME NEW a \in [Slots -> Slots]
  PROVE  (CHOOSE s \in Slots : \A t \in Slots : a[s] <= a[t]) \in Slots
<1> DEFINE T == {a[s] : s \in Slots}
<1>1. T \in SUBSET Nat /\ T # {}
  BY MmuConstants DEF Slots
<1>2. PICK n \in T : \A k \in T : n <= k
  BY <1>1, LeastElement
<1>3. PICK s \in Slots : a[s] = n
  OBVIOUS
<1>4. \A t \in Slots : a[s] <= a[t]
  BY <1>2, <1>3
<1> QED BY <1>4
-----------------------------------------------------------------------------
MmuInv == TypeOK /\ Wired(mem)

LEMMA LeafTyped ==
  /\ MmuInv => \A v \in Used : Found(v) \in Leaves /\ Leaf(v) \in Leaves
  /\ MmuInv' => \A v \in Used : Found(v)' \in Leaves /\ Leaf(v)' \in Leaves
<1>1. ASSUME MmuInv, NEW v \in Used PROVE Found(v) \in Leaves /\ Leaf(v) \in Leaves
  <2>1. mem \in Memory /\ Wired(mem) /\ satp.root \in Tables /\ v \in Vpns
    BY <1>1, MmuConstants DEF MmuInv, TypeOK, Memory, Pte
  <2>2. FoundIn(mem, satp.root, v) \in Leaves
    BY <2>1, FoundTyped
  <2> QED BY <2>2, UsableTyped DEF Found, Leaf
<1>2. ASSUME MmuInv', NEW v \in Used PROVE Found(v)' \in Leaves /\ Leaf(v)' \in Leaves
  <2>1. mem' \in Memory /\ Wired(mem') /\ satp'.root \in Tables /\ v \in Vpns
    BY <1>2, MmuConstants DEF MmuInv, TypeOK, Memory, Pte, Wired
  <2>2. FoundIn(mem', satp'.root, v) \in Leaves
    BY <2>1, FoundTyped
  <2> QED BY <2>2, UsableTyped DEF Found, Leaf
<1> QED BY <1>1, <1>2

LEMMA TouchTyped ==
  ASSUME age \in [Slots -> Slots], NEW slot \in Slots, Touch(slot) PROVE age' \in [Slots -> Slots]
<1>1. ASSUME NEW s \in Slots
      PROVE  (IF s = slot THEN TlbSize - 1
              ELSE IF age[s] > age[slot] THEN age[s] - 1 ELSE age[s]) \in Slots
  <2> DEFINE x == age[s]
             y == age[slot]
  <2>1. x \in 0 .. TlbSize - 1 /\ y \in 0 .. TlbSize - 1 /\ TlbSize \in Nat \ {0}
    BY MmuConstants DEF Slots
  <2> HIDE DEF x, y
  <2>2. (IF s = slot THEN TlbSize - 1 ELSE IF x > y THEN x - 1 ELSE x) \in 0 .. TlbSize - 1
    <3>1. CASE s = slot
      BY <2>1, <3>1
    <3>2. CASE s # slot /\ x > y
      BY <2>1, <3>2
    <3>3. CASE s # slot /\ ~(x > y)
      BY <2>1, <3>3
    <3> QED BY <3>1, <3>2, <3>3
  <2> QED BY <2>2 DEF Slots, x, y
<1> QED BY <1>1 DEF Touch

LEMMA InsertTyped ==
  ASSUME MmuInv, NEW v \in Used, Insert(v)
  PROVE  /\ tlb' \in [Slots -> [valid : BOOLEAN, tag : Vpns, page : Nat, perms : SUBSET Perms]]
         /\ age' \in [Slots -> Slots]
<1>1. Victim \in Slots
  <2> DEFINE invalid == {s \in Slots \ {0} : ~tlb[s].valid}
  <2>1. CASE invalid # {}
    <3>1. First(invalid) \in invalid
      BY <2>1, FirstIsOne
    <3> QED BY <2>1, <3>1 DEF Victim
  <2>2. CASE invalid = {}
    <3>1. age \in [Slots -> Slots]
      BY DEF MmuInv, TypeOK
    <3>2. Victim = CHOOSE s \in Slots : \A t \in Slots : age[s] <= age[t]
      BY <2>2 DEF Victim
    <3> QED BY <3>1, <3>2, OldestIsSlot
  <2> QED BY <2>1, <2>2
<1>2. age' \in [Slots -> Slots]
  BY <1>1, TouchTyped DEF Insert, MmuInv, TypeOK
<1>3. Leaf(v).page \in Nat /\ Leaf(v).perms \in SUBSET Perms /\ Tag(v) \in Vpns
  BY LeafTyped, TagTyped, MmuConstants DEF Leaves
<1>4. tlb' = [tlb EXCEPT ![Victim] =
               [valid |-> TRUE, tag |-> Tag(v), page |-> Leaf(v).page, perms |-> Leaf(v).perms]]
  BY DEF Insert
<1>5. tlb \in [Slots -> [valid : BOOLEAN, tag : Vpns, page : Nat, perms : SUBSET Perms]]
  BY DEF MmuInv, TypeOK
<1> QED BY <1>1, <1>2, <1>3, <1>4, <1>5

LEMMA AccessTyped ==
  ASSUME MmuInv, NEW v \in Used, NEW acc \in Accesses, Access(v, acc) PROVE MmuInv'
<1>1. UNCHANGED <<mem, satp, privilege, edits, since>>
  BY DEF Access
<1>2. /\ tlb' \in [Slots -> [valid : BOOLEAN, tag : Vpns, page : Nat, perms : SUBSET Perms]]
      /\ age' \in [Slots -> Slots]
  <2>1. CASE Matching(v) # {}
    <3>1. Matching(v) \in SUBSET Slots
      BY DEF Matching
    <3>2. First(Matching(v)) \in Slots
      BY <2>1, <3>1, FirstIsOne
    <3>3. Touch(First(Matching(v))) /\ tlb' = tlb
      BY <2>1 DEF Access
    <3> QED BY <3>2, <3>3, TouchTyped DEF MmuInv, TypeOK
  <2>2. CASE Insert(v)
    BY <2>2, InsertTyped
  <2>3. CASE UNCHANGED <<tlb, age>>
    BY <2>3 DEF MmuInv, TypeOK
  <2> QED BY <2>1, <2>2, <2>3 DEF Access
<1> QED BY <1>1, <1>2 DEF MmuInv, TypeOK, Wired

LEMMA EditTyped ==
  ASSUME MmuInv, Edit, mem' \in Memory, Wired(mem'), satp' \in [asid : Asids, root : Tables]
  PROVE  MmuInv'
<1>1. edits' \in 0 .. MaxEdits
  BY MmuConstants DEF Edit, MmuInv, TypeOK
<1>2. UNCHANGED <<privilege, tlb, age>>
  BY DEF Edit
<1>3. ASSUME NEW v \in Used PROVE Leaf(v)' \in Leaves
  <2>1. v \in Vpns /\ satp'.root \in Tables
    BY MmuConstants
  <2>2. FoundIn(mem', satp'.root, v) \in Leaves
    BY <2>1, FoundTyped
  <2> QED BY <2>2, UsableTyped DEF Leaf, Found
<1>4. since' \in [Asids -> [Used -> SUBSET Leaves]]
  <2>1. since' = [since EXCEPT ![satp'.asid] = [v \in Used |-> @[v] \cup {Leaf(v)'}]]
    BY DEF Edit, Record
  <2>2. satp'.asid \in Asids /\ since \in [Asids -> [Used -> SUBSET Leaves]]
    BY DEF MmuInv, TypeOK
  <2>3. [v \in Used |-> since[satp'.asid][v] \cup {Leaf(v)'}] \in [Used -> SUBSET Leaves]
    BY <1>3, <2>2
  <2> QED BY <2>1, <2>2, <2>3
<1> QED BY <1>1, <1>2, <1>4 DEF MmuInv, TypeOK, Memory, Pte, Wired

LEMMA SinceFence ==
  ASSUME MmuInv
  PROVE  [a \in Asids |-> [v \in Used |-> IF a = satp.asid THEN {Leaf(v)} ELSE {}]]
           \in [Asids -> [Used -> SUBSET Leaves]]
<1>1. \A v \in Used : Leaf(v) \in Leaves
  BY LeafTyped
<1> QED BY <1>1

LEMMA KernelTyped ==
  ASSUME MmuInv,
         \/ \E t \in Tables, i \in Walked, pte \in Ptes : WritePte(t, i, pte)
         \/ \E a \in Asids, t \in Tables : WriteSatp(a, t)
         \/ Sfence
         \/ \E level \in {0, 1} : Enter(level)
         \/ UNCHANGED vars
  PROVE  MmuInv'
<1>0. mem \in Memory /\ satp \in [asid : Asids, root : Tables]
  BY DEF MmuInv, TypeOK, Memory, Pte
<1>1. CASE \E t \in Tables, i \in Walked, pte \in Ptes : WritePte(t, i, pte)
  <2> PICK t \in Tables, i \in Walked, pte \in Ptes : WritePte(t, i, pte)
    BY <1>1
  <2>1. /\ pte \in Pte /\ (IsLeaf(pte) \/ pte.page \in Tables)
        /\ mem' = [mem EXCEPT ![t][i] = pte] /\ satp' = satp /\ Edit
    BY MmuConstants DEF WritePte, Pte
  <2>2. mem' \in Memory
    BY <1>0, <2>1 DEF Memory
  <2>3. ASSUME NEW u \in Tables, NEW k \in Indices
        PROVE  mem'[u][k] = mem[u][k] \/ mem'[u][k] = pte
    BY <1>0, <2>1 DEF Memory
  <2>4. Wired(mem')
    BY <2>1, <2>3 DEF MmuInv, Wired
  <2> QED BY <1>0, <2>1, <2>2, <2>4, EditTyped
<1>2. CASE \E a \in Asids, t \in Tables : WriteSatp(a, t)
  <2>1. mem' = mem /\ satp' \in [asid : Asids, root : Tables] /\ Edit
    BY <1>2 DEF WriteSatp
  <2> QED BY <1>0, <2>1, EditTyped DEF MmuInv
<1>3. CASE Sfence
  <2>1. [s \in Slots |-> Empty] \in [Slots -> [valid : BOOLEAN, tag : Vpns, page : Nat, perms : SUBSET Perms]]
    <3>1. [l \in Level |-> 0] \in Vpns
      BY MmuConstants DEF Vpns, Indices
    <3>2. (CHOOSE v \in Vpns : TRUE) \in Vpns
      BY <3>1
    <3> QED BY <3>2 DEF Empty
  <2>2. edits' \in 0 .. MaxEdits
    BY <1>3, MmuConstants DEF Sfence
  <2> QED BY <1>3, <2>1, <2>2, SinceFence DEF Sfence, MmuInv, TypeOK, Wired
<1>4. CASE \E level \in {0, 1} : Enter(level)
  BY <1>4 DEF Enter, MmuInv, TypeOK, Wired
<1>5. CASE UNCHANGED vars
  BY <1>5 DEF vars, MmuInv, TypeOK, Wired
<1> QED BY <1>1, <1>2, <1>3, <1>4, <1>5

LEMMA InitMmu == Init => MmuInv
<1> SUFFICES ASSUME Init PROVE MmuInv
  OBVIOUS
<1>1. mem \in Memory /\ \A t \in Tables, i \in Indices : ~mem[t][i].valid
  BY MmuConstants DEF Init, Memory, Pte
<1>2. Wired(mem) /\ satp \in [asid : Asids, root : Tables]
  BY <1>1 DEF Wired, Init
<1>3. ASSUME NEW v \in Used PROVE Leaf(v) \in Leaves
  <2>1. v \in Vpns /\ satp.root \in Tables
    BY <1>2, MmuConstants
  <2>2. FoundIn(mem, satp.root, v) \in Leaves
    BY <1>1, <1>2, <2>1, FoundTyped
  <2> QED BY <2>2, UsableTyped DEF Leaf, Found
<1>4. since \in [Asids -> [Used -> SUBSET Leaves]]
  BY <1>3 DEF Init
<1>5. tlb \in [Slots -> [valid : BOOLEAN, tag : Vpns, page : Nat, perms : SUBSET Perms]]
  <2>1. [l \in Level |-> 0] \in Vpns
    BY MmuConstants DEF Vpns, Indices
  <2>2. (CHOOSE v \in Vpns : TRUE) \in Vpns
    BY <2>1
  <2> QED BY <2>2 DEF Empty, Init
<1>6. privilege \in {0, 1} /\ age \in [Slots -> Slots] /\ edits \in 0 .. MaxEdits
  BY MmuConstants DEF Init
<1> QED BY <1>1, <1>2, <1>4, <1>5, <1>6 DEF MmuInv, TypeOK, Memory, Pte

LEMMA MmuInvHolds == Spec => []MmuInv
<1>1. MmuInv /\ [Next]_vars => MmuInv'
  BY AccessTyped, KernelTyped DEF Next
<1> QED BY InitMmu, <1>1, PTL DEF Spec

(* The walk's and the TLB's variables keep their ranges, for tables of any *)
(* depth and width and a TLB of any size: in particular the victim search  *)
(* always names a slot (mmu.c:112, mmu.c:360).                             *)
THEOREM MmuTypeCorrect == Spec => []TypeOK
<1>1. MmuInv => TypeOK
  BY DEF MmuInv
<1> QED BY MmuInvHolds, <1>1, PTL
-----------------------------------------------------------------------------
(* Two valid slots never have one tag, whatever the tables hold.           *)
Distinct ==
  \A s, t \in Slots : tlb[s].valid /\ tlb[t].valid /\ tlb[s].tag = tlb[t].tag => s = t

LEMMA DistinctStep == ASSUME TypeOK, Distinct, [Next]_vars PROVE Distinct'
<1>1. CASE tlb' = tlb
  BY <1>1 DEF Distinct
<1>2. CASE Sfence
  BY <1>2 DEF Sfence, Empty, Distinct
<1>3. ASSUME NEW v \in Used, Insert(v), Matching(v) = {} PROVE Distinct'
  <2>1. tlb' = [tlb EXCEPT ![Victim] =
                 [valid |-> TRUE, tag |-> Tag(v), page |-> Leaf(v).page, perms |-> Leaf(v).perms]]
    BY <1>3 DEF Insert
  <2>2. \A s \in Slots : tlb[s].valid => tlb[s].tag # Tag(v)
    BY <1>3 DEF Matching
  <2>3. \A s \in Slots : tlb'[s] = tlb[s] \/ (s = Victim /\ tlb'[s].tag = Tag(v))
    BY <2>1 DEF TypeOK
  <2> QED BY <2>2, <2>3 DEF Distinct
<1>4. ASSUME NEW v \in Used, NEW acc \in Accesses, Access(v, acc) PROVE Distinct'
  BY <1>1, <1>3, <1>4 DEF Access
<1>5. CASE \/ \E t \in Tables, i \in Walked, pte \in Ptes : WritePte(t, i, pte)
           \/ \E a \in Asids, t \in Tables : WriteSatp(a, t)
           \/ \E level \in {0, 1} : Enter(level)
           \/ UNCHANGED vars
  BY <1>1, <1>5 DEF WritePte, WriteSatp, Edit, Enter, vars
<1> QED BY <1>2, <1>4, <1>5 DEF Next

LEMMA DistinctHolds == Spec => []Distinct
<1>1. Init => Distinct
  BY DEF Init, Distinct, Empty
<1> QED BY <1>1, DistinctStep, MmuTypeCorrect, PTL DEF Spec

(* mmu.c:321: a page is in one slot at most, for any tables and any size,  *)
(* so that the lookup, which stops at the first match, misses no other.    *)
THEOREM MmuOneMatch == Spec => []OneMatch
<1>1. Distinct => OneMatch
  <2> SUFFICES ASSUME Distinct, NEW v \in Used PROVE Cardinality(Matching(v)) <= 1
    BY DEF OneMatch
  <2>1. \A s, t \in Matching(v) : s = t
    BY DEF Distinct, Matching
  <2>2. CASE Matching(v) = {}
    <3>1. Cardinality({}) = 0
      BY FS_EmptySet
    <3> QED BY <2>2, <3>1
  <2>3. ASSUME NEW s \in Matching(v) PROVE Cardinality(Matching(v)) <= 1
    <3>1. Matching(v) = {s}
      BY <2>1
    <3>2. Cardinality({s}) = 1
      BY FS_Singleton
    <3> QED BY <3>1, <3>2
  <2> QED BY <2>2, <2>3
<1> QED BY <1>1, DistinctHolds, PTL
-----------------------------------------------------------------------------
(* What the guest must keep to: pages only, one address space, and no two  *)
(* pages whose numbers the tag confuses.                                   *)
Plain ==
  /\ ~Superpages
  /\ \A a, b \in Asids : a = b
  /\ \A v, w \in Used : Tag(v) = Tag(w) => v = w

(* The leaf of now is in force, and is a page. *)
Current == \A v \in Used : Leaf(v) \in since[satp.asid][v] /\ Found(v).level = 0

(* What is cached was in force since the last fence. *)
Cached ==
  \A s \in Slots, v \in Used :
     tlb[s].valid /\ tlb[s].tag = Tag(v) =>
        \E leaf \in since[satp.asid][v] : tlb[s].page = leaf.page /\ tlb[s].perms = leaf.perms

LEMMA InitCached == Init => Current /\ Cached
<1> SUFFICES ASSUME Init PROVE Current /\ Cached
  OBVIOUS
<1>1. mem \in Memory /\ (\A t \in Tables, i \in Indices : ~mem[t][i].valid) /\ satp \in [asid : Asids, root : Tables]
  BY MmuConstants DEF Init, Memory, Pte
<1>2. ASSUME NEW v \in Used PROVE Leaf(v) \in since[satp.asid][v] /\ Found(v).level = 0
  <2>1. v \in Vpns /\ satp.root \in Tables /\ satp.asid \in Asids
    BY <1>1, MmuConstants
  <2>2. FoundIn(mem, satp.root, v) = Nothing
    BY <1>1, <2>1, FoundNothing
  <2>3. since[satp.asid][v] = {Leaf(v)}
    BY <2>1 DEF Init
  <2> QED BY <2>2, <2>3 DEF Found, Nothing
<1> QED BY <1>2 DEF Current, Cached, Init, Empty

LEMMA EditCached ==
  ASSUME Plain, MmuInv, MmuInv', Current, Cached, Edit PROVE Current' /\ Cached'
<1>1. satp'.asid = satp.asid /\ satp.asid \in Asids /\ tlb' = tlb
  BY DEF Plain, MmuInv, TypeOK, Edit
<1>2. ASSUME NEW v \in Used PROVE since'[satp.asid][v] = since[satp.asid][v] \cup {Leaf(v)'}
  <2>1. since' = [since EXCEPT ![satp.asid] = [w \in Used |-> @[w] \cup {Leaf(w)'}]]
    BY <1>1 DEF Edit, Record
  <2>2. since'[satp.asid] = [w \in Used |-> since[satp.asid][w] \cup {Leaf(w)'}]
    BY <1>1, <2>1 DEF MmuInv, TypeOK
  <2> QED BY <2>2
<1>3. \A v \in Used : Found(v)'.level = 0
  BY DEF Edit, Plain
<1>4. Current'
  BY <1>1, <1>2, <1>3 DEF Current
<1>5. Cached'
  <2> SUFFICES ASSUME NEW s \in Slots, NEW v \in Used, tlb[s].valid, tlb[s].tag = Tag(v)
               PROVE  \E leaf \in since'[satp.asid][v] : tlb[s].page = leaf.page /\ tlb[s].perms = leaf.perms
    BY <1>1 DEF Cached
  <2> QED BY <1>2 DEF Cached
<1> QED BY <1>4, <1>5

LEMMA InsertCached ==
  ASSUME Plain, MmuInv, Current, Cached, NEW v \in Used, Insert(v), UNCHANGED <<satp, since>>
  PROVE  Cached'
<1>1. tlb' = [tlb EXCEPT ![Victim] =
               [valid |-> TRUE, tag |-> Tag(v), page |-> Leaf(v).page, perms |-> Leaf(v).perms]]
  BY DEF Insert
<1> SUFFICES ASSUME NEW s \in Slots, NEW w \in Used, tlb'[s].valid, tlb'[s].tag = Tag(w)
             PROVE  \E leaf \in since[satp.asid][w] : tlb'[s].page = leaf.page /\ tlb'[s].perms = leaf.perms
  BY DEF Cached
<1>2. CASE s # Victim
  <2>1. tlb'[s] = tlb[s]
    BY <1>1, <1>2 DEF MmuInv, TypeOK
  <2> QED BY <2>1 DEF Cached
<1>3. CASE s = Victim
  <2>1. tlb'[s] = [valid |-> TRUE, tag |-> Tag(v), page |-> Leaf(v).page, perms |-> Leaf(v).perms]
    BY <1>1, <1>3 DEF MmuInv, TypeOK
  <2>2. tlb'[s].tag = Tag(v) /\ tlb'[s].page = Leaf(v).page /\ tlb'[s].perms = Leaf(v).perms
    BY <2>1
  <2>3. w = v
    BY <2>2 DEF Plain
  <2> QED BY <2>2, <2>3 DEF Current
<1> QED BY <1>2, <1>3

LEMMA StillCurrent ==
  ASSUME Current, UNCHANGED <<mem, satp, since>> PROVE Current'
<1>1. ASSUME NEW v \in Used PROVE Found(v)' = Found(v) /\ Leaf(v)' = Leaf(v)
  BY DEF Found, Leaf
<1> QED BY <1>1 DEF Current

LEMMA CachedStep ==
  ASSUME Plain, MmuInv, MmuInv', Current, Cached, [Next]_vars PROVE Current' /\ Cached'
<1>1. ASSUME UNCHANGED <<mem, satp, tlb, since>> PROVE Current' /\ Cached'
  BY <1>1, StillCurrent DEF Cached
<1>2. ASSUME NEW v \in Used, NEW acc \in Accesses, Access(v, acc) PROVE Current' /\ Cached'
  <2>1. UNCHANGED <<mem, satp, since>> /\ (Insert(v) \/ tlb' = tlb)
    BY <1>2 DEF Access
  <2> QED BY <1>1, <2>1, InsertCached, StillCurrent
<1>3. CASE Sfence
  <2>1. satp.asid \in Asids /\ UNCHANGED <<mem, satp>>
    BY <1>3 DEF Sfence, MmuInv, TypeOK
  <2>2. ASSUME NEW v \in Used PROVE Found(v)' = Found(v) /\ Leaf(v)' = Leaf(v)
    BY <2>1 DEF Found, Leaf
  <2>3. \A v \in Used : since'[satp.asid][v] = {Leaf(v)}
    BY <1>3, <2>1 DEF Sfence
  <2>4. Current'
    BY <2>1, <2>2, <2>3 DEF Current
  <2>5. Cached'
    BY <1>3 DEF Sfence, Cached, Empty
  <2> QED BY <2>4, <2>5
<1>4. CASE \/ \E t \in Tables, i \in Walked, pte \in Ptes : WritePte(t, i, pte)
           \/ \E a \in Asids, t \in Tables : WriteSatp(a, t)
  BY <1>4, EditCached DEF WritePte, WriteSatp
<1>5. CASE (\E level \in {0, 1} : Enter(level)) \/ UNCHANGED vars
  BY <1>1, <1>5 DEF Enter, vars
<1> QED BY <1>2, <1>3, <1>4, <1>5 DEF Next

(* The checks of the walk and of the TLB are the architecture's. *)
LEMMA Allows ==
  ASSUME TypeOK, NEW acc \in Accesses, NEW leaf
  PROVE  /\ Permitted(leaf, acc) = IF WalkAllows(leaf.perms, acc) THEN leaf.page ELSE 0
         /\ Permitted(leaf, acc) = IF TlbAllows(leaf.perms, acc) THEN leaf.page ELSE 0
<1>0. privilege = 0 \/ privilege = 1
  BY DEF TypeOK
<1>1. CASE acc = "fetch"
  BY <1>0, <1>1 DEF Permitted, WalkAllows, TlbAllows
<1>2. CASE acc = "load"
  BY <1>0, <1>2 DEF Permitted, WalkAllows, TlbAllows
<1>3. CASE acc = "store"
  BY <1>0, <1>3 DEF Permitted, WalkAllows, TlbAllows
<1> QED BY <1>1, <1>2, <1>3 DEF Accesses

LEMMA CachedAnswers == ASSUME MmuInv, Current, Cached PROVE SinceLastFence
<1> SUFFICES ASSUME NEW v \in Used, NEW acc \in Accesses
             PROVE  Result(v, acc) \in {Permitted(leaf, acc) : leaf \in since[satp.asid][v]}
  BY DEF SinceLastFence
<1>0. TypeOK
  BY DEF MmuInv
<1>1. CASE Matching(v) = {}
  <2>1. Leaf(v).level = 0
    BY DEF Current, Leaf, Usable, Nothing
  <2>2. Result(v, acc) = IF WalkAllows(Leaf(v).perms, acc) THEN Leaf(v).page ELSE 0
    BY <1>1, <2>1 DEF Result, Walk, PageOf
  <2>3. Result(v, acc) = Permitted(Leaf(v), acc)
    BY <1>0, <2>2, Allows
  <2> QED BY <2>3 DEF Current
<1>2. CASE Matching(v) # {}
  <2> DEFINE slot == First(Matching(v))
  <2>1. slot \in Matching(v)
    <3>1. Matching(v) \in SUBSET Slots
      BY DEF Matching
    <3> QED BY <1>2, <3>1, FirstIsOne
  <2>2. Result(v, acc) = IF TlbAllows(tlb[slot].perms, acc) THEN tlb[slot].page ELSE 0
    BY <1>2 DEF Result
  <2> HIDE DEF slot
  <2>3. PICK leaf \in since[satp.asid][v] : tlb[slot].page = leaf.page /\ tlb[slot].perms = leaf.perms
    BY <2>1 DEF Cached, Matching
  <2>4. Result(v, acc) = Permitted(leaf, acc)
    BY <1>0, <2>2, <2>3, Allows
  <2> QED BY <2>4
<1> QED BY <1>1, <1>2

(* mmu.c:387: for a guest that keeps to Plain, an access ends where a leaf *)
(* leads that was in force since the last fence, under its permissions and *)
(* the privilege of now, for any tables and a TLB of any size.             *)
THEOREM MmuSinceLastFence == Plain => (Spec => []SinceLastFence)
<1> SUFFICES ASSUME Plain PROVE Spec => []SinceLastFence
  OBVIOUS
<1>1. Init => Current /\ Cached
  BY InitCached
<1>2. MmuInv /\ MmuInv' /\ Current /\ Cached /\ [Next]_vars => Current' /\ Cached'
  BY CachedStep
<1>3. MmuInv /\ Current /\ Cached => SinceLastFence
  BY CachedAnswers
<1> QED BY <1>1, <1>2, <1>3, MmuInvHolds, PTL DEF Spec
-----------------------------------------------------------------------------
(***************************************************************************)
(* What the callers of get_pa reach with the address it answers (module    *)
(* Access), for memory and pages of any size and any mapping: the type     *)
(* invariant, and which accesses reach the bytes that they mean.           *)
(***************************************************************************)

Offsets == 0 .. RamSize - 1
Kinds == {"fetch", "load", "store"}
Sizes == {1, 2, 4, 8}
Maps == [0 .. Pages - 1 -> 0 .. Frames + 1]

(* Each byte of RAM names an access of the past, and no two the same place *)
(* in the same one: what an answer shows tells which bytes it came from.   *)
Traced ==
  /\ ram \in [Offsets -> (-1 .. accesses - 1) \X Nat]
  /\ \A o, p \in Offsets : ram[o] = ram[p] => o = p

BusTypes ==
  /\ DOMAIN ram = 0 .. RamSize - 1
  /\ dev \in BOOLEAN /\ halted \in BOOLEAN /\ accesses \in 0 .. MaxAccesses
  /\ last.kind \in {"none", "fetch", "load", "store"}

BusInv ==
  /\ BusTypes /\ Traced
  /\ map \in Maps /\ writable \in SUBSET (0 .. Pages - 1)
  /\ got \in Seq(Int \X Int)

LEMMA Places ==
  /\ PageSize \in Nat /\ PageSize >= 8 /\ Frames \in Nat /\ Pages \in Nat
         /\ RamSize \in Nat /\ RamBase = 2 * PageSize /\ DeviceBase = PageSize
<1>1. PageSize \in Nat /\ PageSize >= 8 /\ Frames \in Nat /\ Pages \in Nat
  BY AccessConstants, Z3
<1>2. Frames * PageSize \in Nat
  BY <1>1, Z3
<1> QED BY <1>1, <1>2 DEF RamSize, RamBase, DeviceBase

LEMMA RoomForOne == RamSize >= 8
<1>1. PageSize \in Nat /\ PageSize >= 8 /\ Frames \in Nat \ {0}
  BY Places, AccessConstants
<1>2. Frames * PageSize >= 8
  BY <1>1, Z3
<1> QED BY <1>2 DEF RamSize

(* The bytes of an access lie in one page or two, and then each at the     *)
(* offset of its page that its place says.                                 *)
LEMMA Split ==
  ASSUME NEW va \in Nat, NEW j \in 0 .. 7
  PROVE  /\ va \div PageSize \in Nat /\ va % PageSize \in 0 .. PageSize - 1
         /\ (va % PageSize) + j < PageSize =>
              /\ (va + j) \div PageSize = va \div PageSize
              /\ (va + j) % PageSize = (va % PageSize) + j
         /\ (va % PageSize) + j >= PageSize =>
              /\ (va + j) \div PageSize = (va \div PageSize) + 1
              /\ (va + j) % PageSize = (va % PageSize) + j - PageSize
<1>1. PageSize \in Nat \ {0} /\ PageSize >= 8 /\ va + j \in Nat
  BY Places
<1> DEFINE q == va \div PageSize
           r == va % PageSize
<1>2. q \in Int /\ r \in 0 .. PageSize - 1 /\ va = PageSize * q + r
  BY <1>1, Division
<1>3. q \in Nat
  BY <1>1, Z3
<1>4. \A d \in Int, e \in 0 .. PageSize - 1 :
        va + j = PageSize * d + e => d = (va + j) \div PageSize /\ e = (va + j) % PageSize
  BY <1>1, Division
<1> HIDE DEF q, r
<1>5. ASSUME r + j < PageSize
      PROVE  (va + j) \div PageSize = q /\ (va + j) % PageSize = r + j
  <2>1. va + j = PageSize * q + (r + j) /\ r + j \in 0 .. PageSize - 1
    BY <1>1, <1>2, <1>5, Z3
  <2> QED BY <1>2, <1>4, <2>1
<1>6. ASSUME r + j >= PageSize
      PROVE  (va + j) \div PageSize = q + 1 /\ (va + j) % PageSize = r + j - PageSize
  <2>1. /\ va + j = PageSize * (q + 1) + (r + j - PageSize)
        /\ r + j - PageSize \in 0 .. PageSize - 1 /\ q + 1 \in Int
    BY <1>1, <1>2, <1>6, Z3
  <2> QED BY <1>4, <2>1
<1> QED BY <1>2, <1>3, <1>5, <1>6 DEF q, r

(* A translation is a fault, or the frame of the page and the offset.      *)
LEMMA Translated ==
  ASSUME map \in Maps, NEW va \in Nat, NEW kind \in Kinds
  PROVE  /\ get_pa(va, kind) \in Nat
         /\ get_pa(va, kind) # Fault =>
              /\ va \div PageSize \in DOMAIN map /\ map[va \div PageSize] \in Nat
              /\ get_pa(va, kind) = map[va \div PageSize] * PageSize + (va % PageSize)
<1> DEFINE q == va \div PageSize
           r == va % PageSize
           F == map[q]
<1>1. PageSize \in Nat /\ q \in Nat /\ r \in Nat
  <2>1. va \div PageSize \in Nat /\ va % PageSize \in 0 .. PageSize - 1
    BY Split, 0 \in 0 .. 7
  <2> QED BY Places, <2>1
<1>2. q \in DOMAIN map => F \in Nat
  BY Places DEF Maps
<1> HIDE DEF q, r, F
<1>3. q \in DOMAIN map => F * PageSize + r \in Nat
  BY <1>1, <1>2, Z3
<1>4. CASE q \notin DOMAIN map \/ F = 0 \/ (kind = "store" /\ q \notin writable)
  <2>1. get_pa(va, kind) = Fault
    BY <1>4 DEF get_pa, q, F
  <2> QED BY <2>1 DEF Fault
<1>5. CASE ~(q \notin DOMAIN map \/ F = 0 \/ (kind = "store" /\ q \notin writable))
  <2>1. get_pa(va, kind) = F * PageSize + r
    BY <1>5 DEF get_pa, q, F, r
  <2> QED BY <1>2, <1>3, <1>5, <2>1 DEF q, r, F
<1> QED BY <1>4, <1>5

(* An access, and the bytes that it means when they are all in RAM.        *)
AnAccess == [kind : Kinds, va : Nat, size : Sizes]
Byte(a, k) == Meant(a)[k] - RamBase

LEMMA BytesMeant ==
  ASSUME map \in Maps, NEW a \in AnAccess, ToRam(a)
  PROVE  /\ a.size \in Nat /\ a.size >= 1 /\ a.size <= 8
         /\ \A k \in 1 .. a.size :
              /\ Meant(a)[k] = get_pa(a.va + k - 1, a.kind)
              /\ Meant(a)[k] \in Nat /\ Meant(a)[k] # Fault
              /\ Byte(a, k) \in Offsets
<1>1. a.size \in Nat /\ a.size >= 1 /\ a.size <= 8
  BY DEF AnAccess, Sizes
<1>2. ASSUME NEW k \in 1 .. a.size
      PROVE  /\ Meant(a)[k] = get_pa(a.va + k - 1, a.kind)
             /\ Meant(a)[k] \in Nat /\ Meant(a)[k] # Fault
             /\ Byte(a, k) \in Offsets
  <2>1. Meant(a)[k] = get_pa(a.va + k - 1, a.kind)
    BY DEF Meant
  <2>2. Meant(a)[k] \in Nat
    BY <1>1, <2>1, Translated DEF AnAccess
  <2>3. Meant(a)[k] \in RamBase .. RamBase + RamSize - 1
    BY DEF ToRam, InRam
  <2> QED BY <2>1, <2>2, <2>3, Places DEF Byte, Offsets, Fault
<1> QED BY <1>1, <1>2

(* The bytes before the border of the page follow its frame, the others    *)
(* the frame of the next page.                                             *)
LEMMA PageByPage ==
  ASSUME map \in Maps, NEW a \in AnAccess, ToRam(a), NEW k \in 1 .. a.size
  PROVE  LET q == a.va \div PageSize
             r == a.va % PageSize
         IN  /\ r + k <= PageSize =>
                  /\ map[q] \in Nat
                  /\ Meant(a)[k] = map[q] * PageSize + (r + k - 1)
             /\ r + k > PageSize =>
                  /\ map[q + 1] \in Nat
                  /\ Meant(a)[k] = map[q + 1] * PageSize + (r + k - 1 - PageSize)
<1> DEFINE q == a.va \div PageSize
           r == a.va % PageSize
           j == k - 1
<1>1. a.va \in Nat /\ a.kind \in Kinds /\ j \in 0 .. 7 /\ a.va + j \in Nat
  BY BytesMeant DEF AnAccess
<1>2. Meant(a)[k] = get_pa(a.va + j, a.kind) /\ Meant(a)[k] # Fault
  <2>1. a.va + k - 1 = a.va + j
    BY <1>1 DEF AnAccess
  <2> QED BY <2>1, BytesMeant
<1>3. /\ map[(a.va + j) \div PageSize] \in Nat
      /\ Meant(a)[k] = map[(a.va + j) \div PageSize] * PageSize + ((a.va + j) % PageSize)
  BY <1>1, <1>2, Translated
<1>4. /\ q \in Nat /\ r \in 0 .. PageSize - 1
      /\ r + j < PageSize => (a.va + j) \div PageSize = q /\ (a.va + j) % PageSize = r + j
      /\ r + j >= PageSize => (a.va + j) \div PageSize = q + 1 /\ (a.va + j) % PageSize = r + j - PageSize
  BY <1>1, Split
<1>5. PageSize \in Nat /\ k \in Int /\ k = j + 1
  BY Places
<1> HIDE DEF q, r, j
<1>6. CASE r + k <= PageSize
  <2>1. r + j < PageSize /\ r + j = r + k - 1
    BY <1>1, <1>4, <1>5, <1>6
  <2> QED BY <1>3, <1>4, <1>5, <1>6, <2>1 DEF q, r
<1>7. CASE r + k > PageSize
  <2>1. r + j >= PageSize /\ r + j - PageSize = r + k - 1 - PageSize
    BY <1>1, <1>4, <1>5, <1>7
  <2> QED BY <1>3, <1>4, <1>5, <1>7, <2>1 DEF q, r
<1> QED BY <1>4, <1>5, <1>6, <1>7 DEF q, r

LEMMA SamePage ==
  ASSUME map \in Maps, NEW a \in AnAccess, ToRam(a), OnePage(a)
  PROVE  Adjoining(a)
<1> DEFINE r == a.va % PageSize
           base == map[a.va \div PageSize] * PageSize
<1>1. PageSize \in Nat /\ r \in Nat /\ a.size \in Nat /\ a.size >= 1 /\ r + a.size <= PageSize
  <2>1. a.va % PageSize \in 0 .. PageSize - 1
    BY Split, 0 \in 0 .. 7 DEF AnAccess
  <2>2. PageSize \in Nat /\ a.size \in Nat /\ a.size >= 1
    BY Places, BytesMeant
  <2> QED BY <2>1, <2>2 DEF OnePage
<1>2. ASSUME NEW k \in 1 .. a.size
      PROVE  Meant(a)[k] = base + (r + k - 1) /\ map[a.va \div PageSize] \in Nat
  <2>1. r + k <= PageSize
    BY <1>1
  <2> QED BY <2>1, PageByPage
<1>3. 1 \in 1 .. a.size
  BY <1>1
<1>4. base \in Nat
  <2>1. map[a.va \div PageSize] \in Nat
    BY <1>2, <1>3
  <2> QED BY <1>1, <2>1, Z3
<1> HIDE DEF r, base
<1>5. ASSUME NEW k \in 1 .. a.size
      PROVE  Meant(a)[k] = Meant(a)[1] + k - 1
  <2>1. Meant(a)[k] = base + (r + k - 1) /\ Meant(a)[1] = base + (r + 1 - 1)
    BY <1>2, <1>3
  <2> QED BY <1>1, <1>4, <2>1
<1> QED BY <1>5 DEF Adjoining

(* If every byte lies in the interval that begins at the first one, then   *)
(* the frames adjoin: the second page cannot begin anywhere else in it.    *)
LEMMA Gapless ==
  ASSUME map \in Maps, NEW a \in AnAccess, ToRam(a),
         \A k \in 1 .. a.size : Byte(a, k) \in Byte(a, 1) .. Byte(a, 1) + a.size - 1
  PROVE  Adjoining(a)
<1> DEFINE r == a.va % PageSize
           F == map[a.va \div PageSize]
           G == map[(a.va \div PageSize) + 1]
           c == PageSize - r + 1
<1>1. /\ PageSize \in Nat /\ PageSize >= 8
      /\ r \in 0 .. PageSize - 1 /\ a.size \in Nat /\ a.size >= 1 /\ a.size <= 8
  <2>1. a.va % PageSize \in 0 .. PageSize - 1
    BY Split, 0 \in 0 .. 7 DEF AnAccess
  <2> QED BY <2>1, Places, BytesMeant
<1>2. CASE OnePage(a)
  BY <1>2, SamePage
<1>3. CASE ~OnePage(a)
  <2>1. r + a.size > PageSize
    BY <1>1, <1>3 DEF OnePage
  <2>2. ASSUME NEW k \in 1 .. a.size
        PROVE  /\ r + k <= PageSize => F \in Nat /\ Meant(a)[k] = F * PageSize + (r + k - 1)
               /\ r + k > PageSize => G \in Nat /\ Meant(a)[k] = G * PageSize + (r + k - 1 - PageSize)
    BY PageByPage
  <2> HIDE DEF r, F, G
  <2>3. 1 \in 1 .. a.size /\ c \in 1 .. a.size /\ r + 1 <= PageSize /\ r + c > PageSize
    BY <1>1, <2>1
  <2>4. F \in Nat /\ G \in Nat /\ F * PageSize \in Nat /\ G * PageSize \in Nat
    <3>1. F \in Nat /\ G \in Nat
      BY <2>2, <2>3
    <3> QED BY <1>1, <3>1, Z3
  <2>5. Meant(a)[1] = F * PageSize + r /\ Meant(a)[c] = G * PageSize
    <3>1. /\ Meant(a)[1] = F * PageSize + (r + 1 - 1)
          /\ Meant(a)[c] = G * PageSize + (r + c - 1 - PageSize)
      BY <2>2, <2>3
    <3> QED BY <1>1, <2>4, <3>1
  <2>6. F * PageSize + r <= G * PageSize /\ G * PageSize < F * PageSize + r + a.size
    <3>1. Byte(a, c) \in Byte(a, 1) .. Byte(a, 1) + a.size - 1
      BY <2>3
    <3>2. RamBase \in Int
      BY Places
    <3> HIDE DEF c
    <3> QED BY <1>1, <2>4, <2>5, <3>1, <3>2 DEF Byte
  <2>7. G = F + 1
    <3>1. (G - F) * PageSize >= r /\ (G - F) * PageSize < r + a.size
      BY <1>1, <2>4, <2>6, Z3
    <3>2. r >= 1 /\ r + a.size <= 2 * PageSize
      BY <1>1, <2>1
    <3>3. G - F <= 0 => (G - F) * PageSize <= 0
      BY <1>1, <2>4, Z3
    <3>4. G - F >= 2 => (G - F) * PageSize >= 2 * PageSize
      BY <1>1, <2>4, Z3
    <3>5. (G - F) * PageSize \in Int
      BY <1>1, <2>4, Z3
    <3> QED BY <1>1, <2>4, <3>1, <3>2, <3>3, <3>4, <3>5
  <2>8. G * PageSize = F * PageSize + PageSize
    BY <1>1, <2>4, <2>7, Z3
  <2>9. ASSUME NEW k \in 1 .. a.size
        PROVE  Meant(a)[k] = Meant(a)[1] + k - 1
    <3>1. k \in Int /\ (r + k <= PageSize \/ r + k > PageSize)
      BY <1>1
    <3> QED BY <1>1, <2>2, <2>4, <2>5, <2>8, <3>1
  <2> QED BY <2>9 DEF Adjoining
<1> QED BY <1>2, <1>3

(* The first byte in RAM, and where the others are if the frames adjoin.   *)
LEMMA InARow ==
  ASSUME map \in Maps, NEW a \in AnAccess, ToRam(a)
  PROVE  /\ 1 \in 1 .. a.size /\ a.size \in 1 .. 8 /\ Byte(a, 1) \in Offsets /\ RamSize \in Nat
         /\ OnePage(a) \/ Adjoining(a) <=>
              \A k \in 1 .. a.size : Byte(a, k) = Byte(a, 1) + k - 1
         /\ OnePage(a) \/ Adjoining(a) => Byte(a, 1) + a.size <= RamSize
<1>1. /\ a.size \in 1 .. 8 /\ 1 \in 1 .. a.size /\ a.size \in 1 .. a.size
      /\ RamBase \in Int /\ RamSize \in Nat
  BY BytesMeant, Places
<1>2. \A k \in 1 .. a.size : Meant(a)[k] \in Int /\ Byte(a, k) \in Offsets
  BY BytesMeant
<1>3. OnePage(a) \/ Adjoining(a) <=> Adjoining(a)
  BY SamePage
<1>4. Adjoining(a) <=> \A k \in 1 .. a.size : Byte(a, k) = Byte(a, 1) + k - 1
  <2>1. ASSUME NEW k \in 1 .. a.size
        PROVE  Meant(a)[k] = Meant(a)[1] + k - 1 <=> Byte(a, k) = Byte(a, 1) + k - 1
    BY <1>1, <1>2 DEF Byte
  <2> QED BY <2>1 DEF Adjoining
<1>5. Adjoining(a) => Byte(a, 1) + a.size <= RamSize
  <2> SUFFICES ASSUME Adjoining(a) PROVE Byte(a, 1) + a.size <= RamSize
    OBVIOUS
  <2>1. Byte(a, a.size) = Byte(a, 1) + a.size - 1
    BY <1>1, <1>4
  <2> QED BY <1>1, <1>2, <2>1 DEF Offsets
<1> QED BY <1>1, <1>2, <1>3, <1>4, <1>5

(* An answer is right if it is read in a row and the frames adjoin, and    *)
(* not otherwise: no two bytes of RAM have one name.                       *)
LEMMA AnswerRight ==
  ASSUME map \in Maps, Traced, accesses \in Nat,
         NEW a \in AnAccess, ToRam(a), NEW g,
         Byte(a, 1) + a.size <= RamSize => g = Bytes(Byte(a, 1), a.size),
         Byte(a, 1) + a.size > RamSize => \E k \in 1 .. a.size : g[k] = <<-2, 0>>
  PROVE  g = [k \in 1 .. a.size |-> ram[Meant(a)[k] - RamBase]]
           <=> OnePage(a) \/ Adjoining(a)
<1> DEFINE o == Byte(a, 1)
           meant == [k \in 1 .. a.size |-> ram[Byte(a, k)]]
<1>1. meant = [k \in 1 .. a.size |-> ram[Meant(a)[k] - RamBase]]
  BY DEF Byte
<1>2. /\ 1 \in 1 .. a.size /\ a.size \in 1 .. 8 /\ o \in Offsets /\ RamSize \in Nat
      /\ OnePage(a) \/ Adjoining(a) <=> \A k \in 1 .. a.size : Byte(a, k) = o + k - 1
      /\ OnePage(a) \/ Adjoining(a) => o + a.size <= RamSize
  BY InARow
<1>3. \A k \in 1 .. a.size : Byte(a, k) \in Offsets
  BY BytesMeant
<1>4. CASE o + a.size <= RamSize
  <2>1. g = [k \in 1 .. a.size |-> ram[o + k - 1]]
    BY <1>4 DEF Bytes
  <2>2. \A k \in 1 .. a.size : o + k - 1 \in Offsets
    BY <1>2, <1>4 DEF Offsets
  <2>3. g = meant <=> \A k \in 1 .. a.size : ram[o + k - 1] = ram[Byte(a, k)]
    <3>1. g = meant => \A k \in 1 .. a.size : ram[o + k - 1] = ram[Byte(a, k)]
      <4> SUFFICES ASSUME g = meant, NEW k \in 1 .. a.size PROVE ram[o + k - 1] = ram[Byte(a, k)]
        OBVIOUS
      <4>1. g[k] = meant[k]
        OBVIOUS
      <4> HIDE DEF o
      <4> QED BY <2>1, <4>1
    <3> HIDE DEF o
    <3> QED BY <2>1, <3>1
  <2>4. (\A k \in 1 .. a.size : ram[o + k - 1] = ram[Byte(a, k)])
          <=> \A k \in 1 .. a.size : Byte(a, k) = o + k - 1
    BY <1>3, <2>2 DEF Traced
  <2> HIDE DEF o, meant
  <2> QED BY <1>1, <1>2, <2>3, <2>4
<1>5. CASE o + a.size > RamSize
  <2>1. PICK k \in 1 .. a.size : g[k] = <<-2, 0>>
    BY <1>5
  <2>2. ram[Byte(a, k)] \in (-1 .. accesses - 1) \X Nat
    BY <1>3 DEF Traced
  <2>3. ram[Byte(a, k)] # <<-2, 0>>
    BY <2>2
  <2>4. meant[k] = ram[Byte(a, k)]
    OBVIOUS
  <2>5. g # meant
    BY <2>1, <2>3, <2>4
  <2>6. ~(OnePage(a) \/ Adjoining(a))
    <3> HIDE DEF o
    <3> QED BY <1>2, <1>5 DEF Offsets
  <2> HIDE DEF meant
  <2> QED BY <1>1, <2>5, <2>6
<1>6. o + a.size <= RamSize \/ o + a.size > RamSize
  <2> HIDE DEF o
  <2> QED BY <1>2 DEF Offsets
<1> QED BY <1>4, <1>5, <1>6

(* A store changes a row of bytes: those it means if the frames adjoin,    *)
(* and others, or none at the end of RAM, if they do not.                  *)
LEMMA StoreRight ==
  ASSUME map \in Maps, Traced, accesses \in Nat,
         NEW a \in AnAccess, ToRam(a), ram_write(Byte(a, 1), a.size, accesses)
  PROVE  (\A p \in DOMAIN ram : ram'[p] # ram[p] <=>
            p \in {Meant(a)[k] - RamBase : k \in 1 .. a.size})
           <=> OnePage(a) \/ Adjoining(a)
<1> DEFINE o == Byte(a, 1)
           means == {Byte(a, k) : k \in 1 .. a.size}
<1>1. means = {Meant(a)[k] - RamBase : k \in 1 .. a.size}
  BY DEF Byte
<1>2. /\ 1 \in 1 .. a.size /\ a.size \in 1 .. 8 /\ o \in Offsets /\ RamSize \in Nat
      /\ OnePage(a) \/ Adjoining(a) <=> \A k \in 1 .. a.size : Byte(a, k) = o + k - 1
      /\ OnePage(a) \/ Adjoining(a) => o + a.size <= RamSize
  BY InARow
<1>3. means \subseteq Offsets /\ o \in means /\ DOMAIN ram = Offsets
  BY <1>2, BytesMeant DEF Traced
<1>4. (\A k \in 1 .. a.size : Byte(a, k) \in o .. o + a.size - 1) => Adjoining(a)
  BY Gapless
<1>5. ram_write(o, a.size, accesses)
  OBVIOUS
<1>6. CASE o + a.size <= RamSize
  <2>1. ASSUME NEW p \in Offsets
        PROVE  ram'[p] # ram[p] <=> p \in o .. o + a.size - 1
    <3> HIDE DEF o
    <3>1. ram'[p] = IF p \in o .. o + a.size - 1 THEN <<accesses, p - o>> ELSE ram[p]
      <4>1. ~(o + a.size > RamSize)
        BY <1>2, <1>6 DEF Offsets
      <4>2. ram' = [b \in Offsets |-> IF b \in o .. o + a.size - 1 THEN <<accesses, b - o>> ELSE ram[b]]
        BY <1>3, <1>5, <4>1 DEF ram_write
      <4> QED BY <4>2
    <3>2. ram[p] \in (-1 .. accesses - 1) \X Nat
      BY DEF Traced
    <3>3. ram[p] # <<accesses, p - o>>
      BY <3>2
    <3> QED BY <3>1, <3>3
  <2>2. (\A p \in Offsets : ram'[p] # ram[p] <=> p \in means) <=> means = o .. o + a.size - 1
    <3>1. o .. o + a.size - 1 \subseteq Offsets
      <4> HIDE DEF o
      <4> QED BY <1>2, <1>6 DEF Offsets
    <3> HIDE DEF o, means
    <3> QED BY <1>3, <2>1, <3>1
  <2>3. ASSUME \A k \in 1 .. a.size : Byte(a, k) = o + k - 1
        PROVE  means = o .. o + a.size - 1
    <3>1. means = {o + k - 1 : k \in 1 .. a.size}
      BY <2>3
    <3> HIDE DEF o, means
    <3>2. ASSUME NEW p \in o .. o + a.size - 1 PROVE p \in means
      <4>1. p - o + 1 \in 1 .. a.size /\ p = o + (p - o + 1) - 1
        BY <1>2 DEF Offsets
      <4> QED BY <3>1, <4>1
    <3>3. ASSUME NEW k \in 1 .. a.size PROVE o + k - 1 \in o .. o + a.size - 1
      BY <1>2 DEF Offsets
    <3> QED BY <3>1, <3>2, <3>3
  <2>4. means = o .. o + a.size - 1 => Adjoining(a)
    <3>1. means = o .. o + a.size - 1 => \A k \in 1 .. a.size : Byte(a, k) \in o .. o + a.size - 1
      OBVIOUS
    <3> QED BY <1>4, <3>1
  <2> HIDE DEF o, means
  <2> QED BY <1>1, <1>2, <1>3, <2>2, <2>3, <2>4
<1>7. CASE o + a.size > RamSize
  <2> HIDE DEF o, means
  <2>1. ram' = ram
    BY <1>5, <1>7 DEF ram_write
  <2>2. ~(\A p \in DOMAIN ram : ram'[p] # ram[p] <=> p \in means)
    BY <1>3, <2>1
  <2>3. ~(OnePage(a) \/ Adjoining(a))
    BY <1>2, <1>7 DEF Offsets
  <2> QED BY <1>1, <2>2, <2>3
<1>8. o + a.size <= RamSize \/ o + a.size > RamSize
  <2> HIDE DEF o
  <2> QED BY <1>2 DEF Offsets
<1> QED BY <1>6, <1>7, <1>8

(* Every answer is a sequence of names of bytes.                           *)
Names == Int \X Int

LEMMA Rows ==
  ASSUME Traced, accesses \in Nat, NEW o \in Nat, NEW n \in 1 .. 8
  PROVE  /\ o + n <= RamSize => Bytes(o, n) \in Seq(Names) /\ Len(Bytes(o, n)) = n
         /\ Zeros(n) \in Seq(Names) /\ Len(Zeros(n)) = n
<1>1. n \in Nat /\ RamSize \in Nat
  BY Places
<1>2. ASSUME o + n <= RamSize
      PROVE  Bytes(o, n) \in [1 .. n -> Names]
  <2>1. ASSUME NEW k \in 1 .. n PROVE ram[o + k - 1] \in Names
    <3>1. o + k - 1 \in Offsets
      BY <1>1, <1>2 DEF Offsets
    <3>2. ram[o + k - 1] \in (-1 .. accesses - 1) \X Nat
      BY <3>1 DEF Traced
    <3> QED BY <3>2 DEF Names
  <2> QED BY <2>1 DEF Bytes
<1>3. Zeros(n) \in [1 .. n -> Names]
  BY DEF Zeros, Names
<1>4. ASSUME NEW s \in [1 .. n -> Names] PROVE s \in Seq(Names) /\ Len(s) = n
  BY <1>1, LenProperties, IsASeq
<1> QED BY <1>2, <1>3, <1>4

LEMMA Read ==
  ASSUME BusInv, NEW pa \in Nat, NEW n \in 1 .. 8
  PROVE  /\ memory_read(pa, n) \in Seq(Names) /\ Len(memory_read(pa, n)) = n
         /\ bus_read(pa, n) \in Seq(Names) /\ Len(bus_read(pa, n)) <= 8
<1>1. RamSize \in Nat /\ RamBase \in Nat /\ DeviceBase \in Nat /\ accesses \in Nat /\ Traced
  BY Places DEF BusInv, BusTypes
<1>2. Zeros(n) \in Seq(Names) /\ Len(Zeros(n)) = n
  BY <1>1, Rows
<1>3. memory_read(pa, n) \in Seq(Names) /\ Len(memory_read(pa, n)) = n
  <2>1. Offset(pa) \in Nat
    BY <1>1 DEF Offset
  <2>2. Offset(pa) + n <= RamSize =>
          Bytes(Offset(pa), n) \in Seq(Names) /\ Len(Bytes(Offset(pa), n)) = n
    BY <1>1, <2>1, Rows
  <2>3. Offset(pa) + n <= RamSize \/ PastRam(pa, n)
    BY <1>1, <2>1 DEF PastRam
  <2> QED BY <1>2, <2>2, <2>3 DEF memory_read
<1>4. bus_read(pa, n) \in Seq(Names) /\ Len(bus_read(pa, n)) <= 8
  <2>1. CASE InRam(pa)
    <3>1. pa - RamBase \in Nat
      BY <1>1, <2>1 DEF InRam
    <3>2. pa - RamBase + n <= RamSize =>
            /\ Bytes(pa - RamBase, n) \in Seq(Names)
            /\ Len(Bytes(pa - RamBase, n)) = n
      BY <1>1, <3>1, Rows
    <3>3. pa - RamBase + n <= RamSize \/ pa - RamBase + n > RamSize
      BY <1>1, <3>1
    <3>4. \/ bus_read(pa, n) = Zeros(n)
          \/ /\ pa - RamBase + n <= RamSize
             /\ bus_read(pa, n) = Bytes(pa - RamBase, n)
      BY <2>1, <3>3 DEF bus_read
    <3>5. n <= 8
      OBVIOUS
    <3> QED BY <1>2, <3>2, <3>4, <3>5
  <2>2. CASE ~InRam(pa)
    <3>1. /\ DeviceAnswer \in Seq(Names) /\ Len(DeviceAnswer) <= 8
          /\ Unanswered \in Seq(Names) /\ Len(Unanswered) <= 8
      BY DEF DeviceAnswer, Unanswered, Names
    <3>2. bus_read(pa, n) = DeviceAnswer \/ bus_read(pa, n) = Unanswered
      BY <2>2 DEF bus_read
    <3> QED BY <3>1, <3>2, Zenon
  <2> QED BY <2>1, <2>2
<1> QED BY <1>3, <1>4

(* A store leaves every byte traced, with the new access among the past.   *)
LEMMA WriteTraced ==
  ASSUME Traced, accesses \in Nat, accesses' = accesses + 1,
         NEW o \in Nat, NEW n \in 1 .. 8, ram_write(o, n, accesses) \/ ram' = ram
  PROVE  Traced'
<1>1. DOMAIN ram = Offsets /\ Offsets \subseteq Int
  BY Places DEF Traced, Offsets
<1>2. /\ ram \in [Offsets -> (-1 .. accesses' - 1) \X Nat]
      /\ \A p, q \in Offsets : ram[p] = ram[q] => p = q
  <2>1. (-1 .. accesses - 1) \X Nat \subseteq (-1 .. accesses' - 1) \X Nat
    OBVIOUS
  <2> QED BY <2>1 DEF Traced
<1>3. Offsets' = Offsets
  BY DEF Offsets, RamSize
<1>4. CASE ram' = ram
  BY <1>2, <1>3, <1>4 DEF Traced
<1>5. CASE ram' # ram
  <2>1. ram' = [b \in Offsets |-> IF b \in o .. o + n - 1 THEN <<accesses, b - o>> ELSE ram[b]]
    BY <1>1, <1>5 DEF ram_write
  <2>2. ASSUME NEW b \in Offsets PROVE ram'[b] \in (-1 .. accesses' - 1) \X Nat
    <3>1. CASE b \in o .. o + n - 1
      <4>1. ram'[b] = <<accesses, b - o>> /\ b - o \in Nat /\ accesses \in -1 .. accesses' - 1
        BY <2>1, <3>1
      <4> QED BY <4>1
    <3>2. CASE b \notin o .. o + n - 1
      BY <1>2, <2>1, <3>2
    <3> QED BY <3>1, <3>2
  <2>3. ASSUME NEW p \in Offsets, NEW q \in Offsets, ram'[p] = ram'[q] PROVE p = q
    <3>1. p \in Int /\ q \in Int
      BY <1>1
    <3>2. ram[p] \in (-1 .. accesses - 1) \X Nat /\ ram[q] \in (-1 .. accesses - 1) \X Nat
      BY DEF Traced
    <3>3. /\ ram[p] # <<accesses, q - o>> /\ ram[q] # <<accesses, p - o>>
      BY <3>2
    <3>4. /\ ram'[p] = IF p \in o .. o + n - 1 THEN <<accesses, p - o>> ELSE ram[p]
          /\ ram'[q] = IF q \in o .. o + n - 1 THEN <<accesses, q - o>> ELSE ram[q]
      BY <2>1
    <3>5. CASE p \in o .. o + n - 1 /\ q \in o .. o + n - 1
      <4>1. <<accesses, p - o>> = <<accesses, q - o>>
        BY <2>3, <3>4, <3>5
      <4>2. p - o = q - o
        BY <4>1
      <4> QED BY <3>1, <4>2
    <3>6. CASE p \notin o .. o + n - 1 /\ q \notin o .. o + n - 1
      BY <1>2, <2>3, <3>4, <3>6
    <3> QED BY <2>3, <3>3, <3>4, <3>5, <3>6
  <2>4. ram' \in [Offsets -> (-1 .. accesses' - 1) \X Nat]
    BY <2>1, <2>2
  <2> QED BY <1>3, <2>3, <2>4 DEF Traced
<1> QED BY <1>4, <1>5

(* What every access does besides.                                         *)
LEMMA Begun ==
  ASSUME BusInv, NEW va \in Vas, NEW size \in Sizes, NEW kind \in Kinds,
         Begin(kind, va, size)
  PROVE  /\ last' = [kind |-> kind, va |-> va, size |-> size] /\ last' \in AnAccess
         /\ last'.kind = kind /\ last'.size = size
         /\ accesses \in Nat /\ accesses' = accesses + 1 /\ accesses' \in 0 .. MaxAccesses
         /\ map' = map /\ writable' = writable /\ size \in 1 .. 8
         /\ get_pa(last'.va, last'.kind) = get_pa(va, kind) /\ get_pa(va, kind) \in Nat
         /\ ToRam(last') => /\ get_pa(va, kind) - RamBase = Byte(last', 1)
                                /\ InRam(get_pa(va, kind))
<1> DEFINE a == [kind |-> kind, va |-> va, size |-> size]
<1>1. last' = a /\ accesses' = accesses + 1 /\ map' = map /\ writable' = writable
  BY DEF Begin
<1>2. va \in Nat /\ size \in 1 .. 8
  BY DEF Vas, Sizes
<1>3. a \in AnAccess /\ a.kind = kind /\ a.va = va /\ a.size = size
  BY <1>2 DEF AnAccess
<1>4. accesses \in Nat /\ accesses' \in 0 .. MaxAccesses
  BY AccessConstants DEF Begin, BusInv, BusTypes
<1>5. get_pa(va, kind) \in Nat
  BY <1>2, Translated DEF BusInv
<1>6. ASSUME ToRam(a)
      PROVE  get_pa(va, kind) - RamBase = Byte(a, 1) /\ InRam(get_pa(va, kind))
  <2>1. 1 \in 1 .. a.size
    BY <1>2, <1>3
  <2>2. Meant(a)[1] = get_pa(a.va + 1 - 1, a.kind)
    BY <2>1 DEF Meant
  <2>3. a.va + 1 - 1 = va
    BY <1>2, <1>3
  <2>4. Meant(a)[1] = get_pa(va, kind)
    BY <1>3, <2>2, <2>3
  <2> QED BY <1>6, <2>1, <2>4 DEF Byte, ToRam
<1>7. get_pa(a.va, a.kind) = get_pa(va, kind)
  BY <1>3
<1> HIDE DEF a
<1>8. /\ last' \in AnAccess /\ last'.kind = kind /\ last'.size = size
      /\ get_pa(last'.va, last'.kind) = get_pa(va, kind)
      /\ ToRam(last') => /\ get_pa(va, kind) - RamBase = Byte(last', 1)
                             /\ InRam(get_pa(va, kind))
  BY <1>1, <1>3, <1>6, <1>7
<1> QED BY <1>1, <1>2, <1>4, <1>5, <1>8 DEF a

(* A fetch or a load that answers what a row of bytes holds.               *)
LEMMA AnswerReaches ==
  ASSUME BusInv, accesses \in Nat, ram' = ram, dev' = dev,
         last' \in AnAccess, last'.kind # "store",
         ToRam(last') =>
           /\ Byte(last', 1) + last'.size <= RamSize =>
                got' = Bytes(Byte(last', 1), last'.size)
           /\ Byte(last', 1) + last'.size > RamSize =>
                \E k \in 1 .. last'.size : got'[k] = <<-2, 0>>,
         last'.kind = "fetch" /\ get_pa(last'.va, last'.kind) = Fault =>
           got'[1] = ram[0] /\ got'[2] = ram[1]
  PROVE  Reaches
<1> DEFINE a == last'
<1>1. ToRam(a) => (got' = [k \in 1 .. a.size |-> ram[Meant(a)[k] - RamBase]]
                         <=> OnePage(a) \/ Adjoining(a))
  BY AnswerRight DEF BusInv
<1> QED BY <1>1 DEF Reaches

LEMMA LoadStep ==
  ASSUME BusInv, NEW va \in Vas, NEW size \in Sizes, Load(va, size)
  PROVE  BusInv' /\ Reaches
<1> DEFINE pa == get_pa(va, "load")
<1>1. Begin("load", va, size) /\ got' = bus_read(pa, size) /\ UNCHANGED <<ram, dev, halted>>
  BY DEF Load
<1>2. /\ last' \in AnAccess /\ last'.kind = "load" /\ last'.size = size
      /\ accesses \in Nat /\ accesses' = accesses + 1 /\ accesses' \in 0 .. MaxAccesses
      /\ map' = map /\ writable' = writable /\ size \in 1 .. 8 /\ pa \in Nat
      /\ ToRam(last') => pa - RamBase = Byte(last', 1) /\ InRam(pa)
  BY <1>1, Begun DEF Kinds
<1> HIDE DEF pa
<1>3. got' \in Seq(Names) /\ Len(got') <= 8
  BY <1>1, <1>2, Read
<1>4. Traced'
  BY <1>1, <1>2, WriteTraced, 0 \in Nat DEF BusInv
<1>5. BusInv'
  <2>1. BusTypes'
    BY <1>1, <1>2, <1>3 DEF BusInv, BusTypes, RamSize
  <2> QED BY <1>2, <1>3, <1>4, <2>1 DEF BusInv, Names, Maps
<1>6. Reaches
  <2>1. ASSUME ToRam(last')
        PROVE  /\ Byte(last', 1) + last'.size <= RamSize =>
                    got' = Bytes(Byte(last', 1), last'.size)
               /\ Byte(last', 1) + last'.size > RamSize =>
                    \E k \in 1 .. last'.size : got'[k] = <<-2, 0>>
    <3>1. got' = IF Byte(last', 1) + size > RamSize THEN Zeros(size) ELSE Bytes(Byte(last', 1), size)
      BY <1>1, <1>2, <2>1 DEF bus_read
    <3>2. Byte(last', 1) \in Nat /\ RamSize \in Nat
      BY <1>2, <2>1, InARow DEF Offsets, BusInv
    <3>3. Byte(last', 1) + size > RamSize => 1 \in 1 .. size /\ got'[1] = <<-2, 0>>
      BY <1>2, <3>1 DEF Zeros
    <3> QED BY <1>2, <3>1, <3>2, <3>3
  <2> QED BY <1>1, <1>2, <2>1, AnswerReaches
<1> QED BY <1>5, <1>6

LEMMA TwoHalves ==
  ASSUME NEW m \in Seq(Names), NEW n \in Seq(Names), Len(m) = 2, Len(n) = 2
  PROVE  /\ m \o n \in Seq(Names) /\ Len(m \o n) = 4
         /\ (m \o n)[1] = m[1] /\ (m \o n)[2] = m[2] /\ (m \o n)[3] = n[1] /\ (m \o n)[4] = n[2]
<1>1. /\ m \o n \in Seq(Names) /\ Len(m \o n) = Len(m) + Len(n)
      /\ \A i \in 1 .. Len(m) + Len(n) :
            (m \o n)[i] = IF i <= Len(m) THEN m[i] ELSE n[i - Len(m)]
  BY ConcatProperties
<1> QED BY <1>1

LEMMA FetchStep ==
  ASSUME BusInv, NEW va \in Vas, NEW size \in Sizes, Fetch(va, size)
  PROVE  BusInv' /\ Reaches
<1> DEFINE pa == get_pa(va, "fetch")
<1>1. /\ Begin("fetch", va, size) /\ size \in {2, 4} /\ (size = 4 => ~PastRam(pa, 2))
      /\ halted' = PastRam(pa + size - 2, 2) /\ UNCHANGED <<ram, dev>>
      /\ got' = IF size = 2 THEN memory_read(pa, 2)
                ELSE memory_read(pa, 2) \o memory_read(pa + 2, 2)
  BY DEF Fetch
<1>2. /\ last' \in AnAccess /\ last'.kind = "fetch" /\ last'.size = size
      /\ accesses \in Nat /\ accesses' = accesses + 1 /\ accesses' \in 0 .. MaxAccesses
      /\ map' = map /\ writable' = writable /\ size \in 1 .. 8 /\ pa \in Nat
      /\ get_pa(last'.va, last'.kind) = pa
      /\ ToRam(last') => pa - RamBase = Byte(last', 1) /\ InRam(pa)
  BY <1>1, Begun DEF Kinds
<1> HIDE DEF pa
<1>3. /\ memory_read(pa, 2) \in Seq(Names) /\ Len(memory_read(pa, 2)) = 2
      /\ memory_read(pa + 2, 2) \in Seq(Names) /\ Len(memory_read(pa + 2, 2)) = 2
  <2>1. pa + 2 \in Nat /\ 2 \in 1 .. 8
    BY <1>2
  <2> QED BY <1>2, <2>1, Read
<1>4. got' \in Seq(Names) /\ Len(got') <= 8
  <2> DEFINE m == memory_read(pa, 2)
             n == memory_read(pa + 2, 2)
  <2>1. m \o n \in Seq(Names) /\ Len(m \o n) = 4
    <3>1. m \in Seq(Names) /\ n \in Seq(Names) /\ Len(m) = 2 /\ Len(n) = 2
      BY <1>3
    <3> HIDE DEF m, n
    <3> QED BY <3>1, TwoHalves
  <2> QED BY <1>1, <1>3, <2>1
<1>5. Traced'
  BY <1>1, <1>2, WriteTraced, 0 \in Nat DEF BusInv
<1>6. BusInv'
  <2>1. halted' \in BOOLEAN
    BY <1>1 DEF PastRam
  <2>2. BusTypes'
    BY <1>1, <1>2, <1>4, <2>1 DEF BusInv, BusTypes, RamSize
  <2> QED BY <1>2, <1>4, <1>5, <2>2 DEF BusInv, Names, Maps
<1>7. Reaches
  <2> DEFINE o == Byte(last', 1)
  <2>1. ASSUME ToRam(last')
        PROVE  /\ o + size <= RamSize => got' = Bytes(o, size)
               /\ o + size > RamSize => \E k \in 1 .. size : got'[k] = <<-2, 0>>
    <3>1. o \in Nat /\ RamSize \in Nat /\ RamBase \in Nat
      BY <1>2, <2>1, InARow, Places DEF Offsets, BusInv
    <3>2. Offset(pa) = o /\ Offset(pa + 2) = o + 2
      <4>1. pa = RamBase + o /\ pa >= RamBase /\ pa + 2 >= RamBase
        BY <1>2, <2>1, <3>1 DEF InRam
      <4> QED BY <3>1, <4>1 DEF Offset
    <3> HIDE DEF o
    <3>3. /\ memory_read(pa, 2) = IF o + 2 > RamSize THEN Zeros(2) ELSE Bytes(o, 2)
          /\ memory_read(pa + 2, 2) =
               IF o + 4 > RamSize THEN Zeros(2) ELSE Bytes(o + 2, 2)
      BY <3>1, <3>2 DEF memory_read, PastRam
    <3>4. CASE size = 2
      <4>1. o + 2 > RamSize => 1 \in 1 .. 2 /\ got'[1] = <<-2, 0>>
        BY <1>1, <3>3, <3>4 DEF Zeros
      <4> QED BY <1>1, <3>1, <3>3, <3>4, <4>1
    <3>5. CASE size = 4
      <4>1. got' = memory_read(pa, 2) \o memory_read(pa + 2, 2)
        BY <1>1, <3>5
      <4>2. /\ Len(got') = 4 /\ got' \in Seq(Names)
            /\ got'[1] = memory_read(pa, 2)[1] /\ got'[2] = memory_read(pa, 2)[2]
            /\ got'[3] = memory_read(pa + 2, 2)[1] /\ got'[4] = memory_read(pa + 2, 2)[2]
        <5> DEFINE m == memory_read(pa, 2)
                   n == memory_read(pa + 2, 2)
        <5>1. m \in Seq(Names) /\ Len(m) = 2 /\ n \in Seq(Names) /\ Len(n) = 2 /\ got' = m \o n
          BY <1>3, <4>1
        <5> HIDE DEF m, n
        <5>2. /\ m \o n \in Seq(Names) /\ Len(m \o n) = 4
              /\ (m \o n)[1] = m[1] /\ (m \o n)[2] = m[2] /\ (m \o n)[3] = n[1] /\ (m \o n)[4] = n[2]
          BY <5>1, TwoHalves
        <5> QED BY <5>1, <5>2 DEF m, n
      <4>3. o + 4 > RamSize => 3 \in 1 .. 4 /\ got'[3] = <<-2, 0>>
        BY <3>3, <4>2 DEF Zeros
      <4>4. ASSUME o + 4 <= RamSize PROVE got' = Bytes(o, 4)
        <5>1. memory_read(pa, 2) = Bytes(o, 2) /\ memory_read(pa + 2, 2) = Bytes(o + 2, 2)
          BY <3>1, <3>3, <4>4
        <5>2. /\ Bytes(o, 2)[1] = ram[o] /\ Bytes(o, 2)[2] = ram[o + 1]
              /\ Bytes(o + 2, 2)[1] = ram[o + 2] /\ Bytes(o + 2, 2)[2] = ram[o + 3]
          BY <3>1 DEF Bytes
        <5>3. DOMAIN got' = 1 .. 4 /\ got' = [k \in 1 .. 4 |-> got'[k]]
          BY <4>2
        <5>4. ASSUME NEW k \in 1 .. 4 PROVE got'[k] = ram[o + k - 1]
          BY <3>1, <4>2, <5>1, <5>2
        <5>5. [k \in 1 .. 4 |-> got'[k]] = [k \in 1 .. 4 |-> ram[o + k - 1]]
          BY <5>4
        <5> QED BY <5>3, <5>5 DEF Bytes
      <4>5. o + 4 > RamSize \/ o + 4 <= RamSize
        BY <3>1
      <4> QED BY <3>5, <4>3, <4>4
    <3> QED BY <1>1, <3>4, <3>5
  <2> HIDE DEF o
  <2>2. ToRam(last') =>
          /\ Byte(last', 1) + last'.size <= RamSize =>
               got' = Bytes(Byte(last', 1), last'.size)
          /\ Byte(last', 1) + last'.size > RamSize =>
               \E k \in 1 .. last'.size : got'[k] = <<-2, 0>>
    BY <1>2, <2>1 DEF o
  <2>3. ASSUME pa = Fault PROVE got'[1] = ram[0] /\ got'[2] = ram[1]
    <3> DEFINE m == memory_read(pa, 2)
               n == memory_read(pa + 2, 2)
    <3>1. RamSize \in Nat /\ RamSize >= 8 /\ RamBase > 0 /\ DeviceBase > 0 /\ RamBase \in Nat /\ DeviceBase \in Nat
      BY Places, RoomForOne
    <3>2. pa = 0 /\ Offset(pa) = 0
      BY <2>3, <3>1 DEF Fault, Offset
    <3>3. m = Bytes(0, 2)
      BY <3>1, <3>2 DEF memory_read, PastRam
    <3>4. m[1] = ram[0] /\ m[2] = ram[1]
      BY <3>3 DEF Bytes
    <3>5. got' = m \/ got' = m \o n
      BY <1>1
    <3>6. m \in Seq(Names) /\ Len(m) = 2 /\ n \in Seq(Names) /\ Len(n) = 2
      BY <1>3
    <3> HIDE DEF m, n
    <3>7. (m \o n)[1] = m[1] /\ (m \o n)[2] = m[2]
      BY <3>6, TwoHalves
    <3> QED BY <3>4, <3>5, <3>7
  <2> QED BY <1>1, <1>2, <2>2, <2>3, AnswerReaches
<1> QED BY <1>6, <1>7

LEMMA StoreStep ==
  ASSUME BusInv, NEW va \in Vas, NEW size \in Sizes, Store(va, size)
  PROVE  BusInv' /\ Reaches
<1> DEFINE pa == get_pa(va, "store")
<1>1. Begin("store", va, size) /\ bus_write(pa, size, accesses) /\ UNCHANGED got
  BY DEF Store
<1>2. /\ last' \in AnAccess /\ last'.kind = "store" /\ last'.size = size
      /\ accesses \in Nat /\ accesses' = accesses + 1 /\ accesses' \in 0 .. MaxAccesses
      /\ map' = map /\ writable' = writable /\ size \in 1 .. 8 /\ pa \in Nat
      /\ get_pa(last'.va, last'.kind) = pa
      /\ ToRam(last') => pa - RamBase = Byte(last', 1) /\ InRam(pa)
  BY <1>1, Begun DEF Kinds
<1> HIDE DEF pa
<1>3. RamBase \in Nat /\ RamSize \in Nat /\ RamBase > 0 /\ DeviceBase > 0 /\ DeviceBase \in Nat
  BY Places
<1>4. /\ dev' \in BOOLEAN /\ halted' \in BOOLEAN
      /\ InRam(pa) => ram_write(pa - RamBase, size, accesses)
      /\ ~InRam(pa) => ram' = ram
  BY <1>1 DEF bus_write, BusInv, BusTypes
<1>5. Traced'
  <2>1. CASE InRam(pa)
    <3>1. pa - RamBase \in Nat
      BY <1>2, <1>3, <2>1 DEF InRam
    <3> QED BY <1>2, <1>4, <2>1, <3>1, WriteTraced DEF BusInv
  <2>2. CASE ~InRam(pa)
    BY <1>2, <1>4, <2>2, WriteTraced, 0 \in Nat DEF BusInv
  <2> QED BY <2>1, <2>2
<1>6. BusInv'
  <2>1. DOMAIN ram' = Offsets'
    BY <1>5 DEF Traced
  <2>2. BusTypes'
    BY <1>1, <1>2, <1>4, <2>1 DEF BusInv, BusTypes, Offsets
  <2> QED BY <1>1, <1>2, <1>5, <2>2 DEF BusInv, Names, Maps
<1>7. Reaches
  <2> DEFINE a == last'
             right == \A p \in DOMAIN ram : ram'[p] # ram[p] <=>
                         p \in {Meant(a)[k] - RamBase : k \in 1 .. a.size}
  <2>1. ASSUME ToRam(a)
        PROVE  right <=> OnePage(a) \/ Adjoining(a)
    <3>1. ram_write(Byte(a, 1), a.size, accesses)
      BY <1>2, <1>4, <2>1
    <3> QED BY <1>2, <2>1, <3>1, StoreRight DEF BusInv
  <2>2. ASSUME pa = Fault
        PROVE  UNCHANGED <<ram, dev>>
    <3>1. ~InRam(pa) /\ ~InDevice(pa)
      BY <1>3, <2>2 DEF InRam, InDevice, Fault
    <3> QED BY <1>1, <3>1 DEF bus_write
  <2> QED BY <1>2, <2>1, <2>2 DEF Reaches
<1> QED BY <1>6, <1>7

LEMMA BusStarts == BusInit => BusInv
<1> SUFFICES ASSUME BusInit PROVE BusInv
  OBVIOUS
<1>1. Traced
  <2>1. ram = [o \in Offsets |-> <<-1, o>>] /\ accesses = 0
    BY DEF BusInit, Offsets, AtStart
  <2>2. Offsets \subseteq Nat
    BY DEF Offsets
  <2>3. ASSUME NEW o \in Offsets PROVE <<-1, o>> \in (-1 .. 0 - 1) \X Nat
    BY <2>2
  <2>4. ASSUME NEW o \in Offsets, NEW p \in Offsets, ram[o] = ram[p] PROVE o = p
    <3>1. <<-1, o>> = <<-1, p>>
      BY <2>1, <2>4
    <3> QED BY <3>1
  <2> QED BY <2>1, <2>3, <2>4 DEF Traced
<1>2. got \in Seq(Names) /\ Len(got) = 0
  <2>1. got = << >>
    BY DEF BusInit, Zeros
  <2> QED BY <2>1
<1>3. BusTypes
  <2>1. 0 \in 0 .. MaxAccesses
    BY AccessConstants
  <2>2. DOMAIN ram = 0 .. RamSize - 1
    BY DEF BusInit
  <2>3. last.kind = "none"
    BY DEF BusInit, None
  <2>4. dev \in BOOLEAN /\ halted \in BOOLEAN /\ accesses = 0
    BY DEF BusInit
  <2> QED BY <1>2, <2>1, <2>2, <2>3, <2>4 DEF BusTypes
<1> QED BY <1>1, <1>2, <1>3 DEF BusInv, BusInit, Maps, Names

LEMMA BusStep ==
  ASSUME BusInv, [BusNext]_busVars
  PROVE  BusInv' /\ [Reaches]_busVars
<1>1. ASSUME NEW va \in Vas, NEW size \in Sizes,
             Fetch(va, size) \/ Load(va, size) \/ Store(va, size)
      PROVE  BusInv' /\ Reaches
  BY <1>1, FetchStep, LoadStep, StoreStep
<1>2. CASE Wake
  <2>1. Reaches
    BY <1>2 DEF Wake, Reaches
  <2>2. BusInv'
    BY <1>2 DEF Wake, BusInv, BusTypes, RamSize, Traced, Offsets, Maps
  <2> QED BY <2>1, <2>2
<1>3. CASE UNCHANGED busVars
  BY <1>3 DEF busVars, BusInv, BusTypes, RamSize, Traced, Offsets, Maps
<1> QED BY <1>1, <1>2, <1>3 DEF BusNext, Sizes

(* For pages, memory and mappings of any size: an access all of whose      *)
(* bytes are mapped to RAM reaches exactly those bytes if it stays in its  *)
(* page, and otherwise if and only if the frames of its two pages adjoin;  *)
(* a store that faults writes nothing, and a fetch that faults answers the *)
(* start of RAM (decode.c:196, bus.c:58, mmu.c:550).                       *)
THEOREM BusReachesItsBytes == BusSpec => ReachesItsBytes
<1>1. BusInit => BusInv
  BY BusStarts
<1>2. BusInv /\ [BusNext]_busVars => BusInv'
  BY BusStep
<1>3. BusInv /\ [BusNext]_busVars => [Reaches]_busVars
  BY BusStep
<1> QED BY <1>1, <1>2, <1>3, PTL DEF BusSpec, ReachesItsBytes
=============================================================================
