--------------------------- MODULE VirtioBlkProofs --------------------------
(***************************************************************************)
(* What the block device and its driver keep, for any number of requests,  *)
(* any size of queue and index and any latency: the type invariant,        *)
(* OnePlace, CacheCoherent and the refinement of DiskService.              *)
(***************************************************************************)
EXTENDS VirtioBlk, LoopLemmas, SequenceTheorems

(* Division by the size of the queue, which divides the range of the       *)
(* indices.                                                                *)
LEMMA ModUnique ==
  ASSUME NEW x \in Int, NEW d \in Int, NEW r \in Slots, x = QueueNum * d + r
  PROVE  x % QueueNum = r
<1>1. QueueNum \in Nat \ {0} /\ r \in 0 .. QueueNum - 1
  BY VirtioConstants DEF Slots
<1> QED BY <1>1, Division

LEMMA DivMod ==
  ASSUME NEW x \in Int
  PROVE  x % QueueNum \in Slots /\ \E d \in Int : x = QueueNum * d + (x % QueueNum)
<1>1. QueueNum \in Nat \ {0}
  BY VirtioConstants
<1> QED BY <1>1, Division DEF Slots

(* A turn of the indices is a number of turns of the queue.                *)
LEMMA Turn ==
  ASSUME NEW x \in Int
  PROVE  (x + IdxMod) % QueueNum = x % QueueNum /\ (x - IdxMod) % QueueNum = x % QueueNum
<1>1. QueueNum \in Int /\ IdxMod \in Int /\ IdxMod % QueueNum = 0
  BY VirtioConstants
<1>2. PICK d \in Int : x = QueueNum * d + (x % QueueNum)
  BY DivMod
<1>3. PICK c \in Int : IdxMod = QueueNum * c + 0
  BY <1>1, DivMod
<1> DEFINE r == x % QueueNum
<1>4. r \in Slots /\ r \in Int /\ x = QueueNum * d + r
  <2>1. r \in Slots
    BY DivMod
  <2> QED BY <1>2, <2>1 DEF Slots
<1> HIDE DEF r
<1>5. x + IdxMod = QueueNum * (d + c) + r /\ x - IdxMod = QueueNum * (d - c) + r
  BY <1>1, <1>3, <1>4, Z3
<1>6. d + c \in Int /\ d - c \in Int /\ x + IdxMod \in Int /\ x - IdxMod \in Int
  BY <1>1
<1>7. (x + IdxMod) % QueueNum = r
  BY <1>4, <1>5, <1>6, ModUnique
<1>8. (x - IdxMod) % QueueNum = r
  BY <1>4, <1>5, <1>6, ModUnique
<1> QED BY <1>7, <1>8 DEF r

(* Fewer than QueueNum entries in a row are in different slots.            *)
LEMMA SlotsDiffer ==
  ASSUME NEW a \in Int, NEW j \in Slots, NEW k \in Slots, (a + j) % QueueNum = (a + k) % QueueNum
  PROVE  j = k
<1>0. QueueNum \in Nat /\ QueueNum > 0
  BY VirtioConstants
<1> DEFINE r == (a + j) % QueueNum
<1>1. r \in Slots
  BY DivMod DEF Slots
<1>2. PICK d \in Int : a + j = QueueNum * d + r
  BY DivMod DEF Slots
<1>3. PICK e \in Int : a + k = QueueNum * e + r
  BY DivMod DEF Slots
<1> HIDE DEF r
<1>4. j - k + k \in Slots /\ j = QueueNum * (d - e) + k
  BY <1>0, <1>1, <1>2, <1>3, Z3 DEF Slots
<1>5. j % QueueNum = k
  BY <1>4, ModUnique DEF Slots
<1>6. j % QueueNum = j
  <2>1. j = QueueNum * 0 + j
    BY <1>0 DEF Slots
  <2> QED BY <2>1, ModUnique DEF Slots
<1> QED BY <1>5, <1>6
-----------------------------------------------------------------------------
(* The part of a ring between two indices: how many entries it has, that   *)
(* they are different, and what a step of either index does to it.         *)
Size(from, to) == (to - from) % IdxMod
Spread(ring, from, to) ==
  \A j, k \in 0 .. Size(from, to) - 1 :
     ring[(from + j) % QueueNum] = ring[(from + k) % QueueNum] => j = k

LEMMA Sizes ==
  ASSUME NEW a \in Indices, NEW b \in Indices
  PROVE  /\ Size(a, b) = IF a <= b THEN b - a ELSE b - a + IdxMod
         /\ Size(a, b) \in Indices /\ (Size(a, b) = 0 <=> a = b)
<1>1. (b - a) % IdxMod = IF a <= b THEN b - a ELSE b - a + IdxMod
  BY VirtioConstants, Z3 DEF Indices
<1> QED BY <1>1, VirtioConstants DEF Size, Indices

LEMMA NextIndex ==
  ASSUME NEW a \in Indices
  PROVE  (a + 1) % IdxMod = (IF a + 1 = IdxMod THEN 0 ELSE a + 1) /\ (a + 1) % IdxMod \in Indices
<1>1. (a + 1) % IdxMod = IF a + 1 = IdxMod THEN 0 ELSE a + 1
  BY VirtioConstants, Z3 DEF Indices
<1> QED BY <1>1, VirtioConstants DEF Indices

(* The end of the part is Size slots after its beginning.                  *)
LEMMA EndSlot ==
  ASSUME NEW a \in Indices, NEW b \in Indices, NEW k \in Int
  PROVE  (b - k) % QueueNum = (a + (Size(a, b) - k)) % QueueNum
<1>1. IdxMod \in Int /\ a \in Int /\ b \in Int
  BY VirtioConstants DEF Indices
<1>2. CASE a <= b
  <2>1. a + (Size(a, b) - k) = b - k
    BY <1>1, <1>2, Sizes DEF Indices
  <2> QED BY <2>1
<1>3. CASE ~(a <= b)
  <2>1. a + (Size(a, b) - k) = (b - k) + IdxMod /\ b - k \in Int
    BY <1>1, <1>3, Sizes DEF Indices
  <2> QED BY <2>1, Turn
<1> QED BY <1>2, <1>3

(* From the second entry on.                                               *)
LEMMA SecondSlot ==
  ASSUME NEW a \in Indices, NEW k \in Int
  PROVE  (((a + 1) % IdxMod) + k) % QueueNum = (a + (k + 1)) % QueueNum
<1>1. IdxMod \in Int /\ a \in Int
  BY VirtioConstants DEF Indices
<1>2. CASE a + 1 = IdxMod
  <2>1. (a + 1) % IdxMod = 0
    BY <1>2, NextIndex
  <2>2. 0 + k = (a + (k + 1)) - IdxMod /\ a + (k + 1) \in Int
    BY <1>1, <1>2
  <2> QED BY <2>1, <2>2, Turn
<1>3. CASE a + 1 # IdxMod
  <2>1. (a + 1) % IdxMod = a + 1
    BY <1>3, NextIndex
  <2>2. (a + 1) + k = a + (k + 1)
    BY <1>1
  <2> QED BY <2>1, <2>2
<1> QED BY <1>2, <1>3

LEMMA RingEmpty ==
  ASSUME NEW ring, NEW a \in Indices
  PROVE  Window(ring, a, a) = {} /\ Spread(ring, a, a)
<1>1. Size(a, a) = 0
  BY Sizes
<1> QED BY <1>1 DEF Window, Spread, Size

(* As many heads as entries.                                               *)
LEMMA RingCount ==
  ASSUME NEW ring, NEW a \in Indices, NEW b \in Indices, Spread(ring, a, b)
  PROVE  IsFiniteSet(Window(ring, a, b)) /\ Cardinality(Window(ring, a, b)) = Size(a, b)
<1> DEFINE n == Size(a, b)
           f == [k \in 0 .. n - 1 |-> ring[(a + k) % QueueNum]]
<1>1. n \in Nat
  BY Sizes, VirtioConstants DEF Indices
<1>2. Window(ring, a, b) = {ring[(a + k) % QueueNum] : k \in 0 .. n - 1}
  BY DEF Window, Size
<1>3. \A j, k \in 0 .. n - 1 : ring[(a + j) % QueueNum] = ring[(a + k) % QueueNum] => j = k
  BY DEF Spread
<1> HIDE DEF n
<1>4. f \in Bijection(0 .. n - 1, Window(ring, a, b))
  BY <1>2, <1>3 DEF Bijection, Injection, Surjection, IsInjective
<1>5. IsFiniteSet(0 .. n - 1) /\ Cardinality(0 .. n - 1) = n
  BY <1>1, FS_Interval
<1>6. ExistsBijection(0 .. n - 1, Window(ring, a, b))
  BY <1>4 DEF ExistsBijection
<1> QED BY <1>5, <1>6, FS_Bijection DEF n

(* A head that is not in the part has a slot to go to.                     *)
LEMMA Room ==
  ASSUME NEW ring, NEW a \in Indices, NEW b \in Indices, Spread(ring, a, b),
         Window(ring, a, b) \subseteq Heads, NEW d \in Heads, d \notin Window(ring, a, b)
  PROVE  Size(a, b) < QueueNum
<1> DEFINE W == Window(ring, a, b)
<1>1. IsFiniteSet(W) /\ Cardinality(W) = Size(a, b)
  BY RingCount
<1>2. W \cup {d} \in SUBSET Heads /\ IsFiniteSet(Heads) /\ d \notin W
  BY VirtioConstants
<1> HIDE DEF W
<1>3. Cardinality(W \cup {d}) = Cardinality(W) + 1
  BY <1>1, <1>2, FS_AddElement
<1>4. Cardinality(W \cup {d}) <= Cardinality(Heads)
  BY <1>2, FS_Subset
<1>5. Cardinality(Heads) \in Nat /\ Cardinality(W) \in Nat
  BY <1>1, <1>2, FS_CardinalityType
<1>6. Cardinality(Heads) <= QueueNum /\ QueueNum \in Nat
  BY VirtioConstants
<1> QED BY <1>1, <1>3, <1>4, <1>5, <1>6

LEMMA RingAppend ==
  ASSUME NEW ring \in [Slots -> Heads], NEW a \in Indices, NEW b \in Indices, Spread(ring, a, b),
         NEW d \in Heads, d \notin Window(ring, a, b)
  PROVE  LET longer == [ring EXCEPT ![b % QueueNum] = d]
             end == (b + 1) % IdxMod
         IN  /\ longer \in [Slots -> Heads] /\ end \in Indices
             /\ Window(longer, a, end) = Window(ring, a, b) \cup {d}
             /\ Spread(longer, a, end)
<1> DEFINE longer == [ring EXCEPT ![b % QueueNum] = d]
           end == (b + 1) % IdxMod
           n == Size(a, b)
           At(k) == (a + k) % QueueNum
<1>1. \A k \in 0 .. n - 1 : At(k) \in Slots
  BY DivMod DEF Indices
<1>2. n < QueueNum /\ n \in Nat /\ QueueNum \in Nat
  <2>1. Window(ring, a, b) \subseteq Heads
    BY <1>1 DEF Window, Size
  <2>2. n \in Nat
    BY Sizes, VirtioConstants DEF Indices
  <2> QED BY <2>1, <2>2, Room, VirtioConstants
<1>3. end \in Indices /\ Size(a, end) = n + 1
  <2>1. end = (IF b + 1 = IdxMod THEN 0 ELSE b + 1) /\ end \in Indices
    BY NextIndex
  <2>2. Size(a, end) = IF a <= end THEN end - a ELSE end - a + IdxMod
    BY <2>1, Sizes
  <2>3. n = IF a <= b THEN b - a ELSE b - a + IdxMod
    BY Sizes
  <2>4. QueueNum < IdxMod /\ IdxMod \in Nat
    BY VirtioConstants
  <2> HIDE DEF n, end
  <2> QED BY <1>2, <2>1, <2>2, <2>3, <2>4 DEF Indices
<1>4. b % QueueNum = At(n) /\ At(n) \in Slots
  <2>1. (b - 0) % QueueNum = (a + (n - 0)) % QueueNum
    BY EndSlot
  <2>2. b - 0 = b /\ n - 0 = n /\ a + n \in Int
    BY <1>2 DEF Indices
  <2> QED BY <2>1, <2>2, DivMod
<1>5. \A k \in 0 .. n - 1 : At(k) # At(n)
  <2> SUFFICES ASSUME NEW k \in 0 .. n - 1, At(k) = At(n) PROVE FALSE
    OBVIOUS
  <2>1. a \in Int /\ k \in Slots /\ n \in Slots
    BY <1>2 DEF Slots, Indices
  <2>2. k = n
    BY <2>1, SlotsDiffer
  <2> QED BY <1>2, <2>2
<1>6. longer \in [Slots -> Heads] /\ longer[At(n)] = d /\ \A k \in 0 .. n - 1 : longer[At(k)] = ring[At(k)]
  BY <1>1, <1>4, <1>5
<1>7. Window(ring, a, b) = {ring[At(k)] : k \in 0 .. n - 1}
  BY DEF Window, Size
<1>8. Window(longer, a, end) = {longer[At(k)] : k \in 0 .. n}
  <2>1. Window(longer, a, end) = {longer[At(k)] : k \in 0 .. Size(a, end) - 1}
    BY DEF Window, Size
  <2>2. Size(a, end) - 1 = n
    BY <1>2, <1>3
  <2> QED BY <2>1, <2>2
<1>9. \A j, k \in 0 .. n - 1 : ring[At(j)] = ring[At(k)] => j = k
  BY DEF Spread
<1> HIDE DEF longer, end, n, At
<1>10. 0 .. n = (0 .. n - 1) \cup {n}
  BY <1>2
<1>11. Window(longer, a, end) = Window(ring, a, b) \cup {d}
  BY <1>6, <1>7, <1>8, <1>10
<1>12. \A j, k \in 0 .. n : longer[At(j)] = longer[At(k)] => j = k
  BY <1>6, <1>7, <1>9, <1>10
<1>13. Spread(longer, a, end)
  <2>1. Size(a, end) - 1 = n
    BY <1>2, <1>3
  <2> QED BY <1>12, <2>1 DEF Spread, At
<1> QED BY <1>3, <1>6, <1>11, <1>13 DEF longer, end

LEMMA RingTail ==
  ASSUME NEW ring, NEW a \in Indices, NEW b \in Indices, Spread(ring, a, b), a # b
  PROVE  LET rest == (a + 1) % IdxMod
             d == ring[a % QueueNum]
         IN  /\ rest \in Indices /\ Spread(ring, rest, b)
             /\ d \in Window(ring, a, b) /\ Window(ring, rest, b) = Window(ring, a, b) \ {d}
<1> DEFINE rest == (a + 1) % IdxMod
           n == Size(a, b)
           At(k) == (a + k) % QueueNum
<1>1. n \in Nat /\ n # 0
  BY Sizes, VirtioConstants DEF Indices
<1>2. rest \in Indices /\ Size(rest, b) = n - 1
  <2>1. rest = (IF a + 1 = IdxMod THEN 0 ELSE a + 1) /\ rest \in Indices
    BY NextIndex
  <2>2. Size(rest, b) = IF rest <= b THEN b - rest ELSE b - rest + IdxMod
    BY <2>1, Sizes
  <2>3. n = IF a <= b THEN b - a ELSE b - a + IdxMod
    BY Sizes
  <2>4. IdxMod \in Nat
    BY VirtioConstants
  <2> HIDE DEF n, rest
  <2> QED BY <1>1, <2>1, <2>2, <2>3, <2>4 DEF Indices
<1>3. Window(ring, a, b) = {ring[At(k)] : k \in 0 .. n - 1}
  BY DEF Window, Size
<1>4. \A k \in Int : (rest + k) % QueueNum = At(k + 1)
  BY SecondSlot
<1>5. Window(ring, rest, b) = {ring[At(k + 1)] : k \in 0 .. n - 2}
  <2>1. Window(ring, rest, b) = {ring[(rest + k) % QueueNum] : k \in 0 .. Size(rest, b) - 1}
    BY DEF Window, Size
  <2>2. Size(rest, b) - 1 = n - 2
    BY <1>1, <1>2
  <2> HIDE DEF rest, n, At
  <2> QED BY <1>4, <2>1, <2>2
<1>6. ring[a % QueueNum] = ring[At(0)]
  <2>1. a + 0 = a
    BY DEF Indices
  <2> QED BY <2>1
<1>7. \A j, k \in 0 .. n - 1 : ring[At(j)] = ring[At(k)] => j = k
  BY DEF Spread
<1>8. Spread(ring, rest, b)
  <2> SUFFICES ASSUME NEW j \in 0 .. n - 2, NEW k \in 0 .. n - 2, ring[At(j + 1)] = ring[At(k + 1)]
               PROVE  j = k
    <3>1. Size(rest, b) - 1 = n - 2
      BY <1>1, <1>2
    <3>2. \A k \in 0 .. n - 2 : (rest + k) % QueueNum = At(k + 1)
      BY <1>4
    <3> HIDE DEF rest, n, At
    <3> QED BY <3>1, <3>2 DEF Spread
  <2> HIDE DEF At, n
  <2>1. j + 1 \in 0 .. n - 1 /\ k + 1 \in 0 .. n - 1
    BY <1>1
  <2> QED BY <1>7, <2>1
<1> HIDE DEF rest, n, At
<1>9. ring[At(0)] \in Window(ring, a, b)
  BY <1>1, <1>3
<1>10. Window(ring, rest, b) = Window(ring, a, b) \ {ring[At(0)]}
  <2>1. ASSUME NEW x \in Window(ring, rest, b) PROVE x \in Window(ring, a, b) \ {ring[At(0)]}
    <3>1. PICK k \in 0 .. n - 2 : x = ring[At(k + 1)]
      BY <1>5, <2>1
    <3>2. k + 1 \in 0 .. n - 1 /\ 0 \in 0 .. n - 1 /\ k + 1 # 0
      BY <1>1
    <3> QED BY <1>3, <1>7, <3>1, <3>2
  <2>2. ASSUME NEW x \in Window(ring, a, b) \ {ring[At(0)]} PROVE x \in Window(ring, rest, b)
    <3>1. PICK k \in 0 .. n - 1 : x = ring[At(k)]
      BY <1>3, <2>2
    <3>2. k - 1 \in 0 .. n - 2 /\ (k - 1) + 1 = k
      BY <1>1, <2>2, <3>1
    <3> QED BY <1>5, <3>1, <3>2
  <2> QED BY <2>1, <2>2
<1> QED BY <1>2, <1>6, <1>8, <1>9, <1>10 DEF rest
-----------------------------------------------------------------------------
(* The list of operations.                                                 *)
Op == [head : Heads, left : 0 .. Latency]
HeadsOf(list) == {list[i].head : i \in DOMAIN list}
Once(list) == \A i, k \in DOMAIN list : list[i].head = list[k].head => i = k

LEMMA ListPrefixed ==
  ASSUME NEW new \in Seq(Op), NEW old \in Seq(Op),
         Once(new), Once(old), HeadsOf(new) \cap HeadsOf(old) = {}
  PROVE  /\ new \o old \in Seq(Op) /\ Once(new \o old)
         /\ HeadsOf(new \o old) = HeadsOf(new) \cup HeadsOf(old)
<1> DEFINE m == Len(new)
           n == Len(old)
           both == new \o old
<1>1. /\ m \in Nat /\ n \in Nat /\ DOMAIN new = 1 .. m /\ DOMAIN old = 1 .. n
      /\ both \in Seq(Op) /\ DOMAIN both = 1 .. m + n
      /\ \A i \in 1 .. m + n : both[i] = IF i <= m THEN new[i] ELSE old[i - m]
  BY ConcatProperties
<1> HIDE DEF m, n, both
<1>2. \A i \in 1 .. m : i \in 1 .. m + n /\ both[i] = new[i]
  BY <1>1
<1>3. \A i \in 1 .. n : i + m \in 1 .. m + n /\ both[i + m] = old[i]
  BY <1>1
<1>4. ASSUME NEW i \in 1 .. m + n
      PROVE  i \in 1 .. m \/ (i - m \in 1 .. n /\ i = (i - m) + m)
  BY <1>1
<1>5. HeadsOf(both) = HeadsOf(new) \cup HeadsOf(old)
  <2>1. HeadsOf(both) \subseteq HeadsOf(new) \cup HeadsOf(old)
    <3> SUFFICES ASSUME NEW i \in 1 .. m + n PROVE both[i].head \in HeadsOf(new) \cup HeadsOf(old)
      BY <1>1 DEF HeadsOf
    <3>1. CASE i \in 1 .. m
      BY <1>1, <1>2, <3>1 DEF HeadsOf
    <3>2. CASE i - m \in 1 .. n /\ i = (i - m) + m
      BY <1>1, <1>3, <3>2 DEF HeadsOf
    <3> QED BY <1>4, <3>1, <3>2
  <2>2. HeadsOf(new) \subseteq HeadsOf(both)
    BY <1>1, <1>2 DEF HeadsOf
  <2>3. HeadsOf(old) \subseteq HeadsOf(both)
    <3> SUFFICES ASSUME NEW i \in 1 .. n PROVE old[i].head \in HeadsOf(both)
      BY <1>1 DEF HeadsOf
    <3>1. i + m \in DOMAIN both /\ both[i + m] = old[i]
      BY <1>1, <1>3
    <3> QED BY <3>1 DEF HeadsOf
  <2> QED BY <2>1, <2>2, <2>3
<1>6. Once(both)
  <2> SUFFICES ASSUME NEW i \in 1 .. m + n, NEW k \in 1 .. m + n, both[i].head = both[k].head
               PROVE  i = k
    BY <1>1 DEF Once
  <2>1. CASE i \in 1 .. m /\ k \in 1 .. m
    BY <1>1, <1>2, <2>1 DEF Once
  <2>2. CASE i - m \in 1 .. n /\ k - m \in 1 .. n
    <3>1. both[i] = old[i - m] /\ both[k] = old[k - m]
      BY <1>1, <2>2
    <3>2. i - m = k - m
      BY <1>1, <2>2, <3>1 DEF Once
    <3> QED BY <1>1, <3>2
  <2>3. CASE i \in 1 .. m /\ k - m \in 1 .. n
    <3>1. both[i] = new[i] /\ both[k] = old[k - m]
      BY <1>1, <1>2, <2>3
    <3>2. both[i].head \in HeadsOf(new) /\ both[k].head \in HeadsOf(old)
      BY <1>1, <2>3, <3>1 DEF HeadsOf
    <3> QED BY <3>2
  <2>4. CASE k \in 1 .. m /\ i - m \in 1 .. n
    <3>1. both[k] = new[k] /\ both[i] = old[i - m]
      BY <1>1, <1>2, <2>4
    <3>2. both[k].head \in HeadsOf(new) /\ both[i].head \in HeadsOf(old)
      BY <1>1, <2>4, <3>1 DEF HeadsOf
    <3> QED BY <3>2
  <2> QED BY <1>4, <2>1, <2>2, <2>3, <2>4
<1> QED BY <1>1, <1>5, <1>6 DEF both

LEMMA ListRemoved ==
  ASSUME NEW list \in Seq(Op), NEW i \in DOMAIN list, Once(list)
  PROVE  /\ RemoveAt(list, i) \in Seq(Op) /\ Once(RemoveAt(list, i))
         /\ HeadsOf(RemoveAt(list, i)) = HeadsOf(list) \ {list[i].head}
<1> DEFINE n == Len(list)
           rest == RemoveAt(list, i)
           before == SubSeq(list, 1, i - 1)
           after == SubSeq(list, i + 1, n)
<1>1. n \in Nat /\ DOMAIN list = 1 .. n /\ i \in 1 .. n
  OBVIOUS
<1>2. /\ before \in Seq(Op) /\ Len(before) = i - 1
      /\ \A k \in 1 .. i - 1 : before[k] = list[k]
  <2>1. \A k \in 1 .. i - 1 : list[k] \in Op
    BY <1>1
  <2> HIDE DEF n
  <2>2. i - 1 \in Int /\ (IF 1 <= i - 1 THEN (i - 1) - 1 + 1 ELSE 0) = i - 1 /\ (i - 1) - 1 + 1 = i - 1
    BY <1>1
  <2>3. \A k \in 1 .. i - 1 : 1 + k - 1 = k
    BY <1>1
  <2> QED BY <2>1, <2>2, <2>3, SubSeqProperties
<1>3. /\ after \in Seq(Op) /\ Len(after) = n - i
      /\ \A k \in 1 .. n - i : after[k] = list[i + k]
  <2>1. \A k \in i + 1 .. n : list[k] \in Op
    BY <1>1
  <2> HIDE DEF n
  <2>2. i + 1 \in Int /\ n \in Int /\ (IF i + 1 <= n THEN n - (i + 1) + 1 ELSE 0) = n - i /\ n - (i + 1) + 1 = n - i
    BY <1>1
  <2>3. \A k \in 1 .. n - i : (i + 1) + k - 1 = i + k
    BY <1>1
  <2> QED BY <2>1, <2>2, <2>3, SubSeqProperties
<1>4. rest = before \o after
  BY DEF RemoveAt
<1> HIDE DEF n, rest, before, after
<1>5. /\ rest \in Seq(Op) /\ DOMAIN rest = 1 .. n - 1
      /\ \A k \in 1 .. n - 1 : rest[k] = IF k < i THEN list[k] ELSE list[k + 1]
  <2>1. /\ rest \in Seq(Op) /\ Len(rest) = (i - 1) + (n - i)
        /\ \A k \in 1 .. (i - 1) + (n - i) : rest[k] = IF k <= i - 1 THEN before[k] ELSE after[k - (i - 1)]
    <3>1. /\ before \o after \in Seq(Op) /\ Len(before \o after) = Len(before) + Len(after)
          /\ \A k \in 1 .. Len(before) + Len(after) :
                (before \o after)[k] = IF k <= Len(before) THEN before[k] ELSE after[k - Len(before)]
      BY <1>2, <1>3, ConcatProperties
    <3> QED BY <1>2, <1>3, <1>4, <3>1
  <2>2. (i - 1) + (n - i) = n - 1 /\ n - 1 \in Nat
    BY <1>1
  <2>3. ASSUME NEW k \in 1 .. n - 1 PROVE rest[k] = IF k < i THEN list[k] ELSE list[k + 1]
    <3>1. CASE k < i
      <4>1. k <= i - 1 /\ k \in 1 .. i - 1
        BY <1>1, <3>1
      <4> QED BY <1>2, <2>1, <2>2, <3>1, <4>1
    <3>2. CASE ~(k < i)
      <4>1. ~(k <= i - 1) /\ k - (i - 1) \in 1 .. n - i /\ i + (k - (i - 1)) = k + 1
        BY <1>1, <3>2
      <4> QED BY <1>3, <2>1, <2>2, <3>2, <4>1
    <3> QED BY <3>1, <3>2
  <2> QED BY <2>1, <2>2, <2>3
<1> DEFINE from(k) == IF k < i THEN k ELSE k + 1
<1>6. \A k \in 1 .. n - 1 : from(k) \in 1 .. n /\ from(k) # i /\ rest[k] = list[from(k)]
  BY <1>1, <1>5
<1>7. \A j \in 1 .. n : j # i => \E k \in 1 .. n - 1 : j = from(k)
  <2> SUFFICES ASSUME NEW j \in 1 .. n, j # i PROVE \E k \in 1 .. n - 1 : j = from(k)
    OBVIOUS
  <2>1. CASE j < i
    <3>1. j \in 1 .. n - 1 /\ j = from(j)
      BY <1>1, <2>1
    <3> QED BY <3>1
  <2>2. CASE j > i
    <3>1. j - 1 \in 1 .. n - 1 /\ j = from(j - 1)
      BY <1>1, <2>2
    <3> QED BY <3>1
  <2> QED BY <1>1, <2>1, <2>2
<1>8. \A j, k \in 1 .. n - 1 : from(j) = from(k) => j = k
  BY <1>1
<1> HIDE DEF from
<1>9. \A j, k \in 1 .. n : list[j].head = list[k].head => j = k
  BY <1>1 DEF Once
<1>10. Once(rest)
  BY <1>5, <1>6, <1>8, <1>9 DEF Once
<1>11. HeadsOf(rest) \subseteq HeadsOf(list) \ {list[i].head}
  <2> SUFFICES ASSUME NEW k \in 1 .. n - 1 PROVE rest[k].head \in HeadsOf(list) \ {list[i].head}
    BY <1>5 DEF HeadsOf
  <2>1. rest[k].head = list[from(k)].head /\ from(k) \in 1 .. n /\ from(k) # i
    BY <1>6
  <2> QED BY <1>1, <1>9, <2>1 DEF HeadsOf
<1>12. HeadsOf(list) \ {list[i].head} \subseteq HeadsOf(rest)
  <2> SUFFICES ASSUME NEW j \in 1 .. n, j # i PROVE list[j].head \in HeadsOf(rest)
    BY <1>1 DEF HeadsOf
  <2>1. PICK k \in 1 .. n - 1 : j = from(k)
    BY <1>7
  <2> QED BY <1>5, <1>6, <2>1 DEF HeadsOf
<1> QED BY <1>5, <1>10, <1>11, <1>12 DEF rest
-----------------------------------------------------------------------------
(* The inductive invariant: OnePlace, with the entries of the two rings    *)
(* told apart one by one instead of counted.                               *)
Apart ==
  /\ Started \cap Notified = {} /\ Started \cap Finished = {} /\ Notified \cap Finished = {}
  /\ Once(ops)
  /\ Spread(avail, prevAvail, availIdx) /\ Spread(used, usedSeen, usedIdx)

VirtioInv == TypeOK /\ Apart

LEMMA ApartIsOnePlace == ASSUME TypeOK, Apart PROVE OnePlace
<1>1. Cardinality(Notified) = (availIdx - prevAvail) % IdxMod
  BY RingCount DEF Notified, Size, TypeOK, Apart
<1>2. Cardinality(Finished) = (usedIdx - usedSeen) % IdxMod
  BY RingCount DEF Finished, Size, TypeOK, Apart
<1> QED BY <1>1, <1>2 DEF Apart, OnePlace, Once

LEMMA StartedHeads == Started = HeadsOf(ops) /\ Started' = HeadsOf(ops')
BY DEF Started, HeadsOf

LEMMA WindowInHeads ==
  ASSUME NEW ring \in [Slots -> Heads], NEW a \in Indices, NEW b \in Indices
  PROVE  Window(ring, a, b) \subseteq Heads
<1> SUFFICES ASSUME NEW k \in 0 .. ((b - a) % IdxMod) - 1 PROVE ring[(a + k) % QueueNum] \in Heads
  BY DEF Window
<1>1. (a + k) % QueueNum \in Slots
  BY DivMod DEF Indices
<1> QED BY <1>1

(* What process_queue puts before the list: what the avail ring shows.     *)
LEMMA NewOps ==
  ASSUME NEW ring \in [Slots -> Heads], NEW a \in Indices, NEW b \in Indices, Spread(ring, a, b)
  PROVE  LET new == [k \in 1 .. Size(a, b) |-> [head |-> ring[(b - k) % QueueNum], left |-> Latency]]
         IN  new \in Seq(Op) /\ Once(new) /\ HeadsOf(new) = Window(ring, a, b)
<1> DEFINE n == Size(a, b)
           At(k) == (a + k) % QueueNum
           new == [k \in 1 .. n |-> [head |-> ring[(b - k) % QueueNum], left |-> Latency]]
<1>1. n \in Nat
  BY Sizes, VirtioConstants DEF Indices
<1>2. \A k \in 1 .. n : (b - k) % QueueNum = At(n - k)
  BY EndSlot
<1>3. \A j, k \in 0 .. n - 1 : ring[At(j)] = ring[At(k)] => j = k
  BY DEF Spread
<1>4. Window(ring, a, b) = {ring[At(k)] : k \in 0 .. n - 1}
  BY DEF Window, Size
<1>5. ASSUME NEW k \in 1 .. n PROVE [head |-> ring[(b - k) % QueueNum], left |-> Latency] \in Op
  <2>1. (b - k) % QueueNum \in Slots
    BY DivMod DEF Indices
  <2>2. Latency \in 0 .. Latency
    BY VirtioConstants
  <2> QED BY <2>1, <2>2 DEF Op
<1> HIDE DEF n, At
<1>6. new \in Seq(Op) /\ DOMAIN new = 1 .. n
  BY <1>1, <1>5
<1>7. \A k \in 1 .. n : new[k].head = ring[At(n - k)]
  BY <1>2
<1> HIDE DEF new
<1>8. \A k \in 1 .. n : n - k \in 0 .. n - 1
  BY <1>1
<1>9. Once(new)
  <2> SUFFICES ASSUME NEW j \in 1 .. n, NEW k \in 1 .. n, new[j].head = new[k].head PROVE j = k
    BY <1>6 DEF Once
  <2>1. n - j = n - k
    BY <1>3, <1>7, <1>8
  <2> QED BY <1>1, <2>1
<1>10. HeadsOf(new) \subseteq Window(ring, a, b)
  BY <1>4, <1>6, <1>7, <1>8 DEF HeadsOf
<1>11. Window(ring, a, b) \subseteq HeadsOf(new)
  <2> SUFFICES ASSUME NEW k \in 0 .. n - 1 PROVE ring[At(k)] \in HeadsOf(new)
    BY <1>4
  <2>1. n - k \in 1 .. n /\ n - (n - k) = k
    BY <1>1
  <2> QED BY <1>6, <1>7, <2>1 DEF HeadsOf
<1> QED BY <1>6, <1>9, <1>10, <1>11 DEF new, n

-----------------------------------------------------------------------------
(* What each step does to the places of a head.                            *)
LEMMA ProcessMoves ==
  ASSUME VirtioInv, ProcessQueue
  PROVE  /\ Started' = Started \cup Notified /\ Notified' = {} /\ Finished' = Finished
         /\ ops' \in Seq(Op) /\ Apart'
<1> DEFINE new == [k \in 1 .. Size(prevAvail, availIdx) |->
                     [head |-> avail[(availIdx - k) % QueueNum], left |-> Latency]]
<1>0. avail \in [Slots -> Heads] /\ prevAvail \in Indices /\ availIdx \in Indices /\ ops \in Seq(Op)
  BY DEF VirtioInv, TypeOK, Op
<1>1. new \in Seq(Op) /\ Once(new) /\ HeadsOf(new) = Notified
  BY <1>0, NewOps DEF VirtioInv, Apart, Notified
<1>2. ops' = new \o ops /\ prevAvail' = availIdx /\ UNCHANGED rings /\ UNCHANGED usedSeen
  BY DEF ProcessQueue, Size
<1> HIDE DEF new
<1>3. Once(ops) /\ Notified \cap HeadsOf(ops) = {}
  BY StartedHeads DEF VirtioInv, Apart
<1>4. ops' \in Seq(Op) /\ Once(ops') /\ Started' = Started \cup Notified
  BY <1>0, <1>1, <1>2, <1>3, ListPrefixed, StartedHeads
<1>5. Notified' = {} /\ Spread(avail, prevAvail, availIdx)'
  BY <1>0, <1>2, RingEmpty DEF Notified, rings
<1>6. Finished' = Finished /\ Spread(used, usedSeen, usedIdx)'
  BY <1>2 DEF Finished, rings, VirtioInv, Apart
<1>7. Apart'
  BY <1>4, <1>5, <1>6 DEF VirtioInv, Apart
<1> QED BY <1>4, <1>5, <1>6, <1>7

LEMMA TickMoves ==
  ASSUME VirtioInv, Tick
  PROVE  /\ Started' = Started /\ Notified' = Notified /\ Finished' = Finished
         /\ ops' \in Seq(Op) /\ Apart'
<1>0. ops \in Seq(Op) /\ DOMAIN ops = 1 .. Len(ops)
  BY DEF VirtioInv, TypeOK, Op
<1>1. ops' = [i \in DOMAIN ops |-> [ops[i] EXCEPT !.left = @ - 1]] /\ ~Updating
  BY DEF Tick
<1>2. ASSUME NEW i \in DOMAIN ops
      PROVE  [ops[i] EXCEPT !.left = @ - 1] \in Op /\ [ops[i] EXCEPT !.left = @ - 1].head = ops[i].head
  <2>1. ops[i] \in Op /\ ops[i].left # 0
    BY <1>0, <1>1 DEF Updating, Due
  <2>2. ops[i].left - 1 \in 0 .. Latency
    BY <2>1, VirtioConstants DEF Op
  <2>3. [ops[i] EXCEPT !.left = @ - 1] = [head |-> ops[i].head, left |-> ops[i].left - 1]
    BY <2>1 DEF Op
  <2> QED BY <2>1, <2>2, <2>3 DEF Op
<1>3. ops' \in Seq(Op) /\ DOMAIN ops' = DOMAIN ops
  BY <1>0, <1>1, <1>2
<1>4. \A i \in DOMAIN ops : ops'[i].head = ops[i].head
  BY <1>1, <1>2
<1>5. Started' = Started /\ Once(ops')
  BY <1>3, <1>4 DEF Started, VirtioInv, Apart, Once
<1>6. UNCHANGED <<avail, availIdx, used, usedIdx, prevAvail, usedSeen>>
  BY DEF Tick, rings
<1>7. Notified' = Notified /\ Finished' = Finished
  BY <1>6 DEF Notified, Finished
<1>8. Apart'
  BY <1>5, <1>6, <1>7 DEF VirtioInv, Apart
<1> QED BY <1>3, <1>5, <1>7, <1>8

LEMMA FirstDue == ASSUME VirtioInv, Updating PROVE Min(Due) \in DOMAIN ops /\ ops[Min(Due)].head \in Heads
<1>1. DOMAIN ops = 1 .. Len(ops) /\ Len(ops) \in Nat /\ \A i \in DOMAIN ops : ops[i].head \in Heads
  <2>1. ops \in Seq(Op)
    BY DEF VirtioInv, TypeOK, Op
  <2>2. DOMAIN ops = 1 .. Len(ops) /\ Len(ops) \in Nat /\ \A i \in DOMAIN ops : ops[i] \in Op
    BY <2>1
  <2> QED BY <2>2 DEF Op
<1>2. Due \in SUBSET Nat /\ Due # {} /\ Due \subseteq DOMAIN ops
  BY <1>1 DEF Due, Updating
<1>3. PICK m \in Due : \A n \in Due : m <= n
  BY <1>2, LeastElement
<1>4. Min(Due) \in Due
  BY <1>3 DEF Min
<1> QED BY <1>1, <1>2, <1>4

LEMMA CompleteMoves ==
  ASSUME VirtioInv, Complete
  PROVE  LET d == ops[Min(Due)].head
         IN  /\ d \in Heads /\ d \in Started
             /\ Started' = Started \ {d} /\ Notified' = Notified /\ Finished' = Finished \cup {d}
             /\ ops' \in Seq(Op) /\ used' \in [Slots -> Heads] /\ usedIdx' \in Indices /\ Apart'
<1> DEFINE i == Min(Due)
           d == ops[i].head
<1>0. /\ ops \in Seq(Op) /\ used \in [Slots -> Heads] /\ usedSeen \in Indices /\ usedIdx \in Indices
      /\ Once(ops) /\ Spread(used, usedSeen, usedIdx)
  BY DEF VirtioInv, TypeOK, Op, Apart
<1>1. i \in DOMAIN ops /\ d \in Heads
  BY FirstDue DEF Complete
<1>2. /\ used' = [used EXCEPT ![usedIdx % QueueNum] = d] /\ usedIdx' = (usedIdx + 1) % IdxMod
      /\ ops' = RemoveAt(ops, i)
      /\ UNCHANGED <<avail, availIdx, prevAvail, usedSeen>>
  BY DEF Complete
<1>3. d \in Started
  BY <1>1 DEF Started
<1> HIDE DEF i
<1>4. ops' \in Seq(Op) /\ Once(ops') /\ Started' = Started \ {d}
  BY <1>0, <1>1, <1>2, ListRemoved, StartedHeads
<1> HIDE DEF d
<1>5. d \notin Window(used, usedSeen, usedIdx)
  BY <1>3 DEF Finished, VirtioInv, Apart
<1>6. /\ used' \in [Slots -> Heads] /\ usedIdx' \in Indices
      /\ Finished' = Finished \cup {d} /\ Spread(used, usedSeen, usedIdx)'
  <2>1. d \notin Window(used, usedSeen, usedIdx)
    BY <1>5 DEF Finished
  <2>2. /\ [used EXCEPT ![usedIdx % QueueNum] = d] \in [Slots -> Heads] /\ (usedIdx + 1) % IdxMod \in Indices
        /\ Window([used EXCEPT ![usedIdx % QueueNum] = d], usedSeen, (usedIdx + 1) % IdxMod)
             = Window(used, usedSeen, usedIdx) \cup {d}
        /\ Spread([used EXCEPT ![usedIdx % QueueNum] = d], usedSeen, (usedIdx + 1) % IdxMod)
    BY <1>0, <1>1, <2>1, RingAppend
  <2> QED BY <1>2, <2>2 DEF Finished
<1>7. Notified' = Notified
  BY <1>2 DEF Notified
<1>8. Apart'
  BY <1>2, <1>3, <1>4, <1>6, <1>7 DEF VirtioInv, Apart
<1> QED BY <1>1, <1>3, <1>4, <1>6, <1>7, <1>8 DEF d, i

LEMMA SubmitMoves ==
  ASSUME VirtioInv, NEW d \in Heads, NEW t \in Traffic, Submit(d, t)
  PROVE  /\ d \notin Started \cup Notified \cup Finished
         /\ Started' = Started /\ Notified' = Notified \cup {d} /\ Finished' = Finished
         /\ avail' \in [Slots -> Heads] /\ availIdx' \in Indices /\ Apart'
<1>0. /\ avail \in [Slots -> Heads] /\ prevAvail \in Indices /\ availIdx \in Indices
      /\ Spread(avail, prevAvail, availIdx)
  BY DEF VirtioInv, TypeOK, Apart
<1>1. d \notin Started \cup Notified \cup Finished
  BY DEF Submit, Free
<1>2. /\ avail' = [avail EXCEPT ![availIdx % QueueNum] = d] /\ availIdx' = (availIdx + 1) % IdxMod
      /\ UNCHANGED <<used, usedIdx, prevAvail, ops, usedSeen>>
  BY DEF Submit
<1>3. /\ avail' \in [Slots -> Heads] /\ availIdx' \in Indices
      /\ Notified' = Notified \cup {d} /\ Spread(avail, prevAvail, availIdx)'
  <2>1. d \notin Window(avail, prevAvail, availIdx)
    BY <1>1 DEF Notified
  <2>2. /\ [avail EXCEPT ![availIdx % QueueNum] = d] \in [Slots -> Heads] /\ (availIdx + 1) % IdxMod \in Indices
        /\ Window([avail EXCEPT ![availIdx % QueueNum] = d], prevAvail, (availIdx + 1) % IdxMod)
             = Window(avail, prevAvail, availIdx) \cup {d}
        /\ Spread([avail EXCEPT ![availIdx % QueueNum] = d], prevAvail, (availIdx + 1) % IdxMod)
    BY <1>0, <1>1, <2>1, RingAppend
  <2> QED BY <1>2, <2>2 DEF Notified
<1>4. Started' = Started /\ Finished' = Finished
  BY <1>2 DEF Started, Finished
<1>5. Apart'
  BY <1>1, <1>2, <1>3, <1>4 DEF VirtioInv, Apart
<1> QED BY <1>1, <1>3, <1>4, <1>5

LEMMA CollectMoves ==
  ASSUME VirtioInv, Collect
  PROVE  LET d == used[usedSeen % QueueNum]
         IN  /\ d \in Heads /\ d \in Finished
             /\ Started' = Started /\ Notified' = Notified /\ Finished' = Finished \ {d}
             /\ usedSeen' \in Indices /\ Apart'
<1> DEFINE d == used[usedSeen % QueueNum]
<1>0. /\ used \in [Slots -> Heads] /\ usedSeen \in Indices /\ usedIdx \in Indices
      /\ Spread(used, usedSeen, usedIdx)
  BY DEF VirtioInv, TypeOK, Apart
<1>1. usedSeen' = (usedSeen + 1) % IdxMod /\ usedSeen # usedIdx
      /\ UNCHANGED <<avail, availIdx, used, usedIdx, prevAvail, ops>>
  BY DEF Collect, rings
<1>2. d \in Finished /\ Finished' = Finished \ {d} /\ usedSeen' \in Indices /\ Spread(used, usedSeen, usedIdx)'
  BY <1>0, <1>1, RingTail DEF Finished
<1>3. d \in Heads
  <2>1. usedSeen % QueueNum \in Slots
    BY <1>0, DivMod DEF Indices
  <2> QED BY <1>0, <2>1
<1>4. Started' = Started /\ Notified' = Notified
  BY <1>1 DEF Started, Notified
<1>5. Apart'
  BY <1>1, <1>2, <1>4 DEF VirtioInv, Apart
<1> QED BY <1>2, <1>3, <1>4, <1>5

LEMMA NothingMoves ==
  ASSUME VirtioInv, UNCHANGED <<rings, prevAvail, ops, usedSeen>>
  PROVE  Started' = Started /\ Notified' = Notified /\ Finished' = Finished /\ Apart'
<1>1. Started' = Started /\ Notified' = Notified /\ Finished' = Finished
  BY DEF Started, Notified, Finished, rings
<1> QED BY <1>1 DEF VirtioInv, Apart, rings
-----------------------------------------------------------------------------
(* What the data of a completed operation does.                            *)
LEMMA TransferKeeps ==
  ASSUME TypeOK, CacheCoherent, NEW d \in Heads, Transfer(d)
  PROVE  /\ disk' \in [Blocks -> Values] /\ buf' \in [Heads -> Values]
         /\ cache' \in [valid : BOOLEAN, block : Blocks, data : Values] /\ CacheCoherent'
         /\ \/ /\ req[d].type = "in"
               /\ buf' = [buf EXCEPT ![d] = disk[req[d].block]] /\ UNCHANGED disk
            \/ /\ req[d].type = "out"
               /\ disk' = [disk EXCEPT ![req[d].block] = buf[d]] /\ UNCHANGED buf
<1> DEFINE b == req[d].block
<1>0. /\ disk \in [Blocks -> Values] /\ buf \in [Heads -> Values] /\ b \in Blocks
      /\ cache \in [valid : BOOLEAN, block : Blocks, data : Values]
      /\ req[d].type \in {"in", "out"}
  BY DEF TypeOK, Requests
<1>1. Load(b) = [valid |-> TRUE, block |-> b, data |-> disk[b]]
  <2>1. CASE cache.valid /\ cache.block = b
    <3>1. cache.data = disk[b] /\ cache.valid = TRUE
      BY <1>0, <2>1 DEF CacheCoherent
    <3>2. cache = [valid |-> TRUE, block |-> b, data |-> disk[b]]
      BY <1>0, <2>1, <3>1
    <3> QED BY <2>1, <3>2 DEF Load
  <2>2. CASE ~(cache.valid /\ cache.block = b)
    BY <2>2 DEF Load
  <2> QED BY <2>1, <2>2
<1>2. CASE req[d].type = "in"
  <2>1. cache' = [valid |-> TRUE, block |-> b, data |-> disk[b]]
    BY <1>1, <1>2 DEF Transfer
  <2>2. cache'.data = disk[b] /\ cache'.block = b
    BY <2>1
  <2>3. buf' = [buf EXCEPT ![d] = disk[b]] /\ disk' = disk
    BY <1>2, <2>2 DEF Transfer
  <2>4. cache' \in [valid : BOOLEAN, block : Blocks, data : Values]
    BY <1>0, <2>1
  <2> QED BY <1>0, <1>2, <2>2, <2>3, <2>4 DEF CacheCoherent
<1>3. CASE req[d].type # "in"
  <2>1. cache' = [[valid |-> TRUE, block |-> b, data |-> disk[b]] EXCEPT !.data = buf[d]]
    BY <1>1, <1>3 DEF Transfer
  <2>2. cache' = [valid |-> TRUE, block |-> b, data |-> buf[d]]
    BY <2>1
  <2>3. cache'.data = buf[d] /\ cache'.block = b
    BY <2>2
  <2>4. disk' = [disk EXCEPT ![b] = buf[d]] /\ buf' = buf
    BY <1>3, <2>3 DEF Transfer
  <2>5. cache' \in [valid : BOOLEAN, block : Blocks, data : Values]
    BY <1>0, <2>2
  <2> QED BY <1>0, <1>3, <2>3, <2>4, <2>5 DEF CacheCoherent
<1> QED BY <1>2, <1>3

LEMMA CompleteData ==
  ASSUME VirtioInv, CacheCoherent, Complete
  PROVE  LET d == ops[Min(Due)].head
         IN  /\ disk' \in [Blocks -> Values] /\ buf' \in [Heads -> Values]
             /\ cache' \in [valid : BOOLEAN, block : Blocks, data : Values] /\ CacheCoherent'
             /\ mapped => \/ /\ req[d].type = "in"
                             /\ buf' = [buf EXCEPT ![d] = disk[req[d].block]] /\ UNCHANGED disk
                          \/ /\ req[d].type = "out"
                             /\ disk' = [disk EXCEPT ![req[d].block] = buf[d]] /\ UNCHANGED buf
             /\ ~mapped => UNCHANGED <<disk, buf>>
<1> DEFINE d == ops[Min(Due)].head
<1>1. d \in Heads
  BY FirstDue DEF Complete
<1>2. IF mapped THEN Transfer(d) ELSE UNCHANGED <<disk, cache, buf>>
  BY DEF Complete
<1> HIDE DEF d
<1>3. CASE mapped
  <2>1. /\ disk' \in [Blocks -> Values] /\ buf' \in [Heads -> Values]
        /\ cache' \in [valid : BOOLEAN, block : Blocks, data : Values] /\ CacheCoherent'
        /\ \/ /\ req[d].type = "in"
              /\ buf' = [buf EXCEPT ![d] = disk[req[d].block]] /\ UNCHANGED disk
           \/ /\ req[d].type = "out"
              /\ disk' = [disk EXCEPT ![req[d].block] = buf[d]] /\ UNCHANGED buf
    BY <1>1, <1>2, <1>3, TransferKeeps DEF VirtioInv
  <2> QED BY <1>3, <2>1 DEF d
<1>4. CASE ~mapped
  BY <1>2, <1>4 DEF VirtioInv, TypeOK, CacheCoherent
<1> QED BY <1>3, <1>4

-----------------------------------------------------------------------------
SafeInv == VirtioInv /\ CacheCoherent

LEMMA Blanks == ASSUME NEW r \in Requests, NEW v \in Values PROVE Blank.req \in Requests /\ Blank.buf \in Values
<1>1. (CHOOSE q \in Requests : TRUE) \in Requests /\ (CHOOSE q \in Values : TRUE) \in Values
  OBVIOUS
<1> QED BY <1>1 DEF Blank

LEMMA InitSafe == Init => SafeInv
<1> SUFFICES ASSUME Init PROVE SafeInv
  OBVIOUS
<1>1. PICK b \in Blocks : cache = [valid |-> FALSE, block |-> b, data |-> disk[b]]
  BY DEF Init
<1>2. PICK d \in Heads : avail = [s \in Slots |-> d] /\ used = avail
  BY DEF Init
<1>3. disk \in [Blocks -> Values] /\ disk[b] \in Values
  BY VirtioConstants DEF Init
<1>4. [type |-> "in", block |-> b] \in Requests
  BY DEF Requests
<1>5. req \in [Heads -> Requests] /\ buf \in [Heads -> Values]
  BY <1>3, <1>4, Blanks DEF Init
<1>6. 0 \in Indices
  BY VirtioConstants DEF Indices
<1>7. ops = <<>> /\ ops \in Seq([head : Heads, left : 0 .. Latency])
  BY DEF Init
<1>8. TypeOK
  BY <1>1, <1>2, <1>3, <1>5, <1>6, <1>7 DEF Init, TypeOK
<1>9. Notified = {} /\ Finished = {} /\ Spread(avail, prevAvail, availIdx) /\ Spread(used, usedSeen, usedIdx)
  BY <1>6, RingEmpty DEF Init, Notified, Finished
<1>10. Apart
  BY <1>7, <1>9 DEF Apart, Once
<1>11. CacheCoherent
  BY <1>1 DEF CacheCoherent
<1> QED BY <1>8, <1>10, <1>11 DEF SafeInv, VirtioInv

LEMMA DeviceSafe == ASSUME SafeInv, Device \/ ProcessQueue PROVE SafeInv'
<1> USE DEF SafeInv
<1>1. CASE ProcessQueue
  <2>1. ops' \in Seq(Op) /\ Apart'
    BY <1>1, ProcessMoves
  <2>2. TypeOK'
    BY <1>1, <2>1 DEF ProcessQueue, data, rings, plic, VirtioInv, TypeOK, Op
  <2> QED BY <1>1, <2>1, <2>2 DEF ProcessQueue, data, CacheCoherent, VirtioInv
<1>2. CASE Tick
  <2>1. ops' \in Seq(Op) /\ Apart'
    BY <1>2, TickMoves
  <2>2. TypeOK'
    BY <1>2, <2>1 DEF Tick, data, rings, plic, VirtioInv, TypeOK, Op
  <2> QED BY <1>2, <2>1, <2>2 DEF Tick, data, CacheCoherent, VirtioInv
<1>3. CASE Complete
  <2>1. ops' \in Seq(Op) /\ used' \in [Slots -> Heads] /\ usedIdx' \in Indices /\ Apart'
    BY <1>3, CompleteMoves
  <2>2. /\ disk' \in [Blocks -> Values] /\ buf' \in [Heads -> Values]
        /\ cache' \in [valid : BOOLEAN, block : Blocks, data : Values] /\ CacheCoherent'
    BY <1>3, CompleteData
  <2>3. /\ request' = TRUE
        /\ UNCHANGED <<req, avail, availIdx, prevAvail, mapped, inService, handler, usedSeen>>
    BY <1>3 DEF Complete
  <2>4. TypeOK'
    BY <2>1, <2>2, <2>3 DEF VirtioInv, TypeOK, Op
  <2> QED BY <2>1, <2>2, <2>4 DEF VirtioInv
<1> QED BY <1>1, <1>2, <1>3 DEF Device

LEMMA GuestSafe ==
  ASSUME SafeInv,
         \/ Handler \/ SwitchTable
         \/ \E d \in Heads, t \in Traffic : Submit(d, t)
         \/ UNCHANGED vars
  PROVE  SafeInv'
<1> USE DEF SafeInv
<1>1. CASE Claim \/ Leave \/ EndOfInterrupt \/ SwitchTable \/ UNCHANGED vars
  <2>1. UNCHANGED <<data, rings, prevAvail, ops, usedSeen>>
    BY <1>1 DEF Claim, Leave, EndOfInterrupt, SwitchTable, vars
  <2>2. mapped' \in BOOLEAN
    BY <1>1 DEF Claim, Leave, EndOfInterrupt, SwitchTable, vars, VirtioInv, TypeOK
  <2>3. request' \in BOOLEAN /\ inService' \in BOOLEAN /\ handler' \in {"out", "in", "leaving"}
    BY <1>1 DEF Claim, Leave, EndOfInterrupt, SwitchTable, vars, plic, VirtioInv, TypeOK
  <2>4. TypeOK'
    BY <2>1, <2>2, <2>3 DEF data, rings, VirtioInv, TypeOK
  <2> QED BY <2>1, <2>4, NothingMoves DEF data, CacheCoherent, VirtioInv
<1>2. CASE Collect
  <2>1. usedSeen' \in Indices /\ Apart' /\ used[usedSeen % QueueNum] \in Heads
    BY <1>2, CollectMoves
  <2> DEFINE d == used[usedSeen % QueueNum]
  <2>2. Blank.req \in Requests /\ Blank.buf \in Values
    <3>1. req[d] \in Requests /\ buf[d] \in Values
      BY <2>1 DEF VirtioInv, TypeOK
    <3> QED BY <3>1, Blanks
  <2>3. /\ req' = [req EXCEPT ![d] = Blank.req] /\ buf' = [buf EXCEPT ![d] = Blank.buf]
        /\ UNCHANGED <<disk, cache, rings, prevAvail, ops, mapped, plic, handler>>
    BY <1>2 DEF Collect
  <2> HIDE DEF d
  <2>4. req' \in [Heads -> Requests] /\ buf' \in [Heads -> Values]
    BY <2>2, <2>3 DEF VirtioInv, TypeOK
  <2>5. TypeOK'
    BY <2>1, <2>3, <2>4 DEF rings, plic, VirtioInv, TypeOK
  <2> QED BY <2>1, <2>3, <2>5 DEF CacheCoherent, VirtioInv
<1>3. CASE \E d \in Heads, t \in Traffic : Submit(d, t)
  <2> PICK d \in Heads, t \in Traffic : Submit(d, t)
    BY <1>3
  <2>1. avail' \in [Slots -> Heads] /\ availIdx' \in Indices /\ Apart'
    BY SubmitMoves
  <2>2. t.req \in Requests /\ t.buf \in Values
    BY VirtioConstants
  <2>3. /\ req' = [req EXCEPT ![d] = t.req] /\ buf' = [buf EXCEPT ![d] = t.buf]
        /\ UNCHANGED <<disk, cache, used, usedIdx, prevAvail, ops, mapped, plic, handler, usedSeen>>
    BY DEF Submit
  <2>4. req' \in [Heads -> Requests] /\ buf' \in [Heads -> Values]
    BY <2>2, <2>3 DEF VirtioInv, TypeOK
  <2>5. TypeOK'
    BY <2>1, <2>3, <2>4 DEF plic, VirtioInv, TypeOK
  <2> QED BY <2>1, <2>3, <2>5 DEF CacheCoherent, VirtioInv
<1> QED BY <1>1, <1>2, <1>3 DEF Handler

LEMMA SafeHolds == Spec => []SafeInv
<1>1. SafeInv /\ [Next]_vars => SafeInv'
  BY DeviceSafe, GuestSafe DEF Next
<1> QED BY InitSafe, <1>1, PTL DEF Spec

(* The variables of the device, its rings and its driver keep their        *)
(* ranges, for any queue and any latency: in particular an operation is    *)
(* completed when its time has come and never left to count below 0        *)
(* (virtio_blk.c:293).                                                     *)
THEOREM VirtioTypeCorrect == Spec => []TypeOK
<1>1. SafeInv => TypeOK
  BY DEF SafeInv, VirtioInv
<1> QED BY SafeHolds, <1>1, PTL

(* No request is doubled or lost and no entry of a ring overwritten, across *)
(* any number of turns of the indices (virtio_blk.c:316).                   *)
THEOREM VirtioOnePlace == Spec => []OnePlace
<1>1. SafeInv => OnePlace
  BY ApartIsOnePlace DEF SafeInv, VirtioInv
<1> QED BY SafeHolds, <1>1, PTL

(* The one-block cache never differs from the disk, for any disk and any   *)
(* traffic (virtio_blk.c:85).                                              *)
THEOREM VirtioCacheCoherent == Spec => []CacheCoherent
<1>1. SafeInv => CacheCoherent
  BY DEF SafeInv
<1> QED BY SafeHolds, <1>1, PTL

-----------------------------------------------------------------------------
(* The refinement of DiskService, one kind of step after the other.        *)
LEMMA InitServes == Init => Service!Init
<1> SUFFICES ASSUME Init PROVE Service!Init
  OBVIOUS
<1>1. TypeOK
  BY InitSafe DEF SafeInv, VirtioInv
<1>2. Started = {} /\ Notified = {} /\ Finished = {}
  <2>1. 0 \in Indices
    BY VirtioConstants DEF Indices
  <2> QED BY <2>1, RingEmpty DEF Init, Started, Notified, Finished
<1> QED BY <1>1, <1>2 DEF TypeOK, Service!Init, Service!Requests, Requests

LEMMA CompleteServes == ASSUME SafeInv, Complete PROVE Service!Next
<1> DEFINE d == ops[Min(Due)].head
<1>1. /\ d \in Heads /\ d \in Started
      /\ Started' = Started \ {d} /\ Notified' = Notified /\ Finished' = Finished \cup {d}
  BY CompleteMoves DEF SafeInv
<1>2. /\ mapped => \/ /\ req[d].type = "in"
                      /\ buf' = [buf EXCEPT ![d] = disk[req[d].block]] /\ UNCHANGED disk
                   \/ /\ req[d].type = "out"
                      /\ disk' = [disk EXCEPT ![req[d].block] = buf[d]] /\ UNCHANGED buf
      /\ ~mapped => UNCHANGED <<disk, buf>>
  BY CompleteData DEF SafeInv
<1>3. UNCHANGED <<req, mapped>>
  BY DEF Complete
<1> HIDE DEF d
<1>4. d \notin Notified
  BY <1>1 DEF SafeInv, VirtioInv, Apart
<1>5. (Started \cup Notified)' = (Started \cup Notified) \ {d}
  BY <1>1, <1>4
<1>6. Service!Answer(d)
  BY <1>1, <1>3, <1>5 DEF Service!Answer
<1>7. CASE mapped
  BY <1>1, <1>2, <1>6, <1>7 DEF Service!Next, Service!Serve
<1>8. CASE ~mapped
  BY <1>1, <1>2, <1>6, <1>8 DEF Service!Next, Service!Skip
<1> QED BY <1>7, <1>8

LEMMA DriverServes ==
  ASSUME SafeInv, Collect \/ \E d \in Heads, t \in Traffic : Submit(d, t) PROVE Service!Next
<1>1. CASE Collect
  <2> DEFINE d == used[usedSeen % QueueNum]
  <2>1. d \in Heads /\ d \in Finished /\ Started' = Started /\ Notified' = Notified /\ Finished' = Finished \ {d}
    BY <1>1, CollectMoves DEF SafeInv
  <2>2. /\ req' = [req EXCEPT ![d] = Blank.req] /\ buf' = [buf EXCEPT ![d] = Blank.buf]
        /\ UNCHANGED <<disk, mapped>>
    BY <1>1 DEF Collect
  <2> HIDE DEF d
  <2>3. Blank.req \in Service!Requests /\ Blank.buf \in Values
    <3>1. req[d] \in Requests /\ buf[d] \in Values
      BY <2>1 DEF SafeInv, VirtioInv, TypeOK
    <3> QED BY <3>1, Blanks DEF Requests, Service!Requests
  <2>4. Service!Collect(d)
    BY <2>1, <2>2, <2>3 DEF Service!Collect
  <2> QED BY <2>1, <2>4 DEF Service!Next
<1>2. CASE \E d \in Heads, t \in Traffic : Submit(d, t)
  <2> PICK d \in Heads, t \in Traffic : Submit(d, t)
    BY <1>2
  <2>1. /\ d \notin Started \cup Notified \cup Finished
        /\ Started' = Started /\ Notified' = Notified \cup {d} /\ Finished' = Finished
    BY SubmitMoves DEF SafeInv
  <2>2. t.req \in Service!Requests /\ t.buf \in Values
    BY VirtioConstants DEF Requests, Service!Requests
  <2>3. /\ req' = [req EXCEPT ![d] = t.req] /\ buf' = [buf EXCEPT ![d] = t.buf]
        /\ UNCHANGED <<disk, mapped>>
    BY DEF Submit
  <2>4. Service!Submit(d)
    BY <2>1, <2>2, <2>3 DEF Service!Submit
  <2> QED BY <2>4 DEF Service!Next
<1> QED BY <1>1, <1>2

(* The promise of the device, for any number of requests, blocks and       *)
(* values: each is answered once, and at that moment its data moves, or,   *)
(* if the page table of the moment hides the buffers, does not             *)
(* (virtio_blk.c:183).                                                     *)
THEOREM VirtioServesRequests == Spec => ServesRequests
<1>1. SafeInv /\ [Next]_vars => [Service!Next]_(Service!vars)
  <2> SUFFICES ASSUME SafeInv, [Next]_vars PROVE [Service!Next]_(Service!vars)
    OBVIOUS
  <2>1. CASE Complete
    BY <2>1, CompleteServes
  <2>2. CASE Collect \/ \E d \in Heads, t \in Traffic : Submit(d, t)
    BY <2>2, DriverServes
  <2>3. CASE ProcessQueue
    <3>1. (Started \cup Notified)' = Started \cup Notified /\ Finished' = Finished
      BY <2>3, ProcessMoves DEF SafeInv
    <3>2. UNCHANGED <<disk, req, buf, mapped>>
      BY <2>3 DEF ProcessQueue, data
    <3> QED BY <3>1, <3>2 DEF Service!vars
  <2>4. CASE Tick
    <3>1. (Started \cup Notified)' = Started \cup Notified /\ Finished' = Finished
      BY <2>4, TickMoves DEF SafeInv
    <3>2. UNCHANGED <<disk, req, buf, mapped>>
      BY <2>4 DEF Tick, data
    <3> QED BY <3>1, <3>2 DEF Service!vars
  <2>5. CASE SwitchTable
    <3>1. (Started \cup Notified)' = Started \cup Notified /\ Finished' = Finished
      BY <2>5, NothingMoves DEF SafeInv, SwitchTable
    <3>2. UNCHANGED <<disk, req, buf>> /\ mapped' = ~mapped
      BY <2>5 DEF SwitchTable, data
    <3> QED BY <3>1, <3>2 DEF Service!Next, Service!Switch
  <2>6. CASE Claim \/ Leave \/ EndOfInterrupt \/ UNCHANGED vars
    <3>1. UNCHANGED <<rings, prevAvail, ops, usedSeen>> /\ UNCHANGED <<disk, req, buf, mapped>>
      BY <2>6 DEF Claim, Leave, EndOfInterrupt, vars, data
    <3>2. (Started \cup Notified)' = Started \cup Notified /\ Finished' = Finished
      BY <3>1, NothingMoves DEF SafeInv
    <3> QED BY <3>1, <3>2 DEF Service!vars
  <2> QED BY <2>1, <2>2, <2>3, <2>4, <2>5, <2>6 DEF Next, Device, Handler
<1> QED BY InitServes, <1>1, SafeHolds, PTL DEF Spec, ServesRequests, Service!Spec
-----------------------------------------------------------------------------
(* The promise of the controller, kept by the two bits of source 1.        *)
Bit(name, on) == IF on THEN {name} ELSE {}
Delivery == INSTANCE IrqDelivery WITH
  Sources <- {"disk"}, None <- "none",
  raised <- Bit("disk", request), serving <- Bit("disk", inService),
  offered <- IF request /\ ~inService THEN "disk" ELSE "none"

\* The disk and its driver use the controller as IrqDelivery, which Plic
\* implements, allows.
THEOREM VirtioDeliversAsPromised == Spec => Delivery!Spec
<1>1. Init => Delivery!Init
  BY DEF Init, Delivery!Init, Bit
<1>2. SafeInv /\ SafeInv' /\ [Next]_vars => [Delivery!Next]_(Delivery!vars)
  <2> SUFFICES ASSUME SafeInv, SafeInv', [Next]_vars PROVE [Delivery!Next]_(Delivery!vars)
    OBVIOUS
  <2>0. request \in BOOLEAN /\ inService \in BOOLEAN /\ request' \in BOOLEAN /\ inService' \in BOOLEAN
    BY DEF SafeInv, VirtioInv, TypeOK
  <2>1. Delivery!Offer
    BY <2>0 DEF Delivery!Offer, Bit
  <2>2. CASE UNCHANGED inService
    BY <2>0, <2>1, <2>2 DEF Delivery!Next, Delivery!Raise, Delivery!Withdraw, Bit
  <2>3. CASE Claim
    <3>1. request = TRUE /\ inService = FALSE /\ request' = FALSE /\ inService' = TRUE
      BY <2>0, <2>3 DEF Claim
    <3> QED BY <2>1, <3>1 DEF Delivery!Next, Delivery!Deliver, Bit
  <2>4. CASE EndOfInterrupt
    <3>1. request' = FALSE /\ inService' = FALSE
      BY <2>4 DEF EndOfInterrupt
    <3> QED BY <2>0, <2>1, <3>1 DEF Delivery!Next, Delivery!Finish, Bit
  <2>5. \/ Claim \/ EndOfInterrupt \/ UNCHANGED inService
    BY DEF Next, Device, Handler, Tick, Complete, ProcessQueue, Collect, Leave, SwitchTable,
           Submit, vars, plic
  <2> QED BY <2>2, <2>3, <2>4, <2>5
<1> QED BY <1>1, <1>2, SafeHolds, PTL DEF Spec, Delivery!Spec
=============================================================================
