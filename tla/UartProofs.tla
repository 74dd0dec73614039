----------------------------- MODULE UartProofs -----------------------------
(***************************************************************************)
(* What the ring and the request line of the UART keep, for a ring of any  *)
(* size, any counter width and any number of keys: the type invariant,     *)
(* DataReadyTells and, for a guest that neither reads an empty ring nor    *)
(* resets the transmit side alone, RingCoherent and the refinement of      *)
(* RxQueue.                                                                *)
(***************************************************************************)
EXTENDS Uart, SequenceTheorems, TLAPS

(* Counting round the ring, and round the counter of characters.           *)
LEMMA InSlots == ASSUME NEW m \in Nat PROVE m % Size \in Slots
BY UartConstants, Z3 DEF Slots

LEMMA InCounter == ASSUME NEW m \in Int PROVE m % CountMod \in 0 .. CountMod - 1
BY UartConstants, Z3
-----------------------------------------------------------------------------
(* The lock is the receive thread's while it is between the push and the   *)
(* interrupt, so what it has pushed is still in the ring.                  *)
Pushing == rpc = "raise" => lock = "rx" /\ count > 0
UartInv == TypeOK /\ Pushing /\ DataReadyTells

LEMMA PopKeeps ==
  ASSUME TypeOK, Pop
  PROVE  /\ tail' \in Slots /\ count' \in 0 .. CountMod - 1
         /\ dr' \in BOOLEAN /\ oe' \in BOOLEAN /\ request' \in BOOLEAN
         /\ dr' = (count' > 0)
         /\ request' => latch
<1>1. tail' \in Slots
  BY InSlots DEF Pop, TypeOK, Slots
<1>2. count' \in 0 .. CountMod - 1
  BY InCounter DEF Pop, TypeOK
<1>a. dr' = (count' > 0) /\ oe' = FALSE
  BY DEF Pop
<1>b. request' = (latch /\ count' # 0) /\ latch \in BOOLEAN
  BY DEF Pop, TypeOK
<1>c. request' \in BOOLEAN
  BY <1>b, Zenon
<1>d. dr' \in BOOLEAN
  BY <1>a, <1>2
<1>3. dr' \in BOOLEAN /\ oe' \in BOOLEAN /\ request' \in BOOLEAN
  BY <1>a, <1>c, <1>d
<1>4. dr' = (count' > 0) /\ (request' => latch)
  BY DEF Pop
<1> QED BY <1>1, <1>2, <1>3, <1>4

LEMMA ReceiveKeeps == ASSUME UartInv, Push \/ Raise \/ (\E c \in Chars : Key(c)) PROVE UartInv'
<1> USE DEF UartInv
<1>1. CASE Push
  <2> USE <1>1 DEF Push
  <2>a. head' \in Slots
    <3>1. head + 1 \in Nat
      BY DEF TypeOK, Slots
    <3> QED BY <3>1, InSlots
  <2>b. tail' \in Slots
    <3>1. tail + 1 \in Nat /\ tail \in Slots
      BY DEF TypeOK, Slots
    <3> QED BY <3>1, InSlots
  <2>1. head' \in Slots /\ tail' \in Slots
    BY <2>a, <2>b
  <2>2. count' \in 0 .. CountMod - 1
    BY InCounter DEF TypeOK
  <2>3. buf' \in [Slots -> Chars \cup {Zero}]
    BY DEF TypeOK
  <2>4. TypeOK'
    BY <2>1, <2>2, <2>3 DEF TypeOK, regs, plic
  <2>5. count' > 0
    <3>1. CASE count >= Size
      BY <3>1, UartConstants DEF TypeOK
    <3>2. CASE ~(count >= Size)
      <4>1. count + 1 \in 1 .. CountMod - 1
        BY <3>2, UartConstants DEF TypeOK
      <4>2. (count + 1) % CountMod = count + 1
        BY <4>1, UartConstants, Z3
      <4> QED BY <3>2, <4>1, <4>2
    <3> QED BY <3>1, <3>2
  <2> QED BY <2>4, <2>5 DEF Pushing, DataReadyTells
<1>2. CASE Raise
  <2>a. request' \in BOOLEAN
    BY <1>2 DEF Raise, TypeOK
  <2>b. rpc' = "idle" /\ lock' = "free" /\ UNCHANGED <<ring, dr, oe, regs, cpc, key, keys, inService>>
    BY <1>2 DEF Raise
  <2>1. TypeOK'
    BY <2>a, <2>b DEF TypeOK, ring, regs
  <2> QED BY <1>2, <2>1 DEF Raise, ring, regs, Pushing, DataReadyTells
<1>3. CASE \E c \in Chars : Key(c)
  <2> PICK c \in Chars : Key(c)
    BY <1>3
  <2>1. TypeOK'
    BY UartConstants DEF Key, TypeOK, ring, regs, plic
  <2> QED BY <2>1 DEF Key, ring, regs, plic, Pushing, DataReadyTells
<1> QED BY <1>1, <1>2, <1>3

LEMMA ReadRbrKeeps == ASSUME UartInv, ReadRbr PROVE UartInv'
<1> USE DEF UartInv, ReadRbr
<1>1. CASE relocks
  <2>1. Pop /\ UNCHANGED <<lock, cpc, regs, rpc, key, keys, inService>>
    BY <1>1
  <2>2. TypeOK'
    BY <2>1, PopKeeps DEF TypeOK, Pop, regs
  <2>3. DataReadyTells'
    BY <2>1, PopKeeps DEF DataReadyTells, regs
  <2>4. Pushing'
    BY <2>1 DEF Pushing, Enter
  <2> QED BY <2>2, <2>3, <2>4
<1>2. CASE ~relocks
  <2>1. UNCHANGED <<ring, dr, oe, request, regs, rpc, key, keys, inService>> /\ lock = "free"
    BY <1>2 DEF Enter
  <2>2. TypeOK'
    BY <1>2, <2>1 DEF TypeOK, ring, regs
  <2> QED BY <2>1, <2>2 DEF Pushing, DataReadyTells, ring, regs
<1> QED BY <1>1, <1>2

LEMMA AccessKeeps == ASSUME UartInv, Access \/ UpdateIrq PROVE UartInv'
<1> USE UartConstants DEF UartInv, TypeOK, Pushing, DataReadyTells, ring, regs, plic
<1>1. CASE Block
  BY <1>1 DEF Block
<1>2. CASE ReadDll
  BY <1>2 DEF ReadDll, Enter
<1>3. CASE WriteThr
  BY <1>3 DEF WriteThr, Enter
<1>4. CASE WriteMcr
  BY <1>4 DEF WriteMcr, Enter
<1>5. CASE \E causes \in SUBSET {"rx", "tx"} : WriteIer(causes)
  BY <1>5 DEF WriteIer, Enter
<1>6. CASE \E resetRx, resetTx \in BOOLEAN : WriteFcr(resetRx, resetTx)
  BY <1>6 DEF WriteFcr, Enter, Slots
<1>7. CASE \E bit \in BOOLEAN : WriteLcr(bit)
  BY <1>7 DEF WriteLcr, Enter
<1>8. CASE Claim \/ Complete
  BY <1>8 DEF Claim, Complete
<1>9. CASE UpdateIrq
  BY <1>9 DEF UpdateIrq
<1> QED BY <1>1, <1>2, <1>3, <1>4, <1>5, <1>6, <1>7, <1>8, <1>9, ReadRbrKeeps DEF Access

LEMMA InitUart == Init => UartInv
<1> SUFFICES ASSUME Init PROVE UartInv
  OBVIOUS
<1> USE UartConstants DEF Init
<1>1. buf \in [Slots -> Chars \cup {Zero}]
  OBVIOUS
<1>2. head \in Slots /\ tail \in Slots /\ count \in 0 .. CountMod - 1 /\ keys \in 0 .. MaxKeys
  BY DEF Slots
<1>3. TypeOK
  BY <1>1, <1>2 DEF TypeOK
<1> QED BY <1>3 DEF UartInv, Pushing, DataReadyTells

LEMMA UartStep == UartInv /\ [Next]_vars => UartInv'
<1>1. UartInv /\ UNCHANGED vars => UartInv'
  BY DEF UartInv, TypeOK, Pushing, DataReadyTells, vars, ring, regs, plic
<1> QED BY <1>1, ReceiveKeeps, AccessKeeps DEF Next, RxSteps

LEMMA UartInvHolds == Spec => []UartInv
BY InitUart, UartStep, PTL DEF Spec

(* The registers of the UART keep their ranges, whatever the guest does    *)
(* (uart.c:171, uart.c:330, uart.c:442).                                   *)
THEOREM UartTypeCorrect == Spec => []TypeOK
<1>1. UartInv => TypeOK
  BY DEF UartInv
<1> QED BY UartInvHolds, <1>1, PTL

(* uart.c:181 and uart.c:218: whatever the guest does, LSR shows the data  *)
(* that is in the ring: a driver that polls DR misses no character.        *)
THEOREM UartDataReadyTells == Spec => []DataReadyTells
<1>1. UartInv => DataReadyTells
  BY DEF UartInv
<1> QED BY UartInvHolds, <1>1, PTL

(* uart.c:506: whatever else the guest does, only a reset of the receive   *)
(* side leaves DR or a receive request up with the ring empty: the request *)
(* of a push is raised with its character still there.                     *)
THEOREM UartOnlyResetDeceives == Spec => OnlyResetDeceives
<1>1. ASSUME UartInv, UartInv', [Next]_vars, Deceives', ~Deceives
      PROVE  \E resetTx \in BOOLEAN : WriteFcr(TRUE, resetTx)
  <2> USE <1>1
  <2>1. CASE Push \/ Raise
    BY <2>1 DEF Push, Raise, Deceives, UartInv, Pushing, ring
  <2>2. CASE ReadRbr
    BY <2>2, PopKeeps DEF ReadRbr, Deceives, UartInv, ring, regs
  <2>3. CASE \E resetRx, resetTx \in BOOLEAN : WriteFcr(resetRx, resetTx)
    BY <2>3 DEF WriteFcr, Deceives, regs, plic
  <2>4. CASE WriteThr
    BY <2>4 DEF WriteThr, Deceives, ring, UartInv, TypeOK
  <2>5. CASE UpdateIrq \/ Claim \/ Complete
    BY <2>5 DEF UpdateIrq, Claim, Complete, Deceives, ring, regs
  <2>6. CASE UNCHANGED <<ring, dr, request, latch>>
    BY <2>6 DEF Deceives, ring
  <2> QED BY <2>1, <2>2, <2>3, <2>4, <2>5, <2>6
      DEF Next, RxSteps, Access, Key, Block, ReadDll, WriteMcr, WriteIer, WriteLcr, vars, ring, regs, plic
<1> QED BY <1>1, UartInvHolds, PTL DEF Spec, OnlyResetDeceives
-----------------------------------------------------------------------------
(* The ring of n characters from slot t, as the sequence it stands for.    *)
Ring(b, t, n) == [i \in 1 .. n |-> b[(t + i - 1) % Size]]
Cell == Chars \cup {Zero}

LEMMA RingIsSeq ==
  ASSUME NEW b \in [Slots -> Cell], NEW t \in Slots, NEW n \in Nat
  PROVE  /\ Ring(b, t, n) \in Seq(Cell) /\ Len(Ring(b, t, n)) = n
         /\ \A i \in 1 .. n : Ring(b, t, n)[i] = b[(t + i - 1) % Size]
<1>1. ASSUME NEW i \in 1 .. n PROVE b[(t + i - 1) % Size] \in Cell
  <2>1. t + i - 1 \in Nat
    BY DEF Slots
  <2> QED BY <2>1, InSlots
<1>2. Ring(b, t, n) \in [1 .. n -> Cell]
  BY <1>1 DEF Ring
<1> QED BY <1>2 DEF Ring

(* What each step of the ring does to the sequence.                        *)
LEMMA RingAppend ==
  ASSUME NEW b \in [Slots -> Cell], NEW t \in Slots, NEW n \in 0 .. Size - 1, NEW c \in Cell
  PROVE  LET h == (t + n) % Size
         IN Ring([b EXCEPT ![h] = c], t, n + 1) = Append(Ring(b, t, n), c)
<1> DEFINE h == (t + n) % Size
           q == Ring(b, t, n)
           r == Ring([b EXCEPT ![h] = c], t, n + 1)
           a == Append(q, c)
<1>1. n \in Nat /\ n + 1 \in Nat /\ h \in Slots
  <2>1. n \in Nat /\ n + 1 \in Nat /\ t + n \in Nat
    BY UartConstants DEF Slots
  <2> QED BY <2>1, InSlots
<1>2. q \in Seq(Cell) /\ Len(q) = n /\ \A i \in 1 .. n : q[i] = b[(t + i - 1) % Size]
  BY <1>1, RingIsSeq
<1>3. /\ r \in Seq(Cell) /\ Len(r) = n + 1
      /\ \A i \in 1 .. n + 1 : r[i] = [b EXCEPT ![h] = c][(t + i - 1) % Size]
  <2>1. [b EXCEPT ![h] = c] \in [Slots -> Cell]
    OBVIOUS
  <2> HIDE DEF h
  <2> QED BY <1>1, <2>1, RingIsSeq
<1>4. /\ a \in Seq(Cell) /\ Len(a) = n + 1 /\ a[n + 1] = c
      /\ \A i \in 1 .. n : a[i] = q[i]
  BY <1>2, AppendProperties
<1>5. ASSUME NEW i \in 1 .. n PROVE (t + i - 1) % Size # h /\ (t + i - 1) % Size \in Slots
  <2>1. t + n \in 0 .. 2 * Size - 1 /\ t + i - 1 \in 0 .. 2 * Size - 1
    BY UartConstants DEF Slots
  <2>2. h = IF t + n < Size THEN t + n ELSE t + n - Size
    BY <2>1, UartConstants, Z3 DEF Slots
  <2>3. (t + i - 1) % Size = IF t + i - 1 < Size THEN t + i - 1 ELSE t + i - 1 - Size
    BY <2>1, UartConstants, Z3 DEF Slots
  <2> HIDE DEF h
  <2> QED BY <2>2, <2>3, UartConstants DEF Slots
<1>6. (t + (n + 1) - 1) % Size = h
  BY DEF Slots
<1> HIDE DEF h, q, r, a
<1>7. ASSUME NEW i \in 1 .. n + 1 PROVE r[i] = a[i]
  <2>1. CASE i = n + 1
    BY <1>1, <1>3, <1>4, <1>6, <2>1
  <2>2. CASE i # n + 1
    <3>1. i \in 1 .. n
      BY <1>1, <2>2
    <3> QED BY <1>2, <1>3, <1>4, <1>5, <3>1
  <2> QED BY <2>1, <2>2
<1>8. r = a
  BY <1>3, <1>4, <1>7, SeqEqual
<1> QED BY <1>8 DEF h, q, r, a

LEMMA RingTail ==
  ASSUME NEW b \in [Slots -> Cell], NEW t \in Slots, NEW n \in 1 .. Size
  PROVE  /\ Ring(b, t, n) # <<>>
         /\ Ring(b, (t + 1) % Size, n - 1) = Tail(Ring(b, t, n))
<1> DEFINE u == (t + 1) % Size
           q == Ring(b, t, n)
           r == Ring(b, u, n - 1)
<1>1. n \in Nat /\ n - 1 \in Nat /\ u \in Slots
  <2>1. n \in Nat /\ n - 1 \in Nat /\ t + 1 \in Nat
    BY UartConstants DEF Slots
  <2> QED BY <2>1, InSlots
<1>2. q \in Seq(Cell) /\ Len(q) = n /\ \A i \in 1 .. n : q[i] = b[(t + i - 1) % Size]
  BY <1>1, RingIsSeq
<1>3. /\ r \in Seq(Cell) /\ Len(r) = n - 1
      /\ \A i \in 1 .. n - 1 : r[i] = b[(u + i - 1) % Size]
  BY <1>1, RingIsSeq
<1>4. ASSUME NEW i \in 1 .. n - 1 PROVE (u + i - 1) % Size = (t + (i + 1) - 1) % Size
  <2>1. t + 1 \in 0 .. 2 * Size - 1 /\ t + i \in 0 .. 2 * Size - 1
    BY UartConstants DEF Slots
  <2>2. u = IF t + 1 < Size THEN t + 1 ELSE t + 1 - Size
    BY <2>1, UartConstants, Z3 DEF Slots
  <2>3. (t + i) % Size = IF t + i < Size THEN t + i ELSE t + i - Size
    BY <2>1, UartConstants, Z3 DEF Slots
  <2> HIDE DEF u
  <2>4. u + i - 1 \in 0 .. 2 * Size - 1
    BY <2>2, UartConstants DEF Slots
  <2>5. (u + i - 1) % Size = IF u + i - 1 < Size THEN u + i - 1 ELSE u + i - 1 - Size
    BY <1>1, <2>4, UartConstants, Z3 DEF Slots
  <2>6. t + (i + 1) - 1 = t + i
    BY DEF Slots
  <2> QED BY <2>2, <2>3, <2>5, <2>6, UartConstants DEF Slots
<1> HIDE DEF u, q, r
<1>5. q # <<>>
  BY <1>2, EmptySeq
<1>6. /\ Tail(q) \in Seq(Cell) /\ Len(Tail(q)) = n - 1
      /\ \A i \in 1 .. n - 1 : Tail(q)[i] = q[i + 1]
  BY <1>2, <1>5, HeadTailProperties
<1>7. ASSUME NEW i \in 1 .. n - 1 PROVE r[i] = Tail(q)[i]
  <2>1. i + 1 \in 1 .. n
    BY <1>1
  <2> QED BY <1>2, <1>3, <1>4, <1>6, <2>1
<1>8. r = Tail(q)
  BY <1>3, <1>6, <1>7, SeqEqual
<1> QED BY <1>5, <1>8 DEF u, q, r

LEMMA RingEmpty == ASSUME NEW b, NEW t PROVE Ring(b, t, 0) = <<>>
BY DEF Ring
-----------------------------------------------------------------------------
(* A guest that neither reads an empty ring nor resets the transmit side   *)
(* alone keeps the three counters together.                                *)
Disciplined == "emptyRead" \notin Misuse /\ "txReset" \notin Misuse
RingInv == UartInv /\ RingCoherent /\ (rpc = "push" => key \in Chars)

(* The counter does not wrap around while it is below the size of the ring.*)
LEMMA CountSteps ==
  ASSUME NEW n \in 0 .. Size
  PROVE  /\ n < Size => (n + 1) % CountMod = n + 1
         /\ n > 0 => (n - 1) % CountMod = n - 1
<1>1. ASSUME n < Size PROVE (n + 1) % CountMod = n + 1
  BY <1>1, UartConstants, Z3
<1>2. ASSUME n > 0 PROVE (n - 1) % CountMod = n - 1
  BY <1>2, UartConstants, Z3
<1> QED BY <1>1, <1>2

(* How head follows tail and count, one slot on.                           *)
LEMMA HeadSteps ==
  ASSUME NEW t \in Slots, NEW n \in 0 .. Size
  PROVE  /\ n < Size => (((t + n) % Size) + 1) % Size = (t + (n + 1)) % Size
         /\ n = Size => (((t + n) % Size) + 1) % Size = (((t + 1) % Size) + n) % Size
         /\ n > 0 => (t + n) % Size = (((t + 1) % Size) + (n - 1)) % Size
<1>1. (t + n) % Size = IF t + n < Size THEN t + n ELSE t + n - Size
  BY UartConstants, Z3 DEF Slots
<1>2. (t + 1) % Size = IF t + 1 < Size THEN t + 1 ELSE t + 1 - Size
  BY UartConstants, Z3 DEF Slots
<1>3. ASSUME n < Size PROVE (((t + n) % Size) + 1) % Size = (t + (n + 1)) % Size
  BY <1>1, <1>3, UartConstants, Z3 DEF Slots
<1>4. ASSUME n = Size PROVE (((t + n) % Size) + 1) % Size = (((t + 1) % Size) + n) % Size
  BY <1>1, <1>2, <1>4, UartConstants, Z3 DEF Slots
<1>5. ASSUME n > 0 PROVE (t + n) % Size = (((t + 1) % Size) + (n - 1)) % Size
  BY <1>1, <1>2, <1>5, UartConstants, Z3 DEF Slots
<1> QED BY <1>3, <1>4, <1>5

LEMMA ContentsIsRing == Contents = Ring(buf, tail, count)
BY DEF Contents, Ring

LEMMA PushQueues == ASSUME RingInv, Push PROVE RingCoherent' /\ Queue!Put(key)
<1> USE DEF RingInv, UartInv
<1>1. /\ buf \in [Slots -> Cell] /\ head \in Slots /\ tail \in Slots /\ count \in 0 .. Size
      /\ key \in Cell /\ head = (tail + count) % Size
  BY UartConstants DEF TypeOK, RingCoherent, Cell
<1>2. buf' = [buf EXCEPT ![head] = key] /\ head' = (head + 1) % Size
  BY DEF Push
<1>3. Contents = Ring(buf, tail, count) /\ Contents' = Ring(buf', tail', count')
  BY ContentsIsRing DEF Contents, Ring
<1>4. Contents \in Seq(Cell) /\ Len(Contents) = count
  BY <1>1, <1>3, RingIsSeq DEF Slots
<1>5. CASE count < Size
  <2>1. tail' = tail /\ count' = count + 1
    <3>1. tail' = tail /\ count' = (count + 1) % CountMod
      BY <1>1, <1>5, UartConstants DEF Push
    <3>2. (count + 1) % CountMod = count + 1
      BY <1>1, <1>5, UartConstants, Z3
    <3> QED BY <3>1, <3>2
  <2>2. RingCoherent'
    <3>1. head' = (tail' + count') % Size
      BY <1>1, <1>2, <1>5, <2>1, HeadSteps
    <3>2. count' <= Size
      BY <1>1, <1>5, <2>1, UartConstants
    <3> QED BY <3>1, <3>2 DEF RingCoherent
  <2>3. count \in 0 .. Size - 1
    BY <1>1, <1>5, UartConstants
  <2>4. Contents' = Append(Contents, key)
    BY <1>1, <1>2, <1>3, <2>1, <2>3, RingAppend
  <2> QED BY <1>4, <1>5, <2>2, <2>4 DEF Queue!Put
<1>6. CASE ~(count < Size)
  <2>0. count = Size
    BY <1>1, <1>6, UartConstants
  <2>1. tail' = (tail + 1) % Size /\ count' = count
    BY <2>0, UartConstants DEF Push
  <2>2. RingCoherent'
    BY <1>1, <1>2, <2>0, <2>1, HeadSteps DEF RingCoherent
  <2>3. Tail(Contents) = Ring(buf, tail', Size - 1)
    <3>1. Size \in 1 .. Size
      BY UartConstants
    <3> QED BY <1>1, <1>3, <2>0, <2>1, <3>1, RingTail
  <2>4. tail' \in Slots /\ Size - 1 \in 0 .. Size - 1 /\ (Size - 1) + 1 = Size
    <3>1. tail + 1 \in Nat
      BY <1>1 DEF Slots
    <3> QED BY <2>1, <3>1, InSlots, UartConstants
  <2>5. head = (tail' + (Size - 1)) % Size
    <3>1. Size \in 0 .. Size /\ Size > 0
      BY UartConstants
    <3>2. (tail + Size) % Size = (((tail + 1) % Size) + (Size - 1)) % Size
      BY <1>1, <3>1, HeadSteps
    <3> QED BY <1>1, <2>0, <2>1, <3>2
  <2>6. Contents' = Append(Ring(buf, tail', Size - 1), key)
    <3>1. Ring([buf EXCEPT ![(tail' + (Size - 1)) % Size] = key], tail', (Size - 1) + 1)
            = Append(Ring(buf, tail', Size - 1), key)
      BY <1>1, <2>4, RingAppend
    <3>2. Ring(buf', tail', count') = Append(Ring(buf, tail', Size - 1), key)
      BY <1>2, <2>0, <2>1, <2>4, <2>5, <3>1
    <3> QED BY <1>3, <3>2
  <2> QED BY <1>4, <2>0, <2>2, <2>3, <2>6 DEF Queue!Put
<1> QED BY <1>5, <1>6

LEMMA PopQueues == ASSUME RingInv, Pop, count > 0 PROVE RingCoherent' /\ Queue!Get
<1> USE DEF RingInv, UartInv
<1>1. /\ buf \in [Slots -> Cell] /\ tail \in Slots /\ count \in 1 .. Size
      /\ head = (tail + count) % Size
  BY UartConstants DEF TypeOK, RingCoherent, Cell
<1>2. UNCHANGED <<buf, head>> /\ tail' = (tail + 1) % Size /\ count' = count - 1
  BY <1>1, CountSteps DEF Pop
<1>3. Contents = Ring(buf, tail, count) /\ Contents' = Ring(buf', tail', count')
  BY ContentsIsRing DEF Contents, Ring
<1>4. RingCoherent'
  <2>1. head' = (tail' + count') % Size
    BY <1>1, <1>2, HeadSteps
  <2>2. count' <= Size
    BY <1>1, <1>2, UartConstants
  <2> QED BY <2>1, <2>2 DEF RingCoherent
<1>5. Queue!Get
  BY <1>1, <1>2, <1>3, RingTail DEF Queue!Get
<1> QED BY <1>4, <1>5

LEMMA ResetQueues ==
  ASSUME Disciplined, RingInv, NEW resetRx \in BOOLEAN, NEW resetTx \in BOOLEAN, WriteFcr(resetRx, resetTx)
  PROVE  RingCoherent' /\ (Queue!Clear \/ UNCHANGED ring)
<1> USE DEF WriteFcr, Disciplined
<1>1. CASE resetRx
  <2>1. head' = 0 /\ tail' = 0 /\ count' = 0
    BY <1>1
  <2>2. 0 % Size = 0
    BY UartConstants, Z3
  <2>3. RingCoherent'
    BY <2>1, <2>2, UartConstants DEF RingCoherent
  <2>4. Contents' = <<>>
    BY <2>1, RingEmpty DEF Contents, Ring
  <2> QED BY <2>3, <2>4 DEF Queue!Clear
<1>2. CASE ~resetRx
  <2>1. UNCHANGED ring
    BY <1>2 DEF ring
  <2> QED BY <2>1 DEF RingInv, RingCoherent, ring
<1> QED BY <1>1, <1>2

(* One step of the device is one step of the queue, or none.               *)
LEMMA StepQueues ==
  ASSUME Disciplined, RingInv, [Next]_vars
  PROVE  RingCoherent' /\ [Queue!Next]_Contents
<1>1. CASE UNCHANGED ring
  BY <1>1 DEF RingInv, RingCoherent, ring, Contents
<1>2. CASE Push
  BY <1>2, PushQueues DEF Queue!Next, RingInv, Push
<1>3. CASE ReadRbr
  <2>1. CASE relocks
    <3>1. Pop /\ count > 0
      BY <1>3, <2>1 DEF ReadRbr, Disciplined
    <3> QED BY <3>1, PopQueues DEF Queue!Next
  <2>2. CASE ~relocks
    BY <1>1, <1>3, <2>2 DEF ReadRbr
  <2> QED BY <2>1, <2>2
<1>4. CASE \E resetRx, resetTx \in BOOLEAN : WriteFcr(resetRx, resetTx)
  BY <1>1, <1>4, ResetQueues DEF Queue!Next
<1>5. CASE (\E c \in Chars : Key(c)) \/ Raise \/ UpdateIrq
  BY <1>1, <1>5 DEF Key, Raise, UpdateIrq
<1>6. CASE Block \/ ReadDll \/ WriteThr \/ WriteMcr
  BY <1>1, <1>6 DEF Block, ReadDll, WriteThr, WriteMcr
<1>7. CASE \E causes \in SUBSET {"rx", "tx"} : WriteIer(causes)
  BY <1>1, <1>7 DEF WriteIer
<1>8. CASE \E bit \in BOOLEAN : WriteLcr(bit)
  BY <1>1, <1>8 DEF WriteLcr, ring
<1>9. CASE Claim \/ Complete
  BY <1>1, <1>9 DEF Claim, Complete
<1>10. CASE UNCHANGED vars
  BY <1>1, <1>10 DEF vars
<1> QED BY <1>2, <1>3, <1>4, <1>5, <1>6, <1>7, <1>8, <1>9, <1>10 DEF Next, Access, RxSteps

LEMMA KeyIsTyped ==
  ASSUME rpc = "push" => key \in Chars, [Next]_vars PROVE rpc' = "push" => key' \in Chars
<1>1. CASE \E c \in Chars : Key(c)
  BY <1>1 DEF Key
<1>2. CASE Push \/ Raise
  BY <1>2 DEF Push, Raise
<1>3. CASE Access \/ UpdateIrq \/ UNCHANGED vars
  BY <1>3 DEF Access, Block, ReadRbr, ReadDll, WriteThr, WriteMcr, WriteIer, WriteFcr, WriteLcr,
              Claim, Complete, UpdateIrq, vars
<1> QED BY <1>1, <1>2, <1>3 DEF Next, RxSteps

LEMMA RingInvHolds == Disciplined => (Spec => []RingInv)
<1> SUFFICES ASSUME Disciplined PROVE Spec => []RingInv
  OBVIOUS
<1>1. Init => RingInv
  <2> SUFFICES ASSUME Init PROVE RingInv
    OBVIOUS
  <2>1. 0 % Size = 0
    BY UartConstants, Z3
  <2>2. UartInv
    <3>1. Init => UartInv
      BY InitUart
    <3> QED BY <3>1
  <2> QED BY <2>1, <2>2, UartConstants DEF Init, RingInv, RingCoherent
<1>2. RingInv /\ [Next]_vars => RingInv'
  <2> SUFFICES ASSUME RingInv, [Next]_vars PROVE RingInv'
    OBVIOUS
  <2>1. UartInv'
    BY UartStep DEF RingInv
  <2>2. RingCoherent'
    BY StepQueues
  <2>3. (rpc = "push" => key \in Chars)'
    BY KeyIsTyped DEF RingInv
  <2> QED BY <2>1, <2>2, <2>3 DEF RingInv
<1> QED BY <1>1, <1>2, PTL DEF Spec

(* uart.c:171, uart.c:203: for a guest that neither reads an empty ring nor*)
(* resets the transmit side alone, head, tail and count never disagree,    *)
(* for a ring of any size and a counter of any width.                      *)
THEOREM UartRingCoherent == Disciplined => (Spec => []RingCoherent)
<1> SUFFICES ASSUME Disciplined PROVE Spec => []RingCoherent
  OBVIOUS
<1>1. RingInv => RingCoherent
  BY DEF RingInv
<1> QED BY RingInvHolds, <1>1, PTL

(* For the same guest the ring is a queue of Size characters that keeps    *)
(* the newest and hands them out oldest first (uart.c:171, uart.c:203).    *)
THEOREM UartKeepsQueue == Disciplined => (Spec => KeepsQueue)
<1> SUFFICES ASSUME Disciplined PROVE Spec => KeepsQueue
  OBVIOUS
<1>1. Init => Queue!Init
  BY RingEmpty DEF Init, Queue!Init, Contents, Ring
<1>2. RingInv /\ [Next]_vars => [Queue!Next]_Contents
  BY StepQueues
<1> QED BY RingInvHolds, <1>1, <1>2, PTL DEF Spec, KeepsQueue, Queue!Spec
-----------------------------------------------------------------------------
(* The promise of the controller, kept by the two bits of source 10.       *)
Bit(name, on) == IF on THEN {name} ELSE {}
Delivery == INSTANCE IrqDelivery WITH
  Sources <- {"uart"}, None <- "none",
  raised <- Bit("uart", request), serving <- Bit("uart", inService),
  offered <- IF request /\ ~inService THEN "uart" ELSE "none"

\* The UART and its driver use the controller as IrqDelivery, which Plic
\* implements, allows: the request comes and goes, and only a claim of a
\* request that waits puts the source into service.
THEOREM UartDeliversAsPromised == Spec => Delivery!Spec
<1>1. Init => Delivery!Init
  BY DEF Init, Delivery!Init, Bit
<1>2. UartInv /\ UartInv' /\ [Next]_vars => [Delivery!Next]_(Delivery!vars)
  <2> SUFFICES ASSUME UartInv, UartInv', [Next]_vars PROVE [Delivery!Next]_(Delivery!vars)
    OBVIOUS
  <2>0. request \in BOOLEAN /\ inService \in BOOLEAN /\ request' \in BOOLEAN /\ inService' \in BOOLEAN
    BY DEF UartInv, TypeOK
  <2>1. Delivery!Offer
    BY <2>0 DEF Delivery!Offer, Bit
  <2>2. CASE UNCHANGED inService
    BY <2>0, <2>1, <2>2 DEF Delivery!Next, Delivery!Raise, Delivery!Withdraw, Bit
  <2>3. CASE Claim
    <3>1. request = TRUE /\ inService = FALSE /\ request' = FALSE /\ inService' = TRUE
      BY <2>0, <2>3 DEF Claim
    <3> QED BY <2>1, <3>1 DEF Delivery!Next, Delivery!Deliver, Bit
  <2>4. CASE Complete
    <3>1. request' = FALSE /\ inService' = FALSE
      BY <2>4 DEF Complete
    <3> QED BY <2>0, <2>1, <3>1 DEF Delivery!Next, Delivery!Finish, Bit
  <2>5. \/ Claim \/ Complete \/ UNCHANGED inService
    BY DEF Next, RxSteps, Access, Key, Push, Raise, Block, ReadRbr, ReadDll, WriteThr, WriteMcr,
           WriteIer, WriteFcr, WriteLcr, UpdateIrq, vars, plic
  <2> QED BY <2>2, <2>3, <2>4, <2>5
<1> QED BY <1>1, <1>2, UartInvHolds, PTL DEF Spec, Delivery!Spec
=============================================================================
