------------------------------ MODULE MipProofs ------------------------------
(***************************************************************************)
(* What csr[MIP] shows.  The greater part is about the unlocked interrupt  *)
(* controller, for any number of keys and disk operations: the type        *)
(* invariant, RequestsKept and MeipRecovers of IrqRace, each with an       *)
(* inductive strengthening that says what a thread in the middle of a call *)
(* knows.  The rest is the safety of the timer (Clint), for any period,    *)
(* any bound and any place of its registers.                               *)
(***************************************************************************)
EXTENDS IrqRace, Clint, TLAPS

(* What a thread holds between a load and its store.                       *)
Holds(t) ==
  /\ at[t] \in {"load", "store"} => irq[t] \in Irqs
  /\ at[t] = "store" => word[t] \subseteq Irqs
  /\ at[t] = "mstore" => word[t] \subseteq Bits
TypeInv == TypeOK /\ \A t \in Threads : Holds(t)

LEMMA TwoThreads ==
  ASSUME NEW t \in Threads
  PROVE  /\ Other(t) \in Threads /\ Other(t) # t
         /\ \A o \in Threads : o = t \/ o = Other(t)
BY DEF Threads, Other

LEMMA InitTyped == Init => TypeInv
<1> SUFFICES ASSUME Init PROVE TypeInv
  OBVIOUS
<1> USE DEF Init
<1>1. /\ pending \subseteq Irqs /\ claimed \subseteq Irqs /\ mip \subseteq Bits
      /\ safe \subseteq Irqs /\ clean \in BOOLEAN /\ due \in BOOLEAN
  OBVIOUS
<1>2. keys \in 0 .. MaxKeys /\ disks \in 0 .. MaxDisk
  BY BoundsAssumption
<1>3. /\ at \in [Threads -> Places] /\ call \in [Threads -> Names]
      /\ irq \in [Threads -> Irqs \cup {"none"}]
  BY DEF Places, Names
<1>4. /\ word \in [Threads -> SUBSET (Irqs \cup Bits)]
      /\ found \in [Threads -> BOOLEAN] /\ alone \in [Threads -> BOOLEAN]
  OBVIOUS
<1>5. \A t \in Threads : Holds(t)
  BY DEF Holds
<1> QED BY <1>1, <1>2, <1>3, <1>4, <1>5 DEF TypeInv, TypeOK

(* The entry of a call keeps the types of the thread variables.            *)
LEMMA EnterTyped ==
  ASSUME TypeInv, NEW t \in Threads, NEW name \in Names, NEW source \in Irqs \cup {"none"},
         NEW place \in {"load", "mload"}, place = "load" => source \in Irqs,
         Enter(t, name, source, place)
  PROVE  /\ at' \in [Threads -> Places] /\ call' \in [Threads -> Names]
         /\ irq' \in [Threads -> Irqs \cup {"none"}] /\ word' \in [Threads -> SUBSET (Irqs \cup Bits)]
         /\ found' \in [Threads -> BOOLEAN] /\ alone' \in [Threads -> BOOLEAN]
         /\ clean' \in BOOLEAN
         /\ \A o \in Threads : Holds(o)'
<1> USE DEF TypeInv, TypeOK, Enter, To
<1>1. /\ at' \in [Threads -> Places] /\ call' \in [Threads -> Names]
      /\ irq' \in [Threads -> Irqs \cup {"none"}] /\ word' \in [Threads -> SUBSET (Irqs \cup Bits)]
  BY DEF Places
<1>2. found' \in [Threads -> BOOLEAN] /\ alone' \in [Threads -> BOOLEAN] /\ clean' \in BOOLEAN
  BY DEF Quiet
<1>3. ASSUME NEW o \in Threads PROVE Holds(o)'
  <2>1. CASE o = t
    BY <2>1 DEF Holds
  <2>2. CASE o # t
    BY <2>2 DEF Holds
  <2> QED BY <2>1, <2>2
<1> QED BY <1>1, <1>2, <1>3

LEMMA EntriesTyped == ASSUME TypeInv, Key \/ DiskDone \/ ReadLast \/ Claim \/ Complete \/ Tick PROVE TypeInv'
<1> USE BoundsAssumption DEF Threads
<1>1. CASE Key
  <2>1. Enter("rx", "raise", "uart", "load") /\ UNCHANGED <<device, disks, due, safe>>
    BY <1>1 DEF Key
  <2>2. keys' \in 0 .. MaxKeys
    BY <1>1 DEF Key, TypeInv, TypeOK
  <2> QED BY <2>1, <2>2, EnterTyped DEF TypeInv, TypeOK, Names, Irqs, device
<1>2. CASE DiskDone
  <2>1. Enter("cpu", "raise", "disk", "load") /\ UNCHANGED <<device, keys, due, safe>>
    BY <1>2 DEF DiskDone
  <2>2. disks' \in 0 .. MaxDisk
    BY <1>2 DEF DiskDone, TypeInv, TypeOK
  <2> QED BY <2>1, <2>2, EnterTyped DEF TypeInv, TypeOK, Names, Irqs, device
<1>3. CASE ReadLast
  BY <1>3, EnterTyped DEF ReadLast, TypeInv, TypeOK, Names, Irqs, device, calls
<1>4. CASE Claim
  <2> PICK winner \in pending \ claimed :
        /\ Enter("cpu", "claim", winner, "load") /\ claimed' = claimed \cup {winner}
        /\ safe' = safe \ {winner} /\ UNCHANGED <<pending, mip, calls>>
    BY <1>4 DEF Claim
  <2>1. winner \in Irqs
    BY DEF TypeInv, TypeOK
  <2> QED BY <2>1, EnterTyped DEF TypeInv, TypeOK, Names, calls
<1>5. CASE Complete
  <2> PICK source \in claimed :
        /\ Enter("cpu", "complete", source, "load") /\ claimed' = claimed \ {source}
        /\ safe' = safe \ {source} /\ UNCHANGED <<pending, mip, calls>>
    BY <1>5 DEF Complete
  <2>1. source \in Irqs
    BY DEF TypeInv, TypeOK
  <2> QED BY <2>1, EnterTyped DEF TypeInv, TypeOK, Names, calls
<1>6. CASE Tick
  BY <1>6, EnterTyped DEF Tick, TypeInv, TypeOK, Names, device, calls
<1> QED BY <1>1, <1>2, <1>3, <1>4, <1>5, <1>6

(* The end of a call, in the same way.                                     *)
LEMMA LeaveTyped ==
  ASSUME TypeInv, NEW t \in Threads, Leave(t)
  PROVE  /\ at' \in [Threads -> Places] /\ call' \in [Threads -> Names]
         /\ irq' \in [Threads -> Irqs \cup {"none"}] /\ word' \in [Threads -> SUBSET (Irqs \cup Bits)]
         /\ found' \in [Threads -> BOOLEAN] /\ alone' \in [Threads -> BOOLEAN]
         /\ \A o \in Threads : Holds(o)'
<1> USE DEF TypeInv, TypeOK, Leave, To
<1>1. at' \in [Threads -> Places] /\ call' \in [Threads -> Names]
  BY DEF Places, Names
<1>2. irq' \in [Threads -> Irqs \cup {"none"}] /\ word' \in [Threads -> SUBSET (Irqs \cup Bits)]
  OBVIOUS
<1>3. found' \in [Threads -> BOOLEAN] /\ alone' \in [Threads -> BOOLEAN]
  OBVIOUS
<1>4. ASSUME NEW o \in Threads PROVE Holds(o)'
  <2>1. CASE o = t
    BY <2>1 DEF Holds
  <2>2. CASE o # t
    BY <2>2 DEF Holds
  <2> QED BY <2>1, <2>2
<1> QED BY <1>1, <1>2, <1>3, <1>4

LEMMA ContinueTyped == ASSUME TypeInv, NEW t \in Threads, Continue(t) PROVE TypeInv'
<1>1. CASE LoadPending(t)
  <2> USE <1>1 DEF LoadPending, To, TypeInv, TypeOK, device, calls
  <2>1. at' \in [Threads -> Places] /\ word' \in [Threads -> SUBSET (Irqs \cup Bits)]
    BY DEF Places
  <2>2. ASSUME NEW o \in Threads PROVE Holds(o)'
    <3>1. CASE o = t
      BY <3>1 DEF Holds
    <3>2. CASE o # t
      BY <3>2 DEF Holds
    <3> QED BY <3>1, <3>2
  <2> QED BY <2>1, <2>2
<1>2. CASE StorePending(t)
  <2> USE <1>2 DEF StorePending, To, TypeInv, TypeOK, calls, local
  <2>1. at' \in [Threads -> Places]
    BY DEF Places
  <2>2. pending' \subseteq Irqs /\ safe' \subseteq Irqs
    BY DEF Holds
  <2>3. ASSUME NEW o \in Threads PROVE Holds(o)'
    <3>1. CASE o = t
      BY <3>1 DEF Holds
    <3>2. CASE o # t
      BY <3>2 DEF Holds
    <3> QED BY <3>1, <3>2
  <2> QED BY <2>1, <2>2, <2>3
<1>3. CASE Scan(t)
  <2> USE <1>3 DEF Scan, To, TypeInv, TypeOK, device, calls
  <2>1. at' \in [Threads -> Places] /\ call' \in [Threads -> Names]
    BY DEF Places, Names
  <2>2. found' \in [Threads -> BOOLEAN]
    BY DEF Waiting
  <2>3. ASSUME NEW o \in Threads PROVE Holds(o)'
    <3>1. CASE o = t
      BY <3>1 DEF Holds
    <3>2. CASE o # t
      BY <3>2 DEF Holds
    <3> QED BY <3>1, <3>2
  <2> QED BY <2>1, <2>2, <2>3
<1>4. CASE LoadMip(t)
  <2> USE <1>4 DEF LoadMip, To, TypeInv, TypeOK, device, calls
  <2>1. at' \in [Threads -> Places] /\ word' \in [Threads -> SUBSET (Irqs \cup Bits)]
    BY DEF Places
  <2>2. ASSUME NEW o \in Threads PROVE Holds(o)'
    <3>1. CASE o = t
      BY <3>1 DEF Holds
    <3>2. CASE o # t
      BY <3>2 DEF Holds
    <3> QED BY <3>1, <3>2
  <2> QED BY <2>1, <2>2
<1>5. CASE StoreMip(t)
  <2>1. mip' \subseteq Bits
    BY <1>5 DEF StoreMip, Written, Bit, Holds, TypeInv, Bits
  <2>2. UNCHANGED <<pending, claimed, calls, safe>> /\ clean' \in BOOLEAN
    BY <1>5 DEF StoreMip, TypeInv, TypeOK
  <2>3. CASE call[t] = "complete"
    <3>1. To(t, "scan") /\ UNCHANGED local
      BY <1>5, <2>3 DEF StoreMip, Ends
    <3>2. at' \in [Threads -> Places]
      BY <3>1 DEF To, TypeInv, TypeOK, Places
    <3>3. ASSUME NEW o \in Threads PROVE Holds(o)'
      <4>1. CASE o = t
        BY <3>1, <4>1 DEF Holds, To, local, TypeInv, TypeOK
      <4>2. CASE o # t
        BY <3>1, <4>2 DEF Holds, To, local, TypeInv, TypeOK
      <4> QED BY <4>1, <4>2
    <3> QED BY <2>1, <2>2, <3>1, <3>2, <3>3 DEF TypeInv, TypeOK, local, calls
  <2>4. CASE call[t] # "complete"
    <3>1. Leave(t)
      BY <1>5, <2>4 DEF StoreMip, Ends
    <3> QED BY <2>1, <2>2, <3>1, LeaveTyped DEF TypeInv, TypeOK, calls
  <2> QED BY <2>3, <2>4
<1> QED BY <1>1, <1>2, <1>3, <1>4, <1>5 DEF Continue

LEMMA DeadlineTyped == ASSUME TypeInv, Deadline PROVE TypeInv'
BY DEF Deadline, TypeInv, TypeOK, Holds, device, local

LEMMA StutterTyped == ASSUME TypeInv, UNCHANGED vars PROVE TypeInv'
BY DEF TypeInv, TypeOK, Holds, vars, device, calls, local

LEMMA TypeInvHolds == Spec => []TypeInv
<1>1. TypeInv /\ [Next]_vars => TypeInv'
  BY EntriesTyped, ContinueTyped, DeadlineTyped, StutterTyped DEF Next
<1> QED BY InitTyped, <1>1, PTL DEF Spec

(* IrqRace's variables keep their types, for any number of keys and disk   *)
(* operations: the words a thread stores back hold only bits of their      *)
(* register (plic.c:82, plic.c:187, clint.c:152).                          *)
THEOREM RaceTypeCorrect == Spec => []TypeOK
<1>1. TypeInv => TypeOK
  BY DEF TypeInv
<1> QED BY TypeInvHolds, <1>1, PTL
-----------------------------------------------------------------------------
(* RequestsKept is inductive together with what a thread is about to store:*)
(* its copy holds every safe request but the one it raises itself, and the *)
(* source it clears is not a safe one.                                     *)
Spares(t) ==
  /\ at[t] = "store" => safe \subseteq word[t] \cup {irq[t]}
  /\ at[t] \in {"load", "store"} /\ call[t] # "raise" => irq[t] \notin safe
KeptInv == TypeInv /\ RequestsKept /\ \A t \in Threads : Spares(t)

(* A call that enters with its source withdrawn from safe, or as a raise.  *)
LEMMA EnterKeeps ==
  ASSUME KeptInv, NEW t \in Threads, NEW name, NEW source, NEW place \in {"load", "mload"},
         Enter(t, name, source, place), safe' \subseteq safe, pending' = pending,
         place = "load" /\ name # "raise" => source \notin safe'
  PROVE  RequestsKept' /\ \A o \in Threads : Spares(o)'
<1> USE DEF KeptInv, TypeInv, TypeOK, Enter, To
<1>1. RequestsKept'
  BY DEF RequestsKept
<1>2. ASSUME NEW o \in Threads PROVE Spares(o)'
  <2>1. CASE o = t
    BY <2>1 DEF Spares
  <2>2. CASE o # t
    <3>1. /\ at'[o] = at[o] /\ call'[o] = call[o] /\ irq'[o] = irq[o] /\ word'[o] = word[o]
      BY <2>2
    <3> QED BY <3>1 DEF Spares
  <2> QED BY <2>1, <2>2
<1> QED BY <1>1, <1>2

LEMMA EntriesKeep == ASSUME KeptInv, Key \/ DiskDone \/ ReadLast \/ Claim \/ Complete \/ Tick PROVE KeptInv'
<1>0. TypeInv'
  BY EntriesTyped DEF KeptInv
<1>1. CASE Key
  BY <1>0, <1>1, EnterKeeps DEF Key, KeptInv, device, Threads
<1>2. CASE DiskDone
  BY <1>0, <1>2, EnterKeeps DEF DiskDone, KeptInv, device, Threads
<1>3. CASE ReadLast
  BY <1>0, <1>3, EnterKeeps DEF ReadLast, KeptInv, device, Threads
<1>4. CASE Claim
  BY <1>0, <1>4, EnterKeeps DEF Claim, KeptInv, Threads
<1>5. CASE Complete
  BY <1>0, <1>5, EnterKeeps DEF Complete, KeptInv, Threads
<1>6. CASE Tick
  BY <1>0, <1>6, EnterKeeps DEF Tick, KeptInv, device, Threads
<1> QED BY <1>1, <1>2, <1>3, <1>4, <1>5, <1>6

LEMMA StoreKeeps == ASSUME KeptInv, NEW t \in Threads, StorePending(t) PROVE KeptInv'
<1> USE DEF KeptInv, TypeInv, TypeOK
<1>0. TypeInv'
  BY ContinueTyped DEF Continue
<1>1. /\ at[t] = "store" /\ at'[t] # "load" /\ at'[t] # "store"
      /\ \A o \in Threads \ {t} : at'[o] = at[o]
      /\ UNCHANGED <<call, irq, word>>
  BY DEF StorePending, To, local
<1>2. RequestsKept'
  BY <1>1 DEF StorePending, RequestsKept, Spares
<1>3. ASSUME NEW o \in Threads PROVE Spares(o)'
  <2>1. CASE o = t
    BY <1>1, <2>1 DEF Spares
  <2>2. CASE o # t
    <3>1. o = Other(t) /\ at'[o] = at[o]
      BY <1>1, <2>2, TwoThreads
    <3>2. safe' = safe \/ (safe' = safe \cup {irq[t]} /\ ~Overwrites(o, irq[t]))
      BY <3>1 DEF StorePending
    <3> QED BY <1>1, <3>1, <3>2 DEF Spares, Overwrites
  <2> QED BY <2>1, <2>2
<1> QED BY <1>0, <1>2, <1>3

LEMMA ContinueKeeps == ASSUME KeptInv, NEW t \in Threads, Continue(t) PROVE KeptInv'
<1> USE DEF KeptInv, TypeInv, TypeOK
<1>0. TypeInv'
  BY ContinueTyped
<1>1. CASE LoadPending(t)
  <2>1. RequestsKept'
    BY <1>1 DEF LoadPending, device, RequestsKept
  <2>2. ASSUME NEW o \in Threads PROVE Spares(o)'
    <3>1. CASE o = t
      BY <1>1, <3>1 DEF LoadPending, To, Spares, RequestsKept
    <3>2. CASE o # t
      BY <1>1, <3>2 DEF LoadPending, To, Spares
    <3> QED BY <3>1, <3>2
  <2> QED BY <1>0, <2>1, <2>2
<1>2. CASE StorePending(t)
  BY <1>2, StoreKeeps
<1>3. CASE Scan(t) \/ LoadMip(t) \/ StoreMip(t)
  <2>1. /\ pending' = pending /\ safe' = safe /\ at'[t] \notin {"load", "store"}
        /\ \A o \in Threads \ {t} :
             at'[o] = at[o] /\ call'[o] = call[o] /\ irq'[o] = irq[o] /\ word'[o] = word[o]
    BY <1>3 DEF Scan, LoadMip, StoreMip, Ends, Leave, To, device, local
  <2>2. RequestsKept'
    BY <2>1 DEF RequestsKept
  <2>3. ASSUME NEW o \in Threads PROVE Spares(o)'
    BY <2>1 DEF Spares
  <2> QED BY <1>0, <2>2, <2>3
<1> QED BY <1>1, <1>2, <1>3 DEF Continue

LEMMA KeptInvHolds == Spec => []KeptInv
<1>1. Init => KeptInv
  BY InitTyped DEF Init, KeptInv, RequestsKept, Spares
<1>2. KeptInv /\ (Deadline \/ UNCHANGED vars) => KeptInv'
  BY DeadlineTyped, StutterTyped
  DEF KeptInv, RequestsKept, Spares, Deadline, vars, device, calls, local
<1>3. KeptInv /\ [Next]_vars => KeptInv'
  BY <1>2, EntriesKeep, ContinueKeeps DEF Next
<1> QED BY <1>1, <1>3, PTL DEF Spec

(* plic.c:82: however the two threads' loads and stores of plic.pending    *)
(* fall, only the requests the other thread was about to store over are    *)
(* lost: every other raise is pending until it is served or withdrawn.     *)
THEOREM RaceKeepsRequests == Spec => []RequestsKept
<1>1. KeptInv => RequestsKept
  BY DEF KeptInv
<1> QED BY KeptInvHolds, <1>1, PTL
-----------------------------------------------------------------------------
(* MeipRecovers is inductive together with what a call that runs alone     *)
(* knows: its scan is still the truth, its tick finds MEIP right and       *)
(* leaves it so. While the past is clean every call runs alone.            *)
Solitary(t) ==
  /\ alone[t] /\ ~Quiet(t) => Quiet(Other(t))
  /\ clean /\ ~Quiet(t) => alone[t]
Ordered(t) ==
  /\ call[t] \in {"tick", "update"} => at[t] \in {"mload", "mstore"}
  /\ at[t] \in {"mload", "mstore"} => call[t] \in {"tick", "update", "complete"}
MeipRight == "MEIP" \in mip <=> Waiting
Knows(t) ==
  /\ alone[t] /\ call[t] = "update" => (found[t] <=> Waiting)
  /\ clean /\ call[t] = "tick" =>
       MeipRight /\ (at[t] = "mstore" => ("MEIP" \in word[t] <=> "MEIP" \in mip))
MeipInv ==
  /\ TypeInv /\ MeipRecovers
  /\ \A t \in Threads : Solitary(t) /\ Ordered(t) /\ Knows(t)

(* No other thread is in a call while one runs alone.                      *)
LEMMA OneAlone ==
  ASSUME MeipInv, NEW t \in Threads, NEW o \in Threads, o # t, ~Quiet(t), clean \/ alone[t]
  PROVE  Quiet(o) /\ call[o] \notin {"tick", "update"}
<1>1. Quiet(o)
  BY TwoThreads DEF MeipInv, Solitary
<1> QED BY <1>1 DEF MeipInv, Ordered, Quiet

LEMMA EnterRecovers ==
  ASSUME MeipInv, NEW t \in Threads, NEW name \in Names \ {"update"}, NEW source,
         NEW place \in {"load", "mload"}, Enter(t, name, source, place), mip' = mip,
         name = "tick" <=> place = "mload", name = "tick" => UNCHANGED <<pending, claimed>>
  PROVE  MeipRecovers' /\ \A o \in Threads : Solitary(o)' /\ Ordered(o)' /\ Knows(o)'
<1> USE DEF MeipInv, TypeInv, TypeOK
<1>a. /\ at'[t] = place /\ call'[t] = name /\ Quiet(t)
      /\ at'[Other(t)] = at[Other(t)] /\ call'[Other(t)] = call[Other(t)]
  BY TwoThreads DEF Enter, To
<1>b. alone' = [x \in Threads |-> x = t /\ Quiet(Other(t))] /\ clean' = (clean /\ Quiet(Other(t)))
  BY DEF Enter
<1>c. alone'[t] <=> Quiet(Other(t))
  BY <1>b, Zenon
<1>d. ~alone'[Other(t)]
  BY <1>b, TwoThreads, Zenon
<1>1. /\ at'[t] = place /\ call'[t] = name /\ Quiet(t)
      /\ (alone'[t] <=> Quiet(Other(t))) /\ clean' = (clean /\ Quiet(Other(t)))
      /\ ~alone'[Other(t)] /\ at'[Other(t)] = at[Other(t)] /\ call'[Other(t)] = call[Other(t)]
  BY <1>a, <1>b, <1>c, <1>d
<1>2. ~Quiet(t)'
  BY <1>1 DEF Quiet
<1>3. MeipRecovers'
  BY <1>2 DEF MeipRecovers, Threads, Quiet
<1>4. Solitary(t)' /\ Ordered(t)'
  BY <1>1 DEF Solitary, Ordered, Quiet
<1>5. Knows(t)'
  <2>1. CASE name # "tick"
    BY <1>1, <2>1 DEF Knows
  <2>2. CASE name = "tick"
    <3>1. clean' => MeipRight
      BY <1>1 DEF MeipRecovers, MeipRight, Threads, Other
    <3>2. MeipRight' <=> MeipRight
      BY <2>2 DEF MeipRight, Waiting
    <3> QED BY <1>1, <2>2, <3>1, <3>2 DEF Knows
  <2> QED BY <2>1, <2>2
<1>6. LET o == Other(t) IN Solitary(o)' /\ Ordered(o)' /\ Knows(o)'
  BY <1>1, TwoThreads DEF Solitary, Ordered, Knows, Quiet
<1> QED BY <1>3, <1>4, <1>5, <1>6, TwoThreads

LEMMA EntriesRecover == ASSUME MeipInv, Key \/ DiskDone \/ ReadLast \/ Claim \/ Complete \/ Tick PROVE MeipInv'
<1>0. TypeInv'
  BY EntriesTyped DEF MeipInv
<1>1. CASE Key
  BY <1>0, <1>1, EnterRecovers DEF Key, MeipInv, device, Threads, Names
<1>2. CASE DiskDone
  BY <1>0, <1>2, EnterRecovers DEF DiskDone, MeipInv, device, Threads, Names
<1>3. CASE ReadLast
  BY <1>0, <1>3, EnterRecovers DEF ReadLast, MeipInv, device, Threads, Names
<1>4. CASE Claim
  BY <1>0, <1>4, EnterRecovers DEF Claim, MeipInv, Threads, Names
<1>5. CASE Complete
  BY <1>0, <1>5, EnterRecovers DEF Complete, MeipInv, Threads, Names
<1>6. CASE Tick
  BY <1>0, <1>6, EnterRecovers DEF Tick, MeipInv, device, Threads, Names
<1> QED BY <1>1, <1>2, <1>3, <1>4, <1>5, <1>6

(* A step inside a call leaves the other thread's variables alone.         *)
LEMMA OthersStay ==
  ASSUME TypeInv, NEW t \in Threads, Continue(t), NEW o \in Threads, o # t
  PROVE  /\ at'[o] = at[o] /\ call'[o] = call[o] /\ word'[o] = word[o]
         /\ found'[o] = found[o] /\ alone'[o] = alone[o]
<1> USE DEF TypeInv, TypeOK
<1>1. CASE LoadPending(t) \/ StorePending(t) \/ Scan(t) \/ LoadMip(t)
  BY <1>1 DEF LoadPending, StorePending, Scan, LoadMip, To, local
<1>2. CASE StoreMip(t)
  BY <1>2 DEF StoreMip, Ends, Leave, To, local
<1> QED BY <1>1, <1>2 DEF Continue

(* What the step does to its own thread, to the words and to the past.     *)
LEMMA OwnStep ==
  ASSUME MeipInv, NEW t \in Threads, Continue(t)
  PROVE  /\ ~Quiet(t)
         /\ ~Quiet(t)' => alone'[t] = alone[t] /\ clean' = clean
         /\ clean' => clean \/ alone[t]
<1> USE DEF MeipInv, TypeInv, TypeOK
<1>1. CASE LoadPending(t) \/ StorePending(t) \/ Scan(t) \/ LoadMip(t)
  BY <1>1 DEF LoadPending, StorePending, Scan, LoadMip, To, local, Quiet
<1>2. CASE StoreMip(t)
  BY <1>2 DEF StoreMip, Ends, Leave, To, local, Quiet
<1> QED BY <1>1, <1>2 DEF Continue

LEMMA OwnKnows ==
  ASSUME MeipInv, NEW t \in Threads, Continue(t)
  PROVE  Ordered(t)' /\ Knows(t)' /\ (Quiet(t)' /\ clean' => MeipRight')
<1> USE DEF MeipInv, TypeInv, TypeOK
<1>1. CASE LoadPending(t)
  <2>1. at[t] = "load" /\ at'[t] = "store" /\ call' = call
    BY <1>1 DEF LoadPending, To
  <2>2. call[t] \notin {"tick", "update"}
    BY <2>1 DEF Ordered
  <2> QED BY <2>1, <2>2 DEF Ordered, Knows, Quiet
<1>2. CASE StorePending(t)
  <2>1. /\ at[t] = "store" /\ call' = call
        /\ at'[t] = IF call[t] = "complete" THEN "mload" ELSE "scan"
    BY <1>2 DEF StorePending, To, local
  <2>2. call[t] \notin {"tick", "update"}
    BY <2>1 DEF Ordered
  <2> QED BY <2>1, <2>2 DEF Ordered, Knows, Quiet
<1>3. CASE Scan(t)
  <2>1. at'[t] = "mload" /\ call'[t] = "update" /\ found'[t] = Waiting
    BY <1>3 DEF Scan, To
  <2>2. Waiting' <=> Waiting
    BY <1>3 DEF Scan, Waiting, device
  <2> QED BY <2>1, <2>2 DEF Ordered, Knows, Quiet
<1>4. CASE LoadMip(t)
  <2>1. at[t] = "mload" /\ at'[t] = "mstore" /\ word'[t] = mip
    BY <1>4 DEF LoadMip, To
  <2>2. UNCHANGED <<pending, claimed, mip, call, found, alone, clean>>
    BY <1>4 DEF LoadMip, device
  <2>3. (Waiting' <=> Waiting) /\ (MeipRight' <=> MeipRight)
    BY <2>2 DEF Waiting, MeipRight
  <2> QED BY <2>1, <2>2, <2>3 DEF Ordered, Knows, Quiet
<1>5. CASE StoreMip(t)
  <2>1. at[t] = "mstore" /\ mip' = Written(t) /\ (Waiting' <=> Waiting)
    BY <1>5 DEF StoreMip, Waiting
  <2>2. CASE call[t] = "complete"
    <3>1. at'[t] = "scan" /\ call'[t] = "complete"
      BY <1>5, <2>2 DEF StoreMip, Ends, To, local
    <3> QED BY <3>1 DEF Ordered, Knows, Quiet
  <2>3. CASE call[t] # "complete"
    <3>1. at'[t] = "idle" /\ call'[t] = "none"
      BY <1>5, <2>3 DEF StoreMip, Ends, Leave, To
    <3>2. CASE call[t] = "update"
      <4>1. "MEIP" \in mip' <=> found[t]
        BY <2>1, <3>2 DEF Written, Bit
      <4>2. clean' => alone[t]
        BY <1>5, <2>1 DEF StoreMip, Solitary, Quiet
      <4> QED BY <2>1, <3>1, <3>2, <4>1, <4>2 DEF Knows, MeipRight, Ordered, Quiet
    <3>3. CASE call[t] # "update"
      <4>1. call[t] = "tick"
        BY <2>1, <2>3, <3>3 DEF Ordered
      <4>2. "MEIP" \in mip' <=> "MEIP" \in word[t]
        BY <2>1, <4>1 DEF Written, Bit
      <4>3. clean' = clean
        BY <1>5, <4>1 DEF StoreMip
      <4> QED BY <2>1, <3>1, <4>1, <4>2, <4>3 DEF Knows, MeipRight, Ordered, Quiet
    <3> QED BY <3>2, <3>3
  <2> QED BY <2>2, <2>3
<1> QED BY <1>1, <1>2, <1>3, <1>4, <1>5 DEF Continue

LEMMA ContinueRecovers == ASSUME MeipInv, NEW t \in Threads, Continue(t) PROVE MeipInv'
<1>0. TypeInv'
  BY ContinueTyped DEF MeipInv
<1>1. /\ ~Quiet(t)
      /\ ~Quiet(t)' => alone'[t] = alone[t] /\ clean' = clean
      /\ clean' => clean \/ alone[t]
  BY OwnStep
<1>2. MeipRecovers'
  <2> SUFFICES ASSUME Quiet("cpu")', Quiet("rx")', clean' PROVE MeipRight'
    BY DEF MeipRecovers, MeipRight
  <2>1. Quiet(t)'
    BY DEF Threads
  <2> QED BY <2>1, OwnKnows
<1>3. LET o == Other(t) IN Solitary(o)' /\ Ordered(o)' /\ Knows(o)'
  <2> DEFINE o == Other(t)
  <2>1. /\ o \in Threads /\ o # t /\ at'[o] = at[o] /\ call'[o] = call[o]
        /\ alone'[o] = alone[o]
    BY OthersStay, TwoThreads DEF MeipInv
  <2>2. Other(o) = t
    BY DEF Threads, Other
  <2>3. Ordered(o)'
    BY <2>1 DEF MeipInv, Ordered
  <2>4. clean' \/ alone[o] => Quiet(o) \/ Quiet(t)
    BY <1>1, <2>1, <2>2 DEF MeipInv, Solitary
  <2>5. Quiet(o)' <=> Quiet(o)
    BY <2>1 DEF Quiet
  <2>6. Quiet(o) => call[o] \notin {"tick", "update"}
    BY <2>1 DEF MeipInv, Ordered, Quiet
  <2> HIDE DEF o
  <2>7. Solitary(o)' /\ Knows(o)'
    BY <1>1, <2>1, <2>2, <2>4, <2>5, <2>6 DEF Solitary, Knows
  <2> QED BY <2>3, <2>7 DEF o
<1>4. Solitary(t)'
  <2>1. alone[t] \/ clean => Quiet(Other(t))
    BY <1>1, TwoThreads, OneAlone
  <2>2. Quiet(Other(t))' <=> Quiet(Other(t))
    BY OthersStay, TwoThreads DEF MeipInv, Quiet
  <2> QED BY <1>1, <2>1, <2>2 DEF Solitary, MeipInv
<1>5. Ordered(t)' /\ Knows(t)'
  BY OwnKnows
<1> QED BY <1>0, <1>2, <1>3, <1>4, <1>5, TwoThreads DEF MeipInv

LEMMA MeipInvHolds == Spec => []MeipInv
<1>1. Init => MeipInv
  BY InitTyped DEF Init, MeipInv, MeipRecovers, Solitary, Ordered, Knows, Quiet, Waiting
<1>2. MeipInv /\ (Deadline \/ UNCHANGED vars) => MeipInv'
  <2> SUFFICES ASSUME MeipInv, Deadline \/ UNCHANGED vars PROVE MeipInv'
    OBVIOUS
  <2>1. TypeInv' /\ UNCHANGED <<pending, claimed, mip, at, call, word, found, alone, clean>>
    BY DeadlineTyped, StutterTyped DEF MeipInv, Deadline, vars, device, calls, local
  <2> QED BY <2>1 DEF MeipInv, MeipRecovers, Solitary, Ordered, Knows, MeipRight, Quiet, Waiting
<1>3. MeipInv /\ [Next]_vars => MeipInv'
  BY <1>2, EntriesRecover, ContinueRecovers DEF Next
<1> QED BY <1>1, <1>3, PTL DEF Spec

(* plic.c:187: once an update has run alone after the last overlap of the  *)
(* two threads, and until they overlap again, MEIP says between calls      *)
(* whether a request waits, whatever the overlap left there.               *)
THEOREM RaceMeipRecovers == Spec => []MeipRecovers
<1>1. MeipInv => MeipRecovers
  BY DEF MeipInv
<1> QED BY MeipInvHolds, <1>1, PTL
-----------------------------------------------------------------------------
(* The other bit of csr[MIP]. IrqRace says what its words go through when  *)
(* a tick and an update overlap; module Clint says what STIP means to the  *)
(* guest when they do not.                                                 *)

(* One end of an instruction that keeps the enables and the deadline in    *)
(* their ranges keeps all of TypeOK.                                       *)
LEMMA RetireKeepsTypes ==
  ASSUME ClintTypeOK, NEW time \in Times, NEW updated \in BOOLEAN,
         stimecmp' \in Times, sstc' \in BOOLEAN, counter' \in BOOLEAN,
         Retire(time, updated)
  PROVE  ClintTypeOK'
<1> DEFINE tick == cycle = Period - 1
<1>1. cycle' \in 0 .. Period - 1
  BY ClintConstants DEF Retire, ClintTypeOK
<1>2. Later(time) \in Times
  BY ClintConstants DEF Later, Times
<1>3. mtime' \in Times
  BY <1>2 DEF Retire
<1>4. compare' \in Times /\ stip' \in BOOLEAN
  <2>1. CASE tick \/ updated
    <3>1. Update BY <2>1 DEF Retire
    <3>2. compare' \in Times BY <3>1 DEF Update, ClintTypeOK
    <3>3. (mtime' >= compare') \in BOOLEAN
      BY ClintConstants, <1>3, <3>2 DEF Times
    <3>4. stip' \in BOOLEAN BY <3>1, <3>3 DEF Update, ClintTypeOK
    <3> QED BY <3>2, <3>4
  <2>2. CASE ~(tick \/ updated)
    BY <2>2 DEF Retire, ClintTypeOK
  <2> QED BY <2>1, <2>2
<1>5. Answer' \in BOOLEAN
  <2>1. (mtime' >= (IF sstc' THEN stimecmp' ELSE compare')) \in BOOLEAN
    BY ClintConstants, <1>3, <1>4 DEF Times
  <2> QED BY <2>1, <1>4 DEF Answer
<1>6. answers' \in SUBSET BOOLEAN
  <2>1. \E b \in BOOLEAN : Note(b) BY DEF Retire
  <2> QED BY <2>1, <1>5 DEF Note, ClintTypeOK
<1> QED BY <1>1, <1>3, <1>4, <1>6 DEF ClintTypeOK

(* It leaves the pending bit at an answer given since the update: a new    *)
(* one if it updates, and else an old one.                                 *)
LEMMA RetireKeepsLag ==
  ASSUME StipLags, NEW time, NEW updated \in BOOLEAN, Retire(time, updated)
  PROVE  StipLags'
<1> DEFINE tick == cycle = Period - 1
<1>1. CASE tick \/ updated
  <2>1. Update /\ Note(TRUE) BY <1>1 DEF Retire
  <2>2. stip' = Answer' BY <2>1 DEF Update, Answer
  <2> QED BY <2>1, <2>2 DEF Note, StipLags
<1>2. CASE ~(tick \/ updated)
  BY <1>2 DEF Retire, Note, StipLags
<1> QED BY <1>1, <1>2

(* Every instruction is such an end.                                       *)
LEMMA StepRetires ==
  ASSUME ClintTypeOK, ClintNext
  PROVE  \E time \in Times, updated \in BOOLEAN :
            /\ Retire(time, updated)
            /\ stimecmp' \in Times /\ sstc' \in BOOLEAN /\ counter' \in BOOLEAN
<1>1. mtime \in Times /\ stimecmp \in Times /\ sstc \in BOOLEAN /\ counter \in BOOLEAN
  BY DEF ClintTypeOK
<1>2. CASE Plain
  BY <1>1, <1>2 DEF Plain, csrs
<1>3. CASE \E deadline \in Times : WriteStimecmp(deadline)
  BY <1>1, <1>3 DEF WriteStimecmp
<1>4. CASE \E bit \in BOOLEAN : WriteMenvcfg(bit) \/ WriteMcounteren(bit)
  BY <1>1, <1>4 DEF WriteMenvcfg, WriteMcounteren
<1>5. CASE \E offset \in Registers \cup {TimeAt}, value \in Times : Store(offset, value)
  <2>1. PICK offset \in Registers \cup {TimeAt}, value \in Times : Store(offset, value)
    BY <1>5
  <2> DEFINE time == IF Reached(offset) = TimeAt THEN value ELSE mtime
             updated == Reached(offset) \in Registers \cup {TimeAt}
  <2>2. time \in Times /\ updated \in BOOLEAN BY <1>1
  <2>3. Retire(time, updated) /\ UNCHANGED csrs BY <2>1 DEF Store
  <2>4. stimecmp' \in Times /\ sstc' \in BOOLEAN /\ counter' \in BOOLEAN
    BY <1>1, <2>3 DEF csrs
  <2> HIDE DEF time, updated
  <2> QED BY <2>2, <2>3, <2>4
<1> QED BY <1>2, <1>3, <1>4, <1>5 DEF ClintNext

(* The variables of the timer keep their ranges.                           *)
THEOREM ClintTypeCorrect == ClintSpec => []ClintTypeOK
<1>1. ClintInit => ClintTypeOK
  <2> SUFFICES ASSUME ClintInit PROVE ClintTypeOK
    OBVIOUS
  <2>1. cycle \in 0 .. Period - 1 /\ 0 \in Times
    BY ClintConstants DEF ClintInit, Times
  <2>2. answers \in SUBSET BOOLEAN /\ sstc \in BOOLEAN /\ counter \in BOOLEAN /\ stip \in BOOLEAN
    BY DEF ClintInit
  <2> QED BY <2>1, <2>2 DEF ClintInit, ClintTypeOK
<1>2. ClintTypeOK /\ [ClintNext]_clintVars => ClintTypeOK'
  <2> SUFFICES ASSUME ClintTypeOK, [ClintNext]_clintVars PROVE ClintTypeOK'
    OBVIOUS
  <2>1. CASE ClintNext
    BY <2>1, StepRetires, RetireKeepsTypes
  <2>2. CASE UNCHANGED clintVars
    BY <2>2 DEF clintVars, csrs, ClintTypeOK
  <2> QED BY <2>1, <2>2
<1> QED BY <1>1, <1>2, PTL DEF ClintSpec

(* STIP is never older than the last update, whatever the guest writes to  *)
(* the deadline and to the enables in between.                             *)
THEOREM ClintStipLags == ClintSpec => []StipLags
<1>1. ClintInit => StipLags
  BY DEF ClintInit, StipLags
<1>2. ClintTypeOK /\ StipLags /\ [ClintNext]_clintVars => StipLags'
  <2> SUFFICES ASSUME ClintTypeOK, StipLags, [ClintNext]_clintVars PROVE StipLags'
    OBVIOUS
  <2>1. CASE ClintNext
    BY <2>1, StepRetires, RetireKeepsLag
  <2>2. CASE UNCHANGED clintVars
    BY <2>2 DEF clintVars, csrs, StipLags
  <2> QED BY <2>1, <2>2
<1> QED BY <1>1, <1>2, ClintTypeCorrect, PTL DEF ClintSpec
=============================================================================
