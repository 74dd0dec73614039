------------------------------ MODULE IrqRace -------------------------------
(***************************************************************************)
(* The interrupt controller under its two threads. plic_set_irq,           *)
(* plic_update and clint_update_interrupts read, modify and write          *)
(* plic.pending and csr[MIP] with no lock: the receive thread raises the   *)
(* UART there while the CPU thread raises the disk, claims, completes or   *)
(* ticks. Each |= and &= is a load and a store here, with the other        *)
(* thread's steps between them. What one call does when it is alone is     *)
(* module Plic; this module keeps one word of pending bits, the claimed    *)
(* bits, MEIP and STIP, and what is lost between the threads.              *)
(***************************************************************************)
EXTENDS Integers, FiniteSets

CONSTANTS MaxKeys,    \* characters that are typed
          MaxDisk     \* disk operations that complete

ASSUME BoundsAssumption == MaxKeys \in Nat /\ MaxDisk \in Nat

Irqs == {"uart", "disk"}    \* both enabled, with a priority above the threshold
Threads == {"cpu", "rx"}
Other(t) == IF t = "cpu" THEN "rx" ELSE "cpu"

VARIABLES pending, claimed, mip,
          keys, disks,  \* what has been typed and completed
          due           \* mtime has reached stimecmp

(* The call each thread is in: how far it has come, which call (raise,     *)
(* lower, claim or complete irq, or tick) and of which source, the copy it *)
(* modifies and the result of its scan.                                    *)
VARIABLES at, call, irq, word, found

(* What a reader of a proof needs to know of the past: raises whose store  *)
(* met no other thread's, whether a call has run alone so far, and whether *)
(* the last overlap has been followed by an update that ran alone.         *)
VARIABLES safe, alone, clean

device == <<pending, claimed, mip>>
calls == <<keys, disks, due>>
local == <<call, irq, word, found, alone>>
vars == <<device, calls, at, local, safe, clean>>

Quiet(t) == at[t] = "idle"
To(t, place) == at' = [at EXCEPT ![t] = place]

(* Entry of a call, and the end of the other thread's solitude.            *)
Enter(t, name, source, place) ==
  /\ Quiet(t) /\ To(t, place)
  /\ call' = [call EXCEPT ![t] = name] /\ irq' = [irq EXCEPT ![t] = source]
  /\ alone' = [x \in Threads |-> x = t /\ Quiet(Other(t))]
  /\ clean' = (clean /\ Quiet(Other(t)))
  /\ UNCHANGED <<word, found>>
Leave(t) ==
  /\ To(t, "idle")
  /\ call' = [call EXCEPT ![t] = "none"] /\ irq' = [irq EXCEPT ![t] = "none"]
  /\ word' = [word EXCEPT ![t] = {}] /\ found' = [found EXCEPT ![t] = FALSE]
  /\ alone' = [alone EXCEPT ![t] = FALSE]
-----------------------------------------------------------------------------
(* The receive thread: a key raises the UART. uart->lock keeps it apart    *)
(* from the CPU thread's lowering of the UART, and from nothing else.      *)
Key ==
  /\ keys < MaxKeys /\ keys' = keys + 1
  /\ call["cpu"] # "lower"
  /\ Enter("rx", "raise", "uart", "load")
  /\ UNCHANGED <<device, disks, due, safe>>

(* The CPU thread: a disk operation completes; the last character is read. *)
DiskDone ==
  /\ disks < MaxDisk /\ disks' = disks + 1
  /\ Enter("cpu", "raise", "disk", "load")
  /\ UNCHANGED <<device, keys, due, safe>>
ReadLast ==
  /\ Quiet("rx")
  /\ Enter("cpu", "lower", "uart", "load")
  /\ safe' = safe \ {"uart"}
  /\ UNCHANGED <<device, calls>>

(* plic_claim marks its winner as claimed and then clears its pending bit. *)
Claim ==
  \E winner \in pending \ claimed :
    /\ Enter("cpu", "claim", winner, "load")
    /\ claimed' = claimed \cup {winner}
    /\ safe' = safe \ {winner}
    /\ UNCHANGED <<pending, mip, calls>>

(* plic_complete clears both bits: a request since the claim is discarded. *)
Complete ==
  \E source \in claimed :
    /\ Enter("cpu", "complete", source, "load")
    /\ claimed' = claimed \ {source}
    /\ safe' = safe \ {source}
    /\ UNCHANGED <<pending, mip, calls>>

(* clint_tick, with the supervisor's timer enabled, and the guest or the   *)
(* clock moving the deadline.                                              *)
Tick ==
  /\ Enter("cpu", "tick", "none", "mload")
  /\ UNCHANGED <<device, calls, safe>>
Deadline ==
  /\ Quiet("cpu")
  /\ due' = ~due
  /\ UNCHANGED <<device, keys, disks, at, local, safe, clean>>
-----------------------------------------------------------------------------
(* The word of pending bits. A raise is safe unless the other thread has   *)
(* still to store over it: a copy it loaded before, or the clearing of the *)
(* same source, which a claim has then already chosen to serve.            *)
Overwrites(t, source) ==
  \/ at[t] = "store"
  \/ at[t] = "load" /\ call[t] # "raise" /\ irq[t] = source

LoadPending(t) ==
  /\ at[t] = "load" /\ To(t, "store")
  /\ word' = [word EXCEPT ![t] = pending]
  /\ UNCHANGED <<device, calls, call, irq, found, alone, safe, clean>>

\* Mutant: a clearing stores 0 to the whole word.
StorePending_WholeWord(t) ==
  LET raises == call[t] = "raise"
  IN /\ at[t] = "store" /\ To(t, IF call[t] = "complete" THEN "mload" ELSE "scan")
     /\ pending' = IF raises THEN word[t] \cup {irq[t]} ELSE {}
     /\ safe' = IF raises /\ ~Overwrites(Other(t), irq[t]) THEN safe \cup {irq[t]} ELSE safe
     /\ UNCHANGED <<claimed, mip, calls, local, clean>>

StorePending(t) ==
  LET raises == call[t] = "raise"
  IN /\ at[t] = "store" /\ To(t, IF call[t] = "complete" THEN "mload" ELSE "scan")
     /\ pending' = IF raises THEN word[t] \cup {irq[t]} ELSE word[t] \ {irq[t]}
     /\ safe' = IF raises /\ ~Overwrites(Other(t), irq[t]) THEN safe \cup {irq[t]} ELSE safe
     /\ UNCHANGED <<claimed, mip, calls, local, clean>>

(* plic_update's scan, and the result it will write to MEIP. *)
Waiting == pending \ claimed # {}

\* Mutant: sources in service are not left out.
Scan_Claimed(t) ==
  /\ at[t] = "scan" /\ To(t, "mload")
  /\ found' = [found EXCEPT ![t] = (pending # {})] /\ call' = [call EXCEPT ![t] = "update"]
  /\ UNCHANGED <<device, calls, irq, word, alone, safe, clean>>

Scan(t) ==
  /\ at[t] = "scan" /\ To(t, "mload")
  /\ found' = [found EXCEPT ![t] = Waiting] /\ call' = [call EXCEPT ![t] = "update"]
  /\ UNCHANGED <<device, calls, irq, word, alone, safe, clean>>

(* csr[MIP]: plic_complete's clearing of MEIP, plic_update's setting or    *)
(* clearing, or the tick's write of STIP.                                  *)
LoadMip(t) ==
  /\ at[t] = "mload" /\ To(t, "mstore")
  /\ word' = [word EXCEPT ![t] = mip]
  /\ UNCHANGED <<device, calls, call, irq, found, alone, safe, clean>>

Bit(w, bit, on) == IF on THEN w \cup {bit} ELSE w \ {bit}

(* plic_complete goes on to plic_update; the others return. *)
Ends(t) == IF call[t] = "complete" THEN To(t, "scan") /\ UNCHANGED local ELSE Leave(t)

(* What a call makes of its copy. *)
Written(t) ==
  IF call[t] = "tick" THEN Bit(word[t], "STIP", due)
  ELSE Bit(word[t], "MEIP", call[t] = "update" /\ found[t])

\* Mutant: the copy goes to the wrong word.
StoreMip_OtherWord(t) ==
  /\ at[t] = "mstore" /\ Ends(t)
  /\ pending' = Written(t)
  /\ clean' = (clean \/ (call[t] = "update" /\ alone[t]))
  /\ UNCHANGED <<mip, claimed, calls, safe>>

\* Mutant: STIP is set and never cleared.
StoreMip_NeverClears(t) ==
  /\ at[t] = "mstore" /\ Ends(t)
  /\ mip' = Written(t) \cup ({"STIP"} \cap word[t])
  /\ clean' = (clean \/ (call[t] = "update" /\ alone[t]))
  /\ UNCHANGED <<pending, claimed, calls, safe>>

StoreMip(t) ==
  /\ at[t] = "mstore" /\ Ends(t)
  /\ mip' = Written(t)
  /\ clean' = (clean \/ (call[t] = "update" /\ alone[t]))
  /\ UNCHANGED <<pending, claimed, calls, safe>>

-----------------------------------------------------------------------------
Init ==
  /\ pending = {} /\ claimed = {} /\ mip = {}
  /\ keys = 0 /\ disks = 0 /\ due = FALSE
  /\ at = [t \in Threads |-> "idle"] /\ call = [t \in Threads |-> "none"]
  /\ irq = [t \in Threads |-> "none"] /\ word = [t \in Threads |-> {}]
  /\ found = [t \in Threads |-> FALSE] /\ alone = [t \in Threads |-> FALSE]
  /\ safe = {} /\ clean = TRUE

Continue(t) == LoadPending(t) \/ StorePending(t) \/ Scan(t) \/ LoadMip(t) \/ StoreMip(t)
Next ==
  \/ Key \/ DiskDone \/ ReadLast \/ Claim \/ Complete \/ Tick \/ Deadline
  \/ \E t \in Threads : Continue(t)
Spec == Init /\ [][Next]_vars

(* Both threads run, and every hundredth instruction ticks. *)
Fairness == WF_vars(Continue("cpu")) /\ WF_vars(Continue("rx")) /\ SF_vars(Tick)
FairSpec == Spec /\ Fairness
-----------------------------------------------------------------------------
Places == {"idle", "load", "store", "scan", "mload", "mstore"}
Names == {"none", "raise", "lower", "claim", "complete", "tick", "update"}
Bits == {"MEIP", "STIP"}
TypeOK ==
  /\ pending \subseteq Irqs /\ claimed \subseteq Irqs /\ mip \subseteq Bits
  /\ keys \in 0 .. MaxKeys /\ disks \in 0 .. MaxDisk /\ due \in BOOLEAN
  /\ at \in [Threads -> Places] /\ call \in [Threads -> Names]
  /\ irq \in [Threads -> Irqs \cup {"none"}] /\ word \in [Threads -> SUBSET (Irqs \cup Bits)]
  /\ found \in [Threads -> BOOLEAN] /\ alone \in [Threads -> BOOLEAN]
  /\ safe \subseteq Irqs /\ clean \in BOOLEAN

(* plic.c:82: a request that the other thread was not about to store over  *)
(* stays pending until it is claimed, completed or, by a read of the last  *)
(* character, withdrawn. Nothing else loses a request.                     *)
RequestsKept == safe \subseteq pending

(* plic.c:187: what an overlap leaves in MEIP lasts until the next update  *)
(* that runs alone: from then on MEIP says whether a request waits.        *)
MeipRecovers ==
  (Quiet("cpu") /\ Quiet("rx") /\ clean) => ("MEIP" \in mip <=> Waiting)

(* clint.c:152: a deadline that stays passed is shown for good, and one    *)
(* that stays ahead is not, although plic_update on the receive thread may *)
(* undo a tick: the keys end, and the ticks do not.                        *)
StipFollows ==
  /\ <>[]due => <>[]("STIP" \in mip)
  /\ <>[]~due => <>[]("STIP" \notin mip)
=============================================================================
