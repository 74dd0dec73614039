---------------------------- MODULE DiskService ----------------------------
(***************************************************************************)
(* What the block device promises: every request that is submitted is      *)
(* answered exactly once, at one moment, in any order.  If the device can  *)
(* reach the driver's buffers at that moment, a read delivers what the     *)
(* disk holds and a write becomes what it holds; if it cannot, the answer  *)
(* is given all the same and no data moves.                                *)
(***************************************************************************)
CONSTANTS Heads, Blocks, Values

VARIABLES
  store,        \* the disk
  req,          \* the request behind each head
  buffer,       \* the data buffer of each head
  outstanding,  \* submitted, not served
  served,       \* answered, not collected by the driver
  reachable     \* whether the driver's buffers are

vars == <<store, req, buffer, outstanding, served, reachable>>

Requests == [type : {"in", "out"}, block : Blocks]

Init ==
  /\ store \in [Blocks -> Values] /\ buffer \in [Heads -> Values]
  /\ req \in [Heads -> Requests] /\ reachable \in BOOLEAN
  /\ outstanding = {} /\ served = {}

Submit(d) ==
  /\ d \notin outstanding \cup served
  /\ outstanding' = outstanding \cup {d}
  /\ \E r \in Requests, v \in Values :
        req' = [req EXCEPT ![d] = r] /\ buffer' = [buffer EXCEPT ![d] = v]
  /\ UNCHANGED <<store, served, reachable>>

Answer(d) ==
  /\ d \in outstanding
  /\ outstanding' = outstanding \ {d} /\ served' = served \cup {d}
  /\ UNCHANGED <<req, reachable>>

Serve(d) ==
  /\ Answer(d) /\ reachable
  /\ \/ /\ req[d].type = "in"
        /\ buffer' = [buffer EXCEPT ![d] = store[req[d].block]]
        /\ UNCHANGED store
     \/ /\ req[d].type = "out"
        /\ store' = [store EXCEPT ![req[d].block] = buffer[d]]
        /\ UNCHANGED buffer

Skip(d) == Answer(d) /\ ~reachable /\ UNCHANGED <<store, buffer>>

Collect(d) ==
  /\ d \in served
  /\ served' = served \ {d}
  /\ \E r \in Requests, v \in Values :
        req' = [req EXCEPT ![d] = r] /\ buffer' = [buffer EXCEPT ![d] = v]
  /\ UNCHANGED <<store, outstanding, reachable>>

\* The guest changes its page table.
Switch == reachable' = ~reachable /\ UNCHANGED <<store, req, buffer, outstanding, served>>

Next == Switch \/ \E d \in Heads : Submit(d) \/ Serve(d) \/ Skip(d) \/ Collect(d)

Spec == Init /\ [][Next]_vars
=============================================================================
