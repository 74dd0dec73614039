------------------------------ MODULE RxQueue ------------------------------
(***************************************************************************)
(* What the receive side of the UART promises: a queue of bounded size     *)
(* that keeps the newest characters, hands them out oldest first, and can  *)
(* be cleared.                                                             *)
(***************************************************************************)
EXTENDS Naturals, Sequences

CONSTANTS Chars, Capacity

VARIABLE queue

Init == queue = <<>>

\* A full queue gives up its oldest character.
Put(c) == queue' = Append(IF Len(queue) = Capacity THEN Tail(queue) ELSE queue, c)
Get    == queue # <<>> /\ queue' = Tail(queue)
Clear  == queue' = <<>>

Next == (\E c \in Chars : Put(c)) \/ Get \/ Clear

Spec == Init /\ [][Next]_queue
=============================================================================
