---------------------------- MODULE ContextStack ----------------------------
(***************************************************************************)
(* What trap entry and return promise: the hart runs the context on top of *)
(* a stack; a trap puts a handler on top of it, with interrupts off and no *)
(* privilege lost, and a return resumes exactly the context below.         *)
(***************************************************************************)
EXTENDS Integers, Sequences

CONSTANTS Addresses, Levels

VARIABLE stack

Contexts == [pc : Addresses, privilege : Levels, on : BOOLEAN]

Init == \E c \in Contexts : stack = <<c>>

\* The running context changes its pc or its interrupt enable.
Run(c) ==
  /\ c.privilege = Head(stack).privilege
  /\ stack' = <<c>> \o Tail(stack)

Trap(h) ==
  /\ ~h.on /\ h.privilege >= Head(stack).privilege
  /\ stack' = <<h>> \o stack

Return ==
  /\ Len(stack) > 1
  /\ stack' = Tail(stack)

\* The kernel makes a context that the next return will start.
Make(c) == stack' = <<Head(stack), c>> \o Tail(stack)

Next == Return \/ \E c \in Contexts : Run(c) \/ Trap(c) \/ Make(c)

Spec == Init /\ [][Next]_stack
=============================================================================
