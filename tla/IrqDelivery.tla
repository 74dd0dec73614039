----------------------------- MODULE IrqDelivery -----------------------------
(***************************************************************************)
(* What an interrupt controller promises one hart, whatever its registers: *)
(* a source is offered and delivered only while a request of it is up and  *)
(* no earlier delivery of it is unfinished; a delivery consumes the        *)
(* request, and finishing it discards one that came up meanwhile.          *)
(***************************************************************************)
CONSTANTS
  Sources,   \* the interrupt sources
  None       \* a value outside Sources: nothing is offered

VARIABLES
  raised,    \* the sources with a request up
  serving,   \* the sources delivered and not finished
  offered    \* the source shown to the hart, or None

vars == <<raised, serving, offered>>

Offer == offered' \in {None} \cup (raised' \ serving')

Raise(s)    == raised' = raised \cup {s} /\ UNCHANGED serving /\ Offer
Withdraw(s) == raised' = raised \ {s} /\ UNCHANGED serving /\ Offer
Deliver(s)  ==
  /\ s \in raised \ serving
  /\ raised' = raised \ {s}
  /\ serving' = serving \cup {s}
  /\ Offer
Finish(s)   == raised' = raised \ {s} /\ serving' = serving \ {s} /\ Offer
Reconsider  == UNCHANGED <<raised, serving>> /\ Offer

Init == raised = {} /\ serving = {} /\ offered = None
Next ==
  \/ \E s \in Sources : Raise(s) \/ Withdraw(s) \/ Deliver(s) \/ Finish(s)
  \/ Reconsider

Spec == Init /\ [][Next]_vars
=============================================================================
