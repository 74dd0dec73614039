------------------------------- MODULE MCTrap -------------------------------
(* Trap for TLC: everything delegated and taken by the supervisor, nothing *)
(* delegated, and a mixture.                                               *)
EXTENDS Trap

MCConfigs == {
  [mie |-> {}, sie |-> Kinds, deleg |-> Kinds],
  [mie |-> Kinds, sie |-> Kinds, deleg |-> {}],
  [mie |-> {"timer"}, sie |-> {"ext"}, deleg |-> {"ext", "soft"}]}
=============================================================================
