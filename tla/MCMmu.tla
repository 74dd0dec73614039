------------------------------- MODULE MCMmu -------------------------------
(* Mmu for TLC: two tables, either of which can be a root, and four virtual *)
(* pages that differ in every index but not in the bit that tags lack.      *)
EXTENDS Mmu

MCUsed == [Level -> {0, 1}]

MCPtes == {
  [valid |-> FALSE, perms |-> {}, page |-> 2],
  [valid |-> TRUE, perms |-> {}, page |-> 2],
  [valid |-> TRUE, perms |-> {"R", "W"}, page |-> 4],
  [valid |-> TRUE, perms |-> {"R", "X", "U"}, page |-> 8],
  [valid |-> TRUE, perms |-> {"R", "X", "G"}, page |-> 10]}
=============================================================================
