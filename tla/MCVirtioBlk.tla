---------------------------- MODULE MCVirtioBlk ----------------------------
(* VirtioBlk for TLC: two heads that fill a queue of two, ring indices that *)
(* wrap around after four; a block that is read and written and one that    *)
(* is only read, between which the cache goes back and forth.               *)
EXTENDS VirtioBlk

CONSTANTS b1, b2, v1, v2

MCImage == [b \in Blocks |-> v1]

Reading(b) == [req |-> [type |-> "in", block |-> b], buf |-> v2]
Writing(b, v) == [req |-> [type |-> "out", block |-> b], buf |-> v]
MCTraffic == {Reading(b1), Reading(b2), Writing(b1, v1), Writing(b1, v2)}
=============================================================================
