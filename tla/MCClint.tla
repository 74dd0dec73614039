------------------------------ MODULE MCClint ------------------------------
(* Clint for TLC: the base and the registers stand to each other as         *)
(* 0x02000000 does to 0, 0x4000 and 0xBFF8.                                 *)
EXTENDS Clint

MCRegisters == {0, 2}
=============================================================================
