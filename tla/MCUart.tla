------------------------------- MODULE MCUart -------------------------------
(* Uart for TLC. *)
EXTENDS Uart
=============================================================================
