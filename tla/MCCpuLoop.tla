----------------------------- MODULE MCCpuLoop -----------------------------
(* CpuLoop for TLC. *)
EXTENDS CpuLoop
=============================================================================
