------------------------------- MODULE MCPlic -------------------------------
(* Plic for TLC: three sources, of which the virtio disk and the UART are  *)
(* the two enabled at boot.                                                *)
EXTENDS Plic
=============================================================================
