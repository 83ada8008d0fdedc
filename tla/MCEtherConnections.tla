------------------------- MODULE MCEtherConnections -------------------------
(* Instances of EtherConnections for TLC: the kernel with the higher       *)
(* process id and the one with the lower.                                  *)
EXTENDS EtherConnections

CONSTANTS high, low
=============================================================================
