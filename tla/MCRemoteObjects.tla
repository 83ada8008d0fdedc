--------------------------- MODULE MCRemoteObjects ---------------------------
(* Instances of RemoteObjects for TLC. *)
EXTENDS RemoteObjects

CONSTANTS o1, i1
=============================================================================
