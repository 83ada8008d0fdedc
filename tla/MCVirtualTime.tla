--------------------------- MODULE MCVirtualTime ---------------------------
(* Instances of VirtualTime for TLC. *)
EXTENDS VirtualTime, TLC

CONSTANTS u, v

\* a component whose period is a whole number of milliseconds and one whose period is not
MCPeriod == u :> 4 @@ v :> 3
=============================================================================
