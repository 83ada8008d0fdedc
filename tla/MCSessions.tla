----------------------------- MODULE MCSessions -----------------------------
(* Instances of Sessions for TLC. *)
EXTENDS Sessions

CONSTANTS a, b

\* nobody watches, or one component does
MCWatcherSets == {{}, {a}}
=============================================================================
