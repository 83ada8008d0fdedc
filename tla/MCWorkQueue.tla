---------------------------- MODULE MCWorkQueue ----------------------------
(* Instances of WorkQueue for TLC: one foreign producer and the component. *)
EXTENDS WorkQueue, TLC

CONSTANTS other, component

MCMaxCalls == other :> 2 @@ component :> 1
=============================================================================
