------------------------- MODULE MCKernelLifecycle -------------------------
(* Instances of KernelLifecycle for TLC. *)
EXTENDS KernelLifecycle, TLC

CONSTANTS k, a, b

\* the kernel's own component and another in group 1, a third one above them
MCGroup == k :> 1 @@ a :> 1 @@ b :> 2

\* the embedder's threads are alike
RequesterSymmetry == Permutations(Requesters)
=============================================================================
