-------------------------- MODULE MCRunnerObjects --------------------------
(* Instances of RunnerObjects for TLC. *)
EXTENDS RunnerObjects, TLC

CONSTANTS x, y, z, p, q

\* two objects of one participant, and one of the other
MCAddedBy == x :> {p} @@ y :> {p} @@ z :> {q}

\* the objects of the first are alike
MCSymmetry == Permutations({x, y})
=============================================================================
