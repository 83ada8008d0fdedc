---------------------------- MODULE MCObjectFlow ----------------------------
(* Instances of ObjectFlow for TLC. *)
EXTENDS ObjectFlow

CONSTANTS o1, all, where
=============================================================================
