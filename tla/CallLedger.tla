----------------------------- MODULE CallLedger -----------------------------
(***************************************************************************)
(* What a work queue promises to those who push into it, whatever threads  *)
(* and buffers it uses (docs/users_guide/mental_model.md: queued calls are *)
(* delivered at the start of a cycle): a call that was accepted is run or  *)
(* given up, never both, and what was decided stays decided.               *)
(***************************************************************************)
CONSTANT Calls

VARIABLE ledger     \* "new", "accepted", "run" or "lost"

Init == ledger = [c \in Calls |-> "new"]

Move(c, from, to) ==
    /\ ledger[c] = from
    /\ ledger' = [ledger EXCEPT ![c] = to]

Accept(c) == Move(c, "new", "accepted")
Refuse(c) == Move(c, "new", "lost")
Run(c) == Move(c, "accepted", "run")
GiveUp(c) == Move(c, "accepted", "lost")

Next == \E c \in Calls : Accept(c) \/ Refuse(c) \/ Run(c) \/ GiveUp(c)

Spec == Init /\ [][Next]_ledger
=============================================================================
