--------------------------- MODULE MCSessionBuses ---------------------------
(* Instances of SessionBuses for TLC: two remotes of one process and a     *)
(* local participant, on one bus, and an info provider.                    *)
EXTENDS SessionBuses

CONSTANTS r1, r2, p, b, l, i, w1, w2

MCProcessOf == [r \in {r1, r2} |-> p]
MCBusOf == [x \in {r1, r2, l} |-> b]
=============================================================================
