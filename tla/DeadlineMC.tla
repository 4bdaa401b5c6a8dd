----------------------------- MODULE DeadlineMC -----------------------------
(* Two calls, the second of which may find the connection of the first, and *)
(* its deadline on it.  MaxTime leaves the second room for its own whole    *)
(* timeout after the first has spent all of its own.                        *)
EXTENDS Deadline

CONSTANTS c1, c2

MCCalls == {c1, c2}
=============================================================================
