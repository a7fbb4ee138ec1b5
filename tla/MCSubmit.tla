------------------------------ MODULE MCSubmit ------------------------------
(* Model checking of Submit: two calls on one session.  One has trouble with *)
(* the daemon, and its longest line is also in the other's prompt and in     *)
(* what the tools print.                                                     *)
EXTENDS Submit

CONSTANTS c1, c2

TwoCalls == {c1, c2}
Unlucky == {c2}
Lines == [c \in TwoCalls |-> IF c = c1 THEN {c1} ELSE {c1, c2}]
=============================================================================
