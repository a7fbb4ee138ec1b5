------------------------------ MODULE MCTrust ------------------------------
(* Instances of Trust for TLC. *)
EXTENDS Trust

CONSTANTS t1, t2, c1, pr1, pr2

TwoCalls == {t1, t2}

OneClaude == {c1}

TwoProjects == {pr1, pr2}

\* The same project or another.
OneAndEither == [t \in TwoCalls |-> IF t = t1 THEN {pr1} ELSE TwoProjects]
=============================================================================
