------------------------------ MODULE MCFleet ------------------------------
(* Instances of Fleet for TLC. *)
EXTENDS Fleet

CONSTANTS f1, f2

TwoCallers == {f1, f2}

AnyCaller == Permutations(TwoCallers)

AllConcerns == {"pins", "order", "state"}

\* Characters are numbers, 0 and 1 of them hex digits.
S1 == <<0, 0, 1>>
S2 == <<0, 1, 0>>
S3 == <<1, 0, 0>>

ThreeSids == {S1, S2, S3}

ZeroOne == {0, 1}

\* Two sessions of the same time, and one later.
Times == [s \in ThreeSids |-> IF s = S3 THEN 4 ELSE 0]

\* A word, the start of ids, and another session's short id.
SomeTitles == {<<2>>, <<0, 1>>}

\* A mailbox cannot have the second or the last of them.
SomeNames == SomeTitles \cup {<<0>>, S1}

\* A word, prefixes of no id, of one and of two, short ids, session ids.
SomeRefs == {<<>>, <<2>>, <<0>>, <<1>>, <<0, 0>>, <<0, 1>>, <<1, 1>>, S1, S2}
=============================================================================
