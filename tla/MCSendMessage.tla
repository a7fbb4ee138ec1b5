---------------------------- MODULE MCSendMessage ---------------------------
(* Model checking of SendMessage: a sender with one key that it may use      *)
(* again and again.                                                          *)
EXTENDS SendMessage, TLC

OneSender == {<<"a">>}
OneKey == {<<"k">>}

Symmetric == Permutations(Ids) \cup Permutations(Procs)
=============================================================================
