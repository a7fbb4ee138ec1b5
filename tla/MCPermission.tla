---------------------------- MODULE MCPermission ----------------------------
(* Model checking of Permission: a carousel of three modes, and dontAsk.     *)
EXTENDS Permission, TLC

CONSTANTS default, plan, bypass, dontAsk

FourModes == {default, plan, bypass, dontAsk}

Carousel ==
  (dontAsk :> default) @@ (default :> plan) @@ (plan :> bypass) @@ (bypass :> default)

OneEdit == {[mode |-> plan, allow |-> FALSE]}
=============================================================================
