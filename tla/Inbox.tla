------------------------------- MODULE Inbox -------------------------------
(***************************************************************************)
(* What a mailbox promises (mailbox.go): messages are stored once each, in *)
(* an order that never changes; readers are handed contiguous blocks of    *)
(* them, each message once; acknowledging raises a second watermark and    *)
(* implies having been handed.  Neither watermark moves back.              *)
(***************************************************************************)
EXTENDS Naturals, Sequences, Functions

CONSTANT Ids       \* message ids

VARIABLES
  inbox,      \* the ids stored, in order; a sequence number is a position
  delivered,  \* everything up to here was handed to a reader
  read        \* everything up to here was acknowledged

vars == <<inbox, delivered, read>>

Init == inbox = <<>> /\ delivered = 0 /\ read = 0

Deposit(id) ==
  /\ id \notin Range(inbox)
  /\ inbox' = Append(inbox, id)
  /\ UNCHANGED <<delivered, read>>

HandOut(upto) ==
  /\ upto \in (delivered + 1)..Len(inbox)
  /\ delivered' = upto
  /\ UNCHANGED <<inbox, read>>

Acknowledge(upto) ==
  /\ upto \in (read + 1)..Len(inbox)
  /\ read' = upto
  /\ delivered' = IF upto > delivered THEN upto ELSE delivered
  /\ UNCHANGED inbox

Next ==
  \/ \E id \in Ids : Deposit(id)
  \/ \E upto \in 1..Len(inbox) : HandOut(upto) \/ Acknowledge(upto)

Spec == Init /\ [][Next]_vars
=============================================================================
