---------------------------- MODULE MCMailboxWait ---------------------------
(* Model checking of MailboxWait: two waiters, two messages.                *)
EXTENDS MailboxWait
=============================================================================
