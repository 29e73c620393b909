--------------------------- MODULE MCNotifications ---------------------------
(* Notifications for TLC. *)
EXTENDS Notifications

\* A handler that writes to one recipient twice.
MCMails == [e \in Events |-> <<"r1", "r1">>]

=============================================================================
