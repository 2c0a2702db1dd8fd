--------------------------- MODULE MCNotifications --------------------------
(***************************************************************************)
(* TLC instance of Notifications.                                          *)
(***************************************************************************)
EXTENDS Notifications, TLC

\* All messages are of one Pi-hole.
AtOnePihole == [m \in Messages |-> CHOOSE i \in Instances : TRUE]
=============================================================================
