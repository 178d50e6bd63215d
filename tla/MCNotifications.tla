-------------------------- MODULE MCNotifications ---------------------------
(* A small instance of Notifications: one request names every channel, the   *)
(* others leave the choice to the default route.                             *)
EXTENDS Notifications, TLC

MCWant ==
    LET first == CHOOSE r \in Requests : TRUE
    IN  [r \in Requests |-> IF r = first THEN Channels ELSE {}]
=============================================================================
