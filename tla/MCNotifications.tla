-------------------------- MODULE MCNotifications --------------------------
(***************************************************************************)
(* Instances of Notifications for TLC: a step that notifies Slack and may  *)
(* try twice, one that logs, and one whose channel does not exist.         *)
(***************************************************************************)
EXTENDS Notifications

MCStep        == {"slack", "log", "sms"}
MCChannel     == [s \in MCStep |-> s]
MCMaxAttempts == [s \in MCStep |-> IF s = "slack" THEN 2 ELSE 1]
=============================================================================
