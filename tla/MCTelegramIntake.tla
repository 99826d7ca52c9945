---------------------------- MODULE MCTelegramIntake ----------------------------
(* Three updates, the first and the third of them requests, the second from a   *)
(* stranger: a batch in which a failure comes before a request, and a stranger *)
(* between them.                                                               *)
EXTENDS TelegramIntake

MCRequests == {1, 3}
MCStrangers == {2}
================================================================================
