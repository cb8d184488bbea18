---------------------------- MODULE MCReminderJobs ----------------------------
(* A small instance of ReminderJobs for TLC: how often each outside event   *)
(* may happen.                                                              *)
EXTENDS ReminderJobs, TLC

RemindersBudget == [e \in Events |-> IF e = "command" THEN 3 ELSE 1]

=============================================================================
