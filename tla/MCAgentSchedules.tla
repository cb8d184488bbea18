--------------------------- MODULE MCAgentSchedules ---------------------------
(* A small instance of AgentSchedules for TLC: how often each outside event *)
(* may happen.                                                              *)
EXTENDS AgentSchedules, TLC

SchedulesBudget == [e \in Events |-> 1]
=============================================================================
