------------------------------ MODULE MCChatMode ------------------------------
(* A small instance of ChatMode for TLC: each outside event may happen once *)
(* and three of them in a run.                                              *)
EXTENDS ChatMode, TLC

ChatBudget == [e \in Events |-> 1] @@ [e \in {"all"} |-> 3]
=============================================================================
