----------------------------- MODULE MCFanqieJobs -----------------------------
(* Small instances of FanqieJobs for TLC: how often each outside event may  *)
(* happen in each run.                                                      *)
EXTENDS FanqieJobs, TLC

CONSTANTS u1, u2, g1, c1, c2

(* How often each event happens in the run of faults, with two commands in   *)
(* flight and room for one waiting job: either a retry, a deletion, a lost   *)
(* chat connection and a database error; or a cancellation, a sending and    *)
(* files that expire.                                                        *)
FaultsBudget == "submit" :> 2 @@ "cancel" :> 1 @@ "retry" :> 1 @@ "deliver" :> 1 @@ "delete" :> 1
    @@ "expire" :> 1 @@ "perm" :> 0 @@ "bot" :> 1 @@ "restart" :> 0 @@ "dberror" :> 1

Only(kinds) == [k \in Kinds |-> IF k \in kinds THEN FaultsBudget[k] ELSE 0]

FaultsInit ==
    Fresh /\ left \in {Only({"submit", "retry", "delete", "bot", "dberror"}),
                      Only({"submit", "cancel", "deliver", "expire"})}

FaultsSpec == FaultsInit /\ [][Next]_vars

(* Every command but deletion, and files that expire.                       *)
PromiseBudget == "submit" :> 2 @@ "cancel" :> 1 @@ "retry" :> 1 @@ "deliver" :> 1 @@ "delete" :> 0
    @@ "expire" :> 1 @@ "perm" :> 0 @@ "bot" :> 0 @@ "restart" :> 0 @@ "dberror" :> 0

(* A retry, a restart and the feature switch, for progress.                 *)
RestartBudget == "submit" :> 2 @@ "cancel" :> 0 @@ "retry" :> 1 @@ "deliver" :> 0 @@ "delete" :> 0
    @@ "expire" :> 0 @@ "perm" :> 1 @@ "bot" :> 0 @@ "restart" :> 1 @@ "dberror" :> 0

(* The chat connection is lost once.                                        *)
NotifyBudget == "submit" :> 1 @@ "cancel" :> 0 @@ "retry" :> 0 @@ "deliver" :> 0 @@ "delete" :> 0
    @@ "expire" :> 0 @@ "perm" :> 0 @@ "bot" :> 1 @@ "restart" :> 0 @@ "dberror" :> 0

(* Every command's commit is timely.                                        *)
TimelySpec == Init /\ [][Next /\ Timely]_vars

ClientSymmetry == Permutations({c1, c2})
=============================================================================
