----------------------------- MODULE JobLifecycle -----------------------------
(***************************************************************************)
(* What the download service promises about its jobs, whatever its queue,  *)
(* its worker task and its session blocks look like: one job is worked on  *)
(* at a time, a job is only finished by the work done on it, a finished    *)
(* job moves again only when it is retried, and a stop of the process puts *)
(* the job in hand back in the queue.                                      *)
(***************************************************************************)
CONSTANT Jobs

VARIABLES
    st,   \* how each job stands
    wish  \* the jobs whose user asked to cancel them

promise == <<st, wish>>

States == {"absent", "queued", "running", "completed", "failed", "cancelled"}

Becomes(j, s) == st' = [st EXCEPT ![j] = s]

New(j) == st[j] = "absent" /\ Becomes(j, "queued") /\ wish' = wish \ {j}

(* A cancellation that arrives while the worker is about to start the job  *)
(* shows as running once more; the wish stays and ends it.                 *)
Start(j) ==
    /\ st[j] = "queued" \/ (st[j] = "cancelled" /\ j \in wish)
    /\ \A k \in Jobs : st[k] # "running"
    /\ Becomes(j, "running") /\ UNCHANGED wish

(* Only the work on a job finishes it, with what it had come to.  Where a  *)
(* cancellation showed before the work had stopped, the wish ends it there *)
(* or the work, if it was past asking, still ends as it would have.        *)
Finish(j) ==
    /\ st[j] = "running" \/ (st[j] = "cancelled" /\ j \in wish)
    /\ \E s \in {"completed", "failed", "cancelled"} :
        /\ s = "cancelled" => j \in wish
        /\ Becomes(j, s)
    /\ UNCHANGED wish

(* A cancellation decided while the job was queued may show on a running   *)
(* one, and one decided on a running job may only be noted on a queued one.*)
AskCancel(j) ==
    /\ st[j] \in {"queued", "running"}
    /\ wish' = wish \cup {j}
    /\ Becomes(j, "cancelled") \/ UNCHANGED st

Again(j) ==
    /\ st[j] \in {"completed", "failed", "cancelled"}
    /\ Becomes(j, "queued") /\ wish' = wish \ {j}

(* A completed job whose book has expired fails when it is asked for. *)
Expired(j) == st[j] = "completed" /\ Becomes(j, "failed") /\ UNCHANGED wish

Stop ==
    /\ st' = [j \in Jobs |-> IF st[j] = "running" THEN "queued" ELSE st[j]]
    /\ UNCHANGED wish

LInit == st = [j \in Jobs |-> "absent"] /\ wish = {}

LNext == Stop \/ \E j \in Jobs : New(j) \/ Start(j) \/ Finish(j) \/ AskCancel(j)
                                 \/ Again(j) \/ Expired(j)

LSpec == LInit /\ [][LNext]_promise

=============================================================================
