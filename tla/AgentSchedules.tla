---------------------------- MODULE AgentSchedules ----------------------------
(***************************************************************************)
(* One scheduled task of the group agent (yawn_agent/schedule_store.py,    *)
(* schedule_runner.py, webui/schedules.py and the chat tools): its row,    *)
(* the tick that claims, plans, runs and records it, runs forced from the  *)
(* admin panel, the commands of its owner and stops of the process.        *)
(*                                                                         *)
(* A time is kept as what it means now: "none", in the "future" or "due".  *)
(* One step is one database session or one stretch between two awaits; a   *)
(* plan is read in one step and committed in another, because the feature  *)
(* switch and the latest bot are awaited in between, and so is a command   *)
(* of the owner or the panel, because the role of its author is awaited.   *)
(* Its commit compares no revision.  One process runs one tick at a time   *)
(* (max_instances=1), so the revision check of claim_due always succeeds.  *)
(***************************************************************************)
EXTENDS Integers, FiniteSets

CONSTANTS
    MaxRuns,      \* bound: largest max_runs a rule is given
    MaxFailures,  \* max_consecutive_failures of the policy
    MaxManual,    \* bound: forced runs at one time
    MaxCommands,  \* bound: commands under way at one time
    Budget        \* bound: how often each outside event happens

\* "halt": a pause, a cancellation or a deletion; "fault": a stop or an error.
Events == {"halt", "resume", "edit", "manual", "fault"}

ASSUME SchedulesAssumption ==
    /\ MaxRuns \in Nat \ {0} /\ MaxFailures \in Nat \ {0} /\ MaxManual \in Nat
    /\ MaxCommands \in Nat
    /\ Budget \in [Events -> Nat]

VARIABLES
    row,     \* the row of agent_scheduled_task
    pc,      \* where the tick is with this task
    planned, \* DuePlan.next_run_at of the plan in hand
    moved,   \* history: someone else wrote next_run_at since the claim
    owed,    \* history: the time in the row has come and is unanswered
    manual,  \* forced runs under way
    held,    \* commands that have read the row and not committed yet
    bare,    \* history: the last command to set the status meant to leave a time
             \* to come, which was taken away after the command had read it
    orphan,  \* history: the last claim was cut off by a stop or a database error
    left     \* what remains of Budget

vars == <<row, pc, planned, moved, owed, manual, held, bare, orphan, left>>

Times == {"none", "future", "due"}
Rows  == [status : {"absent", "active", "paused", "completed", "cancelled", "deleted"},
          next   : Times,
          lease  : {"none", "held", "stale"},
          max    : 0..MaxRuns,        \* 0: no limit
          runs   : 0..(MaxRuns + 1),  \* counted no further, above every limit
          fails  : 0..MaxFailures]
Ticks == {"idle", "claimed", "run", "skip", "defer", "running"}

\* A tick that has claimed the task and not committed what it does with it.
Pending == {"claimed", "run", "skip", "defer"}
Cols    == {"status", "next", "lease", "max", "runs", "fails"}

Gone == [status |-> "deleted", next |-> "none", lease |-> "none",
         max |-> 0, runs |-> 0, fails |-> 0]

Exists == row.status \notin {"absent", "deleted"}

Happens(e) == left[e] > 0 /\ left' = [left EXCEPT ![e] = @ - 1]

-----------------------------------------------------------------------------
(* schedule_store.py *)

(* remaining_runs <= n, for a rule that has a limit. *)
LeftAtMost(r, n) == r.max # 0 /\ r.max - r.runs <= n

(* following_run: a rule may end by its date as well. *)
Following(r) == IF LeftAtMost(r, 0) THEN {"none"} ELSE {"none", "future"}

PauseTask(r) == [r EXCEPT !.status = "paused", !.lease = "none"]

\* Mutation: any task can be resumed.
ResumableAny(r) == r.status \notin {"absent", "deleted", "active"}

Resumable(r) == r.status = "paused"

(* resume_task *)
Resumed(r, t) ==
    [r EXCEPT !.status = IF t = "none" THEN "completed" ELSE "active",
              !.next = t, !.lease = "none", !.fails = 0]

CancelTask(r) == [r EXCEPT !.status = "cancelled", !.next = "none", !.lease = "none"]

(* apply_draft with what its callers do before: a changed rule counts anew, *)
(* revives a task that has ended, and must still have a run to come.        *)
Edited(r, restart, max) ==
    LET runs   == IF restart THEN 0 ELSE r.runs
        status == IF r.status = "completed" \/ (restart /\ r.status = "cancelled")
                  THEN "active" ELSE r.status
    IN  [status |-> status,
         next   |-> IF status = "active" THEN "future" ELSE r.next,
         lease  |-> "none", max |-> max, runs |-> runs, fails |-> 0]

(* create_task *)
Create(max) ==
    /\ row.status = "absent"
    /\ row' = [status |-> "active", next |-> "future", lease |-> "none",
               max |-> max, runs |-> 0, fails |-> 0]
    /\ UNCHANGED <<pc, planned, moved, owed, manual, held, bare, orphan, left>>

\* Mutation: a lease is never given up.
Free(r) == r.lease = "none"

Claimable(r) == r.lease # "held"

(* claim_due *)
Claim ==
    /\ pc = "idle" /\ row.status = "active" /\ row.next = "due" /\ Claimable(row)
    /\ row' = [row EXCEPT !.lease = "held"]
    /\ pc' = "claimed"
    /\ moved' = FALSE /\ orphan' = FALSE
    /\ UNCHANGED <<planned, owed, manual, held, bare, left>>

-----------------------------------------------------------------------------
(* schedule_runner.py: _prepare *)

(* The task was paused, cancelled, completed or deleted since the claim. *)
PlanNothing ==
    /\ pc = "claimed" /\ row.status # "active"
    /\ row' = [row EXCEPT !.lease = "none"]
    /\ pc' = "idle"
    /\ planned' = "none" /\ moved' = FALSE
    /\ UNCHANGED <<owed, manual, held, bare, orphan, left>>

\* Mutation: the last run counts as one of two.
AfterRunLate(r) == IF LeftAtMost(r, 0) THEN {"none"} ELSE {"none", "future"}

(* plan_due of a run: the last one has no next. *)
AfterRun(r) == IF LeftAtMost(r, 1) THEN {"none"} ELSE Following(r)

(* plan_due, the policy and the bots decide; the rule gives the next time. *)
Plan ==
    /\ pc = "claimed" /\ row.status = "active"
    /\ \/ pc' = "run" /\ planned' \in AfterRun(row)
       \/ pc' = "skip" /\ planned' \in Following(row)
       \/ pc' = "defer" /\ planned' = "future"
    /\ UNCHANGED <<row, moved, owed, manual, held, bare, orphan, left>>

\* Mutation: next_run_at is left for _record to advance.
NotAdvanced(t) == [row EXCEPT !.lease = "held"]

Advanced(t) == [row EXCEPT !.next = t]

(* next_run_at is moved on before the run. *)
CommitRun ==
    /\ pc = "run" /\ Exists
    /\ row' = Advanced(planned)
    /\ pc' = "running" /\ owed' = FALSE
    /\ planned' = "none" /\ moved' = FALSE
    /\ UNCHANGED <<manual, held, bare, orphan, left>>

\* Mutation: the lease is kept.
SkippedKept(r, t) ==
    [r EXCEPT !.next = t, !.status = IF t = "none" THEN "completed" ELSE @]

(* _finish_skip *)
Skipped(r, t) ==
    [r EXCEPT !.next = t, !.lease = "none",
              !.status = IF t = "none" THEN "completed" ELSE @]

CommitSkip ==
    /\ pc \in {"skip", "defer"} /\ Exists
    /\ row' = Skipped(row, planned)
    /\ pc' = "idle" /\ owed' = FALSE
    /\ planned' = "none" /\ moved' = FALSE
    /\ UNCHANGED <<manual, held, bare, orphan, left>>

(* The update finds no row. *)
CommitNothing ==
    /\ pc \in {"run", "skip", "defer"} /\ ~Exists
    /\ pc' = "idle"
    /\ planned' = "none" /\ moved' = FALSE
    /\ UNCHANGED <<row, owed, manual, held, bare, orphan, left>>

(* A database error: execute_task gives up and the lease stays. *)
PrepareFails ==
    /\ pc \in Pending /\ Happens("fault")
    /\ pc' = "idle" /\ orphan' = TRUE
    /\ planned' = "none" /\ moved' = FALSE
    /\ UNCHANGED <<row, owed, manual, held, bare>>

-----------------------------------------------------------------------------
(* schedule_runner.py: _record *)

Count(n) == IF n > MaxRuns THEN n ELSE n + 1

\* Mutation: nothing is completed here.
Unsettled(r) == r

Settled(r) ==
    IF r.status = "active" /\ r.next = "none" THEN [r EXCEPT !.status = "completed"] ELSE r

\* Mutation: failures never pause the task.
FailedOn(r) ==
    LET f == [r EXCEPT !.lease = "none", !.fails = @ + 1]
    IN  IF f.status = "active" /\ f.next = "none" THEN [f EXCEPT !.next = "future"]
        ELSE f

(* A failed run: too many in a row pause the task whatever its status is;  *)
(* otherwise a retry.  A retry before a later time changes nothing here.   *)
Failed(r) ==
    LET f == [r EXCEPT !.lease = "none",
                       !.fails = IF @ = MaxFailures THEN @ ELSE @ + 1]
    IN  IF f.fails = MaxFailures THEN PauseTask(f)
        ELSE IF f.status = "active" /\ f.next = "none" THEN [f EXCEPT !.next = "future"]
        ELSE f

Ran(r) == Settled([r EXCEPT !.lease = "none", !.runs = Count(@), !.fails = 0])

(* The run was made, the creator has left the group, or it failed. *)
Recorded(r) == {Ran(r), PauseTask(r), Failed(r)}

Record ==
    /\ pc = "running"
    /\ row' \in IF Exists THEN Recorded(row) ELSE {row}
    /\ pc' = "idle"
    /\ UNCHANGED <<planned, moved, owed, manual, held, bare, orphan, left>>

(* An error of _record is caught and nothing is written. *)
RecordFails ==
    /\ pc = "running" /\ Happens("fault")
    /\ pc' = "idle" /\ orphan' = TRUE
    /\ UNCHANGED <<row, planned, moved, owed, manual, held, bare>>

(* _prepare_forced looks neither at the status nor at the lease. *)
StartManual ==
    /\ Exists /\ manual < MaxManual /\ Happens("manual")
    /\ manual' = manual + 1
    /\ UNCHANGED <<row, pc, planned, moved, owed, held, bare, orphan>>

RecordManual ==
    /\ manual > 0
    /\ row' \in IF Exists THEN Recorded(row) ELSE {row}
    /\ manual' = manual - 1
    /\ moved' = (pc \in Pending)
    /\ UNCHANGED <<pc, planned, owed, held, bare, orphan, left>>

-----------------------------------------------------------------------------
(* Commands of the owner and of the admin panel *)

(* What the ORM will write of r: the columns in cols, the lease as none. *)
Columns(r, cols) ==
    [status |-> IF "status" \in cols THEN r.status ELSE "absent",
     next   |-> IF "next" \in cols THEN r.next ELSE "none",
     lease  |-> "none",
     max    |-> IF "max" \in cols THEN r.max ELSE 0,
     runs   |-> IF "runs" \in cols THEN r.runs ELSE 0,
     fails  |-> IF "fails" \in cols THEN r.fails ELSE 0]

(* A command has decided on the row it read and turned it into r: it will   *)
(* write the columns it changed.  A next_run_at it computed anew may be the *)
(* very time that it read, and is not written then.  `may` and `aims` are   *)
(* for the properties: the command may open an ended task (it is an edit,   *)
(* or had read the task open), and it means to leave a time to come.        *)
Decides(what, r, retimed) ==
    /\ Cardinality(held) < MaxCommands /\ Happens(what)
    /\ \E cols \in SUBSET Cols :
          /\ cols \ {"next"} = {c \in Cols : row[c] # r[c]} \ {"next"}
          /\ row.next # r.next => "next" \in cols
          /\ "next" \in cols => row.next # r.next \/ (retimed /\ r.next = "future")
          /\ held' = held \cup {[may  |-> what = "edit" \/ row.status \in {"active", "paused"},
                                 aims |-> r.next # "none",
                                 new  |-> Columns(r, cols), cols |-> cols]}
    /\ UNCHANGED <<row, pc, planned, moved, owed, manual, bare, orphan>>

Pause == row.status = "active" /\ Decides("halt", PauseTask(row), FALSE)

Resume == Resumable(row) /\ \E t \in Following(row) : Decides("resume", Resumed(row, t), TRUE)

Cancel == row.status \in {"active", "paused"} /\ Decides("halt", CancelTask(row), FALSE)

Edit ==
    /\ Exists
    /\ \E restart \in BOOLEAN, max \in 0..MaxRuns :
          LET r == Edited(row, restart, max)
          IN  /\ max = 0 \/ r.runs < max
              /\ Decides("edit", r, r.status = "active")

(* What the commit of h makes of the row as it is by then. *)
Written(h) ==
    [status |-> IF "status" \in h.cols THEN h.new.status ELSE row.status,
     next   |-> IF "next" \in h.cols THEN h.new.next ELSE row.next,
     lease  |-> IF "lease" \in h.cols THEN h.new.lease ELSE row.lease,
     max    |-> IF "max" \in h.cols THEN h.new.max ELSE row.max,
     runs   |-> IF "runs" \in h.cols THEN h.new.runs ELSE row.runs,
     fails  |-> IF "fails" \in h.cols THEN h.new.fails ELSE row.fails]

(* The commit.  The UPDATE of a row that was deleted meanwhile raises. *)
Lands(h) ==
    /\ held' = held \ {h}
    /\ row' = IF Exists THEN Written(h) ELSE row
    /\ moved' = (moved \/ ("next" \in h.cols /\ pc \in Pending))
    /\ owed' = (owed /\ "next" \notin h.cols)
    /\ bare' = IF "status" \in h.cols
               THEN row'.status = "active" /\ row'.next = "none" /\ h.aims
               ELSE bare
    /\ UNCHANGED <<pc, planned, manual, orphan, left>>

Delete ==
    /\ Exists /\ Happens("halt")
    /\ row' = Gone
    /\ moved' = (pc \in Pending) /\ owed' = FALSE
    /\ UNCHANGED <<pc, planned, manual, held, bare, orphan>>

-----------------------------------------------------------------------------
(* The clock and the process *)

TimeComes ==
    /\ row.next = "future"
    /\ row' = [row EXCEPT !.next = "due"]
    /\ owed' = TRUE
    /\ UNCHANGED <<pc, planned, moved, manual, held, bare, orphan, left>>

(* Fifteen minutes have passed, whoever holds the lease. *)
LeaseExpires ==
    /\ row.lease = "held"
    /\ row' = [row EXCEPT !.lease = "stale"]
    /\ UNCHANGED <<pc, planned, moved, owed, manual, held, bare, orphan, left>>

(* The process stops and starts again with the rows as they are. *)
Stop ==
    /\ Happens("fault")
    /\ pc' = "idle" /\ manual' = 0 /\ held' = {}
    /\ orphan' = (orphan \/ pc # "idle")
    /\ planned' = "none" /\ moved' = FALSE
    /\ UNCHANGED <<row, owed, bare>>

-----------------------------------------------------------------------------
Init ==
    /\ row = [status |-> "absent", next |-> "none", lease |-> "none",
              max |-> 0, runs |-> 0, fails |-> 0]
    /\ pc = "idle" /\ planned = "none" /\ manual = 0
    /\ held = {} /\ bare = FALSE
    /\ moved = FALSE /\ owed = FALSE /\ orphan = FALSE
    /\ left = Budget

Tick == Claim \/ PlanNothing \/ Plan \/ CommitRun \/ CommitSkip \/ CommitNothing \/ Record

Next ==
    \/ Tick \/ PrepareFails \/ RecordFails
    \/ \E max \in 0..MaxRuns : Create(max)
    \/ StartManual \/ RecordManual
    \/ Pause \/ Resume \/ Cancel \/ Edit \/ Delete
    \/ \E h \in held : Lands(h)
    \/ TimeComes \/ LeaseExpires \/ Stop

Spec == Init /\ [][Next]_vars

(* The scheduler ticks, runs end, and leases run out. *)
FairSpec == Spec /\ WF_vars(Tick) /\ WF_vars(LeaseExpires)

-----------------------------------------------------------------------------
(* Properties *)

Commands == [may : BOOLEAN, aims : BOOLEAN, new : Rows, cols : SUBSET Cols]

(* Every variable keeps its type. *)
TypeOK ==
    /\ row \in Rows
    /\ pc \in Ticks /\ planned \in Times /\ manual \in 0..MaxManual
    /\ held \subseteq Commands /\ bare \in BOOLEAN
    /\ moved \in BOOLEAN /\ owed \in BOOLEAN /\ orphan \in BOOLEAN
    /\ left \in [Events -> Nat]

(* Whichever way a claim ends (nothing to do, skipped, deferred, recorded), *)
(* its lease is given up: only a stop or a database error leaves a task     *)
(* locked with no tick at work on it.                                       *)
LeaseReleased == row.lease # "none" => pc # "idle" \/ orphan

(* An active task has a time to come unless a tick runs it: no order of     *)
(* commands, forced runs and results makes it one that is listed as active  *)
(* and never runs again.  Two things do: a stop or an error during its last *)
(* run, and the commit of a resume that finds the time it had read gone.    *)
ActiveHasNext ==
    row.status = "active" /\ row.next = "none" => pc = "running" \/ orphan \/ bare

(* Retries, pauses, stops and errors never let a rule run more often than   *)
(* its max_runs; editing, resuming or forcing it during a run can.          *)
RunLimit ==
    (\A e \in {"edit", "resume", "manual"} : left[e] = Budget[e])
        => row.max = 0 \/ row.runs <= row.max

(* A tick starts a run only for a time that has come and was not answered   *)
(* before, over stops and expired leases too; or else a command rewrote the *)
(* time after the claim, which _prepare does not look at.                   *)
StartsAreOwed == [][pc = "run" /\ pc' = "running" => owed \/ moved]_vars

(* A task that has ended comes back only by an edit; or by the late commit  *)
(* of a command that had read it before it ended; or, as paused, when a run *)
(* that was under way then goes wrong.                                      *)
EndedStaysEnded ==
    [][row.status \in {"completed", "cancelled"} /\ row'.status \in {"active", "paused"}
         => \/ \E h \in held \ held' : h.may
            \/ /\ row'.status = "paused"
               /\ (pc = "running" /\ pc' = "idle") \/ manual' < manual]_vars

(* A task that is due is answered, after a stop as well: its lease runs out *)
(* and another tick takes it.                                               *)
DueIsAnswered ==
    row.status = "active" /\ row.next = "due"
        ~> ~(row.status = "active" /\ row.next = "due")
=============================================================================
