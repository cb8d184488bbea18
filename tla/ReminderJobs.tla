----------------------------- MODULE ReminderJobs -----------------------------
(***************************************************************************)
(* One group reminder (reminder.py): its row in the database, its job in   *)
(* the scheduler's memory, the run of a job that fired, the commands of    *)
(* the admins and restarts.                                                *)
(*                                                                         *)
(* One step is one database session, or one stretch between two awaits.    *)
(* A command changes the row and the job in two steps, since it awaits the *)
(* commit between them; so does the end of a one-time reminder.  The time  *)
(* of a one-time reminder is a member of Times, past once it has come.     *)
(***************************************************************************)
EXTENDS Integers

CONSTANTS
    Clients,  \* commands that may run at the same time
    Times,    \* the one-time dates the admins choose from
    Budget    \* bound: how often each outside event happens

Events == {"command", "restart", "misfire", "dberror"}

ASSUME RemindersAssumption ==
    /\ "cron" \notin Times /\ "none" \notin Times
    /\ Budget \in [Events -> Nat]

VARIABLES
    row,     \* the row of ScheduledReminder
    job,     \* the schedule of the job in the scheduler, or "none"
    run,     \* the run of the job (max_instances=1)
    cmd,     \* for each client the command that is half done
    past,    \* the times that have come
    sends,   \* history: messages sent by runs for each time
    upset,   \* history: what has kept row and job apart since the last restart
    left     \* what remains of Budget

vars == <<row, job, run, cmd, past, sends, upset, left>>

Schedules == Times \union {"cron"}
Rows == [there : {"not yet", "yes", "deleted"}, sched : Schedules, on : BOOLEAN]
Runs == [pc : {"idle", "start", "deliver", "send", "note", "finalize", "remove"},
         time : Schedules, once : BOOLEAN]
Cmds == [op : {"none", "create", "uncreate", "edit", "unedit",
               "enable", "disable", "delete"},
         row : Rows,  \* the row as the command left it
         old : Rows]  \* the row as the command found it

Nothing == [there |-> "not yet", sched |-> "cron", on |-> FALSE]
NoRun == [pc |-> "idle", time |-> "cron", once |-> FALSE]
NoCmd == [op |-> "none", row |-> Nothing, old |-> Nothing]

(* What can keep row and job apart; see JobMatchesRow. *)
Causes == {"race", "lapse", "fault"}

Upset(cause, happened) == upset' = upset \union {x \in {cause} : happened}

Happens(e) == left[e] > 0 /\ left' = [left EXCEPT ![e] = @ - 1]

NoRow == row.there # "yes"

(* _validate_schedule_spec, which _schedule_reminder_job repeats *)
Valid(s) == s \notin past

(* The job that belongs to a row *)
Wanted(r) == IF r.there = "yes" /\ r.on THEN r.sched ELSE "none"

-----------------------------------------------------------------------------
(* The commands.  A first step begins one, the second ends it. *)

Begins(c, op, new) ==
    /\ cmd[c].op = "none" /\ Happens("command")
    /\ cmd' = [cmd EXCEPT ![c] = [op |-> op, row |-> new, old |-> row]]

Goes(c, op, new) == cmd' = [cmd EXCEPT ![c] = [op |-> op, row |-> new, old |-> cmd[c].old]]

Ends(c) == cmd' = [cmd EXCEPT ![c] = NoCmd]

(* Another command or a run has written the row since the first step. *)
Overtaken(c) == row # cmd[c].row

(* _create_reminder *)
Create(c, s) ==
    /\ row.there = "not yet" /\ Valid(s)
    /\ row' = [there |-> "yes", sched |-> s, on |-> TRUE]
    /\ Begins(c, "create", row')
    /\ UNCHANGED <<job, run, past, sends, upset>>

(* The refresh raises when the row is gone; a time that has come is undone. *)
CreateJob(c) ==
    /\ cmd[c].op = "create"
    /\ \/ NoRow /\ Ends(c) /\ UNCHANGED job
       \/ ~NoRow /\ Valid(cmd[c].row.sched) /\ Ends(c) /\ job' = cmd[c].row.sched
       \/ ~NoRow /\ ~Valid(cmd[c].row.sched) /\ Goes(c, "uncreate", row) /\ job' = "none"
    /\ Upset("race", Overtaken(c))
    /\ UNCHANGED <<row, run, past, sends, left>>

CreateUndo(c) ==
    /\ cmd[c].op = "uncreate"
    /\ row' = [row EXCEPT !.there = "deleted"]
    /\ Ends(c)
    /\ Upset("race", Overtaken(c) \/ job # "none")
    /\ UNCHANGED <<job, run, past, sends, left>>

(* The commit of the undo fails: the row stays on and has no job. *)
CreateUndoFails(c) ==
    /\ cmd[c].op = "uncreate" /\ Happens("dberror")
    /\ Ends(c) /\ Upset("fault", TRUE)
    /\ UNCHANGED <<row, job, run, past, sends>>

(* _update_reminder: a new time switches the reminder on. *)
Edited(r, s) == [r EXCEPT !.sched = s, !.on = @ \/ s # r.sched]

Edit(c, s) ==
    /\ ~NoRow /\ Valid(s)
    /\ row' = Edited(row, s)
    /\ Begins(c, "edit", row')
    /\ UNCHANGED <<job, run, past, sends, upset>>

EditJob(c) ==
    /\ cmd[c].op = "edit"
    /\ cmd[c].row.on => Valid(cmd[c].row.sched)
    /\ job' = Wanted(cmd[c].row)
    /\ Ends(c)
    /\ Upset("race", Overtaken(c))
    /\ UNCHANGED <<row, run, past, sends, left>>

(* The new time has come meanwhile: the old values are written back. *)
EditUndo(c) ==
    /\ cmd[c].op = "edit"
    /\ cmd[c].row.on /\ ~Valid(cmd[c].row.sched)
    /\ IF NoRow THEN UNCHANGED row /\ Ends(c)
       ELSE row' = cmd[c].old /\ Goes(c, "unedit", row')
    /\ Upset("race", Overtaken(c))
    /\ UNCHANGED <<job, run, past, sends, left>>

EditUndoFails(c) ==
    /\ cmd[c].op = "edit" /\ Happens("dberror")
    /\ cmd[c].row.on /\ ~Valid(cmd[c].row.sched)
    /\ Ends(c) /\ Upset("fault", TRUE)
    /\ UNCHANGED <<row, job, run, past, sends>>

(* The old job again, unless its time has come too. *)
OldJob(r) == IF Valid(r.sched) THEN Wanted(r) ELSE "none"

EditUndoJob(c) ==
    /\ cmd[c].op = "unedit"
    /\ job' = OldJob(cmd[c].old)
    /\ Ends(c)
    /\ IF Overtaken(c) THEN Upset("race", TRUE) ELSE Upset("lapse", job' # Wanted(cmd[c].old))
    /\ UNCHANGED <<row, run, past, sends, left>>

(* _set_enabled: the job first, then the row. *)
Enable(c) ==
    /\ ~NoRow /\ Valid(row.sched)
    /\ Begins(c, "enable", row)
    /\ job' = row.sched
    /\ UNCHANGED <<row, run, past, sends, upset>>

(* A row that was on when it was read is not written. *)
EnableRow(c) ==
    /\ cmd[c].op = "enable" /\ (cmd[c].old.on \/ ~NoRow)
    /\ row' = IF cmd[c].old.on THEN row ELSE [row EXCEPT !.on = TRUE]
    /\ Ends(c)
    /\ IF Overtaken(c) \/ job \notin {cmd[c].row.sched, "none"} THEN Upset("race", TRUE)
       ELSE Upset(IF cmd[c].row.sched \in past THEN "lapse" ELSE "race", job = "none")
    /\ UNCHANGED <<job, run, past, sends, left>>

\* Mutation: the job is left in the scheduler.
KeepJob(c) == UNCHANGED job

DropJob(c) == job' = "none"

EnableFails(c) ==
    /\ cmd[c].op = "enable" /\ ~cmd[c].old.on
    /\ IF NoRow THEN UNCHANGED left ELSE Happens("dberror")
    /\ DropJob(c)
    /\ Ends(c)
    /\ Upset("race", Overtaken(c))
    /\ UNCHANGED <<row, run, past, sends>>

Disable(c) ==
    /\ ~NoRow
    /\ Begins(c, "disable", row)
    /\ job' = "none"
    /\ UNCHANGED <<row, run, past, sends, upset>>

DisableRow(c) ==
    /\ cmd[c].op = "disable" /\ (~cmd[c].old.on \/ ~NoRow)
    /\ row' = IF cmd[c].old.on THEN [row EXCEPT !.on = FALSE] ELSE row
    /\ Ends(c)
    /\ Upset("race", Overtaken(c) \/ job # "none")
    /\ UNCHANGED <<job, run, past, sends, left>>

(* The job is put back, whoever else has been here. *)
DisableFails(c) ==
    /\ cmd[c].op = "disable" /\ cmd[c].old.on
    /\ IF NoRow THEN UNCHANGED left ELSE Happens("dberror")
    /\ job' = IF Valid(cmd[c].old.sched) THEN cmd[c].old.sched ELSE job
    /\ Ends(c)
    /\ IF Overtaken(c) THEN Upset("race", TRUE) ELSE Upset("lapse", job' # cmd[c].old.sched)
    /\ UNCHANGED <<row, run, past, sends>>

(* _handle_delete_choice *)
Delete(c) ==
    /\ ~NoRow
    /\ row' = [row EXCEPT !.there = "deleted"]
    /\ Begins(c, "delete", row')
    /\ UNCHANGED <<job, run, past, sends, upset>>

DeleteJob(c) ==
    /\ cmd[c].op = "delete"
    /\ job' = "none"
    /\ Ends(c)
    /\ UNCHANGED <<row, run, past, sends, upset, left>>

-----------------------------------------------------------------------------
(* The scheduler *)

TimeComes(t) ==
    /\ t \notin past
    /\ past' = past \union {t}
    /\ UNCHANGED <<row, job, run, cmd, sends, upset, left>>

(* The job of a date goes as it fires; a firing during a run is dropped. *)
Fire ==
    /\ job = "cron" \/ job \in past
    /\ job' = IF job = "cron" THEN job ELSE "none"
    /\ IF run.pc = "idle"
       THEN /\ run' = [pc |-> "start", time |-> job, once |-> FALSE]
            /\ UNCHANGED upset
       ELSE /\ UNCHANGED run
            /\ Upset("lapse", job # "cron")
    /\ UNCHANGED <<row, cmd, past, sends, left>>

(* More than misfire_grace_time late *)
Misfire ==
    /\ job \in past /\ Happens("misfire")
    /\ job' = "none" /\ Upset("lapse", TRUE)
    /\ UNCHANGED <<row, run, cmd, past, sends>>

(* _run_reminder_job *)
RunStart ==
    /\ run.pc = "start"
    /\ IF NoRow THEN run' = NoRun /\ job' = "none"
       ELSE /\ run' = [run EXCEPT !.pc = "deliver", !.once = row.sched # "cron"]
            /\ UNCHANGED job
    /\ UNCHANGED <<row, cmd, past, sends, upset, left>>

\* Mutation: every run is finalized.
AfterRunAlways == [run EXCEPT !.pc = "finalize"]

\* Mutation: the result is noted without end.
AfterRunAgain == IF run.once THEN [run EXCEPT !.pc = "note"] ELSE NoRun

AfterRun == IF run.once THEN [run EXCEPT !.pc = "finalize"] ELSE NoRun

(* The row and the feature switches are read before the message is sent. *)
Deliver ==
    /\ run.pc = "deliver"
    /\ \/ NoRow /\ run' = NoRun /\ job' = "none"
       \/ /\ ~NoRow /\ UNCHANGED job
          /\ IF row.on THEN \/ run' = [run EXCEPT !.pc = "send"]
                            \/ run' = AfterRun
             ELSE run' = NoRun
    /\ UNCHANGED <<row, cmd, past, sends, upset, left>>

(* Sent, or an error that is noted in the same way. *)
Send ==
    /\ run.pc = "send"
    /\ sends' = IF run.time = "cron" THEN sends
                ELSE [sends EXCEPT ![run.time] = @ + 1]
    /\ run' = [run EXCEPT !.pc = "note"]
    /\ UNCHANGED <<row, job, cmd, past, upset, left>>

(* _set_reminder_error *)
Note ==
    /\ run.pc = "note"
    /\ run' = AfterRun
    /\ UNCHANGED <<row, job, cmd, past, sends, upset, left>>

(* _finalize_once, whatever time the row has got meanwhile *)
Finalize ==
    /\ run.pc = "finalize"
    /\ IF NoRow \/ row.sched = "cron"
       THEN run' = NoRun /\ UNCHANGED <<row, upset>>
       ELSE /\ run' = [run EXCEPT !.pc = "remove"]
            /\ row' = [row EXCEPT !.on = FALSE]
            /\ Upset("race", row.sched # run.time)
    /\ UNCHANGED <<job, cmd, past, sends, left>>

FinalizeJob ==
    /\ run.pc = "remove"
    /\ run' = NoRun
    /\ job' = "none"
    /\ Upset("race", job # "none")
    /\ UNCHANGED <<row, cmd, past, sends, left>>

(* A database error ends the run where it is. *)
RunFails ==
    /\ run.pc \in {"start", "deliver", "note", "finalize"} /\ Happens("dberror")
    /\ run' = NoRun
    /\ Upset("fault", TRUE)
    /\ UNCHANGED <<row, job, cmd, past, sends>>

\* Mutation: a time that has come is scheduled again.
RestoredAll(r) == r

(* _restore_reminder_jobs: a time that was missed is switched off. *)
Restored(r) == IF Valid(r.sched) THEN r ELSE [r EXCEPT !.on = FALSE]

AllStops == run' = NoRun /\ cmd' = [c \in Clients |-> NoCmd]

Restart ==
    /\ Happens("restart")
    /\ row' = IF Wanted(row) = "none" THEN row ELSE Restored(row)
    /\ job' = Wanted(row')
    /\ AllStops /\ upset' = {}
    /\ UNCHANGED <<past, sends>>

(* The bot starts although the reminders could not be read. *)
RestartBare ==
    /\ Happens("restart")
    /\ job' = "none"
    /\ AllStops /\ upset' = {"fault"}
    /\ UNCHANGED <<row, past, sends>>

-----------------------------------------------------------------------------
Init ==
    /\ row = Nothing /\ job = "none" /\ run = NoRun
    /\ cmd = [c \in Clients |-> NoCmd]
    /\ past = {} /\ sends = [t \in Times |-> 0]
    /\ upset = {} /\ left = Budget

Ending(c) ==
    \/ CreateJob(c) \/ CreateUndo(c) \/ EditJob(c) \/ EditUndo(c) \/ EditUndoJob(c)
    \/ EnableRow(c) \/ DisableRow(c) \/ DeleteJob(c)

Failing(c) == CreateUndoFails(c) \/ EditUndoFails(c) \/ EnableFails(c) \/ DisableFails(c)

RunStep == RunStart \/ Deliver \/ Send \/ Note \/ Finalize \/ FinalizeJob

Next ==
    \/ \E c \in Clients :
          \/ \E s \in Schedules : Create(c, s) \/ Edit(c, s)
          \/ Enable(c) \/ Disable(c) \/ Delete(c)
          \/ Ending(c) \/ Failing(c)
    \/ \E t \in Times : TimeComes(t)
    \/ Fire \/ Misfire \/ RunStep \/ RunFails
    \/ Restart \/ RestartBare

Spec == Init /\ [][Next]_vars

(* Jobs fire, and what is begun goes on. *)
FairSpec ==
    /\ Spec
    /\ WF_vars(job \in Times /\ Fire) /\ WF_vars(RunStep)
    /\ \A c \in Clients : WF_vars(Ending(c))

-----------------------------------------------------------------------------
(* Properties *)

(* Every variable keeps its type; only a run that began for a one-time      *)
(* reminder finalizes one, and a run for a date is never early.             *)
TypeOK ==
    /\ row \in Rows /\ job \in Schedules \union {"none"}
    /\ run \in Runs /\ cmd \in [Clients -> Cmds]
    /\ run.pc \in {"finalize", "remove"} => run.once
    /\ run.pc = "idle" \/ run.time = "cron" \/ run.time \in past
    /\ past \subseteq Times /\ sends \in [Times -> Nat]
    /\ upset \subseteq Causes /\ left \in [Events -> Nat]

AtRest == run.pc = "idle" /\ \A c \in Clients : cmd[c].op = "none"

(* Once commands and runs have ended, exactly a reminder that is switched   *)
(* on has a job, and one for its time: after failed commits of commands,    *)
(* times that come during a command, and restarts.  Until a restart that    *)
(* reads the rows three kinds of event break it, without anyone being told: *)
(* "race": another command or a run writes the row or the job between the   *)
(*   two steps of a command or of the end of a run;                         *)
(* "lapse": the date of a reminder that is being enabled fires before its   *)
(*   row is switched on, no fault and no other command being needed; a date *)
(*   fires during another run of the reminder, or is found too late; or the *)
(*   old date, which an edit that is undone or a switching off that fails   *)
(*   goes back to, has come meanwhile;                                      *)
(* "fault": the commit that undoes a creation or an edit fails, or a        *)
(*   session of a run, or the reading of the rows when the bot starts.      *)
JobMatchesRow == AtRest /\ upset = {} => job = Wanted(row)

(* No race, error or restart makes the runs send a one-time reminder twice  *)
(* for one time.                                                            *)
SentOnce == \A t \in Times : sends[t] <= 1

(* A reminder whose time has come is sent or skipped, and switched off, but *)
(* for a race, a lapse or a fault as JobMatchesRow names them; a lapse is   *)
(* enough to leave one switched on for a time that is past.                 *)
OnceEnds ==
    row.there = "yes" /\ row.on /\ row.sched \in past
        ~> \/ ~(row.there = "yes" /\ row.on /\ row.sched \in past)
           \/ upset # {}
=============================================================================
