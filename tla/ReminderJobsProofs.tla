-------------------------- MODULE ReminderJobsProofs --------------------------
(***************************************************************************)
(* What ReminderJobs keeps for any number of clients, times and outside    *)
(* events: its types, the agreement of row and job and what it takes to    *)
(* part them, that no time is sent twice, that no time that has come is    *)
(* left without a step, and what it takes to make a run switch off another *)
(* time than its own.                                                      *)
(***************************************************************************)
EXTENDS ReminderJobs, TLAPS

(* What a half-done command knows of the row. *)
CmdInv ==
    \A c \in Clients :
        /\ cmd[c].op \in {"create", "edit", "enable", "disable"} => cmd[c].row.there = "yes"
        /\ cmd[c].op \in {"unedit", "enable", "disable"} => cmd[c].row = cmd[c].old
        /\ cmd[c].op = "create" => cmd[c].row.on
        /\ cmd[c].op = "delete" => row.there = "deleted"

(* The job of a one-time reminder has fired; the run will switch it off. *)
WillEnd ==
    /\ row.there = "yes" /\ row.on /\ row.sched \in Times
    /\ row.sched = run.time /\ job = "none"
    /\ \/ run.pc = "start"
       \/ run.pc \in {"deliver", "send", "note", "finalize"} /\ run.once

(* Row and job agree, or a command or the run is about to make them agree. *)
MatchInv ==
    upset = {} =>
        \/ job = Wanted(row)
        \/ \E c \in Clients : cmd[c].op # "none"
        \/ WillEnd
        \/ run.pc = "remove" /\ Wanted(row) = "none"

(* The run has not sent yet. *)
Coming(t) == run.pc \in {"start", "deliver", "send"} /\ run.time = t

SentInv ==
    \A t \in Times :
        /\ sends[t] \in 0..1
        /\ Coming(t) => job # t /\ sends[t] = 0
        /\ sends[t] = 1 => t \in past /\ job # t

IInv == TypeOK /\ CmdInv /\ MatchInv /\ SentInv

-----------------------------------------------------------------------------
LEMMA HappensType ==
    ASSUME TypeOK, NEW e \in Events, Happens(e) PROVE left' \in [Events -> Nat]
BY DEF TypeOK, Happens

LEMMA NothingTypes == Nothing \in Rows /\ NoRun \in Runs /\ NoCmd \in Cmds
BY DEF Nothing, NoRun, NoCmd, Rows, Runs, Cmds, Schedules

LEMMA InitType == Init => TypeOK
<1> USE NothingTypes
<1> SUFFICES ASSUME Init PROVE TypeOK OBVIOUS
<1>1. cmd \in [Clients -> Cmds] BY DEF Init
<1>2. left \in [Events -> Nat] BY RemindersAssumption DEF Init
<1>3. run.pc = "idle" /\ run.time = "cron" BY DEF Init, NoRun
<1>4. sends \in [Times -> Nat] BY DEF Init
<1> QED BY <1>1, <1>2, <1>3, <1>4 DEF Init, TypeOK

LEMMA CmdTypes ==
    ASSUME TypeOK, NEW c \in Clients, NEW new \in Rows,
           NEW op \in {"none", "create", "uncreate", "edit", "unedit",
                       "enable", "disable", "delete"}
    PROVE  /\ Begins(c, op, new) => cmd' \in [Clients -> Cmds] /\ left' \in [Events -> Nat]
           /\ Goes(c, op, new) => cmd' \in [Clients -> Cmds]
           /\ Ends(c) => cmd' \in [Clients -> Cmds]
<1>1. Begins(c, op, new) => cmd' \in [Clients -> Cmds] /\ left' \in [Events -> Nat]
  BY HappensType DEF Begins, TypeOK, Cmds, Events
<1>2. Goes(c, op, new) => cmd' \in [Clients -> Cmds]
  BY DEF Goes, TypeOK, Cmds
<1>3. Ends(c) => cmd' \in [Clients -> Cmds]
  BY NothingTypes DEF Ends, TypeOK
<1> QED BY <1>1, <1>2, <1>3

LEMMA WantedType == ASSUME NEW r \in Rows PROVE Wanted(r) \in Schedules \union {"none"}
BY DEF Wanted, Rows

-----------------------------------------------------------------------------
(* Types *)

LEMMA BeginType ==
    ASSUME TypeOK, NEW c \in Clients, NEW s \in Schedules,
           Create(c, s) \/ Edit(c, s) \/ Enable(c) \/ Disable(c) \/ Delete(c)
    PROVE  TypeOK'
<1> USE CmdTypes
<1>1. CASE Create(c, s)
  BY <1>1 DEF Create, TypeOK, Rows
<1>2. CASE Edit(c, s)
  BY <1>2 DEF Edit, Edited, TypeOK, Rows
<1>3. CASE Enable(c)
  BY <1>3 DEF Enable, TypeOK, Rows
<1>4. CASE Disable(c)
  BY <1>4 DEF Disable, TypeOK
<1>5. CASE Delete(c)
  BY <1>5 DEF Delete, TypeOK, Rows
<1> QED BY <1>1, <1>2, <1>3, <1>4, <1>5

LEMMA EndType ==
    ASSUME TypeOK, NEW c \in Clients,
           Ending(c) \/ Failing(c)
    PROVE  TypeOK'
<1> USE CmdTypes DEF Upset, Causes
<1>c. cmd[c] \in Cmds /\ cmd[c].row \in Rows /\ cmd[c].old \in Rows
  BY DEF TypeOK, Cmds
<1>1. CASE CreateJob(c)
  BY <1>1, <1>c DEF CreateJob, TypeOK, Rows, Overtaken
<1>2. CASE CreateUndo(c)
  BY <1>2 DEF CreateUndo, TypeOK, Rows, Overtaken
<1>3. CASE EditJob(c)
  BY <1>3, <1>c, WantedType DEF EditJob, TypeOK, Overtaken
<1>4. CASE EditUndo(c)
  BY <1>4, <1>c DEF EditUndo, TypeOK, Overtaken
<1>5. CASE EditUndoJob(c)
  BY <1>5, <1>c, WantedType DEF EditUndoJob, OldJob, TypeOK, Overtaken
<1>6. CASE EnableRow(c)
  BY <1>6 DEF EnableRow, TypeOK, Rows, Overtaken
<1>7. CASE DisableRow(c)
  BY <1>7 DEF DisableRow, TypeOK, Rows, Overtaken
<1>8. CASE DeleteJob(c)
  BY <1>8 DEF DeleteJob, TypeOK
<1>9. CASE EditUndoFails(c)
  BY <1>9, HappensType DEF EditUndoFails, TypeOK, Events
<1>10. CASE EnableFails(c)
  BY <1>10, HappensType DEF EnableFails, DropJob, TypeOK, Overtaken, Events
<1>11. CASE DisableFails(c)
  BY <1>11, <1>c, HappensType DEF DisableFails, TypeOK, Overtaken, Events, Rows
<1>12. CASE CreateUndoFails(c)
  BY <1>12, HappensType DEF CreateUndoFails, TypeOK, Events
<1> QED BY <1>1, <1>2, <1>3, <1>4, <1>5, <1>6, <1>7, <1>8, <1>9, <1>10, <1>11, <1>12
           DEF Ending, Failing

LEMMA SchedulerType ==
    ASSUME TypeOK,
           \/ \E t \in Times : TimeComes(t)
           \/ Fire \/ Misfire \/ RunStep \/ RunFails \/ Restart \/ RestartBare
    PROVE  TypeOK'
<1> USE NothingTypes, RemindersAssumption DEF Upset, Causes
<1>1. CASE \E t \in Times : TimeComes(t)
  BY <1>1 DEF TimeComes, TypeOK
<1>2. CASE Fire
  <2>1. job \in Schedules BY <1>2, RemindersAssumption DEF Fire, TypeOK, Schedules
  <2>2. CASE run.pc = "idle"
    <3>1. run' = [pc |-> "start", time |-> job, once |-> FALSE] /\ upset' = upset
      BY <1>2, <2>2 DEF Fire
    <3> QED BY <1>2, <2>1, <3>1 DEF Fire, TypeOK, Runs
  <2>3. CASE run.pc # "idle"
    BY <1>2, <2>1, <2>3 DEF Fire, TypeOK
  <2> QED BY <2>2, <2>3
<1>3. CASE Misfire
  BY <1>3, HappensType DEF Misfire, TypeOK, Events
<1>4. CASE RunStart
  BY <1>4 DEF RunStart, TypeOK, Runs, NoRun
<1>5. CASE Deliver
  BY <1>5 DEF Deliver, AfterRun, TypeOK, Runs, NoRun
<1>6. CASE Send
  BY <1>6 DEF Send, TypeOK, Runs, Schedules
<1>7. CASE Note
  BY <1>7 DEF Note, AfterRun, TypeOK, Runs, NoRun
<1>8. CASE Finalize
  BY <1>8 DEF Finalize, TypeOK, Runs, Rows, NoRun
<1>9. CASE FinalizeJob
  BY <1>9 DEF FinalizeJob, TypeOK, NoRun
<1>10. CASE RunFails
  BY <1>10, HappensType DEF RunFails, TypeOK, Events, NoRun
<1>11. CASE Restart
  <2>1. row' \in Rows BY <1>11 DEF Restart, Restored, TypeOK, Rows
  <2>2. job' \in Schedules \union {"none"} BY <1>11, <2>1, WantedType DEF Restart
  <2> QED BY <1>11, <2>1, <2>2, HappensType DEF Restart, AllStops, TypeOK, Events, NoRun
<1>12. CASE RestartBare
  BY <1>12, HappensType DEF RestartBare, AllStops, TypeOK, Events, NoRun
<1> QED
  BY <1>1, <1>2, <1>3, <1>4, <1>5, <1>6, <1>7, <1>8, <1>9, <1>10, <1>11, <1>12 DEF RunStep

LEMMA TypeStep == TypeOK /\ [Next]_vars => TypeOK'
<1> SUFFICES ASSUME TypeOK, [Next]_vars PROVE TypeOK' OBVIOUS
<1>1. CASE UNCHANGED vars BY <1>1 DEF vars, TypeOK
<1>2. CASE Next BY <1>2, BeginType, EndType, SchedulerType DEF Next, Schedules
<1> QED BY <1>1, <1>2

-----------------------------------------------------------------------------
(* Half-done commands *)

(* A row that is deleted stays deleted. *)
LEMMA DeletedStays ==
    ASSUME TypeOK, CmdInv, Next, row.there = "deleted" PROVE row'.there = "deleted"
<1> USE DEF NoRow
<1>r. row \in Rows BY DEF TypeOK
<1>1. ASSUME NEW c \in Clients, NEW s \in Schedules,
             Create(c, s) \/ Edit(c, s) \/ Enable(c) \/ Disable(c) \/ Delete(c)
      PROVE  row'.there = "deleted"
  BY <1>1 DEF Create, Edit, Enable, Disable, Delete
<1>2. ASSUME NEW c \in Clients,
             Ending(c) \/ Failing(c)
      PROVE  row'.there = "deleted"
  <2>1. CASE CreateUndo(c) BY <1>r, <2>1 DEF CreateUndo, Rows
  <2>2. CASE CreateJob(c) \/ EditJob(c) \/ EditUndo(c) \/ EditUndoJob(c) \/ DeleteJob(c)
    BY <2>2 DEF CreateJob, EditJob, EditUndo, EditUndoJob, DeleteJob
  <2>3. CASE EnableRow(c) \/ DisableRow(c)
    BY <2>3 DEF EnableRow, DisableRow
  <2>4. CASE Failing(c)
    BY <2>4 DEF Failing, CreateUndoFails, EditUndoFails, EnableFails, DisableFails
  <2> QED BY <1>2, <2>1, <2>2, <2>3, <2>4 DEF Ending
<1>3. CASE \/ \E t \in Times : TimeComes(t)
           \/ Fire \/ Misfire \/ RunStart \/ Deliver \/ Send \/ Note \/ FinalizeJob
           \/ RunFails \/ RestartBare
  BY <1>3 DEF TimeComes, Fire, Misfire, RunStart, Deliver, Send, Note, FinalizeJob,
              RunFails, RestartBare
<1>4. CASE Finalize BY <1>4 DEF Finalize
<1>5. CASE Restart BY <1>5 DEF Restart, Wanted
<1> QED BY <1>1, <1>2, <1>3, <1>4, <1>5 DEF Next, RunStep, Schedules

LEMMA CmdStep == TypeOK /\ CmdInv /\ [Next]_vars => CmdInv'
<1> SUFFICES ASSUME TypeOK, CmdInv, [Next]_vars PROVE CmdInv' OBVIOUS
<1>t. row \in Rows /\ cmd \in [Clients -> Cmds] BY DEF TypeOK
<1>1. CASE UNCHANGED vars BY <1>1 DEF vars, CmdInv
<1>2. CASE Next
  <2>d. row.there = "deleted" => row'.there = "deleted" BY <1>2, DeletedStays
  <2>1. ASSUME NEW c \in Clients, NEW op, NEW new, Begins(c, op, new),
               op \in {"create", "edit", "enable", "disable"} => new.there = "yes",
               op \in {"enable", "disable"} => new = row, op = "create" => new.on,
               op # "unedit", op = "delete" => row'.there = "deleted"
        PROVE  CmdInv'
    BY <1>t, <2>d, <2>1 DEF Begins, CmdInv, Cmds
  <2>2. ASSUME NEW c \in Clients, NEW op, NEW new, Goes(c, op, new),
               op \in {"uncreate", "unedit"}, op = "unedit" => new = cmd[c].old
        PROVE  CmdInv'
    BY <1>t, <2>d, <2>2 DEF Goes, CmdInv, Cmds
  <2>3. ASSUME NEW c \in Clients, Ends(c) PROVE CmdInv'
    BY <1>t, <2>d, <2>3 DEF Ends, NoCmd, CmdInv, Cmds
  <2>4. ASSUME cmd' = cmd PROVE CmdInv'
    BY <2>d, <2>4 DEF CmdInv
  <2>5. ASSUME AllStops PROVE CmdInv'
    BY <2>5 DEF AllStops, NoCmd, CmdInv
  <2>6. ASSUME NEW c \in Clients, NEW s \in Schedules,
               Create(c, s) \/ Edit(c, s) \/ Enable(c) \/ Disable(c) \/ Delete(c)
        PROVE  CmdInv'
    <3>1. CASE Create(c, s)
      <4>1. row'.there = "yes" /\ row'.on /\ Begins(c, "create", row')
        BY <3>1 DEF Create
      <4> QED BY <2>1, <4>1
    <3>2. CASE Edit(c, s)
      <4>1. Edited(row, s).there = "yes" BY <1>t, <3>2 DEF Edit, Edited, NoRow, Rows
      <4> QED BY <2>1, <3>2, <4>1 DEF Edit
    <3>3. CASE Enable(c) \/ Disable(c) BY <2>1, <3>3 DEF Enable, Disable, NoRow
    <3>4. CASE Delete(c) BY <1>t, <2>1, <3>4 DEF Delete, Rows
    <3> QED BY <2>6, <3>1, <3>2, <3>3, <3>4
  <2>7. ASSUME NEW c \in Clients,
               Ending(c) \/ Failing(c)
        PROVE  CmdInv'
    <3>1. CASE CreateJob(c) BY <2>2, <2>3, <3>1 DEF CreateJob
    <3>2. CASE EditUndo(c) BY <2>2, <2>3, <3>2 DEF EditUndo
    <3>3. CASE ~CreateJob(c) /\ ~EditUndo(c)
      BY <2>3, <2>7, <3>3 DEF Ending, CreateUndo, EditJob, EditUndoJob, EnableRow,
         DisableRow, DeleteJob, Failing, CreateUndoFails, EditUndoFails, EnableFails, DisableFails
    <3> QED BY <3>1, <3>2, <3>3
  <2>8. CASE \/ \E t \in Times : TimeComes(t)
             \/ Fire \/ Misfire \/ RunStep \/ RunFails
    BY <2>4, <2>8 DEF TimeComes, Fire, Misfire, RunStep, RunStart, Deliver, Send, Note,
                      Finalize, FinalizeJob, RunFails
  <2>9. CASE Restart \/ RestartBare BY <2>5, <2>9 DEF Restart, RestartBare
  <2> QED BY <1>2, <2>6, <2>7, <2>8, <2>9 DEF Next, Schedules
<1> QED BY <1>1, <1>2

-----------------------------------------------------------------------------
(* Row and job *)

(* A command that begins is a reason for a difference; it loses no other. *)
LEMMA BeginMatch ==
    ASSUME TypeOK, NEW c \in Clients, NEW op, NEW new, op # "none",
           Begins(c, op, new)
    PROVE  MatchInv'
BY DEF TypeOK, Begins, MatchInv, Cmds

(* A command that ends leaves row and job agreed, or says why not. *)
LEMMA EndMatch ==
    ASSUME TypeOK, CmdInv, NEW c \in Clients,
           Ending(c) \/ Failing(c)
    PROVE  MatchInv'
<1> USE DEF NoRow, Overtaken, MatchInv, Upset
<1>c. /\ row \in Rows /\ cmd \in [Clients -> Cmds] /\ cmd[c] \in Cmds
      /\ cmd[c].row \in Rows /\ cmd[c].old \in Rows
  BY DEF TypeOK, Cmds
<1>g. ASSUME NEW op, NEW new, Goes(c, op, new), op # "none" PROVE MatchInv'
  BY <1>c, <1>g DEF Goes, Cmds
<1>1. CASE CreateJob(c)
  <2>1. CASE NoRow BY <1>1, <1>c, <2>1 DEF CreateJob, CmdInv
  <2>2. CASE ~NoRow /\ Valid(cmd[c].row.sched)
    <3>1. CASE row # cmd[c].row BY <1>1, <2>2, <3>1 DEF CreateJob
    <3>2. CASE row = cmd[c].row
      BY <1>1, <2>2, <3>2 DEF CreateJob, CmdInv, Wanted
    <3> QED BY <3>1, <3>2
  <2>3. CASE ~NoRow /\ ~Valid(cmd[c].row.sched) BY <1>1, <1>g, <2>3 DEF CreateJob
  <2> QED BY <2>1, <2>2, <2>3
<1>2. CASE CreateUndo(c) BY <1>2, <1>c DEF CreateUndo, Wanted, Rows
<1>3. CASE EditJob(c) BY <1>3 DEF EditJob
<1>4. CASE EditUndo(c)
  <2>1. CASE NoRow BY <1>4, <1>c, <2>1 DEF EditUndo, CmdInv
  <2>2. CASE ~NoRow BY <1>4, <1>g, <2>2 DEF EditUndo
  <2> QED BY <2>1, <2>2
<1>5. CASE EditUndoJob(c) BY <1>5, <1>c DEF EditUndoJob, CmdInv
<1>6. CASE EnableRow(c)
  <2>1. cmd[c].row = cmd[c].old /\ cmd[c].row.there = "yes" BY <1>6 DEF EnableRow, CmdInv
  <2>2. CASE row # cmd[c].row \/ job # cmd[c].row.sched BY <1>6, <2>2 DEF EnableRow
  <2>3. CASE row = cmd[c].row /\ job = cmd[c].row.sched
    <3>1. row'.there = "yes" /\ row'.on /\ row'.sched = row.sched
      BY <1>6, <1>c, <2>1, <2>3 DEF EnableRow, Rows
    <3> QED BY <1>6, <2>3, <3>1 DEF EnableRow, Wanted
  <2> QED BY <2>2, <2>3
<1>7. CASE EnableFails(c)
  <2>1. cmd[c].row = cmd[c].old BY <1>7 DEF EnableFails, CmdInv
  <2> QED BY <1>7, <2>1 DEF EnableFails, DropJob, Wanted
<1>8. CASE DisableRow(c)
  <2>1. cmd[c].row = cmd[c].old BY <1>8 DEF DisableRow, CmdInv
  <2>2. CASE row # cmd[c].row \/ job # "none" BY <1>8, <2>2 DEF DisableRow
  <2>3. CASE row = cmd[c].row /\ job = "none"
    <3>1. ~row'.on BY <1>8, <1>c, <2>1, <2>3 DEF DisableRow, Rows
    <3> QED BY <1>8, <2>3, <3>1 DEF DisableRow, Wanted
  <2> QED BY <2>2, <2>3
<1>9. CASE DisableFails(c)
  <2>1. cmd[c].row = cmd[c].old /\ cmd[c].row.there = "yes" /\ cmd[c].old.on
    BY <1>9 DEF DisableFails, CmdInv
  <2> QED BY <1>9, <2>1 DEF DisableFails, Wanted
<1>10. CASE DeleteJob(c) BY <1>10 DEF DeleteJob, CmdInv, Wanted
<1>11. CASE CreateUndoFails(c) \/ EditUndoFails(c)
  BY <1>11 DEF CreateUndoFails, EditUndoFails
<1> QED BY <1>1, <1>2, <1>3, <1>4, <1>5, <1>6, <1>7, <1>8, <1>9, <1>10, <1>11
           DEF Ending, Failing

LEMMA MatchStep == TypeOK /\ TypeOK' /\ CmdInv /\ MatchInv /\ [Next]_vars => MatchInv'
<1> SUFFICES ASSUME TypeOK, TypeOK', CmdInv, MatchInv, [Next]_vars PROVE MatchInv' OBVIOUS
<1> USE RemindersAssumption DEF NoRow, Upset
<1>t. row \in Rows /\ run \in Runs BY DEF TypeOK
<1>1. CASE UNCHANGED vars BY <1>1 DEF vars, MatchInv, WillEnd, Wanted
<1>2. CASE Next
  <2>1. ASSUME NEW c \in Clients, NEW s \in Schedules,
               Create(c, s) \/ Edit(c, s) \/ Enable(c) \/ Disable(c) \/ Delete(c)
        PROVE  MatchInv'
    BY <2>1, BeginMatch DEF Create, Edit, Enable, Disable, Delete
  <2>2. ASSUME NEW c \in Clients,
               Ending(c) \/ Failing(c)
        PROVE  MatchInv'
    BY <2>2, EndMatch
  <2>3. ASSUME NEW t \in Times, TimeComes(t) PROVE MatchInv'
    BY <2>3 DEF TimeComes, MatchInv, WillEnd, Wanted
  <2>4. CASE Fire
    <3>1. CASE run.pc # "idle"
      BY <2>4, <3>1 DEF Fire, MatchInv, WillEnd, Wanted
    <3>2. CASE run.pc = "idle" /\ job = "cron"
      BY <2>4, <3>2 DEF Fire, MatchInv, WillEnd, Wanted
    <3>3. CASE run.pc = "idle" /\ job # "cron"
      <4>1. job \in Times /\ job # "none" BY <2>4, <3>3 DEF Fire, TypeOK
      <4>2. run'.pc = "start" /\ run'.time = job /\ job' = "none" BY <2>4, <3>3 DEF Fire
      <4>3. job = Wanted(row) => row.there = "yes" /\ row.on /\ row.sched = job
        BY <4>1 DEF Wanted
      <4>4. row' = row /\ cmd' = cmd /\ upset' = upset BY <2>4, <3>3 DEF Fire
      <4> QED BY <3>3, <4>1, <4>2, <4>3, <4>4 DEF MatchInv, WillEnd
    <3> QED BY <3>1, <3>2, <3>3
  <2>5. CASE Misfire \/ RunFails \/ RestartBare
    BY <2>5 DEF Misfire, RunFails, RestartBare, MatchInv
  <2>6. CASE RunStart
    <3>1. CASE NoRow BY <2>6, <3>1 DEF RunStart, MatchInv, Wanted
    <3>2. CASE ~NoRow
      <4>1. run'.pc = "deliver" /\ run'.time = run.time /\ run'.once = (row.sched # "cron")
        BY <1>t, <2>6, <3>2 DEF RunStart, Runs
      <4> QED BY <2>6, <3>2, <4>1 DEF RunStart, MatchInv, WillEnd, Wanted
    <3> QED BY <3>1, <3>2
  <2>7. CASE Deliver
    <3>1. CASE NoRow BY <2>7, <3>1 DEF Deliver, MatchInv, Wanted
    <3>2. CASE ~NoRow
      <4>1. row' = row /\ cmd' = cmd /\ upset' = upset /\ job' = job /\ run.pc = "deliver"
        BY <2>7, <3>2 DEF Deliver
      <4>2. \/ run'.pc \in {"send", "finalize"} /\ run'.time = run.time /\ run'.once = run.once
            \/ ~row.on \/ ~run.once
        BY <1>t, <2>7, <3>2 DEF Deliver, AfterRun, Runs
      <4> QED BY <4>1, <4>2 DEF MatchInv, WillEnd, Wanted
    <3> QED BY <3>1, <3>2
  <2>8. CASE Send
    <3>1. run'.pc = "note" /\ run'.time = run.time /\ run'.once = run.once
      BY <1>t, <2>8 DEF Send, Runs
    <3> QED BY <2>8, <3>1 DEF Send, MatchInv, WillEnd, Wanted
  <2>9. CASE Note
    <3>1. \/ run'.pc = "finalize" /\ run'.time = run.time /\ run'.once = run.once
          \/ ~run.once
      BY <1>t, <2>9 DEF Note, AfterRun, Runs
    <3> QED BY <2>9, <3>1 DEF Note, MatchInv, WillEnd, Wanted
  <2>10. CASE Finalize
    <3>1. CASE NoRow \/ row.sched = "cron"
      BY <2>10, <3>1 DEF Finalize, MatchInv, WillEnd, Wanted
    <3>2. CASE ~(NoRow \/ row.sched = "cron")
      <4>1. run'.pc = "remove" /\ ~row'.on BY <1>t, <2>10, <3>2 DEF Finalize, Runs, Rows
      <4> QED BY <4>1 DEF MatchInv, Wanted
    <3> QED BY <3>1, <3>2
  <2>11. CASE FinalizeJob
    BY <2>11 DEF FinalizeJob, MatchInv, WillEnd, Wanted
  <2>12. CASE Restart BY <2>12 DEF Restart, MatchInv
  <2> QED BY <1>2, <2>1, <2>2, <2>3, <2>4, <2>5, <2>6, <2>7, <2>8, <2>9, <2>10, <2>11, <2>12
             DEF Next, RunStep, Schedules
<1> QED BY <1>1, <1>2

-----------------------------------------------------------------------------
(* What is sent *)

(* A job is only ever set to a time that has not come. *)
LEMMA JobSet ==
    ASSUME Next, NEW t \in Times, job' = t, job # t PROVE t \notin past
<1> USE RemindersAssumption DEF Valid
<1>1. ASSUME NEW c \in Clients, NEW s \in Schedules,
             Create(c, s) \/ Edit(c, s) \/ Enable(c) \/ Disable(c) \/ Delete(c)
      PROVE  t \notin past
  BY <1>1 DEF Create, Edit, Enable, Disable, Delete
<1>2. ASSUME NEW c \in Clients,
             Ending(c) \/ Failing(c)
      PROVE  t \notin past
  <2>1. CASE CreateJob(c) \/ EditJob(c) \/ EditUndoJob(c) \/ DisableFails(c)
    BY <2>1 DEF CreateJob, EditJob, EditUndoJob, OldJob, DisableFails, Wanted
  <2>2. CASE ~(CreateJob(c) \/ EditJob(c) \/ EditUndoJob(c) \/ DisableFails(c))
    BY <1>2, <2>2 DEF Ending, CreateUndo, EditUndo, EnableRow, DisableRow, DeleteJob,
                      Failing, CreateUndoFails, EditUndoFails, EnableFails, DropJob
  <2> QED BY <2>1, <2>2
<1>3. CASE \/ \E u \in Times : TimeComes(u)
           \/ Fire \/ Misfire \/ RunStep \/ RunFails \/ RestartBare
  BY <1>3 DEF TimeComes, Fire, Misfire, RunStep, RunStart, Deliver, Send, Note, Finalize,
              FinalizeJob, RunFails, RestartBare
<1>4. CASE Restart
  BY <1>4 DEF Restart, Restored, Wanted
<1> QED BY <1>1, <1>2, <1>3, <1>4 DEF Next, Schedules

LEMMA OthersKeep ==
    ASSUME Next, ~Fire, ~Send, TypeOK
    PROVE  /\ past \subseteq past' /\ sends' = sends
           /\ \A t \in Times : Coming(t)' => Coming(t)
<1> USE DEF Coming, NoRun
<1>r. run \in Runs BY DEF TypeOK
<1>1. ASSUME NEW c \in Clients, NEW s \in Schedules,
             Create(c, s) \/ Edit(c, s) \/ Enable(c) \/ Disable(c) \/ Delete(c)
      PROVE  past' = past /\ sends' = sends /\ run' = run
  BY <1>1 DEF Create, Edit, Enable, Disable, Delete
<1>2. ASSUME NEW c \in Clients,
             Ending(c) \/ Failing(c)
      PROVE  past' = past /\ sends' = sends /\ run' = run
  BY <1>2 DEF Ending, CreateJob, CreateUndo, EditJob, EditUndo, EditUndoJob, EnableRow,
              DisableRow, DeleteJob, Failing, CreateUndoFails, EditUndoFails, EnableFails, DisableFails
<1>3. CASE (\E t \in Times : TimeComes(t)) \/ Misfire
  BY <1>3 DEF TimeComes, Misfire
<1>4. CASE RunStart
  <2>1. CASE NoRow BY <1>4, <2>1 DEF RunStart
  <2>2. CASE ~NoRow
    <3>1. run.pc = "start" /\ run'.time = run.time BY <1>r, <1>4, <2>2 DEF RunStart, Runs
    <3> QED BY <1>4, <2>2, <3>1 DEF RunStart
  <2> QED BY <2>1, <2>2
<1>5. CASE Deliver
  <2>1. run.pc = "deliver" /\ past' = past /\ sends' = sends BY <1>5 DEF Deliver
  <2>2. CASE run' = [run EXCEPT !.pc = "send"]
    <3>1. run'.time = run.time BY <1>r, <2>2 DEF Runs
    <3> QED BY <2>1, <3>1
  <2>3. CASE run' = [run EXCEPT !.pc = "finalize"]
    <3>1. run'.pc = "finalize" BY <1>r, <2>3 DEF Runs
    <3> QED BY <2>1, <3>1
  <2>4. CASE run' = NoRun BY <2>1, <2>4
  <2> QED BY <1>5, <2>2, <2>3, <2>4 DEF Deliver, AfterRun
<1>6. CASE Note
  <2>1. run'.pc \in {"idle", "finalize"} BY <1>r, <1>6 DEF Note, AfterRun, Runs
  <2> QED BY <1>6, <2>1 DEF Note
<1>7. CASE Finalize
  <2>1. run'.pc \in {"idle", "remove"} BY <1>r, <1>7 DEF Finalize, Runs
  <2> QED BY <1>7, <2>1 DEF Finalize
<1>8. CASE FinalizeJob \/ RunFails BY <1>8 DEF FinalizeJob, RunFails, Upset
<1>9. CASE Restart \/ RestartBare BY <1>9 DEF Restart, RestartBare, AllStops
<1> QED BY <1>1, <1>2, <1>3, <1>4, <1>5, <1>6, <1>7, <1>8, <1>9 DEF Next, RunStep, Schedules

LEMMA SentStep == TypeOK /\ SentInv /\ [Next]_vars => SentInv'
<1> SUFFICES ASSUME TypeOK, SentInv, [Next]_vars PROVE SentInv' OBVIOUS
<1> USE RemindersAssumption
<1>1. CASE UNCHANGED vars BY <1>1 DEF vars, SentInv, Coming
<1>2. ASSUME NEW t \in Times, Next
      PROVE  /\ sends'[t] \in 0..1
             /\ Coming(t)' => job' # t /\ sends'[t] = 0
             /\ sends'[t] = 1 => t \in past' /\ job' # t
  <2>0. /\ sends[t] \in 0..1
        /\ Coming(t) => job # t /\ sends[t] = 0 /\ t \in past
        /\ sends[t] = 1 => t \in past /\ job # t
    BY DEF SentInv, TypeOK, Coming
  <2>1. CASE Fire
    <3>1. sends' = sends /\ past' = past /\ job' # t
      BY <2>1 DEF Fire
    <3>2. Coming(t)' => Coming(t) \/ job = t
      BY <2>1 DEF Fire, Coming
    <3> QED BY <2>0, <3>1, <3>2
  <2>2. CASE Send
    <3>1. job' = job /\ past' = past BY <2>2 DEF Send
    <3>2. ~Coming(t)' BY <2>2 DEF Send, Coming, TypeOK, Runs
    <3>3. CASE run.time = t
      <4>1. sends'[t] = sends[t] + 1 BY <2>2, <3>3 DEF Send, TypeOK
      <4>2. Coming(t) BY <2>2, <3>3 DEF Send, Coming
      <4> QED BY <2>0, <3>1, <3>2, <4>1, <4>2
    <3>4. CASE run.time # t
      <4>1. sends'[t] = sends[t] BY <2>2, <3>4 DEF Send, TypeOK
      <4> QED BY <2>0, <3>1, <3>2, <4>1
    <3> QED BY <3>3, <3>4
  <2>3. CASE ~Fire /\ ~Send
    <3>1. past \subseteq past' /\ sends' = sends /\ (Coming(t)' => Coming(t))
      BY <1>2, <2>3, OthersKeep
    <3>2. job' = t => job = t \/ t \notin past BY <1>2, JobSet
    <3> QED BY <2>0, <3>1, <3>2
  <2> QED BY <2>1, <2>2, <2>3
<1> QED BY <1>1, <1>2 DEF SentInv

-----------------------------------------------------------------------------
LEMMA InitInv == Init => IInv
<1> SUFFICES ASSUME Init PROVE IInv OBVIOUS
<1>1. TypeOK BY InitType
<1>2. CmdInv BY DEF Init, NoCmd, CmdInv
<1>3. MatchInv BY DEF Init, Nothing, MatchInv, Wanted
<1>4. SentInv BY DEF Init, NoRun, SentInv, Coming
<1> QED BY <1>1, <1>2, <1>3, <1>4 DEF IInv

(* The invariant of ReminderJobs.                                           *)
THEOREM Inductive == Spec => []IInv
<1>1. IInv /\ [Next]_vars => IInv'
  BY TypeStep, CmdStep, MatchStep, SentStep DEF IInv
<1> QED BY <1>1, InitInv, PTL DEF Spec

(* Every variable keeps its type.                                           *)
THEOREM TypeCorrect == Spec => []TypeOK
<1>1. IInv => TypeOK BY DEF IInv
<1> QED BY <1>1, Inductive, PTL

(* At rest a reminder that is on, and no other, has the job of its time, as *)
(* long as no race, lapse or fault of JobMatchesRow has happened since the  *)
(* last restart that read the rows: every way to end a command half way     *)
(* mends what it began (_create_reminder, _update_reminder, _set_enabled,   *)
(* _finalize_once, _restore_reminder_jobs).  OneAtATimeAgree says which     *)
(* steps these are.                                                         *)
THEOREM RowAndJobAgree == Spec => []JobMatchesRow
<1>1. IInv => JobMatchesRow
  BY DEF IInv, MatchInv, WillEnd, JobMatchesRow, AtRest
<1> QED BY <1>1, Inductive, PTL

(* No time of a one-time reminder is sent twice by runs: a job is set only  *)
(* for a time to come and goes as it fires.                                 *)
THEOREM NeverTwice == Spec => []SentOnce
<1>1. IInv => SentOnce BY DEF IInv, SentInv, SentOnce
<1> QED BY <1>1, Inductive, PTL

-----------------------------------------------------------------------------
(* Times that have come *)

(* A reminder that is on and whose time has come is never left behind with  *)
(* nothing to do about it: its job may fire, or a run or a command is in    *)
(* the middle of it, unless a race, a lapse or a fault of JobMatchesRow has *)
(* happened.  The lapse in an enable (_set_enabled registers the job, and   *)
(* the row still reads off when it fires) does leave one behind, with no    *)
(* fault and no other command.  What is left to OnceEnds is that the others *)
(* go on.                                                                   *)
THEOREM NoneLeftBehind ==
    Spec => [](\/ upset # {} \/ ~(row.there = "yes" /\ row.on /\ row.sched \in past)
               \/ job = row.sched
               \/ run.pc # "idle"
               \/ \E c \in Clients : cmd[c].op # "none")
<1>1. IInv => \/ upset # {} \/ ~(row.there = "yes" /\ row.on /\ row.sched \in past)
              \/ job = row.sched
              \/ run.pc # "idle"
              \/ \E c \in Clients : cmd[c].op # "none"
  BY DEF IInv, MatchInv, WillEnd, Wanted
<1> QED BY <1>1, Inductive, PTL

-----------------------------------------------------------------------------
(* What it takes to part row and job: a condition on the steps instead of   *)
(* the history that JobMatchesRow and OnceEnds except.                      *)

Alone(c) == \A d \in Clients \ {c} : cmd[d].op = "none"

(* Commands and runs come one at a time, and commands when no firing is     *)
(* due; no old date that a command may go back to comes meanwhile; no       *)
(* firing is late, and neither an undoing commit, nor a session of a run,   *)
(* nor the reading of the rows when the bot starts fails.                   *)
Orderly ==
    /\ \A c \in Clients :
          /\ cmd[c].op = "none" /\ cmd'[c].op # "none" => AtRest /\ job \notin past
          /\ cmd[c].op \in {"edit", "unedit", "disable"} =>
                Wanted(cmd[c].old) \notin past' \ past
          /\ ~CreateUndoFails(c) /\ ~EditUndoFails(c)
    /\ run.pc = "idle" /\ run'.pc # "idle" => AtRest
    /\ ~Misfire /\ ~RunFails /\ ~RestartBare

(* What a command that nobody has overtaken finds when it ends. *)
Finds(c) ==
    /\ cmd[c].op # "none" => Alone(c) /\ run.pc = "idle" /\ row = cmd[c].row
    /\ cmd[c].op = "enable" => job = row.sched
    /\ cmd[c].op \in {"uncreate", "disable"} => job = "none"
    /\ cmd[c].op \in {"edit", "unedit", "disable"} => Wanted(cmd[c].old) \notin past

(* What a run finds that nobody has overtaken. *)
RunFinds ==
    /\ run.pc # "idle" => \A c \in Clients : cmd[c].op = "none"
    /\ run.pc # "idle" /\ run.time \in Times =>
          job = "none" /\ (row.there = "yes" => row.sched = run.time)
    /\ run.pc # "idle" /\ run.time = "cron" =>
          row.sched = "cron" /\ job \in {"cron", "none"} /\ ~run.once

Calm == upset = {} /\ RunFinds /\ \A c \in Clients : Finds(c)

(* A command begins at rest, and knows that row and job agree. *)
LEMMA BeginCalm ==
    ASSUME TypeOK, MatchInv, Calm, Orderly, NEW c \in Clients, NEW s \in Schedules,
           Create(c, s) \/ Edit(c, s) \/ Enable(c) \/ Disable(c) \/ Delete(c)
    PROVE  Calm'
<1> USE RemindersAssumption
<1>t. row \in Rows /\ cmd \in [Clients -> Cmds] /\ past \subseteq Times BY DEF TypeOK
<1>1. PICK op \in {"create", "edit", "enable", "disable", "delete"} : \E new \in Rows :
         /\ Begins(c, op, new) /\ row' = new /\ run' = run /\ upset' = upset /\ past' = past
         /\ op = "enable" => job' = row.sched /\ new = row
         /\ op = "disable" => job' = "none"
  BY <1>t DEF Create, Edit, Edited, Enable, Disable, Delete, Rows
<1>2. PICK new \in Rows :
         /\ Begins(c, op, new) /\ row' = new /\ run' = run /\ upset' = upset /\ past' = past
         /\ op = "enable" => job' = row.sched /\ new = row
         /\ op = "disable" => job' = "none"
  BY <1>1
<1>3. /\ cmd' = [cmd EXCEPT ![c] = [op |-> op, row |-> new, old |-> row]]
      /\ cmd[c].op = "none"
  BY <1>2 DEF Begins
<1>4. cmd'[c] = [op |-> op, row |-> new, old |-> row]
      /\ \A d \in Clients \ {c} : cmd'[d] = cmd[d]
  BY <1>t, <1>3
<1>5. cmd'[c].op = op /\ cmd'[c].row = new /\ cmd'[c].old = row BY <1>4
<1>6. AtRest /\ job \notin past
  BY <1>1, <1>3, <1>5 DEF Orderly
<1>7. job = Wanted(row) BY <1>6 DEF Calm, MatchInv, WillEnd, AtRest
<1>8. run'.pc = "idle" /\ \A d \in Clients \ {c} : cmd'[d].op = "none"
  BY <1>2, <1>4, <1>6 DEF AtRest
<1>9. Finds(c)'
  BY <1>1, <1>2, <1>5, <1>6, <1>7, <1>8 DEF Finds, Alone
<1>10. \A d \in Clients \ {c} : Finds(d)' BY <1>8 DEF Finds
<1> QED BY <1>2, <1>8, <1>9, <1>10 DEF Calm, RunFinds

(* A command that is half done is alone; when it ends, or is to be undone,  *)
(* it is so still.                                                          *)
LEMMA EndCalm ==
    ASSUME TypeOK, CmdInv, Calm, Orderly, NEW c \in Clients, Ending(c) \/ Failing(c)
    PROVE  Calm'
<1> USE DEF Overtaken, Upset
<1>t. /\ row \in Rows /\ cmd \in [Clients -> Cmds] /\ past \subseteq Times
      /\ cmd[c] \in Cmds /\ cmd[c].row \in Rows /\ cmd[c].old \in Rows
  BY DEF TypeOK, Cmds
<1>a. cmd[c].op # "none"
  BY DEF Ending, CreateJob, CreateUndo, EditJob, EditUndo, EditUndoJob, EnableRow, DisableRow,
         DeleteJob, Failing, CreateUndoFails, EditUndoFails, EnableFails, DisableFails
<1>f. Finds(c) /\ upset = {} BY DEF Calm
<1>b. /\ Alone(c) /\ run.pc = "idle" /\ row = cmd[c].row
      /\ cmd[c].op \in {"edit", "unedit", "disable"} => Wanted(cmd[c].old) \notin past
      /\ cmd[c].op \in {"uncreate", "disable"} => job = "none"
      /\ cmd[c].op = "enable" => job = row.sched
  BY <1>a, <1>f DEF Finds
<1>e. ASSUME Ends(c), run' = run, upset' = {} PROVE Calm'
  <2>1. \A d \in Clients : cmd'[d].op = "none"
    BY <1>t, <1>b, <1>e DEF Ends, NoCmd, Alone
  <2> QED BY <1>b, <1>e, <2>1 DEF Calm, RunFinds, Finds
<1>g. ASSUME NEW op \in {"uncreate", "unedit"}, Goes(c, op, row'), run' = run, upset' = {},
             past' = past, op = "uncreate" => job' = "none",
             op = "unedit" => Wanted(cmd[c].old) \notin past
      PROVE  Calm'
  <2>1. cmd'[c] = [op |-> op, row |-> row', old |-> cmd[c].old]
        /\ \A d \in Clients \ {c} : cmd'[d] = cmd[d]
    BY <1>t, <1>g DEF Goes
  <2>2. cmd'[c].op = op /\ cmd'[c].row = row' /\ cmd'[c].old = cmd[c].old BY <2>1
  <2>3. \A d \in Clients \ {c} : cmd'[d].op = "none" BY <1>b, <2>1 DEF Alone
  <2>4. Finds(c)' BY <1>b, <1>g, <2>2, <2>3 DEF Finds, Alone
  <2>5. \A d \in Clients \ {c} : Finds(d)' BY <2>3 DEF Finds
  <2> QED BY <1>b, <1>g, <2>4, <2>5 DEF Calm, RunFinds
<1>1. CASE CreateJob(c)
  <2>1. upset' = {} /\ run' = run /\ past' = past /\ row' = row
    BY <1>1, <1>b, <1>f DEF CreateJob
  <2> QED BY <1>1, <1>e, <1>g, <2>1 DEF CreateJob
<1>2. CASE CreateUndo(c) BY <1>2, <1>b, <1>e, <1>f DEF CreateUndo
<1>3. CASE EditJob(c) BY <1>3, <1>b, <1>e, <1>f DEF EditJob
<1>4. CASE EditUndo(c)
  <2>1. upset' = {} /\ run' = run /\ past' = past /\ Wanted(cmd[c].old) \notin past
    BY <1>4, <1>b, <1>f DEF EditUndo
  <2> QED BY <1>4, <1>e, <1>g, <2>1 DEF EditUndo
<1>5. CASE EditUndoJob(c)
  <2>1. OldJob(cmd[c].old) = Wanted(cmd[c].old)
    BY <1>5, <1>b DEF EditUndoJob, OldJob, Wanted, Valid
  <2>2. upset' = {} /\ run' = run /\ Ends(c) BY <1>5, <1>b, <1>f, <2>1 DEF EditUndoJob
  <2> QED BY <1>e, <2>2
<1>6. CASE EnableRow(c)
  <2>1. row.there = "yes" /\ job # "none"
    BY <1>6, <1>b, <1>t, RemindersAssumption DEF EnableRow, CmdInv, Rows, Schedules
  <2>2. upset' = {} /\ run' = run /\ Ends(c) BY <1>6, <1>b, <1>f, <2>1 DEF EnableRow
  <2> QED BY <1>e, <2>2
<1>7. CASE DisableRow(c) BY <1>7, <1>b, <1>e, <1>f DEF DisableRow
<1>8. CASE DeleteJob(c) BY <1>8, <1>e, <1>f DEF DeleteJob
<1>9. CASE EnableFails(c) BY <1>9, <1>b, <1>e, <1>f DEF EnableFails
<1>10. CASE DisableFails(c)
  <2>1. cmd[c].old.there = "yes" /\ cmd[c].old.on BY <1>10 DEF DisableFails, CmdInv
  <2>2. job' = cmd[c].old.sched
    BY <1>10, <1>b, <2>1 DEF DisableFails, Wanted, Valid
  <2>3. upset' = {} /\ run' = run /\ Ends(c) BY <1>10, <1>b, <1>f, <2>2 DEF DisableFails
  <2> QED BY <1>e, <2>3
<1>11. CASE CreateUndoFails(c) \/ EditUndoFails(c) BY <1>11 DEF Orderly
<1> QED BY <1>1, <1>2, <1>3, <1>4, <1>5, <1>6, <1>7, <1>8, <1>9, <1>10, <1>11
           DEF Ending, Failing

(* A run that begins at rest has the time of the row. *)
LEMMA RunCalm ==
    ASSUME TypeOK, MatchInv, Calm, Orderly, Fire \/ RunStep PROVE Calm'
<1> USE RemindersAssumption
<1>t. /\ row \in Rows /\ run \in Runs /\ past \subseteq Times /\ upset = {}
      /\ job \in Schedules \union {"none"}
  BY DEF TypeOK, Calm
<1>1. CASE Fire
  <2>1. CASE run.pc = "idle"
    <3>1. /\ run' = [pc |-> "start", time |-> job, once |-> FALSE] /\ upset' = upset
          /\ row' = row /\ cmd' = cmd /\ job' = IF job = "cron" THEN job ELSE "none"
      BY <1>1, <2>1 DEF Fire
    <3>2. run'.pc = "start" /\ run'.time = job /\ ~run'.once BY <3>1
    <3>3. AtRest BY <2>1, <3>2 DEF Orderly
    <3>4. job = Wanted(row) BY <1>t, <3>3 DEF MatchInv, WillEnd, AtRest
    <3>5. job \in Schedules BY <1>1, <1>t DEF Fire, Schedules
    <3>6. row.sched = job BY <3>4, <3>5 DEF Wanted, Schedules
    <3>7. job \in Times => job # "cron" OBVIOUS
    <3>8. RunFinds' BY <3>1, <3>2, <3>3, <3>6, <3>7 DEF RunFinds, AtRest
    <3>9. \A c \in Clients : Finds(c)' BY <3>1, <3>3 DEF Finds, AtRest
    <3> QED BY <1>t, <3>1, <3>8, <3>9 DEF Calm
  <2>2. CASE run.pc # "idle"
    <3>1. job = "cron"
      <4>1. run.time \in Schedules BY <1>t DEF Runs
      <4> QED BY <1>1, <1>t, <2>2, <4>1 DEF Calm, RunFinds, Fire, Schedules
    <3>2. /\ run' = run /\ row' = row /\ cmd' = cmd /\ job' = job /\ upset' = {}
          /\ past' = past
      BY <1>1, <1>t, <2>2, <3>1 DEF Fire, Upset
    <3> QED BY <3>2 DEF Calm, RunFinds, Finds, Alone
  <2> QED BY <2>1, <2>2
<1>2. CASE RunStep
  <2>1. run.pc # "idle"
    BY <1>2 DEF RunStep, RunStart, Deliver, Send, Note, Finalize, FinalizeJob
  <2>2. cmd' = cmd /\ past' = past /\ \A c \in Clients : cmd[c].op = "none"
    BY <1>2, <2>1 DEF Calm, RunFinds, RunStep, RunStart, Deliver, Send, Note, Finalize,
                      FinalizeJob
  <2>3. \A c \in Clients : Finds(c)' BY <2>2 DEF Finds
  <2>4. run.time \in Schedules /\ run.once \in BOOLEAN BY <1>t DEF Runs
  <2>5. job' = "none" \/ job' = job
    BY <1>2 DEF RunStep, RunStart, Deliver, Send, Note, Finalize, FinalizeJob
  <2>6. row'.sched = row.sched /\ row'.there = row.there
    BY <1>2, <1>t DEF RunStep, RunStart, Deliver, Send, Note, Finalize, FinalizeJob, Rows
  <2>7. upset' = {}
    <3>1. CASE Finalize
      <4>1. NoRow \/ row.sched = "cron" \/ row.sched = run.time
        BY <2>1, <2>4 DEF Calm, RunFinds, Schedules, NoRow
      <4> QED BY <1>t, <3>1, <4>1 DEF Finalize, Upset
    <3>2. CASE FinalizeJob
      <4>1. run.once BY <3>2 DEF TypeOK, FinalizeJob
      <4>2. job = "none" BY <2>1, <2>4, <4>1 DEF Calm, RunFinds, Schedules
      <4> QED BY <1>t, <3>2, <4>2 DEF FinalizeJob, Upset
    <3>3. CASE RunStart \/ Deliver \/ Send \/ Note
      BY <1>t, <3>3 DEF RunStart, Deliver, Send, Note
    <3> QED BY <1>2, <3>1, <3>2, <3>3 DEF RunStep
  <2>8. CASE run'.pc = "idle" BY <2>3, <2>7, <2>8 DEF Calm, RunFinds
  <2>9. CASE run'.time = run.time /\ (run.time = "cron" => ~run'.once)
    BY <2>1, <2>2, <2>3, <2>5, <2>6, <2>7, <2>9 DEF Calm, RunFinds
  <2>10. \/ run' = NoRun
         \/ \E pc \in {"send", "note", "finalize", "remove"} : run' = [run EXCEPT !.pc = pc]
         \/ run' = [run EXCEPT !.pc = "deliver", !.once = row.sched # "cron"]
    BY <1>2 DEF RunStep, RunStart, Deliver, Send, Note, Finalize, FinalizeJob, AfterRun
  <2>11. CASE run' = NoRun BY <2>8, <2>11 DEF NoRun
  <2>12. CASE \E pc \in {"send", "note", "finalize", "remove"} : run' = [run EXCEPT !.pc = pc]
    <3>1. run'.time = run.time /\ run'.once = run.once BY <1>t, <2>12 DEF Runs
    <3>2. run.time = "cron" => ~run.once BY <2>1 DEF Calm, RunFinds
    <3> QED BY <2>9, <3>1, <3>2
  <2>13. CASE run' = [run EXCEPT !.pc = "deliver", !.once = row.sched # "cron"]
    <3>1. run'.time = run.time /\ run'.once = (row.sched # "cron") BY <1>t, <2>13 DEF Runs
    <3>2. run.time = "cron" => row.sched = "cron" BY <2>1 DEF Calm, RunFinds
    <3> QED BY <2>9, <3>1, <3>2
  <2> QED BY <2>10, <2>11, <2>12, <2>13
<1> QED BY <1>1, <1>2

LEMMA CalmStep ==
    TypeOK /\ CmdInv /\ MatchInv /\ Calm /\ [Next]_vars /\ [Orderly]_vars => Calm'
<1> SUFFICES ASSUME TypeOK, CmdInv, MatchInv, Calm, [Next]_vars, [Orderly]_vars PROVE Calm'
  OBVIOUS
<1>1. CASE UNCHANGED vars BY <1>1 DEF vars, Calm, RunFinds, Finds, Alone
<1>2. CASE Next /\ Orderly
  <2>1. ASSUME NEW t \in Times, TimeComes(t) PROVE Calm'
    <3>1. /\ row' = row /\ job' = job /\ run' = run /\ cmd' = cmd /\ upset' = upset
          /\ past' = past \union {t}
      BY <2>1 DEF TimeComes
    <3>2. \A c \in Clients : cmd[c].op \in {"edit", "unedit", "disable"} /\ Wanted(cmd[c].old) \notin past
             => Wanted(cmd[c].old) \notin past'
      BY <1>2, <3>1 DEF Orderly
    <3> QED BY <3>1, <3>2 DEF Calm, RunFinds, Finds, Alone
  <2>2. CASE Restart
    <3>1. run'.pc = "idle" /\ upset' = {} /\ \A c \in Clients : cmd'[c].op = "none"
      BY <2>2 DEF Restart, AllStops, NoRun, NoCmd
    <3> QED BY <3>1 DEF Calm, RunFinds, Finds
  <2>3. CASE Misfire \/ RunFails \/ RestartBare BY <1>2, <2>3 DEF Orderly
  <2>4. ASSUME NEW c \in Clients, NEW s \in Schedules,
               Create(c, s) \/ Edit(c, s) \/ Enable(c) \/ Disable(c) \/ Delete(c)
        PROVE  Calm'
    BY <1>2, <2>4, BeginCalm
  <2>5. ASSUME NEW c \in Clients, Ending(c) \/ Failing(c) PROVE Calm'
    BY <1>2, <2>5, EndCalm
  <2>6. CASE Fire \/ RunStep BY <1>2, <2>6, RunCalm
  <2> QED BY <1>2, <2>1, <2>2, <2>3, <2>4, <2>5, <2>6 DEF Next, Schedules
<1> QED BY <1>1, <1>2

(* Without one of the named events row and job agree with no exception:     *)
(* when commands and runs come one at a time and go on Orderly, a reminder  *)
(* that is switched on, and no other, has the job of its time whenever no   *)
(* command or run is half way, whatever commits of commands fail, whichever *)
(* new times come before they are scheduled and wherever a restart falls    *)
(* (reminder.py _create_reminder, _update_reminder, _set_enabled,           *)
(* _finalize_once, _restore_reminder_jobs).                                 *)
THEOREM OneAtATimeAgree ==
    Spec /\ [][Orderly]_vars => [](AtRest => job = Wanted(row))
<1>1. Init => Calm
  BY DEF Init, NoRun, NoCmd, Calm, RunFinds, Finds
<1>2. IInv /\ Calm /\ [Next]_vars /\ [Orderly]_vars => Calm'
  BY CalmStep DEF IInv
<1>3. IInv /\ Calm => (AtRest => job = Wanted(row))
  BY DEF IInv, Calm, MatchInv, WillEnd, AtRest
<1> QED BY <1>1, <1>2, <1>3, Inductive, PTL DEF Spec

-----------------------------------------------------------------------------
(* What a run switches off.  _finalize_once reads the row again and has no  *)
(* memory of the time it ran for.                                           *)

(* A run starts with no command half done, and on a row and a job that      *)
(* agree; no command or restart gives the row another time while it lasts.  *)
Undisturbed ==
    /\ run.pc = "idle" /\ run'.pc = "start" => AtRest /\ upset = {}
    /\ run.pc # "idle" => row'.sched = row.sched

OwnTime == run.pc # "idle" => row.sched = run.time

(* A run keeps its time; only a firing begins one. *)
LEMMA RunTime ==
    ASSUME TypeOK, Next
    PROVE  \/ run'.pc = "idle"
           \/ run.pc # "idle" /\ run'.time = run.time
           \/ run.pc = "idle" /\ Fire
<1>r. run \in Runs BY DEF TypeOK
<1>1. ASSUME NEW c \in Clients, NEW s \in Schedules,
             Create(c, s) \/ Edit(c, s) \/ Enable(c) \/ Disable(c) \/ Delete(c)
      PROVE  run' = run
  BY <1>1 DEF Create, Edit, Enable, Disable, Delete
<1>2. ASSUME NEW c \in Clients,
             Ending(c) \/ Failing(c)
      PROVE  run' = run
  BY <1>2 DEF Ending, CreateJob, CreateUndo, EditJob, EditUndo, EditUndoJob, EnableRow,
              DisableRow, DeleteJob, Failing, CreateUndoFails, EditUndoFails, EnableFails, DisableFails
<1>3. CASE (\E t \in Times : TimeComes(t)) \/ Misfire
  BY <1>3 DEF TimeComes, Misfire
<1>4. CASE Fire
  BY <1>4 DEF Fire
<1>5. CASE RunStep
  <2>1. run.pc # "idle"
    BY <1>5 DEF RunStep, RunStart, Deliver, Send, Note, Finalize, FinalizeJob
  <2>2. \/ run' = NoRun
        \/ \E pc \in {"send", "note", "finalize", "remove"} : run' = [run EXCEPT !.pc = pc]
        \/ run' = [run EXCEPT !.pc = "deliver", !.once = row.sched # "cron"]
    BY <1>5 DEF RunStep, RunStart, Deliver, Send, Note, Finalize, FinalizeJob, AfterRun
  <2>3. CASE run' = NoRun BY <2>3 DEF NoRun
  <2>4. CASE \E pc \in {"send", "note", "finalize", "remove"} : run' = [run EXCEPT !.pc = pc]
    <3>1. run'.time = run.time BY <1>r, <2>4 DEF Runs
    <3> QED BY <2>1, <3>1
  <2>5. CASE run' = [run EXCEPT !.pc = "deliver", !.once = row.sched # "cron"]
    <3>1. run'.time = run.time BY <1>r, <2>5 DEF Runs
    <3> QED BY <2>1, <3>1
  <2> QED BY <2>2, <2>3, <2>4, <2>5
<1>6. CASE RunFails \/ Restart \/ RestartBare
  BY <1>6 DEF RunFails, Restart, RestartBare, AllStops, NoRun, Upset
<1> QED BY <1>1, <1>2, <1>3, <1>4, <1>5, <1>6 DEF Next, Schedules

LEMMA OwnTimeStep ==
    TypeOK /\ MatchInv /\ OwnTime /\ [Next]_vars /\ [Undisturbed]_vars => OwnTime'
<1> SUFFICES ASSUME TypeOK, MatchInv, OwnTime, [Next]_vars, [Undisturbed]_vars
             PROVE  OwnTime'
  OBVIOUS
<1>1. CASE UNCHANGED vars BY <1>1 DEF vars, OwnTime
<1>2. CASE Next /\ Undisturbed
  <2>1. CASE run'.pc = "idle" BY <2>1 DEF OwnTime
  <2>2. CASE run.pc # "idle" /\ run'.time = run.time
    BY <1>2, <2>2 DEF OwnTime, Undisturbed
  <2>3. CASE run.pc = "idle" /\ Fire
    <3>1. run'.pc = "start" /\ run'.time = job /\ row' = row BY <2>3 DEF Fire
    <3>2. AtRest /\ upset = {} BY <1>2, <2>3, <3>1 DEF Undisturbed
    <3>3. job = Wanted(row) BY <2>3, <3>2 DEF MatchInv, WillEnd, AtRest
    <3>4. job # "none" BY <2>3, RemindersAssumption DEF Fire, TypeOK
    <3> QED BY <3>1, <3>3, <3>4 DEF OwnTime, Wanted
  <2> QED BY <1>2, <2>1, <2>2, <2>3, RunTime
<1> QED BY <1>1, <1>2

(* A run switches off a reminder only for the time it was fired for, as     *)
(* long as it begins and goes on Undisturbed; without that a reminder that  *)
(* was moved to a later time while its message was being sent is switched   *)
(* off and its new job removed (_finalize_once, which compares no times).   *)
THEOREM OnlyDisturbedRunsEndAnother ==
    Spec /\ [][Undisturbed]_vars
        => [][run.pc = "finalize" /\ run'.pc = "remove" => row.sched = run.time]_vars
<1>1. Init => OwnTime BY DEF Init, NoRun, OwnTime
<1>2. IInv /\ OwnTime /\ [Next]_vars /\ [Undisturbed]_vars => OwnTime'
  BY OwnTimeStep DEF IInv
<1>3. OwnTime => [run.pc = "finalize" /\ run'.pc = "remove" => row.sched = run.time]_vars
  BY DEF OwnTime
<1> QED BY <1>1, <1>2, <1>3, Inductive, PTL DEF Spec
=============================================================================
