------------------------- MODULE AgentSchedulesProofs -------------------------
(***************************************************************************)
(* What AgentSchedules keeps for every bound and every budget.  Each part  *)
(* of the invariant is shown to survive every step; the parts lean on each *)
(* other as their lemmas say.  The last section says what it takes to      *)
(* leave an active task with nothing to come.                              *)
(***************************************************************************)
EXTENDS AgentSchedules, TLAPS

(* A row that is not there holds no lease, and none is at work before it is *)
(* created.                                                                 *)
LeaseInv ==
    /\ LeaseReleased
    /\ ~Exists => row.lease = "none"
    /\ row.status = "absent" => pc = "idle"

(* The ghosts mean what they say. *)
OwedInv ==
    /\ planned # "due"
    /\ ~Exists => row.next = "none"
    /\ row.next = "due" => owed
    /\ pc \in {"claimed", "run"} => owed \/ moved

(* The owner has not touched the count and nobody forces a run. *)
Fresh == \A e \in {"edit", "resume", "manual"} : left[e] = Budget[e]

(* A command that has read the row had a task that was open, or edits; what  *)
(* it will write is a status, and a time unless it ends the task or pauses it. *)
Sound(h) ==
    /\ h.may
    /\ h.new.lease = "none"
    /\ "status" \in h.cols =>
          /\ h.new.status \in {"active", "paused", "completed", "cancelled"}
          /\ h.new.status = "active" => h.aims
    /\ "next" \in h.cols =>
          /\ h.new.next # "due"
          /\ h.new.next = "none" => "status" \in h.cols /\ h.new.status # "active"

HeldInv == \A h \in held : Sound(h)

(* Pauses and cancellations touch neither count nor limit, and add no time. *)
Modest(h) ==
    /\ "max" \notin h.cols /\ "runs" \notin h.cols
    /\ "next" \in h.cols => h.new.next = "none"

HeldFresh == \A h \in held : Modest(h)

(* What is planned and under way fits in what is left of the rule. *)
CountInv ==
    /\ \A e \in Events : left[e] <= Budget[e]
    /\ Fresh =>
        /\ manual = 0 /\ HeldFresh
        /\ row.max # 0 =>
            /\ row.runs <= row.max
            /\ row.next # "none" => row.runs < row.max
            /\ pc # "idle" => row.runs < row.max
            /\ pc = "running" /\ row.next # "none" => row.runs + 2 <= row.max
            /\ pc = "run" /\ planned # "none" => row.runs + 2 <= row.max

IInv == TypeOK /\ HeldInv /\ LeaseInv /\ ActiveHasNext /\ OwedInv /\ CountInv

-----------------------------------------------------------------------------
(* The operators on rows *)

LEMMA FollowingTimes == ASSUME NEW r PROVE Following(r) \subseteq Times \ {"due"}
BY DEF Following, Times

LEMMA AfterRunTimes == ASSUME NEW r PROVE AfterRun(r) \subseteq Times \ {"due"}
BY FollowingTimes DEF AfterRun, Times

(* What a recorded run does to a row. *)
LEMMA RecordedRow ==
    ASSUME NEW r \in Rows, NEW s \in Recorded(r)
    PROVE  /\ s \in Rows
           /\ s.lease = "none" /\ s.max = r.max
           /\ s.status = "active" => s.next # "none"
           /\ s.next = "due" => r.next = "due"
           /\ s.status \in {r.status, "paused", "completed"}
           /\ s.next # "none" /\ r.next = "none" => s.runs = r.runs
           /\ r.status \in {"completed", "cancelled"} => s.status \in {r.status, "paused"}
           /\ s.runs \in {r.runs, Count(r.runs)}
<1> USE SchedulesAssumption
<1>r. /\ r.status \in {"absent", "active", "paused", "completed", "cancelled", "deleted"}
      /\ r.next \in Times /\ r.max \in 0..MaxRuns
      /\ r.runs \in 0..(MaxRuns + 1) /\ r.fails \in 0..MaxFailures
  BY DEF Rows
<1>1. CASE s = Ran(r)
  <2> DEFINE c == Count(r.runs)
             q == [r EXCEPT !.lease = "none", !.runs = c, !.fails = 0]
  <2>1. c \in 0..(MaxRuns + 1) BY <1>r DEF Count
  <2>3. s = Settled(q) BY <1>1 DEF Ran
  <2> HIDE DEF c
  <2> DEFINE q1 == [r EXCEPT !.lease = "none"]
             q2 == [q1 EXCEPT !.runs = c]
  <2>q. q = [q2 EXCEPT !.fails = 0] OBVIOUS
  <2>q1. q1 = [status |-> r.status, next |-> r.next, lease |-> "none",
               max |-> r.max, runs |-> r.runs, fails |-> r.fails]
    BY DEF Rows
  <2>q2. q2 = [q1 EXCEPT !.runs = c] OBVIOUS
  <2> HIDE DEF q, q1, q2
  <2>q3. q2 = [status |-> r.status, next |-> r.next, lease |-> "none",
               max |-> r.max, runs |-> c, fails |-> r.fails]
    BY <2>q1, <2>q2
  <2>a. q = [status |-> r.status, next |-> r.next, lease |-> "none",
             max |-> r.max, runs |-> c, fails |-> 0]
    BY <2>q, <2>q3
  <2>b. 0 \in 0..MaxFailures /\ "none" \in {"none", "held", "stale"} OBVIOUS
  <2>2. /\ q \in Rows /\ q.status = r.status /\ q.next = r.next /\ q.lease = "none"
        /\ q.max = r.max /\ q.runs = c
    BY <2>1, <2>a, <2>b, <1>r DEF Rows
  <2>4. CASE q.status = "active" /\ q.next = "none"
    <3>1. s = [q EXCEPT !.status = "completed"] BY <2>3, <2>4 DEF Settled
    <3>2. /\ s \in Rows /\ s.status = "completed" /\ s.next = q.next /\ s.lease = q.lease
          /\ s.max = q.max /\ s.runs = q.runs
      BY <3>1, <2>2 DEF Rows
    <3> QED BY <3>2, <2>2, <2>4 DEF c
  <2>5. CASE ~(q.status = "active" /\ q.next = "none")
    <3>1. s = q BY <2>3, <2>5 DEF Settled
    <3> QED BY <3>1, <2>2, <2>5, <1>r DEF Times, c
  <2> QED BY <2>4, <2>5
<1>2. CASE s = PauseTask(r)
  <2>1. /\ s \in Rows /\ s.status = "paused" /\ s.next = r.next /\ s.lease = "none"
        /\ s.max = r.max /\ s.runs = r.runs
    BY <1>2 DEF PauseTask, Rows
  <2> QED BY <2>1
<1>3. CASE s = Failed(r)
  <2> DEFINE n == IF r.fails = MaxFailures THEN r.fails ELSE r.fails + 1
             f == [r EXCEPT !.lease = "none", !.fails = n]
  <2>1. n \in 0..MaxFailures BY <1>r
  <2>2. /\ f \in Rows /\ f.status = r.status /\ f.next = r.next /\ f.lease = "none"
        /\ f.max = r.max /\ f.runs = r.runs
    BY <2>1 DEF Rows
  <2>3. s = IF f.fails = MaxFailures THEN PauseTask(f)
            ELSE IF f.status = "active" /\ f.next = "none" THEN [f EXCEPT !.next = "future"]
            ELSE f
    BY <1>3 DEF Failed
  <2> HIDE DEF f
  <2>4. CASE s = PauseTask(f)
    <3>1. /\ s \in Rows /\ s.status = "paused" /\ s.next = f.next /\ s.lease = "none"
          /\ s.max = f.max /\ s.runs = f.runs
      BY <2>4, <2>2 DEF PauseTask, Rows
    <3> QED BY <3>1, <2>2
  <2>5. CASE f.status = "active" /\ f.next = "none" /\ s = [f EXCEPT !.next = "future"]
    <3>1. /\ s \in Rows /\ s.status = f.status /\ s.next = "future" /\ s.lease = f.lease
          /\ s.max = f.max /\ s.runs = f.runs
      BY <2>5, <2>2 DEF Rows, Times
    <3> QED BY <3>1, <2>2, <2>5
  <2>6. CASE s = f /\ ~(f.status = "active" /\ f.next = "none")
    BY <2>6, <2>2
  <2> QED BY <2>3, <2>4, <2>5, <2>6
<1> QED BY <1>1, <1>2, <1>3 DEF Recorded

-----------------------------------------------------------------------------
(* Types *)

LEMMA InitType == Init => TypeOK
<1> SUFFICES ASSUME Init PROVE TypeOK OBVIOUS
<1>1. 0 \in 0..MaxRuns /\ 0 \in 0..(MaxRuns + 1) /\ 0 \in 0..MaxFailures /\ 0 \in 0..MaxManual
  BY SchedulesAssumption
<1>2. row \in Rows BY <1>1 DEF Init, Rows, Times
<1> QED BY <1>1, <1>2, SchedulesAssumption DEF Init, TypeOK, Times, Ticks

LEMMA HappensType ==
    ASSUME NEW e \in Events, left \in [Events -> Nat], Happens(e)
    PROVE  left' \in [Events -> Nat] /\ left'[e] < left[e] /\ left[e] > 0
           /\ left' = [left EXCEPT ![e] = @ - 1]
BY DEF Happens

(* What the rows are that a command means to leave. *)
LEMMA CommandRows ==
    ASSUME NEW r \in Rows
    PROVE  /\ PauseTask(r) \in Rows /\ PauseTask(r).status = "paused"
           /\ PauseTask(r).next = r.next /\ PauseTask(r).runs = r.runs
           /\ PauseTask(r).max = r.max
           /\ CancelTask(r) \in Rows /\ CancelTask(r).status = "cancelled"
           /\ CancelTask(r).next = "none" /\ CancelTask(r).runs = r.runs
           /\ CancelTask(r).max = r.max
           /\ \A t \in Times \ {"due"} :
                 /\ Resumed(r, t) \in Rows /\ Resumed(r, t).next = t
                 /\ Resumed(r, t).status = IF t = "none" THEN "completed" ELSE "active"
<1> USE SchedulesAssumption
<1>1. /\ PauseTask(r) \in Rows /\ PauseTask(r).status = "paused"
      /\ PauseTask(r).next = r.next /\ PauseTask(r).runs = r.runs
      /\ PauseTask(r).max = r.max
  BY DEF PauseTask, Rows
<1>2. /\ CancelTask(r) \in Rows /\ CancelTask(r).status = "cancelled"
      /\ CancelTask(r).next = "none" /\ CancelTask(r).runs = r.runs
      /\ CancelTask(r).max = r.max
  BY DEF CancelTask, Rows, Times
<1>3. ASSUME NEW t \in Times \ {"due"}
      PROVE  /\ Resumed(r, t) \in Rows /\ Resumed(r, t).next = t
             /\ Resumed(r, t).status = IF t = "none" THEN "completed" ELSE "active"
  <2> DEFINE status == IF t = "none" THEN "completed" ELSE "active"
             r1 == [r EXCEPT !.status = status]
             r2 == [r1 EXCEPT !.next = t]
             r3 == [r2 EXCEPT !.lease = "none"]
  <2>1. status \in {"completed", "active"} /\ 0 \in 0..MaxFailures /\ t \in Times OBVIOUS
  <2>2. Resumed(r, t) = [r3 EXCEPT !.fails = 0] BY DEF Resumed
  <2> HIDE DEF status
  <2>3. r1 \in Rows /\ r1.status = status BY <2>1 DEF Rows
  <2> HIDE DEF r1
  <2>4. r2 \in Rows /\ r2.status = status /\ r2.next = t BY <2>1, <2>3 DEF Rows
  <2> HIDE DEF r2
  <2>5. r3 \in Rows /\ r3.status = status /\ r3.next = t BY <2>4 DEF Rows
  <2> HIDE DEF r3
  <2>6. Resumed(r, t) \in Rows /\ Resumed(r, t).next = t /\ Resumed(r, t).status = status
    BY <2>1, <2>2, <2>5 DEF Rows
  <2> QED BY <2>6 DEF status
<1> QED BY <1>1, <1>2, <1>3

LEMMA EditedRow ==
    ASSUME NEW r \in Rows, r.status \notin {"absent", "deleted"},
           NEW restart \in BOOLEAN, NEW max \in 0..MaxRuns
    PROVE  /\ Edited(r, restart, max) \in Rows
           /\ Edited(r, restart, max).status \in {"active", "paused", "cancelled"}
           /\ Edited(r, restart, max).status = "active" => Edited(r, restart, max).next = "future"
           /\ Edited(r, restart, max).status # "active" => Edited(r, restart, max).next = r.next
<1> USE SchedulesAssumption
<1> DEFINE runs == IF restart THEN 0 ELSE r.runs
           status == IF r.status = "completed" \/ (restart /\ r.status = "cancelled")
                     THEN "active" ELSE r.status
           next == IF status = "active" THEN "future" ELSE r.next
<1>1. Edited(r, restart, max) = [status |-> status, next |-> next, lease |-> "none",
                                 max |-> max, runs |-> runs, fails |-> 0]
  BY DEF Edited
<1>2. /\ status \in {"active", "paused", "cancelled"} /\ runs \in 0..(MaxRuns + 1)
      /\ next \in Times /\ 0 \in 0..MaxFailures
      /\ status = "active" => next = "future"
      /\ status # "active" => next = r.next
  BY DEF Rows, Times
<1> HIDE DEF runs, status, next
<1> QED BY <1>1, <1>2 DEF Rows

(* What a command holds until it commits. *)
Holds(what, r, retimed, h) ==
    /\ held' = held \cup {h}
    /\ h.may = (what = "edit" \/ row.status \in {"active", "paused"})
    /\ h.aims = (r.next # "none") /\ h.new.lease = "none"
    /\ "status" \in h.cols <=> row.status # r.status
    /\ "status" \in h.cols => h.new.status = r.status
    /\ row.next # r.next => "next" \in h.cols
    /\ "next" \in h.cols => /\ h.new.next = r.next
                            /\ row.next # r.next \/ (retimed /\ r.next = "future")
    /\ "max" \in h.cols <=> row.max # r.max
    /\ "runs" \in h.cols <=> row.runs # r.runs

LEMMA Decided ==
    ASSUME TypeOK, NEW what, NEW r \in Rows, NEW retimed \in BOOLEAN,
           Decides(what, r, retimed)
    PROVE  \E h \in Commands : Holds(what, r, retimed, h)
<1> USE SchedulesAssumption
<1>1. PICK cols \in SUBSET Cols :
        /\ cols \ {"next"} = {c \in Cols : row[c] # r[c]} \ {"next"}
        /\ row.next # r.next => "next" \in cols
        /\ "next" \in cols => row.next # r.next \/ (retimed /\ r.next = "future")
        /\ held' = held \cup {[may  |-> what = "edit" \/ row.status \in {"active", "paused"},
                               aims |-> r.next # "none",
                               new  |-> Columns(r, cols), cols |-> cols]}
  BY DEF Decides
<1> DEFINE new == Columns(r, cols)
           h == [may |-> what = "edit" \/ row.status \in {"active", "paused"},
                 aims |-> r.next # "none", new |-> new, cols |-> cols]
<1>2. /\ new.lease = "none"
      /\ "status" \in cols => new.status = r.status
      /\ "next" \in cols => new.next = r.next
  BY DEF Columns
<1>3. new \in Rows
  <2> DEFINE a == IF "status" \in cols THEN r.status ELSE "absent"
             b == IF "next" \in cols THEN r.next ELSE "none"
             c == IF "max" \in cols THEN r.max ELSE 0
             d == IF "runs" \in cols THEN r.runs ELSE 0
             e == IF "fails" \in cols THEN r.fails ELSE 0
  <2>1. /\ a \in {"absent", "active", "paused", "completed", "cancelled", "deleted"}
        /\ b \in Times /\ c \in 0..MaxRuns /\ d \in 0..(MaxRuns + 1)
        /\ e \in 0..MaxFailures
    BY DEF Rows, Times
  <2>2. new = [status |-> a, next |-> b, lease |-> "none", max |-> c, runs |-> d, fails |-> e]
    BY DEF Columns
  <2> HIDE DEF a, b, c, d, e, new
  <2> QED BY <2>1, <2>2 DEF Rows
<1>4. /\ "status" \in cols <=> row.status # r.status
      /\ "max" \in cols <=> row.max # r.max
      /\ "runs" \in cols <=> row.runs # r.runs
  <2>1. \A c \in Cols \ {"next"} : c \in cols <=> row[c] # r[c] BY <1>1
  <2> QED BY <2>1 DEF Cols
<1> HIDE DEF new
<1>5. h \in Commands BY <1>1, <1>3 DEF Commands
<1>6. held' = held \cup {h} BY <1>1 DEF new
<1>7. /\ h.may = (what = "edit" \/ row.status \in {"active", "paused"})
      /\ h.aims = (r.next # "none") /\ h.new = new /\ h.cols = cols
  OBVIOUS
<1> HIDE DEF h
<1>8. Holds(what, r, retimed, h) BY <1>1, <1>2, <1>4, <1>6, <1>7 DEF Holds
<1> QED BY <1>5, <1>8

LEMMA WrittenRow == ASSUME row \in Rows, NEW h \in Commands PROVE Written(h) \in Rows
<1> DEFINE a == IF "status" \in h.cols THEN h.new.status ELSE row.status
           b == IF "next" \in h.cols THEN h.new.next ELSE row.next
           l == IF "lease" \in h.cols THEN h.new.lease ELSE row.lease
           c == IF "max" \in h.cols THEN h.new.max ELSE row.max
           d == IF "runs" \in h.cols THEN h.new.runs ELSE row.runs
           e == IF "fails" \in h.cols THEN h.new.fails ELSE row.fails
<1>0. h.new \in Rows BY DEF Commands
<1>1. /\ a \in {"absent", "active", "paused", "completed", "cancelled", "deleted"}
      /\ b \in Times /\ c \in 0..MaxRuns /\ d \in 0..(MaxRuns + 1)
      /\ e \in 0..MaxFailures /\ l \in {"none", "held", "stale"}
  BY <1>0 DEF Rows
<1>2. Written(h) = [status |-> a, next |-> b, lease |-> l, max |-> c, runs |-> d, fails |-> e]
  BY DEF Written
<1> HIDE DEF a, b, c, d, e, l
<1> QED BY <1>1, <1>2 DEF Rows

LEMMA CommandStep ==
    ASSUME TypeOK, Pause \/ Resume \/ Cancel \/ Edit
    PROVE  /\ UNCHANGED <<row, pc, planned, moved, owed, manual, bare, orphan>>
           /\ \E h \in Commands : /\ held' = held \cup {h} /\ Sound(h)
                                  /\ (Resume \/ Edit \/ Modest(h))
           /\ \E e \in Events : Happens(e)
           /\ Edit => Happens("edit")
           /\ Resume => Happens("resume")
<1>0. row \in Rows BY DEF TypeOK
<1>5. Edit => Happens("edit") BY DEF Edit, Decides
<1>6. Resume => Happens("resume") BY DEF Resume, Decides
<1>1. CASE Pause
  <2>1. row.status = "active" /\ Decides("halt", PauseTask(row), FALSE) BY <1>1 DEF Pause
  <2>2. \E h \in Commands : held' = held \cup {h} /\ Sound(h) /\ Modest(h)
    <3>1. PICK h \in Commands : Holds("halt", PauseTask(row), FALSE, h)
      BY <2>1, <1>0, CommandRows, Decided
    <3>2. Sound(h) /\ Modest(h)
      BY <3>1, <2>1, <1>0, CommandRows DEF Holds, Sound, Modest, Times, Rows
    <3> QED BY <3>1, <3>2 DEF Holds
  <2> QED BY <2>1, <2>2, <1>5, <1>6 DEF Decides, Events
<1>2. CASE Resume
  <2>1. PICK t \in Following(row) :
          row.status = "paused" /\ Decides("resume", Resumed(row, t), TRUE)
    BY <1>2 DEF Resume, Resumable
  <2>2. t \in Times \ {"due"} BY FollowingTimes
  <2>3. \E h \in Commands : held' = held \cup {h} /\ Sound(h)
    <3> DEFINE r == Resumed(row, t)
    <3>1. /\ r \in Rows /\ r.next = t
          /\ r.status = IF t = "none" THEN "completed" ELSE "active"
      BY <2>2, <1>0, CommandRows
    <3>2. Decides("resume", r, TRUE) BY <2>1
    <3> HIDE DEF r
    <3>3. PICK h \in Commands : Holds("resume", r, TRUE, h) BY <3>1, <3>2, Decided
    <3>4. Sound(h) BY <3>1, <3>3, <2>1, <2>2 DEF Holds, Sound
    <3> QED BY <3>3, <3>4 DEF Holds
  <2> QED BY <1>2, <2>1, <2>3, <1>5, <1>6 DEF Decides, Events
<1>3. CASE Cancel
  <2>1. row.status \in {"active", "paused"} /\ Decides("halt", CancelTask(row), FALSE)
    BY <1>3 DEF Cancel
  <2>2. \E h \in Commands : held' = held \cup {h} /\ Sound(h) /\ Modest(h)
    <3>1. PICK h \in Commands : Holds("halt", CancelTask(row), FALSE, h)
      BY <2>1, <1>0, CommandRows, Decided
    <3>2. Sound(h) /\ Modest(h)
      BY <3>1, <2>1, <1>0, CommandRows DEF Holds, Sound, Modest, Times, Rows
    <3> QED BY <3>1, <3>2 DEF Holds
  <2> QED BY <2>1, <2>2, <1>5, <1>6 DEF Decides, Events
<1>4. CASE Edit
  <2>1. PICK restart \in BOOLEAN, max \in 0..MaxRuns :
          Exists /\ Decides("edit", Edited(row, restart, max),
                            Edited(row, restart, max).status = "active")
    BY <1>4 DEF Edit
  <2> DEFINE r == Edited(row, restart, max)
             retimed == r.status = "active"
  <2>2. /\ r \in Rows /\ r.status \in {"active", "paused", "cancelled"}
        /\ r.status = "active" => r.next = "future"
        /\ r.status # "active" => r.next = row.next
    BY <2>1, <1>0, EditedRow DEF Exists
  <2>3. Decides("edit", r, retimed) /\ retimed \in BOOLEAN BY <2>1
  <2> HIDE DEF r
  <2>4. PICK h \in Commands : Holds("edit", r, retimed, h)
    BY <2>2, <2>3, Decided
  <2>5. Sound(h) BY <2>2, <2>4 DEF Holds, Sound
  <2>6. held' = held \cup {h} BY <2>4 DEF Holds
  <2> QED BY <1>4, <2>3, <2>5, <2>6, <1>5, <1>6 DEF Decides, Events
<1> QED BY <1>1, <1>2, <1>3, <1>4

LEMMA StepType ==
    ASSUME TypeOK, Next PROVE TypeOK'
<1> USE SchedulesAssumption
<1>0. row \in Rows /\ left \in [Events -> Nat] BY DEF TypeOK
<1>e. {"halt", "resume", "edit", "manual", "fault"} = Events
  BY DEF Events
<1>1. CASE Claim
  BY <1>1 DEF Claim, TypeOK, Rows, Ticks, Times
<1>2. CASE PlanNothing
  BY <1>2 DEF PlanNothing, TypeOK, Rows, Ticks, Times
<1>3. CASE Plan
  BY <1>3, AfterRunTimes, FollowingTimes DEF Plan, TypeOK, Ticks, Times
<1>4. CASE CommitRun
  BY <1>4 DEF CommitRun, Advanced, TypeOK, Rows, Ticks, Times
<1>5. CASE CommitSkip
  BY <1>5 DEF CommitSkip, Skipped, TypeOK, Rows, Ticks, Times
<1>6. CASE CommitNothing
  BY <1>6 DEF CommitNothing, TypeOK, Ticks, Times
<1>7. CASE PrepareFails
  BY <1>7, <1>e, <1>0, HappensType DEF PrepareFails, TypeOK, Ticks, Times
<1>8. CASE Record
  BY <1>8, RecordedRow DEF Record, TypeOK, Ticks
<1>9. CASE RecordFails
  BY <1>9, <1>e, <1>0, HappensType DEF RecordFails, TypeOK, Ticks
<1>10. CASE StartManual
  BY <1>10, <1>e, <1>0, HappensType DEF StartManual, TypeOK
<1>11. CASE RecordManual
  BY <1>11, RecordedRow DEF RecordManual, TypeOK
<1>12. CASE Pause \/ Resume \/ Cancel \/ Edit
  BY <1>12, <1>e, <1>0, CommandStep, HappensType DEF TypeOK
<1>13. ASSUME NEW h \in held, Lands(h) PROVE TypeOK'
  <2>1. h \in Commands BY DEF TypeOK
  <2>2. row' \in Rows BY <1>13, <2>1, <1>0, WrittenRow DEF Lands
  <2> QED BY <1>13, <2>2 DEF Lands, TypeOK
<1>16. CASE Delete
  <2>1. Gone \in Rows
    <3>1. 0 \in 0..MaxRuns /\ 0 \in 0..(MaxRuns + 1) /\ 0 \in 0..MaxFailures OBVIOUS
    <3> QED BY <3>1 DEF Gone, Rows, Times
  <2>2. row' \in Rows BY <1>16, <2>1 DEF Delete
  <2>4. moved' \in BOOLEAN BY <1>16 DEF Delete
  <2>5. owed' \in BOOLEAN BY <1>16 DEF Delete
  <2>3. left' \in [Events -> Nat] BY <1>16, <1>e, <1>0, HappensType DEF Delete
  <2> QED BY <1>16, <2>2, <2>3, <2>4, <2>5 DEF Delete, TypeOK
<1>17. CASE TimeComes
  BY <1>17 DEF TimeComes, TypeOK, Rows, Times
<1>18. CASE LeaseExpires
  BY <1>18 DEF LeaseExpires, TypeOK, Rows
<1>19. CASE Stop
  <2>1. left' \in [Events -> Nat] BY <1>19, <1>e, <1>0, HappensType DEF Stop
  <2>2. orphan' \in BOOLEAN BY <1>19 DEF Stop
  <2>4. moved' \in BOOLEAN BY <1>19 DEF Stop
  <2>5. manual' \in 0..MaxManual BY <1>19 DEF Stop
  <2>3. held' \subseteq Commands /\ pc' \in Ticks /\ planned' \in Times
    BY <1>19 DEF Stop, Ticks, Times
  <2> QED BY <1>19, <2>1, <2>2, <2>3, <2>4, <2>5 DEF Stop, TypeOK
<1>20. ASSUME NEW max \in 0..MaxRuns, Create(max) PROVE TypeOK'
  BY <1>20 DEF Create, TypeOK, Rows, Times
<1> QED
  BY <1>1, <1>2, <1>3, <1>4, <1>5, <1>6, <1>7, <1>8, <1>9, <1>10, <1>11, <1>12, <1>13,
     <1>16, <1>17, <1>18, <1>19, <1>20 DEF Next, Tick

LEMMA StepHeld ==
    ASSUME TypeOK, HeldInv, Next PROVE HeldInv'
<1>1. CASE Pause \/ Resume \/ Cancel \/ Edit
  BY <1>1, CommandStep DEF HeldInv
<1>2. ASSUME NEW h \in held, Lands(h) PROVE HeldInv'
  BY <1>2 DEF Lands, HeldInv
<1>3. CASE Stop BY <1>3 DEF Stop, HeldInv
<1>4. CASE held' = held BY <1>4 DEF HeldInv
<1> QED
  BY <1>1, <1>2, <1>3, <1>4 DEF Next, Tick, Claim, PlanNothing, Plan, CommitRun, CommitSkip,
     CommitNothing, PrepareFails, Record, RecordFails, StartManual, RecordManual, Delete,
     TimeComes, LeaseExpires, Create

-----------------------------------------------------------------------------
(* Leases, and the time an active task has *)

LEMMA StepLease ==
    ASSUME TypeOK, HeldInv, LeaseInv, Next PROVE LeaseInv'
<1> USE DEF LeaseInv, LeaseReleased, Exists
<1>0. row \in Rows BY DEF TypeOK
<1>1. CASE Claim BY <1>1, <1>0 DEF Claim, Rows
<1>2. CASE PlanNothing BY <1>2, <1>0 DEF PlanNothing, Rows
<1>3. CASE Plan BY <1>3 DEF Plan
<1>4. CASE CommitRun BY <1>4, <1>0 DEF CommitRun, Advanced, Rows
<1>5. CASE CommitSkip BY <1>5, <1>0 DEF CommitSkip, Skipped, Rows
<1>6. CASE CommitNothing BY <1>6 DEF CommitNothing
<1>7. CASE PrepareFails BY <1>7 DEF PrepareFails
<1>r. ASSUME row' \in IF Exists THEN Recorded(row) ELSE {row}
      PROVE  row'.lease = "none" /\ (row'.status = "absent" => row.status = "absent")
  <2>1. CASE Exists BY <2>1, <1>r, <1>0, RecordedRow
  <2>2. CASE ~Exists BY <2>2, <1>r
  <2> QED BY <2>1, <2>2
<1>8. CASE Record
  <2>1. row'.lease = "none" /\ pc' = "idle" BY <1>8, <1>r DEF Record
  <2> QED BY <2>1
<1>9. CASE RecordFails BY <1>9 DEF RecordFails
<1>10. CASE StartManual BY <1>10 DEF StartManual
<1>11. CASE RecordManual
  <2>1. row' \in IF Exists THEN Recorded(row) ELSE {row} BY <1>11 DEF RecordManual
  <2>2. row'.lease = "none" /\ (row'.status = "absent" => row.status = "absent")
    BY <2>1, <1>r
  <2> QED BY <1>11, <2>2 DEF RecordManual
<1>12. CASE Pause \/ Resume \/ Cancel \/ Edit
  BY <1>12, CommandStep
<1>13. ASSUME NEW h \in held, Lands(h) PROVE LeaseInv'
  <2>1. Sound(h) /\ h \in Commands BY DEF HeldInv, TypeOK
  <2>2. row'.lease \in {"none", row.lease}
    BY <1>13, <2>1 DEF Lands, Written, Sound
  <2>3. row'.status = "absent" <=> row.status = "absent"
    BY <1>13, <2>1 DEF Lands, Written, Sound
  <2>4. row'.status = "deleted" => row.status = "deleted"
    BY <1>13, <2>1 DEF Lands, Written, Sound
  <2> QED BY <1>13, <2>2, <2>3, <2>4 DEF Lands
<1>16. CASE Delete BY <1>16, <1>0 DEF Delete, Gone
<1>17. CASE TimeComes BY <1>17, <1>0 DEF TimeComes, Rows
<1>18. CASE LeaseExpires BY <1>18, <1>0 DEF LeaseExpires, Rows
<1>19. CASE Stop BY <1>19 DEF Stop
<1>20. ASSUME NEW max \in 0..MaxRuns, Create(max) PROVE LeaseInv'
  BY <1>20 DEF Create
<1> QED
  BY <1>1, <1>2, <1>3, <1>4, <1>5, <1>6, <1>7, <1>8, <1>9, <1>10, <1>11, <1>12, <1>13,
     <1>16, <1>17, <1>18, <1>19, <1>20 DEF Next, Tick


LEMMA StepActive ==
    ASSUME TypeOK, HeldInv, ActiveHasNext, Next PROVE ActiveHasNext'
<1> USE DEF ActiveHasNext
<1>0. row \in Rows BY DEF TypeOK
<1>1. CASE Claim BY <1>1, <1>0 DEF Claim, Rows
<1>2. CASE PlanNothing BY <1>2, <1>0 DEF PlanNothing, Rows
<1>3. CASE Plan BY <1>3 DEF Plan
<1>4. CASE CommitRun BY <1>4 DEF CommitRun
<1>5. CASE CommitSkip BY <1>5, <1>0 DEF CommitSkip, Skipped, Rows
<1>6. CASE CommitNothing BY <1>6 DEF CommitNothing, Exists
<1>7. CASE PrepareFails BY <1>7 DEF PrepareFails
<1>8. CASE Record BY <1>8, <1>0, RecordedRow DEF Record, Exists
<1>9. CASE RecordFails BY <1>9 DEF RecordFails
<1>10. CASE StartManual BY <1>10 DEF StartManual
<1>11. CASE RecordManual BY <1>11, <1>0, RecordedRow DEF RecordManual, Exists
<1>12. CASE Pause \/ Resume \/ Cancel \/ Edit
  BY <1>12, CommandStep
<1>13. ASSUME NEW h \in held, Lands(h) PROVE ActiveHasNext'
  <2>1. Sound(h) /\ h \in Commands BY DEF HeldInv, TypeOK
  <2>2. CASE ~Exists BY <1>13, <2>2 DEF Lands, Exists
  <2>3. CASE Exists /\ "status" \in h.cols
    BY <1>13, <2>1, <2>3 DEF Lands, Written, Sound
  <2>4. CASE Exists /\ "status" \notin h.cols
    BY <1>13, <2>1, <2>4 DEF Lands, Written, Sound
  <2> QED BY <2>2, <2>3, <2>4
<1>16. CASE Delete BY <1>16, <1>0 DEF Delete, Gone
<1>17. CASE TimeComes BY <1>17, <1>0 DEF TimeComes, Rows
<1>18. CASE LeaseExpires BY <1>18, <1>0 DEF LeaseExpires, Rows
<1>19. CASE Stop BY <1>19 DEF Stop
<1>20. ASSUME NEW max \in 0..MaxRuns, Create(max) PROVE ActiveHasNext'
  BY <1>20 DEF Create
<1> QED
  BY <1>1, <1>2, <1>3, <1>4, <1>5, <1>6, <1>7, <1>8, <1>9, <1>10, <1>11, <1>12, <1>13,
     <1>16, <1>17, <1>18, <1>19, <1>20 DEF Next, Tick


-----------------------------------------------------------------------------
(* What a start answers *)

LEMMA StepOwed ==
    ASSUME TypeOK, HeldInv, OwedInv, Next PROVE OwedInv'
<1> USE DEF OwedInv, Exists
<1>0. row \in Rows BY DEF TypeOK
<1>1. CASE Claim BY <1>1, <1>0 DEF Claim, Rows
<1>2. CASE PlanNothing BY <1>2, <1>0 DEF PlanNothing, Rows
<1>3. CASE Plan BY <1>3, AfterRunTimes, FollowingTimes DEF Plan
<1>4. CASE CommitRun BY <1>4, <1>0 DEF CommitRun, Advanced, Rows
<1>5. CASE CommitSkip BY <1>5, <1>0 DEF CommitSkip, Skipped, Rows
<1>6. CASE CommitNothing BY <1>6 DEF CommitNothing
<1>7. CASE PrepareFails BY <1>7 DEF PrepareFails
<1>8. CASE Record BY <1>8, <1>0, RecordedRow DEF Record
<1>9. CASE RecordFails BY <1>9 DEF RecordFails
<1>10. CASE StartManual BY <1>10 DEF StartManual
<1>11. CASE RecordManual BY <1>11, <1>0, RecordedRow DEF RecordManual, Pending
<1>12. CASE Pause \/ Resume \/ Cancel \/ Edit
  BY <1>12, CommandStep
<1>13. ASSUME NEW h \in held, Lands(h) PROVE OwedInv'
  <2>1. Sound(h) /\ h \in Commands BY DEF HeldInv, TypeOK
  <2>2. CASE ~Exists BY <1>13, <2>2 DEF Lands, Pending
  <2>3. CASE Exists
    <3>1. row'.next = "due" => row.next = "due" /\ "next" \notin h.cols
      BY <1>13, <2>1, <2>3 DEF Lands, Written, Sound
    <3>2. Exists' BY <1>13, <2>1, <2>3 DEF Lands, Written, Sound
    <3> QED BY <1>13, <3>1, <3>2 DEF Lands, Pending
  <2> QED BY <2>2, <2>3
<1>16. CASE Delete BY <1>16, <1>0 DEF Delete, Gone, Pending
<1>17. CASE TimeComes BY <1>17, <1>0 DEF TimeComes, Rows
<1>18. CASE LeaseExpires BY <1>18, <1>0 DEF LeaseExpires, Rows
<1>19. CASE Stop BY <1>19 DEF Stop
<1>20. ASSUME NEW max \in 0..MaxRuns, Create(max), ~Exists PROVE OwedInv'
  BY <1>20 DEF Create
<1>21. ASSUME NEW max \in 0..MaxRuns, Create(max) PROVE OwedInv'
  BY <1>21, <1>20 DEF Create, Exists
<1> QED
  BY <1>1, <1>2, <1>3, <1>4, <1>5, <1>6, <1>7, <1>8, <1>9, <1>10, <1>11, <1>12, <1>13,
     <1>16, <1>17, <1>18, <1>19, <1>21 DEF Next, Tick

-----------------------------------------------------------------------------
(* The number of runs *)

LEMMA FreshKept ==
    ASSUME TypeOK, Next, \A e \in Events : left[e] <= Budget[e]
    PROVE  /\ \A e \in Events : left'[e] <= Budget[e]
           /\ Fresh' => /\ Fresh
                        /\ ~StartManual /\ ~Resume /\ ~Edit
<1> USE SchedulesAssumption
<1>0. left \in [Events -> Nat] BY DEF TypeOK
<1>e. {"halt", "resume", "edit", "manual", "fault"} = Events
  BY DEF Events
<1>1. ASSUME NEW e \in Events, Happens(e)
      PROVE  /\ \A d \in Events : left'[d] <= left[d]
             /\ left'[e] < left[e]
  BY <1>1, <1>0 DEF Happens
<1>7. Pause \/ Resume \/ Cancel \/ Edit => \E e \in Events : Happens(e) BY CommandStep
<1>2. left' = left \/ \E e \in Events : Happens(e)
  BY <1>e, <1>7 DEF Next, Tick, Claim, PlanNothing, Plan, CommitRun, CommitSkip, CommitNothing,
     PrepareFails, Record, RecordFails, StartManual, RecordManual, Lands, Delete, TimeComes,
     LeaseExpires, Stop, Create
<1>3. \A d \in Events : left'[d] <= left[d] /\ left'[d] \in Nat
  <2>1. CASE left' = left BY <2>1, <1>0
  <2>2. ASSUME NEW e \in Events, Happens(e) PROVE left' \in [Events -> Nat]
    BY <2>2, <1>0 DEF Happens
  <2> QED BY <1>1, <1>2, <2>1, <2>2, <1>0
<1>4. \A d \in Events : left'[d] <= Budget[d] BY <1>3, <1>0
<1>5. ASSUME Fresh' PROVE Fresh
  BY <1>5, <1>3, <1>0, <1>e DEF Fresh
<1>6. ASSUME Fresh', NEW e \in {"edit", "resume", "manual"}, Happens(e) PROVE FALSE
  <2>1. left'[e] < left[e] BY <1>6, <1>1, <1>e
  <2>2. left'[e] = Budget[e] BY <1>6 DEF Fresh
  <2>3. left[e] = Budget[e] BY <1>6, <1>5 DEF Fresh
  <2> QED BY <2>1, <2>2, <2>3, <1>0, <1>e
<1> QED BY <1>4, <1>5, <1>6, CommandStep DEF StartManual

(* What CountInv says of a row, a tick and a plan. *)
Fits(r, p, t) ==
    r.max # 0 =>
        /\ r.runs <= r.max
        /\ r.next # "none" => r.runs < r.max
        /\ p # "idle" => r.runs < r.max
        /\ p = "running" /\ r.next # "none" => r.runs + 2 <= r.max
        /\ p = "run" /\ t # "none" => r.runs + 2 <= r.max

LEMMA RecordedFits ==
    ASSUME NEW r \in Rows, Fits(r, "running", planned), NEW s \in Recorded(r)
    PROVE  Fits(s, "idle", planned)
<1> USE SchedulesAssumption
<1>1. /\ s \in Rows /\ s.max = r.max
      /\ s.next # "none" /\ r.next = "none" => s.runs = r.runs
      /\ s.runs \in {r.runs, Count(r.runs)}
  BY RecordedRow
<1>2. r.runs \in Nat /\ r.max \in 0..MaxRuns BY DEF Rows
<1>3. r.max # 0 => Count(r.runs) = r.runs + 1 BY <1>2 DEF Fits, Count
<1> QED BY <1>1, <1>2, <1>3 DEF Fits

LEMMA StepFits ==
    ASSUME TypeOK, LeaseInv, OwedInv, Next, Fits(row, pc, planned), manual = 0, HeldFresh,
           ~StartManual, ~Resume, ~Edit
    PROVE  Fits(row', pc', planned') /\ manual' = 0 /\ HeldFresh'
<1> USE SchedulesAssumption DEF Fits, HeldFresh
<1>0. row \in Rows BY DEF TypeOK
<1>m. row.runs \in Nat /\ row.max \in 0..MaxRuns BY <1>0 DEF Rows
<1>1. CASE Claim BY <1>1, <1>0 DEF Claim, Rows
<1>2. CASE PlanNothing BY <1>2, <1>0 DEF PlanNothing, Rows
<1>3. CASE Plan
  <2>1. planned' # "none" /\ pc' = "run" /\ row.max # 0 => row.runs + 2 <= row.max
    BY <1>3, <1>m DEF Plan, AfterRun, LeftAtMost
  <2> QED BY <1>3, <2>1 DEF Plan
<1>4. CASE CommitRun BY <1>4, <1>0 DEF CommitRun, Advanced, Rows
<1>5. CASE CommitSkip BY <1>5, <1>0 DEF CommitSkip, Skipped, Rows
<1>6. CASE CommitNothing BY <1>6 DEF CommitNothing
<1>7. CASE PrepareFails BY <1>7 DEF PrepareFails
<1>8. CASE Record
  <2>1. CASE Exists
    BY <1>8, <2>1, <1>0, RecordedFits DEF Record
  <2>2. CASE ~Exists BY <1>8, <2>2 DEF Record
  <2> QED BY <2>1, <2>2
<1>9. CASE RecordFails BY <1>9 DEF RecordFails
<1>11. CASE RecordManual BY <1>11 DEF RecordManual
<1>12. CASE Pause \/ Cancel
  BY <1>12, CommandStep
<1>14. ASSUME NEW h \in held, Lands(h) PROVE Fits(row', pc', planned') /\ manual' = 0 /\ HeldFresh'
  <2>1. Modest(h) /\ h \in Commands BY DEF TypeOK
  <2>2. row'.max = row.max /\ row'.runs = row.runs /\ row'.next \in {"none", row.next}
    BY <1>14, <2>1 DEF Lands, Written, Modest
  <2> QED BY <1>14, <2>2 DEF Lands
<1>16. CASE Delete BY <1>16 DEF Delete, Gone
<1>17. CASE TimeComes BY <1>17, <1>0 DEF TimeComes, Rows
<1>18. CASE LeaseExpires BY <1>18, <1>0 DEF LeaseExpires, Rows
<1>19. CASE Stop BY <1>19 DEF Stop
<1>20. ASSUME NEW max \in 0..MaxRuns, Create(max)
      PROVE  Fits(row', pc', planned') /\ manual' = 0 /\ HeldFresh'
  BY <1>20 DEF Create, LeaseInv
<1> QED
  BY <1>1, <1>2, <1>3, <1>4, <1>5, <1>6, <1>7, <1>8, <1>9, <1>11, <1>12,
     <1>14, <1>16, <1>17, <1>18, <1>19, <1>20 DEF Next, Tick

LEMMA StepCount ==
    ASSUME TypeOK, LeaseInv, OwedInv, CountInv, Next PROVE CountInv'
<1>1. \A e \in Events : left'[e] <= Budget[e] BY FreshKept DEF CountInv
<1>2. ASSUME Fresh' PROVE Fits(row', pc', planned') /\ manual' = 0 /\ HeldFresh'
  <2>1. Fresh /\ ~StartManual /\ ~Resume /\ ~Edit BY <1>2, FreshKept DEF CountInv
  <2>2. Fits(row, pc, planned) /\ manual = 0 /\ HeldFresh BY <2>1 DEF CountInv, Fits
  <2> QED BY <2>1, <2>2, StepFits
<1> QED BY <1>1, <1>2 DEF CountInv, Fits

-----------------------------------------------------------------------------
(* Theorems *)

LEMMA InitInv == Init => IInv
<1> SUFFICES ASSUME Init PROVE IInv OBVIOUS
<1>1. TypeOK BY InitType
<1>2. LeaseInv /\ ActiveHasNext /\ OwedInv
  BY DEF Init, LeaseInv, LeaseReleased, Exists, ActiveHasNext, OwedInv
<1>3. CountInv BY SchedulesAssumption DEF Init, CountInv, HeldFresh
<1>4. HeldInv BY DEF Init, HeldInv
<1> QED BY <1>1, <1>2, <1>3, <1>4 DEF IInv

LEMMA StutterInv == ASSUME IInv, UNCHANGED vars PROVE IInv'
BY DEF vars, IInv, TypeOK, LeaseInv, LeaseReleased, Exists, ActiveHasNext, OwedInv, CountInv, Fresh,
   HeldInv, HeldFresh

(* The invariant the others follow from holds in every reachable state. *)
THEOREM Inductive == Spec => []IInv
<1>1. Init => IInv BY InitInv
<1>2. IInv /\ [Next]_vars => IInv'
  BY StepType, StepHeld, StepLease, StepActive, StepOwed, StepCount, StutterInv DEF IInv
<1> QED BY <1>1, <1>2, PTL DEF Spec

(* Every variable keeps its type. *)
THEOREM TypeCorrect == Spec => []TypeOK
BY Inductive, PTL DEF IInv

(* A claim never leaves its lease behind, but for a stop or a database error. *)
THEOREM LeasesGivenUp == Spec => []LeaseReleased
BY Inductive, PTL DEF IInv, LeaseInv

(* An active task has a time to come or a run under way, but for a stop or a *)
(* database error.                                                           *)
THEOREM ActiveRunsAgain == Spec => []ActiveHasNext
BY Inductive, PTL DEF IInv

(* The ticks alone keep to max_runs, whatever fails, stops or is paused. *)
THEOREM RunsLimited == Spec => []RunLimit
<1>1. IInv => RunLimit
  BY DEF IInv, CountInv, Fresh, RunLimit
<1> QED BY <1>1, Inductive, PTL

(* Every run a tick starts answers a time that came, once. *)
THEOREM StartsAnswer == Spec => StartsAreOwed
<1>1. IInv /\ [Next]_vars => [pc = "run" /\ pc' = "running" => owed \/ moved]_vars
  BY DEF IInv, OwedInv
<1> QED BY <1>1, Inductive, PTL DEF Spec, StartsAreOwed

(* Only an edit, the late commit of a command that had read the task while it *)
(* was open, or a run that goes wrong after the end brings an ended task back. *)
THEOREM EndedStays == Spec => EndedStaysEnded
<1> DEFINE A == row.status \in {"completed", "cancelled"} /\ row'.status \in {"active", "paused"}
                 => \/ \E h \in held \ held' : h.may
                    \/ /\ row'.status = "paused"
                       /\ (pc = "running" /\ pc' = "idle") \/ manual' < manual
<1>1. ASSUME TypeOK, HeldInv, Next PROVE A
  <2>0. row \in Rows /\ left \in [Events -> Nat] BY <1>1 DEF TypeOK
  <2>1. CASE row' = row BY <2>1
  <2>2. CASE Claim \/ PlanNothing \/ CommitRun \/ TimeComes \/ LeaseExpires
    BY <2>2, <2>0 DEF Claim, PlanNothing, CommitRun, Advanced, TimeComes, LeaseExpires, Rows
  <2>9. CASE CommitSkip BY <2>9, <2>0 DEF CommitSkip, Skipped, Rows
  <2>10. CASE Delete BY <2>10 DEF Delete, Gone
  <2>3. CASE Record
    BY <2>3, <2>0, RecordedRow DEF Record
  <2>4. CASE RecordManual
    <3>1. manual' < manual BY <1>1, <2>4, SchedulesAssumption DEF RecordManual, TypeOK
    <3> QED BY <3>1, <2>4, <2>0, RecordedRow DEF RecordManual
  <2>5. CASE \E h \in held : Lands(h)
    BY <2>5, <1>1 DEF Lands, HeldInv, Sound
  <2>8. CASE Pause \/ Resume \/ Cancel \/ Edit
    BY <2>8, <2>1, <1>1, CommandStep
  <2>6. CASE \E max \in 0..MaxRuns : Create(max)
    BY <2>6 DEF Create
  <2>7. CASE Plan \/ CommitNothing \/ PrepareFails \/ RecordFails \/ StartManual \/ Stop
    BY <2>7, <2>1 DEF Plan, CommitNothing, PrepareFails, RecordFails, StartManual, Stop
  <2> QED BY <1>1, <2>2, <2>3, <2>4, <2>5, <2>6, <2>7, <2>8, <2>9, <2>10
      DEF Next, Tick
<1>2. IInv /\ [Next]_vars => [A]_vars BY <1>1 DEF IInv
<1> QED BY <1>2, Inductive, PTL DEF Spec, EndedStaysEnded

-----------------------------------------------------------------------------
(* What leaves an active task with nothing to come. *)

Stranded == row.status = "active" /\ row.next = "none"

(* A run is neither stopped nor left unrecorded: it ends by Record, the one *)
(* step of a running tick that spends nothing.                              *)
RunsEnd == pc = "running" /\ pc' = "idle" => left' = left

(* Only a run under way takes the last time from an active task. *)
LEMMA StrandStep ==
    ASSUME TypeOK, HeldInv, Next, Stranded => pc = "running" \/ bare, RunsEnd
    PROVE  Stranded' => pc' = "running" \/ bare'
<1> USE DEF Stranded, RunsEnd
<1>0. row \in Rows /\ left \in [Events -> Nat] BY DEF TypeOK
<1>1. CASE Claim \/ PlanNothing \/ Plan
  BY <1>1, <1>0 DEF Claim, PlanNothing, Plan, Rows
<1>2. CASE CommitRun BY <1>2 DEF CommitRun
<1>3. CASE CommitSkip BY <1>3, <1>0 DEF CommitSkip, Skipped, Rows
<1>4. CASE CommitNothing \/ PrepareFails BY <1>4 DEF CommitNothing, PrepareFails, Exists, Pending
<1>5. CASE Record BY <1>5, <1>0, RecordedRow DEF Record, Exists
<1>6. CASE RecordFails \/ Stop
  <2>1. pc' = "idle" /\ row' = row /\ bare' = bare /\ \E e \in Events : Happens(e)
    BY <1>6 DEF RecordFails, Stop, Events
  <2>2. left' # left BY <2>1, <1>0 DEF Happens
  <2> QED BY <2>1, <2>2
<1>7. CASE RecordManual BY <1>7, <1>0, RecordedRow DEF RecordManual, Exists
<1>8. CASE StartManual BY <1>8 DEF StartManual
<1>9. CASE Delete \/ TimeComes
  BY <1>9, <1>0 DEF Delete, Gone, TimeComes, Rows
<1>10. CASE LeaseExpires BY <1>10, <1>0 DEF LeaseExpires, Rows
<1>11. CASE Pause \/ Resume \/ Cancel \/ Edit
  BY <1>11, CommandStep
<1>12. ASSUME NEW h \in held, Lands(h) PROVE Stranded' => pc' = "running" \/ bare'
  <2>1. Sound(h) /\ h \in Commands BY DEF HeldInv, TypeOK
  <2>2. CASE ~Exists BY <1>12, <2>2 DEF Lands, Exists
  <2>3. CASE Exists /\ "status" \in h.cols
    BY <1>12, <2>1, <2>3 DEF Lands, Written, Sound
  <2>4. CASE Exists /\ "status" \notin h.cols
    BY <1>12, <2>1, <2>4 DEF Lands, Written, Sound
  <2> QED BY <2>2, <2>3, <2>4
<1>13. ASSUME NEW max \in 0..MaxRuns, Create(max) PROVE Stranded' => pc' = "running" \/ bare'
  BY <1>13 DEF Create
<1> QED
  BY <1>1, <1>2, <1>3, <1>4, <1>5, <1>6, <1>7, <1>8, <1>9, <1>10, <1>11, <1>12, <1>13
     DEF Next, Tick

(* A task that is listed as active and never runs again is what a stop or a *)
(* database error leaves that falls between the commit of next_run_at for   *)
(* the last run and _record, or what the late commit of a resume leaves that *)
(* finds the time it had read gone; at any other place they leave it a time. *)
THEOREM OnlyALostRunStrands == Spec /\ [][RunsEnd]_vars => [](Stranded => pc = "running" \/ bare)
<1> DEFINE I == Stranded => pc = "running" \/ bare
<1>1. Init => I BY DEF Init, Stranded
<1>2. IInv /\ I /\ [Next]_vars /\ [RunsEnd]_vars => I'
  <2>1. UNCHANGED vars /\ I => I' BY DEF vars, Stranded
  <2> QED BY <2>1, StrandStep DEF IInv
<1> QED BY <1>1, <1>2, Inductive, PTL DEF Spec
=============================================================================
