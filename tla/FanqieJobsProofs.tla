---------------------------- MODULE FanqieJobsProofs ----------------------------
(***************************************************************************)
(* Theorems about FanqieJobs for every number of jobs, chapters, commands  *)
(* in flight and outside events, and every size of the queue.              *)
(***************************************************************************)
EXTENDS FanqieJobs, FiniteSetTheorems, TLAPS

Resting == {"get", "fill", "put", "dead"}
AtChapter == {"check", "fetch", "mark_ok", "mark_unavailable", "mark_outage", "mark_error"}

(* Where the worker is in a job it has one, and where it is in a chapter   *)
(* that chapter is one of its snapshot; a handler under way has a job.     *)
Pointed ==
    /\ wpc \notin Resting => wjob \in JobIds
    /\ wpc = "loop" => wpos \in 1..(wlen + 1)
    /\ wpc \in AtChapter => wpos \in 1..wlen
    /\ \A c \in Clients : cpc[c] # "idle" => cjob[c] \in JobIds

TypeInv == TypeOK /\ Pointed

-----------------------------------------------------------------------------
(* The steps of the worker keep the types. *)

LEMMA ChaptersBounded ==
    ASSUME NEW j \in JobIds
    PROVE  Cardinality(Chapters(j)) \in 0..MaxChapters
  <1>1. IsFiniteSet(Positions) /\ Cardinality(Positions) = MaxChapters
    BY FS_Interval, FanqieAssumption DEF Positions
  <1>2. Chapters(j) \subseteq Positions
    BY DEF Chapters
  <1>3. /\ IsFiniteSet(Chapters(j))
        /\ Cardinality(Chapters(j)) \in Nat
        /\ Cardinality(Chapters(j)) <= Cardinality(Positions)
    BY <1>1, <1>2, FS_Subset, FS_CardinalityType
  <1> QED
    BY <1>1, <1>3, FanqieAssumption

LEMMA InitTypes == Init => TypeInv
  BY FanqieAssumption DEF Init, Fresh, TypeInv, TypeOK, Pointed, JobIds, Positions, JobStatus, Active,
     ChapterStatus, SendStatus, Files, WorkerPc, ClientPc, Resting, AtChapter, Nothing, Seen

LEMMA WorkerTypes ==
    ASSUME TypeInv, WorkerStep
    PROVE  TypeInv'
  <1> USE FanqieAssumption
      DEF TypeInv, TypeOK, Pointed, rows, disk, waiting, worker, clients, world,
          WorkerGoes, SetStatus, WorkerPc, JobStatus, Active, Resting, AtChapter
  <1>1. CASE WGet
    BY <1>1 DEF WGet
  <1>2. CASE WStart
    <2>1. wjob \in JobIds
      BY <1>2 DEF WStart
    <2>2. status' \in [JobIds -> JobStatus]
      <3>1. status' = status \/ status' = [status EXCEPT ![wjob] = "cancelled"]
        BY <1>2 DEF WStart
      <3> QED
        BY <2>1, <3>1
    <2>3. /\ wpc' \in WorkerPc /\ wjob' \in JobIds \cup {0} /\ wpos' \in 0..(MaxChapters + 1)
          /\ wfill' = wfill
      BY <1>2, <2>1 DEF WStart
    <2>4. wlen' \in 0..MaxChapters
      BY <1>2, <2>1, ChaptersBounded DEF WStart
    <2>5. Pointed'
      BY <1>2, <2>1 DEF WStart
    <2> QED
      BY <1>2, <2>2, <2>3, <2>4, <2>5 DEF WStart
  <1>3. CASE WBegin
    BY <1>3 DEF WBegin
  <1>4. CASE WLoop
    BY <1>4 DEF WLoop
  <1>5. CASE WSetCancel
    BY <1>5 DEF WSetCancel
  <1>6. CASE WCheck
    <2>1. TypeOK'
      <3>1. status' \in [JobIds -> JobStatus]
        BY <1>6 DEF WCheck
      <3>2. wpc' \in WorkerPc /\ wjob' \in JobIds \cup {0} /\ wlen' \in 0..MaxChapters
        BY <1>6 DEF WCheck
      <3>3. wpos' \in 0..(MaxChapters + 1) /\ wfill' = wfill
        BY <1>6 DEF WCheck
      <3> QED
        BY <1>6, <3>1, <3>2, <3>3 DEF WCheck
    <2>2. Pointed'
      BY <1>6 DEF WCheck
    <2> QED
      BY <2>1, <2>2
  <1>7. CASE WFetch
    <2>1. TypeOK'
      BY <1>7 DEF WFetch, Files, Positions
    <2>2. Pointed'
      BY <1>7 DEF WFetch, Files, Positions
    <2> QED
      BY <2>1, <2>2
  <1>8. CASE WMark
    <2>1. TypeOK'
      <3>1. chapter' \in [JobIds -> [Positions -> ChapterStatus]]
        <4>1. wjob \in JobIds /\ wpos \in Positions
          BY <1>8 DEF WMark, Positions
        <4>2. PICK st \in ChapterStatus, next \in {"loop", "jobfail"} : Mark(st, next)
          BY <1>8 DEF WMark, ChapterStatus
        <4>3. [chapter EXCEPT ![wjob][wpos] = st] \in [JobIds -> [Positions -> ChapterStatus]]
          BY <4>1, <4>2
        <4> QED
          BY <4>2, <4>3 DEF Mark
      <3>2. wpc' \in WorkerPc /\ wpos' \in 0..(MaxChapters + 1)
        BY <1>8 DEF WMark, Mark
      <3> QED
        BY <1>8, <3>1, <3>2 DEF WMark, Mark
    <2>2. Pointed'
      BY <1>8 DEF WMark, Mark, ChapterStatus, Positions
    <2> QED
      BY <2>1, <2>2
  <1>9. CASE WJobFail
    <2>1. TypeOK'
      BY <1>9 DEF WJobFail
    <2>2. Pointed'
      BY <1>9 DEF WJobFail
    <2> QED
      BY <2>1, <2>2
  <1>10. CASE WNotify
    <2>1. TypeOK'
      BY <1>10 DEF WNotify
    <2>2. Pointed'
      BY <1>10 DEF WNotify
    <2> QED
      BY <2>1, <2>2
  <1>11. CASE WFinal
    <2>1. TypeOK'
      BY <1>11 DEF WFinal
    <2>2. Pointed'
      BY <1>11 DEF WFinal
    <2> QED
      BY <2>1, <2>2
  <1>12. CASE WMerge
    <2>1. TypeOK'
      BY <1>12 DEF WMerge, Files
    <2>2. Pointed'
      BY <1>12 DEF WMerge, Files
    <2> QED
      BY <2>1, <2>2
  <1>13. CASE WComplete
    <2>1. TypeOK'
      <3>1. status' \in [JobIds -> JobStatus] /\ output' \in [JobIds -> BOOLEAN]
        BY <1>13 DEF WComplete
      <3>2. sendst' \in [JobIds -> SendStatus]
        BY <1>13 DEF WComplete, SendStatus
      <3>3. /\ wpc' \in WorkerPc /\ wjob' \in JobIds \cup {0}
            /\ wlen' \in 0..MaxChapters /\ wpos' \in 0..(MaxChapters + 1) /\ wfill' = wfill
        BY <1>13 DEF WComplete
      <3> QED
        BY <1>13, <3>1, <3>2, <3>3 DEF WComplete
    <2>2. Pointed'
      BY <1>13 DEF WComplete, SendStatus
    <2> QED
      BY <2>1, <2>2
  <1>14. CASE WAllowed
    <2>1. TypeOK'
      BY <1>14 DEF WAllowed
    <2>2. Pointed'
      BY <1>14 DEF WAllowed
    <2> QED
      BY <2>1, <2>2
  <1>15. CASE WSend
    <2>1. TypeOK'
      BY <1>15 DEF WSend
    <2>2. Pointed'
      BY <1>15 DEF WSend
    <2> QED
      BY <2>1, <2>2
  <1>16. CASE WSent
    <2>1. TypeOK'
      BY <1>16 DEF WSent, SetSend, SendStatus
    <2>2. Pointed'
      BY <1>16 DEF WSent, SetSend, SendStatus
    <2> QED
      BY <2>1, <2>2
  <1>17. CASE WExcept
    <2>1. TypeOK'
      BY <1>17 DEF WExcept
    <2>2. Pointed'
      BY <1>17 DEF WExcept
    <2> QED
      BY <2>1, <2>2
  <1>18. CASE WFill
    <2>1. TypeOK'
      BY <1>18 DEF WFill, WaitingIds
    <2>2. Pointed'
      BY <1>18 DEF WFill, WaitingIds
    <2> QED
      BY <2>1, <2>2
  <1>19. CASE WPut
    <2>1. TypeOK'
      <3>1. queue' \in Seq(JobIds) /\ queuedIds' \subseteq JobIds /\ wfill' \subseteq JobIds
        <4>1. PICK j \in wfill : /\ wfill' = wfill \ {j}
                                 /\ IF j \in queuedIds THEN UNCHANGED waiting
                                    ELSE queue' = Append(queue, j) /\ queuedIds' = queuedIds \cup {j}
          BY <1>19 DEF WPut
        <4>2. Append(queue, j) \in Seq(JobIds)
          OBVIOUS
        <4> QED
          BY <4>1, <4>2
      <3> QED
        BY <1>19, <3>1 DEF WPut
    <2>2. Pointed'
      BY <1>19 DEF WPut
    <2> QED
      BY <2>1, <2>2
  <1>20. CASE WPutEnd
    <2>1. TypeOK'
      BY <1>20 DEF WPutEnd
    <2>2. Pointed'
      BY <1>20 DEF WPutEnd
    <2> QED
      BY <2>1, <2>2
  <1> QED
    BY <1>1, <1>2, <1>3, <1>4, <1>5, <1>6, <1>7, <1>8, <1>9, <1>10, <1>11, <1>12,
       <1>13, <1>14, <1>15, <1>16, <1>17, <1>18, <1>19, <1>20
       DEF WorkerStep

(* So do those of the commands. *)

HandlersTyped ==
    /\ cpc \in [Clients -> ClientPc]
    /\ cjob \in [Clients -> JobIds \cup {0}]
    /\ cseen \in [Clients -> Seen]
    /\ cfiles \in [Clients -> SUBSET Files]
    /\ \A c \in Clients : cpc[c] # "idle" => cjob[c] \in JobIds

LEMMA HoldTypes ==
    ASSUME TypeInv, NEW c \in Clients, NEW pc \in ClientPc, NEW j \in JobIds,
           NEW seen \in Seen, ClientHolds(c, pc, j, seen)
    PROVE  HandlersTyped'
  BY DEF TypeInv, TypeOK, Pointed, ClientHolds, HandlersTyped

LEMMA GoTypes ==
    ASSUME TypeInv, NEW c \in Clients, NEW pc \in ClientPc, NEW j \in JobIds,
           ClientGoes(c, pc, j)
    PROVE  HandlersTyped'
  <1>1. Nothing \in Seen
    BY DEF Nothing, Seen, JobStatus, SendStatus
  <1> QED
    BY <1>1, HoldTypes DEF ClientGoes

LEMMA ReadTypes ==
    ASSUME TypeInv, NEW c \in Clients, NEW pc \in ClientPc, NEW j \in JobIds,
           Reads(c, pc, j)
    PROVE  HandlersTyped'
  <1> DEFINE seen == [status |-> status[j], cancel |-> cancel[j], output |-> output[j],
                      sendst |-> sendst[j], reset |-> {}]
  <1>1. /\ status[j] \in JobStatus /\ cancel[j] \in BOOLEAN /\ output[j] \in BOOLEAN
        /\ sendst[j] \in SendStatus
    BY DEF TypeInv, TypeOK
  <1>2. seen \in Seen
    BY <1>1 DEF Seen
  <1>3. ClientHolds(c, pc, j, seen)
    BY DEF Reads
  <1> QED
    BY <1>2, <1>3, HoldTypes

LEMMA ClientTypes ==
    ASSUME TypeInv, NEW c \in Clients, ClientStep(c)
    PROVE  TypeInv'
  <1> USE FanqieAssumption
      DEF TypeInv, TypeOK, Pointed, rows, disk, waiting, worker, clients, world,
          HandlersTyped, SetStatus, ClientPc, JobStatus, Active, Resting, AtChapter
  <1>1. CASE EnqueueStep(c)
    <2>0. cjob[c] \in JobIds
      BY <1>1 DEF EnqueueStep
    <2>1. queue' \in Seq(JobIds) /\ queuedIds' \subseteq JobIds
      <3>1. Append(queue, cjob[c]) \in Seq(JobIds)
        BY <2>0
      <3>2. \/ UNCHANGED <<queue, queuedIds>>
            \/ queue' = Append(queue, cjob[c]) /\ queuedIds' = queuedIds \cup {cjob[c]}
        BY <1>1 DEF EnqueueStep, Enqueue
      <3> QED
        BY <2>0, <3>1, <3>2
    <2>2. /\ wpc' \in WorkerPc /\ wjob' \in JobIds \cup {0} /\ wlen' \in 0..MaxChapters
          /\ wpos' \in 0..(MaxChapters + 1) /\ wfill' = wfill
          /\ wpc' = "get" \/ UNCHANGED <<wpc, wjob, wlen, wpos>>
      BY <1>1 DEF EnqueueStep, Enqueue, EnsureWorker, WorkerGoes, WorkerPc
    <2>3. HandlersTyped'
      BY <1>1, <2>0, GoTypes DEF EnqueueStep
    <2>4. TypeOK'
      BY <1>1, <2>1, <2>2, <2>3 DEF EnqueueStep
    <2> QED
      BY <2>2, <2>3, <2>4
  <1>2. CASE Reject(c)
    <2>1. HandlersTyped'
      BY <1>2, GoTypes DEF Reject
    <2> QED
      BY <1>2, <2>1 DEF Reject
  <1>3. CASE CancelLands(c)
    <2>1. HandlersTyped'
      BY <1>3, GoTypes DEF CancelLands
    <2>2. cjob[c] \in JobIds
      BY <1>3 DEF CancelLands
    <2>3. status' \in [JobIds -> JobStatus]
      BY <1>3, <2>2 DEF CancelLands
    <2>4. cancel' \in [JobIds -> BOOLEAN]
      BY <1>3, <2>2 DEF CancelLands, Written
    <2> QED
      BY <1>3, <2>1, <2>3, <2>4 DEF CancelLands
  <1>4. CASE RetryReads(c)
    <2>1. cjob[c] \in JobIds /\ cseen[c] \in Seen
      BY <1>4 DEF RetryReads
    <2>2. [cseen[c] EXCEPT !.reset =
              {p \in Positions : ~Keeps(cjob[c], p, cseen[c].status)
                                 /\ chapter[cjob[c]][p] # "pending"}] \in Seen
      BY <2>1 DEF Seen
    <2>3. HandlersTyped'
      BY <1>4, <2>1, <2>2, GoTypes, HoldTypes DEF RetryReads
    <2> QED
      BY <1>4, <2>3 DEF RetryReads
  <1>5. CASE RetryLands(c)
    <2>1. HandlersTyped'
      BY <1>5, GoTypes DEF RetryLands
    <2>2. cjob[c] \in JobIds /\ UNCHANGED <<owner, group, disk, waiting, worker, world>>
      BY <1>5 DEF RetryLands
    <2>3. CASE UNCHANGED rows
      BY <2>1, <2>2, <2>3
    <2>4. CASE ~UNCHANGED rows
      <3>1. /\ status' = [status EXCEPT ![cjob[c]] = "queued"]
            /\ cancel' = Written(cancel, cjob[c], cseen[c].cancel, FALSE)
            /\ output' = Written(output, cjob[c], cseen[c].output, FALSE)
            /\ sendst' = Written(sendst, cjob[c], cseen[c].sendst, "pending")
            /\ chapter' = [chapter EXCEPT ![cjob[c]] =
                 [p \in Positions |-> IF p \in cseen[c].reset THEN "pending" ELSE @[p]]]
        BY <1>5, <2>4 DEF RetryLands
      <3>2. /\ status' \in [JobIds -> JobStatus] /\ cancel' \in [JobIds -> BOOLEAN]
            /\ output' \in [JobIds -> BOOLEAN] /\ sendst' \in [JobIds -> SendStatus]
        BY <2>2, <3>1 DEF Written, SendStatus
      <3>3. chapter' \in [JobIds -> [Positions -> ChapterStatus]]
        BY <2>2, <3>1 DEF ChapterStatus
      <3> QED
        BY <2>1, <2>2, <3>2, <3>3
    <2> QED
      BY <2>3, <2>4
  <1>6. CASE DeliverChecks(c)
    <2>1. HandlersTyped'
      BY <1>6, GoTypes, HoldTypes DEF DeliverChecks
    <2> QED
      BY <1>6, <2>1 DEF DeliverChecks
  <1>7. CASE DeliverExpires(c)
    <2>1. HandlersTyped'
      BY <1>7, GoTypes DEF DeliverExpires
    <2>2. sendst' \in [JobIds -> SendStatus]
      BY <1>7 DEF DeliverExpires, Written, SendStatus
    <2>3. status' \in [JobIds -> JobStatus]
      BY <1>7 DEF DeliverExpires
    <2> QED
      BY <1>7, <2>1, <2>2, <2>3 DEF DeliverExpires
  <1>8. CASE Upload(c)
    <2>1. HandlersTyped'
      BY <1>8, GoTypes DEF Upload
    <2> QED
      BY <1>8, <2>1 DEF Upload
  <1>9. CASE Uploaded(c)
    <2>1. HandlersTyped'
      BY <1>9, GoTypes DEF Uploaded
    <2> QED
      BY <1>9, <2>1 DEF Uploaded, SetSend, SendStatus
  <1>10. CASE Unlink(c)
    BY <1>10 DEF Unlink, RemoveFiles
  <1> QED
    BY <1>1, <1>2, <1>3, <1>4, <1>5, <1>6, <1>7, <1>8, <1>9, <1>10 DEF ClientStep

LEMMA SpendTypes ==
    ASSUME TypeOK, NEW k \in Kinds, Spend(k)
    PROVE  left' \in [Kinds -> Nat]
  BY DEF TypeOK, Spend

LEMMA CommandTypes ==
    ASSUME TypeInv, Commands
    PROVE  TypeInv'
  <1> USE FanqieAssumption
      DEF TypeInv, TypeOK, Pointed, rows, disk, waiting, worker, clients, world,
          HandlersTyped, SetStatus, ClientPc, JobStatus, Active, Resting, AtChapter, SendStatus
  <1>1. ASSUME NEW c \in Clients, NEW u \in Users, NEW g \in Groups \cup {NoGroup},
               NEW n \in Positions, Submit(c, u, g, n)
        PROVE  TypeInv'
    <2>1. PICK j \in JobIds :
            /\ status'  = [status EXCEPT ![j] = "queued"]
            /\ cancel'  = [cancel EXCEPT ![j] = FALSE]
            /\ owner'   = [owner EXCEPT ![j] = u]
            /\ group'   = [group EXCEPT ![j] = g]
            /\ output'  = [output EXCEPT ![j] = FALSE]
            /\ sendst'  = [sendst EXCEPT ![j] = "pending"]
            /\ chapter' = [chapter EXCEPT ![j] =
                            [p \in Positions |-> IF p <= n THEN "pending" ELSE "none"]]
            /\ ClientGoes(c, "enqueue", j)
      BY <1>1 DEF Submit
    <2>2. chapter' \in [JobIds -> [Positions -> ChapterStatus]]
      BY <2>1 DEF ChapterStatus
    <2>3. /\ status' \in [JobIds -> JobStatus] /\ cancel' \in [JobIds -> BOOLEAN]
          /\ owner' \in [JobIds -> Users \cup {NoUser}]
          /\ group' \in [JobIds -> Groups \cup {NoGroup}]
          /\ output' \in [JobIds -> BOOLEAN] /\ sendst' \in [JobIds -> SendStatus]
      BY <2>1
    <2>4. HandlersTyped'
      BY <2>1, GoTypes
    <2>5. left' \in [Kinds -> Nat]
      BY <1>1, SpendTypes DEF Submit, Kinds
    <2>6. UNCHANGED <<disk, waiting, worker, perm, bot>>
      BY <1>1 DEF Submit
    <2>7. TypeOK'
      BY <2>2, <2>3, <2>4, <2>5, <2>6
    <2> QED
      BY <2>4, <2>6, <2>7
  <1>2. ASSUME NEW c \in Clients, NEW j \in JobIds, Retry(c, j)
        PROVE  TypeInv'
    <2>1. left' \in [Kinds -> Nat]
      BY <1>2, SpendTypes DEF Retry, Kinds
    <2>2. HandlersTyped'
      BY <1>2, ReadTypes DEF Retry
    <2> QED
      BY <1>2, <2>1, <2>2 DEF Retry, Reads
  <1>3. ASSUME NEW c \in Clients, NEW j \in JobIds, Deliver(c, j)
        PROVE  TypeInv'
    <2>1. left' \in [Kinds -> Nat]
      BY <1>3, SpendTypes DEF Deliver, Kinds
    <2>2. HandlersTyped'
      BY <1>3, ReadTypes DEF Deliver
    <2> QED
      BY <1>3, <2>1, <2>2 DEF Deliver, Reads
  <1>4. ASSUME NEW c \in Clients, NEW j \in JobIds, Delete(c, j)
        PROVE  TypeInv'
    <2>1. left' \in [Kinds -> Nat]
      BY <1>4, SpendTypes DEF Delete, Kinds
    <2>2. /\ cpc' \in [Clients -> ClientPc] /\ cjob' \in [Clients -> JobIds \cup {0}]
          /\ cseen' = cseen
          /\ \A d \in Clients : cpc'[d] # "idle" => cjob'[d] \in JobIds
      BY <1>4 DEF Delete
    <2>3. cfiles' \in [Clients -> SUBSET Files]
      BY <1>4 DEF Delete, Files, Positions
    <2>4. chapter' \in [JobIds -> [Positions -> ChapterStatus]]
      BY <1>4 DEF Delete, ChapterStatus
    <2>5. /\ status' \in [JobIds -> JobStatus] /\ cancel' \in [JobIds -> BOOLEAN]
          /\ owner' \in [JobIds -> Users \cup {NoUser}]
          /\ group' \in [JobIds -> Groups \cup {NoGroup}]
          /\ output' \in [JobIds -> BOOLEAN] /\ sendst' \in [JobIds -> SendStatus]
      BY <1>4 DEF Delete
    <2>6. UNCHANGED <<disk, waiting, worker, perm, bot>>
      BY <1>4 DEF Delete
    <2> QED
      BY <2>1, <2>2, <2>3, <2>4, <2>5, <2>6
  <1>5. ASSUME NEW c \in Clients, NEW j \in JobIds, Cancel(c, j)
        PROVE  TypeInv'
    <2>1. left' \in [Kinds -> Nat]
      BY <1>5, SpendTypes DEF Cancel, Kinds
    <2>2. HandlersTyped'
      BY <1>5, ReadTypes DEF Cancel
    <2> QED
      BY <1>5, <2>1, <2>2 DEF Cancel, Reads
  <1> QED
    BY <1>1, <1>2, <1>3, <1>4, <1>5 DEF Commands

LEMMA EnvironmentTypes ==
    ASSUME TypeInv, Environment
    PROVE  TypeInv'
  <1> USE FanqieAssumption
      DEF TypeInv, TypeOK, Pointed, rows, disk, waiting, worker, clients, world
  <1>1. CASE Expire
    <2>1. left' \in [Kinds -> Nat]
      BY <1>1, SpendTypes DEF Expire, Kinds
    <2> QED
      BY <1>1, <2>1 DEF Expire, RemoveFiles
  <1>2. CASE TogglePerm
    <2>1. left' \in [Kinds -> Nat]
      BY <1>2, SpendTypes DEF TogglePerm, Kinds
    <2> QED
      BY <1>2, <2>1 DEF TogglePerm
  <1>3. CASE ToggleBot
    <2>1. left' \in [Kinds -> Nat]
      BY <1>3, SpendTypes DEF ToggleBot, Kinds
    <2> QED
      BY <1>3, <2>1 DEF ToggleBot
  <1>4. CASE Restart
    <2>1. left' \in [Kinds -> Nat]
      BY <1>4, SpendTypes DEF Restart, Kinds
    <2>2. status' \in [JobIds -> JobStatus]
      BY <1>4 DEF Restart, JobStatus, Active
    <2>3. /\ queue' \in Seq(JobIds) /\ queuedIds' \subseteq JobIds
          /\ wpc' = "fill" /\ wjob' = 0 /\ wlen' = 0 /\ wpos' = 0 /\ wfill' = {}
          /\ cpc' = [c \in Clients |-> "idle"] /\ cjob' = [c \in Clients |-> 0]
          /\ cseen' = [c \in Clients |-> Nothing]
          /\ cfiles' = [c \in Clients |-> {}]
      BY <1>4 DEF Restart, Lost
    <2>4. UNCHANGED <<cancel, owner, group, output, sendst, chapter, disk, perm, bot>>
      BY <1>4 DEF Restart
    <2>5. Nothing \in Seen
      BY DEF Nothing, Seen, JobStatus, SendStatus
    <2>6. TypeOK'
      BY <2>1, <2>2, <2>3, <2>4, <2>5 DEF WorkerPc, ClientPc
    <2> QED
      BY <2>3, <2>6 DEF Resting, AtChapter
  <1>5. CASE WDbError
    <2>1. left' \in [Kinds -> Nat]
      BY <1>5, SpendTypes DEF WDbError, Kinds
    <2>2. wpc' \in WorkerPc /\ (wpc' \in Resting \/ (wpc' = "except" /\ wpc \notin Resting))
      BY <1>5 DEF WDbError, WorkerGoes, WorkerPc, Resting
    <2>3. /\ wjob' \in {0, wjob} /\ wlen' \in {0, wlen} /\ wpos' \in {0, wpos} /\ wfill' = wfill
          /\ wpc' = "except" => wjob' = wjob
      BY <1>5 DEF WDbError, WorkerGoes
    <2>4. UNCHANGED <<rows, disk, waiting, clients, perm, bot>>
      BY <1>5 DEF WDbError
    <2>5. TypeOK'
      BY <2>1, <2>2, <2>3, <2>4
    <2> QED
      BY <2>2, <2>3, <2>4, <2>5 DEF Resting, AtChapter
  <1> QED
    BY <1>1, <1>2, <1>3, <1>4, <1>5 DEF Environment

LEMMA NextTypes == TypeInv /\ [Next]_vars => TypeInv'
  <1>1. ASSUME TypeInv, UNCHANGED vars
        PROVE  TypeInv'
    BY <1>1 DEF TypeInv, TypeOK, Pointed, vars, rows, disk, waiting, worker, clients, world
  <1> QED
    BY <1>1, WorkerTypes, ClientTypes, CommandTypes, EnvironmentTypes DEF Next

(* Every variable keeps its type, whatever the order of the worker's steps, *)
(* the commands, the restarts and the errors of the database.              *)
THEOREM TypeCorrect == Spec => []TypeOK
  <1>1. TypeInv => TypeOK
    BY DEF TypeInv
  <1> QED
    BY InitTypes, NextTypes, <1>1, PTL DEF Spec

-----------------------------------------------------------------------------
(* The queue and _queued_ids.                                              *)

LEMMA MirrorsAfterAppend ==
    ASSUME QueueMirrorsIds, queue \in Seq(JobIds), NEW j \in JobIds,
           j \notin queuedIds, Len(queue) # QueueMax,
           queue' = Append(queue, j), queuedIds' = queuedIds \cup {j}
    PROVE  QueueMirrorsIds'
  <1>1. /\ Len(queue') = Len(queue) + 1 /\ Len(queue) \in Nat
        /\ DOMAIN queue = 1..Len(queue) /\ DOMAIN queue' = 1..(Len(queue) + 1)
        /\ \A i \in 1..Len(queue) : queue'[i] = queue[i]
        /\ queue'[Len(queue) + 1] = j
    OBVIOUS
  <1>2. Len(queue') <= QueueMax
    <2>1. Len(queue) <= QueueMax /\ QueueMax \in Nat
      BY FanqieAssumption DEF QueueMirrorsIds
    <2>2. \A a, b \in Nat : a <= b /\ a # b => a + 1 <= b
      OBVIOUS
    <2>3. Len(queue) + 1 <= QueueMax
      BY <1>1, <2>1, <2>2
    <2> QED
      BY <1>1, <2>3
  <1>3. queuedIds' = {queue'[i] : i \in DOMAIN queue'}
    BY <1>1 DEF QueueMirrorsIds
  <1>4. \A i \in DOMAIN queue : queue[i] # j
    BY DEF QueueMirrorsIds
  <1>5. \A i, k \in DOMAIN queue' : queue'[i] = queue'[k] => i = k
    BY <1>1, <1>4 DEF QueueMirrorsIds
  <1> QED
    BY <1>2, <1>3, <1>5 DEF QueueMirrorsIds

LEMMA MirrorsAfterGet ==
    ASSUME QueueMirrorsIds, queue \in Seq(JobIds), queue # <<>>,
           queue' = Tail(queue), queuedIds' = queuedIds \ {Head(queue)}
    PROVE  QueueMirrorsIds'
  <1>1. /\ Len(queue) \in Nat /\ Len(queue) >= 1 /\ Len(queue') = Len(queue) - 1
        /\ DOMAIN queue = 1..Len(queue) /\ DOMAIN queue' = 1..(Len(queue) - 1)
        /\ \A i \in 1..(Len(queue) - 1) : queue'[i] = queue[i + 1]
        /\ Head(queue) = queue[1]
    OBVIOUS
  <1>2. \A i, k \in DOMAIN queue' : queue'[i] = queue'[k] => i = k
    <2> SUFFICES ASSUME NEW i \in DOMAIN queue', NEW k \in DOMAIN queue', queue'[i] = queue'[k]
                 PROVE  i = k
      OBVIOUS
    <2>1. i + 1 \in DOMAIN queue /\ k + 1 \in DOMAIN queue /\ queue[i + 1] = queue[k + 1]
      BY <1>1
    <2>2. i + 1 = k + 1
      BY <2>1 DEF QueueMirrorsIds
    <2> QED
      BY <1>1, <2>2
  <1>3. \A i \in DOMAIN queue' : queue'[i] \in queuedIds /\ queue'[i] # Head(queue)
    <2> SUFFICES ASSUME NEW i \in DOMAIN queue'
                 PROVE  queue'[i] \in queuedIds /\ queue'[i] # Head(queue)
      OBVIOUS
    <2>1. i + 1 \in DOMAIN queue /\ queue'[i] = queue[i + 1] /\ 1 \in DOMAIN queue /\ i + 1 # 1
      BY <1>1
    <2> QED
      BY <1>1, <2>1 DEF QueueMirrorsIds
  <1>4. \A x \in queuedIds : x # Head(queue) => \E i \in DOMAIN queue' : queue'[i] = x
    <2> SUFFICES ASSUME NEW x \in queuedIds, x # Head(queue)
                 PROVE  \E i \in DOMAIN queue' : queue'[i] = x
      OBVIOUS
    <2>1. PICK k \in DOMAIN queue : queue[k] = x
      BY DEF QueueMirrorsIds
    <2>2. k - 1 \in DOMAIN queue' /\ queue'[k - 1] = x
      BY <1>1, <2>1
    <2> QED
      BY <2>2
  <1>5. queuedIds' = {queue'[i] : i \in DOMAIN queue'}
    BY <1>3, <1>4
  <1>6. Len(queue') <= QueueMax
    <2>1. Len(queue) <= QueueMax /\ QueueMax \in Nat
      BY FanqieAssumption DEF QueueMirrorsIds
    <2> QED
      BY <1>1, <2>1
  <1> QED
    BY <1>2, <1>5, <1>6 DEF QueueMirrorsIds

LEMMA MirrorsWhenKept ==
    ASSUME QueueMirrorsIds, UNCHANGED waiting
    PROVE  QueueMirrorsIds'
  BY DEF QueueMirrorsIds, waiting

(* Only the four places that touch the queue can disturb it. *)
LEMMA MirrorsNext ==
    ASSUME TypeInv, QueueMirrorsIds, [Next]_vars
    PROVE  QueueMirrorsIds'
  <1> USE DEF TypeInv, TypeOK
  <1>1. CASE WGet
    BY <1>1, MirrorsAfterGet DEF WGet
  <1>2. CASE WPut
    <2>1. PICK j \in wfill :
            IF j \in queuedIds THEN UNCHANGED waiting
            ELSE queue' = Append(queue, j) /\ queuedIds' = queuedIds \cup {j}
      BY <1>2 DEF WPut
    <2>2. Len(queue) # QueueMax
      BY <1>2, FanqieAssumption DEF WPut
    <2> QED
      BY <2>1, <2>2, MirrorsAfterAppend, MirrorsWhenKept
  <1>3. ASSUME NEW c \in Clients, EnqueueStep(c)
        PROVE  QueueMirrorsIds'
    <2>1. cjob[c] \in JobIds
      BY <1>3 DEF EnqueueStep, Pointed
    <2>2. IF cjob[c] \in queuedIds \/ Len(queue) = QueueMax THEN UNCHANGED waiting
          ELSE queue' = Append(queue, cjob[c]) /\ queuedIds' = queuedIds \cup {cjob[c]}
      BY <1>3 DEF EnqueueStep, Enqueue
    <2> QED
      BY <2>1, <2>2, MirrorsAfterAppend, MirrorsWhenKept
  <1>4. CASE Restart
    <2>1. queue' = <<>> /\ queuedIds' = {}
      BY <1>4 DEF Restart, Lost
    <2> QED
      BY <2>1, FanqieAssumption DEF QueueMirrorsIds
  <1>5. CASE WorkerStep /\ ~WGet /\ ~WPut
    <2>1. UNCHANGED waiting
      BY <1>5 DEF WorkerStep, WStart, WBegin, WLoop, WSetCancel, WCheck, WFetch, WMark, Mark,
         WJobFail, WNotify, WFinal, WMerge, WComplete, WAllowed, WSend, WSent, WExcept, WFill,
         WPutEnd
    <2> QED
      BY <2>1, MirrorsWhenKept
  <1>6. ASSUME NEW c \in Clients, ClientStep(c), ~EnqueueStep(c)
        PROVE  QueueMirrorsIds'
    <2>1. UNCHANGED waiting
      BY <1>6 DEF ClientStep, Reject, CancelLands, RetryReads, RetryLands, DeliverChecks,
         DeliverExpires, Upload, Uploaded, Unlink
    <2> QED
      BY <2>1, MirrorsWhenKept
  <1>7. CASE Commands
    <2>1. UNCHANGED waiting
      BY <1>7 DEF Commands, Submit, Retry, Deliver, Delete, Cancel, Reads
    <2> QED
      BY <2>1, MirrorsWhenKept
  <1>8. CASE Environment /\ ~Restart
    <2>1. UNCHANGED waiting
      BY <1>8 DEF Environment, Expire, TogglePerm, ToggleBot, WDbError
    <2> QED
      BY <2>1, MirrorsWhenKept
  <1>9. CASE UNCHANGED vars
    BY <1>9, MirrorsWhenKept DEF vars
  <1> QED
    BY <1>1, <1>2, <1>3, <1>4, <1>5, <1>6, <1>7, <1>8, <1>9 DEF Next

(* The bounded queue and _queued_ids hold the same ids, each once, and     *)
(* never more than fanqie_queue_max, for every size of the queue.          *)
THEOREM QueueCorrect == Spec => []QueueMirrorsIds
  <1>1. Init => QueueMirrorsIds
    BY FanqieAssumption DEF Init, Fresh, QueueMirrorsIds
  <1>2. TypeInv /\ QueueMirrorsIds /\ [Next]_vars => QueueMirrorsIds'
    BY MirrorsNext
  <1> QED
    BY InitTypes, NextTypes, <1>1, <1>2, PTL DEF Spec

-----------------------------------------------------------------------------
(* One running job. *)

Told == {"notify", "allowed", "send", "sent", "senderror"}

(* RunningHasWorker is not inductive: a worker that leaves a job through   *)
(* the notification, or through its handler when no error of the database  *)
(* brought it there, must have settled the row before.                     *)
RunningInv ==
    /\ RunningHasWorker
    /\ left["dberror"] <= Budget["dberror"]
    /\ wpc \in Told => status[wjob] # "running"
    /\ wpc = "except" /\ DatabaseErrors = 0 => status[wjob] # "running"

LEMMA RunningWorker ==
    ASSUME TypeInv, RunningInv, WorkerStep
    PROVE  RunningInv'
  <1> USE DEF RunningInv, RunningHasWorker, Told, WorkerGoes, SetStatus, Exists
  <1>0. /\ status \in [JobIds -> JobStatus] /\ left' = left
        /\ wpc \notin Resting => wjob \in JobIds
        /\ wjob \in JobIds \cup {0} /\ 0 \notin JobIds
        /\ DatabaseErrors' = DatabaseErrors
    BY DEF TypeInv, TypeOK, Pointed, JobIds, WorkerStep, WGet, WStart, WBegin, WLoop, WSetCancel,
       WCheck, WFetch, WMark, Mark, WJobFail, WNotify, WFinal, WMerge, WComplete, WAllowed,
       WSend, WSent, WExcept, WFill, WPut, WPutEnd, world, DatabaseErrors, WorkerGoes
  <1>1. CASE WGet
    BY <1>0, <1>1 DEF WGet, rows
  <1>2. CASE WStart
    BY <1>0, <1>2 DEF WStart, Active
  <1>3. CASE WBegin
    BY <1>0, <1>3 DEF WBegin
  <1>4. CASE WLoop
    BY <1>0, <1>4 DEF WLoop, rows
  <1>5. CASE WSetCancel
    BY <1>0, <1>5 DEF WSetCancel
  <1>6. CASE WCheck
    <2>1. \/ wpc' \in {"loop", "fetch"} /\ wjob' = wjob /\ status' = status
          \/ wpc' = "fill" /\ status[wjob] = "absent" /\ status' = status
          \/ wpc' = "notify" /\ wjob' = wjob /\ status' = [status EXCEPT ![wjob] = "failed"]
      BY <1>6 DEF WCheck
    <2>2. wpc = "check" /\ wjob \in JobIds
      BY <1>0, <1>6 DEF WCheck, Resting
    <2> QED
      BY <1>0, <2>1, <2>2
  <1>7. CASE WFetch
    BY <1>0, <1>7 DEF WFetch, rows
  <1>8. CASE WMark
    BY <1>0, <1>8 DEF WMark, Mark
  <1>9. CASE WJobFail
    <2>1. /\ wpc = "jobfail" /\ wpc' = "notify" /\ wjob' = wjob /\ wjob \in JobIds
          /\ status' = IF status[wjob] # "absent" THEN [status EXCEPT ![wjob] = "failed"] ELSE status
      BY <1>0, <1>9 DEF WJobFail, Resting
    <2> QED
      BY <1>0, <2>1
  <1>10. CASE WNotify
    BY <1>0, <1>10 DEF WNotify, rows
  <1>11. CASE WFinal
    BY <1>0, <1>11 DEF WFinal, rows
  <1>12. CASE WMerge
    BY <1>0, <1>12 DEF WMerge, rows
  <1>13. CASE WComplete
    <2>1. wpc = "complete" /\ wjob \in JobIds
      BY <1>0, <1>13 DEF WComplete, Resting
    <2>2. \/ wpc' = "allowed" /\ wjob' = wjob /\ status' = [status EXCEPT ![wjob] = "completed"]
          \/ wpc' = "fill" /\ status[wjob] = "absent" /\ status' = status
      BY <1>13 DEF WComplete, rows
    <2> QED
      BY <1>0, <2>1, <2>2
  <1>14. CASE WAllowed
    BY <1>0, <1>14 DEF WAllowed, rows
  <1>15. CASE WSend
    BY <1>0, <1>15 DEF WSend, rows
  <1>16. CASE WSent
    BY <1>0, <1>16 DEF WSent
  <1>17. CASE WExcept
    BY <1>0, <1>17 DEF WExcept
  <1>18. CASE WFill
    BY <1>0, <1>18 DEF WFill, rows
  <1>19. CASE WPut
    BY <1>0, <1>19 DEF WPut, rows
  <1>20. CASE WPutEnd
    BY <1>0, <1>20 DEF WPutEnd, rows
  <1> QED
    BY <1>1, <1>2, <1>3, <1>4, <1>5, <1>6, <1>7, <1>8, <1>9, <1>10, <1>11, <1>12,
       <1>13, <1>14, <1>15, <1>16, <1>17, <1>18, <1>19, <1>20
       DEF WorkerStep

(* A step that starts no job, and leaves the worker alone or starts it     *)
(* anew, leaves at most the running rows that were there.                  *)
LEMMA RunningKept ==
    ASSUME TypeInv, RunningInv, left'["dberror"] = left["dberror"],
           \A j \in JobIds : status'[j] = "running" => status[j] = "running",
           UNCHANGED worker \/ (wpc = "dead" /\ wpc' = "get")
    PROVE  RunningInv'
  BY DEF RunningInv, RunningHasWorker, DatabaseErrors, Told, worker, TypeInv, TypeOK, Pointed,
     Resting

LEMMA CommandRows ==
    ASSUME TypeInv, Commands
    PROVE  \/ status' = status
           \/ \E i \in JobIds : \E s \in {"queued", "absent"} : status' = [status EXCEPT ![i] = s]
  <1> USE DEF TypeInv, TypeOK
  <1>1. ASSUME NEW c \in Clients, NEW u \in Users, NEW g \in Groups \cup {NoGroup},
               NEW n \in Positions, Submit(c, u, g, n)
        PROVE  \E i \in JobIds : status' = [status EXCEPT ![i] = "queued"]
    BY <1>1 DEF Submit
  <1>2. ASSUME NEW c \in Clients, NEW i \in JobIds,
               Cancel(c, i) \/ Retry(c, i) \/ Deliver(c, i)
        PROVE  status' = status
    BY <1>2 DEF Cancel, Retry, Deliver, Reads, rows
  <1>3. ASSUME NEW c \in Clients, NEW i \in JobIds, Delete(c, i)
        PROVE  status' = [status EXCEPT ![i] = "absent"]
    BY <1>3 DEF Delete
  <1> QED
    BY <1>1, <1>2, <1>3 DEF Commands

LEMMA CommandsStartNothing ==
    ASSUME TypeInv, Commands
    PROVE  \A j \in JobIds : status'[j] = "running" => status[j] = "running"
  BY CommandRows DEF TypeInv, TypeOK

LEMMA RunningNext ==
    ASSUME TypeInv, RunningInv, [Next]_vars
    PROVE  RunningInv'
  <1>1. ASSUME NEW c \in Clients, ClientStep(c)
        PROVE  RunningInv'
    <2>1. left' = left
      BY <1>1 DEF ClientStep, EnqueueStep, Reject, CancelLands, RetryReads, RetryLands,
         DeliverChecks, DeliverExpires, Upload, Uploaded, Unlink, world
    <2>2. \A j \in JobIds : status'[j] = "running" => status[j] = "running"
      BY <1>1 DEF ClientStep, EnqueueStep, Reject, CancelLands, RetryReads, RetryLands,
         DeliverChecks, DeliverExpires, Upload, Uploaded, Unlink, rows, SetStatus,
         TypeInv, TypeOK
    <2>3. UNCHANGED worker \/ (wpc = "dead" /\ wpc' = "get")
      BY <1>1 DEF ClientStep, EnqueueStep, Enqueue, EnsureWorker, WorkerGoes, Reject, CancelLands,
         RetryReads, RetryLands, DeliverChecks, DeliverExpires, Upload, Uploaded, Unlink
    <2> QED
      BY <2>1, <2>2, <2>3, RunningKept
  <1>2. CASE Commands
    <2>1. left'["dberror"] = left["dberror"]
      BY <1>2 DEF Commands, Submit, Retry, Deliver, Delete, Cancel, Reads, Spend, TypeInv, TypeOK, Kinds
    <2>2. \A j \in JobIds : status'[j] = "running" => status[j] = "running"
      BY <1>2, CommandsStartNothing
    <2>3. UNCHANGED worker
      BY <1>2 DEF Commands, Submit, Retry, Deliver, Delete, Cancel, Reads
    <2> QED
      BY <2>1, <2>2, <2>3, RunningKept
  <1>3. CASE Expire \/ TogglePerm \/ ToggleBot
    <2>1. left'["dberror"] = left["dberror"]
      BY <1>3 DEF Expire, TogglePerm, ToggleBot, Spend, TypeInv, TypeOK, Kinds
    <2>2. UNCHANGED <<rows, worker>>
      BY <1>3 DEF Expire, TogglePerm, ToggleBot
    <2> QED
      BY <2>1, <2>2, RunningKept DEF rows
  <1>4. CASE Restart
    <2>1. left'["dberror"] = left["dberror"]
      BY <1>4 DEF Restart, Spend, TypeInv, TypeOK, Kinds
    <2>2. \A j \in JobIds : status'[j] # "running"
      BY <1>4 DEF Restart
    <2>3. wpc' = "fill"
      BY <1>4 DEF Restart, Lost
    <2> QED
      BY <2>1, <2>2, <2>3 DEF RunningInv, RunningHasWorker, DatabaseErrors, Told
  <1>5. CASE WDbError
    <2>1. /\ left["dberror"] \in Nat /\ left["dberror"] > 0 /\ Budget["dberror"] \in Nat
          /\ left'["dberror"] = left["dberror"] - 1
      BY <1>5, FanqieAssumption DEF WDbError, Spend, TypeInv, TypeOK, Kinds
    <2>2. DatabaseErrors' = DatabaseErrors + 1 /\ DatabaseErrors \in Nat
      BY <2>1 DEF DatabaseErrors, RunningInv
    <2>3. status' = status
      BY <1>5 DEF WDbError, rows
    <2>4. \/ wpc = "except" /\ wpc' = "dead"
          \/ wpc = "fill" /\ wpc' = "get"
          \/ /\ wpc \notin {"get", "fill", "put", "dead", "except"}
             /\ wpc' = "except" /\ wjob' = wjob
      BY <1>5 DEF WDbError, WorkerGoes
    <2>5. RunningHasWorker'
      BY <2>2, <2>3, <2>4 DEF RunningHasWorker, RunningInv, TypeInv, TypeOK, JobIds
    <2> QED
      BY <2>1, <2>2, <2>4, <2>5 DEF RunningInv, Told
  <1>6. CASE UNCHANGED vars
    BY <1>6, RunningKept DEF vars, rows, world, worker
  <1> QED
    BY <1>1, <1>2, <1>3, <1>4, <1>5, <1>6, RunningWorker DEF Next, Environment

(* A row says "running" only while the worker has that job in hand, for    *)
(* every order of commands, restarts and at most one error of the database.*)
THEOREM OneRunning == Spec => []RunningHasWorker
  <1>1. Init => RunningInv
    BY FanqieAssumption DEF Init, Fresh, RunningInv, RunningHasWorker, DatabaseErrors, Told, Kinds
  <1>2. TypeInv /\ RunningInv /\ [Next]_vars => RunningInv'
    BY RunningNext
  <1>3. RunningInv => RunningHasWorker
    BY DEF RunningInv
  <1> QED
    BY InitTypes, NextTypes, <1>1, <1>2, <1>3, PTL DEF Spec

-----------------------------------------------------------------------------
(* Which errors leave a job running that nobody works on. *)

InHand ==
    \A j \in JobIds : status[j] = "running" =>
        wjob = j /\ wpc \notin {"get", "start", "fill", "put", "dead"}

(* The exception handler of the loop does not fail itself. *)
HandlerHolds == wpc = "except" => wpc' # "dead"

(* A worker that reports on a job has settled its row. *)
HandInv == InHand /\ (wpc \in Told => status[wjob] # "running")

LEMMA HandWorker ==
    ASSUME TypeInv, HandInv, WorkerStep
    PROVE  HandInv'
  <1> USE DEF HandInv, InHand, Told, WorkerGoes, SetStatus, Exists, rows
  <1>0. /\ status \in [JobIds -> JobStatus] /\ 0 \notin JobIds
        /\ wpc \notin Resting => wjob \in JobIds
    BY DEF TypeInv, TypeOK, Pointed, JobIds
  <1>1. CASE WGet \/ WFill \/ WPut \/ WPutEnd
    BY <1>0, <1>1 DEF WGet, WFill, WPut, WPutEnd
  <1>2. CASE WStart
    BY <1>0, <1>2 DEF WStart, Active
  <1>3. CASE WBegin
    BY <1>0, <1>3 DEF WBegin
  <1>4. CASE WLoop \/ WSetCancel
    BY <1>0, <1>4 DEF WLoop, WSetCancel
  <1>5. CASE WCheck
    <2>1. \/ wpc' \in {"loop", "fetch"} /\ wjob' = wjob /\ status' = status
          \/ wpc' = "fill" /\ status[wjob] = "absent" /\ status' = status
          \/ wpc' = "notify" /\ wjob' = wjob /\ status' = [status EXCEPT ![wjob] = "failed"]
      BY <1>5 DEF WCheck
    <2>2. wpc = "check" /\ wjob \in JobIds
      BY <1>0, <1>5 DEF WCheck, Resting
    <2> QED
      BY <1>0, <2>1, <2>2
  <1>6. CASE WFetch \/ WMark
    BY <1>0, <1>6 DEF WFetch, WMark, Mark
  <1>7. CASE WJobFail
    <2>1. /\ wpc = "jobfail" /\ wpc' = "notify" /\ wjob' = wjob /\ wjob \in JobIds
          /\ status' = IF status[wjob] # "absent" THEN [status EXCEPT ![wjob] = "failed"] ELSE status
      BY <1>0, <1>7 DEF WJobFail, Resting
    <2> QED
      BY <1>0, <2>1
  <1>8. CASE WNotify \/ WFinal \/ WMerge
    BY <1>0, <1>8 DEF WNotify, WFinal, WMerge
  <1>9. CASE WComplete
    <2>1. wpc = "complete" /\ wjob \in JobIds
      BY <1>0, <1>9 DEF WComplete, Resting
    <2>2. \/ wpc' = "allowed" /\ wjob' = wjob /\ status' = [status EXCEPT ![wjob] = "completed"]
          \/ wpc' = "fill" /\ status[wjob] = "absent" /\ status' = status
      BY <1>9 DEF WComplete
    <2> QED
      BY <1>0, <2>1, <2>2
  <1>10. CASE WAllowed \/ WSend \/ WSent
    BY <1>0, <1>10 DEF WAllowed, WSend, WSent
  <1>11. CASE WExcept
    BY <1>0, <1>11 DEF WExcept
  <1> QED
    BY <1>1, <1>2, <1>3, <1>4, <1>5, <1>6, <1>7, <1>8, <1>9, <1>10, <1>11 DEF WorkerStep

LEMMA HandNext ==
    ASSUME TypeInv, HandInv, [Next]_vars, [HandlerHolds]_vars
    PROVE  HandInv'
  <1>1. ASSUME \A j \in JobIds : status'[j] = "running" => status[j] = "running",
               UNCHANGED worker \/ (wpc = "dead" /\ wpc' = "get")
        PROVE  HandInv'
    BY <1>1 DEF HandInv, InHand, Told, worker, TypeInv, TypeOK, Pointed, Resting
  <1>2. ASSUME NEW c \in Clients, ClientStep(c)
        PROVE  HandInv'
    <2>1. \A j \in JobIds : status'[j] = "running" => status[j] = "running"
      BY <1>2 DEF ClientStep, EnqueueStep, Reject, CancelLands, RetryReads, RetryLands,
         DeliverChecks, DeliverExpires, Upload, Uploaded, Unlink, rows, SetStatus,
         TypeInv, TypeOK
    <2>2. UNCHANGED worker \/ (wpc = "dead" /\ wpc' = "get")
      BY <1>2 DEF ClientStep, EnqueueStep, Enqueue, EnsureWorker, WorkerGoes, Reject, CancelLands,
         RetryReads, RetryLands, DeliverChecks, DeliverExpires, Upload, Uploaded, Unlink
    <2> QED
      BY <1>1, <2>1, <2>2
  <1>3. CASE Commands \/ Expire \/ TogglePerm \/ ToggleBot
    <2>1. \A j \in JobIds : status'[j] = "running" => status[j] = "running"
      BY <1>3, CommandsStartNothing DEF Expire, TogglePerm, ToggleBot, rows
    <2>2. UNCHANGED worker
      BY <1>3 DEF Commands, Submit, Retry, Deliver, Delete, Cancel, Reads, Expire, TogglePerm, ToggleBot
    <2> QED
      BY <1>1, <2>1, <2>2
  <1>4. CASE Restart
    BY <1>4 DEF Restart, Lost, HandInv, InHand, Told
  <1>5. CASE WDbError
    <2>1. wpc # "except"
      BY <1>5 DEF WDbError, WorkerGoes, HandlerHolds, vars, worker
    <2>2. status' = status /\ wpc \notin {"get", "put", "dead"}
      BY <1>5 DEF WDbError, rows
    <2>3. (wpc = "fill" /\ wpc' = "get") \/ (wpc # "fill" /\ wpc' = "except" /\ wjob' = wjob)
      BY <1>5, <2>1 DEF WDbError, WorkerGoes
    <2> QED
      BY <2>2, <2>3 DEF HandInv, InHand, Told
  <1>6. CASE UNCHANGED vars
    BY <1>1, <1>6 DEF vars, rows, worker
  <1> QED
    BY <1>2, <1>3, <1>4, <1>5, <1>6, HandWorker DEF Next, Environment

(* Errors of the database, however many, leave a job running that no worker *)
(* has in hand only where one of them hits the handler of another           *)
(* (_mark_job_failed in _worker_loop, which nothing protects).              *)
THEOREM OnlyAFailingHandlerStrands == Spec /\ [][HandlerHolds]_vars => []InHand
  <1>1. Init => HandInv
    BY FanqieAssumption DEF Init, Fresh, HandInv, InHand, Told
  <1>2. TypeInv /\ HandInv /\ [Next]_vars /\ [HandlerHolds]_vars => HandInv'
    BY HandNext
  <1>3. HandInv => InHand
    BY DEF HandInv
  <1> QED
    BY InitTypes, NextTypes, <1>1, <1>2, <1>3, PTL DEF Spec

-----------------------------------------------------------------------------
(* Downloaded chapters. *)

Asking == {"fetch", "mark_unavailable", "mark_outage", "mark_error"}

(* The worker asks the site, and writes a failure down, only for a chapter *)
(* it does not have; and a job without a row has no chapters.              *)
AskingInv ==
    /\ wpc \in Asking => ~(chapter[wjob][wpos] = "completed" /\ HasFile(wjob, wpos))
    /\ \A j \in JobIds : status[j] = "absent" => \A p \in Positions : chapter[j][p] = "none"

(* What a step does to the downloaded chapters when it keeps them: only    *)
(* the commit of a retry that had found one missing may take it back.      *)
Chosen(j, p) ==
    \E c \in Clients : /\ cpc[c] = "reset" /\ cpc'[c] = "requeue"
                      /\ cjob[c] = j /\ p \in cseen[c].reset

Keeping ==
    \A j \in JobIds, p \in Positions :
        (chapter[j][p] = "completed" /\ HasFile(j, p) /\ status'[j] # "absent")
            => chapter'[j][p] = "completed" \/ Chosen(j, p)

(* A retry that has not read the chapters has chosen none, and the reading *)
(* chooses none that is downloaded.                                        *)
UnreadInv == \A c \in Clients : cpc[c] = "retry" => cseen[c].reset = {}

Choosing ==
    \A c \in Clients, p \in Positions :
        (cpc[c] = "retry" /\ chapter[cjob[c]][p] = "completed" /\ HasFile(cjob[c], p))
            => p \notin cseen'[c].reset

LEMMA AskedPosition ==
    ASSUME TypeInv, wpc \in AtChapter
    PROVE  wjob \in JobIds /\ wpos \in Positions
  BY FanqieAssumption DEF TypeInv, TypeOK, Pointed, Resting, AtChapter, Positions

LEMMA KeptWithChapters ==
    ASSUME AskingInv, chapter' = chapter,
           wpc' \in Asking => /\ wpc \in Asking /\ wjob' = wjob /\ wpos' = wpos
                              /\ files' \subseteq files,
           \A j \in JobIds : status'[j] = "absent" => status[j] = "absent"
    PROVE  AskingInv' /\ Keeping
  BY DEF AskingInv, Keeping, HasFile

LEMMA WorkerKeeps ==
    ASSUME TypeInv, AskingInv, WorkerStep
    PROVE  AskingInv' /\ Keeping
  <1> USE DEF Asking, WorkerGoes
  <1>0. \A j \in JobIds : status'[j] = "absent" => status[j] = "absent"
    BY DEF WorkerStep, WGet, WStart, WBegin, WLoop, WSetCancel, WCheck, WFetch, WMark, Mark,
       WJobFail, WNotify, WFinal, WMerge, WComplete, WAllowed, WSend, WSent, WExcept, WFill,
       WPut, WPutEnd, rows, SetStatus, Exists, TypeInv, TypeOK
  <1>1. CASE WCheck
    <2>1. chapter' = chapter /\ files' = files
      BY <1>1 DEF WCheck, disk
    <2>2. CASE wpc' = "fetch"
      <3>1. ~Settled(wjob, wpos) /\ wjob' = wjob /\ wpos' = wpos
        BY <1>1, <2>2 DEF WCheck
      <3>2. ~(chapter[wjob][wpos] = "completed" /\ HasFile(wjob, wpos))
        BY <3>1 DEF Settled
      <3>3. AskingInv'
        BY <1>0, <2>1, <2>2, <3>1, <3>2 DEF AskingInv, HasFile
      <3> QED
        BY <2>1, <3>3 DEF Keeping
    <2>3. CASE wpc' # "fetch"
      <3>1. wpc' \notin Asking
        BY <1>1, <2>3 DEF WCheck
      <3> QED
        BY <1>0, <2>1, <3>1, KeptWithChapters
    <2> QED
      BY <2>2, <2>3
  <1>2. CASE WFetch
    <2>1. chapter' = chapter /\ wjob' = wjob /\ wpos' = wpos /\ wpc \in Asking
      BY <1>2 DEF WFetch, rows
    <2>2. wpc' \in Asking => files' = files
      BY <1>2 DEF WFetch
    <2> QED
      BY <1>0, <2>1, <2>2, KeptWithChapters
  <1>3. CASE WMark
    <2>1. wjob \in JobIds /\ wpos \in Positions
      BY <1>3, AskedPosition DEF WMark, AtChapter
    <2>2. PICK st \in ChapterStatus, next \in {"loop", "jobfail"} :
            Mark(st, next) /\ (st # "completed" => wpc \in Asking)
      BY <1>3 DEF WMark, ChapterStatus
    <2>3. wpc' \notin Asking /\ files' = files /\ status' = status
      BY <2>2 DEF Mark, disk
    <2>4. chapter \in [JobIds -> [Positions -> ChapterStatus]]
      BY DEF TypeInv, TypeOK
    <2>5. \/ chapter' = chapter
          \/ Exists(wjob) /\ chapter' = [chapter EXCEPT ![wjob][wpos] = st]
      BY <2>2 DEF Mark
    <2>6. AskingInv'
      BY <2>1, <2>3, <2>4, <2>5 DEF AskingInv, Exists
    <2>7. st # "completed" => ~(chapter[wjob][wpos] = "completed" /\ HasFile(wjob, wpos))
      BY <2>2 DEF AskingInv
    <2>8. Keeping
      BY <2>1, <2>4, <2>5, <2>7 DEF Keeping
    <2> QED
      BY <2>6, <2>8
  <1>4. CASE ~WCheck /\ ~WFetch /\ ~WMark
    <2>1. chapter' = chapter /\ wpc' \notin Asking
      BY <1>4 DEF WorkerStep, WGet, WStart, WBegin, WLoop, WSetCancel, WJobFail, WNotify, WFinal,
         WMerge, WComplete, WAllowed, WSend, WSent, WExcept, WFill, WPut, WPutEnd, rows
    <2> QED
      BY <1>0, <2>1, KeptWithChapters
  <1> QED
    BY <1>1, <1>2, <1>3, <1>4

LEMMA CommandsKeep ==
    ASSUME TypeInv, AskingInv, Commands
    PROVE  AskingInv' /\ Keeping
  <1> USE DEF TypeInv, TypeOK
  <1>0. UNCHANGED <<wpc, wjob, wpos, files>>
    BY DEF Commands, Submit, Retry, Deliver, Delete, Cancel, Reads, worker, disk
  <1>a. wpc \in Asking => wjob \in JobIds /\ wpos \in Positions
    BY AskedPosition DEF Asking, AtChapter
  <1>1. ASSUME NEW c \in Clients, NEW u \in Users, NEW g \in Groups \cup {NoGroup},
               NEW n \in Positions, Submit(c, u, g, n)
        PROVE  AskingInv' /\ Keeping
    <2>1. PICK j \in JobIds :
            /\ NextId(j) /\ status' = [status EXCEPT ![j] = "queued"]
            /\ chapter' = [chapter EXCEPT ![j] =
                            [p \in Positions |-> IF p <= n THEN "pending" ELSE "none"]]
      BY <1>1 DEF Submit
    <2>2. status[j] = "absent"
      BY <2>1 DEF NextId, Exists, JobIds
    <2>3. \A i \in JobIds, p \in Positions :
            /\ i # j => chapter'[i][p] = chapter[i][p] /\ status'[i] = status[i]
            /\ i = j => chapter'[i][p] # "completed" /\ status'[i] = "queued"
      BY <2>1
    <2>4. Keeping
      <3>1. \A p \in Positions : chapter[j][p] = "none"
        BY <2>2 DEF AskingInv
      <3> QED
        BY <2>3, <3>1 DEF Keeping
    <2>5. AskingInv'
      <3>1. wpc' \in Asking => ~(chapter'[wjob'][wpos'] = "completed" /\ HasFile(wjob, wpos)')
        <4>1. SUFFICES ASSUME wpc \in Asking
                       PROVE  ~(chapter'[wjob][wpos] = "completed" /\ <<wjob, wpos>> \in files)
          BY <1>0 DEF HasFile
        <4>2. ~(chapter[wjob][wpos] = "completed" /\ <<wjob, wpos>> \in files)
          BY <4>1 DEF AskingInv, HasFile
        <4>3. chapter'[wjob][wpos] = "completed" => chapter[wjob][wpos] = "completed"
          BY <1>a, <4>1, <2>3
        <4> QED
          BY <4>2, <4>3
      <3>2. ASSUME NEW i \in JobIds, status'[i] = "absent", NEW p \in Positions
            PROVE  chapter'[i][p] = "none"
        <4>1. i # j
          BY <2>3, <3>2
        <4>2. status[i] = "absent" /\ chapter'[i][p] = chapter[i][p]
          BY <2>3, <3>2, <4>1
        <4> QED
          BY <4>2 DEF AskingInv
      <3> QED
        BY <3>1, <3>2 DEF AskingInv
    <2> QED
      BY <2>4, <2>5
  <1>2. ASSUME NEW c \in Clients, NEW j \in JobIds,
               Retry(c, j) \/ Deliver(c, j) \/ Cancel(c, j)
        PROVE  AskingInv' /\ Keeping
    <2>1. UNCHANGED rows
      BY <1>2 DEF Retry, Deliver, Cancel, Reads
    <2> QED
      BY <1>0, <2>1, KeptWithChapters DEF rows
  <1>3. ASSUME NEW c \in Clients, NEW j \in JobIds, Delete(c, j)
        PROVE  AskingInv' /\ Keeping
    <2>1. /\ status' = [status EXCEPT ![j] = "absent"]
          /\ chapter' = [chapter EXCEPT ![j] = [p \in Positions |-> "none"]]
      BY <1>3 DEF Delete
    <2>2. \A i \in JobIds, p \in Positions :
            /\ i # j => chapter'[i][p] = chapter[i][p] /\ status'[i] = status[i]
            /\ i = j => chapter'[i][p] = "none" /\ status'[i] = "absent"
      BY <2>1
    <2>3. Keeping
      BY <2>2 DEF Keeping
    <2>4. AskingInv'
      <3>1. wpc' \in Asking => ~(chapter'[wjob'][wpos'] = "completed" /\ HasFile(wjob, wpos)')
        <4>1. SUFFICES ASSUME wpc \in Asking
                       PROVE  ~(chapter'[wjob][wpos] = "completed" /\ <<wjob, wpos>> \in files)
          BY <1>0 DEF HasFile
        <4>2. ~(chapter[wjob][wpos] = "completed" /\ <<wjob, wpos>> \in files)
          BY <4>1 DEF AskingInv, HasFile
        <4>3. chapter'[wjob][wpos] = "completed" => chapter[wjob][wpos] = "completed"
          BY <1>a, <4>1, <2>2
        <4> QED
          BY <4>2, <4>3
      <3>2. \A i \in JobIds : status'[i] = "absent" => \A p \in Positions : chapter'[i][p] = "none"
        BY <2>2 DEF AskingInv
      <3> QED
        BY <3>1, <3>2 DEF AskingInv
    <2> QED
      BY <2>3, <2>4
  <1> QED
    BY <1>1, <1>2, <1>3 DEF Commands

LEMMA RetryKeeps ==
    ASSUME TypeInv, AskingInv, NEW c \in Clients, RetryLands(c)
    PROVE  AskingInv' /\ Keeping
  <1> USE DEF TypeInv, TypeOK
  <1> DEFINE j == cjob[c]
  <1>1. UNCHANGED <<wpc, wjob, wpos, files>>
    BY DEF RetryLands, worker, disk
  <1>2. wpc \in Asking => wjob \in JobIds /\ wpos \in Positions
    BY AskedPosition DEF Asking, AtChapter
  <1>3. j \in JobIds /\ cpc[c] = "reset"
    BY DEF RetryLands, Pointed
  <1>4. CASE UNCHANGED rows
    BY <1>1, <1>4, KeptWithChapters DEF rows
  <1>5. CASE ~UNCHANGED rows
    <2>1. /\ status' = [status EXCEPT ![j] = "queued"]
          /\ chapter' = [chapter EXCEPT ![j] =
               [p \in Positions |-> IF p \in cseen[c].reset THEN "pending" ELSE @[p]]]
          /\ cpc'[c] = "requeue"
      BY <1>5 DEF RetryLands, ClientGoes, ClientHolds
    <2>2. \A i \in JobIds, p \in Positions :
            /\ i # j => chapter'[i][p] = chapter[i][p] /\ status'[i] = status[i]
            /\ i = j => /\ chapter'[i][p] = IF p \in cseen[c].reset THEN "pending"
                                            ELSE chapter[j][p]
                        /\ status'[i] = "queued"
      BY <1>3, <2>1
    <2>3. Keeping
      BY <1>3, <2>1, <2>2 DEF Keeping, Chosen
    <2>4. ASSUME NEW i \in JobIds, NEW p \in Positions, chapter'[i][p] = "completed"
          PROVE  chapter[i][p] = "completed"
      <3>1. CASE i # j
        BY <2>2, <2>4, <3>1
      <3>2. CASE i = j
        BY <2>2, <2>4, <3>2
      <3> QED
        BY <3>1, <3>2
    <2>5. AskingInv'
      <3>1. wpc' \in Asking => ~(chapter'[wjob'][wpos'] = "completed" /\ HasFile(wjob, wpos)')
        BY <1>1, <1>2, <2>4 DEF AskingInv, HasFile
      <3>2. \A i \in JobIds : status'[i] = "absent" => \A p \in Positions : chapter'[i][p] = "none"
        BY <2>2 DEF AskingInv
      <3> QED
        BY <3>1, <3>2 DEF AskingInv
    <2> QED
      BY <2>3, <2>5
  <1> QED
    BY <1>4, <1>5

LEMMA NextKeeps ==
    ASSUME TypeInv, AskingInv, [Next]_vars
    PROVE  AskingInv' /\ Keeping
  <1>1. ASSUME NEW c \in Clients, ClientStep(c), ~RetryLands(c)
        PROVE  AskingInv' /\ Keeping
    <2>1. chapter' = chapter /\ files' \subseteq files
      BY <1>1 DEF ClientStep, EnqueueStep, Reject, CancelLands, RetryReads,
         DeliverChecks, DeliverExpires, Upload, Uploaded, Unlink, RemoveFiles, rows, disk
    <2>2. UNCHANGED worker \/ wpc' = "get"
      BY <1>1 DEF ClientStep, EnqueueStep, Enqueue, EnsureWorker, WorkerGoes, Reject, CancelLands,
         RetryReads, DeliverChecks, DeliverExpires, Upload, Uploaded, Unlink
    <2>3. \A j \in JobIds : status'[j] = "absent" => status[j] = "absent"
      BY <1>1 DEF ClientStep, EnqueueStep, Reject, CancelLands, RetryReads,
         DeliverChecks, DeliverExpires, Upload, Uploaded, Unlink, rows, SetStatus,
         TypeInv, TypeOK
    <2> QED
      BY <2>1, <2>2, <2>3, KeptWithChapters DEF worker, Asking
  <1>2. CASE Environment
    <2>1. chapter' = chapter
      BY <1>2 DEF Environment, Expire, TogglePerm, ToggleBot, Restart, WDbError, rows
    <2>2. wpc' \in Asking => UNCHANGED <<wpc, wjob, wpos>> /\ files' \subseteq files
      BY <1>2 DEF Environment, Expire, TogglePerm, ToggleBot, Restart, Lost, WDbError, WorkerGoes,
         RemoveFiles, disk, worker, Asking
    <2>3. \A j \in JobIds : status'[j] = "absent" => status[j] = "absent"
      BY <1>2 DEF Environment, Expire, TogglePerm, ToggleBot, Restart, WDbError, rows
    <2> QED
      BY <2>1, <2>2, <2>3, KeptWithChapters
  <1>3. CASE UNCHANGED vars
    BY <1>3, KeptWithChapters DEF vars, rows, disk, worker
  <1> QED
    BY <1>1, <1>2, <1>3, WorkerKeeps, CommandsKeep, RetryKeeps DEF Next

LEMMA NextChooses ==
    ASSUME TypeInv, UnreadInv, [Next]_vars
    PROVE  UnreadInv' /\ Choosing
  <1>1. ASSUME NEW c \in Clients, ClientStep(c)
        PROVE  UnreadInv' /\ Choosing
    <2>1. /\ cpc'[c] # "retry"
          /\ \A d \in Clients \ {c} : cpc'[d] = cpc[d] /\ cseen'[d] = cseen[d]
      BY <1>1 DEF ClientStep, EnqueueStep, Reject, CancelLands, RetryReads, RetryLands,
         DeliverChecks, DeliverExpires, Upload, Uploaded, Unlink, ClientGoes, ClientHolds,
         TypeInv, TypeOK
    <2>2. ASSUME cpc[c] = "retry", NEW p \in Positions,
                 chapter[cjob[c]][p] = "completed", HasFile(cjob[c], p)
          PROVE  p \notin cseen'[c].reset
      <3>1. RetryReads(c)
        BY <1>1, <2>2 DEF ClientStep, EnqueueStep, Reject, CancelLands, RetryLands,
           DeliverChecks, DeliverExpires, Upload, Uploaded, Unlink
      <3>2. Keeps(cjob[c], p, cseen[c].status)
        BY <2>2 DEF Keeps
      <3>3. cseen[c] \in Seen /\ cseen \in [Clients -> Seen]
        BY DEF TypeInv, TypeOK
      <3>4. CASE cseen'[c] = Nothing
        BY <3>4 DEF Nothing
      <3>5. CASE cseen'[c] # Nothing
        <4>1. cseen'[c] = [cseen[c] EXCEPT !.reset =
                {q \in Positions : ~Keeps(cjob[c], q, cseen[c].status)
                                   /\ chapter[cjob[c]][q] # "pending"}]
          BY <3>1, <3>3, <3>5 DEF RetryReads, ClientGoes, ClientHolds
        <4>2. cseen'[c].reset =
                {q \in Positions : ~Keeps(cjob[c], q, cseen[c].status)
                                   /\ chapter[cjob[c]][q] # "pending"}
          BY <3>3, <4>1 DEF Seen
        <4> QED
          BY <3>2, <4>2
      <3> QED
        BY <3>4, <3>5
    <2>3. UnreadInv'
      BY <2>1 DEF UnreadInv
    <2>4. Choosing
      BY <2>1, <2>2 DEF Choosing, UnreadInv
    <2> QED
      BY <2>3, <2>4
  <1>2. CASE Commands
    <2>1. PICK c \in Clients :
            /\ cpc[c] = "idle"
            /\ cpc'[c] = "retry" => cseen'[c].reset = {}
            /\ \A d \in Clients \ {c} : cpc'[d] = cpc[d] /\ cseen'[d] = cseen[d]
      <3> USE DEF TypeInv, TypeOK
      <3>1. ASSUME NEW c \in Clients, NEW u \in Users, NEW g \in Groups \cup {NoGroup},
                   NEW n \in Positions, Submit(c, u, g, n)
            PROVE  /\ cpc[c] = "idle" /\ cpc'[c] = "enqueue"
                   /\ \A d \in Clients \ {c} : cpc'[d] = cpc[d] /\ cseen'[d] = cseen[d]
        BY <3>1 DEF Submit, ClientGoes, ClientHolds
      <3>2. ASSUME NEW c \in Clients, NEW j \in JobIds,
                   Cancel(c, j) \/ Retry(c, j) \/ Deliver(c, j)
            PROVE  /\ cpc[c] = "idle" /\ cseen'[c].reset = {}
                   /\ \A d \in Clients \ {c} : cpc'[d] = cpc[d] /\ cseen'[d] = cseen[d]
        <4>1. PICK pc \in ClientPc : Reads(c, pc, j)
          BY <3>2 DEF Cancel, Retry, Deliver, ClientPc
        <4> QED
          BY <4>1 DEF Reads, ClientHolds
      <3>3. ASSUME NEW c \in Clients, NEW j \in JobIds, Delete(c, j)
            PROVE  /\ cpc[c] = "idle" /\ cpc'[c] = "unlink"
                   /\ \A d \in Clients \ {c} : cpc'[d] = cpc[d] /\ cseen'[d] = cseen[d]
        BY <3>3 DEF Delete
      <3> QED
        BY <1>2, <3>1, <3>2, <3>3 DEF Commands
    <2>2. UnreadInv'
      BY <2>1 DEF UnreadInv
    <2>3. ASSUME NEW d \in Clients, cpc[d] = "retry"
          PROVE  cseen'[d].reset = {}
      <3>1. d # c
        BY <2>1, <2>3
      <3> QED
        BY <2>1, <2>3, <3>1 DEF UnreadInv
    <2> QED
      BY <2>2, <2>3 DEF Choosing
  <1>3. CASE Restart
    <2>1. \A c \in Clients : cpc'[c] = "idle" /\ cseen'[c].reset = {}
      BY <1>3 DEF Restart, Lost, Nothing
    <2> QED
      BY <2>1 DEF UnreadInv, Choosing
  <1>4. CASE UNCHANGED clients
    BY <1>4 DEF clients, UnreadInv, Choosing
  <1>5. CASE WorkerStep \/ Expire \/ TogglePerm \/ ToggleBot \/ WDbError \/ UNCHANGED vars
    <2>1. UNCHANGED clients
      BY <1>5 DEF WorkerStep, WGet, WStart, WBegin, WLoop, WSetCancel, WCheck, WFetch, WMark, Mark,
         WJobFail, WNotify, WFinal, WMerge, WComplete, WAllowed, WSend, WSent, WExcept, WFill,
         WPut, WPutEnd, Expire, TogglePerm, ToggleBot, WDbError, vars, clients
    <2> QED
      BY <1>4, <2>1
  <1> QED
    BY <1>1, <1>2, <1>3, <1>5 DEF Next, Environment

(* A chapter that was downloaded stays downloaded while its file exists,   *)
(* for every number of retries, restarts, expiries and database errors: no *)
(* retry chooses it, and only the commit of one that had chosen it before  *)
(* takes it back.                                                          *)
THEOREM DownloadsStay == Spec => DownloadsKept
  <1>1. Init => AskingInv /\ UnreadInv
    BY DEF Init, Fresh, AskingInv, Asking, UnreadInv
  <1>2. TypeInv /\ AskingInv /\ UnreadInv /\ [Next]_vars
            => AskingInv' /\ UnreadInv' /\ Keeping /\ Choosing
    BY NextKeeps, NextChooses
  <1>3. [Keeping /\ Choosing]_vars =>
          [\A j \in JobIds, p \in Positions :
            (chapter[j][p] = "completed" /\ HasFile(j, p)) =>
                /\ \A c \in Clients : cpc[c] = "retry" /\ cjob[c] = j => p \notin cseen'[c].reset
                /\ \/ chapter'[j][p] = "completed" \/ status'[j] = "absent"
                   \/ \E c \in Clients : /\ cpc[c] = "reset" /\ cpc'[c] = "requeue"
                                     /\ cjob[c] = j /\ p \in cseen[c].reset]_vars
    BY DEF Keeping, Choosing, Chosen
  <1> QED
    BY InitTypes, NextTypes, <1>1, <1>2, <1>3, PTL DEF Spec, DownloadsKept
=============================================================================
