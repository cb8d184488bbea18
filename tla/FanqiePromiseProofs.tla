-------------------------- MODULE FanqiePromiseProofs --------------------------
(***************************************************************************)
(* What FanqieJobs promises where the README says it does: that no job is  *)
(* forgotten while the database answers; that no book stands in for a      *)
(* chapter while the job in hand is left alone; that the rows move as      *)
(* JobLifecycle says where the queue has room and no command's commit      *)
(* comes too late; and what it takes to fail a job whose book is there.    *)
(***************************************************************************)
EXTENDS FanqieJobsProofs

-----------------------------------------------------------------------------
(* No job is forgotten. *)

(* A command that has committed its job and not heard of the queue yet. *)
Submitting(j) ==
    \E c \in Clients : cjob[c] = j /\ cpc[c] \in {"enqueue", "requeue", "reject", "refuse"}

(* The worker has nothing, will not look again before it sleeps, and does  *)
(* not hold anything it has read.                                          *)
Asleep == queue = <<>> /\ (wpc = "get" \/ (wpc = "put" /\ wfill = {}))

SleepInv ==
    DatabaseErrors = 0 =>
        /\ wpc # "dead"
        /\ Asleep => \A j \in JobIds : status[j] = "queued" => Submitting(j)

LEMMA EmptyQueue ==
    ASSUME QueueMirrorsIds, queue = <<>>
    PROVE  queuedIds = {} /\ Len(queue) = 0
  <1>1. DOMAIN queue = {} /\ Len(queue) = 0
    OBVIOUS
  <1> QED
    BY <1>1 DEF QueueMirrorsIds

LEMMA AppendedNotEmpty ==
    ASSUME NEW j \in JobIds, queue \in Seq(JobIds)
    PROVE  Append(queue, j) # <<>>
  <1>1. Len(Append(queue, j)) = Len(queue) + 1 /\ Len(queue) \in Nat /\ Len(<<>>) = 0
    OBVIOUS
  <1> QED
    BY <1>1

(* A fill that reads nothing has found no job that waits. *)
LEMMA FillFinds ==
    ASSUME WaitingIds = {}
    PROVE  \A j \in JobIds : status[j] # "queued"
  <1> DEFINE Q == {j \in JobIds : status[j] = "queued"}
  <1> SUFFICES ASSUME Q # {} PROVE FALSE
    OBVIOUS
  <1>1. Q \subseteq Nat
    BY FanqieAssumption DEF JobIds
  <1> DEFINE Less == OpToRel(<, Nat)
  <1>a. IsWellFoundedOn(Less, Nat)
    BY NatLessThanWellFounded
  <1>b. \A k, j \in Nat : k < j => <<k, j>> \in Less
    BY DEF OpToRel
  <1>2. PICK j \in Q : \A k \in Q : ~ (<<k, j>> \in Less)
    <2> HIDE DEF Q, Less
    <2> QED
      BY <1>1, <1>a, WFMin
  <1>3. \A k \in Q : ~ (k < j)
    <2> HIDE DEF Q, Less
    <2> QED
      BY <1>1, <1>b, <1>2
  <1>4. {k \in Q : k < j} = {}
    BY <1>3
  <1>5. Cardinality({k \in Q : k < j}) = 0
    BY <1>4, FS_EmptySet
  <1>6. j \in WaitingIds
    BY <1>5, FanqieAssumption DEF WaitingIds
  <1> QED
    BY <1>6

LEMMA SleepWorker ==
    ASSUME TypeInv, QueueMirrorsIds, SleepInv, WorkerStep
    PROVE  SleepInv'
  <1> USE DEF WorkerGoes, Asleep
  <1>0. DatabaseErrors' = DatabaseErrors
    BY DEF WorkerStep, WGet, WStart, WBegin, WLoop, WSetCancel, WCheck, WFetch, WMark, Mark,
       WJobFail, WNotify, WFinal, WMerge, WComplete, WAllowed, WSend, WSent, WExcept, WFill,
       WPut, WPutEnd, world, DatabaseErrors
  <1>1. CASE WFill
    <2>1. wpc' = "put" /\ wfill' = WaitingIds /\ status' = status
      BY <1>1 DEF WFill, rows
    <2>2. Asleep' => \A j \in JobIds : status'[j] # "queued"
      BY <2>1, FillFinds
    <2> QED
      BY <2>1, <2>2 DEF SleepInv
  <1>2. CASE WPut
    <2>1. wpc' = "put"
      BY <1>2 DEF WPut
    <2>2. PICK j \in wfill : IF j \in queuedIds THEN queue' = queue ELSE queue' = Append(queue, j)
      BY <1>2 DEF WPut, waiting
    <2>3. j \in JobIds /\ queue \in Seq(JobIds)
      BY DEF TypeInv, TypeOK
    <2>4. Append(queue, j) # <<>>
      BY <2>3, AppendedNotEmpty
    <2>a. j \in queuedIds => queue # <<>>
      BY EmptyQueue
    <2>5. queue' # <<>>
      BY <2>2, <2>4, <2>a
    <2> QED
      BY <2>1, <2>5 DEF SleepInv
  <1>3. CASE WPutEnd
    <2>1. /\ wpc = "put" /\ wpc' = "get" /\ (wfill = {} \/ Len(queue) = QueueMax)
          /\ UNCHANGED <<queue, status, cpc, cjob>>
      BY <1>3 DEF WPutEnd, rows, waiting, clients
    <2>2. queue = <<>> => wfill = {}
      BY <2>1, EmptyQueue, FanqieAssumption
    <2> QED
      BY <1>0, <2>1, <2>2 DEF SleepInv, Submitting
  <1>4. CASE ~WFill /\ ~WPut /\ ~WPutEnd
    <2>1. wpc' \notin {"get", "put", "dead"}
      BY <1>4 DEF WorkerStep, WGet, WStart, WBegin, WLoop, WSetCancel, WCheck, WFetch, WMark, Mark,
         WJobFail, WNotify, WFinal, WMerge, WComplete, WAllowed, WSend, WSent, WExcept
    <2> QED
      BY <2>1 DEF SleepInv
  <1> QED
    BY <1>1, <1>2, <1>3, <1>4

(* A step beside a sleeping worker that puts no job back in the queue       *)
(* unless its command goes on to enqueue it.                               *)
LEMMA SleepKept ==
    ASSUME SleepInv, DatabaseErrors' = DatabaseErrors, UNCHANGED <<queue, wpc, wfill>>,
           \A j \in JobIds : status'[j] = "queued" =>
              \/ Submitting(j)'
              \/ status[j] = "queued" /\ (Submitting(j) => Submitting(j)')
    PROVE  SleepInv'
  BY DEF SleepInv, Asleep

(* The same, where a handler that was not on its way to the queue moves. *)
LEMMA SleepBeside ==
    ASSUME SleepInv, DatabaseErrors' = DatabaseErrors, UNCHANGED <<queue, wpc, wfill>>,
           NEW c \in Clients, cpc[c] \notin {"enqueue", "requeue", "reject", "refuse"},
           \A d \in Clients : d # c => cpc'[d] = cpc[d] /\ cjob'[d] = cjob[d],
           \A j \in JobIds : status'[j] = "queued" =>
              \/ status[j] = "queued"
              \/ cpc'[c] \in {"enqueue", "requeue"} /\ cjob'[c] = j
    PROVE  SleepInv'
  <1>1. \A j \in JobIds : Submitting(j) => Submitting(j)'
    BY DEF Submitting
  <1>2. \A j \in JobIds : cpc'[c] \in {"enqueue", "requeue"} /\ cjob'[c] = j => Submitting(j)'
    BY DEF Submitting
  <1> QED
    BY <1>1, <1>2, SleepKept

LEMMA SleepClient ==
    ASSUME TypeInv, QueueMirrorsIds, SleepInv, NEW c \in Clients, ClientStep(c)
    PROVE  SleepInv'
  <1>0. /\ DatabaseErrors' = DatabaseErrors /\ status \in [JobIds -> JobStatus]
        /\ cpc \in [Clients -> ClientPc] /\ cjob \in [Clients -> JobIds \cup {0}]
        /\ \A d \in Clients : d # c => cpc'[d] = cpc[d] /\ cjob'[d] = cjob[d]
    BY DEF ClientStep, EnqueueStep, Reject, CancelLands, RetryReads, RetryLands, DeliverChecks,
       DeliverExpires, Upload, Uploaded, Unlink, ClientGoes, ClientHolds, world, DatabaseErrors,
       TypeInv, TypeOK
  <1>1. CASE EnqueueStep(c)
    <2>1. /\ wpc # "put" /\ wpc' = IF wpc = "dead" THEN "get" ELSE wpc
          /\ \/ UNCHANGED queue /\ (cjob[c] \in queuedIds \/ Len(queue) = QueueMax)
             \/ queue' = Append(queue, cjob[c])
      BY <1>1 DEF EnqueueStep, Enqueue, EnsureWorker, WorkerGoes, QueueLocked, waiting, worker
    <2>2. cjob[c] \in JobIds /\ queue \in Seq(JobIds)
      BY <1>1 DEF EnqueueStep, TypeInv, TypeOK, Pointed
    <2>3. Append(queue, cjob[c]) # <<>>
      BY <2>2, AppendedNotEmpty
    <2>4. queue' # <<>>
      BY <2>1, <2>3, EmptyQueue, FanqieAssumption
    <2> QED
      BY <1>0, <2>1, <2>4 DEF SleepInv, Asleep
  <1>2. CASE Reject(c)
    <2>1. /\ UNCHANGED <<queue, wpc, wfill>>
          /\ cpc' = [cpc EXCEPT ![c] = "idle"] /\ cjob' = [cjob EXCEPT ![c] = 0]
          /\ status' = IF status[cjob[c]] # "absent" THEN [status EXCEPT ![cjob[c]] = "failed"]
                       ELSE status
      BY <1>2 DEF Reject, ClientGoes, ClientHolds, SetStatus, Exists, waiting, worker
    <2>2. \A j \in JobIds : status'[j] = "queued" => status[j] = "queued" /\ j # cjob[c]
      BY <2>1 DEF TypeInv, TypeOK
    <2>3. \A j \in JobIds : j # cjob[c] => (Submitting(j) => Submitting(j)')
      BY <1>0, <2>1 DEF Submitting
    <2> QED
      BY <1>0, <2>1, <2>2, <2>3, SleepKept
  <1>3. CASE Upload(c) \/ Uploaded(c) \/ Unlink(c) \/ RetryReads(c) \/ DeliverChecks(c)
    <2>1. /\ UNCHANGED <<queue, wpc, wfill, status>>
          /\ cpc[c] \in {"upload", "uploaded", "notsent", "unlink", "retry", "deliver"}
      BY <1>3 DEF Upload, Uploaded, Unlink, RetryReads, DeliverChecks, waiting, worker, rows
    <2> QED
      BY <1>0, <2>1, SleepBeside
  <1>4. CASE CancelLands(c) \/ DeliverExpires(c)
    <2>1. /\ UNCHANGED <<queue, wpc, wfill>> /\ cpc[c] \in {"cancel", "expired"}
          /\ status' \in {status, [status EXCEPT ![cjob[c]] = "cancelled"],
                          [status EXCEPT ![cjob[c]] = "failed"]}
      BY <1>4 DEF CancelLands, DeliverExpires, SetStatus, waiting, worker
    <2>2. \A j \in JobIds : status'[j] = "queued" => status[j] = "queued"
      BY <1>0, <2>1
    <2> QED
      BY <1>0, <2>1, <2>2, SleepBeside
  <1>5. CASE RetryLands(c)
    <2>1. UNCHANGED <<queue, wpc, wfill>> /\ cpc[c] = "reset"
      BY <1>5 DEF RetryLands, waiting, worker
    <2>2. \/ status' = status
          \/ /\ status' = [status EXCEPT ![cjob[c]] = "queued"]
             /\ cpc'[c] = "requeue" /\ cjob'[c] = cjob[c]
      BY <1>0, <1>5 DEF RetryLands, ClientGoes, ClientHolds, rows
    <2>3. \A j \in JobIds : status'[j] = "queued" =>
              status[j] = "queued" \/ (cpc'[c] \in {"enqueue", "requeue"} /\ cjob'[c] = j)
      BY <1>0, <2>2
    <2> QED
      BY <1>0, <2>1, <2>3, SleepBeside
  <1> QED
    BY <1>1, <1>2, <1>3, <1>4, <1>5 DEF ClientStep

LEMMA SleepCommands ==
    ASSUME TypeInv, SleepInv, Commands
    PROVE  SleepInv'
  <1>0. /\ DatabaseErrors' = DatabaseErrors /\ UNCHANGED <<queue, wpc, wfill>>
        /\ cpc \in [Clients -> ClientPc] /\ cjob \in [Clients -> JobIds \cup {0}]
        /\ status \in [JobIds -> JobStatus]
    BY DEF Commands, Submit, Retry, Deliver, Delete, Cancel, Reads, Spend, DatabaseErrors, Kinds,
       TypeInv, TypeOK, waiting, worker
  <1>1. ASSUME NEW c \in Clients, NEW u \in Users, NEW g \in Groups \cup {NoGroup},
               NEW n \in Positions, Submit(c, u, g, n)
        PROVE  SleepInv'
    <2>1. PICK j \in JobIds : status' = [status EXCEPT ![j] = "queued"] /\ ClientGoes(c, "enqueue", j)
      BY <1>1 DEF Submit
    <2>2. cpc[c] = "idle"
      BY <1>1 DEF Submit
    <2>3. /\ cpc'[c] = "enqueue" /\ cjob'[c] = j
          /\ \A d \in Clients : d # c => cpc'[d] = cpc[d] /\ cjob'[d] = cjob[d]
      BY <1>0, <2>1 DEF ClientGoes, ClientHolds
    <2> QED
      BY <1>0, <2>1, <2>2, <2>3, SleepBeside
  <1>2. ASSUME NEW c \in Clients, NEW j \in JobIds,
               Cancel(c, j) \/ Retry(c, j) \/ Deliver(c, j)
        PROVE  SleepInv'
    <2>1. /\ status' = status /\ cpc[c] = "idle"
          /\ \A d \in Clients : d # c => cpc'[d] = cpc[d] /\ cjob'[d] = cjob[d]
      BY <1>0, <1>2 DEF Cancel, Retry, Deliver, Reads, ClientHolds, rows
    <2> QED
      BY <1>0, <2>1, SleepBeside
  <1>3. ASSUME NEW c \in Clients, NEW j \in JobIds, Delete(c, j)
        PROVE  SleepInv'
    <2>1. /\ cpc[c] = "idle"
          /\ \A d \in Clients : d # c => cpc'[d] = cpc[d] /\ cjob'[d] = cjob[d]
      BY <1>0, <1>3 DEF Delete
    <2>2. \A i \in JobIds : status'[i] = "queued" => status[i] = "queued"
      BY <1>0, <1>3 DEF Delete
    <2> QED
      BY <1>0, <2>1, <2>2, SleepBeside
  <1> QED
    BY <1>1, <1>2, <1>3 DEF Commands

LEMMA SleepEnvironment ==
    ASSUME TypeInv, RunningInv, SleepInv, Environment
    PROVE  SleepInv'
  <1>1. CASE Expire \/ TogglePerm \/ ToggleBot
    <2>1. DatabaseErrors' = DatabaseErrors /\ UNCHANGED <<queue, wpc, wfill, status, cpc, cjob>>
      BY <1>1 DEF Expire, TogglePerm, ToggleBot, Spend, DatabaseErrors, Kinds, TypeInv, TypeOK,
         rows, waiting, worker, clients
    <2> QED
      BY <2>1, SleepKept DEF Submitting
  <1>2. CASE Restart
    <2>1. wpc' = "fill"
      BY <1>2 DEF Restart, Lost
    <2> QED
      BY <2>1 DEF SleepInv, Asleep
  <1>3. CASE WDbError
    <2>1. /\ left["dberror"] \in Nat /\ left["dberror"] > 0 /\ Budget["dberror"] \in Nat
          /\ left'["dberror"] = left["dberror"] - 1 /\ left["dberror"] <= Budget["dberror"]
      BY <1>3, FanqieAssumption DEF WDbError, Spend, TypeInv, TypeOK, Kinds, RunningInv
    <2>2. DatabaseErrors' # 0
      BY <2>1 DEF DatabaseErrors
    <2> QED
      BY <2>2 DEF SleepInv
  <1> QED
    BY <1>1, <1>2, <1>3 DEF Environment

(* While the database answers, no job is left queued or running when the   *)
(* worker sleeps on an empty queue and no command is under way, for every  *)
(* size of the queue and every number of jobs, restarts and deletions.     *)
THEOREM AllPickedUp == Spec => []NoneForgotten
  <1>1. Init => SleepInv /\ RunningInv /\ QueueMirrorsIds
    BY FanqieAssumption DEF Init, Fresh, SleepInv, RunningInv, RunningHasWorker, DatabaseErrors, Told,
       Kinds, QueueMirrorsIds
  <1>2. TypeInv /\ QueueMirrorsIds /\ RunningInv /\ SleepInv /\ [Next]_vars => SleepInv'
    <2>1. ASSUME SleepInv, UNCHANGED vars PROVE SleepInv'
      BY <2>1, SleepKept DEF vars, rows, waiting, worker, clients, world, DatabaseErrors, Submitting
    <2> QED
      BY <2>1, SleepWorker, SleepClient, SleepCommands, SleepEnvironment DEF Next
  <1>3. TypeInv /\ RunningInv /\ SleepInv => NoneForgotten
    BY DEF NoneForgotten, SleepInv, Asleep, Submitting, RunningInv, RunningHasWorker, Active
  <1>4. TypeInv /\ QueueMirrorsIds /\ [Next]_vars => QueueMirrorsIds'
    BY MirrorsNext
  <1>5. TypeInv /\ RunningInv /\ [Next]_vars => RunningInv'
    BY RunningNext
  <1> QED
    BY InitTypes, NextTypes, <1>1, <1>2, <1>3, <1>4, <1>5, PTL DEF Spec

-----------------------------------------------------------------------------
(* No book stands in for a chapter. *)

(* While the worker has a job in hand, no retry of it lands and nobody     *)
(* deletes it.                                                             *)
HandsOff ==
    /\ \A c \in Clients : RetryLands(c) /\ cjob[c] = wjob => wpc \notin Working
    /\ \A c \in Clients : Delete(c, wjob) => wpc \notin Working \cup {"begin"}

(* The job in hand has a row. *)
Grasp == wpc \in Working \cup {"begin"} => Exists(wjob)

(* A step that removes no row, and takes the worker no further. *)
LEMMA GraspKept ==
    ASSUME TypeInv, Grasp, UNCHANGED worker \/ wpc' \notin Working \cup {"begin"},
           \A j \in JobIds : status[j] # "absent" => status'[j] # "absent"
    PROVE  Grasp'
  BY DEF Grasp, Exists, worker, TypeInv, Pointed, Resting, Working

LEMMA GraspWorker ==
    ASSUME TypeInv, Grasp, WorkerStep
    PROVE  Grasp'
  <1> USE DEF Grasp, WorkerGoes, SetStatus, Exists
  <1>0. /\ status \in [JobIds -> JobStatus]
        /\ wpc \notin Resting => wjob \in JobIds
    BY DEF TypeInv, TypeOK, Pointed
  <1>1. CASE WStart
    BY <1>0, <1>1 DEF WStart, Active, Working
  <1>2. CASE WBegin
    BY <1>0, <1>2 DEF WBegin, Resting, Working
  <1>3. CASE WLoop \/ WFetch \/ WMark \/ WFinal \/ WMerge
    <2>1. wpc \in Working /\ status' = status /\ (wpc' \in Working \cup {"begin"} => wjob' = wjob)
      BY <1>3 DEF WLoop, WFetch, WMark, Mark, WFinal, WMerge, rows, Working
    <2> QED
      BY <2>1
  <1>4. CASE WCheck
    BY <1>0, <1>4 DEF WCheck, Working
  <1>5. CASE ~WStart /\ ~WBegin /\ ~WLoop /\ ~WFetch /\ ~WMark /\ ~WFinal /\ ~WMerge /\ ~WCheck
    <2>1. wpc' \notin Working \cup {"begin"}
      BY <1>5 DEF WorkerStep, WGet, WSetCancel, WJobFail, WNotify, WComplete, WAllowed, WSend,
         WSent, WExcept, WFill, WPut, WPutEnd, Working
    <2> QED
      BY <2>1
  <1> QED
    BY <1>1, <1>2, <1>3, <1>4, <1>5

LEMMA GraspNext ==
    ASSUME TypeInv, Grasp, [Next]_vars, [HandsOff]_vars
    PROVE  Grasp'
  <1>0. status \in [JobIds -> JobStatus]
    BY DEF TypeInv, TypeOK
  <1>1. ASSUME NEW c \in Clients, ClientStep(c) PROVE Grasp'
    <2>1. UNCHANGED worker \/ wpc' = "get"
      BY <1>1 DEF ClientStep, EnqueueStep, Enqueue, EnsureWorker, WorkerGoes, Reject, CancelLands,
         RetryReads, RetryLands, DeliverChecks, DeliverExpires, Upload, Uploaded, Unlink
    <2>2. \A j \in JobIds : status[j] # "absent" => status'[j] # "absent"
      BY <1>0, <1>1 DEF ClientStep, EnqueueStep, Reject, CancelLands, RetryReads, RetryLands,
         DeliverChecks, DeliverExpires, Upload, Uploaded, Unlink, SetStatus, rows
    <2> QED
      BY <2>1, <2>2, GraspKept DEF Working
  <1>2. ASSUME NEW c \in Clients, NEW u \in Users, NEW g \in Groups \cup {NoGroup},
               NEW n \in Positions, Submit(c, u, g, n)
        PROVE  Grasp'
    <2>1. \E j \in JobIds : status' = [status EXCEPT ![j] = "queued"]
      BY <1>2 DEF Submit
    <2>2. UNCHANGED worker
      BY <1>2 DEF Submit
    <2> QED
      BY <1>0, <2>1, <2>2, GraspKept
  <1>3. ASSUME NEW c \in Clients, NEW j \in JobIds,
               Cancel(c, j) \/ Retry(c, j) \/ Deliver(c, j)
        PROVE  Grasp'
    <2>1. UNCHANGED <<rows, worker>>
      BY <1>3 DEF Cancel, Retry, Deliver, Reads
    <2> QED
      BY <2>1, GraspKept DEF rows
  <1>4. ASSUME NEW c \in Clients, NEW j \in JobIds, Delete(c, j)
        PROVE  Grasp'
    <2>1. UNCHANGED worker /\ status' = [status EXCEPT ![j] = "absent"] /\ status[j] # "absent"
      BY <1>4 DEF Delete, Exists
    <2>2. UNCHANGED vars => FALSE
      BY <1>0, <2>1 DEF vars, rows
    <2>3. j = wjob => wpc \notin Working \cup {"begin"}
      BY <1>4, <2>2 DEF HandsOff
    <2>4. wpc \in Working \cup {"begin"} => wjob \in JobIds
      BY DEF TypeInv, Pointed, Resting, Working
    <2> QED
      BY <1>0, <2>1, <2>3, <2>4 DEF Grasp, Exists, worker
  <1>5. CASE Environment
    <2>1. \/ UNCHANGED <<rows, worker>>
          \/ wpc' \notin Working \cup {"begin"}
      BY <1>5 DEF Environment, Expire, TogglePerm, ToggleBot, Restart, Lost, WDbError,
         WorkerGoes, Working
    <2> QED
      BY <2>1, GraspKept DEF rows, Grasp
  <1>6. CASE UNCHANGED vars
    BY <1>6, GraspKept DEF vars, rows
  <1> QED
    BY <1>1, <1>2, <1>3, <1>4, <1>5, <1>6, GraspWorker DEF Next, Commands

(* The chapters of a job are numbered from one. *)
Numbered ==
    \A j \in JobIds : \E n \in 0..MaxChapters :
        \A p \in Positions : chapter[j][p] # "none" <=> p <= n

(* The snapshot of the worker is that of the job, and what lies behind it   *)
(* in the chapter loop is settled.                                         *)
LoopInv ==
    /\ wpc \in Working \cup {"begin"} =>
          \A p \in Positions : chapter[wjob][p] # "none" <=> p <= wlen
    /\ wpc \in Working =>
          \A p \in Positions : p < wpos => chapter[wjob][p] \notin {"pending", "failed"}
    /\ wpc \in {"final", "merge"} => wpos > wlen

HoleInv == NoHoles /\ Numbered /\ LoopInv

LEMMA CountChapters ==
    ASSUME Numbered, NEW j \in JobIds
    PROVE  \A p \in Positions : chapter[j][p] # "none" <=> p <= Cardinality(Chapters(j))
  <1>1. PICK n \in 0..MaxChapters : \A p \in Positions : chapter[j][p] # "none" <=> p <= n
    BY DEF Numbered
  <1>2. Chapters(j) = 1..n
    BY <1>1, FanqieAssumption DEF Chapters, Positions
  <1>3. Cardinality(Chapters(j)) = n
    BY <1>2, FS_Interval
  <1> QED
    BY <1>1, <1>3

(* A step that changes no chapter, and takes the worker no further. *)
LEMMA HolesKept ==
    ASSUME HoleInv, chapter' = chapter, gapped' \subseteq gapped,
           UNCHANGED worker \/ wpc' \notin Working \cup {"begin"}
    PROVE  HoleInv'
  BY DEF HoleInv, NoHoles, Numbered, LoopInv, worker, Working

LEMMA HolesWorker ==
    ASSUME TypeInv, Grasp, HoleInv, WorkerStep
    PROVE  HoleInv'
  <1> USE DEF HoleInv, WorkerGoes, Working
  <1>0. /\ wpc \notin Resting => wjob \in JobIds
        /\ wpos \in Nat /\ wlen \in Nat
        /\ chapter \in [JobIds -> [Positions -> ChapterStatus]]
        /\ Positions \subseteq Nat
    BY FanqieAssumption DEF TypeInv, TypeOK, Pointed, Positions
  <1>1. CASE WStart
    <2>1. wjob \in JobIds /\ UNCHANGED <<chapter, gapped>>
      BY <1>0, <1>1 DEF WStart, Resting, disk
    <2>2. CASE wpc' = "begin"
      <3>1. wlen' = Cardinality(Chapters(wjob)) /\ wjob' = wjob
        BY <1>1, <2>2 DEF WStart
      <3> QED
        BY <2>1, <2>2, <3>1, CountChapters DEF NoHoles, Numbered, LoopInv
    <2>3. CASE wpc' # "begin"
      <3>1. wpc' = "fill"
        BY <1>1, <2>3 DEF WStart
      <3> QED
        BY <2>1, <3>1, HolesKept
    <2> QED
      BY <2>2, <2>3
  <1>2. CASE WBegin
    <2>1. /\ wpc = "begin" /\ wpc' \in {"loop", "except"} /\ wpos' = 1
          /\ UNCHANGED <<chapter, gapped, wjob, wlen>>
      BY <1>2 DEF WBegin, disk
    <2>2. \A p \in Positions : ~ (p < wpos')
      BY <2>1, FanqieAssumption DEF Positions
    <2> QED
      BY <2>1, <2>2 DEF NoHoles, Numbered, LoopInv
  <1>3. CASE WLoop
    <2>1. /\ wpc = "loop" /\ wpc' \in {"final", "setcancel", "check"}
          /\ wpc' = "final" => wpos > wlen
          /\ UNCHANGED <<chapter, gapped, wjob, wlen, wpos>>
      BY <1>3 DEF WLoop, disk, rows
    <2> QED
      BY <2>1 DEF NoHoles, Numbered, LoopInv
  <1>4. CASE WCheck
    <2>1. wpc = "check" /\ UNCHANGED <<chapter, gapped>>
      BY <1>4 DEF WCheck, disk
    <2>2. CASE wpc' = "loop"
      <3>1. /\ wpos' = wpos + 1 /\ UNCHANGED <<wjob, wlen>>
            /\ chapter[wjob][wpos] = "none" \/ Settled(wjob, wpos)
        BY <1>4, <2>2 DEF WCheck
      <3>2. chapter[wjob][wpos] \notin {"pending", "failed"}
        BY <3>1 DEF Settled
      <3>3. \A p \in Positions : p < wpos' => p < wpos \/ p = wpos
        BY <1>0, <3>1
      <3> QED
        BY <2>1, <2>2, <3>1, <3>2, <3>3 DEF NoHoles, Numbered, LoopInv
    <2>3. CASE wpc' # "loop"
      <3>1. wpc' \in {"fill", "notify"} \/ (wpc' = "fetch" /\ UNCHANGED <<wjob, wlen, wpos>>)
        BY <1>4, <2>3 DEF WCheck
      <3> QED
        BY <2>1, <3>1 DEF NoHoles, Numbered, LoopInv
    <2> QED
      BY <2>2, <2>3
  <1>5. CASE WFetch
    <2>1. /\ wpc = "fetch" /\ wpc' \in Working \ {"final", "merge"}
          /\ UNCHANGED <<chapter, gapped, wjob, wlen, wpos>>
      BY <1>5 DEF WFetch, rows
    <2> QED
      BY <2>1 DEF NoHoles, Numbered, LoopInv
  <1>6. CASE WMark
    <2>1. wjob \in JobIds /\ wpos \in Positions
      BY <1>6, AskedPosition DEF WMark, AtChapter
    <2>2. PICK st \in ChapterStatus \ {"none"}, next \in {"loop", "jobfail"} :
            Mark(st, next) /\ (next = "loop" => st \notin {"pending", "failed"})
      BY <1>6 DEF WMark, ChapterStatus
    <2>3. /\ wpc \in Working /\ wpc' = next /\ wpos' = IF next = "loop" THEN wpos + 1 ELSE wpos
          /\ UNCHANGED <<gapped, wjob, wlen>>
      BY <1>6, <2>2 DEF WMark, Mark, disk
    <2>4. \A j \in JobIds, p \in Positions :
            /\ chapter'[j][p] = IF j = wjob /\ p = wpos /\ Exists(wjob) /\ chapter[j][p] # "none"
                               THEN st ELSE chapter[j][p]
            /\ chapter'[j][p] # "none" <=> chapter[j][p] # "none"
      BY <1>0, <2>1, <2>2 DEF Mark
    <2>5. Numbered'
      BY <2>4 DEF Numbered
    <2>6. Exists(wjob)
      BY <2>3 DEF Grasp
    <2>7. \A p \in Positions : p < wpos' => chapter'[wjob][p] \notin {"pending", "failed"}
      <3> SUFFICES ASSUME NEW p \in Positions, p < wpos'
                   PROVE  chapter'[wjob][p] \notin {"pending", "failed"}
        OBVIOUS
      <3>1. CASE p = wpos
        <4>1. next = "loop"
          BY <1>0, <2>3, <3>1
        <4> QED
          BY <2>1, <2>2, <2>4, <2>6, <3>1, <4>1
      <3>2. CASE p # wpos
        <4>1. p < wpos
          BY <1>0, <2>3, <3>2
        <4> QED
          BY <2>1, <2>3, <2>4, <3>2, <4>1 DEF LoopInv
      <3> QED
        BY <3>1, <3>2
    <2>8. LoopInv'
      BY <2>1, <2>3, <2>4, <2>7 DEF LoopInv
    <2> QED
      BY <2>3, <2>5, <2>8 DEF NoHoles
  <1>7. CASE WFinal
    <2>1. /\ wpc = "final" /\ wpc' \in {"setcancel", "merge"}
          /\ UNCHANGED <<chapter, gapped, wjob, wlen, wpos>>
      BY <1>7 DEF WFinal, disk, rows
    <2> QED
      BY <2>1 DEF NoHoles, Numbered, LoopInv
  <1>8. CASE WMerge
    <2>1. /\ wpc = "merge" /\ UNCHANGED chapter /\ wjob \in JobIds
          /\ wpc' \in {"fill", "jobfail", "complete"}
          /\ wpc' # "fill" => UNCHANGED <<wjob, wlen, wpos>>
      BY <1>0, <1>8 DEF WMerge, rows, Resting
    <2>2. ~ \E p \in Chapters(wjob) : chapter[wjob][p] \in {"pending", "failed"}
      <3> SUFFICES ASSUME NEW p \in Positions, chapter[wjob][p] # "none"
                   PROVE  chapter[wjob][p] \notin {"pending", "failed"}
        BY DEF Chapters
      <3>1. p <= wlen /\ wlen < wpos
        BY <2>1 DEF LoopInv
      <3> QED
        BY <1>0, <2>1, <3>1 DEF LoopInv
    <2>3. gapped' \subseteq gapped
      BY <1>8, <2>2 DEF WMerge, disk
    <2> QED
      BY <2>1, <2>3 DEF NoHoles, Numbered, LoopInv
  <1>9. CASE ~WStart /\ ~WBegin /\ ~WLoop /\ ~WCheck /\ ~WFetch /\ ~WMark /\ ~WFinal /\ ~WMerge
    <2>1. wpc' \notin Working \cup {"begin"} /\ UNCHANGED <<chapter, gapped>>
      BY <1>9 DEF WorkerStep, WGet, WSetCancel, WJobFail, WNotify, WComplete, WAllowed, WSend,
         WSent, WExcept, WFill, WPut, WPutEnd, rows, disk
    <2> QED
      BY <2>1, HolesKept
  <1> QED
    BY <1>1, <1>2, <1>3, <1>4, <1>5, <1>6, <1>7, <1>8, <1>9

(* A command that sets the chapters of a job the worker has not begun to   *)
(* work on.                                                                *)
LEMMA ChaptersSet ==
    ASSUME HoleInv, TypeInv, NEW j \in JobIds, UNCHANGED <<gapped, worker>>,
           NEW n \in 0..MaxChapters,
           \A p \in Positions : chapter'[j][p] # "none" <=> p <= n,
           \A i \in JobIds : i # j => chapter'[i] = chapter[i],
           wpc \in Working => wjob # j,
           wpc = "begin" /\ wjob = j => \A p \in Positions : chapter'[j][p] # "none" <=> chapter[j][p] # "none"
    PROVE  HoleInv'
  <1>1. wpc \in Working \cup {"begin"} => wjob \in JobIds
    BY DEF TypeInv, Pointed, Working, Resting
  <1>2. NoHoles'
    BY DEF HoleInv, NoHoles
  <1>3. Numbered'
    BY DEF HoleInv, Numbered
  <1>4. LoopInv'
    BY <1>1 DEF HoleInv, LoopInv, worker, Working
  <1> QED
    BY <1>2, <1>3, <1>4 DEF HoleInv

LEMMA HolesOutside ==
    ASSUME TypeInv, Grasp, HoleInv, Commands \/ Environment, [HandsOff]_vars
    PROVE  HoleInv'
  <1>0. /\ status \in [JobIds -> JobStatus] /\ chapter \in [JobIds -> [Positions -> ChapterStatus]]
    BY DEF TypeInv, TypeOK
  <1>1. ASSUME NEW c \in Clients, NEW u \in Users, NEW g \in Groups \cup {NoGroup},
               NEW n \in Positions, Submit(c, u, g, n)
        PROVE  HoleInv'
    <2>1. PICK j \in JobIds :
            /\ NextId(j)
            /\ chapter' = [chapter EXCEPT ![j] =
                            [p \in Positions |-> IF p <= n THEN "pending" ELSE "none"]]
      BY <1>1 DEF Submit
    <2>2. status[j] = "absent"
      BY <2>1 DEF NextId, Exists, JobIds
    <2>3. wpc \in Working \cup {"begin"} => wjob # j
      BY <2>2 DEF Grasp, Exists
    <2>4. n \in 0..MaxChapters
      BY FanqieAssumption DEF Positions
    <2>5. \A p \in Positions : chapter'[j][p] # "none" <=> p <= n
      BY <1>0, <2>1
    <2>6. UNCHANGED <<gapped, worker>>
      BY <1>1 DEF Submit, disk
    <2>7. \A i \in JobIds : i # j => chapter'[i] = chapter[i]
      BY <1>0, <2>1
    <2> QED
      BY <2>3, <2>4, <2>5, <2>6, <2>7, ChaptersSet
  <1>2. ASSUME NEW c \in Clients, NEW j \in JobIds, Delete(c, j)
        PROVE  HoleInv'
    <2>1. /\ chapter' = [chapter EXCEPT ![j] = [p \in Positions |-> "none"]]
          /\ status' = [status EXCEPT ![j] = "absent"] /\ status[j] # "absent"
          /\ UNCHANGED <<gapped, worker>>
      BY <1>2 DEF Delete, Exists, disk
    <2>2. UNCHANGED vars => FALSE
      BY <1>0, <2>1 DEF vars, rows
    <2>3. wpc \in Working \cup {"begin"} => wjob # j
      BY <1>2, <2>2 DEF HandsOff
    <2>4. 0 \in 0..MaxChapters /\ \A p \in Positions : chapter'[j][p] # "none" <=> p <= 0
      BY <1>0, <2>1, FanqieAssumption DEF Positions
    <2>5. \A i \in JobIds : i # j => chapter'[i] = chapter[i]
      BY <1>0, <2>1
    <2> QED
      BY <2>1, <2>3, <2>4, <2>5, ChaptersSet
  <1>3. ASSUME NEW c \in Clients, NEW j \in JobIds,
               Cancel(c, j) \/ Retry(c, j) \/ Deliver(c, j)
        PROVE  HoleInv'
    <2>1. UNCHANGED <<chapter, gapped, worker>>
      BY <1>3 DEF Cancel, Retry, Deliver, Reads, rows, disk
    <2> QED
      BY <2>1, HolesKept
  <1>4. CASE Environment
    <2>1. /\ chapter' = chapter /\ gapped' \subseteq gapped
          /\ UNCHANGED worker \/ wpc' \notin Working \cup {"begin"}
      BY <1>4 DEF Environment, Expire, RemoveFiles, TogglePerm, ToggleBot, Restart, Lost, WDbError,
         WorkerGoes, rows, disk, Working
    <2> QED
      BY <2>1, HolesKept
  <1> QED
    BY <1>1, <1>2, <1>3, <1>4 DEF Commands

(* A retry lands on a job the worker has not begun to work on. *)
LEMMA HolesRetry ==
    ASSUME TypeInv, Grasp, HoleInv, NEW c \in Clients, RetryLands(c), [HandsOff]_vars
    PROVE  HoleInv'
  <1>0. chapter \in [JobIds -> [Positions -> ChapterStatus]]
    BY DEF TypeInv, TypeOK
  <1> PICK j \in JobIds : j = cjob[c]
    BY DEF RetryLands, TypeInv, Pointed
  <1>1. UNCHANGED <<gapped, worker>>
    BY DEF RetryLands, disk
  <1>2. CASE chapter' = chapter
    BY <1>1, <1>2, HolesKept
  <1>3. CASE chapter' # chapter
    <2>1. /\ chapter' = [chapter EXCEPT ![j] =
               [p \in Positions |-> IF p \in cseen[c].reset THEN "pending" ELSE @[p]]]
          /\ cseen[c].reset \subseteq Chapters(j)
      BY <1>3 DEF RetryLands, rows
    <2>2. wpc \in Working => wjob # j
      BY <1>3 DEF HandsOff, vars, rows
    <2>3. \A p \in Positions : chapter'[j][p] = IF p \in cseen[c].reset THEN "pending" ELSE chapter[j][p]
      BY <1>0, <2>1
    <2>4. \A p \in Positions : chapter'[j][p] # "none" <=> chapter[j][p] # "none"
      BY <2>1, <2>3 DEF Chapters
    <2>5. PICK n \in 0..MaxChapters : \A p \in Positions : chapter[j][p] # "none" <=> p <= n
      BY DEF HoleInv, Numbered
    <2>6. \A p \in Positions : chapter'[j][p] # "none" <=> p <= n
      BY <2>4, <2>5
    <2>7. \A i \in JobIds : i # j => chapter'[i] = chapter[i]
      BY <1>0, <2>1
    <2> QED
      BY <1>1, <2>2, <2>4, <2>6, <2>7, ChaptersSet
  <1> QED
    BY <1>2, <1>3

LEMMA HolesNext ==
    ASSUME TypeInv, Grasp, HoleInv, [Next]_vars, [HandsOff]_vars
    PROVE  HoleInv'
  <1>1. ASSUME NEW c \in Clients, ClientStep(c), ~RetryLands(c) PROVE HoleInv'
    <2>1. /\ chapter' = chapter /\ gapped' \subseteq gapped
          /\ UNCHANGED worker \/ wpc' = "get"
      BY <1>1 DEF ClientStep, EnqueueStep, Enqueue, EnsureWorker, WorkerGoes, Reject, CancelLands,
         RetryReads, DeliverChecks, DeliverExpires, Upload, Uploaded, Unlink, RemoveFiles, rows,
         disk
    <2> QED
      BY <2>1, HolesKept DEF Working
  <1>2. CASE UNCHANGED vars
    BY <1>2, HolesKept DEF vars, rows, disk
  <1> QED
    BY <1>1, <1>2, HolesWorker, HolesOutside, HolesRetry DEF Next

(* No merged book stands in for a chapter that was neither downloaded nor   *)
(* found unavailable, for every number of jobs, commands in flight,        *)
(* expiries, restarts and errors, and every size of the queue, unless a    *)
(* retry lands on the job the worker has in hand, or that job is deleted.  *)
THEOREM OnlyTheJobInHandGetsHoles == Spec /\ [][HandsOff]_vars => []NoHoles
  <1>1. Init => Grasp /\ HoleInv
    <2>1. 0 \in 0..MaxChapters /\ \A p \in Positions : ~ (p <= 0)
      BY FanqieAssumption DEF Positions
    <2>2. Init => Numbered
      BY <2>1 DEF Init, Fresh, Numbered
    <2> QED
      BY <2>2 DEF Init, Fresh, Grasp, HoleInv, NoHoles, LoopInv, Working
  <1>2. TypeInv /\ Grasp /\ [Next]_vars /\ [HandsOff]_vars => Grasp'
    BY GraspNext
  <1>3. TypeInv /\ Grasp /\ HoleInv /\ [Next]_vars /\ [HandsOff]_vars => HoleInv'
    BY HolesNext
  <1>4. HoleInv => NoHoles
    BY DEF HoleInv
  <1> QED
    BY InitTypes, NextTypes, <1>1, <1>2, <1>3, <1>4, PTL DEF Spec

-----------------------------------------------------------------------------
(* The rows move as JobLifecycle promises. *)

(* fanqie_queue_max is no less than the number of jobs, so that no job that *)
(* was committed is refused; nobody calls delete_job; and neither the       *)
(* connection nor the database is ever lost.                               *)
Sheltered == QueueMax >= MaxJobId

Steady == /\ Sheltered
          /\ Budget["delete"] = 0 /\ Budget["bot"] = 0 /\ Budget["dberror"] = 0

(* The worker never comes to its exception handler; it starts a job that    *)
(* waits or was cancelled since it looked; one that it has in hand may show *)
(* as cancelled; and a cancelled job keeps the flag.                        *)
SteadyInv ==
    /\ bot /\ left["bot"] = 0 /\ left["dberror"] = 0 /\ left["delete"] = 0
    /\ \A c \in Clients : cpc[c] \notin {"reject", "refuse"}
    /\ wpc \notin {"except", "dead"}
    /\ \A j \in JobIds : status[j] = "cancelled" => cancel[j]
    /\ wpc = "begin" => status[wjob] \in {"queued", "cancelled"}
    /\ wpc \in Working => status[wjob] \in {"running", "cancelled"}
    /\ wpc = "setcancel" => cancel[wjob]

Wish == {j \in JobIds : cancel[j]}

(* The abstract step a step of the program is, if it is not a stutter. *)
Promised == Lifecycle!LNext \/ (status' = status /\ Wish' = Wish)

LEMMA QueueHasRoom ==
    ASSUME Sheltered, QueueMirrorsIds, queue \in Seq(JobIds), NEW j \in JobIds
    PROVE  Enqueued(j)
  <1> SUFFICES ASSUME j \notin queuedIds, Len(queue) >= QueueMax PROVE FALSE
    BY FanqieAssumption DEF Enqueued
  <1> DEFINE Others == JobIds \ {j}
  <1>1. IsFiniteSet(JobIds) /\ Cardinality(JobIds) = MaxJobId
    BY FS_Interval, FanqieAssumption DEF JobIds
  <1>2. IsFiniteSet(Others) /\ Cardinality(Others) = MaxJobId - 1
    BY <1>1, FS_RemoveElement
  <1>3. Len(queue) \in Nat /\ DOMAIN queue = 1..Len(queue)
    OBVIOUS
  <1>4. IsFiniteSet(DOMAIN queue) /\ Cardinality(DOMAIN queue) = Len(queue)
    BY <1>3, FS_Interval
  <1>5. Cardinality(Others) < Cardinality(DOMAIN queue)
    BY <1>2, <1>4, <1>3, FanqieAssumption DEF Sheltered
  <1>6. queue \in [DOMAIN queue -> Others]
    <2>1. queue \in [1..Len(queue) -> JobIds]
      OBVIOUS
    <2>2. \A i \in DOMAIN queue : queue[i] # j
      BY DEF QueueMirrorsIds
    <2> QED
      BY <1>3, <2>1, <2>2
  <1>7. \E x, y \in DOMAIN queue : x # y /\ queue[x] = queue[y]
    <2> HIDE DEF Others
    <2> QED
      BY <1>2, <1>4, <1>5, <1>6, FS_PigeonHole
  <1> QED
    BY <1>7 DEF QueueMirrorsIds

LEMMA NothingPromised ==
    ASSUME status' = status, cancel' = cancel
    PROVE  Promised
  BY DEF Promised, Wish

LEMMA OneJobMoves ==
    ASSUME NEW j \in JobIds,
           \/ Lifecycle!New(j) \/ Lifecycle!Start(j) \/ Lifecycle!Finish(j)
           \/ Lifecycle!AskCancel(j) \/ Lifecycle!Again(j) \/ Lifecycle!Expired(j)
    PROVE  Promised
  BY DEF Promised, Lifecycle!LNext

LEMMA SteadyWorker ==
    ASSUME Steady, TypeInv, RunningInv, SteadyInv, WorkerStep
    PROVE  SteadyInv' /\ Promised
  <1> USE DEF SteadyInv, WorkerGoes, SetStatus, Exists, rows
  <1>0. /\ status \in [JobIds -> JobStatus] /\ cancel \in [JobIds -> BOOLEAN]
        /\ wpc \notin Resting => wjob \in JobIds
        /\ wpc \in Working => status[wjob] \in {"running", "cancelled"}
        /\ wpc = "begin" => status[wjob] # "absent"
    BY DEF TypeInv, TypeOK, Pointed
  <1>1. cancel' = cancel /\ UNCHANGED <<bot, left, cpc>>
    BY DEF WorkerStep, WGet, WStart, WBegin, WLoop, WSetCancel, WCheck, WFetch, WMark, Mark,
       WJobFail, WNotify, WFinal, WMerge, WComplete, WAllowed, WSend, WSent, WExcept, WFill,
       WPut, WPutEnd, world, clients
  <1>2. CASE WStart
    <2>1. wpc = "start" /\ wjob \in JobIds
      BY <1>0, <1>2 DEF WStart, Resting
    <2>2. status[wjob] # "running"
      <3>1. DatabaseErrors <= 1
        BY DEF DatabaseErrors, Steady
      <3> QED
        BY <2>1, <3>1 DEF RunningInv, RunningHasWorker
    <2>3. SteadyInv'
      <3>1. wpc' \in {"fill", "begin"} /\ (wpc' = "begin" => /\ wjob' = wjob /\ status' = status
                                                          /\ status[wjob] = "queued")
        BY <1>2, <2>2 DEF WStart, Active
      <3>2. \A j \in JobIds : status'[j] = "cancelled" => cancel[j]
        BY <1>0, <1>2, <2>1 DEF WStart
      <3> QED
        BY <1>1, <3>1, <3>2 DEF Working
    <2>4. CASE status' = status
      BY <1>1, <2>3, <2>4, NothingPromised
    <2>5. CASE status' # status
      <3> PICK j \in JobIds : j = wjob
        BY <2>1
      <3>1. status[j] = "queued" /\ cancel[j] /\ status' = [status EXCEPT ![j] = "cancelled"]
        BY <1>2, <2>2, <2>5 DEF WStart, Active
      <3>2. Wish' = Wish /\ Wish = Wish \cup {j}
        BY <1>1, <3>1 DEF Wish
      <3>3. Lifecycle!AskCancel(j)
        BY <3>1, <3>2 DEF Lifecycle!AskCancel, Lifecycle!Becomes, Wish
      <3> QED
        BY <2>3, <3>3, OneJobMoves
    <2> QED
      BY <2>4, <2>5
  <1>3. CASE WBegin
    <2>1. wpc = "begin" /\ wjob \in JobIds /\ wpc' = "loop"
      BY <1>0, <1>3 DEF WBegin, Resting
    <2>2. status' = [status EXCEPT ![wjob] = "running"]
      BY <1>0, <1>3, <2>1 DEF WBegin
    <2>3. \A k \in JobIds : status[k] # "running"
      <3>1. DatabaseErrors <= 1
        BY DEF DatabaseErrors, Steady
      <3> QED
        BY <2>1, <3>1 DEF RunningInv, RunningHasWorker
    <2>4. status[wjob] = "queued" \/ (status[wjob] = "cancelled" /\ wjob \in Wish)
      BY <2>1 DEF Wish
    <2>5. Lifecycle!Start(wjob)
      BY <1>1, <2>2, <2>3, <2>4 DEF Lifecycle!Start, Lifecycle!Becomes, Wish
    <2>6. SteadyInv'
      <3>1. wjob' = wjob
        BY <1>3 DEF WBegin
      <3> QED
        BY <1>0, <1>1, <2>1, <2>2, <3>1
    <2> QED
      BY <2>1, <2>5, <2>6, OneJobMoves
  <1>4. CASE WLoop \/ WFinal
    <2>1. status' = status /\ wpc \in Working /\ wpc' \in {"final", "setcancel", "check", "merge"}
          /\ (wpc' = "setcancel" => IsCancelled(wjob)) /\ wjob' = wjob
      BY <1>4 DEF WLoop, WFinal, Working
    <2>2. wpc' = "setcancel" => cancel[wjob]
      <3>1. wjob \in JobIds
        BY <1>0, <2>1 DEF Resting, Working
      <3> QED
        BY <1>0, <2>1, <3>1 DEF IsCancelled
    <2> QED
      BY <1>1, <2>1, <2>2, NothingPromised
  <1>5. CASE WSetCancel \/ WJobFail \/ WComplete \/ (WCheck /\ status' # status)
    <2>1. wpc \in Working /\ wjob \in JobIds
      BY <1>0, <1>5 DEF WSetCancel, WJobFail, WComplete, WCheck, Working, Resting
    <2>2. PICK s \in {"completed", "failed", "cancelled"} :
            status' = [status EXCEPT ![wjob] = s] /\ (s = "cancelled" => cancel[wjob])
      BY <1>0, <1>5, <2>1 DEF WSetCancel, WJobFail, WComplete, WCheck
    <2>3. Lifecycle!Finish(wjob)
      <3>1. status[wjob] = "running" \/ (status[wjob] = "cancelled" /\ wjob \in Wish)
        BY <1>0, <2>1 DEF Wish
      <3> QED
        BY <1>0, <1>1, <2>1, <2>2, <3>1 DEF Lifecycle!Finish, Lifecycle!Becomes, Wish
    <2>4. wpc' \in {"fill", "notify", "allowed"}
      BY <1>0, <1>5, <2>1 DEF WSetCancel, WJobFail, WComplete, WCheck
    <2>5. SteadyInv'
      <3>1. \A j \in JobIds : status'[j] = "cancelled" => cancel[j]
        BY <1>0, <2>1, <2>2
      <3> QED
        BY <1>1, <2>4, <3>1 DEF Working
    <2> QED
      BY <2>1, <2>3, <2>5, OneJobMoves
  <1>6. CASE WCheck /\ status' = status
    <2>1. /\ wpc \in Working /\ wpc' \notin {"except", "dead", "begin", "setcancel"}
          /\ wpc' \in Working => wjob' = wjob
      BY <1>6 DEF WCheck, Working
    <2> QED
      BY <1>1, <1>6, <2>1, NothingPromised
  <1>7. CASE WorkerStep /\ ~WStart /\ ~WBegin /\ ~WLoop /\ ~WFinal /\ ~WSetCancel /\ ~WJobFail
              /\ ~WComplete /\ ~WCheck
    <2>1. /\ status' = status /\ wpc' \notin {"except", "dead", "begin", "setcancel"}
          /\ wpc' \in Working => wpc \in Working /\ wjob' = wjob
      BY <1>7 DEF Working, WorkerStep, WGet, WFetch, WMark, Mark, WNotify, WMerge, WAllowed, WSend, WSent,
         WExcept, WFill, WPut, WPutEnd
    <2> QED
      BY <1>1, <2>1, NothingPromised
  <1> QED
    BY <1>2, <1>3, <1>4, <1>5, <1>6, <1>7

(* A step beside the worker that moves one job, or none. *)
LEMMA SteadyKept ==
    ASSUME TypeInv, SteadyInv, UNCHANGED <<bot, worker>>,
           left'["bot"] = left["bot"], left'["dberror"] = left["dberror"],
           left'["delete"] = left["delete"],
           \A c \in Clients : cpc'[c] \notin {"reject", "refuse"},
           NEW j \in JobIds,
           \A i \in JobIds : i # j => status'[i] = status[i] /\ cancel'[i] = cancel[i],
           status'[j] = "cancelled" => cancel'[j],
           wpc = "begin" /\ wjob = j => status'[j] \in {"queued", "cancelled"},
           wpc \in Working /\ wjob = j => status'[j] \in {"running", "cancelled"},
           wpc = "setcancel" /\ wjob = j => cancel'[j]
    PROVE  SteadyInv'
  <1>1. wpc \in Working \cup {"begin"} => wjob \in JobIds
    BY DEF TypeInv, Pointed, Resting, Working
  <1>2. \A i \in JobIds : status'[i] = "cancelled" => cancel'[i]
    BY DEF SteadyInv
  <1>3. wpc = "begin" => status'[wjob] \in {"queued", "cancelled"}
    <2> SUFFICES ASSUME wpc = "begin" PROVE status'[wjob] \in {"queued", "cancelled"}
      OBVIOUS
    <2>1. CASE wjob = j
      BY <2>1
    <2>2. CASE wjob # j
      BY <1>1, <2>2 DEF SteadyInv
    <2> QED
      BY <2>1, <2>2
  <1>4. wpc \in Working => status'[wjob] \in {"running", "cancelled"}
    <2> SUFFICES ASSUME wpc \in Working PROVE status'[wjob] \in {"running", "cancelled"}
      OBVIOUS
    <2>1. CASE wjob = j
      BY <2>1
    <2>2. CASE wjob # j
      BY <1>1, <2>2 DEF SteadyInv
    <2> QED
      BY <2>1, <2>2
  <1>5. wpc = "setcancel" => cancel'[wjob]
    <2> SUFFICES ASSUME wpc = "setcancel" PROVE cancel'[wjob]
      OBVIOUS
    <2>1. CASE wjob = j
      BY <2>1
    <2>2. CASE wjob # j
      BY <1>1, <2>2 DEF SteadyInv, Working
    <2> QED
      BY <2>1, <2>2
  <1> QED
    BY <1>2, <1>3, <1>4, <1>5 DEF SteadyInv, worker

(* One that moves no row. *)
LEMMA SteadyRows ==
    ASSUME SteadyInv, UNCHANGED <<status, cancel, bot, worker>>,
           left'["bot"] = left["bot"], left'["dberror"] = left["dberror"],
           left'["delete"] = left["delete"],
           \A c \in Clients : cpc'[c] \notin {"reject", "refuse"}
    PROVE  SteadyInv' /\ Promised
  <1>1. SteadyInv'
    BY DEF SteadyInv, worker
  <1> QED
    BY <1>1, NothingPromised

LEMMA SteadyClient ==
    ASSUME Steady, TypeInv, QueueMirrorsIds, SteadyInv, NEW c \in Clients, ClientStep(c), Timely
    PROVE  SteadyInv' /\ Promised
  <1>0. /\ status \in [JobIds -> JobStatus] /\ cancel \in [JobIds -> BOOLEAN]
        /\ cpc \in [Clients -> ClientPc]
        /\ cpc[c] # "idle" => cjob[c] \in JobIds
    BY DEF TypeInv, TypeOK, Pointed
  <1>1. UNCHANGED <<bot, left>>
    BY DEF ClientStep, EnqueueStep, Reject, CancelLands, RetryReads, RetryLands, DeliverChecks,
       DeliverExpires, Upload, Uploaded, Unlink, world
  <1>2. UNCHANGED worker
    BY DEF ClientStep, EnqueueStep, Enqueue, EnsureWorker, SteadyInv, Reject, CancelLands,
       RetryReads, RetryLands, DeliverChecks, DeliverExpires, Upload, Uploaded, Unlink
  <1>3. CASE EnqueueStep(c)
    <2>1. Enqueued(cjob[c])
      BY <1>3, QueueHasRoom DEF EnqueueStep, Steady, TypeInv, TypeOK, Pointed
    <2>2. cpc' = [cpc EXCEPT ![c] = "idle"] /\ UNCHANGED <<status, cancel>>
      BY <1>3, <2>1 DEF EnqueueStep, ClientGoes, ClientHolds, rows
    <2>3. \A d \in Clients : cpc'[d] \notin {"reject", "refuse"}
      BY <1>0, <2>2 DEF SteadyInv
    <2> QED
      BY <1>1, <1>2, <2>2, <2>3, SteadyRows
  <1>4. ASSUME ~EnqueueStep(c)
        PROVE  \A d \in Clients : cpc'[d] \notin {"reject", "refuse"}
    <2>1. PICK pc \in ClientPc \ {"reject", "refuse"} : cpc' = [cpc EXCEPT ![c] = pc]
      BY <1>4 DEF ClientStep, SteadyInv, Reject, CancelLands, RetryReads, RetryLands, DeliverChecks,
         DeliverExpires, Upload, Uploaded, Unlink, ClientGoes, ClientHolds, ClientPc
    <2> QED
      BY <1>0, <2>1 DEF SteadyInv
  <1>5. CASE CancelLands(c)
    <2>0. cjob[c] \in JobIds
      BY <1>0, <1>5 DEF CancelLands
    <2> PICK j \in JobIds : j = cjob[c]
      BY <2>0
    <2>1. /\ status[j] \in {"queued", "running", "cancelled"}
          /\ cseen[c].cancel => cancel[j]
      BY <1>5 DEF Timely, Active
    <2>2. cancel' = [cancel EXCEPT ![j] = TRUE]
      BY <1>0, <1>5, <2>1 DEF CancelLands, Written, Exists
    <2>3. \/ status' = [status EXCEPT ![j] = "cancelled"]
          \/ status' = status
      BY <1>5 DEF CancelLands
    <2>4. \A i \in JobIds : i # j => status'[i] = status[i] /\ cancel'[i] = cancel[i]
      BY <1>0, <2>2, <2>3
    <2>5. cancel'[j] /\ status'[j] \in {status[j], "cancelled"}
      BY <1>0, <2>2, <2>3
    <2>6. SteadyInv'
      <3>1. wpc = "begin" /\ wjob = j => status'[j] \in {"queued", "cancelled"}
        BY <2>5 DEF SteadyInv
      <3>2. wpc \in Working /\ wjob = j => status'[j] \in {"running", "cancelled"}
        BY <2>5 DEF SteadyInv
      <3>3. \A d \in Clients : cpc'[d] \notin {"reject", "refuse"}
        BY <1>4, <1>5 DEF CancelLands, EnqueueStep
      <3> QED
        BY <1>1, <1>2, <2>4, <2>5, <3>1, <3>2, <3>3, SteadyKept
    <2>7. Wish' = Wish \cup {j}
      BY <1>0, <2>2 DEF Wish
    <2>8. CASE status[j] = "cancelled"
      <3>1. Wish' = Wish
        BY <2>7, <2>8 DEF SteadyInv, Wish
      <3>2. status' = status
        BY <1>0, <2>3, <2>8
      <3> QED
        BY <2>6, <3>1, <3>2 DEF Promised
    <2>9. CASE status[j] # "cancelled"
      <3>1. Lifecycle!AskCancel(j)
        BY <2>1, <2>3, <2>7, <2>9 DEF Lifecycle!AskCancel, Lifecycle!Becomes, Wish
      <3> QED
        BY <2>6, <3>1, OneJobMoves
    <2> QED
      BY <2>8, <2>9
  <1>6. CASE RetryLands(c)
    <2>0. cjob[c] \in JobIds
      BY <1>0, <1>6 DEF RetryLands
    <2> PICK j \in JobIds : j = cjob[c]
      BY <2>0
    <2>1. /\ status[j] \in {"completed", "failed", "cancelled"}
          /\ cancel[j] => cseen[c].cancel
          /\ wjob = j => wpc \notin Working
      BY <1>6 DEF Timely
    <2>2. \A d \in Clients : cpc'[d] \notin {"reject", "refuse"}
      BY <1>4, <1>6 DEF RetryLands, EnqueueStep
    <2>3. CASE UNCHANGED rows
      BY <1>1, <1>2, <2>2, <2>3, SteadyRows DEF rows
    <2>4. CASE ~UNCHANGED rows
      <3>1. /\ status' = [status EXCEPT ![j] = "queued"]
            /\ cancel' = Written(cancel, j, cseen[c].cancel, FALSE)
        BY <1>6, <2>4 DEF RetryLands
      <3>2. cancel' = [cancel EXCEPT ![j] = FALSE]
        <4>1. cseen[c].cancel \in BOOLEAN
          BY DEF TypeInv, TypeOK, Seen
        <4>2. CASE cseen[c].cancel = FALSE
          <5>1. cancel' = cancel /\ cancel[j] = FALSE
            BY <1>0, <2>1, <3>1, <4>2 DEF Written
          <5> QED
            BY <1>0, <5>1
        <4>3. CASE cseen[c].cancel = TRUE
          BY <3>1, <4>3 DEF Written
        <4> QED
          BY <4>1, <4>2, <4>3
      <3>3. /\ \A i \in JobIds : i # j => status'[i] = status[i] /\ cancel'[i] = cancel[i]
            /\ status'[j] = "queued"
        BY <1>0, <3>1, <3>2
      <3>4. SteadyInv'
        BY <1>1, <1>2, <2>1, <2>2, <3>3, SteadyKept DEF Working
      <3>5. Lifecycle!Again(j)
        BY <1>0, <2>1, <3>1, <3>2 DEF Lifecycle!Again, Lifecycle!Becomes
      <3> QED
        BY <3>4, <3>5, OneJobMoves
    <2> QED
      BY <2>3, <2>4
  <1>7. CASE DeliverExpires(c)
    <2>0. cjob[c] \in JobIds
      BY <1>0, <1>7 DEF DeliverExpires
    <2> PICK j \in JobIds : j = cjob[c]
      BY <2>0
    <2>1. status[j] = "completed" /\ status' = [status EXCEPT ![j] = "failed"] /\ cancel' = cancel
      BY <1>7 DEF DeliverExpires, Timely, SetStatus, Exists
    <2>2. \A d \in Clients : cpc'[d] \notin {"reject", "refuse"}
      BY <1>4, <1>7 DEF DeliverExpires, EnqueueStep
    <2>3. /\ \A i \in JobIds : i # j => status'[i] = status[i]
          /\ status'[j] = "failed"
      BY <1>0, <2>1
    <2>4. wjob = j => wpc \notin Working \cup {"begin"}
      BY <2>1 DEF SteadyInv
    <2>5. SteadyInv'
      BY <1>1, <1>2, <2>1, <2>2, <2>3, <2>4, SteadyKept DEF Working
    <2>6. Lifecycle!Expired(j)
      BY <2>1 DEF Lifecycle!Expired, Lifecycle!Becomes
    <2> QED
      BY <2>5, <2>6, OneJobMoves
  <1>8. CASE Reject(c)
    BY <1>8 DEF Reject, SteadyInv
  <1>9. CASE RetryReads(c) \/ DeliverChecks(c) \/ Upload(c) \/ Uploaded(c) \/ Unlink(c)
    <2>1. UNCHANGED <<status, cancel>> /\ ~EnqueueStep(c)
      BY <1>9 DEF RetryReads, DeliverChecks, Upload, Uploaded, Unlink, EnqueueStep, rows
    <2> QED
      BY <1>1, <1>2, <1>4, <2>1, SteadyRows
  <1> QED
    BY <1>3, <1>5, <1>6, <1>7, <1>8, <1>9 DEF ClientStep

LEMMA SteadyCommands ==
    ASSUME TypeInv, SteadyInv, Commands
    PROVE  SteadyInv' /\ Promised
  <1>0. /\ status \in [JobIds -> JobStatus] /\ cancel \in [JobIds -> BOOLEAN]
        /\ left["delete"] = 0 /\ left \in [Kinds -> Nat] /\ cpc \in [Clients -> ClientPc]
    BY DEF TypeInv, TypeOK, SteadyInv
  <1>1. ASSUME NEW c \in Clients, NEW u \in Users, NEW g \in Groups \cup {NoGroup},
               NEW n \in Positions, Submit(c, u, g, n)
        PROVE  SteadyInv' /\ Promised
    <2>1. PICK j \in JobIds : /\ NextId(j) /\ status' = [status EXCEPT ![j] = "queued"]
                              /\ cancel' = [cancel EXCEPT ![j] = FALSE]
                              /\ cpc' = [cpc EXCEPT ![c] = "enqueue"]
      BY <1>1 DEF Submit, ClientGoes, ClientHolds
    <2>2. status[j] = "absent"
      BY <2>1 DEF NextId, Exists, JobIds
    <2>3. /\ UNCHANGED <<bot, worker>> /\ left'["bot"] = left["bot"]
          /\ left'["dberror"] = left["dberror"] /\ left'["delete"] = left["delete"]
      BY <1>0, <1>1 DEF Submit, Spend, Kinds
    <2>4. SteadyInv'
      <3>1. wjob = j => wpc \notin Working \cup {"begin"}
        BY <2>2 DEF SteadyInv
      <3>2. \A d \in Clients : cpc'[d] \notin {"reject", "refuse"}
        BY <1>0, <2>1 DEF SteadyInv
      <3>3. /\ \A i \in JobIds : i # j => status'[i] = status[i] /\ cancel'[i] = cancel[i]
            /\ status'[j] = "queued"
        BY <1>0, <2>1
      <3> QED
        BY <2>3, <3>1, <3>2, <3>3, SteadyKept DEF Working
    <2>5. Lifecycle!New(j)
      BY <1>0, <2>1, <2>2 DEF Lifecycle!New, Lifecycle!Becomes
    <2> QED
      BY <2>4, <2>5, OneJobMoves
  <1>2. ASSUME NEW c \in Clients, NEW j \in JobIds,
               Cancel(c, j) \/ Retry(c, j) \/ Deliver(c, j)
        PROVE  SteadyInv' /\ Promised
    <2>1. /\ UNCHANGED <<status, cancel, bot, worker>> /\ left'["bot"] = left["bot"]
          /\ left'["dberror"] = left["dberror"] /\ left'["delete"] = left["delete"]
      BY <1>0, <1>2 DEF Cancel, Retry, Deliver, Reads, Spend, Kinds, rows
    <2>2. PICK pc \in {"cancel", "retry", "deliver"} : cpc' = [cpc EXCEPT ![c] = pc]
      BY <1>2 DEF Cancel, Retry, Deliver, Reads, ClientHolds
    <2>3. \A d \in Clients : cpc'[d] \notin {"reject", "refuse"}
      BY <1>0, <2>2 DEF SteadyInv
    <2> QED
      BY <2>1, <2>3, SteadyRows
  <1>3. ASSUME NEW c \in Clients, NEW j \in JobIds, Delete(c, j)
        PROVE  FALSE
    BY <1>0, <1>3 DEF Delete, Spend
  <1> QED
    BY <1>1, <1>2, <1>3 DEF Commands

LEMMA SteadyEnvironment ==
    ASSUME TypeInv, SteadyInv, Environment
    PROVE  SteadyInv' /\ Promised
  <1>0. left \in [Kinds -> Nat] /\ left["bot"] = 0 /\ left["dberror"] = 0
    BY DEF TypeInv, TypeOK, SteadyInv
  <1>1. CASE Expire \/ TogglePerm
    <2>1. /\ UNCHANGED <<status, cancel, bot, worker, cpc>> /\ left'["bot"] = left["bot"]
          /\ left'["dberror"] = left["dberror"] /\ left'["delete"] = left["delete"]
      BY <1>0, <1>1 DEF Expire, TogglePerm, Spend, Kinds, rows, clients
    <2> QED
      BY <2>1, SteadyRows DEF SteadyInv
  <1>2. CASE ToggleBot \/ WDbError
    BY <1>0, <1>2 DEF ToggleBot, WDbError, Spend
  <1>3. CASE Restart
    <2>1. /\ wpc' = "fill" /\ cpc' = [c \in Clients |-> "idle"] /\ UNCHANGED <<bot, cancel>>
          /\ left'["bot"] = left["bot"] /\ left'["dberror"] = left["dberror"]
          /\ left'["delete"] = left["delete"]
          /\ status' = [j \in JobIds |-> IF status[j] = "running" THEN "queued" ELSE status[j]]
      BY <1>0, <1>3 DEF Restart, Lost, Spend, Kinds
    <2>2. SteadyInv'
      BY <2>1 DEF SteadyInv, Working
    <2>3. Lifecycle!Stop
      BY <2>1 DEF Lifecycle!Stop
    <2> QED
      BY <2>2, <2>3 DEF Promised, Lifecycle!LNext
  <1> QED
    BY <1>1, <1>2, <1>3 DEF Environment

(* Where the queue has room, no job is deleted, neither the database nor   *)
(* the connection fails, and no command's commit comes too late, the rows  *)
(* move as JobLifecycle promises, for every number of jobs, chapters and   *)
(* commands in flight, whatever is submitted, cancelled, retried, sent,    *)
(* expired or restarted.                                                   *)
THEOREM PromiseKept ==
    ASSUME Steady
    PROVE  Spec /\ [][Timely]_vars => KeepsPromise
  <1>1. Init => RunningInv /\ SteadyInv /\ QueueMirrorsIds
    BY FanqieAssumption DEF Init, Fresh, RunningInv, RunningHasWorker, DatabaseErrors,
       Told, Kinds, QueueMirrorsIds, SteadyInv, Steady, Working
  <1>2. TypeInv /\ QueueMirrorsIds /\ [Next]_vars => QueueMirrorsIds'
    BY MirrorsNext
  <1>3. TypeInv /\ RunningInv /\ [Next]_vars => RunningInv'
    BY RunningNext
  <1>4. TypeInv /\ QueueMirrorsIds /\ RunningInv /\ SteadyInv /\ [Next]_vars /\ [Timely]_vars
            => SteadyInv' /\ Promised
    <2>1. ASSUME SteadyInv, UNCHANGED vars PROVE SteadyInv' /\ Promised
      BY <2>1, NothingPromised DEF vars, rows, worker, clients, world, SteadyInv
    <2> QED
      BY <2>1, SteadyWorker, SteadyClient, SteadyCommands, SteadyEnvironment DEF Next
  <1>5. Init => Lifecycle!LInit
    BY DEF Init, Fresh, Lifecycle!LInit
  <1>6. Promised => [Lifecycle!LNext]_(Lifecycle!promise)
    BY DEF Promised, Wish, Lifecycle!promise
  <1> QED
    BY InitTypes, NextTypes, <1>1, <1>2, <1>3, <1>4, <1>5, <1>6, PTL
       DEF Spec, KeepsPromise, Lifecycle!LSpec

-----------------------------------------------------------------------------
(* Which faults fail a book that is there. *)

(* No row the worker may still fail is a completed one. *)
BookInv == wpc \in Working \cup {"begin", "except"} => status[wjob] # "completed"

(* A step at which none of four things happens: the chat connection is     *)
(* gone when the group is to be told of a job; the database fails when a   *)
(* finished job is looked at or its delivery written down; a command has   *)
(* found the queue full; a delivery that had found the book gone writes so *)
(* when it is there again.                                                 *)
Calm ==
    /\ wpc = "notify" => bot
    /\ wpc \in {"start", "allowed", "sent", "senderror"} => wpc' # "except"
    /\ \A c \in Clients : cpc[c] \notin {"reject", "refuse"}
    /\ \A c \in Clients : DeliverExpires(c) => ~HasFile(cjob[c], 0)

LEMMA BookWorker ==
    ASSUME TypeInv, BookInv, WorkerStep, Calm
    PROVE  BookInv'
  <1> USE DEF BookInv, WorkerGoes, SetStatus, Exists, rows, Working
  <1>0. status \in [JobIds -> JobStatus] /\ (wpc \notin Resting => wjob \in JobIds)
    BY DEF TypeInv, TypeOK, Pointed
  <1>1. CASE WStart
    BY <1>0, <1>1 DEF WStart, Active
  <1>2. CASE WBegin \/ WLoop \/ WCheck \/ WFinal
    BY <1>0, <1>2 DEF WBegin, WLoop, WCheck, WFinal, Resting
  <1>3. CASE WFetch \/ WMark \/ WMerge
    BY <1>0, <1>3 DEF WFetch, WMark, Mark, WMerge
  <1>4. CASE WNotify
    BY <1>4 DEF WNotify, Calm
  <1>5. CASE WGet \/ WSetCancel \/ WJobFail \/ WComplete \/ WAllowed \/ WSend \/ WSent
             \/ WExcept \/ WFill \/ WPut \/ WPutEnd
    BY <1>5 DEF WGet, WSetCancel, WJobFail, WComplete, WAllowed, WSend, WSent, WExcept, WFill,
       WPut, WPutEnd
  <1> QED
    BY <1>1, <1>2, <1>3, <1>4, <1>5 DEF WorkerStep

(* Whatever happens beside the worker, only the worker completes a job. *)
LEMMA BookOutside ==
    ASSUME TypeInv, BookInv, (\E c \in Clients : ClientStep(c)) \/ Commands \/ Environment, Calm
    PROVE  BookInv'
  <1>0. status \in [JobIds -> JobStatus] /\ (wpc \notin Resting => wjob \in JobIds)
    BY DEF TypeInv, TypeOK, Pointed
  <1>1. \A j \in JobIds : status'[j] = "completed" => status[j] = "completed"
    <2>1. CASE \E c \in Clients : ClientStep(c)
      BY <1>0, <2>1 DEF ClientStep, EnqueueStep, Reject, CancelLands, RetryReads, RetryLands,
         DeliverChecks, DeliverExpires, Upload, Uploaded, Unlink, SetStatus, rows
    <2>2. CASE Commands
      <3>1. \/ status' = status
            \/ \E j \in JobIds : \E s \in {"queued", "absent"} : status' = [status EXCEPT ![j] = s]
        BY <2>2, CommandRows
      <3> QED
        BY <1>0, <3>1
    <2>3. CASE Environment
      BY <1>0, <2>3 DEF Environment, Expire, TogglePerm, ToggleBot, Restart, WDbError, rows
    <2> QED
      BY <2>1, <2>2, <2>3
  <1>2. CASE WDbError
    <2>1. wpc' = "except" => wpc \in Working \cup {"begin"}
      BY <1>2 DEF WDbError, WorkerGoes, Calm, TypeInv, TypeOK, WorkerPc, Working
    <2>2. wpc' \in {"except", "dead", "get"} /\ (wpc' = "except" => wjob' = wjob)
      BY <1>2 DEF WDbError, WorkerGoes
    <2> QED
      BY <1>0, <1>1, <2>1, <2>2 DEF BookInv, Working, Resting
  <1>3. CASE ~WDbError
    <2>1. UNCHANGED worker \/ wpc' \in {"get", "fill"}
      BY <1>3 DEF ClientStep, EnqueueStep, Enqueue, EnsureWorker, WorkerGoes, Reject, CancelLands,
         RetryReads, RetryLands, DeliverChecks, DeliverExpires, Upload, Uploaded, Unlink,
         Commands, Submit, Retry, Deliver, Delete, Cancel, Reads, Environment, Expire,
         TogglePerm, ToggleBot, Restart, Lost
    <2> QED
      BY <1>0, <1>1, <2>1 DEF BookInv, worker, Working, Resting
  <1> QED
    BY <1>2, <1>3

(* A completed job whose book is still there is failed by nothing but the  *)
(* four faults Calm rules out: whatever is submitted, retried, sent,      *)
(* cancelled, deleted, expired, forbidden or restarted, NotifyKeepsStatus  *)
(* holds without them.                                                     *)
THEOREM OnlyFaultsFailABook == Spec /\ [][Calm]_vars => NotifyKeepsStatus
  <1> DEFINE Kept ==
        \A j \in JobIds : (status[j] = "completed" /\ status'[j] = "failed") => ~HasFile(j, 0)
  <1>1. Init => BookInv
    BY DEF Init, Fresh, BookInv, Working
  <1>2. TypeInv /\ BookInv /\ [Next]_vars /\ [Calm]_vars => BookInv'
    <2>1. ASSUME BookInv, UNCHANGED vars PROVE BookInv'
      BY <2>1 DEF BookInv, vars, rows, worker
    <2> QED
      BY <2>1, BookWorker, BookOutside DEF Next
  <1>3. TypeInv /\ BookInv /\ [Next]_vars /\ [Calm]_vars => [Kept]_vars
    <2> SUFFICES ASSUME TypeInv, BookInv, Next, Calm,
                        NEW j \in JobIds, status[j] = "completed", status'[j] = "failed"
                 PROVE  ~HasFile(j, 0)
      OBVIOUS
    <2>0. status \in [JobIds -> JobStatus] /\ (wpc \notin Resting => wjob \in JobIds)
      BY DEF TypeInv, TypeOK, Pointed
    <2>1. CASE WorkerStep
      <3>1. status' = status \/ wpc \in Working \cup {"start", "begin", "except"}
        BY <2>1 DEF WorkerStep, WGet, WStart, WBegin, WLoop, WSetCancel, WCheck, WFetch, WMark,
           Mark, WJobFail, WNotify, WFinal, WMerge, WComplete, WAllowed, WSend, WSent, WExcept,
           WFill, WPut, WPutEnd, rows, Working
      <3>2. \A k \in JobIds : k # wjob => status'[k] = status[k]
        BY <2>0, <2>1 DEF WorkerStep, WGet, WStart, WBegin, WLoop, WSetCancel, WCheck, WFetch, WMark,
           Mark, WJobFail, WNotify, WFinal, WMerge, WComplete, WAllowed, WSend, WSent, WExcept,
           WFill, WPut, WPutEnd, rows, SetStatus
      <3>3. wpc = "start" => status'[j] # "failed"
        BY <2>0, <2>1 DEF WorkerStep, WGet, WStart, WBegin, WLoop, WSetCancel, WCheck, WFetch, WMark,
           Mark, WJobFail, WNotify, WFinal, WMerge, WComplete, WAllowed, WSend, WSent, WExcept,
           WFill, WPut, WPutEnd, rows, SetStatus
      <3> QED
        BY <3>1, <3>2, <3>3 DEF BookInv
    <2>2. CASE \E c \in Clients : ClientStep(c)
      <3> PICK c \in Clients : ClientStep(c)
        BY <2>2
      <3>1. CASE DeliverExpires(c)
        <4>1. j = cjob[c]
          BY <2>0, <3>1 DEF DeliverExpires, SetStatus
        <4> QED
          BY <3>1, <4>1 DEF Calm
      <3>2. CASE ~DeliverExpires(c)
        <4>1. \/ status' = status
              \/ \E s \in {"cancelled", "queued"} : status' = [status EXCEPT ![cjob[c]] = s]
          BY <3>2 DEF ClientStep, EnqueueStep, Reject, CancelLands, RetryReads, RetryLands,
             DeliverChecks, Upload, Uploaded, Unlink, rows, Calm
        <4> QED
          BY <2>0, <4>1
      <3> QED
        BY <3>1, <3>2
    <2>3. CASE Commands
      <3>1. \/ status' = status
            \/ \E i \in JobIds : \E s \in {"queued", "absent"} : status' = [status EXCEPT ![i] = s]
        BY <2>3, CommandRows
      <3> QED
        BY <2>0, <3>1
    <2>4. CASE Environment
      BY <2>0, <2>4 DEF Environment, Expire, TogglePerm, ToggleBot, Restart, WDbError, rows
    <2> QED
      BY <2>1, <2>2, <2>3, <2>4 DEF Next
  <1>4. [Kept]_vars => [\A j \in JobIds : (status[j] = "completed" /\ status'[j] = "failed")
                                          => ~HasFile(j, 0)]_vars
    OBVIOUS
  <1> HIDE DEF Kept
  <1> QED
    BY InitTypes, NextTypes, <1>1, <1>2, <1>3, <1>4, PTL DEF Spec, NotifyKeepsStatus
================================================================================
