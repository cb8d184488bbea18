------------------------------ MODULE FanqieJobs ------------------------------
(***************************************************************************)
(* The download jobs of yawn_fanqie (yawn_fanqie/state.py).  A job and its *)
(* chapters are rows of a database; a bounded in-memory queue feeds one    *)
(* worker task; chat commands and the admin panel submit, cancel, retry,   *)
(* send and delete jobs while the worker runs; the process may stop at any *)
(* point and restores the rows when it starts again.                       *)
(*                                                                         *)
(* One step is one stretch of code between two awaits: a session block of  *)
(* the ORM, a request to the novel site, a call of the chat protocol.  A   *)
(* block that decides on what it has read and awaits before its commit is  *)
(* a step for each: _run_job's first block, cancel_job, retry_job,         *)
(* deliver_job.  Its commit is made whatever has become of the row.        *)
(***************************************************************************)
EXTENDS Integers, Sequences, FiniteSets

CONSTANTS
    Users, NoUser,   \* requester_user_id values; NoUser where there is no row
    Groups, NoGroup, \* group_id values; NoGroup is a job asked for in private
    Clients,         \* command handlers that may be in flight together
    MaxJobId,        \* bound: largest row id that is ever given out
    MaxChapters,     \* bound: chapters of one job
    QueueMax,        \* fanqie_queue_max
    UserActiveMax,   \* fanqie_user_active_max
    GroupActiveMax,  \* fanqie_group_active_max
    Budget           \* bound: how often each kind of outside event happens

Kinds == {"submit", "cancel", "retry", "deliver", "delete", "expire",
          "perm", "bot", "restart", "dberror"}

ASSUME FanqieAssumption ==
    /\ MaxJobId \in Nat \ {0} /\ MaxChapters \in Nat \ {0}
    /\ QueueMax \in Nat \ {0}
    /\ UserActiveMax \in Nat \ {0} /\ GroupActiveMax \in Nat \ {0}
    /\ NoGroup \notin Groups /\ NoUser \notin Users
    /\ Budget \in [Kinds -> Nat]

JobIds    == 1..MaxJobId
Positions == 1..MaxChapters
Files     == JobIds \X (0..MaxChapters)   \* <<j, 0>> is the merged book of j

Active        == {"queued", "running"}
JobStatus     == Active \cup {"absent", "completed", "failed", "cancelled"}
ChapterStatus == {"none", "pending", "completed", "unavailable", "outage", "failed"}
    \* "outage" is an unavailable chapter whose error names the mirror's outage
SendStatus    == {"pending", "sent", "failed"}

VARIABLES
    status,    \* FanqieJob.status, "absent" where there is no row
    cancel,    \* FanqieJob.cancel_requested
    owner,     \* FanqieJob.requester_user_id
    group,     \* FanqieJob.group_id
    output,    \* output_path is set
    sendst,    \* FanqieJob.send_status
    chapter,   \* the rows of FanqieJobChapter by job and position
    files,     \* files under the data directory
    gapped,    \* jobs whose merged book stands in for a chapter never settled
    queue,     \* _queue
    queuedIds, \* _queued_ids
    wpc,       \* where the worker task is
    wjob,      \* job_id of the worker's _run_job, 0 before the first
    wlen,      \* number of chapters in its snapshot
    wpos,      \* position in the snapshot
    wfill,     \* ids read by _fill_waiting_queue and not handled yet
    cpc,       \* where each command handler is
    cjob,      \* the job it works on
    cseen,     \* what it has read of the row and has still to write
    cfiles,    \* the files delete_job has still to unlink
    perm,      \* the feature switch "fanqie" allows
    bot,       \* a chat connection exists, get_bot() succeeds
    left       \* what remains of Budget

rows    == <<status, cancel, owner, group, output, sendst, chapter>>
disk    == <<files, gapped>>
waiting == <<queue, queuedIds>>
worker  == <<wpc, wjob, wlen, wpos, wfill>>
clients == <<cpc, cjob, cseen, cfiles>>
world   == <<perm, bot, left>>
vars    == <<rows, disk, waiting, worker, clients, world>>

WorkerPc == {"get", "start", "begin", "loop", "setcancel", "check", "fetch",
             "mark_ok", "mark_unavailable", "mark_outage", "mark_error",
             "jobfail", "notify", "final", "merge", "complete", "allowed",
             "send", "sent", "senderror", "except", "fill", "put", "dead"}
Working  == {"loop", "setcancel", "check", "fetch", "mark_ok", "mark_unavailable",
             "mark_outage", "mark_error", "jobfail", "final", "merge", "complete"}
    \* from the commit of "running" to the commit of the result
ClientPc == {"idle", "enqueue", "reject", "requeue", "refuse", "cancel", "retry",
             "reset", "deliver", "expired", "upload", "uploaded", "notsent", "unlink"}

-----------------------------------------------------------------------------
(* Helpers *)

Spend(k) == left[k] > 0 /\ left' = [left EXCEPT ![k] = @ - 1]

Exists(j) == status[j] # "absent"

SetStatus(j, s) == status' = IF Exists(j) THEN [status EXCEPT ![j] = s] ELSE status

IsCancelled(j) == ~Exists(j) \/ cancel[j] \/ status[j] = "cancelled"

HasFile(j, p) == <<j, p>> \in files

Chapters(j) == {p \in Positions : chapter[j][p] # "none"}

(* _fill_waiting_queue reads the lowest QueueMax ids that are queued. *)
\* Mutation: the limit is one short.
WaitingIdsOneShort ==
    LET Q == {j \in JobIds : status[j] = "queued"}
    IN  {j \in Q : Cardinality({k \in Q : k < j}) < QueueMax - 1}

WaitingIds ==
    LET Q == {j \in JobIds : status[j] = "queued"}
    IN  {j \in Q : Cardinality({k \in Q : k < j}) < QueueMax}

(* SQLite gives a new row the largest id in use plus one, so the id of a   *)
(* deleted last row comes back.                                            *)
NextId(j) == /\ \A k \in JobIds : Exists(k) => k < j
             /\ j = 1 \/ (j > 1 /\ Exists(j - 1))

ActiveOf(key, v) == Cardinality({j \in JobIds : status[j] \in Active /\ key[j] = v})

SubmitLocked == \E c \in Clients : cpc[c] \in {"enqueue", "reject"}
QueueLocked  == wpc = "put"

(* The worker moves on; when _run_job returns, its locals are gone. *)
WorkerGoes(pc) ==
    /\ wpc' = pc
    /\ IF pc \in {"fill", "dead"}
       THEN wjob' = 0 /\ wlen' = 0 /\ wpos' = 0
       ELSE UNCHANGED <<wjob, wlen, wpos>>
    /\ UNCHANGED wfill

-----------------------------------------------------------------------------
(* The queue and its worker *)

(* _ensure_worker: a worker task that has ended is started anew. *)
EnsureWorker ==
    IF wpc = "dead" THEN WorkerGoes("get") ELSE UNCHANGED worker

(* _enqueue succeeds when the id already waits, or while there is room. *)
Enqueued(j) == j \in queuedIds \/ Len(queue) < QueueMax

Enqueue(j) ==
    /\ ~QueueLocked
    /\ EnsureWorker
    /\ IF j \in queuedIds \/ Len(queue) = QueueMax
       THEN UNCHANGED waiting
       ELSE queue' = Append(queue, j) /\ queuedIds' = queuedIds \cup {j}

\* Mutation: the id is not taken out of _queued_ids.
WGetKeepsId ==
    /\ wpc = "get" /\ queue # <<>>
    /\ wjob' = Head(queue) /\ queue' = Tail(queue) /\ wpc' = "start"
    /\ UNCHANGED <<rows, disk, queuedIds, wlen, wpos, wfill, clients, world>>

WGet ==
    /\ wpc = "get" /\ queue # <<>>
    /\ wjob' = Head(queue)
    /\ queue' = Tail(queue)
    /\ queuedIds' = queuedIds \ {Head(queue)}
    /\ wpc' = "start"
    /\ UNCHANGED <<rows, disk, wlen, wpos, wfill, clients, world>>

(* The read half of _run_job's first block. *)
WStart ==
    /\ wpc = "start"
    /\ IF status[wjob] \notin Active
       THEN WorkerGoes("fill") /\ UNCHANGED status
       ELSE IF cancel[wjob]
       THEN WorkerGoes("fill") /\ SetStatus(wjob, "cancelled")
       ELSE /\ wpc' = "begin"
            /\ wlen' = Cardinality(Chapters(wjob))
            /\ UNCHANGED <<wjob, wpos, wfill, status>>
    /\ UNCHANGED <<cancel, owner, group, output, sendst, chapter, disk,
                   waiting, clients, world>>

(* Its commit.  The UPDATE of a row that was deleted meanwhile raises. *)
WBegin ==
    /\ wpc = "begin"
    /\ SetStatus(wjob, "running")
    /\ wpos' = 1
    /\ wpc' = IF Exists(wjob) THEN "loop" ELSE "except"
    /\ UNCHANGED <<wjob, wlen, wfill, cancel, owner, group, output, sendst,
                   chapter, disk, waiting, clients, world>>

(* The _is_cancelled before each chapter. *)
WLoop ==
    /\ wpc = "loop"
    /\ WorkerGoes(IF wpos > wlen THEN "final"
                  ELSE IF IsCancelled(wjob) THEN "setcancel" ELSE "check")
    /\ UNCHANGED <<rows, disk, waiting, clients, world>>

WSetCancel ==
    /\ wpc = "setcancel"
    /\ SetStatus(wjob, "cancelled")
    /\ WorkerGoes("fill")
    /\ UNCHANGED <<cancel, owner, group, output, sendst, chapter, disk,
                   waiting, clients, world>>

(* A settled chapter is not asked for again: a completed one while its     *)
(* file is there, an unavailable one always.                               *)
Settled(j, p) == \/ chapter[j][p] = "completed" /\ HasFile(j, p)
                 \/ chapter[j][p] \in {"unavailable", "outage"}

(* The permission check and the reuse of chapters. *)
WCheck ==
    /\ wpc = "check"
    /\ IF ~Exists(wjob)
       THEN WorkerGoes("fill") /\ UNCHANGED status
       ELSE IF ~perm
       THEN WorkerGoes("notify") /\ SetStatus(wjob, "failed")
       ELSE IF chapter[wjob][wpos] = "none" \/ Settled(wjob, wpos)
       THEN /\ wpc' = "loop" /\ wpos' = wpos + 1
            /\ UNCHANGED <<wjob, wlen, wfill, status>>
       ELSE WorkerGoes("fetch") /\ UNCHANGED status
    /\ UNCHANGED <<cancel, owner, group, output, sendst, chapter, disk,
                   waiting, clients, world>>

(* fetch_chapter answers; a chapter that came is written to its file. *)
WFetch ==
    /\ wpc = "fetch"
    /\ \E result \in {"mark_ok", "mark_unavailable", "mark_outage", "mark_error"} :
        /\ WorkerGoes(result)
        /\ files' = IF result = "mark_ok" THEN files \cup {<<wjob, wpos>>} ELSE files
    /\ UNCHANGED <<rows, gapped, waiting, clients, world>>

(* _mark_chapter, then the next chapter or, after an error, the job fails. *)
\* Mutation: a chapter that failed is passed over like an unavailable one.
MarkAndGoOn(s, next) ==
    /\ chapter' = IF Exists(wjob) /\ chapter[wjob][wpos] # "none"
                  THEN [chapter EXCEPT ![wjob][wpos] = s] ELSE chapter
    /\ wpc' = "loop" /\ wpos' = wpos + 1
    /\ UNCHANGED <<status, cancel, owner, group, output, sendst, disk, waiting,
                   wjob, wlen, wfill, clients, world>>

Mark(s, next) ==
    /\ chapter' = IF Exists(wjob) /\ chapter[wjob][wpos] # "none"
                  THEN [chapter EXCEPT ![wjob][wpos] = s] ELSE chapter
    /\ wpc' = next
    /\ wpos' = IF next = "loop" THEN wpos + 1 ELSE wpos
    /\ UNCHANGED <<status, cancel, owner, group, output, sendst, disk, waiting,
                   wjob, wlen, wfill, clients, world>>

WMark ==
    \/ wpc = "mark_ok"          /\ Mark("completed", "loop")
    \/ wpc = "mark_unavailable" /\ Mark("unavailable", "loop")
    \/ wpc = "mark_outage"      /\ Mark("outage", "loop")
    \/ wpc = "mark_error"       /\ Mark("failed", "jobfail")

(* _mark_job_failed on the way out of _run_job, before the group is told. *)
WJobFail ==
    /\ wpc = "jobfail"
    /\ SetStatus(wjob, "failed")
    /\ WorkerGoes("notify")
    /\ UNCHANGED <<cancel, owner, group, output, sendst, chapter, disk,
                   waiting, clients, world>>

(* notify_group(get_bot(), ...) swallows the protocol's errors, but        *)
(* get_bot() is evaluated outside it and raises when nothing is connected. *)
WNotify ==
    /\ wpc = "notify"
    /\ WorkerGoes(IF bot THEN "fill" ELSE "except")
    /\ UNCHANGED <<rows, disk, waiting, clients, world>>

WFinal ==
    /\ wpc = "final"
    /\ WorkerGoes(IF IsCancelled(wjob) THEN "setcancel" ELSE "merge")
    /\ UNCHANGED <<rows, disk, waiting, clients, world>>

(* _assemble_and_deliver reads the chapters and merges them; a chapter     *)
(* that is not completed leaves a placeholder, a completed one whose file  *)
(* is gone, or a book that is too large, fails the job.                    *)
WMerge ==
    /\ wpc = "merge"
    /\ LET j == wjob
           missing == \E p \in Chapters(j) : chapter[j][p] = "completed" /\ ~HasFile(j, p)
           holes   == \E p \in Chapters(j) : chapter[j][p] \in {"pending", "failed"}
       IN \/ /\ ~Exists(j)
             /\ WorkerGoes("fill") /\ UNCHANGED disk
          \/ /\ Exists(j)
             /\ WorkerGoes("jobfail") /\ UNCHANGED disk
          \/ /\ Exists(j) /\ ~missing
             /\ WorkerGoes("complete")
             /\ files' = files \cup {<<j, 0>>}
             /\ gapped' = IF holes THEN gapped \cup {j} ELSE gapped \ {j}
    /\ UNCHANGED <<rows, waiting, clients, world>>

WComplete ==
    /\ wpc = "complete"
    /\ IF Exists(wjob)
       THEN /\ SetStatus(wjob, "completed")
            /\ output' = [output EXCEPT ![wjob] = TRUE]
            /\ sendst' = [sendst EXCEPT ![wjob] = "pending"]
            /\ WorkerGoes("allowed")
       ELSE WorkerGoes("fill") /\ UNCHANGED rows
    /\ UNCHANGED <<cancel, owner, group, chapter, disk, waiting, clients, world>>

WAllowed ==
    /\ wpc = "allowed"
    /\ WorkerGoes(IF ~Exists(wjob) THEN "fill" ELSE IF perm THEN "send" ELSE "senderror")
    /\ UNCHANGED <<rows, disk, waiting, clients, world>>

(* send_file_to_user needs a connection and the file, and may fail. *)
CanSend(j) == bot /\ HasFile(j, 0)

WSend ==
    /\ wpc = "send"
    /\ \/ CanSend(wjob) /\ WorkerGoes("sent")
       \/ WorkerGoes("senderror")
    /\ UNCHANGED <<rows, disk, waiting, clients, world>>

(* _set_send_sent and _set_send_error *)
\* Mutation: a failed delivery is written as "error".
SetSendError(j, s) ==
    sendst' = IF Exists(j) THEN [sendst EXCEPT ![j] = IF s = "failed" THEN "error" ELSE s]
              ELSE sendst

SetSend(j, s) ==
    sendst' = IF Exists(j) THEN [sendst EXCEPT ![j] = s] ELSE sendst

WSent ==
    /\ \/ wpc = "sent" /\ SetSend(wjob, "sent")
       \/ wpc = "senderror" /\ SetSend(wjob, "failed")
    /\ WorkerGoes("notify")
    /\ UNCHANGED <<status, cancel, owner, group, output, chapter, disk,
                   waiting, clients, world>>

(* The handler of _worker_loop for an exception of _run_job. *)
\* Mutation: the handler only logs.
WExceptLogged ==
    /\ wpc = "except" /\ WorkerGoes("fill")
    /\ UNCHANGED <<rows, disk, waiting, clients, world>>

WExcept ==
    /\ wpc = "except"
    /\ SetStatus(wjob, "failed")
    /\ WorkerGoes("fill")
    /\ UNCHANGED <<cancel, owner, group, output, sendst, chapter, disk,
                   waiting, clients, world>>

(* A database error inside _run_job is caught by the loop, one inside the  *)
(* loop's handler ends the worker task, one inside the fill gives it up.   *)
WDbError ==
    /\ wpc \notin {"get", "put", "dead", "fetch", "notify", "send"}
    /\ Spend("dberror")
    /\ WorkerGoes(CASE wpc = "except" -> "dead" [] wpc = "fill" -> "get" [] OTHER -> "except")
    /\ UNCHANGED <<rows, disk, waiting, clients, perm, bot>>

(* _fill_waiting_queue: read the database, then put under the lock. *)
WFill ==
    /\ wpc = "fill"
    /\ wfill' = WaitingIds
    /\ wpc' = "put"
    /\ UNCHANGED <<rows, disk, waiting, wjob, wlen, wpos, clients, world>>

WPut ==
    /\ wpc = "put" /\ wfill # {} /\ Len(queue) < QueueMax
    /\ \E j \in wfill :
        /\ \A k \in wfill : j <= k
        /\ wfill' = wfill \ {j}
        /\ IF j \in queuedIds
           THEN UNCHANGED waiting
           ELSE queue' = Append(queue, j) /\ queuedIds' = queuedIds \cup {j}
    /\ UNCHANGED <<rows, disk, wpc, wjob, wlen, wpos, clients, world>>

WPutEnd ==
    /\ wpc = "put" /\ (wfill = {} \/ Len(queue) = QueueMax)
    /\ wpc' = "get" /\ wfill' = {}
    /\ UNCHANGED <<rows, disk, waiting, wjob, wlen, wpos, clients, world>>

WorkerStep ==
    \/ WGet \/ WStart \/ WBegin \/ WLoop \/ WSetCancel \/ WCheck \/ WFetch
    \/ WMark \/ WJobFail \/ WNotify \/ WFinal \/ WMerge \/ WComplete
    \/ WAllowed \/ WSend \/ WSent \/ WExcept \/ WFill \/ WPut \/ WPutEnd

-----------------------------------------------------------------------------
(* The commands *)

ClientHolds(c, pc, j, seen) ==
    /\ cpc' = [cpc EXCEPT ![c] = pc]
    /\ cjob' = [cjob EXCEPT ![c] = IF pc = "idle" THEN 0 ELSE j]
    /\ cseen' = [cseen EXCEPT ![c] = seen]
    /\ UNCHANGED cfiles

Nothing == [status |-> "absent", cancel |-> FALSE, output |-> FALSE,
            sendst |-> "pending", reset |-> {}]

ClientGoes(c, pc, j) == ClientHolds(c, pc, j, Nothing)

(* A command's first session.get: the row is read, nothing is locked. *)
Reads(c, pc, j) ==
    /\ cpc[c] = "idle"
    /\ ClientHolds(c, pc, j, [status |-> status[j], cancel |-> cancel[j],
                              output |-> output[j], sendst |-> sendst[j], reset |-> {}])
    /\ UNCHANGED <<rows, disk, waiting, worker, perm, bot>>

(* The ORM writes a column only where its new value is not the one it read. *)
Written(column, j, read, new) ==
    IF new = read THEN column ELSE [column EXCEPT ![j] = new]

(* submit_job, one at a time under _submit_lock: the quotas, then the rows. *)
Submit(c, u, g, n) ==
    /\ cpc[c] = "idle" /\ ~SubmitLocked
    /\ Spend("submit")
    /\ ActiveOf(owner, u) < UserActiveMax
    /\ g # NoGroup => ActiveOf(group, g) < GroupActiveMax
    /\ \E j \in JobIds :
        /\ NextId(j)
        /\ status'  = [status EXCEPT ![j] = "queued"]
        /\ cancel'  = [cancel EXCEPT ![j] = FALSE]
        /\ owner'   = [owner EXCEPT ![j] = u]
        /\ group'   = [group EXCEPT ![j] = g]
        /\ output'  = [output EXCEPT ![j] = FALSE]
        /\ sendst'  = [sendst EXCEPT ![j] = "pending"]
        /\ chapter' = [chapter EXCEPT ![j] =
                        [p \in Positions |-> IF p <= n THEN "pending" ELSE "none"]]
        /\ ClientGoes(c, "enqueue", j)
    /\ UNCHANGED <<disk, waiting, worker, perm, bot>>

(* The _enqueue of submit_job and of retry_job. *)
EnqueueStep(c) ==
    /\ cpc[c] \in {"enqueue", "requeue"}
    /\ Enqueue(cjob[c])
    /\ ClientGoes(c, IF Enqueued(cjob[c]) THEN "idle"
                     ELSE IF cpc[c] = "enqueue" THEN "reject" ELSE "refuse", cjob[c])
    /\ UNCHANGED <<rows, disk, world>>

(* The queue was full: _mark_job_failed, in a later block. *)
Reject(c) ==
    /\ cpc[c] \in {"reject", "refuse"}
    /\ SetStatus(cjob[c], "failed")
    /\ ClientGoes(c, "idle", cjob[c])
    /\ UNCHANGED <<cancel, owner, group, output, sendst, chapter, disk,
                   waiting, worker, world>>

(* cancel_job: what it writes is decided on the row as it was read. *)
Cancel(c, j) ==
    /\ Spend("cancel")
    /\ status[j] \in Active
    /\ Reads(c, "cancel", j)

\* Mutation: only a running job gets the flag, a queued one is just cancelled.
CancelLandsUnflagged(c) ==
    /\ cpc[c] = "cancel"
    /\ IF Exists(cjob[c]) /\ cseen[c].status = "queued"
       THEN SetStatus(cjob[c], "cancelled") /\ UNCHANGED cancel
       ELSE UNCHANGED status /\ cancel' = IF Exists(cjob[c])
                THEN [cancel EXCEPT ![cjob[c]] = TRUE] ELSE cancel
    /\ ClientGoes(c, "idle", cjob[c])
    /\ UNCHANGED <<owner, group, output, sendst, chapter, disk, waiting, worker, world>>

CancelLands(c) ==
    /\ cpc[c] = "cancel"
    /\ LET j == cjob[c] IN
        IF Exists(j)
        THEN /\ cancel' = Written(cancel, j, cseen[c].cancel, TRUE)
             /\ status' = IF cseen[c].status = "queued"
                          THEN [status EXCEPT ![j] = "cancelled"] ELSE status
        ELSE UNCHANGED <<status, cancel>>
    /\ ClientGoes(c, "idle", cjob[c])
    /\ UNCHANGED <<owner, group, output, sendst, chapter, disk, waiting, worker, world>>

(* retry_job: a failed or cancelled job, or a completed one with a chapter *)
(* lost to an outage, goes back to the queue with what it has already got. *)
HasOutage(j, read) == read = "completed" /\ \E p \in Positions : chapter[j][p] = "outage"

\* Mutation: only the chapters of a completed job are kept.
KeepsIfCompleted(j, p, read) ==
    \/ HasOutage(j, read) /\ chapter[j][p] = "completed" /\ HasFile(j, p)
    \/ HasOutage(j, read) /\ chapter[j][p] = "unavailable"
    \/ chapter[j][p] = "none"

Keeps(j, p, read) ==
    \/ chapter[j][p] = "completed" /\ HasFile(j, p)
    \/ HasOutage(j, read) /\ chapter[j][p] = "unavailable"
    \/ chapter[j][p] = "none"

Retry(c, j) ==
    /\ Spend("retry")
    /\ status[j] \in {"completed", "failed", "cancelled"}
    /\ Reads(c, "retry", j)

(* The chapters are read, and those to be fetched again are chosen. *)
RetryReads(c) ==
    /\ cpc[c] = "retry"
    /\ LET j == cjob[c]
           seen == cseen[c]
           again == {p \in Positions : ~Keeps(j, p, seen.status) /\ chapter[j][p] # "pending"}
       IN IF seen.status = "completed" /\ ~HasOutage(j, seen.status)
          THEN ClientGoes(c, "idle", j)
          ELSE ClientHolds(c, "reset", j, [seen EXCEPT !.reset = again])
    /\ UNCHANGED <<rows, disk, waiting, worker, world>>

(* Its commit.  Nothing is written when the job, or a chapter to reset, is *)
(* no longer there: the UPDATE raises.                                     *)
RetryLands(c) ==
    /\ cpc[c] = "reset"
    /\ LET j == cjob[c]
           seen == cseen[c]
       IN IF Exists(j) /\ seen.reset \subseteq Chapters(j)
          THEN /\ status' = [status EXCEPT ![j] = "queued"]
               /\ cancel' = Written(cancel, j, seen.cancel, FALSE)
               /\ output' = Written(output, j, seen.output, FALSE)
               /\ sendst' = Written(sendst, j, seen.sendst, "pending")
               /\ chapter' = [chapter EXCEPT ![j] =
                    [p \in Positions |-> IF p \in seen.reset THEN "pending" ELSE @[p]]]
               /\ ClientGoes(c, "requeue", j)
          ELSE ClientGoes(c, "idle", j) /\ UNCHANGED rows
    /\ UNCHANGED <<owner, group, disk, waiting, worker, world>>

(* deliver_job: the status, then (awaited) the permission, then the file,  *)
(* and the upload; or the commit of a job whose book has expired.          *)
Deliver(c, j) ==
    /\ Spend("deliver")
    /\ status[j] = "completed" /\ output[j]
    /\ Reads(c, "deliver", j)

DeliverChecks(c) ==
    /\ cpc[c] = "deliver"
    /\ IF perm /\ ~HasFile(cjob[c], 0)
       THEN ClientHolds(c, "expired", cjob[c], cseen[c])
       ELSE ClientGoes(c, IF perm THEN "upload" ELSE "idle", cjob[c])
    /\ UNCHANGED <<rows, disk, waiting, worker, world>>

DeliverExpires(c) ==
    /\ cpc[c] = "expired"
    /\ SetStatus(cjob[c], "failed")
    /\ sendst' = IF Exists(cjob[c])
                 THEN Written(sendst, cjob[c], cseen[c].sendst, "failed") ELSE sendst
    /\ ClientGoes(c, "idle", cjob[c])
    /\ UNCHANGED <<cancel, owner, group, output, chapter, disk, waiting, worker, world>>

Upload(c) ==
    /\ cpc[c] = "upload"
    /\ \/ CanSend(cjob[c]) /\ ClientGoes(c, "uploaded", cjob[c])
       \/ ClientGoes(c, "notsent", cjob[c])
    /\ UNCHANGED <<rows, disk, waiting, worker, world>>

Uploaded(c) ==
    /\ cpc[c] \in {"uploaded", "notsent"}
    /\ SetSend(cjob[c], IF cpc[c] = "uploaded" THEN "sent" ELSE "failed")
    /\ ClientGoes(c, "idle", cjob[c])
    /\ UNCHANGED <<status, cancel, owner, group, output, chapter, disk,
                   waiting, worker, world>>

(* delete_job removes the rows of a job in any state, then unlinks the     *)
(* files those rows named.                                                 *)
Delete(c, j) ==
    /\ cpc[c] = "idle" /\ Exists(j)
    /\ Spend("delete")
    /\ status'  = [status EXCEPT ![j] = "absent"]
    /\ cancel'  = [cancel EXCEPT ![j] = FALSE]
    /\ owner'   = [owner EXCEPT ![j] = NoUser]
    /\ group'   = [group EXCEPT ![j] = NoGroup]
    /\ output'  = [output EXCEPT ![j] = FALSE]
    /\ sendst'  = [sendst EXCEPT ![j] = "pending"]
    /\ chapter' = [chapter EXCEPT ![j] = [p \in Positions |-> "none"]]
    /\ cpc'     = [cpc EXCEPT ![c] = "unlink"]
    /\ cjob'    = [cjob EXCEPT ![c] = j]
    /\ UNCHANGED cseen
    /\ cfiles'  = [cfiles EXCEPT ![c] =
                    {<<j, p>> : p \in {q \in Positions : chapter[j][q] = "completed"}}
                    \cup (IF output[j] THEN {<<j, 0>>} ELSE {})]
    /\ UNCHANGED <<disk, waiting, worker, perm, bot>>

RemoveFiles(gone) ==
    /\ files' = files \ gone
    /\ gapped' = {j \in gapped : <<j, 0>> \notin gone}

Unlink(c) ==
    /\ cpc[c] = "unlink"
    /\ RemoveFiles(cfiles[c])
    /\ cpc' = [cpc EXCEPT ![c] = "idle"]
    /\ cjob' = [cjob EXCEPT ![c] = 0]
    /\ cfiles' = [cfiles EXCEPT ![c] = {}]
    /\ UNCHANGED <<rows, waiting, worker, cseen, world>>

ClientStep(c) ==
    \/ EnqueueStep(c) \/ Reject(c)
    \/ CancelLands(c)
    \/ RetryReads(c) \/ RetryLands(c)
    \/ DeliverChecks(c) \/ DeliverExpires(c) \/ Upload(c) \/ Uploaded(c)
    \/ Unlink(c)

-----------------------------------------------------------------------------
(* The process and its surroundings *)

(* cleanup_expired_files removes whatever is older than the retention. *)
Expire ==
    /\ Spend("expire")
    /\ \E gone \in SUBSET files : gone # {} /\ RemoveFiles(gone)
    /\ UNCHANGED <<rows, waiting, worker, clients, perm, bot>>

(* The feature switch of the group or user is flipped. *)
TogglePerm ==
    /\ Spend("perm")
    /\ perm' = ~perm
    /\ UNCHANGED <<rows, disk, waiting, worker, clients, bot>>

(* The chat connection is lost or comes back. *)
ToggleBot ==
    /\ Spend("bot")
    /\ bot' = ~bot
    /\ UNCHANGED <<rows, disk, waiting, worker, clients, perm>>

(* The process stops (_stop_worker or a crash) and starts again: what was  *)
(* in memory is gone, _restore_jobs requeues the running rows, starts a    *)
(* worker and fills.                                                       *)
Lost ==
    /\ queue' = <<>> /\ queuedIds' = {}
    /\ wpc' = "fill" /\ wjob' = 0 /\ wlen' = 0 /\ wpos' = 0 /\ wfill' = {}
    /\ cpc' = [c \in Clients |-> "idle"]
    /\ cjob' = [c \in Clients |-> 0]
    /\ cseen' = [c \in Clients |-> Nothing]
    /\ cfiles' = [c \in Clients |-> {}]

\* Mutation: only the queued rows are looked for.
RestartQueuedOnly ==
    /\ Spend("restart") /\ Lost
    /\ UNCHANGED <<rows, disk, perm, bot>>

Restart ==
    /\ Spend("restart") /\ Lost
    /\ status' = [j \in JobIds |-> IF status[j] = "running" THEN "queued" ELSE status[j]]
    /\ UNCHANGED <<cancel, owner, group, output, sendst, chapter, disk, perm, bot>>

Environment == Expire \/ TogglePerm \/ ToggleBot \/ Restart \/ WDbError

Commands ==
    \/ \E c \in Clients, u \in Users, g \in Groups \cup {NoGroup}, n \in Positions :
          Submit(c, u, g, n)
    \/ \E c \in Clients, j \in JobIds :
          Cancel(c, j) \/ Retry(c, j) \/ Deliver(c, j) \/ Delete(c, j)

(* No job, no file and nothing under way. *)
Fresh ==
    /\ status = [j \in JobIds |-> "absent"]
    /\ cancel = [j \in JobIds |-> FALSE]
    /\ owner = [j \in JobIds |-> NoUser]
    /\ group = [j \in JobIds |-> NoGroup]
    /\ output = [j \in JobIds |-> FALSE]
    /\ sendst = [j \in JobIds |-> "pending"]
    /\ chapter = [j \in JobIds |-> [p \in Positions |-> "none"]]
    /\ files = {} /\ gapped = {}
    /\ queue = <<>> /\ queuedIds = {}
    /\ wpc = "get" /\ wjob = 0 /\ wlen = 0 /\ wpos = 0 /\ wfill = {}
    /\ cpc = [c \in Clients |-> "idle"]
    /\ cjob = [c \in Clients |-> 0]
    /\ cseen = [c \in Clients |-> Nothing]
    /\ cfiles = [c \in Clients |-> {}]
    /\ perm = TRUE /\ bot = TRUE

Init == Fresh /\ left = Budget

Next == WorkerStep \/ (\E c \in Clients : ClientStep(c)) \/ Commands \/ Environment

Spec == Init /\ [][Next]_vars

(* No command's commit comes too late: the job is still one that it may be *)
(* cancelled, retried or found expired, its flag has not been turned       *)
(* meanwhile, and no job is queued again behind the worker that has it.    *)
Timely ==
    \A c \in Clients :
        LET j == cjob[c]
            seen == cseen[c]
        IN  /\ CancelLands(c) => /\ status[j] \in Active \cup {"cancelled"}
                                 /\ seen.cancel => cancel[j]
            /\ RetryLands(c) => /\ status[j] \in {"completed", "failed", "cancelled"}
                                /\ cancel[j] => seen.cancel
                                /\ wjob = j => wpc \notin Working
            /\ DeliverExpires(c) => status[j] = "completed"

(* The event loop runs every task that can run. *)
FairSpec == Spec /\ WF_vars(WorkerStep) /\ \A c \in Clients : WF_vars(ClientStep(c))

-----------------------------------------------------------------------------
(* Properties *)

Seen == [status : JobStatus, cancel : BOOLEAN, output : BOOLEAN,
         sendst : SendStatus, reset : SUBSET Positions]

(* Every variable keeps its type. *)
TypeOK ==
    /\ status \in [JobIds -> JobStatus]
    /\ cancel \in [JobIds -> BOOLEAN]
    /\ owner \in [JobIds -> Users \cup {NoUser}]
    /\ group \in [JobIds -> Groups \cup {NoGroup}]
    /\ output \in [JobIds -> BOOLEAN]
    /\ sendst \in [JobIds -> SendStatus]
    /\ chapter \in [JobIds -> [Positions -> ChapterStatus]]
    /\ files \subseteq Files /\ gapped \subseteq JobIds
    /\ queue \in Seq(JobIds) /\ queuedIds \subseteq JobIds
    /\ wpc \in WorkerPc /\ wjob \in JobIds \cup {0}
    /\ wlen \in 0..MaxChapters /\ wpos \in 0..(MaxChapters + 1)
    /\ wfill \subseteq JobIds
    /\ cpc \in [Clients -> ClientPc]
    /\ cjob \in [Clients -> JobIds \cup {0}]
    /\ cseen \in [Clients -> Seen]
    /\ cfiles \in [Clients -> SUBSET Files]
    /\ perm \in BOOLEAN /\ bot \in BOOLEAN
    /\ left \in [Kinds -> Nat]

(* The bounded queue and _queued_ids, which three callers change in        *)
(* different places (_enqueue, the fill, the worker), always hold the same *)
(* ids, each once, and never more than fanqie_queue_max of them.           *)
QueueMirrorsIds ==
    /\ Len(queue) <= QueueMax
    /\ queuedIds = {queue[i] : i \in DOMAIN queue}
    /\ \A i, k \in DOMAIN queue : queue[i] = queue[k] => i = k

(* How often the database has failed under the worker. *)
DatabaseErrors == Budget["dberror"] - left["dberror"]

(* When the worker waits on an empty queue and no command is under way, no *)
(* job is left queued or running: what did not fit the queue, what a fill  *)
(* read too early and what a restart interrupted has been picked up.       *)
NoneForgotten ==
    (wpc = "get" /\ queue = <<>> /\ DatabaseErrors = 0 /\ \A c \in Clients : cpc[c] = "idle")
        => \A j \in JobIds : status[j] \notin Active

(* A row says "running" only while the worker has that job in hand: two    *)
(* jobs never run at once, a restart leaves none behind, and neither does  *)
(* a database error; only a second one, in the handler of the first, may.  *)
RunningHasWorker ==
    DatabaseErrors <= 1 =>
        \A j \in JobIds : status[j] = "running" =>
            wjob = j /\ wpc \notin {"get", "start", "fill", "put", "dead"}

(* A chapter that was downloaded stays downloaded while its file exists:   *)
(* no retry chooses it to be fetched again, and nothing but the commit of  *)
(* a retry that had found it missing (another one may have fetched it      *)
(* since) takes it back, unless the job is deleted.                        *)
DownloadsKept ==
    [][\A j \in JobIds, p \in Positions :
        (chapter[j][p] = "completed" /\ HasFile(j, p)) =>
            /\ \A c \in Clients : cpc[c] = "retry" /\ cjob[c] = j => p \notin cseen'[c].reset
            /\ \/ chapter'[j][p] = "completed" \/ status'[j] = "absent"
               \/ \E c \in Clients : /\ cpc[c] = "reset" /\ cpc'[c] = "requeue"
                                 /\ cjob[c] = j /\ p \in cseen[c].reset]_vars

(* The merged book never stands in for a chapter that was neither          *)
(* downloaded nor found unavailable (docs/fanqie-notice.md).               *)
NoHoles == gapped = {}

(* The rows move as JobLifecycle promises. *)
Lifecycle == INSTANCE JobLifecycle
    WITH Jobs <- JobIds, st <- status, wish <- {j \in JobIds : cancel[j]}

KeepsPromise == Lifecycle!LSpec

(* Every job that waits or runs is eventually settled (or removed). *)
EveryJobSettles ==
    \A j \in JobIds : status[j] \in Active ~> status[j] \notin Active

(* A completed job turns into a failed one only when its book has expired: *)
(* a group message that cannot be sent changes no row.                     *)
NotifyKeepsStatus ==
    [][\A j \in JobIds :
        (status[j] = "completed" /\ status'[j] = "failed") => ~HasFile(j, 0)]_vars

=============================================================================
