------------------------------- MODULE ChatMode -------------------------------
(***************************************************************************)
(* The chat mode of one user (chat_state.py, ai_chat.py): the entry of     *)
(* _states and the state objects behind it, their workers, the lock of the *)
(* user's turns, and the handlers of messages, commands, resets and exits. *)
(*                                                                         *)
(* One step is one stretch of the event loop between two awaits.  A        *)
(* cancelled task ends at its next step.  A state object lives on while a  *)
(* worker holds it, also when _states has another one.                     *)
(***************************************************************************)
EXTENDS Integers, SequencesExt

CONSTANTS
    Texts,     \* plain messages
    Commands,  \* messages sent as /对话 <text>, which are never merged
    States,    \* state objects
    Tasks,     \* worker tasks
    MaxQueue,  \* _CHAT_QUEUE_MAX
    Budget     \* bound: how often each outside event happens, and all of them

Msgs   == Texts \union Commands
Events == {"enter", "exit", "reset", "deny", "idle", "dberror"}

(* Who takes the lock of the turns. *)
Parties == Tasks \union {"reset", "once"}

ASSUME ChatAssumption ==
    /\ "none" \notin States \union Tasks
    /\ {"reset", "once"} \intersect Tasks = {}
    /\ Texts \intersect Commands = {}
    /\ MaxQueue \in Nat \ {0} /\ Budget \in [Events \union {"all"} -> Nat]

VARIABLES
    current, \* the state in _states, or "none"
    mode,    \* in_mode of every state
    queue,   \* and its queue
    slot,    \* and its worker, or "none"
    task,    \* the worker tasks
    lock,    \* the user's turn lock: its owner and those who wait
    reset,   \* where /新对话 is, and the worker it waits for
    once,    \* where a single /对话 <text> out of the mode is
    paused,  \* the user does not want automatic replies
    fate,    \* what has become of every message
    broken,  \* history: a reset has failed and no message has come since
    strayed, \* history: a worker took up another state than it was made for
    left     \* what remains of Budget

vars == <<current, mode, queue, slot, task, lock, reset, once, paused, fate,
          broken, strayed, left>>

NoTask  == [pc |-> "none", st |-> "none", born |-> "none", hand |-> {}, cut |-> FALSE]
NoReset == [pc |-> "idle", wait |-> "none"]

InMode == current # "none" /\ mode[current]

Happens(e) ==
    /\ left[e] > 0 /\ left["all"] > 0
    /\ left' = [left EXCEPT ![e] = @ - 1, !["all"] = @ - 1]

(* The lock is fair: a release hands it to the first who waits. *)
Owns(p) == lock # <<>> /\ Head(lock) = p

\* Mutation: a cancelled waiter keeps its place.
StillWaiting(p) == IF Owns(p) THEN Tail(lock) ELSE lock

(* p lets the lock go or no longer waits for it. *)
Released(p) ==
    IF \E i \in 1..Len(lock) : lock[i] = p
    THEN RemoveAt(lock, CHOOSE i \in 1..Len(lock) : lock[i] = p)
    ELSE lock

-----------------------------------------------------------------------------
(* chat_state.py *)

(* A worker that has ended is in no slot. *)
Unslotted(t) == [s \in States |-> IF slot[s] = t THEN "none" ELSE slot[s]]

FreeTasks == {t \in Tasks : task[t].pc = "none" /\ reset.wait # t}

(* ensure_worker for state s; which task object is free does not matter. *)
EnsureWorker(s) ==
    IF slot[s] # "none" THEN UNCHANGED <<slot, task>>
    ELSE LET t == CHOOSE t \in FreeTasks : TRUE
         IN  /\ FreeTasks # {}
             /\ slot' = [slot EXCEPT ![s] = t]
             /\ task' = [task EXCEPT ![t] = [NoTask EXCEPT !.pc = "new", !.born = s]]

FreeStates == {s \in States : s # current /\ \A t \in Tasks : s \notin {task[t].st, task[t].born}}

(* enter_mode out of the mode: a new object takes the entry. *)
NewState(s) ==
    /\ FreeStates # {} /\ s = CHOOSE f \in FreeStates : TRUE
    /\ current' = s /\ mode' = [mode EXCEPT ![s] = TRUE]

\* Mutation: one message too many.
HasRoomLate(q) == Len(q) <= MaxQueue

HasRoom(q) == Len(q) < MaxQueue

(* enqueue, then ensure_worker; a full queue turns the message away. *)
Enqueue(m, s, q) ==
    IF HasRoom(q)
    THEN /\ queue' = [queue EXCEPT ![s] = Append(q, m)]
         /\ fate' = [fate EXCEPT ![m] = "queued"]
         /\ broken' = FALSE
         /\ EnsureWorker(s)
    ELSE /\ queue' = [queue EXCEPT ![s] = q]
         /\ fate' = [fate EXCEPT ![m] = "refused"]
         /\ UNCHANGED <<slot, task, broken>>

\* Mutation: the worker is only forgotten.
Forgotten(t) == task

Cancelled(t) == IF t = "none" THEN task ELSE [task EXCEPT ![t].cut = TRUE]

(* exit_mode, which does nothing out of the mode *)
ExitMode ==
    IF InMode
    THEN /\ mode' = [mode EXCEPT ![current] = FALSE]
         /\ queue' = [queue EXCEPT ![current] = <<>>]
         /\ slot' = [slot EXCEPT ![current] = "none"]
         /\ task' = Cancelled(slot[current])
    ELSE UNCHANGED <<mode, queue, slot, task>>

-----------------------------------------------------------------------------
(* _worker_loop *)

(* It looks its state up only when it first runs. *)
Start(t) ==
    /\ task[t].pc = "new" /\ ~task[t].cut
    /\ IF current = "none"
       THEN /\ task' = [task EXCEPT ![t] = NoTask]
            /\ slot' = Unslotted(t)
            /\ UNCHANGED strayed
       ELSE /\ task' = [task EXCEPT ![t].pc = "get", ![t].st = current]
            /\ strayed' = (strayed \/ task[t].born # current)
            /\ UNCHANGED slot
    /\ UNCHANGED <<current, mode, queue, lock, reset, once, paused, fate, broken, left>>

\* Mutation: the entry goes whatever state it holds.
EntryDropped(s, modes) == IF modes[s] THEN current ELSE "none"

EntryAfter(s, modes) == IF current = s /\ ~modes[s] THEN "none" ELSE current

(* The finally block: the slot and the entry, if they are still its own. *)
Finishes(t, modes) ==
    LET s == task[t].st
    IN  /\ task' = [task EXCEPT ![t] = NoTask]
        /\ slot' = Unslotted(t)
        /\ current' = EntryAfter(s, modes)

Get(t) ==
    LET s == task[t].st  q == queue[s]
    IN  /\ task[t].pc = "get" /\ ~task[t].cut /\ q # <<>>
        /\ IF mode[s]
           THEN /\ queue' = [queue EXCEPT ![s] = Tail(q)]
                /\ task' = [task EXCEPT ![t].hand = {Head(q)},
                               ![t].pc = IF Head(q) \in Texts THEN "burst" ELSE "lock"]
                /\ lock' = IF Head(q) \in Texts THEN lock ELSE Append(lock, t)
                /\ UNCHANGED <<current, slot>>
           ELSE /\ queue' = [queue EXCEPT ![s] = <<>>]
                /\ Finishes(t, mode)
                /\ UNCHANGED lock
        /\ UNCHANGED <<mode, reset, once, paused, fate, broken, strayed, left>>

(* n is the number of texts at the front of a queue; a window of zero, which *)
(* the settings allow, takes none.                                           *)
IsBurst(q, n) ==
    \/ n = 0
    \/ /\ \A i \in 1..n : q[i] \in Texts
       /\ n < Len(q) => q[n + 1] \in Commands

\* Mutation: only the latest message is kept.
LatestOf(hand, q, n) == IF n = 0 THEN hand ELSE {q[n]}

Joined(hand, q, n) == hand \union {q[i] : i \in 1..n}

(* _merge_burst: what came in the short window joins the message. *)
Merge(t) ==
    LET s == task[t].st  q == queue[s]
    IN  /\ task[t].pc = "burst" /\ ~task[t].cut
        /\ \E n \in 0..Len(q) :
              /\ IsBurst(q, n)
              /\ task' = [task EXCEPT ![t].pc = "lock", ![t].hand = Joined(@, q, n)]
              /\ queue' = [queue EXCEPT ![s] = SubSeq(q, n + 1, Len(q))]
        /\ lock' = Append(lock, t)
        /\ UNCHANGED <<current, mode, slot, reset, once, paused, fate, broken, strayed, left>>

(* _run_user_chat under the lock *)
TurnStart(t) ==
    /\ task[t].pc = "lock" /\ ~task[t].cut /\ Owns(t)
    /\ task' = [task EXCEPT ![t].pc = "turn"]
    /\ fate' = [m \in Msgs |-> IF m \in task[t].hand THEN "started" ELSE fate[m]]
    /\ UNCHANGED <<current, mode, queue, slot, lock, reset, once, paused, broken, strayed, left>>

TurnEnd(t) ==
    /\ task[t].pc = "turn" /\ ~task[t].cut
    /\ task' = [task EXCEPT ![t].pc = "get", ![t].hand = {}]
    /\ lock' = Released(t)
    /\ UNCHANGED <<current, mode, queue, slot, reset, once, paused, fate, broken, strayed, left>>

(* Ten minutes have passed on an empty queue; the task runs a little later. *)
TimerFires(t) ==
    /\ task[t].pc = "get" /\ ~task[t].cut /\ queue[task[t].st] = <<>>
    /\ Happens("idle")
    /\ task' = [task EXCEPT ![t].pc = "expired"]
    /\ UNCHANGED <<current, mode, queue, slot, lock, reset, once, paused, fate, broken, strayed>>

TimedOut(t) ==
    /\ task[t].pc = "expired" /\ ~task[t].cut
    /\ mode' = [mode EXCEPT ![task[t].st] = FALSE]
    /\ Finishes(t, mode')
    /\ UNCHANGED <<queue, lock, reset, once, paused, fate, broken, strayed, left>>

(* CancelledError; a task that has not started has no finally block yet. *)
Cut(t) ==
    /\ task[t].cut
    /\ IF task[t].pc = "new"
       THEN task' = [task EXCEPT ![t] = NoTask] /\ slot' = Unslotted(t) /\ UNCHANGED current
       ELSE Finishes(t, mode)
    /\ lock' = Released(t)
    /\ UNCHANGED <<mode, queue, reset, once, paused, fate, broken, strayed, left>>

-----------------------------------------------------------------------------
(* The handlers of messages *)

(* A text in the mode, or one the automatic reply takes: both handlers now *)
(* await the permission.                                                   *)
Say(m) ==
    /\ m \in Texts /\ fate[m] = "new"
    /\ InMode \/ ~paused
    /\ fate' = [fate EXCEPT ![m] = IF InMode THEN "asked" ELSE "auto"]
    /\ UNCHANGED <<current, mode, queue, slot, task, lock, reset, once, paused,
                   broken, strayed, left>>

(* _handle_chat_mode_msg: whatever state there is now, in the mode or not *)
Permit(m) ==
    /\ fate[m] = "asked"
    /\ IF current = "none"
       THEN /\ fate' = [fate EXCEPT ![m] = "refused"]
            /\ UNCHANGED <<queue, slot, task, broken>>
       ELSE Enqueue(m, current, queue[current])
    /\ UNCHANGED <<current, mode, lock, reset, once, paused, strayed, left>>

(* _handle_auto_reply *)
PermitAuto(m) ==
    /\ fate[m] = "auto"
    /\ \/ /\ InMode
          /\ Enqueue(m, current, queue[current])
          /\ UNCHANGED <<current, mode>>
       \/ /\ ~InMode
          /\ \E s \in States :
                NewState(s) /\ Enqueue(m, s, <<>>)
    /\ UNCHANGED <<lock, reset, once, paused, strayed, left>>

(* The feature is switched off. *)
Deny(m) ==
    /\ fate[m] \in {"asked", "auto"} /\ Happens("deny")
    /\ fate' = [fate EXCEPT ![m] = "refused"]
    /\ IF fate[m] = "asked" THEN ExitMode ELSE UNCHANGED <<mode, queue, slot, task>>
    /\ UNCHANGED <<current, lock, reset, once, paused, broken, strayed>>

(* /对话 *)
Enter ==
    /\ Happens("enter")
    /\ IF InMode THEN UNCHANGED <<current, mode, queue, slot, task>>
       ELSE \E s \in States :
               /\ NewState(s)
               /\ queue' = [queue EXCEPT ![s] = <<>>]
               /\ EnsureWorker(s)
    /\ paused' = FALSE
    /\ UNCHANGED <<lock, reset, once, fate, broken, strayed>>

(* /对话 <text>: queued in the mode, else a turn of its own *)
Ask(m) ==
    /\ m \in Commands /\ fate[m] = "new"
    /\ IF InMode
       THEN Enqueue(m, current, queue[current]) /\ UNCHANGED <<lock, once>>
       ELSE /\ once = "idle" /\ once' = "lock" /\ lock' = Append(lock, "once")
            /\ fate' = [fate EXCEPT ![m] = "started"]
            /\ UNCHANGED <<queue, slot, task, broken>>
    /\ paused' = FALSE
    /\ UNCHANGED <<current, mode, reset, strayed, left>>

OnceTurn ==
    /\ once = "lock" /\ Owns("once")
    /\ once' = "turn"
    /\ UNCHANGED <<current, mode, queue, slot, task, lock, reset, paused, fate,
                   broken, strayed, left>>

OnceEnd ==
    /\ once = "turn"
    /\ once' = "idle" /\ lock' = Released("once")
    /\ UNCHANGED <<current, mode, queue, slot, task, reset, paused, fate,
                   broken, strayed, left>>

(* /退出 *)
Exit ==
    /\ Happens("exit")
    /\ ExitMode
    /\ paused' = TRUE
    /\ UNCHANGED <<current, lock, reset, once, fate, broken, strayed>>

-----------------------------------------------------------------------------
(* /新对话 *)

Reset ==
    /\ reset.pc = "idle" /\ Happens("reset")
    /\ reset' = [NoReset EXCEPT !.pc = "lock"]
    /\ lock' = Append(lock, "reset")
    /\ UNCHANGED <<current, mode, queue, slot, task, once, paused, fate, broken, strayed>>

\* Mutation: the reset does not wait for the lock.
ResetAnyTime == reset.pc = "lock"

ResetMay == reset.pc = "lock" /\ Owns("reset")

(* stop_worker under the lock: the slot is cleared and the task awaited. *)
ResetStop ==
    /\ ResetMay
    /\ LET t == IF current = "none" THEN "none" ELSE slot[current]
       IN  IF t = "none"
           THEN reset' = [reset EXCEPT !.pc = "commit"] /\ UNCHANGED <<slot, task>>
           ELSE /\ reset' = [pc |-> "stop", wait |-> t]
                /\ slot' = [slot EXCEPT ![current] = "none"]
                /\ task' = Cancelled(t)
    /\ UNCHANGED <<current, mode, queue, lock, once, paused, fate, broken, strayed, left>>

ResetStopped ==
    /\ reset.pc = "stop" /\ task[reset.wait].pc = "none"
    /\ reset' = [NoReset EXCEPT !.pc = "commit"]
    /\ UNCHANGED <<current, mode, queue, slot, task, lock, once, paused, fate,
                   broken, strayed, left>>

\* Mutation: the worker is not started again.
NoRestart == UNCHANGED <<slot, task>>

(* In the mode the rest of the queue goes on in the new session. *)
Restart == IF InMode THEN EnsureWorker(current) ELSE UNCHANGED <<slot, task>>

(* _reset_chat_session has committed. *)
ResetDone ==
    /\ reset.pc = "commit"
    /\ reset' = NoReset /\ lock' = Released("reset")
    /\ Restart
    /\ UNCHANGED <<current, mode, queue, once, paused, fate, broken, strayed, left>>

ResetFails ==
    /\ reset.pc = "commit" /\ Happens("dberror")
    /\ reset' = NoReset /\ lock' = Released("reset")
    /\ broken' = TRUE
    /\ UNCHANGED <<current, mode, queue, slot, task, once, paused, fate, strayed>>

-----------------------------------------------------------------------------
Init ==
    /\ current = "none"
    /\ mode = [s \in States |-> FALSE] /\ queue = [s \in States |-> <<>>]
    /\ slot = [s \in States |-> "none"] /\ task = [t \in Tasks |-> NoTask]
    /\ lock = <<>> /\ reset = NoReset /\ once = "idle"
    /\ paused = FALSE /\ fate = [m \in Msgs |-> "new"]
    /\ broken = FALSE /\ strayed = FALSE /\ left = Budget

Work(t) ==
    \/ Start(t) \/ Get(t) \/ Merge(t) \/ TurnStart(t) \/ TurnEnd(t)
    \/ TimedOut(t) \/ Cut(t)

ResetStep == ResetStop \/ ResetStopped \/ ResetDone
OnceStep  == OnceTurn \/ OnceEnd

Next ==
    \/ \E t \in Tasks : Work(t) \/ TimerFires(t)
    \/ \E m \in Msgs : Say(m) \/ Permit(m) \/ PermitAuto(m) \/ Deny(m) \/ Ask(m)
    \/ Enter \/ Exit \/ OnceStep
    \/ Reset \/ ResetStep \/ ResetFails

Spec == Init /\ [][Next]_vars

(* Tasks and handlers that can go on do; turns and commits end. *)
FairSpec ==
    /\ Spec
    /\ \A t \in Tasks : WF_vars(Work(t))
    /\ WF_vars(ResetStep) /\ WF_vars(OnceStep)

-----------------------------------------------------------------------------
(* Properties *)

Workers == [pc : {"none", "new", "get", "burst", "lock", "turn", "expired"},
            st : States \union {"none"}, born : States \union {"none"},
            hand : SUBSET Msgs, cut : BOOLEAN]

Types ==
    /\ current \in States \union {"none"}
    /\ mode \in [States -> BOOLEAN] /\ queue \in [States -> Seq(Msgs)]
    /\ slot \in [States -> Tasks \union {"none"}] /\ task \in [Tasks -> Workers]
    /\ lock \in Seq(Parties)
    /\ reset \in [pc : {"idle", "lock", "stop", "commit"}, wait : Tasks \union {"none"}]
    /\ once \in {"idle", "lock", "turn"} /\ paused \in BOOLEAN
    /\ fate \in [Msgs -> {"new", "asked", "auto", "queued", "started", "refused"}]
    /\ broken \in BOOLEAN /\ strayed \in BOOLEAN /\ left \in [Events \union {"all"} -> Nat]

(* Every variable keeps its type, no queue is over its limit, and the       *)
(* worker in the slot of the entry is alive, not cancelled, and works for   *)
(* that state.                                                              *)
TypeOK ==
    /\ Types
    /\ \A s \in States : Len(queue[s]) <= MaxQueue
    /\ current # "none" /\ slot[current] # "none"
         => /\ task[slot[current]].pc # "none" /\ ~task[slot[current]].cut
            /\ task[slot[current]].pc # "new" => task[slot[current]].st = current

(* A reset deletes the session only when no turn is under way in it.        *)
ResetAlone ==
    reset.pc \in {"stop", "commit"}
        => once # "turn" /\ \A t \in Tasks : task[t].pc # "turn"

(* A message in the queue of the mode has a worker, or a reset will start   *)
(* one; after a failed reset it waits for the next message.                 *)
QueueHasWorker ==
    InMode /\ queue[current] # <<>>
        => slot[current] # "none" \/ reset.pc \in {"stop", "commit"} \/ broken

(* One worker serves a state, and none goes on in a mode that was left,     *)
(* unless a worker started late on the state of a user who had come back.   *)
OneWorker ==
    ~strayed =>
        \A t \in Tasks : task[t].pc \in {"get", "burst", "lock", "turn"} /\ ~task[t].cut =>
            /\ \A u \in Tasks \ {t} : task[u].st = task[t].st => task[u].cut
            /\ mode[task[t].st] \/ task[t].pc = "get"

(* The user leaves the mode by /退出, by a switched-off feature or by a      *)
(* timeout of a worker of this very state, never by the end of an old one.  *)
ModeEnds ==
    [][InMode /\ (current' # current \/ ~mode'[current])
         => \/ left'["exit"] < left["exit"] \/ left'["deny"] < left["deny"]
            \/ \E t \in Tasks : task[t].st = current /\ task[t].pc = "expired"
                                /\ task'[t].pc = "none"]_vars

(* A worker holds the message, or the queue of the mode does. *)
Held(m) ==
    \/ \E t \in Tasks : m \in task[t].hand /\ ~task[t].cut
    \/ InMode /\ \E i \in 1..Len(queue[current]) : queue[current][i] = m

(* A message that was taken in is lost without a turn only when the mode is *)
(* left, when a reset stops the worker that holds it, or when the idle      *)
(* timer ran out just before it came.                                       *)
LostOnlyWhenLeft ==
    [][\A m \in Msgs : fate[m] = "queued" /\ fate'[m] = "queued" /\ Held(m) /\ ~Held(m)'
         => \/ left'["exit"] < left["exit"] \/ left'["deny"] < left["deny"]
            \/ reset.pc = "lock" /\ reset'.pc = "stop"
            \/ \E t \in Tasks : task[t].pc = "expired" /\ task'[t].pc = "none"]_vars

(* A reset has stopped the worker that holds m. *)
DroppedByReset(m) == reset.pc = "stop" /\ m \in task[reset.wait].hand

(* A message that waits in the mode, in the queue or with a worker, gets    *)
(* its turn, unless the mode ends, a reset drops it from a worker's hand,   *)
(* or a reset has failed and left the queue without a worker.               *)
WaitingIsServed ==
    \A m \in Msgs :
        InMode /\ fate[m] = "queued" /\ Held(m)
            ~> fate[m] = "started" \/ ~InMode \/ DroppedByReset(m) \/ broken
=============================================================================
