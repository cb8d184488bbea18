---------------------------- MODULE ChatModeProofs ----------------------------
(***************************************************************************)
(* What ChatMode keeps for any messages, states, tasks, queue limit and    *)
(* outside events: its types, that a reset runs alone, that the queue of   *)
(* the mode has a worker, that one worker serves a state, how the mode     *)
(* ends, and when a message is lost.                                       *)
(***************************************************************************)
EXTENDS ChatMode, SequenceTheorems, TLAPS

Active  == {"get", "burst", "lock", "turn", "expired"}

QueueInv == \A s \in States : Len(queue[s]) <= MaxQueue

(* A slot holds the worker made for its state; it serves that state, or    *)
(* the entry has moved on.  Every worker that is not cancelled has a slot. *)
SlotInv ==
    /\ \A s \in States : slot[s] # "none" =>
          /\ task[slot[s]].pc # "none" /\ ~task[slot[s]].cut
          /\ task[slot[s]].born = s
          /\ task[slot[s]].pc \in Active => task[slot[s]].st = s \/ current # s
    /\ \A t \in Tasks :
          /\ task[t].pc \in Active => task[t].st \in States
          /\ task[t].pc \notin Active => task[t].st = "none"
          /\ task[t].pc = "none" => ~task[t].cut
          /\ task[t].pc # "none" => task[t].born \in States
          /\ task[t].pc # "none" /\ ~task[t].cut => slot[task[t].born] = t

(* As long as no worker strayed, an active one serves the state it was made *)
(* for, and goes beyond the wait only in the mode.                          *)
StrayInv ==
    ~strayed =>
        \A t \in Tasks : task[t].pc \in Active =>
            /\ task[t].st = task[t].born
            /\ task[t].pc \in {"burst", "lock", "turn"} /\ ~task[t].cut => mode[task[t].st]

(* Who is in a turn or a reset owns the lock. *)
LockInv ==
    /\ \A t \in Tasks : task[t].pc = "turn" => Owns(t)
    /\ once = "turn" => Owns("once")
    /\ reset.pc \in {"stop", "commit"} => Owns("reset")

IInv == Types /\ QueueInv /\ SlotInv /\ StrayInv /\ LockInv /\ QueueHasWorker

-----------------------------------------------------------------------------
(* The lock *)

(* A release keeps the type and takes the lock from nobody else. *)
LEMMA ReleasedKeeps ==
    ASSUME lock \in Seq(Parties), NEW p \in Parties
    PROVE  /\ Released(p) \in Seq(Parties)
           /\ \A q \in Parties \ {p} :
                 Owns(q) => Released(p) # <<>> /\ Head(Released(p)) = q
<1>1. CASE \E i \in 1..Len(lock) : lock[i] = p
  <2> DEFINE n == CHOOSE i \in 1..Len(lock) : lock[i] = p
             a == SubSeq(lock, 1, n - 1)
             b == SubSeq(lock, n + 1, Len(lock))
  <2>1. n \in 1..Len(lock) /\ lock[n] = p BY <1>1
  <2>2. Len(lock) \in Nat /\ \A i \in 1..Len(lock) : lock[i] \in Parties
    BY LenProperties, ElementOfSeq
  <2> HIDE DEF n
  <2>3. /\ a \in Seq(Parties) /\ Len(a) = n - 1
        /\ \A i \in 1..n - 1 : a[i] = lock[i]
    <3>1. \A i \in 1..n - 1 : lock[i] \in Parties BY <2>1, <2>2
    <3>2. 1 \in Int /\ n - 1 \in Int BY <2>1, <2>2
    <3>3. /\ a \in Seq(Parties) /\ Len(a) = IF 1 <= n - 1 THEN (n - 1) - 1 + 1 ELSE 0
          /\ \A i \in 1..(n - 1) - 1 + 1 : a[i] = lock[1 + i - 1]
      BY <3>1, <3>2, SubSeqProperties, SMT
    <3> QED BY <3>3, <2>1, <2>2
  <2>4. b \in Seq(Parties)
    <3>1. \A i \in (n + 1)..Len(lock) : lock[i] \in Parties BY <2>1, <2>2
    <3>2. n + 1 \in Int /\ Len(lock) \in Int BY <2>1, <2>2
    <3> QED BY <3>1, <3>2, SubSeqProperties, Zenon
  <2>5. Released(p) = a \o b BY <1>1 DEF Released, RemoveAt, n
  <2> HIDE DEF a, b
  <2>6. /\ a \o b \in Seq(Parties) /\ Len(a \o b) = Len(a) + Len(b)
        /\ \A i \in 1..Len(a) + Len(b) : (a \o b)[i] = IF i <= Len(a) THEN a[i] ELSE b[i - Len(a)]
    BY <2>3, <2>4, ConcatProperties
  <2>7. ASSUME NEW q \in Parties \ {p}, Owns(q)
        PROVE  Released(p) # <<>> /\ Head(Released(p)) = q
    <3>1. lock[1] = q BY <2>7 DEF Owns
    <3>2. n > 1 BY <2>1, <3>1
    <3>3. Len(a) >= 1 /\ a[1] = q BY <2>1, <2>2, <2>3, <3>1, <3>2
    <3>4. Len(b) \in Nat BY <2>4
    <3>5. Len(a \o b) >= 1 /\ (a \o b)[1] = q BY <2>3, <2>6, <3>3, <3>4
    <3> QED BY <2>5, <2>6, <3>5
  <2> QED BY <2>5, <2>6, <2>7
<1>2. CASE ~\E i \in 1..Len(lock) : lock[i] = p
  BY <1>2 DEF Released, Owns
<1> QED BY <1>1, <1>2

(* So does one who begins to wait. *)
LEMMA AppendKeeps ==
    ASSUME lock \in Seq(Parties), NEW p \in Parties
    PROVE  /\ Append(lock, p) \in Seq(Parties)
           /\ \A q \in Parties :
                 Owns(q) => Append(lock, p) # <<>> /\ Head(Append(lock, p)) = q
BY DEF Owns

-----------------------------------------------------------------------------
(* Types *)

LEMMA HappensType ==
    ASSUME Types, NEW e \in Events, Happens(e) PROVE left' \in [Events \union {"all"} -> Nat]
BY DEF Types, Happens

LEMMA NothingTypes ==
    NoTask \in Workers /\ NoReset \in [pc : {"idle", "lock", "stop", "commit"}, wait : Tasks \union {"none"}]
BY DEF NoTask, NoReset, Workers

(* EnsureWorker leaves a worker alone or makes a task that has ended one. *)
LEMMA EnsureWorkerDoes ==
    ASSUME Types, NEW s \in States, EnsureWorker(s)
    PROVE  \/ slot[s] # "none" /\ slot' = slot /\ task' = task
           \/ /\ slot[s] = "none"
              /\ \E t \in Tasks :
                    /\ task[t].pc = "none" /\ slot' = [slot EXCEPT ![s] = t]
                    /\ task' = [task EXCEPT ![t] = [NoTask EXCEPT !.pc = "new", !.born = s]]
<1>1. CASE slot[s] # "none" BY <1>1 DEF EnsureWorker
<1>2. CASE slot[s] = "none"
  <2> DEFINE t == CHOOSE t \in FreeTasks : TRUE
  <2>1. /\ FreeTasks # {} /\ slot' = [slot EXCEPT ![s] = t]
        /\ task' = [task EXCEPT ![t] = [NoTask EXCEPT !.pc = "new", !.born = s]]
    BY <1>2 DEF EnsureWorker
  <2>2. t \in FreeTasks BY <2>1
  <2>3. t \in Tasks /\ task[t].pc = "none" BY <2>2 DEF FreeTasks
  <2> QED BY <1>2, <2>1, <2>3
<1> QED BY <1>1, <1>2

LEMMA EnsureWorkerType ==
    ASSUME Types, NEW s \in States, EnsureWorker(s)
    PROVE  /\ slot' \in [States -> Tasks \union {"none"}] /\ task' \in [Tasks -> Workers]
           /\ slot'[s] # "none"
<1>1. CASE slot' = slot /\ task' = task /\ slot[s] # "none" BY <1>1 DEF Types
<1>2. ASSUME NEW t \in Tasks, slot' = [slot EXCEPT ![s] = t],
             task' = [task EXCEPT ![t] = [NoTask EXCEPT !.pc = "new", !.born = s]]
      PROVE  /\ slot' \in [States -> Tasks \union {"none"}] /\ task' \in [Tasks -> Workers]
             /\ slot'[s] # "none"
  BY <1>2, ChatAssumption DEF Types, Workers, NoTask
<1> QED BY <1>1, <1>2, EnsureWorkerDoes

LEMMA EnqueueType ==
    ASSUME Types, NEW m \in Msgs, NEW s \in States, NEW q \in Seq(Msgs), Enqueue(m, s, q)
    PROVE  /\ slot' \in [States -> Tasks \union {"none"}] /\ task' \in [Tasks -> Workers]
           /\ queue' \in [States -> Seq(Msgs)] /\ broken' \in BOOLEAN
           /\ fate' \in [Msgs -> {"new", "asked", "auto", "queued", "started", "refused"}]
<1>1. slot' \in [States -> Tasks \union {"none"}] BY EnsureWorkerType DEF Enqueue, Types
<1>2. task' \in [Tasks -> Workers] BY EnsureWorkerType DEF Enqueue, Types
<1>3. queue' \in [States -> Seq(Msgs)]
  <2>1. Append(q, m) \in Seq(Msgs) OBVIOUS
  <2> QED BY <2>1 DEF Enqueue, Types
<1>4. broken' \in BOOLEAN BY DEF Enqueue, Types
<1>5. fate' \in [Msgs -> {"new", "asked", "auto", "queued", "started", "refused"}]
  BY DEF Enqueue, Types
<1> QED BY <1>1, <1>2, <1>3, <1>4, <1>5

LEMMA CancelledType ==
    ASSUME task \in [Tasks -> Workers], NEW t \in Tasks \union {"none"}
    PROVE  Cancelled(t) \in [Tasks -> Workers]
<1>1. CASE t = "none" BY <1>1 DEF Cancelled
<1>2. CASE t # "none"
  <2>1. [task[t] EXCEPT !.cut = TRUE] \in Workers BY <1>2 DEF Workers
  <2> QED BY <1>2, <2>1 DEF Cancelled
<1> QED BY <1>1, <1>2

LEMMA ExitModeType ==
    ASSUME Types, ExitMode
    PROVE  /\ slot' \in [States -> Tasks \union {"none"}] /\ task' \in [Tasks -> Workers]
           /\ queue' \in [States -> Seq(Msgs)] /\ mode' \in [States -> BOOLEAN]
<1>1. CASE InMode
  <2>1. current \in States /\ slot[current] \in Tasks \union {"none"} BY <1>1 DEF InMode, Types
  <2>2. task' \in [Tasks -> Workers]
    <3>1. task' = Cancelled(slot[current]) BY <1>1 DEF ExitMode
    <3>2. task \in [Tasks -> Workers] BY DEF Types
    <3> QED BY <2>1, <3>1, <3>2, CancelledType
  <2>3. slot' \in [States -> Tasks \union {"none"}] BY <1>1, <2>1 DEF ExitMode, Types
  <2>4. queue' \in [States -> Seq(Msgs)]
    <3>1. <<>> \in Seq(Msgs) OBVIOUS
    <3>2. queue' = [queue EXCEPT ![current] = <<>>] BY <1>1 DEF ExitMode
    <3> QED BY <2>1, <3>1, <3>2 DEF Types
  <2>5. mode' \in [States -> BOOLEAN] BY <1>1, <2>1 DEF ExitMode, Types
  <2> QED BY <2>2, <2>3, <2>4, <2>5
<1>2. CASE ~InMode BY <1>2 DEF ExitMode, Types
<1> QED BY <1>1, <1>2

LEMMA NewStateDoes ==
    ASSUME Types, NEW s \in States, NewState(s)
    PROVE  /\ s \in FreeStates /\ current' = s /\ mode' = [mode EXCEPT ![s] = TRUE]
           /\ mode' \in [States -> BOOLEAN]
BY DEF NewState, Types

LEMMA FinishesType ==
    ASSUME Types, NEW t \in Tasks, NEW modes, Finishes(t, modes)
    PROVE  /\ slot' \in [States -> Tasks \union {"none"}] /\ task' \in [Tasks -> Workers]
           /\ current' \in States \union {"none"}
BY NothingTypes DEF Finishes, Types, Unslotted, EntryAfter

LEMMA InitTypes == Init => Types
<1> SUFFICES ASSUME Init PROVE Types OBVIOUS
<1>1. /\ mode \in [States -> BOOLEAN] /\ queue \in [States -> Seq(Msgs)]
      /\ slot \in [States -> Tasks \union {"none"}]
  BY DEF Init
<1>2. task \in [Tasks -> Workers] BY NothingTypes DEF Init
<1>3. /\ fate \in [Msgs -> {"new", "asked", "auto", "queued", "started", "refused"}]
      /\ left \in [Events \union {"all"} -> Nat]
  BY ChatAssumption DEF Init
<1>4. lock \in Seq(Parties) BY DEF Init
<1>5. reset \in [pc : {"idle", "lock", "stop", "commit"}, wait : Tasks \union {"none"}]
  BY NothingTypes DEF Init
<1> QED BY <1>1, <1>2, <1>3, <1>4, <1>5 DEF Init, Types

LEMMA LockTypes ==
    ASSUME Types, NEW p \in Parties
    PROVE  Released(p) \in Seq(Parties) /\ Append(lock, p) \in Seq(Parties)
<1>1. lock \in Seq(Parties) BY DEF Types
<1> QED BY <1>1, ReleasedKeeps, AppendKeeps

LEMMA EmptyQueue ==
    ASSUME Types, NEW s \in States
    PROVE  /\ <<>> \in Seq(Msgs) /\ queue[s] \in Seq(Msgs)
           /\ [queue EXCEPT ![s] = <<>>] \in [States -> Seq(Msgs)]
BY DEF Types

LEMMA WorkTypes ==
    ASSUME Types, SlotInv, NEW t \in Tasks, Work(t) \/ TimerFires(t) PROVE Types'
<1>t. task[t] \in Workers /\ task[t].hand \in SUBSET Msgs BY DEF Types, Workers
<1>r. Released(t) \in Seq(Parties) /\ Append(lock, t) \in Seq(Parties)
  BY LockTypes DEF Parties
<1>a. ASSUME task[t].pc \in Active
      PROVE  task[t].st \in States /\ queue[task[t].st] \in Seq(Msgs)
  BY <1>a DEF SlotInv, Types
<1>1. CASE Start(t)
  <2>1. CASE current = "none"
    <3>1. task' \in [Tasks -> Workers] BY <1>1, <2>1, NothingTypes DEF Start, Types
    <3>2. slot' \in [States -> Tasks \union {"none"}] BY <1>1, <2>1 DEF Start, Types, Unslotted
    <3> QED BY <1>1, <2>1, <3>1, <3>2 DEF Start, Types
  <2>2. CASE current # "none"
    <3>1. [task[t] EXCEPT !.pc = "get", !.st = current] \in Workers
      BY <1>t, <2>2 DEF Types, Workers
    <3>2. task' \in [Tasks -> Workers] BY <1>1, <2>2, <3>1 DEF Start, Types
    <3> QED BY <1>1, <2>2, <3>2 DEF Start, Types
  <2> QED BY <2>1, <2>2
<1>2. CASE Get(t)
  <2> DEFINE s == task[t].st
  <2>1. /\ s \in States /\ queue[s] \in Seq(Msgs) /\ queue[s] # <<>>
    BY <1>2, <1>a DEF Get, Active
  <2>2. Head(queue[s]) \in Msgs /\ Tail(queue[s]) \in Seq(Msgs)
    BY <2>1, HeadTailProperties
  <2>3. CASE mode[s]
    <3> HIDE DEF s
    <3>1. queue' \in [States -> Seq(Msgs)] BY <1>2, <2>1, <2>2, <2>3 DEF Get, Types, s
    <3>2. lock' \in Seq(Parties) BY <1>2, <1>r, <2>3 DEF Get, Types, s
    <3>3. \A p \in {"burst", "lock"} :
             [task[t] EXCEPT !.hand = {Head(queue[s])}, !.pc = p] \in Workers
      BY <1>t, <2>2 DEF Workers
    <3>4. task' \in [Tasks -> Workers]
      <4>1. PICK p \in {"burst", "lock"} :
               task' = [task EXCEPT ![t].hand = {Head(queue[s])}, ![t].pc = p]
        BY <1>2, <2>3 DEF Get, s
      <4>2. [task[t] EXCEPT !.hand = {Head(queue[s])}, !.pc = p] \in Workers BY <3>3
      <4> QED BY <4>1, <4>2 DEF Types
    <3> QED BY <1>2, <2>3, <3>1, <3>2, <3>4 DEF Get, Types, s
  <2>4. CASE ~mode[s]
    <3>1. Finishes(t, mode) /\ lock' = lock BY <1>2, <2>4 DEF Get
    <3>2. queue' \in [States -> Seq(Msgs)]
      <4>1. <<>> \in Seq(Msgs) OBVIOUS
      <4>2. queue' = [queue EXCEPT ![s] = <<>>] BY <1>2, <2>4 DEF Get
      <4> QED BY <2>1, <4>1, <4>2 DEF Types
    <3>3. UNCHANGED <<mode, reset, once, paused, fate, broken, strayed, left>> BY <1>2 DEF Get
    <3> QED BY <3>1, <3>2, <3>3, FinishesType DEF Types
  <2> QED BY <2>3, <2>4
<1>3. CASE Merge(t)
  <2> DEFINE s == task[t].st
             q == queue[s]
  <2>1. s \in States /\ q \in Seq(Msgs)
    BY <1>3, <1>a DEF Merge, Active
  <2>2. PICK n \in 0..Len(q) :
           /\ task' = [task EXCEPT ![t].pc = "lock", ![t].hand = Joined(@, q, n)]
           /\ queue' = [queue EXCEPT ![s] = SubSeq(q, n + 1, Len(q))]
    BY <1>3 DEF Merge
  <2> HIDE DEF q, s
  <2>3. \A i \in 1..Len(q) : q[i] \in Msgs BY <2>1, ElementOfSeq
  <2>4. SubSeq(q, n + 1, Len(q)) \in Seq(Msgs)
    <3>1. Len(q) \in Nat BY <2>1
    <3>2. n + 1 \in Int /\ Len(q) \in Int /\ \A i \in (n + 1)..Len(q) : q[i] \in Msgs
      BY <2>3, <3>1
    <3> QED BY <3>2, SubSeqProperties, Zenon
  <2>5. Joined(task[t].hand, q, n) \in SUBSET Msgs
    <3>1. Len(q) \in Nat BY <2>1
    <3> QED BY <1>t, <2>3, <3>1 DEF Joined
  <2>6. task' \in [Tasks -> Workers] BY <1>t, <2>2, <2>5 DEF Types, Workers
  <2>7. queue' \in [States -> Seq(Msgs)] BY <2>1, <2>2, <2>4 DEF Types
  <2> QED BY <1>3, <1>r, <2>6, <2>7 DEF Merge, Types
<1>4. CASE TurnStart(t)
  BY <1>4, <1>t DEF TurnStart, Types, Workers
<1>5. CASE TurnEnd(t)
  BY <1>5, <1>t, <1>r DEF TurnEnd, Types, Workers
<1>6. CASE TimedOut(t)
  BY <1>6, <1>a, FinishesType DEF TimedOut, Types, Active
<1>7. CASE Cut(t)
  <2>1. CASE task[t].pc = "new"
    BY <1>7, <2>1, <1>r, NothingTypes DEF Cut, Types, Unslotted
  <2>2. CASE task[t].pc # "new"
    BY <1>7, <2>2, <1>r, FinishesType DEF Cut, Types
  <2> QED BY <2>1, <2>2
<1>8. CASE TimerFires(t)
  <2>1. left' \in [Events \union {"all"} -> Nat] BY <1>8, HappensType DEF TimerFires, Events
  <2>2. [task[t] EXCEPT !.pc = "expired"] \in Workers BY <1>t DEF Workers
  <2> QED BY <1>8, <2>1, <2>2 DEF TimerFires, Types
<1> QED BY <1>1, <1>2, <1>3, <1>4, <1>5, <1>6, <1>7, <1>8 DEF Work

LEMMA MessageTypes ==
    ASSUME Types, NEW m \in Msgs, Say(m) \/ Permit(m) \/ PermitAuto(m) \/ Deny(m) \/ Ask(m)
    PROVE  Types'
<1>1. CASE Say(m) BY <1>1 DEF Say, Types
<1>2. CASE Permit(m)
  <2>1. CASE current = "none" BY <1>2, <2>1 DEF Permit, Types
  <2>2. CASE current # "none"
    <3>1. current \in States BY <2>2 DEF Types
    <3>2. Enqueue(m, current, queue[current]) BY <1>2, <2>2 DEF Permit
    <3>3. queue[current] \in Seq(Msgs) BY <3>1, EmptyQueue
    <3>4. UNCHANGED <<current, mode, lock, reset, once, paused, strayed, left>>
      BY <1>2 DEF Permit
    <3> QED BY <3>1, <3>2, <3>3, <3>4, EnqueueType DEF Types
  <2> QED BY <2>1, <2>2
<1>3. CASE PermitAuto(m)
  <2>1. UNCHANGED <<lock, reset, once, paused, strayed, left>> BY <1>3 DEF PermitAuto
  <2>2. CASE InMode /\ Enqueue(m, current, queue[current]) /\ UNCHANGED <<current, mode>>
    <3>1. current \in States BY <2>2 DEF InMode, Types
    <3>2. queue[current] \in Seq(Msgs) BY <3>1, EmptyQueue
    <3> QED BY <2>1, <2>2, <3>1, <3>2, EnqueueType DEF Types
  <2>3. ASSUME NEW s \in States, NewState(s), Enqueue(m, s, <<>>)
        PROVE  Types'
    <3>1. <<>> \in Seq(Msgs) OBVIOUS
    <3> QED BY <2>1, <2>3, <3>1, EnqueueType, NewStateDoes DEF Types
  <2> QED BY <1>3, <2>2, <2>3 DEF PermitAuto
<1>4. CASE Deny(m)
  <2>1. left' \in [Events \union {"all"} -> Nat] BY <1>4, HappensType DEF Deny, Events
  <2>2. CASE fate[m] = "asked"
    <3>1. ExitMode BY <1>4, <2>2 DEF Deny
    <3> QED BY <1>4, <2>1, <3>1, ExitModeType DEF Deny, Types
  <2>3. CASE fate[m] # "asked" BY <1>4, <2>1, <2>3 DEF Deny, Types
  <2> QED BY <2>2, <2>3
<1>5. CASE Ask(m)
  <2>1. UNCHANGED <<current, mode, reset, strayed, left>> /\ paused' = FALSE BY <1>5 DEF Ask
  <2>2. CASE InMode
    <3>1. current \in States BY <2>2 DEF InMode, Types
    <3>2. queue[current] \in Seq(Msgs) BY <3>1, EmptyQueue
    <3>3. Enqueue(m, current, queue[current]) /\ UNCHANGED <<lock, once>>
      BY <1>5, <2>2 DEF Ask
    <3> QED BY <2>1, <3>1, <3>2, <3>3, EnqueueType DEF Types
  <2>3. CASE ~InMode
    <3>1. lock' \in Seq(Parties) BY <1>5, <2>3, LockTypes DEF Ask, Parties
    <3> QED BY <1>5, <2>1, <2>3, <3>1 DEF Ask, Types
  <2> QED BY <2>2, <2>3
<1> QED BY <1>1, <1>2, <1>3, <1>4, <1>5

LEMMA CommandTypes ==
    ASSUME Types, Enter \/ Exit \/ OnceStep \/ Reset \/ ResetStep \/ ResetFails
    PROVE  Types'
<1>l. /\ Released("once") \in Seq(Parties) /\ Released("reset") \in Seq(Parties)
      /\ Append(lock, "reset") \in Seq(Parties)
  BY LockTypes DEF Parties
<1>1. CASE Enter
  <2>1. left' \in [Events \union {"all"} -> Nat] BY <1>1, HappensType DEF Enter, Events
  <2>2. UNCHANGED <<lock, reset, once, fate, broken, strayed>> /\ paused' = FALSE
    BY <1>1 DEF Enter
  <2>3. CASE InMode BY <1>1, <2>1, <2>2, <2>3 DEF Enter, Types
  <2>4. CASE ~InMode
    <3>1. PICK s \in States :
            NewState(s) /\ queue' = [queue EXCEPT ![s] = <<>>] /\ EnsureWorker(s)
      BY <1>1, <2>4 DEF Enter
    <3> QED BY <2>1, <2>2, <3>1, NewStateDoes, EmptyQueue, EnsureWorkerType DEF Types
  <2> QED BY <2>3, <2>4
<1>2. CASE Exit
  <2>1. left' \in [Events \union {"all"} -> Nat] BY <1>2, HappensType DEF Exit, Events
  <2>2. ExitMode /\ UNCHANGED <<current, lock, reset, once, fate, broken, strayed>> /\ paused' = TRUE
    BY <1>2 DEF Exit
  <2> QED BY <2>1, <2>2, ExitModeType DEF Types
<1>3. CASE OnceStep
  BY <1>3, <1>l DEF OnceStep, OnceTurn, OnceEnd, Types
<1>4. CASE Reset
  <2>1. left' \in [Events \union {"all"} -> Nat] BY <1>4, HappensType DEF Reset, Events
  <2> QED BY <1>4, <1>l, <2>1 DEF Reset, NoReset, Types
<1>5. CASE ResetStop
  <2>1. CASE current = "none" \/ slot[current] = "none"
    BY <1>5, <2>1 DEF ResetStop, Types
  <2>2. CASE current # "none" /\ slot[current] # "none"
    <3>1. current \in States /\ slot[current] \in Tasks BY <2>2 DEF Types
    <3>2. /\ reset' = [pc |-> "stop", wait |-> slot[current]]
          /\ slot' = [slot EXCEPT ![current] = "none"]
          /\ task' = Cancelled(slot[current])
      BY <1>5, <2>2 DEF ResetStop
    <3>3. task' \in [Tasks -> Workers]
      <4>1. task \in [Tasks -> Workers] BY DEF Types
      <4> QED BY <3>1, <3>2, <4>1, CancelledType
    <3> QED BY <1>5, <3>1, <3>2, <3>3 DEF ResetStop, Types
  <2> QED BY <2>1, <2>2
<1>6. CASE ResetStopped
  BY <1>6 DEF ResetStopped, NoReset, Types
<1>7. CASE ResetDone
  <2>1. Restart /\ reset' = NoReset /\ lock' = Released("reset") BY <1>7 DEF ResetDone
  <2>2. slot' \in [States -> Tasks \union {"none"}] /\ task' \in [Tasks -> Workers]
    <3>1. CASE InMode
      <4>1. current \in States BY <3>1 DEF InMode, Types
      <4> QED BY <2>1, <3>1, <4>1, EnsureWorkerType DEF Restart
    <3>2. CASE ~InMode BY <2>1, <3>2 DEF Restart, Types
    <3> QED BY <3>1, <3>2
  <2> QED BY <1>7, <1>l, <2>1, <2>2, NothingTypes DEF ResetDone, Types
<1>8. CASE ResetFails
  <2>1. left' \in [Events \union {"all"} -> Nat] BY <1>8, HappensType DEF ResetFails, Events
  <2> QED BY <1>8, <1>l, <2>1, NothingTypes DEF ResetFails, Types
<1> QED BY <1>1, <1>2, <1>3, <1>4, <1>5, <1>6, <1>7, <1>8 DEF ResetStep

LEMMA NextTypes == ASSUME Types, SlotInv, [Next]_vars PROVE Types'
<1>1. CASE UNCHANGED vars BY <1>1 DEF vars, Types
<1>2. CASE Next BY <1>2, WorkTypes, MessageTypes, CommandTypes DEF Next
<1> QED BY <1>1, <1>2

-----------------------------------------------------------------------------
(* The queue's limit *)

LEMMA QueueLimit == ASSUME Types, SlotInv, QueueInv, [Next]_vars PROVE QueueInv'
<1> SUFFICES ASSUME NEW r \in States PROVE Len(queue'[r]) <= MaxQueue
  BY DEF QueueInv
<1>m. MaxQueue \in Nat \ {0} /\ Len(<<>>) = 0 BY ChatAssumption
<1>q. \A s \in States : queue[s] \in Seq(Msgs) /\ Len(queue[s]) \in Nat /\ Len(queue[s]) <= MaxQueue
  BY DEF Types, QueueInv
<1>u. ASSUME NEW s \in States, NEW q, Len(q) <= MaxQueue, queue' = [queue EXCEPT ![s] = q]
      PROVE  Len(queue'[r]) <= MaxQueue
  <2>1. queue'[r] = IF r = s THEN q ELSE queue[r] BY <1>u DEF Types
  <2> QED BY <1>q, <1>u, <2>1
<1>e. ASSUME NEW m \in Msgs, NEW s \in States, NEW q \in Seq(Msgs), Len(q) <= MaxQueue,
             Enqueue(m, s, q)
      PROVE  Len(queue'[r]) <= MaxQueue
  <2>1. CASE HasRoom(q)
    <3>1. queue' = [queue EXCEPT ![s] = Append(q, m)] BY <1>e, <2>1 DEF Enqueue
    <3>2. Len(Append(q, m)) = Len(q) + 1 OBVIOUS
    <3> QED BY <1>m, <1>q, <2>1, <3>1, <3>2 DEF HasRoom, Types
  <2>2. CASE ~HasRoom(q) BY <1>e, <1>q, <2>2 DEF Enqueue, Types
  <2> QED BY <2>1, <2>2
<1>x. ASSUME ExitMode PROVE Len(queue'[r]) <= MaxQueue
  BY <1>x, <1>m, <1>q DEF ExitMode, Types
<1>a. ASSUME NEW t \in Tasks, task[t].pc \in Active
      PROVE  task[t].st \in States
  BY <1>a DEF SlotInv
<1>1. ASSUME NEW t \in Tasks, Get(t) PROVE Len(queue'[r]) <= MaxQueue
  <2> DEFINE s == task[t].st
  <2>1. s \in States /\ queue[s] # <<>> BY <1>1, <1>a DEF Get, Active
  <2>2. Len(Tail(queue[s])) = Len(queue[s]) - 1 BY <1>q, <2>1, HeadTailProperties
  <2>3. queue' = [queue EXCEPT ![s] = Tail(queue[s])] \/ queue' = [queue EXCEPT ![s] = <<>>]
    BY <1>1 DEF Get
  <2>4. Len(Tail(queue[s])) <= MaxQueue /\ Len(<<>>) <= MaxQueue BY <1>m, <1>q, <2>1, <2>2
  <2> QED BY <1>u, <2>1, <2>3, <2>4
<1>2. ASSUME NEW t \in Tasks, Merge(t) PROVE Len(queue'[r]) <= MaxQueue
  <2> DEFINE s == task[t].st
             q == queue[s]
  <2>1. s \in States BY <1>2, <1>a DEF Merge, Active
  <2>2. PICK n \in 0..Len(q) : queue' = [queue EXCEPT ![s] = SubSeq(q, n + 1, Len(q))]
    BY <1>2 DEF Merge
  <2>3. q \in Seq(Msgs) /\ Len(q) \in Nat /\ Len(q) <= MaxQueue BY <1>q, <2>1
  <2>4. Len(SubSeq(q, n + 1, Len(q))) = IF n + 1 <= Len(q) THEN Len(q) - (n + 1) + 1 ELSE 0
    <3>1. n + 1 \in Int /\ Len(q) \in Int BY <2>3
    <3>2. \A i \in (n + 1)..Len(q) : q[i] \in Msgs BY <2>3, ElementOfSeq
    <3> HIDE DEF q
    <3> QED BY <3>1, <3>2, SubSeqProperties, SMT
  <2> QED BY <1>m, <1>q, <2>1, <2>2, <2>3, <2>4 DEF Types
<1>3. ASSUME NEW m \in Msgs, Permit(m) \/ PermitAuto(m) \/ Deny(m) \/ Ask(m)
      PROVE  Len(queue'[r]) <= MaxQueue
  <2>c. current # "none" => current \in States BY DEF Types
  <2>1. CASE Permit(m) BY <1>e, <1>q, <2>1, <2>c DEF Permit
  <2>2. CASE PermitAuto(m)
    <3>1. CASE InMode /\ Enqueue(m, current, queue[current])
      BY <1>e, <1>q, <2>c, <3>1 DEF InMode
    <3>2. ASSUME NEW s \in States, Enqueue(m, s, <<>>) PROVE Len(queue'[r]) <= MaxQueue
      <4>1. <<>> \in Seq(Msgs) /\ Len(<<>>) <= MaxQueue BY <1>m
      <4> QED BY <1>e, <3>2, <4>1
    <3> QED BY <2>2, <3>1, <3>2 DEF PermitAuto
  <2>3. CASE Deny(m) BY <1>x, <1>q, <2>3 DEF Deny
  <2>4. CASE Ask(m) BY <1>e, <1>q, <2>4, <2>c DEF Ask, InMode
  <2> QED BY <1>3, <2>1, <2>2, <2>3, <2>4
<1>4. CASE Enter
  <2>1. Len(<<>>) <= MaxQueue BY <1>m
  <2> QED BY <1>4, <1>q, <1>u, <2>1 DEF Enter
<1>5. CASE Exit BY <1>5, <1>x DEF Exit
<1>6. CASE UNCHANGED queue BY <1>6, <1>q
<1>7. ASSUME NEW t \in Tasks,
             Start(t) \/ TurnStart(t) \/ TurnEnd(t) \/ TimedOut(t) \/ Cut(t) \/ TimerFires(t)
      PROVE  UNCHANGED queue
  BY <1>7 DEF Start, TurnStart, TurnEnd, TimedOut, Cut, TimerFires
<1>8. CASE OnceStep \/ Reset \/ ResetStep \/ ResetFails
  BY <1>6, <1>8 DEF OnceStep, OnceTurn, OnceEnd, Reset, ResetStep, ResetStop, ResetStopped,
                    ResetDone, ResetFails
<1>9. ASSUME NEW m \in Msgs, Say(m) PROVE UNCHANGED queue BY <1>9 DEF Say
<1>10. CASE UNCHANGED vars BY <1>6, <1>10 DEF vars
<1> QED BY <1>1, <1>2, <1>3, <1>4, <1>5, <1>6, <1>7, <1>8, <1>9, <1>10 DEF Next, Work

-----------------------------------------------------------------------------
(* Workers and their slots, by what a step does to them *)

LEMMA SlotInit == Init => SlotInv
BY ChatAssumption DEF Init, SlotInv, NoTask, Active

(* A worker for s, the state of the entry *)
LEMMA SlotEnsured ==
    ASSUME Types, SlotInv, NEW s \in States, EnsureWorker(s),
           current' = s, current = s \/ s \in FreeStates
    PROVE  SlotInv'
<1>1. CASE slot[s] # "none" /\ slot' = slot /\ task' = task
  <2>1. slot[s] \in Tasks BY <1>1 DEF Types
  <2>2. task[slot[s]].born = s BY <1>1 DEF SlotInv
  <2>3. current = s BY <2>1, <2>2 DEF FreeStates
  <2> QED BY <1>1, <2>3 DEF SlotInv
<1>2. ASSUME slot[s] = "none", NEW t \in Tasks, task[t].pc = "none",
             slot' = [slot EXCEPT ![s] = t],
             task' = [task EXCEPT ![t] = [NoTask EXCEPT !.pc = "new", !.born = s]]
      PROVE  SlotInv'
  <2>1. \A r \in States : slot[r] # t BY <1>2, ChatAssumption DEF SlotInv
  <2>2. \A r \in States : slot'[r] = IF r = s THEN t ELSE slot[r] BY <1>2 DEF Types
  <2>3. /\ task'[t].pc = "new" /\ task'[t].born = s /\ ~task'[t].cut /\ task'[t].st = "none"
        /\ \A u \in Tasks \ {t} : task'[u] = task[u]
    BY <1>2 DEF Types, NoTask
  <2>4. \A r \in States : slot[r] \in Tasks \union {"none"} BY DEF Types
  <2>5. ASSUME NEW r \in States, slot'[r] # "none"
        PROVE  /\ task'[slot'[r]].pc # "none" /\ ~task'[slot'[r]].cut
               /\ task'[slot'[r]].born = r
               /\ task'[slot'[r]].pc \in Active => task'[slot'[r]].st = r \/ current' # r
    <3>1. CASE r = s BY <2>2, <2>3, <3>1 DEF Active
    <3>2. CASE r # s
      <4>1. slot'[r] = slot[r] /\ slot[r] \in Tasks \ {t} BY <2>1, <2>2, <2>4, <2>5, <3>2
      <4> QED BY <2>3, <2>5, <3>2, <4>1 DEF SlotInv
    <3> QED BY <3>1, <3>2
  <2>6. ASSUME NEW u \in Tasks
        PROVE  /\ task'[u].pc \in Active => task'[u].st \in States
               /\ task'[u].pc \notin Active => task'[u].st = "none"
               /\ task'[u].pc = "none" => ~task'[u].cut
               /\ task'[u].pc # "none" => task'[u].born \in States
               /\ task'[u].pc # "none" /\ ~task'[u].cut => slot'[task'[u].born] = u
    <3>1. CASE u = t BY <2>2, <2>3, <3>1 DEF Active
    <3>2. CASE u # t
      <4>1. task'[u] = task[u] BY <2>3, <3>2
      <4>2. task[u].pc # "none" /\ ~task[u].cut => task[u].born # s
        BY <1>2, ChatAssumption DEF SlotInv
      <4> QED BY <2>2, <4>1, <4>2 DEF SlotInv
    <3> QED BY <3>1, <3>2
  <2> QED BY <2>5, <2>6 DEF SlotInv
<1> QED BY <1>1, <1>2, EnsureWorkerDoes

(* The worker in the slot of the entry is cancelled. *)
LEMMA SlotCancelled ==
    ASSUME Types, SlotInv, current \in States, current' = current,
           slot' = [slot EXCEPT ![current] = "none"], task' = Cancelled(slot[current])
    PROVE  SlotInv'
<1>1. \A r \in States : slot'[r] = IF r = current THEN "none" ELSE slot[r] BY DEF Types
<1>2. \A r \in States : slot[r] \in Tasks \union {"none"} BY DEF Types
<1>3. \A u \in Tasks : task'[u] = IF u = slot[current] THEN [task[u] EXCEPT !.cut = TRUE] ELSE task[u]
  BY ChatAssumption DEF Cancelled, Types
<1>4. ASSUME NEW u \in Tasks
      PROVE  /\ task'[u].pc = task[u].pc /\ task'[u].st = task[u].st
             /\ task'[u].born = task[u].born
             /\ u # slot[current] => task'[u] = task[u]
             /\ u = slot[current] => task'[u].cut
  <2>1. CASE u # slot[current] BY <1>3, <2>1
  <2>2. CASE u = slot[current]
    <3>1. task'[u] = [task[u] EXCEPT !.cut = TRUE] BY <1>3, <2>2
    <3>2. task[u] \in Workers BY DEF Types
    <3>3. DOMAIN task[u] = {"pc", "st", "born", "hand", "cut"} BY <3>2 DEF Workers
    <3> QED BY <2>2, <3>1, <3>3
  <2> QED BY <2>1, <2>2
<1>5. ASSUME NEW r \in States, slot'[r] # "none"
      PROVE  /\ task'[slot'[r]].pc # "none" /\ ~task'[slot'[r]].cut
             /\ task'[slot'[r]].born = r
             /\ task'[slot'[r]].pc \in Active => task'[slot'[r]].st = r \/ current' # r
  <2>1. r # current /\ slot'[r] = slot[r] /\ slot[r] \in Tasks BY <1>1, <1>2, <1>5
  <2>2. task[slot[r]].born = r BY <1>5, <2>1 DEF SlotInv
  <2>3. slot[r] # slot[current] BY <2>1, <2>2, ChatAssumption DEF SlotInv
  <2>4. task'[slot[r]] = task[slot[r]] BY <1>4, <2>1, <2>3
  <2> QED BY <1>5, <2>1, <2>4 DEF SlotInv
<1>6. ASSUME NEW u \in Tasks
      PROVE  /\ task'[u].pc \in Active => task'[u].st \in States
             /\ task'[u].pc \notin Active => task'[u].st = "none"
             /\ task'[u].pc = "none" => ~task'[u].cut
             /\ task'[u].pc # "none" => task'[u].born \in States
             /\ task'[u].pc # "none" /\ ~task'[u].cut => slot'[task'[u].born] = u
  <2>1. CASE u = slot[current]
    <3>1. task[u].pc # "none" BY <2>1, ChatAssumption DEF SlotInv
    <3> QED BY <1>4, <2>1, <3>1 DEF SlotInv
  <2>2. CASE u # slot[current]
    <3>1. task'[u] = task[u] BY <1>4, <2>2
    <3>2. task[u].pc # "none" /\ ~task[u].cut => task[u].born # current
      BY <2>2 DEF SlotInv
    <3> QED BY <1>1, <3>1, <3>2 DEF SlotInv
  <2> QED BY <2>1, <2>2
<1> QED BY <1>5, <1>6 DEF SlotInv

(* A task ends. *)
LEMMA SlotEnded ==
    ASSUME Types, SlotInv, NEW t \in Tasks, task' = [task EXCEPT ![t] = NoTask],
           slot' = Unslotted(t), current' \in {current, "none"}
    PROVE  SlotInv'
<1>1. \A r \in States : slot'[r] = IF slot[r] = t THEN "none" ELSE slot[r]
  BY DEF Unslotted
<1>2. \A u \in Tasks : task'[u] = IF u = t THEN NoTask ELSE task[u] BY DEF Types
<1>3. \A r \in States : slot[r] \in Tasks \union {"none"} BY DEF Types
<1>4. ASSUME NEW r \in States, slot'[r] # "none"
      PROVE  /\ task'[slot'[r]].pc # "none" /\ ~task'[slot'[r]].cut
             /\ task'[slot'[r]].born = r
             /\ task'[slot'[r]].pc \in Active => task'[slot'[r]].st = r \/ current' # r
  <2>1. slot'[r] = slot[r] /\ slot[r] \in Tasks \ {t} BY <1>1, <1>3, <1>4
  <2>2. task'[slot[r]] = task[slot[r]] BY <1>2, <2>1
  <2>3. current # r => current' # r BY ChatAssumption
  <2> QED BY <1>4, <2>1, <2>2, <2>3 DEF SlotInv
<1>5. ASSUME NEW u \in Tasks
      PROVE  /\ task'[u].pc \in Active => task'[u].st \in States
             /\ task'[u].pc \notin Active => task'[u].st = "none"
             /\ task'[u].pc = "none" => ~task'[u].cut
             /\ task'[u].pc # "none" => task'[u].born \in States
             /\ task'[u].pc # "none" /\ ~task'[u].cut => slot'[task'[u].born] = u
  <2>1. CASE u = t
    <3>1. task'[u] = NoTask BY <1>2, <2>1
    <3> QED BY <3>1 DEF NoTask, Active
  <2>2. CASE u # t
    <3>1. task'[u] = task[u] BY <1>2, <2>2
    <3> QED BY <1>1, <2>2, <3>1 DEF SlotInv
  <2> QED BY <2>1, <2>2
<1> QED BY <1>4, <1>5 DEF SlotInv

(* A worker goes on in its state, or takes up that of the entry. *)
LEMMA SlotGoesOn ==
    ASSUME Types, SlotInv, NEW t \in Tasks, slot' = slot, current' = current,
           \A u \in Tasks \ {t} : task'[u] = task[u],
           task[t].pc # "none", task'[t].pc \in Active,
           task'[t].born = task[t].born, task'[t].cut = task[t].cut,
           \/ task[t].pc \in Active /\ task'[t].st = task[t].st
           \/ task[t].pc = "new" /\ task'[t].st = current /\ current \in States
    PROVE  SlotInv'
<1>1. \A r \in States : slot[r] \in Tasks \union {"none"} BY DEF Types
<1>n. "none" \notin Active /\ "new" \notin Active BY DEF Active
<1>2. ASSUME NEW r \in States, slot[r] # "none"
      PROVE  /\ task'[slot[r]].pc # "none" /\ ~task'[slot[r]].cut
             /\ task'[slot[r]].born = r
             /\ task'[slot[r]].pc \in Active => task'[slot[r]].st = r \/ current # r
  <2>1. CASE slot[r] = t BY <1>2, <1>n, <2>1 DEF SlotInv
  <2>2. CASE slot[r] # t
    <3>1. task'[slot[r]] = task[slot[r]] BY <1>1, <1>2, <2>2
    <3> QED BY <1>2, <3>1 DEF SlotInv
  <2> QED BY <2>1, <2>2
<1>3. ASSUME NEW u \in Tasks
      PROVE  /\ task'[u].pc \in Active => task'[u].st \in States
             /\ task'[u].pc \notin Active => task'[u].st = "none"
             /\ task'[u].pc = "none" => ~task'[u].cut
             /\ task'[u].pc # "none" => task'[u].born \in States
             /\ task'[u].pc # "none" /\ ~task'[u].cut => slot[task'[u].born] = u
  <2>1. CASE u = t BY <1>n, <2>1 DEF SlotInv
  <2>2. CASE u # t
    <3>1. task'[u] = task[u] BY <2>2
    <3> QED BY <3>1 DEF SlotInv
  <2> QED BY <2>1, <2>2
<1> QED BY <1>2, <1>3 DEF SlotInv

LEMMA SlotSame == ASSUME SlotInv, UNCHANGED <<slot, task, current>> PROVE SlotInv'
BY DEF SlotInv

LEMMA SlotExit == ASSUME Types, SlotInv, ExitMode, current' = current PROVE SlotInv'
<1>1. CASE InMode
  <2>1. current \in States BY <1>1 DEF InMode, Types
  <2>2. slot' = [slot EXCEPT ![current] = "none"] /\ task' = Cancelled(slot[current])
    BY <1>1 DEF ExitMode
  <2> QED BY <2>1, <2>2, SlotCancelled
<1>2. CASE ~InMode BY <1>2, SlotSame DEF ExitMode
<1> QED BY <1>1, <1>2

LEMMA SlotEnqueue ==
    ASSUME Types, SlotInv, NEW m \in Msgs, NEW s \in States, NEW q, Enqueue(m, s, q),
           current' = s, current = s \/ (s \in FreeStates /\ HasRoom(q))
    PROVE  SlotInv'
<1>1. CASE HasRoom(q)
  <2>1. EnsureWorker(s) BY <1>1 DEF Enqueue
  <2> QED BY <2>1, SlotEnsured
<1>2. CASE ~HasRoom(q)
  <2>1. slot' = slot /\ task' = task BY <1>2 DEF Enqueue
  <2> QED BY <1>2, <2>1, SlotSame
<1> QED BY <1>1, <1>2

LEMMA WorkSlots ==
    ASSUME Types, SlotInv, NEW t \in Tasks, Work(t) \/ TimerFires(t) PROVE SlotInv'
<1>t. task[t] \in Workers /\ task \in [Tasks -> Workers] BY DEF Types
<1>f. ASSUME NEW modes, Finishes(t, modes) PROVE SlotInv'
  <2>1. /\ task' = [task EXCEPT ![t] = NoTask] /\ slot' = Unslotted(t)
        /\ current' \in {current, "none"}
    BY <1>f DEF Finishes, EntryAfter
  <2> QED BY <2>1, SlotEnded
<1>1. CASE Start(t)
  <2>1. CASE current = "none"
    <3>1. task' = [task EXCEPT ![t] = NoTask] /\ slot' = Unslotted(t) /\ current' = current
      BY <1>1, <2>1 DEF Start
    <3> QED BY <3>1, SlotEnded
  <2>2. CASE current # "none"
    <3>1. current \in States /\ task[t].pc = "new" BY <1>1, <2>2 DEF Start, Types
    <3>2. task' = [task EXCEPT ![t].pc = "get", ![t].st = current] /\ slot' = slot /\ current' = current
      BY <1>1, <2>2 DEF Start
    <3>3. /\ \A u \in Tasks \ {t} : task'[u] = task[u]
          /\ task'[t].pc = "get" /\ task'[t].st = current
          /\ task'[t].born = task[t].born /\ task'[t].cut = task[t].cut
      BY <1>t, <3>2 DEF Workers
    <3> QED BY <3>1, <3>2, <3>3, SlotGoesOn DEF Active
  <2> QED BY <2>1, <2>2
<1>2. CASE Get(t)
  <2>1. CASE mode[task[t].st]
    <3>1. PICK p \in {"burst", "lock"} :
             task' = [task EXCEPT ![t].hand = {Head(queue[task[t].st])}, ![t].pc = p]
      BY <1>2, <2>1 DEF Get
    <3>2. slot' = slot /\ current' = current /\ task[t].pc = "get" BY <1>2, <2>1 DEF Get
    <3>3. /\ \A u \in Tasks \ {t} : task'[u] = task[u]
          /\ task'[t].pc = p /\ task'[t].st = task[t].st
          /\ task'[t].born = task[t].born /\ task'[t].cut = task[t].cut
      BY <1>t, <3>1 DEF Workers
    <3> QED BY <3>2, <3>3, SlotGoesOn DEF Active
  <2>2. CASE ~mode[task[t].st] BY <1>2, <1>f, <2>2 DEF Get
  <2> QED BY <2>1, <2>2
<1>3. CASE Merge(t)
  <2>1. PICK n : task' = [task EXCEPT ![t].pc = "lock",
                            ![t].hand = Joined(@, queue[task[t].st], n)]
    BY <1>3 DEF Merge
  <2>2. slot' = slot /\ current' = current /\ task[t].pc = "burst" BY <1>3 DEF Merge
  <2>3. /\ \A u \in Tasks \ {t} : task'[u] = task[u]
        /\ task'[t].pc = "lock" /\ task'[t].st = task[t].st
        /\ task'[t].born = task[t].born /\ task'[t].cut = task[t].cut
    BY <1>t, <2>1 DEF Workers
  <2> QED BY <2>2, <2>3, SlotGoesOn DEF Active
<1>4. CASE TurnStart(t) \/ TurnEnd(t) \/ TimerFires(t)
  <2>1. PICK p \in {"turn", "get", "expired"}, h \in {{}, task[t].hand} :
           task' = [task EXCEPT ![t].pc = p, ![t].hand = h]
    <3>1. CASE TurnStart(t) \/ TimerFires(t)
      <4>1. PICK p \in {"turn", "expired"} : task' = [task EXCEPT ![t].pc = p]
        BY <3>1 DEF TurnStart, TimerFires
      <4>2. [task EXCEPT ![t].pc = p] = [task EXCEPT ![t].pc = p, ![t].hand = task[t].hand]
        BY <1>t DEF Workers
      <4> QED BY <4>1, <4>2
    <3>2. CASE TurnEnd(t) BY <3>2 DEF TurnEnd
    <3> QED BY <1>4, <3>1, <3>2
  <2>2. slot' = slot /\ current' = current /\ task[t].pc \in Active
    BY <1>4 DEF TurnStart, TurnEnd, TimerFires, Active
  <2>3. /\ \A u \in Tasks \ {t} : task'[u] = task[u]
        /\ task'[t].pc = p /\ task'[t].st = task[t].st
        /\ task'[t].born = task[t].born /\ task'[t].cut = task[t].cut
    BY <1>t, <2>1 DEF Workers
  <2> QED BY <2>2, <2>3, SlotGoesOn DEF Active
<1>5. CASE TimedOut(t) BY <1>5, <1>f DEF TimedOut
<1>6. CASE Cut(t)
  <2>1. CASE task[t].pc = "new"
    <3>1. task' = [task EXCEPT ![t] = NoTask] /\ slot' = Unslotted(t) /\ current' = current
      BY <1>6, <2>1 DEF Cut
    <3> QED BY <3>1, SlotEnded
  <2>2. CASE task[t].pc # "new" BY <1>6, <1>f, <2>2 DEF Cut
  <2> QED BY <2>1, <2>2
<1> QED BY <1>1, <1>2, <1>3, <1>4, <1>5, <1>6 DEF Work

LEMMA MessageSlots ==
    ASSUME Types, SlotInv, NEW m \in Msgs, Say(m) \/ Permit(m) \/ PermitAuto(m) \/ Deny(m) \/ Ask(m)
    PROVE  SlotInv'
<1>c. current # "none" => current \in States BY DEF Types
<1>1. CASE Say(m) BY <1>1, SlotSame DEF Say
<1>2. CASE Permit(m)
  <2>1. CASE current = "none" BY <1>2, <2>1, SlotSame DEF Permit
  <2>2. CASE current # "none"
    <3>1. Enqueue(m, current, queue[current]) /\ current' = current BY <1>2, <2>2 DEF Permit
    <3> QED BY <1>c, <2>2, <3>1, SlotEnqueue
  <2> QED BY <2>1, <2>2
<1>3. CASE PermitAuto(m)
  <2>1. CASE InMode /\ Enqueue(m, current, queue[current]) /\ UNCHANGED <<current, mode>>
    BY <1>c, <2>1, SlotEnqueue DEF InMode
  <2>2. ASSUME NEW s \in States, NewState(s), Enqueue(m, s, <<>>)
        PROVE  SlotInv'
    <3>1. HasRoom(<<>>) BY ChatAssumption DEF HasRoom
    <3> QED BY <2>2, <3>1, NewStateDoes, SlotEnqueue
  <2> QED BY <1>3, <2>1, <2>2 DEF PermitAuto
<1>4. CASE Deny(m)
  <2>1. CASE fate[m] = "asked" BY <1>4, <2>1, SlotExit DEF Deny
  <2>2. CASE fate[m] # "asked" BY <1>4, <2>2, SlotSame DEF Deny
  <2> QED BY <2>1, <2>2
<1>5. CASE Ask(m)
  <2>1. CASE InMode
    <3>1. Enqueue(m, current, queue[current]) /\ current' = current BY <1>5, <2>1 DEF Ask
    <3> QED BY <1>c, <2>1, <3>1, SlotEnqueue DEF InMode
  <2>2. CASE ~InMode BY <1>5, <2>2, SlotSame DEF Ask
  <2> QED BY <2>1, <2>2
<1> QED BY <1>1, <1>2, <1>3, <1>4, <1>5

LEMMA CommandSlots ==
    ASSUME Types, SlotInv, Enter \/ Exit \/ OnceStep \/ Reset \/ ResetStep \/ ResetFails
    PROVE  SlotInv'
<1>1. CASE Enter
  <2>1. CASE InMode BY <1>1, <2>1, SlotSame DEF Enter
  <2>2. CASE ~InMode
    <3>1. PICK s \in States : NewState(s) /\ EnsureWorker(s) BY <1>1, <2>2 DEF Enter
    <3> QED BY <3>1, NewStateDoes, SlotEnsured
  <2> QED BY <2>1, <2>2
<1>2. CASE Exit BY <1>2, SlotExit DEF Exit
<1>3. CASE OnceStep BY <1>3, SlotSame DEF OnceStep, OnceTurn, OnceEnd
<1>4. CASE Reset \/ ResetStopped \/ ResetFails
  BY <1>4, SlotSame DEF Reset, ResetStopped, ResetFails
<1>5. CASE ResetStop
  <2>1. CASE current = "none" \/ slot[current] = "none"
    BY <1>5, <2>1, SlotSame DEF ResetStop
  <2>2. CASE current # "none" /\ slot[current] # "none"
    <3>1. current \in States BY <2>2 DEF Types
    <3>2. /\ slot' = [slot EXCEPT ![current] = "none"] /\ task' = Cancelled(slot[current])
          /\ current' = current
      BY <1>5, <2>2 DEF ResetStop
    <3> QED BY <3>1, <3>2, SlotCancelled
  <2> QED BY <2>1, <2>2
<1>6. CASE ResetDone
  <2>1. Restart /\ current' = current BY <1>6 DEF ResetDone
  <2>2. CASE InMode
    <3>1. current \in States /\ EnsureWorker(current) BY <2>1, <2>2 DEF InMode, Types, Restart
    <3> QED BY <2>1, <3>1, SlotEnsured
  <2>3. CASE ~InMode BY <2>1, <2>3, SlotSame DEF Restart
  <2> QED BY <2>2, <2>3
<1> QED BY <1>1, <1>2, <1>3, <1>4, <1>5, <1>6 DEF ResetStep

LEMMA NextSlots == ASSUME Types, SlotInv, [Next]_vars PROVE SlotInv'
<1>1. CASE UNCHANGED vars BY <1>1, SlotSame DEF vars
<1>2. CASE Next BY <1>2, WorkSlots, MessageSlots, CommandSlots DEF Next
<1> QED BY <1>1, <1>2

-----------------------------------------------------------------------------
(* The lock, by what a step does to it *)

(* What EnsureWorker, exit_mode and the cancel of a reset do to other tasks *)
LEMMA EnsuredOthers ==
    ASSUME Types, NEW s \in States, EnsureWorker(s), NEW u \in Tasks, task'[u].pc \in Active
    PROVE  task'[u] = task[u]
<1>1. ASSUME NEW t \in Tasks,
             task' = [task EXCEPT ![t] = [NoTask EXCEPT !.pc = "new", !.born = s]]
      PROVE  task'[u] = task[u]
  <2>1. task'[t].pc = "new" BY <1>1 DEF Types, NoTask
  <2> QED BY <1>1, <2>1 DEF Active
<1> QED BY <1>1, EnsureWorkerDoes

LEMMA CancelledOthers ==
    ASSUME Types, NEW t \in Tasks \union {"none"}, task' = Cancelled(t), NEW u \in Tasks
    PROVE  /\ task'[u].pc = task[u].pc /\ task'[u].st = task[u].st
           /\ task'[u].born = task[u].born
           /\ u # t => task'[u] = task[u]
           /\ u = t => task'[u].cut
           /\ ~task'[u].cut => ~task[u].cut
<1>1. CASE u # t
  <2>1. task'[u] = task[u] BY <1>1 DEF Cancelled, Types
  <2> QED BY <1>1, <2>1
<1>2. CASE u = t
  <2>1. task[u] \in Workers BY DEF Types
  <2>2. t # "none" BY <1>2, ChatAssumption
  <2>3. task'[u] = [task[u] EXCEPT !.cut = TRUE] BY <1>2, <2>2 DEF Cancelled, Types
  <2>4. DOMAIN task[u] = {"pc", "st", "born", "hand", "cut"} BY <2>1 DEF Workers
  <2> QED BY <1>2, <2>3, <2>4
<1> QED BY <1>1, <1>2

(* p waits or lets go, and who is in a turn or a reset was so before. *)
LEMMA LockStep ==
    ASSUME Types, LockInv, NEW p \in Parties,
           \/ lock' = lock \/ lock' = Append(lock, p)
           \/ lock' = Released(p) /\ (p \in Tasks => task'[p].pc # "turn")
              /\ (p = "once" => once' # "turn")
              /\ (p = "reset" => reset'.pc \notin {"stop", "commit"}),
           \A u \in Tasks : task'[u].pc = "turn" =>
              task[u].pc = "turn" \/ (Owns(u) /\ lock' = lock),
           once' = "turn" => once = "turn" \/ (Owns("once") /\ lock' = lock),
           reset'.pc \in {"stop", "commit"} =>
              reset.pc \in {"stop", "commit"} \/ (Owns("reset") /\ lock' = lock)
    PROVE  LockInv'
<1>1. ASSUME NEW q \in Parties, Owns(q), lock' = lock \/ lock' = Append(lock, p) \/ q # p
      PROVE  lock' # <<>> /\ Head(lock') = q
  <2>1. lock \in Seq(Parties) BY DEF Types
  <2>2. CASE lock' = lock BY <1>1, <2>2 DEF Owns
  <2>3. CASE lock' = Append(lock, p) BY <1>1, <2>1, <2>3, AppendKeeps
  <2>4. CASE lock' = Released(p) /\ q # p BY <1>1, <2>1, <2>4, ReleasedKeeps
  <2> QED BY <1>1, <2>2, <2>3, <2>4
<1>2. ASSUME NEW u \in Tasks, task'[u].pc = "turn" PROVE lock' # <<>> /\ Head(lock') = u
  <2>1. u \in Parties BY DEF Parties
  <2>2. Owns(u) BY <1>2 DEF LockInv
  <2>3. lock' = lock \/ lock' = Append(lock, p) \/ u # p BY <1>2
  <2> QED BY <1>1, <2>1, <2>2, <2>3
<1>3. ASSUME once' = "turn" PROVE lock' # <<>> /\ Head(lock') = "once"
  <2>1. "once" \in Parties BY DEF Parties
  <2>2. Owns("once") BY <1>3 DEF LockInv
  <2>3. lock' = lock \/ lock' = Append(lock, p) \/ "once" # p BY <1>3
  <2> QED BY <1>1, <2>1, <2>2, <2>3
<1>4. ASSUME reset'.pc \in {"stop", "commit"} PROVE lock' # <<>> /\ Head(lock') = "reset"
  <2>1. "reset" \in Parties BY DEF Parties
  <2>2. Owns("reset") BY <1>4 DEF LockInv
  <2>3. lock' = lock \/ lock' = Append(lock, p) \/ "reset" # p BY <1>4
  <2> QED BY <1>1, <2>1, <2>2, <2>3
<1> QED BY <1>2, <1>3, <1>4 DEF LockInv, Owns

LEMMA WorkLocks ==
    ASSUME Types, LockInv, NEW t \in Tasks, Work(t) \/ TimerFires(t) PROVE LockInv'
<1>p. t \in Parties /\ t # "once" /\ t # "reset" BY ChatAssumption DEF Parties
<1>t. task[t] \in Workers /\ task \in [Tasks -> Workers] BY DEF Types
<1>n. NoTask.pc = "none" BY DEF NoTask
<1>1. UNCHANGED <<reset, once>>
  BY DEF Work, Start, Get, Merge, TurnStart, TurnEnd, TimedOut, Cut, TimerFires
<1>2. \A u \in Tasks \ {t} : task'[u] = task[u]
  BY <1>t DEF Work, Start, Get, Merge, TurnStart, TurnEnd, TimedOut, Cut, TimerFires, Finishes
<1>3. CASE TurnStart(t)
  <2>1. Owns(t) /\ lock' = lock BY <1>3 DEF TurnStart
  <2> QED BY <1>p, <1>1, <1>2, <2>1, LockStep
<1>4. CASE ~TurnStart(t)
  <2>1. task'[t].pc # "turn"
    BY <1>t, <1>n, <1>4 DEF Work, Start, Get, Merge, TurnEnd, TimedOut, Cut, TimerFires,
                            Finishes, Workers
  <2>2. lock' = lock \/ lock' = Append(lock, t) \/ lock' = Released(t)
    BY <1>4 DEF Work, Start, Get, Merge, TurnEnd, TimedOut, Cut, TimerFires
  <2>3. CASE lock' = Released(t) BY <1>p, <1>1, <1>2, <2>1, <2>3, LockStep
  <2>4. CASE lock' # Released(t) BY <1>p, <1>1, <1>2, <2>1, <2>2, <2>4, LockStep
  <2> QED BY <2>3, <2>4
<1> QED BY <1>3, <1>4

(* A step that enqueues, enters or exits leaves the turns alone. *)
LEMMA TurnsKept ==
    ASSUME Types, NEW u \in Tasks, task'[u].pc = "turn",
           \/ task' = task
           \/ \E s \in States : EnsureWorker(s)
           \/ \E m \in Msgs, s \in States, q \in Seq(Msgs) : Enqueue(m, s, q)
           \/ ExitMode
           \/ \E t \in Tasks \union {"none"} : task' = Cancelled(t)
    PROVE  task[u].pc = "turn"
<1>1. CASE task' = task BY <1>1
<1>2. ASSUME NEW s \in States, EnsureWorker(s) PROVE task[u].pc = "turn"
  BY <1>2, EnsuredOthers DEF Active
<1>3. ASSUME NEW m \in Msgs, NEW s \in States, NEW q \in Seq(Msgs), Enqueue(m, s, q)
      PROVE  task[u].pc = "turn"
  BY <1>2, <1>3, <1>1 DEF Enqueue
<1>4. ASSUME NEW t \in Tasks \union {"none"}, task' = Cancelled(t) PROVE task[u].pc = "turn"
  BY <1>4, CancelledOthers
<1>5. CASE ExitMode
  <2>1. CASE InMode
    <3>1. slot[current] \in Tasks \union {"none"} /\ task' = Cancelled(slot[current])
      BY <1>5, <2>1 DEF ExitMode, InMode, Types
    <3> QED BY <1>4, <3>1
  <2>2. CASE ~InMode BY <1>1, <1>5, <2>2 DEF ExitMode
  <2> QED BY <2>1, <2>2
<1> QED BY <1>1, <1>2, <1>3, <1>4, <1>5

LEMMA MessageLocks ==
    ASSUME Types, LockInv, NEW m \in Msgs, Say(m) \/ Permit(m) \/ PermitAuto(m) \/ Deny(m) \/ Ask(m)
    PROVE  LockInv'
<1>p. "once" \in Parties /\ "reset" \in Parties BY DEF Parties
<1>c. current # "none" => current \in States /\ queue[current] \in Seq(Msgs)
  BY DEF Types
<1>e. <<>> \in Seq(Msgs) OBVIOUS
<1>1. \A u \in Tasks : task'[u].pc = "turn" => task[u].pc = "turn"
  <2>1. CASE Say(m) BY <2>1 DEF Say
  <2>2. CASE Permit(m) BY <1>c, <2>2, TurnsKept DEF Permit
  <2>3. CASE PermitAuto(m) BY <1>c, <1>e, <2>3, TurnsKept DEF PermitAuto, InMode
  <2>4. CASE Deny(m) BY <2>4, TurnsKept DEF Deny
  <2>5. CASE Ask(m) BY <1>c, <2>5, TurnsKept DEF Ask, InMode
  <2> QED BY <2>1, <2>2, <2>3, <2>4, <2>5
<1>2. /\ reset' = reset
      /\ lock' = lock \/ lock' = Append(lock, "once")
      /\ once' = once \/ once' = "lock"
  BY DEF Say, Permit, PermitAuto, Deny, Ask
<1> QED BY <1>p, <1>1, <1>2, LockStep

LEMMA CommandLocks ==
    ASSUME Types, LockInv, Enter \/ Exit \/ OnceStep \/ Reset \/ ResetStep \/ ResetFails
    PROVE  LockInv'
<1>p. "once" \in Parties /\ "reset" \in Parties /\ {"reset", "once"} \intersect Tasks = {}
  BY ChatAssumption DEF Parties
<1>n. NoReset.pc = "idle" BY DEF NoReset
<1>1. \A u \in Tasks : task'[u].pc = "turn" => task[u].pc = "turn"
  <2>1. CASE Enter BY <2>1, TurnsKept DEF Enter
  <2>2. CASE Exit BY <2>2, TurnsKept DEF Exit
  <2>3. CASE OnceStep \/ Reset \/ ResetStopped \/ ResetFails
    BY <2>3 DEF OnceStep, OnceTurn, OnceEnd, Reset, ResetStopped, ResetFails
  <2>4. CASE ResetStop
    <3>1. current # "none" => slot[current] \in Tasks \union {"none"} BY DEF Types
    <3> QED BY <2>4, <3>1, TurnsKept DEF ResetStop
  <2>5. CASE ResetDone
    <3>1. InMode => current \in States BY DEF InMode, Types
    <3> QED BY <2>5, <3>1, TurnsKept DEF ResetDone, Restart
  <2> QED BY <2>1, <2>2, <2>3, <2>4, <2>5 DEF ResetStep
<1>2. CASE Enter \/ Exit
  <2>1. UNCHANGED <<lock, reset, once>> BY <1>2 DEF Enter, Exit
  <2> QED BY <1>p, <1>1, <2>1, LockStep
<1>3. CASE OnceTurn
  BY <1>p, <1>1, <1>3, LockStep DEF OnceTurn
<1>4. CASE OnceEnd
  <2>1. lock' = Released("once") /\ once' = "idle" /\ reset' = reset BY <1>4 DEF OnceEnd
  <2> QED BY <1>p, <1>1, <2>1, LockStep
<1>5. CASE Reset
  <2>1. lock' = Append(lock, "reset") /\ once' = once /\ reset'.pc = "lock"
    BY <1>5 DEF Reset, NoReset
  <2> QED BY <1>p, <1>1, <2>1, LockStep
<1>6. CASE ResetStop \/ ResetStopped
  <2>1. lock' = lock /\ once' = once BY <1>6 DEF ResetStop, ResetStopped
  <2>2. Owns("reset") BY <1>6 DEF ResetStop, ResetMay, ResetStopped, LockInv
  <2> QED BY <1>p, <1>1, <2>1, <2>2, LockStep
<1>7. CASE ResetDone \/ ResetFails
  <2>1. lock' = Released("reset") /\ reset' = NoReset /\ once' = once
    BY <1>7 DEF ResetDone, ResetFails
  <2> QED BY <1>p, <1>n, <1>1, <2>1, LockStep
<1> QED BY <1>2, <1>3, <1>4, <1>5, <1>6, <1>7 DEF OnceStep, ResetStep

LEMMA NextLocks == ASSUME Types, LockInv, [Next]_vars PROVE LockInv'
<1>1. CASE UNCHANGED vars BY <1>1 DEF vars, LockInv, Owns
<1>2. CASE Next BY <1>2, WorkLocks, MessageLocks, CommandLocks DEF Next
<1> QED BY <1>1, <1>2

-----------------------------------------------------------------------------
(* Workers that do not stray *)

Serving == {"burst", "lock", "turn"}

(* A step that leaves every mode on, or the worker of the mode cancelled. *)
LEMMA StrayStep ==
    ASSUME Types, SlotInv, StrayInv, strayed' = strayed,
           \A u \in Tasks : task'[u].pc \in Active =>
              /\ task[u].pc \in Active
              /\ task'[u].st = task[u].st /\ task'[u].born = task[u].born
              /\ task'[u].pc \in Serving /\ ~task'[u].cut =>
                    \/ mode'[task[u].st]
                    \/ task[u].pc \in Serving /\ ~task[u].cut
                       /\ (strayed \/ (mode[task[u].st] => mode'[task[u].st]))
    PROVE  StrayInv'
<1> SUFFICES ASSUME ~strayed, NEW u \in Tasks, task'[u].pc \in Active
             PROVE  /\ task'[u].st = task'[u].born
                    /\ task'[u].pc \in Serving /\ ~task'[u].cut => mode'[task'[u].st]
  BY DEF StrayInv, Serving
<1>1. /\ task[u].pc \in Active
      /\ task'[u].st = task[u].st /\ task'[u].born = task[u].born
  OBVIOUS
<1>2. /\ task[u].st = task[u].born
      /\ task[u].pc \in Serving /\ ~task[u].cut => mode[task[u].st]
  BY <1>1 DEF StrayInv, Serving
<1> QED BY <1>1, <1>2

(* When the mode of s ends, only one worker serves s, and it ends too. *)
LEMMA OneServes ==
    ASSUME Types, SlotInv, StrayInv, ~strayed,
           NEW u \in Tasks, task[u].pc \in Active, ~task[u].cut
    PROVE  slot[task[u].st] = u
BY DEF SlotInv, StrayInv, Active

LEMMA StrayKept ==
    ASSUME Types, SlotInv, StrayInv, strayed' = strayed,
           \/ task' = task
           \/ \E s \in States : EnsureWorker(s),
           mode' = mode \/ \E s \in States : mode' = [mode EXCEPT ![s] = TRUE]
    PROVE  StrayInv'
<1>1. ASSUME NEW u \in Tasks, task'[u].pc \in Active PROVE task'[u] = task[u]
  BY <1>1, EnsuredOthers
<1>2. ASSUME NEW s \in States, mode[s] PROVE mode'[s]
  BY <1>2 DEF Types
<1>3. ASSUME NEW u \in Tasks, task[u].pc \in Active PROVE task[u].st \in States
  BY <1>3 DEF SlotInv
<1> QED BY <1>1, <1>2, <1>3, StrayStep

LEMMA StrayExit ==
    ASSUME Types, SlotInv, StrayInv, strayed' = strayed, ExitMode PROVE StrayInv'
<1>1. CASE InMode
  <2>1. current \in States /\ slot[current] \in Tasks \union {"none"} BY <1>1 DEF InMode, Types
  <2>2. task' = Cancelled(slot[current]) /\ mode' = [mode EXCEPT ![current] = FALSE]
    BY <1>1 DEF ExitMode
  <2>3. ASSUME NEW u \in Tasks, task'[u].pc \in Active
        PROVE  /\ task[u].pc \in Active
               /\ task'[u].st = task[u].st /\ task'[u].born = task[u].born
               /\ task'[u].pc \in Serving /\ ~task'[u].cut =>
                    \/ mode'[task[u].st]
                    \/ task[u].pc \in Serving /\ ~task[u].cut
                       /\ (strayed \/ (mode[task[u].st] => mode'[task[u].st]))
    <3>1. /\ task'[u].pc = task[u].pc /\ task'[u].st = task[u].st
          /\ task'[u].born = task[u].born
          /\ u = slot[current] => task'[u].cut
          /\ ~task'[u].cut => ~task[u].cut
      BY <2>1, <2>2, CancelledOthers
    <3>2. task[u].st \in States BY <2>3, <3>1 DEF SlotInv
    <3>3. CASE task'[u].pc \in Serving /\ ~task'[u].cut /\ ~strayed
      <4>1. slot[task[u].st] = u BY <2>3, <3>1, <3>3, OneServes
      <4>2. task[u].st # current BY <3>1, <3>3, <4>1
      <4>3. mode'[task[u].st] = mode[task[u].st] BY <2>2, <3>2, <4>2 DEF Types
      <4> QED BY <2>3, <3>1, <3>3, <4>3
    <3> QED BY <2>3, <3>1, <3>3
  <2> QED BY <2>3, StrayStep
<1>2. CASE ~InMode BY <1>2, StrayKept DEF ExitMode
<1> QED BY <1>1, <1>2

LEMMA WorkStray ==
    ASSUME Types, SlotInv, StrayInv, NEW t \in Tasks, Work(t) \/ TimerFires(t) PROVE StrayInv'
<1>t. task[t] \in Workers /\ task \in [Tasks -> Workers] BY DEF Types
<1>n. NoTask.pc = "none" BY DEF NoTask
<1>2. \A u \in Tasks \ {t} : task'[u] = task[u]
  BY <1>t DEF Work, Start, Get, Merge, TurnStart, TurnEnd, TimedOut, Cut, TimerFires, Finishes
<1>a. ASSUME NEW u \in Tasks, task[u].pc \in Active PROVE task[u].st \in States
  BY <1>a DEF SlotInv
<1>e. ASSUME task'[t].pc \notin Active, strayed' = strayed, mode' = mode PROVE StrayInv'
  BY <1>2, <1>e, StrayStep
<1>1. CASE Start(t)
  <2>1. CASE current = "none"
    <3>1. task'[t] = NoTask /\ strayed' = strayed /\ mode' = mode
      BY <1>1, <1>t, <2>1 DEF Start
    <3> QED BY <1>e, <1>n, <3>1 DEF Active
  <2>2. CASE current # "none"
    <3>1. /\ task'[t].pc = "get" /\ task'[t].st = current /\ task'[t].born = task[t].born
          /\ strayed' = (strayed \/ task[t].born # current) /\ mode' = mode
      BY <1>1, <1>t, <2>2 DEF Start, Workers
    <3>2. ASSUME ~strayed', NEW u \in Tasks, task'[u].pc \in Active
          PROVE  /\ task'[u].st = task'[u].born
                 /\ task'[u].pc \in Serving /\ ~task'[u].cut => mode'[task'[u].st]
      <4>1. CASE u = t BY <3>1, <3>2, <4>1 DEF Serving
      <4>2. CASE u # t
        <5>1. task'[u] = task[u] /\ ~strayed BY <1>2, <3>1, <3>2, <4>2
        <5> QED BY <3>1, <3>2, <5>1 DEF StrayInv, Serving
      <4> QED BY <4>1, <4>2
    <3> QED BY <3>2 DEF StrayInv, Serving
  <2> QED BY <2>1, <2>2
<1>3. CASE Get(t)
  <2>1. CASE mode[task[t].st]
    <3>1. PICK p \in {"burst", "lock"} :
             task' = [task EXCEPT ![t].hand = {Head(queue[task[t].st])}, ![t].pc = p]
      BY <1>3, <2>1 DEF Get
    <3>2. strayed' = strayed /\ mode' = mode /\ task[t].pc = "get" BY <1>3 DEF Get
    <3>3. task'[t].pc = p /\ task'[t].st = task[t].st /\ task'[t].born = task[t].born
      BY <1>t, <3>1 DEF Workers
    <3> QED BY <1>2, <2>1, <3>2, <3>3, StrayStep DEF Active
  <2>2. CASE ~mode[task[t].st]
    <3>1. task' = [task EXCEPT ![t] = NoTask] BY <1>3, <2>2 DEF Get, Finishes
    <3>2. task'[t] = NoTask /\ strayed' = strayed /\ mode' = mode
      BY <1>3, <1>t, <3>1 DEF Get
    <3> QED BY <1>e, <1>n, <3>2 DEF Active
  <2> QED BY <2>1, <2>2
<1>4. CASE Merge(t)
  <2>1. PICK n : task' = [task EXCEPT ![t].pc = "lock",
                            ![t].hand = Joined(@, queue[task[t].st], n)]
    BY <1>4 DEF Merge
  <2>2. strayed' = strayed /\ mode' = mode /\ task[t].pc = "burst" /\ ~task[t].cut
    BY <1>4 DEF Merge
  <2>3. task'[t].pc = "lock" /\ task'[t].st = task[t].st /\ task'[t].born = task[t].born
    BY <1>t, <2>1 DEF Workers
  <2> QED BY <1>2, <2>2, <2>3, StrayStep DEF Active, Serving
<1>5. CASE TurnStart(t)
  <2>1. /\ strayed' = strayed /\ mode' = mode /\ task[t].pc = "lock" /\ ~task[t].cut
        /\ task' = [task EXCEPT ![t].pc = "turn"]
    BY <1>5 DEF TurnStart
  <2>2. task'[t].pc = "turn" /\ task'[t].st = task[t].st /\ task'[t].born = task[t].born
    BY <1>t, <2>1 DEF Workers
  <2> QED BY <1>2, <2>1, <2>2, StrayStep DEF Active, Serving
<1>6. CASE TurnEnd(t) \/ TimerFires(t)
  <2>1. /\ strayed' = strayed /\ mode' = mode /\ task[t].pc \in Active
        /\ task'[t].pc \in {"get", "expired"}
        /\ task'[t].st = task[t].st /\ task'[t].born = task[t].born
    BY <1>6, <1>t DEF TurnEnd, TimerFires, Workers, Active
  <2> QED BY <1>2, <2>1, StrayStep DEF Serving
<1>7. CASE TimedOut(t)
  <2>1. /\ task[t].pc = "expired" /\ ~task[t].cut /\ strayed' = strayed
        /\ mode' = [mode EXCEPT ![task[t].st] = FALSE]
        /\ task' = [task EXCEPT ![t] = NoTask]
    BY <1>7 DEF TimedOut, Finishes
  <2>2. task'[t] = NoTask BY <1>t, <2>1
  <2>3. task[t].pc \in Active /\ task[t].st \in States BY <1>a, <2>1 DEF Active
  <2>4. ASSUME NEW u \in Tasks, task'[u].pc \in Active
        PROVE  /\ task'[u] = task[u]
               /\ ~task[u].cut => strayed \/ mode'[task[u].st] = mode[task[u].st]
    <3>1. u # t BY <1>n, <2>2, <2>4 DEF Active
    <3>2. task'[u] = task[u] BY <1>2, <3>1
    <3>3. CASE ~task[u].cut /\ ~strayed
      <4>1. slot[task[u].st] = u /\ slot[task[t].st] = t
        BY <2>1, <2>3, <2>4, <3>2, <3>3, OneServes
      <4>2. task[u].st # task[t].st /\ task[u].st \in States
        BY <1>a, <2>4, <3>1, <3>2, <4>1
      <4> QED BY <2>1, <3>2, <4>2 DEF Types
    <3> QED BY <3>2, <3>3
  <2> QED BY <2>1, <2>4, StrayStep
<1>8. CASE Cut(t)
  <2>1. task' = [task EXCEPT ![t] = NoTask] /\ strayed' = strayed /\ mode' = mode
    BY <1>8 DEF Cut, Finishes
  <2>2. task'[t] = NoTask BY <1>t, <2>1
  <2> QED BY <1>e, <1>n, <2>1, <2>2 DEF Active
<1> QED BY <1>1, <1>3, <1>4, <1>5, <1>6, <1>7, <1>8 DEF Work

LEMMA HandlerStray ==
    ASSUME Types, SlotInv, StrayInv,
           \/ \E m \in Msgs : Say(m) \/ Permit(m) \/ PermitAuto(m) \/ Deny(m) \/ Ask(m)
           \/ Enter \/ Exit \/ OnceStep \/ Reset \/ ResetStep \/ ResetFails
    PROVE  StrayInv'
<1>c. current # "none" => current \in States BY DEF Types
<1>e. ASSUME NEW m \in Msgs, NEW s \in States, NEW q, Enqueue(m, s, q)
      PROVE  task' = task \/ EnsureWorker(s)
  BY <1>e DEF Enqueue
<1>1. ASSUME NEW m \in Msgs, Say(m) PROVE StrayInv' BY <1>1, StrayKept DEF Say
<1>2. ASSUME NEW m \in Msgs, Permit(m) PROVE StrayInv'
  BY <1>2, <1>c, <1>e, StrayKept DEF Permit
<1>3. ASSUME NEW m \in Msgs, PermitAuto(m) PROVE StrayInv'
  <2>1. strayed' = strayed BY <1>3 DEF PermitAuto
  <2>2. CASE InMode /\ Enqueue(m, current, queue[current]) /\ UNCHANGED <<current, mode>>
    BY <1>c, <1>e, <2>1, <2>2, StrayKept DEF InMode
  <2>3. ASSUME NEW s \in States, NewState(s), Enqueue(m, s, <<>>) PROVE StrayInv'
    BY <1>e, <2>1, <2>3, NewStateDoes, StrayKept
  <2> QED BY <1>3, <2>2, <2>3 DEF PermitAuto
<1>4. ASSUME NEW m \in Msgs, Deny(m) PROVE StrayInv'
  <2>1. CASE fate[m] = "asked" BY <1>4, <2>1, StrayExit DEF Deny
  <2>2. CASE fate[m] # "asked" BY <1>4, <2>2, StrayKept DEF Deny
  <2> QED BY <2>1, <2>2
<1>5. ASSUME NEW m \in Msgs, Ask(m) PROVE StrayInv'
  BY <1>5, <1>c, <1>e, StrayKept DEF Ask, InMode
<1>6. CASE Enter
  <2>1. strayed' = strayed BY <1>6 DEF Enter
  <2>2. CASE InMode BY <1>6, <2>1, <2>2, StrayKept DEF Enter
  <2>3. CASE ~InMode
    <3>1. PICK s \in States : NewState(s) /\ EnsureWorker(s) BY <1>6, <2>3 DEF Enter
    <3> QED BY <2>1, <3>1, NewStateDoes, StrayKept
  <2> QED BY <2>2, <2>3
<1>7. CASE Exit BY <1>7, StrayExit DEF Exit
<1>8. CASE OnceStep \/ Reset \/ ResetStopped \/ ResetFails
  BY <1>8, StrayKept DEF OnceStep, OnceTurn, OnceEnd, Reset, ResetStopped, ResetFails
<1>9. CASE ResetStop
  <2>1. strayed' = strayed /\ mode' = mode BY <1>9 DEF ResetStop
  <2>2. PICK t \in Tasks \union {"none"} : task' = Cancelled(t)
    <3>1. CASE current = "none" \/ slot[current] = "none"
      BY <1>9, <3>1 DEF ResetStop, Cancelled
    <3>2. CASE current # "none" /\ slot[current] # "none"
      BY <1>9, <3>2 DEF ResetStop, Types
    <3> QED BY <3>1, <3>2
  <2> QED BY <2>1, <2>2, CancelledOthers, StrayStep
<1>10. CASE ResetDone
  BY <1>10, <1>c, StrayKept DEF ResetDone, Restart, InMode
<1> QED BY <1>1, <1>2, <1>3, <1>4, <1>5, <1>6, <1>7, <1>8, <1>9, <1>10 DEF ResetStep

LEMMA NextStray == ASSUME Types, SlotInv, StrayInv, [Next]_vars PROVE StrayInv'
<1>1. CASE UNCHANGED vars BY <1>1 DEF vars, StrayInv
<1>2. CASE Next BY <1>2, WorkStray, HandlerStray DEF Next
<1> QED BY <1>1, <1>2

-----------------------------------------------------------------------------
(* The worker of the queue *)

LEMMA ServedEnsured ==
    ASSUME Types, NEW s \in States, EnsureWorker(s), current' = s PROVE QueueHasWorker'
BY EnsureWorkerType DEF QueueHasWorker

LEMMA ServedEnqueue ==
    ASSUME Types, QueueHasWorker, NEW m \in Msgs, NEW s \in States, NEW q, Enqueue(m, s, q),
           current' = s, current = s \/ HasRoom(q), mode' = mode \/ HasRoom(q),
           q = queue[s] \/ HasRoom(q), reset' = reset
    PROVE  QueueHasWorker'
<1>1. CASE HasRoom(q) BY <1>1, ServedEnsured DEF Enqueue
<1>2. CASE ~HasRoom(q)
  <2>1. queue' = [queue EXCEPT ![s] = q] /\ UNCHANGED <<slot, task, broken>>
    BY <1>2 DEF Enqueue
  <2>2. queue'[s] = queue[s] BY <1>2, <2>1 DEF Types
  <2>3. slot' = slot /\ broken' = broken /\ mode' = mode /\ current = s BY <1>2, <2>1
  <2> QED BY <2>2, <2>3 DEF QueueHasWorker, InMode
<1> QED BY <1>1, <1>2

LEMMA ServedExit ==
    ASSUME Types, QueueHasWorker, ExitMode, current' = current,
           reset' = reset, broken' = broken
    PROVE  QueueHasWorker'
<1>1. CASE InMode
  <2>1. mode' = [mode EXCEPT ![current] = FALSE] /\ current \in States
    BY <1>1 DEF ExitMode, InMode, Types
  <2>2. ~mode'[current'] BY <2>1 DEF Types
  <2> QED BY <2>2 DEF QueueHasWorker, InMode
<1>2. CASE ~InMode BY <1>2 DEF ExitMode, QueueHasWorker, InMode
<1> QED BY <1>1, <1>2

(* The end of a task that is not the worker of the mode, or ends the mode *)
LEMMA ServedEnded ==
    ASSUME Types, QueueHasWorker, NEW t \in Tasks, slot' = Unslotted(t),
           current' \in {current, "none"}, reset' = reset, broken' = broken,
           current \in States /\ mode'[current] => mode[current],
           current \in States /\ mode'[current] => queue'[current] = queue[current],
           current \in States /\ mode'[current] => slot[current] # t
    PROVE  QueueHasWorker'
<1>1. CASE current' = current /\ current \in States /\ mode'[current]
  <2>1. slot'[current] = slot[current] BY <1>1 DEF Unslotted
  <2> QED BY <1>1, <2>1 DEF QueueHasWorker, InMode
<1>2. CASE ~(current' = current /\ current \in States /\ mode'[current])
  BY <1>2 DEF QueueHasWorker, InMode, Types
<1> QED BY <1>1, <1>2

LEMMA WorkServed ==
    ASSUME Types, SlotInv, QueueHasWorker, NEW t \in Tasks, Work(t) \/ TimerFires(t)
    PROVE  QueueHasWorker'
<1>1. UNCHANGED <<reset, broken>>
  BY DEF Work, Start, Get, Merge, TurnStart, TurnEnd, TimedOut, Cut, TimerFires
<1>a. ASSUME task[t].pc \in Active PROVE task[t].st \in States /\ queue[task[t].st] \in Seq(Msgs)
  BY <1>a DEF SlotInv, Types
<1>s. ASSUME task[t].pc \in Active, current \in States, slot[current] = t
      PROVE  task[t].st = current
  BY <1>s, ChatAssumption DEF SlotInv
<1>2. CASE Start(t)
  <2>1. CASE current = "none" BY <1>1, <1>2, <2>1 DEF Start, QueueHasWorker, InMode
  <2>2. CASE current # "none" BY <1>1, <1>2, <2>2 DEF Start, QueueHasWorker, InMode
  <2> QED BY <2>1, <2>2
<1>3. CASE Get(t)
  <2> DEFINE s == task[t].st
  <2>1. s \in States /\ task[t].pc \in Active /\ queue[s] # <<>>
    BY <1>3, <1>a DEF Get, Active
  <2>2. CASE mode[s]
    <3>1. queue' = [queue EXCEPT ![s] = Tail(queue[s])] /\ UNCHANGED <<current, slot, mode>>
      BY <1>3, <2>2 DEF Get
    <3>2. current # "none" /\ queue'[current] # <<>> => queue[current] # <<>>
      BY <2>1, <3>1 DEF Types
    <3> QED BY <1>1, <3>1, <3>2 DEF QueueHasWorker, InMode
  <2>3. CASE ~mode[s]
    <3>1. /\ queue' = [queue EXCEPT ![s] = <<>>] /\ mode' = mode
          /\ slot' = Unslotted(t) /\ current' \in {current, "none"}
      BY <1>3, <2>3 DEF Get, Finishes, EntryAfter
    <3>2. ASSUME current \in States, mode'[current]
          PROVE  queue'[current] = queue[current] /\ slot[current] # t
      <4>1. current # s BY <2>3, <3>1, <3>2
      <4> QED BY <1>s, <2>1, <3>1, <3>2, <4>1 DEF Types
    <3> QED BY <1>1, <3>1, <3>2, ServedEnded
  <2> QED BY <2>2, <2>3
<1>4. CASE Merge(t)
  <2> DEFINE s == task[t].st
             q == queue[s]
  <2>1. s \in States /\ q \in Seq(Msgs) BY <1>4, <1>a DEF Merge, Active
  <2>2. PICK n \in 0..Len(q) : queue' = [queue EXCEPT ![s] = SubSeq(q, n + 1, Len(q))]
    BY <1>4 DEF Merge
  <2>3. UNCHANGED <<current, mode, slot>> BY <1>4 DEF Merge
  <2>4. q = <<>> => SubSeq(q, n + 1, Len(q)) = <<>>
    <3>1. ASSUME q = <<>> PROVE n + 1 \in Int /\ Len(q) \in Int /\ Len(q) < n + 1
      BY <2>1, <3>1
    <3> HIDE DEF q
    <3> QED BY <3>1, SubSeqEmpty, Zenon
  <2>5. current # "none" /\ queue'[current] # <<>> => queue[current] # <<>>
    BY <2>1, <2>2, <2>4 DEF Types
  <2> QED BY <1>1, <2>3, <2>5 DEF QueueHasWorker, InMode
<1>5. CASE TurnStart(t) \/ TurnEnd(t) \/ TimerFires(t)
  BY <1>1, <1>5 DEF TurnStart, TurnEnd, TimerFires, QueueHasWorker, InMode
<1>6. CASE TimedOut(t)
  <2>1. task[t].pc \in Active /\ task[t].st \in States BY <1>6, <1>a DEF TimedOut, Active
  <2>2. /\ mode' = [mode EXCEPT ![task[t].st] = FALSE] /\ queue' = queue
        /\ slot' = Unslotted(t) /\ current' \in {current, "none"}
    BY <1>6 DEF TimedOut, Finishes, EntryAfter
  <2>3. ASSUME current \in States, mode'[current]
        PROVE  mode[current] /\ slot[current] # t
    <3>1. current # task[t].st BY <2>1, <2>2, <2>3 DEF Types
    <3>2. mode'[current] = mode[current] BY <2>2, <2>3, <3>1 DEF Types
    <3> QED BY <1>s, <2>1, <2>3, <3>1, <3>2
  <2> QED BY <1>1, <2>2, <2>3, ServedEnded
<1>7. CASE Cut(t)
  <2>1. /\ task[t].cut /\ mode' = mode /\ queue' = queue /\ slot' = Unslotted(t)
        /\ current' \in {current, "none"}
    BY <1>7 DEF Cut, Finishes, EntryAfter
  <2>2. \A s \in States : slot[s] # t BY <2>1, ChatAssumption DEF SlotInv
  <2> QED BY <1>1, <2>1, <2>2, ServedEnded
<1> QED BY <1>2, <1>3, <1>4, <1>5, <1>6, <1>7 DEF Work

LEMMA HandlerServed ==
    ASSUME Types, QueueHasWorker,
           \/ \E m \in Msgs : Say(m) \/ Permit(m) \/ PermitAuto(m) \/ Deny(m) \/ Ask(m)
           \/ Enter \/ Exit \/ OnceStep \/ Reset \/ ResetStep \/ ResetFails
    PROVE  QueueHasWorker'
<1>c. current # "none" => current \in States BY DEF Types
<1>1. ASSUME NEW m \in Msgs, Say(m) PROVE QueueHasWorker'
  BY <1>1 DEF Say, QueueHasWorker, InMode
<1>2. ASSUME NEW m \in Msgs, Permit(m) PROVE QueueHasWorker'
  <2>1. CASE current = "none" BY <1>2, <2>1 DEF Permit, QueueHasWorker, InMode
  <2>2. CASE current # "none"
    BY <1>2, <1>c, <2>2, ServedEnqueue DEF Permit
  <2> QED BY <2>1, <2>2
<1>3. ASSUME NEW m \in Msgs, PermitAuto(m) PROVE QueueHasWorker'
  <2>1. reset' = reset BY <1>3 DEF PermitAuto
  <2>2. CASE InMode /\ Enqueue(m, current, queue[current]) /\ UNCHANGED <<current, mode>>
    BY <1>c, <2>1, <2>2, ServedEnqueue DEF InMode
  <2>3. ASSUME NEW s \in States, NewState(s), Enqueue(m, s, <<>>) PROVE QueueHasWorker'
    <3>1. HasRoom(<<>>) BY ChatAssumption DEF HasRoom
    <3> QED BY <2>1, <2>3, <3>1, NewStateDoes, ServedEnqueue
  <2> QED BY <1>3, <2>2, <2>3 DEF PermitAuto
<1>4. ASSUME NEW m \in Msgs, Deny(m) PROVE QueueHasWorker'
  <2>1. CASE fate[m] = "asked" BY <1>4, <2>1, ServedExit DEF Deny
  <2>2. CASE fate[m] # "asked" BY <1>4, <2>2 DEF Deny, QueueHasWorker, InMode
  <2> QED BY <2>1, <2>2
<1>5. ASSUME NEW m \in Msgs, Ask(m) PROVE QueueHasWorker'
  <2>1. CASE InMode BY <1>5, <1>c, <2>1, ServedEnqueue DEF Ask, InMode
  <2>2. CASE ~InMode BY <1>5, <2>2 DEF Ask, QueueHasWorker, InMode
  <2> QED BY <2>1, <2>2
<1>6. CASE Enter
  <2>1. CASE InMode BY <1>6, <2>1 DEF Enter, QueueHasWorker, InMode
  <2>2. CASE ~InMode
    <3>1. PICK s \in States : NewState(s) /\ EnsureWorker(s) BY <1>6, <2>2 DEF Enter
    <3> QED BY <3>1, NewStateDoes, ServedEnsured
  <2> QED BY <2>1, <2>2
<1>7. CASE Exit BY <1>7, ServedExit DEF Exit
<1>8. CASE OnceStep BY <1>8 DEF OnceStep, OnceTurn, OnceEnd, QueueHasWorker, InMode
<1>9. CASE Reset BY <1>9 DEF Reset, QueueHasWorker, InMode
<1>10. CASE ResetStop \/ ResetStopped
  <2>1. reset'.pc \in {"stop", "commit"} BY <1>10 DEF ResetStop, ResetStopped, NoReset, Types
  <2> QED BY <2>1 DEF QueueHasWorker
<1>11. CASE ResetDone
  <2>1. CASE InMode BY <1>11, <1>c, <2>1, ServedEnsured DEF ResetDone, Restart, InMode
  <2>2. CASE ~InMode BY <1>11, <2>2 DEF ResetDone, Restart, QueueHasWorker, InMode
  <2> QED BY <2>1, <2>2
<1>12. CASE ResetFails BY <1>12 DEF ResetFails, QueueHasWorker
<1> QED BY <1>1, <1>2, <1>3, <1>4, <1>5, <1>6, <1>7, <1>8, <1>9, <1>10, <1>11, <1>12 DEF ResetStep

-----------------------------------------------------------------------------
(* The theorems *)

(* IInv holds of every state that ChatMode reaches. *)
THEOREM Inductive == Spec => []IInv
<1>1. Init => IInv
  <2> SUFFICES ASSUME Init PROVE IInv OBVIOUS
  <2>1. QueueInv
    <3>1. \A s \in States : queue[s] = <<>> BY DEF Init
    <3> QED BY <3>1, ChatAssumption DEF QueueInv
  <2>2. StrayInv BY DEF Init, StrayInv, NoTask, Active
  <2>3. LockInv BY DEF Init, LockInv, NoTask, NoReset
  <2>4. QueueHasWorker BY DEF Init, QueueHasWorker, InMode
  <2> QED BY <2>1, <2>2, <2>3, <2>4, InitTypes, SlotInit DEF IInv
<1>2. IInv /\ [Next]_vars => IInv'
  <2> SUFFICES ASSUME IInv, [Next]_vars PROVE IInv' OBVIOUS
  <2>1. QueueHasWorker'
    <3>1. CASE UNCHANGED vars BY <3>1 DEF vars, IInv, QueueHasWorker, InMode
    <3>2. CASE Next BY <3>2, WorkServed, HandlerServed DEF Next, IInv
    <3> QED BY <3>1, <3>2
  <2> QED BY <2>1, NextTypes, QueueLimit, NextSlots, NextLocks, NextStray DEF IInv
<1> QED BY <1>1, <1>2, PTL DEF Spec

(* Every variable keeps its type, no queue is over its limit, and the      *)
(* worker in the slot of the entry is alive and works for that state.      *)
THEOREM TypeCorrect == Spec => []TypeOK
<1>1. IInv => TypeOK
  <2> SUFFICES ASSUME IInv PROVE TypeOK OBVIOUS
  <2>1. ASSUME current # "none", slot[current] # "none"
        PROVE  /\ task[slot[current]].pc # "none" /\ ~task[slot[current]].cut
               /\ task[slot[current]].pc # "new" => task[slot[current]].st = current
    <3>1. current \in States /\ slot[current] \in Tasks BY <2>1 DEF IInv, Types
    <3>2. task[slot[current]] \in Workers BY <3>1 DEF IInv, Types
    <3>3. task[slot[current]].pc \in {"none", "new"} \union Active
      BY <3>2 DEF Workers, Active
    <3> QED BY <2>1, <3>1, <3>3 DEF IInv, SlotInv
  <2> QED BY <2>1 DEF IInv, QueueInv, TypeOK
<1> QED BY <1>1, Inductive, PTL

(* No turn is under way while a reset deletes the session.                 *)
THEOREM ResetsAlone == Spec => []ResetAlone
<1>1. IInv => ResetAlone
  BY ChatAssumption DEF IInv, LockInv, ResetAlone, Owns
<1> QED BY <1>1, Inductive, PTL

(* A message in the queue of the mode has a worker, or a reset will start  *)
(* one, or one has failed.                                                 *)
THEOREM QueueServed == Spec => []QueueHasWorker
<1>1. IInv => QueueHasWorker BY DEF IInv
<1> QED BY <1>1, Inductive, PTL

(* One worker serves a state, and none goes on in a mode that was left.    *)
THEOREM WorkerAlone == Spec => []OneWorker
<1>1. IInv => OneWorker
  <2> SUFFICES ASSUME IInv, ~strayed, NEW t \in Tasks,
                      task[t].pc \in {"get", "burst", "lock", "turn"}, ~task[t].cut
               PROVE  /\ \A u \in Tasks \ {t} : task[u].st = task[t].st => task[u].cut
                      /\ mode[task[t].st] \/ task[t].pc = "get"
    BY DEF OneWorker
  <2>1. task[t].pc \in Active BY DEF Active
  <2>2. slot[task[t].st] = t /\ task[t].st \in States
    BY <2>1, OneServes DEF IInv, SlotInv
  <2>3. ASSUME NEW u \in Tasks \ {t}, task[u].st = task[t].st PROVE task[u].cut
    <3>1. task[u].pc \in Active BY <2>2, <2>3, ChatAssumption DEF IInv, SlotInv
    <3> QED BY <2>2, <2>3, <3>1, OneServes DEF IInv
  <2>4. mode[task[t].st] \/ task[t].pc = "get" BY <2>1 DEF IInv, StrayInv
  <2> QED BY <2>3, <2>4
<1> QED BY <1>1, Inductive, PTL

(* The mode ends by an exit, by a switched-off feature or by the timeout   *)
(* of a worker of this very state.                                         *)
THEOREM ModeEndings == Spec => ModeEnds
<1> DEFINE Ends == left'["exit"] < left["exit"] \/ left'["deny"] < left["deny"]
                   \/ \E t \in Tasks : task[t].st = current /\ task[t].pc = "expired"
                                       /\ task'[t].pc = "none"
           A == InMode /\ (current' # current \/ ~mode'[current]) => Ends
<1>1. IInv /\ [Next]_vars => A
  <2> SUFFICES ASSUME IInv, [Next]_vars, InMode, current' # current \/ ~mode'[current]
               PROVE  Ends
    OBVIOUS
  <2>1. current \in States /\ mode[current] /\ Types BY DEF IInv, InMode, Types
  <2>2. ASSUME current' = current, mode' = mode PROVE FALSE BY <2>1, <2>2
  <2>3. ASSUME NEW e \in Events, Happens(e) PROVE left'[e] < left[e]
    BY <2>1, <2>3 DEF Types, Happens
  <2>4. ASSUME NEW t \in Tasks, Work(t) \/ TimerFires(t) PROVE Ends
    <3>1. CASE TimedOut(t)
      <4>1. /\ task[t].pc = "expired" /\ mode' = [mode EXCEPT ![task[t].st] = FALSE]
            /\ task' = [task EXCEPT ![t] = NoTask]
            /\ current' = IF current = task[t].st /\ ~mode'[task[t].st] THEN "none" ELSE current
        BY <3>1 DEF TimedOut, Finishes, EntryAfter
      <4>2. task[t].st = current BY <2>1, <4>1 DEF Types
      <4>3. task'[t].pc = "none" BY <2>1, <4>1 DEF Types, NoTask
      <4> QED BY <4>1, <4>2, <4>3
    <3>2. CASE ~TimedOut(t)
      <4>1. mode' = mode
        BY <2>4, <3>2 DEF Work, Start, Get, Merge, TurnStart, TurnEnd, Cut, TimerFires
      <4>2. current' = current
        BY <2>1, <2>4, <3>2 DEF Work, Start, Get, Merge, TurnStart, TurnEnd, Cut, TimerFires,
                                Finishes, EntryAfter
      <4> QED BY <2>2, <4>1, <4>2
    <3> QED BY <3>1, <3>2
  <2>5. ASSUME NEW m \in Msgs, Say(m) \/ Permit(m) \/ PermitAuto(m) \/ Deny(m) \/ Ask(m)
        PROVE  Ends
    <3>1. CASE Deny(m) BY <2>3, <3>1 DEF Deny, Events
    <3>2. CASE Say(m) \/ Permit(m) \/ PermitAuto(m) \/ Ask(m)
      BY <2>2, <3>2 DEF Say, Permit, PermitAuto, Ask
    <3> QED BY <2>5, <3>1, <3>2
  <2>6. ASSUME Enter \/ OnceStep \/ Reset \/ ResetStep \/ ResetFails PROVE Ends
    BY <2>2, <2>6 DEF Enter, OnceStep, OnceTurn, OnceEnd, Reset, ResetStep, ResetStop,
                      ResetStopped, ResetDone, ResetFails
  <2>7. CASE Exit BY <2>3, <2>7 DEF Exit, Events
  <2>8. CASE UNCHANGED vars BY <2>2, <2>8 DEF vars
  <2> QED BY <2>4, <2>5, <2>6, <2>7, <2>8 DEF Next
<1>2. IInv /\ [Next]_vars => [A]_vars BY <1>1
<1> QED BY <1>2, Inductive, PTL DEF Spec, ModeEnds

-----------------------------------------------------------------------------
(* Messages that were taken in *)

(* Only a worker between its queue and the end of a turn holds messages,    *)
(* and those of a turn count as started.                                   *)
HandInv ==
    \A t \in Tasks :
        /\ task[t].pc \notin Serving => task[t].hand = {}
        /\ task[t].pc = "turn" => \A m \in task[t].hand : fate[m] = "started"

InHand(m)  == \E t \in Tasks : m \in task[t].hand /\ ~task[t].cut
InQueue(m) == InMode /\ \E i \in 1..Len(queue[current]) : queue[current][i] = m

Excused ==
    \/ left'["exit"] < left["exit"] \/ left'["deny"] < left["deny"]
    \/ reset.pc = "lock" /\ reset'.pc = "stop"
    \/ \E t \in Tasks : task[t].pc = "expired" /\ task'[t].pc = "none"

(* A step loses no message that waits for its turn. *)
Kept == \A m \in Msgs : fate[m] = "queued" /\ fate'[m] = "queued" /\ Held(m) /\ ~Held(m)' => Excused

LEMMA HeldIs ==
    ASSUME NEW m
    PROVE  (Held(m) <=> InHand(m) \/ InQueue(m)) /\ (Held(m)' <=> InHand(m)' \/ InQueue(m)')
BY DEF Held, InHand, InQueue

(* A step of one task *)
LEMMA HandStep ==
    ASSUME Types, HandInv, NEW t \in Tasks,
           \A u \in Tasks \ {t} : task'[u] = task[u],
           task'[t].pc \notin Serving => task'[t].hand = {},
           task'[t].pc = "turn" => \A m \in task'[t].hand : fate'[m] = "started",
           \A m \in Msgs : fate[m] = "started" => fate'[m] = "started"
    PROVE  HandInv'
<1>1. \A u \in Tasks : task[u].hand \subseteq Msgs BY DEF Types, Workers
<1> QED BY <1>1 DEF HandInv

LEMMA HandKept ==
    ASSUME NEW m, NEW t \in Tasks, InHand(m),
           \A u \in Tasks \ {t} : task'[u] = task[u],
           m \in task[t].hand /\ ~task[t].cut => m \in task'[t].hand /\ ~task'[t].cut
    PROVE  InHand(m)'
BY DEF InHand

(* ensure_worker takes a task that holds nothing. *)
LEMMA HandsEnsured ==
    ASSUME Types, HandInv, NEW s \in States, EnsureWorker(s) \/ UNCHANGED <<slot, task>>,
           \A m \in Msgs : fate[m] = "started" => fate'[m] = "started"
    PROVE  HandInv' /\ \A m : InHand(m) => InHand(m)'
<1>1. CASE task' = task BY <1>1 DEF HandInv, InHand, Types, Workers
<1>2. CASE task' # task
  <2>1. PICK t \in Tasks :
          /\ task[t].pc = "none"
          /\ task' = [task EXCEPT ![t] = [NoTask EXCEPT !.pc = "new", !.born = s]]
    BY <1>2, EnsureWorkerDoes
  <2>2. /\ \A u \in Tasks \ {t} : task'[u] = task[u]
        /\ task'[t].pc = "new" /\ task'[t].hand = {}
    BY <2>1 DEF Types, NoTask
  <2>3. task[t].hand = {} BY <2>1 DEF HandInv, Serving
  <2>4. HandInv' BY <2>2, HandStep
  <2>5. ASSUME NEW m, InHand(m) PROVE InHand(m)' BY <2>2, <2>3, <2>5, HandKept
  <2> QED BY <2>4, <2>5
<1> QED BY <1>1, <1>2

LEMMA WorkHands ==
    ASSUME Types, SlotInv, HandInv, NEW t \in Tasks, Work(t) \/ TimerFires(t)
    PROVE  HandInv' /\ Kept
<1>t. /\ task[t] \in Workers /\ task \in [Tasks -> Workers] /\ queue \in [States -> Seq(Msgs)]
      /\ DOMAIN task[t] = {"pc", "st", "born", "hand", "cut"}
  BY DEF Types, Workers
<1>a. ASSUME task[t].pc \in Active
      PROVE  task[t].st \in States /\ queue[task[t].st] \in Seq(Msgs)
  BY <1>a, <1>t DEF SlotInv
<1>o. \A u \in Tasks \ {t} : task'[u] = task[u]
  BY <1>t DEF Work, Start, Get, Merge, TurnStart, TurnEnd, TimedOut, Cut, TimerFires, Finishes
<1>q. ASSUME UNCHANGED <<queue, mode>>, current' = current \/ ~InMode, NEW m, InQueue(m)
      PROVE  InQueue(m)'
  BY <1>q DEF InQueue, InMode
<1>1. CASE Start(t)
  <2>1. task'[t].pc \in {"none", "get"} /\ task'[t].hand = {} /\ task[t].hand = {}
    <3>1. task[t].hand = {} BY <1>1 DEF Start, HandInv, Serving
    <3>2. CASE task' = [task EXCEPT ![t] = NoTask] BY <1>t, <3>1, <3>2 DEF NoTask
    <3>3. CASE task' = [task EXCEPT ![t].pc = "get", ![t].st = current] BY <1>t, <3>1, <3>3
    <3> QED BY <1>1, <3>1, <3>2, <3>3 DEF Start
  <2>2. UNCHANGED <<queue, mode, current, fate>> BY <1>1 DEF Start
  <2>3. HandInv' BY <1>o, <2>1, <2>2, HandStep
  <2>4. ASSUME NEW m \in Msgs, Held(m) PROVE Held(m)'
    BY <1>o, <1>q, <2>1, <2>2, <2>4, HandKept, HeldIs
  <2> QED BY <2>3, <2>4 DEF Kept
<1>2. CASE Get(t)
  <2> DEFINE s == task[t].st
  <2>1. /\ task[t].hand = {} /\ s \in States /\ queue[s] \in Seq(Msgs) /\ queue[s] # <<>>
        /\ UNCHANGED <<mode, fate>>
    BY <1>2, <1>a DEF Get, Active, HandInv, Serving
  <2>2. CASE mode[s]
    <3>1. /\ queue' = [queue EXCEPT ![s] = Tail(queue[s])] /\ current' = current
          /\ task'[t].hand = {Head(queue[s])} /\ task'[t].pc \in {"burst", "lock"}
          /\ task'[t].cut = task[t].cut /\ ~task[t].cut
      BY <1>2, <1>t, <2>2 DEF Get
    <3>2. HandInv' BY <1>o, <2>1, <3>1, HandStep DEF Serving
    <3>3. ASSUME NEW m \in Msgs, InQueue(m) PROVE Held(m)'
      <4>1. CASE current # s BY <1>t, <3>1, <3>3, <4>1, <2>1, HeldIs DEF InQueue, InMode
      <4>2. CASE current = s
        <5>1. PICK i \in 1..Len(queue[s]) : queue[s][i] = m BY <3>3, <4>2 DEF InQueue
        <5>2. CASE i = 1
          <6>1. m \in task'[t].hand /\ ~task'[t].cut BY <2>1, <3>1, <5>1, <5>2
          <6> QED BY <6>1, HeldIs DEF InHand
        <5>3. CASE i # 1
          <6>1. /\ Len(Tail(queue[s])) = Len(queue[s]) - 1 /\ i - 1 \in 1..(Len(queue[s]) - 1)
                /\ Tail(queue[s])[i - 1] = queue[s][i]
            BY <2>1, <5>1, <5>3
          <6>2. queue'[s] = Tail(queue[s]) BY <1>t, <2>1, <3>1
          <6>3. InQueue(m)' BY <2>1, <3>1, <3>3, <4>2, <5>1, <6>1, <6>2 DEF InQueue, InMode
          <6> QED BY <6>3, HeldIs
        <5> QED BY <5>2, <5>3
      <4> QED BY <4>1, <4>2
    <3>4. ASSUME NEW m \in Msgs, InHand(m) PROVE InHand(m)' BY <1>o, <2>1, <3>4, HandKept
    <3> QED BY <3>2, <3>3, <3>4, HeldIs DEF Kept
  <2>3. CASE ~mode[s]
    <3>1. /\ queue' = [queue EXCEPT ![s] = <<>>]
          /\ task' = [task EXCEPT ![t] = NoTask]
          /\ current' = IF current = s THEN "none" ELSE current
      BY <1>2, <2>1, <2>3 DEF Get, Finishes, EntryAfter
    <3>2. task'[t].pc = "none" /\ task'[t].hand = {} BY <1>t, <3>1 DEF NoTask
    <3>3. HandInv' BY <1>o, <2>1, <3>2, HandStep
    <3>4. ASSUME NEW m \in Msgs, InQueue(m) PROVE InQueue(m)'
      <4>1. current # s BY <2>3, <3>4 DEF InQueue, InMode
      <4> QED BY <1>t, <2>1, <3>1, <3>4, <4>1 DEF InQueue, InMode
    <3>5. ASSUME NEW m \in Msgs, InHand(m) PROVE InHand(m)' BY <1>o, <2>1, <3>5, HandKept
    <3> QED BY <3>3, <3>4, <3>5, HeldIs DEF Kept
  <2> QED BY <2>2, <2>3
<1>3. CASE Merge(t)
  <2> DEFINE s == task[t].st
  <2>1. /\ s \in States /\ queue[s] \in Seq(Msgs) /\ ~task[t].cut
        /\ UNCHANGED <<mode, fate, current>>
    BY <1>3, <1>a DEF Merge, Active
  <2>2. PICK n \in 0..Len(queue[s]) :
          /\ task' = [task EXCEPT ![t].pc = "lock", ![t].hand = Joined(task[t].hand, queue[s], n)]
          /\ queue' = [queue EXCEPT ![s] = SubSeq(queue[s], n + 1, Len(queue[s]))]
    BY <1>3 DEF Merge
  <2>3. /\ task'[t].pc = "lock" /\ task'[t].cut = task[t].cut
        /\ task'[t].hand = task[t].hand \union {queue[s][i] : i \in 1..n}
    BY <1>t, <2>2 DEF Joined
  <2>4. HandInv' BY <1>o, <2>1, <2>3, HandStep DEF Serving
  <2>5. ASSUME NEW m \in Msgs, InQueue(m) PROVE Held(m)'
    <3>1. CASE current # s BY <1>t, <2>1, <2>2, <2>5, <3>1, HeldIs DEF InQueue, InMode
    <3>2. CASE current = s
      <4>1. PICK i \in 1..Len(queue[s]) : queue[s][i] = m BY <2>5, <3>2 DEF InQueue
      <4>2. CASE i <= n
        <5>1. m \in task'[t].hand /\ ~task'[t].cut BY <2>1, <2>3, <4>1, <4>2
        <5> QED BY <5>1, HeldIs DEF InHand
      <4>3. CASE i > n
        <5> DEFINE rest == SubSeq(queue[s], n + 1, Len(queue[s]))
        <5>1. Len(queue[s]) \in Nat /\ \A k \in 1..Len(queue[s]) : queue[s][k] \in Msgs
          BY <2>1, LenProperties, ElementOfSeq
        <5>2. Len(rest) = Len(queue[s]) - n /\ \A k \in 1..(Len(queue[s]) - n) : rest[k] = queue[s][n + k]
          BY <2>1, <5>1
        <5>4. queue'[s] = rest BY <1>t, <2>1, <2>2
        <5> HIDE DEF rest
        <5>3. i - n \in 1..(Len(queue[s]) - n) /\ rest[i - n] = queue[s][i]
          <6>1. n + (i - n) = i /\ i - n \in 1..(Len(queue[s]) - n) BY <4>1, <4>3, <5>1
          <6> QED BY <5>2, <6>1
        <5>5. InQueue(m)' BY <2>1, <2>5, <3>2, <4>1, <5>2, <5>3, <5>4 DEF InQueue, InMode
        <5> QED BY <5>5, HeldIs
      <4> QED BY <4>1, <4>2, <4>3
    <3> QED BY <3>1, <3>2
  <2>6. ASSUME NEW m \in Msgs, InHand(m) PROVE InHand(m)' BY <1>o, <2>3, <2>6, HandKept
  <2> QED BY <2>4, <2>5, <2>6, HeldIs DEF Kept
<1>4. CASE TurnStart(t)
  <2>1. /\ task'[t].pc = "turn" /\ task'[t].hand = task[t].hand /\ task'[t].cut = task[t].cut
        /\ fate' = [m \in Msgs |-> IF m \in task[t].hand THEN "started" ELSE fate[m]]
        /\ UNCHANGED <<queue, mode, current>>
    BY <1>4, <1>t DEF TurnStart
  <2>2. task[t].hand \subseteq Msgs BY <1>t DEF Workers
  <2>3. HandInv' BY <1>o, <2>1, <2>2, HandStep DEF Serving
  <2>4. ASSUME NEW m \in Msgs, Held(m) PROVE Held(m)'
    BY <1>o, <1>q, <2>1, <2>4, HandKept, HeldIs
  <2> QED BY <2>3, <2>4 DEF Kept
<1>5. CASE TurnEnd(t)
  <2>1. /\ task[t].pc = "turn" /\ task'[t].pc = "get" /\ task'[t].hand = {}
        /\ UNCHANGED <<queue, mode, current, fate>>
    BY <1>5, <1>t DEF TurnEnd
  <2>2. HandInv' BY <1>o, <2>1, HandStep
  <2>3. ASSUME NEW m \in Msgs, fate[m] = "queued", Held(m) PROVE Held(m)'
    <3>1. m \notin task[t].hand BY <2>1, <2>3 DEF HandInv
    <3> QED BY <1>o, <1>q, <2>1, <2>3, <3>1, HandKept, HeldIs
  <2> QED BY <2>2, <2>3 DEF Kept
<1>6. CASE TimedOut(t)
  <2>1. task[t].pc = "expired" /\ task' = [task EXCEPT ![t] = NoTask] /\ fate' = fate
    BY <1>6 DEF TimedOut, Finishes
  <2>2. task'[t].pc = "none" /\ task'[t].hand = {} BY <1>t, <2>1 DEF NoTask
  <2>3. HandInv' BY <1>o, <2>1, <2>2, HandStep
  <2> QED BY <2>1, <2>2, <2>3 DEF Kept, Excused
<1>7. CASE Cut(t)
  <2>1. task[t].cut /\ task' = [task EXCEPT ![t] = NoTask] /\ UNCHANGED <<queue, mode, fate>>
    BY <1>7 DEF Cut, Finishes
  <2>2. task'[t].pc = "none" /\ task'[t].hand = {} BY <1>t, <2>1 DEF NoTask
  <2>3. HandInv' BY <1>o, <2>1, <2>2, HandStep
  <2>4. current' = current \/ ~InMode BY <1>7 DEF Cut, Finishes, EntryAfter, InMode
  <2>5. ASSUME NEW m \in Msgs, Held(m) PROVE Held(m)'
    BY <1>o, <1>q, <2>1, <2>4, <2>5, HandKept, HeldIs
  <2> QED BY <2>3, <2>5 DEF Kept
<1>8. CASE TimerFires(t)
  <2>1. /\ task[t].hand = {} /\ task'[t].pc = "expired" /\ task'[t].hand = task[t].hand
        /\ UNCHANGED <<queue, mode, current, fate>>
    BY <1>8, <1>t DEF TimerFires, HandInv, Serving
  <2>2. HandInv' BY <1>o, <2>1, HandStep
  <2>3. ASSUME NEW m \in Msgs, Held(m) PROVE Held(m)'
    BY <1>o, <1>q, <2>1, <2>3, HandKept, HeldIs
  <2> QED BY <2>2, <2>3 DEF Kept
<1> QED BY <1>1, <1>2, <1>3, <1>4, <1>5, <1>6, <1>7, <1>8 DEF Work

LEMMA NothingLost ==
    ASSUME HandInv, UNCHANGED <<current, mode, queue, task>>,
           \A m \in Msgs : fate[m] = "started" => fate'[m] = "started",
           \A t \in Tasks : task[t].hand \subseteq Msgs
    PROVE  HandInv' /\ Kept
<1>1. HandInv' BY DEF HandInv
<1>2. ASSUME NEW m \in Msgs, Held(m) PROVE Held(m)' BY <1>2 DEF Held, InMode
<1> QED BY <1>1, <1>2 DEF Kept

(* A cancel leaves the worker what it holds. *)
LEMMA CancelledHands ==
    ASSUME Types, HandInv, NEW t \in Tasks \union {"none"}, task' = Cancelled(t),
           \A m \in Msgs : fate[m] = "started" => fate'[m] = "started"
    PROVE  HandInv'
<1>1. \A u \in Tasks : task'[u].pc = task[u].pc /\ task'[u].hand = task[u].hand
  BY DEF Cancelled, Types, Workers
<1>2. \A u \in Tasks : task[u].hand \subseteq Msgs BY DEF Types, Workers
<1> QED BY <1>1, <1>2 DEF HandInv

LEMMA ExitHands ==
    ASSUME Types, HandInv, ExitMode,
           \A m \in Msgs : fate[m] = "started" => fate'[m] = "started"
    PROVE  HandInv'
<1>1. CASE InMode
  <2>1. slot[current] \in Tasks \union {"none"} BY <1>1 DEF InMode, Types
  <2> QED BY <1>1, <2>1, CancelledHands DEF ExitMode
<1>2. CASE ~InMode
  <2>1. task' = Cancelled("none") BY <1>2 DEF ExitMode, Cancelled
  <2> QED BY <2>1, CancelledHands
<1> QED BY <1>1, <1>2

LEMMA EnqueueHands ==
    ASSUME Types, HandInv, NEW m \in Msgs, fate[m] # "started",
           NEW s \in States, NEW q \in Seq(Msgs), Enqueue(m, s, q), current' = s,
           ~InMode \/ (current = s /\ mode' = mode /\ q = queue[s])
    PROVE  HandInv' /\ Kept
<1>1. EnsureWorker(s) \/ UNCHANGED <<slot, task>> BY DEF Enqueue
<1>2. \A k \in Msgs : fate[k] = "started" => fate'[k] = "started" BY DEF Enqueue, Types
<1>3. HandInv' /\ \A k : InHand(k) => InHand(k)' BY <1>1, <1>2, HandsEnsured
<1>4. ASSUME NEW k \in Msgs, InQueue(k) PROVE InQueue(k)'
  <2>1. current = s /\ mode' = mode /\ q = queue[s] /\ InMode BY <1>4 DEF InQueue
  <2>2. PICK i \in 1..Len(q) : q[i] = k BY <1>4, <2>1 DEF InQueue
  <2>3. queue'[s] = q \/ queue'[s] = Append(q, m) BY DEF Enqueue, Types
  <2>4. i \in 1..Len(queue'[s]) /\ queue'[s][i] = k BY <2>2, <2>3
  <2> QED BY <2>1, <2>4 DEF InQueue, InMode
<1> QED BY <1>3, <1>4, HeldIs DEF Kept

LEMMA MessageHands ==
    ASSUME Types, HandInv, NEW m \in Msgs,
           Say(m) \/ Permit(m) \/ PermitAuto(m) \/ Deny(m) \/ Ask(m)
    PROVE  HandInv' /\ Kept
<1>h. \A t \in Tasks : task[t].hand \subseteq Msgs BY DEF Types, Workers
<1>c. current # "none" => current \in States /\ queue[current] \in Seq(Msgs) BY DEF Types
<1>1. CASE Say(m) BY <1>1, <1>h, NothingLost DEF Say, Types
<1>2. CASE Permit(m)
  <2>1. CASE current = "none" BY <1>2, <1>h, <2>1, NothingLost DEF Permit, Types
  <2>2. CASE current # "none"
    <3>1. /\ Enqueue(m, current, queue[current]) /\ UNCHANGED <<current, mode>>
          /\ fate[m] # "started"
      BY <1>2, <2>2 DEF Permit
    <3> QED BY <1>c, <2>2, <3>1, EnqueueHands
  <2> QED BY <2>1, <2>2
<1>3. CASE PermitAuto(m)
  <2>1. fate[m] # "started" BY <1>3 DEF PermitAuto
  <2>2. CASE InMode /\ Enqueue(m, current, queue[current]) /\ UNCHANGED <<current, mode>>
    BY <1>c, <2>1, <2>2, EnqueueHands DEF InMode
  <2>3. ASSUME ~InMode, NEW s \in States, NewState(s), Enqueue(m, s, <<>>)
        PROVE  HandInv' /\ Kept
    <3>1. current' = s /\ <<>> \in Seq(Msgs) BY <2>3 DEF NewState
    <3> QED BY <2>1, <2>3, <3>1, EnqueueHands
  <2> QED BY <1>3, <2>2, <2>3 DEF PermitAuto
<1>4. CASE Deny(m)
  <2>1. \A k \in Msgs : fate[k] = "started" => fate'[k] = "started"
    BY <1>4 DEF Deny, Types
  <2>2. left'["deny"] < left["deny"] BY <1>4 DEF Deny, Happens, Events, Types
  <2>3. CASE fate[m] = "asked" BY <1>4, <2>1, <2>2, <2>3, ExitHands DEF Deny, Kept, Excused
  <2>4. CASE fate[m] # "asked" BY <1>4, <1>h, <2>1, <2>4, NothingLost DEF Deny
  <2> QED BY <2>3, <2>4
<1>5. CASE Ask(m)
  <2>1. CASE InMode
    <3>1. /\ Enqueue(m, current, queue[current]) /\ UNCHANGED <<current, mode>>
          /\ fate[m] # "started"
      BY <1>5, <2>1 DEF Ask
    <3> QED BY <1>c, <2>1, <3>1, EnqueueHands DEF InMode
  <2>2. CASE ~InMode BY <1>5, <1>h, <2>2, NothingLost DEF Ask, Types
  <2> QED BY <2>1, <2>2
<1> QED BY <1>1, <1>2, <1>3, <1>4, <1>5

LEMMA CommandHands ==
    ASSUME Types, HandInv, Enter \/ Exit \/ OnceStep \/ Reset \/ ResetStep \/ ResetFails
    PROVE  HandInv' /\ Kept
<1>h. \A t \in Tasks : task[t].hand \subseteq Msgs BY DEF Types, Workers
<1>f. fate' = fate
  BY DEF Enter, Exit, OnceStep, OnceTurn, OnceEnd, Reset, ResetStep, ResetStop, ResetStopped,
         ResetDone, ResetFails
<1>1. CASE Enter
  <2>1. CASE InMode BY <1>1, <1>f, <1>h, <2>1, NothingLost DEF Enter
  <2>2. CASE ~InMode
    <3>1. PICK s \in States : EnsureWorker(s) BY <1>1, <2>2 DEF Enter
    <3>2. HandInv' /\ \A k : InHand(k) => InHand(k)' BY <1>f, <3>1, HandsEnsured
    <3> QED BY <2>2, <3>2, HeldIs DEF Kept, InQueue
  <2> QED BY <2>1, <2>2
<1>2. CASE Exit
  <2>1. left'["exit"] < left["exit"] BY <1>2 DEF Exit, Happens, Events, Types
  <2> QED BY <1>2, <1>f, <2>1, ExitHands DEF Exit, Kept, Excused
<1>3. CASE OnceStep \/ Reset \/ ResetStopped \/ ResetFails
  BY <1>3, <1>f, <1>h, NothingLost DEF OnceStep, OnceTurn, OnceEnd, Reset, ResetStopped, ResetFails
<1>4. CASE ResetStop
  <2>1. CASE current = "none" \/ slot[current] = "none"
    BY <1>4, <1>f, <1>h, <2>1, NothingLost DEF ResetStop
  <2>2. CASE current # "none" /\ slot[current] # "none"
    <3>1. slot[current] \in Tasks BY <2>2 DEF Types
    <3>2. /\ task' = Cancelled(slot[current])
          /\ reset.pc = "lock" /\ reset'.pc = "stop"
      BY <1>4, <2>2 DEF ResetStop, ResetMay
    <3> QED BY <1>f, <3>1, <3>2, CancelledHands DEF Kept, Excused
  <2> QED BY <2>1, <2>2
<1>5. CASE ResetDone
  <2>1. Restart /\ UNCHANGED <<current, mode, queue>> BY <1>5 DEF ResetDone
  <2>2. CASE InMode
    <3>1. current \in States /\ EnsureWorker(current) BY <2>1, <2>2 DEF InMode, Types, Restart
    <3>2. HandInv' /\ \A k : InHand(k) => InHand(k)' BY <1>f, <3>1, HandsEnsured
    <3>3. ASSUME NEW k \in Msgs, InQueue(k) PROVE InQueue(k)' BY <2>1, <3>3 DEF InQueue, InMode
    <3> QED BY <3>2, <3>3, HeldIs DEF Kept
  <2>3. CASE ~InMode BY <1>f, <1>h, <2>1, <2>3, NothingLost DEF Restart
  <2> QED BY <2>2, <2>3
<1> QED BY <1>1, <1>2, <1>3, <1>4, <1>5 DEF ResetStep

(* A message that was taken in is lost without a turn only when the mode is *)
(* left, when a reset stops the worker that holds it, or when the idle      *)
(* timer ran out just before it came.                                       *)
THEOREM LossesExcused == Spec => LostOnlyWhenLeft
<1>1. Init => HandInv BY DEF Init, HandInv, NoTask, Serving
<1>2. IInv /\ HandInv /\ [Next]_vars => HandInv' /\ [Kept]_vars
  <2> SUFFICES ASSUME IInv, HandInv, [Next]_vars PROVE HandInv' /\ Kept OBVIOUS
  <2>1. Types /\ SlotInv BY DEF IInv
  <2>2. CASE Next BY <2>1, <2>2, WorkHands, MessageHands, CommandHands DEF Next
  <2>3. CASE UNCHANGED vars
    <3>1. \A t \in Tasks : task[t].hand \subseteq Msgs BY <2>1 DEF Types, Workers
    <3> QED BY <2>3, <3>1, NothingLost DEF vars
  <2> QED BY <2>2, <2>3
<1>3. [Kept]_vars => [\A m \in Msgs : fate[m] = "queued" /\ fate'[m] = "queued" /\ Held(m) /\ ~Held(m)'
         => \/ left'["exit"] < left["exit"] \/ left'["deny"] < left["deny"]
            \/ reset.pc = "lock" /\ reset'.pc = "stop"
            \/ \E t \in Tasks : task[t].pc = "expired" /\ task'[t].pc = "none"]_vars
  BY DEF Kept, Excused
<1> QED BY <1>1, <1>2, <1>3, Inductive, PTL DEF Spec, LostOnlyWhenLeft
=============================================================================
