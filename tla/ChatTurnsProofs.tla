---------------------------- MODULE ChatTurnsProofs ----------------------------
(***************************************************************************)
(* That ChatMode gives a message one turn at most, and none to a message   *)
(* that was turned away: queues and hands may outlive the mode, their      *)
(* worker may be cancelled and a state may be taken up again, but no       *)
(* message is ever in two places.                                          *)
(***************************************************************************)
EXTENDS ChatModeProofs

-----------------------------------------------------------------------------
(* Where messages are *)

(* No message is twice in a queue or in two queues. *)
NoTwins ==
    \A r, s \in States : \A i \in 1..Len(queue[r]), k \in 1..Len(queue[s]) :
        queue[r][i] = queue[s][k] => r = s /\ i = k

(* What is in a queue, of whatever state, waits and is in nobody's hand. *)
QueuesWait ==
    \A s \in States : \A i \in 1..Len(queue[s]) :
        fate[queue[s][i]] = "queued" /\ \A t \in Tasks : queue[s][i] \notin task[t].hand

HandsApart == \A t, u \in Tasks : t # u => task[t].hand \intersect task[u].hand = {}

(* What a worker holds, cancelled or not, has started when its turn has.   *)
HandsTell ==
    \A t \in Tasks : \A m \in task[t].hand :
        fate[m] = IF task[t].pc = "turn" THEN "started" ELSE "queued"

PlaceInv == NoTwins /\ QueuesWait /\ HandsApart /\ HandsTell

(* The turns of u go on, or u has nothing in hand any more. *)
SameHand(u) ==
    /\ task'[u].hand \subseteq task[u].hand
    /\ task'[u].hand # {} => (task'[u].pc = "turn" <=> task[u].pc = "turn")

(* A step that at most empties queues and hands, and decides nothing of a  *)
(* message that waits or was answered.                                     *)
LEMMA PlaceKept ==
    ASSUME Types, PlaceInv, \A s \in States : queue'[s] = queue[s] \/ queue'[s] = <<>>,
           \A u \in Tasks : SameHand(u),
           \A m \in Msgs : fate[m] \in {"queued", "started"} => fate'[m] = fate[m]
    PROVE  PlaceInv'
<1>1. \A s \in States : queue[s] \in Seq(Msgs) /\ \A i \in 1..Len(queue[s]) : queue[s][i] \in Msgs
  BY ElementOfSeq DEF Types
<1>2. \A s \in States : \A i \in 1..Len(queue'[s]) :
        i \in 1..Len(queue[s]) /\ queue'[s][i] = queue[s][i]
  <2>1. 1..Len(<<>>) = {} OBVIOUS
  <2> QED BY <2>1
<1>3. \A u \in Tasks : task[u].hand \subseteq Msgs BY DEF Types, Workers
<1>4. NoTwins' BY <1>2 DEF PlaceInv, NoTwins
<1>5. QueuesWait' BY <1>1, <1>2 DEF PlaceInv, QueuesWait, SameHand
<1>6. HandsApart' BY DEF PlaceInv, HandsApart, SameHand
<1>7. HandsTell' BY <1>3 DEF PlaceInv, HandsTell, SameHand
<1> QED BY <1>4, <1>5, <1>6, <1>7 DEF PlaceInv

(* A worker takes the first d messages of a queue in its hand, or drops them. *)
LEMMA PlaceTaken ==
    ASSUME Types, PlaceInv, fate' = fate, NEW s \in States, NEW t \in Tasks,
           NEW d \in 0..Len(queue[s]), NEW q, queue' = [queue EXCEPT ![s] = q],
           Len(q) = Len(queue[s]) - d, \A i \in 1..Len(q) : q[i] = queue[s][d + i],
           \A u \in Tasks \ {t} : task'[u] = task[u],
           task'[t].hand \subseteq task[t].hand \union {queue[s][i] : i \in 1..d},
           task'[t].hand # {} => task[t].pc # "turn" /\ task'[t].pc # "turn"
    PROVE  PlaceInv'
<1>1. \A r \in States : queue[r] \in Seq(Msgs) /\ Len(queue[r]) \in Nat BY DEF Types
<1> DEFINE By(r) == IF r = s THEN d ELSE 0
<1>2. \A r \in States : /\ By(r) \in Nat
                        /\ \A i \in 1..Len(queue'[r]) : /\ By(r) + i \in 1..Len(queue[r])
                                                        /\ queue'[r][i] = queue[r][By(r) + i]
  <2> SUFFICES ASSUME NEW r \in States
               PROVE  /\ By(r) \in Nat
                      /\ \A i \in 1..Len(queue'[r]) : /\ By(r) + i \in 1..Len(queue[r])
                                                      /\ queue'[r][i] = queue[r][By(r) + i]
    OBVIOUS
  <2>1. CASE r = s
    <3>1. queue'[r] = q BY <2>1 DEF Types
    <3> QED BY <1>1, <2>1, <3>1
  <2>2. CASE r # s
    <3>1. queue'[r] = queue[r] BY <2>2 DEF Types
    <3> QED BY <1>1, <2>2, <3>1
  <2> QED BY <2>1, <2>2
<1>3. \A r \in States : \A i \in 1..Len(queue'[r]) :
        queue'[r][i] \notin {queue[s][k] : k \in 1..d}
  <2> SUFFICES ASSUME NEW r \in States, NEW i \in 1..Len(queue'[r]), NEW k \in 1..d,
                      queue'[r][i] = queue[s][k]
               PROVE  FALSE
    OBVIOUS
  <2>1. By(r) + i \in 1..Len(queue[r]) /\ queue[r][By(r) + i] = queue[s][k] BY <1>2
  <2>2. k \in 1..Len(queue[s]) BY <1>1
  <2>3. r = s /\ By(r) + i = k
    <3> HIDE DEF By
    <3> QED BY <2>1, <2>2 DEF PlaceInv, NoTwins
  <2>4. i \in Nat \ {0} BY <1>2
  <2> QED BY <2>3, <2>4
<1> HIDE DEF By
<1>4. NoTwins'
  <2> SUFFICES ASSUME NEW r \in States, NEW p \in States, NEW i \in 1..Len(queue'[r]),
                      NEW k \in 1..Len(queue'[p]), queue'[r][i] = queue'[p][k]
               PROVE  r = p /\ i = k
    BY DEF NoTwins
  <2>1. /\ By(r) + i \in 1..Len(queue[r]) /\ By(p) + k \in 1..Len(queue[p])
        /\ queue[r][By(r) + i] = queue[p][By(p) + k]
    BY <1>2
  <2>2. r = p /\ By(r) + i = By(p) + k BY <2>1 DEF PlaceInv, NoTwins
  <2> QED BY <1>2, <2>2
<1>5. QueuesWait'
  <2> SUFFICES ASSUME NEW r \in States, NEW i \in 1..Len(queue'[r])
               PROVE  /\ fate[queue'[r][i]] = "queued"
                      /\ \A u \in Tasks : queue'[r][i] \notin task'[u].hand
    BY DEF QueuesWait
  <2>1. By(r) + i \in 1..Len(queue[r]) /\ queue'[r][i] = queue[r][By(r) + i] BY <1>2
  <2>2. /\ fate[queue'[r][i]] = "queued"
        /\ \A u \in Tasks : queue'[r][i] \notin task[u].hand
    BY <2>1 DEF PlaceInv, QueuesWait
  <2> QED BY <1>3, <2>2
<1>6. \A k \in 1..d : /\ fate[queue[s][k]] = "queued"
                      /\ \A u \in Tasks : queue[s][k] \notin task[u].hand
  BY <1>1 DEF PlaceInv, QueuesWait
<1>7. HandsApart' BY <1>6 DEF PlaceInv, HandsApart
<1>8. HandsTell' BY <1>6 DEF PlaceInv, HandsTell
<1> QED BY <1>4, <1>5, <1>7, <1>8 DEF PlaceInv

LEMMA EnsuredHands ==
    ASSUME Types, NEW s \in States, EnsureWorker(s) \/ UNCHANGED <<slot, task>>
    PROVE  \A u \in Tasks : SameHand(u)
<1>1. CASE task' = task BY <1>1 DEF SameHand
<1>2. CASE task' # task
  <2>1. PICK t \in Tasks : task' = [task EXCEPT ![t] = [NoTask EXCEPT !.pc = "new", !.born = s]]
    BY <1>2, EnsureWorkerDoes
  <2>2. task'[t].hand = {} /\ \A u \in Tasks \ {t} : task'[u] = task[u]
    BY <2>1 DEF Types, NoTask
  <2> QED BY <2>2 DEF SameHand
<1> QED BY <1>1, <1>2

(* A message that was nowhere is put at the end of one queue, or turned    *)
(* away.                                                                   *)
LEMMA PlaceAdded ==
    ASSUME Types, PlaceInv, NEW m \in Msgs, fate[m] \notin {"queued", "started"},
           NEW s \in States, NEW q \in Seq(Msgs), q = queue[s] \/ q = <<>>, Enqueue(m, s, q)
    PROVE  PlaceInv'
<1>1. \A u \in Tasks : SameHand(u) BY EnsuredHands DEF Enqueue
<1>2. \A k \in Msgs \ {m} : fate'[k] = fate[k] BY DEF Enqueue, Types
<1>3. CASE ~HasRoom(q)
  <2>1. \A r \in States : queue'[r] = queue[r] \/ queue'[r] = <<>>
    BY <1>3 DEF Enqueue, Types
  <2> QED BY <1>1, <1>2, <2>1, PlaceKept
<1>4. CASE HasRoom(q)
  <2>1. queue' = [queue EXCEPT ![s] = Append(q, m)] /\ fate'[m] = "queued"
    BY <1>4 DEF Enqueue, Types
  <2>2. /\ Len(q) \in Nat /\ Len(Append(q, m)) = Len(q) + 1 /\ Append(q, m)[Len(q) + 1] = m
        /\ \A i \in 1..Len(q) : Append(q, m)[i] = q[i]
    OBVIOUS
  <2> DEFINE Old(r, i) == i \in 1..Len(queue[r]) /\ queue'[r][i] = queue[r][i]
             New(r, i) == r = s /\ i = Len(q) + 1 /\ queue'[r][i] = m
  <2>3. \A r \in States : \A i \in 1..Len(queue'[r]) : Old(r, i) \/ New(r, i)
    <3> SUFFICES ASSUME NEW r \in States, NEW i \in 1..Len(queue'[r]) PROVE Old(r, i) \/ New(r, i)
      OBVIOUS
    <3>1. CASE r = s
      <4>1. queue'[r] = Append(q, m) BY <2>1, <3>1 DEF Types
      <4>2. i \in 1..Len(q) \/ i = Len(q) + 1 BY <2>2, <4>1
      <4>3. 1..Len(<<>>) = {} OBVIOUS
      <4>4. i \in 1..Len(q) => q = queue[s] BY <4>3
      <4> QED BY <2>2, <3>1, <4>1, <4>2, <4>4
    <3>2. CASE r # s
      <4>1. queue'[r] = queue[r] BY <2>1, <3>2 DEF Types
      <4> QED BY <4>1
    <3> QED BY <3>1, <3>2
  <2>4. \A r \in States : \A i \in 1..Len(queue[r]) : queue[r][i] \in Msgs \ {m}
    <3>1. \A r \in States : queue[r] \in Seq(Msgs) BY DEF Types
    <3> QED BY <3>1, ElementOfSeq DEF PlaceInv, QueuesWait
  <2>5. \A t \in Tasks : task[t].hand \subseteq Msgs \ {m}
    <3>1. \A t \in Tasks : task[t].hand \subseteq Msgs BY DEF Types, Workers
    <3> QED BY <3>1 DEF PlaceInv, HandsTell
  <2>6. NoTwins'
    <3> SUFFICES ASSUME NEW r \in States, NEW p \in States, NEW i \in 1..Len(queue'[r]),
                        NEW k \in 1..Len(queue'[p]), queue'[r][i] = queue'[p][k]
                 PROVE  r = p /\ i = k
      BY DEF NoTwins
    <3>1. CASE Old(r, i) /\ Old(p, k)
      <4>1. /\ i \in 1..Len(queue[r]) /\ k \in 1..Len(queue[p])
            /\ queue[r][i] = queue[p][k]
        BY <3>1
      <4> HIDE DEF Old, New
      <4> QED BY <4>1 DEF PlaceInv, NoTwins
    <3>2. CASE New(r, i) /\ New(p, k) BY <3>2
    <3>3. CASE (Old(r, i) /\ New(p, k)) \/ (New(r, i) /\ Old(p, k)) BY <2>4, <3>3
    <3> QED BY <2>3, <3>1, <3>2, <3>3
  <2>7. QueuesWait'
    <3> SUFFICES ASSUME NEW r \in States, NEW i \in 1..Len(queue'[r])
                 PROVE  /\ fate'[queue'[r][i]] = "queued"
                        /\ \A t \in Tasks : queue'[r][i] \notin task'[t].hand
      BY DEF QueuesWait
    <3>1. CASE Old(r, i)
      <4>1. /\ fate[queue[r][i]] = "queued" /\ queue[r][i] \in Msgs \ {m}
            /\ \A t \in Tasks : queue[r][i] \notin task[t].hand
        BY <2>4, <3>1 DEF PlaceInv, QueuesWait
      <4> QED BY <1>1, <1>2, <3>1, <4>1 DEF SameHand
    <3>2. CASE New(r, i) BY <1>1, <2>1, <2>5, <3>2 DEF SameHand
    <3> QED BY <2>3, <3>1, <3>2
  <2>8. HandsApart' BY <1>1 DEF PlaceInv, HandsApart, SameHand
  <2>9. HandsTell'
    <3> SUFFICES ASSUME NEW t \in Tasks, NEW k \in task'[t].hand
                 PROVE  fate'[k] = IF task'[t].pc = "turn" THEN "started" ELSE "queued"
      BY DEF HandsTell
    <3>1. k \in task[t].hand /\ (task'[t].pc = "turn" <=> task[t].pc = "turn")
      BY <1>1 DEF SameHand
    <3>2. fate'[k] = fate[k] BY <1>2, <2>5, <3>1
    <3> QED BY <3>1, <3>2 DEF PlaceInv, HandsTell
  <2> QED BY <2>6, <2>7, <2>8, <2>9 DEF PlaceInv
<1> QED BY <1>3, <1>4

-----------------------------------------------------------------------------
(* The steps *)

LEMMA WorkPlaces ==
    ASSUME Types, SlotInv, HandInv, PlaceInv, NEW t \in Tasks, Work(t) \/ TimerFires(t)
    PROVE  PlaceInv'
<1>t. /\ task[t] \in Workers /\ task \in [Tasks -> Workers] /\ queue \in [States -> Seq(Msgs)]
      /\ DOMAIN task[t] = {"pc", "st", "born", "hand", "cut"}
  BY DEF Types, Workers
<1>a. ASSUME task[t].pc \in Active
      PROVE  task[t].st \in States /\ queue[task[t].st] \in Seq(Msgs)
  BY <1>a, <1>t DEF SlotInv
<1>o. \A u \in Tasks \ {t} : task'[u] = task[u]
  BY <1>t DEF Work, Start, Get, Merge, TurnStart, TurnEnd, TimedOut, Cut, TimerFires, Finishes
<1>e. ASSUME task'[t].hand = {} \/ (task'[t].hand = task[t].hand /\ task[t].pc # "turn"
                                    /\ task'[t].pc # "turn"),
             UNCHANGED <<queue, fate>>
      PROVE  PlaceInv'
  <2>1. \A u \in Tasks : SameHand(u) BY <1>e, <1>o DEF SameHand
  <2> QED BY <1>e, <2>1, PlaceKept
<1>n. ASSUME task' = [task EXCEPT ![t] = NoTask] PROVE task'[t].hand = {}
  BY <1>n, <1>t DEF NoTask
<1>1. CASE Start(t)
  <2>1. CASE task' = [task EXCEPT ![t] = NoTask] BY <1>1, <1>e, <1>n, <2>1 DEF Start
  <2>2. CASE task' = [task EXCEPT ![t].pc = "get", ![t].st = current]
    <3>1. task'[t].hand = task[t].hand /\ task'[t].pc = "get" BY <1>t, <2>2
    <3> QED BY <1>1, <1>e, <3>1 DEF Start
  <2> QED BY <1>1, <2>1, <2>2 DEF Start
<1>2. CASE Get(t)
  <2> DEFINE s == task[t].st
  <2>1. s \in States /\ queue[s] \in Seq(Msgs) /\ queue[s] # <<>> /\ fate' = fate
    BY <1>2, <1>a DEF Get, Active
  <2>2. CASE mode[s]
    <3>1. /\ queue' = [queue EXCEPT ![s] = Tail(queue[s])] /\ task[t].pc = "get"
          /\ task'[t].hand = {Head(queue[s])} /\ task'[t].pc \in {"burst", "lock"}
      BY <1>2, <1>t, <2>2 DEF Get
    <3>2. /\ 1 \in 0..Len(queue[s]) /\ Len(Tail(queue[s])) = Len(queue[s]) - 1
          /\ \A i \in 1..Len(Tail(queue[s])) : Tail(queue[s])[i] = queue[s][1 + i]
          /\ Head(queue[s]) = queue[s][1]
      BY <2>1
    <3>3. task'[t].hand \subseteq task[t].hand \union {queue[s][i] : i \in 1..1}
      BY <3>1, <3>2
    <3>4. PICK d \in 0..Len(queue[s]) : d = 1 BY <3>2
    <3> DEFINE q == Tail(queue[s])
    <3>5. /\ queue' = [queue EXCEPT ![s] = q] /\ Len(q) = Len(queue[s]) - d
          /\ \A i \in 1..Len(q) : q[i] = queue[s][d + i]
          /\ task'[t].hand \subseteq task[t].hand \union {queue[s][i] : i \in 1..d}
          /\ task[t].pc # "turn" /\ task'[t].pc # "turn"
      BY <3>1, <3>2, <3>3, <3>4
    <3> HIDE DEF s, q
    <3> QED BY <1>o, <2>1, <3>5, PlaceTaken
  <2>3. CASE ~mode[s]
    <3>1. queue' = [queue EXCEPT ![s] = <<>>] /\ task' = [task EXCEPT ![t] = NoTask]
      BY <1>2, <2>3 DEF Get, Finishes
    <3>2. \A r \in States : queue'[r] = queue[r] \/ queue'[r] = <<>> BY <1>t, <3>1
    <3>3. \A u \in Tasks : SameHand(u) BY <1>n, <1>o, <3>1 DEF SameHand
    <3> QED BY <2>1, <3>2, <3>3, PlaceKept
  <2> QED BY <2>2, <2>3
<1>3. CASE Merge(t)
  <2> DEFINE s == task[t].st
  <2>1. s \in States /\ queue[s] \in Seq(Msgs) /\ fate' = fate /\ task[t].pc = "burst"
    BY <1>3, <1>a DEF Merge, Active
  <2>2. PICK n \in 0..Len(queue[s]) :
          /\ task' = [task EXCEPT ![t].pc = "lock", ![t].hand = Joined(task[t].hand, queue[s], n)]
          /\ queue' = [queue EXCEPT ![s] = SubSeq(queue[s], n + 1, Len(queue[s]))]
    BY <1>3 DEF Merge
  <2>3. /\ task'[t].pc = "lock"
        /\ task'[t].hand = task[t].hand \union {queue[s][i] : i \in 1..n}
    BY <1>t, <2>2 DEF Joined
  <2> DEFINE rest == SubSeq(queue[s], n + 1, Len(queue[s]))
  <2>4. Len(rest) = Len(queue[s]) - n /\ \A i \in 1..Len(rest) : rest[i] = queue[s][n + i]
    <3>1. Len(queue[s]) \in Nat /\ \A k \in 1..Len(queue[s]) : queue[s][k] \in Msgs
      BY <2>1, LenProperties, ElementOfSeq
    <3> QED BY <2>1, <3>1
  <2>5. queue' = [queue EXCEPT ![s] = rest] BY <2>2
  <2> HIDE DEF s, rest
  <2> QED BY <1>o, <2>1, <2>3, <2>4, <2>5, PlaceTaken
<1>4. CASE TurnStart(t)
  <2>1. /\ task[t].pc = "lock" /\ task'[t].pc = "turn" /\ task'[t].hand = task[t].hand
        /\ fate' = [m \in Msgs |-> IF m \in task[t].hand THEN "started" ELSE fate[m]]
        /\ queue' = queue
    BY <1>4, <1>t DEF TurnStart
  <2>2. \A u \in Tasks : task'[u].hand = task[u].hand /\ task[u].hand \subseteq Msgs
    BY <1>o, <1>t, <2>1 DEF Workers
  <2>3. QueuesWait'
    <3>1. \A s \in States : \A i \in 1..Len(queue[s]) : queue[s][i] \in Msgs
      BY <1>t, ElementOfSeq
    <3> QED BY <2>1, <2>2, <3>1 DEF PlaceInv, QueuesWait
  <2>4. HandsTell'
    <3> SUFFICES ASSUME NEW u \in Tasks, NEW m \in task'[u].hand
                 PROVE  fate'[m] = IF task'[u].pc = "turn" THEN "started" ELSE "queued"
      BY DEF HandsTell
    <3>1. m \in task[u].hand /\ m \in Msgs BY <2>2
    <3>2. CASE u = t BY <2>1, <3>1, <3>2
    <3>3. CASE u # t
      <4>1. m \notin task[t].hand BY <3>1, <3>3 DEF PlaceInv, HandsApart
      <4> QED BY <1>o, <2>1, <3>1, <3>3, <4>1 DEF PlaceInv, HandsTell
    <3> QED BY <3>2, <3>3
  <2> QED BY <2>1, <2>2, <2>3, <2>4 DEF PlaceInv, NoTwins, HandsApart
<1>5. CASE TurnEnd(t)
  <2>1. task'[t].hand = {} BY <1>5, <1>t DEF TurnEnd
  <2> QED BY <1>5, <1>e, <2>1 DEF TurnEnd
<1>6. CASE TimedOut(t) BY <1>6, <1>e, <1>n DEF TimedOut, Finishes
<1>7. CASE Cut(t) BY <1>7, <1>e, <1>n DEF Cut, Finishes
<1>8. CASE TimerFires(t)
  <2>1. task[t].pc = "get" /\ task'[t].pc = "expired" /\ task'[t].hand = task[t].hand
    BY <1>8, <1>t DEF TimerFires
  <2> QED BY <1>8, <1>e, <2>1 DEF TimerFires
<1> QED BY <1>1, <1>2, <1>3, <1>4, <1>5, <1>6, <1>7, <1>8 DEF Work

(* A cancelled worker keeps what it holds until its next step. *)
LEMMA CancelledPlaces ==
    ASSUME Types, NEW t \in Tasks \union {"none"}, task' = Cancelled(t)
    PROVE  \A u \in Tasks : SameHand(u)
BY DEF Cancelled, Types, Workers, SameHand

LEMMA ExitPlaces ==
    ASSUME Types, ExitMode
    PROVE  /\ \A u \in Tasks : SameHand(u)
           /\ \A s \in States : queue'[s] = queue[s] \/ queue'[s] = <<>>
<1>1. CASE InMode
  <2>1. slot[current] \in Tasks \union {"none"} BY <1>1 DEF InMode, Types
  <2> QED BY <1>1, <2>1, CancelledPlaces DEF ExitMode, Types
<1>2. CASE ~InMode BY <1>2 DEF ExitMode, SameHand
<1> QED BY <1>1, <1>2

LEMMA MessagePlaces ==
    ASSUME Types, PlaceInv, NEW m \in Msgs,
           Say(m) \/ Permit(m) \/ PermitAuto(m) \/ Deny(m) \/ Ask(m)
    PROVE  PlaceInv'
<1>c. current # "none" => current \in States /\ queue[current] \in Seq(Msgs) BY DEF Types
<1>s. UNCHANGED task => \A u \in Tasks : SameHand(u) BY DEF SameHand
<1>1. CASE Say(m) BY <1>1, <1>s, PlaceKept DEF Say, Types
<1>2. CASE Permit(m)
  <2>1. CASE current = "none" BY <1>2, <1>s, <2>1, PlaceKept DEF Permit, Types
  <2>2. CASE current # "none" BY <1>2, <1>c, <2>2, PlaceAdded DEF Permit
  <2> QED BY <2>1, <2>2
<1>3. CASE PermitAuto(m)
  <2>1. fate[m] \notin {"queued", "started"} BY <1>3 DEF PermitAuto
  <2>2. CASE InMode /\ Enqueue(m, current, queue[current])
    BY <1>c, <2>1, <2>2, PlaceAdded DEF InMode
  <2>3. ASSUME NEW s \in States, Enqueue(m, s, <<>>) PROVE PlaceInv'
    <3>1. <<>> \in Seq(Msgs) OBVIOUS
    <3> QED BY <2>1, <2>3, <3>1, PlaceAdded
  <2> QED BY <1>3, <2>2, <2>3 DEF PermitAuto
<1>4. CASE Deny(m)
  <2>1. \A k \in Msgs : fate[k] \in {"queued", "started"} => fate'[k] = fate[k]
    BY <1>4 DEF Deny, Types
  <2>2. CASE fate[m] = "asked" BY <1>4, <2>1, <2>2, ExitPlaces, PlaceKept DEF Deny
  <2>3. CASE fate[m] # "asked" BY <1>4, <1>s, <2>1, <2>3, PlaceKept DEF Deny
  <2> QED BY <2>2, <2>3
<1>5. CASE Ask(m)
  <2>1. CASE InMode BY <1>5, <1>c, <2>1, PlaceAdded DEF Ask, InMode
  <2>2. CASE ~InMode BY <1>5, <1>s, <2>2, PlaceKept DEF Ask, Types
  <2> QED BY <2>1, <2>2
<1> QED BY <1>1, <1>2, <1>3, <1>4, <1>5

LEMMA CommandPlaces ==
    ASSUME Types, PlaceInv, Enter \/ Exit \/ OnceStep \/ Reset \/ ResetStep \/ ResetFails
    PROVE  PlaceInv'
<1>f. fate' = fate
  BY DEF Enter, Exit, OnceStep, OnceTurn, OnceEnd, Reset, ResetStep, ResetStop, ResetStopped,
         ResetDone, ResetFails
<1>1. \A s \in States : queue'[s] = queue[s] \/ queue'[s] = <<>>
  BY ExitPlaces DEF Enter, Exit, OnceStep, OnceTurn, OnceEnd, Reset, ResetStep, ResetStop,
         ResetStopped, ResetDone, ResetFails, Types
<1>2. \A u \in Tasks : SameHand(u)
  <2>c. current # "none" => current \in States /\ slot[current] \in Tasks \union {"none"}
    BY DEF Types
  <2>1. CASE UNCHANGED task BY <2>1 DEF SameHand
  <2>2. CASE Enter BY <2>1, <2>2, EnsuredHands DEF Enter
  <2>3. CASE Exit BY <2>3, ExitPlaces DEF Exit
  <2>4. CASE ResetStop
    <3>1. CASE current = "none" \/ slot[current] = "none" BY <2>1, <2>4, <3>1 DEF ResetStop
    <3>2. CASE current # "none" /\ slot[current] # "none"
      BY <2>4, <2>c, <3>2, CancelledPlaces DEF ResetStop
    <3> QED BY <3>1, <3>2
  <2>5. CASE ResetDone BY <2>1, <2>5, <2>c, EnsuredHands DEF ResetDone, Restart, InMode
  <2>6. CASE OnceStep \/ Reset \/ ResetStopped \/ ResetFails
    BY <2>1, <2>6 DEF OnceStep, OnceTurn, OnceEnd, Reset, ResetStopped, ResetFails
  <2> QED BY <2>2, <2>3, <2>4, <2>5, <2>6 DEF ResetStep
<1> QED BY <1>1, <1>2, <1>f, PlaceKept

-----------------------------------------------------------------------------
(* The theorems *)

(* A message is never in two places: not twice in the queues of the        *)
(* states, the one of the entry and those left behind, and not in a queue  *)
(* or another hand while a worker, cancelled or not, still holds it.       *)
THEOREM OnePlace == Spec => []PlaceInv
<1>1. Init => HandInv /\ PlaceInv
  <2> SUFFICES ASSUME Init PROVE HandInv /\ PlaceInv OBVIOUS
  <2>1. /\ \A s \in States : Len(queue[s]) = 0
        /\ \A t \in Tasks : task[t].hand = {} /\ task[t].pc = "none"
    BY DEF Init, NoTask
  <2>2. 1..0 = {} OBVIOUS
  <2>3. HandInv BY <2>1 DEF HandInv
  <2>4. PlaceInv BY <2>1, <2>2 DEF PlaceInv, NoTwins, QueuesWait, HandsApart, HandsTell
  <2> QED BY <2>3, <2>4
<1>2. IInv /\ HandInv /\ PlaceInv /\ [Next]_vars => HandInv' /\ PlaceInv'
  <2> SUFFICES ASSUME IInv, HandInv, PlaceInv, [Next]_vars PROVE HandInv' /\ PlaceInv' OBVIOUS
  <2>1. Types /\ SlotInv BY DEF IInv
  <2>2. CASE Next
    BY <2>1, <2>2, WorkHands, MessageHands, CommandHands, WorkPlaces, MessagePlaces, CommandPlaces
       DEF Next
  <2>3. CASE UNCHANGED vars
    <3>1. \A t \in Tasks : task[t].hand \subseteq Msgs BY <2>1 DEF Types, Workers
    <3>2. \A u \in Tasks : SameHand(u) BY <2>3 DEF vars, SameHand
    <3> QED BY <2>1, <2>3, <3>1, <3>2, NothingLost, PlaceKept DEF vars
  <2> QED BY <2>2, <2>3
<1> QED BY <1>1, <1>2, Inductive, PTL DEF Spec

(* Whatever is reset, left, entered again, cancelled or timed out, a worker *)
(* starts a turn only with messages that were taken in and of which none    *)
(* has had a turn: no message is answered twice, and none after it was      *)
(* turned away.                                                             *)
THEOREM OneTurnEach ==
    Spec => [][\A t \in Tasks : task[t].pc # "turn" /\ task'[t].pc = "turn"
                => \A m \in task'[t].hand : fate[m] = "queued" /\ fate'[m] = "started"]_vars
<1> DEFINE A == \A t \in Tasks : task[t].pc # "turn" /\ task'[t].pc = "turn"
                  => \A m \in task'[t].hand : fate[m] = "queued" /\ fate'[m] = "started"
<1>1. IInv /\ PlaceInv /\ [Next]_vars => A
  <2> SUFFICES ASSUME IInv, PlaceInv, [Next]_vars, NEW t \in Tasks, task[t].pc # "turn",
                      task'[t].pc = "turn"
               PROVE  \A m \in task'[t].hand : fate[m] = "queued" /\ fate'[m] = "started"
    OBVIOUS
  <2>1. Types /\ SlotInv /\ task \in [Tasks -> Workers] BY DEF IInv, Types
  <2>e. ASSUME NEW s \in States, EnsureWorker(s) \/ task' = task PROVE FALSE
    <3>1. PICK u \in Tasks : task' = [task EXCEPT ![u] = [NoTask EXCEPT !.pc = "new", !.born = s]]
      BY <2>1, <2>e, EnsureWorkerDoes
    <3> QED BY <2>1, <3>1 DEF NoTask
  <2>x. ASSUME NEW u \in Tasks \union {"none"}, task' = Cancelled(u) PROVE FALSE
    BY <2>1, <2>x DEF Cancelled, Workers
  <2>c. current # "none" => current \in States /\ slot[current] \in Tasks \union {"none"}
    BY <2>1 DEF Types
  <2>q. ASSUME NEW m \in Msgs, NEW s \in States, NEW q, Enqueue(m, s, q) PROVE FALSE
    BY <2>e, <2>q DEF Enqueue
  <2>d. ASSUME ExitMode PROVE FALSE
    BY <2>c, <2>d, <2>x DEF ExitMode, InMode
  <2>2. ASSUME NEW m \in Msgs, Say(m) \/ Permit(m) \/ PermitAuto(m) \/ Deny(m) \/ Ask(m)
        PROVE  FALSE
    BY <2>2, <2>c, <2>d, <2>q DEF Say, Permit, PermitAuto, Deny, Ask, InMode
  <2>3. CASE Enter \/ Exit \/ OnceStep \/ Reset \/ ResetFails
    BY <2>3, <2>d, <2>e DEF Enter, Exit, OnceStep, OnceTurn, OnceEnd, Reset, ResetFails
  <2>4. CASE ResetStep
    BY <2>4, <2>c, <2>e, <2>x DEF ResetStep, ResetStop, ResetStopped, ResetDone, Restart, InMode
  <2>5. ASSUME NEW u \in Tasks, Work(u) \/ TimerFires(u) PROVE u = t /\ TurnStart(t)
    <3>1. u = t
      BY <2>1, <2>5 DEF Work, Start, Get, Merge, TurnStart, TurnEnd, TimedOut, Cut, TimerFires,
                        Finishes
    <3>2. \A p \in {"get", "burst", "lock", "none", "expired"} : task'[t].pc # p OBVIOUS
    <3>3. task[t] \in Workers /\ DOMAIN task[t] = {"pc", "st", "born", "hand", "cut"}
      BY <2>1 DEF Workers
    <3> QED
      BY <2>1, <2>5, <3>1, <3>2, <3>3
         DEF Work, Start, Get, Merge, TurnEnd, TimedOut, Cut, TimerFires, Finishes, NoTask
  <2>6. CASE TurnStart(t)
    <3>1. /\ task'[t].hand = task[t].hand /\ task[t].hand \subseteq Msgs
          /\ \A m \in task[t].hand : fate'[m] = "started"
      BY <2>1, <2>6 DEF TurnStart, Workers
    <3> QED BY <3>1 DEF PlaceInv, HandsTell
  <2>7. CASE UNCHANGED vars BY <2>7 DEF vars
  <2> QED BY <2>2, <2>3, <2>4, <2>5, <2>6, <2>7 DEF Next
<1>2. IInv /\ PlaceInv /\ [Next]_vars => [A]_vars BY <1>1
<1> QED BY <1>2, Inductive, OnePlace, PTL DEF Spec
================================================================================
