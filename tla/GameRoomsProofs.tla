---------------------------- MODULE GameRoomsProofs ----------------------------
(***************************************************************************)
(* Theorems about GameRooms for every set of users and groups and every    *)
(* number of games and commands: its variables keep their types, the four  *)
(* books about who plays where agree, an engine at work keeps its room,    *)
(* no user sits in two running games, and a room told to stop is waited    *)
(* for.  The last sections find the causes of what the runs find violated: *)
(* each property holds where one kind of step is left out.                 *)
(***************************************************************************)
EXTENDS GameRooms, TLAPS

(* A game that was opened has a group. *)
Placed == \A x \in Games : engine[x] # "none" => place[x] \in Groups

(* stop_game takes game.worker and cancels in one stretch, so an engine    *)
(* whose worker is gone is cancelled or already unwinding; nothing is      *)
(* asked of a game that was never opened.                                  *)
TaskInv ==
    \A x \in Games :
        /\ engine[x] \in {"ready", "signup", "play", "finish"} => worker[x] \/ cancelled[x]
        /\ engine[x] = "none" => ~cancelled[x] /\ asked[x] = 0 /\ ~stopping[x]

TypeInv == TypeOK /\ Placed

(* The inductive invariant. *)
IInv == TypeInv /\ TaskInv /\ LeasesAgree /\ EngineHasRoom

SameOpened == \A y \in Games : engine'[y] = "none" <=> engine[y] = "none"

-----------------------------------------------------------------------------
(* Lemmas about the operations on the books *)

(* Steps that touch none of the books keep them in agreement. *)
LEMMA BooksUntouched ==
    ASSUME TypeInv, LeasesAgree, SameOpened,
           UNCHANGED <<leases, games, index, kind, place, members>>
    PROVE  LeasesAgree'
  BY DEF LeasesAgree, GroupsAgree, UsersAgree, MembersAgree, Registered, SameOpened,
         TypeInv, TypeOK, leases

(* discard_game keeps the books in agreement, whether the game is still    *)
(* the one of its group or not.                                            *)
LEMMA DiscardAgrees ==
    ASSUME TypeInv, LeasesAgree, SameOpened, NEW x \in Games, engine[x] # "none",
           Discard(x), UNCHANGED <<kind, place, members>>
    PROVE  LeasesAgree'
  <1> DEFINE k == kind[x]
             g == place[x]
  <1>0. k \in Kinds /\ g \in Groups
    BY DEF TypeInv, TypeOK, Placed
  <1>1. CASE games[k][g] # x
    <2>1. UNCHANGED <<leases, games, index, kind, place, members>>
      BY <1>1 DEF Discard, leases
    <2> QED
      BY <2>1, BooksUntouched
  <1>2. CASE games[k][g] = x
    <2>1. groups[g] # NoLease /\ groups[g].kind = k /\ groups[g].group = g
      BY <1>0, <1>2 DEF LeasesAgree, GroupsAgree, Games, NoGame
    <2>2. /\ games' = [games EXCEPT ![k][g] = NoGame]
          /\ index' = [index EXCEPT ![k] = [u \in Users |-> IF @[u] = g THEN NoGroup ELSE @[u]]]
          /\ groups' = [groups EXCEPT ![g] = NoLease]
          /\ users' = [u \in Users |-> IF users[u] = groups[g] THEN NoLease ELSE users[u]]
      BY <1>2, <2>1 DEF Discard, ReleaseGame
    <2>3. GroupsAgree'
      <3> SUFFICES ASSUME NEW h \in Kinds, NEW b \in Groups
                   PROVE  IF games'[h][b] = NoGame
                          THEN groups'[b] = NoLease \/ groups'[b].kind # h
                          ELSE /\ groups'[b] # NoLease /\ groups'[b].kind = h /\ groups'[b].group = b
                               /\ engine'[games'[h][b]] # "none"
                               /\ kind'[games'[h][b]] = h /\ place'[games'[h][b]] = b
        BY DEF GroupsAgree
      <3>1. CASE b = g
        BY <1>0, <2>1, <2>2, <3>1 DEF GroupsAgree, LeasesAgree, TypeInv, TypeOK
      <3>2. CASE b # g
        BY <1>0, <2>2, <3>2 DEF GroupsAgree, LeasesAgree, SameOpened, TypeInv, TypeOK, Games, NoGame
      <3> QED
        BY <3>1, <3>2
    <2>4. UsersAgree'
      BY <1>0, <2>1, <2>2, RegistryAssumption, RoomsAssumption
         DEF UsersAgree, LeasesAgree, TypeInv, TypeOK, Leases
    <2>5. MembersAgree'
      <3> SUFFICES ASSUME NEW y \in Games, Registered(y)', NEW u \in Users
                   PROVE  (u \in members[y] <=> index[kind[y]][u] = place[y])'
        BY DEF MembersAgree
      <3>1. engine[y] # "none" /\ kind[y] \in Kinds /\ place[y] \in Groups
        BY DEF Registered, SameOpened, TypeInv, TypeOK, Placed
      <3>2. Registered(y) /\ ~(kind[y] = k /\ place[y] = g)
        BY <1>0, <2>2, <3>1 DEF Registered, TypeInv, TypeOK, Games, NoGame
      <3>3. index'[kind[y]][u] = place[y] <=> index[kind[y]][u] = place[y]
        BY <1>0, <2>2, <3>1, <3>2, RoomsAssumption DEF TypeInv, TypeOK
      <3> QED
        BY <3>2, <3>3 DEF LeasesAgree, MembersAgree
    <2> QED
      BY <2>3, <2>4, <2>5 DEF LeasesAgree
  <1> QED
    BY <1>1, <1>2

(* join_signup keeps the books in agreement. *)
LEMMA JoinAgrees ==
    ASSUME TypeInv, LeasesAgree, NEW x \in Games, NEW u \in Users,
           Registered(x), JoinSignup(x, u), UNCHANGED <<games, kind, place, engine>>
    PROVE  LeasesAgree'
  <1> DEFINE k == kind[x]
             g == place[x]
  <1>0. k \in Kinds /\ g \in Groups /\ games[k][g] = x
    BY DEF TypeInv, TypeOK, Placed, Registered
  <1>1. /\ groups[g] # NoLease /\ groups[g].kind = k /\ groups[g].group = g
        /\ users[u] = NoLease /\ index[k][u] = NoGroup
    BY <1>0 DEF JoinSignup, CanJoin, CanReserveUser, LeasesAgree, GroupsAgree, Games, NoGame
  <1>2. /\ users' = [users EXCEPT ![u] = groups[g]] /\ groups' = groups
        /\ index' = [index EXCEPT ![k][u] = g]
        /\ members' = [members EXCEPT ![x] = @ \cup {u}]
    BY DEF JoinSignup, ReserveUser
  <1>3. GroupsAgree'
    BY <1>2 DEF GroupsAgree, LeasesAgree
  <1>4. UsersAgree'
    BY <1>0, <1>1, <1>2, RegistryAssumption DEF UsersAgree, LeasesAgree, TypeInv, TypeOK, Leases
  <1>5. MembersAgree'
    <2> SUFFICES ASSUME NEW y \in Games, Registered(y)', NEW v \in Users
                 PROVE  (v \in members[y] <=> index[kind[y]][v] = place[y])'
      BY DEF MembersAgree
    <2>1. Registered(y) /\ kind[y] \in Kinds /\ place[y] \in Groups
      BY DEF Registered, TypeInv, TypeOK, Placed
    <2>2. y # x => ~(kind[y] = k /\ place[y] = g)
      BY <1>0, <2>1 DEF Registered
    <2>3. v \in members[y] <=> index[kind[y]][v] = place[y]
      BY <2>1 DEF LeasesAgree, MembersAgree
    <2> QED
      BY <1>0, <1>1, <1>2, <2>1, <2>2, <2>3, RoomsAssumption DEF TypeInv, TypeOK
  <1> QED
    BY <1>3, <1>4, <1>5 DEF LeasesAgree

(* leave_signup keeps the books in agreement. *)
LEMMA LeaveAgrees ==
    ASSUME TypeInv, LeasesAgree, SameOpened, NEW x \in Games, NEW u \in Users,
           Registered(x), LeaveSignup(x, u), UNCHANGED <<games, kind, place>>
    PROVE  LeasesAgree'
  <1> DEFINE k == kind[x]
             g == place[x]
  <1>0. k \in Kinds /\ g \in Groups /\ games[k][g] = x
    BY DEF TypeInv, TypeOK, Placed, Registered
  <1>1. /\ u \in members[x] /\ index[k][u] = g
        /\ users[u] # NoLease /\ users[u].kind = k /\ users[u].group = g
    BY <1>0, RoomsAssumption
       DEF LeaveSignup, LeasesAgree, MembersAgree, UsersAgree
  <1>2. /\ users' = [users EXCEPT ![u] = NoLease] /\ groups' = groups
        /\ index' = [index EXCEPT ![k][u] = NoGroup]
        /\ members' = [members EXCEPT ![x] = @ \ {u}]
    BY <1>0, <1>1 DEF LeaveSignup, ReleaseUser, TypeInv, TypeOK
  <1>3. GroupsAgree'
    BY <1>2 DEF GroupsAgree, LeasesAgree, SameOpened, TypeInv, TypeOK
  <1>4. UsersAgree'
    BY <1>0, <1>1, <1>2, RegistryAssumption DEF UsersAgree, LeasesAgree, TypeInv, TypeOK, Leases
  <1>5. MembersAgree'
    <2> SUFFICES ASSUME NEW y \in Games, Registered(y)', NEW v \in Users
                 PROVE  (v \in members[y] <=> index[kind[y]][v] = place[y])'
      BY DEF MembersAgree
    <2>1. Registered(y) /\ kind[y] \in Kinds /\ place[y] \in Groups
      BY DEF Registered, SameOpened, TypeInv, TypeOK, Placed
    <2>2. y # x => ~(kind[y] = k /\ place[y] = g)
      BY <1>0, <2>1 DEF Registered
    <2>3. v \in members[y] <=> index[kind[y]][v] = place[y]
      BY <2>1 DEF LeasesAgree, MembersAgree
    <2> QED
      BY <1>0, <1>1, <1>2, <2>1, <2>2, <2>3, RoomsAssumption DEF TypeInv, TypeOK
  <1> QED
    BY <1>3, <1>4, <1>5 DEF LeasesAgree

(* create_game keeps the books in agreement: the group and the host were   *)
(* free in all of them.                                                    *)
LEMMA OpenAgrees ==
    ASSUME TypeInv, LeasesAgree, NEW k \in Kinds, NEW g \in Groups, NEW u \in Humans,
           Open(k, g, u)
    PROVE  LeasesAgree'
  <1>0. PICK x \in Games :
            /\ engine[x] = "none"
            /\ games[k][g] = NoGame /\ index[k][u] = NoGroup
            /\ groups[g] = NoLease /\ users[u] = NoLease
            /\ groups' = [groups EXCEPT ![g] = Lease(k, g, u)]
            /\ users' = [users EXCEPT ![u] = Lease(k, g, u)]
            /\ games' = [games EXCEPT ![k][g] = x]
            /\ index' = [index EXCEPT ![k][u] = g]
            /\ kind' = [kind EXCEPT ![x] = k]
            /\ place' = [place EXCEPT ![x] = g]
            /\ members' = [members EXCEPT ![x] = {u}]
            /\ engine' = [engine EXCEPT ![x] = "ready"]
    BY DEF Open, CanReserveGame, ReserveGame
  <1>1. u \in Users /\ Lease(k, g, u) \in Leases /\ Lease(k, g, u) # NoLease
    BY RoomsAssumption, RegistryAssumption DEF Leases, Lease
  <1>2. \A h \in Kinds : games[h][g] = NoGame
    BY <1>0 DEF LeasesAgree, GroupsAgree, TypeInv, TypeOK, Games, NoGame
  <1>3. \A v \in Users : users[v] # NoLease => users[v].group # g
    BY <1>0 DEF LeasesAgree, UsersAgree
  <1>4. \A v \in Users : index[k][v] # g
    BY <1>3, RoomsAssumption DEF LeasesAgree, UsersAgree
  <1>5. GroupsAgree'
    BY <1>0, <1>1, <1>2 DEF GroupsAgree, LeasesAgree, Lease, TypeInv, TypeOK, Games, NoGame
  <1>6. UsersAgree'
    BY <1>0, <1>1, <1>3 DEF UsersAgree, LeasesAgree, Lease, TypeInv, TypeOK, Leases
  <1>7. MembersAgree'
    <2> SUFFICES ASSUME NEW y \in Games, Registered(y)', NEW v \in Users
                 PROVE  (v \in members[y] <=> index[kind[y]][v] = place[y])'
      BY DEF MembersAgree
    <2>1. CASE y = x
      BY <1>0, <1>1, <1>4, <2>1 DEF TypeInv, TypeOK
    <2>2. CASE y # x
      <3>1. Registered(y) /\ kind[y] \in Kinds /\ place[y] \in Groups /\ place[y] # g
        <4>1. kind'[y] = kind[y] /\ place'[y] = place[y] /\ engine'[y] = engine[y]
          BY <1>0, <2>2 DEF TypeInv, TypeOK
        <4>2. engine[y] # "none" /\ games'[kind[y]][place[y]] = y
          BY <4>1 DEF Registered
        <4>3. kind[y] \in Kinds /\ place[y] \in Groups
          BY <4>2 DEF TypeInv, TypeOK, Placed
        <4>4. ~(kind[y] = k /\ place[y] = g)
          BY <1>0, <2>2, <4>2, <4>3 DEF TypeInv, TypeOK
        <4>5. games[kind[y]][place[y]] = y
          BY <1>0, <4>2, <4>3, <4>4 DEF TypeInv, TypeOK
        <4>6. place[y] # g
          BY <1>2, <4>3, <4>5 DEF Games, NoGame
        <4> QED
          BY <4>2, <4>3, <4>5, <4>6 DEF Registered
      <3>2. v \in members[y] <=> index[kind[y]][v] = place[y]
        BY <3>1 DEF LeasesAgree, MembersAgree
      <3>3. members'[y] = members[y] /\ kind'[y] = kind[y] /\ place'[y] = place[y]
        BY <1>0, <2>2 DEF TypeInv, TypeOK
      <3>4. CASE kind[y] = k /\ v = u
        <4>1. index[kind[y]][v] = NoGroup /\ index'[kind[y]][v] = g
          BY <1>0, <3>4, <1>1 DEF TypeInv, TypeOK
        <4> QED
          BY <3>1, <3>2, <3>3, <4>1, RoomsAssumption
      <3>5. CASE ~(kind[y] = k /\ v = u)
        <4>1. index'[kind[y]][v] = index[kind[y]][v]
          BY <1>0, <3>1, <3>5 DEF TypeInv, TypeOK
        <4> QED
          BY <3>2, <3>3, <4>1
      <3> QED
        BY <3>4, <3>5
    <2> QED
      BY <2>1, <2>2
  <1> QED
    BY <1>5, <1>6, <1>7 DEF LeasesAgree

(* discard_game of one game leaves every other room standing. *)
LEMMA DiscardSparesOthers ==
    ASSUME TypeInv, NEW x \in Games, engine[x] # "none", Discard(x),
           UNCHANGED <<kind, place>>,
           NEW y \in Games, y # x, Registered(y), engine'[y] # "none"
    PROVE  Registered(y)'
  <1>1. /\ kind[x] \in Kinds /\ place[x] \in Groups
        /\ kind[y] \in Kinds /\ place[y] \in Groups
        /\ games[kind[y]][place[y]] = y
    BY DEF Registered, TypeInv, TypeOK, Placed
  <1>2. CASE games[kind[x]][place[x]] # x
    BY <1>1, <1>2 DEF Registered, Discard
  <1>3. CASE games[kind[x]][place[x]] = x
    <2>1. games' = [games EXCEPT ![kind[x]][place[x]] = NoGame]
      BY <1>3 DEF Discard
    <2>2. kind[y] # kind[x] \/ place[y] # place[x]
      BY <1>1, <1>3
    <2>3. games'[kind[y]][place[y]] = games[kind[y]][place[y]]
      BY <1>1, <2>1, <2>2 DEF TypeInv, TypeOK
    <2> QED
      BY <1>1, <2>3 DEF Registered
  <1> QED
    BY <1>2, <1>3

(* discard_game of a game leaves its room not standing. *)
LEMMA DiscardFrees ==
    ASSUME TypeInv, NEW x \in Games, engine[x] # "none", Discard(x), UNCHANGED <<kind, place>>
    PROVE  ~Registered(x)'
  <1>1. kind[x] \in Kinds /\ place[x] \in Groups /\ x # NoGame
    BY DEF TypeInv, TypeOK, Placed, Games, NoGame
  <1>2. \/ games' = games /\ games[kind[x]][place[x]] # x
        \/ games' = [games EXCEPT ![kind[x]][place[x]] = NoGame]
    BY DEF Discard
  <1> QED
    BY <1>1, <1>2 DEF Registered, TypeInv, TypeOK

-----------------------------------------------------------------------------
(* Type correctness *)

LEMMA InitTypes == Init => TypeInv
  BY RoomsAssumption
     DEF Init, RegistryInit, TypeInv, TypeOK, Placed, Games, NoGame, Kinds, Phases, EnginePc

(* What discard_game and the registry write has its type. *)
LEMMA DiscardTypes ==
    ASSUME TypeInv, NEW x \in Games, engine[x] # "none", Discard(x)
    PROVE  /\ groups' \in [Groups -> Leases \cup {NoLease}]
           /\ users' \in [Users -> Leases \cup {NoLease}]
           /\ games' \in [Kinds -> [Groups -> Games \cup {NoGame}]]
           /\ index' \in [Kinds -> [Users -> Groups \cup {NoGroup}]]
  <1>1. kind[x] \in Kinds /\ place[x] \in Groups
    BY DEF TypeInv, TypeOK, Placed
  <1> QED
    <2>1. CASE games[kind[x]][place[x]] # x
      BY <2>1 DEF Discard, leases, TypeInv, TypeOK
    <2>2. CASE games[kind[x]][place[x]] = x
      <3>1. /\ games' = [games EXCEPT ![kind[x]][place[x]] = NoGame]
            /\ index' = [index EXCEPT ![kind[x]] =
                           [u \in Users |-> IF @[u] = place[x] THEN NoGroup ELSE @[u]]]
            /\ ReleaseGame(kind[x], place[x])
        BY <2>2 DEF Discard
      <3>2. games' \in [Kinds -> [Groups -> Games \cup {NoGame}]]
        BY <1>1, <3>1 DEF TypeInv, TypeOK
      <3>3. index' \in [Kinds -> [Users -> Groups \cup {NoGroup}]]
        BY <1>1, <3>1 DEF TypeInv, TypeOK
      <3>4. /\ groups' \in [Groups -> Leases \cup {NoLease}]
            /\ users' \in [Users -> Leases \cup {NoLease}]
        BY <1>1, <3>1 DEF ReleaseGame, leases, TypeInv, TypeOK
      <3> QED
        BY <3>2, <3>3, <3>4
    <2> QED
      BY <2>1, <2>2

LEMMA NextTypes == TypeInv /\ TaskInv /\ [Next]_vars => TypeInv'
  <1> SUFFICES ASSUME TypeInv, TaskInv, [Next]_vars
               PROVE  TypeInv'
    OBVIOUS
  <1>1. ASSUME NEW k \in Kinds, NEW g \in Groups, NEW u \in Humans, Open(k, g, u)
        PROVE  TypeInv'
    <2>1. u \in Users /\ Lease(k, g, u) \in Leases
      BY RoomsAssumption DEF Leases, Lease
    <2> QED
      BY <1>1, <2>1 DEF Open, ReserveGame, stopped, TypeInv, TypeOK, Placed, Phases, EnginePc
  <1>2. ASSUME NEW x \in Games, NEW u \in Users, Join(x, u)
        PROVE  TypeInv'
    <2>1. kind[x] \in Kinds /\ place[x] \in Groups
      BY <1>2 DEF Join, TakesPlayers, Registered, TypeInv, TypeOK, Placed
    <2> QED
      BY <1>2, <2>1
         DEF Join, Give, JoinSignup, ReserveUser, tasks, TypeInv, TypeOK, Placed
  <1>3. ASSUME NEW x \in Games, NEW u \in Users, Leave(x, u)
        PROVE  TypeInv'
    <2>1. /\ groups' = groups
          /\ users' \in [Users -> Leases \cup {NoLease}]
          /\ index' \in [Kinds -> [Users -> Groups \cup {NoGroup}]]
          /\ members' \in [Games -> SUBSET Users]
          /\ given' \in Nat
      BY <1>3 DEF Leave, Give, LeaveSignup, ReleaseUser, TypeInv, TypeOK
    <2>2. host' \in [Games -> Humans \cup {NoUser}]
      BY <1>3 DEF Leave, HandOver, HumansLeft, TypeInv, TypeOK
    <2>3. phase' \in [Games -> Phases]
      BY <1>3 DEF Leave, TypeInv, TypeOK, Phases
    <2>4. asked' \in [Games -> Nat]
      <3>1. asked' = asked \/ asked' = [asked EXCEPT ![x] = @ + 1]
        BY <1>3 DEF Leave
      <3>2. asked \in [Games -> Nat]
        BY DEF TypeInv, TypeOK
      <3> QED
        BY <3>1, <3>2
    <2>5. /\ engine' \in [Games -> EnginePc]
          /\ \A y \in Games : engine'[y] # "none" => engine[y] # "none"
      BY <1>3 DEF Leave, TakesPlayers, Registered, TypeInv, TypeOK, EnginePc
    <2> QED
      BY <1>3, <2>1, <2>2, <2>3, <2>4, <2>5 DEF Leave, TypeInv, TypeOK, Placed
  <1>4. ASSUME NEW x \in Games, NEW u \in Users, RemoveBot(x, u)
        PROVE  TypeInv'
    BY <1>4 DEF RemoveBot, Give, LeaveSignup, ReleaseUser, tasks, TypeInv, TypeOK, Placed
  <1>5. ASSUME NEW x \in Games, NEW u \in Users, Kick(x, u)
        PROVE  TypeInv'
    <2>1. /\ groups' = groups
          /\ users' \in [Users -> Leases \cup {NoLease}]
          /\ index' \in [Kinds -> [Users -> Groups \cup {NoGroup}]]
          /\ members' \in [Games -> SUBSET Users] /\ kicked' \in [Games -> SUBSET Users]
          /\ given' \in Nat
      BY <1>5 DEF Kick, Give, LeaveSignup, ReleaseUser, TypeInv, TypeOK
    <2>2. host' \in [Games -> Humans \cup {NoUser}]
      BY <1>5 DEF Kick, HandOver, HumansLeft, TypeInv, TypeOK
    <2> QED
      BY <1>5, <2>1, <2>2 DEF Kick, tasks, TypeInv, TypeOK, Placed
  <1>6. ASSUME NEW x \in Games, AskStop(x)
        PROVE  TypeInv'
    BY <1>6 DEF AskStop, Give, leases, objects, tasks, TypeInv, TypeOK, Placed
  <1>7. ASSUME NEW x \in Games, StopBegins(x)
        PROVE  TypeInv'
    <2>1. engine[x] # "none"
      BY <1>7 DEF StopBegins, TaskInv
    <2>2. /\ groups' \in [Groups -> Leases \cup {NoLease}]
          /\ users' \in [Users -> Leases \cup {NoLease}]
          /\ games' \in [Kinds -> [Groups -> Games \cup {NoGame}]]
          /\ index' \in [Kinds -> [Users -> Groups \cup {NoGroup}]]
      BY <1>7, <2>1, DiscardTypes DEF StopBegins, leases, TypeInv, TypeOK
    <2>3. asked' \in [Games -> Nat]
      BY <1>7 DEF StopBegins, TypeInv, TypeOK
    <2>4. /\ phase' \in [Games -> Phases]
          /\ worker' \in [Games -> BOOLEAN]
      BY <1>7 DEF StopBegins, TypeInv, TypeOK, Phases
    <2>5. /\ cancelled' \in [Games -> BOOLEAN]
          /\ stopping' \in [Games -> BOOLEAN]
      BY <1>7, Zenon DEF StopBegins, TypeInv, TypeOK
    <2> QED
      BY <1>7, <2>2, <2>3, <2>4, <2>5 DEF StopBegins, TypeInv, TypeOK, Placed
  <1>8. ASSUME NEW x \in Games, StopEnds(x)
        PROVE  TypeInv'
    <2>1. engine[x] # "none"
      BY <1>8 DEF StopEnds
    <2> QED
      BY <1>8, <2>1, DiscardTypes DEF StopEnds, objects, tasks, TypeInv, TypeOK, Placed
  <1>9. ASSUME NEW x \in Games, EngineBoots(x) \/ EngineDeals(x) \/ EngineFinishes(x)
        PROVE  TypeInv'
    BY <1>9 DEF EngineBoots, EngineDeals, EngineFinishes, EngineGoes, leases, stopped,
                TypeInv, TypeOK, Placed, Phases, EnginePc
  <1>10. ASSUME NEW x \in Games, EngineMutes(x)
         PROVE  TypeInv'
    BY <1>10 DEF EngineMutes, leases, objects, tasks, stopped, TypeInv, TypeOK, Placed
  <1>11. ASSUME NEW x \in Games, EngineReturns(x) \/ EnginePersists(x)
         PROVE  TypeInv'
    <2>1. engine[x] # "none" /\ Unwind(x) /\ UNCHANGED <<cancelled, muted>>
      BY <1>11 DEF EngineReturns, EnginePersists
    <2>2. /\ groups' \in [Groups -> Leases \cup {NoLease}]
          /\ users' \in [Users -> Leases \cup {NoLease}]
          /\ games' \in [Kinds -> [Groups -> Games \cup {NoGame}]]
          /\ index' \in [Kinds -> [Users -> Groups \cup {NoGroup}]]
      BY <2>1, DiscardTypes DEF Unwind, leases, TypeInv, TypeOK
    <2>3. /\ engine' \in [Games -> EnginePc] /\ phase' \in [Games -> Phases]
          /\ \A y \in Games : engine'[y] # "none" => engine[y] # "none"
          /\ UNCHANGED <<kind, place, host, members, kicked, worker, stopped>>
      BY <2>1 DEF Unwind, EngineGoes, TypeInv, TypeOK, Phases, EnginePc
    <2> QED
      BY <2>1, <2>2, <2>3 DEF stopped, TypeInv, TypeOK, Placed
  <1>12. ASSUME NEW x \in Games, EngineCancelled(x)
         PROVE  TypeInv'
    BY <1>12 DEF EngineCancelled, EngineGoes, leases, stopped, TypeInv, TypeOK, Placed,
                 Phases, EnginePc
  <1>13. ASSUME NEW x \in Games, EngineCleansUp(x)
         PROVE  TypeInv'
    <2>1. engine[x] # "none" /\ Discard(x)
      BY <1>13 DEF EngineCleansUp
    <2> QED
      BY <1>13, <2>1, DiscardTypes
         DEF EngineCleansUp, EngineGoes, stopped, TypeInv, TypeOK, Placed, Phases, EnginePc
  <1>14. ASSUME NEW g \in Groups, Recover(g)
         PROVE  TypeInv'
    BY <1>14 DEF Recover, leases, objects, tasks, stopped, TypeInv, TypeOK, Placed
  <1>15. CASE UNCHANGED vars
    BY <1>15 DEF vars, leases, objects, tasks, stopped, TypeInv, TypeOK, Placed
  <1> QED
    BY <1>1, <1>2, <1>3, <1>4, <1>5, <1>6, <1>7, <1>8, <1>9, <1>10, <1>11, <1>12, <1>13,
       <1>14, <1>15
       DEF Next, StopStep, EngineRuns, EngineUnwinds

-----------------------------------------------------------------------------
(* The rest of the inductive invariant *)

LEMMA InitIInv == Init => IInv
  <1> SUFFICES ASSUME Init
               PROVE  IInv
    OBVIOUS
  <1>1. TypeInv
    BY InitTypes
  <1>2. TaskInv /\ EngineHasRoom
    BY DEF Init, TaskInv, EngineHasRoom, AtWork
  <1>3. LeasesAgree
    BY DEF Init, RegistryInit, LeasesAgree, GroupsAgree, UsersAgree, MembersAgree, Registered
  <1> QED
    BY <1>1, <1>2, <1>3 DEF IInv

LEMMA NextTasks == TypeInv /\ TaskInv /\ [Next]_vars => TaskInv'
  <1> SUFFICES ASSUME TypeInv, TaskInv, [Next]_vars
               PROVE  TaskInv'
    OBVIOUS
  <1>1. ASSUME NEW k \in Kinds, NEW g \in Groups, NEW u \in Humans, Open(k, g, u)
        PROVE  TaskInv'
    BY <1>1 DEF Open, stopped, TaskInv, TypeInv, TypeOK
  <1>2. ASSUME NEW x \in Games, NEW u \in Users,
               Join(x, u) \/ RemoveBot(x, u) \/ Kick(x, u)
        PROVE  TaskInv'
    BY <1>2 DEF Join, RemoveBot, Kick, tasks, TaskInv
  <1>3. ASSUME NEW x \in Games, NEW u \in Users, Leave(x, u)
        PROVE  TaskInv'
    <2>1. engine[x] # "none" /\ (~Werewolf(x) => engine[x] = "signup" /\ ~cancelled[x])
      BY <1>3 DEF Leave, TakesPlayers, Registered
    <2>2. /\ asked' = asked \/ asked' = [asked EXCEPT ![x] = @ + 1]
          /\ engine' = engine \/ (~Werewolf(x) /\ engine' = [engine EXCEPT ![x] = "finish"])
          /\ UNCHANGED <<worker, cancelled, stopping>>
      BY <1>3 DEF Leave
    <2> QED
      BY <2>1, <2>2 DEF TaskInv, TypeInv, TypeOK
  <1>4. ASSUME NEW x \in Games, AskStop(x)
        PROVE  TaskInv'
    BY <1>4 DEF AskStop, Registered, tasks, TaskInv, TypeInv, TypeOK
  <1>5. ASSUME NEW x \in Games, StopBegins(x)
        PROVE  TaskInv'
    <2>1. /\ engine[x] # "none" /\ engine' = engine
          /\ worker' = [worker EXCEPT ![x] = FALSE]
          /\ \A y \in Games : y # x => asked'[y] = asked[y]
      BY <1>5 DEF StopBegins, TaskInv, TypeInv, TypeOK
    <2>2. \/ /\ cancelled' = [cancelled EXCEPT ![x] = TRUE]
             /\ stopping' = [stopping EXCEPT ![x] = TRUE]
          \/ /\ ~worker[x] \/ engine[x] = "done"
             /\ UNCHANGED <<cancelled, stopping>>
      BY <1>5, Zenon DEF StopBegins
    <2>3. ASSUME NEW y \in Games
          PROVE  /\ engine'[y] \in {"ready", "signup", "play", "finish"} => worker'[y] \/ cancelled'[y]
                 /\ engine'[y] = "none" => ~cancelled'[y] /\ asked'[y] = 0 /\ ~stopping'[y]
      <3>1. CASE y = x
        BY <2>1, <2>2, <3>1 DEF TaskInv, TypeInv, TypeOK
      <3>2. CASE y # x
        BY <2>1, <2>2, <3>2 DEF TaskInv, TypeInv, TypeOK
      <3> QED
        BY <3>1, <3>2
    <2> QED
      BY <2>3 DEF TaskInv
  <1>6. ASSUME NEW x \in Games, StopEnds(x)
        PROVE  TaskInv'
    BY <1>6 DEF StopEnds, tasks, TaskInv, TypeInv, TypeOK
  <1>7. ASSUME NEW x \in Games, EngineBoots(x) \/ EngineDeals(x) \/ EngineFinishes(x)
        PROVE  TaskInv'
    BY <1>7 DEF EngineBoots, EngineDeals, EngineFinishes, EngineGoes, stopped,
                TaskInv, TypeInv, TypeOK
  <1>8. ASSUME NEW x \in Games, EngineMutes(x)
        PROVE  TaskInv'
    BY <1>8 DEF EngineMutes, tasks, stopped, TaskInv
  <1>9. ASSUME NEW x \in Games, EngineReturns(x) \/ EnginePersists(x)
        PROVE  TaskInv'
    <2>1. /\ engine[x] # "none" /\ UNCHANGED <<worker, cancelled, stopped>>
          /\ engine' = [engine EXCEPT ![x] = "cleanup"] \/ engine' = [engine EXCEPT ![x] = "done"]
      BY <1>9 DEF EngineReturns, EnginePersists, Unwind, EngineGoes
    <2> QED
      BY <2>1 DEF stopped, TaskInv, TypeInv, TypeOK
  <1>10. ASSUME NEW x \in Games, EngineCancelled(x)
         PROVE  TaskInv'
    <2>1. /\ cancelled' = [cancelled EXCEPT ![x] = FALSE] /\ UNCHANGED <<worker, stopped>>
          /\ \E pc \in {"done", "cleanup", "persist"} : engine' = [engine EXCEPT ![x] = pc]
      BY <1>10 DEF EngineCancelled, EngineGoes
    <2> QED
      BY <2>1 DEF stopped, TaskInv, TypeInv, TypeOK
  <1>11. ASSUME NEW x \in Games, EngineCleansUp(x)
         PROVE  TaskInv'
    BY <1>11 DEF EngineCleansUp, EngineGoes, stopped, TaskInv, TypeInv, TypeOK
  <1>12. ASSUME NEW g \in Groups, Recover(g)
         PROVE  TaskInv'
    BY <1>12 DEF Recover, tasks, stopped, TaskInv
  <1>13. CASE UNCHANGED vars
    BY <1>13 DEF vars, tasks, stopped, TaskInv
  <1> QED
    BY <1>1, <1>2, <1>3, <1>4, <1>5, <1>6, <1>7, <1>8, <1>9, <1>10, <1>11, <1>12, <1>13
       DEF Next, StopStep, EngineRuns, EngineUnwinds

LEMMA NextBooks == IInv /\ [Next]_vars => LeasesAgree'
  <1> SUFFICES ASSUME TypeInv, TaskInv, LeasesAgree, [Next]_vars
               PROVE  LeasesAgree'
    BY DEF IInv
  <1>1. ASSUME NEW k \in Kinds, NEW g \in Groups, NEW u \in Humans, Open(k, g, u)
        PROVE  LeasesAgree'
    BY <1>1, OpenAgrees
  <1>2. ASSUME NEW x \in Games, NEW u \in Users, Join(x, u)
        PROVE  LeasesAgree'
    BY <1>2, JoinAgrees DEF Join, TakesPlayers, tasks
  <1>3. ASSUME NEW x \in Games, NEW u \in Users, Leave(x, u)
        PROVE  LeasesAgree'
    <2>1. Registered(x) /\ LeaveSignup(x, u) /\ UNCHANGED <<games, kind, place>>
      BY <1>3 DEF Leave, TakesPlayers
    <2>2. engine' = engine \/ engine' = [engine EXCEPT ![x] = "finish"]
      BY <1>3 DEF Leave
    <2>3. SameOpened
      BY <2>1, <2>2 DEF SameOpened, Registered, TypeInv, TypeOK
    <2> QED
      BY <2>1, <2>3, LeaveAgrees
  <1>4. ASSUME NEW x \in Games, NEW u \in Users, RemoveBot(x, u) \/ Kick(x, u)
        PROVE  LeasesAgree'
    <2>1. Registered(x) /\ LeaveSignup(x, u) /\ UNCHANGED <<games, kind, place, engine>>
      BY <1>4 DEF RemoveBot, Kick, TakesPlayers, tasks
    <2> QED
      BY <2>1, LeaveAgrees DEF SameOpened
  <1>5. ASSUME NEW x \in Games, StopBegins(x)
        PROVE  LeasesAgree'
    <2>1. engine[x] # "none" /\ UNCHANGED <<kind, place, members, engine>>
      BY <1>5 DEF StopBegins, TaskInv
    <2>2. Discard(x) \/ UNCHANGED <<games, index, leases>>
      BY <1>5 DEF StopBegins
    <2> QED
      BY <2>1, <2>2, DiscardAgrees, BooksUntouched DEF SameOpened
  <1>6. ASSUME NEW x \in Games, StopEnds(x)
        PROVE  LeasesAgree'
    <2>1. engine[x] # "none" /\ Discard(x) /\ UNCHANGED <<kind, place, members, engine>>
      BY <1>6 DEF StopEnds, objects, tasks
    <2> QED
      BY <2>1, DiscardAgrees DEF SameOpened
  <1>7. ASSUME NEW x \in Games,
               EngineBoots(x) \/ EngineDeals(x) \/ EngineFinishes(x) \/ EngineCancelled(x)
        PROVE  LeasesAgree'
    <2>1. UNCHANGED <<leases, games, index, kind, place, members>>
      BY <1>7 DEF EngineBoots, EngineDeals, EngineFinishes, EngineCancelled, EngineGoes
    <2>2. /\ engine[x] # "none"
          /\ \E pc \in EnginePc \ {"none"} : engine' = [engine EXCEPT ![x] = pc]
      BY <1>7 DEF EngineBoots, EngineDeals, EngineFinishes, EngineCancelled, EngineGoes,
                  TaskInv, EnginePc
    <2>3. SameOpened
      BY <2>2 DEF SameOpened, TypeInv, TypeOK
    <2> QED
      BY <2>1, <2>3, BooksUntouched
  <1>8. ASSUME NEW x \in Games, EngineReturns(x) \/ EnginePersists(x) \/ EngineCleansUp(x)
        PROVE  LeasesAgree'
    <2>1. Discard(x) \/ UNCHANGED <<games, index, leases>>
      BY <1>8 DEF EngineReturns, EnginePersists, EngineCleansUp, Unwind
    <2>2. /\ engine[x] # "none" /\ UNCHANGED <<kind, place, members>>
          /\ \E pc \in EnginePc \ {"none"} : engine' = [engine EXCEPT ![x] = pc]
      BY <1>8 DEF EngineReturns, EnginePersists, EngineCleansUp, Unwind, EngineGoes, EnginePc
    <2>3. SameOpened
      BY <2>2 DEF SameOpened, TypeInv, TypeOK
    <2> QED
      BY <2>1, <2>2, <2>3, DiscardAgrees, BooksUntouched
  <1>9. ASSUME NEW x \in Games, AskStop(x) \/ EngineMutes(x)
        PROVE  LeasesAgree'
    <2>1. UNCHANGED <<leases, games, index, kind, place, members, engine>>
      BY <1>9 DEF AskStop, EngineMutes, objects, tasks
    <2> QED
      BY <2>1, BooksUntouched DEF SameOpened
  <1>10. ASSUME NEW g \in Groups, Recover(g)
         PROVE  LeasesAgree'
    BY <1>10, BooksUntouched DEF Recover, objects, tasks, SameOpened
  <1>11. CASE UNCHANGED vars
    BY <1>11, BooksUntouched DEF vars, objects, tasks, SameOpened
  <1> QED
    BY <1>1, <1>2, <1>3, <1>4, <1>5, <1>6, <1>7, <1>8, <1>9, <1>10, <1>11
       DEF Next, StopStep, EngineRuns, EngineUnwinds

LEMMA NextRooms == IInv /\ [Next]_vars => EngineHasRoom'
  <1> SUFFICES ASSUME TypeInv, TaskInv, EngineHasRoom, [Next]_vars,
                      NEW y \in Games, AtWork(y)'
               PROVE  Registered(y)'
    BY DEF IInv, EngineHasRoom
  <1>1. ASSUME NEW k \in Kinds, NEW g \in Groups, NEW u \in Humans, Open(k, g, u)
        PROVE  Registered(y)'
    <2>1. PICK x \in Games :
              /\ engine[x] = "none" /\ games[k][g] = NoGame
              /\ games' = [games EXCEPT ![k][g] = x]
              /\ kind' = [kind EXCEPT ![x] = k] /\ place' = [place EXCEPT ![x] = g]
              /\ engine' = [engine EXCEPT ![x] = "ready"] /\ UNCHANGED cancelled
      BY <1>1 DEF Open
    <2>2. CASE y = x
      BY <2>1, <2>2 DEF Registered, TypeInv, TypeOK
    <2>3. CASE y # x
      <3>1. /\ Registered(y) /\ kind[y] \in Kinds /\ place[y] \in Groups
            /\ engine'[y] = engine[y] /\ kind'[y] = kind[y] /\ place'[y] = place[y]
        BY <2>1, <2>3 DEF AtWork, EngineHasRoom, TypeInv, TypeOK, Placed
      <3>2. kind[y] # k \/ place[y] # g
        BY <2>1, <3>1 DEF Registered, Games, NoGame
      <3>3. games'[kind[y]][place[y]] = games[kind[y]][place[y]]
        BY <2>1, <3>1, <3>2 DEF TypeInv, TypeOK
      <3> QED
        BY <3>1, <3>3 DEF Registered
    <2> QED
      BY <2>2, <2>3
  <1>2. ASSUME UNCHANGED <<games, kind, place>>, AtWork(y), engine'[y] # "none"
        PROVE  Registered(y)'
    BY <1>2 DEF EngineHasRoom, Registered
  <1>3. ASSUME NEW x \in Games, y # x, engine[x] # "none", Discard(x),
               UNCHANGED <<kind, place>>, engine'[y] = engine[y], cancelled'[y] = cancelled[y]
        PROVE  Registered(y)'
    <2>1. AtWork(y) /\ engine'[y] # "none"
      BY <1>3 DEF AtWork
    <2> QED
      BY <1>3, <2>1, DiscardSparesOthers DEF EngineHasRoom
  <1>4. engine'[y] # "none"
    BY DEF AtWork
  <1>5. ASSUME NEW x \in Games, NEW u \in Users,
               Join(x, u) \/ RemoveBot(x, u) \/ Kick(x, u)
        PROVE  Registered(y)'
    BY <1>2, <1>4, <1>5 DEF Join, RemoveBot, Kick, tasks, AtWork
  <1>6. ASSUME NEW x \in Games, NEW u \in Users, Leave(x, u)
        PROVE  Registered(y)'
    <2>1. /\ UNCHANGED <<games, kind, place, cancelled>> /\ TakesPlayers(x)
          /\ engine' = engine \/ (~Werewolf(x) /\ engine' = [engine EXCEPT ![x] = "finish"])
      BY <1>6 DEF Leave
    <2>2. AtWork(y)
      BY <2>1 DEF AtWork, TakesPlayers, TypeInv, TypeOK
    <2> QED
      BY <1>2, <1>4, <2>1, <2>2
  <1>7. ASSUME NEW x \in Games, AskStop(x) \/ EngineMutes(x)
        PROVE  Registered(y)'
    BY <1>2, <1>4, <1>7 DEF AskStop, EngineMutes, objects, tasks, AtWork
  <1>8. ASSUME NEW x \in Games, StopBegins(x)
        PROVE  Registered(y)'
    <2>1. engine[x] # "none" /\ UNCHANGED <<kind, place, engine>>
      BY <1>8 DEF StopBegins, TaskInv
    <2>2. \/ cancelled' = [cancelled EXCEPT ![x] = TRUE] /\ UNCHANGED games
          \/ (~worker[x] \/ engine[x] = "done") /\ Discard(x) /\ UNCHANGED cancelled
      BY <1>8, Zenon DEF StopBegins
    <2>3. CASE y = x
      <3>1. AtWork(y) /\ UNCHANGED games
        BY <2>1, <2>2, <2>3 DEF AtWork, TaskInv, TypeInv, TypeOK
      <3> QED
        BY <1>2, <1>4, <2>1, <3>1
    <2>4. CASE y # x
      <3>1. cancelled'[y] = cancelled[y]
        BY <2>2, <2>4 DEF TypeInv, TypeOK
      <3> QED
        BY <1>2, <1>3, <1>4, <2>1, <2>2, <2>4, <3>1 DEF AtWork
    <2> QED
      BY <2>3, <2>4
  <1>9. ASSUME NEW x \in Games, StopEnds(x)
        PROVE  Registered(y)'
    <2>1. engine[x] = "done" /\ Discard(x) /\ UNCHANGED <<kind, place, engine, cancelled>>
      BY <1>9 DEF StopEnds, objects, tasks
    <2>2. y # x
      BY <2>1 DEF AtWork
    <2> QED
      BY <1>3, <2>1, <2>2
  <1>10. ASSUME NEW x \in Games, EngineBoots(x) \/ EngineDeals(x) \/ EngineFinishes(x)
         PROVE  Registered(y)'
    <2>1. /\ engine[x] \in {"ready", "signup", "play"} /\ ~cancelled[x]
          /\ \E pc \in {"signup", "play", "finish"} : engine' = [engine EXCEPT ![x] = pc]
          /\ UNCHANGED <<games, kind, place, cancelled>>
      BY <1>10 DEF EngineBoots, EngineDeals, EngineFinishes, EngineGoes
    <2>2. AtWork(y)
      BY <2>1 DEF AtWork, TypeInv, TypeOK
    <2> QED
      BY <1>2, <1>4, <2>1, <2>2
  <1>11. ASSUME NEW x \in Games, EngineReturns(x) \/ EnginePersists(x) \/ EngineCleansUp(x)
         PROVE  Registered(y)'
    <2>1. /\ engine[x] # "none" /\ UNCHANGED <<kind, place, cancelled>>
          /\ \E pc \in {"cleanup", "done"} : engine' = [engine EXCEPT ![x] = pc]
          /\ Discard(x) \/ UNCHANGED games
      BY <1>11 DEF EngineReturns, EnginePersists, EngineCleansUp, Unwind, EngineGoes
    <2>2. y # x
      BY <2>1 DEF AtWork, TypeInv, TypeOK
    <2>3. engine'[y] = engine[y]
      BY <2>1, <2>2 DEF TypeInv, TypeOK
    <2> QED
      BY <1>2, <1>3, <1>4, <2>1, <2>2, <2>3 DEF AtWork
  <1>12. ASSUME NEW x \in Games, EngineCancelled(x)
         PROVE  Registered(y)'
    <2>1. /\ UNCHANGED <<games, kind, place>>
          /\ cancelled' = [cancelled EXCEPT ![x] = FALSE]
          /\ \E pc \in {"done", "cleanup", "persist"} : engine' = [engine EXCEPT ![x] = pc]
      BY <1>12 DEF EngineCancelled, EngineGoes
    <2>2. AtWork(y)
      BY <2>1 DEF AtWork, TypeInv, TypeOK
    <2> QED
      BY <1>2, <1>4, <2>1, <2>2
  <1>13. ASSUME NEW g \in Groups, Recover(g)
         PROVE  Registered(y)'
    BY <1>2, <1>4, <1>13 DEF Recover, objects, tasks, AtWork
  <1>14. CASE UNCHANGED vars
    BY <1>2, <1>4, <1>14 DEF vars, objects, tasks, AtWork
  <1> QED
    BY <1>1, <1>5, <1>6, <1>7, <1>8, <1>9, <1>10, <1>11, <1>12, <1>13, <1>14
       DEF Next, StopStep, EngineRuns, EngineUnwinds

-----------------------------------------------------------------------------
(* Theorems *)

(* The invariant holds in every reachable state. *)
THEOREM Inductive == Spec => []IInv
  <1>1. IInv /\ [Next]_vars => IInv'
    BY NextTypes, NextTasks, NextBooks, NextRooms DEF IInv
  <1> QED
    BY InitIInv, <1>1, PTL DEF Spec

(* Every variable keeps its type; no machine player ever becomes host. *)
THEOREM TypeCorrect == Spec => []TypeOK
  <1>1. IInv => TypeOK
    BY DEF IInv, TypeInv
  <1> QED
    BY <1>1, Inductive, PTL

(* The registry, both _games, both _user_index and the lists of members    *)
(* agree, whatever commands and stops interleave.                          *)
THEOREM BooksAgree == Spec => []LeasesAgree
  <1>1. IInv => LeasesAgree
    BY DEF IInv
  <1> QED
    BY <1>1, Inductive, PTL

(* An engine at work keeps its room: no clean-up of an earlier game and no *)
(* repeated stop_game takes it away.                                       *)
THEOREM RoomsKept == Spec => []EngineHasRoom
  <1>1. IInv => EngineHasRoom
    BY DEF IInv
  <1> QED
    BY <1>1, Inductive, PTL

(* No user is dealt into two running games. *)
THEOREM SeatsUnique == Spec => []OneSeat
  <1>1. IInv => OneSeat
    <2> SUFFICES ASSUME IInv, NEW x \in Games, NEW y \in Games, x # y, AtWork(x), AtWork(y),
                        NEW u \in members[x], u \in members[y]
                 PROVE  FALSE
      BY DEF OneSeat
    <2>1. /\ Registered(x) /\ Registered(y) /\ u \in Users
          /\ kind[x] \in Kinds /\ kind[y] \in Kinds
          /\ place[x] \in Groups /\ place[y] \in Groups
      BY DEF IInv, EngineHasRoom, Registered, TypeInv, TypeOK, Placed
    <2>2. index[kind[x]][u] = place[x] /\ index[kind[y]][u] = place[y]
      BY <2>1 DEF IInv, LeasesAgree, MembersAgree
    <2>3. kind[x] = kind[y] /\ place[x] = place[y]
      BY <2>1, <2>2, RoomsAssumption DEF IInv, LeasesAgree, UsersAgree
    <2> QED
      BY <2>1, <2>3 DEF Registered
  <1> QED
    BY <1>1, Inductive, PTL

-----------------------------------------------------------------------------
(* Rooms that are told to stop *)

(* What is open stays what and where it is, and a room that stands after a *)
(* step stood before it.                                                   *)
LEMMA StillStanding ==
    ASSUME TypeInv, TaskInv, [Next]_vars, NEW y \in Games, engine[y] # "none"
    PROVE  kind'[y] = kind[y] /\ place'[y] = place[y] /\ (Registered(y)' => Registered(y))
  <1> DEFINE Same == kind'[y] = kind[y] /\ place'[y] = place[y]
  <1>0. kind[y] \in Kinds /\ place[y] \in Groups /\ y # NoGame
    BY DEF TypeInv, TypeOK, Placed, Games, NoGame
  <1>1. ASSUME UNCHANGED <<games, kind, place>>
        PROVE  Same /\ (Registered(y)' => Registered(y))
    BY <1>1 DEF Registered
  <1>2. ASSUME NEW x \in Games, engine[x] # "none", Discard(x), UNCHANGED <<kind, place>>
        PROVE  Same /\ (Registered(y)' => Registered(y))
    <2>1. kind[x] \in Kinds /\ place[x] \in Groups
      BY <1>2 DEF TypeInv, TypeOK, Placed
    <2>2. games' = games \/ games' = [games EXCEPT ![kind[x]][place[x]] = NoGame]
      BY <1>2 DEF Discard
    <2> QED
      BY <1>0, <1>2, <2>1, <2>2 DEF Registered, TypeInv, TypeOK
  <1>3. ASSUME NEW k \in Kinds, NEW g \in Groups, NEW u \in Humans, Open(k, g, u)
        PROVE  Same /\ (Registered(y)' => Registered(y))
    <2>1. PICK x \in Games :
              /\ engine[x] = "none" /\ games' = [games EXCEPT ![k][g] = x]
              /\ kind' = [kind EXCEPT ![x] = k] /\ place' = [place EXCEPT ![x] = g]
      BY <1>3 DEF Open
    <2>2. y # x
      BY <2>1
    <2>3. Same
      BY <2>1, <2>2 DEF TypeInv, TypeOK
    <2> QED
      BY <1>0, <2>1, <2>2, <2>3 DEF Registered, TypeInv, TypeOK
  <1>4. ASSUME NEW x \in Games, NEW u \in Users,
               Join(x, u) \/ Leave(x, u) \/ RemoveBot(x, u) \/ Kick(x, u)
        PROVE  UNCHANGED <<games, kind, place>>
    BY <1>4 DEF Join, Leave, RemoveBot, Kick
  <1>5. ASSUME NEW x \in Games,
               \/ AskStop(x) \/ EngineMutes(x) \/ EngineBoots(x) \/ EngineDeals(x)
               \/ EngineFinishes(x) \/ EngineCancelled(x)
        PROVE  UNCHANGED <<games, kind, place>>
    BY <1>5 DEF AskStop, EngineMutes, EngineBoots, EngineDeals, EngineFinishes, EngineCancelled,
                EngineGoes, objects
  <1>6. ASSUME NEW x \in Games, StopBegins(x)
        PROVE  Same /\ (Registered(y)' => Registered(y))
    <2>1. engine[x] # "none" /\ UNCHANGED <<kind, place>> /\ (Discard(x) \/ UNCHANGED games)
      BY <1>6 DEF StopBegins, TaskInv
    <2> QED
      BY <1>1, <1>2, <2>1
  <1>7. ASSUME NEW x \in Games,
               StopEnds(x) \/ EngineReturns(x) \/ EnginePersists(x) \/ EngineCleansUp(x)
        PROVE  Same /\ (Registered(y)' => Registered(y))
    <2>1. engine[x] # "none" /\ UNCHANGED <<kind, place>> /\ (Discard(x) \/ UNCHANGED games)
      BY <1>7 DEF StopEnds, EngineReturns, EnginePersists, EngineCleansUp, Unwind, EngineGoes, objects
    <2> QED
      BY <1>1, <1>2, <2>1
  <1>8. ASSUME NEW g \in Groups, Recover(g)
        PROVE  UNCHANGED <<games, kind, place>>
    BY <1>8 DEF Recover, objects
  <1>9. UNCHANGED vars => UNCHANGED <<games, kind, place>>
    BY DEF vars, objects
  <1> QED
    BY <1>1, <1>3, <1>4, <1>5, <1>6, <1>7, <1>8, <1>9
       DEF Next, StopStep, EngineRuns, EngineUnwinds

(* One stop_game takes game.worker, cancels the engine and waits for it; a *)
(* task that is cancelled is waited for, and what has ended without giving *)
(* its room back is waited for too.                                        *)
StopGuard(x) ==
    /\ cancelled[x] => stopping[x] /\ ~worker[x] /\ engine[x] # "done"
    /\ stopping[x] => ~worker[x] /\ (cancelled[x] \/ engine[x] \in {"cleanup", "persist", "done"})
    /\ engine[x] = "persist" => ~worker[x] /\ ~cancelled[x] /\ ~Werewolf(x)
    /\ Registered(x) /\ engine[x] = "done" => stopping[x]

StopInv == \A x \in Games : StopGuard(x)

LEMMA StopStepKept ==
    ASSUME TypeInv, TaskInv, StopInv, [Next]_vars
    PROVE  StopInv'
  <1> SUFFICES ASSUME NEW y \in Games
               PROVE  StopGuard(y)'
    BY DEF StopInv
  <1>0. StopGuard(y)
    BY DEF StopInv
  <1>1. CASE engine[y] = "none"
    <2>1. /\ ~cancelled[y] /\ ~stopping[y] /\ asked[y] = 0
      BY <1>1 DEF TaskInv
    <2>2. engine'[y] \in {"none", "ready"} /\ ~cancelled'[y] /\ ~stopping'[y]
      <3>1. ASSUME NEW k \in Kinds, NEW g \in Groups, NEW u \in Humans, Open(k, g, u)
            PROVE  engine'[y] \in {"none", "ready"} /\ UNCHANGED <<cancelled, stopping>>
        BY <1>1, <3>1 DEF Open, stopped, TypeInv, TypeOK
      <3>2. ASSUME NEW x \in Games, NEW u \in Users,
                   Join(x, u) \/ Leave(x, u) \/ RemoveBot(x, u) \/ Kick(x, u)
            PROVE  engine'[y] = engine[y] /\ UNCHANGED <<cancelled, stopping>>
        BY <1>1, <3>2 DEF Join, Leave, RemoveBot, Kick, TakesPlayers, Registered, tasks, TypeInv, TypeOK
      <3>3. ASSUME NEW x \in Games, StopBegins(x)
            PROVE  engine' = engine /\ cancelled'[y] = cancelled[y] /\ stopping'[y] = stopping[y]
        <4>1. y # x /\ engine' = engine
          BY <2>1, <3>3 DEF StopBegins
        <4>2. \/ UNCHANGED <<cancelled, stopping>>
              \/ cancelled' = [cancelled EXCEPT ![x] = TRUE] /\ stopping' = [stopping EXCEPT ![x] = TRUE]
          BY <3>3, Zenon DEF StopBegins
        <4> QED
          BY <4>1, <4>2 DEF TypeInv, TypeOK
      <3>4. ASSUME NEW x \in Games, AskStop(x) \/ StopEnds(x) \/ EngineMutes(x)
            PROVE  engine' = engine /\ cancelled' = cancelled /\ ~stopping'[y]
        BY <2>1, <3>4 DEF AskStop, StopEnds, EngineMutes, tasks, stopped, TypeInv, TypeOK
      <3>5. ASSUME NEW x \in Games,
                   \/ EngineBoots(x) \/ EngineDeals(x) \/ EngineFinishes(x) \/ EngineReturns(x)
                   \/ EngineCancelled(x) \/ EnginePersists(x) \/ EngineCleansUp(x)
            PROVE  engine'[y] = engine[y] /\ ~cancelled'[y] /\ ~stopping'[y]
        <4>1. engine[x] # "none"
          BY <3>5 DEF EngineBoots, EngineDeals, EngineFinishes, EngineReturns, EngineCancelled,
                      EnginePersists, EngineCleansUp
        <4>2. /\ \E pc \in EnginePc : engine' = [engine EXCEPT ![x] = pc]
              /\ stopping' = stopping
              /\ cancelled' = cancelled \/ cancelled' = [cancelled EXCEPT ![x] = FALSE]
          BY <3>5 DEF EngineBoots, EngineDeals, EngineFinishes, EngineReturns, EngineCancelled,
                      EnginePersists, EngineCleansUp, Unwind, EngineGoes, stopped, EnginePc
        <4> QED
          BY <1>1, <2>1, <4>1, <4>2 DEF TypeInv, TypeOK
      <3>6. ASSUME NEW g \in Groups, Recover(g)
            PROVE  UNCHANGED <<engine, cancelled, stopping>>
        BY <3>6 DEF Recover, tasks, stopped
      <3>7. UNCHANGED vars => UNCHANGED <<engine, cancelled, stopping>>
        BY DEF vars, tasks, stopped
      <3> QED
        BY <1>1, <2>1, <3>1, <3>2, <3>3, <3>4, <3>5, <3>6, <3>7
           DEF Next, StopStep, EngineRuns, EngineUnwinds
    <2> QED
      BY <2>2 DEF StopGuard
  <1>2. CASE engine[y] # "none"
    <2>0. kind'[y] = kind[y] /\ (Registered(y)' => Registered(y))
      BY <1>2, StillStanding
    <2>1. ASSUME engine'[y] = engine[y], cancelled'[y] = cancelled[y],
                 stopping'[y] = stopping[y], worker'[y] = worker[y]
          PROVE  StopGuard(y)'
      BY <1>0, <2>0, <2>1 DEF StopGuard, Werewolf
    <2>2. ASSUME NEW k \in Kinds, NEW g \in Groups, NEW u \in Humans, Open(k, g, u)
          PROVE  StopGuard(y)'
      BY <1>2, <2>1, <2>2 DEF Open, stopped, TypeInv, TypeOK
    <2>3. ASSUME NEW x \in Games, NEW u \in Users, Join(x, u) \/ RemoveBot(x, u) \/ Kick(x, u)
          PROVE  StopGuard(y)'
      BY <2>1, <2>3 DEF Join, RemoveBot, Kick, tasks
    <2>4. ASSUME NEW x \in Games, NEW u \in Users, Leave(x, u)
          PROVE  StopGuard(y)'
      <3>1. /\ UNCHANGED <<worker, cancelled, stopping>>
            /\ \/ engine' = engine
               \/ engine' = [engine EXCEPT ![x] = "finish"] /\ engine[x] = "signup" /\ ~cancelled[x]
        BY <2>4 DEF Leave, TakesPlayers
      <3>2. CASE y = x /\ engine[x] = "signup" /\ ~cancelled[x] /\ engine' = [engine EXCEPT ![x] = "finish"]
        BY <1>0, <3>1, <3>2 DEF StopGuard, TypeInv, TypeOK
      <3>3. CASE engine'[y] = engine[y]
        BY <2>1, <3>1, <3>3
      <3> QED
        BY <3>1, <3>2, <3>3 DEF TypeInv, TypeOK
    <2>5. ASSUME NEW x \in Games, AskStop(x) \/ EngineMutes(x)
          PROVE  StopGuard(y)'
      BY <2>1, <2>5 DEF AskStop, EngineMutes, tasks, stopped
    <2>6. ASSUME NEW x \in Games, StopBegins(x)
          PROVE  StopGuard(y)'
      <3>1. engine' = engine /\ worker' = [worker EXCEPT ![x] = FALSE] /\ engine[x] # "none"
        BY <2>6 DEF StopBegins, TaskInv
      <3>2. \/ /\ worker[x] /\ engine[x] # "done"
               /\ cancelled' = [cancelled EXCEPT ![x] = TRUE] /\ stopping' = [stopping EXCEPT ![x] = TRUE]
            \/ (~worker[x] \/ engine[x] = "done") /\ Discard(x) /\ UNCHANGED <<cancelled, stopping>>
        BY <2>6, Zenon DEF StopBegins
      <3>3. CASE y # x
        <4>1. cancelled'[y] = cancelled[y] /\ stopping'[y] = stopping[y] /\ worker'[y] = worker[y]
          BY <3>1, <3>2, <3>3 DEF TypeInv, TypeOK
        <4> QED
          BY <2>1, <3>1, <4>1
      <3>4. CASE y = x
        BY <1>0, <2>0, <3>1, <3>2, <3>4 DEF StopGuard, Werewolf, TypeInv, TypeOK
      <3> QED
        BY <3>3, <3>4
    <2>7. ASSUME NEW x \in Games, StopEnds(x)
          PROVE  StopGuard(y)'
      <3>1. /\ stopping[x] /\ engine[x] = "done" /\ stopping' = [stopping EXCEPT ![x] = FALSE]
            /\ Discard(x) /\ UNCHANGED <<engine, worker, cancelled, kind, place>>
        BY <2>7 DEF StopEnds, objects, tasks
      <3>2. CASE y # x
        BY <2>1, <3>1, <3>2 DEF TypeInv, TypeOK
      <3>3. CASE y = x
        <4>1. ~Registered(y)'
          BY <1>2, <3>1, <3>3, DiscardFrees
        <4> QED
          BY <1>0, <3>1, <3>3, <4>1 DEF StopGuard, TypeInv, TypeOK
      <3> QED
        BY <3>2, <3>3
    <2>8. ASSUME NEW x \in Games, EngineBoots(x) \/ EngineDeals(x) \/ EngineFinishes(x)
          PROVE  StopGuard(y)'
      <3>1. /\ engine[x] \in {"ready", "signup", "play"} /\ ~cancelled[x]
            /\ \E pc \in {"signup", "play", "finish"} : engine' = [engine EXCEPT ![x] = pc]
            /\ UNCHANGED <<worker, cancelled, stopping>>
        BY <2>8 DEF EngineBoots, EngineDeals, EngineFinishes, EngineGoes, stopped
      <3> QED
        BY <1>0, <2>1, <3>1 DEF StopGuard, TypeInv, TypeOK
    <2>9. ASSUME NEW x \in Games, EngineReturns(x) \/ EnginePersists(x) \/ EngineCleansUp(x)
          PROVE  StopGuard(y)'
      <3>1. /\ engine[x] \in {"ready", "signup", "play", "finish", "cleanup", "persist"}
            /\ engine[x] # "persist" => ~cancelled[x]
            /\ UNCHANGED <<worker, cancelled, stopping, kind, place>>
            /\ \/ engine' = [engine EXCEPT ![x] = "cleanup"] /\ Werewolf(x)
               \/ engine' = [engine EXCEPT ![x] = "done"] /\ Discard(x)
        BY <2>9 DEF EngineReturns, EnginePersists, EngineCleansUp, Unwind, EngineGoes, stopped
      <3>2. CASE y # x
        BY <2>1, <3>1, <3>2 DEF TypeInv, TypeOK
      <3>3. CASE y = x
        <4>1. ~cancelled[y] /\ (engine'[y] = "cleanup" \/ (engine'[y] = "done" /\ Discard(y)))
          BY <1>0, <3>1, <3>3 DEF StopGuard, TypeInv, TypeOK
        <4>2. engine'[y] = "done" => ~Registered(y)'
          BY <1>2, <3>1, <4>1, DiscardFrees
        <4> QED
          BY <1>0, <3>1, <4>1, <4>2 DEF StopGuard
      <3> QED
        BY <3>2, <3>3
    <2>10. ASSUME NEW x \in Games, EngineCancelled(x)
           PROVE  StopGuard(y)'
      <3>1. /\ cancelled[x] /\ cancelled' = [cancelled EXCEPT ![x] = FALSE]
            /\ UNCHANGED <<worker, stopping>>
            /\ \/ engine' = [engine EXCEPT ![x] = "done"]
               \/ engine' = [engine EXCEPT ![x] = "cleanup"]
               \/ engine' = [engine EXCEPT ![x] = "persist"] /\ ~Werewolf(x)
        BY <2>10 DEF EngineCancelled, EngineGoes, stopped
      <3>2. CASE y # x
        BY <2>1, <3>1, <3>2 DEF TypeInv, TypeOK
      <3>3. CASE y = x
        BY <1>0, <2>0, <3>1, <3>3 DEF StopGuard, Werewolf, TypeInv, TypeOK
      <3> QED
        BY <3>2, <3>3
    <2>11. ASSUME NEW g \in Groups, Recover(g)
           PROVE  StopGuard(y)'
      BY <2>1, <2>11 DEF Recover, tasks, stopped
    <2>12. CASE UNCHANGED vars
      BY <2>1, <2>12 DEF vars, tasks, stopped
    <2> QED
      BY <2>2, <2>3, <2>4, <2>5, <2>6, <2>7, <2>8, <2>9, <2>10, <2>11, <2>12
         DEF Next, StopStep, EngineRuns, EngineUnwinds
  <1> QED
    BY <1>1, <1>2

(* An engine that stop_game waits for is cancelled or on its way out, and  *)
(* an engine that ended without giving its room back is waited for: no     *)
(* room stands for ever behind an engine that is gone, the reason why a    *)
(* room that is told to stop is freed.                                     *)
THEOREM StopTakesHold ==
    Spec => [](\A x \in Games :
                 /\ stopping[x] => cancelled[x] \/ engine[x] \in {"cleanup", "persist", "done"}
                 /\ Registered(x) /\ engine[x] = "done" => stopping[x])
  <1>1. Init => StopInv
    BY DEF Init, StopInv, StopGuard, Registered
  <1>2. IInv /\ StopInv /\ [Next]_vars => StopInv'
    BY StopStepKept DEF IInv
  <1>3. StopInv => \A x \in Games :
                     /\ stopping[x] => cancelled[x] \/ engine[x] \in {"cleanup", "persist", "done"}
                     /\ Registered(x) /\ engine[x] = "done" => stopping[x]
    BY DEF StopInv, StopGuard
  <1> QED
    BY <1>1, <1>2, <1>3, Inductive, PTL DEF Spec

-----------------------------------------------------------------------------
(* What the disagreements found by the runs come from                      *)

(* An engine that has not started is still signing up, unless the last     *)
(* human left; a host who is not among the members was kicked.             *)
HostGuard(x) ==
    asked[x] = 0 =>
        /\ engine[x] = "ready" /\ ~cancelled[x] => phase[x] = "signup"
        /\ engine[x] # "none" /\ phase[x] = "signup" => host[x] \in members[x] \cup kicked[x]

HostInv == \A x \in Games : HostGuard(x)

LEMMA HostStep ==
    ASSUME TypeInv, TaskInv, HostInv, [Next]_vars
    PROVE  HostInv'
  <1> SUFFICES ASSUME NEW y \in Games
               PROVE  HostGuard(y)'
    BY DEF HostInv
  <1>0. HostGuard(y) /\ asked[y] \in Nat
    BY DEF HostInv, TypeInv, TypeOK
  <1>1. ASSUME /\ asked'[y] = asked[y] /\ engine'[y] = engine[y] /\ cancelled'[y] = cancelled[y]
               /\ phase'[y] = phase[y] /\ host'[y] = host[y]
               /\ members[y] \subseteq members'[y] /\ kicked[y] \subseteq kicked'[y]
        PROVE  HostGuard(y)'
    BY <1>0, <1>1 DEF HostGuard
  <1>2. ASSUME NEW k \in Kinds, NEW g \in Groups, NEW u \in Humans, Open(k, g, u)
        PROVE  HostGuard(y)'
    <2>1. PICK x \in Games :
              /\ host' = [host EXCEPT ![x] = u] /\ phase' = [phase EXCEPT ![x] = "signup"]
              /\ members' = [members EXCEPT ![x] = {u}] /\ engine' = [engine EXCEPT ![x] = "ready"]
              /\ UNCHANGED <<kicked, cancelled, asked>>
      BY <1>2 DEF Open, stopped
    <2>2. CASE y = x
      BY <2>1, <2>2 DEF HostGuard, TypeInv, TypeOK
    <2>3. CASE y # x
      BY <1>1, <2>1, <2>3 DEF TypeInv, TypeOK
    <2> QED
      BY <2>2, <2>3
  <1>3. ASSUME NEW x \in Games, NEW u \in Users, Join(x, u)
        PROVE  HostGuard(y)'
    BY <1>1, <1>3 DEF Join, JoinSignup, tasks, TypeInv, TypeOK
  <1>4. ASSUME NEW x \in Games, NEW u \in Users, Leave(x, u)
        PROVE  HostGuard(y)'
    <2>1. /\ TakesPlayers(x) /\ u \in members[x] /\ members' = [members EXCEPT ![x] = @ \ {u}]
          /\ UNCHANGED <<kicked, cancelled>>
      BY <1>4 DEF Leave, LeaveSignup
    <2>2. CASE HandOver(x, u) /\ UNCHANGED <<phase, engine, asked>>
      <3>1. PICK h \in members[x] \ {u} : host' = [host EXCEPT ![x] = IF @ = u THEN h ELSE @]
        BY <2>2 DEF HandOver, HumansLeft
      <3>2. CASE y = x
        BY <1>0, <2>1, <2>2, <3>1, <3>2 DEF HostGuard, TypeInv, TypeOK
      <3>3. CASE y # x
        BY <1>1, <2>1, <2>2, <3>1, <3>3 DEF TypeInv, TypeOK
      <3> QED
        BY <3>2, <3>3
    <2>3. CASE /\ phase' = [phase EXCEPT ![x] = "ended"] /\ host' = host
               /\ asked' = [asked EXCEPT ![x] = @ + 1] /\ engine' = engine
      <3>1. CASE y = x
        BY <1>0, <2>3, <3>1 DEF HostGuard, TypeInv, TypeOK
      <3>2. CASE y # x
        BY <1>1, <2>1, <2>3, <3>2 DEF TypeInv, TypeOK
      <3> QED
        BY <3>1, <3>2
    <2>4. CASE /\ phase' = [phase EXCEPT ![x] = "ended"] /\ host' = host
               /\ engine' = [engine EXCEPT ![x] = "finish"] /\ asked' = asked
      <3>1. CASE y = x
        BY <2>4, <3>1 DEF HostGuard, TypeInv, TypeOK
      <3>2. CASE y # x
        BY <1>1, <2>1, <2>4, <3>2 DEF TypeInv, TypeOK
      <3> QED
        BY <3>1, <3>2
    <2> QED
      BY <1>4, <2>2, <2>3, <2>4 DEF Leave
  <1>5. ASSUME NEW x \in Games, NEW u \in Users, RemoveBot(x, u)
        PROVE  HostGuard(y)'
    <2>1. /\ u \in Bots /\ members' = [members EXCEPT ![x] = @ \ {u}] /\ engine[x] # "none"
          /\ phase[x] = "signup" /\ UNCHANGED <<kicked, cancelled, asked, engine, phase, host>>
      BY <1>5 DEF RemoveBot, TakesPlayers, Registered, LeaveSignup, tasks
    <2>2. CASE y = x
      <3>1. host[x] \in members[x] \cup kicked[x] => host[x] # u
        <4>1. host[x] \in Humans \cup {NoUser} /\ members[x] \cup kicked[x] \subseteq Humans \cup Bots
          BY RoomsAssumption DEF TypeInv, TypeOK
        <4> QED
          BY <2>1, <4>1, RoomsAssumption
      <3> QED
        BY <1>0, <2>1, <2>2, <3>1 DEF HostGuard, TypeInv, TypeOK
    <2>3. CASE y # x
      BY <1>1, <2>1, <2>3 DEF TypeInv, TypeOK
    <2> QED
      BY <2>2, <2>3
  <1>6. ASSUME NEW x \in Games, NEW u \in Users, Kick(x, u)
        PROVE  HostGuard(y)'
    <2>1. /\ members' = [members EXCEPT ![x] = @ \ {u}] /\ kicked' = [kicked EXCEPT ![x] = @ \cup {u}]
          /\ UNCHANGED <<cancelled, asked, engine, phase>>
      BY <1>6 DEF Kick, LeaveSignup, tasks
    <2>2. host' = host \/ \E h \in members[x] \ {u} : host' = [host EXCEPT ![x] = IF @ = u THEN h ELSE @]
      BY <1>6 DEF Kick, HandOver, HumansLeft
    <2>3. CASE y = x
      BY <1>0, <2>1, <2>2, <2>3 DEF HostGuard, TypeInv, TypeOK
    <2>4. CASE y # x
      BY <1>1, <2>1, <2>2, <2>4 DEF TypeInv, TypeOK
    <2> QED
      BY <2>3, <2>4
  <1>7. ASSUME NEW x \in Games, AskStop(x)
        PROVE  HostGuard(y)'
    <2>1. asked' = [asked EXCEPT ![x] = @ + 1] /\ UNCHANGED <<objects, tasks>>
      BY <1>7 DEF AskStop
    <2>2. CASE y = x
      BY <1>0, <2>1, <2>2 DEF HostGuard, TypeInv, TypeOK
    <2>3. CASE y # x
      BY <1>1, <2>1, <2>3 DEF objects, tasks, TypeInv, TypeOK
    <2> QED
      BY <2>2, <2>3
  <1>8. ASSUME NEW x \in Games, StopBegins(x)
        PROVE  HostGuard(y)'
    <2>1. /\ asked' = [asked EXCEPT ![x] = @ - 1] /\ phase' = [phase EXCEPT ![x] = "ended"]
          /\ UNCHANGED <<host, members, kicked, engine>>
      BY <1>8 DEF StopBegins
    <2>2. \/ cancelled' = [cancelled EXCEPT ![x] = TRUE]
          \/ (~worker[x] \/ engine[x] = "done") /\ UNCHANGED cancelled
      BY <1>8, Zenon DEF StopBegins
    <2>3. CASE y = x
      <3>1. phase'[y] = "ended" /\ engine'[y] = engine[y]
        BY <2>1, <2>3 DEF TypeInv, TypeOK
      <3>2. engine[y] = "ready" => cancelled'[y]
        BY <2>2, <2>3 DEF TaskInv, TypeInv, TypeOK
      <3> QED
        BY <3>1, <3>2 DEF HostGuard
    <2>4. CASE y # x
      BY <1>1, <2>1, <2>2, <2>4 DEF TypeInv, TypeOK
    <2> QED
      BY <2>3, <2>4
  <1>9. ASSUME NEW x \in Games, StopEnds(x) \/ EngineMutes(x)
        PROVE  HostGuard(y)'
    BY <1>1, <1>9 DEF StopEnds, EngineMutes, objects, tasks, stopped
  <1>10. ASSUME NEW x \in Games, EngineBoots(x)
         PROVE  HostGuard(y)'
    <2>1. /\ engine[x] = "ready" /\ ~cancelled[x]
          /\ engine' = [engine EXCEPT ![x] = "signup"] /\ phase' = [phase EXCEPT ![x] = "signup"]
          /\ UNCHANGED <<host, members, kicked, cancelled, asked>>
      BY <1>10 DEF EngineBoots, EngineGoes, stopped
    <2>2. CASE y = x
      BY <1>0, <2>1, <2>2 DEF HostGuard, TypeInv, TypeOK
    <2>3. CASE y # x
      BY <1>1, <2>1, <2>3 DEF TypeInv, TypeOK
    <2> QED
      BY <2>2, <2>3
  <1>11. ASSUME NEW x \in Games,
                \/ EngineDeals(x) \/ EngineFinishes(x) \/ EngineReturns(x)
                \/ EngineCancelled(x) \/ EnginePersists(x) \/ EngineCleansUp(x)
         PROVE  HostGuard(y)'
    <2>1. /\ \E pc \in {"play", "finish", "cleanup", "persist", "done"} :
                engine' = [engine EXCEPT ![x] = pc]
          /\ \E ph \in {"play", "ended"} : phase' = [phase EXCEPT ![x] = ph]
          /\ \E b \in BOOLEAN : cancelled' = cancelled \/ cancelled' = [cancelled EXCEPT ![x] = b]
          /\ UNCHANGED <<host, members, kicked, asked>>
      BY <1>11 DEF EngineDeals, EngineFinishes, EngineReturns, EngineCancelled, EnginePersists,
                   EngineCleansUp, Unwind, EngineGoes, stopped
    <2>2. CASE y = x
      BY <2>1, <2>2 DEF HostGuard, TypeInv, TypeOK
    <2>3. CASE y # x
      BY <1>1, <2>1, <2>3 DEF TypeInv, TypeOK
    <2> QED
      BY <2>2, <2>3
  <1>12. ASSUME NEW g \in Groups, Recover(g)
         PROVE  HostGuard(y)'
    BY <1>1, <1>12 DEF Recover, objects, tasks, stopped
  <1>13. CASE UNCHANGED vars
    BY <1>1, <1>13 DEF vars, objects, tasks, stopped
  <1> QED
    BY <1>2, <1>3, <1>4, <1>5, <1>6, <1>7, <1>8, <1>9, <1>10, <1>11, <1>12, <1>13
       DEF Next, StopStep, EngineRuns, EngineUnwinds

(* Nothing but a kick takes the host away from a room that takes players   *)
(* and that nobody told to stop: leaving closes the room or hands it over. *)
THEOREM OnlyKicksLoseTheHost ==
    Spec => [](\A x \in Games :
                 Registered(x) /\ phase[x] = "signup" /\ asked[x] = 0
                     => host[x] \in members[x] \/ host[x] \in kicked[x])
  <1>1. Init => HostInv
    BY DEF Init, HostInv, HostGuard
  <1>2. IInv /\ HostInv /\ [Next]_vars => HostInv'
    BY HostStep DEF IInv
  <1>3. HostInv => \A x \in Games :
                     Registered(x) /\ phase[x] = "signup" /\ asked[x] = 0
                         => host[x] \in members[x] \/ host[x] \in kicked[x]
    BY DEF HostInv, HostGuard, Registered
  <1> QED
    BY <1>1, <1>2, <1>3, Inductive, PTL DEF Spec

(* As long as no room is handed over the registry knows every host.        *)
Keeps == \A x \in Games : engine[x] # "none" => host'[x] = host[x]

LEMMA KnownStep ==
    ASSUME TypeInv, TaskInv, LeasesAgree, RegistryKnowsHost, [Next]_vars, [Keeps]_vars
    PROVE  RegistryKnowsHost'
  <1>1. CASE UNCHANGED vars
    BY <1>1 DEF vars, leases, objects, RegistryKnowsHost, IsRoomHost
  <1>2. CASE Next /\ Keeps
    <2>1. ASSUME UNCHANGED <<groups, games>>
          PROVE  RegistryKnowsHost'
      BY <1>2, <2>1 DEF Keeps, RegistryKnowsHost, IsRoomHost, LeasesAgree, GroupsAgree, TypeInv, TypeOK
    <2>2. ASSUME NEW x \in Games, engine[x] # "none", Discard(x)
          PROVE  RegistryKnowsHost'
      <3>1. kind[x] \in Kinds /\ place[x] \in Groups
        BY <2>2 DEF TypeInv, TypeOK, Placed
      <3>2. CASE games[kind[x]][place[x]] # x
        BY <2>1, <2>2, <3>2 DEF Discard, leases
      <3>3. CASE games[kind[x]][place[x]] = x
        <4>1. groups[place[x]] # NoLease /\ groups[place[x]].kind = kind[x]
          BY <3>1, <3>3 DEF LeasesAgree, GroupsAgree, Games, NoGame
        <4>2. games' = [games EXCEPT ![kind[x]][place[x]] = NoGame]
              /\ groups' = [groups EXCEPT ![place[x]] = NoLease]
          BY <2>2, <3>3, <4>1 DEF Discard, ReleaseGame
        <4>3. ASSUME NEW k \in Kinds, NEW g \in Groups, games'[k][g] # NoGame
              PROVE  IsRoomHost(g, host[games[k][g]])'
          <5>1. ~(k = kind[x] /\ g = place[x]) /\ games'[k][g] = games[k][g]
            BY <3>1, <4>2, <4>3 DEF TypeInv, TypeOK
          <5>2. g # place[x]
            BY <3>1, <4>1, <4>3, <5>1 DEF LeasesAgree, GroupsAgree
          <5>3. IsRoomHost(g, host[games[k][g]]) /\ engine[games[k][g]] # "none"
                /\ games[k][g] \in Games /\ groups'[g] = groups[g]
            BY <4>2, <4>3, <5>1, <5>2 DEF RegistryKnowsHost, LeasesAgree, GroupsAgree, TypeInv, TypeOK
          <5> QED
            BY <1>2, <5>1, <5>3 DEF Keeps, IsRoomHost
        <4> QED
          BY <4>3 DEF RegistryKnowsHost
      <3> QED
        BY <3>2, <3>3
    <2>3. ASSUME NEW k \in Kinds, NEW g \in Groups, NEW u \in Humans, Open(k, g, u)
          PROVE  RegistryKnowsHost'
      <3>1. PICK x \in Games :
                /\ engine[x] = "none" /\ groups[g] = NoLease
                /\ groups' = [groups EXCEPT ![g] = Lease(k, g, u)]
                /\ games' = [games EXCEPT ![k][g] = x] /\ host' = [host EXCEPT ![x] = u]
        BY <2>3 DEF Open, CanReserveGame, ReserveGame
      <3>2. Lease(k, g, u) # NoLease /\ Lease(k, g, u).host = u
        BY RoomsAssumption, RegistryAssumption DEF Leases, Lease
      <3>3. ASSUME NEW l \in Kinds, NEW b \in Groups, games'[l][b] # NoGame
            PROVE  IsRoomHost(b, host[games[l][b]])'
        <4>1. CASE b = g /\ l = k
          BY <3>1, <3>2, <4>1 DEF IsRoomHost, TypeInv, TypeOK
        <4>2. CASE b = g /\ l # k
          BY <3>1, <3>3, <4>2 DEF LeasesAgree, GroupsAgree, TypeInv, TypeOK
        <4>3. CASE b # g
          <5>1. games'[l][b] = games[l][b] /\ groups'[b] = groups[b]
            BY <3>1, <4>3 DEF TypeInv, TypeOK
          <5>2. IsRoomHost(b, host[games[l][b]]) /\ engine[games[l][b]] # "none"
                /\ games[l][b] \in Games
            BY <3>3, <5>1 DEF RegistryKnowsHost, LeasesAgree, GroupsAgree, TypeInv, TypeOK
          <5> QED
            BY <1>2, <5>1, <5>2 DEF Keeps, IsRoomHost
        <4> QED
          BY <4>1, <4>2, <4>3
      <3> QED
        BY <3>3 DEF RegistryKnowsHost
    <2>4. ASSUME NEW x \in Games, NEW u \in Users,
                 Join(x, u) \/ Leave(x, u) \/ RemoveBot(x, u) \/ Kick(x, u)
          PROVE  UNCHANGED <<groups, games>>
      BY <2>4 DEF Join, Leave, RemoveBot, Kick, JoinSignup, LeaveSignup, ReserveUser, ReleaseUser
    <2>5. ASSUME NEW x \in Games,
                 \/ AskStop(x) \/ EngineMutes(x) \/ EngineBoots(x) \/ EngineDeals(x)
                 \/ EngineFinishes(x) \/ EngineCancelled(x)
          PROVE  UNCHANGED <<groups, games>>
      BY <2>5 DEF AskStop, EngineMutes, EngineBoots, EngineDeals, EngineFinishes, EngineCancelled,
                  leases
    <2>6. ASSUME NEW x \in Games,
                 \/ StopBegins(x) \/ StopEnds(x) \/ EngineReturns(x) \/ EnginePersists(x)
                 \/ EngineCleansUp(x)
          PROVE  engine[x] # "none" /\ (Discard(x) \/ UNCHANGED <<groups, games>>)
      BY <2>6 DEF StopBegins, StopEnds, EngineReturns, EnginePersists, EngineCleansUp, Unwind, TaskInv,
                  leases
    <2>7. ASSUME NEW g \in Groups, Recover(g)
          PROVE  UNCHANGED <<groups, games>>
      BY <2>7 DEF Recover, leases
    <2> QED
      BY <1>2, <2>1, <2>2, <2>3, <2>4, <2>5, <2>6, <2>7 DEF Next, StopStep, EngineRuns, EngineUnwinds
  <1> QED
    BY <1>1, <1>2

(* The registry forgets a host only because rooms are handed over.         *)
THEOREM OnlyHandOversMislead == Spec /\ [][Keeps]_vars => []RegistryKnowsHost
  <1>1. Init => RegistryKnowsHost
    BY DEF Init, RegistryKnowsHost
  <1>2. IInv /\ RegistryKnowsHost /\ [Next]_vars /\ [Keeps]_vars => RegistryKnowsHost'
    BY KnownStep DEF IInv
  <1> QED
    BY <1>1, <1>2, Inductive, PTL DEF Spec

(* No stop reaches an engine that is already in its finally. *)
Spared == \A x \in Games : engine[x] = "cleanup" /\ ~cancelled[x] => ~cancelled'[x]

(* A muted group has a werewolf engine that will lift it. *)
Lifts(x, g) == Werewolf(x) /\ place[x] = g /\ engine[x] \in {"play", "finish", "cleanup"}

MuteInv ==
    /\ \A g \in Groups : muted[g] => \E x \in Games : Lifts(x, g)
    /\ \A x \in Games : engine[x] = "cleanup" => ~cancelled[x]

LEMMA MuteStep ==
    ASSUME TypeInv, TaskInv, StopInv, MuteInv, [Next]_vars, [Spared]_vars
    PROVE  MuteInv'
  <1>0. CASE UNCHANGED vars
    BY <1>0 DEF vars, objects, tasks, MuteInv, Lifts, Werewolf
  <1>1. CASE Next /\ Spared
    <2>0. \A x \in Games, g \in Groups : Lifts(x, g) =>
             kind'[x] = kind[x] /\ place'[x] = place[x]
      BY StillStanding DEF Lifts
    <2>1. ASSUME muted' = muted,
                 \A x \in Games, g \in Groups : Lifts(x, g) => engine'[x] \in {"play", "finish", "cleanup"},
                 \A x \in Games : engine'[x] = "cleanup" => ~cancelled'[x]
          PROVE  MuteInv'
      BY <2>0, <2>1 DEF MuteInv, Lifts, Werewolf
    <2>2. ASSUME NEW k \in Kinds, NEW g \in Groups, NEW u \in Humans, Open(k, g, u)
          PROVE  MuteInv'
      <3>1. PICK x \in Games : engine[x] = "none" /\ engine' = [engine EXCEPT ![x] = "ready"]
                               /\ UNCHANGED <<cancelled, muted>>
        BY <2>2 DEF Open
      <3> QED
        BY <2>1, <3>1 DEF Lifts, MuteInv, TypeInv, TypeOK
    <2>3. ASSUME NEW x \in Games, NEW u \in Users,
                 Join(x, u) \/ Leave(x, u) \/ RemoveBot(x, u) \/ Kick(x, u)
          PROVE  MuteInv'
      <3>1. /\ UNCHANGED <<cancelled, muted>>
            /\ \/ engine' = engine
               \/ engine' = [engine EXCEPT ![x] = "finish"]
        BY <2>3 DEF Join, Leave, RemoveBot, Kick, tasks
      <3> QED
        BY <2>1, <3>1 DEF Lifts, MuteInv, TypeInv, TypeOK
    <2>4. ASSUME NEW x \in Games, AskStop(x) \/ StopEnds(x)
          PROVE  MuteInv'
      BY <2>1, <2>4 DEF AskStop, StopEnds, tasks, Lifts, MuteInv
    <2>5. ASSUME NEW x \in Games, StopBegins(x)
          PROVE  MuteInv'
      <3>1. UNCHANGED <<engine, muted>>
        BY <2>5 DEF StopBegins
      <3> QED
        BY <1>1, <2>1, <3>1 DEF Spared, Lifts, MuteInv
    <2>6. ASSUME NEW x \in Games, EngineBoots(x) \/ EngineDeals(x) \/ EngineFinishes(x)
          PROVE  MuteInv'
      <3>1. /\ UNCHANGED <<cancelled, muted>>
            /\ \/ engine' = [engine EXCEPT ![x] = "signup"] /\ engine[x] = "ready"
               \/ engine' = [engine EXCEPT ![x] = "play"]
               \/ engine' = [engine EXCEPT ![x] = "finish"]
        BY <2>6 DEF EngineBoots, EngineDeals, EngineFinishes, EngineGoes
      <3> QED
        BY <2>1, <3>1 DEF Lifts, MuteInv, TypeInv, TypeOK
    <2>7. ASSUME NEW x \in Games, EngineMutes(x)
          PROVE  MuteInv'
      <3>1. /\ engine[x] = "play" /\ Werewolf(x) /\ muted' = [muted EXCEPT ![place[x]] = TRUE]
            /\ UNCHANGED <<objects, tasks>>
        BY <2>7 DEF EngineMutes
      <3> QED
        BY <3>1 DEF MuteInv, Lifts, Werewolf, objects, tasks, TypeInv, TypeOK
    <2>8. ASSUME NEW x \in Games, EngineReturns(x) \/ EnginePersists(x)
          PROVE  MuteInv'
      <3>1. /\ UNCHANGED <<cancelled, muted>> /\ (engine[x] # "persist" => ~cancelled[x])
            /\ \/ engine' = [engine EXCEPT ![x] = "cleanup"] /\ Werewolf(x)
               \/ engine' = [engine EXCEPT ![x] = "done"] /\ ~Werewolf(x)
        BY <2>8 DEF EngineReturns, EnginePersists, Unwind, EngineGoes
      <3>2. ~cancelled[x]
        BY <3>1 DEF StopInv, StopGuard
      <3> QED
        BY <2>1, <3>1, <3>2 DEF Lifts, MuteInv, TypeInv, TypeOK
    <2>9. ASSUME NEW x \in Games, EngineCancelled(x)
          PROVE  MuteInv'
      <3>1. /\ cancelled[x] /\ cancelled' = [cancelled EXCEPT ![x] = FALSE] /\ muted' = muted
            /\ \/ engine[x] \in {"ready", "cleanup"} /\ engine' = [engine EXCEPT ![x] = "done"]
               \/ Werewolf(x) /\ engine' = [engine EXCEPT ![x] = "cleanup"]
               \/ ~Werewolf(x) /\ engine' = [engine EXCEPT ![x] = "persist"]
        BY <2>9 DEF EngineCancelled, EngineGoes
      <3>2. engine[x] # "cleanup"
        BY <3>1 DEF MuteInv
      <3> QED
        BY <2>1, <3>1, <3>2 DEF Lifts, MuteInv, TypeInv, TypeOK
    <2>10. ASSUME NEW x \in Games, EngineCleansUp(x)
           PROVE  MuteInv'
      <3>1. /\ engine[x] = "cleanup" /\ engine' = [engine EXCEPT ![x] = "done"]
            /\ muted' = [muted EXCEPT ![place[x]] = FALSE] /\ UNCHANGED <<cancelled, kind, place>>
            /\ place[x] \in Groups
        BY <2>10 DEF EngineCleansUp, EngineGoes, TypeInv, Placed
      <3>2. ASSUME NEW g \in Groups, muted'[g]
            PROVE  \E y \in Games : Lifts(y, g)'
        <4>1. g # place[x] /\ muted[g]
          BY <3>1, <3>2 DEF TypeInv, TypeOK
        <4>2. PICK y \in Games : Lifts(y, g)
          BY <4>1 DEF MuteInv
        <4> QED
          BY <3>1, <4>1, <4>2 DEF Lifts, Werewolf, TypeInv, TypeOK
      <3>3. \A y \in Games : engine'[y] = "cleanup" => ~cancelled'[y]
        BY <3>1 DEF MuteInv, TypeInv, TypeOK
      <3> QED
        BY <3>2, <3>3 DEF MuteInv
    <2>11. ASSUME NEW g \in Groups, Recover(g)
           PROVE  MuteInv'
      BY <2>11 DEF Recover, objects, tasks, MuteInv, Lifts, Werewolf, TypeInv, TypeOK
    <2> QED
      BY <1>1, <2>2, <2>3, <2>4, <2>5, <2>6, <2>7, <2>8, <2>9, <2>10, <2>11
         DEF Next, StopStep, EngineRuns, EngineUnwinds
  <1> QED
    BY <1>0, <1>1

(* A group stays muted only because a stop reached its engine in the       *)
(* finally.                                                                *)
THEOREM OnlyInterruptionsLeaveMuted == Spec /\ [][Spared]_vars => []NobodyLeftMuted
  <1>1. Init => StopInv /\ MuteInv
    BY DEF Init, StopInv, StopGuard, Registered, MuteInv
  <1>2. /\ IInv /\ StopInv /\ [Next]_vars => StopInv'
        /\ IInv /\ StopInv /\ MuteInv /\ [Next]_vars /\ [Spared]_vars => MuteInv'
    BY StopStepKept, MuteStep DEF IInv
  <1>3. MuteInv => NobodyLeftMuted
    BY DEF MuteInv, Lifts, NobodyLeftMuted
  <1> QED
    BY <1>1, <1>2, <1>3, Inductive, PTL DEF Spec
=============================================================================
