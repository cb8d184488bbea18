------------------------------- MODULE GameRooms -------------------------------
(***************************************************************************)
(* The life of a game room (yawn_werewolf and yawn_rpg: state.py, the room *)
(* commands, run_game of the engines).  A room is a Game object, an entry  *)
(* of _games, entries of _user_index, leases of the shared registry, and   *)
(* an engine task; stop_game, which commands and the admin panel spawn,    *)
(* cancels that task, possibly while it is already on its way out.         *)
(*                                                                         *)
(* One step is one stretch of code between two awaits.  How a game is      *)
(* played is left open: an engine that plays may end at any time.          *)
(***************************************************************************)
EXTENDS Integers, FiniteSets, GameRegistry

CONSTANTS
    Humans,   \* members of the groups
    Bots,     \* ids of machine players, which only werewolf has
    NoUser,   \* host of a Game object not created yet
    NoGroup,  \* no entry in _user_index
    MaxGames, \* bound: Game objects ever created
    MaxCommands \* bound: commands given to all the games after they are opened

Games  == 1..MaxGames
NoGame == 0

ASSUME RoomsAssumption ==
    /\ Users = Humans \cup Bots /\ Humans \cap Bots = {}
    /\ NoGroup \notin Groups /\ NoUser \notin Users
    /\ MaxGames \in Nat \ {0} /\ MaxCommands \in Nat

VARIABLES
    games,     \* _games of each kind: the game a group has
    index,     \* _user_index of each kind: the group a user plays in
    kind, place, host, phase, members, kicked, \* of each Game object
    worker,    \* game.worker is set
    engine,    \* where the engine task is
    cancelled, \* the task was cancelled and has not noticed yet
    asked,     \* stop_game coroutines spawned and not yet run
    stopping,  \* a stop_game waits for the engine
    given,     \* commands given so far
    muted      \* members of the group are muted by a game

objects == <<kind, place, host, phase, members, kicked>>
tasks   == <<worker, engine, cancelled>>
stopped == <<asked, stopping, given>>
vars    == <<leases, games, index, objects, tasks, stopped, muted>>

Phases == {"none", "signup", "play", "ended"}
EnginePc == {"none", "ready", "signup", "play", "finish", "persist", "cleanup", "done"}

Registered(x) == engine[x] # "none" /\ games[kind[x]][place[x]] = x

Werewolf(x) == kind[x] = "werewolf"

-----------------------------------------------------------------------------
(* state.py *)

(* create_game and the create_task that follows it in the same stretch. *)
Open(k, g, u) ==
    \E x \in Games :
        /\ engine[x] = "none" /\ \A y \in Games : y < x => engine[y] # "none"
        /\ games[k][g] = NoGame /\ index[k][u] = NoGroup
        /\ CanReserveGame(g, u)
        /\ ReserveGame(k, g, u)
        /\ games' = [games EXCEPT ![k][g] = x]
        /\ index' = [index EXCEPT ![k][u] = g]
        /\ kind' = [kind EXCEPT ![x] = k]
        /\ place' = [place EXCEPT ![x] = g]
        /\ host' = [host EXCEPT ![x] = u]
        /\ phase' = [phase EXCEPT ![x] = "signup"]
        /\ members' = [members EXCEPT ![x] = {u}]
        /\ worker' = [worker EXCEPT ![x] = TRUE]
        /\ engine' = [engine EXCEPT ![x] = "ready"]
        /\ UNCHANGED <<kicked, cancelled, stopped, muted>>

(* join_signup *)
CanJoin(x, u) ==
    /\ index[kind[x]][u] = NoGroup /\ u \notin members[x] /\ u \notin kicked[x]
    /\ CanReserveUser(kind[x], place[x], u)

JoinSignup(x, u) ==
    /\ CanJoin(x, u)
    /\ ReserveUser(place[x], u)
    /\ index' = [index EXCEPT ![kind[x]][u] = place[x]]
    /\ members' = [members EXCEPT ![x] = @ \cup {u}]

(* leave_signup *)
LeaveSignup(x, u) ==
    /\ u \in members[x]
    /\ members' = [members EXCEPT ![x] = @ \ {u}]
    /\ index' = [index EXCEPT ![kind[x]][u] = IF @ = place[x] THEN NoGroup ELSE @]
    /\ ReleaseUser(kind[x], place[x], u)

(* discard_game: only what still belongs to this game. *)
\* Mutation: whatever game the group has now is removed.
DiscardAny(x) ==
    LET k == kind[x]
        g == place[x]
    IN  /\ games' = [games EXCEPT ![k][g] = NoGame]
        /\ index' = [index EXCEPT ![k] = [u \in Users |-> IF @[u] = g THEN NoGroup ELSE @[u]]]
        /\ ReleaseGame(k, g)

Discard(x) ==
    LET k == kind[x]
        g == place[x]
    IN  IF games[k][g] = x
        THEN /\ games' = [games EXCEPT ![k][g] = NoGame]
             /\ index' = [index EXCEPT ![k] =
                            [u \in Users |-> IF @[u] = g THEN NoGroup ELSE @[u]]]
             /\ ReleaseGame(k, g)
        ELSE UNCHANGED <<games, index, leases>>

(* stop_game up to its await, or to its end when there is nothing to await *)
StopBegins(x) ==
    /\ asked[x] > 0
    /\ asked' = [asked EXCEPT ![x] = @ - 1]
    /\ phase' = [phase EXCEPT ![x] = "ended"]
    /\ worker' = [worker EXCEPT ![x] = FALSE]
    /\ IF worker[x] /\ engine[x] # "done"
       THEN /\ cancelled' = [cancelled EXCEPT ![x] = TRUE]
            /\ stopping' = [stopping EXCEPT ![x] = TRUE]
            /\ UNCHANGED <<games, index, leases>>
       ELSE Discard(x) /\ UNCHANGED <<cancelled, stopping>>
    /\ UNCHANGED <<kind, place, host, members, kicked, engine, given, muted>>

(* The rest of stop_game: the engine task has ended; one that was          *)
(* cancelled before it ever ran has not discarded the game.                *)
\* Mutation: the engine is trusted to have done it.
StopEndsTrusting(x) ==
    /\ stopping[x] /\ engine[x] = "done"
    /\ stopping' = [stopping EXCEPT ![x] = FALSE]
    /\ UNCHANGED <<games, index, leases, objects, tasks, asked, given, muted>>

StopEnds(x) ==
    /\ stopping[x] /\ engine[x] = "done"
    /\ stopping' = [stopping EXCEPT ![x] = FALSE]
    /\ Discard(x)
    /\ UNCHANGED <<objects, tasks, asked, given, muted>>

StopStep(x) == StopBegins(x) \/ StopEnds(x)

-----------------------------------------------------------------------------
(* The commands of a room that takes players.  Werewolf changes the room   *)
(* in the command itself, tabletop in the engine that reads its queue.     *)

TakesPlayers(x) ==
    /\ Registered(x) /\ phase[x] = "signup"
    /\ Werewolf(x) \/ (engine[x] = "signup" /\ ~cancelled[x])

Give == given < MaxCommands /\ given' = given + 1

(* /报名, /添加AI and the machine players that fill up a start. *)
Join(x, u) ==
    /\ TakesPlayers(x)
    /\ u \in Bots => Werewolf(x)
    /\ Give /\ JoinSignup(x, u)
    /\ UNCHANGED <<games, kind, place, host, phase, kicked, tasks, asked, stopping, muted>>

HumansLeft(x, u) == (members[x] \ {u}) \cap Humans

(* The host's place goes to a human who is left; the code takes the one    *)
(* who signed up first.                                                    *)
\* Mutation: it goes to any member.
HandOverToAny(x, u) ==
    \E h \in members[x] \ {u} : host' = [host EXCEPT ![x] = IF @ = u THEN h ELSE @]

HandOver(x, u) ==
    \E h \in HumansLeft(x, u) : host' = [host EXCEPT ![x] = IF @ = u THEN h ELSE @]

(* /退报名: the last human closes the room. *)
Leave(x, u) ==
    /\ TakesPlayers(x) /\ u \in Humans
    /\ Give /\ LeaveSignup(x, u)
    /\ IF HumansLeft(x, u) # {}
       THEN HandOver(x, u) /\ UNCHANGED <<phase, engine, asked>>
       ELSE /\ phase' = [phase EXCEPT ![x] = "ended"]
            /\ IF Werewolf(x)
               THEN asked' = [asked EXCEPT ![x] = @ + 1] /\ UNCHANGED engine
               ELSE engine' = [engine EXCEPT ![x] = "finish"] /\ UNCHANGED asked
            /\ UNCHANGED host
    /\ UNCHANGED <<games, kind, place, kicked, worker, cancelled, stopping, muted>>

(* /移除AI, and /踢出 of a machine player *)
RemoveBot(x, u) ==
    /\ TakesPlayers(x) /\ Werewolf(x) /\ u \in Bots
    /\ Give /\ LeaveSignup(x, u)
    /\ UNCHANGED <<games, kind, place, host, phase, kicked, tasks, asked, stopping, muted>>

(* /踢出 by the host, or by an administrator who need not play. *)
Kick(x, u) ==
    /\ TakesPlayers(x) /\ Werewolf(x) /\ u \in Humans
    /\ Give /\ LeaveSignup(x, u)
    /\ kicked' = [kicked EXCEPT ![x] = @ \cup {u}]
    /\ IF HumansLeft(x, u) # {} THEN HandOver(x, u) ELSE UNCHANGED host
    /\ UNCHANGED <<games, kind, place, phase, tasks, asked, stopping, muted>>

(* /结束游戏, the admin panel and the shutdown hook spawn stop_game. *)
AskStop(x) ==
    /\ Registered(x)
    /\ Give
    /\ asked' = [asked EXCEPT ![x] = @ + 1]
    /\ UNCHANGED <<leases, games, index, objects, tasks, stopping, muted>>

(* /结束游戏 where no werewolf game is: unban_all_members. *)
Recover(g) ==
    /\ games["werewolf"][g] = NoGame
    /\ muted[g] /\ muted' = [muted EXCEPT ![g] = FALSE]
    /\ UNCHANGED <<leases, games, index, objects, tasks, stopped>>

-----------------------------------------------------------------------------
(* The engine task, run_game *)

EngineGoes(x, pc, ph) ==
    /\ engine' = [engine EXCEPT ![x] = pc]
    /\ phase' = [phase EXCEPT ![x] = ph]
    /\ UNCHANGED <<kind, place, host, members, kicked, worker, stopped>>

(* Its first stretch; without a chat connection it returns at once, which  *)
(* EngineReturns covers.                                                   *)
EngineBoots(x) ==
    /\ engine[x] = "ready" /\ ~cancelled[x]
    /\ EngineGoes(x, "signup", "signup")
    /\ UNCHANGED <<leases, games, index, cancelled, muted>>

(* Signing up is over and the players suffice. *)
EngineDeals(x) ==
    /\ engine[x] = "signup" /\ ~cancelled[x] /\ members[x] # {}
    /\ EngineGoes(x, "play", "play")
    /\ UNCHANGED <<leases, games, index, cancelled, muted>>

(* A werewolf night mutes the group, and the dead stay muted. *)
EngineMutes(x) ==
    /\ engine[x] = "play" /\ ~cancelled[x] /\ Werewolf(x)
    /\ muted' = [muted EXCEPT ![place[x]] = TRUE]
    /\ UNCHANGED <<leases, games, index, objects, tasks, stopped>>

(* _finish: announcements and database writes are still to come. *)
EngineFinishes(x) ==
    /\ engine[x] = "play" /\ ~cancelled[x]
    /\ EngineGoes(x, "finish", "ended")
    /\ UNCHANGED <<leases, games, index, cancelled, muted>>

(* run_game returns or raises and enters its finally: werewolf awaits its  *)
(* cleanup there, tabletop discards at once.                               *)
Unwind(x) ==
    IF Werewolf(x)
    THEN EngineGoes(x, "cleanup", "ended") /\ UNCHANGED <<games, index, leases>>
    ELSE EngineGoes(x, "done", "ended") /\ Discard(x)

EngineReturns(x) ==
    /\ engine[x] \in {"ready", "signup", "play", "finish"} /\ ~cancelled[x]
    /\ Unwind(x)
    /\ UNCHANGED <<cancelled, muted>>

(* The task notices its cancellation.  One that never ran ends without its *)
(* finally; tabletop writes the interruption first; a werewolf engine that *)
(* was already in its finally drops the rest of it.                        *)
EngineCancelled(x) ==
    /\ cancelled[x]
    /\ cancelled' = [cancelled EXCEPT ![x] = FALSE]
    /\ \/ /\ engine[x] \in {"ready", "cleanup"}
          /\ EngineGoes(x, "done", "ended")
       \/ /\ engine[x] \in {"signup", "play", "finish"}
          /\ EngineGoes(x, IF Werewolf(x) THEN "cleanup" ELSE "persist", "ended")
    /\ UNCHANGED <<leases, games, index, muted>>

EnginePersists(x) ==
    /\ engine[x] = "persist"
    /\ Unwind(x)
    /\ UNCHANGED <<cancelled, muted>>

(* stop_driver and cleanup_group, then discard_game. *)
EngineCleansUp(x) ==
    /\ engine[x] = "cleanup" /\ ~cancelled[x]
    /\ EngineGoes(x, "done", "ended")
    /\ Discard(x)
    /\ muted' = [muted EXCEPT ![place[x]] = FALSE]
    /\ UNCHANGED cancelled

EngineUnwinds(x) == EngineCancelled(x) \/ EnginePersists(x) \/ EngineCleansUp(x)

EngineRuns(x) ==
    EngineBoots(x) \/ EngineDeals(x) \/ EngineMutes(x) \/ EngineFinishes(x) \/ EngineReturns(x)

-----------------------------------------------------------------------------
Init ==
    /\ RegistryInit
    /\ games = [k \in Kinds |-> [g \in Groups |-> NoGame]]
    /\ index = [k \in Kinds |-> [u \in Users |-> NoGroup]]
    /\ kind = [x \in Games |-> "werewolf"]
    /\ place = [x \in Games |-> NoGroup]
    /\ host = [x \in Games |-> NoUser]
    /\ phase = [x \in Games |-> "none"]
    /\ members = [x \in Games |-> {}]
    /\ kicked = [x \in Games |-> {}]
    /\ worker = [x \in Games |-> FALSE]
    /\ engine = [x \in Games |-> "none"]
    /\ cancelled = [x \in Games |-> FALSE]
    /\ asked = [x \in Games |-> 0]
    /\ stopping = [x \in Games |-> FALSE]
    /\ given = 0
    /\ muted = [g \in Groups |-> FALSE]

Next ==
    \/ \E k \in Kinds, g \in Groups, u \in Humans : Open(k, g, u)
    \/ \E x \in Games, u \in Users : Join(x, u) \/ Leave(x, u) \/ RemoveBot(x, u) \/ Kick(x, u)
    \/ \E x \in Games : AskStop(x) \/ StopStep(x) \/ EngineRuns(x) \/ EngineUnwinds(x)
    \/ \E g \in Groups : Recover(g)

Spec == Init /\ [][Next]_vars

(* The event loop runs every task that can run; chat calls time out, so an *)
(* engine on its way out gets to its end.  Nothing is assumed of players.  *)
FairSpec == Spec /\ \A x \in Games : WF_vars(StopStep(x)) /\ WF_vars(EngineUnwinds(x))

-----------------------------------------------------------------------------
(* Properties *)

(* Every variable keeps its type; in particular no machine player is ever  *)
(* made host.                                                              *)
TypeOK ==
    /\ groups \in [Groups -> Leases \cup {NoLease}]
    /\ users \in [Users -> Leases \cup {NoLease}]
    /\ games \in [Kinds -> [Groups -> Games \cup {NoGame}]]
    /\ index \in [Kinds -> [Users -> Groups \cup {NoGroup}]]
    /\ kind \in [Games -> Kinds]
    /\ place \in [Games -> Groups \cup {NoGroup}]
    /\ host \in [Games -> Humans \cup {NoUser}]
    /\ phase \in [Games -> Phases]
    /\ members \in [Games -> SUBSET Users] /\ kicked \in [Games -> SUBSET Users]
    /\ worker \in [Games -> BOOLEAN] /\ engine \in [Games -> EnginePc]
    /\ cancelled \in [Games -> BOOLEAN]
    /\ asked \in [Games -> Nat] /\ stopping \in [Games -> BOOLEAN] /\ given \in Nat
    /\ muted \in [Groups -> BOOLEAN]

(* The registry, _games and _user_index of both kinds, and the members of  *)
(* the rooms tell the same story although each is written on its own: a    *)
(* group is leased to a kind exactly when that kind has a game there, a    *)
(* user's lease is always that of a standing room, and it names the room   *)
(* whose index and whose list of members hold the user.                    *)
GroupsAgree ==
    \A k \in Kinds, g \in Groups :
        IF games[k][g] = NoGame
        THEN groups[g] = NoLease \/ groups[g].kind # k
        ELSE /\ groups[g] # NoLease /\ groups[g].kind = k /\ groups[g].group = g
             /\ engine[games[k][g]] # "none"
             /\ kind[games[k][g]] = k /\ place[games[k][g]] = g

UsersAgree ==
    \A u \in Users :
        /\ users[u] # NoLease => groups[users[u].group] = users[u]
        /\ \A k \in Kinds : index[k][u] =
              IF users[u] # NoLease /\ users[u].kind = k THEN users[u].group ELSE NoGroup

MembersAgree ==
    \A x \in Games : Registered(x) =>
        \A u \in Users : u \in members[x] <=> index[kind[x]][u] = place[x]

LeasesAgree == GroupsAgree /\ UsersAgree /\ MembersAgree

(* An engine at work always has its room: neither the clean-up of an       *)
(* earlier game of the group nor a second stop_game ever takes it away, so *)
(* the commands that could stop it still find it.                          *)
AtWork(x) == engine[x] \in {"ready", "signup", "play", "finish"} /\ ~cancelled[x]

EngineHasRoom == \A x \in Games : AtWork(x) => Registered(x)

(* No user is dealt into two games that run at the same time, whatever     *)
(* their kinds and groups.                                                 *)
OneSeat ==
    \A x, y \in Games :
        x # y /\ AtWork(x) /\ AtWork(y) => members[x] \cap members[y] = {}

(* A room that was told to stop is gone in the end, wherever its engine    *)
(* stood: not yet started, waiting, playing, or already cleaning up.       *)
RoomFreed == \A x \in Games : asked[x] > 0 ~> ~Registered(x)

(* Whoever the registry takes for the host of a room is its host.          *)
RegistryKnowsHost ==
    \A k \in Kinds, g \in Groups : games[k][g] # NoGame => IsRoomHost(g, host[games[k][g]])

(* No group stays muted once no engine is left to lift it: the clean-up in *)
(* the engine's finally is not interrupted.                                *)
NobodyLeftMuted ==
    \A g \in Groups : muted[g] =>
        \E x \in Games : place[x] = g /\ engine[x] \notin {"none", "done"}

=============================================================================
