----------------------------- MODULE GameRegistry -----------------------------
(***************************************************************************)
(* The registry the two games share (game_registry.py): which game holds   *)
(* which group, and which room each user sits in.  Werewolf and tabletop   *)
(* rooms take their group and their players here, so that a group has one  *)
(* game and a user one room whatever the kind.  Every function runs        *)
(* without an await; the caller's action does the whole of it.             *)
(***************************************************************************)
CONSTANTS
    Users,   \* user ids, those of machine players included
    Groups,  \* group ids
    NoLease  \* nothing is held

Kinds == {"werewolf", "rpg"}

Leases == [kind : Kinds, group : Groups, host : Users]

ASSUME RegistryAssumption == NoLease \notin Leases

VARIABLES
    groups, \* _groups: the lease of the game that holds each group
    users   \* _users: the lease of the room each user sits in

leases == <<groups, users>>

Lease(k, g, h) == [kind |-> k, group |-> g, host |-> h]

RegistryInit ==
    /\ groups = [g \in Groups |-> NoLease]
    /\ users = [u \in Users |-> NoLease]

(* reserve_game: the group and the host, or neither. *)
CanReserveGame(g, h) == groups[g] = NoLease /\ users[h] = NoLease

ReserveGame(k, g, h) ==
    /\ groups' = [groups EXCEPT ![g] = Lease(k, g, h)]
    /\ users' = [users EXCEPT ![h] = Lease(k, g, h)]

(* reserve_user: a seat in the room that holds the group. *)
\* Mutation: a user who sits in another room is let in.
CanReserveUserAnywhere(k, g, u) ==
    groups[g] # NoLease /\ groups[g].kind = k

CanReserveUser(k, g, u) ==
    /\ groups[g] # NoLease /\ groups[g].kind = k
    /\ users[u] = NoLease

ReserveUser(g, u) ==
    /\ users' = [users EXCEPT ![u] = groups[g]]
    /\ UNCHANGED groups

(* release_user: the seat, if it is still one of that kind and group. *)
\* Mutation: the seat is not given up.
ReleaseUserLater(k, g, u) == UNCHANGED leases

ReleaseUser(k, g, u) ==
    /\ users' = IF users[u] # NoLease /\ users[u].kind = k /\ users[u].group = g
                THEN [users EXCEPT ![u] = NoLease] ELSE users
    /\ UNCHANGED groups

(* release_game: the group and every seat of its room. *)
ReleaseGame(k, g) ==
    IF groups[g] # NoLease /\ groups[g].kind = k
    THEN /\ groups' = [groups EXCEPT ![g] = NoLease]
         /\ users' = [u \in Users |-> IF users[u] = groups[g] THEN NoLease ELSE users[u]]
    ELSE UNCHANGED leases

(* resolve_game_access(g, u).is_room_host *)
IsRoomHost(g, u) == groups[g] # NoLease /\ groups[g].host = u

=============================================================================
