------------------------------ MODULE WerewolfPlay ------------------------------
(***************************************************************************)
(* A game of werewolf from the deal to its end: the nights, the settling   *)
(* of deaths, the election of the sheriff, the speeches and the votes of   *)
(* yawn_werewolf/engine.py.                                                *)
(*                                                                         *)
(* One task runs the game and alone changes its state; it waits in windows *)
(* that a player's action or a timer ends.  An action here is the receipt  *)
(* of a player's action that a window accepts, or the end of a window, with*)
(* what the task does up to the next window.  What a window does not accept*)
(* is dropped and changes nothing, so any player may have sent anything at *)
(* any time, also before the phase.  Chance (the lot among the wolves'     *)
(* targets, who speaks first) is left open, a vote is its possible results.*)
(* What only players are told (the seer's checks, texts) is left out.      *)
(***************************************************************************)
EXTENDS Integers, Sequences, FiniteSets

CONSTANTS
    Seats,   \* numbers of the seats
    Deals    \* a board (role: the role of each seat, silence: its silence_mode)
             \* and the house rules it is played with

NoSeat == 0

Wolves    == {"wolf", "wolf_king", "white_king", "hidden_wolf"}
Gods      == {"seer", "witch", "hunter", "idiot", "knight", "elder", "guard", "keeper"}
Villagers == {"villager", "halfblood"}
Roles     == Wolves \cup Gods \cup Villagers
Shooters  == {"hunter", "wolf_king"}

(* The causes of death as far as the engine tells them apart: "shot" is    *)
(* HUNTER_SHOT and WOLF_KING_SHOT, "out" the exile, the duels and the seat *)
(* that a white wolf king takes along.                                     *)
Causes == {"none", "knife", "poison", "boom", "shot", "out"}

BoardSpec  == [role : [Seats -> Roles], silence : {"none", "speech", "vote"}]
HouseRules == [sheriff : BOOLEAN, self : BOOLEAN, double : BOOLEAN, conflict : BOOLEAN,
               win : {"edge", "city"}, words : {"first", "all", "none"}, tie : {"pk", "peace"}]

ASSUME DealsAssumption ==
    /\ Seats \subseteq Nat \ {NoSeat} /\ IsFiniteSet(Seats)
    /\ Deals \subseteq BoardSpec \X HouseRules
    /\ \A d \in Deals : \A S \in {Wolves, Gods, Villagers} :
          \E p \in Seats : d[1].role[p] \in S

VARIABLES
    board, rules,      \* fixed at the deal
    phase,             \* the window the task waits in, or its place between two
    round,             \* round_no; 3 stands for every later one
    winner,            \* the side that has won
    alive, cause,      \* of the players
    revealed,          \* idiot_revealed, and with it can_vote = FALSE
    shot_used,
    badge,             \* is_sheriff
    elected,           \* history: there has been a sheriff
    running,           \* sheriff_candidate
    campaign,          \* sheriff_campaign_round, 0 for None
    potions,           \* the witch's save_used and poison_used
    guard_last, elder_last, silenced,
    exiled,            \* last_exiled_seat
    night,             \* the choices of the night under way
    tied,              \* the players of a second ballot
    words,             \* the dead whose last words are still to come
    pending, processed,\* the deaths that _resolve_pending_day_effects settles
    after,             \* where the task goes when they are settled
    boom,              \* who detonated during last words, and the seat to take
    asked,             \* history: shooters that were asked
    yesterday          \* history: the seat exiled in this or the last day

setup    == <<board, rules>>
players  == <<alive, cause, revealed, shot_used>>
sheriffs == <<badge, elected, running, campaign>>
skills   == <<potions, guard_last, elder_last, silenced>>
queue    == <<pending, processed, after, boom>>
history  == <<asked, yesterday>>
vars == <<setup, phase, round, winner, players, sheriffs, skills, exiled, night,
          tied, words, queue, history>>

NightPhases    == {"guard", "wolves", "witch", "elder", "grave"}
Settling       == {"words", "effects", "shot", "badge"}
CampaignPhases == {"register", "sheriff_speech", "sheriff_vote", "final_speech", "revote"}
Speeches       == {"speech", "pk_speech"}
DayPhases      == Settling \cup CampaignPhases \cup Speeches \cup {"vote", "pk_vote"}
Phases         == NightPhases \cup DayPhases \cup {"ended"}

NoNight == [guard |-> NoSeat, kill |-> NoSeat, saved |-> FALSE, poison |-> NoSeat]

Role(p)   == board.role[p]
Living(r) == {p \in alive : Role(p) = r}
Left(S)   == \E p \in alive : Role(p) \in S

(* _check_winner *)
CheckWinner ==
    IF ~Left(Wolves) THEN "good"
    ELSE IF IF rules.win = "city" THEN Left(Gods \cup Villagers)
            ELSE Left(Gods) /\ Left(Villagers)
         THEN "none" ELSE "wolf"

(* _kill, for players who are alive *)
Kill(S, c) ==
    /\ alive' = alive \ S
    /\ cause' = [p \in Seats |-> IF p \in S THEN c ELSE cause[p]]

(* The head of the loop of run_game: a side has won, or the next night falls. *)
Conclude ==
    /\ winner' = CheckWinner
    /\ phase'  = IF CheckWinner = "none" THEN "guard" ELSE "ended"
    /\ round'  = IF CheckWinner = "none" /\ round < 3 THEN round + 1 ELSE round

-----------------------------------------------------------------------------
(* The night *)

(* _phase_guard; NoSeat is nobody, also when the guard is dead *)
Guard(g) ==
    /\ phase = "guard"
    /\ g # NoSeat => Living("guard") # {} /\ g \in alive \ {guard_last}
    /\ guard_last' = IF Living("guard") = {} THEN guard_last ELSE g
    /\ night' = [night EXCEPT !.guard = g]
    /\ phase' = "wolves"
    /\ UNCHANGED <<setup, round, winner, players, sheriffs, potions, elder_last,
                   silenced, exiled, tied, words, queue, history>>

(* _phase_wolves: every target that some wolf names can be drawn *)
Knife(k) ==
    /\ phase = "wolves"
    /\ k # NoSeat => Left(Wolves) /\ k \in alive /\ Role(k) \notin Wolves
    /\ night' = [night EXCEPT !.kill = k]
    /\ phase' = "witch"
    /\ UNCHANGED <<setup, round, winner, players, sheriffs, skills, exiled, tied,
                   words, queue, history>>

(* _phase_witch *)
CanSave ==
    /\ night.kill # NoSeat /\ "save" \notin potions
    /\ night.kill \in Living("witch") => rules.self /\ round = 1

Save ==
    /\ phase = "witch" /\ Living("witch") # {} /\ CanSave
    /\ potions' = potions \cup {"save"}
    /\ night' = [night EXCEPT !.saved = TRUE]
    /\ phase' = IF rules.double /\ "poison" \notin potions THEN "witch" ELSE "elder"
    /\ UNCHANGED <<setup, round, winner, players, sheriffs, guard_last, elder_last,
                   silenced, exiled, tied, words, queue, history>>

Poison(t) ==
    /\ phase = "witch" /\ Living("witch") # {} /\ "poison" \notin potions
    /\ t \in alive \ Living("witch")
    /\ potions' = potions \cup {"poison"}
    /\ night' = [night EXCEPT !.poison = t]
    /\ phase' = "elder"
    /\ UNCHANGED <<setup, round, winner, players, sheriffs, guard_last, elder_last,
                   silenced, exiled, tied, words, queue, history>>

WitchDone ==
    /\ phase = "witch" /\ phase' = "elder"
    /\ UNCHANGED <<setup, round, winner, players, sheriffs, skills, exiled, night,
                   tied, words, queue, history>>

(* _phase_elder *)
Silence(t) ==
    /\ phase = "elder"
    /\ t # NoSeat => /\ board.silence # "none" /\ Living("elder") # {}
                     /\ t \in alive \ (Living("elder") \cup {elder_last})
    /\ silenced' = t
    /\ elder_last' = IF Living("elder") = {} THEN elder_last ELSE t
    /\ phase' = "grave"
    /\ UNCHANGED <<setup, round, winner, players, sheriffs, potions, guard_last,
                   exiled, night, tied, words, queue, history>>

(* The settlement in _run_night: who is knifed to death *)
Knifed ==
    LET guarded == night.guard = night.kill
    IN  {k \in {night.kill} \cap alive :
            \/ ~night.saved /\ ~guarded
            \/ night.saved /\ guarded /\ rules.conflict}

(* _phase_gravekeeper, the settlement, and the head of _run_day.  A keeper *)
(* who is alive is told of the player in exiled.                           *)
EndNight ==
    LET dead  == Knifed \cup ({night.poison} \cap alive)
        speak == rules.words = "all" \/ (rules.words = "first" /\ round = 1)
    IN  /\ phase = "grave"
        /\ alive' = alive \ dead
        /\ cause' = [p \in Seats |-> IF p \notin dead THEN cause[p]
                                     ELSE IF p = night.poison THEN "poison" ELSE "knife"]
        /\ \E order \in [1..Cardinality(dead) -> dead] :
              /\ \A i, j \in DOMAIN order : i < j => order[i] < order[j]
              /\ pending' = order
              /\ words' = IF speak THEN order ELSE <<>>
        /\ phase' = IF speak /\ dead # {} THEN "words" ELSE "effects"
        /\ processed' = {} /\ after' = "day"
        /\ night' = NoNight
        /\ yesterday' = NoSeat
        /\ UNCHANGED <<setup, round, winner, revealed, shot_used, sheriffs, skills,
                       exiled, tied, boom, asked>>

-----------------------------------------------------------------------------
(* Last words and detonation *)

(* _last_words *)
EndWords ==
    /\ phase = "words"
    /\ words' = Tail(words)
    /\ phase' = IF Tail(words) = <<>> THEN "effects" ELSE "words"
    /\ UNCHANGED <<setup, round, winner, players, sheriffs, skills, exiled, night,
                   tied, queue, history>>

(* The SELF_DETONATE action of a wolf; t is the seat a white wolf king names. *)
Named(w) == IF Role(w) = "white_king" THEN Seats \cup {NoSeat} ELSE {NoSeat}

(* _handle_detonation *)
Detonated(w, t) ==
    LET taken == {p \in {t} : Role(w) = "white_king" /\ p \in alive \ {w}}
    IN  /\ alive' = alive \ ({w} \cup taken)
        /\ cause' = [p \in Seats |-> IF p \in taken THEN "out"
                                     ELSE IF p = w /\ w \in alive THEN "boom" ELSE cause[p]]
        /\ pending' = IF taken = {} THEN <<w>> ELSE <<w, t>>
        /\ processed' = {} /\ after' = "boom"
        /\ phase' = "effects" /\ tied' = {}

\* Mutation: the detonation is handled at once.
DetonateAtOnce(w, t) ==
    /\ phase = "words" /\ w \in alive /\ Role(w) \in Wolves /\ t \in Named(w)
    /\ words' = <<>>
    /\ Detonated(w, t)
    /\ UNCHANGED <<setup, round, winner, revealed, shot_used, sheriffs, skills,
                   exiled, night, boom, history>>

(* _DetonatedError out of _last_words: the deaths so far are settled first. *)
DetonateInWords(w, t) ==
    /\ phase = "words" /\ w \in alive /\ Role(w) \in Wolves /\ t \in Named(w)
    /\ words' = <<>>
    /\ boom' = <<w, t>> /\ after' = "cut"
    /\ phase' = "effects"
    /\ UNCHANGED <<setup, round, winner, players, sheriffs, skills, exiled, night,
                   tied, pending, processed, history>>

(* Who gets the floor in a rotation of speeches *)
Floor ==
    (CASE phase = "sheriff_speech" -> running
       [] phase \in {"final_speech", "pk_speech"} -> tied \cap alive
       [] OTHER -> alive)
    \ (IF board.silence = "speech" THEN {silenced} ELSE {})

Detonate(w, t) ==
    /\ phase \in DayPhases \ Settling /\ Floor # {}
    /\ w \in alive /\ Role(w) \in Wolves /\ t \in Named(w)
    /\ Detonated(w, t)
    /\ UNCHANGED <<setup, round, winner, revealed, shot_used, sheriffs, skills,
                   exiled, night, words, boom, history>>

-----------------------------------------------------------------------------
(* _resolve_pending_day_effects *)

Dead == Head(pending)

MayShoot(p) == Role(p) \in Shooters /\ cause[p] \notin {"poison", "boom"}

\* Mutation: whether the shot was fired is not looked at.
CanShootAgain(p) == MayShoot(p)

(* _can_shoot *)
CanShoot(p) == MayShoot(p) /\ p \notin shot_used

\* Mutation: who died is not taken off the queue.
LeaveBadgeStaying(deaths) ==
    IF Dead \in badge /\ cause[Dead] # "poison"
    THEN phase' = "badge" /\ pending' = deaths /\ badge' = badge
    ELSE phase' = "effects" /\ pending' = deaths /\ badge' = badge \ {Dead}

(* The end of the loop's body, on the queue as it is by then: the badge of *)
(* a dead sheriff is lost by poison, otherwise its holder decides.         *)
LeaveBadge(deaths) ==
    IF Dead \in badge /\ cause[Dead] # "poison"
    THEN phase' = "badge" /\ pending' = deaths /\ badge' = badge
    ELSE phase' = "effects" /\ pending' = Tail(deaths) /\ badge' = badge \ {Dead}

SkipShooter ==
    /\ phase = "effects" /\ pending # <<>> /\ MayShoot(Dead)
    /\ Dead \in processed \/ ~CanShoot(Dead)
    /\ processed' = processed \cup {Dead}
    /\ pending' = Tail(pending)
    /\ UNCHANGED <<setup, phase, round, winner, players, sheriffs, skills, exiled,
                   night, tied, words, after, boom, history>>

AskShooter ==
    /\ phase = "effects" /\ pending # <<>>
    /\ Dead \notin processed /\ CanShoot(Dead)
    /\ processed' = processed \cup {Dead}
    /\ asked' = asked \cup {Dead}
    /\ phase' = "shot"
    /\ UNCHANGED <<setup, round, winner, players, sheriffs, skills, exiled, night,
                   tied, words, pending, after, boom, yesterday>>

(* A death that is no shooter's; _death_skill_idle changes no state. *)
PassBy ==
    /\ phase = "effects" /\ pending # <<>> /\ ~MayShoot(Dead)
    /\ processed' = processed \cup {p \in {Dead} : cause[p] \in {"knife", "poison"}}
    /\ LeaveBadge(pending)
    /\ UNCHANGED <<setup, round, winner, players, elected, running, campaign, skills,
                   exiled, night, tied, words, after, boom, history>>

\* Mutation: the victim is queued and not killed.
ShootWithoutKill(t) ==
    /\ phase = "shot" /\ t \in alive
    /\ shot_used' = shot_used \cup {Dead}
    /\ LeaveBadge(Append(pending, t))
    /\ UNCHANGED <<setup, round, winner, alive, cause, revealed, elected, running,
                   campaign, skills, exiled, night, tied, words, processed, after, boom,
                   history>>

(* _hunter_prompt and _resolve_hunter_shot *)
Shoot(t) ==
    /\ phase = "shot" /\ t \in alive
    /\ shot_used' = shot_used \cup {Dead}
    /\ Kill({t}, "shot")
    /\ LeaveBadge(Append(pending, t))
    /\ UNCHANGED <<setup, round, winner, revealed, elected, running, campaign, skills,
                   exiled, night, tied, words, processed, after, boom, history>>

NoShot ==
    /\ phase = "shot"
    /\ LeaveBadge(pending)
    /\ UNCHANGED <<setup, round, winner, players, elected, running, campaign, skills,
                   exiled, night, tied, words, processed, after, boom, history>>

\* Mutation: the badge can go to any seat.
PassBadgeToAny(t) ==
    /\ phase = "badge" /\ t \in Seats
    /\ badge' = (badge \ {Dead}) \cup {t}
    /\ pending' = Tail(pending)
    /\ phase' = "effects"
    /\ UNCHANGED <<setup, round, winner, players, elected, running, campaign, skills,
                   exiled, night, tied, words, processed, after, boom, history>>

(* _badge_transfer; the badge is lost when it is torn and when time is up. *)
PassBadge(t) ==
    /\ phase = "badge" /\ t \in alive
    /\ badge' = (badge \ {Dead}) \cup {t}
    /\ pending' = Tail(pending)
    /\ phase' = "effects"
    /\ UNCHANGED <<setup, round, winner, players, elected, running, campaign, skills,
                   exiled, night, tied, words, processed, after, boom, history>>

TearBadge ==
    /\ phase = "badge"
    /\ badge' = badge \ {Dead}
    /\ pending' = Tail(pending)
    /\ phase' = "effects"
    /\ UNCHANGED <<setup, round, winner, players, elected, running, campaign, skills,
                   exiled, night, tied, words, processed, after, boom, history>>

Settled(where) == phase = "effects" /\ pending = <<>> /\ after = where

-----------------------------------------------------------------------------
(* What follows when the deaths are settled *)

(* _run_day, before _decide_speech_order *)
StartSpeeches ==
    /\ exiled' = NoSeat /\ tied' = {}
    /\ phase' = "speech"

(* _run_day after the deaths of the night *)
DayBreaks ==
    /\ Settled("day")
    /\ winner' = CheckWinner
    /\ IF CheckWinner = "none" /\ campaign # round
       THEN StartSpeeches
       ELSE /\ phase' = IF CheckWinner = "none" THEN "register" ELSE "ended"
            /\ UNCHANGED <<exiled, tied>>
    /\ UNCHANGED <<setup, round, players, sheriffs, skills, night, words, queue,
                   asked, yesterday>>

(* run_game, on a _DetonatedError that came out of last words *)
DetonateAfterWords ==
    /\ Settled("cut")
    /\ Detonated(boom[1], boom[2])
    /\ boom' = <<NoSeat, NoSeat>>
    /\ UNCHANGED <<setup, round, winner, revealed, shot_used, sheriffs, skills,
                   exiled, night, words, history>>

(* _postpone_sheriff_campaign *)
Postpone ==
    IF CheckWinner = "none" /\ campaign = round
    THEN running' = {} /\ campaign' = IF round = 1 THEN 2 ELSE 0
    ELSE UNCHANGED <<running, campaign>>

(* run_game, after _handle_detonation *)
DetonationEndsDay ==
    /\ Settled("boom")
    /\ Conclude /\ Postpone
    /\ UNCHANGED <<setup, players, badge, elected, skills, exiled, night, tied, words,
                   queue, history>>

(* The ends of _execute_exile and of a duel that hit a wolf *)
DeathEndsDay ==
    /\ Settled("exile") \/ Settled("duel_won")
    /\ Conclude
    /\ UNCHANGED <<setup, players, sheriffs, skills, exiled, night, tied, words,
                   queue, history>>

(* _resolve_knight_duel *)
Duel(k, t) ==
    /\ phase \in Speeches /\ Floor # {}
    /\ k \in Living("knight") /\ t \in alive \ {k}
    /\ IF Role(t) \in Wolves
       THEN Kill({t}, "out") /\ pending' = <<t>> /\ after' = "duel_won" /\ tied' = {}
       ELSE Kill({k}, "out") /\ pending' = <<k>> /\ after' = phase /\ tied' = tied
    /\ processed' = {} /\ phase' = "effects"
    /\ UNCHANGED <<setup, round, winner, revealed, shot_used, sheriffs, skills,
                   exiled, night, words, boom, history>>

\* Mutation: nobody asks whether a side has won.
SpeechesGoOnUnchecked ==
    /\ \E s \in Speeches : Settled(s)
    /\ phase' = after
    /\ UNCHANGED <<setup, round, winner, players, sheriffs, skills, exiled, night, tied,
                   words, queue, history>>

(* A duel that hit no wolf: the rotation goes on unless a side has won. *)
SpeechesGoOn ==
    /\ \E s \in Speeches : Settled(s)
    /\ winner' = CheckWinner
    /\ phase' = IF CheckWinner = "none" THEN after ELSE "ended"
    /\ UNCHANGED <<setup, round, players, sheriffs, skills, exiled, night, tied,
                   words, queue, history>>

-----------------------------------------------------------------------------
(* Votes *)

(* Who takes part in a ballot that excludes the seats in S *)
Voters(S) == (alive \ revealed) \ S

(* _collect_votes and _tally_votes: the seats that can come out on top. A  *)
(* sheriff's vote counts one and a half, so it never is part of a tie.     *)
Outcomes(targets, voters) ==
    {T \in SUBSET targets :
        \/ T = {}
        \/ Cardinality(T) = 1 /\ voters # {}
        \/ Cardinality(T) > 1 /\ Cardinality(voters \ badge) >= Cardinality(T)}

Banned == IF board.silence = "vote" THEN {silenced} \cap alive ELSE {}

(* _sheriff_campaign: registering, speeches, ballot, second ballot *)
Run(p) ==
    /\ phase = "register" /\ p \in alive \ running
    /\ running' = running \cup {p}
    /\ UNCHANGED <<setup, phase, round, winner, players, badge, elected, campaign, skills,
                   exiled, night, tied, words, queue, history>>

Withdraw(p) ==
    /\ phase \in {"register", "sheriff_speech"} /\ Floor # {}
    /\ p \in running
    /\ running' = running \ {p}
    /\ UNCHANGED <<setup, phase, round, winner, players, badge, elected, campaign, skills,
                   exiled, night, tied, words, queue, history>>

\* Mutation: the round of the campaign is kept.
EndCampaignKeeping == campaign' = campaign /\ running' = {} /\ StartSpeeches

(* The flags of the candidates are not read again and are dropped here.    *)
EndCampaign == campaign' = 0 /\ running' = {} /\ StartSpeeches

(* _elect_sheriff *)
Elect(p) == badge' = badge \cup {p} /\ elected' = TRUE

CloseRegister ==
    /\ phase = "register"
    /\ IF running = {} THEN EndCampaign
       ELSE phase' = "sheriff_speech" /\ UNCHANGED <<running, campaign, exiled, tied>>
    /\ UNCHANGED <<setup, round, winner, players, badge, elected, skills, night,
                   words, queue, asked, yesterday>>

EndSheriffSpeech ==
    /\ phase = "sheriff_speech"
    /\ IF running = {} \/ Voters(running) = {} THEN EndCampaign
       ELSE phase' = "sheriff_vote" /\ UNCHANGED <<running, campaign, exiled, tied>>
    /\ UNCHANGED <<setup, round, winner, players, badge, elected, skills, night,
                   words, queue, asked, yesterday>>

SheriffVote(T) ==
    /\ phase = "sheriff_vote" /\ T \in Outcomes(running, Voters(running))
    /\ IF Cardinality(T) > 1
       THEN phase' = "final_speech" /\ tied' = T /\ UNCHANGED <<running, campaign, exiled>>
       ELSE EndCampaign
    /\ IF Cardinality(T) = 1 THEN \E p \in T : Elect(p) ELSE UNCHANGED <<badge, elected>>
    /\ UNCHANGED <<setup, round, winner, players, skills, night, words,
                   queue, asked, yesterday>>

EndFinalSpeech ==
    /\ phase = "final_speech"
    /\ IF Voters(tied) = {} THEN EndCampaign
       ELSE phase' = "revote" /\ UNCHANGED <<running, campaign, exiled, tied>>
    /\ UNCHANGED <<setup, round, winner, players, badge, elected, skills, night,
                   words, queue, asked, yesterday>>

\* Mutation: a second tie is voted on again.
RevoteAgain(T) ==
    /\ phase = "revote" /\ T \in Outcomes(tied, Voters(tied))
    /\ IF Cardinality(T) > 1
       THEN phase' = "final_speech" /\ UNCHANGED <<running, campaign, exiled, tied>>
       ELSE EndCampaign
    /\ IF Cardinality(T) = 1 THEN \E p \in T : Elect(p) ELSE UNCHANGED <<badge, elected>>
    /\ UNCHANGED <<setup, round, winner, players, skills, night, words, queue, asked,
                   yesterday>>

Revote(T) ==
    /\ phase = "revote" /\ T \in Outcomes(tied, Voters(tied))
    /\ EndCampaign
    /\ IF Cardinality(T) = 1 THEN \E p \in T : Elect(p) ELSE UNCHANGED <<badge, elected>>
    /\ UNCHANGED <<setup, round, winner, players, skills, night, words,
                   queue, asked, yesterday>>

(* The end of a rotation of speeches before a vote on an exile *)
EndSpeeches ==
    /\ phase \in Speeches
    /\ phase' = IF phase = "speech" THEN "vote" ELSE "pk_vote"
    /\ UNCHANGED <<setup, round, winner, players, sheriffs, skills, exiled, night,
                   tied, words, queue, history>>

(* _execute_exile *)
Exile(s) ==
    IF Role(s) = "idiot" /\ s \notin revealed
    THEN /\ revealed' = revealed \cup {s}
         /\ Conclude
         /\ UNCHANGED <<alive, cause, exiled, words, pending, processed, after, yesterday>>
    ELSE /\ Kill({s}, "out")
         /\ exiled' = s /\ yesterday' = s
         /\ words' = <<s>> /\ pending' = <<s>> /\ processed' = {} /\ after' = "exile"
         /\ phase' = "words"
         /\ UNCHANGED <<round, winner, revealed>>

NoExile ==
    /\ Conclude
    /\ UNCHANGED <<alive, cause, revealed, exiled, words, pending, processed, after,
                   yesterday>>

(* _vote_phase *)
Vote(T) ==
    /\ phase = "vote" /\ T \in Outcomes(alive \ revealed, Voters(Banned))
    /\ IF Cardinality(T) > 1 /\ rules.tie = "pk"
       THEN /\ phase' = "pk_speech" /\ tied' = T
            /\ UNCHANGED <<round, winner, alive, cause, revealed, exiled, words,
                           pending, processed, after, yesterday>>
       ELSE /\ tied' = {}
            /\ IF Cardinality(T) = 1 THEN \E s \in T : Exile(s) ELSE NoExile
    /\ UNCHANGED <<setup, shot_used, sheriffs, skills, night, boom, asked>>

PkVote(T) ==
    /\ phase = "pk_vote" /\ T \in Outcomes(tied \cap alive, Voters(tied \cup Banned))
    /\ tied' = {}
    /\ IF Cardinality(T) = 1 THEN \E s \in T : Exile(s) ELSE NoExile
    /\ UNCHANGED <<setup, shot_used, sheriffs, skills, night, boom, asked>>

-----------------------------------------------------------------------------
(* run_game is cancelled, or an exception ends it. *)
Cancel ==
    /\ phase # "ended" /\ phase' = "ended"
    /\ UNCHANGED <<setup, round, winner, players, sheriffs, skills, exiled, night,
                   tied, words, queue, history>>

(* run_game, from the deal on *)
Init ==
    /\ \E d \in Deals : board = d[1] /\ rules = d[2]
    /\ phase = "guard" /\ round = 1 /\ winner = "none"
    /\ alive = Seats /\ cause = [p \in Seats |-> "none"]
    /\ revealed = {} /\ shot_used = {}
    /\ badge = {} /\ elected = FALSE /\ running = {}
    /\ campaign = IF rules.sheriff THEN 1 ELSE 0
    /\ potions = {} /\ guard_last = NoSeat /\ elder_last = NoSeat /\ silenced = NoSeat
    /\ exiled = NoSeat /\ night = NoNight /\ tied = {} /\ words = <<>>
    /\ pending = <<>> /\ processed = {} /\ after = "day" /\ boom = <<NoSeat, NoSeat>>
    /\ asked = {} /\ yesterday = NoSeat

Night ==
    \/ \E p \in Seats \cup {NoSeat} : Guard(p) \/ Knife(p) \/ Silence(p)
    \/ \E p \in Seats : Poison(p)
    \/ Save \/ WitchDone \/ EndNight

(* What the players may do in the windows of a day *)
Moves ==
    \/ \E w \in Seats, t \in Seats \cup {NoSeat} : DetonateInWords(w, t) \/ Detonate(w, t)
    \/ \E p \in Seats : Shoot(p) \/ PassBadge(p) \/ Run(p) \/ Withdraw(p)
    \/ \E k, t \in Seats : Duel(k, t)

(* What the engine does without them: its timers and the steps in between *)
Expire ==
    \/ EndWords \/ SkipShooter \/ AskShooter \/ PassBy \/ NoShot \/ TearBadge
    \/ DayBreaks \/ DetonateAfterWords \/ DetonationEndsDay \/ DeathEndsDay \/ SpeechesGoOn
    \/ CloseRegister \/ EndSheriffSpeech \/ EndFinalSpeech \/ EndSpeeches
    \/ \E T \in SUBSET Seats : SheriffVote(T) \/ Revote(T) \/ Vote(T) \/ PkVote(T)

Next == Night \/ Moves \/ Expire \/ Cancel

Spec == Init /\ [][Next]_vars

(* Every window of the engine has a timer. *)
FairSpec == Spec /\ WF_vars(Expire)

-----------------------------------------------------------------------------
(* Properties *)

SeatOrNone == Seats \cup {NoSeat}

Afters == {"day", "cut", "boom", "exile", "duel_won"} \cup Speeches

(* Types; besides, whoever waits to be settled or to speak last words has  *)
(* died.                                                                   *)
TypeOK ==
    /\ <<board, rules>> \in Deals
    /\ phase \in Phases /\ round \in 1..3 /\ winner \in {"none", "good", "wolf"}
    /\ alive \subseteq Seats /\ cause \in [Seats -> Causes]
    /\ revealed \subseteq Seats /\ shot_used \subseteq Seats
    /\ badge \subseteq Seats /\ elected \in BOOLEAN /\ running \subseteq Seats
    /\ campaign \in 0..2 /\ potions \subseteq {"save", "poison"}
    /\ guard_last \in SeatOrNone /\ elder_last \in SeatOrNone /\ silenced \in SeatOrNone
    /\ exiled \in SeatOrNone /\ tied \subseteq Seats
    /\ night \in [guard : SeatOrNone, kill : SeatOrNone, saved : BOOLEAN, poison : SeatOrNone]
    /\ words \in Seq(Seats \ alive) /\ pending \in Seq(Seats \ alive)
    /\ processed \subseteq Seats \ alive /\ after \in Afters
    /\ boom \in SeatOrNone \X SeatOrNone
    /\ asked \subseteq Seats /\ yesterday \in SeatOrNone

(* Between the settlements of deaths: at night, in the campaign, in        *)
(* speeches and votes.                                                     *)
Settlement == Settling \cup {"ended"}

(* When speeches are ordered, votes counted and nights fall no dead player *)
(* has the badge, by whatever chain of shots, detonations, duels and exiles*)
(* the deaths came.                                                        *)
SheriffLives == phase \notin Settlement => badge \subseteq alive

(* Players are shot dead only by a hunter or wolf king who died, neither   *)
(* poisoned nor by detonation, and each of them fires once, though one who *)
(* detonates during last words and is shot before it takes effect passes   *)
(* through the settlement twice.                                           *)
ShotsAreOwed ==
    Cardinality({p \in Seats : cause[p] = "shot"})
        <= Cardinality({p \in Seats \ alive : MayShoot(p)})

(* Every hunter and wolf king who died so that a shot is due has been asked*)
(* before the game goes on: no chain of deaths and no detonation that cuts *)
(* the day short makes one of them lose the shot.                          *)
NobodyUnasked ==
    phase \notin Settlement => \A p \in Seats \ alive : MayShoot(p) => p \in asked

(* No night falls, nobody speaks in turn and no vote is held once a side   *)
(* has won, and the side announced is the one that has won at the end.     *)
OverWhenWon ==
    /\ phase \notin Settlement => CheckWinner = "none"
    /\ winner # "none" => winner = CheckWinner

(* The gravekeeper, a keeper who is alive when the window of the role ends  *)
(* the night, is told who was exiled on the day before that night, or that *)
(* nobody was: never of an exile of an earlier day, as roles.py promises   *)
(* the player, and as the engine's comment where it clears the seat says.  *)
NewsOfYesterday == phase = "grave" /\ Living("keeper") # {} => exiled = yesterday

(* A sheriff is elected only when there has been none before: neither a    *)
(* detonation later in the day nor one on the day the campaign was put off *)
(* to lets it be held again, so that two players never share the badge.    *)
ElectedOnce ==
    [][phase # "badge" /\ badge' # badge /\ badge' # {} => ~elected]_vars

(* The course of a day, counted from its end.  While deaths are settled the*)
(* day is at the place it goes on from afterwards.                         *)
Ahead == [day |-> 12, register |-> 11, sheriff_speech |-> 10, sheriff_vote |-> 9,
          final_speech |-> 8, revote |-> 7, speech |-> 6, vote |-> 5, pk_speech |-> 4,
          pk_vote |-> 3, exile |-> 2, duel_won |-> 2, cut |-> 1, boom |-> 0]

Place == IF phase \in Settling THEN after ELSE phase

(* What is left to do for the dead at this place *)
Work ==
    3 * Len(pending)
    + (CASE phase = "words"   -> Len(words) + 3
         [] phase = "effects" -> 2
         [] phase = "shot"    -> 1
         [] OTHER             -> 0)

(* The day is further on; or at the same place with fewer alive; or there, *)
(* nobody having died, with less to do.                                    *)
Nearer ==
    \/ Ahead[Place'] < Ahead[Place]
    \/ /\ Place' = Place
       /\ \/ alive' # alive /\ alive' \subseteq alive
          \/ alive' = alive /\ Work' < Work

(* No step of a day turns it back, by whatever chain of shots, detonations,*)
(* duels and second ballots: each that does not end it brings its end      *)
(* nearer, but for candidates who come and go in the window they have.     *)
DayShortens ==
    [][{phase, phase'} \subseteq DayPhases =>
          Nearer \/ (running' # running /\ UNCHANGED <<phase, alive, words, queue>>)]_vars

(* Every day ends, in a night or the end of the game: timers end each      *)
(* window, the queue of deaths runs dry, second ballots are not repeated.  *)
DayEnds == phase \in DayPhases ~> phase \in NightPhases \cup {"ended"}
=============================================================================
