------------------------- MODULE WerewolfPlayProofs -------------------------
(***************************************************************************)
(* What a game of WerewolfPlay keeps for any number of seats, boards and   *)
(* house rules, and the measure by which each of its days shortens.        *)
(***************************************************************************)
EXTENDS WerewolfPlay, FiniteSetTheorems, SequenceTheorems, TLAPS

(* Whoever the engine waits for is there. *)
Waits ==
    /\ phase = "words" => words # <<>>
    /\ phase \in {"shot", "badge"} => pending # <<>>
    /\ phase \in Settling /\ after = "cut" => boom[1] \in Seats

TypeInv == TypeOK /\ Waits

LEMMA WinnerType == CheckWinner \in {"none", "good", "wolf"}
  BY DEF CheckWinner

(* A queue of dead players stays one when more players die. *)
LEMMA DeadStayDead ==
  ASSUME NEW S, NEW T, S \subseteq T, NEW s \in Seq(S)
  PROVE  s \in Seq(T)
  BY SeqMonotonic

LEMMA SingleDead ==
  ASSUME NEW S, NEW p \in S
  PROVE  <<p>> \in Seq(S)
  OBVIOUS

LEMMA PairDead ==
  ASSUME NEW S, NEW p \in S, NEW q \in S
  PROVE  <<p, q>> \in Seq(S)
  OBVIOUS

LEMMA LineOfDead ==
  ASSUME NEW n \in Nat, NEW S, NEW T, S \subseteq T, NEW s \in [1..n -> S]
  PROVE  s \in Seq(T) /\ Len(s) = n /\ (n # 0 => s # <<>>)
  <1>1. s \in Seq(S) /\ Len(s) = n
    BY IsASeq
  <1> QED
    BY <1>1, DeadStayDead

(* The players of one night who die are put in order of seats. *)
LEMMA FewDead ==
  ASSUME TypeOK
  PROVE  /\ Knifed \cup ({night.poison} \cap alive) \subseteq alive
         /\ IsFiniteSet(Knifed \cup ({night.poison} \cap alive))
  <1>1. Knifed \subseteq alive
    BY DEF Knifed
  <1>2. alive \subseteq Seats
    BY DEF TypeOK
  <1> QED
    BY <1>1, <1>2, DealsAssumption, FS_Subset

(* Setting out, nothing is wrong with the types. *)
LEMMA TypeInit == Init => TypeInv
  <1> SUFFICES ASSUME Init PROVE TypeInv
    OBVIOUS
  <1>1. PICK d \in Deals : board = d[1] /\ rules = d[2]
    BY DEF Init
  <1>2. <<board, rules>> \in Deals
    BY <1>1, DealsAssumption
  <1>3. <<>> \in Seq(Seats \ alive)
    OBVIOUS
  <1>4. alive = Seats /\ cause \in [Seats -> Causes]
    BY DEF Init, Causes
  <1>5. words \in Seq(Seats \ alive) /\ pending \in Seq(Seats \ alive)
    BY <1>3 DEF Init
  <1>6. phase \in Phases /\ round \in 1..3 /\ winner \in {"none", "good", "wolf"} /\ after \in Afters
    BY DEF Init, Phases, NightPhases, Afters
  <1>7. night \in [guard : SeatOrNone, kill : SeatOrNone, saved : BOOLEAN, poison : SeatOrNone]
    BY DEF Init, NoNight, SeatOrNone
  <1>8. campaign \in 0..2 /\ boom \in SeatOrNone \X SeatOrNone
    BY DEF Init, SeatOrNone
  <1>9. Waits
    BY DEF Init, Waits, Settling
  <1> QED
    BY <1>2, <1>4, <1>5, <1>6, <1>7, <1>8, <1>9 DEF Init, TypeInv, TypeOK, SeatOrNone

LEMMA TypeNight ==
  ASSUME TypeInv, Night
  PROVE  TypeInv'
  <1> USE DEF setup, players, sheriffs, skills, queue, history, SeatOrNone
  <1>1. ASSUME NEW p \in Seats \cup {NoSeat}, Guard(p) PROVE TypeInv'
    BY <1>1 DEF Guard, TypeInv, TypeOK, Waits, Settling, Phases, NightPhases
  <1>2. ASSUME NEW p \in Seats \cup {NoSeat}, Knife(p) PROVE TypeInv'
    BY <1>2 DEF Knife, TypeInv, TypeOK, Waits, Settling, Phases, NightPhases
  <1>3. ASSUME NEW p \in Seats \cup {NoSeat}, Silence(p) PROVE TypeInv'
    BY <1>3 DEF Silence, TypeInv, TypeOK, Waits, Settling, Phases, NightPhases
  <1>4. ASSUME NEW p \in Seats, Poison(p) PROVE TypeInv'
    BY <1>4 DEF Poison, TypeInv, TypeOK, Waits, Settling, Phases, NightPhases
  <1>5. CASE Save
    <2>1. potions' \subseteq {"save", "poison"} /\ phase' \in {"witch", "elder"}
      BY <1>5 DEF Save, TypeInv, TypeOK
    <2>2. night' \in [guard : SeatOrNone, kill : SeatOrNone, saved : BOOLEAN, poison : SeatOrNone]
      BY <1>5 DEF Save, TypeInv, TypeOK
    <2> QED
      BY <1>5, <2>1, <2>2 DEF Save, TypeInv, TypeOK, Waits, Settling, Phases, NightPhases
  <1>6. CASE WitchDone
    BY <1>6 DEF WitchDone, TypeInv, TypeOK, Waits, Settling, Phases, NightPhases
  <1>7. CASE EndNight
    <2> DEFINE dead == Knifed \cup ({night.poison} \cap alive)
    <2>1. dead \subseteq Seats /\ Cardinality(dead) \in Nat /\ (dead # {} => Cardinality(dead) # 0)
      BY FewDead, FS_CardinalityType, FS_EmptySet DEF TypeInv, TypeOK
    <2>2. PICK order \in [1..Cardinality(dead) -> dead] :
            pending' = order /\ words' \in {order, <<>>} /\ (phase' = "words" => words' = order)
      BY <1>7 DEF EndNight
    <2>3. alive' = alive \ dead /\ order \in Seq(Seats \ alive') /\ Len(order) = Cardinality(dead)
      <3>1. alive' = alive \ dead
        BY <1>7 DEF EndNight
      <3>2. dead \subseteq Seats \ alive'
        BY <2>1, <3>1
      <3> HIDE DEF dead
      <3> QED
        BY <2>1, <3>1, <3>2, LineOfDead
    <2>4. phase' \in {"words", "effects"} /\ (phase' = "words" => dead # {})
      BY <1>7 DEF EndNight
    <2>5. pending' \in Seq(Seats \ alive') /\ words' \in Seq(Seats \ alive')
      <3>1. <<>> \in Seq(Seats \ alive')
        OBVIOUS
      <3> QED
        BY <2>2, <2>3, <3>1
    <2>6. phase' = "words" => words' # <<>>
      BY <2>1, <2>2, <2>3, <2>4
    <2>7. cause' \in [Seats -> Causes]
      BY <1>7 DEF EndNight, TypeInv, TypeOK, Causes
    <2>8. after' = "day" /\ night' = NoNight /\ processed' = {} /\ yesterday' = NoSeat
          /\ UNCHANGED <<setup, round, winner, revealed, shot_used, sheriffs, skills,
                         exiled, tied, boom, asked>>
      BY <1>7 DEF EndNight
    <2> HIDE DEF dead
    <2> QED
      BY <2>1, <2>3, <2>4, <2>5, <2>6, <2>7, <2>8
         DEF TypeInv, TypeOK, Waits, Phases, DayPhases, Settling, NoNight, Afters
  <1> QED
    BY <1>1, <1>2, <1>3, <1>4, <1>5, <1>6, <1>7 DEF Night

LEMMA DetonatedType ==
  ASSUME TypeOK, NEW w \in Seats, NEW t \in Seats \cup {NoSeat}, Detonated(w, t)
  PROVE  /\ alive' \subseteq alive /\ cause' \in [Seats -> Causes]
         /\ pending' \in Seq(Seats \ alive') /\ words \in Seq(Seats \ alive')
         /\ processed' = {} /\ after' = "boom" /\ phase' = "effects" /\ tied' = {}
  <1> DEFINE taken == {p \in {t} : Role(w) = "white_king" /\ p \in alive \ {w}}
  <1>1. alive' = alive \ ({w} \cup taken) /\ w \in Seats \ alive'
    BY DEF Detonated
  <1>2. pending' \in Seq(Seats \ alive')
    <2>1. CASE taken = {}
      BY <1>1, <2>1 DEF Detonated
    <2>2. CASE taken # {}
      <3>1. t \in Seats \ alive'
        BY <1>1, <2>2 DEF TypeOK
      <3>2. pending' = <<w, t>>
        BY <2>2 DEF Detonated
      <3> QED
        BY <1>1, <3>1, <3>2
    <2> QED
      BY <2>1, <2>2
  <1>3. words \in Seq(Seats \ alive')
    <2>1. words \in Seq(Seats \ alive) /\ Seats \ alive \subseteq Seats \ alive'
      BY <1>1 DEF TypeOK
    <2> QED
      BY <2>1, DeadStayDead
  <1>4. cause' \in [Seats -> Causes]
    BY DEF Detonated, TypeOK, Causes
  <1> QED
    BY <1>1, <1>2, <1>3, <1>4 DEF Detonated

LEMMA KillType ==
  ASSUME TypeOK, NEW p \in Seats, NEW c \in Causes, Kill({p}, c)
  PROVE  /\ alive' = alive \ {p} /\ cause' \in [Seats -> Causes]
         /\ p \in Seats \ alive' /\ <<p>> \in Seq(Seats \ alive')
         /\ words \in Seq(Seats \ alive') /\ pending \in Seq(Seats \ alive')
         /\ Append(pending, p) \in Seq(Seats \ alive') /\ Append(pending, p) # <<>>
         /\ processed \subseteq Seats \ alive'
  <1>1. alive' = alive \ {p} /\ p \in Seats \ alive' /\ Seats \ alive \subseteq Seats \ alive'
    BY DEF Kill
  <1>2. words \in Seq(Seats \ alive') /\ pending \in Seq(Seats \ alive')
    BY <1>1, DeadStayDead DEF TypeOK
  <1>3. Append(pending, p) \in Seq(Seats \ alive') /\ Append(pending, p) # <<>>
    BY <1>1, <1>2, AppendProperties
  <1>4. cause' \in [Seats -> Causes]
    BY DEF Kill, TypeOK
  <1> QED
    BY <1>1, <1>2, <1>3, <1>4 DEF TypeOK

LEMMA TypeDetonations ==
  ASSUME TypeInv
  PROVE  /\ \A w \in Seats, t \in Seats \cup {NoSeat} :
              DetonateInWords(w, t) \/ Detonate(w, t) => TypeInv'
         /\ DetonateAfterWords => TypeInv'
  <1> USE DEF setup, players, sheriffs, skills, queue, history
  <1>1. ASSUME NEW w \in Seats, NEW t \in Seats \cup {NoSeat}, DetonateInWords(w, t)
        PROVE  TypeInv'
    <2>1. <<>> \in Seq(Seats \ alive)
      OBVIOUS
    <2>2. boom' \in SeatOrNone \X SeatOrNone /\ boom'[1] \in Seats
      BY <1>1 DEF DetonateInWords, SeatOrNone
    <2> QED
      BY <1>1, <2>1, <2>2 DEF DetonateInWords, TypeInv, TypeOK, Waits, Settling, Phases, DayPhases, Afters
  <1>2. ASSUME NEW w \in Seats, NEW t \in Seats \cup {NoSeat}, Detonate(w, t)
        PROVE  TypeInv'
    <2>1. Detonated(w, t)
      BY <1>2 DEF Detonate
    <2> QED
      BY <1>2, <2>1, DetonatedType
         DEF Detonate, TypeInv, TypeOK, Waits, Settling, Phases, DayPhases, Afters
  <1>3. CASE DetonateAfterWords
    <2>1. boom[1] \in Seats /\ boom[2] \in Seats \cup {NoSeat} /\ Detonated(boom[1], boom[2])
      BY <1>3 DEF DetonateAfterWords, Settled, TypeInv, TypeOK, Waits, Settling, SeatOrNone
    <2>2. boom' \in SeatOrNone \X SeatOrNone
      BY <1>3 DEF DetonateAfterWords, SeatOrNone
    <2> QED
      BY <1>3, <2>1, <2>2, DetonatedType
         DEF DetonateAfterWords, TypeInv, TypeOK, Waits, Settling, Phases, DayPhases, Afters
  <1> QED
    BY <1>1, <1>2, <1>3

(* The settlement of deaths *)
LEMMA TypeSettlement ==
  ASSUME TypeInv,
         \/ EndWords \/ SkipShooter \/ AskShooter \/ PassBy \/ NoShot \/ TearBadge
         \/ \E p \in Seats : Shoot(p) \/ PassBadge(p)
  PROVE  TypeInv'
  <1> USE DEF setup, players, sheriffs, skills, queue, history
  <1>1. pending # <<>> => /\ Dead \in Seats \ alive
                          /\ Tail(pending) \in Seq(Seats \ alive)
    BY HeadTailProperties, ElementOfSeq DEF Dead, TypeInv, TypeOK
  <1>2. CASE EndWords
    <2>1. Tail(words) \in Seq(Seats \ alive)
      BY <1>2, HeadTailProperties DEF EndWords, TypeInv, TypeOK, Waits
    <2> QED
      BY <1>2, <2>1 DEF EndWords, TypeInv, TypeOK, Waits, Settling, Phases, DayPhases
  <1>3. CASE SkipShooter
    BY <1>1, <1>3 DEF SkipShooter, TypeInv, TypeOK, Waits, Settling, Phases, DayPhases
  <1>4. CASE AskShooter
    BY <1>1, <1>4 DEF AskShooter, TypeInv, TypeOK, Waits, Settling, Phases, DayPhases
  <1>5. CASE PassBy
    <2>1. processed' \subseteq Seats \ alive
      BY <1>1, <1>5 DEF PassBy, TypeInv, TypeOK
    <2>2. \/ phase' = "badge" /\ pending' = pending /\ badge' = badge
          \/ phase' = "effects" /\ pending' = Tail(pending) /\ badge' = badge \ {Dead}
      BY <1>5 DEF PassBy, LeaveBadge
    <2>3. pending # <<>> /\ phase = "effects"
      BY <1>5 DEF PassBy
    <2> QED
      BY <1>1, <1>5, <2>1, <2>2, <2>3 DEF PassBy, TypeInv, TypeOK, Waits, Settling, Phases, DayPhases
  <1>6. CASE NoShot
    <2>1. \/ phase' = "badge" /\ pending' = pending /\ badge' = badge
          \/ phase' = "effects" /\ pending' = Tail(pending) /\ badge' = badge \ {Dead}
      BY <1>6 DEF NoShot, LeaveBadge
    <2>2. pending # <<>> /\ phase = "shot"
      BY <1>6 DEF NoShot, TypeInv, Waits
    <2> QED
      BY <1>1, <1>6, <2>1, <2>2 DEF NoShot, TypeInv, TypeOK, Waits, Settling, Phases, DayPhases
  <1>7. CASE TearBadge
    BY <1>1, <1>7 DEF TearBadge, TypeInv, TypeOK, Waits, Settling, Phases, DayPhases
  <1>8. ASSUME NEW p \in Seats, Shoot(p) PROVE TypeInv'
    <2>1. Kill({p}, "shot") /\ "shot" \in Causes /\ phase = "shot"
      BY <1>8 DEF Shoot, Causes
    <2>2. \/ phase' = "badge" /\ pending' = Append(pending, p) /\ badge' = badge
          \/ phase' = "effects" /\ pending' = Tail(Append(pending, p)) /\ badge' = badge \ {Dead}
      BY <1>8 DEF Shoot, LeaveBadge
    <2>3. pending' \in Seq(Seats \ alive') /\ (phase' = "badge" => pending' # <<>>)
      <3>1. Append(pending, p) \in Seq(Seats \ alive') /\ Append(pending, p) # <<>>
        BY <2>1, KillType DEF TypeInv
      <3>2. Tail(Append(pending, p)) \in Seq(Seats \ alive')
        <4> DEFINE q == Append(pending, p)
        <4>1. q \in Seq(Seats \ alive') /\ q # <<>>
          BY <3>1
        <4> HIDE DEF q
        <4>2. Tail(q) \in Seq(Seats \ alive')
          BY <4>1, HeadTailProperties
        <4> QED
          BY <4>2 DEF q
      <3> QED
        BY <2>2, <3>1, <3>2
    <2>4. /\ alive' \subseteq Seats /\ cause' \in [Seats -> Causes]
          /\ words \in Seq(Seats \ alive') /\ processed \subseteq Seats \ alive'
      BY <2>1, KillType DEF TypeInv, TypeOK
    <2>5. Dead \in Seats
      BY <1>1, <2>1 DEF TypeInv, Waits
    <2>6. phase' \in {"badge", "effects"} /\ badge' \subseteq Seats /\ shot_used' \subseteq Seats
      BY <1>8, <2>2, <2>5 DEF Shoot, TypeInv, TypeOK
    <2> QED
      BY <1>8, <2>1, <2>3, <2>4, <2>6 DEF Shoot, TypeInv, TypeOK, Waits, Settling, Phases, DayPhases
  <1>9. ASSUME NEW p \in Seats, PassBadge(p) PROVE TypeInv'
    BY <1>1, <1>9 DEF PassBadge, TypeInv, TypeOK, Waits, Settling, Phases, DayPhases
  <1> QED
    BY <1>2, <1>3, <1>4, <1>5, <1>6, <1>7, <1>8, <1>9

LEMMA ConcludeType ==
  ASSUME TypeOK, Conclude
  PROVE  /\ winner' \in {"none", "good", "wolf"} /\ round' \in 1..3 /\ phase' \in {"guard", "ended"}
  BY WinnerType DEF Conclude, TypeOK

LEMMA TypeBetween ==
  ASSUME TypeInv,
         DayBreaks \/ DetonationEndsDay \/ DeathEndsDay \/ SpeechesGoOn
  PROVE  TypeInv'
  <1> USE DEF setup, players, sheriffs, skills, queue, history
  <1>1. CASE DayBreaks
    <2>1. winner' \in {"none", "good", "wolf"} /\ phase' \in {"speech", "register", "ended"}
      BY <1>1, WinnerType DEF DayBreaks, StartSpeeches
    <2>2. exiled' \in SeatOrNone /\ tied' \subseteq Seats
      BY <1>1 DEF DayBreaks, StartSpeeches, TypeInv, TypeOK, SeatOrNone
    <2> QED
      BY <1>1, <2>1, <2>2 DEF DayBreaks, TypeInv, TypeOK, Waits, Settling, Phases, DayPhases,
         CampaignPhases, Speeches
  <1>2. CASE DetonationEndsDay
    <2>1. running' \subseteq Seats /\ campaign' \in 0..2
      BY <1>2 DEF DetonationEndsDay, Postpone, TypeInv, TypeOK
    <2> QED
      BY <1>2, <2>1, ConcludeType DEF DetonationEndsDay, TypeInv, TypeOK, Waits, Settling, Phases,
         NightPhases
  <1>3. CASE DeathEndsDay
    BY <1>3, ConcludeType DEF DeathEndsDay, TypeInv, TypeOK, Waits, Settling, Phases, NightPhases
  <1>4. CASE SpeechesGoOn
    <2>1. winner' \in {"none", "good", "wolf"} /\ phase' \in Speeches \cup {"ended"}
      BY <1>4, WinnerType DEF SpeechesGoOn, Settled
    <2> QED
      BY <1>4, <2>1 DEF SpeechesGoOn, TypeInv, TypeOK, Waits, Settling, Phases, DayPhases, Speeches
  <1> QED
    BY <1>1, <1>2, <1>3, <1>4

LEMMA TypeDuel ==
  ASSUME TypeInv, NEW k \in Seats, NEW t \in Seats, Duel(k, t)
  PROVE  TypeInv'
  <1> USE DEF setup, players, sheriffs, skills, queue, history
  <1>1. PICK p \in {k, t} : Kill({p}, "out") /\ pending' = <<p>>
    BY DEF Duel
  <1>2. after' \in Afters /\ after' # "cut" /\ tied' \subseteq Seats /\ "out" \in Causes
    BY DEF Duel, Afters, Speeches, TypeInv, TypeOK, Causes
  <1>3. /\ alive' \subseteq Seats /\ cause' \in [Seats -> Causes]
        /\ words \in Seq(Seats \ alive') /\ pending' \in Seq(Seats \ alive')
    BY <1>1, <1>2, KillType DEF TypeInv, TypeOK
  <1> QED
    BY <1>2, <1>3 DEF Duel, TypeInv, TypeOK, Waits, Settling, Phases, DayPhases

(* The campaign *)
LEMMA EndCampaignType ==
  ASSUME EndCampaign
  PROVE  campaign' = 0 /\ running' = {} /\ exiled' = NoSeat /\ tied' = {}
         /\ phase' = "speech"
  BY DEF EndCampaign, StartSpeeches

LEMMA TypeCampaign ==
  ASSUME TypeInv,
         \/ CloseRegister \/ EndSheriffSpeech \/ EndFinalSpeech
         \/ \E p \in Seats : Run(p) \/ Withdraw(p)
         \/ \E T \in SUBSET Seats : SheriffVote(T) \/ Revote(T)
  PROVE  TypeInv'
  <1> USE DEF setup, players, sheriffs, skills, queue, history
  <1>1. CASE CloseRegister \/ EndSheriffSpeech \/ EndFinalSpeech
    <2>1. UNCHANGED <<setup, round, winner, players, badge, elected, skills, night, words, queue,
                      asked, yesterday>>
      BY <1>1 DEF CloseRegister, EndSheriffSpeech, EndFinalSpeech
    <2>2. \/ EndCampaign
          \/ /\ phase' \in {"sheriff_speech", "sheriff_vote", "revote"}
             /\ UNCHANGED <<running, campaign, exiled, tied>>
      BY <1>1 DEF CloseRegister, EndSheriffSpeech, EndFinalSpeech
    <2>3. /\ phase' \in {"sheriff_speech", "sheriff_vote", "revote", "speech"}
          /\ running' \subseteq Seats /\ campaign' \in 0..2 /\ exiled' \in SeatOrNone
          /\ tied' \subseteq Seats
      <3>1. CASE EndCampaign
        BY <3>1, EndCampaignType DEF SeatOrNone
      <3>2. CASE ~EndCampaign
        BY <2>2, <3>2 DEF TypeInv, TypeOK
      <3> QED
        BY <3>1, <3>2
    <2> QED
      BY <2>1, <2>3 DEF TypeInv, TypeOK, Waits, Settling, Phases, DayPhases, CampaignPhases, Speeches
  <1>4. ASSUME NEW p \in Seats, Run(p) \/ Withdraw(p) PROVE TypeInv'
    BY <1>4 DEF Run, Withdraw, TypeInv, TypeOK, Waits
  <1>5. ASSUME NEW T \in SUBSET Seats, SheriffVote(T) \/ Revote(T) PROVE TypeInv'
    <2>1. /\ UNCHANGED <<setup, round, winner, players, skills, night, words, queue, asked, yesterday>>
          /\ T \subseteq Seats
      BY <1>5 DEF SheriffVote, Revote
    <2>2. badge' \subseteq Seats /\ elected' \in BOOLEAN
      <3>1. \/ \E p \in T : Elect(p)
            \/ UNCHANGED <<badge, elected>>
        BY <1>5 DEF SheriffVote, Revote
      <3> QED
        BY <3>1 DEF Elect, TypeInv, TypeOK
    <2>3. \/ EndCampaign
          \/ phase' = "final_speech" /\ tied' = T /\ UNCHANGED <<running, campaign, exiled>>
      BY <1>5 DEF SheriffVote, Revote
    <2>4. /\ phase' \in {"final_speech", "speech"} /\ tied' \subseteq Seats
          /\ running' \subseteq Seats /\ campaign' \in 0..2 /\ exiled' \in SeatOrNone
      <3>1. CASE EndCampaign
        BY <3>1, EndCampaignType DEF SeatOrNone
      <3>2. CASE ~EndCampaign
        BY <2>1, <2>3, <3>2 DEF TypeInv, TypeOK
      <3> QED
        BY <3>1, <3>2
    <2> QED
      BY <2>1, <2>2, <2>4 DEF TypeInv, TypeOK, Waits, Settling, Phases, DayPhases,
         CampaignPhases, Speeches
  <1> QED
    BY <1>1, <1>4, <1>5

(* A ballot on an exile, and what follows from it: nothing, the second    *)
(* ballot, or a death and last words.                                      *)
LEMMA Ballot ==
  ASSUME TypeInv, NEW T \in SUBSET Seats, Vote(T) \/ PkVote(T)
  PROVE  \/ /\ Conclude
            /\ UNCHANGED <<alive, cause, exiled, words, pending, processed, after, yesterday>>
            /\ revealed' \subseteq Seats
         \/ /\ phase' = "pk_speech"
            /\ UNCHANGED <<round, winner, alive, cause, revealed, exiled, words,
                           pending, processed, after, yesterday>>
         \/ \E s \in T : /\ s \in alive /\ Kill({s}, "out")
                         /\ exiled' = s /\ yesterday' = s
                         /\ words' = <<s>> /\ pending' = <<s>> /\ processed' = {} /\ after' = "exile"
                         /\ phase' = "words"
                         /\ UNCHANGED <<round, winner, revealed>>
  <1>1. T \subseteq alive
    BY DEF Vote, PkVote, Outcomes
  <1>2. revealed \subseteq Seats
    BY DEF TypeInv, TypeOK
  <1>3. CASE NoExile
    BY <1>2, <1>3 DEF NoExile
  <1>4. CASE \E s \in T : Exile(s)
    BY <1>1, <1>2, <1>4 DEF Exile
  <1>5. CASE phase' = "pk_speech" /\ UNCHANGED <<round, winner, alive, cause, revealed, exiled,
                                            words, pending, processed, after, yesterday>>
    BY <1>5
  <1> QED
    BY <1>3, <1>4, <1>5 DEF Vote, PkVote

LEMMA TypeVotes ==
  ASSUME TypeInv,
         EndSpeeches \/ \E T \in SUBSET Seats : Vote(T) \/ PkVote(T)
  PROVE  TypeInv'
  <1> USE DEF setup, players, sheriffs, skills, queue, history
  <1>1. CASE EndSpeeches
    BY <1>1 DEF EndSpeeches, TypeInv, TypeOK, Waits, Settling, Phases, DayPhases
  <1>2. ASSUME NEW T \in SUBSET Seats, Vote(T) \/ PkVote(T) PROVE TypeInv'
    <2>1. tied' \subseteq Seats /\ UNCHANGED <<setup, shot_used, sheriffs, skills, night, boom, asked>>
      BY <1>2 DEF Vote, PkVote
    <2>2. CASE /\ Conclude
               /\ UNCHANGED <<alive, cause, exiled, words, pending, processed, after, yesterday>>
               /\ revealed' \subseteq Seats
      BY <2>1, <2>2, ConcludeType DEF TypeInv, TypeOK, Waits, Settling, Phases, NightPhases
    <2>3. CASE /\ phase' = "pk_speech"
               /\ UNCHANGED <<round, winner, alive, cause, revealed, exiled, words,
                              pending, processed, after, yesterday>>
      BY <2>1, <2>3 DEF TypeInv, TypeOK, Waits, Settling, Phases, DayPhases, Speeches
    <2>4. ASSUME NEW s \in T, Kill({s}, "out"),
                 exiled' = s /\ yesterday' = s,
                 words' = <<s>> /\ pending' = <<s>> /\ processed' = {} /\ after' = "exile",
                 phase' = "words" /\ UNCHANGED <<round, winner, revealed>>
          PROVE  TypeInv'
      <3>1. /\ alive' \subseteq Seats /\ cause' \in [Seats -> Causes]
            /\ <<s>> \in Seq(Seats \ alive') /\ <<s>> # <<>>
        BY <2>4, KillType DEF Causes, TypeInv, TypeOK
      <3> QED
        BY <2>1, <2>4, <3>1
           DEF TypeInv, TypeOK, Waits, Settling, Phases, DayPhases, Afters, SeatOrNone
    <2> QED
      BY <1>2, <2>2, <2>3, <2>4, Ballot
  <1> QED
    BY <1>1, <1>2

LEMMA TypeStep == TypeInv /\ [Next]_vars => TypeInv'
  <1> SUFFICES ASSUME TypeInv, [Next]_vars PROVE TypeInv'
    OBVIOUS
  <1>1. CASE Cancel
    BY <1>1 DEF Cancel, setup, players, sheriffs, skills, queue, history, TypeInv, TypeOK, Waits,
       Settling, Phases
  <1>2. CASE UNCHANGED vars
    BY <1>2 DEF vars, setup, players, sheriffs, skills, queue, history, TypeInv, TypeOK, Waits
  <1> QED
    BY <1>1, <1>2, TypeNight, TypeDetonations, TypeSettlement, TypeBetween, TypeDuel, TypeCampaign,
       TypeVotes DEF Next, Moves, Expire

(* Every variable of the game keeps its type, and whoever waits to be      *)
(* settled or to speak last words has died.                                *)
THEOREM TypeCorrect == Spec => []TypeOK
  <1>1. Spec => []TypeInv
    BY TypeInit, TypeStep, PTL DEF Spec
  <1>2. TypeInv => TypeOK
    BY DEF TypeInv
  <1> QED
    BY <1>1, <1>2, PTL

-----------------------------------------------------------------------------
(* The steps of the game, as far as deaths are concerned *)

Queued(q) == {q[i] : i \in 1..Len(q)}

(* Nobody dies and nobody is settled, *)
Quiet ==
    /\ UNCHANGED <<board, alive, cause, shot_used, asked, pending, processed>>
    /\ phase' \notin {"shot", "badge"}
    /\ phase' \in Settlement \/ phase \notin Settlement \/ (phase = "effects" /\ pending = <<>>)
    /\ phase' = "words" => phase = "words"
    /\ phase' = "effects" => phase \in {"words", "effects"}

(* somebody dies when nobody is left to be settled, and all the dead are   *)
(* queued,                                                                 *)
Deaths ==
    /\ UNCHANGED <<board, shot_used, asked, badge>>
    /\ phase \notin Settlement \/ (phase = "effects" /\ pending = <<>>)
    /\ phase' \in {"words", "effects"} /\ processed' = {}
    /\ alive' \subseteq alive
    /\ \A p \in Seats \ alive : cause'[p] = cause[p]
    /\ \A p \in alive : cause'[p] = "shot" => cause[p] = "shot"
    /\ alive \ alive' \subseteq Queued(pending')

(* or the queue is settled. *)
Settles ==
    \/ SkipShooter \/ AskShooter \/ PassBy \/ NoShot \/ TearBadge
    \/ \E p \in Seats : Shoot(p) \/ PassBadge(p)

LEMMA OneQueued ==
  ASSUME NEW p
  PROVE  p \in Queued(<<p>>)
  BY DEF Queued

LEMMA InOrder ==
  ASSUME NEW S, IsFiniteSet(S), S \subseteq Nat, NEW s \in [1..Cardinality(S) -> S],
         \A i, j \in DOMAIN s : i < j => s[i] < s[j]
  PROVE  S \subseteq Queued(s)
  <1>1. Cardinality(S) \in Nat
    BY FS_CardinalityType
  <1> DEFINE n == Cardinality(S)
  <1>2. IsFiniteSet(1..n) /\ Cardinality(1..n) = n
    BY <1>1, FS_Interval
  <1>3. \A i, j \in 1..n : i # j => s[i] # s[j]
    <2> SUFFICES ASSUME NEW i \in 1..n, NEW j \in 1..n, i # j PROVE s[i] # s[j]
      OBVIOUS
    <2>1. s[i] \in S /\ s[j] \in S
      OBVIOUS
    <2>2. s[i] \in Nat /\ s[j] \in Nat
      BY <2>1
    <2>3. i < j \/ j < i
      BY <1>1
    <2>4. s[i] < s[j] \/ s[j] < s[i]
      BY <2>3
    <2> HIDE DEF n
    <2> QED
      BY <2>2, <2>4
  <1>4. s \in Injection(1..n, S)
    BY <1>3 DEF Injection, IsInjective
  <1>5. s \in Surjection(1..n, S)
    BY <1>2, <1>4, FS_Injection
  <1>6. \A x \in S : \E i \in 1..n : s[i] = x
    BY <1>5 DEF Surjection
  <1>7. Len(s) = n
    BY <1>1, IsASeq
  <1> QED
    BY <1>6, <1>7 DEF Queued

LEMMA NightDeaths ==
  ASSUME TypeInv, EndNight
  PROVE  Deaths
  <1> USE DEF setup, players, sheriffs, skills, queue, history
  <1> DEFINE dead == Knifed \cup ({night.poison} \cap alive)
  <1>1. dead \subseteq alive /\ IsFiniteSet(dead) /\ alive \subseteq Seats
    BY FewDead DEF TypeInv, TypeOK
  <1>2. dead \subseteq Nat
    BY <1>1, DealsAssumption
  <1>3. PICK s \in [1..Cardinality(dead) -> dead] :
          (\A i, j \in DOMAIN s : i < j => s[i] < s[j]) /\ pending' = s
    BY DEF EndNight
  <1>4. dead \subseteq Queued(pending')
    <2> HIDE DEF dead
    <2> QED
      BY <1>1, <1>2, <1>3, InOrder
  <1>5. alive' = alive \ dead /\ phase' \in {"words", "effects"} /\ processed' = {}
    BY DEF EndNight
  <1>6. \A p \in Seats : cause'[p] = IF p \notin dead THEN cause[p]
                                     ELSE IF p = night.poison THEN "poison" ELSE "knife"
    BY DEF EndNight
  <1>7. phase \notin Settlement /\ UNCHANGED <<board, shot_used, asked, badge>>
    BY DEF EndNight, Settlement, Settling
  <1> HIDE DEF dead
  <1> QED
    BY <1>1, <1>4, <1>5, <1>6, <1>7 DEF Deaths

LEMMA BoomDeaths ==
  ASSUME TypeInv, NEW w \in Seats, NEW t \in Seats \cup {NoSeat}, Detonated(w, t),
         UNCHANGED <<board, shot_used, asked, badge>>,
         phase \notin Settlement \/ (phase = "effects" /\ pending = <<>>)
  PROVE  Deaths
  <1> DEFINE taken == {p \in {t} : Role(w) = "white_king" /\ p \in alive \ {w}}
  <1>1. alive' = alive \ ({w} \cup taken) /\ phase' = "effects" /\ processed' = {}
    BY DEF Detonated
  <1>2. alive \subseteq Seats
    BY DEF TypeInv, TypeOK
  <1>3. \A p \in Seats : cause'[p] = IF p \in taken THEN "out"
                                     ELSE IF p = w /\ w \in alive THEN "boom" ELSE cause[p]
    BY DEF Detonated
  <1>4. {w} \cup taken \subseteq Queued(pending')
    <2>1. CASE taken = {}
      BY <2>1 DEF Detonated, Queued
    <2>2. CASE taken # {}
      <3>1. pending' = <<w, t>> /\ taken = {t}
        BY <2>2 DEF Detonated
      <3>2. <<w, t>>[1] = w /\ <<w, t>>[2] = t /\ Len(<<w, t>>) = 2
        OBVIOUS
      <3>3. w \in Queued(<<w, t>>) /\ t \in Queued(<<w, t>>)
        BY <3>2 DEF Queued
      <3> QED
        BY <3>1, <3>3
    <2> QED
      BY <2>1, <2>2
  <1>5. \A p \in Seats \ alive : cause'[p] = cause[p]
    BY <1>3
  <1>6. \A p \in alive : cause'[p] = "shot" => cause[p] = "shot"
    BY <1>2, <1>3
  <1> HIDE DEF taken
  <1> QED
    BY <1>1, <1>4, <1>5, <1>6 DEF Deaths

LEMMA OneDeath ==
  ASSUME TypeInv, NEW p \in Seats, Kill({p}, "out"), pending' = <<p>>, processed' = {},
         phase \notin Settlement, phase' \in {"words", "effects"}, p \in alive,
         UNCHANGED <<board, shot_used, asked, badge>>
  PROVE  Deaths
  BY OneQueued DEF Kill, Deaths, TypeInv, TypeOK

LEMMA Shapes ==
  ASSUME TypeInv, Next
  PROVE  Quiet \/ Deaths \/ Settles
  <1> USE DEF setup, players, sheriffs, skills, queue, history, Settlement, Settling
  <1>1. ASSUME NEW p \in Seats \cup {NoSeat}, Guard(p) \/ Knife(p) \/ Silence(p) PROVE Quiet
    BY <1>1 DEF Guard, Knife, Silence, Quiet
  <1>2. ASSUME NEW p \in Seats, Poison(p) PROVE Quiet
    BY <1>2 DEF Poison, Quiet
  <1>3. Save \/ WitchDone => Quiet
    BY DEF Save, WitchDone, Quiet
  <1>4. EndNight => Deaths
    BY NightDeaths
  <1>5. ASSUME NEW w \in Seats, NEW t \in Seats \cup {NoSeat}, DetonateInWords(w, t) PROVE Quiet
    BY <1>5 DEF DetonateInWords, Quiet
  <1>6. ASSUME NEW w \in Seats, NEW t \in Seats \cup {NoSeat}, Detonate(w, t) PROVE Deaths
    <2>1. Detonated(w, t) /\ phase \notin Settlement /\ UNCHANGED <<board, shot_used, asked, badge>>
      BY <1>6 DEF Detonate, DayPhases, CampaignPhases, Speeches
    <2> QED
      BY <2>1, BoomDeaths
  <1>7. CASE DetonateAfterWords
    <2>1. boom[1] \in Seats /\ boom[2] \in Seats \cup {NoSeat} /\ Detonated(boom[1], boom[2])
      BY <1>7 DEF DetonateAfterWords, Settled, TypeInv, TypeOK, Waits, SeatOrNone
    <2>2. phase = "effects" /\ pending = <<>> /\ UNCHANGED <<board, shot_used, asked, badge>>
      BY <1>7 DEF DetonateAfterWords, Settled
    <2> QED
      BY <2>1, <2>2, BoomDeaths
  <1>8. ASSUME NEW k \in Seats, NEW t \in Seats, Duel(k, t) PROVE Deaths
    <2>1. PICK p \in {k, t} : Kill({p}, "out") /\ pending' = <<p>> /\ p \in alive
      BY <1>8 DEF Duel, Living
    <2>2. processed' = {} /\ phase \notin Settlement /\ phase' = "effects"
          /\ UNCHANGED <<board, shot_used, asked, badge>>
      BY <1>8 DEF Duel, Speeches
    <2> QED
      BY <2>1, <2>2, OneDeath
  <1>9. EndWords => Quiet
    BY DEF EndWords, Quiet
  <1>10. DayBreaks \/ DetonationEndsDay \/ DeathEndsDay \/ SpeechesGoOn => Quiet
    <2>1. DayBreaks => Quiet
      BY DEF DayBreaks, Settled, StartSpeeches, Quiet
    <2>2. DetonationEndsDay => Quiet
      BY DEF DetonationEndsDay, Settled, Conclude, Quiet
    <2>3. DeathEndsDay => Quiet
      BY DEF DeathEndsDay, Settled, Conclude, Quiet
    <2>4. SpeechesGoOn => Quiet
      BY DEF SpeechesGoOn, Settled, Speeches, Quiet
    <2> QED
      BY <2>1, <2>2, <2>3, <2>4
  <1>11. CloseRegister \/ EndSheriffSpeech \/ EndFinalSpeech \/ EndSpeeches => Quiet
    BY DEF CloseRegister, EndSheriffSpeech, EndFinalSpeech, EndSpeeches, EndCampaign, StartSpeeches,
       Speeches, Quiet
  <1>12. ASSUME NEW p \in Seats, Run(p) \/ Withdraw(p) PROVE Quiet
    BY <1>12 DEF Run, Withdraw, Quiet
  <1>13. ASSUME NEW T \in SUBSET Seats, SheriffVote(T) \/ Revote(T) PROVE Quiet
    BY <1>13 DEF SheriffVote, Revote, EndCampaign, StartSpeeches, Quiet
  <1>14. ASSUME NEW T \in SUBSET Seats, Vote(T) \/ PkVote(T) PROVE Quiet \/ Deaths
    <2>1. phase \notin Settlement /\ UNCHANGED <<board, shot_used, badge, asked>>
      BY <1>14 DEF Vote, PkVote
    <2>2. CASE Conclude /\ UNCHANGED <<alive, cause, pending, processed>>
      BY <2>1, <2>2 DEF Conclude, Quiet
    <2>3. CASE phase' = "pk_speech" /\ UNCHANGED <<alive, cause, pending, processed>>
      BY <2>1, <2>3 DEF Quiet
    <2>4. ASSUME NEW s \in T, s \in alive, Kill({s}, "out"), pending' = <<s>>, processed' = {},
                 phase' = "words"
          PROVE  Deaths
      BY <2>1, <2>4, OneDeath
    <2> QED
      BY <1>14, <2>2, <2>3, <2>4, Ballot
  <1>15. Cancel => Quiet
    BY DEF Cancel, Quiet
  <1> QED
    BY <1>1, <1>2, <1>3, <1>4, <1>5, <1>6, <1>7, <1>8, <1>9, <1>10, <1>11, <1>12, <1>13, <1>14, <1>15
       DEF Next, Night, Moves, Expire, Settles

LEMMA QueueTail ==
  ASSUME NEW S, NEW q \in Seq(S), q # <<>>
  PROVE  /\ Head(q) \in S /\ Head(q) \in Queued(q)
         /\ Queued(Tail(q)) \subseteq Queued(q)
         /\ Queued(q) \subseteq Queued(Tail(q)) \cup {Head(q)}
  <1>1. Len(q) \in Nat /\ Len(q) >= 1 /\ Head(q) = q[1] /\ Head(q) \in S
    BY HeadTailProperties, LenProperties, EmptySeq
  <1>2. Len(Tail(q)) = Len(q) - 1 /\ \A i \in 1..(Len(q) - 1) : Tail(q)[i] = q[i + 1]
    BY HeadTailProperties
  <1>3. Head(q) \in Queued(q)
    BY <1>1 DEF Queued
  <1>4. ASSUME NEW i \in 1..Len(Tail(q)) PROVE Tail(q)[i] \in Queued(q)
    BY <1>1, <1>2, <1>4 DEF Queued
  <1>5. ASSUME NEW i \in 1..Len(q) PROVE q[i] \in Queued(Tail(q)) \cup {Head(q)}
    <2>1. CASE i = 1
      BY <1>1, <2>1
    <2>2. CASE i # 1
      <3>1. i - 1 \in 1..Len(Tail(q)) /\ Tail(q)[i - 1] = q[i]
        BY <1>1, <1>2, <2>2
      <3> QED
        BY <3>1 DEF Queued
    <2> QED
      BY <2>1, <2>2
  <1> QED
    BY <1>1, <1>3, <1>4, <1>5 DEF Queued

LEMMA QueueAppend ==
  ASSUME NEW S, NEW q \in Seq(S), NEW p \in S
  PROVE  /\ Queued(Append(q, p)) = Queued(q) \cup {p}
         /\ Append(q, p) \in Seq(S) /\ Append(q, p) # <<>>
         /\ q # <<>> => Head(Append(q, p)) = Head(q)
  <1>1. /\ Append(q, p) \in Seq(S) /\ Append(q, p) # <<>> /\ Len(Append(q, p)) = Len(q) + 1
        /\ \A i \in 1..Len(q) : Append(q, p)[i] = q[i]
        /\ Append(q, p)[Len(q) + 1] = p /\ Len(q) \in Nat
    BY AppendProperties, LenProperties
  <1>2. q # <<>> => Head(Append(q, p)) = Head(q)
    BY <1>1, EmptySeq, LenProperties
  <1>3. \A i \in 1..(Len(q) + 1) : i \in 1..Len(q) \/ i = Len(q) + 1
    BY <1>1
  <1>4. Len(q) + 1 \in 1..(Len(q) + 1) /\ 1..Len(q) \subseteq 1..(Len(q) + 1)
    BY <1>1
  <1>5. Queued(Append(q, p)) \subseteq Queued(q) \cup {p}
    BY <1>1, <1>3 DEF Queued
  <1>6. Queued(q) \cup {p} \subseteq Queued(Append(q, p))
    BY <1>1, <1>4 DEF Queued
  <1> QED
    BY <1>1, <1>2, <1>5, <1>6

LEMMA NoQueue == Queued(<<>>) = {}
  BY DEF Queued

(* A shot, and what it leaves in the queue *)
LEMMA ShotShape ==
  ASSUME TypeInv, NEW t \in Seats, Shoot(t)
  PROVE  /\ t \in alive /\ alive' = alive \ {t} /\ pending # <<>> /\ phase = "shot"
         /\ \A p \in Seats : cause'[p] = IF p = t THEN "shot" ELSE cause[p]
         /\ shot_used' = shot_used \cup {Dead} /\ Dead \in Seats \ alive /\ Dead \in Queued(pending)
         /\ \/ /\ phase' = "badge" /\ badge' = badge /\ Dead \in badge
               /\ Queued(pending') = Queued(pending) \cup {t}
               /\ Dead' = Dead
            \/ /\ phase' = "effects" /\ badge' = badge \ {Dead}
               /\ Queued(pending') \subseteq Queued(pending) \cup {t}
               /\ Queued(pending) \cup {t} \subseteq Queued(pending') \cup {Dead}
         /\ UNCHANGED <<board, processed, asked>>
  <1> USE DEF setup, players, sheriffs, skills, queue, history
  <1>1. phase = "shot" /\ t \in alive /\ Kill({t}, "shot") /\ pending \in Seq(Seats) /\ pending # <<>>
    <2>1. Seats \ alive \subseteq Seats /\ pending \in Seq(Seats \ alive) /\ pending # <<>>
      BY DEF Shoot, TypeInv, TypeOK, Waits
    <2>2. pending \in Seq(Seats)
      BY <2>1, DeadStayDead
    <2> QED
      BY <2>1, <2>2 DEF Shoot
  <1>2. Dead \in Seats \ alive /\ Dead \in Queued(pending)
    BY <1>1, QueueTail DEF Dead, TypeInv, TypeOK
  <1> DEFINE q == Append(pending, t)
  <1>3. q \in Seq(Seats) /\ q # <<>> /\ Head(q) = Dead /\ Queued(q) = Queued(pending) \cup {t}
    BY <1>1, QueueAppend DEF Dead
  <1>4. \/ phase' = "badge" /\ pending' = q /\ badge' = badge /\ Dead \in badge
        \/ phase' = "effects" /\ pending' = Tail(q) /\ badge' = badge \ {Dead}
    BY DEF Shoot, LeaveBadge
  <1>5. /\ alive' = alive \ {t}
        /\ \A p \in Seats : cause'[p] = IF p = t THEN "shot" ELSE cause[p]
    BY <1>1 DEF Kill
  <1>6. shot_used' = shot_used \cup {Dead} /\ UNCHANGED <<board, processed, asked>>
    BY DEF Shoot
  <1> HIDE DEF q
  <1>7. Queued(Tail(q)) \subseteq Queued(q) /\ Queued(q) \subseteq Queued(Tail(q)) \cup {Head(q)}
    BY <1>3, QueueTail
  <1>8. pending' = q => Dead' = Dead
    BY <1>3 DEF Dead
  <1> QED
    BY <1>1, <1>2, <1>3, <1>4, <1>5, <1>6, <1>7, <1>8

(* The other steps of the settlement: nobody dies, and the queue is kept  *)
(* or loses its head.                                                      *)
LEMMA SettleShape ==
  ASSUME TypeInv, Settles, \A t \in Seats : ~Shoot(t)
  PROVE  /\ UNCHANGED <<board, alive, cause, shot_used>>
         /\ pending # <<>> /\ Dead \in Seats \ alive /\ Dead \in Queued(pending)
         /\ phase \in {"effects", "shot", "badge"} /\ phase' \in {"effects", "shot", "badge"}
         /\ \/ pending' = pending /\ Dead' = Dead
            \/ /\ phase' = "effects"
               /\ Queued(pending') \subseteq Queued(pending)
               /\ Queued(pending) \subseteq Queued(pending') \cup {Dead}
  <1> USE DEF setup, players, sheriffs, skills, queue, history
  <1>1. pending # <<>> /\ phase \in {"effects", "shot", "badge"}
    BY DEF Settles, SkipShooter, AskShooter, PassBy, NoShot, TearBadge, PassBadge, TypeInv, Waits
  <1>2. /\ Dead \in Seats \ alive /\ Dead \in Queued(pending)
        /\ Queued(Tail(pending)) \subseteq Queued(pending)
        /\ Queued(pending) \subseteq Queued(Tail(pending)) \cup {Dead}
    BY <1>1, QueueTail DEF Dead, TypeInv, TypeOK
  <1>3. UNCHANGED <<board, alive, cause, shot_used>>
    BY DEF Settles, SkipShooter, AskShooter, PassBy, NoShot, TearBadge, PassBadge
  <1>4. \/ pending' = pending /\ phase' \in {"shot", "badge"}
        \/ pending' = Tail(pending) /\ phase' = "effects"
    BY DEF Settles, SkipShooter, AskShooter, PassBy, NoShot, TearBadge, PassBadge, LeaveBadge
  <1>5. pending' = pending => Dead' = Dead
    BY DEF Dead
  <1> QED
    BY <1>1, <1>2, <1>3, <1>4, <1>5

-----------------------------------------------------------------------------
(* Shots *)

(* Who fired was asked and is dead; who is asked has not fired yet; whoever *)
(* is passed over has been asked; and every shooter who died is asked or    *)
(* still queued.                                                            *)
OwedInv ==
    /\ shot_used \subseteq asked
    /\ \A p \in processed : MayShoot(p) => p \in asked
    /\ phase = "shot" => Dead \in asked
    /\ phase = "badge" /\ MayShoot(Dead) => Dead \in asked
    /\ \A p \in Seats \ alive : MayShoot(p) => p \in asked \cup Queued(pending)
    /\ NobodyUnasked

LEMMA OwedStep ==
  ASSUME TypeInv, OwedInv, [Next]_vars
  PROVE  OwedInv'
  <1> USE DEF setup, players, sheriffs, skills, queue, history
  <1>0. /\ alive \subseteq Seats /\ processed \subseteq Seats \ alive
        /\ board'.role = board.role => \A p \in Seats : Role(p)' = Role(p)
    BY DEF TypeInv, TypeOK, Role
  <1>1. CASE Quiet
    <2>1. \A p \in Seats : MayShoot(p)' <=> MayShoot(p)
      BY <1>1 DEF Quiet, MayShoot, Role
    <2>2. Queued(pending)' = Queued(pending)
      BY <1>1 DEF Quiet
    <2>3. NobodyUnasked'
      <3> SUFFICES ASSUME phase' \notin Settlement, NEW p \in Seats \ alive, MayShoot(p)
                   PROVE  p \in asked
        BY <1>1, <2>1 DEF Quiet, NobodyUnasked
      <3>1. CASE phase \notin Settlement
        BY <3>1 DEF OwedInv, NobodyUnasked
      <3>2. CASE pending = <<>>
        BY <3>2, NoQueue DEF OwedInv
      <3> QED
        BY <1>1, <3>1, <3>2 DEF Quiet
    <2> QED
      BY <1>0, <1>1, <2>1, <2>2, <2>3 DEF Quiet, OwedInv
  <1>2. CASE Deaths
    <2>1. \A p \in Seats \ alive : MayShoot(p)' <=> MayShoot(p)
      BY <1>2 DEF Deaths, MayShoot, Role
    <2>2. \A p \in Seats \ alive : MayShoot(p) => p \in asked
      BY <1>2, NoQueue DEF Deaths, OwedInv, NobodyUnasked
    <2>3. \A p \in Seats \ alive' : MayShoot(p)' => p \in asked' \cup Queued(pending)'
      <3> SUFFICES ASSUME NEW p \in Seats \ alive', MayShoot(p)'
                   PROVE  p \in asked \cup Queued(pending')
        BY <1>2 DEF Deaths
      <3>1. CASE p \in alive
        BY <1>2, <3>1 DEF Deaths
      <3>2. CASE p \notin alive
        BY <2>1, <2>2, <3>2
      <3> QED
        BY <3>1, <3>2
    <2> QED
      BY <1>2, <2>3 DEF Deaths, OwedInv, NobodyUnasked, Settlement, Settling
  <1>3. ASSUME NEW t \in Seats, Shoot(t) PROVE OwedInv'
    <2>1. \A p \in Seats \ alive : MayShoot(p)' <=> MayShoot(p)
      BY <1>3, ShotShape DEF MayShoot, Role
    <2>2. Dead \in asked
      BY <1>3, ShotShape DEF OwedInv
    <2>3. \A p \in Seats \ alive' : MayShoot(p)' => p \in asked' \cup Queued(pending)'
      <3>1. alive' = alive \ {t} /\ asked' = asked
        BY <1>3, ShotShape
      <3>2. Queued(pending) \cup {t} \subseteq Queued(pending') \cup {Dead}
        BY <1>3, ShotShape
      <3> QED
        BY <2>1, <2>2, <3>1, <3>2 DEF OwedInv
    <2>4. phase' \in {"effects", "badge"} /\ asked' = asked /\ processed' = processed
          /\ shot_used' = shot_used \cup {Dead} /\ (phase' = "badge" => Dead' = Dead)
      BY <1>3, ShotShape
    <2> QED
      BY <1>0, <2>1, <2>2, <2>3, <2>4 DEF OwedInv, NobodyUnasked, Settlement, Settling
  <1>4. CASE Settles /\ \A t \in Seats : ~Shoot(t)
    <2>1. \A p \in Seats : MayShoot(p)' <=> MayShoot(p)
      BY <1>4, SettleShape DEF MayShoot, Role
    <2>2. asked \subseteq asked' /\ (phase' = "shot" => Dead \in asked' /\ Dead' = Dead)
      BY <1>4 DEF Settles, SkipShooter, AskShooter, PassBy, NoShot, TearBadge, PassBadge, LeaveBadge,
         Dead
    <2>3. /\ processed' \subseteq processed \cup {Dead}
          /\ Dead \in processed' /\ MayShoot(Dead) => Dead \in asked' \/ Dead \in shot_used
      BY <1>4 DEF Settles, SkipShooter, AskShooter, PassBy, NoShot, TearBadge, PassBadge, OwedInv,
         CanShoot
    <2>4. phase' = "badge" => Dead' = Dead /\ (MayShoot(Dead) => Dead \in asked')
      <3>1. CASE phase = "effects"
        BY <1>4, <3>1 DEF Settles, SkipShooter, AskShooter, PassBy, NoShot, TearBadge, PassBadge,
           LeaveBadge, Dead
      <3>2. CASE phase # "effects"
        BY <1>4, <3>2 DEF Settles, SkipShooter, AskShooter, PassBy, NoShot, TearBadge, PassBadge,
           LeaveBadge, Dead, OwedInv
      <3> QED
        BY <3>1, <3>2
    <2>5. MayShoot(Dead) => Dead \in asked' \/ pending' = pending
      BY <1>4, <2>2 DEF Settles, SkipShooter, AskShooter, PassBy, NoShot, TearBadge, PassBadge, OwedInv,
         CanShoot, LeaveBadge
    <2>6. \A p \in Seats \ alive : MayShoot(p) => p \in asked' \cup Queued(pending')
      BY <1>4, <2>2, <2>5, SettleShape DEF OwedInv
    <2> QED
      BY <1>0, <1>4, <2>1, <2>2, <2>3, <2>4, <2>6, SettleShape
         DEF OwedInv, NobodyUnasked, Settlement, Settling
  <1>5. CASE UNCHANGED vars
    BY <1>5 DEF vars, OwedInv, NobodyUnasked, MayShoot, Role, Dead
  <1> QED
    BY <1>1, <1>2, <1>3, <1>4, <1>5, Shapes

LEMMA OwedInit == Init => OwedInv
  BY DealsAssumption DEF Init, OwedInv, NobodyUnasked, Settlement, Settling, Queued

(* Every hunter and wolf king who died so that a shot is due has been asked *)
(* before the game goes on, however long the chain of deaths and whatever   *)
(* detonation cuts the day short.                                           *)
THEOREM EveryShooterAsked == Spec => []NobodyUnasked
  <1>1. TypeInv /\ OwedInv /\ [Next]_vars => TypeInv' /\ OwedInv'
    BY TypeStep, OwedStep
  <1>2. Spec => [](TypeInv /\ OwedInv)
    BY <1>1, TypeInit, OwedInit, PTL DEF Spec
  <1>3. TypeInv /\ OwedInv => NobodyUnasked
    BY DEF OwedInv
  <1> QED
    BY <1>2, <1>3, PTL

(* Each shot has a shooter who has fired it.                               *)
ShotDead == {p \in Seats : cause[p] = "shot"}

ShotInv ==
    /\ phase = "shot" => MayShoot(Dead) /\ Dead \notin shot_used
    /\ \A p \in shot_used : p \in Seats \ alive /\ MayShoot(p)
    /\ Cardinality(ShotDead) <= Cardinality(shot_used)

LEMMA ShotFinite ==
  ASSUME TypeOK
  PROVE  /\ IsFiniteSet(ShotDead) /\ Cardinality(ShotDead) \in Nat
         /\ IsFiniteSet(shot_used) /\ Cardinality(shot_used) \in Nat
  <1>1. ShotDead \subseteq Seats /\ shot_used \subseteq Seats
    BY DEF ShotDead, TypeOK
  <1> QED
    BY <1>1, DealsAssumption, FS_Subset, FS_CardinalityType

LEMMA ShotStep ==
  ASSUME TypeInv, ShotInv, [Next]_vars
  PROVE  ShotInv'
  <1> USE DEF setup, players, sheriffs, skills, queue, history
  <1>0. TypeInv' /\ alive \subseteq Seats
    BY TypeStep DEF TypeInv, TypeOK
  <1>1. CASE Quiet
    <2>1. \A p \in Seats : MayShoot(p)' <=> MayShoot(p)
      BY <1>1 DEF Quiet, MayShoot, Role
    <2>2. ShotDead' = ShotDead /\ shot_used' = shot_used /\ alive' = alive /\ phase' # "shot"
      BY <1>1 DEF Quiet, ShotDead
    <2> QED
      BY <2>1, <2>2 DEF ShotInv
  <1>2. CASE Deaths
    <2>1. \A p \in Seats \ alive : MayShoot(p)' <=> MayShoot(p)
      BY <1>2 DEF Deaths, MayShoot, Role
    <2>2. ShotDead' \subseteq ShotDead
      BY <1>2 DEF Deaths, ShotDead
    <2>3. Cardinality(ShotDead') <= Cardinality(ShotDead) /\ Cardinality(ShotDead') \in Nat
      BY <1>0, <2>2, ShotFinite, FS_Subset, FS_CardinalityType DEF TypeInv
    <2>4. shot_used' = shot_used /\ alive' \subseteq alive /\ phase' # "shot"
      BY <1>2 DEF Deaths
    <2>5. \A p \in shot_used' : p \in Seats \ alive' /\ MayShoot(p)'
      BY <2>1, <2>4 DEF ShotInv
    <2>6. Cardinality(ShotDead') <= Cardinality(shot_used')
      BY <2>3, <2>4, ShotFinite DEF ShotInv, TypeInv
    <2> QED
      BY <2>4, <2>5, <2>6 DEF ShotInv
  <1>3. ASSUME NEW t \in Seats, Shoot(t) PROVE ShotInv'
    <2>1. \A p \in Seats \ alive : MayShoot(p)' <=> MayShoot(p)
      BY <1>3, ShotShape DEF MayShoot, Role
    <2>2. shot_used' = shot_used \cup {Dead} /\ Dead \notin shot_used /\ MayShoot(Dead)
          /\ Dead \in Seats \ alive /\ phase' # "shot" /\ alive' = alive \ {t}
      BY <1>3, ShotShape DEF ShotInv
    <2>3. \A p \in shot_used' : p \in Seats \ alive' /\ MayShoot(p)'
      BY <2>1, <2>2 DEF ShotInv
    <2>4. ShotDead' \subseteq ShotDead \cup {t}
      BY <1>3, ShotShape DEF ShotDead
    <2>5. Cardinality(ShotDead') <= Cardinality(ShotDead) + 1
      <3>1. IsFiniteSet(ShotDead \cup {t}) /\ Cardinality(ShotDead \cup {t}) <= Cardinality(ShotDead) + 1
        <4>1. IsFiniteSet(ShotDead) /\ Cardinality(ShotDead) \in Nat
          BY ShotFinite DEF TypeInv
        <4>2. /\ IsFiniteSet(ShotDead \cup {t})
              /\ Cardinality(ShotDead \cup {t}) = IF t \in ShotDead THEN Cardinality(ShotDead)
                                                ELSE Cardinality(ShotDead) + 1
          BY <4>1, FS_AddElement
        <4> QED
          BY <4>1, <4>2
      <3>2. Cardinality(ShotDead') <= Cardinality(ShotDead \cup {t})
        BY <2>4, <3>1, FS_Subset
      <3>3. Cardinality(ShotDead') \in Nat /\ Cardinality(ShotDead \cup {t}) \in Nat
        BY <2>4, <3>1, FS_Subset, FS_CardinalityType
      <3> QED
        BY <3>1, <3>2, <3>3, ShotFinite DEF TypeInv
    <2>6. Cardinality(shot_used') = Cardinality(shot_used) + 1
      BY <2>2, ShotFinite, FS_AddElement DEF TypeInv
    <2>7. Cardinality(ShotDead') \in Nat
      BY <2>4, ShotFinite, FS_AddElement, FS_Subset, FS_CardinalityType DEF TypeInv
    <2>8. Cardinality(ShotDead') <= Cardinality(shot_used')
      BY <2>5, <2>6, <2>7, ShotFinite DEF ShotInv, TypeInv
    <2> QED
      BY <2>2, <2>3, <2>8 DEF ShotInv
  <1>4. CASE Settles /\ \A t \in Seats : ~Shoot(t)
    <2>1. \A p \in Seats : MayShoot(p)' <=> MayShoot(p)
      BY <1>4, SettleShape DEF MayShoot, Role
    <2>2. UNCHANGED <<alive, shot_used>> /\ ShotDead' = ShotDead /\ Dead \in Seats
      BY <1>4, SettleShape DEF ShotDead
    <2>3. phase' = "shot" => CanShoot(Dead) /\ Dead' = Dead
      BY <1>4 DEF Settles, SkipShooter, AskShooter, PassBy, NoShot, TearBadge, PassBadge, LeaveBadge,
         Dead
    <2> QED
      BY <2>1, <2>2, <2>3 DEF ShotInv, CanShoot
  <1>5. CASE UNCHANGED vars
    BY <1>5 DEF vars, ShotInv, ShotDead, MayShoot, Role, Dead
  <1> QED
    BY <1>1, <1>2, <1>3, <1>4, <1>5, Shapes

LEMMA ShotInit == Init => ShotInv
  <1> SUFFICES ASSUME Init PROVE ShotInv
    OBVIOUS
  <1>1. ShotDead = {} /\ shot_used = {} /\ phase # "shot"
    BY DEF Init, ShotDead
  <1> QED
    BY <1>1, FS_EmptySet DEF ShotInv

(* There are never more players shot dead than hunters and wolf kings who  *)
(* died so that a shot was due.                                            *)
THEOREM ShotsAreEarned == Spec => []ShotsAreOwed
  <1>1. TypeInv /\ ShotInv /\ [Next]_vars => TypeInv' /\ ShotInv'
    BY TypeStep, ShotStep
  <1>2. Spec => [](TypeInv /\ ShotInv)
    BY <1>1, TypeInit, ShotInit, PTL DEF Spec
  <1>3. TypeInv /\ ShotInv => ShotsAreOwed
    <2> SUFFICES ASSUME TypeInv, ShotInv PROVE ShotsAreOwed
      OBVIOUS
    <2> DEFINE owed == {p \in Seats \ alive : MayShoot(p)}
    <2>1. shot_used \subseteq owed /\ owed \subseteq Seats
      BY DEF ShotInv
    <2>2. IsFiniteSet(owed) /\ Cardinality(owed) \in Nat
      BY <2>1, DealsAssumption, FS_Subset, FS_CardinalityType
    <2> HIDE DEF owed
    <2>3. Cardinality(shot_used) <= Cardinality(owed)
      BY <2>1, <2>2, FS_Subset
    <2>4. Cardinality(ShotDead) <= Cardinality(owed)
      BY <2>2, <2>3, ShotFinite DEF ShotInv, TypeInv
    <2> QED
      BY <2>4 DEF owed, ShotDead, ShotsAreOwed
  <1> QED
    BY <1>2, <1>3, PTL

-----------------------------------------------------------------------------
(* The sheriff *)

AfterDeaths == {"effects", "shot", "badge"}

(* Candidates are alive as long as the campaign runs; a detonation takes   *)
(* them along until the day is over, when the campaign is still the day's  *)
(* own and so can be put off.  As long as a campaign is ahead nobody has   *)
(* been elected, and there is one badge.                                   *)
CampInv ==
    /\ phase \in CampaignPhases => running \subseteq alive /\ campaign = round
    /\ phase \in {"final_speech", "revote"} => tied \subseteq alive
    /\ running # {} /\ phase \notin CampaignPhases \cup {"ended"} =>
          campaign = round /\ phase \in AfterDeaths /\ after = "boom"
    /\ campaign # 0 => ~elected
    /\ ~elected => badge = {}
    /\ \A p, q \in badge : p = q
    /\ phase = "badge" => Dead \in badge

(* The steps outside the campaign *)
Apart ==
    /\ UNCHANGED <<running, campaign, elected>>
    /\ badge' \subseteq badge
    /\ phase' = "badge" => Dead' \in badge'
    /\ phase' \notin CampaignPhases
    /\ \/ phase' = "ended"
       \/ phase \in CampaignPhases /\ phase' = "effects" /\ after' = "boom" /\ round' = round
       \/ /\ phase \notin CampaignPhases \cup {"ended"}
          /\ phase \in AfterDeaths /\ after = "boom" =>
                phase' \in AfterDeaths /\ after' = "boom" /\ round' = round

LEMMA ApartNight ==
  ASSUME Night
  PROVE  Apart
  <1> USE DEF setup, players, sheriffs, skills, queue, history
  <1>1. ASSUME NEW p \in Seats \cup {NoSeat}, Guard(p) \/ Knife(p) \/ Silence(p) PROVE Apart
    BY <1>1 DEF Guard, Knife, Silence, Apart, CampaignPhases, AfterDeaths
  <1>2. ASSUME NEW p \in Seats, Poison(p) PROVE Apart
    BY <1>2 DEF Poison, Apart, CampaignPhases, AfterDeaths
  <1>3. Save \/ WitchDone => Apart
    BY DEF Save, WitchDone, Apart, CampaignPhases, AfterDeaths
  <1>4. CASE EndNight
    <2>1. UNCHANGED sheriffs /\ phase = "grave" /\ phase' \in {"words", "effects"}
      BY <1>4 DEF EndNight
    <2> QED
      BY <2>1 DEF Apart, CampaignPhases, AfterDeaths
  <1> QED
    BY <1>1, <1>2, <1>3, <1>4 DEF Night

LEMMA ApartSettles ==
  ASSUME Settles, \A t \in Seats : ~PassBadge(t), TypeInv
  PROVE  Apart
  <1> USE DEF setup, players, sheriffs, skills, queue, history
  <1>1. UNCHANGED <<running, campaign, elected, round, after>> /\ phase \in AfterDeaths
    BY DEF Settles, SkipShooter, AskShooter, PassBy, NoShot, TearBadge, Shoot, AfterDeaths
  <1>2. phase' \in AfterDeaths /\ badge' \subseteq badge
    BY DEF Settles, SkipShooter, AskShooter, PassBy, NoShot, TearBadge, Shoot, LeaveBadge, AfterDeaths
  <1>3. phase' = "badge" => Dead' \in badge'
    <2>1. ASSUME NEW t \in Seats, Shoot(t), phase' = "badge" PROVE Dead' \in badge'
      BY <2>1, ShotShape
    <2>2. ASSUME \A t \in Seats : ~Shoot(t), phase' = "badge" PROVE Dead' \in badge'
      BY <2>2 DEF Settles, SkipShooter, AskShooter, PassBy, NoShot, TearBadge, LeaveBadge, Dead
    <2> QED
      BY <2>1, <2>2
  <1> QED
    BY <1>1, <1>2, <1>3 DEF Apart, CampaignPhases, AfterDeaths

LEMMA ApartDay ==
  ASSUME \/ EndWords \/ DetonateAfterWords \/ DeathEndsDay \/ SpeechesGoOn \/ EndSpeeches
         \/ Cancel \/ (DayBreaks /\ phase' # "register")
         \/ \E w \in Seats, t \in Seats \cup {NoSeat} : DetonateInWords(w, t) \/ Detonate(w, t)
         \/ \E k, t \in Seats : Duel(k, t)
         \/ \E T \in SUBSET Seats : Vote(T) \/ PkVote(T)
  PROVE  Apart
  <1> USE DEF setup, players, sheriffs, skills, queue, history
  <1>1. EndWords => Apart
    BY DEF EndWords, Apart, CampaignPhases, AfterDeaths
  <1>2. DetonateAfterWords => Apart
    BY DEF DetonateAfterWords, Detonated, Settled, Apart, CampaignPhases, AfterDeaths
  <1>3. DeathEndsDay => Apart
    BY DEF DeathEndsDay, Conclude, Settled, Apart, CampaignPhases, AfterDeaths
  <1>4. SpeechesGoOn => Apart
    BY DEF SpeechesGoOn, Settled, Speeches, Apart, CampaignPhases, AfterDeaths
  <1>5. EndSpeeches => Apart
    BY DEF EndSpeeches, Speeches, Apart, CampaignPhases, AfterDeaths
  <1>6. Cancel => Apart
    BY DEF Cancel, Apart, CampaignPhases, AfterDeaths
  <1>7. DayBreaks /\ phase' # "register" => Apart
    BY DEF DayBreaks, StartSpeeches, Settled, Apart, CampaignPhases, AfterDeaths
  <1>8. ASSUME NEW w \in Seats, NEW t \in Seats \cup {NoSeat}, DetonateInWords(w, t) PROVE Apart
    BY <1>8 DEF DetonateInWords, Apart, CampaignPhases, AfterDeaths
  <1>9. ASSUME NEW w \in Seats, NEW t \in Seats \cup {NoSeat}, Detonate(w, t) PROVE Apart
    <2>1. phase' = "effects" /\ after' = "boom"
      BY <1>9 DEF Detonate, Detonated
    <2>2. UNCHANGED <<round, sheriffs>> /\ phase \in DayPhases \ Settling
      BY <1>9 DEF Detonate
    <2>3. phase \notin AfterDeaths /\ phase # "ended"
      BY <2>2 DEF DayPhases, Settling, CampaignPhases, Speeches, AfterDeaths
    <2> QED
      BY <2>1, <2>2, <2>3 DEF Apart, CampaignPhases
  <1>10. ASSUME NEW k \in Seats, NEW t \in Seats, Duel(k, t) PROVE Apart
    BY <1>10 DEF Duel, Speeches, Apart, CampaignPhases, AfterDeaths
  <1>11. ASSUME NEW T \in SUBSET Seats, Vote(T) \/ PkVote(T) PROVE Apart
    <2>1. UNCHANGED sheriffs /\ phase \in {"vote", "pk_vote"}
      BY <1>11 DEF Vote, PkVote
    <2>2. phase' \in {"pk_speech", "words", "guard", "ended"}
      BY <1>11 DEF Vote, PkVote, Exile, NoExile, Conclude
    <2> QED
      BY <2>1, <2>2 DEF Apart, CampaignPhases, AfterDeaths
  <1> QED
    BY <1>1, <1>2, <1>3, <1>4, <1>5, <1>6, <1>7, <1>8, <1>9, <1>10, <1>11

LEMMA ApartCamp ==
  ASSUME CampInv, Apart
  PROVE  CampInv'
  <1>1. phase' \notin {"final_speech", "revote"} /\ phase' \notin CampaignPhases
    BY DEF Apart, CampaignPhases
  <1>2. running' # {} /\ phase' # "ended" =>
            campaign' = round' /\ phase' \in AfterDeaths /\ after' = "boom"
    BY DEF Apart, CampInv, AfterDeaths
  <1> QED
    BY <1>1, <1>2 DEF Apart, CampInv

LEMMA CampStep ==
  ASSUME TypeInv, CampInv, [Next]_vars
  PROVE  CampInv'
  <1> USE DEF setup, players, sheriffs, skills, queue, history
  <1>1. CASE Apart
    BY <1>1, ApartCamp
  <1>2. ASSUME NEW t \in Seats, PassBadge(t) PROVE CampInv'
    <2>1. phase = "badge" /\ phase' = "effects" /\ badge' = (badge \ {Dead}) \cup {t}
          /\ UNCHANGED <<round, elected, running, campaign, after>>
      BY <1>2 DEF PassBadge
    <2>2. badge' = {t} /\ elected
      BY <2>1 DEF CampInv
    <2> QED
      BY <2>1, <2>2 DEF CampInv, CampaignPhases, AfterDeaths
  <1>3. CASE DayBreaks /\ phase' = "register"
    <2>1. running = {}
      BY <1>3 DEF DayBreaks, Settled, CampInv, CampaignPhases
    <2>2. campaign = round /\ UNCHANGED <<round, sheriffs>>
      BY <1>3 DEF DayBreaks, StartSpeeches
    <2> QED
      BY <1>3, <2>1, <2>2 DEF CampInv, CampaignPhases
  <1>4. CASE DetonationEndsDay
    <2>1. phase = "effects" /\ UNCHANGED <<elected, badge>> /\ Conclude /\ Postpone
      BY <1>4 DEF DetonationEndsDay, Settled
    <2>2. phase' \in {"guard", "ended"} /\ (phase' # "ended" => CheckWinner = "none")
      BY <2>1 DEF Conclude
    <2>3. phase' # "ended" => running' = {}
      BY <2>1, <2>2 DEF Postpone, CampInv, CampaignPhases
    <2>4. campaign' # 0 => campaign # 0
      BY <2>1 DEF Postpone, TypeInv, TypeOK
    <2> QED
      BY <2>1, <2>2, <2>3, <2>4 DEF CampInv, CampaignPhases
  <1>5. ASSUME NEW p \in Seats, Run(p) \/ Withdraw(p) PROVE CampInv'
    <2>1. phase \in {"register", "sheriff_speech"} /\ running' \subseteq running \cup alive
          /\ UNCHANGED <<phase, round, alive, badge, elected, campaign>>
      BY <1>5 DEF Run, Withdraw
    <2> QED
      BY <2>1 DEF CampInv, CampaignPhases
  <1>6. CASE /\ phase \in CampaignPhases /\ EndCampaign
             /\ UNCHANGED <<round, alive, pending>>
             /\ \/ UNCHANGED <<badge, elected>>
                \/ \E p \in Seats : Elect(p)
    <2>1. campaign # 0 /\ badge = {} /\ ~elected
      BY <1>6 DEF CampInv, TypeInv, TypeOK
    <2>2. campaign' = 0 /\ running' = {} /\ phase' = "speech"
      BY <1>6, EndCampaignType
    <2>3. (~elected' => badge' = {}) /\ \A p, q \in badge' : p = q
      BY <1>6, <2>1 DEF Elect
    <2> QED
      BY <2>2, <2>3 DEF CampInv, CampaignPhases
  <1>7. ASSUME phase \in CampaignPhases,
               UNCHANGED <<round, alive, badge, elected, running, campaign>>,
               phase' \in CampaignPhases,
               phase' \in {"final_speech", "revote"} =>
                   tied' \subseteq running \/ (tied' = tied /\ phase = "final_speech")
        PROVE  CampInv'
    BY <1>7 DEF CampInv, CampaignPhases
  <1>8. CloseRegister \/ EndSheriffSpeech \/ EndFinalSpeech => CampInv'
    <2> SUFFICES ASSUME CloseRegister \/ EndSheriffSpeech \/ EndFinalSpeech PROVE CampInv'
      OBVIOUS
    <2>1. phase \in CampaignPhases /\ UNCHANGED <<round, alive, badge, elected, pending>>
      BY DEF CloseRegister, EndSheriffSpeech, EndFinalSpeech, CampaignPhases
    <2>2. CASE EndCampaign
      BY <1>6, <2>1, <2>2
    <2>3. CASE ~EndCampaign
      <3>1. UNCHANGED <<running, campaign, tied>>
            /\ \/ phase' \in {"sheriff_speech", "sheriff_vote"}
               \/ phase = "final_speech" /\ phase' = "revote"
        BY <2>3 DEF CloseRegister, EndSheriffSpeech, EndFinalSpeech
      <3> QED
        BY <1>7, <2>1, <3>1 DEF CampaignPhases
    <2> QED
      BY <2>2, <2>3
  <1>9. ASSUME NEW T \in SUBSET Seats, SheriffVote(T) \/ Revote(T) PROVE CampInv'
    <2>1. /\ phase \in CampaignPhases /\ UNCHANGED <<round, alive, pending>>
          /\ UNCHANGED <<badge, elected>> \/ \E p \in Seats : Elect(p)
      BY <1>9 DEF SheriffVote, Revote, CampaignPhases
    <2>2. CASE EndCampaign
      BY <1>6, <2>1, <2>2
    <2>3. CASE ~EndCampaign
      <3>1. SheriffVote(T) /\ Cardinality(T) > 1
        BY <1>9, <2>3 DEF SheriffVote, Revote
      <3>2. phase' = "final_speech" /\ tied' = T /\ UNCHANGED <<running, campaign>> /\ T \subseteq running
        BY <3>1 DEF SheriffVote, Outcomes
      <3>3. Cardinality(T) # 1
        <4>1. T \subseteq Seats
          OBVIOUS
        <4>2. Cardinality(T) \in Nat
          BY <4>1, DealsAssumption, FS_Subset, FS_CardinalityType
        <4> QED
          BY <3>1, <4>2
      <3>4. UNCHANGED <<badge, elected>>
        BY <3>1, <3>3 DEF SheriffVote
      <3> QED
        BY <1>7, <2>1, <3>2, <3>4 DEF CampaignPhases
    <2> QED
      BY <2>2, <2>3
  <1>10. CASE UNCHANGED vars
    BY <1>10 DEF vars, CampInv, Dead
  <1> QED
    BY <1>1, <1>2, <1>3, <1>4, <1>5, <1>8, <1>9, <1>10, ApartNight, ApartSettles, ApartDay
       DEF Next, Moves, Expire, Settles

LEMMA CampInit == Init => CampInv
  BY DEF Init, CampInv, CampaignPhases

(* A dead sheriff is queued, and is not one of those the settlement would  *)
(* pass over with the badge.                                               *)
BadgeInv ==
    /\ badge \ alive \subseteq Queued(pending)
    /\ SheriffLives
    /\ phase \in {"words", "effects"} =>
          badge \cap Queued(pending) \cap (processed \cup shot_used) = {}
    /\ phase \in {"shot", "badge"} =>
          badge \cap Queued(pending) \cap (processed \cup shot_used) \subseteq {Dead}

LEMMA BadgeSteps ==
  ASSUME TypeInv, CampInv, Next, ~Settles
  PROVE  \/ badge' = badge
         \/ /\ phase \in CampaignPhases /\ phase' = "speech"
            /\ \E p \in alive : badge' = badge \cup {p}
  <1> USE DEF setup, players, sheriffs, skills, queue, history
  <1>1. Night => badge' = badge
    BY DEF Night, Guard, Knife, Silence, Poison, Save, WitchDone, EndNight
  <1>2. EndWords \/ DayBreaks \/ DetonateAfterWords \/ DetonationEndsDay \/ DeathEndsDay \/ SpeechesGoOn
          \/ CloseRegister \/ EndSheriffSpeech \/ EndFinalSpeech \/ EndSpeeches \/ Cancel
        => badge' = badge
    BY DEF EndWords, DayBreaks, DetonateAfterWords, DetonationEndsDay, DeathEndsDay, SpeechesGoOn,
       CloseRegister, EndSheriffSpeech, EndFinalSpeech, EndSpeeches, Cancel
  <1>3. ASSUME NEW T \in SUBSET Seats, Vote(T) \/ PkVote(T) PROVE badge' = badge
    BY <1>3 DEF Vote, PkVote
  <1>4. ASSUME NEW w \in Seats, NEW t \in Seats \cup {NoSeat}, DetonateInWords(w, t) \/ Detonate(w, t)
        PROVE  badge' = badge
    BY <1>4 DEF DetonateInWords, Detonate
  <1>5. ASSUME NEW p \in Seats, Run(p) \/ Withdraw(p) PROVE badge' = badge
    BY <1>5 DEF Run, Withdraw
  <1>6. ASSUME NEW k \in Seats, NEW t \in Seats, Duel(k, t) PROVE badge' = badge
    BY <1>6 DEF Duel
  <1>7. ASSUME NEW T \in SUBSET Seats, SheriffVote(T) \/ Revote(T), badge' # badge
        PROVE  /\ phase \in CampaignPhases /\ phase' = "speech"
               /\ \E p \in alive : badge' = badge \cup {p}
    <2>1. phase \in CampaignPhases /\ T \subseteq alive
      BY <1>7 DEF SheriffVote, Revote, Outcomes, CampInv, CampaignPhases
    <2>2. Cardinality(T) = 1 /\ \E p \in T : Elect(p)
      BY <1>7 DEF SheriffVote, Revote
    <2>3. EndCampaign
      BY <1>7, <2>2 DEF SheriffVote, Revote
    <2> QED
      BY <2>1, <2>2, <2>3, EndCampaignType DEF Elect
  <1> QED
    BY <1>1, <1>2, <1>3, <1>4, <1>5, <1>6, <1>7 DEF Next, Moves, Expire, Settles

LEMMA BadgeStep ==
  ASSUME TypeInv, CampInv, ShotInv, BadgeInv, [Next]_vars
  PROVE  BadgeInv'
  <1> USE DEF setup, players, sheriffs, skills, queue, history
  <1>0. /\ alive \subseteq Seats /\ processed \cap alive = {} /\ shot_used \cap alive = {}
        /\ pending = <<>> => badge \subseteq alive
    BY NoQueue DEF TypeInv, TypeOK, ShotInv, BadgeInv
  <1>1. CASE Quiet /\ Next /\ ~Settles
    <2>1. UNCHANGED <<alive, processed, shot_used>> /\ Queued(pending)' = Queued(pending)
      BY <1>1 DEF Quiet
    <2>2. CASE badge' = badge
      <3>1. SheriffLives'
        BY <1>0, <1>1, <2>1, <2>2 DEF Quiet, SheriffLives, BadgeInv
      <3>2. phase' \notin {"shot", "badge"}
            /\ (phase' \in {"words", "effects"} => phase \in {"words", "effects"})
        BY <1>1 DEF Quiet
      <3> QED
        BY <2>1, <2>2, <3>1, <3>2 DEF BadgeInv
    <2>3. CASE badge' # badge
      <3>1. PICK p \in alive : badge' = badge \cup {p} /\ phase \in CampaignPhases /\ phase' = "speech"
        BY <1>1, <2>3, BadgeSteps
      <3>2. badge \subseteq alive
        BY <3>1 DEF BadgeInv, SheriffLives, CampaignPhases, Settlement, Settling
      <3> QED
        BY <2>1, <3>1, <3>2 DEF BadgeInv, SheriffLives
    <2> QED
      BY <2>2, <2>3
  <1>2. CASE Deaths
    <2>1. badge \subseteq alive
      BY <1>0, <1>2 DEF Deaths, BadgeInv, SheriffLives
    <2>2. badge' \ alive' \subseteq Queued(pending') /\ badge' \subseteq alive
      BY <1>2, <2>1 DEF Deaths
    <2>3. phase' \in {"words", "effects"} /\ processed' = {} /\ shot_used' = shot_used
      BY <1>2 DEF Deaths
    <2> QED
      BY <1>0, <2>2, <2>3 DEF BadgeInv, SheriffLives, Settlement, Settling
  <1>3. ASSUME NEW t \in Seats, Shoot(t) PROVE BadgeInv'
    <2>1. t \notin processed /\ t \notin shot_used \cup {Dead} /\ UNCHANGED processed
          /\ shot_used' = shot_used \cup {Dead} /\ alive' = alive \ {t}
      BY <1>0, <1>3, ShotShape
    <2>2. badge \cap Queued(pending) \cap (processed \cup shot_used) \subseteq {Dead}
          /\ badge \ alive \subseteq Queued(pending)
      BY <1>3, ShotShape DEF BadgeInv
    <2>3. CASE phase' = "badge"
      <3>1. badge' = badge /\ Queued(pending') = Queued(pending) \cup {t} /\ Dead' = Dead
        BY <1>3, <2>3, ShotShape
      <3> QED
        BY <2>1, <2>2, <2>3, <3>1 DEF BadgeInv, SheriffLives, Settlement, Settling
    <2>4. CASE phase' = "effects"
      <3>1. /\ badge' = badge \ {Dead} /\ Queued(pending') \subseteq Queued(pending) \cup {t}
            /\ Queued(pending) \cup {t} \subseteq Queued(pending') \cup {Dead}
        BY <1>3, <2>4, ShotShape
      <3> QED
        BY <2>1, <2>2, <2>4, <3>1 DEF BadgeInv, SheriffLives, Settlement, Settling
    <2> QED
      BY <1>3, <2>3, <2>4, ShotShape
  <1>4. ASSUME NEW t \in Seats, PassBadge(t) PROVE BadgeInv'
    <2>1. t \in alive /\ phase = "badge" /\ phase' = "effects" /\ badge' = (badge \ {Dead}) \cup {t}
          /\ UNCHANGED <<alive, processed, shot_used>> /\ pending' = Tail(pending)
      BY <1>4 DEF PassBadge
    <2>2. Queued(pending') \subseteq Queued(pending) /\ Queued(pending) \subseteq Queued(pending') \cup {Dead}
      BY <2>1, QueueTail DEF Dead, TypeInv, TypeOK, Waits
    <2>3. badge \cap Queued(pending) \cap (processed \cup shot_used) \subseteq {Dead}
          /\ badge \ alive \subseteq Queued(pending)
      BY <2>1 DEF BadgeInv
    <2> QED
      BY <1>0, <2>1, <2>2, <2>3 DEF BadgeInv, SheriffLives, Settlement, Settling
  <1>5. CASE Settles /\ \A t \in Seats : ~Shoot(t) /\ ~PassBadge(t)
    <2>1. /\ UNCHANGED <<alive, shot_used>> /\ Dead \in Queued(pending)
          /\ phase' \in {"effects", "shot", "badge"} /\ pending # <<>>
      BY <1>5, SettleShape
    <2>2. processed' \subseteq processed \cup {Dead}
      BY <1>5 DEF Settles, SkipShooter, AskShooter, PassBy, NoShot, TearBadge
    <2>3. badge \cap Queued(pending) \cap (processed \cup shot_used) \subseteq {Dead}
          /\ badge \ alive \subseteq Queued(pending)
      BY <1>5, SettleShape DEF BadgeInv
    <2>4. CASE phase' \in {"shot", "badge"}
      <3>1. pending' = pending /\ badge' = badge /\ Dead' = Dead
        BY <1>5, <2>4 DEF Settles, SkipShooter, AskShooter, PassBy, NoShot, TearBadge, LeaveBadge, Dead
      <3> QED
        BY <2>1, <2>2, <2>3, <2>4, <3>1 DEF BadgeInv, SheriffLives, Settlement, Settling
    <2>5. CASE phase' = "effects"
      <3>1. badge' = badge \ {Dead}
        <4>1. CASE SkipShooter
          <5>1. Dead \notin badge
            BY <2>1, <4>1 DEF SkipShooter, CanShoot, BadgeInv
          <5> QED
            BY <4>1, <5>1 DEF SkipShooter
        <4>2. CASE ~SkipShooter
          BY <1>5, <2>5, <4>2 DEF Settles, AskShooter, PassBy, NoShot, TearBadge, LeaveBadge
        <4> QED
          BY <4>1, <4>2
      <3>2. pending' = Tail(pending)
        BY <1>5, <2>5 DEF Settles, SkipShooter, AskShooter, PassBy, NoShot, TearBadge, LeaveBadge
      <3>3. Queued(pending') \subseteq Queued(pending)
            /\ Queued(pending) \subseteq Queued(pending') \cup {Dead}
        BY <2>1, <3>2, QueueTail DEF Dead, TypeInv, TypeOK
      <3> QED
        BY <2>1, <2>2, <2>3, <2>5, <3>1, <3>3 DEF BadgeInv, SheriffLives, Settlement, Settling
    <2> QED
      BY <2>1, <2>4, <2>5
  <1>6. CASE UNCHANGED vars
    BY <1>6 DEF vars, BadgeInv, SheriffLives, Dead
  <1> QED
    BY <1>1, <1>2, <1>3, <1>4, <1>5, <1>6, Shapes

LEMMA BadgeInit == Init => BadgeInv
  BY DEF Init, BadgeInv, SheriffLives

LEMMA SheriffInv == Spec => [](TypeInv /\ CampInv /\ ShotInv /\ BadgeInv)
  <1>1. Init => TypeInv /\ CampInv /\ ShotInv /\ BadgeInv
    BY TypeInit, CampInit, ShotInit, BadgeInit
  <1>2. TypeInv /\ CampInv /\ ShotInv /\ BadgeInv /\ [Next]_vars
        => TypeInv' /\ CampInv' /\ ShotInv' /\ BadgeInv'
    BY TypeStep, CampStep, ShotStep, BadgeStep
  <1> QED
    BY <1>1, <1>2, PTL DEF Spec

(* When speeches are ordered, votes counted and nights fall no dead player *)
(* has the badge, by whatever chain the deaths came.                       *)
THEOREM SheriffIsAlive == Spec => []SheriffLives
  <1>1. TypeInv /\ CampInv /\ ShotInv /\ BadgeInv => SheriffLives
    BY DEF BadgeInv
  <1> QED
    BY <1>1, SheriffInv, PTL

LEMMA ElectionStep ==
  ASSUME TypeInv, CampInv, [Next]_vars
  PROVE  phase # "badge" /\ badge' # badge /\ badge' # {} => ~elected
  <1> USE DEF setup, players, sheriffs, skills, queue, history
  <1> SUFFICES ASSUME phase # "badge", badge' # badge, badge' # {} PROVE ~elected
    OBVIOUS
  <1>1. CASE UNCHANGED vars
    BY <1>1 DEF vars
  <1>2. CASE Settles
    <2>1. badge' \subseteq badge
      BY <1>2 DEF Settles, SkipShooter, AskShooter, PassBy, NoShot, TearBadge, Shoot, PassBadge, LeaveBadge
    <2> QED
      BY <2>1 DEF CampInv
  <1>3. CASE Next /\ ~Settles
    <2>1. phase \in CampaignPhases
      BY <1>3, BadgeSteps
    <2> QED
      BY <2>1 DEF CampInv, TypeInv, TypeOK
  <1> QED
    BY <1>1, <1>2, <1>3

(* A sheriff is elected only when there has been none before, also when    *)
(* detonations interrupt the campaign and put it off.                      *)
THEOREM OneElection == Spec => ElectedOnce
  <1>1. TypeInv /\ CampInv /\ [Next]_vars
        => [phase # "badge" /\ badge' # badge /\ badge' # {} => ~elected]_vars
    BY ElectionStep
  <1> QED
    BY <1>1, SheriffInv, PTL DEF Spec, ElectedOnce

-----------------------------------------------------------------------------
(* The side that has won *)

WonInv ==
    /\ winner # "none" => phase = "ended" /\ winner = CheckWinner
    /\ phase \notin Settlement => CheckWinner = "none"

(* Steps that leave it to the settlement, or to later, to ask who has won, *)
(* and steps that ask.                                                     *)
Defers ==
    /\ winner' = winner
    /\ phase' \in Settlement \/ (phase \notin Settlement /\ alive' = alive)

Asks ==
    /\ alive' = alive /\ winner' = CheckWinner
    /\ CheckWinner = "none" \/ phase' = "ended"

LEMMA DefersOrAsks ==
  ASSUME Next
  PROVE  phase # "ended" /\ UNCHANGED setup /\ (Defers \/ Asks)
  <1> USE DEF setup, players, sheriffs, skills, queue, history, Settlement, Settling, Defers, Asks
  <1>1. CASE Night
    BY <1>1 DEF Night, Guard, Knife, Silence, Poison, Save, WitchDone, EndNight
  <1>2. ASSUME NEW w \in Seats, NEW t \in Seats \cup {NoSeat}, DetonateInWords(w, t) \/ Detonate(w, t)
        PROVE  phase # "ended" /\ UNCHANGED setup /\ Defers
    BY <1>2 DEF DetonateInWords, Detonate, Detonated, DayPhases, CampaignPhases, Speeches
  <1>3. ASSUME NEW p \in Seats, Shoot(p) \/ PassBadge(p)
        PROVE  phase # "ended" /\ UNCHANGED setup /\ Defers
    BY <1>3 DEF Shoot, PassBadge, LeaveBadge
  <1>4. ASSUME NEW p \in Seats, Run(p) \/ Withdraw(p)
        PROVE  phase # "ended" /\ UNCHANGED setup /\ Defers
    BY <1>4 DEF Run, Withdraw
  <1>5. ASSUME NEW k \in Seats, NEW t \in Seats, Duel(k, t)
        PROVE  phase # "ended" /\ UNCHANGED setup /\ Defers
    BY <1>5 DEF Duel, Speeches
  <1>6. CASE EndWords \/ SkipShooter \/ AskShooter \/ PassBy \/ NoShot \/ TearBadge
    BY <1>6 DEF EndWords, SkipShooter, AskShooter, PassBy, NoShot, TearBadge, LeaveBadge
  <1>7. CASE DetonateAfterWords \/ Cancel
    BY <1>7 DEF DetonateAfterWords, Detonated, Settled, Cancel
  <1>8. CASE DayBreaks \/ DetonationEndsDay \/ DeathEndsDay \/ SpeechesGoOn
    BY <1>8 DEF DayBreaks, DetonationEndsDay, DeathEndsDay, SpeechesGoOn, Settled, Conclude
  <1>9. CASE CloseRegister \/ EndSheriffSpeech \/ EndFinalSpeech \/ EndSpeeches
    BY <1>9 DEF CloseRegister, EndSheriffSpeech, EndFinalSpeech, EndSpeeches, Speeches
  <1>10. ASSUME NEW T \in SUBSET Seats, SheriffVote(T) \/ Revote(T)
         PROVE  phase # "ended" /\ UNCHANGED setup /\ Defers
    BY <1>10 DEF SheriffVote, Revote
  <1>11. ASSUME NEW T \in SUBSET Seats, Vote(T) \/ PkVote(T)
         PROVE  phase # "ended" /\ UNCHANGED setup /\ (Defers \/ Asks)
    <2>1. phase \in {"vote", "pk_vote"} /\ UNCHANGED setup
      BY <1>11 DEF Vote, PkVote
    <2>2. ASSUME NEW s \in T, Exile(s) PROVE Defers \/ Asks
      BY <2>2 DEF Exile, Conclude
    <2>3. CASE NoExile
      BY <2>1, <2>3 DEF NoExile, Conclude
    <2>4. CASE phase' = "pk_speech" /\ UNCHANGED <<winner, alive>>
      BY <2>1, <2>4
    <2> QED
      BY <1>11, <2>1, <2>2, <2>3, <2>4 DEF Vote, PkVote
  <1> QED
    BY <1>1, <1>2, <1>3, <1>4, <1>5, <1>6, <1>7, <1>8, <1>9, <1>10, <1>11 DEF Next, Moves, Expire

LEMMA WonStep ==
  ASSUME WonInv, [Next]_vars
  PROVE  WonInv'
  <1>1. ASSUME UNCHANGED <<board, rules, alive>> PROVE CheckWinner' = CheckWinner
    BY <1>1 DEF CheckWinner, Left, Role
  <1>2. CASE Next
    <2>1. phase # "ended" /\ UNCHANGED <<board, rules>> /\ (Defers \/ Asks)
      BY <1>2, DefersOrAsks DEF setup
    <2>2. winner = "none"
      BY <2>1 DEF WonInv
    <2>3. CASE Defers
      BY <1>1, <2>1, <2>2, <2>3 DEF Defers, WonInv
    <2>4. CASE Asks
      BY <1>1, <2>1, <2>4 DEF Asks, WonInv, Settlement
    <2> QED
      BY <2>1, <2>3, <2>4
  <1>3. CASE UNCHANGED vars
    BY <1>1, <1>3 DEF vars, setup, players, WonInv
  <1> QED
    BY <1>2, <1>3

(* Every board has players of each camp at the deal. *)
LEMMA WonInit == Init => WonInv
  <1> SUFFICES ASSUME Init PROVE CheckWinner = "none" /\ winner = "none"
    BY DEF WonInv
  <1>1. PICK d \in Deals : board = d[1] /\ alive = Seats
    BY DEF Init
  <1>2. Left(Wolves) /\ Left(Gods) /\ Left(Villagers)
    BY <1>1, DealsAssumption DEF Left, Role
  <1>3. Left(Gods \cup Villagers)
    BY <1>2 DEF Left
  <1> QED
    BY <1>2, <1>3 DEF CheckWinner, Init

(* No night falls, nobody speaks in turn and no vote is held once a side   *)
(* has won, on whichever path the day ended, and the side announced is the *)
(* one that has won.                                                       *)
THEOREM NothingAfterVictory == Spec => []OverWhenWon
  <1>1. WonInv => OverWhenWon
    BY DEF WonInv, OverWhenWon
  <1> QED
    BY <1>1, WonInit, WonStep, PTL DEF Spec

-----------------------------------------------------------------------------
(* What the gravekeeper is told *)

(* A detonation cuts a day short in the last words of the night's dead. *)
CutAtDaybreak == phase = "words" /\ after = "day" /\ after' = "cut"

Daybreak == phase \in Settling /\ after = "day"

Assembly == Speeches \cup {"vote", "pk_vote"}

(* The seat of an earlier exile lasts until the speeches of a day begin and *)
(* no further.  A campaign is ahead only as long as no speeches have been   *)
(* held; it belongs to the day under way.                                   *)
NewsInv ==
    /\ phase = "ended" \/ Daybreak \/ exiled = yesterday
    /\ phase \in CampaignPhases \/ Daybreak => yesterday = NoSeat
    /\ campaign # 0 => exiled = NoSeat /\ yesterday = NoSeat
    /\ phase \in Assembly => campaign = 0
    /\ phase \in Settling /\ after \in Speeches \cup {"exile", "duel_won", "cut"} => campaign = 0
    /\ phase \in CampaignPhases => campaign # 0
    /\ phase = "ended" \/ campaign \in {0, round}
    /\ phase = "words" => after \in {"day", "exile"}

LEMMA NewsStep ==
  ASSUME TypeInv, NewsInv, [Next]_vars, ~CutAtDaybreak
  PROVE  NewsInv'
  <1> USE DEF setup, players, sheriffs, skills, queue, history, Settling, CampaignPhases,
              Speeches, Assembly, Daybreak
  <1>0. round \in 1..3 /\ campaign \in 0..2
    BY DEF TypeInv, TypeOK
  <1>1. CASE Night
    BY <1>1 DEF Night, Guard, Knife, Silence, Poison, Save, WitchDone, EndNight, NewsInv
  <1>2. ASSUME NEW w \in Seats, NEW t \in Seats \cup {NoSeat}, DetonateInWords(w, t) PROVE NewsInv'
    BY <1>2 DEF DetonateInWords, NewsInv, CutAtDaybreak
  <1>3. ASSUME NEW w \in Seats, NEW t \in Seats \cup {NoSeat}, Detonate(w, t) PROVE NewsInv'
    BY <1>3 DEF Detonate, Detonated, DayPhases, NewsInv
  <1>4. ASSUME NEW p \in Seats, Shoot(p) \/ PassBadge(p) \/ Run(p) \/ Withdraw(p) PROVE NewsInv'
    BY <1>4 DEF Shoot, PassBadge, LeaveBadge, Run, Withdraw, NewsInv
  <1>5. ASSUME NEW k \in Seats, NEW t \in Seats, Duel(k, t) PROVE NewsInv'
    BY <1>5 DEF Duel, NewsInv
  <1>6. CASE EndWords \/ SkipShooter \/ AskShooter \/ PassBy \/ NoShot \/ TearBadge
    BY <1>6 DEF EndWords, SkipShooter, AskShooter, PassBy, NoShot, TearBadge, LeaveBadge, NewsInv
  <1>7. CASE DetonateAfterWords \/ Cancel
    BY <1>7 DEF DetonateAfterWords, Detonated, Settled, Cancel, NewsInv
  <1>8. CASE DayBreaks
    BY <1>8, <1>0 DEF DayBreaks, StartSpeeches, Settled, NewsInv
  <1>9. CASE DetonationEndsDay
    <2>1. phase = "effects" /\ after = "boom" /\ exiled = yesterday
      BY <1>9 DEF DetonationEndsDay, Settled, NewsInv
    <2>2. CASE CheckWinner = "none"
      <3>1. /\ phase' = "guard" /\ UNCHANGED <<exiled, yesterday>>
            /\ round' = IF round < 3 THEN round + 1 ELSE round
        BY <1>9, <2>2 DEF DetonationEndsDay, Conclude
      <3>2. IF campaign = round THEN campaign' = IF round = 1 THEN 2 ELSE 0
            ELSE campaign' = campaign
        BY <1>9, <2>2 DEF DetonationEndsDay, Postpone
      <3> QED
        BY <2>1, <3>1, <3>2, <1>0 DEF NewsInv
    <2>3. CASE CheckWinner # "none"
      BY <1>9, <2>1, <2>3 DEF DetonationEndsDay, Conclude, Postpone, NewsInv
    <2> QED
      BY <2>2, <2>3
  <1>10. CASE DeathEndsDay \/ SpeechesGoOn
    BY <1>10 DEF DeathEndsDay, SpeechesGoOn, Settled, Conclude, NewsInv
  <1>11. CASE CloseRegister \/ EndSheriffSpeech \/ EndFinalSpeech \/ EndSpeeches
    BY <1>11 DEF CloseRegister, EndSheriffSpeech, EndFinalSpeech, EndSpeeches, EndCampaign, StartSpeeches,
       NewsInv
  <1>12. ASSUME NEW T \in SUBSET Seats, SheriffVote(T) \/ Revote(T) PROVE NewsInv'
    BY <1>12 DEF SheriffVote, Revote, EndCampaign, StartSpeeches, NewsInv
  <1>13. ASSUME NEW T \in SUBSET Seats, Vote(T) \/ PkVote(T) PROVE NewsInv'
    <2>1. campaign' = campaign /\ campaign = 0 /\ exiled = yesterday
      BY <1>13 DEF Vote, PkVote, NewsInv
    <2>2. ASSUME NEW s \in T, Exile(s) PROVE NewsInv'
      BY <2>1, <2>2 DEF Exile, Conclude, NewsInv
    <2>3. CASE NoExile
      BY <2>1, <2>3 DEF NoExile, Conclude, NewsInv
    <2>4. CASE phase' = "pk_speech" /\ UNCHANGED <<round, exiled, yesterday>>
      BY <2>1, <2>4 DEF NewsInv
    <2> QED
      BY <1>13, <2>2, <2>3, <2>4 DEF Vote, PkVote
  <1>14. CASE UNCHANGED vars
    BY <1>14 DEF vars, NewsInv
  <1> QED
    BY <1>1, <1>2, <1>3, <1>4, <1>5, <1>6, <1>7, <1>8, <1>9, <1>10, <1>11, <1>12, <1>13, <1>14
       DEF Next, Moves, Expire

(* The gravekeeper is told of an exile of an earlier day only after a      *)
(* detonation in the last words of a daybreak: as long as there is none,   *)
(* what the role is promised holds, over campaigns that are put off,       *)
(* second ballots, duels and every other detonation.                       *)
THEOREM OnlyACutDaybreakGivesOldNews ==
  Spec /\ [][~CutAtDaybreak]_vars => []NewsOfYesterday
  <1>1. Init => NewsInv
    BY DEF Init, NewsInv, CampaignPhases, Settling, Speeches, Assembly, Daybreak
  <1>2. NewsInv => NewsOfYesterday
    BY DEF NewsInv, NewsOfYesterday, Daybreak, Settling
  <1>3. TypeInv /\ NewsInv /\ [Next]_vars /\ [~CutAtDaybreak]_vars => NewsInv'
    <2>1. UNCHANGED vars /\ TypeInv /\ NewsInv => NewsInv'
      BY DEF vars, setup, players, sheriffs, skills, queue, history, NewsInv, Daybreak
    <2> QED
      BY <2>1, NewsStep
  <1>4. Spec => []TypeInv
    <2>1. Init => TypeInv BY TypeInit
    <2> QED BY <2>1, TypeStep, PTL DEF Spec
  <1> QED
    BY <1>1, <1>2, <1>3, <1>4, PTL DEF Spec

-----------------------------------------------------------------------------
(* How a day shortens *)

(* Last words are spoken after a night and after an exile. *)
WordsInv == phase = "words" => after \in {"day", "exile"}

LEMMA WordsStep ==
  ASSUME WordsInv, [Next]_vars
  PROVE  WordsInv'
  <1> USE DEF setup, players, sheriffs, skills, queue, history
  <1>1. CASE Night
    BY <1>1 DEF Night, Guard, Knife, Silence, Poison, Save, WitchDone, EndNight, WordsInv
  <1>2. CASE Moves
    BY <1>2 DEF Moves, DetonateInWords, Detonate, Detonated, Shoot, PassBadge, LeaveBadge, Run,
       Withdraw, Duel, WordsInv
  <1>3. CASE EndWords \/ SkipShooter \/ AskShooter \/ PassBy \/ NoShot \/ TearBadge
    BY <1>3 DEF EndWords, SkipShooter, AskShooter, PassBy, NoShot, TearBadge, LeaveBadge, WordsInv
  <1>4. CASE \/ DayBreaks \/ DetonateAfterWords \/ DetonationEndsDay \/ DeathEndsDay \/ SpeechesGoOn
             \/ Cancel
    BY <1>4 DEF DayBreaks, StartSpeeches, DetonateAfterWords, Detonated, DetonationEndsDay, DeathEndsDay,
       SpeechesGoOn, Settled, Speeches, Conclude, Cancel, WordsInv
  <1>5. CASE CloseRegister \/ EndSheriffSpeech \/ EndFinalSpeech \/ EndSpeeches
    BY <1>5 DEF CloseRegister, EndSheriffSpeech, EndFinalSpeech, EndSpeeches, EndCampaign, StartSpeeches,
       Speeches, WordsInv
  <1>6. ASSUME NEW T \in SUBSET Seats, SheriffVote(T) \/ Revote(T) PROVE WordsInv'
    BY <1>6 DEF SheriffVote, Revote, EndCampaign, StartSpeeches, WordsInv
  <1>7. ASSUME NEW T \in SUBSET Seats, Vote(T) \/ PkVote(T) PROVE WordsInv'
    BY <1>7 DEF Vote, PkVote, Exile, NoExile, Conclude, WordsInv
  <1>8. CASE UNCHANGED vars
    BY <1>8 DEF vars, WordsInv
  <1> QED
    BY <1>1, <1>2, <1>3, <1>4, <1>5, <1>6, <1>7, <1>8 DEF Next, Expire

(* The places of a day in their order *)
LEMMA Order ==
    /\ Ahead["day"] = 12 /\ Ahead["register"] = 11 /\ Ahead["sheriff_speech"] = 10
    /\ Ahead["sheriff_vote"] = 9 /\ Ahead["final_speech"] = 8 /\ Ahead["revote"] = 7
    /\ Ahead["speech"] = 6 /\ Ahead["vote"] = 5 /\ Ahead["pk_speech"] = 4 /\ Ahead["pk_vote"] = 3
    /\ Ahead["exile"] = 2 /\ Ahead["duel_won"] = 2 /\ Ahead["cut"] = 1 /\ Ahead["boom"] = 0
  BY DEF Ahead

(* The queues get shorter from the head. *)
LEMMA Shorter ==
  ASSUME NEW S, NEW q \in Seq(S)
  PROVE  /\ Len(q) \in Nat
         /\ q # <<>> => Len(q) >= 1 /\ Len(Tail(q)) = Len(q) - 1
  <1>1. Len(q) \in Nat /\ (q # <<>> => Len(q) # 0)
    BY LenProperties, EmptySeq
  <1>2. q # <<>> => Len(Tail(q)) = Len(q) - 1
    BY HeadTailProperties
  <1> QED
    BY <1>1, <1>2

(* What one step of the settlement does: it says last words, asks, leaves  *)
(* the decision on the badge, or takes the dead player off the queue.      *)
LEMMA SettlementShape ==
  ASSUME TypeInv, EndWords \/ Settles, \A t \in Seats : ~Shoot(t)
  PROVE  /\ phase \in Settling /\ phase' \in Settling /\ after' = after /\ alive' = alive
         /\ \/ /\ phase = "words" /\ pending' = pending
               /\ words # <<>> /\ words' = Tail(words) /\ phase' \in {"words", "effects"}
            \/ phase = "effects" /\ phase' \in {"shot", "badge"} /\ pending' = pending
            \/ phase = "shot" /\ phase' = "badge" /\ pending' = pending
            \/ /\ phase \in {"effects", "shot", "badge"} /\ phase' = "effects"
               /\ pending # <<>> /\ pending' = Tail(pending)
  <1> USE DEF setup, players, sheriffs, skills, queue, history, Settling
  <1>1. CASE EndWords
    BY <1>1 DEF EndWords, TypeInv, Waits
  <1>2. CASE SkipShooter
    BY <1>2 DEF SkipShooter
  <1>3. CASE AskShooter
    BY <1>3 DEF AskShooter
  <1>4. CASE PassBy
    BY <1>4 DEF PassBy, LeaveBadge
  <1>5. CASE NoShot
    BY <1>5 DEF NoShot, LeaveBadge, TypeInv, Waits
  <1>6. CASE TearBadge
    BY <1>6 DEF TearBadge, TypeInv, Waits
  <1>7. ASSUME NEW t \in Seats, PassBadge(t)
        PROVE  phase = "badge" /\ phase' = "effects" /\ pending # <<>> /\ pending' = Tail(pending)
               /\ after' = after /\ alive' = alive
    BY <1>7 DEF PassBadge, TypeInv, Waits
  <1> QED
    BY <1>1, <1>2, <1>3, <1>4, <1>5, <1>6, <1>7 DEF Settles

(* A step of the settlement leaves less to do, or somebody is shot. *)
LEMMA SettlementShortens ==
  ASSUME TypeInv, EndWords \/ Settles
  PROVE  Nearer
  <1>1. CASE \E t \in Seats : Shoot(t)
    <2>1. alive' # alive /\ alive' \subseteq alive
      BY <1>1 DEF Shoot, Kill
    <2>2. Place' = Place
      BY <1>1 DEF Shoot, LeaveBadge, Place, Settling
    <2> QED
      BY <2>1, <2>2 DEF Nearer
  <1>2. CASE \A t \in Seats : ~Shoot(t)
    <2>1. /\ phase \in Settling /\ phase' \in Settling /\ after' = after /\ alive' = alive
          /\ \/ /\ phase = "words" /\ pending' = pending
                /\ words # <<>> /\ words' = Tail(words) /\ phase' \in {"words", "effects"}
             \/ phase = "effects" /\ phase' \in {"shot", "badge"} /\ pending' = pending
             \/ phase = "shot" /\ phase' = "badge" /\ pending' = pending
             \/ /\ phase \in {"effects", "shot", "badge"} /\ phase' = "effects"
                /\ pending # <<>> /\ pending' = Tail(pending)
      BY <1>2, SettlementShape
    <2> DEFINE p == Len(pending)  pp == Len(pending')  w == Len(words)  ww == Len(words')
    <2>2. /\ p \in Nat /\ (pending # <<>> => p >= 1 /\ Len(Tail(pending)) = p - 1)
          /\ w \in Nat /\ (words # <<>> => w >= 1 /\ Len(Tail(words)) = w - 1)
      BY Shorter DEF TypeInv, TypeOK
    <2>3. /\ Work = 3 * p + (CASE phase = "words" -> w + 3 [] phase = "effects" -> 2
                               [] phase = "shot" -> 1 [] OTHER -> 0)
          /\ Work' = 3 * pp + (CASE phase' = "words" -> ww + 3 [] phase' = "effects" -> 2
                                 [] phase' = "shot" -> 1 [] OTHER -> 0)
      BY DEF Work
    <2> HIDE DEF p, pp, w, ww
    <2>4. Work' < Work
      <3>1. CASE /\ phase = "words" /\ pending' = pending /\ words # <<>> /\ words' = Tail(words)
                 /\ phase' \in {"words", "effects"}
        <4>1. pp = p /\ ww = w - 1 /\ w >= 1
          BY <2>2, <3>1 DEF p, pp, w, ww
        <4> QED
          BY <2>2, <2>3, <3>1, <4>1
      <3>2. CASE \/ phase = "effects" /\ phase' \in {"shot", "badge"} /\ pending' = pending
                 \/ phase = "shot" /\ phase' = "badge" /\ pending' = pending
        <4>1. pp = p
          BY <3>2 DEF p, pp
        <4> QED
          BY <2>2, <2>3, <3>2, <4>1
      <3>3. CASE /\ phase \in {"effects", "shot", "badge"} /\ phase' = "effects"
                 /\ pending # <<>> /\ pending' = Tail(pending)
        <4>1. pp = p - 1 /\ p >= 1
          BY <2>2, <3>3 DEF p, pp
        <4> QED
          BY <2>2, <2>3, <3>3, <4>1
      <3> QED
        BY <2>1, <3>1, <3>2, <3>3
    <2> QED
      BY <2>1, <2>4 DEF Nearer, Place
  <1> QED
    BY <1>1, <1>2

LEMMA DayStep ==
  ASSUME TypeInv, WordsInv, Next, {phase, phase'} \subseteq DayPhases
  PROVE  Nearer \/ (running' # running /\ UNCHANGED <<phase, alive, words, queue>>)
  <1> USE DEF setup, players, sheriffs, skills, queue, history, Settling, Speeches
  <1>1. CASE Night
    BY <1>1 DEF Night, Guard, Knife, Silence, Poison, Save, WitchDone, EndNight, DayPhases, CampaignPhases
  <1>2. ASSUME NEW w \in Seats, NEW t \in Seats \cup {NoSeat}, DetonateInWords(w, t) PROVE Nearer
    <2>1. Place \in {"day", "exile"} /\ Place' = "cut"
      BY <1>2 DEF DetonateInWords, WordsInv, Place
    <2> QED
      BY <2>1, Order DEF Nearer
  <1>3. ASSUME NEW w \in Seats, NEW t \in Seats \cup {NoSeat}, Detonate(w, t) PROVE Nearer
    <2>1. Place = phase /\ Place' = "boom"
      BY <1>3 DEF Detonate, Detonated, Place
    <2> QED
      BY <1>3, <2>1, Order DEF Detonate, Nearer, DayPhases, CampaignPhases
  <1>4. ASSUME NEW p \in Seats, Run(p) \/ Withdraw(p)
        PROVE  running' # running /\ UNCHANGED <<phase, alive, words, queue>>
    BY <1>4 DEF Run, Withdraw
  <1>5. ASSUME NEW k \in Seats, NEW t \in Seats, Duel(k, t) PROVE Nearer
    <2>1. alive' # alive /\ alive' \subseteq alive
      BY <1>5 DEF Duel, Kill, Living
    <2>2. Place \in {"speech", "pk_speech"} /\ Place' \in {Place, "duel_won"}
      BY <1>5 DEF Duel, Place
    <2> QED
      BY <2>1, <2>2, Order DEF Nearer
  <1>6. CASE EndWords \/ Settles
    BY <1>6, SettlementShortens
  <1>7. CASE DayBreaks
    <2>1. Place = "day" /\ Place' \in {"speech", "register"}
      BY <1>7 DEF DayBreaks, StartSpeeches, Settled, Place, DayPhases, CampaignPhases
    <2> QED
      BY <2>1, Order DEF Nearer
  <1>8. CASE DetonateAfterWords
    <2>1. Place = "cut" /\ Place' = "boom"
      BY <1>8 DEF DetonateAfterWords, Detonated, Settled, Place
    <2> QED
      BY <2>1, Order DEF Nearer
  <1>9. CASE DetonationEndsDay \/ DeathEndsDay \/ Cancel
    BY <1>9 DEF DetonationEndsDay, DeathEndsDay, Conclude, Cancel, DayPhases, CampaignPhases
  <1>10. CASE SpeechesGoOn
    <2>1. Place' = Place /\ alive' = alive
      BY <1>10 DEF SpeechesGoOn, Settled, Place, DayPhases, CampaignPhases
    <2>2. phase = "effects" /\ phase' \in Speeches /\ pending = <<>> /\ pending' = <<>>
      BY <1>10 DEF SpeechesGoOn, Settled, DayPhases, CampaignPhases
    <2>3. Len(pending) = 0 /\ Len(pending') = 0
      BY <2>2
    <2>4. Work = 2 /\ Work' = 0
      BY <2>2, <2>3 DEF Work
    <2> QED
      BY <2>1, <2>4 DEF Nearer
  <1>11. CASE CloseRegister \/ EndSheriffSpeech \/ EndFinalSpeech \/ EndSpeeches
    BY <1>11, Order DEF CloseRegister, EndSheriffSpeech, EndFinalSpeech, EndSpeeches, EndCampaign,
       StartSpeeches, Place, Nearer
  <1>12. ASSUME NEW T \in SUBSET Seats, SheriffVote(T) \/ Revote(T) PROVE Nearer
    BY <1>12, Order DEF SheriffVote, Revote, EndCampaign, StartSpeeches, Place, Nearer
  <1>13. ASSUME NEW T \in SUBSET Seats, Vote(T) \/ PkVote(T) PROVE Nearer
    <2>1. Place = phase /\ phase \in {"vote", "pk_vote"}
      BY <1>13 DEF Vote, PkVote, Place
    <2>2. (phase = "vote" /\ phase' = "pk_speech") \/ (phase' = "words" /\ after' = "exile")
      BY <1>13 DEF Vote, PkVote, Exile, NoExile, Conclude, DayPhases, CampaignPhases
    <2>3. Place' = "exile" \/ (Place = "vote" /\ Place' = "pk_speech")
      BY <2>1, <2>2 DEF Place
    <2> QED
      BY <2>1, <2>3, Order DEF Nearer
  <1> QED
    BY <1>1, <1>2, <1>3, <1>4, <1>5, <1>6, <1>7, <1>8, <1>9, <1>10, <1>11, <1>12, <1>13
       DEF Next, Moves, Expire, Settles

(* Each step of a day that does not end it brings its end nearer: with the *)
(* timers of the windows this is why every day ends.                       *)
THEOREM NoDayTurnsBack == Spec => DayShortens
  <1>1. Init => WordsInv
    BY DEF Init, WordsInv
  <1>2. TypeInv /\ WordsInv /\ [Next]_vars =>
          [{phase, phase'} \subseteq DayPhases =>
              Nearer \/ (running' # running /\ UNCHANGED <<phase, alive, words, queue>>)]_vars
    BY DayStep
  <1> QED
    BY <1>1, <1>2, TypeInit, TypeStep, WordsStep, PTL DEF Spec, DayShortens
=============================================================================
