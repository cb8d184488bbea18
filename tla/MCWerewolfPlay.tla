---------------------------- MODULE MCWerewolfPlay ----------------------------
(* Small boards and house rules for TLC.  Each board keeps some special     *)
(* roles of the boards of roles.py, and fewer of the others.                *)
EXTENDS WerewolfPlay, TLC

Board(roles, mode) == [role |-> roles, silence |-> mode]

(* The preset for beginners of house_rules.py, and rules set by a host      *)
Novice == [sheriff |-> TRUE, self |-> TRUE, double |-> FALSE, conflict |-> FALSE,
           win |-> "edge", words |-> "all", tie |-> "pk"]
Own    == [sheriff |-> FALSE, self |-> FALSE, double |-> TRUE, conflict |-> TRUE,
           win |-> "city", words |-> "first", tie |-> "peace"]

SmallDeals ==
    {<<Board(<<"wolf_king", "wolf", "hunter", "witch", "villager">>, "none"), Novice>>,
     <<Board(<<"white_king", "wolf", "knight", "villager", "halfblood">>, "none"), Novice>>,
     <<Board(<<"wolf", "elder", "idiot", "villager", "villager">>, "vote"), Novice>>,
     <<Board(<<"white_king", "wolf", "knight", "elder", "villager">>, "speech"), Own>>,
     <<Board(<<"hidden_wolf", "guard", "witch", "villager", "villager">>, "none"), Own>>}

(* For the news of the gravekeeper: a board that has one, last words for    *)
(* the dead of every night, no campaign, and wolves who have to kill all.   *)
KeeperDeals ==
    {<<Board(<<"wolf", "wolf", "keeper", "villager", "villager">>, "none"),
       [Novice EXCEPT !.sheriff = FALSE, !.win = "city"]>>}
=============================================================================
