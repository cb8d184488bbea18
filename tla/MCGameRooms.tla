------------------------------ MODULE MCGameRooms ------------------------------
(* Small instances of GameRooms for TLC. *)
EXTENDS GameRooms

CONSTANTS h1, h2, b1, g1, g2

PlayersAndBot == {h1, h2, b1}
=============================================================================
