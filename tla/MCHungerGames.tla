---------------------------- MODULE MCHungerGames ----------------------------
EXTENDS HungerGames

\* GUIDs beyond every index of a player table.
TwoPlayers   == {11, 12}
ThreePlayers == {11, 12, 13}
=============================================================================
