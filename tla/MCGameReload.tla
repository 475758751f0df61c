----------------------------- MODULE MCGameReload -----------------------------
EXTENDS GameReload

\* GUIDs beyond every index of a player table.
TwoPlayers == {11, 12}
=============================================================================
