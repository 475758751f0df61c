---------------------------- MODULE MCLobbyClient ----------------------------
EXTENDS LobbyClient
=============================================================================
