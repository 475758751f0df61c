----------------------------- MODULE LobbyClient -----------------------------
(***************************************************************************)
(* The lobby of one client (MainFrame.lua) and the game service as its     *)
(* player meets it (PlayerService, which HungerGames implements for every  *)
(* player): menus and lists of the client, its requests on their way to    *)
(* the server, the messages of the scripts on their way back, each in the  *)
(* order they were sent.                                                   *)
(*                                                                         *)
(* The client does not wait for answers: it shows the lobby of a game as   *)
(* soon as it has asked to create or to join it.  Games here have no       *)
(* password, and the perks menu and ranked games are left out.             *)
(***************************************************************************)
EXTENDS PlayerService, Integers, Sequences

CONSTANTS
    Person,     \* a text that is no name of a game: a player's, for one
    MaxFlight   \* bound: requests, or messages, under way

ASSUME LobbyAssumption ==
    Nil \notin Names /\ Person \notin Names \cup {Nil} /\ MaxFlight \in Nat

VARIABLES
    MENU_SELECTED,          \* 0 main menu, 1 list of games, 2 lobby of a game
    PLAYER_IN_GAME_STR,     \* the game whose lobby is shown
    IN_GAME,                \* the lobby is hidden, the game is on
    ONLINE_PLAYERS,         \* names in the list that is shown
    up,                     \* requests under way
    down,                   \* messages under way
    missed,                 \* the last create or join had no effect (history)
    vanished                \* the queues with him vanished unseen (history)

ui == <<MENU_SELECTED, PLAYER_IN_GAME_STR, IN_GAME, ONLINE_PLAYERS>>
history == <<missed, vanished>>
vars == <<served, ui, up, down, history>>

Entering == {"CREATEGAME", "JoinGame"}
Polls == {"WHO", "MAINMENU", "PLRSLB"}
Requests == [type : Entering \cup Polls \cup {"LEAVEGAME"},
             name : Names \cup {Person, Nil}]
Messages == {"STARTINGGAME", "RESET", "GAMES", "PLAYERS", "WHO"}

InitLobby ==
    /\ Init
    /\ MENU_SELECTED = 0 /\ PLAYER_IN_GAME_STR = Nil /\ IN_GAME = FALSE
    /\ ONLINE_PLAYERS = {}
    /\ up = <<>> /\ down = <<>>
    /\ missed = FALSE /\ vanished = FALSE

------------------------------------------------------------------------------
\* The client.  Its buttons are hidden while the game is on.

Clicks(menu) == here # "offline" /\ ~IN_GAME /\ MENU_SELECTED = menu

Send(type, name) ==
    /\ Len(up) < MaxFlight
    /\ up' = Append(up, [type |-> type, name |-> name])

\* All variables of the interface are as after loading.
ReloadUI ==
    /\ MENU_SELECTED' = 0 /\ PLAYER_IN_GAME_STR' = Nil
    /\ IN_GAME' = FALSE /\ ONLINE_PLAYERS' = {}

PlayGame ==
    /\ Clicks(0)
    /\ MENU_SELECTED' = 1 /\ ONLINE_PLAYERS' = {}
    /\ UNCHANGED <<served, PLAYER_IN_GAME_STR, IN_GAME, up, down, history>>

GoBackToMainMenu ==
    /\ Clicks(1)
    /\ MENU_SELECTED' = 0 /\ ONLINE_PLAYERS' = {}
    /\ UNCHANGED <<served, PLAYER_IN_GAME_STR, IN_GAME, up, down, history>>

OpenGameLobby(name) ==
    /\ PLAYER_IN_GAME_STR' = name /\ MENU_SELECTED' = 2
    /\ missed' = FALSE
    /\ UNCHANGED <<served, IN_GAME, ONLINE_PLAYERS, down, vanished>>

CreateGameClick(n) ==
    /\ Clicks(1)
    /\ Send("CREATEGAME", n)
    /\ OpenGameLobby(n)

\* Whatever the row shows is taken for the name of a game, from its ninth
\* character on; from the tenth row on that is a space before the name.
HandleScollBarEntryClick(row) ==
    /\ Clicks(1)
    /\ \E lobbyName \in {row, Person} :
        Send("JoinGame", lobbyName) /\ OpenGameLobby(lobbyName)

leaveGame ==
    /\ Clicks(2)
    /\ Send("LEAVEGAME", PLAYER_IN_GAME_STR)
    /\ ReloadUI
    /\ UNCHANGED <<served, down, history>>

\* The periodic request of the menu that is shown.
mainFrameUpdate ==
    /\ here # "offline" /\ ~IN_GAME
    /\ ONLINE_PLAYERS' = {}
    /\ \/ MENU_SELECTED = 0 /\ Send("WHO", Nil)
       \/ MENU_SELECTED = 1 /\ Send("MAINMENU", Nil)
       \/ MENU_SELECTED = 2 /\ Send("PLRSLB", PLAYER_IN_GAME_STR)
    /\ UNCHANGED <<served, MENU_SELECTED, PLAYER_IN_GAME_STR, IN_GAME, down,
                   history>>

\* Names a list may hold.
Listed(type) == IF type = "GAMES" THEN SUBSET Names ELSE {{}, {Person}}

\* A list is written over the old one, row by row, in whatever menu: rows
\* beyond its end stay.
ReceiveList(type) ==
    /\ \E new \in Listed(type), old \in SUBSET ONLINE_PLAYERS :
        ONLINE_PLAYERS' = IF type = "WHO" /\ IN_GAME
                          THEN ONLINE_PLAYERS ELSE new \cup old
    /\ UNCHANGED <<MENU_SELECTED, PLAYER_IN_GAME_STR, IN_GAME>>

\* Mutant: only a game that is on is reset.
ReceiveReset_started ==
    /\ Head(down) = "RESET"
    /\ IF IN_GAME THEN ReloadUI ELSE UNCHANGED ui

ReceiveReset == Head(down) = "RESET" /\ ReloadUI

\* eventHandlerMainFrame, with a joined message.
Receive ==
    /\ down # <<>>
    /\ down' = Tail(down)
    /\ \/ /\ Head(down) = "STARTINGGAME"
          /\ IN_GAME' = TRUE
          /\ UNCHANGED <<MENU_SELECTED, PLAYER_IN_GAME_STR, ONLINE_PLAYERS>>
       \/ ReceiveReset
       \/ /\ Head(down) \in {"GAMES", "PLAYERS", "WHO"}
          /\ ReceiveList(Head(down))
    /\ UNCHANGED <<served, up, history>>

UserClick ==
    \/ PlayGame \/ GoBackToMainMenu \/ leaveGame
    \/ \E n \in Names : CreateGameClick(n)
    \/ \E row \in ONLINE_PLAYERS : HandleScollBarEntryClick(row)

------------------------------------------------------------------------------
\* The server: onReceiveAddonMsg for the requests of this client

Request(types) ==
    /\ up # <<>> /\ Head(up).type \in types
    /\ up' = Tail(up)

\* The attempt counts as long as the client has made no other since.
Missed ==
    missed' = (missed \/ \A i \in 2..Len(up) : up[i].type \notin Entering)

Dispatch ==
    /\ \/ /\ Request(Entering) /\ Head(up).name \in Names
          /\ Enter(Head(up).name) /\ vanished' = FALSE
       \/ Request({"LEAVEGAME"}) /\ Leave /\ UNCHANGED vanished
    /\ UNCHANGED <<ui, down, missed>>

\* CREATEGAME fails when the player is in a game; JoinGame also when there is
\* no such game or it is in progress.  leaveGame needs a game of that name.
Refuse ==
    /\ here = "world"
    /\ \/ /\ Request(Entering)
          /\ Head(up).type = "CREATEGAME" => GAME # Nil
          /\ Missed
       \/ Request({"LEAVEGAME"}) /\ UNCHANGED missed
    /\ UNCHANGED <<served, ui, down, vanished>>

\* While the player is between two maps his session drops the packet.
Dropped ==
    /\ here = "loading"
    /\ \/ Request(Entering) /\ Missed
       \/ Request(Polls \cup {"LEAVEGAME"}) /\ UNCHANGED missed
    /\ UNCHANGED <<served, ui, down, vanished>>

\* The lists: always for a menu, for a lobby only while in a game that is
\* still there.
Answer ==
    /\ here = "world" /\ Len(down) < MaxFlight
    /\ \/ Request({"MAINMENU"}) /\ down' = Append(down, "GAMES")
       \/ Request({"WHO"}) /\ down' = Append(down, "WHO")
       \/ /\ Request({"PLRSLB"})
          /\ \/ GAME # Nil /\ down' = Append(down, "PLAYERS")
             \/ down' = down
    /\ UNCHANGED <<served, ui, history>>

Server == Dispatch \/ Refuse \/ Dropped \/ Answer

------------------------------------------------------------------------------
\* What the service does by itself, and what it tells the client

Tell(m) ==
    /\ Len(down) < MaxFlight
    /\ down' = Append(down, m)
    /\ UNCHANGED <<ui, up, history>>

\* Mutant: the players of a dissolved queue are not told.
TellDissolved_silent == Dissolved /\ UNCHANGED <<ui, up, down, history>>

TellDissolved == Dissolved /\ Tell("RESET")

\* Mutant: the client is told before the players are found.
TellCalled_early == CalledIn /\ Tell("STARTINGGAME")

TellCalled == CalledIn /\ UNCHANGED <<ui, up, down, history>>

Service ==
    \/ TellDissolved \/ TellCalled
    \/ Carried /\ Tell("STARTINGGAME")
    \/ Released /\ Tell("RESET")
    \/ (LeftBehind \/ Arrive) /\ UNCHANGED <<ui, up, down, history>>
    \/ Unseen /\ vanished' = TRUE /\ UNCHANGED <<ui, up, down, missed>>

\* The client leaves the world; another one starts with nothing.
LogOutClient ==
    /\ LogOut
    /\ ReloadUI
    /\ up' = <<>> /\ down' = <<>>
    /\ missed' = FALSE /\ UNCHANGED vanished

NextLobby ==
    UserClick \/ mainFrameUpdate \/ Receive \/ Server \/ Service \/ LogOutClient

SpecLobby == InitLobby /\ [][NextLobby]_vars

\* Messages arrive.
FairLobby == SpecLobby /\ WF_vars(Receive)

------------------------------------------------------------------------------
\* The variables of the client and what is under way have their types; the
\* lobby that is shown has a name, which leaveGame and the timer need.
TypeOK ==
    /\ MENU_SELECTED \in 0..2 /\ IN_GAME \in BOOLEAN
    /\ missed \in BOOLEAN /\ vanished \in BOOLEAN
    /\ PLAYER_IN_GAME_STR \in Names \cup {Person, Nil}
    /\ (PLAYER_IN_GAME_STR # Nil <=> MENU_SELECTED = 2)
    /\ ONLINE_PLAYERS \subseteq Names \cup {Person}
    /\ up \in Seq(Requests) /\ down \in Seq(Messages)

\* "Waiting for all players to be ready...": when nothing is under way, a
\* client that shows the lobby of a game agrees with the GAME variable the
\* server keeps, and some roster has its player; but for two cases in which
\* nothing takes it out of the lobby: its request was refused or dropped, of
\* which at most the chat tells (missed), or the queues that had the player
\* vanished while he was between two maps, which leaves GAME as it is
\* (vanished).
WaitingInGame ==
    (MENU_SELECTED = 2 /\ up = <<>> /\ down = <<>> /\ ~missed)
        => /\ GAME = PLAYER_IN_GAME_STR
           /\ queued \/ playing \/ vanished

\* The lobby is hidden only for players on the roster of a started game.
HiddenInGame == IN_GAME => playing

\* A client that was let into a game, or has not been refused, and shows its
\* lobby although the server takes the player to be elsewhere by now (the game
\* was dissolved or is over for him) leaves that lobby, whatever it sends in
\* the meantime.
WaitingEnds ==
    LET Entered == \A i \in 1..Len(up) : up[i].type \notin Entering
    IN  (MENU_SELECTED = 2 /\ ~missed /\ Entered /\ GAME # PLAYER_IN_GAME_STR)
            ~> MENU_SELECTED # 2
=============================================================================
