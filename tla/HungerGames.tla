----------------------------- MODULE HungerGames -----------------------------
(***************************************************************************)
(* The game service of the Hunger Games realm: the queues and games kept   *)
(* by Game.lua, the repop hook of Hooks.lua, the per-player variable GAME  *)
(* of ObjectVariables.ext, and what the world server does with a player    *)
(* between two maps, as far as the scripts can see it.                     *)
(*                                                                         *)
(* All Lua code runs on the world thread, one handler at a time.  A tick   *)
(* of updateAllGames is one handler; it is split here into one step per    *)
(* game, and no other handler runs before `todo' is empty again.  A Lua    *)
(* error ends the handler where it stands: the state written so far stays, *)
(* the rest of the tick is skipped and the timer is already re-armed.      *)
(***************************************************************************)
EXTENDS Integers, FiniteSets, LuaTable

CONSTANTS
    Players,        \* GUIDs of the characters: for players plain DB counters
    Names,          \* names a client may type for a game
    MinPlayers,     \* NUM_PLAYERS_TO_START_GAME, 3 in the code
    NumLocations,   \* cages in the locations table, 10 in the code
    Countdown,      \* state in which the cages open, 30 in the code
    StartMaps,      \* maps the characters may be on when the server starts
    MaxGames,       \* bound: games created in one behaviour
    MaxEntries      \* bound: length of a game's player table

Slots   == 1..MaxGames
Entries == 1..MaxEntries
Maps    == {"lobby", "arena", "elsewhere"}   \* maps 13, 800 and the rest
Presence == {"offline", "loading", "world"}
NormalPhase == 1                             \* PHASEMASK_NORMAL

\* { id, name, active, host, {players}, state, data }; state 0 is nil.
Game == [id : Slots, name : Names, active : BOOLEAN, host : Players,
         players : [Entries -> Players \cup {Nil}],
         state : 0..(Countdown + 1), data : {"nil", "locations", "cages"}]

ASSUME ConstantsAssumption ==
    /\ Players \subseteq Nat \ {0}
    /\ MinPlayers \in Nat \ {0}
    /\ NumLocations \in Nat \ {0}
    /\ Countdown \in Nat /\ Countdown > 1
    /\ StartMaps \subseteq Maps
    /\ MaxGames \in Nat /\ MaxEntries \in Nat \ {0}

ASSUME NilAssumption ==
    Nil \notin Players /\ Nil \notin Names /\ Nil \notin Game

VARIABLES
    games,      \* the table games
    gameId,     \* number of the next game
    gameData,   \* gameData[p]: p:GetData("GAME")
    pres,       \* is p offline, between two maps, or in the world
    mapOf,      \* the map p is on, or is being moved to
    phase,      \* the phase mask of p
    arenaUp,    \* the world server has created map 800
    stray,      \* games with cages in the world that no table refers to
    todo        \* slots the running tick has still to visit

vars == <<games, gameId, gameData, pres, mapOf, phase, arenaUp, stray, todo>>
players == <<pres, mapOf, phase, arenaUp>>

------------------------------------------------------------------------------
\* GetPlayerByGUID(p) finds only players that are in the world.
GetPlayerByGUID(p) == pres[p] = "world"

\* The games pairs(games) may find first under a name.
Named(n) == {k \in Used(games) : games[k].name = n}

\* Entries of the player table whose player is found.
Seen(g) == {i \in Used(g.players) : GetPlayerByGUID(g.players[i])}

SeenPlayers(g) == {g.players[i] : i \in Seen(g)}

Idle == todo = {}

\* A far teleport takes the players out of the world at once.
Teleport(P, m) ==
    /\ pres' = [p \in Players |-> IF p \in P THEN "loading" ELSE pres[p]]
    /\ mapOf' = [p \in Players |-> IF p \in P THEN m ELSE mapOf[p]]

Init ==
    /\ games = [k \in Slots |-> Nil]
    /\ gameId = 1
    /\ gameData = [p \in Players |-> Nil]
    /\ pres = [p \in Players |-> "offline"]
    /\ mapOf \in [Players -> StartMaps]
    /\ phase = [p \in Players |-> NormalPhase]
    /\ arenaUp = FALSE
    /\ stray = {}
    /\ todo = {}

------------------------------------------------------------------------------
\* Requests of the client.  A refusal only sends a message.

\* Mutant: the number of the game is not counted up.
CREATEGAME_sameNumber(p, n) ==
    /\ Idle /\ GetPlayerByGUID(p) /\ gameData[p] = Nil
    /\ gameId \in Slots
    /\ \E b \in Borders(games) :
        /\ b + 1 \in Slots
        /\ games' = InsertAfter(games, b,
             [id |-> gameId, name |-> n, active |-> FALSE, host |-> p,
              players |-> [i \in Entries |-> IF i = 1 THEN p ELSE Nil],
              state |-> 0, data |-> "nil"])
    /\ gameData' = [gameData EXCEPT ![p] = n]
    /\ UNCHANGED <<gameId, players, stray, todo>>

CREATEGAME(p, n) ==
    /\ Idle /\ GetPlayerByGUID(p) /\ gameData[p] = Nil
    /\ gameId \in Slots
    /\ \E b \in Borders(games) :
        /\ b + 1 \in Slots
        /\ games' = InsertAfter(games, b,
             [id |-> gameId, name |-> n, active |-> FALSE, host |-> p,
              players |-> [i \in Entries |-> IF i = 1 THEN p ELSE Nil],
              state |-> 0, data |-> "nil"])
    /\ gameId' = gameId + 1
    /\ gameData' = [gameData EXCEPT ![p] = n]
    /\ UNCHANGED <<players, stray, todo>>

\* Mutant: a game in progress can be joined.
JoinGame_inProgress(p, n) ==
    /\ Idle /\ GetPlayerByGUID(p) /\ gameData[p] = Nil
    /\ \E k \in Named(n), b \in 0..MaxEntries :
        /\ b \in Borders(games[k].players) /\ b + 1 \in Entries
        /\ games' = [games EXCEPT ![k].players = InsertAfter(@, b, p)]
    /\ gameData' = [gameData EXCEPT ![p] = n]
    /\ UNCHANGED <<gameId, players, stray, todo>>

JoinGame(p, n) ==
    /\ Idle /\ GetPlayerByGUID(p) /\ gameData[p] = Nil
    /\ \E k \in Named(n) :
        /\ ~games[k].active
        /\ \E b \in Borders(games[k].players) :
            /\ b + 1 \in Entries
            /\ games' = [games EXCEPT ![k].players = InsertAfter(@, b, p)]
    /\ gameData' = [gameData EXCEPT ![p] = n]
    /\ UNCHANGED <<gameId, players, stray, todo>>

\* The code clears the entry whose KEY is the GUID string; the table has only
\* integer keys, so the player table stays as it is.
leaveGame(p, n) ==
    /\ Idle /\ GetPlayerByGUID(p)
    /\ Named(n) # {}
    /\ gameData' = [gameData EXCEPT ![p] = Nil]
    /\ UNCHANGED <<games, gameId, players, stray, todo>>

------------------------------------------------------------------------------
\* The player enters, changes and leaves the world.

Login(p) ==
    /\ Idle /\ pres[p] = "offline"
    /\ pres' = [pres EXCEPT ![p] = "world"]
    /\ arenaUp' = (arenaUp \/ mapOf[p] = "arena")
    /\ UNCHANGED <<games, gameId, gameData, mapOf, phase, stray, todo>>

WorldportAck(p) ==
    /\ Idle /\ pres[p] = "loading"
    /\ pres' = [pres EXCEPT ![p] = "world"]
    /\ arenaUp' = (arenaUp \/ mapOf[p] = "arena")
    /\ UNCHANGED <<games, gameId, gameData, mapOf, phase, stray, todo>>

\* Mutant: table.remove without a position drops the last entry.
RemoveOnLogout_last(p) ==
    IF gameData[p] = Nil \/ Named(gameData[p]) = {}
    THEN games' = games
    ELSE \E k \in Named(gameData[p]) :
         \E size \in Borders(games[k].players) :
            games' = [games EXCEPT ![k].players = TableRemove(@, size, size)]

\* The logout handler passes the player's GUID to table.remove where an index
\* is expected: out of bounds it raises an error, in bounds it removes
\* whichever player sits at that index.
RemoveOnLogout(p) ==
    IF gameData[p] = Nil \/ Named(gameData[p]) = {}
    THEN games' = games
    ELSE \E k \in Named(gameData[p]) :
         \E size \in Borders(games[k].players) :
            games' = IF RemoveInBounds(size, p)
                     THEN [games EXCEPT ![k].players = TableRemove(@, size, p)]
                     ELSE games

Logout(p) ==
    /\ Idle /\ pres[p] # "offline"
    /\ RemoveOnLogout(p)
    /\ gameData' = [gameData EXCEPT ![p] = Nil]
    /\ pres' = [pres EXCEPT ![p] = "offline"]
    /\ arenaUp' = (arenaUp \/ (pres[p] = "loading" /\ mapOf[p] = "arena"))
    /\ phase' = [phase EXCEPT ![p] = NormalPhase]
    /\ UNCHANGED <<gameId, mapOf, stray, todo>>

\* A dead player releases the spirit: back to the lobby, out of the game.
Repop(p) ==
    /\ Idle /\ GetPlayerByGUID(p)
    /\ Teleport(IF mapOf[p] # "lobby" THEN {p} ELSE {}, "lobby")
    /\ gameData' = [gameData EXCEPT ![p] = Nil]
    /\ UNCHANGED <<games, gameId, phase, arenaUp, stray, todo>>

------------------------------------------------------------------------------
\* updateAllGames, run by a timer event every 1000 ms.

\* Mutant: ipairs, which ends at the first hole.
TickBegin_ipairs ==
    /\ Idle /\ Used(games) # {}
    /\ todo' = {k \in Used(games) : 1..k \subseteq Used(games)}
    /\ UNCHANGED <<games, gameId, gameData, players, stray>>

TickBegin ==
    /\ Idle /\ Used(games) # {}
    /\ todo' = Used(games)
    /\ UNCHANGED <<games, gameId, gameData, players, stray>>

\* handleActiveGame, state 1: a cage per entry that is seen.
SpawnFails(g) ==
    /\ Seen(g) # {}
    /\ g.data = "nil" \/ ~arenaUp \/ Cardinality(Seen(g)) > NumLocations

\* Mutant: the spawned cages are not stored in game[7].
SpawnCages_forgotten(k) ==
    /\ games[k].active /\ games[k].state = 1 /\ ~SpawnFails(games[k])
    /\ games' = [games EXCEPT ![k].state = 2]
    /\ todo' = todo \ {k}
    /\ UNCHANGED <<gameId, gameData, players, stray>>

SpawnCages(k) ==
    /\ games[k].active /\ games[k].state = 1 /\ ~SpawnFails(games[k])
    /\ games' = [games EXCEPT ![k].state = 2, ![k].data = "cages"]
    /\ todo' = todo \ {k}
    /\ UNCHANGED <<gameId, gameData, players, stray>>

SpawnError(k) ==
    /\ games[k].active /\ games[k].state = 1 /\ SpawnFails(games[k])
    /\ stray' = IF games[k].data # "nil" /\ arenaUp
                THEN stray \cup {games[k].id} ELSE stray
    /\ todo' = {}
    /\ UNCHANGED <<games, gameId, gameData, players>>

\* Mutant: the countdown stops one second short of opening the cages.
Counted_short(state) == IF state < Countdown THEN state + 1 ELSE state

\* The state after a tick in the other states; the last step of the countdown
\* despawns the cages.
Counted(state) == IF state <= Countdown THEN state + 1 ELSE state

CountDown(k) ==
    /\ games[k].active /\ games[k].state # 1
    /\ games' = [games EXCEPT ![k].state = Counted(@)]
    /\ todo' = todo \ {k}
    /\ UNCHANGED <<gameId, gameData, players, stray>>

\* Mutant: the host is checked before the game is known to be a queue.
Dissolve_any(k) ==
    /\ ~GetPlayerByGUID(games[k].host)
    /\ gameData' = [p \in Players |->
                      IF p \in SeenPlayers(games[k]) THEN Nil ELSE gameData[p]]
    /\ games' = Erase(games, {k})
    /\ todo' = todo \ {k}
    /\ UNCHANGED <<gameId, players, stray>>

\* handleInactiveGame: a queue whose host is not found is dissolved.
Dissolve(k) ==
    /\ ~games[k].active /\ ~GetPlayerByGUID(games[k].host)
    /\ gameData' = [p \in Players |->
                      IF p \in SeenPlayers(games[k]) THEN Nil ELSE gameData[p]]
    /\ games' = Erase(games, {k})
    /\ todo' = todo \ {k}
    /\ UNCHANGED <<gameId, players, stray>>

\* Players seen outside the lobby, whom the queue calls in.
Called(g) == {p \in SeenPlayers(g) : mapOf[p] # "lobby"}

\* Entries left after the loop over the player table.  Calling a player in
\* hides him from the rest of the loop, so only the first of his entries is
\* kept.  Lua holds index 1 in the array part, which pairs visits first; the
\* order of the others is open.
Own(g, p) == {i \in Seen(g) : g.players[i] = p}

\* Mutant: a player is pruned because he has just been called in.
Pruned_called(g) == {{i \in Seen(g) : g.players[i] \notin Called(g)}}

Pruned(g) == {K \in SUBSET Seen(g) : \A p \in SeenPlayers(g) :
                IF p \in Called(g)
                THEN \E i \in Own(g, p) : /\ Own(g, p) \cap K = {i}
                                          /\ 1 \in Own(g, p) => i = 1
                ELSE Own(g, p) \subseteq K}

Kept(g, K) == Erase(g.players, Entries \ K)

Prune(k) ==
    /\ ~games[k].active /\ GetPlayerByGUID(games[k].host)
    /\ \E K \in Pruned(games[k]) :
        /\ \E size \in Borders(Kept(games[k], K)) : size < MinPlayers
        /\ games' = [games EXCEPT ![k].players = Kept(games[k], K)]
    /\ Teleport(Called(games[k]), "lobby")
    /\ todo' = todo \ {k}
    /\ UNCHANGED <<gameId, gameData, phase, arenaUp, stray>>

\* handleStartGame for the players T, with `data' as left by the handler.
StartGame(k, T, data) ==
    /\ ~games[k].active /\ GetPlayerByGUID(games[k].host)
    /\ \E K \in Pruned(games[k]) :
        /\ \E size \in Borders(Kept(games[k], K)) : size >= MinPlayers
        /\ games' = [games EXCEPT
             ![k].players = Kept(games[k], K), ![k].active = TRUE,
             ![k].state = 1, ![k].data = data]
    /\ pres' = [p \in Players |->
                  IF p \in T \cup Called(games[k]) THEN "loading" ELSE pres[p]]
    /\ mapOf' = [p \in Players |-> IF p \in T THEN "arena"
                   ELSE IF p \in Called(games[k]) THEN "lobby" ELSE mapOf[p]]
    /\ UNCHANGED <<gameId, gameData, arenaUp, stray>>

\* Mutant: the phase is the number of the next game, not of this one.
SetPhase_next(P, id) ==
    phase' = [p \in Players |-> IF p \in P THEN id + 1 ELSE phase[p]]

SetPhase(P, id) == phase' = [p \in Players |-> IF p \in P THEN id ELSE phase[p]]

\* Only the players already in the lobby are found by the loop.
Ready(g) == SeenPlayers(g) \ Called(g)

Start(k) ==
    /\ Cardinality(Ready(games[k])) <= NumLocations
    /\ StartGame(k, Ready(games[k]), "locations")
    /\ SetPhase(Ready(games[k]), games[k].id)
    /\ todo' = todo \ {k}

\* More players than locations: the lookup of the next one raises an error
\* after its phase was set, and game[7] is never assigned.
StartError(k) ==
    /\ Cardinality(Ready(games[k])) > NumLocations
    /\ \E T \in SUBSET Ready(games[k]) : \E next \in Ready(games[k]) \ T :
        /\ Cardinality(T) = NumLocations
        /\ StartGame(k, T, games[k].data)
        /\ SetPhase(T \cup {next}, games[k].id)
    /\ todo' = {}

TickGame == \E k \in todo :
    \/ SpawnCages(k) \/ SpawnError(k) \/ CountDown(k)
    \/ Dissolve(k) \/ Prune(k) \/ Start(k) \/ StartError(k)

Next ==
    \/ \E p \in Players, n \in Names :
        CREATEGAME(p, n) \/ JoinGame(p, n) \/ leaveGame(p, n)
    \/ \E p \in Players : Login(p) \/ WorldportAck(p) \/ Logout(p) \/ Repop(p)
    \/ TickBegin
    \/ TickGame

Spec == Init /\ [][Next]_vars

\* Fairness: the 1000 ms timer event repeats for ever and is re-armed before
\* its function is called, so another tick always comes and every tick ends.
FairSpec == Spec /\ WF_vars(TickBegin) /\ WF_vars(TickGame)

\* In addition a client that is sent to another map finishes loading.
LoadingSpec == FairSpec /\ \A p \in Players : SF_vars(WorldportAck(p))

------------------------------------------------------------------------------
\* Every variable has its type, and a running tick only has live games ahead.
TypeOK ==
    /\ games \in [Slots -> Game \cup {Nil}]
    /\ gameId \in 1..(MaxGames + 1)
    /\ gameData \in [Players -> Names \cup {Nil}]
    /\ pres \in [Players -> Presence]
    /\ mapOf \in [Players -> Maps]
    /\ phase \in [Players -> Nat]
    /\ arenaUp \in BOOLEAN
    /\ stray \subseteq Slots
    /\ todo \subseteq Used(games)

\* GUIDs that table.remove cannot mistake for an index of a player table, as
\* on any realm that has been in use for a while.
LargeGuids == \A p \in Players : p > MaxEntries + 1

\* A game never loses its host: whatever joins, leaves, logouts and prunings
\* do to the player table, its first entry is the host (Game.lua keeps the
\* host twice, in game[4] and in game[5][1], and never reconciles the two).
HostFirst ==
    LargeGuids => \A k \in Used(games) : games[k].players[1] = games[k].host

\* When the countdown of handleActiveGame is under way, game[7] holds the
\* cages: the loop that despawns them never iterates over nil.
CagesKnown ==
    \A k \in Used(games) : games[k].state > 1 => games[k].data = "cages"

\* A player can only be in the phase of another game than the default one if
\* that game has started with him on its roster (handleStartGame takes the
\* game's number as phase mask; the number must not be handed out before).
PhaseOfOwnGame ==
    LargeGuids => \A p \in Players : phase[p] # NormalPhase =>
        \E k \in Used(games) : /\ games[k].active
                               /\ games[k].id = phase[p]
                               /\ p \in Values(games[k].players)

\* Nobody enters a game in progress: from its start on, the roster of a game
\* gains no player, whichever GUIDs are confused with indexes.
NoLateEntry ==
    [][\A k \in Used(games) \cap Used(games)' : games[k].active =>
         Values(games'[k].players) \subseteq Values(games[k].players)]_vars

\* A player who is in the world keeps his place: no step of anybody drops him
\* from a player table while the game itself lives on.
SeenKeepPlace ==
    [][LargeGuids => \A k \in Used(games) \cap Used(games)' :
         SeenPlayers(games[k]) \subseteq Values(games'[k].players)]_vars

\* What the service promises about the life of every single game.
Numbered(i) == {k \in Used(games) : games[k].id = i}

Stage(g) == IF g.active THEN g.state ELSE 0

Life == [i \in Slots |->
    IF Numbered(i) # {} THEN Stage(games[CHOOSE k \in Numbered(i) : TRUE])
    ELSE IF i < gameId THEN -1 ELSE -2]

Lifecycle == INSTANCE GameLifecycle WITH life <- Life

\* The tables of Game.lua implement that life: numbers are given out in order
\* and never twice, table.insert never overwrites a live game, only a queue
\* is ever dissolved, and no second of a countdown is skipped or repeated.
LifecycleSpec == Lifecycle!Spec

OnRoster(p, active) ==
    \E k \in Used(games) : games[k].active = active /\ p \in Values(games[k].players)

Service(p) == INSTANCE PlayerService WITH
    GAME <- gameData[p], here <- pres[p],
    queued <- OnRoster(p, FALSE), playing <- OnRoster(p, TRUE)

\* Each player alone sees the service of PlayerService, whatever the others
\* do: he is put on a roster by his own request only, he loses a place only
\* unseen or with the whole queue, GAME is cleared only while he is told, and
\* a started game never drops him.
ServesEachPlayer ==
    /\ \A p \in Players : Service(p)!Init
    /\ [][LargeGuids => \A p \in Players :
            Service(p)!Next \/ UNCHANGED Service(p)!served]_vars

\* A started game whose next visit raises an error, which costs the games
\* after it their tick.
Failing == \E k \in Used(games) :
    games[k].active /\ games[k].state = 1 /\ SpawnFails(games[k])

\* A queue whose host stays away is dissolved, unless a started game fails
\* again and again: no other game, no hole in the table and no error that is
\* over keeps the tick from it.
HostlessQueueDissolves ==
    <>[]~Failing => \A i \in Slots :
        LET Waiting == \E k \in Numbered(i) :
                ~games[k].active /\ ~GetPlayerByGUID(games[k].host)
        IN  Waiting ~> ~Waiting

\* A started game opens its cages, also when its start was cut short or the
\* arena came up late, unless it or another one fails again and again.
CountdownCompletes ==
    <>[]~Failing => \A i \in Slots : (Life[i] > 0) ~> (Life[i] > Countdown)

------------------------------------------------------------------------------
\* What comments and messages of Game.lua say, and the code does not do.

\* "Check we have enough players": a game that starts has MinPlayers players.
EnoughPlayers ==
    \A k \in Used(games) : games[k].active =>
        Cardinality(Values(games[k].players)) >= MinPlayers

\* "removed from the queue because the host went offline": a queue is only
\* dissolved when its host is offline.
DissolvedWhenHostOffline ==
    [][\A k \in Used(games) \ Used(games)' :
         pres[games[k].host] = "offline"]_vars

\* "The game will start in 30 seconds!": every started game opens its cages.
StartedGameOpens ==
    \A i \in Slots : (Life[i] > 0) ~> (Life[i] > Countdown)
=============================================================================
