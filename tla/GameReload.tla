------------------------------ MODULE GameReload ------------------------------
(***************************************************************************)
(* The game service and the reload of the Lua state (`.reload eluna', the  *)
(* flag Eluna::reload): OnWorldUpdate closes the state between two ticks   *)
(* and runs the scripts again.  The tables of Game.lua and of              *)
(* ObjectVariables.ext start empty and no player is told; players, phases  *)
(* and spawned cages belong to the world server and stay as they are.      *)
(***************************************************************************)
EXTENDS HungerGames

CONSTANT MaxReloads     \* bound: reloads in one behaviour

ASSUME ReloadsAssumption == MaxReloads \in Nat

VARIABLES
    luaState,     \* number of the current Lua state
    abandoned     \* history: players a reload left in the phase of a game

reloadVars == <<vars, luaState, abandoned>>

InitReload == Init /\ luaState = 0 /\ abandoned = {}

\* Cages in the world to which game[7] refers.
Caged == {games[k].id : k \in {l \in Used(games) :
            games[l].data = "cages" /\ games[l].state <= Countdown}}

\* Mutant: the counter of the games lives on.
Reload_counter ==
    /\ Idle /\ luaState < MaxReloads
    /\ luaState' = luaState + 1
    /\ games' = [k \in Slots |-> Nil]
    /\ gameData' = [p \in Players |-> Nil]
    /\ stray' = stray \cup Caged
    /\ abandoned' = {p \in Players : phase[p] # NormalPhase}
    /\ UNCHANGED <<gameId, players, todo>>

Reload ==
    /\ Idle /\ luaState < MaxReloads
    /\ luaState' = luaState + 1
    /\ games' = [k \in Slots |-> Nil]
    /\ gameId' = 1
    /\ gameData' = [p \in Players |-> Nil]
    /\ stray' = stray \cup Caged
    /\ abandoned' = {p \in Players : phase[p] # NormalPhase}
    /\ UNCHANGED <<players, todo>>

Serve ==
    /\ Next
    /\ abandoned' = {p \in abandoned : phase'[p] = phase[p]}
    /\ UNCHANGED luaState

NextReload == Serve \/ Reload

SpecReload == InitReload /\ [][NextReload]_reloadVars

------------------------------------------------------------------------------
\* Nobody is in the phase of a game that does not exist, but the players whom
\* a reload took out of a running game, and they only until they log out or
\* start another game: although the numbers, which become phase masks in
\* handleStartGame, start from 1 again, no other player comes to be alone.
PhaseSinceReload ==
    \A p \in Players \ abandoned : phase[p] # NormalPhase =>
        \E k \in Used(games) : games[k].active /\ games[k].id = phase[p]

\* A reload begins a new series of games and the service between two reloads
\* is the specified one: nothing of the closed state, neither a number nor a
\* slot of the table, is met by the games that come after it.
LifeBetweenReloads ==
    [][IF luaState' = luaState THEN Lifecycle!Next \/ UNCHANGED Life
                               ELSE Lifecycle!Init']_reloadVars
=============================================================================
