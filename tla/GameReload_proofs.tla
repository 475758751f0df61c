-------------------------- MODULE GameReload_proofs --------------------------
(***************************************************************************)
(* The properties of the game service when the Lua state is reloaded, any  *)
(* number of times, at any moment between two ticks.                       *)
(***************************************************************************)
EXTENDS GameReload, HungerGames_proofs

\* The inductive invariant of the service survives the reload, and the
\* number of the Lua state is a number.
RInv == IInv /\ PhaseSinceReload /\ luaState \in Nat

\* After a reload the tables are those of a server that has just started.
LEMMA ReloadedTables ==
    ASSUME IInv, Reload
    PROVE  IInv' /\ Used(games)' = {} /\ gameId' = 1
  <1>1. Used(games)' = {} /\ games' \in [Slots -> Game \cup {Nil}] /\ gameId' = 1
    BY DEF Reload, Used
  <1>2. Caged \subseteq Slots
    BY UsedGame, GameType DEF Caged, IInv
  <1>3. gameId' \in 1..(MaxGames + 1)
    BY <1>1, ConstantsAssumption
  <1>4. TypeOK'
    BY <1>1, <1>2, <1>3 DEF Reload, Idle, IInv, TypeOK, players
  <1>5. TableInv(games', gameId')
    <2> DEFINE t == games'
    <2>1. Used(t) = {}
      BY <1>1 DEF Used
    <2> QED BY <1>1, <1>3, <2>1 DEF TableInv
  <1> QED BY <1>1, <1>4, <1>5 DEF IInv

\* A player who is not abandoned is in the phase of a started game.
LEMMA PhaseSinceStep ==
    ASSUME RInv, Serve
    PROVE  PhaseSinceReload'
  <1>1. TypeOK /\ [Next]_vars
    BY DEF RInv, IInv, Serve
  <1> SUFFICES ASSUME NEW p \in Players, p \notin abandoned', phase'[p] # NormalPhase
               PROVE  \E k \in Used(games)' : games'[k].active /\ games'[k].id = phase'[p]
    BY DEF PhaseSinceReload
  <1>2. CASE phase'[p] = phase[p]
    <2>1. p \notin abandoned
      BY <1>2 DEF Serve
    <2>2. PICK k \in Used(games) : games[k].active /\ games[k].id = phase[p]
      BY <1>2, <2>1 DEF RInv, PhaseSinceReload
    <2> QED BY <1>1, <1>2, <2>2, ActiveStays
  <1>3. CASE phase'[p] # phase[p]
    BY <1>1, <1>3, PhaseStep DEF StartsWith
  <1> QED BY <1>2, <1>3

LEMMA RInvStep == RInv /\ [NextReload]_reloadVars => RInv'
  <1> SUFFICES ASSUME RInv, [NextReload]_reloadVars PROVE RInv'
    OBVIOUS
  <1>1. CASE Serve
    <2>1. IInv'
      BY <1>1, IInvStep DEF RInv, Serve
    <2> QED BY <1>1, <2>1, PhaseSinceStep DEF RInv, Serve
  <1>2. CASE Reload
    <2>1. IInv'
      BY <1>2, ReloadedTables DEF RInv
    <2>2. PhaseSinceReload'
      BY <1>2 DEF Reload, players, PhaseSinceReload
    <2>3. luaState' \in Nat
      BY <1>2 DEF Reload, RInv
    <2> QED BY <2>1, <2>2, <2>3 DEF RInv
  <1>3. CASE UNCHANGED reloadVars
    <2>1. UNCHANGED vars /\ luaState' = luaState /\ abandoned' = abandoned
      BY <1>3 DEF reloadVars
    <2>2. IInv'
      BY <2>1, IInvStep DEF RInv
    <2>3. PhaseSinceReload'
      BY <2>1 DEF vars, RInv, PhaseSinceReload, Used
    <2> QED BY <2>1, <2>2, <2>3 DEF RInv
  <1> QED BY <1>1, <1>2, <1>3 DEF NextReload

LEMMA RInvAlways == SpecReload => []RInv
  <1>1. InitReload => RInv
    <2> SUFFICES ASSUME InitReload PROVE RInv
      OBVIOUS
    <2>1. IInv
      BY IInvInit DEF InitReload
    <2>2. PhaseSinceReload
      BY DEF InitReload, Init, PhaseSinceReload
    <2> QED BY <2>1, <2>2 DEF RInv, InitReload
  <1> QED BY <1>1, RInvStep, PTL DEF SpecReload

\* No countdown meets a game without cages, also after reloads that leave
\* cages of the old state in the world.
THEOREM CagesKnownReload == SpecReload => []CagesKnown
  <1>1. RInv => CagesKnown
    BY DEF RInv, IInv, TableInv, CagesKnown
  <1> QED BY <1>1, RInvAlways, PTL

\* Only players whom a reload took out of a game are in the phase of a game
\* that does not exist.
THEOREM PhasesAfterReload == SpecReload => []PhaseSinceReload
  <1>1. RInv => PhaseSinceReload
    BY DEF RInv
  <1> QED BY <1>1, RInvAlways, PTL

\* Between two reloads every game has the life of GameLifecycle, and a reload
\* starts the numbers again.
THEOREM LifeReloaded == SpecReload => LifeBetweenReloads
  <1>1. ASSUME RInv, RInv', NextReload
        PROVE  IF luaState' = luaState THEN Lifecycle!Next \/ UNCHANGED Life
                                       ELSE Lifecycle!Init'
    <2>1. CASE Serve
      <3>1. TableInv(games, gameId) /\ TableInv(games', gameId')
        BY <1>1 DEF RInv, IInv
      <3>2. GamesStep /\ luaState' = luaState
        BY <1>1, <2>1, NextStep DEF RInv, IInv, Serve
      <3>3. CASE Quiet
        BY <3>2, <3>3, LifeIs DEF Quiet
      <3> QED BY <3>1, <3>2, <3>3, BornLife, TouchLife, DieLife DEF GamesStep
    <2>2. CASE Reload
      <3>1. luaState' # luaState
        BY <1>1, <2>2 DEF RInv, Reload
      <3>2. Used(games)' = {} /\ gameId' = 1
        BY <1>1, <2>2, ReloadedTables DEF RInv
      <3>3. \A i \in Slots : Numbered(i)' = {} /\ ~(i < gameId')
        BY <3>2, ConstantsAssumption DEF Numbered, Slots
      <3>4. Life' = [i \in Slots |-> -2]
        BY <3>3 DEF Life
      <3>5. Lifecycle!Init'
        BY <3>4 DEF Lifecycle!Init, Lifecycle!Ids, Lifecycle!Unborn, Slots
      <3> QED BY <3>1, <3>5
    <2> QED BY <1>1, <2>1, <2>2 DEF NextReload
  <1>2. RInv /\ RInv' /\ [NextReload]_reloadVars =>
          [IF luaState' = luaState THEN Lifecycle!Next \/ UNCHANGED Life
                                   ELSE Lifecycle!Init']_reloadVars
    BY <1>1
  <1> QED BY <1>2, RInvAlways, PTL DEF SpecReload, LifeBetweenReloads

\* Nobody enters a started game, whatever the GUIDs and the reloads.
THEOREM NobodyEntersLateReload == SpecReload => NoLateEntry
  <1>1. ASSUME RInv, [NextReload]_reloadVars
        PROVE  [\A k \in Used(games) \cap Used(games)' : games[k].active =>
                  Values(games'[k].players) \subseteq Values(games[k].players)]_vars
    <2>1. CASE Serve \/ UNCHANGED reloadVars
      <3>1. TypeOK /\ [Next]_vars
        BY <1>1, <2>1 DEF RInv, IInv, Serve, reloadVars
      <3> QED BY <3>1, LateEntryStep
    <2>2. CASE Reload
      <3>1. Used(games)' = {}
        BY <1>1, <2>2, ReloadedTables DEF RInv
      <3> QED BY <3>1
    <2> QED BY <1>1, <2>1, <2>2 DEF NextReload
  <1> QED BY <1>1, RInvAlways, PTL DEF SpecReload, NoLateEntry
=============================================================================
