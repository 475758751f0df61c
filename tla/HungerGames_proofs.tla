------------------------- MODULE HungerGames_proofs -------------------------
(***************************************************************************)
(* Proofs about HungerGames for every set of players and names and every   *)
(* value of the limits.                                                    *)
(***************************************************************************)
EXTENDS HungerGames, TLAPS

------------------------------------------------------------------------------
(***************************************************************************)
(* What a step may do to the table of games, whichever handler takes it:   *)
(* nothing; add a queue in a free slot under the next number; replace one  *)
(* game by its next version; erase one queue.                              *)
(***************************************************************************)
StageStep(f, g) ==
    \/ g.active = f.active /\ g.state = f.state /\ g.data = f.data
    \/ ~f.active /\ g.active /\ g.state = 1
    \/ /\ f.active /\ g.active /\ f.state <= Countdown
       /\ g.state = f.state + 1
       /\ g.data = "cages" \/ (f.state # 1 /\ g.data = f.data)

Quiet == games' = games /\ gameId' = gameId

Born == \E s \in Slots, g \in Game :
    /\ games[s] = Nil /\ games' = [games EXCEPT ![s] = g]
    /\ g.id = gameId /\ ~g.active /\ g.state = 0
    /\ gameId \in Slots /\ gameId' = gameId + 1

Touch == \E k \in Used(games), g \in Game :
    /\ games' = [games EXCEPT ![k] = g] /\ gameId' = gameId
    /\ g.id = games[k].id /\ StageStep(games[k], g)

Die == \E k \in Used(games) :
    /\ ~games[k].active
    /\ games' = [games EXCEPT ![k] = Nil] /\ gameId' = gameId

GamesStep == Quiet \/ Born \/ Touch \/ Die

------------------------------------------------------------------------------
\* The fields of a game.
LEMMA GameType ==
    ASSUME NEW g \in Game
    PROVE  /\ g # Nil
           /\ g.id \in Slots /\ g.name \in Names /\ g.active \in BOOLEAN
           /\ g.host \in Players
           /\ g.players \in [Entries -> Players \cup {Nil}]
           /\ g.state \in 0..(Countdown + 1)
           /\ g.data \in {"nil", "locations", "cages"}
  BY NilAssumption DEF Game

\* Writing one field of a game, with a value of its type, gives a game.
LEMMA GameField ==
    ASSUME NEW g \in Game
    PROVE  /\ \A v \in BOOLEAN : [g EXCEPT !.active = v] \in Game
           /\ \A v \in [Entries -> Players \cup {Nil}] :
                [g EXCEPT !.players = v] \in Game
           /\ \A v \in 0..(Countdown + 1) : [g EXCEPT !.state = v] \in Game
           /\ \A v \in {"nil", "locations", "cages"} :
                [g EXCEPT !.data = v] \in Game
  BY DEF Game

\* A used slot of the table holds a game.
LEMMA UsedGame ==
    ASSUME TypeOK, NEW k \in Used(games)
    PROVE  k \in Slots /\ games[k] \in Game /\ games[k] # Nil
  BY DEF TypeOK, Used

\* A game written into a slot leaves the table well typed and the slot used.
LEMMA SlotWrite ==
    ASSUME TypeOK, NEW k \in Slots, NEW g \in Game,
           games' = [games EXCEPT ![k] = g]
    PROVE  /\ games' \in [Slots -> Game \cup {Nil}]
           /\ Used(games)' = Used(games) \cup {k}
  <1>1. g # Nil
    BY GameType
  <1> QED BY <1>1 DEF TypeOK, Used

\* InsertAfter, Erase and TableRemove keep a player table a player table.
LEMMA TableOps ==
    ASSUME NEW t \in [Entries -> Players \cup {Nil}], NEW p \in Players
    PROVE  /\ \A b : b + 1 \in Entries =>
                InsertAfter(t, b, p) \in [Entries -> Players \cup {Nil}]
           /\ \A K : Erase(t, K) \in [Entries -> Players \cup {Nil}]
           /\ \A size \in Borders(t) :
                TableRemove(t, size, p) \in [Entries -> Players \cup {Nil}]
  <1>1. \A b : b + 1 \in Entries =>
          InsertAfter(t, b, p) \in [Entries -> Players \cup {Nil}]
    BY DEF InsertAfter
  <1>2. \A K : Erase(t, K) \in [Entries -> Players \cup {Nil}]
    BY DEF Erase
  <1>3. ASSUME NEW size \in Borders(t)
        PROVE  TableRemove(t, size, p) \in [Entries -> Players \cup {Nil}]
    <2>1. size \in {0} \cup Entries
      BY <1>3 DEF Borders, Used
    <2>2. ASSUME NEW i \in Entries, p <= i, i < size
          PROVE  i + 1 \in Entries
      BY <2>1, <2>2, ConstantsAssumption DEF Entries
    <2> QED BY <2>2 DEF TableRemove
  <1> QED BY <1>1, <1>2, <1>3

\* The tables as Game.lua creates them are well typed.
LEMMA InitType == Init => TypeOK
  <1> SUFFICES ASSUME Init PROVE TypeOK
    OBVIOUS
  <1>1. games \in [Slots -> Game \cup {Nil}] /\ todo \subseteq Used(games)
    BY DEF Init
  <1>2. gameId \in 1..(MaxGames + 1)
    BY ConstantsAssumption DEF Init
  <1>3. mapOf \in [Players -> Maps]
    BY ConstantsAssumption DEF Init
  <1>4. gameData \in [Players -> Names \cup {Nil}] /\ phase \in [Players -> Nat]
    BY DEF Init, NormalPhase
  <1>5. pres \in [Players -> Presence] /\ arenaUp \in BOOLEAN /\ stray \subseteq Slots
    BY DEF Init, Presence
  <1> QED BY <1>1, <1>2, <1>3, <1>4, <1>5 DEF TypeOK

\* Players(g) helpers only talk about entries of the table.
LEMMA SeenType ==
    ASSUME TypeOK, NEW k \in Used(games)
    PROVE  /\ Seen(games[k]) \subseteq Entries
           /\ SeenPlayers(games[k]) \subseteq Players
  <1>1. games[k].players \in [Entries -> Players \cup {Nil}]
    BY UsedGame, GameType
  <1> QED BY <1>1 DEF Seen, SeenPlayers, Used

\* A far teleport leaves presence and maps well typed.
LEMMA TeleportType ==
    ASSUME TypeOK, NEW P, NEW m \in Maps, Teleport(P, m)
    PROVE  pres' \in [Players -> Presence] /\ mapOf' \in [Players -> Maps]
  BY DEF TypeOK, Teleport, Presence

\* Replacing the game of a used slot by another game.
LEMMA GameWrite ==
    ASSUME TypeOK, NEW k \in Used(games), NEW g \in Game,
           games' = [games EXCEPT ![k] = g]
    PROVE  games' \in [Slots -> Game \cup {Nil}] /\ Used(games)' = Used(games)
  <1>1. k \in Slots
    BY UsedGame
  <1>2. games' \in [Slots -> Game \cup {Nil}]
    BY <1>1, SlotWrite
  <1>3. Used(games)' = Used(games) \cup {k}
    BY <1>1, SlotWrite
  <1> QED BY <1>2, <1>3

------------------------------------------------------------------------------
\* One lemma per handler: it keeps the types, and its effect on the table of
\* games is one of the four above.

\* CREATEGAME keeps the types and adds one new game.
LEMMA CreateStep ==
    ASSUME TypeOK, NEW p \in Players, NEW n \in Names, CREATEGAME(p, n)
    PROVE  TypeOK' /\ Born
  <1> DEFINE g == [id |-> gameId, name |-> n, active |-> FALSE, host |-> p,
              players |-> [i \in Entries |-> IF i = 1 THEN p ELSE Nil],
              state |-> 0, data |-> "nil"]
  <1>1. g \in Game
    BY ConstantsAssumption DEF CREATEGAME, Game
  <1>2. PICK b \in Borders(games) :
          b + 1 \in Slots /\ games' = [games EXCEPT ![b + 1] = g]
    BY DEF CREATEGAME, InsertAfter
  <1>3. g.id = gameId /\ ~g.active /\ g.state = 0
    OBVIOUS
  <1> HIDE DEF g
  <1>4. games' \in [Slots -> Game \cup {Nil}] /\ Used(games) \subseteq Used(games)'
    BY <1>1, <1>2, SlotWrite
  <1>5. gameId' \in 1..(MaxGames + 1)
    BY ConstantsAssumption DEF CREATEGAME, Slots, TypeOK
  <1>6. gameData' \in [Players -> Names \cup {Nil}]
    BY DEF CREATEGAME, TypeOK
  <1>7. TypeOK'
    BY <1>4, <1>5, <1>6 DEF CREATEGAME, TypeOK, players
  <1>8. games[b + 1] = Nil
    BY <1>2 DEF Borders, Used, TypeOK
  <1>9. Born
    BY <1>1, <1>2, <1>3, <1>8 DEF Born, CREATEGAME
  <1> QED BY <1>7, <1>9

\* JoinGame keeps the types and touches one queue.
LEMMA JoinStep ==
    ASSUME TypeOK, NEW p \in Players, NEW n \in Names, JoinGame(p, n)
    PROVE  TypeOK' /\ Touch
  <1>0. PICK k \in Used(games) : \E b \in Borders(games[k].players) :
          /\ b + 1 \in Entries
          /\ games' = [games EXCEPT ![k].players = InsertAfter(@, b, p)]
    BY DEF JoinGame, Named
  <1>1. PICK b \in Borders(games[k].players) :
          /\ b + 1 \in Entries
          /\ games' = [games EXCEPT ![k].players = InsertAfter(@, b, p)]
    BY <1>0
  <1> DEFINE g == [games[k] EXCEPT !.players = InsertAfter(@, b, p)]
  <1>2. games[k] \in Game /\ games[k].players \in [Entries -> Players \cup {Nil}]
    BY UsedGame, GameType
  <1>3. InsertAfter(games[k].players, b, p) \in [Entries -> Players \cup {Nil}]
    BY <1>1, <1>2, TableOps
  <1>4. g \in Game /\ games' = [games EXCEPT ![k] = g]
    BY <1>1, <1>2, <1>3 DEF Game
  <1>5. g.id = games[k].id /\ StageStep(games[k], g)
    BY <1>2 DEF Game, StageStep
  <1>6. games' \in [Slots -> Game \cup {Nil}] /\ Used(games)' = Used(games)
    BY <1>4, GameWrite
  <1>7. TypeOK'
    BY <1>6 DEF JoinGame, TypeOK, players
  <1>8. Touch
    BY <1>4, <1>5 DEF Touch, JoinGame
  <1> QED BY <1>7, <1>8

\* table.remove in the logout handler touches the players of one game only.
LEMMA RemoveStep ==
    ASSUME TypeOK, NEW p \in Players, RemoveOnLogout(p), gameId' = gameId
    PROVE  /\ games' \in [Slots -> Game \cup {Nil}]
           /\ Used(games)' = Used(games)
           /\ Quiet \/ Touch
  <1>1. CASE games' = games
    BY <1>1 DEF TypeOK, Used, Quiet
  <1>2. CASE games' # games
    <2>0. PICK k \in Used(games) : \E size \in Borders(games[k].players) :
            games' = [games EXCEPT ![k].players = TableRemove(@, size, p)]
      BY <1>2 DEF RemoveOnLogout, Named
    <2>1. PICK size \in Borders(games[k].players) :
            games' = [games EXCEPT ![k].players = TableRemove(@, size, p)]
      BY <2>0
    <2> DEFINE g == [games[k] EXCEPT !.players = TableRemove(@, size, p)]
    <2>2. games[k] \in Game /\ games[k].players \in [Entries -> Players \cup {Nil}]
      BY UsedGame, GameType
    <2>3. TableRemove(games[k].players, size, p) \in [Entries -> Players \cup {Nil}]
      BY <2>2, TableOps
    <2>4. g \in Game /\ games' = [games EXCEPT ![k] = g]
      BY <2>1, <2>2, <2>3 DEF Game
    <2>5. g.id = games[k].id /\ StageStep(games[k], g)
      BY <2>2 DEF Game, StageStep
    <2>6. Touch
      BY <2>4, <2>5 DEF Touch
    <2> QED BY <2>4, <2>6, GameWrite
  <1> QED BY <1>1, <1>2

\* Logins, map changes, logouts, leaving and repops keep the types and the
\* games, but for the entry a logout removes.
LEMMA PlayerStep ==
    ASSUME TypeOK, NEW p \in Players,
           \/ \E n \in Names : leaveGame(p, n)
           \/ Login(p) \/ WorldportAck(p) \/ Logout(p) \/ Repop(p)
    PROVE  TypeOK' /\ (Quiet \/ Touch)
  <1>1. CASE \E n \in Names : leaveGame(p, n)
    BY <1>1 DEF leaveGame, TypeOK, players, Quiet
  <1>2. CASE Login(p)
    BY <1>2 DEF Login, TypeOK, Presence, Quiet
  <1>3. CASE WorldportAck(p)
    BY <1>3 DEF WorldportAck, TypeOK, Presence, Quiet
  <1>4. CASE Logout(p)
    <2>1. /\ games' \in [Slots -> Game \cup {Nil}]
          /\ Used(games)' = Used(games)
          /\ Quiet \/ Touch
      BY <1>4, RemoveStep DEF Logout
    <2>2. pres' \in [Players -> Presence] /\ phase' \in [Players -> Nat]
      BY <1>4 DEF Logout, TypeOK, Presence, NormalPhase
    <2>3. gameData' \in [Players -> Names \cup {Nil}] /\ arenaUp' \in BOOLEAN
      BY <1>4 DEF Logout, TypeOK
    <2> QED BY <1>4, <2>1, <2>2, <2>3 DEF Logout, TypeOK
  <1>5. CASE Repop(p)
    <2>1. pres' \in [Players -> Presence] /\ mapOf' \in [Players -> Maps]
      BY <1>5, TeleportType DEF Repop, Maps
    <2> QED BY <1>5, <2>1 DEF Repop, TypeOK, Quiet
  <1> QED BY <1>1, <1>2, <1>3, <1>4, <1>5

\* handleActiveGame keeps the types and moves the stage of one game by one,
\* or not at all when it raises an error.
LEMMA ActiveStep ==
    ASSUME TypeOK, NEW k \in todo,
           SpawnCages(k) \/ SpawnError(k) \/ CountDown(k)
    PROVE  TypeOK' /\ (Quiet \/ Touch)
  <1>1. k \in Used(games) /\ games[k] \in Game
    BY UsedGame DEF TypeOK
  <1>2. games[k].state \in 0..(Countdown + 1) /\ Countdown \in Nat /\ Countdown > 1
    BY <1>1, GameType, ConstantsAssumption
  <1>3. CASE SpawnCages(k)
    <2> DEFINE f == [games[k] EXCEPT !.state = 2]
               g == [f EXCEPT !.data = "cages"]
    <2>5. 2 \in 0..(Countdown + 1)
      BY <1>2
    <2>6. f \in Game
      BY <1>1, <2>5, GameField
    <2>0. g \in Game
      BY <2>6, GameField
    <2>1. g \in Game /\ games' = [games EXCEPT ![k] = g]
      BY <1>1, <1>3, <2>0 DEF SpawnCages, TypeOK, Used
    <2>2. g.id = games[k].id /\ StageStep(games[k], g)
      BY <1>1, <1>2, <1>3 DEF SpawnCages, StageStep, Game
    <2>3. games' \in [Slots -> Game \cup {Nil}] /\ Used(games)' = Used(games)
      BY <1>1, <2>1, GameWrite
    <2>4. Touch
      BY <1>1, <1>3, <2>1, <2>2 DEF Touch, SpawnCages
    <2>7. TypeOK'
      BY <1>3, <2>3 DEF SpawnCages, TypeOK, players
    <2> QED BY <2>4, <2>7
  <1>4. CASE SpawnError(k)
    <2>1. games[k].id \in Slots
      BY <1>1, GameType
    <2> QED BY <1>4, <2>1 DEF SpawnError, TypeOK, players, Quiet
  <1>5. CASE CountDown(k) /\ games[k].state <= Countdown
    <2> DEFINE g == [games[k] EXCEPT !.state = @ + 1]
    <2>1. g \in Game /\ games' = [games EXCEPT ![k] = g]
      BY <1>1, <1>2, <1>5 DEF CountDown, Counted, Game
    <2>2. g.id = games[k].id /\ StageStep(games[k], g)
      BY <1>1, <1>2, <1>5 DEF CountDown, Counted, StageStep, Game
    <2>3. games' \in [Slots -> Game \cup {Nil}] /\ Used(games)' = Used(games)
      BY <1>1, <2>1, GameWrite
    <2>4. Touch
      BY <1>1, <1>5, <2>1, <2>2 DEF Touch, CountDown, Counted
    <2>5. TypeOK'
      BY <1>5, <2>3 DEF CountDown, Counted, TypeOK, players
    <2> QED BY <2>4, <2>5
  <1>6. CASE CountDown(k) /\ ~(games[k].state <= Countdown)
    <2>1. games' = [games EXCEPT ![k].state = @]
      BY <1>6 DEF CountDown, Counted
    <2>2. games' = games
      BY <1>1, <2>1 DEF TypeOK, Game
    <2> QED BY <1>6, <2>2 DEF CountDown, TypeOK, players, Quiet
  <1> QED BY <1>3, <1>4, <1>5, <1>6

\* Dissolving a queue keeps the types and takes one game away.
LEMMA DissolveStep ==
    ASSUME TypeOK, NEW k \in todo, Dissolve(k)
    PROVE  TypeOK' /\ Die
  <1>1. k \in Used(games) /\ k \in Slots
    BY UsedGame DEF TypeOK
  <1>2. games' = [games EXCEPT ![k] = Nil]
    BY <1>1 DEF Dissolve, Erase, TypeOK
  <1>3. games' \in [Slots -> Game \cup {Nil}] /\ Used(games) \ {k} \subseteq Used(games)'
    BY <1>1, <1>2 DEF TypeOK, Used
  <1>4. gameData' \in [Players -> Names \cup {Nil}]
    BY DEF Dissolve, TypeOK
  <1>5. TypeOK'
    BY <1>3, <1>4 DEF Dissolve, TypeOK, players
  <1>6. Die
    BY <1>1, <1>2 DEF Dissolve, Die
  <1> QED BY <1>5, <1>6

\* Pruning a player table leaves a player table.
LEMMA KeptType ==
    ASSUME TypeOK, NEW k \in Used(games), NEW K
    PROVE  Kept(games[k], K) \in [Entries -> Players \cup {Nil}]
  <1>1. games[k].players \in [Entries -> Players \cup {Nil}]
    BY UsedGame, GameType
  <1> QED BY <1>1 DEF Kept, Erase

\* A queue that stays a queue after the tick is well typed and touched once.
LEMMA PruneStep ==
    ASSUME TypeOK, NEW k \in todo, Prune(k)
    PROVE  TypeOK' /\ Touch
  <1>1. k \in Used(games) /\ games[k] \in Game
    BY UsedGame DEF TypeOK
  <1>2. PICK K : games' = [games EXCEPT ![k].players = Kept(games[k], K)]
    BY DEF Prune
  <1> DEFINE g == [games[k] EXCEPT !.players = Kept(games[k], K)]
  <1>3. Kept(games[k], K) \in [Entries -> Players \cup {Nil}]
    BY <1>1, KeptType
  <1>4. g \in Game /\ games' = [games EXCEPT ![k] = g]
    BY <1>1, <1>2, <1>3 DEF Game
  <1>5. g.id = games[k].id /\ StageStep(games[k], g)
    BY <1>1 DEF Game, StageStep
  <1>6. games' \in [Slots -> Game \cup {Nil}] /\ Used(games)' = Used(games)
    BY <1>1, <1>4, GameWrite
  <1>7. pres' \in [Players -> Presence] /\ mapOf' \in [Players -> Maps]
    BY TeleportType DEF Prune, Maps
  <1>8. TypeOK'
    BY <1>6, <1>7 DEF Prune, TypeOK
  <1>9. Touch
    BY <1>1, <1>4, <1>5 DEF Touch, Prune
  <1> QED BY <1>8, <1>9

\* The start of a game keeps the types of the tables and touches one game.
LEMMA StartGameStep ==
    ASSUME TypeOK, NEW k \in todo, NEW T, NEW data \in {"nil", "locations", "cages"},
           StartGame(k, T, data)
    PROVE  /\ games' \in [Slots -> Game \cup {Nil}] /\ Used(games)' = Used(games)
           /\ pres' \in [Players -> Presence] /\ mapOf' \in [Players -> Maps]
           /\ Touch
  <1>1. k \in Used(games) /\ games[k] \in Game
    BY UsedGame DEF TypeOK
  <1>2. PICK K : games' = [games EXCEPT
             ![k].players = Kept(games[k], K), ![k].active = TRUE,
             ![k].state = 1, ![k].data = data]
    BY DEF StartGame
  <1> DEFINE e == [games[k] EXCEPT !.players = Kept(games[k], K)]
             f == [e EXCEPT !.active = TRUE]
             h == [f EXCEPT !.state = 1]
             g == [h EXCEPT !.data = data]
  <1>3. Kept(games[k], K) \in [Entries -> Players \cup {Nil}]
    BY <1>1, KeptType
  <1>10. g \in Game
    <2>1. e \in Game
      BY <1>1, <1>3, GameField
    <2>2. f \in Game
      BY <2>1, GameField
    <2>3. 1 \in 0..(Countdown + 1)
      BY ConstantsAssumption
    <2>4. h \in Game
      BY <2>2, <2>3, GameField
    <2> QED BY <2>4, GameField
  <1>4. g \in Game /\ games' = [games EXCEPT ![k] = g]
    BY <1>1, <1>2, <1>10 DEF TypeOK, Used
  <1>5. g.id = games[k].id /\ StageStep(games[k], g)
    BY <1>1 DEF Game, StageStep, StartGame
  <1>6. games' \in [Slots -> Game \cup {Nil}] /\ Used(games)' = Used(games)
    BY <1>1, <1>4, GameWrite
  <1>7. pres' \in [Players -> Presence] /\ mapOf' \in [Players -> Maps]
    BY DEF StartGame, TypeOK, Presence, Maps
  <1>8. Touch
    BY <1>1, <1>4, <1>5 DEF Touch, StartGame
  <1> QED BY <1>6, <1>7, <1>8

\* Both outcomes of handleStartGame, with and without its error.
LEMMA StartStep ==
    ASSUME TypeOK, NEW k \in todo, Start(k) \/ StartError(k)
    PROVE  TypeOK' /\ Touch
  <1>1. games[k].id \in Nat /\ games[k].data \in {"nil", "locations", "cages"}
    BY UsedGame, GameType, ConstantsAssumption DEF TypeOK, Slots
  <1>2. \E T, P : \E data \in {"nil", "locations", "cages"} :
          StartGame(k, T, data) /\ SetPhase(P, games[k].id)
    <2>1. CASE Start(k)
      BY <2>1 DEF Start
    <2>2. CASE StartError(k)
      BY <1>1, <2>2 DEF StartError
    <2> QED BY <2>1, <2>2
  <1>3. /\ games' \in [Slots -> Game \cup {Nil}] /\ Used(games)' = Used(games)
        /\ pres' \in [Players -> Presence] /\ mapOf' \in [Players -> Maps]
        /\ Touch
    BY <1>2, StartGameStep
  <1>4. phase' \in [Players -> Nat]
    BY <1>1, <1>2 DEF SetPhase, TypeOK
  <1>5. todo' \subseteq todo
    BY DEF Start, StartError
  <1> QED BY <1>2, <1>3, <1>4, <1>5 DEF StartGame, TypeOK

\* Every step of the service keeps the types and is one of the four kinds.
LEMMA NextStep ==
    ASSUME TypeOK, [Next]_vars
    PROVE  TypeOK' /\ GamesStep
  <1>1. CASE \E p \in Players, n \in Names :
               CREATEGAME(p, n) \/ JoinGame(p, n) \/ leaveGame(p, n)
    BY <1>1, CreateStep, JoinStep, PlayerStep DEF GamesStep
  <1>2. CASE \E p \in Players :
               Login(p) \/ WorldportAck(p) \/ Logout(p) \/ Repop(p)
    BY <1>2, PlayerStep DEF GamesStep
  <1>3. CASE TickBegin
    BY <1>3 DEF TickBegin, TypeOK, players, GamesStep, Quiet
  <1>4. CASE TickGame
    BY <1>4, ActiveStep, DissolveStep, PruneStep, StartStep
       DEF TickGame, GamesStep
  <1>5. CASE UNCHANGED vars
    BY <1>5 DEF vars, TypeOK, GamesStep, Quiet, Used
  <1> QED BY <1>1, <1>2, <1>3, <1>4, <1>5 DEF Next

\* The variables of the game service always have their types; in particular
\* no sequence of handlers leaves a tick with a game that is already gone.
THEOREM TypeCorrect == Spec => []TypeOK
  <1>1. TypeOK /\ [Next]_vars => TypeOK'
    BY NextStep
  <1> QED BY <1>1, InitType, PTL DEF Spec

------------------------------------------------------------------------------
(***************************************************************************)
(* The inductive invariant: the live games have different numbers, all of  *)
(* them given out already; a queue has no state yet and a started game has *)
(* one; and the cages are known as soon as the countdown has left 1.       *)
(* TableInv is stated of any table t and any counter n, so that it can be  *)
(* used of the next state as well.                                         *)
(***************************************************************************)
TableInv(t, n) ==
    /\ t \in [Slots -> Game \cup {Nil}]
    /\ n \in 1..(MaxGames + 1)
    /\ \A k \in Used(t) : t[k].id < n
    /\ \A j, k \in Used(t) : t[j].id = t[k].id => j = k
    /\ \A k \in Used(t) : IF t[k].active THEN t[k].state >= 1
                                         ELSE t[k].state = 0
    /\ \A k \in Used(t) : t[k].state > 1 => t[k].data = "cages"

IInv == TypeOK /\ TableInv(games, gameId)

\* The used slots after one slot of the table was written.
LEMMA UsedOf ==
    ASSUME NEW t \in [Slots -> Game \cup {Nil}]
    PROVE  /\ Used(t) \subseteq Slots
           /\ \A k \in Used(t) : t[k] \in Game
           /\ \A s \in Slots, g \in Game :
                /\ Used([t EXCEPT ![s] = g]) = Used(t) \cup {s}
                /\ [t EXCEPT ![s] = g] \in [Slots -> Game \cup {Nil}]
           /\ \A s \in Slots :
                /\ Used([t EXCEPT ![s] = Nil]) = Used(t) \ {s}
                /\ [t EXCEPT ![s] = Nil] \in [Slots -> Game \cup {Nil}]
  <1>1. \A g \in Game : g # Nil
    BY GameType
  <1> QED BY <1>1 DEF Used

\* A new game keeps the inductive invariant: its number was never given out.
LEMMA BornInv ==
    ASSUME TypeOK, TableInv(games, gameId), Born
    PROVE  TableInv(games', gameId')
  <1>1. PICK s \in Slots, g \in Game :
          /\ games[s] = Nil /\ games' = [games EXCEPT ![s] = g]
          /\ g.id = gameId /\ ~g.active /\ g.state = 0
          /\ gameId \in Slots /\ gameId' = gameId + 1
    BY DEF Born
  <1> DEFINE t == games'
  <1>2. t \in [Slots -> Game \cup {Nil}] /\ Used(t) = Used(games) \cup {s}
    BY <1>1, UsedOf DEF TableInv
  <1>3. t[s] = g /\ \A k \in Used(games) : k # s => t[k] = games[k]
    BY <1>1, UsedOf DEF TableInv
  <1>4. s \notin Used(games) /\ gameId \in Nat
    BY <1>1 DEF Used, TableInv
  <1>5. \A k \in Used(games) : games[k].id \in Nat /\ games[k].id < gameId
    BY GameType, UsedOf DEF TableInv, Slots
  <1>6. gameId' \in 1..(MaxGames + 1)
    BY <1>1, ConstantsAssumption DEF Slots
  <1> HIDE DEF t
  <1>7. \A k \in Used(t) : t[k].id < gameId'
    BY <1>1, <1>2, <1>3, <1>4, <1>5
  <1>8. \A j, k \in Used(t) : t[j].id = t[k].id => j = k
    BY <1>1, <1>2, <1>3, <1>4, <1>5 DEF TableInv
  <1>9. \A k \in Used(t) : /\ IF t[k].active THEN t[k].state >= 1
                                             ELSE t[k].state = 0
                           /\ t[k].state > 1 => t[k].data = "cages"
    BY <1>1, <1>2, <1>3, <1>4 DEF TableInv
  <1> QED BY <1>2, <1>6, <1>7, <1>8, <1>9 DEF TableInv, t

\* A step of one game keeps the inductive invariant.
LEMMA TouchInv ==
    ASSUME TypeOK, TableInv(games, gameId), Touch
    PROVE  TableInv(games', gameId')
  <1>1. PICK s \in Used(games), g \in Game :
          /\ games' = [games EXCEPT ![s] = g] /\ gameId' = gameId
          /\ g.id = games[s].id /\ StageStep(games[s], g)
    BY DEF Touch
  <1> DEFINE t == games'
  <1>2. s \in Slots /\ games[s] \in Game
    BY UsedOf DEF TableInv
  <1>10. t \in [Slots -> Game \cup {Nil}] /\ Used(t) = Used(games) \cup {s}
    BY <1>1, <1>2, UsedOf DEF TableInv
  <1>3. t \in [Slots -> Game \cup {Nil}] /\ Used(t) = Used(games)
    BY <1>10
  <1>4. t[s] = g /\ \A k \in Used(games) : k # s => t[k] = games[k]
    BY <1>1, <1>2, UsedOf DEF TableInv
  <1>5. games[s].state \in Nat /\ games[s].active \in BOOLEAN /\ g.active \in BOOLEAN
    BY <1>2, GameType
  <1>6. /\ IF g.active THEN g.state >= 1 ELSE g.state = 0
        /\ g.state > 1 => g.data = "cages"
    BY <1>1, <1>5 DEF TableInv, StageStep
  <1> HIDE DEF t
  <1>7. \A k \in Used(t) : t[k].id = games[k].id
    BY <1>1, <1>3, <1>4
  <1>8. \A k \in Used(t) : /\ IF t[k].active THEN t[k].state >= 1
                                             ELSE t[k].state = 0
                           /\ t[k].state > 1 => t[k].data = "cages"
    BY <1>3, <1>4, <1>6 DEF TableInv
  <1>9. /\ \A k \in Used(t) : t[k].id < gameId'
        /\ \A j, k \in Used(t) : t[j].id = t[k].id => j = k
        /\ gameId' \in 1..(MaxGames + 1)
    BY <1>1, <1>3, <1>7 DEF TableInv
  <1> QED BY <1>3, <1>8, <1>9 DEF TableInv, t

\* The end of a queue keeps the inductive invariant.
LEMMA DieInv ==
    ASSUME TypeOK, TableInv(games, gameId), Die
    PROVE  TableInv(games', gameId')
  <1>1. PICK s \in Used(games) :
          games' = [games EXCEPT ![s] = Nil] /\ gameId' = gameId
    BY DEF Die
  <1> DEFINE t == games'
  <1>2. s \in Slots
    BY UsedOf DEF TableInv
  <1>3. t \in [Slots -> Game \cup {Nil}] /\ Used(t) = Used(games) \ {s}
    BY <1>1, <1>2, UsedOf DEF TableInv
  <1>4. \A k \in Used(t) : k \in Used(games) /\ t[k] = games[k]
    BY <1>1, <1>2, <1>3, UsedOf DEF TableInv
  <1> HIDE DEF t
  <1>5. /\ \A k \in Used(t) : t[k].id < gameId'
        /\ \A j, k \in Used(t) : t[j].id = t[k].id => j = k
        /\ gameId' \in 1..(MaxGames + 1)
    BY <1>1, <1>4 DEF TableInv
  <1>6. \A k \in Used(t) : /\ IF t[k].active THEN t[k].state >= 1
                                             ELSE t[k].state = 0
                           /\ t[k].state > 1 => t[k].data = "cages"
    BY <1>4 DEF TableInv
  <1> QED BY <1>3, <1>5, <1>6 DEF TableInv, t

\* Every step keeps the inductive invariant.
LEMMA IInvStep == IInv /\ [Next]_vars => IInv'
  <1> SUFFICES ASSUME IInv, [Next]_vars PROVE IInv'
    OBVIOUS
  <1>1. TypeOK' /\ GamesStep
    BY NextStep DEF IInv
  <1>2. TableInv(games', gameId')
    BY <1>1, BornInv, TouchInv, DieInv DEF IInv, GamesStep, Quiet
  <1> QED BY <1>1, <1>2 DEF IInv

\* The inductive invariant holds of the empty tables.
LEMMA IInvInit == Init => IInv
  <1> SUFFICES ASSUME Init PROVE IInv
    OBVIOUS
  <1>1. TypeOK
    BY InitType
  <1>2. Used(games) = {}
    BY DEF Init, Used
  <1> QED BY <1>1, <1>2 DEF IInv, TableInv, TypeOK

\* The inductive invariant holds in every reachable state.
LEMMA IInvAlways == Spec => []IInv
  BY IInvInit, IInvStep, PTL DEF Spec

\* While a countdown runs, game[7] holds the cages, whatever errors ended the
\* start of the game or earlier ticks: handleActiveGame never despawns nil.
THEOREM CagesAlwaysKnown == Spec => []CagesKnown
  <1>1. IInv => CagesKnown
    BY DEF IInv, TableInv, CagesKnown
  <1> QED BY <1>1, IInvAlways, PTL

------------------------------------------------------------------------------
(***************************************************************************)
(* Refinement: the table of games implements GameLifecycle.  LifeOf is the *)
(* mapping Life for any table and counter.                                 *)
(***************************************************************************)
NumberedIn(t, i) == {k \in Used(t) : t[k].id = i}

LifeOf(t, n) == [i \in Slots |->
    IF NumberedIn(t, i) # {} THEN Stage(t[CHOOSE k \in NumberedIn(t, i) : TRUE])
    ELSE IF i < n THEN -1 ELSE -2]

\* The refinement mapping as a function of the two variables it reads.
LEMMA LifeIs == Life = LifeOf(games, gameId) /\ Life' = LifeOf(games', gameId')
  BY DEF Life, LifeOf, Numbered, NumberedIn

\* The life of a number under the inductive invariant.
LEMMA LifeAt ==
    ASSUME NEW t, NEW n, TableInv(t, n)
    PROVE  /\ \A k \in Used(t) : /\ t[k].id \in Slots
                                 /\ LifeOf(t, n)[t[k].id] = Stage(t[k])
           /\ \A i \in Slots : (\A k \in Used(t) : t[k].id # i) =>
                LifeOf(t, n)[i] = IF i < n THEN -1 ELSE -2
           /\ LifeOf(t, n) = [i \in Slots |-> LifeOf(t, n)[i]]
  <1>1. ASSUME NEW k \in Used(t)
        PROVE  t[k].id \in Slots /\ LifeOf(t, n)[t[k].id] = Stage(t[k])
    <2>1. t[k].id \in Slots
      BY UsedOf, GameType DEF TableInv
    <2>2. NumberedIn(t, t[k].id) = {k}
      BY DEF NumberedIn, TableInv
    <2>3. (CHOOSE j \in NumberedIn(t, t[k].id) : TRUE) = k
      BY <2>2
    <2> QED BY <2>1, <2>2, <2>3 DEF LifeOf
  <1>2. ASSUME NEW i \in Slots, \A k \in Used(t) : t[k].id # i
        PROVE  LifeOf(t, n)[i] = IF i < n THEN -1 ELSE -2
    <2>1. NumberedIn(t, i) = {}
      BY <1>2 DEF NumberedIn
    <2> QED BY <2>1 DEF LifeOf
  <1>3. LifeOf(t, n) = [i \in Slots |-> LifeOf(t, n)[i]]
    BY DEF LifeOf
  <1> QED BY <1>1, <1>2, <1>3

\* A step of one game advances its life by one stage, or not at all.
LEMMA TouchLife ==
    ASSUME TableInv(games, gameId), TableInv(games', gameId'), Touch
    PROVE  [Lifecycle!Next]_Life
  <1>1. PICK s \in Used(games), g \in Game :
          /\ games' = [games EXCEPT ![s] = g] /\ gameId' = gameId
          /\ g.id = games[s].id /\ StageStep(games[s], g)
    BY DEF Touch
  <1> DEFINE t == games'
             n == gameId
             a == games[s].id
             L == LifeOf(games, n)
             M == LifeOf(t, n)
  <1>2. s \in Slots /\ games[s] \in Game /\ a \in Slots
    BY UsedOf, GameType DEF TableInv
  <1>13. games \in [Slots -> Game \cup {Nil}]
    BY DEF TableInv
  <1>3. Used(t) = Used(games) \cup {s}
    <2>1. Used([games EXCEPT ![s] = g]) = Used(games) \cup {s}
      BY <1>2, <1>13, UsedOf
    <2> QED BY <1>1, <2>1
  <1>4. t[s] = g /\ \A k \in Used(games) : k # s => t[k] = games[k]
    BY <1>1, <1>2, UsedOf DEF TableInv
  <1>5. TableInv(t, n)
    BY <1>1
  <1> HIDE DEF t
  <1>6. L[a] = Stage(games[s]) /\ M[a] = Stage(g)
    BY <1>1, <1>3, <1>4, <1>5, LifeAt
  <1>7. ASSUME NEW i \in Slots, i # a
        PROVE  M[i] = L[i]
    <2>1. CASE \E k \in Used(games) : games[k].id = i
      <3>1. PICK k \in Used(games) : games[k].id = i
        BY <2>1
      <3>2. k # s /\ t[k] = games[k] /\ k \in Used(t)
        BY <1>3, <1>4, <1>7, <3>1
      <3> QED BY <1>5, <3>1, <3>2, LifeAt
    <2>2. CASE \A k \in Used(games) : games[k].id # i
      <3>1. \A k \in Used(t) : t[k].id # i
        BY <1>1, <1>3, <1>4, <1>7, <2>2
      <3> QED BY <1>5, <2>2, <3>1, LifeAt
    <2> QED BY <2>1, <2>2
  <1>8. Life = L /\ Life' = M
    BY <1>1, LifeIs DEF t
  <1>9. Stage(g) = Stage(games[s]) \/
        (Stage(games[s]) \in 0..Countdown /\ Stage(g) = Stage(games[s]) + 1)
    <2>1. /\ games[s].state \in Nat /\ games[s].active \in BOOLEAN
          /\ g.active \in BOOLEAN /\ Countdown \in Nat
      BY <1>2, GameType, ConstantsAssumption
    <2>2. IF games[s].active THEN games[s].state >= 1 ELSE games[s].state = 0
      BY DEF TableInv
    <2> QED BY <1>1, <2>1, <2>2 DEF StageStep, Stage
  <1>10. L = [i \in Slots |-> L[i]] /\ M = [i \in Slots |-> M[i]]
    BY <1>5, LifeAt
  <1> HIDE DEF L, M, a
  <1>11. CASE Stage(g) = Stage(games[s])
    <2>1. M = L
      BY <1>2, <1>6, <1>7, <1>10, <1>11
    <2> QED BY <1>8, <2>1
  <1>12. CASE Stage(games[s]) \in 0..Countdown /\ Stage(g) = Stage(games[s]) + 1
    <2>1. M = [L EXCEPT ![a] = @ + 1]
      BY <1>2, <1>6, <1>7, <1>10, <1>12
    <2>2. Lifecycle!Advance(a)
      BY <1>6, <1>8, <1>12, <2>1 DEF Lifecycle!Advance, Lifecycle!Queued
    <2> QED BY <1>2, <2>2 DEF Lifecycle!Next, Lifecycle!Ids, Slots
  <1> QED BY <1>9, <1>11, <1>12

\* A new game is a Create step of the abstract specification.
LEMMA BornLife ==
    ASSUME TableInv(games, gameId), TableInv(games', gameId'), Born
    PROVE  [Lifecycle!Next]_Life
  <1>1. PICK s \in Slots, g \in Game :
          /\ games[s] = Nil /\ games' = [games EXCEPT ![s] = g]
          /\ g.id = gameId /\ ~g.active /\ g.state = 0
          /\ gameId \in Slots /\ gameId' = gameId + 1
    BY DEF Born
  <1> DEFINE t == games'
             n == gameId
             L == LifeOf(games, n)
             M == LifeOf(t, n + 1)
  <1>2. n \in Slots /\ n \in Nat
    BY <1>1 DEF Slots
  <1>3. Used(t) = Used(games) \cup {s} /\ s \notin Used(games)
    BY <1>1, UsedOf DEF TableInv, Used
  <1>4. t[s] = g /\ \A k \in Used(games) : t[k] = games[k]
    BY <1>1, <1>3, UsedOf DEF TableInv
  <1>5. TableInv(t, n + 1)
    BY <1>1
  <1>6. \A k \in Used(games) : games[k].id \in Slots /\ games[k].id < n
    BY LifeAt DEF TableInv
  <1> HIDE DEF t
  <1>7. L[n] = -2 /\ M[n] = 0
    <2>1. \A k \in Used(games) : games[k].id # n
      BY <1>2, <1>6 DEF Slots
    <2>2. L[n] = -2
      BY <1>2, <2>1, LifeAt
    <2>3. M[n] = Stage(g)
      BY <1>1, <1>3, <1>4, <1>5, LifeAt
    <2> QED BY <1>1, <2>2, <2>3 DEF Stage
  <1>8. ASSUME NEW i \in Slots, i # n
        PROVE  M[i] = L[i] /\ (i < n => L[i] # -2)
    <2>1. CASE \E k \in Used(games) : games[k].id = i
      <3>1. PICK k \in Used(games) : games[k].id = i
        BY <2>1
      <3>2. t[k] = games[k] /\ k \in Used(t)
        BY <1>3, <1>4
      <3>3. M[i] = Stage(games[k]) /\ L[i] = Stage(games[k])
        BY <1>5, <3>1, <3>2, LifeAt
      <3>4. Stage(games[k]) \in Nat
        BY UsedOf, GameType DEF TableInv, Stage
      <3> QED BY <3>3, <3>4
    <2>2. CASE \A k \in Used(games) : games[k].id # i
      <3>1. \A k \in Used(t) : t[k].id # i
        BY <1>1, <1>3, <1>4, <1>8, <2>2
      <3>2. L[i] = IF i < n THEN -1 ELSE -2
        BY <2>2, LifeAt
      <3>3. M[i] = IF i < n + 1 THEN -1 ELSE -2
        BY <1>5, <3>1, LifeAt
      <3> QED BY <1>2, <1>8, <3>2, <3>3 DEF Slots
    <2> QED BY <2>1, <2>2
  <1>9. Life = L /\ Life' = M
    BY <1>1, LifeIs DEF t
  <1>10. L = [i \in Slots |-> L[i]] /\ M = [i \in Slots |-> M[i]]
    BY <1>5, LifeAt
  <1> HIDE DEF L, M, n
  <1>11. M = [L EXCEPT ![n] = 0]
    BY <1>2, <1>7, <1>8, <1>10
  <1>12. Lifecycle!Create(n)
    BY <1>2, <1>7, <1>8, <1>9, <1>11
       DEF Lifecycle!Create, Lifecycle!Unborn, Lifecycle!Queued, Lifecycle!Ids, Slots
  <1> QED BY <1>2, <1>12 DEF Lifecycle!Next, Lifecycle!Ids, Slots

\* The end of a queue is a Dissolve step of the abstract specification.
LEMMA DieLife ==
    ASSUME TableInv(games, gameId), TableInv(games', gameId'), Die
    PROVE  [Lifecycle!Next]_Life
  <1>1. PICK s \in Used(games) :
          /\ ~games[s].active
          /\ games' = [games EXCEPT ![s] = Nil] /\ gameId' = gameId
    BY DEF Die
  <1> DEFINE t == games'
             n == gameId
             a == games[s].id
             L == LifeOf(games, n)
             M == LifeOf(t, n)
  <1>2. s \in Slots /\ a \in Slots /\ a < n
    BY LifeAt, UsedOf DEF TableInv
  <1>3. Used(t) = Used(games) \ {s}
    BY <1>1, <1>2, UsedOf DEF TableInv
  <1>4. \A k \in Used(t) : t[k] = games[k] /\ k \in Used(games)
    BY <1>1, <1>3, UsedOf DEF TableInv
  <1>5. TableInv(t, n)
    BY <1>1
  <1>6. \A k \in Used(games) : games[k].id = a => k = s
    BY DEF TableInv
  <1> HIDE DEF t
  <1>7. L[a] = 0 /\ M[a] = -1
    <2>1. L[a] = 0
      BY <1>1, LifeAt DEF Stage
    <2>2. \A k \in Used(t) : t[k].id # a
      BY <1>3, <1>4, <1>6
    <2>3. M[a] = -1
      BY <1>2, <1>5, <2>2, LifeAt
    <2> QED BY <2>1, <2>3
  <1>8. ASSUME NEW i \in Slots, i # a
        PROVE  M[i] = L[i]
    <2>1. CASE \E k \in Used(games) : games[k].id = i
      <3>1. PICK k \in Used(games) : games[k].id = i
        BY <2>1
      <3>2. t[k] = games[k] /\ k \in Used(t)
        BY <1>3, <1>4, <1>8, <3>1
      <3> QED BY <1>5, <3>1, <3>2, LifeAt
    <2>2. CASE \A k \in Used(games) : games[k].id # i
      <3>1. \A k \in Used(t) : t[k].id # i
        BY <1>4, <2>2
      <3> QED BY <1>5, <2>2, <3>1, LifeAt
    <2> QED BY <2>1, <2>2
  <1>9. Life = L /\ Life' = M
    BY <1>1, LifeIs DEF t
  <1>10. L = [i \in Slots |-> L[i]] /\ M = [i \in Slots |-> M[i]]
    BY <1>5, LifeAt
  <1> HIDE DEF L, M, a
  <1>11. M = [L EXCEPT ![a] = -1]
    BY <1>2, <1>7, <1>8, <1>10
  <1>12. Lifecycle!Dissolve(a)
    BY <1>7, <1>9, <1>11
       DEF Lifecycle!Dissolve, Lifecycle!Queued, Lifecycle!Gone
  <1> QED BY <1>2, <1>12 DEF Lifecycle!Next, Lifecycle!Ids, Slots

\* The tables of Game.lua implement the life of a game for every number of
\* players, games and locations: numbers are given out in order and once, no
\* live game is overwritten, only queues are dissolved, and the countdown
\* neither skips nor repeats a second, errors in handlers included.
THEOREM LifecycleRefined == Spec => LifecycleSpec
  <1>1. Init => Lifecycle!Init
    <2> SUFFICES ASSUME Init PROVE Lifecycle!Init
      OBVIOUS
    <2>1. Used(games) = {} /\ gameId = 1
      BY DEF Init, Used
    <2>2. \A i \in Slots : Numbered(i) = {} /\ ~(i < gameId)
      BY <2>1, ConstantsAssumption DEF Numbered, Slots
    <2>3. Life = [i \in Slots |-> -2]
      BY <2>2 DEF Life
    <2> QED BY <2>3 DEF Lifecycle!Init, Lifecycle!Ids, Lifecycle!Unborn, Slots
  <1>2. IInv /\ IInv' /\ [Next]_vars => [Lifecycle!Next]_Life
    <2> SUFFICES ASSUME IInv, IInv', [Next]_vars PROVE [Lifecycle!Next]_Life
      OBVIOUS
    <2>1. TableInv(games, gameId) /\ TableInv(games', gameId')
      BY DEF IInv
    <2>2. GamesStep
      BY NextStep DEF IInv
    <2>3. CASE Quiet
      BY <2>3, LifeIs DEF Quiet
    <2> QED BY <2>1, <2>2, <2>3, BornLife, TouchLife, DieLife DEF GamesStep
  <1> QED BY <1>1, <1>2, IInvAlways, PTL DEF Spec, LifecycleSpec, Lifecycle!Spec

------------------------------------------------------------------------------
(***************************************************************************)
(* The rosters.  Whatever the handler, the player table of a game that     *)
(* lives on stays as it is, gains an entry while the game is a queue,      *)
(* loses the entry a logout takes for the player's index, or is pruned in  *)
(* a tick in which the host is found; a new game has its host first.       *)
(***************************************************************************)
Rostered(f, g) ==
    \/ g.players = f.players
    \/ /\ ~f.active
       /\ \E b \in Borders(f.players), p \in Players :
            b + 1 \in Entries /\ g.players = InsertAfter(f.players, b, p)
    \/ \E size \in Borders(f.players), p \in Players :
         /\ RemoveInBounds(size, p)
         /\ g.players = TableRemove(f.players, size, p)
    \/ /\ ~f.active /\ GetPlayerByGUID(f.host)
       /\ \E K \in Pruned(f) : g.players = Kept(f, K)

Rosters ==
    /\ \A k \in Used(games) \cap Used(games)' :
         games'[k].host = games[k].host /\ Rostered(games[k], games'[k])
    /\ \A k \in Used(games)' \ Used(games) :
         games'[k].players[1] = games'[k].host

\* Replacing one game by a version of itself.
LEMMA RosterWrite ==
    ASSUME TypeOK, NEW k \in Used(games), NEW g \in Game,
           games' = [games EXCEPT ![k] = g],
           g.host = games[k].host, Rostered(games[k], g)
    PROVE  Rosters
  <1>1. k \in Slots /\ games'[k] = g
    BY UsedGame DEF TypeOK
  <1>2. \A l \in Used(games) : l # k => games'[l] = games[l]
    BY DEF TypeOK, Used
  <1>3. Used(games)' = Used(games)
    BY GameWrite
  <1>4. \A l \in Used(games) : games'[l].host = games[l].host /\ Rostered(games[l], games'[l])
    BY <1>1, <1>2 DEF Rostered
  <1> QED BY <1>3, <1>4 DEF Rosters

\* Handlers that leave the games alone.
LEMMA RosterQuiet ==
    ASSUME TypeOK, games' = games
    PROVE  Rosters
  <1>1. Used(games)' = Used(games)
    BY DEF Used
  <1> QED BY <1>1 DEF Rosters, Rostered

LEMMA RosterStep ==
    ASSUME TypeOK, [Next]_vars
    PROVE  Rosters
  <1>1. ASSUME NEW p \in Players, NEW n \in Names, CREATEGAME(p, n) PROVE Rosters
    <2> DEFINE g == [id |-> gameId, name |-> n, active |-> FALSE, host |-> p,
                players |-> [i \in Entries |-> IF i = 1 THEN p ELSE Nil],
                state |-> 0, data |-> "nil"]
    <2>1. g \in Game
      BY <1>1, ConstantsAssumption DEF CREATEGAME, Game
    <2>2. PICK b \in Borders(games) :
            b + 1 \in Slots /\ games' = [games EXCEPT ![b + 1] = g]
      BY <1>1 DEF CREATEGAME, InsertAfter
    <2>3. g.host = g.players[1]
      BY ConstantsAssumption DEF Entries
    <2> HIDE DEF g
    <2>4. Used(games)' = Used(games) \cup {b + 1} /\ games'[b + 1] = g
      BY <2>1, <2>2, SlotWrite DEF TypeOK
    <2>5. b + 1 \notin Used(games)
      BY <2>2 DEF Borders
    <2>6. \A k \in Used(games) : games'[k] = games[k]
      BY <2>2, <2>5 DEF TypeOK, Used
    <2> QED BY <2>3, <2>4, <2>6 DEF Rosters, Rostered
  <1>2. ASSUME NEW p \in Players, NEW n \in Names, JoinGame(p, n) PROVE Rosters
    <2>0. PICK k \in Used(games) : \E b \in Borders(games[k].players) :
            /\ ~games[k].active /\ b + 1 \in Entries
            /\ games' = [games EXCEPT ![k].players = InsertAfter(@, b, p)]
      BY <1>2 DEF JoinGame, Named
    <2>1. PICK b \in Borders(games[k].players) :
            /\ ~games[k].active /\ b + 1 \in Entries
            /\ games' = [games EXCEPT ![k].players = InsertAfter(@, b, p)]
      BY <2>0
    <2> DEFINE g == [games[k] EXCEPT !.players = InsertAfter(@, b, p)]
    <2>2. games[k] \in Game /\ games[k].players \in [Entries -> Players \cup {Nil}]
      BY UsedGame, GameType
    <2>3. InsertAfter(games[k].players, b, p) \in [Entries -> Players \cup {Nil}]
      BY <2>1, <2>2, TableOps
    <2>4. g \in Game /\ games' = [games EXCEPT ![k] = g]
      BY <2>1, <2>2, <2>3 DEF Game
    <2>5. g.host = games[k].host /\ g.players = InsertAfter(games[k].players, b, p)
      BY <2>2 DEF Game
    <2> HIDE DEF g
    <2>6. Rostered(games[k], g)
      BY <2>1, <2>5 DEF Rostered
    <2> QED BY <2>4, <2>5, <2>6, RosterWrite
  <1>3. ASSUME NEW p \in Players, Logout(p) PROVE Rosters
    <2>1. CASE games' = games
      BY <2>1, RosterQuiet
    <2>2. CASE games' # games
      <3>0. PICK k \in Used(games) : \E size \in Borders(games[k].players) :
              /\ RemoveInBounds(size, p)
              /\ games' = [games EXCEPT ![k].players = TableRemove(@, size, p)]
        BY <1>3, <2>2 DEF Logout, RemoveOnLogout, Named
      <3>1. PICK size \in Borders(games[k].players) :
              /\ RemoveInBounds(size, p)
              /\ games' = [games EXCEPT ![k].players = TableRemove(@, size, p)]
        BY <3>0
      <3> DEFINE g == [games[k] EXCEPT !.players = TableRemove(@, size, p)]
      <3>2. games[k] \in Game /\ games[k].players \in [Entries -> Players \cup {Nil}]
        BY UsedGame, GameType
      <3>3. TableRemove(games[k].players, size, p) \in [Entries -> Players \cup {Nil}]
        BY <3>2, TableOps
      <3>4. g \in Game /\ games' = [games EXCEPT ![k] = g]
        BY <3>1, <3>2, <3>3 DEF Game
      <3>5. g.host = games[k].host /\ g.players = TableRemove(games[k].players, size, p)
        BY <3>2 DEF Game
      <3> HIDE DEF g
      <3>6. Rostered(games[k], g)
        BY <3>1, <3>5 DEF Rostered
      <3> QED BY <3>4, <3>5, <3>6, RosterWrite
    <2> QED BY <2>1, <2>2
  <1>4. ASSUME NEW k \in todo, SpawnCages(k) \/ CountDown(k) PROVE Rosters
    <2>1. k \in Used(games) /\ games[k] \in Game
      BY UsedGame DEF TypeOK
    <2>2. games' \in [Slots -> Game \cup {Nil}] /\ Used(games)' = Used(games)
      <3>1. TypeOK' /\ (Quiet \/ Touch)
        BY <1>4, ActiveStep
      <3>2. Touch => Used(games)' = Used(games)
        BY GameWrite DEF Touch
      <3>3. Quiet => Used(games)' = Used(games)
        BY DEF Quiet, Used
      <3> QED BY <3>1, <3>2, <3>3 DEF TypeOK
    <2>3. \A l \in Used(games) : l # k => games'[l] = games[l]
      BY <1>4 DEF SpawnCages, CountDown, TypeOK, Used
    <2>4. games'[k].players = games[k].players /\ games'[k].host = games[k].host
      BY <1>4, <2>1 DEF SpawnCages, CountDown, TypeOK, Used, Game
    <2>5. \A l \in Used(games) : games'[l].host = games[l].host /\ games'[l].players = games[l].players
      BY <2>3, <2>4
    <2> QED BY <2>2, <2>5 DEF Rosters, Rostered
  <1>5. ASSUME NEW k \in todo, Dissolve(k) PROVE Rosters
    <2>1. games' = Erase(games, {k})
      BY <1>5 DEF Dissolve
    <2>2. \A l \in Used(games)' : l \in Used(games) /\ games'[l] = games[l]
      BY <2>1 DEF Erase, Used
    <2> QED BY <2>2 DEF Rosters, Rostered
  <1>6. ASSUME NEW k \in todo, Prune(k) PROVE Rosters
    <2>1. k \in Used(games) /\ games[k] \in Game
      BY UsedGame DEF TypeOK
    <2>2. PICK K \in Pruned(games[k]) :
            games' = [games EXCEPT ![k].players = Kept(games[k], K)]
      BY <1>6 DEF Prune
    <2> DEFINE g == [games[k] EXCEPT !.players = Kept(games[k], K)]
    <2>3. Kept(games[k], K) \in [Entries -> Players \cup {Nil}]
      BY <2>1, KeptType
    <2>4. g \in Game /\ games' = [games EXCEPT ![k] = g]
      BY <2>1, <2>2, <2>3 DEF Game
    <2>5. g.host = games[k].host /\ g.players = Kept(games[k], K)
      BY <2>1 DEF Game
    <2> HIDE DEF g
    <2>6. Rostered(games[k], g)
      BY <1>6, <2>2, <2>5 DEF Rostered, Prune
    <2> QED BY <2>1, <2>4, <2>5, <2>6, RosterWrite
  <1>7. ASSUME NEW k \in todo, Start(k) \/ StartError(k) PROVE Rosters
    <2>1. k \in Used(games) /\ games[k] \in Game
      BY UsedGame DEF TypeOK
    <2>2. PICK T, data : StartGame(k, T, data)
      BY <1>7 DEF Start, StartError
    <2>3. PICK K \in Pruned(games[k]) :
            /\ \E size \in Borders(Kept(games[k], K)) : size >= MinPlayers
            /\ games' = [games EXCEPT
                 ![k].players = Kept(games[k], K), ![k].active = TRUE,
                 ![k].state = 1, ![k].data = data]
      BY <2>2, Zenon DEF StartGame
    <2> DEFINE e == [games[k] EXCEPT !.players = Kept(games[k], K)]
               f == [e EXCEPT !.active = TRUE]
               h == [f EXCEPT !.state = 1]
               g == [h EXCEPT !.data = data]
    <2>4. games' = [games EXCEPT ![k] = g]
      <3>1. g = [[[[games[k] EXCEPT !.players = Kept(games[k], K)]
                     EXCEPT !.active = TRUE] EXCEPT !.state = 1] EXCEPT !.data = data]
        OBVIOUS
      <3> HIDE DEF g
      <3> QED BY <2>1, <2>3, <3>1 DEF TypeOK, Used
    <2>5. g.host = games[k].host /\ g.players = Kept(games[k], K)
      BY <2>1 DEF Game
    <2> HIDE DEF g
    <2>6. games'[k] = g /\ g \in Game
      <3>1. Used(games)' = Used(games) /\ games' \in [Slots -> Game \cup {Nil}]
        <4>1. TypeOK' /\ Touch
          BY <1>7, StartStep
        <4> QED BY <4>1, GameWrite DEF Touch, TypeOK
      <3> QED BY <2>1, <2>4, <3>1 DEF TypeOK, Used
    <2>7. Rostered(games[k], g)
      BY <2>2, <2>5 DEF Rostered, StartGame
    <2> QED BY <2>1, <2>4, <2>5, <2>6, <2>7, RosterWrite
  <1>8. ASSUME games' = games PROVE Rosters
    BY <1>8, RosterQuiet
  <1>9. CASE \E p \in Players : \/ \E n \in Names : leaveGame(p, n)
                                \/ Login(p) \/ WorldportAck(p) \/ Repop(p)
    BY <1>8, <1>9 DEF leaveGame, Login, WorldportAck, Repop
  <1>10. CASE TickBegin \/ UNCHANGED vars \/ \E k \in todo : SpawnError(k)
    BY <1>8, <1>10 DEF TickBegin, vars, SpawnError
  <1> QED BY <1>1, <1>2, <1>3, <1>4, <1>5, <1>6, <1>7, <1>9, <1>10 DEF Next, TickGame

\* table.remove brings no value into a table.
LEMMA RemoveValues ==
    ASSUME NEW t \in [Entries -> Players \cup {Nil}], NEW p \in Players,
           NEW size \in Borders(t)
    PROVE  Values(TableRemove(t, size, p)) \subseteq Values(t)
  <1>1. size \in {0} \cup Entries
    BY DEF Borders, Used
  <1>2. ASSUME NEW i \in Entries, p <= i, i < size
        PROVE  i + 1 \in Entries
    BY <1>1, <1>2, ConstantsAssumption DEF Entries
  <1>3. \A i \in Entries : TableRemove(t, size, p)[i] # Nil =>
          \E j \in Entries : t[j] = TableRemove(t, size, p)[i]
    BY <1>2 DEF TableRemove
  <1>4. DOMAIN TableRemove(t, size, p) = Entries
    BY DEF TableRemove
  <1> QED BY <1>3, <1>4 DEF Values, Used

\* With GUIDs that are no indexes, no player table loses an entry to a logout.
LEMMA NoRemoval ==
    ASSUME TypeOK, LargeGuids, NEW k \in Used(games),
           NEW size \in Borders(games[k].players), NEW p \in Players
    PROVE  ~RemoveInBounds(size, p)
  <1>1. games[k].players \in [Entries -> Players \cup {Nil}]
    BY UsedGame, GameType
  <1>2. size \in {0} \cup Entries
    BY <1>1 DEF Borders, Used
  <1>3. p \in Nat /\ p > MaxEntries + 1 /\ MaxEntries \in Nat
    BY ConstantsAssumption DEF LargeGuids
  <1>4. size \in Nat /\ size <= MaxEntries
    BY <1>2, <1>3 DEF Entries
  <1> QED BY <1>3, <1>4 DEF RemoveInBounds

\* A tick keeps at least one entry of every player it finds, and the first
\* entry if he has it.
LEMMA PrunedKeeps ==
    ASSUME TypeOK, NEW k \in Used(games), NEW K \in Pruned(games[k])
    PROVE  /\ SeenPlayers(games[k]) \subseteq Values(Kept(games[k], K))
           /\ 1 \in Seen(games[k]) => Kept(games[k], K)[1] = games[k].players[1]
  <1> DEFINE g == games[k]
  <1>1. g.players \in [Entries -> Players \cup {Nil}]
    BY UsedGame, GameType
  <1>2. \A i \in K : i \in Entries => Kept(g, K)[i] = g.players[i]
    BY <1>1 DEF Kept, Erase
  <1>3. DOMAIN Kept(g, K) = Entries
    BY <1>1 DEF Kept, Erase
  <1>4. \A i \in Seen(g) : /\ i \in Entries /\ g.players[i] # Nil
                           /\ g.players[i] \in SeenPlayers(g) /\ i \in Own(g, g.players[i])
    BY <1>1 DEF Seen, Used, SeenPlayers, Own
  <1>5. ASSUME NEW p \in SeenPlayers(g)
        PROVE  /\ \E i \in Own(g, p) : i \in K
               /\ 1 \in Own(g, p) => 1 \in K
    <2>1. Own(g, p) # {}
      BY DEF Own, SeenPlayers
    <2>2. IF p \in Called(g)
          THEN \E i \in Own(g, p) : /\ Own(g, p) \cap K = {i}
                                    /\ 1 \in Own(g, p) => i = 1
          ELSE Own(g, p) \subseteq K
      BY DEF Pruned
    <2> QED BY <2>1, <2>2
  <1>6. \A p : \A i \in Own(g, p) : i \in Seen(g) /\ g.players[i] = p
    BY DEF Own
  <1> HIDE DEF g
  <1>7. SeenPlayers(g) \subseteq Values(Kept(g, K))
    <2> SUFFICES ASSUME NEW p \in SeenPlayers(g) PROVE p \in Values(Kept(g, K))
      OBVIOUS
    <2>1. PICK i \in Own(g, p) : i \in K
      BY <1>5
    <2>2. i \in Entries /\ Kept(g, K)[i] = p /\ p # Nil
      BY <1>2, <1>4, <1>6, <2>1
    <2> QED BY <1>3, <2>2 DEF Values, Used
  <1>8. 1 \in Seen(g) => Kept(g, K)[1] = g.players[1]
    BY <1>2, <1>4, <1>5
  <1> QED BY <1>7, <1>8 DEF g

\* Nobody enters a started game, whatever the GUIDs, the joins and the
\* logouts: for every number of players and every length of a roster.
LEMMA LateEntryStep ==
    ASSUME TypeOK, [Next]_vars
    PROVE  \A k \in Used(games) \cap Used(games)' : games[k].active =>
             Values(games'[k].players) \subseteq Values(games[k].players)
  <1> SUFFICES ASSUME NEW k \in Used(games), k \in Used(games)', games[k].active
               PROVE  Values(games'[k].players) \subseteq Values(games[k].players)
    OBVIOUS
  <1>1. Rostered(games[k], games'[k])
    BY RosterStep DEF Rosters
  <1>2. games[k].players \in [Entries -> Players \cup {Nil}]
    BY UsedGame, GameType
  <1>3. CASE games'[k].players = games[k].players
    BY <1>3
  <1>4. CASE \E size \in Borders(games[k].players), p \in Players :
               games'[k].players = TableRemove(games[k].players, size, p)
    BY <1>2, <1>4, RemoveValues
  <1> QED BY <1>1, <1>3, <1>4 DEF Rostered

\* No roster grows after the start of its game, for every number of players and
\* whatever GUIDs the logout handler takes for indexes.
THEOREM NobodyEntersLate == Spec => NoLateEntry
  <1>1. TypeOK /\ [Next]_vars =>
          [\A k \in Used(games) \cap Used(games)' : games[k].active =>
             Values(games'[k].players) \subseteq Values(games[k].players)]_vars
    BY LateEntryStep
  <1> QED BY <1>1, TypeCorrect, PTL DEF Spec, NoLateEntry

\* With GUIDs that are no indexes, a player whom the service sees is dropped
\* from no roster while the game lives on.
THEOREM SeenAreKept == Spec => SeenKeepPlace
  <1>1. ASSUME TypeOK, [Next]_vars, LargeGuids
        PROVE  \A k \in Used(games) \cap Used(games)' :
                 SeenPlayers(games[k]) \subseteq Values(games'[k].players)
    <2> SUFFICES ASSUME NEW k \in Used(games), k \in Used(games)'
                 PROVE  SeenPlayers(games[k]) \subseteq Values(games'[k].players)
      OBVIOUS
    <2>1. Rostered(games[k], games'[k])
      BY <1>1, RosterStep DEF Rosters
    <2>2. SeenPlayers(games[k]) \subseteq Values(games[k].players)
      BY DEF SeenPlayers, Seen, Values
    <2>3. games[k].players \in [Entries -> Players \cup {Nil}]
      BY <1>1, UsedGame, GameType
    <2>4. ASSUME NEW b \in Borders(games[k].players), NEW p \in Players, b + 1 \in Entries,
                 games'[k].players = InsertAfter(games[k].players, b, p)
          PROVE  Values(games[k].players) \subseteq Values(games'[k].players)
      <3>1. b + 1 \notin Used(games[k].players)
        BY DEF Borders
      <3>2. \A i \in Used(games[k].players) : i \in Used(games'[k].players)
                                      /\ games'[k].players[i] = games[k].players[i]
        BY <2>3, <2>4, <3>1 DEF InsertAfter, Used
      <3> QED BY <3>2 DEF Values
    <2>5. ASSUME NEW K \in Pruned(games[k]), games'[k].players = Kept(games[k], K)
          PROVE  SeenPlayers(games[k]) \subseteq Values(games'[k].players)
      BY <1>1, <2>5, PrunedKeeps
    <2> QED BY <1>1, <2>1, <2>2, <2>4, <2>5, NoRemoval DEF Rostered
  <1>2. TypeOK /\ [Next]_vars =>
          [LargeGuids => \A k \in Used(games) \cap Used(games)' :
             SeenPlayers(games[k]) \subseteq Values(games'[k].players)]_vars
    BY <1>1
  <1> QED BY <1>2, TypeCorrect, PTL DEF Spec, SeenKeepPlace

\* The host stays the first entry of his game, although joins insert at any
\* border of the table and ticks prune it.
LEMMA HostStep == TypeOK /\ HostFirst /\ [Next]_vars => HostFirst'
  <1> SUFFICES ASSUME TypeOK, HostFirst, [Next]_vars, LargeGuids, NEW k \in Used(games)'
               PROVE  games'[k].players[1] = games'[k].host
    BY DEF HostFirst, LargeGuids
  <1>1. CASE k \notin Used(games)
    BY <1>1, RosterStep DEF Rosters
  <1>2. CASE k \in Used(games)
    <2>1. Rostered(games[k], games'[k]) /\ games'[k].host = games[k].host
      BY <1>2, RosterStep DEF Rosters
    <2>2. games[k].players[1] = games[k].host /\ games[k].host \in Players
      BY <1>2, UsedGame, GameType DEF HostFirst
    <2>3. games[k].players \in [Entries -> Players \cup {Nil}] /\ 1 \in Entries
      BY <1>2, UsedGame, GameType, ConstantsAssumption DEF Entries
    <2>4. 1 \in Used(games[k].players)
      BY <2>2, <2>3, NilAssumption DEF Used
    <2>5. ASSUME NEW b \in Borders(games[k].players), NEW p \in Players, b + 1 \in Entries,
                 games'[k].players = InsertAfter(games[k].players, b, p)
          PROVE  games'[k].players[1] = games[k].players[1]
      <3>1. b + 1 # 1
        BY <2>4 DEF Borders
      <3> QED BY <2>3, <2>5, <3>1 DEF InsertAfter
    <2>6. ASSUME NEW K \in Pruned(games[k]), games'[k].players = Kept(games[k], K),
                 GetPlayerByGUID(games[k].host)
          PROVE  games'[k].players[1] = games[k].players[1]
      <3>1. 1 \in Seen(games[k])
        BY <2>2, <2>4, <2>6 DEF Seen
      <3> QED BY <1>2, <2>6, <3>1, PrunedKeeps
    <2> QED BY <1>2, <2>1, <2>2, <2>5, <2>6, NoRemoval DEF Rostered
  <1> QED BY <1>1, <1>2

\* The host of a queue stays in front of its table: leaving, joining again and
\* pruning never move or drop him, for every number of players and holes.
THEOREM HostStaysFirst == Spec => []HostFirst
  <1>1. Init => HostFirst
    BY DEF Init, HostFirst, Used
  <1> QED BY <1>1, HostStep, TypeCorrect, PTL DEF Spec

------------------------------------------------------------------------------
(***************************************************************************)
(* Phases.  A step gives a player a new phase only when the game with that *)
(* number starts with him on its roster.                                   *)
(***************************************************************************)
StartsWith(p, n) == \E k \in Used(games)' :
    /\ games'[k].active /\ games'[k].id = n
    /\ p \in Values(games'[k].players)

LEMMA PhaseStep ==
    ASSUME TypeOK, [Next]_vars
    PROVE  \A p \in Players : \/ phase'[p] \in {phase[p], NormalPhase}
                              \/ StartsWith(p, phase'[p])
  <1>1. ASSUME phase' = phase
        PROVE  \A p \in Players : phase'[p] \in {phase[p], NormalPhase}
    BY <1>1
  <1>2. ASSUME NEW p \in Players, Logout(p)
        PROVE  \A q \in Players : phase'[q] \in {phase[q], NormalPhase}
    BY <1>2 DEF Logout, TypeOK
  <1>3. ASSUME NEW k \in todo, Start(k) \/ StartError(k)
        PROVE  \A p \in Players : phase'[p] = phase[p] \/ StartsWith(p, phase'[p])
    <2>1. k \in Used(games) /\ games[k] \in Game
      BY UsedGame DEF TypeOK
    <2>2. PICK T, data, P : /\ StartGame(k, T, data) /\ SetPhase(P, games[k].id)
                            /\ P \subseteq Ready(games[k])
      <3>1. CASE Start(k)
        BY <3>1 DEF Start
      <3>2. CASE StartError(k)
        <4>1. PICK T \in SUBSET Ready(games[k]) : \E next \in Ready(games[k]) \ T :
                /\ StartGame(k, T, games[k].data)
                /\ SetPhase(T \cup {next}, games[k].id)
          BY <3>2 DEF StartError
        <4> QED BY <4>1
      <3> QED BY <1>3, <3>1, <3>2
    <2>3. PICK K \in Pruned(games[k]) :
            /\ \E size \in Borders(Kept(games[k], K)) : size >= MinPlayers
            /\ games' = [games EXCEPT
                 ![k].players = Kept(games[k], K), ![k].active = TRUE,
                 ![k].state = 1, ![k].data = data]
      BY <2>2, Zenon DEF StartGame
    <2> DEFINE e == [games[k] EXCEPT !.players = Kept(games[k], K)]
               f == [e EXCEPT !.active = TRUE]
               h == [f EXCEPT !.state = 1]
               g == [h EXCEPT !.data = data]
    <2>4. games' = [games EXCEPT ![k] = g]
      <3>1. g = [[[[games[k] EXCEPT !.players = Kept(games[k], K)]
                     EXCEPT !.active = TRUE] EXCEPT !.state = 1] EXCEPT !.data = data]
        OBVIOUS
      <3> HIDE DEF g
      <3> QED BY <2>1, <2>3, <3>1 DEF TypeOK, Used
    <2>5. g.id = games[k].id /\ g.active /\ g.players = Kept(games[k], K)
      BY <2>1 DEF Game
    <2> HIDE DEF g
    <2>6. k \in Used(games)' /\ games'[k] = g
      <3>1. TypeOK' /\ Touch
        BY <1>3, StartStep
      <3>2. Used(games)' = Used(games)
        BY <3>1, GameWrite DEF Touch
      <3> QED BY <2>1, <2>4, <3>2 DEF TypeOK, Used
    <2>7. SeenPlayers(games[k]) \subseteq Values(g.players)
      BY <2>1, <2>5, PrunedKeeps
    <2>8. \A p \in P : p \in Values(games'[k].players)
      BY <2>2, <2>6, <2>7 DEF Ready
    <2> QED BY <2>2, <2>5, <2>6, <2>8 DEF SetPhase, StartsWith
  <1>4. CASE TickGame
    <2>1. ASSUME NEW k \in todo, SpawnCages(k) \/ SpawnError(k) \/ CountDown(k)
                                 \/ Dissolve(k) \/ Prune(k)
          PROVE  phase' = phase
      BY <2>1 DEF SpawnCages, SpawnError, CountDown, Dissolve, Prune, players
    <2> QED BY <1>1, <1>3, <1>4, <2>1 DEF TickGame
  <1>5. CASE UNCHANGED vars \/ TickBegin
    BY <1>1, <1>5 DEF vars, TickBegin, players
  <1>6. ASSUME NEW p \in Players, NEW n \in Names,
               CREATEGAME(p, n) \/ JoinGame(p, n) \/ leaveGame(p, n)
        PROVE  phase' = phase
    BY <1>6 DEF CREATEGAME, JoinGame, leaveGame, players
  <1>7. ASSUME NEW p \in Players, Login(p) \/ WorldportAck(p) \/ Repop(p)
        PROVE  phase' = phase
    BY <1>7 DEF Login, WorldportAck, Repop
  <1> QED BY <1>1, <1>2, <1>4, <1>5, <1>6, <1>7 DEF Next

\* A started game stays, with its number and started.
LEMMA ActiveStays ==
    ASSUME TypeOK, [Next]_vars, NEW k \in Used(games), games[k].active
    PROVE  /\ k \in Used(games)'
           /\ games'[k].active /\ games'[k].id = games[k].id
  <1>1. GamesStep
    BY NextStep
  <1>2. CASE Quiet
    BY <1>2 DEF Quiet, Used
  <1>3. CASE Born
    <2>1. PICK s \in Slots, g \in Game :
            games[s] = Nil /\ games' = [games EXCEPT ![s] = g]
      BY <1>3 DEF Born
    <2>2. s # k
      BY <2>1 DEF Used
    <2> QED BY <2>1, <2>2 DEF TypeOK, Used
  <1>4. CASE Touch
    <2>1. PICK s \in Used(games), g \in Game :
            /\ games' = [games EXCEPT ![s] = g]
            /\ g.id = games[s].id /\ StageStep(games[s], g)
      BY <1>4 DEF Touch
    <2>2. Used(games)' = Used(games)
      BY <2>1, GameWrite
    <2>3. g.active \in BOOLEAN /\ games[k].active \in BOOLEAN
      BY UsedGame, GameType
    <2>4. s = k => g.active
      BY <2>1, <2>3 DEF StageStep
    <2> QED BY <2>1, <2>2, <2>4 DEF TypeOK, Used
  <1>5. CASE Die
    <2>1. PICK s \in Used(games) : ~games[s].active /\ games' = [games EXCEPT ![s] = Nil]
      BY <1>5 DEF Die
    <2>2. s # k
      BY <2>1
    <2> QED BY <2>1, <2>2 DEF TypeOK, Used
  <1> QED BY <1>1, <1>2, <1>3, <1>4, <1>5 DEF GamesStep

\* A player is in the phase of a game only as long as he is on its roster.
LEMMA OwnPhaseStep == TypeOK /\ PhaseOfOwnGame /\ [Next]_vars => PhaseOfOwnGame'
  <1> SUFFICES ASSUME TypeOK, PhaseOfOwnGame, [Next]_vars, LargeGuids,
                      NEW p \in Players, phase'[p] # NormalPhase
               PROVE  StartsWith(p, phase'[p])
    BY DEF PhaseOfOwnGame, StartsWith, LargeGuids
  <1>1. CASE phase'[p] = phase[p]
    <2>1. PICK k \in Used(games) : /\ games[k].active /\ games[k].id = phase[p]
                                   /\ p \in Values(games[k].players)
      BY <1>1 DEF PhaseOfOwnGame
    <2>2. k \in Used(games)' /\ games'[k].active /\ games'[k].id = games[k].id
      BY <2>1, ActiveStays
    <2>3. Rostered(games[k], games'[k])
      BY <2>1, <2>2, RosterStep DEF Rosters
    <2>4. games'[k].players = games[k].players
      BY <2>1, <2>3, NoRemoval DEF Rostered
    <2> QED BY <1>1, <2>1, <2>2, <2>4 DEF StartsWith
  <1>2. CASE phase'[p] # phase[p]
    BY <1>2, PhaseStep
  <1> QED BY <1>1, <1>2

\* The phase of a game belongs to its roster, for all players and games.
THEOREM PhasesOfOwnGames == Spec => []PhaseOfOwnGame
  <1>1. Init => PhaseOfOwnGame
    BY DEF Init, PhaseOfOwnGame
  <1> QED BY <1>1, OwnPhaseStep, TypeCorrect, PTL DEF Spec

------------------------------------------------------------------------------
(***************************************************************************)
(* What one player sees.  A step writes at most one slot of the games, so  *)
(* a player's rosters are what the other slots hold (Elsewhere) and what   *)
(* that slot holds before and after the step.                              *)
(***************************************************************************)
Lists(g, p, a) == g.active = a /\ p \in Values(g.players)

Elsewhere(p, a, k) == \E l \in Used(games) \ {k} : Lists(games[l], p, a)

Served(p) == Service(p)!Next \/ UNCHANGED Service(p)!served

\* A step that changes none of what a player sees.
LEMMA Unaffected ==
    ASSUME NEW p \in Players,
           gameData'[p] = gameData[p], pres'[p] = pres[p],
           OnRoster(p, FALSE)' <=> OnRoster(p, FALSE),
           OnRoster(p, TRUE)' <=> OnRoster(p, TRUE)
    PROVE  Served(p)
  <1>1. OnRoster(p, FALSE)' = OnRoster(p, FALSE) /\ OnRoster(p, TRUE)' = OnRoster(p, TRUE)
    BY DEF OnRoster
  <1> QED BY <1>1 DEF Served, Service!served

\* The steps of PlayerService, from what the handlers do.
LEMMA Enters ==
    ASSUME NEW p \in Players, NEW n \in Names,
           pres[p] = "world", gameData[p] = Nil, gameData'[p] = n, pres'[p] = pres[p],
           OnRoster(p, FALSE)', OnRoster(p, TRUE)' <=> OnRoster(p, TRUE)
    PROVE  Served(p)
  <1>1. OnRoster(p, FALSE)' = TRUE /\ OnRoster(p, TRUE)' = OnRoster(p, TRUE)
    BY DEF OnRoster
  <1>2. Service(p)!Enter(n)
    BY <1>1 DEF Service!Enter
  <1> QED BY <1>2 DEF Served, Service!Next

\* He is told that a queue of his is gone.
LEMMA IsDissolved ==
    ASSUME NEW p \in Players, pres[p] = "world", OnRoster(p, FALSE),
           gameData'[p] = Nil, pres'[p] = pres[p], OnRoster(p, TRUE)' <=> OnRoster(p, TRUE)
    PROVE  Served(p)
  <1>1. /\ OnRoster(p, FALSE)' \in BOOLEAN
        /\ OnRoster(p, TRUE)' = OnRoster(p, TRUE)
    BY DEF OnRoster
  <1>2. Service(p)!Dissolved
    BY <1>1 DEF Service!Dissolved
  <1> QED BY <1>2 DEF Served, Service!Next

\* He is carried off by a start.
LEMMA IsCarried ==
    ASSUME NEW p \in Players, pres[p] = "world", OnRoster(p, FALSE),
           gameData'[p] = gameData[p], pres'[p] = "loading", OnRoster(p, TRUE)'
    PROVE  Served(p)
  <1>1. OnRoster(p, FALSE)' \in BOOLEAN /\ OnRoster(p, TRUE)' = TRUE
    BY DEF OnRoster
  <1>2. Service(p)!Carried
    BY <1>1 DEF Service!Carried
  <1> QED BY <1>2 DEF Served, Service!Next

\* He is called into the lobby.
LEMMA IsCalledIn ==
    ASSUME NEW p \in Players, pres[p] = "world", OnRoster(p, FALSE),
           gameData'[p] = gameData[p], pres'[p] = "loading",
           OnRoster(p, TRUE) => OnRoster(p, TRUE)',
           OnRoster(p, FALSE)' \/ OnRoster(p, TRUE)'
    PROVE  Served(p)
  <1>1. OnRoster(p, FALSE)' \in BOOLEAN /\ OnRoster(p, TRUE)' \in BOOLEAN
    BY DEF OnRoster
  <1>2. Service(p)!CalledIn
    BY <1>1 DEF Service!CalledIn
  <1> QED BY <1>2 DEF Served, Service!Next

\* He is on the roster of a start that leaves him where he is.
LEMMA IsLeftBehind ==
    ASSUME NEW p \in Players, pres[p] = "world", OnRoster(p, FALSE),
           gameData'[p] = gameData[p], pres'[p] = pres[p], OnRoster(p, TRUE)'
    PROVE  Served(p)
  <1>1. OnRoster(p, FALSE)' \in BOOLEAN /\ OnRoster(p, TRUE)' = TRUE
    BY DEF OnRoster
  <1>2. Service(p)!LeftBehind
    BY <1>1 DEF Service!LeftBehind
  <1> QED BY <1>2 DEF Served, Service!Next

\* He is not found: a queue may drop him, and nothing else happens.
LEMMA IsUnseen ==
    ASSUME NEW p \in Players, pres[p] # "world",
           gameData'[p] = gameData[p], pres'[p] = pres[p],
           OnRoster(p, FALSE)' => OnRoster(p, FALSE),
           OnRoster(p, TRUE)' <=> OnRoster(p, TRUE)
    PROVE  Served(p)
  <1>1. CASE OnRoster(p, FALSE) => OnRoster(p, FALSE)'
    BY <1>1, Unaffected
  <1>2. CASE OnRoster(p, FALSE) /\ ~OnRoster(p, FALSE)'
    <2>1. OnRoster(p, FALSE)' = FALSE /\ OnRoster(p, TRUE)' = OnRoster(p, TRUE)
      BY <1>2 DEF OnRoster
    <2>2. Service(p)!Unseen
      BY <1>2, <2>1 DEF Service!Unseen
    <2> QED BY <2>2 DEF Served, Service!Next
  <1> QED BY <1>1, <1>2

\* The rosters as one slot and the others.
LEMMA RosterSplit ==
    ASSUME NEW k \in Used(games), NEW p, NEW a
    PROVE  OnRoster(p, a) <=> Elsewhere(p, a, k) \/ Lists(games[k], p, a)
  BY DEF OnRoster, Elsewhere, Lists

\* A game is written into a slot.
LEMMA RosterWritten ==
    ASSUME TypeOK, NEW k \in Slots, NEW g \in Game, games' = [games EXCEPT ![k] = g],
           NEW p, NEW a
    PROVE  OnRoster(p, a)' <=> Elsewhere(p, a, k) \/ Lists(g, p, a)
  <1>1. Used(games)' = Used(games) \cup {k}
    BY SlotWrite
  <1>2. games'[k] = g /\ \A l \in Used(games) \ {k} : games'[l] = games[l]
    BY DEF TypeOK, Used
  <1>3. OnRoster(p, a)' <=> \E l \in Used(games) \cup {k} : Lists(games'[l], p, a)
    BY <1>1 DEF OnRoster, Lists
  <1> QED BY <1>2, <1>3 DEF Elsewhere

\* A slot is erased.
LEMMA RosterErased ==
    ASSUME TypeOK, NEW k \in Used(games), games' = Erase(games, {k}), NEW p, NEW a
    PROVE  OnRoster(p, a)' <=> Elsewhere(p, a, k)
  <1>1. Used(games)' = Used(games) \ {k}
    BY DEF TypeOK, Used, Erase
  <1>2. \A l \in Used(games) \ {k} : games'[l] = games[l]
    BY DEF TypeOK, Used, Erase
  <1>3. OnRoster(p, a)' <=> \E l \in Used(games) \ {k} : Lists(games'[l], p, a)
    BY <1>1 DEF OnRoster, Lists
  <1> QED BY <1>2, <1>3 DEF Elsewhere

\* The games are left alone.
LEMMA RosterAlone ==
    ASSUME games' = games, NEW p, NEW a
    PROVE  OnRoster(p, a)' <=> OnRoster(p, a)
  BY DEF OnRoster, Used

\* Found players of a roster are the players of the roster that are found.
LEMMA SeenIs ==
    ASSUME TypeOK, NEW k \in Used(games), NEW p
    PROVE  p \in SeenPlayers(games[k]) <=>
             p \in Values(games[k].players) /\ pres[p] = "world"
  BY DEF SeenPlayers, Seen, Values, GetPlayerByGUID

\* After the pruning a roster has exactly the players that were found.
LEMMA KeptValues ==
    ASSUME TypeOK, NEW k \in Used(games), NEW K \in Pruned(games[k])
    PROVE  Values(Kept(games[k], K)) = SeenPlayers(games[k])
  <1>1. games[k].players \in [Entries -> Players \cup {Nil}]
    BY UsedGame, GameType
  <1>2. K \subseteq Seen(games[k])
    BY DEF Pruned
  <1>3. \A i \in Used(Kept(games[k], K)) :
          i \in K /\ Kept(games[k], K)[i] = games[k].players[i]
    BY <1>1 DEF Kept, Erase, Used
  <1>4. Values(Kept(games[k], K)) \subseteq SeenPlayers(games[k])
    BY <1>2, <1>3 DEF Values, SeenPlayers
  <1> QED BY <1>4, PrunedKeeps

\* table.insert adds one player, and drops nobody: the entry was free.
LEMMA InsertValues ==
    ASSUME NEW t \in [Entries -> Players \cup {Nil}], NEW b \in Borders(t),
           b + 1 \in Entries, NEW p \in Players
    PROVE  Values(InsertAfter(t, b, p)) = Values(t) \cup {p}
  <1>1. t[b + 1] = Nil
    BY DEF Borders, Used
  <1> DEFINE u == InsertAfter(t, b, p)
  <1>2. u \in [Entries -> Players \cup {Nil}] /\ u[b + 1] = p /\ p # Nil
    BY NilAssumption DEF InsertAfter
  <1>3. \A i \in Entries : i # b + 1 => u[i] = t[i]
    BY DEF InsertAfter
  <1> HIDE DEF u
  <1>4. Used(u) = Used(t) \cup {b + 1}
    BY <1>1, <1>2, <1>3 DEF Used
  <1>5. \A i \in Used(t) : i \in Entries /\ i # b + 1
    BY <1>1 DEF Used
  <1>6. Values(u) = Values(t) \cup {p}
    BY <1>2, <1>3, <1>4, <1>5 DEF Values
  <1> QED BY <1>6 DEF u

\* CREATEGAME: the player enters a queue, the others see nothing.
LEMMA CreateServes ==
    ASSUME TypeOK, NEW q \in Players, NEW n \in Names, CREATEGAME(q, n),
           NEW p \in Players
    PROVE  Served(p)
  <1> DEFINE g == [id |-> gameId, name |-> n, active |-> FALSE, host |-> q,
              players |-> [i \in Entries |-> IF i = 1 THEN q ELSE Nil],
              state |-> 0, data |-> "nil"]
  <1>1. g \in Game
    BY ConstantsAssumption DEF CREATEGAME, Game
  <1>2. PICK b \in Borders(games) :
          b + 1 \in Slots /\ games' = [games EXCEPT ![b + 1] = g]
    BY DEF CREATEGAME, InsertAfter
  <1>3. Values(g.players) = {q} /\ g.active = FALSE
    <2>1. 1 \in Entries /\ q # Nil
      BY ConstantsAssumption, NilAssumption DEF Entries
    <2> QED BY <2>1 DEF Values, Used
  <1> HIDE DEF g
  <1>4. b + 1 \notin Used(games)
    BY <1>2 DEF Borders
  <1>5. \A a : OnRoster(p, a) <=> Elsewhere(p, a, b + 1)
    BY <1>4 DEF OnRoster, Elsewhere, Lists
  <1>6. \A a : OnRoster(p, a)' <=> Elsewhere(p, a, b + 1) \/ Lists(g, p, a)
    BY <1>1, <1>2, RosterWritten
  <1>7. \A a : Lists(g, p, a) <=> a = FALSE /\ p = q
    BY <1>3 DEF Lists
  <1>8. pres'[p] = pres[p]
    BY DEF CREATEGAME, players
  <1>9. CASE p = q
    <2>1. pres[p] = "world" /\ gameData[p] = Nil /\ gameData'[p] = n
      BY <1>9 DEF CREATEGAME, GetPlayerByGUID, TypeOK
    <2>2. OnRoster(p, FALSE)' /\ (OnRoster(p, TRUE)' <=> OnRoster(p, TRUE))
      BY <1>5, <1>6, <1>7, <1>9
    <2> QED BY <1>8, <2>1, <2>2, Enters
  <1>10. CASE p # q
    <2>1. gameData'[p] = gameData[p]
      BY <1>10 DEF CREATEGAME, TypeOK
    <2>2. OnRoster(p, FALSE)' <=> OnRoster(p, FALSE)
      BY <1>5, <1>6, <1>7, <1>10
    <2>3. OnRoster(p, TRUE)' <=> OnRoster(p, TRUE)
      BY <1>5, <1>6, <1>7, <1>10
    <2> QED BY <1>8, <2>1, <2>2, <2>3, Unaffected
  <1> QED BY <1>9, <1>10

\* JoinGame: the same, in a queue that exists.
LEMMA JoinServes ==
    ASSUME TypeOK, NEW q \in Players, NEW n \in Names, JoinGame(q, n),
           NEW p \in Players
    PROVE  Served(p)
  <1>0. PICK k \in Used(games) : \E b \in Borders(games[k].players) :
          /\ ~games[k].active /\ b + 1 \in Entries
          /\ games' = [games EXCEPT ![k].players = InsertAfter(@, b, q)]
    BY DEF JoinGame, Named
  <1>1. PICK b \in Borders(games[k].players) :
          /\ ~games[k].active /\ b + 1 \in Entries
          /\ games' = [games EXCEPT ![k].players = InsertAfter(@, b, q)]
    BY <1>0
  <1> DEFINE g == [games[k] EXCEPT !.players = InsertAfter(@, b, q)]
  <1>2. /\ games[k] \in Game /\ games[k].active = FALSE /\ k \in Slots
        /\ games[k].players \in [Entries -> Players \cup {Nil}]
    BY <1>1, UsedGame, GameType
  <1>3. InsertAfter(games[k].players, b, q) \in [Entries -> Players \cup {Nil}]
    BY <1>1, <1>2, TableOps
  <1>4. g \in Game /\ games' = [games EXCEPT ![k] = g]
    BY <1>1, <1>2, <1>3 DEF Game
  <1>5. g.active = FALSE /\ g.players = InsertAfter(games[k].players, b, q)
    BY <1>2 DEF Game
  <1> HIDE DEF g
  <1>6. Values(g.players) = Values(games[k].players) \cup {q}
    BY <1>1, <1>2, <1>5, InsertValues
  <1>7. \A a : OnRoster(p, a) <=> Elsewhere(p, a, k) \/ Lists(games[k], p, a)
    BY RosterSplit
  <1>8. \A a : OnRoster(p, a)' <=> Elsewhere(p, a, k) \/ Lists(g, p, a)
    BY <1>2, <1>4, RosterWritten
  <1>9. \A a : /\ Lists(g, p, a) <=> a = FALSE /\ (p = q \/ p \in Values(games[k].players))
               /\ Lists(games[k], p, a) <=> a = FALSE /\ p \in Values(games[k].players)
    BY <1>2, <1>5, <1>6 DEF Lists
  <1>10. pres'[p] = pres[p]
    BY DEF JoinGame, players
  <1>11. CASE p = q
    <2>1. pres[p] = "world" /\ gameData[p] = Nil /\ gameData'[p] = n
      BY <1>11 DEF JoinGame, GetPlayerByGUID, TypeOK
    <2>2. OnRoster(p, FALSE)' /\ (OnRoster(p, TRUE)' <=> OnRoster(p, TRUE))
      BY <1>7, <1>8, <1>9, <1>11
    <2> QED BY <1>10, <2>1, <2>2, Enters
  <1>12. CASE p # q
    <2>1. gameData'[p] = gameData[p]
      BY <1>12 DEF JoinGame, TypeOK
    <2>2. OnRoster(p, FALSE)' <=> OnRoster(p, FALSE)
      BY <1>7, <1>8, <1>9, <1>12
    <2>3. OnRoster(p, TRUE)' <=> OnRoster(p, TRUE)
      BY <1>7, <1>8, <1>9, <1>12
    <2> QED BY <1>10, <2>1, <2>2, <2>3, Unaffected
  <1> QED BY <1>11, <1>12

\* The requests and moves of one player that leave the games alone.
LEMMA PlayerServes ==
    ASSUME TypeOK, LargeGuids, NEW q \in Players,
           \/ \E n \in Names : leaveGame(q, n)
           \/ Login(q) \/ WorldportAck(q) \/ Logout(q) \/ Repop(q),
           NEW p \in Players
    PROVE  Served(p)
  <1>1. games' = games
    <2>1. CASE Logout(q)
      BY <2>1, NoRemoval DEF Logout, RemoveOnLogout, Named
    <2> QED BY <2>1 DEF leaveGame, Login, WorldportAck, Repop
  <1>2. OnRoster(p, FALSE)' <=> OnRoster(p, FALSE)
    BY <1>1, RosterAlone
  <1>3. OnRoster(p, TRUE)' <=> OnRoster(p, TRUE)
    BY <1>1, RosterAlone
  <1>4. OnRoster(p, FALSE)' = OnRoster(p, FALSE) /\ OnRoster(p, TRUE)' = OnRoster(p, TRUE)
    BY <1>2, <1>3 DEF OnRoster
  <1>5. CASE p # q
    <2>1. gameData'[p] = gameData[p] /\ pres'[p] = pres[p]
      BY <1>5 DEF leaveGame, Login, WorldportAck, Logout, Repop, Teleport, players, TypeOK
    <2> QED BY <1>2, <1>3, <2>1, Unaffected
  <1>6. CASE p = q
    <2>1. ASSUME NEW n \in Names, leaveGame(q, n) PROVE Service(p)!Leave
      BY <1>4, <1>6, <2>1 DEF leaveGame, GetPlayerByGUID, players, TypeOK, Service!Leave
    <2>2. ASSUME Login(q) \/ WorldportAck(q) PROVE Service(p)!Arrive
      BY <1>4, <1>6, <2>2 DEF Login, WorldportAck, TypeOK, Service!Arrive
    <2>3. ASSUME Logout(q) PROVE Service(p)!LogOut
      BY <1>4, <1>6, <2>3 DEF Logout, TypeOK, Service!LogOut
    <2>4. ASSUME Repop(q) PROVE Service(p)!Released
      <3>1. pres[p] = "world" /\ pres'[p] \in {"world", "loading"} /\ gameData'[p] = Nil
        BY <1>6, <2>4 DEF Repop, Teleport, GetPlayerByGUID, TypeOK
      <3> QED BY <1>4, <3>1 DEF Service!Released
    <2> QED BY <2>1, <2>2, <2>3, <2>4 DEF Served, Service!Next
  <1> QED BY <1>5, <1>6

\* handleActiveGame writes the countdown of a game and no roster.
LEMMA ActiveServes ==
    ASSUME TypeOK, NEW k \in todo, SpawnCages(k) \/ SpawnError(k) \/ CountDown(k),
           NEW p \in Players
    PROVE  Served(p)
  <1>1. k \in Used(games) /\ games[k] \in Game
    BY UsedGame DEF TypeOK
  <1>2. Used(games)' = Used(games)
    <2>1. TypeOK' /\ (Quiet \/ Touch)
      BY ActiveStep
    <2>2. Touch => Used(games)' = Used(games)
      BY GameWrite DEF Touch
    <2>3. Quiet => Used(games)' = Used(games)
      BY DEF Quiet, Used
    <2> QED BY <2>1, <2>2, <2>3
  <1>3. \A l \in Used(games) : l # k => games'[l] = games[l]
    BY DEF SpawnCages, SpawnError, CountDown, TypeOK, Used
  <1>4. games'[k].players = games[k].players /\ games'[k].active = games[k].active
    BY <1>1 DEF SpawnCages, SpawnError, CountDown, TypeOK, Used, Game
  <1>5. \A l \in Used(games) : /\ games'[l].players = games[l].players
                               /\ games'[l].active = games[l].active
    BY <1>3, <1>4
  <1>6. OnRoster(p, FALSE)' <=> OnRoster(p, FALSE)
    BY <1>2, <1>5 DEF OnRoster
  <1>7. OnRoster(p, TRUE)' <=> OnRoster(p, TRUE)
    BY <1>2, <1>5 DEF OnRoster
  <1>8. gameData' = gameData /\ pres' = pres
    BY DEF SpawnCages, SpawnError, CountDown, players
  <1> QED BY <1>6, <1>7, <1>8, Unaffected

\* A dissolved queue takes GAME from the players it finds.
LEMMA DissolveServes ==
    ASSUME TypeOK, NEW k \in todo, Dissolve(k), NEW p \in Players
    PROVE  Served(p)
  <1>1. k \in Used(games) /\ games[k] \in Game /\ games[k].active = FALSE
    BY UsedGame, GameType DEF TypeOK, Dissolve
  <1>2. \A a : OnRoster(p, a) <=> Elsewhere(p, a, k) \/ Lists(games[k], p, a)
    BY <1>1, RosterSplit
  <1>3. \A a : OnRoster(p, a)' <=> Elsewhere(p, a, k)
    BY <1>1, RosterErased DEF Dissolve
  <1>4. \A a : Lists(games[k], p, a) <=> a = FALSE /\ p \in Values(games[k].players)
    BY <1>1 DEF Lists
  <1>5. OnRoster(p, TRUE)' <=> OnRoster(p, TRUE)
    BY <1>2, <1>3, <1>4
  <1>6. OnRoster(p, FALSE)' => OnRoster(p, FALSE)
    BY <1>2, <1>3
  <1>7. pres'[p] = pres[p]
    BY DEF Dissolve, players
  <1>8. CASE p \in SeenPlayers(games[k])
    <2>1. p \in Values(games[k].players) /\ pres[p] = "world"
      BY <1>1, <1>8, SeenIs
    <2>2. OnRoster(p, FALSE)
      BY <1>2, <1>4, <2>1
    <2>3. gameData'[p] = Nil
      BY <1>8 DEF Dissolve
    <2> QED BY <1>5, <1>7, <2>1, <2>2, <2>3, IsDissolved
  <1>9. CASE p \notin SeenPlayers(games[k])
    <2>1. gameData'[p] = gameData[p]
      BY <1>9 DEF Dissolve
    <2>2. CASE pres[p] # "world"
      BY <1>5, <1>6, <1>7, <2>1, <2>2, IsUnseen
    <2>3. CASE pres[p] = "world"
      <3>1. p \notin Values(games[k].players)
        BY <1>1, <1>9, <2>3, SeenIs
      <3>2. OnRoster(p, FALSE)' <=> OnRoster(p, FALSE)
        BY <1>2, <1>3, <1>4, <3>1
      <3> QED BY <1>5, <1>7, <2>1, <3>2, Unaffected
    <2> QED BY <2>2, <2>3
  <1> QED BY <1>8, <1>9

\* A queue that does not start keeps exactly the players it found.
LEMMA PruneServes ==
    ASSUME TypeOK, NEW k \in todo, Prune(k), NEW p \in Players
    PROVE  Served(p)
  <1>1. /\ k \in Used(games) /\ games[k] \in Game /\ games[k].active = FALSE
        /\ k \in Slots
    BY UsedGame, GameType DEF TypeOK, Prune
  <1>2. PICK K \in Pruned(games[k]) :
          games' = [games EXCEPT ![k].players = Kept(games[k], K)]
    BY DEF Prune
  <1> DEFINE g == [games[k] EXCEPT !.players = Kept(games[k], K)]
  <1>3. Kept(games[k], K) \in [Entries -> Players \cup {Nil}]
    BY <1>1, KeptType
  <1>4. g \in Game /\ games' = [games EXCEPT ![k] = g]
    BY <1>1, <1>2, <1>3 DEF Game
  <1>5. g.active = FALSE /\ g.players = Kept(games[k], K)
    BY <1>1 DEF Game
  <1> HIDE DEF g
  <1>6. Values(g.players) = SeenPlayers(games[k])
    BY <1>1, <1>5, KeptValues
  <1>7. \A a : OnRoster(p, a) <=> Elsewhere(p, a, k) \/ Lists(games[k], p, a)
    BY <1>1, RosterSplit
  <1>8. \A a : OnRoster(p, a)' <=> Elsewhere(p, a, k) \/ Lists(g, p, a)
    BY <1>1, <1>4, RosterWritten
  <1>9. \A a : /\ Lists(g, p, a) <=> a = FALSE /\ p \in SeenPlayers(games[k])
               /\ Lists(games[k], p, a) <=> a = FALSE /\ p \in Values(games[k].players)
    BY <1>1, <1>5, <1>6 DEF Lists
  <1>10. p \in SeenPlayers(games[k]) <=>
           p \in Values(games[k].players) /\ pres[p] = "world"
    BY <1>1, SeenIs
  <1>11. OnRoster(p, TRUE)' <=> OnRoster(p, TRUE)
    BY <1>7, <1>8, <1>9
  <1>12. gameData'[p] = gameData[p]
    BY DEF Prune
  <1>13. CASE p \in Called(games[k])
    <2>1. p \in SeenPlayers(games[k]) /\ pres'[p] = "loading"
      BY <1>13 DEF Called, Prune, Teleport
    <2>2. OnRoster(p, FALSE) /\ OnRoster(p, FALSE)'
      BY <1>7, <1>8, <1>9, <1>10, <2>1
    <2> QED BY <1>10, <1>11, <1>12, <2>1, <2>2, IsCalledIn
  <1>14. CASE p \notin Called(games[k])
    <2>1. pres'[p] = pres[p]
      BY <1>14 DEF Prune, Teleport
    <2>2. CASE pres[p] # "world"
      <3>1. OnRoster(p, FALSE)' => OnRoster(p, FALSE)
        BY <1>7, <1>8, <1>9, <1>10
      <3> QED BY <1>11, <1>12, <2>1, <2>2, <3>1, IsUnseen
    <2>3. CASE pres[p] = "world"
      <3>1. OnRoster(p, FALSE)' <=> OnRoster(p, FALSE)
        BY <1>7, <1>8, <1>9, <1>10, <2>3
      <3> QED BY <1>11, <1>12, <2>1, <3>1, Unaffected
    <2> QED BY <2>2, <2>3
  <1> QED BY <1>13, <1>14

\* handleStartGame carries the players T, whichever of the ready ones they
\* are, and leaves the rest of the roster in the game it has started.
LEMMA StartServes ==
    ASSUME TypeOK, NEW k \in todo, Start(k) \/ StartError(k), NEW p \in Players
    PROVE  Served(p)
  <1>1. /\ k \in Used(games) /\ games[k] \in Game /\ k \in Slots
    BY UsedGame DEF TypeOK
  <1>2. PICK T, data : /\ StartGame(k, T, data) /\ T \subseteq SeenPlayers(games[k])
    <2>1. CASE Start(k)
      BY <2>1 DEF Start, Ready
    <2>2. CASE StartError(k)
      <3>1. PICK T \in SUBSET Ready(games[k]) : StartGame(k, T, games[k].data)
        BY <2>2 DEF StartError
      <3> QED BY <3>1 DEF Ready
    <2> QED BY <2>1, <2>2
  <1>3. PICK K \in Pruned(games[k]) :
          /\ \E size \in Borders(Kept(games[k], K)) : size >= MinPlayers
          /\ games' = [games EXCEPT
               ![k].players = Kept(games[k], K), ![k].active = TRUE,
               ![k].state = 1, ![k].data = data]
    BY <1>2, Zenon DEF StartGame
  <1> DEFINE e == [games[k] EXCEPT !.players = Kept(games[k], K)]
             f == [e EXCEPT !.active = TRUE]
             h == [f EXCEPT !.state = 1]
             g == [h EXCEPT !.data = data]
  <1>4. games' = [games EXCEPT ![k] = g]
    <2>1. g = [[[[games[k] EXCEPT !.players = Kept(games[k], K)]
                   EXCEPT !.active = TRUE] EXCEPT !.state = 1] EXCEPT !.data = data]
      OBVIOUS
    <2> HIDE DEF g
    <2> QED BY <1>1, <1>3, <2>1 DEF TypeOK, Used
  <1>5. g.active = TRUE /\ g.players = Kept(games[k], K)
    BY <1>1 DEF Game
  <1> HIDE DEF g
  <1>6. g \in Game
    <2>1. TypeOK' /\ Touch
      BY StartStep
    <2>2. Used(games)' = Used(games) /\ games' \in [Slots -> Game \cup {Nil}]
      BY <2>1, GameWrite DEF Touch, TypeOK
    <2> QED BY <1>1, <1>4, <2>2 DEF TypeOK, Used
  <1>7. Values(g.players) = SeenPlayers(games[k])
    BY <1>1, <1>5, KeptValues
  <1>8. games[k].active = FALSE
    BY <1>1, <1>2, GameType DEF StartGame
  <1>9. \A a : OnRoster(p, a) <=> Elsewhere(p, a, k) \/ Lists(games[k], p, a)
    BY <1>1, RosterSplit
  <1>10. \A a : OnRoster(p, a)' <=> Elsewhere(p, a, k) \/ Lists(g, p, a)
    BY <1>1, <1>4, <1>6, RosterWritten
  <1>11. \A a : /\ Lists(g, p, a) <=> a = TRUE /\ p \in SeenPlayers(games[k])
                /\ Lists(games[k], p, a) <=> a = FALSE /\ p \in Values(games[k].players)
    BY <1>5, <1>7, <1>8 DEF Lists
  <1>12. p \in SeenPlayers(games[k]) <=>
           p \in Values(games[k].players) /\ pres[p] = "world"
    BY <1>1, SeenIs
  <1>13. gameData'[p] = gameData[p]
    BY <1>2 DEF StartGame
  <1>14. CASE p \in SeenPlayers(games[k])
    <2>1. pres[p] = "world" /\ OnRoster(p, FALSE) /\ OnRoster(p, TRUE)'
      BY <1>9, <1>10, <1>11, <1>12, <1>14
    <2>2. CASE p \in T \cup Called(games[k])
      <3>1. pres'[p] = "loading"
        BY <1>2, <2>2 DEF StartGame
      <3> QED BY <1>13, <2>1, <3>1, IsCarried
    <2>3. CASE p \notin T \cup Called(games[k])
      <3>1. pres'[p] = pres[p]
        BY <1>2, <2>3 DEF StartGame
      <3> QED BY <1>13, <2>1, <3>1, IsLeftBehind
    <2> QED BY <2>2, <2>3
  <1>15. CASE p \notin SeenPlayers(games[k])
    <2>1. pres'[p] = pres[p]
      BY <1>2, <1>15 DEF StartGame, Called
    <2>2. OnRoster(p, TRUE)' <=> OnRoster(p, TRUE)
      BY <1>9, <1>10, <1>11, <1>15
    <2>3. OnRoster(p, FALSE)' => OnRoster(p, FALSE)
      BY <1>9, <1>10, <1>11
    <2>4. CASE pres[p] # "world"
      BY <1>13, <2>1, <2>2, <2>3, <2>4, IsUnseen
    <2>5. CASE pres[p] = "world"
      <3>1. OnRoster(p, FALSE)' <=> OnRoster(p, FALSE)
        BY <1>9, <1>10, <1>11, <1>12, <1>15, <2>5
      <3> QED BY <1>13, <2>1, <2>2, <3>1, Unaffected
    <2> QED BY <2>4, <2>5
  <1> QED BY <1>14, <1>15

\* Whatever anybody does, each player's view takes a step of the service.
LEMMA ServedStep ==
    ASSUME TypeOK, LargeGuids, [Next]_vars, NEW p \in Players
    PROVE  Served(p)
  <1>1. CASE \E q \in Players, n \in Names :
               CREATEGAME(q, n) \/ JoinGame(q, n) \/ leaveGame(q, n)
    BY <1>1, CreateServes, JoinServes, PlayerServes
  <1>2. CASE \E q \in Players : Login(q) \/ WorldportAck(q) \/ Logout(q) \/ Repop(q)
    BY <1>2, PlayerServes
  <1>3. CASE TickBegin \/ UNCHANGED vars
    <2>1. games' = games /\ gameData' = gameData /\ pres' = pres
      BY <1>3 DEF TickBegin, vars, players
    <2>2. OnRoster(p, FALSE)' <=> OnRoster(p, FALSE)
      BY <2>1, RosterAlone
    <2>3. OnRoster(p, TRUE)' <=> OnRoster(p, TRUE)
      BY <2>1, RosterAlone
    <2> QED BY <2>1, <2>2, <2>3, Unaffected
  <1>4. CASE TickGame
    BY <1>4, ActiveServes, DissolveServes, PruneServes, StartServes DEF TickGame
  <1> QED BY <1>1, <1>2, <1>3, <1>4 DEF Next

\* Each player alone is served as PlayerService says, for every number of
\* players and games and every length of a roster.
THEOREM EachPlayerServed == Spec => ServesEachPlayer
  <1>1. ASSUME NEW p \in Players, Init PROVE Service(p)!Init
    <2>1. OnRoster(p, FALSE) = FALSE /\ OnRoster(p, TRUE) = FALSE
      BY <1>1 DEF OnRoster, Init, Used
    <2>2. gameData[p] = Nil /\ pres[p] = "offline"
      BY <1>1 DEF Init
    <2> QED BY <2>1, <2>2 DEF Service!Init
  <1>2. Init => \A p \in Players : Service(p)!Init
    BY <1>1
  <1>3. TypeOK /\ [Next]_vars => [LargeGuids => \A p \in Players :
            Service(p)!Next \/ UNCHANGED Service(p)!served]_vars
    BY ServedStep DEF Served
  <1> QED BY <1>2, <1>3, TypeCorrect, PTL DEF Spec, ServesEachPlayer
=============================================================================
