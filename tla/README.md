# Hunger Games realm: verification project

The repository is a custom World of Warcraft 3.3.5 realm: a patched TrinityCore
server (`Core`), the Eluna Lua engine inside it (`Core/src/LuaEngine`), the Lua
scripts that run the Hunger Games (`Server Scripts`) and the patched client
interface (`Client/Interface/FrameXML`).  What is particular to this realm is
the Lua scripts, the engine that calls them and the client's lobby; they are
modelled first.  Around them, the project models the parts of the server that
decide when and by whom those scripts are run, and who gets to them: the world
loop with its map threads, the packets of a session, the admission of
sessions, and, as a part of the core in which players deal with each other,
trade.

## 1. Inventory

| Component | State | Operations | Interacts with |
|---|---|---|---|
| Game service (`Game.lua`, repop hook of `Hooks.lua`) | `games`, `gameId`, `GAME` of every player | `CREATEGAME`, `JoinGame`, `leaveGame`, logout and repop hooks, `updateAllGames` every 1000 ms, reload | requests through `onReceiveAddonMsg`; timed events; presence; addon messages |
| Lua tables (`lualib`) | arrays with holes | `#t`, `table.insert`, `table.remove`, `t[k] = nil`, `pairs` | every table of the game service |
| Player presence (world server) | in the world, between two maps, offline; map; phase; arena map created or not | login, `TeleportTo`, worldport acknowledgement, logout | `GetPlayerByGUID`, `PerformIngameSpawn`, packet filters |
| Eluna timed events (`ElunaEventMgr.cpp`) | per processor `eventList`, `eventMap`; registry references; known processors | add, abort by id, clear, `Update`, object creation and deletion, reload | calls Lua functions, which call back into it |
| Addon messages (`Utility.lua`, `MainFrame.lua`) | links under way, `links` of the client | `sendAddonMessage`, `eventHandlerMainFrame`, `ReloadUI` | all lists and state changes shown to the player |
| Client lobby (`MainFrame.lua`), request dispatch (`z_Main.lua`) | menu, game name, list, hidden or not; requests and messages under way | buttons, periodic requests, joined messages, reload | game service, addon messages, session |
| World loop and map threads (`World.cpp`, `MapManager.cpp`, `MapInstanced.cpp`, `MapUpdater.cpp`, `ProducerConsumerQueue.h`) | what each thread is doing, queue of requests, `pending_requests`, flags | update of sessions, scheduling, waiting, updates of maps and instances, scripts, shutdown | everything that runs on a thread |
| Session packets (`WorldSession.cpp`, `LockedQueue.h`) | `_recvQueue`, player of the session, packet in hand | queueing, the packet loop under two filters, requeueing, login, map change, logout | world loop, presence |
| Session admission (`World.cpp`) | sessions, waiting queue, limit, recent disconnects | `AddSession_`, `RemoveQueuedPlayer`, `UpdateSessions`, kicks | network threads, session packets |
| Trade (`TradeHandler.cpp`, `TradeData`) | both halves of a trade, goods, money | open, offer, accept, take back, cancel, complete | two sessions |
| Client perks (`LoadOut.lua`, `SelectTalents`), object variables, hook dispatch, rest of the core, deprecated core, assets | | | not modelled, see section 5 |

What is hard here:

* The scripts run one handler at a time on the world thread.  The difficulty
  is the ORDER of handlers: a player may be between two maps, offline or back
  again between any two of them, and the scripts notice it only as
  `GetPlayerByGUID` returning nil.
* That the scripts are alone is itself something to show: map threads update
  the same sessions and players, without locks, in turns with the world thread.
* A Lua error ends a handler where it stands.  Several handlers can raise one
  in the middle of their work, and the half of the work that was done stays.
* The player tables get holes, and `#t` of a table with holes is any border.
* Timed functions call back into the processor whose loop calls them, and
  references into a Lua state outlive the state when it is reloaded.
* A message may be cut by a reload of the client's interface; the client does
  not wait for answers, so its requests cross the server's messages.
* The waiting queue holds pointers to sessions that end in several ways.
* An offer in a trade is checked long after it was made.

Each of these is listed with its line under `hazards` in `PROJECT.json`.

## 2. Modules

| Module | Models | Kind |
|---|---|---|
| `LuaTable` | arrays in Lua tables: borders, insert, remove, holes | operators |
| `GameLifecycle` | what the service promises about the life of every game | abstract specification |
| `PlayerService` | what the service promises to one player | abstract specification |
| `HungerGames` | `Game.lua`, repop hook, presence; implements the two above | specification |
| `GameReload` | `HungerGames` with reloads of the Lua state | composition |
| `ElunaEvents` | `ElunaEventMgr.cpp` and the reload of `LuaEngine.cpp` | specification |
| `AddonMessages` | `Utility.lua` and the joining of links in `MainFrame.lua` | specification |
| `LobbyClient` | `MainFrame.lua` and `onReceiveAddonMsg`, over `PlayerService` | composition |
| `MapUpdater` | world loop, map threads, their queue | specification |
| `WorldSession` | the packets of the sessions, over `MapUpdater` | composition |
| `SessionQueue` | admission of sessions | specification |
| `Barter` | what a trade promises about property | abstract specification |
| `Trade` | `TradeData` and its handlers; implements `Barter` | specification |
| `..._proofs` | theorems about the module of that name | proofs |
| `MC...` | small instances for TLC | model values |

### HungerGames

`games[k]` is the record `{id, name, active, host, players, state, data}` of
the comment in `Game.lua:9`, with `state` 0 for nil and `data` reduced to what
`game[7]` holds: nothing, the locations, or the cages.  `players` is a Lua
array with holes.  `gameData[p]` is `p:GetData("GAME")`.  `pres`, `mapOf`,
`phase` and `arenaUp` are what the world server knows.

Each request is an action.  A refusal sends a message and changes nothing, so
it is a disabled action.  A tick of `updateAllGames` is split into `TickBegin`
and one step per game; `todo` holds the slots ahead, and every other action
needs `todo = {}`, so a tick is still one uninterrupted handler, in which
`pairs` may visit the games in any order.  The steps per game are the branches
of `handleActiveGame` (`SpawnCages`, `SpawnError`, `CountDown`) and of
`handleInactiveGame` (`Dissolve`, `Prune`, `Start`, `StartError`).  The two
error steps empty `todo`, because the error ends the tick.

Points where the model follows the code against first expectation:

* `leaveGame` clears the key that is the GUID (a string), which the player
  table does not have: the entry stays, and a player who left is carried to
  the arena with the others.
* The logout handler passes the GUID to `table.remove` as a position
  (`RemoveOnLogout`).  GUIDs of players are plain counters on 3.3.5, so on a
  fresh realm they can be valid positions; with larger ones the call raises an
  error, after GAME was cleared.  Properties that need GUIDs beyond the tables
  say so with `LargeGuids`.
* A far teleport removes the player from the world at once
  (`Player.cpp:2312`), so a player whom `Prune` calls into the lobby is not
  found by the rest of the loop or by `handleStartGame` in the same tick.
* `PerformIngameSpawn` returns nothing while map 800 does not exist, so the
  cage loop raises an error until the first player has arrived (`arenaUp`).
* The loops that should replace `-` in names compare `msg[i]`, which is nil
  for every string, and change nothing.

### GameReload

`OnWorldUpdate` closes the Lua state between two ticks and runs the scripts
again.  `Reload` empties the tables, resets `gameId` and leaves the players,
their phases and the spawned cages where they are; `Serve` is any other step.
`stray` collects games whose cages no table refers to any more, `abandoned`
the players left in the phase of a game.

### PlayerService and LobbyClient

`PlayerService` is the service as one player meets it: his `GAME`, whether he
is in the world, and whether some queue or started game has him on its roster.
`ServesEachPlayer` of `HungerGames` says that every step of the tables is one
of these steps for every player, which is proved.  That is what lets
`LobbyClient` put ONE client against `PlayerService` instead of against the
whole of `HungerGames`.

`up` and `down` are the requests and messages under way, in order: both go
over one connection and through the queue of one session.  A click takes
effect on the screen at once (`OpenGameLobby`) and sends a request.  The server
carries out the request at the head (`Dispatch`), refuses it without a word
the client acts upon (`Refuse`), drops it while the player is between two maps
(`Dropped`, which is `Drop` of `WorldSession`), or answers with a list.  A list
is written over what is shown, whatever menu is open, so a row may hold a
player's name when the list of games is open; and a click on the tenth row or a
later one takes a leading space for a part of the name (`MainFrame.lua:338`).
`Person` stands for any such text that is no game's name.
Links are not split here: that is `AddonMessages`.

`GAME` alone does not say that a player is in a game: when the queues that have
him on their rosters vanish while he is between two maps, `GetPlayerByGUID`
does not find him, and `GAME` keeps its old value.  `WaitingInGame` therefore
asks for a roster as well.  Two histories name what it cannot promise: `missed`
(the last create or join was refused or dropped) and `vanished` (the step
`Unseen` happened, and no game was entered since).  In both the server sends
nothing that would take the client out of the lobby it shows.

### ElunaEvents

A `LuaEvent` is an address of `heap`; `eventList` and `eventMap` are those of
each processor; `registry` tells which event owns a function reference.  The
due time is kept relative (`left`).  `Update` is a loop: `Update` starts it,
`DropAborted`, `ExecuteLast` and `ExecuteAgain` take one event, `Return` ends
the Lua call, `UpdateEnd` ends the loop.  Between `Execute...` and `Return` the
script may add, abort and clear events of any processor.  `ReloadEluna` follows
the global update, as in `OnWorldUpdate`.  `RemoveEventById` asks every
processor, because `GlobalMethods.h:1163` reads the flag from the id argument,
which is never false, although the documentation above it gives the default
as false.  The manager made by a reload does not know the processors of objects
that exist already (`processors`), so their events outlive the next
reload; `OnlyOrphansSurvive` says that nothing else does.  `ran`, `repeats` and
`state` are only recorded for the properties.

### AddonMessages

`channel` carries the links of one player in order.  A link that is not the
last one carries one character more than `splitLength`, so the client sees the
first character of the next link twice; `Doubled` says exactly what arrives.
`cut` records that a reload came between two links of a message.

### MapUpdater and WorldSession

`pc` is where the world thread is: in `UpdateSessions`, scheduling maps, in
`MapUpdater::wait`, in the delayed updates, in the scripts, or in one of the
stages of the shutdown.  `worker[w]` is the same for a map thread.  Each
critical section of a mutex is one step; a wait on a condition variable is a
state of its own from which a thread wakes when notified or for no reason
(`Spurious`).  A `MapInstanced` schedules its instances from the map thread
that updates it.  When the loop has ended the sessions are updated once more
before the maps are unloaded (`Stop`; `UnloadMaps` in `WorldSession`).

`WorldSession` adds what the threads do with sessions.  The world thread
updates all sessions, a map thread those of the players it finds on its map;
both run the packet loop, with the filter `Process` of their kind.  Packets
are known by their number and their kind: thread-safe (`move`), thread-unsafe
(`chat`), in place (`query`), and the ones for login, map change and character
list.  `place` is the map of the player, or none, loading, or between two maps.
`ScriptTeleport` is what `handleStartGame` does to a session.
`late` is history: the packets that arrived while the thread in
`WorldSession::Update` was putting others back.  Such a packet lands between
them, so once the login is done it may be handled before packets that were sent
earlier; `InOrder` says that no other packet is.

### SessionQueue

A session is a pointer; `session[p]` is the object there, and a pointer may be
used again once its object is deleted, which is what makes a pointer left in
the queue dangerous.  `UpdateSessions` visits the accounts one by one
(`visiting`).  `Served` is what one `WorldSession::Update` may make of the
character.  `difftime` in `HasRecentlyDisconnected` has its arguments
reversed, so the entries of the map never expire; the model follows.  `floor`
is history: the lowest limit since the queue was last empty.

### Trade

`trade[p]` is `m_trade`.  Every handler is an action; `HandleAcceptTradeOpcode`
is split by its outcome (`AcceptRefused`, `AcceptFirst`, `SpellFails`,
`NoSpace`, `Complete`), with its checks in the order of the code.
`AcceptFirst` also stands for the late refusal of an item that is not tradable
any more, which leaves the acceptance as it is.  An offered item that has left
the inventory meanwhile is simply not found by `GetItem`.  `seen` is history:
what was on the table when a player accepted.

`CanStoreItems` adds up the slots, but asks `CanTakeMoreSimilarItems` of each
item alone (`Player.cpp:11341`), and counts against the limit what the player
himself is about to give.  So two items of a kind of which only one more is
allowed pass, the first is stored by `moveItems`, and the second is refused
there.  The branch `TradeHandler.cpp:179-202` then returns the goods of that
pair of slots to their owners.  The return asks for a slot besides the one that
was found before, which is still in the vector; if both are there, `StoreItem`
puts a clone into the first (`copies`), and if only one is, the item is in no
inventory any more (`Lost`).  `MovePair` and `Store` follow this, pair by pair.
An item takes one slot and counts once: stacks, which merge and split, are left
out.  A player who has got a clone is not followed into his next trade.

`Barter` is what a trade promises to the player who accepted first: the deal he
saw, or none.  The coins he saw change hands exactly, and of the goods he saw
all those that are still where they were, in the same step.  That an item may
have been used up since, while the coins are paid all the same, is what the
code does: the acceptance stands and `GetItem` finds nothing.  Only if one of
the two may not have what he would get may goods of the deal, and nothing else,
stay, come back twice or be lost.

## 3. Runs

| Run | Instance | Shows |
|---|---|---|
| `two_games` | 2 players, 2 games that may have equal names, 1 location, countdown 2, fair ticks | `PhaseOfOwnGame`; the service implements `GameLifecycle` and, for each player, `PlayerService`; `HostlessQueueDissolves`, `CountdownCompletes` |
| `one_queue` | 3 players, 1 game that needs 3 entries | `HostFirst`, `SeenKeepPlace` |
| `reload` | 2 players, 2 games that need 1 entry, 1 location, 1 reload | `CagesKnown`, `PhaseSinceReload`, `NoLateEntry`, `LifeBetweenReloads` |
| `events` | global and one object's processor, 2 events, 2 references, 2 reloads, a positive delay, fair loop | `NoDangling`, `OneOwner`, `Cancellable`, `OwnFunction`, `CallsCounted`, `OnlyOrphansSurvive`, `UpdateEnds` |
| `links` | 2 packet ids, messages of 1 to 3 links, 3 messages, 2 reloads | `InStep`, `ShownAsSent` |
| `world_loop` | 2 map threads, a map with an instance, 1 session, 3 packets of 5 kinds, fair threads | `WorldAlone`, `NoNullRequest`, `AllUpdated`, `SessionExclusive`, `InOrder`, `PacketServed`, `LoopGoesOn`, `ShutdownEnds` |
| `admission` | 3 accounts, one of which skips the queue, 3 pointers, limits 1 and 2 | `QueueIsLive`, `WaitingDoNotPlay`, `NoIdlePlace`, `LimitKept`, `FirstComeFirstServed` |
| `trade` | 2 players with 2 and 3 places, 4 items, 2 of 3 of them at most, 2 traded slots and the other one | `Mutual`, `AcceptedAsSeen`, `LimitsKept`, and trades implement `Barter` |
| `lobby` | 1 client, 2 names of games and a player's name, 2 requests and 2 messages under way, messages arrive | `WaitingInGame`, `HiddenInGame`, `WaitingEnds` |
| `enough_players`, `host_offline`, `start_opens` | small instances of `HungerGames` | violations: what comments and messages of `Game.lua` say is not what it does |

Bounds.  `MaxGames` and `MaxEntries` bound the tables; creation and joining
stop there.  Two games are enough for equal names, numbers given out twice and
an error in one game hitting another; three entries are enough for a hole
between two players and a duplicate next to it.  `Countdown = 2` keeps one
second between the cages and their opening (30 in the code), `NumLocations = 1`
makes the eleventh player the second one; in `two_games` too, so that starts are
cut short and cage loops fail there, also once the arena exists.  In `reload` one entry starts a game, so that a
started game has room left for a late comer.  One reload is enough for a game of
the new state to meet a player in the phase of an old one.  `Events` and `Refs`
of size two let a running event meet another one and a recycled reference;
two reloads are needed because an event survives only the second one.  Two
map threads and one instance are enough for an instance that is scheduled
while its map's thread ends and the world thread waits.  `MaxPackets =
MaxProcessed = 3`: `InOrder` holds when one update can go round the whole
queue, which is 100 packets in the code; with a longer queue the limit ends the
rotation in the middle and the order may change.  A late packet that really
overtakes another needs a fourth packet, so the instance sees only ordered
packets; the theorem covers every number of them.  `query` packets, which both
threads take, are in the module and in the proofs, not in the instance.  Three
accounts and a limit of one or two give a queue of two whose first, last or
neither is replaced, dropped or released.  In `trade` two
traded slots let the first pair of items succeed and the second fail, and with
bags of two and three places both a full inventory and the return of an item
next to a clone occur.  That an item is lost needs at least five items, which
takes too long beside everything else; `Lost` is in the module and in the
proofs.  One item is used up at most (`FewUsedUp`), so that a deal meets one that
is gone next to others that are there.  `MaxFlight = 2` in `lobby` lets a request and a poll
behind it cross a RESET and a list.

Symmetry is used in `admission` (pointers) and `trade` (the
items, those with a limit among themselves), which check no liveness.  The GUIDs of `HungerGames` are numbers
the code computes with, so they are not symmetric.  The GUIDs of all instances
are beyond the tables; that `LifecycleSpec`, `CagesKnown` and `NoLateEntry` hold
for GUIDs that are valid positions too is what the theorems say.

Deadlock is not checked in `links`, whose messages are bounded, and in
`world_loop`, where the server is shut down.

Fairness.  `FairSpec` of `HungerGames` assumes that ticks come and finish: the
event has 0 repeats, and `ElunaEventProcessor::Update` schedules it again
before it calls the function, so an error does not stop it.  `LoadingSpec`
adds that a client finishes loading a map; it is used only for the violation
`start_opens`, to show that slow clients are not the reason.  `FairSpec` of
`ElunaEvents` says that a loop of the world thread goes on and that timed
functions return.  `FairSpec` of `WorldSession` says that each thread goes on
when it can, and that the timer of `MapManager::Update` passes again and
again, which needs strong fairness because most rounds of the loop skip the
maps.  No fairness is assumed of clients, of the shutdown or of spurious
wake-ups.  `FairLobby` assumes only that messages that were sent arrive.

`HostlessQueueDissolves` and `CountdownCompletes` have the hypothesis
`<>[]~Failing`.  A started game is `Failing` while its cage loop raises an error:
the arena map does not exist, its locations were never set, or it has more
present players than locations.  `pairs` may visit it first in every tick, and
then no other game is handled.  A failure may be over (the first player arrives in
the arena, a player leaves the world), and both properties are checked in an
instance in which failures begin and end in every order.  It may also last for
ever: `start_opens` shows a game that starts with more players than locations,
and when all players of a full queue are outside the lobby, one tick calls them
in and starts the game, so `handleStartGame` finds nobody to carry to the arena.

`WaitingEnds` starts when the client's last create or join has been carried out
and the server has the player in another game than the one shown, or in none.
From the lobby a client can only poll or leave, so what takes it out is the
RESET on its way or its user; a `missed` client is told nothing and may stay.

## 4. Proofs

All theorems hold for every value of the constants that satisfies the named
assumptions of the modules: numbers have their signs, the countdown is longer
than one second, `Nil` is none of the other values, threads and items are
finitely many, map names are not names of places between maps, and a message has
at most 99 links.

`HungerGames_proofs`: `TypeCorrect`, `CagesAlwaysKnown`, `LifecycleRefined`,
`NobodyEntersLate`, `SeenAreKept`, `HostStaysFirst`, `PhasesOfOwnGames`,
`EachPlayerServed`.
The inductive invariant is `IInv == TypeOK /\ TableInv(games, gameId)`.
`TableInv` says that numbers of live games are below `gameId` and pairwise
different, that a queue has state 0 and no cages, that an active game has a
state of at least 1, and that a state above 1 comes with the cages.
`CagesKnown` alone is not inductive: a queue could already be past state 1.
The refinement alone is not either: `Life` picks a slot by number, so numbers
must be unique.  The steps are first classified (`GamesStep`): a step leaves
`games` and `gameId` alone, adds one game, rewrites one game keeping its
number, or takes one queue away.  Invariant and refinement are then proved for
the four kinds instead of for seventeen actions.  The three theorems about
rosters rest on lemmas about `LuaTable`: what `table.remove` at any position,
an insertion at any border and the pruning keep of a table.  `EachPlayerServed`
is the refinement of `PlayerService`, once per player: a step writes at most one
slot of the games, so what a player sees of the rosters is what the other slots
hold (`Elsewhere`) and what that slot holds before and after.  After a pruning a
roster has exactly the players that were found (`KeptValues`), which is why a
player in the world never loses his place in silence.

`GameReload_proofs`: `CagesKnownReload`, `PhasesAfterReload`, `LifeReloaded`,
`NobodyEntersLateReload`.  A reload gives the tables of a server that has just
started (`ReloadedTables`); every other step is one of `HungerGames`, whose
step lemmas are used as they are.

`ElunaEvents_proofs`: `EventTypeCorrect`, `NeverDangling`, `AlwaysOneOwner`,
`CallsAreCounted`, `NoStaleEvents`, `AlwaysOwnFunction`, `AlwaysCancellable`.
The first invariant is `TypeOK /\ Switches /\ Owned /\ Mapped`.  `Owned` is the
ownership of `OneOwner`.  `Mapped` says that an entry of a map names an event
of the same processor's list whose id is the key; it is needed because the code
erases an entry by the id of the event it deletes, so an entry under another
key would survive its event.  The second, `JInv`, adds where orphans come from
(`Settled`, `Fresh`) and how calls are counted (`Tally`); with it,
`OnlyOrphansSurvive`, `OwnFunction` and `Cancellable` are preserved together
(`Familiar`): an id can only name the wrong event once an event of a closed
state has survived.

`WorldSession_proofs`: `WorldThreadAlone`, `NeverNullRequest`,
`EverythingUpdated`, `SessionsExclusive`, `PacketsInOrder`.  The key is `Counted`: `pending_requests` is the length of
the queue plus the number of threads that hold a request; so when `wait`
returns there is neither.  `NullIsCancel`, `TokenIsLast` and `TokenAtCancel`
order token, shutdown flag and null request.  For the sessions, a map is
requested at most once (`MapsOnce`), and a session in a map thread's hands is
on that thread's map until the thread itself sends it away (`OnItsMap`).
`EverythingUpdated` follows each map through one round: what is not updated yet
is still to be scheduled, pending, or an instance whose parent has still to
schedule it.  `PacketsInOrder` has an invariant of its own, `OInv`, which TLC
checked before (also with four packets and one thread): a queue that is not
being rotated is in the order of sending but for late packets; while it is
rotated it is in two parts, and the order is that of the first part, the packet
in hand, the second part (`Lined`).  The lemmas about `Lined` speak of a queue
and a few numbers only, one for each thing that can happen to a packet.  The
theorem has the hypothesis of `InOrder`, `MaxPackets <= MaxProcessed`.

`SessionQueue_proofs`: `TypesKept`, `QueueLive`, `NobodyPlaysEarly`,
`PlacesAreTaken`, `InTurnAlways`, `LimitAlwaysKept`.  The invariant follows every
pointer: a session that waits to be added is alive, known to nobody else and
waits once (`Fresh`); the session of an account is alive and that account's
(`Owner`); `m_inQueue` is set exactly for the queue (`Flagged`), whose members
are sessions of accounts and have no character (`Member`).  Without `Fresh` a
replaced session could come back through `addSessQueue`; without `Owner` a
pointer used again could be found under the account of the deleted one.
`PlacesAreTaken` adds that `floor` is at most the limit: `RemoveQueuedPlayer`
lets in one session at most, so a limit that was raised is not filled at once,
and the lowest limit since the queue was last empty is what can be promised.

`AddonMessages_proofs`: `StaysInStep`, `ShownAsItWasSent`.  The invariant is
`Types /\ Chain /\ Client`: the links under way are whole messages one after the
other but for the first, part of which the client may have already; and on a
packet no reload has cut the client holds exactly that part.  That the joined
links are the message with its doubled characters (`Doubled`) is shown for
messages of any length up to 99 links.

`Trade_proofs`: `AlwaysMutual`, `AlwaysAcceptedAsSeen`, `TradeTypeCorrect`,
`CoinsConserved`, `AlwaysLimitsKept`, `TradeIsBarter`.  `AcceptedAsSeen` needs
`Forgotten`: nothing is remembered of an acceptance that was taken back.
`CoinsConserved` needs the checks of the accept handler, because `ModifyMoney`
cuts off at both ends without an error (`PaidExactly`).  The invariant for the
goods is `ItemsInv`: an item is on one slot of one player only, limits are kept,
and nobody has a clone while he trades.  `moveItems` is proved in two ways.
Whatever the limits, it never takes an inventory above one and touches only
what was put up (`StoreSane`, `MovedSane`).  If the limits allow the whole
deal, every check made in it succeeds, because the slots were added up before
(`HasRoom`), and it IS the exchange (`Exchanged`).  That the deal carried out is
the one the player who accepted first saw, and not just the one on the table,
is `DealStands`: his acceptance has not been taken back, so by `AcceptedAsSeen`
the two are the same.

`LobbyClient_proofs`: `LobbyTypeCorrect`, `WaitsInGame`, `HiddenForPlayers`, for
any number of requests and messages under way.  `WaitingInGame` speaks of quiet
moments only.  The invariant in between, `Waits`, is: a RESET is under way, or
the last request that is not a poll asks for the game shown, or only polls are
under way and the server agrees with the client.  `Rostered` adds that a player
with a `GAME` is on a roster unless the queues vanished unseen.

Two definitions are recursive functions, the joining of links and
`moveItems`.  The induction theorems of the library take a predicate as
parameter, which the provers cannot instantiate; what these functions compute is
shown by the least number at which it would be wrong, a set of numbers instead
of a predicate.

Every safety property of a passing run is stated by a theorem.  Only
model-checked is liveness (`HostlessQueueDissolves`, `CountdownCompletes`,
`UpdateEnds`, `PacketServed`, `LoopGoesOn`, `ShutdownEnds`, `WaitingEnds`), which
rests on fairness and is out of the prover's reach.  The three violations are
counterexamples found by TLC.

## 5. Not modelled

* Client perks (`LoadOut.lua`, `SelectTalents`): drag and drop and one query to
  the database; sequential, and nothing else reads their state.
* Of the client's lobby: passwords (which become part of the name of a game),
  ranked games, layout and music.
* Of the game service: the text of the lists, combat music, kill messages, the
  shuffle of the locations (a permutation) and the coordinates.
* Phase masks as sets of bits: `phase` is compared as a number.  Games 1 and 3
  see each other, and game 1 shares the default phase; nothing in the
  repository says otherwise.
* More than 99 links in a message: two digits do not hold the number.
* The store behind `GetData` and `SetData`, of which the scripts use one key,
  and the dispatch of hooks, one Lua call each.
* Of the world loop: a server without map threads, the unloading of instances
  (`MapInstanced.cpp:57-62`), and all that a map does besides the sessions of its
  players.
* Of the sessions: Warden, query callbacks other than the login's, and the
  kicks: `KickAll` at the shutdown, which logs every player out in the last
  round of updates, and the kick of a second login.  The end of a session is,
  for the others, a client that sends nothing any more.
* Of trade: stacks and the counts of `CanStoreItem` that come with them,
  enchantments, the database transaction, and the refusals that only depend on
  where and how the players are.
* The rest of the world server core (spells, combat, creatures, loot, database,
  protocol), third-party code this realm uses with small patches; the
  deprecated core, which is no longer built; data and assets.

## 6. Plan

1. Proofs: `PlayerService` between two reloads, from `EachPlayerServed`; the
   safety half of the liveness properties, that a tick and an update make
   progress in every step (a measure that only goes down).
2. `SessionQueue` composed with `WorldSession`: a session that is replaced
   while its player is between two maps.
3. Passwords in `LobbyClient`; stacks in `Trade`.
