----------------------------- MODULE WorldSession -----------------------------
(***************************************************************************)
(* The packets of the clients: queued by the network thread, taken in      *)
(* turns by the world thread (World::UpdateSessions) and by the thread     *)
(* that updates the player's map (Map::Update), both running the same      *)
(* WorldSession::Update with a filter of their own.                        *)
(*                                                                         *)
(* Kinds of packets, by status and processing in Opcodes.cpp: move (logged *)
(* in, thread-safe), chat (logged in, thread-unsafe: the requests of the   *)
(* lobby, trade and repop are of this kind), query (logged in, in place),  *)
(* ack (transfer, unsafe), login and enum (authed, unsafe).                *)
(***************************************************************************)
EXTENDS MapUpdater

CONSTANTS
    Sessions,
    World,          \* the world thread
    Kinds,          \* kinds of packets the clients send
    MaxProcessed,   \* packets of one Update call, 100 in the code
    MaxPackets      \* bound: packets a client sends

Threads == Workers \cup {World}

InGame == {"move", "chat", "query"}     \* STATUS_LOGGEDIN

ASSUME SessionsAssumption ==
    /\ World \notin Workers /\ Nil \notin Sessions
    /\ Kinds \subseteq InGame \cup {"ack", "login", "enum"}
    /\ {"none", "loading", "transfer"} \cap AllMaps = {}
    /\ MaxProcessed \in Nat /\ MaxPackets \in Nat

Packet == [n : 1..MaxPackets, kind : Kinds]

VARIABLES
    recvQueue,  \* _recvQueue of each session
    sent,       \* packets the client has sent so far
    place,      \* no player, loading, between two maps, or the player's map
    recent,     \* m_playerRecentlyLogout
    cur,        \* the session each thread is updating
    visited,    \* the sessions it has updated in this round
    held,       \* the packet it has taken from the queue
    delayed,    \* firstDelayedPacket
    processed,  \* processedPackets
    last,       \* last in-game packet that was handled
    late        \* history: packets that came while others were being put back

sessionVars == <<recvQueue, sent, place, recent, cur, visited, held, delayed,
                 processed, last, late>>
vars == <<updaterVars, sessionVars>>

InWorld(s) == place[s] \in AllMaps
NoPlayer(s) == place[s] \in {"none", "loading"}

Init ==
    /\ InitUpdater
    /\ recvQueue = [s \in Sessions |-> <<>>]
    /\ sent = [s \in Sessions |-> 0]
    /\ place = [s \in Sessions |-> "none"]
    /\ recent = [s \in Sessions |-> FALSE]
    /\ cur = [t \in Threads |-> Nil]
    /\ visited = [t \in Threads |-> {}]
    /\ held = [t \in Threads |-> Nil]
    /\ delayed = [t \in Threads |-> 0]
    /\ processed = [t \in Threads |-> 0]
    /\ last = [s \in Sessions |-> 0]
    /\ late = [s \in Sessions |-> {}]

------------------------------------------------------------------------------
\* The network thread

QueuePacket(s, k) ==
    /\ sent[s] < MaxPackets
    /\ sent' = [sent EXCEPT ![s] = @ + 1]
    /\ recvQueue' = [recvQueue EXCEPT ![s] =
                       Append(@, [n |-> sent[s] + 1, kind |-> k])]
    /\ late' = [late EXCEPT ![s] =
                  IF \E t \in Threads : cur[t] = s /\ delayed[t] # 0
                  THEN @ \cup {sent[s] + 1} ELSE @]
    /\ UNCHANGED <<updaterVars, place, recent, cur, visited, held, delayed,
                   processed, last>>

------------------------------------------------------------------------------
\* WorldSession::Update on thread t

\* Sessions the thread has to update: the world thread all of them, a map
\* thread those of the players it finds on its map.
\* Mutant: the world thread goes on with the sessions while the maps update.
Due_always(t) ==
    IF t = World THEN Sessions \ visited[t]
    ELSE IF worker[t] = "update"
    THEN {s \in Sessions \ visited[t] : place[s] = request[t]} ELSE {}

Due(t) ==
    IF t = World THEN IF pc = "sessions" THEN Sessions \ visited[t] ELSE {}
    ELSE IF worker[t] = "update"
    THEN {s \in Sessions \ visited[t] : place[s] = request[t]} ELSE {}

UpdateSession(t, s) ==
    /\ cur[t] = Nil /\ s \in Due(t)
    /\ cur' = [cur EXCEPT ![t] = s]
    /\ visited' = [visited EXCEPT ![t] = @ \cup {s}]
    /\ UNCHANGED <<updaterVars, recvQueue, sent, place, recent, held, delayed,
                   processed, last, late>>

\* Mutant: MapSessionFilter takes the in-place packets only.
Process_inPlace(t, s, k) ==
    CASE k = "query" -> TRUE
      [] k = "move"  -> t = World /\ ~InWorld(s)
      [] OTHER       -> t = World

\* WorldSessionFilter::Process and MapSessionFilter::Process.
Process(t, s, k) ==
    CASE k = "query" -> TRUE
      [] k = "move"  -> InWorld(s) = (t # World)
      [] OTHER       -> t = World

\* Mutant: the loop does not stop at the first packet it put back.
Takes_endless(t) ==
    LET s == cur[t] IN
    /\ recvQueue[s] # <<>>
    /\ processed[t] <= MaxProcessed
    /\ Process(t, s, Head(recvQueue[s]).kind)

\* The condition of the loop over the packets.
Takes(t) ==
    LET s == cur[t] IN
    /\ recvQueue[s] # <<>> /\ Head(recvQueue[s]).n # delayed[t]
    /\ processed[t] <= MaxProcessed
    /\ Process(t, s, Head(recvQueue[s]).kind)

TakePacket(t) ==
    /\ cur[t] # Nil /\ held[t] = Nil /\ Takes(t)
    /\ held' = [held EXCEPT ![t] = Head(recvQueue[cur[t]])]
    /\ recvQueue' = [recvQueue EXCEPT ![cur[t]] = Tail(@)]
    /\ processed' = [processed EXCEPT ![t] = @ + 1]
    /\ UNCHANGED <<updaterVars, sent, place, recent, cur, visited, delayed,
                   last, late>>

HoldsKind(t, kinds) ==
    /\ held[t] # Nil /\ held[t].kind \in kinds
    /\ held' = [held EXCEPT ![t] = Nil]
    /\ UNCHANGED <<updaterVars, sent, cur, visited, processed, late>>

\* An in-game packet before the login is done: back to the end of the queue.
Requeue(t) ==
    LET s == cur[t] IN
    /\ HoldsKind(t, InGame) /\ NoPlayer(s) /\ ~recent[s]
    /\ recvQueue' = [recvQueue EXCEPT ![s] = Append(@, held[t])]
    /\ delayed' = [delayed EXCEPT ![t] = IF @ = 0 THEN held[t].n ELSE @]
    /\ UNCHANGED <<place, recent, last>>

\* A packet out of its time is dropped.  (A second login also has the client
\* kicked; the end of a session, here, is that its client sends no more.)
Drop(t) ==
    LET s == cur[t] IN
    /\ \/ HoldsKind(t, InGame) /\ NoPlayer(s) /\ recent[s]
       \/ HoldsKind(t, InGame) /\ place[s] = "transfer"
       \/ HoldsKind(t, {"ack"}) /\ place[s] # "transfer"
       \/ HoldsKind(t, {"login"}) /\ place[s] # "none"
    /\ UNCHANGED <<recvQueue, place, recent, delayed, last>>

\* The handler of an in-game packet, which may send the player to another map.
HandleInGame(t) ==
    LET s == cur[t] IN
    /\ HoldsKind(t, InGame) /\ InWorld(s)
    /\ last' = [last EXCEPT ![s] = held[t].n]
    /\ \E p \in {place[s], "transfer"} : place' = [place EXCEPT ![s] = p]
    /\ UNCHANGED <<recvQueue, recent, delayed>>

HandleMoveWorldportAck(t) ==
    LET s == cur[t] IN
    /\ HoldsKind(t, {"ack"}) /\ place[s] = "transfer"
    /\ \E m \in AllMaps : place' = [place EXCEPT ![s] = m]
    /\ UNCHANGED <<recvQueue, recent, delayed, last>>

HandlePlayerLogin(t) ==
    LET s == cur[t] IN
    /\ HoldsKind(t, {"login"}) /\ place[s] = "none"
    /\ place' = [place EXCEPT ![s] = "loading"]
    /\ UNCHANGED <<recvQueue, recent, delayed, last>>

HandleCharEnum(t) ==
    /\ HoldsKind(t, {"enum"})
    /\ recent' = [recent EXCEPT ![cur[t]] = FALSE]
    /\ UNCHANGED <<recvQueue, place, delayed, last>>

\* After the loop: a finished login query brings the player into the world;
\* the world thread, and only it, logs players out.
EndUpdate(t) ==
    LET s == cur[t] IN
    /\ cur[t] # Nil /\ held[t] = Nil /\ ~Takes(t)
    /\ cur' = [cur EXCEPT ![t] = Nil]
    /\ delayed' = [delayed EXCEPT ![t] = 0]
    /\ processed' = [processed EXCEPT ![t] = 0]
    /\ \/ UNCHANGED <<place, recent>>
       \/ /\ place[s] = "loading"
          /\ \E m \in AllMaps : place' = [place EXCEPT ![s] = m]
          /\ UNCHANGED recent
       \/ /\ t = World /\ ~NoPlayer(s)
          /\ place' = [place EXCEPT ![s] = "none"]
          /\ recent' = [recent EXCEPT ![s] = TRUE]
    /\ UNCHANGED <<updaterVars, recvQueue, sent, visited, held, last, late>>

Serve(t) ==
    \/ \E s \in Sessions : UpdateSession(t, s)
    \/ TakePacket(t)
    \/ Requeue(t) \/ Drop(t) \/ HandleInGame(t) \/ HandleMoveWorldportAck(t)
    \/ HandlePlayerLogin(t) \/ HandleCharEnum(t)
    \/ EndUpdate(t)

------------------------------------------------------------------------------
\* Both loops over the sessions end when every session due was updated.
RoundDone(t) ==
    /\ cur[t] = Nil /\ Due(t) = {}
    /\ visited' = [visited EXCEPT ![t] = {}]
    /\ UNCHANGED <<recvQueue, sent, place, recent, cur, held, delayed,
                   processed, last, late>>

\* A script of the world update moves a player (handleStartGame, for one).
ScriptTeleport(s) ==
    /\ pc = "script" /\ InWorld(s)
    /\ place' = [place EXCEPT ![s] = "transfer"]
    /\ UNCHANGED <<updaterVars, recvQueue, sent, recent, cur, visited, held,
                   delayed, processed, last, late>>

UpdateMaps == SessionsDone /\ RoundDone(World)

UnloadMaps == Stop /\ RoundDone(World)

MapThread(w) ==
    \/ MapUpdated(w) /\ RoundDone(w)
    \/ WorkerThread(w) /\ UNCHANGED sessionVars

Next ==
    \/ \E s \in Sessions, k \in Kinds : QueuePacket(s, k)
    \/ \E t \in Threads : Serve(t)
    \/ \E s \in Sessions : ScriptTeleport(s)
    \/ UpdateMaps \/ UnloadMaps
    \/ \E w \in Workers : MapThread(w)
    \/ (WorldThread \/ Spurious) /\ UNCHANGED sessionVars

Spec == Init /\ [][Next]_vars

\* Every thread goes on when it can, and the 10 ms timer of MapManager passes
\* again and again.
FairSpec ==
    /\ Spec
    /\ WF_vars(WorldThread /\ UNCHANGED sessionVars)
    /\ WF_vars(UpdateMaps) /\ SF_vars(UpdateMaps /\ pc' = "schedule")
    /\ \A t \in Threads : WF_vars(Serve(t))
    /\ \A w \in Workers : WF_vars(MapThread(w))

------------------------------------------------------------------------------
\* Every variable has its type; one Update call takes MaxProcessed + 1 packets
\* at most.
TypeOK ==
    /\ TypeOKUpdater
    /\ recvQueue \in [Sessions -> Seq(Packet)]
    /\ sent \in [Sessions -> 0..MaxPackets]
    /\ place \in [Sessions -> {"none", "loading", "transfer"} \cup AllMaps]
    /\ recent \in [Sessions -> BOOLEAN]
    /\ cur \in [Threads -> Sessions \cup {Nil}]
    /\ visited \in [Threads -> SUBSET Sessions]
    /\ held \in [Threads -> Packet \cup {Nil}]
    /\ delayed \in [Threads -> 0..MaxPackets]
    /\ processed \in [Threads -> 0..(MaxProcessed + 1)]
    /\ last \in [Sessions -> 0..MaxPackets]
    /\ late \in [Sessions -> SUBSET (1..MaxPackets)]

\* No session is in the hands of two threads: neither the world thread and a
\* map thread, nor the threads of two maps, ever run WorldSession::Update on
\* the same session, which takes no lock.
SessionExclusive ==
    \A t, u \in Threads : cur[t] # Nil /\ cur[t] = cur[u] => t = u

\* A client's in-game packets are handled in the order it sent them, although
\* two threads take them, each leaves some to the other, and those that come
\* before the login is done go round the queue.  The one packet that may come
\* before an earlier one is a packet that arrived while others were being put
\* back: it lands between them.  (One Update must get round the queue; the
\* code stops after 100 packets.)
InOrder ==
    [][MaxPackets <= MaxProcessed =>
         \A s \in Sessions : last'[s] >= last[s] \/ last[s] \in late[s]]_vars

Stopping == pc \in {"unload", "lastWait", "lastSleep", "cancel", "notify",
                    "join", "stopped"}

\* No packet starves: as long as the player is in the world, the two filters
\* between them empty the queue again and again (the client sends MaxPackets).
PacketServed ==
    \A s \in Sessions :
        []<>(recvQueue[s] = <<>> \/ ~InWorld(s) \/ Stopping)

\* The world loop never hangs: neither in the sessions, where packets are put
\* back into the queue that is being emptied, nor in MapUpdater::wait; it gets
\* to the scripts of the world update, or to the shutdown.
LoopGoesOn == pc = "sessions" ~> pc \in {"script", "unload"}

\* deactivate and join end, with every map thread gone: no wake-up is lost.
ShutdownEnds == (pc = "unload") ~> (pc = "stopped")
=============================================================================
