------------------------------ MODULE MapUpdater ------------------------------
(***************************************************************************)
(* The main loop of the world server and its pool of map threads:          *)
(* World::Update and the shutdown in Main.cpp, MapManager::Update,         *)
(* MapInstanced::Update, MapUpdater and its ProducerConsumerQueue.         *)
(*                                                                         *)
(* Each critical section of a mutex is one step.  A thread in a condition  *)
(* variable sleeps until it is notified, or wakes by itself; either way it *)
(* tests its condition again.                                              *)
(***************************************************************************)
EXTENDS Integers, FiniteSets, Sequences

CONSTANTS
    Nil,
    Workers,    \* map threads, MapUpdate.Threads of them, 1 by default
    BaseMaps,   \* maps of MapManager
    Instances,  \* instances kept by a MapInstanced, one of the base maps
    Parent      \* Parent[i]: the map that keeps instance i

AllMaps == BaseMaps \cup Instances

ASSUME MapsAssumption ==
    /\ IsFiniteSet(Workers) /\ Workers # {}
    /\ BaseMaps \cap Instances = {}
    /\ Parent \in [Instances -> BaseMaps]
    /\ Nil \notin AllMaps

VARIABLES
    pc,                 \* what the world thread is doing
    unscheduled,        \* maps MapManager::Update has still to schedule
    pending_requests,
    queue,              \* _queue of the ProducerConsumerQueue
    shutdown,          \* its shutdown flag
    cancelationToken,
    worker,             \* what each map thread is doing
    request,            \* the map each map thread holds a request for
    instances,          \* instances its MapInstanced has still to schedule
    updated             \* maps updated since MapManager::Update began

updaterVars == <<pc, unscheduled, pending_requests, queue, shutdown,
                 cancelationToken, worker, request, instances, updated>>

\* sessions, script: UpdateSessions and OnWorldUpdate.  schedule, wait, asleep,
\* delayed: MapManager::Update.  The others: UnloadAll and deactivate.
WorldStates == {"sessions", "schedule", "wait", "asleep", "delayed", "script",
                "unload", "lastWait", "lastSleep", "cancel", "notify", "join",
                "stopped"}

WorkerStates == {"pop", "asleep", "popped", "update", "instances", "exit"}

\* Threads that hold a request: from pop to update_finished.
Busy == {w \in Workers : worker[w] \in {"popped", "update", "instances"}
                         /\ request[w] # Nil}

InitUpdater ==
    /\ pc = "sessions"
    /\ unscheduled = {}
    /\ pending_requests = 0
    /\ queue = <<>>
    /\ shutdown = FALSE
    /\ cancelationToken = FALSE
    /\ worker = [w \in Workers |-> "pop"]
    /\ request = [w \in Workers |-> Nil]
    /\ instances = [w \in Workers |-> {}]
    /\ updated = {}

------------------------------------------------------------------------------
\* The world thread

\* The rest of UpdateSessions is in the modules that extend this one.
SessionsDone ==
    /\ pc = "sessions"
    /\ \/ pc' = "schedule" /\ unscheduled' = BaseMaps /\ updated' = {}
       \/ pc' = "script" /\ UNCHANGED <<unscheduled, updated>>   \* timer
    /\ UNCHANGED <<pending_requests, queue, shutdown, cancelationToken,
                   worker, request, instances>>

\* notify_one: any one of the sleeping threads wakes up.
NotifyOne(W, wk) ==
    \/ {w \in W : wk[w] = "asleep"} = {} /\ worker' = wk
    \/ \E w \in W : /\ wk[w] = "asleep"
                    /\ worker' = [wk EXCEPT ![w] = "pop"]

schedule_update(m, wk) ==
    /\ pending_requests' = pending_requests + 1
    /\ queue' = Append(queue, m)
    /\ NotifyOne(Workers, wk)

ScheduleMap(m) ==
    /\ pc = "schedule" /\ m \in unscheduled
    /\ schedule_update(m, worker)
    /\ unscheduled' = unscheduled \ {m}
    /\ UNCHANGED <<pc, shutdown, cancelationToken, request, instances,
                   updated>>

AllScheduled ==
    /\ pc = "schedule" /\ unscheduled = {}
    /\ pc' = "wait"
    /\ UNCHANGED <<unscheduled, pending_requests, queue, shutdown,
                   cancelationToken, worker, request, instances, updated>>

\* MapUpdater::wait, from MapManager::Update and from deactivate.
wait(at, sleep, next) ==
    /\ pc = at
    /\ pc' = IF pending_requests > 0 THEN sleep ELSE next
    /\ UNCHANGED <<unscheduled, pending_requests, queue, shutdown,
                   cancelationToken, worker, request, instances, updated>>

\* DelayedUpdate of every map; then the rest of World::Update and the scripts.
WorldSteps(from, to) ==
    /\ pc = from
    /\ pc' = to
    /\ UNCHANGED <<unscheduled, pending_requests, queue, shutdown,
                   cancelationToken, worker, request, instances, updated>>

\* MapManager::UnloadAll deletes the maps, then deactivate sets the token.
\* Mutant: without the token.
UnloadAll_noToken ==
    /\ pc = "unload"
    /\ pc' = "lastWait"
    /\ UNCHANGED <<unscheduled, pending_requests, queue, shutdown,
                   cancelationToken, worker, request, instances, updated>>

UnloadAll ==
    /\ pc = "unload"
    /\ pc' = "lastWait"
    /\ cancelationToken' = TRUE
    /\ UNCHANGED <<unscheduled, pending_requests, queue, shutdown, worker,
                   request, instances, updated>>

\* ProducerConsumerQueue::Cancel: under the lock, then without it.
Cancel ==
    /\ pc = "cancel"
    /\ pc' = "notify"
    /\ queue' = <<>>
    /\ shutdown' = TRUE
    /\ UNCHANGED <<unscheduled, pending_requests, cancelationToken, worker,
                   request, instances, updated>>

\* Mutant: notify_one.
CancelNotify_one ==
    /\ pc = "notify"
    /\ pc' = "join"
    /\ NotifyOne(Workers, worker)
    /\ UNCHANGED <<unscheduled, pending_requests, queue, shutdown,
                   cancelationToken, request, instances, updated>>

CancelNotify ==
    /\ pc = "notify"
    /\ pc' = "join"
    /\ worker' = [w \in Workers |->
                    IF worker[w] = "asleep" THEN "pop" ELSE worker[w]]
    /\ UNCHANGED <<unscheduled, pending_requests, queue, shutdown,
                   cancelationToken, request, instances, updated>>

Join ==
    /\ \A w \in Workers : worker[w] = "exit"
    /\ WorldSteps("join", "stopped")

WorldThread ==
    \/ \E m \in BaseMaps : ScheduleMap(m)
    \/ AllScheduled
    \/ wait("wait", "asleep", "delayed")
    \/ WorldSteps("delayed", "script")
    \/ WorldSteps("script", "sessions")
    \/ UnloadAll
    \/ wait("lastWait", "lastSleep", "cancel")
    \/ Cancel
    \/ CancelNotify
    \/ Join

\* World::IsStopped: the loop is left after the update, and the sessions, all
\* of them kicked, are updated once more before the maps are unloaded.
Stop == WorldSteps("sessions", "unload")

------------------------------------------------------------------------------
\* A map thread

WaitAndPop(w) ==
    /\ worker[w] = "pop"
    /\ IF queue = <<>> /\ ~shutdown
       THEN /\ worker' = [worker EXCEPT ![w] = "asleep"]
            /\ UNCHANGED <<request, queue>>
       ELSE /\ worker' = [worker EXCEPT ![w] = "popped"]
            /\ request' = [request EXCEPT ![w] =
                             IF queue = <<>> \/ shutdown THEN Nil
                             ELSE Head(queue)]
            /\ queue' = IF queue = <<>> \/ shutdown THEN queue ELSE Tail(queue)
    /\ UNCHANGED <<pc, unscheduled, pending_requests, shutdown,
                   cancelationToken, instances, updated>>

TestToken(w) ==
    /\ worker[w] = "popped"
    /\ worker' = [worker EXCEPT ![w] =
                    IF cancelationToken THEN "exit" ELSE "update"]
    /\ UNCHANGED <<pc, unscheduled, pending_requests, queue, shutdown,
                   cancelationToken, request, instances, updated>>

\* Map::Update has come to its end; a MapInstanced goes on with its instances.
MapUpdated(w) ==
    /\ worker[w] = "update"
    /\ worker' = [worker EXCEPT ![w] = "instances"]
    /\ instances' = [instances EXCEPT ![w] =
                       {i \in Instances : Parent[i] = request[w]}]
    /\ updated' = updated \cup {request[w]}
    /\ UNCHANGED <<pc, unscheduled, pending_requests, queue, shutdown,
                   cancelationToken, request>>

ScheduleInstance(w, i) ==
    /\ worker[w] = "instances" /\ i \in instances[w]
    /\ schedule_update(i, worker)
    /\ instances' = [instances EXCEPT ![w] = @ \ {i}]
    /\ UNCHANGED <<pc, unscheduled, shutdown, cancelationToken, request,
                   updated>>

\* Mutant: `if' instead of `while' around the wait.
Notified_if ==
    IF pc = "asleep" THEN "delayed" ELSE IF pc = "lastSleep" THEN "cancel" ELSE pc

\* notify_all of _condition: the world thread is the only one to wait there.
Notified ==
    IF pc = "asleep" THEN "wait" ELSE IF pc = "lastSleep" THEN "lastWait" ELSE pc

\* Mutant: update_finished before the instances are scheduled.
update_finished_early(w) ==
    /\ worker[w] = "instances"
    /\ pending_requests' = pending_requests - 1
    /\ pc' = Notified
    /\ worker' = [worker EXCEPT ![w] = "pop"]
    /\ request' = [request EXCEPT ![w] = Nil]
    /\ UNCHANGED <<unscheduled, queue, shutdown, cancelationToken, instances,
                   updated>>

\* Mutant: nobody is notified.
update_finished_silent(w) ==
    /\ worker[w] = "instances" /\ instances[w] = {}
    /\ pending_requests' = pending_requests - 1
    /\ worker' = [worker EXCEPT ![w] = "pop"]
    /\ request' = [request EXCEPT ![w] = Nil]
    /\ UNCHANGED <<pc, unscheduled, queue, shutdown, cancelationToken, instances,
                   updated>>

update_finished(w) ==
    /\ worker[w] = "instances" /\ instances[w] = {}
    /\ pending_requests' = pending_requests - 1
    /\ pc' = Notified
    /\ worker' = [worker EXCEPT ![w] = "pop"]
    /\ request' = [request EXCEPT ![w] = Nil]
    /\ UNCHANGED <<unscheduled, queue, shutdown, cancelationToken, instances,
                   updated>>

WorkerThread(w) ==
    \/ WaitAndPop(w) \/ TestToken(w)
    \/ \E i \in Instances : ScheduleInstance(w, i)
    \/ update_finished(w)

\* A condition variable may wake its thread for no reason.
Spurious ==
    /\ \/ /\ Notified # pc /\ pc' = Notified
          /\ UNCHANGED worker
       \/ \E w \in Workers : /\ worker[w] = "asleep"
                             /\ worker' = [worker EXCEPT ![w] = "pop"]
                             /\ UNCHANGED pc
    /\ UNCHANGED <<unscheduled, pending_requests, queue, shutdown,
                   cancelationToken, request, instances, updated>>

NextUpdater ==
    \/ SessionsDone \/ WorldThread \/ Stop \/ Spurious
    \/ \E w \in Workers : WorkerThread(w) \/ MapUpdated(w)

------------------------------------------------------------------------------
\* Every variable has its type; pending_requests, a size_t, never goes below 0.
TypeOKUpdater ==
    /\ pc \in WorldStates
    /\ unscheduled \subseteq BaseMaps
    /\ pending_requests \in Nat
    /\ queue \in Seq(AllMaps)
    /\ shutdown \in BOOLEAN /\ cancelationToken \in BOOLEAN
    /\ worker \in [Workers -> WorkerStates]
    /\ request \in [Workers -> AllMaps \cup {Nil}]
    /\ instances \in [Workers -> SUBSET Instances]
    /\ updated \subseteq AllMaps

\* The world thread has the world for itself outside the map update: while it
\* serves sessions, runs DelayedUpdate and the Lua world update, or deletes
\* the maps, no map thread holds a map and none is about to get one.
WorldAlone ==
    pc \notin {"schedule", "wait", "asleep"} => Busy = {} /\ queue = <<>>

\* Cancel wakes the threads with no request at all: the token, set before,
\* keeps every one of them from calling a null request.
NoNullRequest ==
    \A w \in Workers : worker[w] \in {"update", "instances"} => request[w] # Nil

\* MapUpdater::wait waits for everything: after it each map, the instances
\* scheduled by map threads included, has been updated.
AllUpdated == pc = "delayed" => updated = AllMaps
=============================================================================
