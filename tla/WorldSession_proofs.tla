-------------------------- MODULE WorldSession_proofs --------------------------
(***************************************************************************)
(* Proofs about the world loop for any number of map threads, maps,        *)
(* instances, sessions and packets.                                        *)
(***************************************************************************)
EXTENDS WorldSession, FiniteSetTheorems, TLAPS

------------------------------------------------------------------------------
\* pending_requests counts the requests in the queue and those of the threads.
Counted == pending_requests = Len(queue) + Cardinality(Busy)

\* Only Cancel hands out a null request, and the token is set by then.
NullIsCancel ==
    /\ \A w \in Workers : worker[w] = "popped" /\ request[w] = Nil => shutdown
    /\ shutdown => cancelationToken

\* The token is set when the loop has ended.
TokenIsLast == cancelationToken =>
    pc \in {"lastWait", "lastSleep", "cancel", "notify", "join", "stopped"}

\* When the threads are woken for good it is set.
TokenAtCancel == pc \in {"lastWait", "lastSleep", "cancel"} => cancelationToken

\* Outside the map update there is no request left.
NonePending ==
    pc \notin {"schedule", "wait", "asleep"} => pending_requests = 0

IInv == /\ TypeOKUpdater /\ Counted /\ NoNullRequest /\ NullIsCancel
        /\ TokenIsLast /\ TokenAtCancel /\ NonePending

------------------------------------------------------------------------------
\* The threads that hold a request are finitely many.
LEMMA BusyFinite ==
    IsFiniteSet(Busy) /\ Cardinality(Busy) \in Nat
  <1>1. Busy \subseteq Workers
    BY DEF Busy
  <1>2. IsFiniteSet(Busy)
    BY <1>1, MapsAssumption, FS_Subset
  <1> QED BY <1>2, FS_CardinalityType

\* Without pending requests the queue is empty and no thread holds one.
LEMMA NothingPending ==
    ASSUME IInv, pending_requests = 0
    PROVE  Busy = {} /\ queue = <<>>
  <1>1. Len(queue) = 0 /\ Cardinality(Busy) = 0
    <2>1. Len(queue) \in Nat
      BY DEF IInv, TypeOKUpdater
    <2> QED BY <2>1, BusyFinite DEF IInv, Counted
  <1> QED BY <1>1, BusyFinite, FS_EmptySet DEF IInv, TypeOKUpdater

\* A thread that has popped a null request, updates a map, or neither.
LEMMA BusyIs ==
    ASSUME IInv, NEW w \in Workers
    PROVE  /\ worker[w] \in {"update", "instances"} => w \in Busy
           /\ w \in Busy => worker[w] \in {"popped", "update", "instances"}
  BY DEF IInv, NoNullRequest, Busy

\* The initial state.
LEMMA IInvInit == InitUpdater => IInv
  <1> SUFFICES ASSUME InitUpdater PROVE IInv
    OBVIOUS
  <1>1. Busy = {}
    BY DEF InitUpdater, Busy
  <1>2. Counted
    BY <1>1, FS_EmptySet DEF Counted, InitUpdater
  <1>3. TypeOKUpdater
    <2>1. pc \in WorldStates /\ unscheduled \subseteq BaseMaps
          /\ pending_requests \in Nat /\ updated \subseteq AllMaps
      BY DEF InitUpdater, WorldStates
    <2>2. queue \in Seq(AllMaps)
      BY DEF InitUpdater
    <2>3. shutdown \in BOOLEAN /\ cancelationToken \in BOOLEAN
      BY DEF InitUpdater
    <2>4. /\ worker \in [Workers -> WorkerStates]
          /\ request \in [Workers -> AllMaps \cup {Nil}]
          /\ instances \in [Workers -> SUBSET Instances]
      BY DEF InitUpdater, WorkerStates
    <2> QED BY <2>1, <2>2, <2>3, <2>4 DEF TypeOKUpdater
  <1> QED
    BY <1>2, <1>3 DEF IInv, InitUpdater, NoNullRequest, NullIsCancel,
                      TokenIsLast, TokenAtCancel, NonePending

------------------------------------------------------------------------------
\* Steps that change no thread, request, queue or counter.
LEMMA WorldStep ==
    ASSUME IInv,
           \/ SessionsDone \/ AllScheduled \/ UnloadAll \/ Stop \/ Join
           \/ wait("wait", "asleep", "delayed")
           \/ wait("lastWait", "lastSleep", "cancel")
           \/ WorldSteps("delayed", "script") \/ WorldSteps("script", "sessions")
    PROVE  IInv'
  <1> USE DEF SessionsDone, AllScheduled, UnloadAll, Stop, Join, wait, WorldSteps
  <1>1. /\ pending_requests' = pending_requests /\ queue' = queue
        /\ shutdown' = shutdown /\ worker' = worker /\ request' = request
        /\ instances' = instances
    OBVIOUS
  <1>2. TypeOKUpdater'
    <2>1. pc' \in WorldStates
      BY DEF WorldStates
    <2>2. unscheduled' \subseteq BaseMaps /\ updated' \subseteq AllMaps
      BY DEF IInv, TypeOKUpdater
    <2>3. cancelationToken' \in BOOLEAN
      BY DEF IInv, TypeOKUpdater
    <2> QED BY <1>1, <2>1, <2>2, <2>3 DEF IInv, TypeOKUpdater
  <1>3. Busy' = Busy
    BY <1>1 DEF Busy
  <1>4. Counted' /\ NoNullRequest'
    BY <1>1, <1>3 DEF IInv, Counted, NoNullRequest
  <1>5. NullIsCancel'
    BY <1>1 DEF IInv, NullIsCancel
  <1>6. TokenIsLast' /\ TokenAtCancel'
    BY DEF IInv, TokenIsLast, TokenAtCancel
  <1>7. NonePending'
    BY <1>1 DEF IInv, NonePending, TypeOKUpdater
  <1> QED BY <1>2, <1>4, <1>5, <1>6, <1>7 DEF IInv

\* Threads that wake up are not busy, before and after.
LEMMA WakeUp ==
    ASSUME IInv, request' = request,
           NEW W \in SUBSET Workers, \A w \in W : worker[w] = "asleep",
           worker' = [w \in Workers |-> IF w \in W THEN "pop" ELSE worker[w]]
    PROVE  /\ worker' \in [Workers -> WorkerStates]
           /\ Busy' = Busy
           /\ NoNullRequest'
           /\ shutdown' = shutdown /\ cancelationToken' = cancelationToken
                => NullIsCancel'
  <1>1. worker' \in [Workers -> WorkerStates]
    BY DEF IInv, TypeOKUpdater, WorkerStates
  <1>2. \A w \in Workers : worker'[w] # "pop" => worker'[w] = worker[w]
    BY DEF IInv, TypeOKUpdater
  <1>3. \A w \in Workers : worker'[w] = "pop" \/ worker'[w] = worker[w]
    BY DEF IInv, TypeOKUpdater
  <1>4. \A w \in Workers : worker'[w] = "pop" => worker[w] \in {"pop", "asleep"}
    BY DEF IInv, TypeOKUpdater
  <1>5. Busy' = Busy
    BY <1>3, <1>4 DEF Busy
  <1>6. NoNullRequest'
    BY <1>2 DEF IInv, NoNullRequest
  <1>7. shutdown' = shutdown /\ cancelationToken' = cancelationToken
          => NullIsCancel'
    BY <1>2 DEF IInv, NullIsCancel
  <1> QED BY <1>1, <1>5, <1>6, <1>7

\* notify_one wakes one thread, or none.
LEMMA Notify ==
    ASSUME IInv, NotifyOne(Workers, worker)
    PROVE  \E W \in SUBSET Workers :
             /\ \A w \in W : worker[w] = "asleep"
             /\ worker' = [w \in Workers |-> IF w \in W THEN "pop" ELSE worker[w]]
  <1>1. CASE worker' = worker
    <2>1. worker' = [w \in Workers |-> IF w \in {} THEN "pop" ELSE worker[w]]
      BY <1>1 DEF IInv, TypeOKUpdater
    <2>2. {} \in SUBSET Workers /\ \A w \in {} : worker[w] = "asleep"
      OBVIOUS
    <2> QED BY <2>1, <2>2
  <1>2. CASE \E v \in Workers : worker[v] = "asleep" /\ worker' = [worker EXCEPT ![v] = "pop"]
    <2>1. PICK v \in Workers : worker[v] = "asleep" /\ worker' = [worker EXCEPT ![v] = "pop"]
      BY <1>2
    <2>2. worker' = [w \in Workers |-> IF w \in {v} THEN "pop" ELSE worker[w]]
      BY <2>1 DEF IInv, TypeOKUpdater
    <2> QED BY <2>1, <2>2
  <1> QED BY <1>1, <1>2 DEF NotifyOne

\* A request is scheduled, by the world thread or by a map thread.
LEMMA ScheduleStep ==
    ASSUME IInv, NEW m \in AllMaps, schedule_update(m, worker),
           pc \in {"schedule", "wait", "asleep"},
           UNCHANGED <<pc, shutdown, cancelationToken, request, updated>>,
           unscheduled' \subseteq BaseMaps,
           instances' \in [Workers -> SUBSET Instances]
    PROVE  IInv'
  <1>1. PICK W \in SUBSET Workers :
             /\ \A w \in W : worker[w] = "asleep"
             /\ worker' = [w \in Workers |-> IF w \in W THEN "pop" ELSE worker[w]]
    BY Notify DEF schedule_update
  <1>2. /\ worker' \in [Workers -> WorkerStates]
        /\ Busy' = Busy /\ NoNullRequest' /\ NullIsCancel'
    BY <1>1, WakeUp
  <1>3. queue' \in Seq(AllMaps) /\ Len(queue') = Len(queue) + 1
    BY DEF IInv, TypeOKUpdater, schedule_update
  <1>4. pending_requests' \in Nat /\ Counted'
    <2>1. Len(queue) \in Nat
      BY DEF IInv, TypeOKUpdater
    <2>2. Cardinality(Busy') = Cardinality(Busy)
      BY <1>2
    <2>3. pending_requests' = pending_requests + 1
      BY DEF schedule_update
    <2>4. pending_requests \in Nat /\ pending_requests = Len(queue) + Cardinality(Busy)
      BY DEF IInv, TypeOKUpdater, Counted
    <2> QED BY <1>3, <2>1, <2>2, <2>3, <2>4, BusyFinite DEF Counted
  <1>5. TypeOKUpdater'
    BY <1>2, <1>3, <1>4 DEF IInv, TypeOKUpdater
  <1>6. TokenIsLast' /\ NonePending' /\ TokenAtCancel'
    BY DEF IInv, TokenIsLast, NonePending, TokenAtCancel
  <1> QED BY <1>2, <1>4, <1>5, <1>6 DEF IInv

LEMMA ScheduleSteps ==
    ASSUME IInv,
           \/ \E m \in BaseMaps : ScheduleMap(m)
           \/ \E w \in Workers, i \in Instances : ScheduleInstance(w, i)
    PROVE  IInv'
  <1>1. ASSUME NEW m \in BaseMaps, ScheduleMap(m) PROVE IInv'
    <2>1. unscheduled' \subseteq BaseMaps /\ instances' \in [Workers -> SUBSET Instances]
      BY <1>1 DEF ScheduleMap, IInv, TypeOKUpdater
    <2>2. m \in AllMaps /\ pc \in {"schedule", "wait", "asleep"}
      BY <1>1 DEF AllMaps, ScheduleMap
    <2> QED BY <1>1, <2>1, <2>2, ScheduleStep DEF ScheduleMap
  <1>2. ASSUME NEW w \in Workers, NEW i \in Instances, ScheduleInstance(w, i)
        PROVE  IInv'
    <2>1. unscheduled' \subseteq BaseMaps /\ instances' \in [Workers -> SUBSET Instances]
      BY <1>2 DEF ScheduleInstance, IInv, TypeOKUpdater
    <2>2. w \in Busy
      BY <1>2, BusyIs DEF ScheduleInstance
    <2>3. pc \in {"schedule", "wait", "asleep"}
      BY <2>2, NothingPending DEF IInv, NonePending
    <2>4. i \in AllMaps
      BY DEF AllMaps
    <2> QED BY <1>2, <2>1, <2>3, <2>4, ScheduleStep DEF ScheduleInstance
  <1> QED BY <1>1, <1>2

\* Cancel and the wake-ups that follow it or come for no reason.
LEMMA WakeSteps ==
    ASSUME IInv, Cancel \/ CancelNotify \/ Spurious
    PROVE  IInv'
  <1>1. CASE Cancel
    <2>1. pending_requests = 0
      BY <1>1 DEF Cancel, IInv, NonePending
    <2>2. queue' = queue /\ queue = <<>>
      BY <1>1, <2>1, NothingPending DEF Cancel
    <2>3. Busy' = Busy
      BY <1>1 DEF Cancel, Busy
    <2>4. TypeOKUpdater'
      BY <1>1, <2>2 DEF Cancel, IInv, TypeOKUpdater, WorldStates
    <2>5. Counted' /\ NoNullRequest'
      BY <1>1, <2>2, <2>3 DEF Cancel, IInv, Counted, NoNullRequest
    <2>6. cancelationToken
      BY <1>1 DEF Cancel, IInv, TokenAtCancel
    <2>7. NullIsCancel' /\ TokenIsLast' /\ NonePending' /\ TokenAtCancel'
      BY <1>1, <2>1, <2>6 DEF Cancel, NullIsCancel, TokenIsLast, NonePending, TokenAtCancel
    <2> QED BY <2>4, <2>5, <2>7 DEF IInv
  <1>2. CASE CancelNotify
    <2> DEFINE W == {w \in Workers : worker[w] = "asleep"}
    <2>1. /\ worker' \in [Workers -> WorkerStates]
          /\ Busy' = Busy /\ NoNullRequest' /\ NullIsCancel'
      <3>1. worker' = [w \in Workers |-> IF w \in W THEN "pop" ELSE worker[w]]
        BY <1>2 DEF CancelNotify
      <3>2. \A w \in W : worker[w] = "asleep"
        OBVIOUS
      <3>3. /\ request' = request /\ shutdown' = shutdown
            /\ cancelationToken' = cancelationToken
        BY <1>2 DEF CancelNotify
      <3> HIDE DEF W
      <3>4. W \in SUBSET Workers
        BY DEF W
      <3> QED BY <3>1, <3>2, <3>3, <3>4, WakeUp
    <2>2. TypeOKUpdater'
      BY <1>2, <2>1 DEF CancelNotify, IInv, TypeOKUpdater, WorldStates
    <2>3. Counted'
      BY <1>2, <2>1 DEF CancelNotify, IInv, Counted
    <2>4. TokenIsLast' /\ NonePending' /\ TokenAtCancel'
      BY <1>2 DEF CancelNotify, IInv, TokenIsLast, NonePending, TokenAtCancel
    <2> QED BY <2>1, <2>2, <2>3, <2>4 DEF IInv
  <1>3. CASE Spurious
    <2>1. \E W \in SUBSET Workers :
            /\ \A w \in W : worker[w] = "asleep"
            /\ worker' = [w \in Workers |-> IF w \in W THEN "pop" ELSE worker[w]]
      <3>1. CASE worker' = worker
        <4>1. worker' = [w \in Workers |-> IF w \in {} THEN "pop" ELSE worker[w]]
          BY <3>1 DEF IInv, TypeOKUpdater
        <4>2. {} \in SUBSET Workers /\ \A w \in {} : worker[w] = "asleep"
          OBVIOUS
        <4> QED BY <4>1, <4>2
      <3>2. CASE \E v \in Workers : worker[v] = "asleep" /\ worker' = [worker EXCEPT ![v] = "pop"]
        <4>1. PICK v \in Workers : worker[v] = "asleep" /\ worker' = [worker EXCEPT ![v] = "pop"]
          BY <3>2
        <4>2. worker' = [w \in Workers |-> IF w \in {v} THEN "pop" ELSE worker[w]]
          BY <4>1 DEF IInv, TypeOKUpdater
        <4> QED BY <4>1, <4>2
      <3> QED BY <1>3, <3>1, <3>2 DEF Spurious
    <2>2. /\ worker' \in [Workers -> WorkerStates]
          /\ Busy' = Busy /\ NoNullRequest' /\ NullIsCancel'
      BY <1>3, <2>1, WakeUp DEF Spurious
    <2>3. \/ pc' = pc
          \/ pc = "asleep" /\ pc' = "wait"
          \/ pc = "lastSleep" /\ pc' = "lastWait"
      BY <1>3 DEF Spurious, Notified
    <2>4. /\ pending_requests' = pending_requests /\ queue' = queue
          /\ shutdown' = shutdown /\ cancelationToken' = cancelationToken
          /\ request' = request /\ instances' = instances
          /\ updated' = updated /\ unscheduled' = unscheduled
      BY <1>3 DEF Spurious
    <2>5. TypeOKUpdater'
      BY <2>2, <2>3, <2>4 DEF IInv, TypeOKUpdater, WorldStates
    <2>6. Counted'
      BY <2>2, <2>4 DEF IInv, Counted
    <2>7. TokenIsLast' /\ NonePending' /\ TokenAtCancel'
      BY <2>3, <2>4 DEF IInv, TokenIsLast, NonePending, TokenAtCancel
    <2> QED BY <2>2, <2>5, <2>6, <2>7 DEF IInv
  <1> QED BY <1>1, <1>2, <1>3

\* A thread takes a request from the queue, a null request, or goes to sleep.
LEMMA PopStep ==
    ASSUME IInv, NEW v \in Workers, WaitAndPop(v)
    PROVE  IInv'
  <1>1. /\ pc' = pc /\ unscheduled' = unscheduled /\ updated' = updated
        /\ pending_requests' = pending_requests /\ instances' = instances
        /\ shutdown' = shutdown /\ cancelationToken' = cancelationToken
        /\ worker[v] = "pop"
    BY DEF WaitAndPop
  <1>2. v \notin Busy
    BY <1>1, BusyIs
  <1>3. TokenIsLast' /\ NonePending' /\ TokenAtCancel'
    BY <1>1 DEF IInv, TokenIsLast, NonePending, TokenAtCancel
  <1>4. CASE queue = <<>> /\ ~shutdown
    <2>1. /\ worker' = [worker EXCEPT ![v] = "asleep"]
          /\ request' = request /\ queue' = queue
      BY <1>4 DEF WaitAndPop
    <2>2. Busy' = Busy
      BY <1>1, <2>1 DEF Busy, IInv, TypeOKUpdater
    <2>3. TypeOKUpdater'
      BY <1>1, <2>1 DEF IInv, TypeOKUpdater, WorkerStates
    <2>4. Counted'
      BY <1>1, <2>1, <2>2 DEF IInv, Counted
    <2>5. NoNullRequest' /\ NullIsCancel'
      BY <1>1, <2>1 DEF IInv, NoNullRequest, NullIsCancel, TypeOKUpdater
    <2> QED BY <1>3, <2>3, <2>4, <2>5 DEF IInv
  <1>5. CASE shutdown
    <2>1. /\ worker' = [worker EXCEPT ![v] = "popped"]
          /\ request' = [request EXCEPT ![v] = Nil] /\ queue' = queue
      BY <1>5 DEF WaitAndPop
    <2>2. Busy' = Busy
      BY <1>1, <2>1 DEF Busy, IInv, TypeOKUpdater
    <2>3. TypeOKUpdater'
      BY <1>1, <2>1 DEF IInv, TypeOKUpdater, WorkerStates
    <2>4. Counted'
      BY <1>1, <2>1, <2>2 DEF IInv, Counted
    <2>5. NoNullRequest' /\ NullIsCancel'
      BY <1>1, <1>5, <2>1 DEF IInv, NoNullRequest, NullIsCancel, TypeOKUpdater
    <2> QED BY <1>3, <2>3, <2>4, <2>5 DEF IInv
  <1>6. CASE queue # <<>> /\ ~shutdown
    <2>1. /\ worker' = [worker EXCEPT ![v] = "popped"]
          /\ request' = [request EXCEPT ![v] = Head(queue)]
          /\ queue' = Tail(queue)
      BY <1>6 DEF WaitAndPop
    <2>2. /\ Head(queue) \in AllMaps /\ Tail(queue) \in Seq(AllMaps)
          /\ Len(queue) \in Nat /\ Len(Tail(queue)) = Len(queue) - 1
      BY <1>6 DEF IInv, TypeOKUpdater
    <2>3. Head(queue) # Nil
      BY <2>2, MapsAssumption
    <2>4. Busy' = Busy \cup {v}
      BY <1>1, <2>1, <2>3 DEF Busy, IInv, TypeOKUpdater
    <2>5. Cardinality(Busy') = Cardinality(Busy) + 1
      BY <1>2, <2>4, BusyFinite, FS_AddElement
    <2>6. TypeOKUpdater'
      BY <1>1, <2>1, <2>2 DEF IInv, TypeOKUpdater, WorkerStates
    <2>7. Counted'
      <3>1. pending_requests = Len(queue) + Cardinality(Busy)
        BY DEF IInv, Counted
      <3> QED BY <1>1, <2>1, <2>2, <2>5, <3>1, BusyFinite DEF Counted
    <2>8. NoNullRequest' /\ NullIsCancel'
      BY <1>1, <2>1, <2>3 DEF IInv, NoNullRequest, NullIsCancel, TypeOKUpdater
    <2> QED BY <1>3, <2>6, <2>7, <2>8 DEF IInv
  <1> QED BY <1>4, <1>5, <1>6 DEF IInv, TypeOKUpdater

\* The token is tested: with it nobody holds a request, without it the
\* request is not null.
LEMMA TokenStep ==
    ASSUME IInv, NEW v \in Workers, TestToken(v)
    PROVE  IInv'
  <1>1. /\ pc' = pc /\ unscheduled' = unscheduled /\ updated' = updated
        /\ pending_requests' = pending_requests /\ instances' = instances
        /\ shutdown' = shutdown /\ cancelationToken' = cancelationToken
        /\ request' = request /\ queue' = queue /\ worker[v] = "popped"
    BY DEF TestToken
  <1>2. TokenIsLast' /\ NonePending' /\ TokenAtCancel'
    BY <1>1 DEF IInv, TokenIsLast, NonePending, TokenAtCancel
  <1>3. TypeOKUpdater'
    BY <1>1 DEF TestToken, IInv, TypeOKUpdater, WorkerStates
  <1>4. CASE cancelationToken
    <2>1. worker' = [worker EXCEPT ![v] = "exit"]
      BY <1>4 DEF TestToken
    <2>2. Busy = {}
      BY <1>4, NothingPending DEF IInv, TokenIsLast, NonePending
    <2>3. Busy' = Busy
      BY <1>1, <2>1, <2>2 DEF Busy, IInv, TypeOKUpdater
    <2>4. Counted'
      BY <1>1, <2>3 DEF IInv, Counted
    <2>5. NoNullRequest' /\ NullIsCancel'
      BY <1>1, <2>1 DEF IInv, NoNullRequest, NullIsCancel, TypeOKUpdater
    <2> QED BY <1>2, <1>3, <2>4, <2>5 DEF IInv
  <1>5. CASE ~cancelationToken
    <2>1. worker' = [worker EXCEPT ![v] = "update"]
      BY <1>5 DEF TestToken
    <2>2. request[v] # Nil
      BY <1>1, <1>5 DEF IInv, NullIsCancel
    <2>3. Busy' = Busy
      BY <1>1, <2>1, <2>2 DEF Busy, IInv, TypeOKUpdater
    <2>4. Counted'
      BY <1>1, <2>3 DEF IInv, Counted
    <2>5. NoNullRequest' /\ NullIsCancel'
      BY <1>1, <2>1, <2>2 DEF IInv, NoNullRequest, NullIsCancel, TypeOKUpdater
    <2> QED BY <1>2, <1>3, <2>4, <2>5 DEF IInv
  <1> QED BY <1>4, <1>5

LEMMA UpdatedStep ==
    ASSUME IInv, NEW v \in Workers, MapUpdated(v)
    PROVE  IInv'
  <1>1. /\ pc' = pc /\ unscheduled' = unscheduled /\ queue' = queue
        /\ pending_requests' = pending_requests /\ request' = request
        /\ shutdown' = shutdown /\ cancelationToken' = cancelationToken
        /\ worker[v] = "update" /\ worker' = [worker EXCEPT ![v] = "instances"]
    BY DEF MapUpdated
  <1>2. TokenIsLast' /\ NonePending' /\ TokenAtCancel'
    BY <1>1 DEF IInv, TokenIsLast, NonePending, TokenAtCancel
  <1>3. request[v] \in AllMaps /\ request[v] # Nil
    BY <1>1 DEF IInv, NoNullRequest, TypeOKUpdater
  <1>4. instances' \in [Workers -> SUBSET Instances] /\ updated' \subseteq AllMaps
    BY <1>3 DEF MapUpdated, IInv, TypeOKUpdater
  <1>5. TypeOKUpdater'
    BY <1>1, <1>4 DEF IInv, TypeOKUpdater, WorkerStates
  <1>6. Busy' = Busy
    BY <1>1, <1>3 DEF Busy, IInv, TypeOKUpdater
  <1>7. Counted'
    BY <1>1, <1>6 DEF IInv, Counted
  <1>8. NoNullRequest' /\ NullIsCancel'
    BY <1>1, <1>3 DEF IInv, NoNullRequest, NullIsCancel, TypeOKUpdater
  <1> QED BY <1>2, <1>5, <1>7, <1>8 DEF IInv

\* A request is finished; the world thread tests the counter again.
LEMMA FinishedStep ==
    ASSUME IInv, NEW v \in Workers, update_finished(v)
    PROVE  IInv'
  <1>1. /\ unscheduled' = unscheduled /\ queue' = queue
        /\ pending_requests' = pending_requests - 1
        /\ request' = [request EXCEPT ![v] = Nil]
        /\ shutdown' = shutdown /\ cancelationToken' = cancelationToken
        /\ instances' = instances /\ updated' = updated
        /\ worker[v] = "instances" /\ worker' = [worker EXCEPT ![v] = "pop"]
    BY DEF update_finished
  <1>2. v \in Busy
    BY <1>1, BusyIs
  <1>3. pc \in {"schedule", "wait", "asleep"}
    BY <1>2, NothingPending DEF IInv, NonePending
  <1>4. pc' \in {"schedule", "wait", "asleep"}
    BY <1>3 DEF update_finished, Notified
  <1>5. Busy' = Busy \ {v}
    BY <1>1 DEF Busy, IInv, TypeOKUpdater
  <1>6. Cardinality(Busy') = Cardinality(Busy) - 1
    BY <1>2, <1>5, BusyFinite, FS_RemoveElement
  <1>7. Cardinality(Busy) # 0
    BY <1>2, BusyFinite, FS_EmptySet
  <1>8. pending_requests' \in Nat /\ Counted'
    <2>1. /\ pending_requests = Len(queue) + Cardinality(Busy)
          /\ Len(queue) \in Nat
      BY DEF IInv, Counted, TypeOKUpdater
    <2> QED BY <1>1, <1>6, <1>7, <2>1, BusyFinite DEF Counted
  <1>9. TypeOKUpdater'
    BY <1>1, <1>4, <1>8 DEF IInv, TypeOKUpdater, WorkerStates, WorldStates
  <1>10. TokenIsLast' /\ NonePending' /\ TokenAtCancel'
    BY <1>1, <1>3, <1>4 DEF IInv, TokenIsLast, NonePending, TokenAtCancel
  <1>11. NoNullRequest' /\ NullIsCancel'
    BY <1>1 DEF IInv, NoNullRequest, NullIsCancel, TypeOKUpdater
  <1> QED BY <1>8, <1>9, <1>10, <1>11 DEF IInv

------------------------------------------------------------------------------
\* Every step of the composition is a step of the pool, or leaves it alone.
LEMMA PoolStep == [Next]_vars => [NextUpdater]_updaterVars
  <1> SUFFICES ASSUME [Next]_vars PROVE [NextUpdater]_updaterVars
    OBVIOUS
  <1>1. CASE UNCHANGED vars
    BY <1>1 DEF vars
  <1>2. ASSUME NEW s \in Sessions, NEW k \in Kinds, QueuePacket(s, k)
        PROVE  UNCHANGED updaterVars
    BY <1>2 DEF QueuePacket
  <1>3. ASSUME NEW s \in Sessions, ScriptTeleport(s)
        PROVE  UNCHANGED updaterVars
    BY <1>3 DEF ScriptTeleport
  <1>4. ASSUME NEW u \in Threads, Serve(u)
        PROVE  UNCHANGED updaterVars
    BY <1>4 DEF Serve, UpdateSession, TakePacket, Requeue, Drop, HandleInGame,
                HandleMoveWorldportAck, HandlePlayerLogin, HandleCharEnum,
                EndUpdate, HoldsKind
  <1>5. CASE UpdateMaps \/ UnloadMaps
    BY <1>5 DEF UpdateMaps, UnloadMaps, NextUpdater
  <1>6. ASSUME NEW w \in Workers, MapThread(w)
        PROVE  NextUpdater
    BY <1>6 DEF MapThread, NextUpdater
  <1>7. CASE (WorldThread \/ Spurious) /\ UNCHANGED sessionVars
    BY <1>7 DEF NextUpdater
  <1> QED BY <1>1, <1>2, <1>3, <1>4, <1>5, <1>6, <1>7 DEF Next

LEMMA IInvStep == IInv /\ [NextUpdater]_updaterVars => IInv'
  <1> SUFFICES ASSUME IInv, [NextUpdater]_updaterVars PROVE IInv'
    OBVIOUS
  <1>1. CASE UNCHANGED updaterVars
    <2>1. Busy' = Busy
      BY <1>1 DEF updaterVars, Busy
    <2>2. TypeOKUpdater'
      BY <1>1 DEF updaterVars, IInv, TypeOKUpdater
    <2> QED BY <1>1, <2>1, <2>2
            DEF updaterVars, IInv, Counted, NoNullRequest, NullIsCancel,
                TokenIsLast, TokenAtCancel, NonePending
  <1>2. CASE NextUpdater
    <2>1. ASSUME NEW w \in Workers, WorkerThread(w) \/ MapUpdated(w) PROVE IInv'
      BY <2>1, PopStep, TokenStep, UpdatedStep, FinishedStep, ScheduleSteps
         DEF WorkerThread
    <2>2. CASE WorldThread
      BY <2>2, WorldStep, ScheduleSteps, WakeSteps DEF WorldThread
    <2> QED BY <1>2, <2>1, <2>2, WorldStep, WakeSteps DEF NextUpdater
  <1> QED BY <1>1, <1>2

LEMMA IInvAlways == Spec => []IInv
  <1>1. Init => IInv
    BY IInvInit DEF Init
  <1>2. IInv /\ [Next]_vars => IInv'
    BY IInvStep, PoolStep
  <1> QED BY <1>1, <1>2, PTL DEF Spec

\* Whatever the number of map threads and maps, and with any wake-ups: while
\* the world thread serves sessions, runs DelayedUpdate or the Lua world
\* update, or deletes the maps, no map thread has a map or will be given one.
THEOREM WorldThreadAlone == Spec => []WorldAlone
  <1>1. IInv => WorldAlone
    BY NothingPending DEF IInv, NonePending, WorldAlone
  <1> QED BY <1>1, IInvAlways, PTL

\* No map thread ever calls the null request it gets from a cancelled queue.
THEOREM NeverNullRequest == Spec => []NoNullRequest
  <1>1. IInv => NoNullRequest
    BY DEF IInv
  <1> QED BY <1>1, IInvAlways, PTL

------------------------------------------------------------------------------
(***************************************************************************)
(* In one round of MapManager::Update every map is scheduled once: a map   *)
(* waits to be scheduled, is in the queue, is in the hands of one thread,  *)
(* or is done.                                                             *)
(***************************************************************************)
InQueue(m) == \E a \in 1..Len(queue) : queue[a] = m
Requested(m) == \E w \in Busy : request[w] = m
Pending(m) == InQueue(m) \/ Requested(m)

QueuedOnce ==
    /\ \A a, b \in 1..Len(queue) : queue[a] = queue[b] => a = b
    /\ \A w \in Busy : ~InQueue(request[w])

\* No map is in the hands of two threads.
OneThreadPerMap == \A v, w \in Busy : request[v] = request[w] => v = w

\* A map thread schedules the instances of the map it has just updated.
OwnInstances == \A w \in Workers : \A i \in instances[w] :
    worker[w] = "instances" /\ Parent[i] = request[w] /\ ~Pending(i)

\* The maps whose instances are still to be scheduled by a map thread.
Ahead(m) == \/ m \in unscheduled \/ InQueue(m)
            \/ \E w \in Busy : worker[w] # "instances" /\ request[w] = m

MapsOnce ==
    /\ QueuedOnce /\ OneThreadPerMap /\ OwnInstances
    /\ \A m \in unscheduled : ~Pending(m)
    /\ \A i \in Instances : Ahead(Parent[i]) => ~Pending(i)

\* With nothing pending, at the beginning of a round, all of it holds.
LEMMA NoneAtAll ==
    ASSUME IInv, OwnInstances, pending_requests = 0
    PROVE  /\ \A m : ~Pending(m)
           /\ \A w \in Workers : instances[w] = {}
  <1>1. Busy = {} /\ queue = <<>>
    BY NothingPending
  <1>2. \A m : ~Pending(m)
    BY <1>1 DEF Pending, InQueue, Requested
  <1>3. \A w \in Workers : worker[w] # "instances"
    BY <1>1, BusyIs
  <1> QED BY <1>2, <1>3 DEF OwnInstances, IInv, TypeOKUpdater

LEMMA MapsOnceInit == InitUpdater => MapsOnce
  <1> SUFFICES ASSUME InitUpdater PROVE MapsOnce
    OBVIOUS
  <1>1. Busy = {} /\ queue = <<>> /\ unscheduled = {}
    BY DEF InitUpdater, Busy
  <1>2. \A m : ~InQueue(m) /\ ~Requested(m) /\ ~Pending(m)
    BY <1>1 DEF InQueue, Requested, Pending
  <1>3. OwnInstances
    BY DEF InitUpdater, OwnInstances
  <1>4. QueuedOnce
    BY <1>1 DEF QueuedOnce
  <1>5. OneThreadPerMap
    BY <1>1 DEF OneThreadPerMap
  <1> QED BY <1>1, <1>2, <1>3, <1>4, <1>5 DEF MapsOnce

\* Steps that leave the queue and the busy threads as they are.
LEMMA SamePending ==
    ASSUME IInv, MapsOnce,
           Busy' = Busy, queue' = queue,
           \A w \in Busy : request'[w] = request[w],
           \A w \in Busy : worker[w] = "instances" => worker'[w] = "instances",
           unscheduled' \subseteq unscheduled,
           OwnInstances'
    PROVE  MapsOnce'
  <1>1. \A m : InQueue(m)' <=> InQueue(m)
    BY DEF InQueue
  <1>2. \A m : Requested(m)' <=> Requested(m)
    BY DEF Requested
  <1>3. \A m : Pending(m)' <=> Pending(m)
    BY <1>1, <1>2 DEF Pending
  <1>4. \A m : Ahead(m)' => Ahead(m)
    BY <1>1 DEF Ahead
  <1>5. QueuedOnce'
    BY <1>1 DEF MapsOnce, QueuedOnce
  <1>6. OneThreadPerMap'
    BY DEF MapsOnce, OneThreadPerMap
  <1> QED BY <1>3, <1>4, <1>5, <1>6 DEF MapsOnce

\* A new round: nothing is pending.
LEMMA RoundStep ==
    ASSUME IInv, IInv', MapsOnce, SessionsDone
    PROVE  MapsOnce'
  <1>1. /\ queue' = queue /\ worker' = worker /\ request' = request
        /\ instances' = instances /\ pending_requests' = pending_requests
    BY DEF SessionsDone
  <1>2. pending_requests = 0
    BY DEF SessionsDone, IInv, NonePending
  <1>3. \A w \in Workers : instances[w] = {}
    BY <1>2, NoneAtAll DEF MapsOnce
  <1>4. OwnInstances'
    BY <1>1, <1>3 DEF OwnInstances
  <1>5. \A m : ~Pending(m)'
    <2>1. Busy' = {} /\ queue' = <<>>
      BY <1>1, <1>2, NothingPending DEF Busy
    <2> QED BY <2>1 DEF Pending, InQueue, Requested
  <1>6. QueuedOnce' /\ OneThreadPerMap'
    <2>1. Busy' = Busy /\ queue' = queue /\ request' = request
      BY <1>1 DEF Busy
    <2> QED BY <2>1 DEF MapsOnce, QueuedOnce, OneThreadPerMap, InQueue
  <1> QED BY <1>4, <1>5, <1>6 DEF MapsOnce

\* A map that is not pending is put into the queue.
LEMMA AppendStep ==
    ASSUME IInv, MapsOnce, NEW m \in AllMaps, ~Pending(m),
           schedule_update(m, worker), request' = request,
           unscheduled' \subseteq unscheduled \ {m},
           \A w \in Workers : instances'[w] \subseteq instances[w] \ {m},
           m \in Instances => ~Ahead(Parent[m]),
           m \in BaseMaps => m \in unscheduled
    PROVE  MapsOnce'
  <1>1. PICK W \in SUBSET Workers :
             /\ \A w \in W : worker[w] = "asleep"
             /\ worker' = [w \in Workers |-> IF w \in W THEN "pop" ELSE worker[w]]
    BY Notify DEF schedule_update
  <1>2. Busy' = Busy
    BY <1>1, WakeUp
  <1>3. \A w \in Workers : worker[w] # "asleep" => worker'[w] = worker[w]
    BY <1>1
  <1>4. \A w \in Busy : worker'[w] = worker[w]
    BY <1>3, BusyIs DEF Busy
  <1>5. /\ queue' = Append(queue, m) /\ queue \in Seq(AllMaps) /\ Len(queue) \in Nat
        /\ Len(queue') = Len(queue) + 1 /\ queue'[Len(queue) + 1] = m
        /\ \A a \in 1..Len(queue) : queue'[a] = queue[a]
    BY DEF schedule_update, IInv, TypeOKUpdater
  <1>6. \A x : InQueue(x)' <=> InQueue(x) \/ x = m
    <2> TAKE x
    <2>1. InQueue(x)' => InQueue(x) \/ x = m
      BY <1>5 DEF InQueue
    <2>2. InQueue(x) => InQueue(x)'
      BY <1>5 DEF InQueue
    <2>3. x = m => InQueue(x)'
      BY <1>5 DEF InQueue
    <2> QED BY <2>1, <2>2, <2>3
  <1>7. \A x : Pending(x)' <=> Pending(x) \/ x = m
    BY <1>2, <1>6 DEF Pending, Requested
  <1>8. QueuedOnce'
    <2>1. \A a, b \in 1..Len(queue') : queue'[a] = queue'[b] => a = b
      <3>1. \A a \in 1..Len(queue) : queue[a] # m
        BY DEF Pending, InQueue
      <3> QED BY <1>5, <3>1 DEF MapsOnce, QueuedOnce
    <2>2. \A w \in Busy : ~InQueue(request[w]) /\ request[w] # m
      BY DEF MapsOnce, QueuedOnce, Pending, Requested
    <2> QED BY <1>2, <1>6, <2>1, <2>2 DEF QueuedOnce
  <1>9. OneThreadPerMap'
    BY <1>2 DEF MapsOnce, OneThreadPerMap
  <1>10. OwnInstances'
    BY <1>3, <1>7 DEF MapsOnce, OwnInstances
  <1>11. \A x \in unscheduled' : ~Pending(x)'
    BY <1>7 DEF MapsOnce
  <1>12. ASSUME NEW i \in Instances, Ahead(Parent[i])'
         PROVE  ~Pending(i)'
    <2>1. Ahead(Parent[i])
      <3>1. Parent[i] \in BaseMaps
        BY MapsAssumption
      <3>2. CASE Parent[i] = m
        BY <3>1, <3>2 DEF Ahead
      <3>3. CASE Parent[i] # m
        BY <1>2, <1>4, <1>6, <1>12, <3>3 DEF Ahead
      <3> QED BY <3>2, <3>3
    <2> QED BY <1>7, <2>1 DEF MapsOnce
  <1> QED BY <1>8, <1>9, <1>10, <1>11, <1>12 DEF MapsOnce

LEMMA AppendSteps ==
    ASSUME IInv, MapsOnce,
           \/ \E m \in BaseMaps : ScheduleMap(m)
           \/ \E w \in Workers, i \in Instances : ScheduleInstance(w, i)
    PROVE  MapsOnce'
  <1>1. ASSUME NEW m \in BaseMaps, ScheduleMap(m) PROVE MapsOnce'
    <2>1. /\ m \in unscheduled /\ schedule_update(m, worker) /\ request' = request
          /\ unscheduled' = unscheduled \ {m} /\ instances' = instances
      BY <1>1 DEF ScheduleMap
    <2>2. ~Pending(m) /\ m \in AllMaps /\ m \notin Instances
      BY <2>1, MapsAssumption DEF MapsOnce, AllMaps
    <2>3. \A w \in Workers : instances'[w] \subseteq instances[w] \ {m}
      BY <2>1, <2>2 DEF IInv, TypeOKUpdater
    <2> QED BY <2>1, <2>2, <2>3, AppendStep
  <1>2. ASSUME NEW v \in Workers, NEW i \in Instances, ScheduleInstance(v, i)
        PROVE  MapsOnce'
    <2>1. /\ i \in instances[v] /\ worker[v] = "instances"
          /\ schedule_update(i, worker) /\ request' = request
          /\ unscheduled' = unscheduled
          /\ instances' = [instances EXCEPT ![v] = @ \ {i}]
      BY <1>2 DEF ScheduleInstance
    <2>2. ~Pending(i) /\ i \in AllMaps /\ i \notin BaseMaps /\ Parent[i] = request[v]
      BY <2>1, MapsAssumption DEF MapsOnce, OwnInstances, AllMaps
    <2>3. v \in Busy
      BY <2>1, BusyIs
    <2>4. unscheduled' \subseteq unscheduled \ {i}
      BY <2>1, <2>2 DEF IInv, TypeOKUpdater
    <2>5. \A w \in Workers : instances'[w] \subseteq instances[w] \ {i}
      <3>1. \A w \in Workers : w # v => i \notin instances[w]
        <4> SUFFICES ASSUME NEW w \in Workers, i \in instances[w] PROVE w = v
          OBVIOUS
        <4>1. worker[w] = "instances" /\ Parent[i] = request[w]
          BY DEF MapsOnce, OwnInstances
        <4>2. w \in Busy
          BY <4>1, BusyIs
        <4> QED BY <2>2, <2>3, <4>1, <4>2 DEF MapsOnce, OneThreadPerMap
      <3> QED BY <2>1, <3>1 DEF IInv, TypeOKUpdater
    <2>6. ~Ahead(Parent[i])
      <3>1. Requested(request[v]) /\ Pending(request[v])
        BY <2>3 DEF Requested, Pending
      <3>2. request[v] \notin unscheduled /\ ~InQueue(request[v])
        BY <2>3, <3>1 DEF MapsOnce, QueuedOnce
      <3>3. \A w \in Busy : request[w] = request[v] => worker[w] = "instances"
        BY <2>1, <2>3 DEF MapsOnce, OneThreadPerMap
      <3> QED BY <2>2, <3>2, <3>3 DEF Ahead
    <2> QED BY <2>1, <2>2, <2>4, <2>5, <2>6, AppendStep
  <1> QED BY <1>1, <1>2

\* The first map of the queue is handed to a thread.
LEMMA HandOver ==
    ASSUME IInv, MapsOnce, NEW v \in Workers, WaitAndPop(v)
    PROVE  MapsOnce'
  <1>1. /\ worker[v] = "pop" /\ unscheduled' = unscheduled
        /\ instances' = instances
    BY DEF WaitAndPop
  <1>2. v \notin Busy
    BY <1>1, BusyIs
  <1>3. instances[v] = {}
    BY <1>1 DEF MapsOnce, OwnInstances, IInv, TypeOKUpdater
  <1>4. \A w \in Workers : w # v => worker'[w] = worker[w] /\ request'[w] = request[w]
    BY DEF WaitAndPop, IInv, TypeOKUpdater
  <1>5. CASE queue = <<>> \/ shutdown
    <2>1. queue' = queue /\ (worker'[v] = "asleep" \/ (worker'[v] = "popped" /\ request'[v] = Nil))
      BY <1>5 DEF WaitAndPop, IInv, TypeOKUpdater
    <2>2. Busy' = Busy
      BY <1>2, <1>4, <2>1 DEF Busy
    <2>3. \A m : Pending(m)' <=> Pending(m)
      BY <1>2, <1>4, <2>1, <2>2 DEF Pending, InQueue, Requested, Busy
    <2>4. OwnInstances'
      BY <1>1, <1>3, <1>4, <2>3 DEF MapsOnce, OwnInstances
    <2>5. \A w \in Busy : w \in Workers /\ w # v
      BY <1>2 DEF Busy
    <2> QED BY <1>1, <1>4, <2>1, <2>2, <2>4, <2>5, SamePending
  <1>6. CASE queue # <<>> /\ ~shutdown
    <2>1. /\ worker'[v] = "popped" /\ request'[v] = Head(queue) /\ queue' = Tail(queue)
      BY <1>6 DEF WaitAndPop, IInv, TypeOKUpdater
    <2>2. /\ queue \in Seq(AllMaps) /\ Len(queue) \in Nat /\ Len(queue) >= 1
          /\ Head(queue) = queue[1] /\ Head(queue) \in AllMaps
          /\ Len(Tail(queue)) = Len(queue) - 1
          /\ \A a \in 1..Len(Tail(queue)) : Tail(queue)[a] = queue[a + 1]
      BY <1>6 DEF IInv, TypeOKUpdater
    <2>3. Head(queue) # Nil
      BY <2>2, MapsAssumption
    <2>4. Busy' = Busy \cup {v}
      BY <1>2, <1>4, <2>1, <2>3 DEF Busy
    <2> DEFINE h == Head(queue)
    <2>5. InQueue(h) /\ ~Requested(h)
      BY <2>2 DEF InQueue, Requested, MapsOnce, QueuedOnce
    <2>6. \A x : InQueue(x)' => InQueue(x) /\ x # h
      <3> SUFFICES ASSUME NEW x, NEW a \in 1..Len(Tail(queue)), Tail(queue)[a] = x
                   PROVE  InQueue(x) /\ x # h
        BY <2>1 DEF InQueue
      <3>1. a + 1 \in 1..Len(queue) /\ queue[a + 1] = x /\ 1 \in 1..Len(queue) /\ a + 1 # 1
        BY <2>2
      <3> QED BY <2>2, <3>1 DEF InQueue, MapsOnce, QueuedOnce
    <2>7. \A x : Requested(x)' <=> Requested(x) \/ x = h
      BY <1>2, <1>4, <2>1, <2>4 DEF Requested, Busy
    <2>8. \A x : Pending(x)' => Pending(x)
      BY <2>5, <2>6, <2>7 DEF Pending
    <2>9. \A w \in Busy : w \in Workers /\ w # v /\ request'[w] = request[w] /\ worker'[w] = worker[w]
      BY <1>2, <1>4 DEF Busy
    <2>10. QueuedOnce'
      <3>1. ASSUME NEW a \in 1..Len(Tail(queue)), NEW b \in 1..Len(Tail(queue)),
                   Tail(queue)[a] = Tail(queue)[b]
            PROVE  a = b
        <4>1. a + 1 \in 1..Len(queue) /\ b + 1 \in 1..Len(queue) /\ queue[a + 1] = queue[b + 1]
          BY <2>2, <3>1
        <4> QED BY <4>1 DEF MapsOnce, QueuedOnce
      <3>2. (\A w \in Busy : ~InQueue(request[w]))'
        <4>1. ASSUME NEW w \in Busy', NEW x, x = request'[w] PROVE ~InQueue(x)'
          BY <2>1, <2>4, <2>6, <2>9, <4>1 DEF MapsOnce, QueuedOnce
        <4> QED BY <4>1
      <3> QED BY <2>1, <3>1, <3>2 DEF QueuedOnce
    <2>11. OneThreadPerMap'
      BY <2>1, <2>4, <2>5, <2>9 DEF MapsOnce, OneThreadPerMap, Requested
    <2>12. OwnInstances'
      BY <1>1, <1>3, <1>4, <2>8 DEF MapsOnce, OwnInstances
    <2>13. \A m : Ahead(m)' => Ahead(m)
      <3> SUFFICES ASSUME NEW m, Ahead(m)' PROVE Ahead(m)
        OBVIOUS
      <3>1. CASE m = h
        BY <2>5, <3>1 DEF Ahead
      <3>2. CASE m # h
        BY <1>1, <2>1, <2>4, <2>6, <2>9, <3>2 DEF Ahead
      <3> QED BY <3>1, <3>2
    <2> QED BY <1>1, <2>8, <2>10, <2>11, <2>12, <2>13 DEF MapsOnce
  <1> QED BY <1>5, <1>6 DEF IInv, TypeOKUpdater

\* The token, the instances of an updated map, and the end of a request.
LEMMA ThreadSteps ==
    ASSUME IInv, MapsOnce, NEW v \in Workers,
           TestToken(v) \/ MapUpdated(v) \/ update_finished(v)
    PROVE  MapsOnce'
  <1>0. \A w \in Workers : w # v => worker'[w] = worker[w] /\ request'[w] = request[w]
    BY DEF TestToken, MapUpdated, update_finished, IInv, TypeOKUpdater
  <1>1. CASE TestToken(v)
    <2>1. /\ queue' = queue /\ request' = request /\ unscheduled' = unscheduled
          /\ instances' = instances /\ worker[v] = "popped"
          /\ worker'[v] = IF cancelationToken THEN "exit" ELSE "update"
      BY <1>1 DEF TestToken, IInv, TypeOKUpdater
    <2>2. Busy' = Busy
      <3>1. CASE cancelationToken
        <4>1. Busy = {}
          BY <3>1, NothingPending DEF IInv, TokenIsLast, NonePending
        <4> QED BY <1>0, <2>1, <3>1, <4>1 DEF Busy
      <3>2. CASE ~cancelationToken
        BY <1>0, <2>1, <3>2 DEF Busy
      <3> QED BY <3>1, <3>2
    <2>3. \A m : Pending(m)' <=> Pending(m)
      BY <2>1, <2>2 DEF Pending, InQueue, Requested
    <2>4. instances[v] = {}
      BY <2>1 DEF MapsOnce, OwnInstances, IInv, TypeOKUpdater
    <2>5. OwnInstances'
      BY <1>0, <2>1, <2>3, <2>4 DEF MapsOnce, OwnInstances
    <2>6. \A w \in Busy : worker[w] = "instances" => worker'[w] = "instances"
      BY <1>0, <2>1 DEF Busy
    <2> QED BY <2>1, <2>2, <2>5, <2>6, SamePending
  <1>2. CASE MapUpdated(v)
    <2>1. /\ queue' = queue /\ request' = request /\ unscheduled' = unscheduled
          /\ worker[v] = "update" /\ worker'[v] = "instances"
          /\ instances'[v] = {i \in Instances : Parent[i] = request[v]}
          /\ \A w \in Workers : w # v => instances'[w] = instances[w]
      BY <1>2 DEF MapUpdated, IInv, TypeOKUpdater
    <2>2. v \in Busy
      BY <2>1, BusyIs
    <2>3. Busy' = Busy
      BY <1>0, <2>1, <2>2 DEF Busy
    <2>4. \A m : Pending(m)' <=> Pending(m)
      BY <2>1, <2>3 DEF Pending, InQueue, Requested
    <2>5. Ahead(request[v])
      BY <2>1, <2>2 DEF Ahead
    <2>6. \A i \in instances'[v] : Parent[i] = request[v] /\ ~Pending(i)
      BY <2>1, <2>5 DEF MapsOnce
    <2>7. OwnInstances'
      BY <1>0, <2>1, <2>4, <2>6 DEF MapsOnce, OwnInstances
    <2>8. \A w \in Busy : worker[w] = "instances" => worker'[w] = "instances"
      BY <1>0, <2>1 DEF Busy
    <2> QED BY <2>1, <2>3, <2>7, <2>8, SamePending
  <1>3. CASE update_finished(v)
    <2>1. /\ queue' = queue /\ unscheduled' = unscheduled /\ instances' = instances
          /\ worker[v] = "instances" /\ instances[v] = {} /\ worker'[v] = "pop"
      BY <1>3 DEF update_finished, IInv, TypeOKUpdater
    <2>2. Busy' = Busy \ {v}
      BY <1>0, <2>1 DEF Busy
    <2>3. \A w \in Busy' : w \in Busy /\ request'[w] = request[w] /\ worker'[w] = worker[w]
      BY <1>0, <2>2 DEF Busy
    <2>4. \A m : InQueue(m)' <=> InQueue(m)
      BY <2>1 DEF InQueue
    <2>5. \A m : Pending(m)' => Pending(m)
      BY <2>3, <2>4 DEF Pending, Requested
    <2>6. \A m : Ahead(m)' => Ahead(m)
      BY <2>1, <2>3, <2>4 DEF Ahead
    <2>7. QueuedOnce'
      BY <2>1, <2>3, <2>4 DEF MapsOnce, QueuedOnce
    <2>8. OneThreadPerMap'
      BY <2>3 DEF MapsOnce, OneThreadPerMap
    <2>9. OwnInstances'
      BY <1>0, <2>1, <2>5 DEF MapsOnce, OwnInstances
    <2> QED BY <2>1, <2>5, <2>6, <2>7, <2>8, <2>9 DEF MapsOnce
  <1> QED BY <1>1, <1>2, <1>3

\* The other steps wake threads or change nothing of it.
LEMMA OtherSteps ==
    ASSUME IInv, MapsOnce, queue' = queue, request' = request,
           instances' = instances, unscheduled' = unscheduled,
           \A w \in Workers : worker[w] # "asleep" => worker'[w] = worker[w],
           \A w \in Workers : worker'[w] = worker[w] \/ worker'[w] = "pop"
    PROVE  MapsOnce'
  <1>1. Busy' = Busy
    BY DEF Busy
  <1>2. \A m : Pending(m)' <=> Pending(m)
    BY <1>1 DEF Pending, InQueue, Requested
  <1>3. OwnInstances'
    BY <1>2 DEF MapsOnce, OwnInstances
  <1>4. \A w \in Busy : worker[w] = "instances" => worker'[w] = "instances"
    BY DEF Busy
  <1> QED BY <1>1, <1>3, <1>4, SamePending

LEMMA MapsOnceStep ==
    IInv /\ IInv' /\ MapsOnce /\ [NextUpdater]_updaterVars => MapsOnce'
  <1> SUFFICES ASSUME IInv, IInv', MapsOnce, [NextUpdater]_updaterVars
               PROVE  MapsOnce'
    OBVIOUS
  <1>1. CASE UNCHANGED updaterVars
    BY <1>1, OtherSteps DEF updaterVars
  <1>2. CASE SessionsDone
    BY <1>2, RoundStep
  <1>3. CASE AllScheduled \/ UnloadAll \/ Stop \/ Join
             \/ wait("wait", "asleep", "delayed")
             \/ wait("lastWait", "lastSleep", "cancel")
             \/ WorldSteps("delayed", "script") \/ WorldSteps("script", "sessions")
    BY <1>3, OtherSteps
       DEF AllScheduled, UnloadAll, Stop, Join, wait, WorldSteps
  <1>4. CASE Cancel
    <2>1. queue' = queue
      BY <1>4, NothingPending DEF Cancel, IInv, NonePending
    <2> QED BY <1>4, <2>1, OtherSteps DEF Cancel
  <1>5. CASE CancelNotify \/ Spurious
    BY <1>5, OtherSteps DEF CancelNotify, Spurious, IInv, TypeOKUpdater
  <1>6. ASSUME NEW w \in Workers, WorkerThread(w) \/ MapUpdated(w) PROVE MapsOnce'
    BY <1>6, AppendSteps, HandOver, ThreadSteps DEF WorkerThread
  <1>7. CASE WorldThread
    BY <1>3, <1>4, <1>5, <1>7, AppendSteps DEF WorldThread
  <1> QED BY <1>1, <1>2, <1>3, <1>5, <1>6, <1>7 DEF NextUpdater

------------------------------------------------------------------------------
(***************************************************************************)
(* MapUpdater::wait waits for everything: a map that this round has not    *)
(* updated yet is still to be scheduled or pending, or it is an instance   *)
(* whose parent has still to schedule it.                                  *)
(***************************************************************************)
InRound == pc \in {"schedule", "wait", "asleep"}

ToSchedule(i) == \E w \in Workers : i \in instances[w]

\* The map of a thread that goes through its instances has been updated.
Finished == \A w \in Workers : worker[w] = "instances" => request[w] \in updated

NoneForgotten ==
    InRound =>
        /\ \A m \in BaseMaps : m \in updated \/ m \in unscheduled \/ Pending(m)
        /\ \A i \in Instances : \/ i \in updated \/ Pending(i)
                                \/ Ahead(Parent[i]) \/ ToSchedule(i)

Rounds == /\ Finished /\ NoneForgotten /\ AllUpdated
          /\ pc \in {"wait", "asleep"} => unscheduled = {}

LEMMA RoundsInit == InitUpdater => Rounds
  BY DEF InitUpdater, Rounds, Finished, NoneForgotten, InRound, AllUpdated

\* What a step inside a round has to keep.
LEMMA Handed ==
    ASSUME Rounds, InRound, updated \subseteq updated',
           \A m : Pending(m) => Pending(m)' \/ m \in updated',
           \A m \in unscheduled : m \in unscheduled' \/ Pending(m)',
           \A i \in Instances : Ahead(Parent[i]) => Ahead(Parent[i])' \/ ToSchedule(i)',
           \A i \in Instances : ToSchedule(i) => ToSchedule(i)' \/ Pending(i)'
    PROVE  NoneForgotten'
  <1>1. ASSUME NEW m \in BaseMaps
        PROVE  (m \in updated \/ m \in unscheduled \/ Pending(m))'
    BY DEF Rounds, NoneForgotten
  <1>2. ASSUME NEW i \in Instances
        PROVE  (i \in updated \/ Pending(i) \/ Ahead(Parent[i]) \/ ToSchedule(i))'
    BY DEF Rounds, NoneForgotten
  <1> QED BY <1>1, <1>2 DEF NoneForgotten

\* Steps that only wake threads or move the world thread on.
LEMMA RoundsOther ==
    ASSUME IInv, Rounds, queue' = queue, request' = request,
           instances' = instances, unscheduled' = unscheduled, updated' = updated,
           \A w \in Workers : worker[w] # "asleep" => worker'[w] = worker[w],
           \A w \in Workers : worker'[w] = worker[w] \/ worker'[w] = "pop",
           InRound' => InRound,
           pc' \in {"wait", "asleep"} => unscheduled = {},
           pc' # "delayed"
    PROVE  Rounds'
  <1>1. Busy' = Busy /\ \A w \in Busy : worker'[w] = worker[w]
    BY DEF Busy
  <1>2. \A m : Pending(m)' <=> Pending(m)
    BY <1>1 DEF Pending, InQueue, Requested
  <1>3. \A m : Ahead(m)' <=> Ahead(m)
    BY <1>1 DEF Ahead, InQueue
  <1>4. \A i : ToSchedule(i)' <=> ToSchedule(i)
    BY DEF ToSchedule
  <1>5. Finished'
    BY DEF Finished, Rounds
  <1>6. NoneForgotten'
    <2>1. CASE InRound
      BY <1>2, <1>3, <1>4, <2>1, Handed
    <2>2. CASE ~InRound
      BY <2>2 DEF NoneForgotten
    <2> QED BY <2>1, <2>2
  <1> QED BY <1>5, <1>6 DEF Rounds, AllUpdated

\* A new round: every base map is to be scheduled, nobody goes through instances.
LEMMA RoundsBegin ==
    ASSUME IInv, MapsOnce, Rounds, SessionsDone
    PROVE  Rounds'
  <1>1. pc = "sessions" /\ Busy = {} /\ worker' = worker /\ request' = request
    BY NothingPending DEF SessionsDone, IInv, NonePending
  <1>2. \A w \in Workers : worker[w] # "instances"
    BY <1>1, BusyIs
  <1>3. Finished'
    BY <1>1, <1>2 DEF Finished
  <1>4. CASE pc' = "schedule" /\ unscheduled' = BaseMaps /\ updated' = {}
    <2>1. \A i \in Instances : Ahead(Parent[i])'
      BY <1>4, MapsAssumption DEF Ahead
    <2>2. NoneForgotten'
      BY <1>4, <2>1 DEF NoneForgotten
    <2> QED BY <1>3, <1>4, <2>2 DEF Rounds, AllUpdated
  <1>5. CASE pc' = "script" /\ UNCHANGED <<unscheduled, updated>>
    BY <1>3, <1>5 DEF Rounds, AllUpdated, NoneForgotten, InRound
  <1> QED BY <1>4, <1>5 DEF SessionsDone

\* The round ends when no request is pending: nothing is left to update.
LEMMA RoundsWait ==
    ASSUME IInv, IInv', MapsOnce, Rounds, wait("wait", "asleep", "delayed")
    PROVE  Rounds'
  <1>1. /\ pc = "wait" /\ unscheduled' = unscheduled /\ queue' = queue
        /\ worker' = worker /\ request' = request /\ instances' = instances
        /\ updated' = updated /\ unscheduled = {} /\ InRound
    BY DEF wait, Rounds, InRound
  <1>2. CASE pending_requests > 0
    BY <1>1, <1>2, RoundsOther DEF wait, InRound
  <1>3. CASE ~(pending_requests > 0)
    <2>1. pending_requests = 0 /\ pc' = "delayed"
      BY <1>3 DEF wait, IInv, TypeOKUpdater
    <2>2. /\ \A m : ~Pending(m)
          /\ \A w \in Workers : instances[w] = {}
      BY <2>1, NoneAtAll DEF MapsOnce
    <2>3. Busy = {} /\ queue = <<>>
      BY <2>1, NothingPending
    <2>4. \A m : ~Ahead(m)
      BY <1>1, <2>3 DEF Ahead, InQueue
    <2>5. \A i : ~ToSchedule(i)
      BY <2>2 DEF ToSchedule
    <2>6. AllMaps \subseteq updated
      BY <1>1, <2>2, <2>4, <2>5 DEF Rounds, NoneForgotten, AllMaps
    <2>7. AllUpdated'
      BY <1>1, <2>6 DEF AllUpdated, IInv, TypeOKUpdater
    <2>8. Finished'
      BY <1>1 DEF Finished, Rounds
    <2> QED BY <2>1, <2>7, <2>8 DEF Rounds, NoneForgotten, InRound
  <1> QED BY <1>2, <1>3

\* A map goes from the maps to be scheduled to the queue.
LEMMA RoundsAppend ==
    ASSUME IInv, MapsOnce, Rounds, NEW m \in AllMaps,
           schedule_update(m, worker), request' = request,
           pc' = pc, updated' = updated, InRound,
           unscheduled' \subseteq unscheduled,
           unscheduled \subseteq unscheduled' \cup {m},
           \A w \in Workers : instances[w] \subseteq instances'[w] \cup {m}
    PROVE  Rounds'
  <1>1. PICK W \in SUBSET Workers :
             /\ \A w \in W : worker[w] = "asleep"
             /\ worker' = [w \in Workers |-> IF w \in W THEN "pop" ELSE worker[w]]
    BY Notify DEF schedule_update
  <1>2. Busy' = Busy
    BY <1>1, WakeUp
  <1>3. \A w \in Busy : worker'[w] = worker[w]
    BY <1>1, BusyIs DEF Busy
  <1>4. \A x : InQueue(x)' <=> InQueue(x) \/ x = m
    <2>1. /\ queue' = Append(queue, m) /\ queue \in Seq(AllMaps) /\ Len(queue) \in Nat
          /\ Len(queue') = Len(queue) + 1 /\ queue'[Len(queue) + 1] = m
          /\ \A a \in 1..Len(queue) : queue'[a] = queue[a]
      BY DEF schedule_update, IInv, TypeOKUpdater
    <2> TAKE x
    <2>2. InQueue(x)' => InQueue(x) \/ x = m
      BY <2>1 DEF InQueue
    <2>3. InQueue(x) => InQueue(x)'
      BY <2>1 DEF InQueue
    <2>4. x = m => InQueue(x)'
      BY <2>1 DEF InQueue
    <2> QED BY <2>2, <2>3, <2>4
  <1>5. \A x : Pending(x) \/ x = m => Pending(x)'
    BY <1>2, <1>4 DEF Pending, Requested
  <1>6. \A x : Ahead(x) => Ahead(x)'
    BY <1>2, <1>3, <1>4 DEF Ahead
  <1>7. \A i \in Instances : ToSchedule(i) => ToSchedule(i)' \/ Pending(i)'
    BY <1>5 DEF ToSchedule
  <1>8. NoneForgotten'
    BY <1>5, <1>6, <1>7, Handed
  <1>9. Finished'
    BY <1>1 DEF Finished, Rounds
  <1> QED BY <1>8, <1>9 DEF Rounds, AllUpdated, InRound

\* The first map of the queue is handed to a thread: it stays pending.
LEMMA RoundsHandOver ==
    ASSUME IInv, MapsOnce, Rounds, NEW v \in Workers, WaitAndPop(v)
    PROVE  Rounds'
  <1>1. /\ worker[v] = "pop" /\ unscheduled' = unscheduled /\ pc' = pc
        /\ instances' = instances /\ updated' = updated
    BY DEF WaitAndPop
  <1>2. v \notin Busy
    BY <1>1, BusyIs
  <1>3. \A w \in Workers : w # v => worker'[w] = worker[w] /\ request'[w] = request[w]
    BY DEF WaitAndPop, IInv, TypeOKUpdater
  <1>4. worker'[v] # "instances"
    BY DEF WaitAndPop, IInv, TypeOKUpdater
  <1>5. Finished'
    BY <1>1, <1>3, <1>4 DEF Finished, Rounds
  <1>6. \A w \in Busy : w \in Busy' /\ request'[w] = request[w] /\ worker'[w] = worker[w]
    BY <1>2, <1>3 DEF Busy
  <1>7. \A m : InQueue(m) =>
               InQueue(m)' \/ (v \in Busy' /\ worker'[v] = "popped" /\ request'[v] = m)
    <2>1. CASE queue = <<>> \/ shutdown
      BY <2>1 DEF WaitAndPop, InQueue
    <2>2. CASE queue # <<>> /\ ~shutdown
      <3>1. worker'[v] = "popped" /\ request'[v] = Head(queue) /\ queue' = Tail(queue)
        BY <2>2 DEF WaitAndPop, IInv, TypeOKUpdater
      <3>2. /\ queue \in Seq(AllMaps) /\ Len(queue) \in Nat /\ Len(queue) >= 1
            /\ Head(queue) = queue[1] /\ Head(queue) \in AllMaps
            /\ Len(Tail(queue)) = Len(queue) - 1
            /\ \A a \in 1..Len(Tail(queue)) : Tail(queue)[a] = queue[a + 1]
        BY <2>2 DEF IInv, TypeOKUpdater
      <3>3. v \in Busy'
        BY <3>1, <3>2, MapsAssumption DEF Busy
      <3> SUFFICES ASSUME NEW m, NEW a \in 1..Len(queue), queue[a] = m, a # 1
                   PROVE  InQueue(m)'
        BY <3>1, <3>2, <3>3 DEF InQueue
      <3>4. a - 1 \in 1..Len(Tail(queue)) /\ Tail(queue)[a - 1] = queue[a]
        BY <3>2
      <3> QED BY <3>1, <3>4 DEF InQueue
    <2> QED BY <2>1, <2>2
  <1>8. \A m : Requested(m) => Requested(m)'
    BY <1>6 DEF Requested
  <1>9. \A m : Pending(m) => Pending(m)'
    BY <1>7, <1>8 DEF Pending, Requested
  <1>10. \A m : Ahead(m) => Ahead(m)'
    BY <1>1, <1>6, <1>7 DEF Ahead
  <1>11. \A i : ToSchedule(i)' <=> ToSchedule(i)
    BY <1>1 DEF ToSchedule
  <1>12. NoneForgotten'
    <2>1. CASE InRound
      BY <1>1, <1>9, <1>10, <1>11, <2>1, Handed
    <2>2. CASE ~InRound
      BY <1>1, <2>2 DEF NoneForgotten, InRound
    <2> QED BY <2>1, <2>2
  <1> QED BY <1>1, <1>5, <1>12 DEF Rounds, AllUpdated

\* A thread that holds a request goes on with it to its end.
LEMMA RoundsThread ==
    ASSUME IInv, MapsOnce, Rounds, NEW v \in Workers,
           TestToken(v) \/ MapUpdated(v) \/ update_finished(v)
    PROVE  Rounds'
  <1>0. /\ \A w \in Workers : w # v => worker'[w] = worker[w] /\ request'[w] = request[w]
        /\ queue' = queue /\ unscheduled' = unscheduled
    BY DEF TestToken, MapUpdated, update_finished, IInv, TypeOKUpdater
  <1>1. \A m : InQueue(m)' <=> InQueue(m)
    BY <1>0 DEF InQueue
  <1>2. CASE TestToken(v)
    <2>1. /\ request' = request /\ pc' = pc /\ updated' = updated
          /\ instances' = instances /\ worker[v] = "popped"
          /\ worker'[v] = IF cancelationToken THEN "exit" ELSE "update"
      BY <1>2 DEF TestToken, IInv, TypeOKUpdater
    <2>2. Finished'
      BY <1>0, <2>1 DEF Finished, Rounds
    <2>3. CASE InRound
      <3>1. worker'[v] = "update"
        BY <2>1, <2>3 DEF IInv, TokenIsLast, InRound
      <3>2. Busy' = Busy /\ \A w \in Busy : worker[w] # "instances" => worker'[w] # "instances"
        BY <1>0, <2>1, <3>1 DEF Busy
      <3>3. \A m : Pending(m) => Pending(m)'
        BY <1>1, <2>1, <3>2 DEF Pending, Requested
      <3>4. \A m : Ahead(m) => Ahead(m)'
        BY <1>0, <1>1, <2>1, <3>2 DEF Ahead
      <3>5. \A i : ToSchedule(i)' <=> ToSchedule(i)
        BY <2>1 DEF ToSchedule
      <3>6. NoneForgotten'
        BY <1>0, <2>1, <2>3, <3>3, <3>4, <3>5, Handed
      <3> QED BY <1>0, <2>1, <2>2, <3>6 DEF Rounds, AllUpdated
    <2>4. CASE ~InRound
      BY <1>0, <2>1, <2>2, <2>4 DEF Rounds, AllUpdated, NoneForgotten, InRound
    <2> QED BY <2>3, <2>4
  <1>3. CASE MapUpdated(v)
    <2>1. /\ request' = request /\ pc' = pc
          /\ worker[v] = "update" /\ worker'[v] = "instances"
          /\ instances'[v] = {i \in Instances : Parent[i] = request[v]}
          /\ \A w \in Workers : w # v => instances'[w] = instances[w]
          /\ updated' = updated \cup {request[v]}
      BY <1>3 DEF MapUpdated, IInv, TypeOKUpdater
    <2>2. v \in Busy
      BY <2>1, BusyIs
    <2>3. Busy' = Busy
      BY <1>0, <2>1, <2>2 DEF Busy
    <2>4. InRound /\ pc \notin {"delayed"}
      BY <2>2, NothingPending DEF IInv, NonePending, InRound
    <2>5. \A m : Pending(m) => Pending(m)'
      BY <1>1, <2>1, <2>3 DEF Pending, Requested
    <2>6. instances[v] = {}
      BY <2>1 DEF MapsOnce, OwnInstances, IInv, TypeOKUpdater
    <2>7. \A i \in Instances : ToSchedule(i) => ToSchedule(i)'
      BY <2>1, <2>6 DEF ToSchedule
    <2>8. \A i \in Instances : Ahead(Parent[i]) => Ahead(Parent[i])' \/ ToSchedule(i)'
      <3> SUFFICES ASSUME NEW i \in Instances, Ahead(Parent[i])
                   PROVE  Ahead(Parent[i])' \/ ToSchedule(i)'
        OBVIOUS
      <3>1. CASE Parent[i] = request[v]
        BY <2>1, <3>1 DEF ToSchedule
      <3>2. CASE Parent[i] # request[v]
        <4>1. \A w \in Busy : w # v => worker'[w] = worker[w]
          BY <1>0 DEF Busy
        <4> QED BY <1>0, <1>1, <2>1, <2>3, <3>2, <4>1 DEF Ahead
      <3> QED BY <3>1, <3>2
    <2>9. NoneForgotten'
      BY <1>0, <2>1, <2>4, <2>5, <2>7, <2>8, Handed
    <2>10. Finished'
      BY <1>0, <2>1 DEF Finished, Rounds
    <2> QED BY <1>0, <2>1, <2>4, <2>9, <2>10 DEF Rounds, AllUpdated
  <1>4. CASE update_finished(v)
    <2>1. /\ instances' = instances /\ updated' = updated /\ pc' = Notified
          /\ worker[v] = "instances" /\ worker'[v] = "pop"
      BY <1>4 DEF update_finished, IInv, TypeOKUpdater
    <2>2. v \in Busy /\ request[v] \in updated
      BY <2>1, BusyIs DEF Rounds, Finished
    <2>3. InRound
      BY <2>2, NothingPending DEF IInv, NonePending, InRound
    <2>4. \A w \in Busy : w # v => w \in Busy' /\ request'[w] = request[w] /\ worker'[w] = worker[w]
      BY <1>0 DEF Busy
    <2>5. \A m : Pending(m) => Pending(m)' \/ m \in updated'
      BY <1>1, <2>1, <2>2, <2>4 DEF Pending, Requested
    <2>6. \A m : Ahead(m) => Ahead(m)'
      BY <1>0, <1>1, <2>1, <2>4 DEF Ahead
    <2>7. \A i : ToSchedule(i)' <=> ToSchedule(i)
      BY <2>1 DEF ToSchedule
    <2>8. NoneForgotten'
      BY <1>0, <2>1, <2>3, <2>5, <2>6, <2>7, Handed
    <2>9. Finished'
      BY <1>0, <2>1 DEF Finished, Rounds
    <2>10. pc' # "delayed" /\ (pc' \in {"wait", "asleep"} => pc \in {"wait", "asleep"})
      BY <2>1, <2>3 DEF Notified, InRound
    <2> QED BY <1>0, <2>8, <2>9, <2>10 DEF Rounds, AllUpdated
  <1> QED BY <1>2, <1>3, <1>4

LEMMA RoundsStep ==
    IInv /\ IInv' /\ MapsOnce /\ Rounds /\ [NextUpdater]_updaterVars => Rounds'
  <1> SUFFICES ASSUME IInv, IInv', MapsOnce, Rounds, [NextUpdater]_updaterVars
               PROVE  Rounds'
    OBVIOUS
  <1>1. CASE UNCHANGED updaterVars
    BY <1>1 DEF updaterVars, Rounds, Finished, NoneForgotten, AllUpdated, InRound,
                ToSchedule, Ahead, Pending, InQueue, Requested, Busy
  <1>2. CASE SessionsDone
    BY <1>2, RoundsBegin
  <1>3. CASE AllScheduled \/ UnloadAll \/ Stop \/ Join
             \/ wait("lastWait", "lastSleep", "cancel")
             \/ WorldSteps("delayed", "script") \/ WorldSteps("script", "sessions")
    BY <1>3, RoundsOther
       DEF AllScheduled, UnloadAll, Stop, Join, wait, WorldSteps, InRound
  <1>4. CASE Cancel
    <2>1. queue' = queue
      BY <1>4, NothingPending DEF Cancel, IInv, NonePending
    <2> QED BY <1>4, <2>1, RoundsOther DEF Cancel, InRound
  <1>5. CASE CancelNotify \/ Spurious
    <2>1. CASE CancelNotify
      BY <2>1, RoundsOther DEF CancelNotify, InRound
    <2>2. CASE Spurious
      <3>1. /\ queue' = queue /\ request' = request /\ instances' = instances
            /\ unscheduled' = unscheduled /\ updated' = updated
        BY <2>2 DEF Spurious
      <3>2. CASE Notified # pc /\ pc' = Notified /\ UNCHANGED worker
        BY <3>1, <3>2, RoundsOther DEF Notified, InRound, Rounds
      <3>3. CASE \E w \in Workers : /\ worker[w] = "asleep"
                                    /\ worker' = [worker EXCEPT ![w] = "pop"]
                                    /\ UNCHANGED pc
        <4>1. CASE pc = "delayed"
          <5>1. Busy = {}
            BY <4>1, NothingPending DEF IInv, NonePending
          <5>2. Finished'
            BY <3>1, <3>3 DEF Rounds, Finished, IInv, TypeOKUpdater
          <5> QED BY <3>1, <3>3, <4>1, <5>2 DEF Rounds, NoneForgotten, InRound, AllUpdated
        <4>2. CASE pc # "delayed"
          <5>1. \A w \in Workers : /\ worker[w] # "asleep" => worker'[w] = worker[w]
                                   /\ worker'[w] = worker[w] \/ worker'[w] = "pop"
            BY <3>3 DEF IInv, TypeOKUpdater
          <5> QED BY <3>1, <3>3, <4>2, <5>1, RoundsOther DEF InRound, Rounds
        <4> QED BY <4>1, <4>2
      <3> QED BY <2>2, <3>2, <3>3 DEF Spurious
    <2> QED BY <1>5, <2>1, <2>2
  <1>6. ASSUME NEW m \in BaseMaps, ScheduleMap(m) PROVE Rounds'
    BY <1>6, RoundsAppend DEF ScheduleMap, InRound, AllMaps
  <1>7. ASSUME NEW v \in Workers, NEW i \in Instances, ScheduleInstance(v, i)
        PROVE  Rounds'
    <2>1. /\ i \in instances[v] /\ worker[v] = "instances"
          /\ schedule_update(i, worker) /\ request' = request /\ pc' = pc
          /\ unscheduled' = unscheduled /\ updated' = updated
          /\ instances' = [instances EXCEPT ![v] = @ \ {i}]
      BY <1>7 DEF ScheduleInstance
    <2>2. InRound
      BY <2>1, BusyIs, NothingPending DEF IInv, NonePending, InRound
    <2>3. \A w \in Workers : instances[w] \subseteq instances'[w] \cup {i}
      BY <2>1 DEF IInv, TypeOKUpdater
    <2> QED BY <2>1, <2>2, <2>3, RoundsAppend DEF AllMaps
  <1>8. ASSUME NEW w \in Workers, WorkerThread(w) \/ MapUpdated(w) PROVE Rounds'
    BY <1>7, <1>8, RoundsHandOver, RoundsThread DEF WorkerThread
  <1>9. CASE WorldThread
    BY <1>3, <1>4, <1>5, <1>6, <1>9, RoundsWait DEF WorldThread
  <1> QED BY <1>1, <1>2, <1>3, <1>5, <1>8, <1>9 DEF NextUpdater

\* After MapUpdater::wait every map, the instances scheduled by map threads
\* included, has been updated in this round: DelayedUpdate meets no map that
\* missed its turn.
THEOREM EverythingUpdated == Spec => []AllUpdated
  <1>1. Init => IInv /\ MapsOnce /\ Rounds
    BY IInvInit, MapsOnceInit, RoundsInit DEF Init
  <1>2. IInv /\ MapsOnce /\ Rounds /\ [Next]_vars => (IInv /\ MapsOnce /\ Rounds)'
    BY PoolStep, IInvStep, MapsOnceStep, RoundsStep
  <1>3. IInv /\ MapsOnce /\ Rounds => AllUpdated
    BY DEF Rounds
  <1> QED BY <1>1, <1>2, <1>3, PTL DEF Spec

------------------------------------------------------------------------------
(***************************************************************************)
(* Who holds a session.  The world thread updates sessions before the map  *)
(* update only; a map thread those it found on the map it updates, which   *)
(* stay there until the thread itself sends them away.                     *)
(***************************************************************************)
SessionTypes ==
    /\ cur \in [Threads -> Sessions \cup {Nil}]
    /\ held = [t \in Threads |-> held[t]]
    /\ place \in [Sessions -> {"none", "loading", "transfer"} \cup AllMaps]
    /\ \A t \in Threads : held[t] # Nil => cur[t] # Nil

InItsTime == cur[World] # Nil => pc = "sessions"

\* A map thread's session is on its map, unless it has just left it.
OnItsMap == \A w \in Workers : cur[w] # Nil =>
    worker[w] = "update" /\ place[cur[w]] \in {request[w], "transfer"}

\* MapSessionFilter leaves the other kinds to the world thread.
OwnKinds == \A w \in Workers : held[w] # Nil => held[w].kind \in {"move", "query"}

SInv == SessionTypes /\ InItsTime /\ OnItsMap /\ OwnKinds /\ SessionExclusive

LEMMA SInvInit == Init => SInv
  <1> SUFFICES ASSUME Init PROVE SInv
    OBVIOUS
  <1>1. \A t \in Threads : cur[t] = Nil /\ held[t] = Nil
    BY DEF Init
  <1>2. World \in Threads /\ Workers \subseteq Threads
    BY DEF Threads
  <1>3. SessionTypes
    BY <1>1 DEF SessionTypes, Init
  <1> QED BY <1>1, <1>2, <1>3
          DEF SInv, InItsTime, OnItsMap, OwnKinds, SessionExclusive

\* Outside the map update no map thread holds a session.
LEMMA MapThreadsIdle ==
    ASSUME IInv, SInv, pc \notin {"schedule", "wait", "asleep"}
    PROVE  \A w \in Workers : cur[w] = Nil
  <1>1. Busy = {}
    BY NothingPending DEF IInv, NonePending
  <1> QED BY <1>1, BusyIs DEF SInv, OnItsMap

\* A thread that holds no session, in its map's update or not.
LEMMA TakeSession ==
    ASSUME IInv, MapsOnce, SInv, NEW t \in Threads, NEW s \in Sessions,
           UpdateSession(t, s)
    PROVE  SInv'
  <1>1. /\ cur' = [cur EXCEPT ![t] = s] /\ cur[t] = Nil /\ s \in Due(t)
        /\ held' = held /\ place' = place /\ pc' = pc /\ worker' = worker
        /\ request' = request
    BY DEF UpdateSession, updaterVars
  <1>2. cur'[t] = s /\ \A u \in Threads : u # t => cur'[u] = cur[u]
    BY <1>1 DEF SInv, SessionTypes
  <1>3. s # Nil
    BY SessionsAssumption
  <1>4. World \in Threads /\ Workers \subseteq Threads /\ World \notin Workers
    BY SessionsAssumption DEF Threads
  <1>5. SessionTypes'
    BY <1>1, <1>2, <1>3 DEF SInv, SessionTypes
  <1>6. OwnKinds'
    BY <1>1 DEF SInv, OwnKinds
  <1>7. CASE t = World
    <2>1. pc = "sessions"
      BY <1>1, <1>7 DEF Due
    <2>2. \A w \in Workers : cur'[w] = Nil
      BY <1>2, <1>4, <1>7, <2>1, MapThreadsIdle
    <2>3. InItsTime' /\ OnItsMap'
      BY <1>1, <2>1, <2>2 DEF InItsTime, OnItsMap
    <2>4. SessionExclusive'
      BY <2>2 DEF SessionExclusive, Threads
    <2> QED BY <1>5, <1>6, <2>3, <2>4 DEF SInv
  <1>8. CASE t \in Workers
    <2>1. worker[t] = "update" /\ place[s] = request[t] /\ t \in Busy
      BY <1>1, <1>4, <1>8, BusyIs DEF Due
    <2>2. request[t] # Nil /\ request[t] \in AllMaps
      BY <1>8, <2>1 DEF Busy, IInv, TypeOKUpdater
    <2>3. cur[World] = Nil
      BY <2>1, NothingPending DEF SInv, InItsTime, IInv, NonePending
    <2>4. InItsTime'
      BY <1>2, <1>4, <1>8, <2>3 DEF InItsTime
    <2>5. OnItsMap'
      BY <1>1, <1>2, <1>4, <2>1 DEF SInv, OnItsMap
    <2>6. \A u \in Threads : u # t => cur[u] # s
      <3> SUFFICES ASSUME NEW u \in Workers, u # t, cur[u] = s PROVE FALSE
        BY <1>3, <2>3 DEF Threads
      <3>1. worker[u] = "update" /\ place[s] \in {request[u], "transfer"} /\ u \in Busy
        BY <1>3, BusyIs DEF SInv, OnItsMap
      <3>2. request[u] = request[t]
        BY <2>1, <2>2, <3>1, SessionsAssumption
      <3> QED BY <2>1, <3>1, <3>2 DEF MapsOnce, OneThreadPerMap
    <2>7. SessionExclusive'
      BY <1>2, <2>6 DEF SInv, SessionExclusive
    <2> QED BY <1>5, <1>6, <2>4, <2>5, <2>7 DEF SInv
  <1> QED BY <1>7, <1>8 DEF Threads

\* The packets of a session, up to the end of its update.
LEMMA ServeSteps ==
    ASSUME IInv, SInv, NEW t \in Threads,
           \/ TakePacket(t) \/ Requeue(t) \/ Drop(t) \/ HandleInGame(t)
           \/ HandleMoveWorldportAck(t) \/ HandlePlayerLogin(t)
           \/ HandleCharEnum(t) \/ EndUpdate(t)
    PROVE  SInv'
  <1>1. /\ pc' = pc /\ worker' = worker /\ request' = request
        /\ cur[t] # Nil
        /\ cur' = cur \/ (cur' = [cur EXCEPT ![t] = Nil] /\ held' = held /\ held[t] = Nil)
    BY DEF TakePacket, Requeue, Drop, HandleInGame, HandleMoveWorldportAck,
           HandlePlayerLogin, HandleCharEnum, EndUpdate, HoldsKind, updaterVars,
           SInv, SessionTypes
  <1>2. World \in Threads /\ Workers \subseteq Threads /\ World \notin Workers
    BY SessionsAssumption DEF Threads
  <1>3. \/ held' = held \/ held' = [held EXCEPT ![t] = Nil]
        \/ /\ held' = [held EXCEPT ![t] = Head(recvQueue[cur[t]])]
           /\ Process(t, cur[t], Head(recvQueue[cur[t]]).kind) /\ cur' = cur
    BY DEF TakePacket, Requeue, Drop, HandleInGame, HandleMoveWorldportAck,
           HandlePlayerLogin, HandleCharEnum, EndUpdate, HoldsKind, Takes
  <1>4. \A u \in Threads : /\ u # t => cur'[u] = cur[u] /\ held'[u] = held[u]
                           /\ cur'[u] \in {cur[u], Nil}
    BY <1>1, <1>3 DEF SInv, SessionTypes
  <1>5. place' = place \/ \E p \in {"none", "loading", "transfer"} \cup AllMaps :
          place' = [place EXCEPT ![cur[t]] = p]
    <2>1. CASE HandleInGame(t)
      BY <1>1, <2>1 DEF HandleInGame, SInv, SessionTypes
    <2>2. CASE TakePacket(t) \/ Requeue(t) \/ Drop(t) \/ HandleCharEnum(t)
      BY <2>2 DEF TakePacket, Requeue, Drop, HandleCharEnum
    <2>3. CASE HandleMoveWorldportAck(t) \/ HandlePlayerLogin(t)
      BY <2>3 DEF HandleMoveWorldportAck, HandlePlayerLogin
    <2>4. CASE EndUpdate(t)
      BY <2>4 DEF EndUpdate
    <2> QED BY <2>1, <2>2, <2>3, <2>4
  <1>6. SessionTypes'
    <2>1. cur' \in [Threads -> Sessions \cup {Nil}]
      BY <1>1 DEF SInv, SessionTypes
    <2>2. held' = [u \in Threads |-> held'[u]]
      BY <1>3 DEF SInv, SessionTypes
    <2>3. place' \in [Sessions -> {"none", "loading", "transfer"} \cup AllMaps]
      BY <1>5 DEF SInv, SessionTypes
    <2>4. \A u \in Threads : held'[u] # Nil => cur'[u] # Nil
      <3>1. CASE cur' = cur
        BY <1>1, <1>4, <3>1 DEF SInv, SessionTypes
      <3>2. CASE cur' = [cur EXCEPT ![t] = Nil] /\ held' = held /\ held[t] = Nil
        BY <1>4, <3>2 DEF SInv, SessionTypes
      <3> QED BY <1>1, <3>1, <3>2
    <2> QED BY <2>1, <2>2, <2>3, <2>4 DEF SessionTypes
  <1>7. InItsTime' /\ SessionExclusive'
    <2>1. InItsTime'
      BY <1>1, <1>2, <1>4 DEF SInv, InItsTime
    <2>2. SessionExclusive'
      BY <1>4 DEF SInv, SessionExclusive
    <2> QED BY <2>1, <2>2
  <1>8. OwnKinds'
    <2> SUFFICES ASSUME NEW w \in Workers, held'[w] # Nil
                 PROVE  held'[w].kind \in {"move", "query"}
      BY DEF OwnKinds
    <2>1. CASE held'[w] = held[w]
      BY <2>1 DEF SInv, OwnKinds
    <2>2. CASE held'[w] # held[w]
      <3>1. w = t
        BY <1>2, <1>4, <2>2
      <3>2. held'[w] = Head(recvQueue[cur[t]]) /\ Process(w, cur[t], held'[w].kind)
        BY <1>2, <1>3, <2>2, <3>1 DEF SInv, SessionTypes
      <3> QED BY <1>2, <3>2 DEF Process
    <2> QED BY <2>1, <2>2
  <1>9. OnItsMap'
    <2>1. CASE t = World
      <3>1. \A w \in Workers : cur[w] = Nil
        BY <1>1, <2>1, MapThreadsIdle DEF SInv, InItsTime
      <3> QED BY <1>2, <1>4, <3>1 DEF OnItsMap
    <2>2. CASE t \in Workers
      <3>1. held[t] # Nil => held[t].kind \in {"move", "query"}
        BY <2>2 DEF SInv, OwnKinds
      <3>2. place[cur[t]] \in {request[t], "transfer"} /\ t # World /\ worker[t] = "update"
        BY <1>1, <1>2, <2>2 DEF SInv, OnItsMap
      <3>3. request[t] \in AllMaps
        BY <2>2, <3>2, BusyIs DEF Busy, IInv, TypeOKUpdater
      <3>4. place' = place \/ place' = [place EXCEPT ![cur[t]] = "transfer"]
        <4>1. place[cur[t]] \notin {"none", "loading"}
          BY <3>2, <3>3, SessionsAssumption
        <4>2. CASE HandleInGame(t)
          <5>1. PICK p \in {place[cur[t]], "transfer"} : place' = [place EXCEPT ![cur[t]] = p]
            BY <4>2 DEF HandleInGame
          <5>2. p = place[cur[t]] => place' = place
            BY <5>1 DEF SInv, SessionTypes
          <5> QED BY <5>1, <5>2
        <4>3. CASE TakePacket(t) \/ Requeue(t) \/ Drop(t) \/ HandleCharEnum(t)
          BY <4>3 DEF TakePacket, Requeue, Drop, HandleCharEnum
        <4>4. CASE HandleMoveWorldportAck(t) \/ HandlePlayerLogin(t)
          BY <3>1, <4>4 DEF HandleMoveWorldportAck, HandlePlayerLogin, HoldsKind
        <4>5. CASE EndUpdate(t)
          BY <3>2, <4>1, <4>5 DEF EndUpdate
        <4> QED BY <4>2, <4>3, <4>4, <4>5
      <3>5. \A s \in Sessions : place'[s] \in {place[s], "transfer"}
        BY <3>4 DEF SInv, SessionTypes
      <3> SUFFICES ASSUME NEW w \in Workers, cur'[w] # Nil
                   PROVE  worker[w] = "update" /\ place'[cur'[w]] \in {request[w], "transfer"}
        BY <1>1 DEF OnItsMap
      <3>6. cur'[w] = cur[w] /\ cur[w] \in Sessions
        BY <1>2, <1>4 DEF SInv, SessionTypes
      <3> QED BY <3>5, <3>6 DEF SInv, OnItsMap
    <2> QED BY <2>1, <2>2 DEF Threads
  <1> QED BY <1>6, <1>7, <1>8, <1>9 DEF SInv

\* The steps of the pool and of the world loop move no session.
LEMMA LoopSteps ==
    ASSUME IInv, SInv, cur' = cur, held' = held, place' = place,
           NextUpdater,
           pc = "sessions" /\ pc' # "sessions" => cur[World] = Nil,
           \A w \in Workers : MapUpdated(w) => cur[w] = Nil
    PROVE  SInv'
  <1>1. SessionTypes' /\ OwnKinds' /\ SessionExclusive'
    BY DEF SInv, SessionTypes, OwnKinds, SessionExclusive
  <1>2. InItsTime'
    BY DEF SInv, InItsTime
  <1>3. \A w \in Workers : worker[w] = "update" /\ ~MapUpdated(w) =>
          worker'[w] = "update" /\ request'[w] = request[w]
    <2>1. CASE SessionsDone \/ Stop \/ Spurious
      BY <2>1 DEF SessionsDone, Stop, WorldSteps, Spurious, IInv, TypeOKUpdater
    <2>2. ASSUME NEW m \in AllMaps, schedule_update(m, worker), request' = request
          PROVE  \A w \in Workers : worker[w] = "update" =>
                   worker'[w] = "update" /\ request'[w] = request[w]
      BY <2>2 DEF schedule_update, NotifyOne, IInv, TypeOKUpdater
    <2>3. CASE WorldThread
      <3>1. CASE \E m \in BaseMaps : ScheduleMap(m)
        BY <2>2, <3>1 DEF ScheduleMap, AllMaps
      <3>2. CASE CancelNotify
        BY <3>2 DEF CancelNotify
      <3>3. CASE ~CancelNotify /\ ~\E m \in BaseMaps : ScheduleMap(m)
        BY <2>3, <3>3 DEF WorldThread, AllScheduled, wait, WorldSteps, UnloadAll,
           Cancel, Join
      <3> QED BY <3>1, <3>2, <3>3
    <2>4. ASSUME NEW v \in Workers, WorkerThread(v) \/ MapUpdated(v)
          PROVE  \A w \in Workers : worker[w] = "update" /\ ~MapUpdated(w) =>
                   worker'[w] = "update" /\ request'[w] = request[w]
      <3>1. CASE \E i \in Instances : ScheduleInstance(v, i)
        BY <2>2, <3>1 DEF ScheduleInstance, AllMaps
      <3>2. CASE WaitAndPop(v)
        BY <3>2 DEF WaitAndPop, IInv, TypeOKUpdater
      <3>3. CASE TestToken(v) \/ update_finished(v)
        BY <3>3 DEF TestToken, update_finished, IInv, TypeOKUpdater
      <3>4. CASE MapUpdated(v)
        <4>1. request' = request /\ worker' = [worker EXCEPT ![v] = "instances"]
          BY <3>4 DEF MapUpdated
        <4>2. \A w \in Workers : w # v => worker'[w] = worker[w]
          BY <4>1 DEF IInv, TypeOKUpdater
        <4> QED BY <3>4, <4>1, <4>2
      <3> QED BY <2>4, <3>1, <3>2, <3>3, <3>4 DEF WorkerThread
    <2> QED BY <2>1, <2>3, <2>4 DEF NextUpdater
  <1>4. OnItsMap'
    BY <1>3 DEF SInv, OnItsMap
  <1> QED BY <1>1, <1>2, <1>4 DEF SInv

LEMMA SInvStep == IInv /\ MapsOnce /\ SInv /\ [Next]_vars => SInv'
  <1> SUFFICES ASSUME IInv, MapsOnce, SInv, [Next]_vars PROVE SInv'
    OBVIOUS
  <1>0. ASSUME cur' = cur, held' = held, place' = place, UNCHANGED updaterVars
        PROVE  SInv'
    BY <1>0 DEF updaterVars, SInv, SessionTypes, InItsTime, OnItsMap, OwnKinds,
                SessionExclusive
  <1>1. CASE UNCHANGED vars
    BY <1>0, <1>1 DEF vars, sessionVars
  <1>2. ASSUME NEW s \in Sessions, NEW k \in Kinds, QueuePacket(s, k) PROVE SInv'
    BY <1>0, <1>2 DEF QueuePacket
  <1>3. ASSUME NEW t \in Threads, Serve(t) PROVE SInv'
    BY <1>3, TakeSession, ServeSteps DEF Serve
  <1>4. ASSUME NEW s \in Sessions, ScriptTeleport(s) PROVE SInv'
    <2>1. /\ pc = "script" /\ cur' = cur /\ held' = held /\ UNCHANGED updaterVars
          /\ place' = [place EXCEPT ![s] = "transfer"]
      BY <1>4 DEF ScriptTeleport
    <2>2. \A w \in Workers : cur[w] = Nil
      BY <2>1, MapThreadsIdle
    <2>3. place' \in [Sessions -> {"none", "loading", "transfer"} \cup AllMaps]
      BY <2>1 DEF SInv, SessionTypes
    <2>4. SessionTypes'
      BY <2>1, <2>3 DEF SInv, SessionTypes
    <2> QED BY <2>1, <2>2, <2>4
            DEF updaterVars, SInv, InItsTime, OnItsMap, OwnKinds, SessionExclusive
  <1>5. CASE UpdateMaps \/ UnloadMaps
    <2>1. /\ cur[World] = Nil /\ cur' = cur /\ held' = held /\ place' = place
          /\ NextUpdater /\ pc = "sessions"
      BY <1>5 DEF UpdateMaps, UnloadMaps, RoundDone, NextUpdater, SessionsDone,
                  Stop, WorldSteps
    <2>2. \A w \in Workers : cur[w] = Nil
      BY <2>1, MapThreadsIdle
    <2> QED BY <2>1, <2>2, LoopSteps
  <1>6. ASSUME NEW w \in Workers, MapUpdated(w), RoundDone(w) PROVE SInv'
    <2>1. /\ cur[w] = Nil /\ cur' = cur /\ held' = held /\ place' = place
          /\ NextUpdater /\ pc' = pc
      BY <1>6 DEF RoundDone, NextUpdater, MapUpdated
    <2>2. \A v \in Workers : MapUpdated(v) => v = w
      <3> SUFFICES ASSUME NEW v \in Workers, MapUpdated(v), v # w PROVE FALSE
        OBVIOUS
      <3>1. /\ worker[v] = "update" /\ worker' = [worker EXCEPT ![v] = "instances"]
            /\ worker[w] = "update" /\ worker' = [worker EXCEPT ![w] = "instances"]
        BY <1>6 DEF MapUpdated
      <3> QED BY <3>1 DEF IInv, TypeOKUpdater
    <2> QED BY <2>1, <2>2, LoopSteps
  <1>7. ASSUME NEW w \in Workers, WorkerThread(w), UNCHANGED sessionVars PROVE SInv'
    <2>1. /\ cur' = cur /\ held' = held /\ place' = place /\ NextUpdater
      BY <1>7 DEF sessionVars, NextUpdater
    <2>2. pc' = pc \/ pc \in {"asleep", "lastSleep"}
      BY <1>7 DEF WorkerThread, WaitAndPop, TestToken, ScheduleInstance,
                  update_finished, Notified
    <2>3. \A v \in Workers : ~MapUpdated(v)
      <3> SUFFICES ASSUME NEW v \in Workers, MapUpdated(v) PROVE FALSE
        OBVIOUS
      <3>1. worker[v] = "update" /\ worker'[v] = "instances"
        BY DEF MapUpdated, IInv, TypeOKUpdater
      <3>2. CASE WaitAndPop(w) \/ TestToken(w) \/ update_finished(w)
        BY <3>1, <3>2 DEF WaitAndPop, TestToken, update_finished, IInv, TypeOKUpdater
      <3>3. CASE \E i \in Instances : ScheduleInstance(w, i)
        BY <3>1, <3>3 DEF ScheduleInstance, schedule_update, NotifyOne, IInv,
                          TypeOKUpdater
      <3> QED BY <1>7, <3>2, <3>3 DEF WorkerThread
    <2> QED BY <2>1, <2>2, <2>3, LoopSteps
  <1>8. CASE (WorldThread \/ Spurious) /\ UNCHANGED sessionVars
    <2>1. /\ cur' = cur /\ held' = held /\ place' = place /\ NextUpdater
      BY <1>8 DEF sessionVars, NextUpdater
    <2>2. pc # "sessions" \/ pc' = pc
      BY <1>8 DEF WorldThread, Spurious, ScheduleMap, AllScheduled, wait,
                  WorldSteps, UnloadAll, Cancel, CancelNotify, Join, Notified
    <2>3. \A v \in Workers : ~MapUpdated(v)
      <3> SUFFICES ASSUME NEW v \in Workers, MapUpdated(v) PROVE FALSE
        OBVIOUS
      <3>1. worker[v] = "update" /\ worker'[v] = "instances"
        BY DEF MapUpdated, IInv, TypeOKUpdater
      <3>2. CASE Spurious \/ CancelNotify
        BY <3>1, <3>2 DEF Spurious, CancelNotify, IInv, TypeOKUpdater
      <3>3. CASE \E m \in BaseMaps : ScheduleMap(m)
        BY <3>1, <3>3 DEF ScheduleMap, schedule_update, NotifyOne, IInv,
                          TypeOKUpdater
      <3>4. CASE AllScheduled \/ wait("wait", "asleep", "delayed") \/ UnloadAll
                 \/ WorldSteps("delayed", "script") \/ WorldSteps("script", "sessions")
                 \/ wait("lastWait", "lastSleep", "cancel") \/ Cancel \/ Join
        BY <3>1, <3>4 DEF AllScheduled, wait, WorldSteps, UnloadAll, Cancel, Join
      <3> QED BY <1>8, <3>2, <3>3, <3>4 DEF WorldThread
    <2> QED BY <2>1, <2>2, <2>3, LoopSteps
  <1> QED BY <1>1, <1>2, <1>3, <1>4, <1>5, <1>6, <1>7, <1>8 DEF Next, MapThread

\* No session is ever updated by two threads at once, whatever the number of
\* threads, maps, instances and packets: WorldSession::Update needs no lock.
THEOREM SessionsExclusive == Spec => []SessionExclusive
  <1>1. Init => IInv /\ MapsOnce /\ SInv
    BY IInvInit, MapsOnceInit, SInvInit DEF Init
  <1>2. IInv /\ MapsOnce /\ SInv /\ [Next]_vars => IInv' /\ MapsOnce' /\ SInv'
    BY IInvStep, PoolStep, MapsOnceStep, SInvStep
  <1>3. SInv => SessionExclusive
    BY DEF SInv
  <1> QED BY <1>1, <1>2, <1>3, PTL DEF Spec

------------------------------------------------------------------------------
(***************************************************************************)
(* The order of a client's packets.  Q is the queue of the session; h the  *)
(* packet its thread holds, d its firstDelayedPacket, c the packets it has *)
(* taken; lt the late packets, sn the number sent, l the last one handled. *)
(* While packets are put back the queue is in two parts: from position k   *)
(* on those that were put back and those that came meanwhile, before k     *)
(* those still to be looked at.  In the order they will be handled in, the *)
(* first part comes first, then h, then the second.  Without delayed       *)
(* packets k is behind the end.                                            *)
(***************************************************************************)
Before(x, y, lt) == x < y \/ x \in lt

Numbers(Q, h, sn) ==
    /\ \A i \in 1..Len(Q) : Q[i].n \in 1..sn
    /\ \A i, j \in 1..Len(Q) : Q[i].n = Q[j].n => i = j
    /\ h # Nil => h.n \in 1..sn /\ \A i \in 1..Len(Q) : Q[i].n # h.n
    /\ Len(Q) <= sn /\ (h # Nil => Len(Q) < sn)

Followed(Q, h, lt, sn, l) ==
    /\ l \in 0..sn
    /\ \A i \in 1..Len(Q) : Before(l, Q[i].n, lt)
    /\ h # Nil => Before(l, h.n, lt)

Row(Q, h, lt, k) ==
    /\ \A i, j \in 1..Len(Q) : i < j /\ (j < k \/ k <= i) => Before(Q[i].n, Q[j].n, lt)
    /\ \A i, j \in 1..Len(Q) : k <= i /\ j < k => Before(Q[i].n, Q[j].n, lt)
    /\ h # Nil => \A i \in 1..Len(Q) :
         IF k <= i THEN Before(Q[i].n, h.n, lt) ELSE Before(h.n, Q[i].n, lt)

\* One Update gets round: what it has taken and what it has still to look at
\* is no more than what was sent.
Turn(Q, d, c, sn, k) ==
    /\ d = 0 => k = Len(Q) + 1
    /\ d # 0 => k <= Len(Q) /\ Q[k].n = d
    /\ c + (k - 1) <= sn

Lined(Q, h, d, c, lt, sn, l) ==
    /\ Numbers(Q, h, sn) /\ Followed(Q, h, lt, sn, l)
    /\ \E k \in 1..(Len(Q) + 1) : Turn(Q, d, c, sn, k) /\ Row(Q, h, lt, k)

\* A packet arrives.
LEMMA Arrives ==
    ASSUME NEW Q \in Seq(Packet), NEW h, NEW d \in Nat, NEW c \in Nat, NEW lt,
           NEW sn \in Nat, NEW l, Lined(Q, h, d, c, lt, sn, l),
           NEW x \in Packet, x.n = sn + 1,
           NEW lu, lu = IF d = 0 THEN lt ELSE lt \cup {sn + 1}
    PROVE  Lined(Append(Q, x), h, d, c, lu, sn + 1, l)
  <1> DEFINE R == Append(Q, x)
             N == Len(Q)
  <1>1. /\ N \in Nat /\ Len(R) = N + 1 /\ R[N + 1] = x
        /\ \A i \in 1..N : R[i] = Q[i]
        /\ \A i \in 1..(N + 1) : i \in 1..N \/ i = N + 1
    OBVIOUS
  <1>2. PICK k \in 1..(N + 1) : Turn(Q, d, c, sn, k) /\ Row(Q, h, lt, k)
    BY DEF Lined
  <1> HIDE DEF R, N
  <1>3. Numbers(R, h, sn + 1)
    <2>1. /\ \A i \in 1..N : Q[i].n \in 1..sn
          /\ \A i, j \in 1..N : Q[i].n = Q[j].n => i = j
          /\ h # Nil => h.n \in 1..sn /\ (\A i \in 1..N : Q[i].n # h.n) /\ N < sn
          /\ N <= sn
      BY DEF Lined, Numbers, N
    <2>2. \A i \in 1..(N + 1) : R[i].n \in 1..(sn + 1)
      BY <1>1, <2>1
    <2>3. \A i \in 1..N : R[i].n # sn + 1
      BY <1>1, <2>1
    <2>4. ASSUME NEW i \in 1..(N + 1), NEW j \in 1..(N + 1), R[i].n = R[j].n PROVE i = j
      <3>1. CASE i \in 1..N /\ j \in 1..N
        BY <1>1, <2>1, <2>4, <3>1
      <3>2. CASE i = N + 1 \/ j = N + 1
        BY <1>1, <2>3, <2>4, <3>2
      <3> QED BY <1>1, <3>1, <3>2
    <2>5. h # Nil => h.n \in 1..(sn + 1) /\ \A i \in 1..(N + 1) : R[i].n # h.n
      BY <1>1, <2>1
    <2>6. Len(R) <= sn + 1 /\ (h # Nil => Len(R) < sn + 1)
      BY <1>1, <2>1
    <2> QED BY <1>1, <2>2, <2>4, <2>5, <2>6 DEF Numbers
  <1>4. Followed(R, h, lu, sn + 1, l)
    BY <1>1 DEF Lined, Followed, Before, N
  <1>5. CASE d = 0
    <2>1. k = N + 1
      BY <1>2, <1>5 DEF Turn, N
    <2>2. Turn(R, d, c, sn + 1, N + 2)
      BY <1>1, <1>2, <1>5, <2>1 DEF Turn
    <2>3. Row(R, h, lu, N + 2)
      <3>1. \A i \in 1..N : Q[i].n < sn + 1
        BY DEF Lined, Numbers, N
      <3>2. h # Nil => h.n < sn + 1
        BY DEF Lined, Numbers
      <3>3. lu = lt /\ \A i \in 1..(N + 1) : i < N + 2 /\ ~(N + 2 <= i)
        BY <1>1, <1>5
      <3>4. \A i, j \in 1..N : i < j => Before(Q[i].n, Q[j].n, lt)
        BY <1>1, <1>2, <2>1 DEF Row, N
      <3>5. h # Nil => \A i \in 1..N : Before(h.n, Q[i].n, lt)
        BY <1>1, <1>2, <2>1 DEF Row, N
      <3>6. ASSUME NEW i \in 1..(N + 1), NEW j \in 1..(N + 1), i < j
            PROVE  Before(R[i].n, R[j].n, lu)
        <4>1. i \in 1..N
          BY <1>1, <3>6
        <4>2. CASE j \in 1..N
          BY <1>1, <3>3, <3>4, <3>6, <4>1, <4>2
        <4>3. CASE j = N + 1
          BY <1>1, <3>1, <4>1, <4>3 DEF Before
        <4> QED BY <1>1, <4>2, <4>3
      <3>7. ASSUME h # Nil, NEW i \in 1..(N + 1) PROVE Before(h.n, R[i].n, lu)
        <4>1. CASE i \in 1..N
          BY <1>1, <3>3, <3>5, <3>7, <4>1
        <4>2. CASE i = N + 1
          BY <1>1, <3>2, <3>7, <4>2 DEF Before
        <4> QED BY <1>1, <4>1, <4>2
      <3> QED BY <1>1, <3>3, <3>6, <3>7 DEF Row
    <2>4. N + 2 \in 1..(Len(R) + 1)
      BY <1>1
    <2> QED BY <1>3, <1>4, <2>2, <2>3, <2>4 DEF Lined, R
  <1>6. CASE d # 0
    <2>1. k \in 1..N /\ Q[k].n = d
      BY <1>1, <1>2, <1>6 DEF Turn, N
    <2>2. Turn(R, d, c, sn + 1, k)
      BY <1>1, <1>2, <1>6, <2>1 DEF Turn
    <2>3. Row(R, h, lu, k)
      <3>1. \A i \in 1..N : Q[i].n < sn + 1
        BY DEF Lined, Numbers, N
      <3>2. x.n \in lu /\ lt \subseteq lu
        BY <1>6
      <3>3. /\ \A i, j \in 1..N : i < j /\ (j < k \/ k <= i) => Before(Q[i].n, Q[j].n, lu)
            /\ \A i, j \in 1..N : k <= i /\ j < k => Before(Q[i].n, Q[j].n, lu)
            /\ h # Nil => \A i \in 1..N :
                 IF k <= i THEN Before(Q[i].n, h.n, lu) ELSE Before(h.n, Q[i].n, lu)
        BY <1>2, <3>2 DEF Row, Before, N
      <3>4. \A i \in 1..N : Before(Q[i].n, x.n, lu)
        BY <3>1 DEF Before
      <3>5. \A y : Before(x.n, y, lu)
        BY <3>2 DEF Before
      <3>6. ASSUME NEW i \in 1..(N + 1), NEW j \in 1..(N + 1), i < j, j < k \/ k <= i
            PROVE  Before(R[i].n, R[j].n, lu)
        <4>1. i \in 1..N
          BY <1>1, <3>6
        <4>2. CASE j \in 1..N
          <5>1. Before(Q[i].n, Q[j].n, lu)
            BY <3>3, <3>6, <4>1, <4>2
          <5> QED BY <1>1, <4>1, <4>2, <5>1
        <4>3. CASE j = N + 1
          <5>1. Before(Q[i].n, x.n, lu) /\ R[j] = x /\ R[i] = Q[i]
            BY <1>1, <3>4, <4>1, <4>3
          <5> QED BY <5>1
        <4> QED BY <1>1, <4>2, <4>3
      <3>7. ASSUME NEW i \in 1..(N + 1), NEW j \in 1..(N + 1), k <= i, j < k
            PROVE  Before(R[i].n, R[j].n, lu)
        <4>1. j \in 1..N /\ R[j] = Q[j]
          BY <1>1, <2>1, <3>7
        <4>2. CASE i \in 1..N
          <5>1. Before(Q[i].n, Q[j].n, lu)
            BY <3>3, <3>7, <4>1, <4>2
          <5> QED BY <1>1, <4>1, <4>2, <5>1
        <4>3. CASE i = N + 1
          <5>1. Before(x.n, R[j].n, lu) /\ R[i] = x
            BY <1>1, <3>5, <4>3
          <5> QED BY <5>1
        <4> QED BY <1>1, <4>2, <4>3
      <3>8. ASSUME h # Nil, NEW i \in 1..(N + 1)
            PROVE  IF k <= i THEN Before(R[i].n, h.n, lu) ELSE Before(h.n, R[i].n, lu)
        <4>1. CASE i \in 1..N
          BY <1>1, <3>3, <3>8, <4>1
        <4>2. CASE i = N + 1
          <5>1. k <= i /\ R[i] = x
            BY <1>1, <2>1, <4>2
          <5>2. Before(x.n, h.n, lu)
            BY <3>2 DEF Before
          <5> QED BY <5>1, <5>2
        <4> QED BY <1>1, <4>1, <4>2
      <3> QED BY <1>1, <3>6, <3>7, <3>8 DEF Row
    <2>4. k \in 1..(Len(R) + 1)
      BY <1>1, <2>1
    <2> QED BY <1>3, <1>4, <2>2, <2>3, <2>4 DEF Lined, R
  <1> QED BY <1>5, <1>6

\* The next packet is taken.
LEMMA Taken ==
    ASSUME NEW Q \in Seq(Packet), NEW d \in Nat, NEW c \in Nat, NEW lt,
           NEW sn \in Nat, NEW l, Lined(Q, Nil, d, c, lt, sn, l),
           Q # <<>>, Head(Q).n # d
    PROVE  Lined(Tail(Q), Head(Q), d, c + 1, lt, sn, l)
  <1> DEFINE R == Tail(Q)
             N == Len(Q)
             x == Head(Q)
  <1>1. /\ N \in Nat \ {0} /\ Len(R) = N - 1 /\ x = Q[1]
        /\ \A i \in 1..(N - 1) : R[i] = Q[i + 1] /\ i + 1 \in 1..N /\ i \in 1..N
        /\ 1 \in 1..N
    OBVIOUS
  <1>2. PICK k \in 1..(N + 1) : Turn(Q, d, c, sn, k) /\ Row(Q, Nil, lt, k)
    BY DEF Lined
  <1>3. k > 1 /\ k - 1 \in 1..N /\ k \in Nat
    BY <1>1, <1>2 DEF Turn
  <1> HIDE DEF R, N, x
  <1>4. Numbers(R, x, sn)
    <2>1. /\ \A i \in 1..N : Q[i].n \in 1..sn
          /\ \A i, j \in 1..N : Q[i].n = Q[j].n => i = j
          /\ N <= sn
      BY DEF Lined, Numbers, N
    <2>2. \A i \in 1..(N - 1) : R[i].n \in 1..sn
      BY <1>1, <2>1
    <2>3. ASSUME NEW i \in 1..(N - 1), NEW j \in 1..(N - 1), R[i].n = R[j].n PROVE i = j
      <3>1. /\ i + 1 \in 1..N /\ j + 1 \in 1..N
            /\ Q[i + 1].n = Q[j + 1].n
        BY <1>1, <2>3
      <3>2. i + 1 = j + 1
        BY <2>1, <3>1
      <3> QED BY <3>2
    <2>4. ASSUME NEW i \in 1..(N - 1) PROVE R[i].n # x.n
      <3>1. i + 1 # 1 /\ i + 1 \in 1..N /\ 1 \in 1..N
        BY <1>1
      <3> QED BY <1>1, <2>1, <3>1
    <2>5. x.n \in 1..sn
      BY <1>1, <2>1
    <2>6. Len(R) <= sn /\ Len(R) < sn
      BY <1>1, <2>1
    <2> QED BY <1>1, <2>2, <2>3, <2>4, <2>5, <2>6 DEF Numbers
  <1>5. Followed(R, x, lt, sn, l)
    BY <1>1 DEF Lined, Followed, N
  <1>6. Turn(R, d, c + 1, sn, k - 1)
    <2>1. d = 0 => k - 1 = Len(R) + 1
      BY <1>1, <1>2 DEF Turn, N
    <2>2. d # 0 => k - 1 <= Len(R) /\ R[k - 1].n = d
      <3> SUFFICES ASSUME d # 0 PROVE k - 1 <= Len(R) /\ R[k - 1].n = d
        OBVIOUS
      <3>1. k <= N /\ Q[k].n = d
        BY <1>2 DEF Turn, N
      <3>2. k - 1 \in 1..(N - 1) /\ (k - 1) + 1 = k
        BY <1>1, <1>3, <3>1
      <3>3. R[k - 1] = Q[k]
        BY <1>1, <3>2
      <3> QED BY <1>1, <3>1, <3>2, <3>3
    <2>3. (c + 1) + ((k - 1) - 1) <= sn
      BY <1>2, <1>3 DEF Turn
    <2> QED BY <2>1, <2>2, <2>3 DEF Turn
  <1>7. Row(R, x, lt, k - 1)
    <2>0. /\ \A i, j \in 1..N : i < j /\ (j < k \/ k <= i) => Before(Q[i].n, Q[j].n, lt)
          /\ \A i, j \in 1..N : k <= i /\ j < k => Before(Q[i].n, Q[j].n, lt)
      BY <1>2 DEF Row, N
    <2>1. ASSUME NEW i \in 1..(N - 1), NEW j \in 1..(N - 1), i < j, j < k - 1 \/ k - 1 <= i
          PROVE  Before(R[i].n, R[j].n, lt)
      <3>1. i + 1 < j + 1 /\ (j + 1 < k \/ k <= i + 1)
        BY <1>3, <2>1
      <3>2. Before(Q[i + 1].n, Q[j + 1].n, lt)
        BY <1>1, <2>0, <3>1
      <3> QED BY <1>1, <3>2
    <2>2. ASSUME NEW i \in 1..(N - 1), NEW j \in 1..(N - 1), k - 1 <= i, j < k - 1
          PROVE  Before(R[i].n, R[j].n, lt)
      <3>1. k <= i + 1 /\ j + 1 < k
        BY <1>3, <2>2
      <3>2. Before(Q[i + 1].n, Q[j + 1].n, lt)
        BY <1>1, <2>0, <3>1
      <3> QED BY <1>1, <3>2
    <2>3. ASSUME NEW i \in 1..(N - 1)
          PROVE  IF k - 1 <= i THEN Before(R[i].n, x.n, lt) ELSE Before(x.n, R[i].n, lt)
      <3>1. CASE k - 1 <= i
        <4>1. k <= i + 1 /\ 1 < k
          BY <1>3, <3>1
        <4>2. Before(Q[i + 1].n, Q[1].n, lt)
          BY <1>1, <2>0, <4>1
        <4> QED BY <1>1, <3>1, <4>2
      <3>2. CASE ~(k - 1 <= i)
        <4>1. 1 < i + 1 /\ i + 1 < k
          BY <1>3, <3>2
        <4>2. Before(Q[1].n, Q[i + 1].n, lt)
          BY <1>1, <2>0, <4>1
        <4> QED BY <1>1, <3>2, <4>2
      <3> QED BY <3>1, <3>2
    <2> QED BY <1>1, <2>1, <2>2, <2>3 DEF Row
  <1>8. k - 1 \in 1..(Len(R) + 1)
    BY <1>1, <1>3
  <1> QED BY <1>4, <1>5, <1>6, <1>7, <1>8 DEF Lined, R, x

\* A packet is put back.
LEMMA PutBack ==
    ASSUME NEW Q \in Seq(Packet), NEW h \in Packet, h # Nil, NEW d \in Nat, NEW c \in Nat,
           NEW lt, NEW sn \in Nat, NEW l, Lined(Q, h, d, c, lt, sn, l),
           NEW e, e = IF d = 0 THEN h.n ELSE d
    PROVE  Lined(Append(Q, h), Nil, e, c, lt, sn, l)
  <1> DEFINE R == Append(Q, h)
             N == Len(Q)
  <1>1. /\ N \in Nat /\ Len(R) = N + 1 /\ R[N + 1] = h
        /\ \A i \in 1..N : R[i] = Q[i]
        /\ \A i \in 1..(N + 1) : i \in 1..N \/ i = N + 1
    OBVIOUS
  <1>2. PICK k \in 1..(N + 1) : Turn(Q, d, c, sn, k) /\ Row(Q, h, lt, k)
    BY DEF Lined
  <1>3. h.n \in 1..sn /\ h.n # 0
    BY DEF Lined, Numbers
  <1> HIDE DEF R, N
  <1>4. Numbers(R, Nil, sn)
    <2>1. /\ \A i \in 1..N : Q[i].n \in 1..sn
          /\ \A i, j \in 1..N : Q[i].n = Q[j].n => i = j
          /\ h.n \in 1..sn /\ (\A i \in 1..N : Q[i].n # h.n)
          /\ N <= sn /\ N < sn
      BY DEF Lined, Numbers, N
    <2>2. \A i \in 1..(N + 1) : R[i].n \in 1..sn
      BY <1>1, <2>1
    <2>3. ASSUME NEW i \in 1..(N + 1), NEW j \in 1..(N + 1), R[i].n = R[j].n PROVE i = j
      <3>1. CASE i \in 1..N /\ j \in 1..N
        BY <1>1, <2>1, <2>3, <3>1
      <3>2. CASE i = N + 1 \/ j = N + 1
        BY <1>1, <2>1, <2>3, <3>2
      <3> QED BY <1>1, <3>1, <3>2
    <2>4. Len(R) <= sn
      BY <1>1, <2>1
    <2> QED BY <1>1, <2>2, <2>3, <2>4 DEF Numbers
  <1>5. Followed(R, Nil, lt, sn, l)
    BY <1>1 DEF Lined, Followed, N
  <1>6. Turn(R, e, c, sn, k)
    BY <1>1, <1>2, <1>3 DEF Turn, N
  <1>7. Row(R, Nil, lt, k)
    <2>1. /\ \A i, j \in 1..N : i < j /\ (j < k \/ k <= i) => Before(Q[i].n, Q[j].n, lt)
          /\ \A i, j \in 1..N : k <= i /\ j < k => Before(Q[i].n, Q[j].n, lt)
          /\ \A i \in 1..N : IF k <= i THEN Before(Q[i].n, h.n, lt)
                                       ELSE Before(h.n, Q[i].n, lt)
      BY <1>2 DEF Row, N
    <2>2. ASSUME NEW i \in 1..(N + 1), NEW j \in 1..(N + 1), i < j, j < k \/ k <= i
          PROVE  Before(R[i].n, R[j].n, lt)
      <3>1. i \in 1..N
        BY <1>1, <2>2
      <3>2. CASE j \in 1..N
        BY <1>1, <2>1, <2>2, <3>1, <3>2
      <3>3. CASE j = N + 1
        <4>1. k <= i
          BY <1>1, <1>2, <2>2, <3>3
        <4> QED BY <1>1, <2>1, <3>1, <3>3, <4>1
      <3> QED BY <1>1, <3>2, <3>3
    <2>3. ASSUME NEW i \in 1..(N + 1), NEW j \in 1..(N + 1), k <= i, j < k
          PROVE  Before(R[i].n, R[j].n, lt)
      <3>1. j \in 1..N
        BY <1>1, <1>2, <2>3
      <3>2. CASE i \in 1..N
        BY <1>1, <2>1, <2>3, <3>1, <3>2
      <3>3. CASE i = N + 1
        <4>1. ~(k <= j)
          BY <1>1, <1>2, <2>3, <3>1
        <4> QED BY <1>1, <2>1, <3>1, <3>3, <4>1
      <3> QED BY <1>1, <3>2, <3>3
    <2> QED BY <1>1, <2>2, <2>3 DEF Row
  <1>8. k \in 1..(Len(R) + 1)
    BY <1>1
  <1> QED BY <1>4, <1>5, <1>6, <1>7, <1>8 DEF Lined, R

\* The packet in hand is gone.
LEMMA Dropped ==
    ASSUME NEW Q \in Seq(Packet), NEW h, NEW d, NEW c,
           NEW lt, NEW sn \in Nat, NEW l, Lined(Q, h, d, c, lt, sn, l)
    PROVE  Lined(Q, Nil, d, c, lt, sn, l)
  BY DEF Lined, Numbers, Followed, Row

\* The packet in hand is handled, and nothing was put back before.
LEMMA Handled ==
    ASSUME NEW Q \in Seq(Packet), NEW h \in Packet, h # Nil, NEW c \in Nat,
           NEW lt, NEW sn \in Nat, NEW l, Lined(Q, h, 0, c, lt, sn, l)
    PROVE  Lined(Q, Nil, 0, c, lt, sn, h.n) /\ Before(l, h.n, lt)
  <1>1. PICK k \in 1..(Len(Q) + 1) : Turn(Q, 0, c, sn, k) /\ Row(Q, h, lt, k)
    BY DEF Lined
  <1>2. k = Len(Q) + 1 /\ Len(Q) \in Nat
    BY <1>1 DEF Turn
  <1>3. \A i \in 1..Len(Q) : Before(h.n, Q[i].n, lt)
    BY <1>1, <1>2 DEF Row
  <1>4. h.n \in 0..sn
    BY DEF Lined, Numbers
  <1>5. Followed(Q, Nil, lt, sn, h.n)
    BY <1>3, <1>4 DEF Followed
  <1>6. Numbers(Q, Nil, sn) /\ Row(Q, Nil, lt, k)
    BY <1>1 DEF Lined, Numbers, Row
  <1>7. Before(l, h.n, lt)
    BY DEF Lined, Followed
  <1> QED BY <1>1, <1>5, <1>6, <1>7 DEF Lined

\* The update is over: either nothing was put back, or all of it was, and the
\* queue has come round.
LEMMA Ended ==
    ASSUME NEW Q \in Seq(Packet), NEW d \in Nat, NEW c \in Nat,
           NEW lt, NEW sn \in Nat, NEW l, Lined(Q, Nil, d, c, lt, sn, l),
           d = 0 \/ (Q # <<>> /\ Head(Q).n = d)
    PROVE  Lined(Q, Nil, 0, 0, lt, sn, l)
  <1> DEFINE N == Len(Q)
  <1>1. PICK k \in 1..(N + 1) : Turn(Q, d, c, sn, k) /\ Row(Q, Nil, lt, k)
    BY DEF Lined
  <1>2. N \in Nat /\ N <= sn /\ N + 1 \in 1..(N + 1)
    BY DEF Lined, Numbers
  <1>3. Turn(Q, 0, 0, sn, N + 1)
    BY <1>2 DEF Turn
  <1>4. k = N + 1 \/ k = 1
    <2>1. CASE d = 0
      BY <1>1, <2>1 DEF Turn
    <2>2. CASE d # 0
      <3>1. k \in 1..N /\ Q[k].n = d /\ Q[1].n = d /\ 1 \in 1..N
        BY <1>1, <1>2, <2>2 DEF Turn
      <3> QED BY <3>1 DEF Lined, Numbers
    <2> QED BY <2>1, <2>2
  <1>5. Row(Q, Nil, lt, N + 1)
    BY <1>1, <1>2, <1>4 DEF Row
  <1> QED BY <1>2, <1>3, <1>5 DEF Lined

\* While packets are put back the queue is not empty, and until it has come
\* round not every packet has been taken.
LEMMA Turning ==
    ASSUME NEW Q \in Seq(Packet), NEW d \in Nat, d # 0, NEW c \in Nat,
           NEW lt, NEW sn \in Nat, NEW l, Lined(Q, Nil, d, c, lt, sn, l)
    PROVE  Q # <<>> /\ c <= sn
  <1>1. PICK k \in 1..(Len(Q) + 1) : Turn(Q, d, c, sn, k)
    BY DEF Lined
  <1> QED BY <1>1 DEF Turn

OrderTypes ==
    /\ recvQueue \in [Sessions -> Seq(Packet)]
    /\ sent \in [Sessions -> 0..MaxPackets]
    /\ last \in [Sessions -> Nat]
    /\ late = [s \in Sessions |-> late[s]]
    /\ recent \in [Sessions -> BOOLEAN]
    /\ held \in [Threads -> Packet \cup {Nil}]
    /\ delayed \in [Threads -> Nat]
    /\ processed \in [Threads -> Nat]

Idle == \A t \in Threads : cur[t] = Nil =>
    held[t] = Nil /\ delayed[t] = 0 /\ processed[t] = 0

InService(t) == Lined(recvQueue[cur[t]], held[t], delayed[t], processed[t],
                      late[cur[t]], sent[cur[t]], last[cur[t]])

AtRest(s) == Lined(recvQueue[s], Nil, 0, 0, late[s], sent[s], last[s])

\* Packets are put back by the world thread, for a player who is not there
\* yet, and nothing else comes in between.
PutsBack(t) == t = World /\ NoPlayer(cur[t]) /\ ~recent[cur[t]]

InLine ==
    /\ \A s \in Sessions : (\A t \in Threads : cur[t] # s) => AtRest(s)
    /\ \A t \in Threads : cur[t] # Nil => InService(t)
    /\ \A t \in Threads : delayed[t] # 0 => PutsBack(t)

OInv == OrderTypes /\ Idle /\ InLine

LEMMA OInvInit == Init => OInv
  <1> SUFFICES ASSUME Init PROVE OInv
    OBVIOUS
  <1>1. OrderTypes
    BY SessionsAssumption DEF Init, OrderTypes
  <1>2. Idle /\ \A t \in Threads : delayed[t] = 0 /\ cur[t] = Nil
    BY DEF Init, Idle
  <1>3. ASSUME NEW s \in Sessions PROVE AtRest(s)
    <2>1. /\ recvQueue[s] = <<>> /\ late[s] = {} /\ sent[s] = 0 /\ last[s] = 0
      BY DEF Init
    <2>2. Numbers(<<>>, Nil, 0) /\ Followed(<<>>, Nil, {}, 0, 0)
      BY DEF Numbers, Followed
    <2>3. Turn(<<>>, 0, 0, 0, 1) /\ Row(<<>>, Nil, {}, 1) /\ 1 \in 1..(Len(<<>>) + 1)
      BY DEF Turn, Row
    <2> QED BY <2>1, <2>2, <2>3 DEF AtRest, Lined
  <1> QED BY <1>1, <1>2, <1>3 DEF OInv, InLine

\* What a step leaves alone: everything of the sessions and threads but s and t.
Only(s, t) ==
    /\ \A r \in Sessions \ {s} : /\ recvQueue'[r] = recvQueue[r] /\ late'[r] = late[r]
                                 /\ sent'[r] = sent[r] /\ last'[r] = last[r]
                                 /\ place'[r] = place[r] /\ recent'[r] = recent[r]
    /\ \A u \in Threads \ {t} : /\ cur'[u] = cur[u] /\ held'[u] = held[u]
                                /\ delayed'[u] = delayed[u]
                                /\ processed'[u] = processed[u]

\* A step of the thread that serves s: its own part is enough.
LEMMA OwnPart ==
    ASSUME SInv, OInv, OrderTypes', NEW t \in Threads, NEW s \in Sessions, cur[t] = s,
           Only(s, t),
           \/ /\ cur'[t] = s /\ InService(t)'
              /\ delayed'[t] # 0 => PutsBack(t)'
           \/ /\ cur'[t] = Nil /\ AtRest(s)'
              /\ held'[t] = Nil /\ delayed'[t] = 0 /\ processed'[t] = 0
    PROVE  OInv'
  <1>1. s # Nil
    BY SessionsAssumption
  <1>2. \A u \in Threads \ {t} : cur[u] # s /\ (cur[u] # Nil => cur[u] \in Sessions \ {s})
    BY <1>1 DEF SInv, SessionExclusive, SessionTypes
  <1>3. Idle'
    <2>1. \A u \in Threads \ {t} : cur'[u] = Nil =>
            held'[u] = Nil /\ delayed'[u] = 0 /\ processed'[u] = 0
      BY DEF OInv, Idle, Only
    <2> QED BY <1>1, <2>1 DEF Idle
  <1>4. ASSUME NEW r \in Sessions, \A u \in Threads : cur'[u] # r
        PROVE  AtRest(r)'
    <2>1. CASE r = s
      BY <1>4, <2>1
    <2>2. CASE r # s
      <3>1. \A u \in Threads : cur[u] # r
        BY <1>2, <1>4, <2>2 DEF Only
      <3>2. AtRest(r)
        BY <3>1 DEF OInv, InLine
      <3> QED BY <2>2, <3>2 DEF AtRest, Only
    <2> QED BY <2>1, <2>2
  <1>5. ASSUME NEW u \in Threads, cur'[u] # Nil
        PROVE  InService(u)'
    <2>1. CASE u = t
      BY <1>5, <2>1
    <2>2. CASE u # t
      <3>1. /\ cur'[u] = cur[u] /\ cur[u] \in Sessions \ {s} /\ held'[u] = held[u]
            /\ delayed'[u] = delayed[u] /\ processed'[u] = processed[u]
        BY <1>2, <1>5, <2>2 DEF Only
      <3>2. InService(u)
        BY <1>5, <3>1 DEF OInv, InLine
      <3> QED BY <3>1, <3>2 DEF InService, Only
    <2> QED BY <2>1, <2>2
  <1>6. ASSUME NEW u \in Threads, delayed'[u] # 0
        PROVE  PutsBack(u)'
    <2>1. CASE u = t
      BY <1>6, <2>1
    <2>2. CASE u # t
      <3>1. cur'[u] = cur[u] /\ delayed'[u] = delayed[u]
        BY <2>2 DEF Only
      <3>2. cur[u] \in Sessions \ {s} /\ PutsBack(u)
        BY <1>2, <1>6, <2>2, <3>1 DEF OInv, InLine, Idle
      <3> QED BY <3>1, <3>2 DEF PutsBack, NoPlayer, Only
    <2> QED BY <2>1, <2>2
  <1> QED BY <1>3, <1>4, <1>5, <1>6 DEF OInv, InLine

\* Steps that touch no queue, no packet and no thread's session.
LEMMA NoPart ==
    ASSUME OInv, UNCHANGED <<recvQueue, sent, cur, held, delayed, processed, last, late,
                             recent>>,
           \A t \in Threads : delayed[t] # 0 => place'[cur[t]] = place[cur[t]]
    PROVE  OInv'
  <1>1. OrderTypes' /\ Idle'
    BY DEF OInv, OrderTypes, Idle
  <1>2. \A s \in Sessions : AtRest(s)' = AtRest(s)
    BY DEF AtRest
  <1>3. \A t \in Threads : InService(t)' = InService(t)
    BY DEF InService
  <1>4. \A t \in Threads : delayed[t] # 0 /\ PutsBack(t) => PutsBack(t)'
    BY DEF PutsBack, NoPlayer
  <1> QED BY <1>1, <1>2, <1>3, <1>4 DEF OInv, InLine

\* A thread begins with a session that nobody serves.
LEMMA ServiceBegins ==
    ASSUME SInv, SInv', OInv, NEW t \in Threads, NEW s \in Sessions, UpdateSession(t, s)
    PROVE  OInv'
  <1>1. /\ cur[t] = Nil /\ cur' = [cur EXCEPT ![t] = s]
        /\ UNCHANGED <<recvQueue, sent, held, delayed, processed, last, late, recent, place>>
    BY DEF UpdateSession
  <1>2. cur'[t] = s /\ (\A u \in Threads \ {t} : cur'[u] = cur[u]) /\ s # Nil
    BY <1>1, SessionsAssumption DEF SInv, SessionTypes
  <1>3. held[t] = Nil /\ delayed[t] = 0 /\ processed[t] = 0
    BY <1>1 DEF OInv, Idle
  <1>4. OrderTypes' /\ Idle'
    BY <1>1, <1>2 DEF OInv, OrderTypes, Idle
  <1>5. \A u \in Threads : cur[u] # s
    BY <1>1, <1>2 DEF SInv, SessionExclusive
  <1>6. AtRest(s)
    BY <1>5 DEF OInv, InLine
  <1>7. ASSUME NEW u \in Threads, cur'[u] # Nil PROVE InService(u)'
    <2>1. CASE u = t
      BY <1>1, <1>2, <1>3, <1>6, <2>1 DEF AtRest, InService
    <2>2. CASE u # t
      <3>1. InService(u) /\ cur'[u] = cur[u]
        BY <1>2, <1>7, <2>2 DEF OInv, InLine
      <3> QED BY <1>1, <3>1 DEF InService
    <2> QED BY <2>1, <2>2
  <1>8. ASSUME NEW r \in Sessions, \A u \in Threads : cur'[u] # r PROVE AtRest(r)'
    <2>1. \A u \in Threads : cur[u] # r
      BY <1>1, <1>2, <1>8, SessionsAssumption
    <2>2. AtRest(r)
      BY <2>1 DEF OInv, InLine
    <2> QED BY <1>1, <2>2 DEF AtRest
  <1>9. ASSUME NEW u \in Threads, delayed'[u] # 0 PROVE PutsBack(u)'
    <2>1. u # t /\ delayed[u] # 0 /\ cur'[u] = cur[u]
      BY <1>1, <1>2, <1>3, <1>9
    <2>2. PutsBack(u)
      BY <2>1 DEF OInv, InLine
    <2> QED BY <1>1, <2>1, <2>2 DEF PutsBack, NoPlayer
  <1> QED BY <1>4, <1>7, <1>8, <1>9 DEF OInv, InLine

\* The network thread appends a packet, whoever serves the session.
LEMMA PacketArrives ==
    ASSUME SInv, OInv, NEW s \in Sessions, NEW kind \in Kinds, QueuePacket(s, kind)
    PROVE  OInv'
  <1> DEFINE x == [n |-> sent[s] + 1, kind |-> kind]
             turning == \E t \in Threads : cur[t] = s /\ delayed[t] # 0
  <1>1. /\ sent[s] < MaxPackets
        /\ sent' = [sent EXCEPT ![s] = @ + 1]
        /\ recvQueue' = [recvQueue EXCEPT ![s] = Append(@, x)]
        /\ late' = [late EXCEPT ![s] = IF turning THEN @ \cup {sent[s] + 1} ELSE @]
        /\ UNCHANGED <<place, recent, cur, held, delayed, processed, last>>
    BY DEF QueuePacket
  <1>2. /\ sent[s] \in Nat /\ sent[s] + 1 \in 1..MaxPackets /\ MaxPackets \in Nat
        /\ recvQueue[s] \in Seq(Packet)
    BY <1>1, SessionsAssumption DEF OInv, OrderTypes
  <1>3. x \in Packet /\ x.n = sent[s] + 1
    BY <1>2 DEF Packet
  <1> HIDE DEF x
  <1>4. /\ recvQueue'[s] = Append(recvQueue[s], x) /\ sent'[s] = sent[s] + 1
        /\ late'[s] = IF turning THEN late[s] \cup {sent[s] + 1} ELSE late[s]
        /\ \A r \in Sessions \ {s} : /\ recvQueue'[r] = recvQueue[r]
                                     /\ sent'[r] = sent[r] /\ late'[r] = late[r]
    BY <1>1 DEF OInv, OrderTypes
  <1>5. OrderTypes'
    <2>1. Append(recvQueue[s], x) \in Seq(Packet)
      BY <1>2, <1>3
    <2>2. recvQueue' \in [Sessions -> Seq(Packet)]
      BY <1>1, <2>1 DEF OInv, OrderTypes
    <2>3. sent' \in [Sessions -> 0..MaxPackets]
      BY <1>1, <1>2 DEF OInv, OrderTypes
    <2>4. late' = [r \in Sessions |-> late'[r]]
      BY <1>1 DEF OInv, OrderTypes
    <2> QED BY <1>1, <2>2, <2>3, <2>4 DEF OInv, OrderTypes
  <1>6. Idle'
    BY <1>1 DEF OInv, Idle
  <1>7. ASSUME NEW r \in Sessions, \A t \in Threads : cur'[t] # r PROVE AtRest(r)'
    <2>1. AtRest(r)
      BY <1>1, <1>7 DEF OInv, InLine
    <2>2. CASE r = s
      <3>1. ~turning
        BY <1>1, <1>7, <2>2
      <3>2. Lined(Append(recvQueue[s], x), Nil, 0, 0, late[s], sent[s] + 1, last[s])
        BY <1>2, <1>3, <2>1, <2>2, Arrives DEF AtRest
      <3> QED BY <1>1, <1>4, <2>2, <3>1, <3>2 DEF AtRest
    <2>3. CASE r # s
      BY <1>1, <1>4, <2>1, <2>3 DEF AtRest
    <2> QED BY <2>2, <2>3
  <1>8. ASSUME NEW t \in Threads, cur'[t] # Nil PROVE InService(t)'
    <2>1. InService(t) /\ cur[t] \in Sessions /\ cur'[t] = cur[t] /\ cur[t] # Nil
      BY <1>1, <1>8 DEF OInv, InLine, SInv, SessionTypes
    <2>2. CASE cur[t] = s
      <3>1. turning <=> delayed[t] # 0
        BY <2>1, <2>2 DEF SInv, SessionExclusive
      <3>2. delayed[t] \in Nat /\ processed[t] \in Nat
        BY DEF OInv, OrderTypes
      <3>3. late'[s] = IF delayed[t] = 0 THEN late[s] ELSE late[s] \cup {sent[s] + 1}
        BY <1>4, <3>1
      <3> HIDE DEF turning
      <3>4. Lined(recvQueue[s], held[t], delayed[t], processed[t], late[s], sent[s], last[s])
        BY <2>1, <2>2 DEF InService
      <3>5. Lined(Append(recvQueue[s], x), held[t], delayed[t], processed[t], late'[s],
                  sent[s] + 1, last[s])
        BY <1>2, <1>3, <3>2, <3>3, <3>4, Arrives
      <3> QED BY <1>1, <1>4, <2>2, <3>5 DEF InService
    <2>3. CASE cur[t] # s
      BY <1>1, <1>4, <2>1, <2>3 DEF InService
    <2> QED BY <2>2, <2>3
  <1>9. ASSUME NEW t \in Threads, delayed'[t] # 0 PROVE PutsBack(t)'
    BY <1>1, <1>9 DEF OInv, InLine, PutsBack, NoPlayer
  <1> QED BY <1>5, <1>6, <1>7, <1>8, <1>9 DEF OInv, InLine

\* What the lemmas on lines need to know of a thread and its session.
LEMMA ServiceFacts ==
    ASSUME SInv, OInv, NEW t \in Threads, cur[t] # Nil
    PROVE  /\ cur[t] \in Sessions /\ recvQueue[cur[t]] \in Seq(Packet)
           /\ delayed[t] \in Nat /\ processed[t] \in Nat /\ sent[cur[t]] \in Nat
           /\ sent[cur[t]] <= MaxPackets
           /\ held[t] \in Packet \cup {Nil}
           /\ InService(t)
           /\ delayed[t] # 0 => PutsBack(t)
  BY DEF SInv, SessionTypes, OInv, OrderTypes, InLine

LEMMA TakeInLine ==
    ASSUME SInv, OInv, NEW t \in Threads, TakePacket(t)
    PROVE  OInv'
  <1> DEFINE Q == recvQueue[cur[t]]
  <1> SUFFICES ASSUME NEW s \in Sessions, cur[t] = s PROVE OInv'
    BY ServiceFacts DEF TakePacket
  <1>1. /\ cur[t] # Nil /\ held[t] = Nil /\ Q # <<>> /\ Head(Q).n # delayed[t]
        /\ held' = [held EXCEPT ![t] = Head(Q)]
        /\ recvQueue' = [recvQueue EXCEPT ![s] = Tail(Q)]
        /\ processed' = [processed EXCEPT ![t] = @ + 1]
        /\ UNCHANGED <<sent, place, recent, cur, delayed, last, late>>
    BY DEF TakePacket, Takes
  <1>2. /\ Q \in Seq(Packet) /\ delayed[t] \in Nat /\ processed[t] \in Nat
        /\ sent[s] \in Nat /\ (delayed[t] # 0 => PutsBack(t))
        /\ Lined(Q, Nil, delayed[t], processed[t], late[s], sent[s], last[s])
    BY <1>1, ServiceFacts DEF InService
  <1>3. Lined(Tail(Q), Head(Q), delayed[t], processed[t] + 1, late[s], sent[s], last[s])
    BY <1>1, <1>2, Taken
  <1>4. Head(Q) \in Packet /\ Tail(Q) \in Seq(Packet)
    BY <1>1, <1>2
  <1> HIDE DEF Q
  <1>5. OrderTypes'
    BY <1>1, <1>2, <1>4 DEF OInv, OrderTypes
  <1>6. /\ recvQueue'[s] = Tail(Q) /\ held'[t] = Head(Q) /\ processed'[t] = processed[t] + 1
        /\ Only(s, t)
    BY <1>1 DEF OInv, OrderTypes, Only
  <1>7. InService(t)'
    BY <1>1, <1>3, <1>6 DEF InService
  <1>8. delayed'[t] # 0 => PutsBack(t)'
    BY <1>1, <1>2 DEF PutsBack, NoPlayer
  <1> QED BY <1>1, <1>5, <1>6, <1>7, <1>8, OwnPart

\* Only the world thread finds a session without a player.
LEMMA RequeueInLine ==
    ASSUME IInv, SInv, OInv, NEW t \in Threads, Requeue(t)
    PROVE  OInv'
  <1>0. held[t] # Nil /\ cur[t] # Nil
    BY DEF Requeue, HoldsKind, SInv, SessionTypes
  <1> SUFFICES ASSUME NEW s \in Sessions, cur[t] = s PROVE OInv'
    BY <1>0, ServiceFacts
  <1> DEFINE Q == recvQueue[s]
             h == held[t]
             e == IF delayed[t] = 0 THEN h.n ELSE delayed[t]
  <1>1. /\ NoPlayer(s) /\ ~recent[s]
        /\ held' = [held EXCEPT ![t] = Nil]
        /\ recvQueue' = [recvQueue EXCEPT ![s] = Append(Q, h)]
        /\ delayed' = [delayed EXCEPT ![t] = e]
        /\ UNCHANGED <<sent, place, recent, cur, processed, last, late>>
    BY DEF Requeue, HoldsKind
  <1>2. /\ Q \in Seq(Packet) /\ delayed[t] \in Nat /\ processed[t] \in Nat
        /\ sent[s] \in Nat /\ h \in Packet
        /\ Lined(Q, h, delayed[t], processed[t], late[s], sent[s], last[s])
    BY <1>0, ServiceFacts DEF InService
  <1>3. Lined(Append(Q, h), Nil, e, processed[t], late[s], sent[s], last[s])
    BY <1>0, <1>2, PutBack
  <1>4. Append(Q, h) \in Seq(Packet) /\ e \in Nat
    BY <1>2 DEF Packet
  <1>5. t = World
    <2> SUFFICES ASSUME t \in Workers PROVE FALSE
      BY DEF Threads
    <2>1. worker[t] = "update" /\ place[s] \in {request[t], "transfer"}
      BY <1>0 DEF SInv, OnItsMap
    <2>2. request[t] \in AllMaps
      BY <2>1, BusyIs DEF Busy, IInv, TypeOKUpdater
    <2> QED BY <1>1, <2>1, <2>2, SessionsAssumption DEF NoPlayer
  <1> HIDE DEF Q, h, e
  <1>6. OrderTypes'
    BY <1>1, <1>4 DEF OInv, OrderTypes
  <1>7. /\ recvQueue'[s] = Append(Q, h) /\ held'[t] = Nil /\ delayed'[t] = e
        /\ Only(s, t)
    BY <1>1 DEF OInv, OrderTypes, Only
  <1>8. InService(t)'
    BY <1>1, <1>3, <1>7 DEF InService
  <1>9. PutsBack(t)'
    BY <1>1, <1>5 DEF PutsBack, NoPlayer
  <1> QED BY <1>1, <1>6, <1>7, <1>8, <1>9, OwnPart

\* A packet leaves the line, and with it perhaps the player his place.
LEMMA DropInLine ==
    ASSUME SInv, SInv', OInv, NEW t \in Threads, cur[t] # Nil,
           held' = [held EXCEPT ![t] = Nil],
           UNCHANGED <<recvQueue, sent, cur, delayed, processed, last, late>>,
           \/ place' = place
           \/ \E x : place' = [place EXCEPT ![cur[t]] = x],
           \/ recent' = recent
           \/ recent' = [recent EXCEPT ![cur[t]] = FALSE],
           delayed[t] # 0 /\ NoPlayer(cur[t]) => NoPlayer(cur[t])'
    PROVE  OInv'
  <1> SUFFICES ASSUME NEW s \in Sessions, cur[t] = s PROVE OInv'
    BY ServiceFacts
  <1>1. /\ recvQueue[s] \in Seq(Packet) /\ sent[s] \in Nat
        /\ Lined(recvQueue[s], held[t], delayed[t], processed[t], late[s], sent[s], last[s])
        /\ delayed[t] # 0 => PutsBack(t)
    BY ServiceFacts DEF InService
  <1>2. Lined(recvQueue[s], Nil, delayed[t], processed[t], late[s], sent[s], last[s])
    BY <1>1, Dropped
  <1>3. recent' \in [Sessions -> BOOLEAN]
    BY DEF OInv, OrderTypes
  <1>4. OrderTypes'
    BY <1>3 DEF OInv, OrderTypes
  <1>5. held'[t] = Nil /\ Only(s, t)
    <2>1. \A u \in Threads \ {t} : held'[u] = held[u]
      BY DEF OInv, OrderTypes
    <2>2. \A r \in Sessions \ {s} : place'[r] = place[r]
      BY DEF SInv, SessionTypes
    <2>3. \A r \in Sessions \ {s} : recent'[r] = recent[r]
      BY DEF OInv, OrderTypes
    <2>4. held'[t] = Nil
      BY DEF OInv, OrderTypes
    <2> QED BY <2>1, <2>2, <2>3, <2>4 DEF Only
  <1>6. InService(t)'
    BY <1>2, <1>5 DEF InService
  <1>7. delayed'[t] # 0 => PutsBack(t)'
    <2> SUFFICES ASSUME delayed[t] # 0 PROVE PutsBack(t)'
      OBVIOUS
    <2>1. t = World /\ NoPlayer(s) /\ ~recent[s]
      BY <1>1 DEF PutsBack
    <2>2. ~recent'[s]
      BY <2>1 DEF OInv, OrderTypes
    <2>3. NoPlayer(cur[t])'
      BY <2>1
    <2> QED BY <2>1, <2>2, <2>3 DEF PutsBack
  <1> QED BY <1>4, <1>5, <1>6, <1>7, OwnPart

\* A packet is handled in its turn.
LEMMA HandleInLine ==
    ASSUME SInv, SInv', OInv, NEW t \in Threads, HandleInGame(t)
    PROVE  OInv' /\ \A s \in Sessions : last'[s] >= last[s] \/ last[s] \in late[s]
  <1>0. held[t] # Nil /\ cur[t] # Nil
    BY DEF HandleInGame, HoldsKind, SInv, SessionTypes
  <1> SUFFICES ASSUME NEW s \in Sessions, cur[t] = s
               PROVE  OInv' /\ \A r \in Sessions : last'[r] >= last[r] \/ last[r] \in late[r]
    BY <1>0, ServiceFacts
  <1> DEFINE Q == recvQueue[s]
             h == held[t]
  <1>1. /\ InWorld(s)
        /\ held' = [held EXCEPT ![t] = Nil]
        /\ last' = [last EXCEPT ![s] = h.n]
        /\ \E x : place' = [place EXCEPT ![s] = x]
        /\ UNCHANGED <<recvQueue, sent, recent, cur, delayed, processed, late>>
    BY DEF HandleInGame, HoldsKind
  <1>2. ~NoPlayer(s)
    BY <1>1, SessionsAssumption DEF InWorld, NoPlayer
  <1>3. delayed[t] = 0
    BY <1>0, <1>2, ServiceFacts DEF PutsBack
  <1>4. /\ Q \in Seq(Packet) /\ processed[t] \in Nat /\ sent[s] \in Nat /\ h \in Packet
        /\ Lined(Q, h, 0, processed[t], late[s], sent[s], last[s])
    BY <1>0, <1>3, ServiceFacts DEF InService
  <1>5. Lined(Q, Nil, 0, processed[t], late[s], sent[s], h.n) /\ Before(last[s], h.n, late[s])
    BY <1>0, <1>4, Handled
  <1>6. h.n \in Nat
    BY <1>4 DEF Packet
  <1> HIDE DEF Q, h
  <1>7. OrderTypes'
    BY <1>1, <1>6 DEF OInv, OrderTypes
  <1>8. /\ held'[t] = Nil /\ last'[s] = h.n
        /\ \A r \in Sessions \ {s} : last'[r] = last[r]
        /\ \A u \in Threads \ {t} : held'[u] = held[u]
    BY <1>1 DEF OInv, OrderTypes
  <1>9. \A r \in Sessions \ {s} : place'[r] = place[r]
    BY <1>1 DEF SInv, SessionTypes
  <1>10. Only(s, t)
    BY <1>1, <1>8, <1>9 DEF Only
  <1>11. InService(t)'
    BY <1>1, <1>3, <1>5, <1>8 DEF InService, Q
  <1>12. OInv'
    BY <1>1, <1>3, <1>7, <1>10, <1>11, OwnPart
  <1>13. ASSUME NEW r \in Sessions PROVE last'[r] >= last[r] \/ last[r] \in late[r]
    <2>1. last[r] \in Nat
      BY DEF OInv, OrderTypes
    <2>2. CASE r = s
      BY <1>5, <1>6, <1>8, <2>1, <2>2 DEF Before
    <2>3. CASE r # s
      BY <1>8, <2>1, <2>3
    <2> QED BY <2>2, <2>3
  <1> QED BY <1>12, <1>13

\* The update ends when everything that was put back is in line again: until
\* then the limit on the packets of one update is not reached.
LEMMA EndInLine ==
    ASSUME SInv, OInv, MaxPackets <= MaxProcessed, NEW t \in Threads, EndUpdate(t)
    PROVE  OInv'
  <1>0. cur[t] # Nil /\ held[t] = Nil /\ ~Takes(t)
    BY DEF EndUpdate
  <1> SUFFICES ASSUME NEW s \in Sessions, cur[t] = s PROVE OInv'
    BY <1>0, ServiceFacts
  <1> DEFINE Q == recvQueue[s]
  <1>1. /\ cur' = [cur EXCEPT ![t] = Nil]
        /\ delayed' = [delayed EXCEPT ![t] = 0]
        /\ processed' = [processed EXCEPT ![t] = 0]
        /\ UNCHANGED <<recvQueue, sent, held, last, late>>
    BY DEF EndUpdate
  <1>2. /\ place' = place \/ \E x : place' = [place EXCEPT ![s] = x]
        /\ recent' = recent \/ recent' = [recent EXCEPT ![s] = TRUE]
    BY DEF EndUpdate
  <1>3. /\ Q \in Seq(Packet) /\ delayed[t] \in Nat /\ processed[t] \in Nat
        /\ sent[s] \in Nat /\ sent[s] <= MaxPackets
        /\ Lined(Q, Nil, delayed[t], processed[t], late[s], sent[s], last[s])
        /\ delayed[t] # 0 => PutsBack(t)
    BY <1>0, ServiceFacts DEF InService
  <1>4. delayed[t] = 0 \/ (Q # <<>> /\ Head(Q).n = delayed[t])
    <2> SUFFICES ASSUME delayed[t] # 0 PROVE Q # <<>> /\ Head(Q).n = delayed[t]
      OBVIOUS
    <2>1. Q # <<>> /\ processed[t] <= sent[s]
      BY <1>3, Turning
    <2>2. processed[t] <= MaxProcessed
      BY <1>3, <2>1, SessionsAssumption
    <2>3. t = World /\ ~InWorld(s)
      BY <1>3, SessionsAssumption DEF PutsBack, NoPlayer, InWorld
    <2>4. Process(t, s, Head(Q).kind)
      <3> DEFINE kind == Head(Q).kind
      <3>1. InWorld(s) = (t # World)
        BY <2>3 DEF InWorld
      <3> HIDE DEF kind
      <3>2. kind = "query" \/ kind = "move" \/ kind \notin {"query", "move"}
        OBVIOUS
      <3>3. Process(t, s, kind)
        BY <2>3, <3>1, <3>2 DEF Process
      <3> QED BY <3>3 DEF kind
    <2> QED BY <1>0, <2>1, <2>2, <2>4 DEF Takes
  <1>5. Lined(Q, Nil, 0, 0, late[s], sent[s], last[s])
    BY <1>3, <1>4, Ended
  <1>6. OrderTypes'
    <2>1. recent' \in [Sessions -> BOOLEAN]
      BY <1>2 DEF OInv, OrderTypes
    <2> QED BY <1>1, <2>1 DEF OInv, OrderTypes
  <1>7. Only(s, t)
    <2>1. \A u \in Threads \ {t} : /\ cur'[u] = cur[u] /\ delayed'[u] = delayed[u]
                                   /\ processed'[u] = processed[u]
      BY <1>1 DEF OInv, OrderTypes, SInv, SessionTypes
    <2>2. \A r \in Sessions \ {s} : place'[r] = place[r]
      BY <1>2 DEF SInv, SessionTypes
    <2>3. \A r \in Sessions \ {s} : recent'[r] = recent[r]
      BY <1>2 DEF OInv, OrderTypes
    <2> QED BY <1>1, <2>1, <2>2, <2>3 DEF Only
  <1>8. cur'[t] = Nil /\ held'[t] = Nil /\ delayed'[t] = 0 /\ processed'[t] = 0
    BY <1>0, <1>1 DEF OInv, OrderTypes, SInv, SessionTypes
  <1>9. AtRest(s)'
    BY <1>1, <1>5 DEF AtRest
  <1> QED BY <1>6, <1>7, <1>8, <1>9, OwnPart

LEMMA OInvStep ==
    ASSUME MaxPackets <= MaxProcessed, IInv, SInv, SInv', OInv, [Next]_vars
    PROVE  OInv' /\ \A s \in Sessions : last'[s] >= last[s] \/ last[s] \in late[s]
  <1> DEFINE Kept == \A s \in Sessions : last'[s] >= last[s] \/ last[s] \in late[s]
  <1>1. ASSUME last' = last PROVE Kept
    <2>1. \A s \in Sessions : last[s] \in Nat
      BY DEF OInv, OrderTypes
    <2> QED BY <1>1, <2>1
  <1>2. ASSUME recvQueue' = recvQueue, sent' = sent, cur' = cur, held' = held,
               delayed' = delayed, processed' = processed, last' = last, late' = late,
               recent' = recent, place' = place
        PROVE  OInv' /\ Kept
    BY <1>1, <1>2, NoPart
  <1> HIDE DEF Kept
  <1>3. ASSUME NEW s \in Sessions, NEW k \in Kinds, QueuePacket(s, k) PROVE OInv' /\ Kept
    <2>1. last' = last
      BY <1>3 DEF QueuePacket
    <2> QED BY <1>1, <1>3, <2>1, PacketArrives
  <1>4. ASSUME NEW t \in Threads, Serve(t) PROVE OInv' /\ Kept
    <2>1. ASSUME NEW s \in Sessions, UpdateSession(t, s) PROVE OInv' /\ last' = last
      <3>1. last' = last
        BY <2>1 DEF UpdateSession
      <3> QED BY <2>1, <3>1, ServiceBegins
    <2>2. CASE TakePacket(t)
      <3>1. last' = last
        BY <2>2 DEF TakePacket
      <3> QED BY <1>1, <2>2, <3>1, TakeInLine
    <2>3. CASE Requeue(t)
      <3>1. last' = last
        BY <2>3 DEF Requeue
      <3> QED BY <1>1, <2>3, <3>1, RequeueInLine
    <2>4. CASE Drop(t) \/ HandleMoveWorldportAck(t) \/ HandlePlayerLogin(t) \/ HandleCharEnum(t)
      <3>1. /\ held[t] # Nil /\ held' = [held EXCEPT ![t] = Nil]
            /\ UNCHANGED <<recvQueue, sent, cur, delayed, processed, last, late>>
        BY <2>4 DEF Drop, HandleMoveWorldportAck, HandlePlayerLogin, HandleCharEnum, HoldsKind
      <3>2. /\ \/ place' = place
               \/ \E x : place' = [place EXCEPT ![cur[t]] = x]
            /\ recent' = recent \/ recent' = [recent EXCEPT ![cur[t]] = FALSE]
        BY <2>4 DEF Drop, HandleMoveWorldportAck, HandlePlayerLogin, HandleCharEnum
      <3>3. cur[t] # Nil /\ cur[t] \in Sessions
        BY <3>1 DEF SInv, SessionTypes
      <3>4. NoPlayer(cur[t]) => NoPlayer(cur[t])'
        <4>1. CASE Drop(t) \/ HandleCharEnum(t)
          BY <3>1, <4>1 DEF Drop, HandleCharEnum, NoPlayer
        <4>2. CASE HandleMoveWorldportAck(t)
          BY <4>2 DEF HandleMoveWorldportAck, NoPlayer
        <4>3. CASE HandlePlayerLogin(t)
          <5>1. place'[cur[t]] = "loading" /\ cur' = cur
            BY <3>1, <3>3, <4>3 DEF HandlePlayerLogin, SInv, SessionTypes
          <5> QED BY <5>1 DEF NoPlayer
        <4> QED BY <2>4, <4>1, <4>2, <4>3
      <3>5. OInv'
        BY <3>1, <3>2, <3>3, <3>4, DropInLine
      <3> QED BY <1>1, <3>1, <3>5
    <2>5. CASE HandleInGame(t)
      BY <2>5, HandleInLine DEF Kept
    <2>6. CASE EndUpdate(t)
      <3>1. last' = last
        BY <2>6 DEF EndUpdate
      <3> QED BY <1>1, <2>6, <3>1, EndInLine
    <2> QED BY <1>1, <1>4, <2>1, <2>2, <2>3, <2>4, <2>5, <2>6 DEF Serve
  <1>5. ASSUME NEW s \in Sessions, ScriptTeleport(s) PROVE OInv' /\ Kept
    <2>1. /\ pc = "script" /\ last' = last
          /\ UNCHANGED <<recvQueue, sent, cur, held, delayed, processed, last, late, recent>>
      BY <1>5 DEF ScriptTeleport
    <2>2. cur[World] = Nil
      BY <2>1 DEF SInv, InItsTime
    <2>3. World \in Threads
      BY DEF Threads
    <2>4. \A t \in Threads : delayed[t] = 0
      BY <2>2, <2>3 DEF OInv, InLine, PutsBack, Idle
    <2>5. OInv'
      BY <2>1, <2>4, NoPart
    <2> QED BY <1>1, <2>1, <2>5
  <1>6. CASE UpdateMaps \/ UnloadMaps \/ \E w \in Workers : MapThread(w)
    <2>1. /\ recvQueue' = recvQueue /\ sent' = sent /\ cur' = cur /\ held' = held
          /\ delayed' = delayed /\ processed' = processed /\ last' = last
          /\ late' = late /\ recent' = recent /\ place' = place
      BY <1>6 DEF UpdateMaps, UnloadMaps, MapThread, RoundDone, sessionVars
    <2> QED BY <1>2, <2>1 DEF Kept
  <1>7. CASE ((WorldThread \/ Spurious) /\ UNCHANGED sessionVars) \/ UNCHANGED vars
    <2>1. /\ recvQueue' = recvQueue /\ sent' = sent /\ cur' = cur /\ held' = held
          /\ delayed' = delayed /\ processed' = processed /\ last' = last
          /\ late' = late /\ recent' = recent /\ place' = place
      BY <1>7 DEF sessionVars, vars
    <2> QED BY <1>2, <2>1 DEF Kept
  <1> QED BY <1>3, <1>4, <1>5, <1>6, <1>7 DEF Next, Kept

LEMMA LoopAlways == Spec => [](IInv /\ MapsOnce /\ SInv)
  <1>1. Init => IInv /\ MapsOnce /\ SInv
    BY IInvInit, MapsOnceInit, SInvInit DEF Init
  <1>2. IInv /\ MapsOnce /\ SInv /\ [Next]_vars => IInv' /\ MapsOnce' /\ SInv'
    BY IInvStep, PoolStep, MapsOnceStep, SInvStep
  <1> QED BY <1>1, <1>2, PTL DEF Spec

\* The constants let one update handle everything a client sends.
GetsRound == MaxPackets <= MaxProcessed

\* In-game packets are handled in the order they were sent, but for one that
\* arrived while others were being put back: for any number of threads, maps,
\* sessions and packets, whichever thread takes which packet and whenever the
\* player logs in, changes maps and logs out.
THEOREM PacketsInOrder == Spec => InOrder
  <1>1. Init => (GetsRound => OInv)
    BY OInvInit
  <1>2. /\ IInv /\ SInv /\ SInv' /\ (GetsRound => OInv) /\ [Next]_vars
        => (GetsRound => OInv)'
    BY OInvStep DEF GetsRound
  <1>3. /\ IInv /\ SInv /\ SInv' /\ (GetsRound => OInv) /\ [Next]_vars
        => [GetsRound => \A s \in Sessions : last'[s] >= last[s] \/ last[s] \in late[s]]_vars
    BY OInvStep DEF GetsRound
  <1> QED BY <1>1, <1>2, <1>3, LoopAlways, PTL DEF Spec, InOrder, GetsRound
================================================================================
