------------------------- MODULE ElunaEvents_proofs -------------------------
(***************************************************************************)
(* Theorems about the timed events, for any set of objects, addresses and  *)
(* references, any delays and repeats and any number of reloads.           *)
(*                                                                         *)
(* NoDangling and OneOwner are not inductive: a deletion must take an      *)
(* event out of the map too, and Update erases the map entry of the id it  *)
(* finds in the event.  The missing fact is Mapped: an entry of a map is   *)
(* an event of the same processor's list whose id is the key.  It holds    *)
(* even after reloads, when two events may have the same id.               *)
(*                                                                         *)
(* The properties about functions and calls need a second invariant, JInv: *)
(* what a delivered event has left to run (Settled, Tally), that events of *)
(* the current Lua state are found under their ids (Fresh), and which      *)
(* processors the current manager knows (Familiar).                        *)
(***************************************************************************)
EXTENDS ElunaEvents, TLAPS

\* The event that the loop of Update will delete when its function returns.
Doomed == IF running # Nil /\ running.remove THEN {running.event} ELSE {}

Listed == UNION {eventList[p] : p \in Procs}

Mapped ==
    \A p \in Procs, r \in Refs : eventMap[p][r] # Nil =>
        /\ eventMap[p][r] \in eventList[p]
        /\ heap[eventMap[p][r]].ref = r

Owned ==
    /\ \A p, q \in Procs : p # q => eventList[p] \cap eventList[q] = {}
    /\ Live = Listed \cup Doomed
    /\ Listed \cap Doomed = {}

Switches ==
    /\ running # Nil => updating # Nil
    /\ reload => luaState < MaxReloads

IInv == TypeOK /\ Switches /\ Owned /\ Mapped

------------------------------------------------------------------------------
\* Execute and Reschedule return an event with the same id.
LEMMA ExecuteType ==
    ASSUME NEW ev \in LuaEvent
    PROVE  /\ Execute(ev) \in LuaEvent /\ Execute(ev).ref = ev.ref
           /\ Reschedule(ev) \in LuaEvent /\ Reschedule(ev).ref = ev.ref
  <1>1. ev.delay \in Delays /\ ev.calls \in Nat /\ ev.ran \in Nat
    BY DEF LuaEvent
  <1>0. \A d \in Delays : d \in Int
    BY EventsAssumption
  <1>2. ev.delay \in Int
    BY <1>1, <1>0
  <1>3. Reschedule(ev) \in LuaEvent /\ Reschedule(ev).ref = ev.ref
    BY <1>2 DEF Reschedule, LuaEvent
  <1>4. CASE ev.calls > 0
    <2>1. ev.calls - 1 \in Nat /\ ev.ran + 1 \in Nat
      BY <1>1, <1>4
    <2> DEFINE f == [ev EXCEPT !.calls = ev.calls - 1]
               g == [f EXCEPT !.ran = ev.ran + 1]
    <2>2. f \in LuaEvent /\ f.ref = ev.ref
      BY <2>1 DEF LuaEvent
    <2>3. g \in LuaEvent /\ g.ref = f.ref
      BY <2>1, <2>2 DEF LuaEvent
    <2>4. Execute(ev) = g
      BY <1>4, <2>2 DEF Execute, LuaEvent
    <2> QED BY <1>3, <2>2, <2>3, <2>4
  <1>5. CASE ~(ev.calls > 0)
    BY <1>3, <1>5 DEF Execute
  <1> QED BY <1>4, <1>5

\* A live event is an event, and an address with an event is live.
LEMMA LiveType ==
    ASSUME TypeOK
    PROVE  /\ \A e \in Live : heap[e] \in LuaEvent /\ heap[e].ref \in Refs
           /\ \A e \in Events : heap[e] \in LuaEvent => e \in Live
           /\ Live \subseteq Events
  BY NilAssumption DEF TypeOK, Live, LuaEvent

\* The initial state: no events at all.
LEMMA IInvInit == Init => IInv
  <1> SUFFICES ASSUME Init PROVE IInv
    OBVIOUS
  <1>1. TypeOK
    <2>1. heap \in [Events -> LuaEvent \cup {Nil}]
      BY DEF Init
    <2>2. eventList \in [Procs -> SUBSET Events]
      BY DEF Init
    <2>3. eventMap \in [Procs -> [Refs -> Events \cup {Nil}]]
      BY DEF Init
    <2>4. luaState \in 0..MaxReloads
      BY EventsAssumption DEF Init
    <2> QED BY <2>1, <2>2, <2>3, <2>4 DEF Init, TypeOK, Procs
  <1>2. Switches
    BY DEF Init, Switches
  <1>3. Owned
    BY DEF Init, Owned, Live, Listed, Doomed
  <1>4. Mapped
    BY DEF Init, Mapped
  <1> QED BY <1>1, <1>2, <1>3, <1>4 DEF IInv

------------------------------------------------------------------------------
\* A step that changes neither the lists nor which addresses are live nor the
\* ids of the events keeps the ownership and the maps.
LEMMA Refresh ==
    ASSUME IInv, UNCHANGED <<eventList, eventMap, running>>,
           heap' \in [Events -> LuaEvent \cup {Nil}],
           \A e \in Events : (heap'[e] = Nil) <=> (heap[e] = Nil),
           \A e \in Live : heap'[e].ref = heap[e].ref
    PROVE  Owned' /\ Mapped'
  <1>1. Live' = Live
    BY DEF Live
  <1>2. Listed' = Listed /\ Doomed' = Doomed
    BY DEF Listed, Doomed
  <1>3. Owned'
    BY <1>1, <1>2 DEF IInv, Owned
  <1>4. \A p \in Procs : eventList[p] \subseteq Live
    BY DEF IInv, Owned, Listed
  <1>5. Mapped'
    BY <1>4 DEF IInv, Mapped
  <1> QED BY <1>3, <1>5

\* RemoveEvents of some processors, alone or as part of a reload.
LEMMA Cleared ==
    ASSUME IInv, running' = running, NEW P \in SUBSET Procs,
           heap' = [e \in Events |->
               IF e \in UNION {eventList[p] : p \in P} THEN Nil ELSE heap[e]],
           eventList' = [p \in Procs |-> IF p \in P THEN {} ELSE eventList[p]],
           eventMap' = [p \in Procs |-> IF p \in P THEN [r \in Refs |-> Nil]
                                                   ELSE eventMap[p]]
    PROVE  /\ heap' \in [Events -> LuaEvent \cup {Nil}]
           /\ eventList' \in [Procs -> SUBSET Events]
           /\ eventMap' \in [Procs -> [Refs -> Events \cup {Nil}]]
           /\ Owned' /\ Mapped'
  <1> DEFINE D == UNION {eventList[p] : p \in P}
  <1>1. heap' \in [Events -> LuaEvent \cup {Nil}]
    BY DEF IInv, TypeOK
  <1>2. eventList' \in [Procs -> SUBSET Events]
    BY DEF IInv, TypeOK
  <1>3. eventMap' \in [Procs -> [Refs -> Events \cup {Nil}]]
    BY DEF IInv, TypeOK
  <1>4. Live' = Live \ D
    BY DEF Live
  <1>5. \A p \in Procs \ P : eventList[p] \cap D = {}
    BY DEF IInv, Owned
  <1>6. Listed' = Listed \ D
    BY <1>5 DEF Listed
  <1>7. Doomed' = Doomed /\ Doomed \cap D = {}
    BY DEF Doomed, IInv, Owned, Listed
  <1>8. Owned'
    BY <1>4, <1>6, <1>7 DEF IInv, Owned
  <1>9. Mapped'
    <2> SUFFICES ASSUME NEW p \in Procs, NEW r \in Refs, eventMap'[p][r] # Nil
                 PROVE  /\ eventMap'[p][r] \in eventList'[p]
                        /\ heap'[eventMap'[p][r]].ref = r
      BY DEF Mapped
    <2>1. p \notin P /\ eventMap'[p][r] = eventMap[p][r]
      OBVIOUS
    <2>2. eventMap[p][r] \in eventList[p] /\ heap[eventMap[p][r]].ref = r
      BY <2>1 DEF IInv, Mapped
    <2>3. eventMap[p][r] \in Events /\ eventMap[p][r] \notin D
      BY <1>5, <2>1, <2>2 DEF IInv, TypeOK
    <2> QED BY <2>1, <2>2, <2>3
  <1> QED BY <1>1, <1>2, <1>3, <1>8, <1>9

\* The registry stays a registry when ids are released.
LEMMA DeleteType ==
    ASSUME TypeOK, NEW D \in SUBSET Events, Delete(D)
    PROVE  registry' \in [Refs -> Events \cup {Nil}]
  BY DEF Delete, TypeOK

\* CreateLuaEvent and RegisterEvent.
LEMMA AddStep ==
    ASSUME IInv, NEW p \in Procs, NEW delay \in Delays, NEW repeats \in Repeats,
           AddEvent(p, delay, repeats)
    PROVE  IInv'
  <1>1. PICK e \in Events \ Live, r \in Refs :
        /\ heap' = [heap EXCEPT ![e] =
             [ref |-> r, delay |-> delay, calls |-> repeats, to_Abort |-> FALSE,
              left |-> delay, state |-> luaState, repeats |-> repeats, ran |-> 0]]
        /\ eventList' = [eventList EXCEPT ![p] = @ \cup {e}]
        /\ eventMap' = [eventMap EXCEPT ![p][r] = e]
        /\ registry' = [registry EXCEPT ![r] = e]
    BY DEF AddEvent
  <1> DEFINE ev == [ref |-> r, delay |-> delay, calls |-> repeats,
                    to_Abort |-> FALSE, left |-> delay, state |-> luaState,
                    repeats |-> repeats, ran |-> 0]
  <1>2. ev \in LuaEvent /\ ev.ref = r /\ ev # Nil
    <2>1. delay \in Int /\ repeats \in Nat /\ luaState \in 0..MaxReloads
      BY EventsAssumption DEF IInv, TypeOK
    <2>2. ev \in LuaEvent
      BY <2>1 DEF LuaEvent
    <2> QED BY <2>2, NilAssumption
  <1> HIDE DEF ev
  <1>3. UNCHANGED <<alive, processors, luaState, reload, updating, running>>
    BY DEF AddEvent
  <1>4. TypeOK'
    <2>1. heap' \in [Events -> LuaEvent \cup {Nil}]
      BY <1>1, <1>2 DEF IInv, TypeOK, ev
    <2>2. eventList' \in [Procs -> SUBSET Events]
      BY <1>1 DEF IInv, TypeOK
    <2>3. eventMap' \in [Procs -> [Refs -> Events \cup {Nil}]]
      BY <1>1 DEF IInv, TypeOK
    <2>4. registry' \in [Refs -> Events \cup {Nil}]
      BY <1>1 DEF IInv, TypeOK
    <2> QED BY <1>3, <2>1, <2>2, <2>3, <2>4 DEF IInv, TypeOK
  <1>5. heap'[e] = ev /\ \A f \in Events : f # e => heap'[f] = heap[f]
    BY <1>1 DEF IInv, TypeOK, ev
  <1>6. /\ eventList'[p] = eventList[p] \cup {e}
        /\ \A q \in Procs : q # p => eventList'[q] = eventList[q]
    BY <1>1 DEF IInv, TypeOK
  <1>7. Live' = Live \cup {e}
    BY <1>2, <1>5 DEF Live
  <1>8. Listed' = Listed \cup {e}
    BY <1>6 DEF Listed
  <1>9. Doomed' = Doomed /\ e \notin Doomed /\ e \notin Listed
    BY <1>3 DEF Doomed, IInv, Owned
  <1>10. Owned'
    <2>1. \A q \in Procs : e \notin eventList[q]
      BY <1>9 DEF Listed
    <2>2. \A q, s \in Procs : q # s => eventList'[q] \cap eventList'[s] = {}
      BY <1>6, <2>1 DEF IInv, Owned
    <2> QED BY <1>7, <1>8, <1>9, <2>2 DEF IInv, Owned
  <1>11. Mapped'
    <2> SUFFICES ASSUME NEW q \in Procs, NEW s \in Refs, eventMap'[q][s] # Nil
                 PROVE  /\ eventMap'[q][s] \in eventList'[q]
                        /\ heap'[eventMap'[q][s]].ref = s
      BY DEF Mapped
    <2>1. CASE q = p /\ s = r
      <3>1. eventMap'[q][s] = e
        BY <1>1, <2>1 DEF IInv, TypeOK
      <3> QED BY <1>2, <1>5, <1>6, <2>1, <3>1
    <2>2. CASE ~(q = p /\ s = r)
      <3>1. eventMap'[q][s] = eventMap[q][s]
        BY <1>1, <2>2 DEF IInv, TypeOK
      <3>2. eventMap[q][s] \in eventList[q] /\ heap[eventMap[q][s]].ref = s
        BY <3>1 DEF IInv, Mapped
      <3>3. eventMap[q][s] \in Live
        BY <3>2 DEF IInv, Owned, Listed
      <3> QED BY <1>5, <1>6, <3>1, <3>2, <3>3 DEF Live
    <2> QED BY <2>1, <2>2
  <1>12. Switches'
    BY <1>3 DEF IInv, Switches
  <1> QED BY <1>4, <1>10, <1>11, <1>12 DEF IInv

\* Aborting and the start of an update only write fields of events.
LEMMA FieldStep ==
    ASSUME IInv,
           \/ \E r \in Refs : RemoveEventById(r)
           \/ \E o \in Objects, r \in Refs : ObjectRemoveEventById(o, r)
           \/ \E p \in Procs, diff \in Diffs : Update(p, diff)
    PROVE  IInv'
  <1>1. ASSUME NEW P \in SUBSET Procs, NEW r \in Refs, Abort(P, r),
               UNCHANGED <<eventList, eventMap, registry, alive, processors,
                           luaState, reload, updating, running>>
        PROVE  IInv'
    <2>1. \A e \in Events : (\E p \in P : eventMap[p][r] = e) => e \in Live
      BY EventsAssumption DEF IInv, Mapped, Owned, Listed
    <2>2. ASSUME NEW e \in Live
          PROVE  /\ [heap[e] EXCEPT !.to_Abort = TRUE] \in LuaEvent
                 /\ [heap[e] EXCEPT !.to_Abort = TRUE].ref = heap[e].ref
      <3>1. heap[e] \in LuaEvent
        BY LiveType DEF IInv
      <3> QED BY <3>1 DEF LuaEvent
    <2>3. \A e \in Events : \/ heap'[e] = heap[e]
                            \/ /\ e \in Live /\ heap'[e] \in LuaEvent
                               /\ heap'[e].ref = heap[e].ref
      BY <1>1, <2>1, <2>2 DEF Abort
    <2>4. heap' \in [Events -> LuaEvent \cup {Nil}]
      BY <1>1, <2>3 DEF Abort, IInv, TypeOK
    <2>5. \A e \in Events : (heap'[e] = Nil) <=> (heap[e] = Nil)
      BY <2>3, NilAssumption DEF Live
    <2>6. \A e \in Live : heap'[e].ref = heap[e].ref
      BY <2>3 DEF Live
    <2>7. Owned' /\ Mapped'
      BY <1>1, <2>4, <2>5, <2>6, Refresh
    <2> QED BY <1>1, <2>4, <2>7 DEF IInv, TypeOK, Switches
  <1>2. ASSUME NEW r \in Refs, RemoveEventById(r) PROVE IInv'
    <2>1. processors \cup {Global} \in SUBSET Procs
      BY DEF IInv, TypeOK, Procs
    <2> QED BY <1>1, <1>2, <2>1 DEF RemoveEventById
  <1>3. ASSUME NEW o \in Objects, NEW r \in Refs, ObjectRemoveEventById(o, r)
        PROVE  IInv'
    <2>1. {o} \in SUBSET Procs
      BY DEF Procs
    <2> QED BY <1>1, <1>3, <2>1 DEF ObjectRemoveEventById
  <1>4. ASSUME NEW p \in Procs, NEW diff \in Diffs, Update(p, diff)
        PROVE  IInv'
    <2>1. diff \in Int
      BY EventsAssumption
    <2>2. ASSUME NEW e \in Live
          PROVE  /\ [heap[e] EXCEPT !.left = @ - diff] \in LuaEvent
                 /\ [heap[e] EXCEPT !.left = @ - diff].ref = heap[e].ref
      <3>1. heap[e] \in LuaEvent /\ heap[e].left \in Int
        BY LiveType DEF IInv, LuaEvent
      <3>2. heap[e].left - diff \in Int
        BY <2>1, <3>1
      <3> QED BY <3>1, <3>2 DEF LuaEvent
    <2>3. eventList[p] \subseteq Live
      BY DEF IInv, Owned, Listed
    <2>4. \A e \in Events : \/ heap'[e] = heap[e]
                            \/ /\ e \in Live /\ heap'[e] \in LuaEvent
                               /\ heap'[e].ref = heap[e].ref
      BY <1>4, <2>2, <2>3 DEF Update
    <2>5. heap' \in [Events -> LuaEvent \cup {Nil}]
      BY <1>4, <2>4 DEF Update, IInv, TypeOK
    <2>6. \A e \in Events : (heap'[e] = Nil) <=> (heap[e] = Nil)
      BY <2>4, NilAssumption DEF Live
    <2>7. \A e \in Live : heap'[e].ref = heap[e].ref
      BY <2>4 DEF Live
    <2>8. Owned' /\ Mapped'
      BY <1>4, <2>5, <2>6, <2>7, Refresh DEF Update
    <2>9. TypeOK'
      BY <1>4, <2>5 DEF Update, IInv, TypeOK
    <2>10. Switches'
      BY <1>4, EventsAssumption DEF Update, IInv, Switches
    <2> QED BY <2>8, <2>9, <2>10 DEF IInv
  <1> QED BY <1>2, <1>3, <1>4

\* Removing all events of processors, from a script or with an object.
LEMMA ClearStep ==
    ASSUME IInv,
           \/ \E all_Events \in BOOLEAN : RemoveEvents(all_Events)
           \/ \E o \in Objects : ObjectRemoveEvents(o) \/ DeleteObject(o)
    PROVE  IInv'
  <1>1. ASSUME NEW P \in SUBSET Procs, Clear(P), running' = running
        PROVE  /\ heap' \in [Events -> LuaEvent \cup {Nil}]
               /\ eventList' \in [Procs -> SUBSET Events]
               /\ eventMap' \in [Procs -> [Refs -> Events \cup {Nil}]]
               /\ registry' \in [Refs -> Events \cup {Nil}]
               /\ Owned' /\ Mapped'
    <2>1. UNION {eventList[p] : p \in P} \in SUBSET Events
      BY DEF IInv, TypeOK
    <2>2. registry' \in [Refs -> Events \cup {Nil}]
      BY <1>1, <2>1, DeleteType DEF Clear, IInv
    <2> QED BY <1>1, <2>2, Cleared DEF Clear, Delete
  <1>2. ASSUME NEW all_Events \in BOOLEAN, RemoveEvents(all_Events)
        PROVE  IInv'
    <2> DEFINE P == IF all_Events THEN processors \cup {Global} ELSE {Global}
    <2>1. P \in SUBSET Procs
      BY DEF IInv, TypeOK, Procs
    <2>2. Clear(P) /\ UNCHANGED <<alive, processors, luaState, reload,
                                  updating, running>>
      BY <1>2 DEF RemoveEvents
    <2> HIDE DEF P
    <2> QED BY <1>1, <2>1, <2>2 DEF IInv, TypeOK, Switches
  <1>3. ASSUME NEW o \in Objects, ObjectRemoveEvents(o) PROVE IInv'
    <2>1. {o} \in SUBSET Procs
      BY DEF Procs
    <2>2. Clear({o}) /\ UNCHANGED <<alive, processors, luaState, reload,
                                    updating, running>>
      BY <1>3 DEF ObjectRemoveEvents
    <2> QED BY <1>1, <2>1, <2>2 DEF IInv, TypeOK, Switches
  <1>4. ASSUME NEW o \in Objects, DeleteObject(o) PROVE IInv'
    <2>1. {o} \in SUBSET Procs
      BY DEF Procs
    <2>2. /\ Clear({o}) /\ UNCHANGED <<luaState, reload, updating, running>>
          /\ alive' = alive \ {o} /\ processors' = processors \ {o}
      BY <1>4 DEF DeleteObject
    <2> QED BY <1>1, <2>1, <2>2 DEF IInv, TypeOK, Switches
  <1> QED BY <1>2, <1>3, <1>4

\* Steps that leave the events alone.
LEMMA OtherStep ==
    ASSUME IInv,
           \/ \E o \in Objects : CreateObject(o)
           \/ RequestReload \/ UpdateEnd \/ UNCHANGED vars
    PROVE  IInv'
  <1>1. ASSUME UNCHANGED <<heap, eventList, eventMap, running>>
        PROVE  Owned' /\ Mapped'
    BY <1>1 DEF IInv, Owned, Mapped, Live, Listed, Doomed
  <1>2. ASSUME NEW o \in Objects, CreateObject(o) PROVE IInv'
    BY <1>1, <1>2 DEF CreateObject, tables, IInv, TypeOK, Switches, Procs
  <1>3. CASE RequestReload
    BY <1>1, <1>3 DEF RequestReload, tables, IInv, TypeOK, Switches
  <1>4. CASE UpdateEnd
    BY <1>1, <1>4 DEF UpdateEnd, tables, IInv, TypeOK, Switches
  <1>5. CASE UNCHANGED vars
    BY <1>1, <1>5 DEF vars, IInv, TypeOK, Switches
  <1> QED BY <1>2, <1>3, <1>4, <1>5

\* The reload of the Lua state.
LEMMA ReloadStep ==
    ASSUME IInv, ReloadEluna
    PROVE  IInv'
  <1> DEFINE P == processors \cup {Global}
  <1>1. P \in SUBSET Procs
    BY DEF IInv, TypeOK, Procs
  <1>2. /\ heap' = [e \in Events |->
               IF e \in UNION {eventList[p] : p \in P} THEN Nil ELSE heap[e]]
        /\ eventList' = [p \in Procs |-> IF p \in P THEN {} ELSE eventList[p]]
        /\ eventMap' = [p \in Procs |-> IF p \in P THEN [r \in Refs |-> Nil]
                                                   ELSE eventMap[p]]
    BY DEF ReloadEluna, Known
  <1>3. /\ registry' = [r \in Refs |-> Nil] /\ processors' = {Global}
        /\ luaState' = luaState + 1 /\ reload' = FALSE /\ updating' = Nil
        /\ alive' = alive /\ running' = running /\ running = Nil /\ reload
    BY DEF ReloadEluna
  <1> HIDE DEF P
  <1>4. /\ heap' \in [Events -> LuaEvent \cup {Nil}]
        /\ eventList' \in [Procs -> SUBSET Events]
        /\ eventMap' \in [Procs -> [Refs -> Events \cup {Nil}]]
        /\ Owned' /\ Mapped'
    BY <1>1, <1>2, <1>3, Cleared
  <1>5. luaState' \in 0..MaxReloads
    BY <1>3, EventsAssumption DEF IInv, TypeOK, Switches
  <1>6. TypeOK'
    BY <1>3, <1>4, <1>5 DEF IInv, TypeOK, Procs
  <1>7. Switches'
    BY <1>3 DEF Switches
  <1> QED BY <1>4, <1>6, <1>7 DEF IInv

------------------------------------------------------------------------------
\* The event at the front of the loop is a live event of the processor.
LEMMA FirstType ==
    ASSUME IInv, NEW e \in Events, First(e)
    PROVE  /\ updating \in Procs /\ running = Nil
           /\ e \in eventList[updating] /\ e \in Live
           /\ heap[e] \in LuaEvent /\ heap[e].ref \in Refs
  <1>1. updating \in Procs /\ running = Nil /\ e \in eventList[updating]
    BY DEF First, Due, IInv, TypeOK
  <1>2. e \in Live
    BY <1>1 DEF IInv, Owned, Listed
  <1> QED BY <1>1, <1>2, LiveType DEF IInv

\* Taking an event out of list and map: no other event is touched, and no map
\* names it any more.
LEMMA UnscheduleType ==
    ASSUME IInv, NEW e \in Events, First(e), Unschedule(e)
    PROVE  /\ eventList' \in [Procs -> SUBSET Events]
           /\ eventMap' \in [Procs -> [Refs -> Events \cup {Nil}]]
           /\ \A p, q \in Procs : p # q => eventList'[p] \cap eventList'[q] = {}
           /\ Listed' = Listed \ {e}
           /\ \A p \in Procs, r \in Refs : eventMap'[p][r] # Nil =>
                /\ eventMap'[p][r] \in eventList'[p] /\ eventMap'[p][r] # e
                /\ eventMap'[p][r] \in Live
                /\ heap[eventMap'[p][r]].ref = r
  <1>0. /\ updating \in Procs /\ e \in eventList[updating]
        /\ heap[e].ref \in Refs
    BY FirstType
  <1>1. eventList' \in [Procs -> SUBSET Events]
    BY <1>0 DEF Unschedule, IInv, TypeOK
  <1>2. eventMap' \in [Procs -> [Refs -> Events \cup {Nil}]]
    BY <1>0 DEF Unschedule, IInv, TypeOK
  <1>3. /\ eventList'[updating] = eventList[updating] \ {e}
        /\ \A p \in Procs : p # updating =>
             eventList'[p] = eventList[p] /\ e \notin eventList[p]
    BY <1>0 DEF Unschedule, IInv, TypeOK, Owned
  <1>4. \A p, q \in Procs : p # q => eventList'[p] \cap eventList'[q] = {}
    BY <1>3 DEF IInv, Owned
  <1>5. Listed' = Listed \ {e}
    BY <1>3 DEF Listed
  <1>6. ASSUME NEW p \in Procs, NEW r \in Refs, eventMap'[p][r] # Nil
        PROVE  /\ eventMap'[p][r] \in eventList'[p] /\ eventMap'[p][r] # e
               /\ eventMap'[p][r] \in Live
               /\ heap[eventMap'[p][r]].ref = r
    <2>1. eventMap'[p][r] = eventMap[p][r] /\ ~(p = updating /\ r = heap[e].ref)
      BY <1>0, <1>6 DEF Unschedule, IInv, TypeOK
    <2>2. eventMap[p][r] \in eventList[p] /\ heap[eventMap[p][r]].ref = r
      BY <1>6, <2>1 DEF IInv, Mapped
    <2>3. eventMap[p][r] # e
      BY <1>3, <2>1, <2>2
    <2>4. eventMap[p][r] \in Live
      BY <2>2 DEF IInv, Owned, Listed
    <2> QED BY <1>3, <2>1, <2>2, <2>3, <2>4
  <1> QED BY <1>1, <1>2, <1>4, <1>5, <1>6

\* An aborted event is deleted when it is due.
LEMMA DropStep ==
    ASSUME IInv, NEW e \in Events, DropAborted(e)
    PROVE  IInv'
  <1>1. /\ First(e) /\ Delete({e}) /\ Unschedule(e)
        /\ UNCHANGED <<alive, processors, luaState, reload, updating, running>>
    BY DEF DropAborted
  <1>2. heap' \in [Events -> LuaEvent \cup {Nil}] /\ Live' = Live \ {e}
    BY <1>1 DEF Delete, IInv, TypeOK, Live
  <1>3. registry' \in [Refs -> Events \cup {Nil}]
    BY <1>1, DeleteType DEF IInv
  <1>4. running = Nil /\ Doomed = {} /\ Doomed' = {}
    BY <1>1, FirstType DEF Doomed
  <1>5. Owned'
    BY <1>1, <1>2, <1>4, UnscheduleType DEF IInv, Owned
  <1>6. \A f \in Events : f # e => heap'[f] = heap[f]
    BY <1>1 DEF Delete
  <1>7. Mapped'
    <2> SUFFICES ASSUME NEW p \in Procs, NEW r \in Refs, eventMap'[p][r] # Nil
                 PROVE  /\ eventMap'[p][r] \in eventList'[p]
                        /\ heap'[eventMap'[p][r]].ref = r
      BY DEF Mapped
    <2>1. /\ eventMap'[p][r] \in eventList'[p] /\ eventMap'[p][r] # e
          /\ eventMap'[p][r] \in Events
          /\ heap[eventMap'[p][r]].ref = r
      BY <1>1, UnscheduleType DEF Live
    <2> QED BY <1>6, <2>1
  <1>8. TypeOK'
    BY <1>1, <1>2, <1>3, UnscheduleType DEF IInv, TypeOK
  <1>9. Switches'
    BY <1>1 DEF IInv, Switches
  <1> QED BY <1>5, <1>7, <1>8, <1>9 DEF IInv

\* The last call of an event: the loop becomes its owner.
LEMMA LastStep ==
    ASSUME IInv, NEW e \in Events, ExecuteLast(e)
    PROVE  IInv'
  <1>1. /\ First(e) /\ Unschedule(e)
        /\ heap' = [heap EXCEPT ![e] = Execute(heap[e])]
        /\ running' = [event |-> e, remove |-> TRUE]
        /\ UNCHANGED <<alive, processors, registry, luaState, reload, updating>>
    BY DEF ExecuteLast
  <1>2. /\ heap[e] \in LuaEvent /\ e \in Live /\ updating \in Procs
        /\ running = Nil
    BY <1>1, FirstType
  <1>3. Execute(heap[e]) \in LuaEvent
    BY <1>2, ExecuteType
  <1>4. heap' \in [Events -> LuaEvent \cup {Nil}]
    BY <1>1, <1>3 DEF IInv, TypeOK
  <1>5. heap'[e] \in LuaEvent /\ \A f \in Events : f # e => heap'[f] = heap[f]
    BY <1>1, <1>3 DEF IInv, TypeOK
  <1>6. Live' = Live
    BY <1>2, <1>5, NilAssumption DEF Live
  <1>7. running' \in Call /\ running' # Nil
    <2>1. running' \in Call
      BY <1>1 DEF Call
    <2> QED BY <2>1, NilAssumption
  <1>8. Doomed = {} /\ Doomed' = {e}
    BY <1>1, <1>2, <1>7 DEF Doomed
  <1>9. Owned'
    BY <1>1, <1>2, <1>6, <1>8, UnscheduleType DEF IInv, Owned
  <1>10. Mapped'
    BY <1>1, <1>5, UnscheduleType DEF Mapped, Live
  <1>11. TypeOK'
    BY <1>1, <1>4, <1>7, UnscheduleType DEF IInv, TypeOK
  <1>12. Switches'
    BY <1>1, <1>2, EventsAssumption DEF IInv, Switches
  <1> QED BY <1>9, <1>10, <1>11, <1>12 DEF IInv

\* Any other call: the event stays in its list and in the map.
LEMMA AgainStep ==
    ASSUME IInv, NEW e \in Events, ExecuteAgain(e)
    PROVE  IInv'
  <1>1. /\ First(e)
        /\ heap' = [heap EXCEPT ![e] = Execute(Reschedule(heap[e]))]
        /\ eventMap' = [eventMap EXCEPT ![updating][heap[e].ref] = e]
        /\ running' = [event |-> e, remove |-> FALSE]
        /\ UNCHANGED <<eventList, alive, processors, registry, luaState, reload,
                       updating>>
    BY DEF ExecuteAgain
  <1>2. /\ heap[e] \in LuaEvent /\ heap[e].ref \in Refs /\ e \in Live
        /\ updating \in Procs /\ e \in eventList[updating] /\ running = Nil
    BY <1>1, FirstType
  <1>3. /\ Execute(Reschedule(heap[e])) \in LuaEvent
        /\ Execute(Reschedule(heap[e])).ref = heap[e].ref
    BY <1>2, ExecuteType
  <1>4. heap' \in [Events -> LuaEvent \cup {Nil}]
    BY <1>1, <1>3 DEF IInv, TypeOK
  <1>5. /\ heap'[e] \in LuaEvent /\ heap'[e].ref = heap[e].ref
        /\ \A f \in Events : f # e => heap'[f] = heap[f]
    BY <1>1, <1>3 DEF IInv, TypeOK
  <1>6. Live' = Live
    BY <1>2, <1>5, NilAssumption DEF Live
  <1>7. running' \in Call
    BY <1>1 DEF Call
  <1>8. Doomed = {} /\ Doomed' = {} /\ Listed' = Listed
    BY <1>1, <1>2 DEF Doomed, Listed
  <1>9. Owned'
    BY <1>1, <1>6, <1>8 DEF IInv, Owned
  <1>10. Mapped'
    <2> SUFFICES ASSUME NEW p \in Procs, NEW r \in Refs, eventMap'[p][r] # Nil
                 PROVE  /\ eventMap'[p][r] \in eventList'[p]
                        /\ heap'[eventMap'[p][r]].ref = r
      BY DEF Mapped
    <2>1. CASE p = updating /\ r = heap[e].ref
      <3>1. eventMap'[p][r] = e
        BY <1>1, <1>2, <2>1 DEF IInv, TypeOK
      <3> QED BY <1>1, <1>2, <1>5, <2>1, <3>1
    <2>2. CASE ~(p = updating /\ r = heap[e].ref)
      <3>1. eventMap'[p][r] = eventMap[p][r]
        BY <1>1, <1>2, <2>2 DEF IInv, TypeOK
      <3>2. eventMap[p][r] \in eventList[p] /\ heap[eventMap[p][r]].ref = r
        BY <3>1 DEF IInv, Mapped
      <3>3. eventMap[p][r] \in Events
        BY <3>2 DEF IInv, TypeOK
      <3> QED BY <1>1, <1>5, <3>1, <3>2, <3>3
    <2> QED BY <2>1, <2>2
  <1>11. eventMap' \in [Procs -> [Refs -> Events \cup {Nil}]]
    BY <1>1, <1>2 DEF IInv, TypeOK
  <1>12. TypeOK'
    BY <1>1, <1>4, <1>7, <1>11 DEF IInv, TypeOK
  <1>13. Switches'
    BY <1>1, <1>2, EventsAssumption DEF IInv, Switches
  <1> QED BY <1>9, <1>10, <1>12, <1>13 DEF IInv

\* The function returns; after the last call the event is deleted.
LEMMA ReturnStep ==
    ASSUME IInv, Return
    PROVE  IInv'
  <1>1. /\ running # Nil /\ running' = Nil
        /\ UNCHANGED <<eventList, eventMap, alive, processors, luaState, reload,
                       updating>>
    BY DEF Return
  <1>2. running.event \in Events /\ Doomed' = {} /\ Listed' = Listed
    BY <1>1 DEF IInv, TypeOK, Call, Doomed, Listed
  <1>3. Switches'
    BY <1>1 DEF IInv, Switches
  <1>4. CASE running.remove
    <2>1. Delete({running.event}) /\ Doomed = {running.event}
      BY <1>1, <1>4 DEF Return, Doomed
    <2>2. /\ heap' \in [Events -> LuaEvent \cup {Nil}]
          /\ Live' = Live \ {running.event}
          /\ \A f \in Events : f # running.event => heap'[f] = heap[f]
      BY <1>2, <2>1 DEF Delete, IInv, TypeOK, Live
    <2>3. registry' \in [Refs -> Events \cup {Nil}]
      BY <1>2, <2>1, DeleteType DEF IInv
    <2>4. Owned'
      BY <1>1, <1>2, <2>1, <2>2 DEF IInv, Owned
    <2>5. \A p \in Procs : \A f \in eventList[p] :
            f \in Events /\ f # running.event
      BY <2>1 DEF IInv, TypeOK, Owned, Listed
    <2>6. Mapped'
      BY <1>1, <2>2, <2>5 DEF IInv, Mapped
    <2>7. TypeOK'
      BY <1>1, <2>2, <2>3 DEF IInv, TypeOK
    <2> QED BY <1>3, <2>4, <2>6, <2>7 DEF IInv
  <1>5. CASE ~running.remove
    <2>1. UNCHANGED <<heap, registry>> /\ Doomed = {}
      BY <1>5 DEF Return, Doomed
    <2>2. Owned'
      BY <1>1, <1>2, <2>1 DEF IInv, Owned, Live
    <2>3. Mapped'
      BY <1>1, <2>1 DEF IInv, Mapped
    <2>4. TypeOK'
      BY <1>1, <2>1 DEF IInv, TypeOK
    <2> QED BY <1>3, <2>2, <2>3, <2>4 DEF IInv
  <1> QED BY <1>4, <1>5

\* Every step keeps the inductive invariant.
LEMMA IInvStep == IInv /\ [Next]_vars => IInv'
  <1> SUFFICES ASSUME IInv, [Next]_vars PROVE IInv'
    OBVIOUS
  <1>1. CASE Loop
    BY <1>1, DropStep, LastStep, AgainStep, ReturnStep, OtherStep, ReloadStep
       DEF Loop
  <1>2. CASE \E p \in Procs, d \in Delays, n \in Repeats : AddEvent(p, d, n)
    BY <1>2, AddStep
  <1>3. CASE \/ \E r \in Refs : RemoveEventById(r)
             \/ \E o \in Objects, r \in Refs : ObjectRemoveEventById(o, r)
             \/ \E p \in Procs, diff \in Diffs : Update(p, diff)
    BY <1>3, FieldStep
  <1>4. CASE \/ \E all_Events \in BOOLEAN : RemoveEvents(all_Events)
             \/ \E o \in Objects : ObjectRemoveEvents(o)
             \/ \E o \in Objects : CreateObject(o) \/ DeleteObject(o)
    BY <1>4, ClearStep, OtherStep
  <1>5. CASE RequestReload \/ UNCHANGED vars
    BY <1>5, OtherStep
  <1> QED BY <1>1, <1>2, <1>3, <1>4, <1>5 DEF Next

\* The inductive invariant holds in every reachable state.
LEMMA IInvAlways == Spec => []IInv
  BY IInvInit, IInvStep, PTL DEF Spec

\* The variables of the event manager always have their types: the unsigned
\* counter of calls never wraps around, whatever functions do while they run.
THEOREM EventTypeCorrect == Spec => []TypeOK
  <1>1. IInv => TypeOK
    BY DEF IInv
  <1> QED BY <1>1, IInvAlways, PTL

\* The loop of Update and the removals by id never touch a deleted event,
\* although timed functions may delete any scheduled event while they run and
\* events may outlive their Lua state.
THEOREM NeverDangling == Spec => []NoDangling
  <1>1. IInv => NoDangling
    <2> SUFFICES ASSUME IInv PROVE NoDangling
      OBVIOUS
    <2>1. \A p \in Procs : eventList[p] \subseteq Live
      BY DEF IInv, Owned, Listed
    <2>2. \A p \in Procs, r \in Refs :
            eventMap[p][r] # Nil => eventMap[p][r] \in Live
      BY <2>1 DEF IInv, Mapped
    <2>3. running # Nil /\ running.remove => running.event \in Live
      BY DEF IInv, Owned, Doomed
    <2> QED BY <2>1, <2>2, <2>3 DEF NoDangling
  <1> QED BY <1>1, IInvAlways, PTL

\* No event leaks, none is deleted twice and none is scheduled twice: it is in
\* exactly one list, or it is held by the loop that makes its last call.
THEOREM AlwaysOneOwner == Spec => []OneOwner
  <1>1. IInv => OneOwner
    <2> SUFFICES ASSUME IInv PROVE OneOwner
      OBVIOUS
    <2>1. running # Nil /\ running.remove =>
            \A p \in Procs : running.event \notin eventList[p]
      BY DEF IInv, Owned, Doomed, Listed
    <2>2. Live = Listed \cup Doomed
      BY DEF IInv, Owned
    <2>3. \A p, q \in Procs : p # q => eventList[p] \cap eventList[q] = {}
      BY DEF IInv, Owned
    <2>4. Listed = UNION {eventList[p] : p \in Procs}
      BY DEF Listed
    <2>5. Doomed = IF running # Nil /\ running.remove
                   THEN {running.event} ELSE {}
      BY DEF Doomed
    <2> QED BY <2>1, <2>2, <2>3, <2>4, <2>5, Zenon DEF OneOwner
  <1> QED BY <1>1, IInvAlways, PTL

------------------------------------------------------------------------------
(***************************************************************************)
(* What the events are, beyond their ownership: how often they were        *)
(* called, which Lua state they belong to and, until a second reload, by   *)
(* which id they are known.  Settled and Fresh say where orphans can come  *)
(* from: objects that a reload made unknown to the manager.                *)
(***************************************************************************)
Settled == \A o \in Objects \ alive : eventList[o] = {}

Fresh == Global \in processors /\ (luaState = 0 => alive \subseteq processors)

Tally ==
    /\ \A e \in Live : IF heap[e].repeats > 0
                       THEN heap[e].ran + heap[e].calls = heap[e].repeats
                       ELSE heap[e].calls = 0
    /\ \A e \in Doomed : heap[e].repeats > 0 /\ heap[e].calls = 0

Familiar == OnlyOrphansSurvive /\ OwnFunction /\ Cancellable

JInv == Settled /\ Fresh /\ Tally /\ Familiar

\* Steps that add no event and leave those that stay the same.
LEMMA KeepStep ==
    ASSUME IInv, IInv', JInv, luaState' = luaState,
           \A p \in Procs : eventList'[p] \subseteq eventList[p],
           \A e \in Live' : /\ e \in Live /\ heap'[e].ref = heap[e].ref
                            /\ heap'[e].state = heap[e].state,
           luaState <= 1 => \A e \in Live' :
               registry'[heap[e].ref] = registry[heap[e].ref],
           luaState <= 1 => \A p \in Procs, r \in Refs, e \in Events :
               eventMap'[p][r] = e <=> eventMap[p][r] = e /\ e \in eventList'[p],
           \A p \in processors' : p \in processors \/ eventList'[p] = {}
    PROVE  Familiar'
  <1>1. \A p \in Procs : eventList'[p] \subseteq Live'
    BY DEF IInv, Owned, Listed
  <1>2. OnlyOrphansSurvive'
    BY <1>1 DEF JInv, Familiar, OnlyOrphansSurvive, IInv, TypeOK
  <1>3. OwnFunction'
    BY DEF JInv, Familiar, OwnFunction
  <1>4. Cancellable'
    BY <1>1 DEF JInv, Familiar, Cancellable
  <1> QED BY <1>2, <1>3, <1>4 DEF Familiar

\* While ids are unique a deletion releases only the ids of what it deletes.
LEMMA Deleted ==
    ASSUME IInv, JInv, NEW D \in SUBSET Live, Delete(D)
    PROVE  /\ Live' = Live \ D
           /\ \A e \in Live' : heap'[e] = heap[e]
           /\ luaState <= 1 => \A e \in Live' :
                registry'[heap[e].ref] = registry[heap[e].ref]
  <1>1. Live \subseteq Events /\ \A e \in Live : heap[e].ref \in Refs
    BY LiveType DEF IInv
  <1>2. Live' = Live \ D
    BY DEF Delete, Live
  <1>3. \A e \in Live' : heap'[e] = heap[e]
    BY <1>1, <1>2 DEF Delete
  <1>4. ASSUME luaState <= 1, NEW e \in Live' PROVE registry'[heap[e].ref] = registry[heap[e].ref]
    <2>1. \A f \in D : heap[f].ref # heap[e].ref
      BY <1>2, <1>4 DEF JInv, Familiar, OwnFunction
    <2> QED BY <1>1, <1>2, <2>1 DEF Delete
  <1> QED BY <1>2, <1>3, <1>4

\* Aborting and the start of an update leave what events count and are.
LEMMA JField ==
    ASSUME IInv, IInv', JInv,
           \/ \E r \in Refs : RemoveEventById(r)
           \/ \E o \in Objects, r \in Refs : ObjectRemoveEventById(o, r)
           \/ \E p \in Procs, diff \in Diffs : Update(p, diff)
    PROVE  JInv'
  <1>1. UNCHANGED <<eventList, eventMap, registry, alive, processors, luaState, running>>
    BY DEF RemoveEventById, ObjectRemoveEventById, Update
  <1>2. ASSUME NEW e \in Live
        PROVE  /\ heap'[e].ref = heap[e].ref /\ heap'[e].state = heap[e].state
               /\ heap'[e].repeats = heap[e].repeats /\ heap'[e].calls = heap[e].calls
               /\ heap'[e].ran = heap[e].ran
    <2>1. heap[e] \in LuaEvent /\ e \in Events
      BY LiveType DEF IInv
    <2>2. \/ heap'[e] = heap[e] \/ heap'[e] = [heap[e] EXCEPT !.to_Abort = TRUE]
          \/ \E diff \in Diffs : heap'[e] = [heap[e] EXCEPT !.left = @ - diff]
      BY <2>1 DEF RemoveEventById, ObjectRemoveEventById, Update, Abort
    <2> QED BY <2>1, <2>2 DEF LuaEvent
  <1>3. Live' \subseteq Live
    <2>1. \A e \in Events : (\E p \in Procs, r \in Refs : eventMap[p][r] = e) => e \in Live
      BY EventsAssumption DEF IInv, Mapped, Owned, Listed
    <2>2. \A p \in Procs : eventList[p] \subseteq Live
      BY DEF IInv, Owned, Listed
    <2>3. processors \subseteq Procs /\ Global \in Procs /\ Objects \subseteq Procs
      BY DEF IInv, TypeOK, Procs
    <2>4. \A e \in Events : e \notin Live => heap'[e] = heap[e]
      BY <2>1, <2>2, <2>3 DEF RemoveEventById, ObjectRemoveEventById, Update, Abort
    <2> QED BY <2>4 DEF Live
  <1>4. Doomed' = Doomed /\ Doomed \subseteq Live
    BY <1>1 DEF Doomed, IInv, Owned
  <1>5. Settled' /\ Fresh'
    BY <1>1 DEF JInv, Settled, Fresh
  <1>6. Tally'
    BY <1>2, <1>3, <1>4 DEF JInv, Tally
  <1>7. \A p \in Procs, r \in Refs, e \in Events : luaState <= 1 =>
          (eventMap'[p][r] = e <=> eventMap[p][r] = e /\ e \in eventList'[p])
    BY <1>1 DEF JInv, Familiar, Cancellable
  <1>8. Familiar'
    BY <1>1, <1>2, <1>3, <1>7, KeepStep
  <1> QED BY <1>5, <1>6, <1>8 DEF JInv

\* Removing all events of processors.
LEMMA JClear ==
    ASSUME IInv, IInv', JInv, NEW P \in SUBSET Procs, Clear(P),
           running' = running, luaState' = luaState,
           \/ alive' = alive /\ processors' = processors
           \/ \E o \in Objects : /\ o \in P
                                 /\ alive' = alive \ {o} /\ processors' = processors \ {o}
    PROVE  JInv'
  <1> DEFINE D == UNION {eventList[p] : p \in P}
  <1>1. D \in SUBSET Live /\ Delete(D)
    BY DEF Clear, IInv, Owned, Listed
  <1>2. /\ Live' = Live \ D /\ \A e \in Live' : heap'[e] = heap[e]
        /\ luaState <= 1 => \A e \in Live' :
             registry'[heap[e].ref] = registry[heap[e].ref]
    BY <1>1, Deleted
  <1>3. \A p \in Procs : eventList'[p] = IF p \in P THEN {} ELSE eventList[p]
    BY DEF Clear
  <1>4. Settled'
    BY <1>3 DEF JInv, Settled, Procs
  <1>5. Fresh'
    BY EventsAssumption DEF JInv, Fresh
  <1>6. Doomed' = Doomed /\ Doomed \subseteq Live'
    BY <1>2 DEF Doomed, IInv, Owned, Listed
  <1> HIDE DEF D
  <1>7. Tally'
    BY <1>2, <1>6 DEF JInv, Tally
  <1>8. ASSUME luaState <= 1, NEW p \in Procs, NEW r \in Refs, NEW e \in Events
        PROVE  eventMap'[p][r] = e <=> eventMap[p][r] = e /\ e \in eventList'[p]
    <2>1. eventMap'[p][r] = IF p \in P THEN Nil ELSE eventMap[p][r]
      BY DEF Clear
    <2> QED BY <1>3, <1>8, <2>1, EventsAssumption DEF JInv, Familiar, Cancellable
  <1>9. Familiar'
    BY <1>2, <1>3, <1>8, KeepStep
  <1> QED BY <1>4, <1>5, <1>7, <1>9 DEF JInv

LEMMA JClears ==
    ASSUME IInv, IInv', JInv,
           \/ \E all_Events \in BOOLEAN : RemoveEvents(all_Events)
           \/ \E o \in Objects : ObjectRemoveEvents(o) \/ DeleteObject(o)
    PROVE  JInv'
  <1>1. ASSUME NEW all_Events \in BOOLEAN, RemoveEvents(all_Events) PROVE JInv'
    <2> DEFINE P == IF all_Events THEN processors \cup {Global} ELSE {Global}
    <2>1. P \in SUBSET Procs
      BY DEF IInv, TypeOK, Procs
    <2>2. Clear(P) /\ UNCHANGED <<alive, processors, luaState, running>>
      BY <1>1 DEF RemoveEvents
    <2> HIDE DEF P
    <2> QED BY <2>1, <2>2, JClear
  <1>2. ASSUME NEW o \in Objects, ObjectRemoveEvents(o) \/ DeleteObject(o) PROVE JInv'
    <2>1. {o} \in SUBSET Procs
      BY DEF Procs
    <2> QED BY <1>2, <2>1, JClear DEF ObjectRemoveEvents, DeleteObject
  <1> QED BY <1>1, <1>2

\* Steps that leave the events alone.
LEMMA JOther ==
    ASSUME IInv, IInv', JInv,
           \/ \E o \in Objects : CreateObject(o)
           \/ RequestReload \/ UpdateEnd \/ UNCHANGED vars
    PROVE  JInv'
  <1>1. /\ heap' = heap /\ eventList' = eventList /\ eventMap' = eventMap
        /\ registry' = registry /\ running' = running /\ luaState' = luaState
    BY DEF CreateObject, RequestReload, UpdateEnd, vars, tables
  <1>2. \/ alive' = alive /\ processors' = processors
        \/ \E o \in Objects : /\ o \notin alive /\ alive' = alive \cup {o}
                              /\ processors' = processors \cup {o}
    BY DEF CreateObject, RequestReload, UpdateEnd, vars
  <1>3. Settled' /\ Fresh'
    BY <1>1, <1>2 DEF JInv, Settled, Fresh
  <1>4. Tally' /\ Live' = Live
    BY <1>1 DEF JInv, Tally, Live, Doomed
  <1>5. \A p \in processors' : p \in processors \/ eventList'[p] = {}
    BY <1>1, <1>2 DEF JInv, Settled
  <1>6. \A p \in Procs, r \in Refs, e \in Events : luaState <= 1 =>
          (eventMap'[p][r] = e <=> eventMap[p][r] = e /\ e \in eventList'[p])
    BY <1>1 DEF JInv, Familiar, Cancellable
  <1>7. Familiar'
    BY <1>1, <1>4, <1>5, <1>6, KeepStep
  <1> QED BY <1>3, <1>4, <1>7 DEF JInv

\* A new event: its address and its id were free.
LEMMA JAdd ==
    ASSUME IInv, IInv', JInv, NEW p \in Procs, NEW delay \in Delays,
           NEW repeats \in Repeats, AddEvent(p, delay, repeats)
    PROVE  JInv'
  <1>1. PICK e \in Events \ Live, r \in Refs :
        /\ registry[r] = Nil
        /\ heap' = [heap EXCEPT ![e] =
             [ref |-> r, delay |-> delay, calls |-> repeats, to_Abort |-> FALSE,
              left |-> delay, state |-> luaState, repeats |-> repeats, ran |-> 0]]
        /\ eventList' = [eventList EXCEPT ![p] = @ \cup {e}]
        /\ eventMap' = [eventMap EXCEPT ![p][r] = e]
        /\ registry' = [registry EXCEPT ![r] = e]
    BY DEF AddEvent
  <1>2. /\ p \in alive \cup {Global}
        /\ UNCHANGED <<alive, processors, luaState, running>>
    BY DEF AddEvent
  <1>3. /\ heap'[e].ref = r /\ heap'[e].state = luaState /\ heap'[e].calls = repeats
        /\ heap'[e].repeats = repeats /\ heap'[e].ran = 0 /\ heap'[e] # Nil
    <2>1. heap'[e] = [ref |-> r, delay |-> delay, calls |-> repeats, to_Abort |-> FALSE,
              left |-> delay, state |-> luaState, repeats |-> repeats, ran |-> 0]
      BY <1>1 DEF IInv, TypeOK
    <2>2. heap'[e] \in LuaEvent
      <3>1. delay \in Int /\ repeats \in Nat /\ luaState \in 0..MaxReloads
        BY EventsAssumption DEF IInv, TypeOK
      <3> QED BY <2>1, <3>1 DEF LuaEvent
    <2>3. heap'[e] # Nil
      BY <2>2, NilAssumption
    <2>4. /\ heap'[e].ref = r /\ heap'[e].state = luaState /\ heap'[e].calls = repeats
          /\ heap'[e].repeats = repeats /\ heap'[e].ran = 0
      BY <2>1
    <2> QED BY <2>3, <2>4
  <1>4. \A f \in Events : f # e => heap'[f] = heap[f]
    BY <1>1 DEF IInv, TypeOK
  <1>5. Live' = Live \cup {e} /\ Live \subseteq Events /\ e \notin Live
    BY <1>3, <1>4 DEF Live
  <1>6. \A q \in Procs : eventList[q] \subseteq Live
    BY DEF IInv, Owned, Listed
  <1>7. \A q \in Procs : eventList'[q] = IF q = p THEN eventList[p] \cup {e} ELSE eventList[q]
    BY <1>1 DEF IInv, TypeOK
  <1>8. Settled' /\ Fresh'
    <2>1. \A o \in Objects \ alive : o # p
      BY <1>2, EventsAssumption
    <2> QED BY <1>2, <1>7, <2>1 DEF JInv, Settled, Fresh, Procs
  <1>9. Tally'
    <2>1. Doomed' = Doomed /\ Doomed \subseteq Live
      BY <1>2 DEF Doomed, IInv, Owned
    <2>2. repeats \in Nat
      BY EventsAssumption
    <2>3. IF heap'[e].repeats > 0 THEN heap'[e].ran + heap'[e].calls = heap'[e].repeats
                                  ELSE heap'[e].calls = 0
      BY <1>3, <2>2
    <2> QED BY <1>4, <1>5, <2>1, <2>3 DEF JInv, Tally
  <1>10. OnlyOrphansSurvive'
    <2> SUFFICES ASSUME NEW q \in processors, NEW f \in eventList'[q]
                 PROVE  heap'[f].state = luaState
      BY <1>2 DEF OnlyOrphansSurvive
    <2>1. q \in Procs
      BY DEF IInv, TypeOK
    <2>2. f = e \/ f \in eventList[q]
      BY <1>7, <2>1
    <2>3. f \in eventList[q] => heap[f].state = luaState /\ f \in Live
      BY <1>6, <2>1 DEF JInv, Familiar, OnlyOrphansSurvive
    <2> QED BY <1>3, <1>4, <1>5, <2>2, <2>3
  <1>11. OwnFunction'
    <2> SUFFICES ASSUME luaState <= 1, NEW f \in Live' PROVE registry'[heap'[f].ref] = f
      BY <1>2 DEF OwnFunction
    <2>1. CASE f = e
      BY <1>1, <1>3, <2>1 DEF IInv, TypeOK
    <2>2. CASE f # e
      <3>1. f \in Live /\ heap'[f] = heap[f] /\ registry[heap[f].ref] = f /\ heap[f].ref \in Refs
        BY <1>4, <1>5, <2>2, LiveType DEF JInv, Familiar, OwnFunction, IInv
      <3>2. f # Nil
        BY <3>1, <1>5, EventsAssumption
      <3>3. heap[f].ref # r
        BY <1>1, <3>1, <3>2
      <3> QED BY <1>1, <3>1, <3>3 DEF IInv, TypeOK
    <2> QED BY <2>1, <2>2
  <1>12. Cancellable'
    <2> SUFFICES ASSUME luaState <= 1, NEW q \in Procs, NEW s \in Refs, NEW f \in Events
                 PROVE  (eventMap'[q][s] = f) <=> (f \in eventList'[q] /\ heap'[f].ref = s)
      BY <1>2 DEF Cancellable
    <2>1. (eventMap[q][s] = f) <=> (f \in eventList[q] /\ heap[f].ref = s)
      BY DEF JInv, Familiar, Cancellable
    <2>2. eventMap'[q][s] = IF q = p /\ s = r THEN e ELSE eventMap[q][s]
      BY <1>1 DEF IInv, TypeOK
    <2>3. CASE f = e
      <3>1. f \notin eventList[q]
        BY <1>5, <1>6, <2>3
      <3> QED BY <1>3, <1>7, <2>1, <2>2, <2>3, <3>1
    <2>4. CASE f # e
      <3>1. heap'[f] = heap[f] /\ (f \in eventList'[q] <=> f \in eventList[q])
        BY <1>4, <1>7, <2>4
      <3>2. f \in eventList[q] => heap[f].ref # r
        <4> SUFFICES ASSUME f \in eventList[q], heap[f].ref = r PROVE FALSE
          OBVIOUS
        <4>1. registry[r] = f
          BY <1>6 DEF JInv, Familiar, OwnFunction
        <4> QED BY <1>1, <4>1, EventsAssumption
      <3> QED BY <2>1, <2>2, <2>4, <3>1, <3>2
    <2> QED BY <2>3, <2>4
  <1> QED BY <1>8, <1>9, <1>10, <1>11, <1>12 DEF JInv, Familiar

\* The map after an event is taken out of it, while ids are unique.
LEMMA JUnschedule ==
    ASSUME IInv, JInv, NEW e \in Events, First(e), Unschedule(e), luaState <= 1
    PROVE  \A p \in Procs, r \in Refs, f \in Events :
             eventMap'[p][r] = f <=> eventMap[p][r] = f /\ f \in eventList'[p]
  <1>0. /\ updating \in Procs /\ e \in eventList[updating]
        /\ heap[e].ref \in Refs /\ e \in Live
    BY FirstType
  <1> SUFFICES ASSUME NEW p \in Procs, NEW r \in Refs, NEW f \in Events
               PROVE  eventMap'[p][r] = f <=> eventMap[p][r] = f /\ f \in eventList'[p]
    OBVIOUS
  <1>1. eventMap'[p][r] = IF p = updating /\ r = heap[e].ref THEN Nil ELSE eventMap[p][r]
    BY <1>0 DEF Unschedule, IInv, TypeOK
  <1>2. eventList'[p] = IF p = updating THEN eventList[p] \ {e} ELSE eventList[p]
    BY <1>0 DEF Unschedule, IInv, TypeOK
  <1>3. (eventMap[p][r] = f) <=> (f \in eventList[p] /\ heap[f].ref = r)
    BY DEF JInv, Familiar, Cancellable
  <1>4. CASE p = updating /\ r = heap[e].ref
    <2>1. eventMap[p][r] = e
      BY <1>0, <1>4 DEF JInv, Familiar, Cancellable
    <2> QED BY <1>1, <1>2, <1>4, <2>1, EventsAssumption
  <1>5. CASE p = updating /\ r # heap[e].ref
    BY <1>1, <1>2, <1>3, <1>5
  <1>6. CASE p # updating
    BY <1>1, <1>2, <1>3, <1>6
  <1> QED BY <1>4, <1>5, <1>6

LEMMA JLists ==
    ASSUME IInv, NEW e \in Events, First(e), Unschedule(e)
    PROVE  \A p \in Procs : eventList'[p] \subseteq eventList[p]
  BY FirstType DEF Unschedule, IInv, TypeOK

LEMMA JDrop ==
    ASSUME IInv, IInv', JInv, NEW e \in Events, DropAborted(e)
    PROVE  JInv'
  <1>1. /\ First(e) /\ Delete({e}) /\ Unschedule(e)
        /\ UNCHANGED <<alive, processors, luaState, running>>
    BY DEF DropAborted
  <1>2. e \in Live /\ running = Nil
    BY <1>1, FirstType
  <1>3. /\ Live' = Live \ {e} /\ \A f \in Live' : heap'[f] = heap[f]
        /\ luaState <= 1 => \A f \in Live' :
             registry'[heap[f].ref] = registry[heap[f].ref]
    BY <1>1, <1>2, Deleted
  <1>4. \A p \in Procs : eventList'[p] \subseteq eventList[p]
    BY <1>1, JLists
  <1>5. Settled' /\ Fresh'
    BY <1>1, <1>4 DEF JInv, Settled, Fresh, Procs
  <1>6. Tally'
    BY <1>1, <1>2, <1>3 DEF JInv, Tally, Doomed
  <1>7. Familiar'
    BY <1>1, <1>3, <1>4, JUnschedule, KeepStep
  <1> QED BY <1>5, <1>6, <1>7 DEF JInv

\* One call is counted; what else Execute and Reschedule leave alone.
LEMMA ExecuteTally ==
    ASSUME NEW ev \in LuaEvent
    PROVE  /\ Execute(ev).state = ev.state /\ Execute(ev).repeats = ev.repeats
           /\ Execute(ev).ran + Execute(ev).calls = ev.ran + ev.calls
           /\ Execute(ev).calls = IF ev.calls > 0 THEN ev.calls - 1 ELSE ev.calls
           /\ Reschedule(ev).state = ev.state /\ Reschedule(ev).repeats = ev.repeats
           /\ Reschedule(ev).ran = ev.ran /\ Reschedule(ev).calls = ev.calls
  <1>1. ev.calls \in Nat /\ ev.ran \in Nat
    BY DEF LuaEvent
  <1>2. /\ Reschedule(ev).state = ev.state /\ Reschedule(ev).repeats = ev.repeats
        /\ Reschedule(ev).ran = ev.ran /\ Reschedule(ev).calls = ev.calls
    BY DEF Reschedule, LuaEvent
  <1>3. CASE ev.calls > 0
    <2> DEFINE f == [ev EXCEPT !.calls = ev.calls - 1]
               g == [f EXCEPT !.ran = ev.ran + 1]
    <2>1. Execute(ev) = g
      BY <1>3 DEF Execute, LuaEvent
    <2>2. /\ g.state = ev.state /\ g.repeats = ev.repeats
          /\ g.ran = ev.ran + 1 /\ g.calls = ev.calls - 1
      BY DEF LuaEvent
    <2> HIDE DEF g
    <2> QED BY <1>1, <1>2, <1>3, <2>1, <2>2
  <1>4. CASE ~(ev.calls > 0)
    BY <1>2, <1>4 DEF Execute
  <1> QED BY <1>3, <1>4

\* The event whose function is called, and the others.
LEMMA JExecute ==
    ASSUME IInv, IInv', JInv, NEW e \in Events, ExecuteLast(e) \/ ExecuteAgain(e)
    PROVE  /\ Live' = Live /\ e \in Live
           /\ \A f \in Live : f # e => heap'[f] = heap[f]
           /\ heap'[e].ref = heap[e].ref /\ heap'[e].state = heap[e].state
           /\ heap'[e].repeats = heap[e].repeats
           /\ heap'[e].ran + heap'[e].calls = heap[e].ran + heap[e].calls
           /\ heap[e].calls = 1 => heap'[e].calls = 0
           /\ heap[e].calls = 0 => heap'[e].calls = 0
           /\ heap[e].calls \in Nat /\ heap'[e].calls \in Nat /\ heap'[e].ran \in Nat
  <1>1. heap[e] \in LuaEvent /\ e \in Live
    BY FirstType DEF ExecuteLast, ExecuteAgain
  <1>2. /\ heap' = [heap EXCEPT ![e] = Execute(heap[e])]
           \/ heap' = [heap EXCEPT ![e] = Execute(Reschedule(heap[e]))]
    BY DEF ExecuteLast, ExecuteAgain
  <1>3. heap'[e] = Execute(heap[e]) \/ heap'[e] = Execute(Reschedule(heap[e]))
    BY <1>2 DEF IInv, TypeOK
  <1>4. \A f \in Events : f # e => heap'[f] = heap[f]
    BY <1>2 DEF IInv, TypeOK
  <1>5. Reschedule(heap[e]) \in LuaEvent /\ heap'[e] \in LuaEvent
    BY <1>1, <1>3, ExecuteType
  <1>6. Live' = Live
    BY <1>1, <1>4, <1>5, NilAssumption DEF Live
  <1>7. heap[e].calls \in Nat /\ heap'[e].calls \in Nat /\ heap'[e].ran \in Nat
    BY <1>1, <1>5 DEF LuaEvent
  <1>8. heap'[e].ref = heap[e].ref
    BY <1>1, <1>3, <1>5, ExecuteType
  <1>9. /\ heap'[e].state = heap[e].state /\ heap'[e].repeats = heap[e].repeats
        /\ heap'[e].ran + heap'[e].calls = heap[e].ran + heap[e].calls
        /\ heap'[e].calls = IF heap[e].calls > 0 THEN heap[e].calls - 1 ELSE heap[e].calls
    BY <1>1, <1>3, <1>5, ExecuteTally
  <1>10. /\ heap[e].calls = 1 => heap'[e].calls = 0
         /\ heap[e].calls = 0 => heap'[e].calls = 0
    BY <1>7, <1>9
  <1> QED BY <1>1, <1>4, <1>6, <1>7, <1>8, <1>9, <1>10 DEF Live

LEMMA JLast ==
    ASSUME IInv, IInv', JInv, NEW e \in Events, ExecuteLast(e)
    PROVE  JInv'
  <1>1. /\ First(e) /\ Unschedule(e) /\ heap[e].calls = 1
        /\ running' = [event |-> e, remove |-> TRUE]
        /\ UNCHANGED <<alive, processors, registry, luaState>>
    BY DEF ExecuteLast
  <1>2. \A p \in Procs : eventList'[p] \subseteq eventList[p]
    BY <1>1, JLists
  <1>3. Settled' /\ Fresh'
    BY <1>1, <1>2 DEF JInv, Settled, Fresh, Procs
  <1>4. Doomed' \subseteq {e}
    BY <1>1 DEF Doomed
  <1>5. heap[e].repeats > 0
    BY <1>1, JExecute DEF JInv, Tally
  <1>6. Tally'
    BY <1>1, <1>4, <1>5, JExecute DEF JInv, Tally
  <1>7. Familiar'
    BY <1>1, <1>2, JExecute, JUnschedule, KeepStep
  <1> QED BY <1>3, <1>6, <1>7 DEF JInv

LEMMA JAgain ==
    ASSUME IInv, IInv', JInv, NEW e \in Events, ExecuteAgain(e)
    PROVE  JInv'
  <1>1. /\ First(e) /\ heap[e].calls # 1
        /\ eventMap' = [eventMap EXCEPT ![updating][heap[e].ref] = e]
        /\ running' = [event |-> e, remove |-> FALSE]
        /\ UNCHANGED <<eventList, alive, processors, registry, luaState>>
    BY DEF ExecuteAgain
  <1>2. updating \in Procs /\ e \in eventList[updating] /\ heap[e].ref \in Refs
    BY <1>1, FirstType
  <1>3. Settled' /\ Fresh'
    BY <1>1 DEF JInv, Settled, Fresh
  <1>4. Doomed' = {}
    BY <1>1 DEF Doomed
  <1>5. Tally'
    BY <1>4, JExecute DEF JInv, Tally
  <1>6. ASSUME luaState <= 1, NEW p \in Procs, NEW r \in Refs, NEW f \in Events
        PROVE  eventMap'[p][r] = f <=> eventMap[p][r] = f /\ f \in eventList'[p]
    <2>1. eventMap[updating][heap[e].ref] = e
      BY <1>2, <1>6 DEF JInv, Familiar, Cancellable
    <2>2. eventMap'[p][r] = eventMap[p][r]
      BY <1>1, <1>2, <2>1 DEF IInv, TypeOK
    <2> QED BY <1>1, <1>6, <2>2 DEF JInv, Familiar, Cancellable
  <1>7. Familiar'
    BY <1>1, <1>6, JExecute, KeepStep
  <1> QED BY <1>3, <1>5, <1>7 DEF JInv

LEMMA JReturn ==
    ASSUME IInv, IInv', JInv, Return
    PROVE  JInv'
  <1>1. /\ running # Nil /\ running' = Nil
        /\ UNCHANGED <<eventList, eventMap, alive, processors, luaState>>
    BY DEF Return
  <1>2. Doomed' = {} /\ Settled' /\ Fresh'
    BY <1>1 DEF Doomed, JInv, Settled, Fresh
  <1>3. /\ Live' \subseteq Live /\ \A e \in Live' : heap'[e] = heap[e]
        /\ luaState <= 1 => \A e \in Live' :
             registry'[heap[e].ref] = registry[heap[e].ref]
    <2>1. CASE running.remove
      <3>1. {running.event} \in SUBSET Live /\ Delete({running.event})
        BY <1>1, <2>1 DEF Return, IInv, Owned, Doomed
      <3> QED BY <3>1, Deleted
    <2>2. CASE ~running.remove
      BY <2>2 DEF Return, Live
    <2> QED BY <2>1, <2>2
  <1>4. Tally'
    BY <1>2, <1>3 DEF JInv, Tally
  <1>5. \A p \in Procs, r \in Refs, e \in Events : luaState <= 1 =>
          (eventMap'[p][r] = e <=> eventMap[p][r] = e /\ e \in eventList'[p])
    BY <1>1 DEF JInv, Familiar, Cancellable
  <1>6. Familiar'
    BY <1>1, <1>3, <1>5, KeepStep
  <1> QED BY <1>2, <1>4, <1>6 DEF JInv

\* The first reload leaves no event at all, later ones leave orphans.
LEMMA JReload ==
    ASSUME IInv, IInv', JInv, ReloadEluna
    PROVE  JInv'
  <1>1. /\ processors' = {Global} /\ luaState' = luaState + 1 /\ alive' = alive
        /\ running = Nil /\ running' = Nil /\ luaState \in Nat
        /\ heap' = [e \in Events |->
               IF e \in UNION {eventList[p] : p \in Known} THEN Nil ELSE heap[e]]
        /\ eventList' = [p \in Procs |-> IF p \in Known THEN {} ELSE eventList[p]]
        /\ eventMap' = [p \in Procs |-> IF p \in Known THEN [r \in Refs |-> Nil]
                                                       ELSE eventMap[p]]
    BY DEF ReloadEluna, IInv, TypeOK
  <1>2. Global \in Procs /\ Global \in Known /\ Objects \subseteq Procs
    BY DEF Procs, Known
  <1>3. eventList'[Global] = {} /\ \A p \in Procs : eventList'[p] \subseteq eventList[p]
    BY <1>1, <1>2
  <1>4. Settled' /\ Fresh'
    BY <1>1, <1>2, <1>3 DEF JInv, Settled, Fresh
  <1>5. Doomed = {} /\ Doomed' = {}
    BY <1>1 DEF Doomed
  <1>6. Live' \subseteq Live /\ \A e \in Live' : heap'[e] = heap[e]
    BY <1>1 DEF Live
  <1>7. Tally'
    BY <1>5, <1>6 DEF JInv, Tally
  <1>8. OnlyOrphansSurvive'
    BY <1>1, <1>3 DEF OnlyOrphansSurvive
  <1>9. CASE luaState = 0
    <2>1. \A p \in Procs : p \in Known \/ eventList[p] = {}
      BY <1>9 DEF JInv, Settled, Fresh, Known, Procs
    <2>2. \A p \in Procs : eventList'[p] = {} /\ \A r \in Refs : eventMap'[p][r] = Nil
      <3> SUFFICES ASSUME NEW p \in Procs
                   PROVE  eventList'[p] = {} /\ \A r \in Refs : eventMap'[p][r] = Nil
        OBVIOUS
      <3>1. CASE p \in Known
        BY <1>1, <3>1
      <3>2. CASE p \notin Known
        BY <1>1, <2>1, <3>2 DEF IInv, Mapped
      <3> QED BY <3>1, <3>2
    <2>3. Live' = {}
      BY <1>5, <2>2 DEF IInv, Owned, Listed
    <2> QED BY <1>4, <1>7, <1>8, <2>2, <2>3, EventsAssumption
            DEF JInv, Familiar, OwnFunction, Cancellable
  <1>10. CASE luaState # 0
    <2>1. ~(luaState' <= 1)
      BY <1>1, <1>10
    <2> QED BY <1>4, <1>7, <1>8, <2>1 DEF JInv, Familiar, OwnFunction, Cancellable
  <1> QED BY <1>9, <1>10

LEMMA JInvStep == IInv /\ IInv' /\ JInv /\ [Next]_vars => JInv'
  <1> SUFFICES ASSUME IInv, IInv', JInv, [Next]_vars PROVE JInv'
    OBVIOUS
  <1>1. CASE Loop
    BY <1>1, JDrop, JLast, JAgain, JReturn, JOther, JReload DEF Loop
  <1>2. CASE \E p \in Procs, d \in Delays, n \in Repeats : AddEvent(p, d, n)
    BY <1>2, JAdd
  <1>3. CASE \/ \E r \in Refs : RemoveEventById(r)
             \/ \E o \in Objects, r \in Refs : ObjectRemoveEventById(o, r)
             \/ \E p \in Procs, diff \in Diffs : Update(p, diff)
    BY <1>3, JField
  <1>4. CASE \/ \E all_Events \in BOOLEAN : RemoveEvents(all_Events)
             \/ \E o \in Objects : ObjectRemoveEvents(o)
             \/ \E o \in Objects : CreateObject(o) \/ DeleteObject(o)
    BY <1>4, JClears, JOther
  <1>5. CASE RequestReload \/ UNCHANGED vars
    BY <1>5, JOther
  <1> QED BY <1>1, <1>2, <1>3, <1>4, <1>5 DEF Next

LEMMA JInvAlways == Spec => []JInv
  <1>1. Init => JInv
    <2> SUFFICES ASSUME Init PROVE JInv
      OBVIOUS
    <2>1. Live = {} /\ Doomed = {}
      BY DEF Init, Live, Doomed
    <2>2. Settled /\ Fresh /\ Tally
      BY <2>1 DEF Init, Settled, Fresh, Tally, Procs
    <2>3. Familiar
      BY <2>1, EventsAssumption DEF Init, Familiar, OnlyOrphansSurvive, OwnFunction,
                                    Cancellable, Procs
    <2> QED BY <2>2, <2>3 DEF JInv
  <1> QED BY <1>1, JInvStep, IInvAlways, PTL DEF Spec

\* An event with n repeats is called n times at most, and the loop deletes it
\* after the n-th call only.
THEOREM CallsAreCounted == Spec => []CallsCounted
  <1>1. IInv /\ JInv => CallsCounted
    <2> SUFFICES ASSUME IInv, JInv PROVE CallsCounted
      OBVIOUS
    <2>1. running # Nil /\ running.remove => running.event \in Doomed
      BY DEF Doomed
    <2>2. \A e \in Doomed : heap[e].ran = heap[e].repeats
      <3> SUFFICES ASSUME NEW e \in Doomed PROVE heap[e].ran = heap[e].repeats
        OBVIOUS
      <3>1. e \in Live /\ heap[e].ran \in Nat
        BY LiveType DEF IInv, Owned, LuaEvent
      <3> QED BY <3>1 DEF JInv, Tally
    <2>3. \A e \in Live : heap[e].repeats > 0 =>
                            heap[e].ran + heap[e].calls = heap[e].repeats
      BY DEF JInv, Tally
    <2> QED BY <2>1, <2>2, <2>3 DEF CallsCounted
  <1> QED BY <1>1, IInvAlways, JInvAlways, PTL

\* The current manager keeps no event of a closed Lua state, however many
\* reloads there were.
THEOREM NoStaleEvents == Spec => []OnlyOrphansSurvive
  <1>1. JInv => OnlyOrphansSurvive
    BY DEF JInv, Familiar
  <1> QED BY <1>1, JInvAlways, PTL

\* Until a second reload a recycled id never calls a foreign function.
THEOREM AlwaysOwnFunction == Spec => []OwnFunction
  <1>1. JInv => OwnFunction
    BY DEF JInv, Familiar
  <1> QED BY <1>1, JInvAlways, PTL

\* Until a second reload RemoveEventById finds exactly the event it names.
THEOREM AlwaysCancellable == Spec => []Cancellable
  <1>1. JInv => Cancellable
    BY DEF JInv, Familiar
  <1> QED BY <1>1, JInvAlways, PTL
=============================================================================
