----------------------------- MODULE ElunaEvents -----------------------------
(***************************************************************************)
(* The timed events of the Eluna engine (ElunaEventMgr.cpp), which drive   *)
(* the 1000 ms tick of the game service.  Every world object owns an event *)
(* processor, the engine owns a global one, and the event manager knows    *)
(* the processors that were created since the Lua state was opened.        *)
(*                                                                         *)
(* A LuaEvent is a heap object: an address of Events, free or in use.  Its *)
(* id is the registry reference of its function, an element of Refs that   *)
(* luaL_unref makes available again.  m_time only grows, so an event keeps *)
(* the time that is left until it is due instead of its due time.          *)
(***************************************************************************)
EXTENDS Integers

CONSTANTS
    Nil,
    Global,       \* the global processor
    Objects,      \* world objects, each with a processor of its own
    Events,       \* bound: addresses for LuaEvent objects
    Refs,         \* bound: references luaL_ref can return
    Delays,       \* delays a script passes to CreateLuaEvent
    Repeats,      \* repeats a script passes, 0 for a periodic event
    Diffs,        \* times between two updates of a processor
    MaxReloads    \* bound: reloads of the Lua state

Procs == Objects \cup {Global}

ASSUME EventsAssumption ==
    /\ Delays \subseteq Nat /\ Repeats \subseteq Nat /\ Diffs \subseteq Nat
    /\ MaxReloads \in Nat
    /\ Global \notin Objects /\ Nil \notin Procs /\ Nil \notin Events

\* ran and repeats are kept only to state how often an event was executed,
\* state is the Lua state its function was registered in.
LuaEvent == [ref : Refs, delay : Delays, calls : Nat, to_Abort : BOOLEAN,
             left : Int, state : 0..MaxReloads, repeats : Repeats, ran : Nat]

Call == [event : Events, remove : BOOLEAN]

ASSUME NilAssumption == Nil \notin LuaEvent /\ Nil \notin Call

VARIABLES
    heap,         \* heap[e]: the LuaEvent at address e, or Nil
    eventList,    \* eventList[p]: the events scheduled by processor p
    eventMap,     \* eventMap[p][r]: the scheduled event with id r, or Nil
    alive,        \* the objects that exist
    processors,   \* EventMgr::processors
    registry,     \* registry[r]: the event whose function r refers to, or Nil
    luaState,     \* number of the current Lua state
    reload,       \* Eluna::reload
    updating,     \* the processor whose Update is running, or Nil
    running       \* the call of a function that is running, or Nil

vars == <<heap, eventList, eventMap, alive, processors, registry, luaState,
          reload, updating, running>>
tables == <<heap, eventList, eventMap, registry>>

Live == {e \in Events : heap[e] # Nil}

\* Script code runs: inside a timed function or in some other hook.
Scripting == updating = Nil \/ running # Nil

Init ==
    /\ heap = [e \in Events |-> Nil]
    /\ eventList = [p \in Procs |-> {}]
    /\ eventMap = [p \in Procs |-> [r \in Refs |-> Nil]]
    /\ alive = {}
    /\ processors = {Global}
    /\ registry = [r \in Refs |-> Nil]
    /\ luaState = 0
    /\ reload = FALSE
    /\ updating = Nil
    /\ running = Nil

------------------------------------------------------------------------------
\* Scheduling and cancelling, called from Lua.

\* CreateLuaEvent for the global processor, RegisterEvent for an object's.
AddEvent(p, delay, repeats) ==
    /\ Scripting /\ p \in alive \cup {Global}
    /\ \E e \in Events \ Live, r \in Refs :
        /\ registry[r] = Nil
        /\ heap' = [heap EXCEPT ![e] =
             [ref |-> r, delay |-> delay, calls |-> repeats, to_Abort |-> FALSE,
              left |-> delay, state |-> luaState, repeats |-> repeats, ran |-> 0]]
        /\ eventList' = [eventList EXCEPT ![p] = @ \cup {e}]
        /\ eventMap' = [eventMap EXCEPT ![p][r] = e]
        /\ registry' = [registry EXCEPT ![r] = e]
    /\ UNCHANGED <<alive, processors, luaState, reload, updating, running>>

\* ElunaEventProcessor::RemoveEvent for the processors P.
Abort(P, r) ==
    heap' = [e \in Events |->
        IF \E p \in P : eventMap[p][r] = e
        THEN [heap[e] EXCEPT !.to_Abort = TRUE] ELSE heap[e]]

\* Mutant: the function is released as soon as its event is aborted.
RemoveEventById_released(r) ==
    /\ Scripting
    /\ Abort(processors \cup {Global}, r)
    /\ registry' = [registry EXCEPT ![r] = Nil]
    /\ UNCHANGED <<eventList, eventMap, alive, processors, luaState, reload,
                   updating, running>>

\* RemoveEventById(id): all_Events is read from the argument that holds the
\* id, so every processor of the manager is asked.
RemoveEventById(r) ==
    /\ Scripting
    /\ Abort(processors \cup {Global}, r)
    /\ UNCHANGED <<eventList, eventMap, registry, alive, processors, luaState,
                   reload, updating, running>>

ObjectRemoveEventById(o, r) ==
    /\ Scripting /\ o \in alive
    /\ Abort({o}, r)
    /\ UNCHANGED <<eventList, eventMap, registry, alive, processors, luaState,
                   reload, updating, running>>

\* delete e for every e of D; ~LuaEvent unrefs the id in the current state.
Delete(D) ==
    /\ heap' = [e \in Events |-> IF e \in D THEN Nil ELSE heap[e]]
    /\ registry' = [r \in Refs |->
         IF \E e \in D : heap[e].ref = r THEN Nil ELSE registry[r]]

\* Mutant: the list is cleared, the map is forgotten.
Clear_listOnly(P) ==
    /\ Delete(UNION {eventList[p] : p \in P})
    /\ eventList' = [p \in Procs |-> IF p \in P THEN {} ELSE eventList[p]]
    /\ UNCHANGED eventMap

\* ElunaEventProcessor::RemoveEvents for the processors P.
Clear(P) ==
    /\ Delete(UNION {eventList[p] : p \in P})
    /\ eventList' = [p \in Procs |-> IF p \in P THEN {} ELSE eventList[p]]
    /\ eventMap' = [p \in Procs |-> IF p \in P THEN [r \in Refs |-> Nil]
                                               ELSE eventMap[p]]

RemoveEvents(all_Events) ==
    /\ Scripting
    /\ Clear(IF all_Events THEN processors \cup {Global} ELSE {Global})
    /\ UNCHANGED <<alive, processors, luaState, reload, updating, running>>

ObjectRemoveEvents(o) ==
    /\ Scripting /\ o \in alive
    /\ Clear({o})
    /\ UNCHANGED <<alive, processors, luaState, reload, updating, running>>

------------------------------------------------------------------------------
\* ElunaEventProcessor::Update.

Update(p, diff) ==
    /\ updating = Nil /\ p \in alive \cup {Global}
    /\ updating' = p
    /\ heap' = [e \in Events |-> IF e \in eventList[p]
                  THEN [heap[e] EXCEPT !.left = @ - diff] ELSE heap[e]]
    /\ UNCHANGED <<eventList, eventMap, alive, processors, registry, luaState,
                   reload, running>>

Due(p) == {e \in eventList[p] : heap[e].left <= 0}

\* The event the loop takes next.
First(e) ==
    /\ updating # Nil /\ running = Nil
    /\ e \in Due(updating)
    /\ \A f \in Due(updating) : heap[e].left <= heap[f].left

Unschedule(e) ==
    /\ eventList' = [eventList EXCEPT ![updating] = @ \ {e}]
    /\ eventMap' = [eventMap EXCEPT ![updating][heap[e].ref] = Nil]

DropAborted(e) ==
    /\ First(e) /\ heap[e].to_Abort
    /\ Delete({e})
    /\ Unschedule(e)
    /\ UNCHANGED <<alive, processors, luaState, reload, updating, running>>

\* Mutant: the calls are not counted.
Execute_uncounted(ev) == IF ev.calls > 0 THEN [ev EXCEPT !.ran = @ + 1] ELSE ev

\* LuaEvent::Execute up to the call: `if (calls) --calls'.
Execute(ev) ==
    IF ev.calls > 0 THEN [ev EXCEPT !.calls = @ - 1, !.ran = @ + 1] ELSE ev

\* Mutant: the event is due again at once.
Reschedule_now(ev) == [ev EXCEPT !.left = 0]

\* AddEvent(event): due again after its delay.
Reschedule(ev) == [ev EXCEPT !.left = ev.delay]

\* The last call: the event is no longer scheduled while its function runs.
ExecuteLast(e) ==
    /\ First(e) /\ ~heap[e].to_Abort /\ heap[e].calls = 1
    /\ Unschedule(e)
    /\ heap' = [heap EXCEPT ![e] = Execute(@)]
    /\ running' = [event |-> e, remove |-> TRUE]
    /\ UNCHANGED <<alive, processors, registry, luaState, reload, updating>>

\* Mutant: the event is scheduled again, but not put back into the map.
ExecuteAgain_unmapped(e) ==
    /\ First(e) /\ ~heap[e].to_Abort /\ heap[e].calls # 1
    /\ heap' = [heap EXCEPT ![e] = Execute(Reschedule(@))]
    /\ eventMap' = [eventMap EXCEPT ![updating][heap[e].ref] = Nil]
    /\ running' = [event |-> e, remove |-> FALSE]
    /\ UNCHANGED <<eventList, alive, processors, registry, luaState, reload,
                   updating>>

\* Any other call: the event is scheduled again before its function runs.
ExecuteAgain(e) ==
    /\ First(e) /\ ~heap[e].to_Abort /\ heap[e].calls # 1
    /\ heap' = [heap EXCEPT ![e] = Execute(Reschedule(@))]
    /\ eventMap' = [eventMap EXCEPT ![updating][heap[e].ref] = e]
    /\ running' = [event |-> e, remove |-> FALSE]
    /\ UNCHANGED <<eventList, alive, processors, registry, luaState, reload,
                   updating>>

\* Mutant: the event is not deleted after its last call.
Return_leak ==
    /\ running # Nil
    /\ running' = Nil
    /\ UNCHANGED <<tables, alive, processors, luaState, reload, updating>>

\* The function returns; `delete event' after the last call.
Return ==
    /\ running # Nil
    /\ running' = Nil
    /\ IF running.remove THEN Delete({running.event})
                         ELSE UNCHANGED <<heap, registry>>
    /\ UNCHANGED <<eventList, eventMap, alive, processors, luaState, reload,
                   updating>>

UpdateEnd ==
    /\ updating # Nil /\ running = Nil /\ Due(updating) = {}
    /\ ~(updating = Global /\ reload)
    /\ updating' = Nil
    /\ UNCHANGED <<tables, alive, processors, luaState, reload, running>>

------------------------------------------------------------------------------
\* Objects come and go between updates; the core defers their deletion.

CreateObject(o) ==
    /\ updating = Nil /\ o \notin alive
    /\ alive' = alive \cup {o}
    /\ processors' = processors \cup {o}
    /\ UNCHANGED <<tables, luaState, reload, updating, running>>

DeleteObject(o) ==
    /\ updating = Nil /\ o \in alive
    /\ Clear({o})
    /\ alive' = alive \ {o}
    /\ processors' = processors \ {o}
    /\ UNCHANGED <<luaState, reload, updating, running>>

RequestReload ==
    /\ Scripting /\ ~reload /\ luaState < MaxReloads
    /\ reload' = TRUE
    /\ UNCHANGED <<tables, alive, processors, luaState, updating, running>>

\* Mutant: the events of the global processor outlive its manager.
Known_objects == processors \ {Global}

\* The processors whose events EventMgr::RemoveEvents removes.
Known == processors \cup {Global}

\* OnWorldUpdate reloads after the update of the global processor.  The old
\* manager removes the events of the processors it knows and is deleted, the
\* Lua state is closed; the new manager has only the new global processor,
\* whatever objects exist.
ReloadEluna ==
    /\ updating = Global /\ running = Nil /\ Due(Global) = {} /\ reload
    /\ updating' = Nil
    /\ LET gone == UNION {eventList[p] : p \in Known}
       IN  heap' = [e \in Events |-> IF e \in gone THEN Nil ELSE heap[e]]
    /\ eventList' = [p \in Procs |->
         IF p \in Known THEN {} ELSE eventList[p]]
    /\ eventMap' = [p \in Procs |->
         IF p \in Known THEN [r \in Refs |-> Nil] ELSE eventMap[p]]
    /\ registry' = [r \in Refs |-> Nil]
    /\ processors' = {Global}
    /\ luaState' = luaState + 1
    /\ reload' = FALSE
    /\ UNCHANGED <<alive, running>>

Loop == (\E e \in Events : DropAborted(e) \/ ExecuteLast(e) \/ ExecuteAgain(e))
        \/ Return \/ UpdateEnd \/ ReloadEluna

Next ==
    \/ \E p \in Procs, d \in Delays, n \in Repeats : AddEvent(p, d, n)
    \/ \E r \in Refs : RemoveEventById(r)
    \/ \E o \in Objects, r \in Refs : ObjectRemoveEventById(o, r)
    \/ \E all_Events \in BOOLEAN : RemoveEvents(all_Events)
    \/ \E o \in Objects : ObjectRemoveEvents(o)
    \/ \E p \in Procs, diff \in Diffs : Update(p, diff)
    \/ Loop
    \/ \E o \in Objects : CreateObject(o) \/ DeleteObject(o)
    \/ RequestReload

Spec == Init /\ [][Next]_vars

\* Update is a plain loop on the world or map thread and the functions it
\* calls return, so its steps are taken as long as there are any.
FairSpec == Spec /\ WF_vars(Loop)

------------------------------------------------------------------------------
\* Every variable has its type; calls, a uint32, never goes below 0.
TypeOK ==
    /\ heap \in [Events -> LuaEvent \cup {Nil}]
    /\ eventList \in [Procs -> SUBSET Events]
    /\ eventMap \in [Procs -> [Refs -> Events \cup {Nil}]]
    /\ alive \subseteq Objects
    /\ processors \subseteq Procs
    /\ registry \in [Refs -> Events \cup {Nil}]
    /\ luaState \in 0..MaxReloads
    /\ reload \in BOOLEAN
    /\ updating \in Procs \cup {Nil}
    /\ running \in Call \cup {Nil}

\* No use after free and no double free: whatever a timed function removes
\* while it runs, the loop of Update only holds and deletes live events.
NoDangling ==
    /\ \A p \in Procs : eventList[p] \subseteq Live
    /\ \A p \in Procs, r \in Refs : eventMap[p][r] # Nil => eventMap[p][r] \in Live
    /\ running # Nil /\ running.remove => running.event \in Live

\* An event is owned by exactly one place: one list, or the loop that runs its
\* last call.  Nothing leaks and nothing is scheduled twice.
OneOwner ==
    /\ \A p, q \in Procs : p # q => eventList[p] \cap eventList[q] = {}
    /\ Live = (UNION {eventList[p] : p \in Procs}) \cup
              (IF running # Nil /\ running.remove THEN {running.event} ELSE {})
    /\ running # Nil /\ running.remove =>
         \A p \in Procs : running.event \notin eventList[p]

\* Until a second reload, every scheduled event can be cancelled: the map a
\* removal by id consults names it, and names nothing else.
Cancellable ==
    luaState <= 1 => \A p \in Procs, r \in Refs, e \in Events :
        (eventMap[p][r] = e) <=> (e \in eventList[p] /\ heap[e].ref = r)

\* Until a second reload, an event always calls the function it was created
\* with, although ids are recycled as soon as an event is deleted.
OwnFunction == luaState <= 1 => \A e \in Live : registry[heap[e].ref] = e

\* An event created with n repeats is called n times at most, and it is only
\* deleted by Update after exactly n calls.
CallsCounted ==
    /\ \A e \in Live : heap[e].repeats > 0 =>
                         heap[e].ran + heap[e].calls = heap[e].repeats
    /\ running # Nil /\ running.remove =>
         heap[running.event].ran = heap[running.event].repeats

\* A manager never keeps an event of a closed Lua state: an event that has
\* outlived a reload is in the processor of an object that is older than the
\* reload, which the new manager does not know (a processor registers itself
\* in its constructor only).
OnlyOrphansSurvive ==
    \A p \in processors : \A e \in eventList[p] : heap[e].state = luaState

\* Update comes to an end when no delay is 0: an event that is scheduled
\* again before its call is not due in the same update.
UpdateEnds == (updating # Nil) ~> (updating = Nil)

=============================================================================
