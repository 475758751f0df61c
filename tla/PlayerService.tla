---------------------------- MODULE PlayerService ----------------------------
(***************************************************************************)
(* What the game service promises to do with one player, seen by nobody    *)
(* but him: which game he is said to be in, whether he is in the world,    *)
(* and whether some queue or some started game has him on its roster.      *)
(***************************************************************************)
CONSTANTS Nil, Names

VARIABLES
    GAME,       \* the player's GAME variable
    here,       \* offline, loading or in the world
    queued,     \* on the roster of a queue
    playing     \* on the roster of a started game

served == <<GAME, here, queued, playing>>

Init == GAME = Nil /\ here = "offline" /\ queued = FALSE /\ playing = FALSE

\* He creates or joins a game; he must be in none.
Enter(n) ==
    /\ here = "world" /\ GAME = Nil
    /\ GAME' = n /\ queued' = TRUE
    /\ UNCHANGED <<here, playing>>

\* He leaves; the rosters are not changed.
Leave ==
    /\ here = "world"
    /\ GAME' = Nil
    /\ UNCHANGED <<here, queued, playing>>

\* A queue that has him is dissolved, not always the one he thinks he is in.
Dissolved ==
    /\ here = "world" /\ queued
    /\ GAME' = Nil /\ queued' \in BOOLEAN
    /\ UNCHANGED <<here, playing>>

\* A queue that has him starts and carries him to the arena.
Carried ==
    /\ here = "world" /\ queued
    /\ here' = "loading" /\ playing' = TRUE /\ queued' \in BOOLEAN
    /\ UNCHANGED GAME

\* A queue calls him into the lobby, and may start without him.
CalledIn ==
    /\ here = "world" /\ queued
    /\ here' = "loading" /\ queued' \in BOOLEAN /\ playing' \in BOOLEAN
    /\ (playing => playing') /\ (queued' \/ playing')
    /\ UNCHANGED GAME

\* A queue starts and leaves him where he is.
LeftBehind ==
    /\ here = "world" /\ queued
    /\ playing' = TRUE /\ queued' \in BOOLEAN
    /\ UNCHANGED <<GAME, here>>

\* Queues may drop him, or vanish, only while he is not found; nobody takes
\* GAME from him then.
Unseen ==
    /\ here # "world" /\ queued
    /\ queued' = FALSE
    /\ UNCHANGED <<GAME, here, playing>>

Arrive ==
    /\ here # "world" /\ here' = "world"
    /\ UNCHANGED <<GAME, queued, playing>>

LogOut ==
    /\ here # "offline" /\ here' = "offline" /\ GAME' = Nil
    /\ UNCHANGED <<queued, playing>>

Released ==
    /\ here = "world" /\ here' \in {"world", "loading"} /\ GAME' = Nil
    /\ UNCHANGED <<queued, playing>>

Next ==
    \/ \E n \in Names : Enter(n)
    \/ Leave \/ Dissolved \/ Carried \/ CalledIn \/ LeftBehind \/ Unseen
    \/ Arrive \/ LogOut \/ Released

Spec == Init /\ [][Next]_served
=============================================================================
