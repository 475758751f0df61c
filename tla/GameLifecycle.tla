---------------------------- MODULE GameLifecycle ----------------------------
(***************************************************************************)
(* What the game service promises about the life of one game, with no      *)
(* word on players, tables or ticks.  Games are numbered in the order they *)
(* are created.  A game is first queued; a queued game is either dissolved *)
(* or started; a started game counts one second after another up to        *)
(* Countdown, then the cages open (Countdown + 1), and nothing ends it.    *)
(***************************************************************************)
EXTENDS Integers

CONSTANTS MaxGames, Countdown

VARIABLE life      \* life[i]: the stage of game number i

Ids == 1..MaxGames

Unborn == -2       \* no game has this number yet
Gone   == -1       \* dissolved while it was queued
Queued == 0        \* 1..Countdown: second of the countdown; then open

Init == life = [i \in Ids |-> Unborn]

Create(i) ==
    /\ life[i] = Unborn
    /\ \A j \in Ids : j < i => life[j] # Unborn
    /\ life' = [life EXCEPT ![i] = Queued]

Dissolve(i) ==
    /\ life[i] = Queued
    /\ life' = [life EXCEPT ![i] = Gone]

Advance(i) ==      \* from Queued this is the start of the game
    /\ life[i] \in Queued..Countdown
    /\ life' = [life EXCEPT ![i] = @ + 1]

Next == \E i \in Ids : Create(i) \/ Dissolve(i) \/ Advance(i)

Spec == Init /\ [][Next]_life
=============================================================================
