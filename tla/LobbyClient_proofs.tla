-------------------------- MODULE LobbyClient_proofs --------------------------
(***************************************************************************)
(* Theorems about the lobby of a client, for any number of games and any   *)
(* number of requests and messages under way.                              *)
(*                                                                         *)
(* WaitingInGame speaks of a quiet moment; the invariant behind it, Waits, *)
(* says what is true in between: either a RESET is on its way, or the last *)
(* request that matters asks for the game shown, or nothing that matters   *)
(* is on its way and the server agrees with the client.  Rostered says of  *)
(* the service alone that GAME is never set without a roster, but for      *)
(* queues that vanished.                                                   *)
(***************************************************************************)
EXTENDS LobbyClient, SequenceTheorems, TLAPS

\* Only polls are under way.
Quiet(u) == \A i \in 1..Len(u) : u[i].type \in Polls

\* The last request that is not a poll asks to be let into game n.
Asks(u, n) ==
    \E i \in 1..Len(u) :
        /\ u[i].type \in Entering /\ u[i].name = n
        /\ \A j \in (i + 1)..Len(u) : u[j].type \in Polls

Has(d, m) == \E i \in 1..Len(d) : d[i] = m

Waits ==
    (MENU_SELECTED = 2 /\ ~missed) =>
        \/ Has(down, "RESET")
        \/ Asks(up, PLAYER_IN_GAME_STR)
        \/ Quiet(up) /\ GAME = PLAYER_IN_GAME_STR

Rostered == GAME # Nil => queued \/ playing \/ vanished

Starts == (IN_GAME \/ Has(down, "STARTINGGAME")) => playing

ServiceOK ==
    /\ here \in {"offline", "loading", "world"}
    /\ queued \in BOOLEAN /\ playing \in BOOLEAN /\ GAME \in Names \cup {Nil}

------------------------------------------------------------------------------
\* Requests and messages in their queues

LEMMA Tails ==
    ASSUME NEW S, NEW u \in Seq(S), u # <<>>
    PROVE  /\ Tail(u) \in Seq(S) /\ Head(u) = u[1] /\ Head(u) \in S
           /\ Len(u) \in Nat /\ Len(u) >= 1 /\ Len(Tail(u)) = Len(u) - 1
           /\ \A i \in 1..Len(Tail(u)) : Tail(u)[i] = u[i + 1]
  BY HeadTailProperties

LEMMA Appends ==
    ASSUME NEW S, NEW u \in Seq(S), NEW e \in S
    PROVE  /\ Append(u, e) \in Seq(S) /\ Len(u) \in Nat
           /\ Len(Append(u, e)) = Len(u) + 1
           /\ Append(u, e)[Len(u) + 1] = e
           /\ \A i \in 1..Len(u) : Append(u, e)[i] = u[i]
  BY AppendProperties

LEMMA AskNew ==
    ASSUME NEW u \in Seq(Requests), NEW r \in Requests, r.type \in Entering
    PROVE  Asks(Append(u, r), r.name)
  <1>1. /\ Len(u) + 1 \in 1..Len(Append(u, r))
        /\ Append(u, r)[Len(u) + 1] = r
        /\ (Len(u) + 1 + 1)..Len(Append(u, r)) = {}
    BY Appends
  <1> QED BY <1>1 DEF Asks

LEMMA PollNew ==
    ASSUME NEW u \in Seq(Requests), NEW r \in Requests, r.type \in Polls
    PROVE  /\ Quiet(u) => Quiet(Append(u, r))
           /\ \A n : Asks(u, n) => Asks(Append(u, r), n)
  <1>1. /\ Len(u) \in Nat /\ Len(Append(u, r)) = Len(u) + 1
        /\ Append(u, r)[Len(u) + 1] = r
        /\ \A i \in 1..Len(u) : Append(u, r)[i] = u[i]
    BY Appends
  <1>2. Quiet(u) => Quiet(Append(u, r))
    BY <1>1 DEF Quiet
  <1>3. ASSUME NEW n, Asks(u, n) PROVE Asks(Append(u, r), n)
    <2>1. PICK i \in 1..Len(u) :
            /\ u[i].type \in Entering /\ u[i].name = n
            /\ \A j \in (i + 1)..Len(u) : u[j].type \in Polls
      BY <1>3 DEF Asks
    <2>2. \A j \in (i + 1)..Len(Append(u, r)) : Append(u, r)[j].type \in Polls
      BY <1>1, <2>1
    <2>3. i \in 1..Len(Append(u, r)) /\ Append(u, r)[i] = u[i]
      BY <1>1
    <2> QED BY <2>1, <2>2, <2>3 DEF Asks
  <1> QED BY <1>2, <1>3

LEMMA TailAsks ==
    ASSUME NEW u \in Seq(Requests), u # <<>>
    PROVE  /\ Quiet(u) => Quiet(Tail(u)) /\ Head(u).type \in Polls
           /\ \A n : Asks(u, n) =>
                \/ Asks(Tail(u), n)
                \/ /\ Head(u).type \in Entering /\ Head(u).name = n
                   /\ Quiet(Tail(u))
                   /\ \A i \in 2..Len(u) : u[i].type \in Polls
  <1>1. /\ Len(u) \in Nat /\ Len(u) >= 1 /\ Len(Tail(u)) = Len(u) - 1
        /\ Head(u) = u[1] /\ \A i \in 1..Len(Tail(u)) : Tail(u)[i] = u[i + 1]
    BY Tails
  <1>2. Quiet(u) => Quiet(Tail(u)) /\ Head(u).type \in Polls
    BY <1>1 DEF Quiet
  <1>3. ASSUME NEW n, Asks(u, n), ~Asks(Tail(u), n)
        PROVE  /\ Head(u).type \in Entering /\ Head(u).name = n
               /\ Quiet(Tail(u))
               /\ \A i \in 2..Len(u) : u[i].type \in Polls
    <2>1. PICK i \in 1..Len(u) :
            /\ u[i].type \in Entering /\ u[i].name = n
            /\ \A j \in (i + 1)..Len(u) : u[j].type \in Polls
      BY <1>3 DEF Asks
    <2>2. CASE i = 1
      BY <1>1, <2>1, <2>2 DEF Quiet
    <2>3. CASE i # 1
      <3>1. /\ i - 1 \in 1..Len(Tail(u)) /\ Tail(u)[i - 1] = u[i]
            /\ \A j \in i..Len(Tail(u)) : Tail(u)[j].type \in Polls
        BY <1>1, <2>1, <2>3
      <3>2. (i - 1) + 1 = i
        OBVIOUS
      <3> QED BY <1>3, <2>1, <3>1, <3>2 DEF Asks
    <2> QED BY <2>2, <2>3
  <1> QED BY <1>2, <1>3

LEMMA HasNew ==
    ASSUME NEW d \in Seq(Messages), NEW m \in Messages
    PROVE  /\ Has(Append(d, m), m)
           /\ \A x : Has(d, x) => Has(Append(d, m), x)
           /\ \A x : Has(Append(d, m), x) => x = m \/ Has(d, x)
  <1>1. /\ Len(d) \in Nat /\ Len(Append(d, m)) = Len(d) + 1
        /\ Append(d, m)[Len(d) + 1] = m
        /\ \A i \in 1..Len(d) : Append(d, m)[i] = d[i]
    BY Appends
  <1> QED BY <1>1 DEF Has

LEMMA HasTail ==
    ASSUME NEW d \in Seq(Messages), d # <<>>
    PROVE  /\ Has(d, Head(d))
           /\ \A x : Has(Tail(d), x) => Has(d, x)
           /\ \A x : Has(d, x) => x = Head(d) \/ Has(Tail(d), x)
  <1>1. /\ Len(d) \in Nat /\ Len(d) >= 1 /\ Len(Tail(d)) = Len(d) - 1
        /\ Head(d) = d[1] /\ \A i \in 1..Len(Tail(d)) : Tail(d)[i] = d[i + 1]
    BY Tails
  <1>2. \A x : Has(d, x) => x = Head(d) \/ Has(Tail(d), x)
    <2> SUFFICES ASSUME NEW x, NEW i \in 1..Len(d), d[i] = x, x # Head(d)
                 PROVE  Has(Tail(d), x)
      BY DEF Has
    <2>1. i - 1 \in 1..Len(Tail(d)) /\ Tail(d)[i - 1] = d[i]
      BY <1>1
    <2> QED BY <2>1 DEF Has
  <1>3. \A x : Has(Tail(d), x) => Has(d, x)
    BY <1>1 DEF Has
  <1> QED BY <1>1, <1>2, <1>3 DEF Has

------------------------------------------------------------------------------
\* Types

IInv == TypeOK /\ ServiceOK /\ Rostered /\ Waits /\ Starts

LEMMA SendType ==
    ASSUME TypeOK, NEW t \in Entering \cup Polls \cup {"LEAVEGAME"},
           NEW n \in Names \cup {Person, Nil}, Send(t, n)
    PROVE  /\ [type |-> t, name |-> n] \in Requests
           /\ up' = Append(up, [type |-> t, name |-> n])
           /\ up' \in Seq(Requests)
  <1>1. [type |-> t, name |-> n] \in Requests
    BY DEF Requests
  <1> QED BY <1>1, Appends DEF Send, TypeOK

LEMMA RequestType ==
    ASSUME TypeOK, NEW T, Request(T)
    PROVE  /\ up # <<>> /\ up \in Seq(Requests) /\ Head(up) \in Requests
           /\ Head(up).type \in T /\ up' = Tail(up) /\ up' \in Seq(Requests)
           /\ Head(up) = up[1]
  BY Tails DEF TypeOK, Request

\* After a reload of the interface nothing is shown that could be wrong.
LEMMA Reloaded ==
    ASSUME ReloadUI, missed' \in BOOLEAN, vanished' \in BOOLEAN, up' \in Seq(Requests), down' \in Seq(Messages)
    PROVE  TypeOK' /\ Waits' /\ ~IN_GAME'
  <1>0. IN_GAME' \in BOOLEAN
    BY DEF ReloadUI
  <1>1. MENU_SELECTED' \in 0..2
    BY DEF ReloadUI
  <1>2. PLAYER_IN_GAME_STR' \in Names \cup {Person, Nil}
    BY DEF ReloadUI
  <1>3. (PLAYER_IN_GAME_STR # Nil <=> MENU_SELECTED = 2)'
    BY DEF ReloadUI
  <1>4. ONLINE_PLAYERS' \subseteq Names \cup {Person}
    BY DEF ReloadUI
  <1>5. TypeOK'
    BY <1>0, <1>1, <1>2, <1>3, <1>4 DEF TypeOK
  <1>6. Waits' /\ ~IN_GAME'
    BY DEF Waits, ReloadUI
  <1> QED BY <1>5, <1>6

\* The client's own steps.
LEMMA ClientStep ==
    ASSUME IInv, UserClick \/ mainFrameUpdate \/ Receive
    PROVE  IInv'
  <1>1. TypeOK /\ ServiceOK /\ Rostered /\ Waits /\ Starts
    BY DEF IInv
  <1>2. up \in Seq(Requests) /\ down \in Seq(Messages)
    BY <1>1 DEF TypeOK
  <1>3. CASE PlayGame \/ GoBackToMainMenu
    BY <1>1, <1>3 DEF PlayGame, GoBackToMainMenu, IInv, TypeOK, ServiceOK, Waits,
                     Rostered, Starts, served, Clicks, history
  <1>4. ASSUME NEW t \in Entering, NEW n \in Names \cup {Person},
               Send(t, n), OpenGameLobby(n)
        PROVE  IInv'
    <2> DEFINE r == [type |-> t, name |-> n]
    <2>1. r \in Requests /\ up' = Append(up, r) /\ up' \in Seq(Requests)
      BY <1>1, <1>4, SendType
    <2>2. Asks(up', n)
      BY <1>2, <2>1, AskNew
    <2>3. /\ PLAYER_IN_GAME_STR' = n /\ MENU_SELECTED' = 2 /\ missed' = FALSE
          /\ UNCHANGED <<served, IN_GAME, ONLINE_PLAYERS, down, vanished>>
      BY <1>4 DEF OpenGameLobby
    <2>4. n # Nil
      BY LobbyAssumption
    <2>5. TypeOK'
      <3>1. (PLAYER_IN_GAME_STR # Nil <=> MENU_SELECTED = 2)'
        BY <2>3, <2>4
      <3>2. PLAYER_IN_GAME_STR' \in Names \cup {Person, Nil}
        BY <2>3
      <3>3. MENU_SELECTED' \in 0..2
        BY <2>3
      <3>4. missed' \in BOOLEAN
        BY <2>3
      <3> QED BY <1>1, <2>1, <2>3, <3>1, <3>2, <3>3, <3>4 DEF TypeOK
    <2>6. Waits'
      BY <2>2, <2>3 DEF Waits
    <2>7. ServiceOK' /\ Rostered' /\ Starts'
      BY <1>1, <2>3 DEF ServiceOK, Rostered, Starts, served, history
    <2> QED BY <2>5, <2>6, <2>7 DEF IInv
  <1>5. ASSUME NEW n \in Names, CreateGameClick(n) PROVE IInv'
    BY <1>4, <1>5 DEF CreateGameClick, Entering
  <1>6. ASSUME NEW row \in ONLINE_PLAYERS, HandleScollBarEntryClick(row) PROVE IInv'
    <2>1. PICK x \in {row, Person} : Send("JoinGame", x) /\ OpenGameLobby(x)
      BY <1>6 DEF HandleScollBarEntryClick
    <2>2. x \in Names \cup {Person}
      BY <1>1 DEF TypeOK
    <2> QED BY <1>4, <2>1, <2>2 DEF Entering
  <1>7. CASE leaveGame
    <2>1. up' \in Seq(Requests)
      BY <1>1, <1>7, SendType DEF leaveGame, TypeOK
    <2>2. ReloadUI /\ UNCHANGED <<served, down, missed, vanished>>
      BY <1>7 DEF leaveGame, history
    <2>3. TypeOK' /\ Waits' /\ ~IN_GAME'
      <3>1. missed' \in BOOLEAN /\ vanished' \in BOOLEAN /\ down' \in Seq(Messages)
        BY <1>1, <2>2 DEF TypeOK
      <3> QED BY <2>1, <2>2, <3>1, Reloaded
    <2>4. ServiceOK' /\ Rostered' /\ Starts'
      BY <1>1, <2>2, <2>3 DEF ServiceOK, Rostered, Starts, served, history
    <2> QED BY <2>3, <2>4 DEF IInv
  <1>8. CASE mainFrameUpdate
    <2>1. \E t \in Polls, n \in Names \cup {Person, Nil} : Send(t, n)
      BY <1>1, <1>8 DEF mainFrameUpdate, Polls, TypeOK
    <2>2. PICK t \in Polls, n \in Names \cup {Person, Nil} : Send(t, n)
      BY <2>1
    <2> DEFINE r == [type |-> t, name |-> n]
    <2>3. r \in Requests /\ up' = Append(up, r) /\ up' \in Seq(Requests)
      BY <1>1, <2>2, SendType
    <2>4. /\ Quiet(up) => Quiet(up')
          /\ \A x : Asks(up, x) => Asks(up', x)
      BY <1>2, <2>3, PollNew
    <2>5. /\ ONLINE_PLAYERS' = {}
          /\ UNCHANGED <<served, MENU_SELECTED, PLAYER_IN_GAME_STR, IN_GAME, down,
                         missed, vanished>>
      BY <1>8 DEF mainFrameUpdate, history
    <2>6. TypeOK'
      BY <1>1, <2>3, <2>5 DEF TypeOK
    <2>7. Waits'
      BY <1>1, <2>4, <2>5 DEF Waits, served
    <2>8. ServiceOK' /\ Rostered' /\ Starts'
      BY <1>1, <2>5 DEF ServiceOK, Rostered, Starts, served, history
    <2> QED BY <2>6, <2>7, <2>8 DEF IInv
  <1>9. CASE Receive
    <2>1. /\ down # <<>> /\ down' = Tail(down) /\ down' \in Seq(Messages)
          /\ Head(down) \in Messages
      BY <1>2, <1>9, Tails DEF Receive
    <2>2. /\ Has(down, Head(down))
          /\ \A x : Has(down', x) => Has(down, x)
          /\ \A x : Has(down, x) => x = Head(down) \/ Has(down', x)
      BY <1>2, <2>1, HasTail
    <2>3. UNCHANGED <<served, up, missed, vanished>>
      BY <1>9 DEF Receive, history
    <2>4. ServiceOK' /\ Rostered'
      BY <1>1, <2>3 DEF ServiceOK, Rostered, served
    <2>5. CASE Head(down) = "STARTINGGAME"
      <3>1. IN_GAME' = TRUE /\ UNCHANGED <<MENU_SELECTED, PLAYER_IN_GAME_STR, ONLINE_PLAYERS>>
        BY <1>9, <2>5 DEF Receive, ReceiveReset
      <3>2. TypeOK'
        BY <1>1, <2>1, <2>3, <3>1 DEF TypeOK
      <3>3. Waits'
        BY <1>1, <2>2, <2>3, <2>5, <3>1 DEF Waits, served
      <3>4. Starts'
        BY <1>1, <2>2, <2>3, <2>5 DEF Starts, served
      <3> QED BY <2>4, <3>2, <3>3, <3>4 DEF IInv
    <2>6. CASE Head(down) = "RESET"
      <3>1. ReloadUI
        BY <1>9, <2>6 DEF Receive, ReceiveReset
      <3>2. TypeOK' /\ Waits' /\ ~IN_GAME'
        <4>1. missed' \in BOOLEAN /\ vanished' \in BOOLEAN /\ up' \in Seq(Requests)
          BY <1>1, <2>3 DEF TypeOK
        <4> QED BY <2>1, <3>1, <4>1, Reloaded
      <3>3. Starts'
        BY <1>1, <2>2, <2>3, <3>2 DEF Starts, served
      <3> QED BY <2>4, <3>2, <3>3 DEF IInv
    <2>7. CASE Head(down) \in {"GAMES", "PLAYERS", "WHO"}
      <3>1. ReceiveList(Head(down))
        BY <1>9, <2>7 DEF Receive, ReceiveReset
      <3>2. /\ UNCHANGED <<MENU_SELECTED, PLAYER_IN_GAME_STR, IN_GAME>>
            /\ ONLINE_PLAYERS' \subseteq Names \cup {Person}
        BY <1>1, <3>1 DEF ReceiveList, Listed, TypeOK
      <3>3. TypeOK'
        BY <1>1, <2>1, <2>3, <3>2 DEF TypeOK
      <3>4. Waits'
        BY <1>1, <2>2, <2>3, <2>7, <3>2 DEF Waits, served
      <3>5. Starts'
        BY <1>1, <2>2, <2>3, <3>2 DEF Starts, served
      <3> QED BY <2>4, <3>3, <3>4, <3>5 DEF IInv
    <2> QED BY <2>1, <2>5, <2>6, <2>7 DEF Messages
  <1> QED BY <1>3, <1>5, <1>6, <1>7, <1>8, <1>9 DEF UserClick

\* The server's handling of one request.
LEMMA ServerStep ==
    ASSUME IInv, Server
    PROVE  IInv'
  <1>1. TypeOK /\ ServiceOK /\ Rostered /\ Waits /\ Starts
    BY DEF IInv
  <1>2. \E T : Request(T)
    BY DEF Server, Dispatch, Refuse, Dropped, Answer
  <1>3. /\ up # <<>> /\ up \in Seq(Requests) /\ Head(up) \in Requests
        /\ up' = Tail(up) /\ up' \in Seq(Requests)
    BY <1>1, <1>2, RequestType
  <1>4. /\ Quiet(up) => Quiet(up') /\ Head(up).type \in Polls
        /\ \A n : Asks(up, n) =>
             \/ Asks(up', n)
             \/ /\ Head(up).type \in Entering /\ Head(up).name = n
                /\ Quiet(up')
                /\ \A i \in 2..Len(up) : up[i].type \in Polls
    BY <1>3, TailAsks
  <1>5. Entering \cap Polls = {} /\ "LEAVEGAME" \notin Entering \cup Polls
    BY DEF Entering, Polls
  <1>6. UNCHANGED ui
    BY DEF Server, Dispatch, Refuse, Dropped, Answer
  <1>7. CASE Dispatch
    <2>1. UNCHANGED <<down, missed>>
      BY <1>7 DEF Dispatch
    <2>2. CASE /\ Request(Entering) /\ Head(up).name \in Names /\ Enter(Head(up).name)
               /\ vanished' = FALSE
      <3>1. /\ GAME' = Head(up).name /\ Head(up).name \in Names /\ queued' = TRUE
            /\ UNCHANGED <<here, playing>> /\ Head(up).type \in Entering
            /\ vanished' = FALSE
        BY <2>2 DEF Enter, Request
      <3>2. TypeOK' /\ ServiceOK' /\ Rostered' /\ Starts'
        BY <1>1, <1>3, <1>6, <2>1, <3>1 DEF TypeOK, ServiceOK, Rostered, Starts, ui
      <3>3. Waits'
        BY <1>1, <1>4, <1>5, <1>6, <2>1, <3>1 DEF Waits, ui
      <3> QED BY <3>2, <3>3 DEF IInv
    <2>3. CASE Request({"LEAVEGAME"}) /\ Leave /\ UNCHANGED vanished
      <3>1. GAME' = Nil /\ UNCHANGED <<here, queued, playing, vanished>> /\ Head(up).type = "LEAVEGAME"
        BY <2>3 DEF Leave, Request
      <3>2. TypeOK' /\ ServiceOK' /\ Rostered' /\ Starts'
        BY <1>1, <1>3, <1>6, <2>1, <3>1 DEF TypeOK, ServiceOK, Rostered, Starts, ui
      <3>3. Waits'
        BY <1>1, <1>4, <1>5, <1>6, <2>1, <3>1 DEF Waits, ui
      <3> QED BY <3>2, <3>3 DEF IInv
    <2> QED BY <1>7, <2>2, <2>3 DEF Dispatch
  <1>8. CASE Refuse \/ Dropped
    <2>1. UNCHANGED <<served, ui, down, vanished>>
      BY <1>8 DEF Refuse, Dropped
    <2>2. Missed \/ (UNCHANGED missed /\ Head(up).type \notin Entering)
      BY <1>5, <1>8 DEF Refuse, Dropped, Request
    <2>3. /\ missed' \in BOOLEAN /\ (missed => missed')
          /\ (\A i \in 2..Len(up) : up[i].type \in Polls) /\ Head(up).type \in Entering => missed'
      BY <1>1, <1>5, <2>2 DEF Missed, TypeOK
    <2>4. TypeOK' /\ ServiceOK' /\ Rostered' /\ Starts'
      BY <1>1, <1>3, <2>1, <2>3 DEF TypeOK, ServiceOK, Rostered, Starts, ui, served
    <2>5. Waits'
      BY <1>1, <1>4, <1>5, <2>1, <2>3 DEF Waits, ui, served
    <2> QED BY <2>4, <2>5 DEF IInv
  <1>9. CASE Answer
    <2>1. UNCHANGED <<served, missed, vanished>> /\ Head(up).type \in Polls
      BY <1>9 DEF Answer, Request, Polls, history
    <2>2. down' = down \/ \E m \in {"GAMES", "WHO", "PLAYERS"} : down' = Append(down, m)
      BY <1>9 DEF Answer
    <2>3. /\ down' \in Seq(Messages)
          /\ Has(down, "RESET") => Has(down', "RESET")
          /\ Has(down', "STARTINGGAME") => Has(down, "STARTINGGAME")
      <3>1. CASE down' = down
        BY <1>1, <3>1 DEF TypeOK
      <3>2. ASSUME NEW m \in {"GAMES", "WHO", "PLAYERS"}, down' = Append(down, m)
            PROVE  /\ down' \in Seq(Messages)
                   /\ Has(down, "RESET") => Has(down', "RESET")
                   /\ Has(down', "STARTINGGAME") => Has(down, "STARTINGGAME")
        <4>1. m \in Messages /\ m # "STARTINGGAME" /\ down \in Seq(Messages)
          BY <1>1 DEF TypeOK, Messages
        <4>2. down' \in Seq(Messages)
          BY <3>2, <4>1, Appends
        <4>3. /\ \A x : Has(down, x) => Has(down', x)
              /\ \A x : Has(down', x) => x = m \/ Has(down, x)
          BY <3>2, <4>1, HasNew
        <4> QED BY <4>1, <4>2, <4>3
      <3> QED BY <2>2, <3>1, <3>2
    <2>4. TypeOK' /\ ServiceOK' /\ Rostered' /\ Starts'
      BY <1>1, <1>3, <1>6, <2>1, <2>3 DEF TypeOK, ServiceOK, Rostered, Starts, ui, served
    <2>5. Waits'
      BY <1>1, <1>4, <1>5, <1>6, <2>1, <2>3 DEF Waits, ui, served
    <2> QED BY <2>4, <2>5 DEF IInv
  <1> QED BY <1>7, <1>8, <1>9 DEF Server

\* What the service does and tells.
LEMMA ServiceStep ==
    ASSUME IInv, Service
    PROVE  IInv'
  <1>1. TypeOK /\ ServiceOK /\ Rostered /\ Waits /\ Starts
    BY DEF IInv
  <1>2. UNCHANGED <<ui, up, missed>> /\ ServiceOK' /\ vanished' \in BOOLEAN
    BY <1>1 DEF Service, TellDissolved, TellCalled, Tell, Dissolved, CalledIn, Carried,
             Released, LeftBehind, Unseen, Arrive, ServiceOK, TypeOK, history
  <1>r. Rostered'
    BY <1>1 DEF Service, TellDissolved, TellCalled, Tell, Dissolved, CalledIn, Carried,
             Released, LeftBehind, Unseen, Arrive, Rostered, history
  <1>3. playing => playing'
    BY DEF Service, TellDissolved, TellCalled, Dissolved, CalledIn, Carried,
           Released, LeftBehind, Unseen, Arrive
  <1>4. ASSUME NEW m \in {"RESET", "STARTINGGAME"}, Tell(m)
        PROVE  /\ down' \in Seq(Messages) /\ Has(down', m)
               /\ \A x : Has(down, x) => Has(down', x)
               /\ \A x : Has(down', x) => x = m \/ Has(down, x)
    BY <1>1, <1>4, Appends, HasNew DEF TypeOK, Messages, Tell
  <1>5. CASE TellDissolved \/ (Released /\ Tell("RESET"))
    <2>1. Tell("RESET")
      BY <1>5 DEF TellDissolved
    <2> QED BY <1>1, <1>2, <1>r, <1>3, <1>4, <2>1 DEF IInv, TypeOK, Waits, Starts, ui
  <1>6. CASE Carried /\ Tell("STARTINGGAME")
    <2>1. playing' = TRUE /\ GAME' = GAME
      BY <1>6 DEF Carried
    <2> QED BY <1>1, <1>2, <1>r, <1>4, <1>6, <2>1 DEF IInv, TypeOK, Waits, Starts, ui
  <1>7. CASE \/ TellCalled
             \/ (LeftBehind \/ Arrive) /\ UNCHANGED <<ui, up, down, history>>
             \/ Unseen /\ vanished' = TRUE /\ UNCHANGED <<ui, up, down, missed>>
    <2>1. GAME' = GAME /\ down' = down
      BY <1>7 DEF TellCalled, CalledIn, LeftBehind, Unseen, Arrive
    <2> QED BY <1>1, <1>2, <1>r, <1>3, <2>1 DEF IInv, TypeOK, Waits, Starts, ui
  <1> QED BY <1>5, <1>6, <1>7 DEF Service

LEMMA IInvAlways == SpecLobby => []IInv
  <1>1. InitLobby => IInv
    <2> SUFFICES ASSUME InitLobby PROVE IInv
      OBVIOUS
    <2>1. ~Has(down, "STARTINGGAME")
      BY DEF InitLobby, Has
    <2>2. TypeOK
      <3>1. (PLAYER_IN_GAME_STR # Nil <=> MENU_SELECTED = 2) /\ MENU_SELECTED \in 0..2
        BY DEF InitLobby
      <3>2. PLAYER_IN_GAME_STR \in Names \cup {Person, Nil}
        BY DEF InitLobby
      <3>3. up \in Seq(Requests) /\ down \in Seq(Messages)
        BY DEF InitLobby
      <3>4. ONLINE_PLAYERS \subseteq Names \cup {Person}
        BY DEF InitLobby
      <3> QED BY <3>1, <3>2, <3>3, <3>4 DEF InitLobby, TypeOK
    <2>3. ServiceOK /\ Rostered
      BY DEF InitLobby, Init, ServiceOK, Rostered
    <2>4. Waits
      BY DEF InitLobby, Waits
    <2>5. Starts
      BY <2>1 DEF InitLobby, Starts
    <2> QED BY <2>2, <2>3, <2>4, <2>5 DEF IInv
  <1>2. IInv /\ [NextLobby]_vars => IInv'
    <2> SUFFICES ASSUME IInv, [NextLobby]_vars PROVE IInv'
      OBVIOUS
    <2>1. CASE LogOutClient
      <3>1. ~Has(down', "STARTINGGAME")
        BY <2>1 DEF LogOutClient, Has
      <3>2. TypeOK' /\ Waits' /\ ~IN_GAME'
        <4>1. ReloadUI /\ missed' \in BOOLEAN /\ vanished' \in BOOLEAN
          BY <2>1 DEF LogOutClient, IInv, TypeOK
        <4>2. up' \in Seq(Requests) /\ down' \in Seq(Messages)
          BY <2>1 DEF LogOutClient
        <4> QED BY <4>1, <4>2, Reloaded
      <3>3. ServiceOK' /\ Rostered'
        BY <2>1 DEF LogOutClient, LogOut, IInv, ServiceOK, Rostered
      <3>4. Starts'
        BY <3>1, <3>2 DEF Starts
      <3> QED BY <3>2, <3>3, <3>4 DEF IInv
    <2>2. CASE UNCHANGED vars
      BY <2>2 DEF vars, ui, served, history, IInv, TypeOK, ServiceOK, Rostered, Waits, Starts
    <2> QED BY <2>1, <2>2, ClientStep, ServerStep, ServiceStep DEF NextLobby
  <1> QED BY <1>1, <1>2, PTL DEF SpecLobby

\* The variables of the client and everything under way keep their types, for
\* any number of games and messages; the lobby that is shown always has a name.
THEOREM LobbyTypeCorrect == SpecLobby => []TypeOK
  <1>1. IInv => TypeOK
    BY DEF IInv
  <1> QED BY <1>1, IInvAlways, PTL

\* When nothing is under way, a client that shows the lobby of a game agrees
\* with the server's GAME variable, and some roster has its player, unless it
\* was refused or the queues that had the player vanished while he was between
\* two maps; however many requests and messages have crossed.
THEOREM WaitsInGame == SpecLobby => []WaitingInGame
  <1>1. IInv => WaitingInGame
    <2> SUFFICES ASSUME IInv, MENU_SELECTED = 2, up = <<>>, down = <<>>, ~missed
                 PROVE  GAME = PLAYER_IN_GAME_STR /\ (queued \/ playing \/ vanished)
      BY DEF WaitingInGame
    <2>1. ~Has(down, "RESET") /\ ~Asks(up, PLAYER_IN_GAME_STR)
      BY DEF Has, Asks
    <2>2. GAME = PLAYER_IN_GAME_STR
      BY <2>1 DEF IInv, Waits
    <2>3. PLAYER_IN_GAME_STR # Nil
      BY DEF IInv, TypeOK
    <2> QED BY <2>2, <2>3 DEF IInv, Rostered
  <1> QED BY <1>1, IInvAlways, PTL

\* The lobby is hidden only for players on the roster of a started game.
THEOREM HiddenForPlayers == SpecLobby => []HiddenInGame
  <1>1. IInv => HiddenInGame
    BY DEF IInv, Starts, HiddenInGame
  <1> QED BY <1>1, IInvAlways, PTL
=============================================================================
