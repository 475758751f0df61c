----------------------------- MODULE SessionQueue -----------------------------
(***************************************************************************)
(* Admission to the world server: the sessions and the waiting queue kept  *)
(* by World (AddSession_, RemoveQueuedPlayer, UpdateSessions), up to the   *)
(* point where a session gets a character.                                 *)
(*                                                                         *)
(* A session is known by its pointer, and a pointer may come back for a    *)
(* new session once the old one is deleted.  The network threads only add  *)
(* sessions to addSessQueue and close sockets; all else is the world       *)
(* thread.                                                                 *)
(***************************************************************************)
EXTENDS Integers, FiniteSets, Sequences, SequencesExt

CONSTANTS
    Nil,
    Accounts,
    Pointers,   \* bound: WorldSession objects alive at the same time
    Skip,       \* accounts with RBAC_PERM_SKIP_QUEUE
    Tolerant,   \* DisconnectToleranceInterval is set (it is not by default)
    Limits,     \* values of PlayerLimit; 0 is no limit
    Expire,     \* updates for which a character outlives its socket
    MaxAdds     \* bound: length of addSessQueue

\* expire: updates left before a closed session is dropped; 0 with forceExit.
Session == [account : Accounts, player : {"none", "loading", "world"},
            open : BOOLEAN, expire : 0..Expire, inQueue : BOOLEAN]

ASSUME SessionQueueAssumption ==
    /\ Nil \notin Accounts \cup Pointers \cup Session
    /\ Skip \subseteq Accounts /\ Tolerant \in BOOLEAN
    /\ Limits \subseteq Nat /\ Expire \in Nat /\ MaxAdds \in Nat

VARIABLES
    session,        \* session[p]: the object at p, or Nil
    addSessQueue,
    m_sessions,     \* m_sessions[a]: pointer to the session of account a
    m_QueuedPlayer,
    m_playerLimit,
    m_disconnects,  \* accounts in the map of disconnects
    visiting,       \* accounts UpdateSessions has still to visit
    floor           \* lowest limit since the queue was last empty (history)

vars == <<session, addSessQueue, m_sessions, m_QueuedPlayer, m_playerLimit,
          m_disconnects, visiting, floor>>

Live == {a \in Accounts : m_sessions[a] # Nil}
Queued == Range(m_QueuedPlayer)

\* GetActiveSessionCount and GetActiveAndQueuedSessionCount.
ActiveCount == Cardinality(Live) - Len(m_QueuedPlayer)

Init ==
    /\ session = [p \in Pointers |-> Nil]
    /\ addSessQueue = <<>>
    /\ m_sessions = [a \in Accounts |-> Nil]
    /\ m_QueuedPlayer = <<>>
    /\ m_playerLimit \in Limits
    /\ m_disconnects = {}
    /\ visiting = {}
    /\ floor = m_playerLimit

\* History: a raised limit counts only once the queue has been empty.
KeepFloor ==
    floor' = IF m_QueuedPlayer' = <<>> \/ m_playerLimit' < floor
             THEN m_playerLimit' ELSE floor

------------------------------------------------------------------------------
\* Network threads

AddSession(a) ==
    /\ Len(addSessQueue) < MaxAdds
    /\ \E p \in Pointers :
        /\ session[p] = Nil
        /\ session' = [session EXCEPT ![p] =
             [account |-> a, player |-> "none", open |-> TRUE,
              expire |-> Expire, inQueue |-> FALSE]]
        /\ addSessQueue' = Append(addSessQueue, p)
    /\ UNCHANGED <<m_sessions, m_QueuedPlayer, m_playerLimit, m_disconnects,
                   visiting, floor>>

CloseSocket(p) ==
    /\ session[p] # Nil /\ session[p].open
    /\ session' = [session EXCEPT ![p].open = FALSE]
    /\ UNCHANGED <<addSessQueue, m_sessions, m_QueuedPlayer, m_playerLimit,
                   m_disconnects, visiting, floor>>

------------------------------------------------------------------------------
\* The queue

HasRoom(sessions) == m_playerLimit = 0 \/ sessions < m_playerLimit

\* The queue without p: the first iterator found at p is erased.
Erased(q, p) ==
    IF Contains(q, p)
    THEN RemoveAt(q, CHOOSE i \in 1..Len(q) :
                       q[i] = p /\ \A j \in 1..(i - 1) : q[j] # p)
    ELSE q

\* Mutant: a session that was not queued still counts as active.
RemoveQueuedPlayer_counted(q, total, p) ==
    LET rest == Erased(q, p)
        active == total - Len(q)
    IN  IF rest # <<>> /\ HasRoom(active) THEN Tail(rest) ELSE rest

\* Mutant: the last of the queue is let in.
RemoveQueuedPlayer_last(q, total, p) ==
    LET rest == Erased(q, p)
        active == total - Len(q)
        sessions == IF Contains(q, p) \/ active = 0 THEN active ELSE active - 1
    IN  IF rest # <<>> /\ HasRoom(sessions) THEN Front(rest) ELSE rest

\* The queue q after RemoveQueuedPlayer(p), with `total' sessions in all: p is
\* taken out of it, and if there is room the first one is let in.
RemoveQueuedPlayer(q, total, p) ==
    LET rest == Erased(q, p)
        active == total - Len(q)
        sessions == IF Contains(q, p) \/ active = 0 THEN active ELSE active - 1
    IN  IF rest # <<>> /\ HasRoom(sessions) THEN Tail(rest) ELSE rest

\* Sessions that left the queue are told so (SetInQueue).
Released(s, q) ==
    [p \in Pointers |-> IF p \in Queued \ Range(q)
                        THEN [s[p] EXCEPT !.inQueue = FALSE] ELSE s[p]]

------------------------------------------------------------------------------
\* World::AddSession_

\* difftime(then, now) is never above 0, so no entry of the map ever expires.
HasRecentlyDisconnected(a) == Tolerant /\ a \in m_disconnects

Kicked(s) == [s EXCEPT !.open = FALSE, !.expire = 0]

\* PlayerLoading()
Loading == {p \in Pointers : session[p] # Nil /\ session[p].player = "loading"}

\* RemoveSession finds a session of the account whose player is loading.
RefuseSession ==
    /\ visiting = {} /\ addSessQueue # <<>>
    /\ LET p == Head(addSessQueue)
           old == m_sessions[session[p].account]
       IN  /\ old \in Loading
           /\ session' = [session EXCEPT ![p] = Nil]
    /\ addSessQueue' = Tail(addSessQueue)
    /\ UNCHANGED <<m_sessions, m_QueuedPlayer, m_playerLimit, m_disconnects,
                   visiting, floor>>

\* Mutant: the replaced session is deleted without leaving the queue.
QueueWithout_kept(old) == m_QueuedPlayer

\* The queue without the session that is replaced, if there is one.
QueueWithout(old) ==
    IF old = Nil THEN m_QueuedPlayer
    ELSE RemoveQueuedPlayer(m_QueuedPlayer, Cardinality(Live), old)

\* Mutant: off by one.
MustWait_more(a, others) ==
    /\ m_playerLimit > 0 /\ others > m_playerLimit
    /\ a \notin Skip /\ ~HasRecentlyDisconnected(a)

MustWait(a, others) ==
    /\ m_playerLimit > 0 /\ others >= m_playerLimit
    /\ a \notin Skip /\ ~HasRecentlyDisconnected(a)

AcceptSession ==
    /\ visiting = {} /\ addSessQueue # <<>>
    /\ LET p == Head(addSessQueue)
           a == session[p].account
           old == m_sessions[a]
           q == QueueWithout(old)
           \* the new session is not counted, unless it replaces a queued one
           others == Cardinality(Live \cup {a}) -
                       (IF old # Nil /\ old \in Queued THEN 0 ELSE 1)
           deleted == [Released(session, q) EXCEPT
                         ![IF old = Nil THEN p ELSE old] =
                           IF old = Nil THEN @ ELSE Nil]
       IN  /\ old \notin Loading
           /\ m_sessions' = [m_sessions EXCEPT ![a] = p]
           /\ IF MustWait(a, others)
              THEN /\ m_QueuedPlayer' = Append(q, p)
                   /\ session' = [deleted EXCEPT ![p].inQueue = TRUE]
              ELSE m_QueuedPlayer' = q /\ session' = deleted
    /\ addSessQueue' = Tail(addSessQueue)
    /\ UNCHANGED <<m_playerLimit, m_disconnects, visiting>>
    /\ KeepFloor

------------------------------------------------------------------------------
\* World::UpdateSessions

UpdateSessions ==
    /\ visiting = {} /\ addSessQueue = <<>> /\ Live # {}
    /\ visiting' = Live
    /\ UNCHANGED <<session, addSessQueue, m_sessions, m_QueuedPlayer,
                   m_playerLimit, m_disconnects, floor>>

\* Mutant: the login packet is accepted while waiting.
Served_queued(s) ==
    IF s.player = "loading" THEN {"loading", "world"}
    ELSE {"none", "loading", "world"}

\* What the packets and callbacks of one WorldSession::Update make of the
\* character.  No packet of a session in the queue is accepted.
Served(s) ==
    IF s.inQueue THEN {s.player}
    ELSE IF s.player = "loading" THEN {"loading", "world"}
    ELSE {"none", "loading", "world"}

\* The time a closed session has left.
Aged(s) == IF s.open \/ s.expire = 0 THEN s ELSE [s EXCEPT !.expire = @ - 1]

Expired(s) == ~s.open /\ (s.expire = 0 \/ s.player # "world")

\* WorldSession::Update returns true.
KeepSession(a) ==
    /\ a \in visiting
    /\ LET p == m_sessions[a] IN
       \E c \in Served(session[p]) :
         LET s == Aged([session[p] EXCEPT !.player = c])
         IN  /\ ~Expired(s)
             /\ session' = [session EXCEPT ![p] = s]
    /\ visiting' = visiting \ {a}
    /\ UNCHANGED <<addSessQueue, m_sessions, m_QueuedPlayer, m_playerLimit,
                   m_disconnects, floor>>

\* Update returns false: RemoveQueuedPlayer is called twice, then the session
\* is taken from the map and deleted.
DropSession(a) ==
    /\ a \in visiting
    /\ LET p == m_sessions[a]
           q == RemoveQueuedPlayer(m_QueuedPlayer, Cardinality(Live), p)
           q2 == RemoveQueuedPlayer(q, Cardinality(Live), p)
       IN  /\ \E c \in Served(session[p]) :
                Expired(Aged([session[p] EXCEPT !.player = c]))
           /\ m_QueuedPlayer' = q2
           /\ session' = [Released(session, q2) EXCEPT ![p] = Nil]
           /\ m_disconnects' = IF Tolerant /\ p \notin Queued
                               THEN m_disconnects \cup {a} ELSE m_disconnects
    /\ m_sessions' = [m_sessions EXCEPT ![a] = Nil]
    /\ visiting' = visiting \ {a}
    /\ UNCHANGED <<addSessQueue, m_playerLimit>>
    /\ KeepFloor

\* KickPlayer, from a handler (a failed login, for one) or a command.
KickPlayer(a) ==
    /\ m_sessions[a] # Nil
    /\ session' = [session EXCEPT ![m_sessions[a]] = Kicked(@)]
    /\ UNCHANGED <<addSessQueue, m_sessions, m_QueuedPlayer, m_playerLimit,
                   m_disconnects, visiting, floor>>

\* `.server plimit', and a reload of the configuration.
SetPlayerAmountLimit(limit) ==
    /\ limit # m_playerLimit
    /\ m_playerLimit' = limit
    /\ UNCHANGED <<session, addSessQueue, m_sessions, m_QueuedPlayer,
                   m_disconnects, visiting>>
    /\ KeepFloor

WorldThread ==
    \/ RefuseSession \/ AcceptSession \/ UpdateSessions
    \/ \E a \in Accounts : KeepSession(a) \/ DropSession(a)

Next ==
    \/ \E a \in Accounts : AddSession(a) \/ KickPlayer(a)
    \/ \E p \in Pointers : CloseSocket(p)
    \/ \E limit \in Limits : SetPlayerAmountLimit(limit)
    \/ WorldThread

Spec == Init /\ [][Next]_vars

------------------------------------------------------------------------------
\* Every variable has its type; no account without a session waits for its turn
\* in UpdateSessions.
TypeOK ==
    /\ session \in [Pointers -> Session \cup {Nil}]
    /\ addSessQueue \in Seq(Pointers)
    /\ m_sessions \in [Accounts -> Pointers \cup {Nil}]
    /\ m_QueuedPlayer \in Seq(Pointers)
    /\ m_playerLimit \in Limits /\ floor \in Nat
    /\ m_disconnects \subseteq Accounts
    /\ visiting \subseteq Live

\* The queue holds no dangling pointer: whichever sessions are replaced,
\* kicked or expire, it lists each waiting session once, every one of them is
\* the session of its account, and exactly those are flagged as waiting.
QueueIsLive ==
    /\ IsInjective(m_QueuedPlayer)
    /\ Queued = {m_sessions[a] : a \in {b \in Live : session[m_sessions[b]].inQueue}}
    /\ \A a \in Live : session[m_sessions[a]] # Nil

\* Nobody plays who has not passed the queue.
WaitingDoNotPlay ==
    \A p \in Queued : session[p] # Nil /\ session[p].player = "none"

Active(a) == m_sessions[a] # Nil /\ m_sessions[a] \notin Queued

Ordinary(a) == a \notin Skip /\ ~HasRecentlyDisconnected(a)

OrdinaryCount == Cardinality({a \in Accounts : Active(a) /\ Ordinary(a)})

\* Whichever ordinary account comes in, from outside or from the queue, the
\* ordinary ones are then within the limit.
WithinLimit ==
    \A a \in Accounts :
      (/\ Ordinary(a) /\ Active(a)'
       /\ ~Active(a) \/ m_sessions[a] # m_sessions'[a]) =>
         m_playerLimit = 0 \/ OrdinaryCount' <= m_playerLimit

\* The counting by RemoveQueuedPlayer and AddSession_ is right: when an
\* ordinary account comes in, the limit is kept, although the leaving session
\* is still counted at that moment.
LimitKept == [][WithinLimit]_vars

\* No place is left empty while somebody waits for it.  (A limit that is
\* raised opens places nobody is let into before a session leaves.)
NoIdlePlace == m_QueuedPlayer # <<>> => ActiveCount >= floor

\* Whoever leaves the queue for the world leaves nobody behind who came before.
InTurn ==
    \A i, j \in 1..Len(m_QueuedPlayer) :
      LET p == m_QueuedPlayer[j] IN
      (i < j /\ p \notin Queued' /\ session'[p] # Nil) =>
          m_QueuedPlayer[i] \notin Queued'

\* No ordinary account passes the queue from outside, unless the limit was
\* raised.
NobodyPasses ==
    \A a \in Accounts :
      (Ordinary(a) /\ m_sessions[a] = Nil /\ Active(a)' /\ m_QueuedPlayer' # <<>>) =>
          m_playerLimit = 0 \/ floor < m_playerLimit

\* First come, first served: RemoveQueuedPlayer lets in the first of the queue,
\* and AddSession_ nobody before them.
FirstComeFirstServed == [][InTurn /\ NobodyPasses]_vars
=============================================================================
