---------------------------- MODULE AddonMessages ----------------------------
(***************************************************************************)
(* The messages from the scripts to the user interface of one player:      *)
(* sendAddonMessage of Utility.lua cuts a message into numbered links, the *)
(* world server carries them in order, and eventHandlerMainFrame of the    *)
(* client counts them and joins them again, per packet id.  ReloadUI       *)
(* forgets the links that were received, not the ones still under way.     *)
(***************************************************************************)
EXTENDS Integers, Sequences, SequencesExt, LuaTable

CONSTANTS
    Packets,        \* packet ids: 1 for GAMES, 2 for PLAYERS, 3 for the rest
    Messages,       \* messages the scripts send, sequences of characters
    SplitLength,    \* splitLength, 240 in the code
    MaxLinks,       \* bound: links of a message
    MaxMessages,    \* bound: messages sent in one behaviour
    MaxReloads      \* bound: reloads of the user interface

Links == 1..MaxLinks

\* splits = ceil(#msg / splitLength)
Splits(msg) == (Len(msg) + SplitLength - 1) \div SplitLength

\* The text of a link: from i up to and including i + splitLength, so the
\* first character of the next link is sent twice.
Chunk(msg, counter) ==
    LET i == (counter - 1) * SplitLength + 1
    IN  IF i + SplitLength > Len(msg) THEN SubSeq(msg, i, Len(msg))
                                      ELSE SubSeq(msg, i, i + SplitLength)

\* A link number has two digits: fewer than 100 links.  A text is not nil.
ASSUME AddonAssumption ==
    /\ SplitLength \in Nat \ {0}
    /\ MaxLinks \in 1..99
    /\ MaxMessages \in Nat /\ MaxReloads \in Nat
    /\ \A m \in Messages : /\ m \in Seq(ToSet(m)) /\ Splits(m) \in Links
                           /\ \A c \in 1..Splits(m) : Chunk(m, c) # Nil

VARIABLES
    sent,       \* number of messages sent
    channel,    \* links under way to the client, in order
    count,      \* count[p]: links[p].count of the client
    parts,      \* parts[p]: links[p][1], links[p][2], ...
    shown,      \* the last message that was joined
    cut,        \* cut[p]: a reload came between two links of a message of p
    reloads     \* number of reloads

vars == <<sent, channel, count, parts, shown, cut, reloads>>

NoLinks == [i \in Links |-> Nil]

Init ==
    /\ sent = 0
    /\ channel = <<>>
    /\ count = [p \in Packets |-> 0]
    /\ parts = [p \in Packets |-> NoLinks]
    /\ shown = <<>>
    /\ cut = [p \in Packets |-> FALSE]
    /\ reloads = 0

------------------------------------------------------------------------------
\* `of' is the message itself, kept to state what the client makes of it.
sendAddonMessage(msg, packet) ==
    /\ sent < MaxMessages
    /\ sent' = sent + 1
    /\ channel' = channel \o [counter \in 1..Splits(msg) |->
         [packet |-> packet, link |-> counter, linkCount |-> Splits(msg),
          MSG |-> Chunk(msg, counter), of |-> msg]]
    /\ UNCHANGED <<count, parts, shown, cut, reloads>>

------------------------------------------------------------------------------
\* eventHandlerMainFrame.
Arrives(l) ==
    /\ channel # <<>>
    /\ l = Head(channel)
    /\ channel' = Tail(channel)

\* Mutant: a single table of links for all packets.
Stored_shared(l) == [p \in Packets |-> [parts[p] EXCEPT ![l.link] = l.MSG]]

Stored(l) == [parts EXCEPT ![l.packet][l.link] = l.MSG]

ReceiveLink ==
    \E l \in ToSet(channel) :
        /\ Arrives(l)
        /\ count[l.packet] + 1 # l.linkCount
        /\ count' = [count EXCEPT ![l.packet] = @ + 1]
        /\ parts' = Stored(l)
        /\ UNCHANGED <<sent, shown, cut, reloads>>

\* table.concat(links[packet]) joins up to the length of the table.
Joined(t, size) == FlattenSeq([i \in 1..size |-> t[i]])

Whole(t, size) == \A i \in 1..size : t[i] # Nil

\* Mutant: links[packet] is not emptied after a message.
ReceiveLast_kept ==
    \E l \in ToSet(channel) :
        /\ Arrives(l)
        /\ count[l.packet] + 1 = l.linkCount
        /\ \E size \in Borders(Stored(l)[l.packet]) :
             /\ Whole(Stored(l)[l.packet], size)
             /\ shown' = Joined(Stored(l)[l.packet], size)
        /\ count' = [count EXCEPT ![l.packet] = @ + 1]
        /\ parts' = Stored(l)
        /\ UNCHANGED <<sent, cut, reloads>>

ReceiveLast ==
    \E l \in ToSet(channel) :
        /\ Arrives(l)
        /\ count[l.packet] + 1 = l.linkCount
        /\ \E size \in Borders(Stored(l)[l.packet]) :
             /\ Whole(Stored(l)[l.packet], size)
             /\ shown' = Joined(Stored(l)[l.packet], size)
        /\ count' = [count EXCEPT ![l.packet] = 0]
        /\ parts' = [parts EXCEPT ![l.packet] = NoLinks]
        /\ UNCHANGED <<sent, cut, reloads>>

\* A missing link below the length makes table.concat raise an error, before
\* links[packet] is emptied.
ReceiveError ==
    \E l \in ToSet(channel) :
        /\ Arrives(l)
        /\ count[l.packet] + 1 = l.linkCount
        /\ \E size \in Borders(Stored(l)[l.packet]) :
             ~Whole(Stored(l)[l.packet], size)
        /\ count' = [count EXCEPT ![l.packet] = @ + 1]
        /\ parts' = Stored(l)
        /\ UNCHANGED <<sent, shown, cut, reloads>>

\* The places of the links of packet p under way, and the number of the first.
Under(p) == {i \in 1..Len(channel) : channel[i].packet = p}
NextLink(p) == channel[Min(Under(p))].link

\* The user interface starts anew: on RESET, on leaving a game, or by hand.
ReloadUI ==
    /\ reloads < MaxReloads
    /\ reloads' = reloads + 1
    /\ count' = [p \in Packets |-> 0]
    /\ parts' = [p \in Packets |-> NoLinks]
    /\ cut' = [p \in Packets |-> Under(p) # {} /\ NextLink(p) # 1]
    /\ UNCHANGED <<sent, channel, shown>>

Receive == ReceiveLink \/ ReceiveLast \/ ReceiveError

Next ==
    \/ \E m \in Messages, p \in Packets : sendAddonMessage(m, p)
    \/ Receive
    \/ ReloadUI

Spec == Init /\ [][Next]_vars

------------------------------------------------------------------------------
\* What the client makes of a message: at every boundary between two links
\* one character is doubled, and nothing else changes.
Doubled(msg) ==
    [n \in 1..(Len(msg) + Splits(msg) - 1) |->
        msg[n - (n - 1) \div (SplitLength + 1)]]

\* As long as no reload cuts a message of that packet, every message that is
\* shown is the one whose last link just arrived: links of different messages
\* and different packets are never mixed, and a message of splitLength
\* characters or fewer arrives as it was sent.
ShownAsSent ==
    [][(/\ channel # <<>> /\ ~cut[Head(channel).packet] /\ Receive
        /\ Head(channel).link = Head(channel).linkCount)
       => shown' = Doubled(Head(channel).of)]_vars

\* As long as no reload cuts a message of that packet, client and channel stay
\* in step: the client has counted exactly the links of the message that is
\* still under way, and holds nothing when none is.
InStep ==
    \A p \in Packets : ~cut[p] =>
        /\ count[p] = (IF Under(p) = {} THEN 0 ELSE NextLink(p) - 1)
        /\ Used(parts[p]) = 1..count[p]
=============================================================================
