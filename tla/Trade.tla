-------------------------------- MODULE Trade --------------------------------
(***************************************************************************)
(* Trade between two players: TradeData of Player.cpp and the handlers of  *)
(* TradeHandler.cpp.  All of them run on the world thread, one packet at a *)
(* time, so each handler is one step; what the players do in between may   *)
(* come in any order.                                                      *)
(***************************************************************************)
EXTENDS Integers, FiniteSets

CONSTANTS
    Nil,
    Players,
    Items,
    Free,           \* owner of an item no player has
    Lost,           \* owner of an item that fell out of moveItems
    TradedCount,    \* TRADE_SLOT_TRADED_COUNT, 6 in the code
    Coins,          \* amounts of money a player may put up
    MaxMoney,       \* MAX_MONEY_AMOUNT
    Capacity,       \* inventory slots of each player
    Limits,         \* the items of each template that has a maximum, and of
                    \* each limit category; the sets may overlap
    MaxCount        \* how many of each of them a player may have

Traded == 1..TradedCount            \* slots whose item changes hands
NonTraded == TradedCount + 1        \* TRADE_SLOT_NONTRADED, for spells
Slots == Traded \cup {NonTraded}

TradeData == [trader : Players, accepted : BOOLEAN, money : Coins,
              spell : BOOLEAN, items : [Slots -> Items \cup {Nil}]]

\* What both players see of an offer, and a deal as one of them accepts it.
Offers == [money : Coins, spell : BOOLEAN, items : [Slots -> Items \cup {Nil}]]
Bargains == [coins : Coins, goods : SUBSET Items]
Deals == [with : Players, gives : Bargains, gets : Bargains]

ASSUME TradeAssumption ==
    /\ TradedCount \in Nat \ {0}
    /\ MaxMoney \in Nat /\ Coins \subseteq 0..(MaxMoney - 1) /\ 0 \in Coins
    /\ Capacity \in [Players -> Nat]
    /\ Limits \subseteq SUBSET Items /\ MaxCount \in [Limits -> Nat]
    /\ IsFiniteSet(Items) /\ Nil \notin Items \cup Players \cup TradeData
    /\ Nil \notin Offers \X Offers /\ Nil \notin Deals
    /\ Free \notin Players /\ Lost \notin Players /\ Free # Lost

VARIABLES
    trade,      \* m_trade of each player
    owner,      \* who has each item
    money,      \* GetMoney()
    copies,     \* of which items the player has got a clone by StoreItem
    seen        \* the two offers when the player accepted (history)

vars == <<trade, owner, money, copies, seen>>
goods == <<owner, money, copies>>

Trading == {p \in Players : trade[p] # Nil}
Partner(p) == trade[p].trader

\* TradeData::GetItem: an item the player no longer has is not found.
GetItem(p, s) ==
    IF trade[p].items[s] # Nil /\ owner[trade[p].items[s]] = p
    THEN trade[p].items[s] ELSE Nil

Given(p) == {GetItem(p, s) : s \in Traded} \ {Nil}

Offer(p) == [money |-> trade[p].money, spell |-> trade[p].spell,
             items |-> trade[p].items]

Inventory(p) == {i \in Items : owner[i] = p}

\* Limits kept by a player who has these items.
Within(In) == \A K \in Limits : Cardinality(In \cap K) <= MaxCount[K]

Init ==
    /\ trade = [p \in Players |-> Nil]
    /\ owner \in [Items -> Players]
    /\ \A p \in Players : Cardinality(Inventory(p)) <= Capacity[p] /\ Within(Inventory(p))
    /\ money \in [Players -> Coins]
    /\ copies = [p \in Players |-> {}]
    /\ seen = [p \in Players |-> Nil]

------------------------------------------------------------------------------
\* Opening and closing

\* The refusals that depend on neither trade nor goods (dead, stunned, too
\* far, ignored...) only leave everything as it is.  Bound: a player who has
\* got a copy of an item is not followed into the next trade with it.
HandleInitiateTrade(p, q) ==
    /\ p # q /\ trade[p] = Nil /\ trade[q] = Nil
    /\ copies[p] = {} /\ copies[q] = {}
    /\ trade' = [trade EXCEPT
         ![p] = [trader |-> q, accepted |-> FALSE, money |-> 0, spell |-> FALSE,
                 items |-> [s \in Slots |-> Nil]],
         ![q] = [trader |-> p, accepted |-> FALSE, money |-> 0, spell |-> FALSE,
                 items |-> [s \in Slots |-> Nil]]]
    /\ UNCHANGED goods

\* Mutant: only the player's own side is closed.
TradeCancel_own(p) ==
    /\ p \in Trading
    /\ trade' = [trade EXCEPT ![p] = Nil]
    /\ UNCHANGED goods

\* From the client, at logout and at the start of a flight.
TradeCancel(p) ==
    /\ p \in Trading
    /\ trade' = [trade EXCEPT ![p] = Nil, ![Partner(p)] = Nil]
    /\ UNCHANGED goods

------------------------------------------------------------------------------
\* Changing an offer: neither side has accepted any more.

\* Mutant: the trader's acceptance stands.
Reoffered_own(p, data) ==
    trade' = [trade EXCEPT ![p] = [data EXCEPT !.accepted = FALSE]]

Reoffered(p, data) ==
    trade' = [trade EXCEPT ![p] = [data EXCEPT !.accepted = FALSE],
                           ![Partner(p)].accepted = FALSE]

HandleSetTradeGold(p, c) ==
    /\ p \in Trading
    /\ trade[p].money # c /\ c <= money[p]
    /\ Reoffered(p, [trade[p] EXCEPT !.money = c])
    /\ UNCHANGED goods

\* TradeData::SetItem; a change of the item on the non-traded slot takes the
\* trader's spell off, any change takes the player's own off.
SetItem(p, s, i) ==
    /\ trade[p].items[s] # i
    /\ trade' = [trade EXCEPT
         ![p] = [@ EXCEPT !.items[s] = i, !.spell = FALSE, !.accepted = FALSE],
         ![Partner(p)] = [@ EXCEPT !.accepted = FALSE,
                            !.spell = s # NonTraded /\ trade[Partner(p)].spell]]

HandleSetTradeItem(p, s, i) ==
    /\ p \in Trading /\ owner[i] = p
    /\ \A t \in Slots : trade[p].items[t] # i
    /\ SetItem(p, s, i)
    /\ UNCHANGED goods

HandleClearTradeItem(p, s) ==
    /\ p \in Trading
    /\ SetItem(p, s, Nil)
    /\ UNCHANGED goods

\* A spell cast on the trader's non-traded item is kept until the trade.
CastOnTradeItem(p) ==
    /\ p \in Trading /\ ~trade[p].spell
    /\ Reoffered(p, [trade[p] EXCEPT !.spell = TRUE])
    /\ UNCHANGED goods

HandleUnacceptTrade(p) ==
    /\ p \in Trading
    /\ trade' = [trade EXCEPT ![p].accepted = FALSE]
    /\ UNCHANGED goods

------------------------------------------------------------------------------
\* HandleAcceptTradeOpcode, in the order of its checks

\* Mutant: the money was checked when it was put up.
AcceptFails_unchecked(p) == {p, Nil}

\* Whose acceptance the checks on distance and money take back.  The distance
\* may be anything.
AcceptFails(p) ==
    LET q == Partner(p) IN
    {p} \cup
    IF money[p] < trade[p].money THEN {p}
    ELSE IF money[q] < trade[q].money THEN {q}
    ELSE IF money[p] >= MaxMoney - trade[q].money THEN {p}
    ELSE IF money[q] >= MaxMoney - trade[p].money THEN {q}
    ELSE {Nil}

AcceptRefused(p) ==
    /\ p \in Trading
    /\ \E r \in AcceptFails(p) \ {Nil} :
        trade' = [trade EXCEPT ![p].accepted = TRUE, ![r].accepted = FALSE]
    /\ UNCHANGED goods

\* The partner has not accepted yet, or one of the items is found to be not
\* tradable by now; the acceptance stands in both cases.
AcceptFirst(p) ==
    /\ p \in Trading /\ Nil \in AcceptFails(p)
    /\ \/ ~trade[Partner(p)].accepted
       \/ Given(p) \cup Given(Partner(p)) # {}
    /\ trade' = [trade EXCEPT ![p].accepted = TRUE]
    /\ UNCHANGED goods

BothAccept(p) ==
    /\ p \in Trading /\ Nil \in AcceptFails(p)
    /\ trade[Partner(p)].accepted

\* A spell needs the partner's item on the non-traded slot.
CanCast(c) == trade[c].spell => GetItem(Partner(c), NonTraded) # Nil

\* A spell that cannot be cast now is taken off, the player's own first; the
\* rest of CheckCast may say anything.
SpellFails(p) ==
    /\ BothAccept(p)
    /\ \E c \in {p, Partner(p)} :
        /\ trade[c].spell /\ (c = p \/ CanCast(p))
        /\ Reoffered(c, [trade[c] EXCEPT !.spell = FALSE])
    /\ UNCHANGED goods

\* CanTakeMoreSimilarItems: of each limited kind the item belongs to, the
\* player has less than the maximum, himself having put them up or not.
CanTakeMoreSimilarItems(has, r, i) ==
    \A K \in Limits : i \in K =>
        Cardinality({j \in K \ {i} : has.owner[j] = r})
          + Cardinality(has.copies[r] \cap K) < MaxCount[K]

\* CanStoreItems of one player: each item alone is within the limits, and all
\* of them find a slot, the items in trade counted as free space.
CanStoreAll(r, In, Out) ==
    /\ \A i \in In : CanTakeMoreSimilarItems([owner |-> owner, copies |-> copies], r, i)
    /\ Cardinality(Inventory(r) \ Out) + Cardinality(copies[r]) + Cardinality(In) <= Capacity[r]

CanStoreItems(p, q) ==
    CanStoreAll(p, Given(q), Given(p)) /\ CanStoreAll(q, Given(p), Given(q))

\* The check of an item of the partner's may also find it bound to him.
NoSpace(p) ==
    /\ BothAccept(p) /\ CanCast(p) /\ CanCast(Partner(p))
    /\ ~CanStoreItems(p, Partner(p)) \/ Given(Partner(p)) # {}
    /\ trade' = [trade EXCEPT ![p].accepted = FALSE,
                              ![Partner(p)].accepted = FALSE]
    /\ UNCHANGED goods

\* Mutant: the limits have been looked at by CanStoreItems.
CanStoreItem_space(has, r, i, dst) ==
    \/ i = Nil
    \/ Cardinality({j \in Items : has.owner[j] = r}) + Cardinality(has.copies[r])
         + dst < Capacity[r]

\* CanStoreItem, for r and with dst positions found before in the same vector:
\* the item needs a free slot that is not one of them.
CanStoreItem(has, r, i, dst) ==
    \/ i = Nil
    \/ /\ CanTakeMoreSimilarItems(has, r, i)
       /\ Cardinality({j \in Items : has.owner[j] = r}) + Cardinality(has.copies[r])
            + dst < Capacity[r]

\* MoveItemToInventory, if there is room: the item goes to the last position
\* found, a clone of it to one that was left in the vector.
Store(has, r, i, dst) ==
    IF i = Nil \/ ~CanStoreItem(has, r, i, dst) THEN has
    ELSE [owner |-> [has.owner EXCEPT ![i] = r],
          copies |-> [has.copies EXCEPT ![r] = IF dst = 0 THEN @ ELSE @ \cup {i}]]

\* One pair of slots in moveItems: both items are stored on the other side if
\* both can be, else each goes back where it came from, if it fits there; the
\* position found for the one that could have been stored is not forgotten.
MovePair(has, p, q, mine, his) ==
    LET traderCanTrade == CanStoreItem(has, q, mine, 0)
        playerCanTrade == CanStoreItem(has, p, his, 0)
        Found(can, i) == IF can /\ i # Nil THEN 1 ELSE 0
    IN  IF traderCanTrade /\ playerCanTrade
        THEN Store(Store(has, q, mine, 0), p, his, 0)
        ELSE Store(Store(has, p, mine, Found(playerCanTrade, his)),
                   q, his, Found(traderCanTrade, mine))

\* moveItems, slot by slot, after the traded items have left both inventories.
moveItems(p, q) ==
    LET Out == Given(p) \cup Given(q)
        Moved[s \in 0..TradedCount] ==
            IF s = 0
            THEN [owner |-> [i \in Items |-> IF i \in Out THEN Lost ELSE owner[i]],
                  copies |-> copies]
            ELSE MovePair(Moved[s - 1], p, q, GetItem(p, s), GetItem(q, s))
    IN  Moved[TradedCount]

\* ModifyMoney, four times.
Paid(p, q) ==
    LET Add(c, n) == IF c < MaxMoney - n THEN c + n ELSE c
        Sub(c, n) == IF c > n THEN c - n ELSE 0
        m == trade[p].money
        n == trade[q].money
    IN  [money EXCEPT ![p] = Add(Sub(@, m), n), ![q] = Add(Sub(@, n), m)]

Complete(p) ==
    LET q == Partner(p) IN
    /\ BothAccept(p) /\ CanCast(p) /\ CanCast(q) /\ CanStoreItems(p, q)
    /\ owner' = moveItems(p, q).owner
    /\ copies' = moveItems(p, q).copies
    /\ money' = Paid(p, q)
    /\ trade' = [trade EXCEPT ![p] = Nil, ![q] = Nil]

------------------------------------------------------------------------------
\* What else happens to the players meanwhile

UseUp(i) ==
    /\ owner[i] \in Players
    /\ owner' = [owner EXCEPT ![i] = Free]
    /\ UNCHANGED <<trade, money, copies>>

UseUpCopy(p, i) ==
    /\ i \in copies[p]
    /\ copies' = [copies EXCEPT ![p] = @ \ {i}]
    /\ UNCHANGED <<trade, owner, money>>

Spend(p, c) ==
    /\ c < money[p]
    /\ money' = [money EXCEPT ![p] = c]
    /\ UNCHANGED <<trade, owner, copies>>

\* History: what was on the table when the player accepted.
Remember ==
    seen' = [p \in Players |->
      IF trade'[p] = Nil \/ ~trade'[p].accepted THEN Nil
      ELSE IF seen[p] # Nil THEN seen[p] ELSE <<Offer(p), Offer(Partner(p))>>]

Handler(p) ==
    \/ \E q \in Players : HandleInitiateTrade(p, q)
    \/ TradeCancel(p)
    \/ \E c \in Coins : HandleSetTradeGold(p, c)
    \/ \E s \in Slots, i \in Items : HandleSetTradeItem(p, s, i)
    \/ \E s \in Slots : HandleClearTradeItem(p, s)
    \/ CastOnTradeItem(p) \/ HandleUnacceptTrade(p)
    \/ AcceptRefused(p) \/ AcceptFirst(p) \/ SpellFails(p) \/ NoSpace(p)
    \/ Complete(p)

Others ==
    \/ \E i \in Items : UseUp(i)
    \/ \E p \in Players, i \in Items : UseUpCopy(p, i)
    \/ \E p \in Players, c \in Coins : Spend(p, c)

Next == (Others \/ \E p \in Players : Handler(p)) /\ Remember

Spec == Init /\ [][Next]_vars

------------------------------------------------------------------------------
\* The trade data have their type, and money stays below MAX_MONEY_AMOUNT.
\* (Where the items are is up to LimitsKept and BarterSpec.)
TypeOK ==
    /\ trade \in [Players -> TradeData \cup {Nil}]
    /\ money \in [Players -> Nat] /\ \A p \in Players : money[p] < MaxMoney

\* The two sides of a trade belong together: TradeCancel, SetItem and the
\* others go through m_trade of the partner without asking whether it is
\* there or theirs.
Mutual ==
    \A p \in Trading : Partner(p) \in Trading \ {p} /\ Partner(Partner(p)) = p

\* Nobody has accepted anything but what is on the table now: from the moment
\* a player accepts, no change by either side leaves his acceptance standing.
AcceptedAsSeen ==
    \A p \in Trading :
        trade[p].accepted => seen[p] = <<Offer(p), Offer(Partner(p))>>

\* Nobody is given more of a limited kind than he may have, although
\* CanStoreItems asks for each item alone, and counts what the player himself
\* gives away.  (Clones, which StoreItem makes unasked, are not counted.)
LimitsKept == \A p \in Players : Within(Inventory(p))

\* The traded part of an offer.
Terms(offer) == [coins |-> offer.money,
                 goods |-> {offer.items[s] : s \in Traded} \ {Nil}]

Agreed == [p \in Players |->
    IF seen[p] = Nil THEN Nil
    ELSE [with |-> Partner(p), gives |-> Terms(seen[p][1]), gets |-> Terms(seen[p][2])]]

Abstract == INSTANCE Barter WITH agreed <- Agreed

\* The trade is a barter: what changes hands is what the player who accepted
\* first saw when he did so, however often offers, goods and money changed
\* before and after.
BarterSpec == Abstract!Spec
=============================================================================
