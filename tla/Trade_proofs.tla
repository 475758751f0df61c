----------------------------- MODULE Trade_proofs -----------------------------
(***************************************************************************)
(* Theorems about trades, for any number of players, items, slots and      *)
(* amounts of money.                                                       *)
(*                                                                         *)
(* Mutual is inductive once the trade data have their types.  For          *)
(* AcceptedAsSeen one fact is missing, Forgotten: nothing is remembered of *)
(* an acceptance that was taken back, so that what is remembered later is  *)
(* what is on the table at that moment.                                    *)
(* The items have an invariant of their own, ItemsInv: who trades has no   *)
(* copies and puts no item up twice, and the limits are kept.              *)
(***************************************************************************)
EXTENDS Trade, FiniteSetTheorems, WellFoundedInduction, TLAPS

TradeOK == trade \in [Players -> TradeData \cup {Nil}]

MoneyOK == money \in [Players -> Nat] /\ \A p \in Players : money[p] < MaxMoney

Forgotten ==
    /\ seen = [p \in Players |-> seen[p]]
    /\ \A p \in Players :
        (trade[p] = Nil \/ ~trade[p].accepted) => seen[p] = Nil

IInv == TradeOK /\ Mutual /\ Forgotten /\ AcceptedAsSeen

\* The same is offered.
Same(a, b) == a.money = b.money /\ a.spell = b.spell /\ a.items = b.items

\* An acceptance that stands after the step stands for an unchanged table.
Standing ==
    \A r \in Trading' : trade'[r].accepted =>
        /\ r \in Trading /\ trade'[r].trader = trade[r].trader
        /\ Same(trade'[r], trade[r])
        /\ Same(trade'[trade[r].trader], trade[trade[r].trader])

LEMMA Sides ==
    ASSUME TradeOK, Mutual, NEW p \in Trading
    PROVE  /\ p \in Players /\ Partner(p) \in Players /\ Partner(p) # p
           /\ trade[p] \in TradeData /\ trade[Partner(p)] \in TradeData
           /\ trade[Partner(p)].trader = p /\ Partner(p) \in Trading
  BY TradeAssumption DEF TradeOK, Mutual, Trading, Partner, TradeData

\* Both sides of one trade are replaced by sides that belong together.
LEMMA BothReplaced ==
    ASSUME TradeOK, Mutual, NEW p \in Trading, NEW a, NEW b,
           a \in TradeData, b \in TradeData,
           a.trader = Partner(p), b.trader = p,
           a.accepted \/ b.accepted =>
               Same(a, trade[p]) /\ Same(b, trade[Partner(p)]),
           trade' = [trade EXCEPT ![p] = a, ![Partner(p)] = b]
    PROVE  TradeOK' /\ Mutual' /\ Standing
  <1> DEFINE q == Partner(p)
  <1>1. /\ p \in Players /\ q \in Players /\ q # p
        /\ trade[q].trader = p /\ q \in Trading /\ trade[p].trader = q
    BY Sides DEF Partner
  <1>2. TradeOK'
    BY <1>1 DEF TradeOK
  <1>3. /\ trade'[p] = a /\ trade'[q] = b
        /\ \A r \in Players \ {p, q} : trade'[r] = trade[r]
    BY <1>1 DEF TradeOK
  <1>4. Trading' = Trading
    BY <1>1, <1>3, TradeAssumption DEF Trading
  <1>5. \A r \in Trading \ {p, q} : trade[r].trader \notin {p, q}
    BY <1>1 DEF Mutual, Partner, Trading
  <1>6. Mutual'
    <2>1. \A r \in Trading \ {p, q} :
            /\ trade'[r] = trade[r] /\ trade[r].trader \in Trading \ {p, q, r}
            /\ trade[trade[r].trader].trader = r
            /\ trade'[trade[r].trader] = trade[trade[r].trader]
      BY <1>3, <1>5 DEF Mutual, Partner, Trading
    <2>2. ASSUME NEW r \in Trading
          PROVE  /\ trade'[r].trader \in Trading \ {r}
                 /\ trade'[trade'[r].trader].trader = r
      <3>1. CASE r = p BY <1>1, <1>3, <3>1
      <3>2. CASE r = q BY <1>1, <1>3, <3>2
      <3>3. CASE r \in Trading \ {p, q}
        <4>1. /\ trade'[r].trader = trade[r].trader
              /\ trade[r].trader \in Trading \ {p, q, r}
              /\ trade'[trade[r].trader].trader = r
          BY <2>1, <3>3
        <4> QED BY <4>1
      <3> QED BY <3>1, <3>2, <3>3
    <2> QED BY <1>4, <2>2 DEF Mutual, Partner
  <1>7. \A r \in Trading \ {p, q} : trade[r].trader \in Players
    BY DEF Mutual, Partner, Trading
  <1>8. Standing
    <2>1. ASSUME NEW r \in Trading \ {p, q}
          PROVE  trade'[r] = trade[r] /\ trade'[trade[r].trader] = trade[trade[r].trader]
      BY <1>3, <1>5, <1>7 DEF Trading
    <2>2. ASSUME NEW r \in Trading, trade'[r].accepted
          PROVE  /\ trade'[r].trader = trade[r].trader
                 /\ Same(trade'[r], trade[r])
                 /\ Same(trade'[trade[r].trader], trade[trade[r].trader])
      <3>1. CASE r = p BY <1>1, <1>3, <2>2, <3>1
      <3>2. CASE r = q BY <1>1, <1>3, <2>2, <3>2
      <3>3. CASE r \in Trading \ {p, q} BY <2>1, <3>3 DEF Same
      <3> QED BY <3>1, <3>2, <3>3
    <2> QED BY <1>4, <2>2 DEF Standing
  <1> QED BY <1>2, <1>6, <1>8

LEMMA BothClosed ==
    ASSUME TradeOK, Mutual, NEW p \in Trading,
           trade' = [trade EXCEPT ![p] = Nil, ![Partner(p)] = Nil]
    PROVE  TradeOK' /\ Mutual' /\ Standing
  <1> DEFINE q == Partner(p)
  <1>1. /\ p \in Players /\ q \in Players /\ q # p
        /\ trade[q].trader = p /\ q \in Trading /\ trade[p].trader = q
    BY Sides DEF Partner
  <1>2. TradeOK'
    BY <1>1 DEF TradeOK
  <1>3. /\ trade'[p] = Nil /\ trade'[q] = Nil
        /\ \A r \in Players \ {p, q} : trade'[r] = trade[r]
    BY <1>1 DEF TradeOK
  <1>4. Trading' = Trading \ {p, q}
    BY <1>1, <1>3 DEF Trading
  <1>5. \A r \in Trading \ {p, q} : trade[r].trader \notin {p, q}
    BY <1>1 DEF Mutual, Partner, Trading
  <1>6. Mutual'
    <2>1. \A r \in Trading \ {p, q} :
            /\ trade'[r] = trade[r] /\ trade[r].trader \in Trading \ {p, q, r}
            /\ trade[trade[r].trader].trader = r
            /\ trade'[trade[r].trader] = trade[trade[r].trader]
      BY <1>3, <1>5 DEF Mutual, Partner, Trading
    <2>2. ASSUME NEW r \in Trading \ {p, q}
          PROVE  /\ trade'[r].trader \in (Trading \ {p, q}) \ {r}
                 /\ trade'[trade'[r].trader].trader = r
      <3>1. /\ trade'[r].trader = trade[r].trader
            /\ trade[r].trader \in Trading \ {p, q, r}
            /\ trade'[trade[r].trader].trader = r
        BY <2>1
      <3> QED BY <3>1
    <2> QED BY <1>4, <2>2 DEF Mutual, Partner
  <1>7. \A r \in Trading \ {p, q} : trade[r].trader \in Players
    BY DEF Mutual, Partner, Trading
  <1>8. Standing
    <2>1. ASSUME NEW r \in Trading \ {p, q}
          PROVE  trade'[r] = trade[r] /\ trade'[trade[r].trader] = trade[trade[r].trader]
      BY <1>3, <1>5, <1>7 DEF Trading
    <2> QED BY <1>4, <2>1 DEF Standing, Same
  <1> QED BY <1>2, <1>6, <1>8

LEMMA Opened ==
    ASSUME TradeOK, Mutual, NEW p \in Players, NEW q \in Players,
           HandleInitiateTrade(p, q)
    PROVE  TradeOK' /\ Mutual' /\ Standing
  <1> DEFINE new(r) == [trader |-> r, accepted |-> FALSE, money |-> 0,
                        spell |-> FALSE, items |-> [s \in Slots |-> Nil]]
  <1>1. /\ p # q /\ trade[p] = Nil /\ trade[q] = Nil
        /\ trade' = [trade EXCEPT ![p] = new(q), ![q] = new(p)]
    BY DEF HandleInitiateTrade
  <1>2. new(p) \in TradeData /\ new(q) \in TradeData
    BY TradeAssumption DEF TradeData
  <1>3. /\ trade'[p] = new(q) /\ trade'[q] = new(p)
        /\ \A r \in Players \ {p, q} : trade'[r] = trade[r]
    BY <1>1 DEF TradeOK
  <1>4. TradeOK'
    BY <1>1, <1>2 DEF TradeOK
  <1>5. Trading' = Trading \cup {p, q}
    <2>1. new(p) # Nil /\ new(q) # Nil
      BY <1>2, TradeAssumption
    <2> HIDE DEF new
    <2> QED BY <1>1, <2>1, <1>3 DEF Trading
  <1>6. \A r \in Trading : trade[r].trader \in Trading /\ r \notin {p, q}
    BY <1>1 DEF Mutual, Partner, Trading
  <1>7. Mutual'
    <2>1. \A r \in Trading : trade'[r] = trade[r] /\ trade[r].trader \notin {p, q}
      BY <1>1, <1>3, <1>6 DEF Trading
    <2>2. trade'[p].trader = q /\ trade'[q].trader = p
      BY <1>3
    <2>3. ASSUME NEW r \in Trading \cup {p, q}
          PROVE  /\ trade'[r].trader \in (Trading \cup {p, q}) \ {r}
                 /\ trade'[trade'[r].trader].trader = r
      <3>1. CASE r \in {p, q} BY <1>1, <2>2, <3>1
      <3>2. CASE r \in Trading BY <1>6, <2>1, <3>2 DEF Mutual, Partner
      <3> QED BY <3>1, <3>2
    <2> QED BY <1>5, <2>3 DEF Mutual, Partner
  <1>8. Standing
    <2>1. \A r \in Trading : trade'[r] = trade[r] /\ trade'[trade[r].trader] = trade[trade[r].trader]
      BY <1>1, <1>3, <1>6 DEF Trading
    <2>2. ~trade'[p].accepted /\ ~trade'[q].accepted
      BY <1>3
    <2> QED BY <1>5, <2>1, <2>2 DEF Standing, Same
  <1> QED BY <1>4, <1>7, <1>8
LEMMA ReofferedStep ==
    ASSUME TradeOK, Mutual, NEW p \in Trading, NEW data \in TradeData,
           data.trader = Partner(p), Reoffered(p, data)
    PROVE  TradeOK' /\ Mutual' /\ Standing
  <1> DEFINE q == Partner(p)
             a == [data EXCEPT !.accepted = FALSE]
             b == [trade[q] EXCEPT !.accepted = FALSE]
  <1>1. /\ p \in Players /\ q \in Players /\ q # p
        /\ trade[q] \in TradeData /\ trade[q].trader = p
    BY Sides
  <1>2. /\ a \in TradeData /\ a.trader = q /\ ~a.accepted
        /\ b \in TradeData /\ b.trader = p /\ ~b.accepted
    BY <1>1 DEF TradeData
  <1>3. trade' = [trade EXCEPT ![p] = a, ![q] = b]
    BY <1>1 DEF Reoffered, TradeOK
  <1> HIDE DEF a, b
  <1> QED BY <1>2, <1>3, BothReplaced

LEMMA SetItemStep ==
    ASSUME TradeOK, Mutual, NEW p \in Trading, NEW s \in Slots,
           NEW i \in Items \cup {Nil}, SetItem(p, s, i)
    PROVE  TradeOK' /\ Mutual' /\ Standing
  <1> DEFINE q == Partner(p)
             a == [trade[p] EXCEPT !.items[s] = i, !.spell = FALSE, !.accepted = FALSE]
             b == [trade[q] EXCEPT !.accepted = FALSE,
                                   !.spell = s # NonTraded /\ trade[q].spell]
  <1>1. /\ p \in Players /\ q \in Players /\ q # p
        /\ trade[p] \in TradeData /\ trade[p].trader = q
        /\ trade[q] \in TradeData /\ trade[q].trader = p
    BY Sides DEF Partner
  <1>2. a \in TradeData /\ a.trader = q /\ ~a.accepted
    <2>1. [trade[p].items EXCEPT ![s] = i] \in [Slots -> Items \cup {Nil}]
      BY <1>1 DEF TradeData
    <2> QED BY <1>1, <2>1 DEF TradeData
  <1>3. b \in TradeData /\ b.trader = p /\ ~b.accepted
    BY <1>1 DEF TradeData
  <1>4. trade' = [trade EXCEPT ![p] = a, ![q] = b]
    BY <1>1, Zenon DEF SetItem
  <1> HIDE DEF a, b
  <1> QED BY <1>2, <1>3, <1>4, BothReplaced

\* The flags alone are set; one that is set stands for the table as it is.
LEMMA FlagsStep ==
    ASSUME TradeOK, Mutual, NEW p \in Trading, NEW x \in BOOLEAN, NEW y \in BOOLEAN,
           trade' = [trade EXCEPT ![p].accepted = x, ![Partner(p)].accepted = y]
    PROVE  TradeOK' /\ Mutual' /\ Standing
  <1> DEFINE q == Partner(p)
             a == [trade[p] EXCEPT !.accepted = x]
             b == [trade[q] EXCEPT !.accepted = y]
  <1>1. /\ p \in Players /\ q \in Players /\ q # p
        /\ trade[p] \in TradeData /\ trade[p].trader = q
        /\ trade[q] \in TradeData /\ trade[q].trader = p
    BY Sides DEF Partner
  <1>2. /\ a \in TradeData /\ a.trader = q /\ Same(a, trade[p])
        /\ b \in TradeData /\ b.trader = p /\ Same(b, trade[q])
    BY <1>1 DEF TradeData, Same
  <1>3. trade' = [trade EXCEPT ![p] = a, ![q] = b]
    BY <1>1 DEF TradeOK
  <1> HIDE DEF a, b
  <1> QED BY <1>2, <1>3, BothReplaced

LEMMA HandlerStep ==
    ASSUME TradeOK, Mutual, NEW p \in Players, Handler(p)
    PROVE  TradeOK' /\ Mutual' /\ Standing
  <1> DEFINE q == Partner(p)
  <1>1. ASSUME NEW r \in Players, HandleInitiateTrade(p, r)
        PROVE  TradeOK' /\ Mutual' /\ Standing
    BY <1>1, Opened
  <1>2. ASSUME p \in Trading
        PROVE  /\ q \in Players /\ q # p /\ trade[p] \in TradeData
               /\ trade[q] \in TradeData /\ trade[q].trader = p
               /\ trade[p].accepted \in BOOLEAN /\ trade[q].accepted \in BOOLEAN
               /\ trade[p].trader = q /\ q \in Trading
    BY <1>2, Sides DEF TradeData, Partner
  <1>3. ASSUME p \in Trading, NEW x \in BOOLEAN,
               trade' = [trade EXCEPT ![p].accepted = x]
        PROVE  TradeOK' /\ Mutual' /\ Standing
    <2>1. trade' = [trade EXCEPT ![p].accepted = x, ![q].accepted = trade[q].accepted]
      <3>1. [trade[q] EXCEPT !.accepted = trade[q].accepted] = trade[q]
        BY <1>2, <1>3 DEF TradeData
      <3>2. trade[q] = trade'[q] /\ trade' \in [Players -> TradeData \cup {Nil}]
        BY <1>2, <1>3 DEF TradeOK, TradeData
      <3> QED BY <1>2, <1>3, <3>1, <3>2 DEF TradeOK
    <2> QED BY <1>2, <1>3, <2>1, FlagsStep
  <1>4. CASE TradeCancel(p)
    BY <1>4, BothClosed DEF TradeCancel
  <1>5. ASSUME NEW c \in Coins, HandleSetTradeGold(p, c)
        PROVE  TradeOK' /\ Mutual' /\ Standing
    <2>1. p \in Trading /\ Reoffered(p, [trade[p] EXCEPT !.money = c])
      BY <1>5 DEF HandleSetTradeGold
    <2>2. /\ [trade[p] EXCEPT !.money = c] \in TradeData
          /\ [trade[p] EXCEPT !.money = c].trader = q
      BY <1>2, <2>1 DEF TradeData
    <2> QED BY <2>1, <2>2, ReofferedStep
  <1>6. ASSUME NEW s \in Slots, NEW i \in Items, HandleSetTradeItem(p, s, i)
        PROVE  TradeOK' /\ Mutual' /\ Standing
    BY <1>6, SetItemStep DEF HandleSetTradeItem
  <1>7. ASSUME NEW s \in Slots, HandleClearTradeItem(p, s)
        PROVE  TradeOK' /\ Mutual' /\ Standing
    BY <1>7, SetItemStep DEF HandleClearTradeItem
  <1>8. CASE CastOnTradeItem(p)
    <2>1. p \in Trading /\ Reoffered(p, [trade[p] EXCEPT !.spell = TRUE])
      BY <1>8 DEF CastOnTradeItem
    <2>2. /\ [trade[p] EXCEPT !.spell = TRUE] \in TradeData
          /\ [trade[p] EXCEPT !.spell = TRUE].trader = q
      BY <1>2, <2>1 DEF TradeData
    <2> QED BY <2>1, <2>2, ReofferedStep
  <1>9. CASE HandleUnacceptTrade(p)
    BY <1>3, <1>9 DEF HandleUnacceptTrade
  <1>10. CASE AcceptRefused(p)
    <2>1. p \in Trading
      BY <1>10 DEF AcceptRefused
    <2>2. AcceptFails(p) \subseteq {p, q, Nil}
      BY DEF AcceptFails
    <2>3. PICK r \in {p, q} :
            trade' = [trade EXCEPT ![p].accepted = TRUE, ![r].accepted = FALSE]
      BY <1>10, <2>2 DEF AcceptRefused
    <2>4. CASE r = p
      <3>1. trade' = [trade EXCEPT ![p].accepted = FALSE]
        BY <1>2, <2>1, <2>3, <2>4 DEF TradeOK, TradeData
      <3> QED BY <1>3, <2>1, <3>1
    <2>5. CASE r = q
      BY <2>1, <2>3, <2>5, FlagsStep
    <2> QED BY <2>3, <2>4, <2>5
  <1>11. CASE AcceptFirst(p)
    BY <1>3, <1>11 DEF AcceptFirst
  <1>12. CASE SpellFails(p)
    <2>1. p \in Trading
      BY <1>12 DEF SpellFails, BothAccept
    <2>2. PICK c \in {p, q} : Reoffered(c, [trade[c] EXCEPT !.spell = FALSE])
      BY <1>12 DEF SpellFails
    <2>3. /\ c \in Trading /\ [trade[c] EXCEPT !.spell = FALSE] \in TradeData
          /\ [trade[c] EXCEPT !.spell = FALSE].trader = Partner(c)
      BY <1>2, <2>1, <2>2 DEF TradeData, Partner
    <2> QED BY <2>2, <2>3, ReofferedStep
  <1>13. CASE NoSpace(p)
    BY <1>13, FlagsStep DEF NoSpace, BothAccept
  <1>14. CASE Complete(p)
    BY <1>14, BothClosed DEF Complete, BothAccept
  <1> QED
    BY <1>1, <1>4, <1>5, <1>6, <1>7, <1>8, <1>9, <1>10, <1>11, <1>12, <1>13, <1>14
    DEF Handler

LEMMA IInvStep ==
    ASSUME IInv, [Next]_vars
    PROVE  IInv'
  <1>1. TradeOK /\ Mutual /\ Forgotten /\ AcceptedAsSeen
    BY DEF IInv
  <1>2. CASE UNCHANGED vars
    BY <1>1, <1>2 DEF IInv, vars, TradeOK, Mutual, Forgotten, AcceptedAsSeen,
                     Trading, Partner, Offer
  <1>3. CASE Next
    <2>1. TradeOK' /\ Mutual' /\ Standing
      <3>1. CASE Others
        <4>1. trade' = trade
          BY <3>1 DEF Others, UseUp, UseUpCopy, Spend
        <4>2. TradeOK' /\ Mutual'
          BY <1>1, <4>1 DEF TradeOK, Mutual, Trading, Partner
        <4>3. Standing
          BY <4>1 DEF Standing, Trading, Same
        <4> QED BY <4>2, <4>3
      <3>2. CASE \E p \in Players : Handler(p)
        BY <1>1, <3>2, HandlerStep
      <3> QED BY <1>3, <3>1, <3>2 DEF Next
    <2>2. seen' = [p \in Players |->
            IF trade'[p] = Nil \/ ~trade'[p].accepted THEN Nil
            ELSE IF seen[p] # Nil THEN seen[p] ELSE <<Offer(p), Offer(Partner(p))>>]
      BY <1>3 DEF Next, Remember
    <2>3. Forgotten'
      BY <2>2 DEF Forgotten
    <2>4. ASSUME NEW p \in Trading', trade'[p].accepted
          PROVE  seen'[p] = <<Offer(p), Offer(Partner(p))>>'
      <3>1. /\ p \in Trading /\ p \in Players /\ trade'[p] # Nil
            /\ trade'[p].trader = trade[p].trader
            /\ Same(trade'[p], trade[p])
            /\ Same(trade'[trade[p].trader], trade[trade[p].trader])
        BY <2>1, <2>4 DEF Standing, Trading
      <3>2. Offer(p)' = Offer(p) /\ (Offer(Partner(p)))' = Offer(Partner(p))
        BY <3>1 DEF Offer, Partner, Same
      <3>3. seen'[p] = IF seen[p] # Nil THEN seen[p] ELSE <<Offer(p), Offer(Partner(p))>>
        BY <2>2, <2>4, <3>1
      <3>4. seen[p] = Nil \/ seen[p] = <<Offer(p), Offer(Partner(p))>>
        BY <1>1, <3>1 DEF Forgotten, AcceptedAsSeen
      <3> QED BY <3>2, <3>3, <3>4
    <2>5. AcceptedAsSeen'
      BY <2>4 DEF AcceptedAsSeen
    <2> QED BY <2>1, <2>3, <2>5 DEF IInv
  <1> QED BY <1>2, <1>3

LEMMA IInvAlways == Spec => []IInv
  <1>1. Init => IInv
    <2> SUFFICES ASSUME Init PROVE IInv
      OBVIOUS
    <2>1. /\ trade = [p \in Players |-> Nil] /\ seen = [p \in Players |-> Nil]
          /\ Trading = {}
      BY DEF Init, Trading
    <2> QED BY <2>1 DEF IInv, TradeOK, Mutual, Forgotten, AcceptedAsSeen
  <1> QED BY <1>1, IInvStep, PTL DEF Spec

\* The two sides of a trade belong together, for every number of players: no
\* handler, no cancel and no completion leaves one of them with a pointer to
\* data that is gone or somebody else's.
THEOREM AlwaysMutual == Spec => []Mutual
  <1>1. IInv => Mutual
    BY DEF IInv
  <1> QED BY <1>1, IInvAlways, PTL

\* Nobody has ever accepted anything but what is on the table now, whatever
\* the players do with money, items, spells and acceptances in any order.
THEOREM AlwaysAcceptedAsSeen == Spec => []AcceptedAsSeen
  <1>1. IInv => AcceptedAsSeen
    BY DEF IInv
  <1> QED BY <1>1, IInvAlways, PTL

------------------------------------------------------------------------------
\* Money: the checks of HandleAcceptTradeOpcode are just what the four calls of
\* ModifyMoney need to neither cut off a debt nor refuse an amount.

LEMMA PaidExactly ==
    ASSUME TradeOK, Mutual, MoneyOK, NEW p \in Trading, Nil \in AcceptFails(p)
    PROVE  LET q == Partner(p)
               m == trade[p].money
               n == trade[q].money
           IN  /\ m \in 0..money[p] /\ n \in 0..money[q]
               /\ Paid(p, q) = [money EXCEPT ![p] = @ - m + n, ![q] = @ - n + m]
               /\ money[p] - m + n < MaxMoney /\ money[q] - n + m < MaxMoney
  <1> DEFINE q == Partner(p)
             m == trade[p].money
             n == trade[q].money
  <1>1. /\ p \in Players /\ q \in Players /\ q # p
        /\ trade[p] \in TradeData /\ trade[q] \in TradeData
    BY Sides
  <1>2. /\ MaxMoney \in Nat /\ m \in Nat /\ n \in Nat
        /\ m < MaxMoney /\ n < MaxMoney
        /\ money[p] \in Nat /\ money[q] \in Nat
    BY <1>1, TradeAssumption DEF TradeData, MoneyOK
  <1>3. p # Nil /\ q # Nil
    BY <1>1, TradeAssumption
  <1>4. /\ ~(money[p] < m) /\ ~(money[q] < n)
        /\ ~(money[p] >= MaxMoney - n) /\ ~(money[q] >= MaxMoney - m)
    BY <1>3 DEF AcceptFails
  <1> HIDE DEF m, n
  <1> DEFINE Add(c, d) == IF c < MaxMoney - d THEN c + d ELSE c
             Sub(c, d) == IF c > d THEN c - d ELSE 0
  <1>5. /\ Add(Sub(money[p], m), n) = money[p] - m + n
        /\ Add(Sub(money[q], n), m) = money[q] - n + m
        /\ money[p] - m + n < MaxMoney /\ money[q] - n + m < MaxMoney
    BY <1>2, <1>4
  <1>6. Paid(p, q) = [money EXCEPT ![p] = Add(Sub(money[p], m), n),
                                   ![q] = Add(Sub(money[q], n), m)]
    BY <1>1 DEF Paid, m, n, MoneyOK
  <1>7. Paid(p, q) = [money EXCEPT ![p] = @ - m + n, ![q] = @ - n + m]
    BY <1>1, <1>5, <1>6 DEF MoneyOK
  <1> QED BY <1>2, <1>4, <1>5, <1>7 DEF m, n

\* Between two players every coin that one loses the other gets; else a single
\* player spends.
MoneyStep ==
    \/ \E p, q \in Players : \E m \in 0..money[p], n \in 0..money[q] :
        p # q /\ money' = [money EXCEPT ![p] = @ - m + n, ![q] = @ - n + m]
    \/ \E p \in Players : \E c \in 0..money[p] : money' = [money EXCEPT ![p] = c]

LEMMA MoneyKept ==
    ASSUME IInv, MoneyOK, [Next]_vars
    PROVE  MoneyOK' /\ (MoneyStep \/ UNCHANGED money)
  <1>1. CASE UNCHANGED money
    BY <1>1 DEF MoneyOK
  <1>2. CASE \E p \in Players : Complete(p)
    <2>1. PICK p \in Players : Complete(p)
      BY <1>2
    <2>2. TradeOK /\ Mutual /\ p \in Trading /\ Nil \in AcceptFails(p)
      BY <2>1 DEF Complete, BothAccept, IInv
    <2> DEFINE q == Partner(p)
               m == trade[p].money
               n == trade[q].money
    <2>3. p \in Players /\ q \in Players /\ p # q
      BY <2>2, Sides
    <2>4. /\ m \in 0..money[p] /\ n \in 0..money[q]
          /\ money' = [money EXCEPT ![p] = @ - m + n, ![q] = @ - n + m]
          /\ money[p] - m + n < MaxMoney /\ money[q] - n + m < MaxMoney
      BY <2>1, <2>2, PaidExactly DEF Complete
    <2> HIDE DEF q, m, n
    <2>5. MoneyStep
      BY <2>3, <2>4 DEF MoneyStep
    <2>6. money[p] - m + n \in Nat /\ money[q] - n + m \in Nat
      BY <2>3, <2>4 DEF MoneyOK
    <2>7. MoneyOK'
      BY <2>3, <2>4, <2>6 DEF MoneyOK
    <2> QED BY <2>5, <2>7
  <1>3. CASE \E p \in Players, c \in Coins : Spend(p, c)
    <2>1. PICK p \in Players, c \in Coins : Spend(p, c)
      BY <1>3
    <2>2. c \in Nat /\ money[p] \in Nat /\ money[p] < MaxMoney /\ MaxMoney \in Nat
      BY TradeAssumption DEF MoneyOK
    <2>3. c \in 0..money[p] /\ c < MaxMoney /\ money' = [money EXCEPT ![p] = c]
      BY <2>1, <2>2 DEF Spend
    <2> QED BY <2>2, <2>3 DEF MoneyOK, MoneyStep
  <1>4. ASSUME NEW p \in Players, Handler(p), ~Complete(p)
        PROVE  UNCHANGED money
    BY <1>4 DEF Handler, HandleInitiateTrade, TradeCancel, HandleSetTradeGold,
                HandleSetTradeItem, HandleClearTradeItem, CastOnTradeItem,
                HandleUnacceptTrade, AcceptRefused, AcceptFirst, SpellFails,
                NoSpace, goods
  <1> QED BY <1>1, <1>2, <1>3, <1>4 DEF Next, Others, UseUp, UseUpCopy, vars

LEMMA MoneyAlways == Spec => []MoneyOK
  <1>1. Init => MoneyOK
    <2> SUFFICES ASSUME Init PROVE MoneyOK
      OBVIOUS
    <2>1. money \in [Players -> Coins]
      BY DEF Init
    <2>2. \A c \in Coins : c \in Nat /\ c < MaxMoney
      BY TradeAssumption
    <2> QED BY <2>1, <2>2 DEF MoneyOK
  <1>2. IInv /\ MoneyOK /\ [Next]_vars => MoneyOK'
    BY MoneyKept
  <1> QED BY <1>1, <1>2, IInvAlways, PTL DEF Spec

\* The trade data keep their type, and no trade takes a player to the maximum
\* of money or below zero.
THEOREM TradeTypeCorrect == Spec => []TypeOK
  <1>1. IInv /\ MoneyOK => TypeOK
    BY DEF IInv, TradeOK, MoneyOK, TypeOK
  <1> QED BY <1>1, IInvAlways, MoneyAlways, PTL

\* Coins are neither made nor lost by a trade, although they are checked when
\* they are put up, may be spent afterwards, and are moved by four calls that
\* fail silently: the checks made at completion are enough.
THEOREM CoinsConserved == Spec => [][MoneyStep]_money
  <1>1. IInv /\ MoneyOK /\ [Next]_vars => [MoneyStep]_money
    BY MoneyKept
  <1> QED BY <1>1, IInvAlways, MoneyAlways, PTL DEF Spec

------------------------------------------------------------------------------
(***************************************************************************)
(* Items.  CanStoreItems looks at the limits of each item alone and counts *)
(* what both inventories hold after the trade; moveItems asks again before *)
(* each pair of slots.  Where nobody gets more of a limited kind than he   *)
(* may have, the two agree and everything offered changes hands, because   *)
(* an item is on one slot only (OneSlot): while an item is still to be     *)
(* stored there is room for it.  Where somebody does, Sane still holds     *)
(* after every slot.  moveItems is a recursive function; what it returns   *)
(* is shown by the least slot after which it does not.                     *)
(***************************************************************************)

OwnerOK ==
    /\ owner \in [Items -> Players \cup {Free, Lost}]
    /\ copies \in [Players -> SUBSET Items]

\* Nobody takes a copy of an item into a trade.
NoCopies == \A p \in Trading : copies[p] = {}

OneSlot ==
    \A p \in Trading : \A s, t \in Slots :
        trade[p].items[s] = trade[p].items[t] /\ trade[p].items[s] # Nil => s = t

\* A set of natural numbers has a least element.
LEMMA LeastOf ==
    ASSUME NEW T, T \subseteq Nat, T # {}
    PROVE  \E m \in T : \A y \in T : m <= y
  <1> DEFINE R == OpToRel(<, Nat)
  <1>1. IsWellFoundedOn(R, Nat)
    BY NatLessThanWellFounded
  <1>2. \A x, y \in Nat : y < x => <<y, x>> \in R
    BY DEF OpToRel
  <1> HIDE DEF R
  <1>3. PICK x \in T : \A y \in T : ~ (<<y, x>> \in R)
    BY <1>1, WFMin
  <1>4. ASSUME NEW y \in T PROVE x <= y
    <2>1. x \in Nat /\ y \in Nat
      OBVIOUS
    <2>2. ~(y < x)
      BY <1>2, <1>3, <2>1
    <2> QED BY <2>1, <2>2
  <1> QED BY <1>4

\* What GetItem finds is the player's, and on one slot only.
LEMMA Found ==
    ASSUME TradeOK, OneSlot, NEW p \in Trading, NEW s \in Slots, GetItem(p, s) # Nil
    PROVE  /\ GetItem(p, s) \in Items /\ owner[GetItem(p, s)] = p
           /\ \A t \in Slots : GetItem(p, t) = GetItem(p, s) => t = s
  <1>1. p \in Players /\ trade[p] \in TradeData
    BY DEF Trading, TradeOK
  <1>2. trade[p].items \in [Slots -> Items \cup {Nil}]
    BY <1>1 DEF TradeData
  <1> QED BY <1>2 DEF GetItem, OneSlot

LEMMA TradedSlots == TradedCount \in Nat \ {0} /\ 1..TradedCount \subseteq Slots
  BY TradeAssumption DEF Slots, Traded

\* Nobody gives anything but his own.
LEMMA GivenIs ==
    ASSUME TradeOK, OneSlot, NEW p \in Trading
    PROVE  /\ Given(p) \subseteq Inventory(p) /\ IsFiniteSet(Given(p))
           /\ IsFiniteSet(Inventory(p))
           /\ \A i \in Items : i \in Given(p) <=>
                \E t \in 1..TradedCount : GetItem(p, t) = i
  <1>1. \A s \in Traded : GetItem(p, s) # Nil =>
          GetItem(p, s) \in Items /\ owner[GetItem(p, s)] = p
    BY Found, TradedSlots DEF Traded
  <1>2. Given(p) \subseteq Inventory(p)
    BY <1>1 DEF Given, Inventory
  <1>3. IsFiniteSet(Inventory(p))
    BY TradeAssumption, FS_Subset DEF Inventory
  <1>4. IsFiniteSet(Given(p))
    BY <1>2, <1>3, FS_Subset
  <1>5. \A i \in Items : i # Nil
    BY TradeAssumption
  <1> QED BY <1>2, <1>3, <1>4, <1>5 DEF Given, Traded

\* The pairs of slots one after another, as far as n.
Begun(p, q) ==
    [owner |-> [i \in Items |-> IF i \in Given(p) \cup Given(q) THEN Lost ELSE owner[i]],
     copies |-> copies]

Next1(has, p, q, s) == MovePair(has, p, q, GetItem(p, s), GetItem(q, s))

Run(p, q, n, f) ==
    f = [s \in 0..n |-> IF s = 0 THEN Begun(p, q) ELSE Next1(f[s - 1], p, q, s)]

LEMMA RunIs ==
    ASSUME NEW p, NEW q, NEW n \in Nat, NEW f, Run(p, q, n, f)
    PROVE  /\ f[0] = Begun(p, q)
           /\ \A s \in 1..n : f[s] = Next1(f[s - 1], p, q, s)
  <1>1. 0 \in 0..n /\ \A s \in 1..n : s \in 0..n /\ s # 0
    OBVIOUS
  <1> QED BY <1>1 DEF Run

LEMMA RunOf ==
    ASSUME NEW p, NEW q, NEW n \in Nat, NEW f, f = [s \in 0..n |-> f[s]],
           f[0] = Begun(p, q), \A s \in 1..n : f[s] = Next1(f[s - 1], p, q, s)
    PROVE  Run(p, q, n, f)
  <1> DEFINE e(s) == IF s = 0 THEN Begun(p, q) ELSE Next1(f[s - 1], p, q, s)
  <1>1. \A s \in 0..n : s = 0 \/ s \in 1..n
    OBVIOUS
  <1>2. \A s \in 0..n : f[s] = e(s)
    BY <1>1
  <1> HIDE DEF e
  <1>3. f = [s \in 0..n |-> e(s)]
    BY <1>2
  <1> QED BY <1>3 DEF Run, e

\* There is such a function, for every number of slots.
LEMMA RunExists ==
    ASSUME NEW p, NEW q, NEW n \in Nat
    PROVE  \E f : Run(p, q, n, f)
  <1> DEFINE T == {m \in Nat : ~ \E f : Run(p, q, m, f)}
  <1> SUFFICES ASSUME T # {} PROVE FALSE
    OBVIOUS
  <1>1. PICK m \in T : \A y \in T : m <= y
    <2>1. T \subseteq Nat
      OBVIOUS
    <2> HIDE DEF T
    <2> QED BY <2>1, LeastOf
  <1>2. m \in Nat /\ ~ \E f : Run(p, q, m, f)
    OBVIOUS
  <1>3. CASE m = 0
    <2> DEFINE f == [s \in 0..0 |-> Begun(p, q)]
    <2>1. Run(p, q, 0, f)
      <3>1. f[0] = Begun(p, q) /\ f = [s \in 0..0 |-> f[s]] /\ 1..0 = {}
        OBVIOUS
      <3> HIDE DEF f
      <3> QED BY <3>1, RunOf
    <2> QED BY <1>2, <1>3, <2>1
  <1>4. CASE m # 0
    <2>1. m - 1 \in Nat /\ ~(m <= m - 1)
      BY <1>2, <1>4
    <2>2. m - 1 \notin T
      BY <1>1, <2>1
    <2>3. PICK g : Run(p, q, m - 1, g)
      BY <2>1, <2>2
    <2>4. /\ g[0] = Begun(p, q)
          /\ \A s \in 1..(m - 1) : g[s] = Next1(g[s - 1], p, q, s)
      BY <2>1, <2>3, RunIs
    <2> DEFINE f == [s \in 0..m |-> IF s = m THEN Next1(g[m - 1], p, q, m) ELSE g[s]]
    <2>5. /\ f[0] = g[0] /\ f[m] = Next1(g[m - 1], p, q, m)
          /\ \A s \in 0..(m - 1) : f[s] = g[s]
          /\ f = [s \in 0..m |-> f[s]]
      BY <1>2, <1>4
    <2> HIDE DEF f
    <2>6. ASSUME NEW s \in 1..m PROVE f[s] = Next1(f[s - 1], p, q, s)
      <3>1. CASE s = m
        <4>1. m - 1 \in 0..(m - 1)
          BY <2>1
        <4> QED BY <2>5, <3>1, <4>1
      <3>2. CASE s # m
        <4>1. s \in 1..(m - 1) /\ s \in 0..(m - 1) /\ s - 1 \in 0..(m - 1)
          BY <1>2, <3>2
        <4> QED BY <2>4, <2>5, <4>1
      <3> QED BY <3>1, <3>2
    <2>7. Run(p, q, m, f)
      BY <1>2, <2>4, <2>5, <2>6, RunOf
    <2> QED BY <1>2, <2>7
  <1> QED BY <1>3, <1>4

LEMMA MoveIs ==
    ASSUME NEW p, NEW q
    PROVE  \E f : Run(p, q, TradedCount, f) /\ moveItems(p, q) = f[TradedCount]
  <1> DEFINE f == CHOOSE h : Run(p, q, TradedCount, h)
  <1>1. moveItems(p, q) = f[TradedCount]
    BY DEF moveItems, Run, Begun, Next1
  <1>2. Run(p, q, TradedCount, f)
    BY TradedSlots, RunExists
  <1> QED BY <1>1, <1>2

\* What holds after every pair of slots: only what was put up moves, to one
\* of the two or nowhere, a player is returned no more than his own twice, and
\* the limits are kept.
Holds(o, r) == {j \in Items : o[j] = r}

Sane(has, p, q) ==
    /\ has = [owner |-> has.owner, copies |-> has.copies]
    /\ has.owner \in [Items -> Players \cup {Free, Lost}]
    /\ has.copies \in [Players -> SUBSET Items]
    /\ \A i \in Items : has.owner[i] # owner[i] =>
          i \in Given(p) \cup Given(q) /\ has.owner[i] \in {p, q, Lost}
    /\ \A r \in Players :
          /\ copies[r] \subseteq has.copies[r]
          /\ has.copies[r] \ copies[r] \subseteq
               IF r = p THEN Given(p) ELSE IF r = q THEN Given(q) ELSE {}
    /\ \A r \in Players : Within(Holds(has.owner, r))

LEMMA Finite ==
    ASSUME NEW S, S \subseteq Items
    PROVE  IsFiniteSet(S) /\ Cardinality(S) \in Nat
  BY TradeAssumption, FS_Subset, FS_CardinalityType

\* Who has less is within the limits as well.
LEMMA LessWithin ==
    ASSUME NEW S, NEW R, S \subseteq Items, R \subseteq S, Within(S)
    PROVE  Within(R)
  <1> SUFFICES ASSUME NEW K \in Limits PROVE Cardinality(R \cap K) <= MaxCount[K]
    BY DEF Within
  <1>1. Cardinality(S \cap K) <= MaxCount[K] /\ MaxCount[K] \in Nat
    BY TradeAssumption DEF Within
  <1>2. IsFiniteSet(S \cap K) /\ Cardinality(S \cap K) \in Nat /\ R \cap K \subseteq S \cap K
    BY Finite
  <1>3. Cardinality(R \cap K) <= Cardinality(S \cap K)
    BY <1>2, FS_Subset
  <1>4. Cardinality(R \cap K) \in Nat
    <2>1. R \cap K \subseteq Items
      OBVIOUS
    <2> QED BY <2>1, Finite
  <1> QED BY <1>1, <1>2, <1>3, <1>4

\* One more item, where less than the maximum of its kinds is had.
LEMMA OneMore ==
    ASSUME NEW S, S \subseteq Items, Within(S), NEW i \in Items,
           \A K \in Limits : i \in K => Cardinality((S \ {i}) \cap K) < MaxCount[K]
    PROVE  Within(S \cup {i})
  <1> SUFFICES ASSUME NEW K \in Limits
               PROVE  Cardinality((S \cup {i}) \cap K) <= MaxCount[K]
    BY DEF Within
  <1>1. MaxCount[K] \in Nat
    BY TradeAssumption
  <1>2. CASE i \notin K
    <2>1. (S \cup {i}) \cap K = S \cap K
      BY <1>2
    <2> QED BY <2>1 DEF Within
  <1>3. CASE i \in K
    <2> DEFINE R == (S \ {i}) \cap K
    <2>1. IsFiniteSet(R) /\ Cardinality(R) \in Nat /\ i \notin R
      BY Finite
    <2>2. (S \cup {i}) \cap K = R \cup {i}
      BY <1>3
    <2>3. Cardinality(R) < MaxCount[K]
      BY <1>3
    <2> HIDE DEF R
    <2>4. Cardinality(R \cup {i}) = Cardinality(R) + 1
      BY <2>1, FS_AddElement
    <2>5. Cardinality(R) + 1 <= MaxCount[K]
      BY <1>1, <2>1, <2>3
    <2> QED BY <2>2, <2>4, <2>5
  <1> QED BY <1>2, <1>3

\* The copies only add to what is counted.
LEMMA CountedAtLeast ==
    ASSUME NEW has, NEW r \in Players, NEW i \in Items, NEW o, o = has.owner,
           has.copies[r] \subseteq Items, CanTakeMoreSimilarItems(has, r, i)
    PROVE  \A K \in Limits : i \in K =>
             Cardinality((Holds(o, r) \ {i}) \cap K) < MaxCount[K]
  <1> SUFFICES ASSUME NEW K \in Limits, i \in K
               PROVE  Cardinality((Holds(o, r) \ {i}) \cap K) < MaxCount[K]
    OBVIOUS
  <1> DEFINE A == {j \in K \ {i} : has.owner[j] = r}
             C == has.copies[r] \cap K
  <1>1. K \subseteq Items /\ MaxCount[K] \in Nat
    BY TradeAssumption
  <1>2. A = (Holds(o, r) \ {i}) \cap K
    BY <1>1 DEF Holds
  <1>3. Cardinality(A) + Cardinality(C) < MaxCount[K]
    BY DEF CanTakeMoreSimilarItems
  <1>4. A \subseteq Items /\ C \subseteq Items
    BY <1>1
  <1> HIDE DEF A, C
  <1>5. Cardinality(A) \in Nat /\ Cardinality(C) \in Nat
    BY <1>4, Finite
  <1>6. Cardinality(A) < MaxCount[K]
    BY <1>1, <1>3, <1>5
  <1> QED BY <1>2, <1>6

LEMMA StoreSane ==
    ASSUME OwnerOK, NEW p \in Players, NEW q \in Players, p # q,
           NEW has, Sane(has, p, q), NEW r \in {p, q}, NEW i, NEW dst,
           i = Nil \/ i \in Given(p) \cup Given(q), i = Nil \/ i \in Items,
           dst # 0 => i = Nil \/ i \in Given(r)
    PROVE  Sane(Store(has, r, i, dst), p, q)
  <1>1. CASE i = Nil \/ ~CanStoreItem(has, r, i, dst)
    BY <1>1 DEF Store
  <1>2. CASE i # Nil /\ CanStoreItem(has, r, i, dst)
    <2> DEFINE o == [has.owner EXCEPT ![i] = r]
               c == [has.copies EXCEPT ![r] = IF dst = 0 THEN @ ELSE @ \cup {i}]
               new == [owner |-> o, copies |-> c]
    <2>1. Store(has, r, i, dst) = new
      BY <1>2 DEF Store
    <2>2. /\ has.owner \in [Items -> Players \cup {Free, Lost}]
          /\ has.copies \in [Players -> SUBSET Items]
          /\ i \in Items /\ i \in Given(p) \cup Given(q) /\ r \in Players
      BY <1>2 DEF Sane
    <2>3. /\ o \in [Items -> Players \cup {Free, Lost}]
          /\ c \in [Players -> SUBSET Items]
      BY <2>2
    <2>4. \A j \in Items : o[j] = IF j = i THEN r ELSE has.owner[j]
      BY <2>2
    <2>5. \A j \in Items : o[j] # owner[j] =>
            j \in Given(p) \cup Given(q) /\ o[j] \in {p, q, Lost}
      BY <2>2, <2>4 DEF Sane
    <2>6. ASSUME NEW t \in Players
          PROVE  /\ copies[t] \subseteq c[t]
                 /\ c[t] \ copies[t] \subseteq
                      IF t = p THEN Given(p) ELSE IF t = q THEN Given(q) ELSE {}
      <3>1. /\ copies[t] \subseteq has.copies[t]
            /\ has.copies[t] \ copies[t] \subseteq
                 IF t = p THEN Given(p) ELSE IF t = q THEN Given(q) ELSE {}
        BY DEF Sane
      <3>2. CASE t # r \/ dst = 0
        <4>1. c[t] = has.copies[t]
          BY <2>2, <3>2
        <4> QED BY <3>1, <4>1
      <3>3. CASE t = r /\ dst # 0
        <4>1. c[t] = has.copies[t] \cup {i}
          BY <2>2, <3>3
        <4>2. i \in Given(r)
          BY <1>2, <3>3
        <4>3. Given(r) = IF t = p THEN Given(p) ELSE IF t = q THEN Given(q) ELSE {}
          BY <3>3
        <4> QED BY <3>1, <4>1, <4>2, <4>3
      <3> QED BY <3>2, <3>3
    <2>7. ASSUME NEW t \in Players PROVE Within(Holds(o, t))
      <3>1. Within(Holds(has.owner, t)) /\ Holds(has.owner, t) \subseteq Items
        BY DEF Sane, Holds
      <3>2. CASE t # r
        <4>1. Holds(o, t) \subseteq Holds(has.owner, t)
          BY <2>4, <3>2 DEF Holds
        <4> QED BY <3>1, <4>1, LessWithin
      <3>3. CASE t = r
        <4>1. CanTakeMoreSimilarItems(has, t, i)
          BY <1>2, <3>3 DEF CanStoreItem
        <4>2. \A K \in Limits : i \in K =>
                Cardinality((Holds(has.owner, t) \ {i}) \cap K) < MaxCount[K]
          <5>1. has.copies[t] \subseteq Items
            BY <2>2
          <5> DEFINE h == has.owner
          <5>2. h = has.owner
            OBVIOUS
          <5> HIDE DEF h
          <5>3. \A K \in Limits : i \in K =>
                  Cardinality((Holds(h, t) \ {i}) \cap K) < MaxCount[K]
            BY <2>2, <4>1, <5>1, <5>2, CountedAtLeast
          <5> QED BY <5>2, <5>3
        <4>3. Holds(o, t) = Holds(has.owner, t) \cup {i}
          BY <2>2, <2>4, <3>3 DEF Holds
        <4> QED BY <2>2, <3>1, <4>2, <4>3, OneMore
      <3> QED BY <3>2, <3>3
    <2> HIDE DEF o, c
    <2>8. new.owner = o /\ new.copies = c /\ new = [owner |-> new.owner, copies |-> new.copies]
      OBVIOUS
    <2> HIDE DEF new
    <2>9. Sane(new, p, q)
      BY <2>3, <2>5, <2>6, <2>7, <2>8 DEF Sane
    <2> QED BY <2>1, <2>9
  <1> QED BY <1>1, <1>2

\* Whatever is exchanged, returned or lost, every pair of slots is sane.
LEMMA MovedSane ==
    ASSUME TradeOK, OneSlot, OwnerOK, LimitsKept, NEW p \in Trading, NEW q \in Trading, p # q
    PROVE  Sane(moveItems(p, q), p, q)
  <1>1. p \in Players /\ q \in Players
    BY DEF Trading
  <1>2. PICK f : Run(p, q, TradedCount, f) /\ moveItems(p, q) = f[TradedCount]
    BY MoveIs
  <1>3. TradedCount \in Nat /\ TradedCount \in 0..TradedCount
    BY TradedSlots
  <1>4. /\ f[0] = Begun(p, q)
        /\ \A s \in 1..TradedCount : f[s] = Next1(f[s - 1], p, q, s)
    BY <1>2, <1>3, RunIs
  <1>5. Sane(Begun(p, q), p, q)
    <2> DEFINE o == [i \in Items |-> IF i \in Given(p) \cup Given(q) THEN Lost ELSE owner[i]]
    <2>1. Begun(p, q).owner = o /\ Begun(p, q).copies = copies
          /\ Begun(p, q) = [owner |-> Begun(p, q).owner, copies |-> Begun(p, q).copies]
      BY DEF Begun
    <2>2. /\ o \in [Items -> Players \cup {Free, Lost}]
          /\ \A i \in Items : o[i] # owner[i] =>
                i \in Given(p) \cup Given(q) /\ o[i] \in {p, q, Lost}
          /\ \A r \in Players : Holds(o, r) \subseteq Inventory(r)
      BY TradeAssumption DEF OwnerOK, Holds, Inventory
    <2>3. ASSUME NEW r \in Players PROVE Within(Holds(o, r))
      <3>1. Within(Inventory(r)) /\ Inventory(r) \subseteq Items
        BY DEF LimitsKept, Inventory
      <3> QED BY <2>2, <3>1, LessWithin
    <2> HIDE DEF o
    <2> QED BY <2>1, <2>2, <2>3 DEF Sane, OwnerOK
  <1>6. ASSUME NEW s \in 1..TradedCount, Sane(f[s - 1], p, q)
        PROVE  Sane(f[s], p, q)
    <2> DEFINE has == f[s - 1]
               a == GetItem(p, s)
               b == GetItem(q, s)
               x == IF CanStoreItem(has, p, b, 0) /\ b # Nil THEN 1 ELSE 0
               y == IF CanStoreItem(has, q, a, 0) /\ a # Nil THEN 1 ELSE 0
    <2>1. /\ a = Nil \/ (a \in Items /\ a \in Given(p))
          /\ b = Nil \/ (b \in Items /\ b \in Given(q))
      BY Found, GivenIs, TradedSlots
    <2>2. \/ f[s] = Store(Store(has, q, a, 0), p, b, 0)
          \/ f[s] = Store(Store(has, p, a, x), q, b, y)
      BY <1>4 DEF Next1, MovePair
    <2> HIDE DEF has, a, b, x, y
    <2>3. Sane(has, p, q)
      BY <1>6 DEF has
    <2>4. Sane(Store(has, q, a, 0), p, q) /\ Sane(Store(has, p, a, x), p, q)
      BY <1>1, <2>1, <2>3, StoreSane
    <2>5. Sane(Store(Store(has, q, a, 0), p, b, 0), p, q)
      BY <1>1, <2>1, <2>4, StoreSane
    <2>6. Sane(Store(Store(has, p, a, x), q, b, y), p, q)
      BY <1>1, <2>1, <2>4, StoreSane
    <2> QED BY <2>2, <2>5, <2>6
  <1>7. \A s \in 0..TradedCount : Sane(f[s], p, q)
    <2> DEFINE T == {s \in 0..TradedCount : ~Sane(f[s], p, q)}
    <2> SUFFICES ASSUME T # {} PROVE FALSE
      OBVIOUS
    <2>1. PICK m \in T : \A y \in T : m <= y
      <3>1. T \subseteq Nat
        BY <1>3
      <3> HIDE DEF T
      <3> QED BY <3>1, LeastOf
    <2>2. m \in 0..TradedCount /\ ~Sane(f[m], p, q)
      OBVIOUS
    <2>3. m # 0
      BY <1>4, <1>5, <2>2
    <2>4. m \in 1..TradedCount /\ m - 1 \in 0..TradedCount /\ ~(m <= m - 1)
      BY <1>3, <2>2, <2>3
    <2>5. Sane(f[m - 1], p, q)
      BY <2>1, <2>4
    <2> QED BY <1>6, <2>2, <2>4, <2>5
  <1> QED BY <1>2, <1>3, <1>7

\* There is room for an item that was counted and is not yet stored.
LEMMA RoomLeft ==
    ASSUME NEW W, IsFiniteSet(W), NEW In, IsFiniteSet(In), NEW c \in Nat,
           Cardinality(W) + Cardinality(In) <= c,
           NEW x \in In, NEW P, P \subseteq W \cup (In \ {x})
    PROVE  Cardinality(P) < c
  <1> DEFINE J == In \ {x}
             w == Cardinality(W)
             n == Cardinality(In)
  <1>1. IsFiniteSet(J) /\ Cardinality(J) = n - 1 /\ n \in Nat
    BY FS_RemoveElement, FS_CardinalityType
  <1>2. w \in Nat
    BY FS_CardinalityType
  <1> HIDE DEF J
  <1>3. IsFiniteSet(W \cup J) /\ Cardinality(W \cup J) = w + Cardinality(J) - Cardinality(W \cap J)
    BY <1>1, FS_Union
  <1>4. Cardinality(W \cap J) \in Nat
    BY <1>1, FS_Intersection, FS_CardinalityType
  <1>5. Cardinality(P) <= Cardinality(W \cup J) /\ IsFiniteSet(P)
    BY <1>3, FS_Subset DEF J
  <1>6. Cardinality(P) \in Nat
    BY <1>5, FS_CardinalityType
  <1>7. Cardinality(P) <= w + (n - 1) - Cardinality(W \cap J)
    BY <1>1, <1>3, <1>5
  <1> HIDE DEF w, n
  <1>8. w + n <= c
    BY DEF w, n
  <1> QED BY <1>1, <1>2, <1>4, <1>6, <1>7, <1>8

\* So there is within a limit, where all of S may be had.
LEMMA LimitLeft ==
    ASSUME NEW S, S \subseteq Items, NEW c \in Nat, Cardinality(S) <= c,
           NEW x \in S, NEW P, P \subseteq S, x \notin P
    PROVE  Cardinality(P) < c
  <1> DEFINE R == S \ {x}
  <1>1. R \subseteq Items /\ P \subseteq R /\ P \subseteq Items
    OBVIOUS
  <1>2. IsFiniteSet(S)
    BY Finite
  <1>3. Cardinality(R) = Cardinality(S) - 1 /\ IsFiniteSet(R)
    BY <1>2, FS_RemoveElement
  <1> HIDE DEF R
  <1>4. Cardinality(P) <= Cardinality(R)
    BY <1>1, <1>3, FS_Subset
  <1>5. Cardinality(S) \in Nat /\ Cardinality(P) \in Nat
    BY <1>1, Finite
  <1> QED BY <1>3, <1>4, <1>5

\* May both have what they get?
MayHave(r, In, Out) == Within((Inventory(r) \ Out) \cup In)

Swapped(p, q) ==
    [i \in Items |-> IF i \in Given(p) THEN q ELSE IF i \in Given(q) THEN p ELSE owner[i]]

\* Where everything is after the first s slots.
PutOwner(p, q, s) ==
    [i \in Items |->
        IF \E t \in 1..s : GetItem(p, t) = i THEN q
        ELSE IF \E t \in 1..s : GetItem(q, t) = i THEN p
        ELSE IF i \in Given(p) \cup Given(q) THEN Lost ELSE owner[i]]

Put(p, q, s) == [owner |-> PutOwner(p, q, s), copies |-> copies]

\* q can store the item of p's next slot.
LEMMA HasRoom ==
    ASSUME TradeOK, OneSlot, NoCopies, NEW p \in Trading, NEW q \in Trading, p # q,
           Cardinality(Inventory(q) \ Given(q)) + Cardinality(copies[q])
             + Cardinality(Given(p)) <= Capacity[q],
           MayHave(q, Given(p), Given(q)),
           NEW s \in 1..TradedCount,
           NEW has, has.copies = copies,
           \A j \in Items : has.owner[j] = q =>
               \/ j \in Inventory(q) \ Given(q)
               \/ \E t \in 1..(s - 1) : GetItem(p, t) = j
    PROVE  CanStoreItem(has, q, GetItem(p, s), 0)
  <1> DEFINE W == Inventory(q) \ Given(q)
             In == Given(p)
             x == GetItem(p, s)
             P == {j \in Items : has.owner[j] = q}
  <1> SUFFICES ASSUME x # Nil PROVE CanStoreItem(has, q, x, 0)
    BY DEF CanStoreItem
  <1>1. /\ IsFiniteSet(W) /\ IsFiniteSet(In)
        /\ W \subseteq Items /\ In \subseteq Items /\ q \in Players
    <2>1. q \in Players /\ Inventory(q) \subseteq Items /\ Inventory(p) \subseteq Items
      BY DEF Inventory, Trading
    <2>2. In \subseteq Items /\ W \subseteq Items
      BY <2>1, GivenIs
    <2> HIDE DEF W, In
    <2> QED BY <2>1, <2>2, Finite
  <1>2. x \in Items /\ x \in In /\ x \notin W
    <2>1. s \in Slots
      BY TradedSlots
    <2>2. x \in Items /\ owner[x] = p
      BY <2>1, Found
    <2>3. x \in In
      BY <2>2, GivenIs
    <2>4. x \notin Inventory(q)
      BY <2>2 DEF Inventory
    <2> QED BY <2>2, <2>3, <2>4
  <1>3. ASSUME NEW j \in P PROVE j \in W \cup (In \ {x})
    <2>1. CASE \E t \in 1..(s - 1) : GetItem(p, t) = j
      <3>1. PICK t \in 1..(s - 1) : GetItem(p, t) = j
        BY <2>1
      <3>2. t \in 1..TradedCount /\ t # s /\ s \in Slots /\ t \in Slots
        BY TradedSlots
      <3>3. j \in In
        BY <3>1, <3>2, GivenIs
      <3>4. j # x
        BY <3>1, <3>2, Found
      <3> QED BY <3>3, <3>4
    <2> QED BY <2>1
  <1>4. P \subseteq W \cup (In \ {x}) /\ P \subseteq Items
    BY <1>3
  <1>5. copies[q] = {} /\ Cardinality(copies[q]) = 0
    BY FS_EmptySet DEF NoCopies
  <1>6. Capacity[q] \in Nat
    BY <1>1, TradeAssumption
  <1>7. Cardinality(W) \in Nat /\ Cardinality(In) \in Nat /\ Cardinality(P) \in Nat
    BY <1>1, <1>4, Finite
  <1>8. Cardinality(W) + Cardinality(In) <= Capacity[q]
    <2>1. Cardinality(W) + 0 + Cardinality(In) <= Capacity[q]
      BY <1>5
    <2> HIDE DEF W, In
    <2> QED BY <1>7, <2>1
  <1>9. Within(W \cup In)
    BY DEF MayHave
  <1> HIDE DEF W, In, x
  <1>10. Cardinality(P) < Capacity[q]
    BY <1>1, <1>2, <1>4, <1>6, <1>8, RoomLeft
  <1>11. Cardinality(P) + Cardinality(has.copies[q]) + 0 < Capacity[q]
    BY <1>5, <1>6, <1>7, <1>10
  <1>12. ASSUME NEW K \in Limits, x \in K
         PROVE  Cardinality({j \in K \ {x} : has.owner[j] = q})
                  + Cardinality(has.copies[q] \cap K) < MaxCount[K]
    <2> DEFINE A == {j \in K \ {x} : has.owner[j] = q}
    <2>1. K \subseteq Items /\ MaxCount[K] \in Nat
      BY TradeAssumption
    <2> DEFINE S == (W \cup In) \cap K
    <2>2. Cardinality(S) <= MaxCount[K]
      BY <1>9 DEF Within
    <2>3. A \subseteq S /\ x \notin A /\ x \in S /\ A \subseteq Items /\ S \subseteq Items
      BY <1>2, <1>4, <1>12, <2>1
    <2> HIDE DEF A, S
    <2>4. Cardinality(A) < MaxCount[K]
      BY <2>1, <2>2, <2>3, LimitLeft
    <2>5. has.copies[q] \cap K = {} /\ Cardinality(has.copies[q] \cap K) = 0
      BY <1>5, FS_EmptySet
    <2>6. Cardinality(A) \in Nat
      BY <2>3, Finite
    <2>7. Cardinality(A) + Cardinality(has.copies[q] \cap K) < MaxCount[K]
      <3>1. Cardinality(A) + 0 < MaxCount[K]
        BY <2>1, <2>4, <2>6
      <3> QED BY <2>5, <3>1
    <2> QED BY <2>7 DEF A
  <1>13. CanTakeMoreSimilarItems(has, q, x)
    BY <1>12 DEF CanTakeMoreSimilarItems
  <1> QED BY <1>11, <1>13 DEF CanStoreItem

\* A pair of slots is exchanged: both items fit, and still do after the first
\* of them is stored.
LEMMA PutStep ==
    ASSUME TradeOK, OneSlot, OwnerOK, NoCopies, NEW p \in Trading, NEW q \in Trading, p # q,
           CanStoreItems(p, q), MayHave(q, Given(p), Given(q)), MayHave(p, Given(q), Given(p)),
           NEW s \in 1..TradedCount
    PROVE  Next1(Put(p, q, s - 1), p, q, s) = Put(p, q, s)
  <1> DEFINE has == Put(p, q, s - 1)
             o == PutOwner(p, q, s - 1)
             a == GetItem(p, s)
             b == GetItem(q, s)
             has1 == Store(has, q, a, 0)
             o1 == [i \in Items |-> IF i = a THEN q ELSE o[i]]
  <1>1. /\ p \in Players /\ q \in Players /\ p # Lost /\ q # Lost
        /\ s - 1 \in Nat /\ s \in Nat /\ s \in Slots /\ s - 1 < s
        /\ 1..(s - 1) \subseteq 1..TradedCount /\ 1..(s - 1) \subseteq Slots
        /\ 1..s = 1..(s - 1) \cup {s} /\ s \notin 1..(s - 1)
    BY TradeAssumption, TradedSlots DEF Trading
  <1>2. /\ Cardinality(Inventory(q) \ Given(q)) + Cardinality(copies[q])
             + Cardinality(Given(p)) <= Capacity[q]
        /\ Cardinality(Inventory(p) \ Given(p)) + Cardinality(copies[p])
             + Cardinality(Given(q)) <= Capacity[p]
    BY DEF CanStoreItems, CanStoreAll
  <1>3. /\ a # Nil => a \in Items /\ owner[a] = p /\ a \in Given(p)
        /\ b # Nil => b \in Items /\ owner[b] = q /\ b \in Given(q)
        /\ a # Nil => \A t \in 1..(s - 1) : GetItem(p, t) # a
        /\ b # Nil => \A t \in 1..(s - 1) : GetItem(q, t) # b
    BY <1>1, Found, GivenIs
  <1>4. \A i \in Items : \A t \in 1..TradedCount :
          /\ GetItem(p, t) = i => owner[i] = p /\ i \in Given(p)
          /\ GetItem(q, t) = i => owner[i] = q /\ i \in Given(q)
    <2>1. \A i \in Items : i # Nil
      BY TradeAssumption
    <2> QED BY <2>1, Found, GivenIs, TradedSlots
  <1>5. \A j \in Items : owner[j] = p => j \notin Given(q)
    BY GivenIs DEF Inventory
  <1>6. \A j \in Items : owner[j] = q => j \notin Given(p)
    BY GivenIs DEF Inventory
  <1>7. ASSUME NEW j \in Items, o[j] = q
        PROVE  \/ j \in Inventory(q) \ Given(q)
               \/ \E t \in 1..(s - 1) : GetItem(p, t) = j
    BY <1>1, <1>7 DEF PutOwner, Inventory
  <1>8. ASSUME NEW j \in Items, o[j] = p
        PROVE  \/ j \in Inventory(p) \ Given(p)
               \/ \E t \in 1..(s - 1) : GetItem(q, t) = j
    BY <1>1, <1>8 DEF PutOwner, Inventory
  <1>9. has.owner = o /\ has.copies = copies /\ has = [owner |-> o, copies |-> copies]
    BY DEF Put
  <1>10. a # Nil => o[a] = Lost
    BY <1>1, <1>3, <1>4 DEF PutOwner
  <1>11. o = [i \in Items |-> o[i]]
    BY DEF PutOwner
  <1> HIDE DEF has, o
  <1>12. CanStoreItem(has, q, a, 0)
    BY <1>2, <1>7, <1>9, HasRoom
  <1>13. CanStoreItem(has, p, b, 0)
    BY <1>2, <1>8, <1>9, HasRoom
  <1>14. copies = [copies EXCEPT ![q] = @] /\ copies = [copies EXCEPT ![p] = @]
    BY <1>1 DEF OwnerOK
  <1> HIDE DEF a, b
  <1>15. has1 = [owner |-> o1, copies |-> copies]
    <2>1. CASE a = Nil
      <3>1. o1 = o
        BY <1>11, <2>1, TradeAssumption
      <3> QED BY <1>9, <2>1, <3>1 DEF Store
    <2>2. CASE a # Nil
      <3>1. [o EXCEPT ![a] = q] = o1
        BY <1>3, <1>11, <2>2
      <3> HIDE DEF o1
      <3> QED BY <1>9, <1>12, <1>14, <2>2, <3>1 DEF Store
    <2> QED BY <2>1, <2>2
  <1>16. has1.owner = o1 /\ has1.copies = copies
    BY <1>15
  <1>17. CanStoreItem(has1, p, b, 0)
    <2>1. \A j \in Items : o1[j] = p => o[j] = p
      BY <1>1
    <2> HIDE DEF has1, o1
    <2> QED BY <1>2, <1>8, <1>16, <2>1, HasRoom DEF b
  <1> DEFINE o2 == [i \in Items |-> IF i = b THEN p ELSE o1[i]]
  <1> HIDE DEF has1
  <1>18. Store(has1, p, b, 0) = [owner |-> o2, copies |-> copies]
    <2>1. CASE b = Nil
      <3>1. o2 = o1
        BY <2>1, TradeAssumption
      <3> QED BY <1>15, <2>1, <3>1 DEF Store
    <2>2. CASE b # Nil
      <3>1. [o1 EXCEPT ![b] = p] = o2
        BY <1>3, <2>2
      <3> HIDE DEF o1, o2
      <3> QED BY <1>16, <1>17, <1>14, <2>2, <3>1 DEF Store
    <2> QED BY <2>1, <2>2
  <1>19. Next1(has, p, q, s) = Store(has1, p, b, 0)
    BY <1>12, <1>13 DEF Next1, MovePair, a, b, has1
  <1>20. ASSUME NEW i \in Items
         PROVE  o2[i] = PutOwner(p, q, s)[i]
    <2>0. o2[i] = IF i = b THEN p ELSE IF i = a THEN q ELSE o[i]
      OBVIOUS
    <2> HIDE DEF o1, o2
    <2>1. CASE i = b
      <3>1. owner[i] = q /\ b # Nil
        BY <1>3, <2>1, TradeAssumption
      <3>2. ~ \E t \in 1..s : GetItem(p, t) = i
        BY <1>1, <1>4, <3>1, TradedSlots
      <3>3. s \in 1..s /\ GetItem(q, s) = i
        BY <1>1, <2>1 DEF b
      <3> QED BY <2>0, <2>1, <3>2, <3>3 DEF PutOwner
    <2>2. CASE i # b /\ i = a
      <3>1. s \in 1..s /\ GetItem(p, s) = i
        BY <1>1, <2>2 DEF a
      <3> QED BY <2>0, <2>2, <3>1 DEF PutOwner
    <2>3. CASE i # b /\ i # a
      <3>1. /\ (\E t \in 1..s : GetItem(p, t) = i) <=> (\E t \in 1..(s - 1) : GetItem(p, t) = i)
            /\ (\E t \in 1..s : GetItem(q, t) = i) <=> (\E t \in 1..(s - 1) : GetItem(q, t) = i)
        BY <1>1, <2>3 DEF a, b
      <3> QED BY <2>0, <2>3, <3>1 DEF PutOwner, o
    <2> QED BY <2>1, <2>2, <2>3
  <1>21. o2 = PutOwner(p, q, s)
    <2>1. PutOwner(p, q, s) = [i \in Items |-> PutOwner(p, q, s)[i]]
      BY DEF PutOwner
    <2>2. o2 = [i \in Items |-> o2[i]]
      OBVIOUS
    <2> HIDE DEF o2
    <2> QED BY <1>20, <2>1, <2>2
  <1> HIDE DEF o2
  <1> QED BY <1>18, <1>19, <1>21 DEF Put, has

\* Where both may have what they get, moveItems is the exchange of what both
\* sides give.
LEMMA Exchanged ==
    ASSUME TradeOK, OneSlot, OwnerOK, NoCopies, NEW p \in Trading, NEW q \in Trading, p # q,
           CanStoreItems(p, q), MayHave(q, Given(p), Given(q)), MayHave(p, Given(q), Given(p))
    PROVE  moveItems(p, q).owner = Swapped(p, q) /\ moveItems(p, q).copies = copies
  <1> DEFINE N == TradedCount
  <1>1. PICK f : Run(p, q, N, f) /\ moveItems(p, q) = f[N]
    BY MoveIs
  <1>2. N \in Nat /\ N \in 0..N
    BY TradedSlots
  <1>3. f[0] = Begun(p, q) /\ \A s \in 1..N : f[s] = Next1(f[s - 1], p, q, s)
    BY <1>1, <1>2, RunIs
  <1>4. Put(p, q, 0) = Begun(p, q)
    <2>1. 1..0 = {}
      OBVIOUS
    <2> QED BY <2>1 DEF Put, PutOwner, Begun
  <1>5. \A s \in 1..N : Put(p, q, s) = Next1(Put(p, q, s - 1), p, q, s)
    BY PutStep
  <1>6. \A s \in 0..N : f[s] = Put(p, q, s)
    <2> DEFINE T == {s \in 0..N : f[s] # Put(p, q, s)}
    <2> SUFFICES ASSUME T # {} PROVE FALSE
      OBVIOUS
    <2>1. PICK m \in T : \A y \in T : m <= y
      <3>1. T \subseteq Nat
        BY <1>2
      <3> HIDE DEF T
      <3> QED BY <3>1, LeastOf
    <2>2. m \in 0..N /\ f[m] # Put(p, q, m)
      OBVIOUS
    <2>3. m # 0
      BY <1>3, <1>4, <2>2
    <2>4. m \in 1..N /\ m - 1 \in 0..N /\ ~(m <= m - 1)
      BY <1>2, <2>2, <2>3
    <2>5. f[m - 1] = Put(p, q, m - 1)
      BY <2>1, <2>4
    <2> QED BY <1>3, <1>5, <2>2, <2>4, <2>5
  <1>7. moveItems(p, q) = Put(p, q, N)
    BY <1>1, <1>2, <1>6
  <1>8. \A i \in Items :
          /\ i \in Given(p) <=> \E t \in 1..N : GetItem(p, t) = i
          /\ i \in Given(q) <=> \E t \in 1..N : GetItem(q, t) = i
    BY GivenIs
  <1>9. PutOwner(p, q, N) = Swapped(p, q)
    BY <1>8 DEF PutOwner, Swapped
  <1> QED BY <1>7, <1>9 DEF Put

\* What is on the slots of those who go on trading.
LEMMA OneSlotKept ==
    ASSUME TradeOK, Mutual, OneSlot, NEW p \in Players, Handler(p)
    PROVE  OneSlot'
  <1> DEFINE q == Partner(p)
             Kept == \A r \in Trading' : r \in Trading /\ trade'[r].items = trade[r].items
  <1>1. ASSUME Kept PROVE OneSlot'
    BY <1>1 DEF OneSlot
  <1>2. ASSUME p \in Trading
        PROVE  /\ q \in Players /\ q # p /\ trade[p] \in TradeData
               /\ trade[q] \in TradeData /\ q \in Trading
               /\ Partner(q) = p
    BY <1>2, Sides DEF Partner
  <1>3. ASSUME NEW c \in Trading, NEW data \in TradeData, data.items = trade[c].items,
               Reoffered(c, data)
        PROVE  Kept
    <2>1. /\ c \in Players /\ Partner(c) \in Players /\ Partner(c) # c
          /\ Partner(c) \in Trading /\ trade[Partner(c)] \in TradeData
      BY Sides
    <2>2. /\ trade'[c] = [data EXCEPT !.accepted = FALSE]
          /\ trade'[Partner(c)] = [trade[Partner(c)] EXCEPT !.accepted = FALSE]
          /\ \A r \in Players \ {c, Partner(c)} : trade'[r] = trade[r]
      BY <1>3, <2>1 DEF Reoffered, TradeOK
    <2>3. /\ trade'[c].items = trade[c].items
          /\ trade'[Partner(c)].items = trade[Partner(c)].items
      BY <1>3, <2>1, <2>2 DEF TradeData
    <2> QED BY <2>1, <2>2, <2>3 DEF Trading
  <1>4. ASSUME p \in Trading, NEW x \in BOOLEAN, NEW y \in BOOLEAN,
               \/ trade' = [trade EXCEPT ![p].accepted = x, ![q].accepted = y]
               \/ trade' = [trade EXCEPT ![p].accepted = x]
               \/ trade' = [trade EXCEPT ![p].accepted = x, ![p].accepted = y]
        PROVE  Kept
    <2>1. /\ trade'[p].items = trade[p].items /\ trade'[q].items = trade[q].items
          /\ \A r \in Players \ {p, q} : trade'[r] = trade[r]
      BY <1>2, <1>4 DEF TradeOK, TradeData
    <2> QED BY <1>2, <1>4, <2>1 DEF Trading
  <1>5. ASSUME p \in Trading, trade' = [trade EXCEPT ![p] = Nil, ![q] = Nil]
        PROVE  Kept
    BY <1>2, <1>5 DEF TradeOK, Trading
  <1>6. ASSUME p \in Trading, NEW s \in Slots, NEW i \in Items \cup {Nil}, SetItem(p, s, i),
               i = Nil \/ \A t \in Slots : trade[p].items[t] # i
        PROVE  OneSlot'
    <2>1. /\ trade'[p] = [trade[p] EXCEPT !.items[s] = i, !.spell = FALSE, !.accepted = FALSE]
          /\ trade'[q] = [trade[q] EXCEPT !.accepted = FALSE,
                                          !.spell = s # NonTraded /\ trade[q].spell]
          /\ \A r \in Players \ {p, q} : trade'[r] = trade[r]
      BY <1>2, <1>6, Zenon DEF SetItem, TradeOK
    <2>2. /\ trade'[p].items = [trade[p].items EXCEPT ![s] = i]
          /\ trade'[q].items = trade[q].items
          /\ trade[p].items \in [Slots -> Items \cup {Nil}]
      BY <1>2, <1>6, <2>1 DEF TradeData
    <2>3. ASSUME NEW r \in Trading', r # p
          PROVE  r \in Trading /\ trade'[r].items = trade[r].items
      BY <1>2, <1>6, <2>1, <2>2, <2>3 DEF Trading
    <2>4. ASSUME NEW t \in Slots, NEW u \in Slots, trade'[p].items[t] = trade'[p].items[u],
                 trade'[p].items[t] # Nil
          PROVE  t = u
      BY <1>6, <2>2, <2>4 DEF OneSlot
    <2> QED BY <2>3, <2>4 DEF OneSlot
  <1>7. ASSUME NEW r \in Players, HandleInitiateTrade(p, r) PROVE OneSlot'
    <2> DEFINE new(t) == [trader |-> t, accepted |-> FALSE, money |-> 0,
                          spell |-> FALSE, items |-> [s \in Slots |-> Nil]]
    <2>1. /\ p # r /\ trade[p] = Nil /\ trade[r] = Nil
          /\ trade' = [trade EXCEPT ![p] = new(r), ![r] = new(p)]
      BY <1>7 DEF HandleInitiateTrade
    <2>2. /\ trade'[p] = new(r) /\ trade'[r] = new(p)
          /\ \A t \in Players \ {p, r} : trade'[t] = trade[t]
      BY <2>1 DEF TradeOK
    <2>3. \A s \in Slots : trade'[p].items[s] = Nil /\ trade'[r].items[s] = Nil
      BY <2>2
    <2> QED BY <2>2, <2>3 DEF OneSlot, Trading
  <1>8. ASSUME NEW c \in Coins, HandleSetTradeGold(p, c) PROVE OneSlot'
    <2>1. p \in Trading /\ Reoffered(p, [trade[p] EXCEPT !.money = c])
      BY <1>8 DEF HandleSetTradeGold
    <2>2. /\ [trade[p] EXCEPT !.money = c] \in TradeData
          /\ [trade[p] EXCEPT !.money = c].items = trade[p].items
      BY <1>2, <2>1 DEF TradeData
    <2> QED BY <1>1, <1>3, <2>1, <2>2
  <1>9. ASSUME NEW s \in Slots, NEW i \in Items, HandleSetTradeItem(p, s, i) PROVE OneSlot'
    BY <1>6, <1>9 DEF HandleSetTradeItem
  <1>10. ASSUME NEW s \in Slots, HandleClearTradeItem(p, s) PROVE OneSlot'
    BY <1>6, <1>10 DEF HandleClearTradeItem
  <1>11. CASE CastOnTradeItem(p)
    <2>1. p \in Trading /\ Reoffered(p, [trade[p] EXCEPT !.spell = TRUE])
      BY <1>11 DEF CastOnTradeItem
    <2>2. /\ [trade[p] EXCEPT !.spell = TRUE] \in TradeData
          /\ [trade[p] EXCEPT !.spell = TRUE].items = trade[p].items
      BY <1>2, <2>1 DEF TradeData
    <2> QED BY <1>1, <1>3, <2>1, <2>2
  <1>12. CASE HandleUnacceptTrade(p)
    BY <1>1, <1>4, <1>12 DEF HandleUnacceptTrade
  <1>13. CASE AcceptRefused(p)
    <2>1. p \in Trading
      BY <1>13 DEF AcceptRefused
    <2>2. AcceptFails(p) \subseteq {p, q, Nil}
      BY DEF AcceptFails
    <2>3. PICK r \in {p, q} :
            trade' = [trade EXCEPT ![p].accepted = TRUE, ![r].accepted = FALSE]
      BY <1>13, <2>2 DEF AcceptRefused
    <2> QED BY <1>1, <1>4, <2>1, <2>3
  <1>14. CASE AcceptFirst(p)
    BY <1>1, <1>4, <1>14 DEF AcceptFirst
  <1>15. CASE SpellFails(p)
    <2>1. p \in Trading
      BY <1>15 DEF SpellFails, BothAccept
    <2>2. PICK c \in {p, q} : Reoffered(c, [trade[c] EXCEPT !.spell = FALSE])
      BY <1>15 DEF SpellFails
    <2>3. /\ c \in Trading /\ [trade[c] EXCEPT !.spell = FALSE] \in TradeData
          /\ [trade[c] EXCEPT !.spell = FALSE].items = trade[c].items
      BY <1>2, <2>1, <2>2 DEF TradeData
    <2> QED BY <1>1, <1>3, <2>2, <2>3
  <1>16. CASE NoSpace(p)
    BY <1>1, <1>4, <1>16 DEF NoSpace, BothAccept
  <1>17. CASE Complete(p)
    BY <1>1, <1>5, <1>17 DEF Complete, BothAccept
  <1> QED
    BY <1>5, <1>1, <1>7, <1>8, <1>9, <1>10, <1>11, <1>12, <1>13, <1>14, <1>15, <1>16, <1>17
    DEF Handler, TradeCancel

\* Who begins to trade brings no copies, and who has traded is not trading.
LEMMA NewcomersEmpty ==
    ASSUME TradeOK, Mutual, NoCopies, NEW p \in Players, Handler(p)
    PROVE  \A r \in Trading' : r \in Trading \/ copies[r] = {}
  <1>1. ASSUME NEW q \in Players, HandleInitiateTrade(p, q)
        PROVE  \A r \in Trading' : r \in Trading \/ copies[r] = {}
    BY <1>1 DEF HandleInitiateTrade, Trading, TradeOK
  <1>2. ASSUME p \notin Trading
        PROVE  \E q \in Players : HandleInitiateTrade(p, q)
    BY <1>2 DEF Handler, TradeCancel, HandleSetTradeGold, HandleSetTradeItem,
                HandleClearTradeItem, CastOnTradeItem, HandleUnacceptTrade,
                AcceptRefused, AcceptFirst, SpellFails, NoSpace, BothAccept, Complete
  <1>3. ASSUME p \in Trading
        PROVE  Trading' \subseteq Trading
    <2> DEFINE q == Partner(p)
    <2>1. q \in Trading /\ Partner(q) = p /\ q \in Players
      BY <1>3, Sides DEF Partner
    <2>2. \A r \in Players \ {p, q} : trade'[r] = trade[r]
      <3>1. ~ \E r \in Players : HandleInitiateTrade(p, r)
        BY <1>3 DEF HandleInitiateTrade, Trading
      <3>2. AcceptFails(p) \subseteq {p, q, Nil}
        BY DEF AcceptFails
      <3>3. \A r \in Players \ {p, q} : \A c \in {p, q} : \A d : Reoffered(c, d) => trade'[r] = trade[r]
        BY <2>1 DEF Reoffered, TradeOK
      <3>4. \A r \in Players \ {p, q} : \A s, i : SetItem(p, s, i) => trade'[r] = trade[r]
        BY <2>1 DEF SetItem, TradeOK
      <3>5. ASSUME AcceptRefused(p), NEW r \in Players \ {p, q} PROVE trade'[r] = trade[r]
        BY <3>2, <3>5 DEF AcceptRefused, TradeOK
      <3> HIDE DEF q
      <3>6. ASSUME NEW r \in Players \ {p, q},
                   TradeCancel(p) \/ HandleUnacceptTrade(p) \/ AcceptFirst(p) \/ NoSpace(p)
                     \/ Complete(p)
            PROVE  trade'[r] = trade[r]
        BY <3>6 DEF TradeCancel, HandleUnacceptTrade, AcceptFirst, NoSpace, Complete, TradeOK, q
      <3>7. ASSUME SpellFails(p), NEW r \in Players \ {p, q} PROVE trade'[r] = trade[r]
        BY <3>3, <3>7 DEF SpellFails, q
      <3> QED BY <3>1, <3>3, <3>4, <3>5, <3>6, <3>7
          DEF Handler, HandleSetTradeGold, HandleSetTradeItem, HandleClearTradeItem, CastOnTradeItem
    <2> QED BY <1>3, <2>1, <2>2 DEF Trading
  <1> QED BY <1>1, <1>2, <1>3

LEMMA CompletedLeave ==
    ASSUME TradeOK, Mutual, OwnerOK, OneSlot, LimitsKept, NoCopies,
           NEW p \in Players, Complete(p)
    PROVE  NoCopies'
  <1> DEFINE q == Partner(p)
  <1>1. p \in Trading
    BY DEF Complete, BothAccept
  <1>2. q \in Trading /\ q \in Players /\ p # q
    BY <1>1, Sides
  <1>3. /\ trade'[p] = Nil /\ trade'[q] = Nil
        /\ \A r \in Players \ {p, q} : trade'[r] = trade[r]
    BY <1>2 DEF Complete, TradeOK
  <1>4. Sane(moveItems(p, q), p, q) /\ copies' = moveItems(p, q).copies
    BY <1>1, <1>2, MovedSane DEF Complete
  <1> HIDE DEF q
  <1>5. \A r \in Players \ {p, q} : copies'[r] \subseteq copies[r]
    BY <1>4 DEF Sane
  <1> QED BY <1>3, <1>5 DEF NoCopies, Trading

------------------------------------------------------------------------------
\* The deals.

\* Who has accepted has something to remember, and a deal.
LEMMA Remembered ==
    ASSUME IInv, NEW r \in Trading, trade[r].accepted
    PROVE  /\ seen[r] = <<Offer(r), Offer(Partner(r))>> /\ seen[r] # Nil
           /\ Agreed[r] = [with |-> Partner(r), gives |-> Terms(Offer(r)),
                           gets |-> Terms(Offer(Partner(r)))]
           /\ Agreed[r] # Nil
  <1> DEFINE q == Partner(r)
             a == Terms(Offer(r))
             b == Terms(Offer(q))
  <1>1. TradeOK /\ Mutual /\ seen[r] = <<Offer(r), Offer(q)>>
    BY DEF IInv, AcceptedAsSeen
  <1>2. /\ r \in Players /\ q \in Players
        /\ trade[r] \in TradeData /\ trade[q] \in TradeData
    BY <1>1, Sides
  <1>3. Offer(r) \in Offers /\ Offer(q) \in Offers
    BY <1>2 DEF Offer, Offers, TradeData
  <1>4. seen[r] # Nil
    <2>1. <<Offer(r), Offer(q)>> \in Offers \X Offers
      BY <1>3
    <2> QED BY <1>1, <2>1, TradeAssumption
  <1>5. ASSUME NEW o \in Offers PROVE Terms(o) \in Bargains
    <2>1. o.money \in Coins /\ o.items \in [Slots -> Items \cup {Nil}]
      BY DEF Offers
    <2>2. Traded \subseteq Slots
      BY DEF Slots
    <2>3. {o.items[s] : s \in Traded} \ {Nil} \subseteq Items
      BY <2>1, <2>2
    <2> QED BY <2>1, <2>3 DEF Terms, Bargains
  <1>6. a \in Bargains /\ b \in Bargains
    BY <1>3, <1>5
  <1>7. seen[r][1] = Offer(r) /\ seen[r][2] = Offer(q)
    BY <1>1
  <1>8. Agreed[r] = [with |-> q, gives |-> a, gets |-> b]
    BY <1>2, <1>4, <1>7 DEF Agreed
  <1> HIDE DEF q, a, b
  <1>9. [with |-> q, gives |-> a, gets |-> b] \in Deals
    BY <1>2, <1>6 DEF Deals
  <1> QED BY <1>1, <1>4, <1>8, <1>9, TradeAssumption DEF q, a, b

\* The deal of a player whose trade is left alone.
LEMMA DealKept ==
    ASSUME IInv, Remember, NEW r \in Players, trade'[r] = trade[r]
    PROVE  Agreed'[r] = Agreed[r]
  <1>1. seen'[r] = IF trade'[r] = Nil \/ ~trade'[r].accepted THEN Nil
                   ELSE IF seen[r] # Nil THEN seen[r] ELSE <<Offer(r), Offer(Partner(r))>>
    BY DEF Remember
  <1>2. seen'[r] = seen[r]
    <2>1. CASE trade[r] = Nil \/ ~trade[r].accepted
      BY <1>1, <2>1 DEF IInv, Forgotten
    <2>2. CASE trade[r] # Nil /\ trade[r].accepted
      <3>1. seen[r] # Nil
        BY <2>2, Remembered DEF Trading
      <3> QED BY <1>1, <2>2, <3>1
    <2> QED BY <2>1, <2>2
  <1> QED BY <1>2 DEF Agreed, Partner

\* What stands of a deal is the deal.
LEMMA DealStands ==
    ASSUME IInv, Remember, Standing, NEW r \in Players
    PROVE  Agreed[r] = Nil \/ Agreed'[r] \in {Agreed[r], Nil}
  <1> SUFFICES ASSUME Agreed[r] # Nil, Agreed'[r] # Nil PROVE Agreed'[r] = Agreed[r]
    OBVIOUS
  <1>1. seen[r] # Nil /\ seen'[r] # Nil
    BY DEF Agreed
  <1>2. trade'[r] # Nil /\ trade'[r].accepted /\ seen'[r] = seen[r]
    BY <1>1 DEF Remember
  <1>3. trade'[r].trader = trade[r].trader
    BY <1>2 DEF Standing, Trading
  <1> QED BY <1>1, <1>2, <1>3 DEF Agreed, Partner

\* The goods of an offer that are still the player's are what he gives.
LEMMA StillThere ==
    ASSUME TradeOK, NEW r \in Trading
    PROVE  {i \in Terms(Offer(r)).goods : owner[i] = r} = Given(r)
  <1>1. Terms(Offer(r)).goods = {trade[r].items[s] : s \in Traded} \ {Nil}
    BY DEF Terms, Offer
  <1> QED BY <1>1 DEF Given, GetItem

ItemsInv == OwnerOK /\ OneSlot /\ NoCopies /\ LimitsKept

\* A completed trade is the deal of the player who accepted first.
LEMMA CompleteStep ==
    ASSUME IInv, MoneyOK, ItemsInv, Remember, NEW p \in Players, Complete(p)
    PROVE  OwnerOK' /\ LimitsKept' /\ Abstract!Step
  <1> DEFINE q == Partner(p)
             m == trade[p].money
             n == trade[q].money
             new == moveItems(p, q)
  <1>1. TradeOK /\ Mutual /\ OwnerOK /\ OneSlot /\ NoCopies /\ LimitsKept
    BY DEF IInv, ItemsInv
  <1>2. /\ p \in Trading /\ Nil \in AcceptFails(p) /\ CanStoreItems(p, q)
        /\ trade[q].accepted
    BY DEF Complete, BothAccept
  <1>3. q \in Players /\ p # q /\ q \in Trading /\ Partner(q) = p
    BY <1>1, <1>2, Sides DEF Partner
  <1>4. /\ m \in 0..money[p] /\ n \in 0..money[q]
        /\ money' = [money EXCEPT ![p] = @ - m + n, ![q] = @ - n + m]
    BY <1>1, <1>2, PaidExactly DEF Complete
  <1>5. /\ Agreed[q] = [with |-> p, gives |-> Terms(Offer(q)), gets |-> Terms(Offer(p))]
        /\ Agreed[q] # Nil
    BY <1>2, <1>3, Remembered
  <1>6. owner' = new.owner /\ copies' = new.copies
    BY DEF Complete
  <1>7. Sane(new, p, q)
    BY <1>1, <1>2, <1>3, MovedSane
  <1>8. /\ trade'[p] = Nil /\ trade'[q] = Nil
        /\ \A r \in Players \ {p, q} : trade'[r] = trade[r]
    BY <1>1, <1>3 DEF Complete, TradeOK
  <1> HIDE DEF q, m, n, new
  <1>9. OwnerOK'
    BY <1>6, <1>7 DEF Sane, OwnerOK
  <1>10. LimitsKept'
    BY <1>6, <1>7 DEF Sane, LimitsKept, Holds, Inventory
  <1>11. Agreed' = [Agreed EXCEPT ![q] = Nil, ![p] = Nil]
    <2>1. Agreed'[p] = Nil /\ Agreed'[q] = Nil
      BY <1>3, <1>8 DEF Remember, Agreed
    <2>2. \A r \in Players \ {p, q} : Agreed'[r] = Agreed[r]
      BY <1>8, DealKept
    <2>3. Agreed = [r \in Players |-> Agreed[r]] /\ Agreed' = [r \in Players |-> Agreed'[r]]
      BY DEF Agreed
    <2> QED BY <1>3, <2>1, <2>2, <2>3
  <1> DEFINE give == Agreed[q].gives
             get == Agreed[q].gets
             Out == {i \in give.goods : owner[i] = q}
             In == {i \in get.goods : owner[i] = p}
  <1>12. Out = Given(q) /\ In = Given(p) /\ Agreed[q].with = p
    BY <1>1, <1>2, <1>3, <1>5, StillThere
  <1>13. give.coins = n /\ get.coins = m
    BY <1>5 DEF Terms, Offer, m, n
  <1>14. n <= money[q] /\ m <= money[p]
    BY <1>3, <1>4 DEF MoneyOK
  <1>15. money' = [money EXCEPT ![q] = @ - n + m, ![p] = @ - m + n]
    BY <1>3, <1>4 DEF MoneyOK
  <1> HIDE DEF give, get, Out, In
  <1>16. ASSUME NEW r, NEW A, NEW B, Abstract!MayHave(r, A, B)
         PROVE  MayHave(r, A, B)
    BY <1>16 DEF Abstract!MayHave, MayHave, Inventory
  <1> DEFINE May == Abstract!MayHave(q, In, Out) /\ Abstract!MayHave(p, Out, In)
  <1>17. ASSUME May
         PROVE  /\ owner' = [i \in Items |-> IF i \in Out THEN p
                                             ELSE IF i \in In THEN q ELSE owner[i]]
                /\ copies' = copies
    <2>1. MayHave(q, Given(p), Given(q)) /\ MayHave(p, Given(q), Given(p))
      BY <1>3, <1>12, <1>16, <1>17
    <2>2. new.owner = Swapped(p, q) /\ new.copies = copies
      BY <1>1, <1>2, <1>3, <2>1, Exchanged DEF new
    <2>3. \A i \in Items : ~(i \in Given(p) /\ i \in Given(q))
      <3>1. Given(p) \subseteq Inventory(p) /\ Given(q) \subseteq Inventory(q)
        BY <1>1, <1>2, <1>3, GivenIs
      <3> QED BY <1>3, <3>1 DEF Inventory
    <2> QED BY <1>6, <1>12, <2>2, <2>3 DEF Swapped
  <1>18. /\ \A i \in Items : owner'[i] # owner[i] =>
                i \in In \cup Out /\ owner'[i] \in {q, p, Lost}
         /\ \A r \in Players : copies[r] \subseteq copies'[r]
                /\ copies'[r] \ copies[r] \subseteq
                     IF r = q THEN Out ELSE IF r = p THEN In ELSE {}
    BY <1>3, <1>6, <1>7, <1>12 DEF Sane
  <1> HIDE DEF May
  <1>19. Abstract!Exchange(q, p)
    BY <1>3, <1>5, <1>11, <1>12, <1>13, <1>14, <1>15, <1>17, <1>18
    DEF Abstract!Exchange, give, get, Out, In, May
  <1>20. Abstract!Step
    BY <1>3, <1>19 DEF Abstract!Step
  <1> QED BY <1>9, <1>10, <1>20

\* Every step is one of the barter's, and keeps the items in order.
LEMMA ItemsStep ==
    ASSUME IInv, MoneyOK, ItemsInv, [Next]_vars
    PROVE  ItemsInv' /\ (Abstract!Step \/ UNCHANGED <<owner, money, copies, Agreed>>)
  <1>1. TradeOK /\ Mutual /\ OwnerOK /\ OneSlot /\ NoCopies /\ LimitsKept
    BY DEF IInv, ItemsInv
  <1>2. CASE UNCHANGED vars
    <2>1. ItemsInv'
      BY <1>1, <1>2 DEF vars, ItemsInv, OwnerOK, OneSlot, NoCopies, LimitsKept,
                        Within, Inventory, Trading
    <2>2. UNCHANGED <<owner, money, copies, Agreed>>
      BY <1>2 DEF vars, Agreed, Partner
    <2> QED BY <2>1, <2>2
  <1>3. ASSUME NEW p \in Players, Handler(p), ~Complete(p), Remember
        PROVE  ItemsInv' /\ Abstract!Step
    <2>1. UNCHANGED <<owner, money, copies>>
      BY <1>3 DEF Handler, HandleInitiateTrade, TradeCancel, HandleSetTradeGold,
                HandleSetTradeItem, HandleClearTradeItem, CastOnTradeItem,
                HandleUnacceptTrade, AcceptRefused, AcceptFirst, SpellFails,
                NoSpace, goods
    <2>2. OneSlot'
      BY <1>1, <1>3, OneSlotKept
    <2>3. NoCopies'
      BY <1>1, <1>3, <2>1, NewcomersEmpty DEF NoCopies
    <2>4. OwnerOK' /\ LimitsKept'
      BY <1>1, <2>1 DEF OwnerOK, LimitsKept, Within, Inventory
    <2>5. Standing
      BY <1>1, <1>3, HandlerStep
    <2>6. \A r \in Players : Agreed[r] = Nil \/ Agreed'[r] \in {Agreed[r], Nil}
      BY <1>3, <2>5, DealStands
    <2>7. Abstract!Haggle
      BY <2>1, <2>6 DEF Abstract!Haggle
    <2> QED BY <2>2, <2>3, <2>4, <2>7 DEF ItemsInv, Abstract!Step
  <1>4. ASSUME NEW p \in Players, Handler(p), Complete(p), Remember
        PROVE  ItemsInv' /\ Abstract!Step
    <2>1. OwnerOK' /\ LimitsKept' /\ Abstract!Step
      BY <1>4, CompleteStep
    <2>2. OneSlot'
      BY <1>1, <1>4, OneSlotKept
    <2>3. NoCopies'
      BY <1>1, <1>4, CompletedLeave
    <2> QED BY <2>1, <2>2, <2>3 DEF ItemsInv
  <1>5. ASSUME trade' = trade, Remember
        PROVE  Agreed' = Agreed /\ OneSlot'
    <2>1. \A r \in Players : Agreed'[r] = Agreed[r]
      BY <1>5, DealKept
    <2>2. Agreed = [r \in Players |-> Agreed[r]] /\ Agreed' = [r \in Players |-> Agreed'[r]]
      BY DEF Agreed
    <2>3. OneSlot'
      BY <1>1, <1>5 DEF OneSlot, Trading
    <2> QED BY <2>1, <2>2, <2>3
  <1>6. ASSUME NEW i \in Items, UseUp(i), Remember
        PROVE  ItemsInv' /\ Abstract!Step
    <2>1. /\ owner' = [owner EXCEPT ![i] = Free] /\ UNCHANGED <<money, copies>>
          /\ trade' = trade
      BY <1>6 DEF UseUp
    <2>2. OwnerOK' /\ NoCopies'
      BY <1>1, <2>1 DEF OwnerOK, NoCopies, Trading
    <2>3. ASSUME NEW r \in Players PROVE Within(Inventory(r)')
      <3>1. Inventory(r)' \subseteq Inventory(r)
        BY <1>1, <2>1, TradeAssumption DEF OwnerOK, Inventory
      <3>2. Within(Inventory(r)) /\ Inventory(r) \subseteq Items
        BY <1>1 DEF LimitsKept, Inventory
      <3> QED BY <3>1, <3>2, LessWithin
    <2>4. LimitsKept'
      BY <2>3 DEF LimitsKept, Within
    <2>5. Abstract!Elsewhere
      BY <1>5, <1>6, <2>1 DEF Abstract!Elsewhere
    <2> QED BY <1>5, <1>6, <2>1, <2>2, <2>4, <2>5 DEF ItemsInv, Abstract!Step
  <1>7. ASSUME NEW p \in Players, NEW i \in Items, UseUpCopy(p, i), Remember
        PROVE  ItemsInv' /\ Abstract!Step
    <2>1. /\ copies' = [copies EXCEPT ![p] = @ \ {i}] /\ UNCHANGED <<owner, money>>
          /\ trade' = trade
      BY <1>7 DEF UseUpCopy
    <2>2. OwnerOK' /\ NoCopies' /\ LimitsKept'
      BY <1>1, <2>1 DEF OwnerOK, NoCopies, LimitsKept, Within, Inventory, Trading
    <2>3. Abstract!Elsewhere
      BY <1>5, <1>7, <2>1 DEF Abstract!Elsewhere
    <2> QED BY <1>5, <1>7, <2>1, <2>2, <2>3 DEF ItemsInv, Abstract!Step
  <1>8. ASSUME NEW p \in Players, NEW c \in Coins, Spend(p, c), Remember
        PROVE  ItemsInv' /\ Abstract!Step
    <2>1. /\ c < money[p] /\ money' = [money EXCEPT ![p] = c]
          /\ UNCHANGED <<owner, copies>> /\ trade' = trade
      BY <1>8 DEF Spend
    <2>2. OwnerOK' /\ NoCopies' /\ LimitsKept'
      BY <1>1, <2>1 DEF OwnerOK, NoCopies, LimitsKept, Within, Inventory, Trading
    <2>3. c \in 0..money[p]
      <3>1. c \in Nat /\ money[p] \in Nat
        BY TradeAssumption DEF MoneyOK
      <3> QED BY <2>1, <3>1
    <2>4. Abstract!Elsewhere
      BY <1>5, <1>8, <2>1, <2>3 DEF Abstract!Elsewhere
    <2> QED BY <1>5, <1>8, <2>1, <2>2, <2>4 DEF ItemsInv, Abstract!Step
  <1> QED BY <1>2, <1>3, <1>4, <1>6, <1>7, <1>8 DEF Next, Others

LEMMA ItemsAlways == Spec => []ItemsInv
  <1>1. Init => ItemsInv
    <2> SUFFICES ASSUME Init PROVE ItemsInv
      OBVIOUS
    <2>1. Trading = {} /\ owner \in [Items -> Players] /\ copies = [p \in Players |-> {}]
      BY DEF Init, Trading
    <2>2. LimitsKept
      BY DEF Init, LimitsKept
    <2> QED BY <2>1, <2>2 DEF ItemsInv, OwnerOK, OneSlot, NoCopies
  <1>2. IInv /\ MoneyOK /\ ItemsInv /\ [Next]_vars => ItemsInv'
    BY ItemsStep
  <1> QED BY <1>1, <1>2, IInvAlways, MoneyAlways, PTL DEF Spec

\* Nobody is ever given more of a limited kind than he may have, although
\* CanStoreItems asks for each item alone: CanStoreItem, asked again for each
\* pair of slots with what has been stored by then, makes up for it, for every
\* number of slots and items and every system of limits.
THEOREM AlwaysLimitsKept == Spec => []LimitsKept
  <1>1. ItemsInv => LimitsKept
    BY DEF ItemsInv
  <1> QED BY <1>1, ItemsAlways, PTL

\* A trade is a barter.  A completed trade moves the coins and the goods that
\* the player who accepted first saw when he did: the coins exactly, and of
\* the goods all that are still there, in one step, unless somebody would get
\* more of a limited kind than he may have.  Then CanStoreItems has promised
\* too much: only goods of the deal may move, and to the two or nowhere.
THEOREM TradeIsBarter == Spec => BarterSpec
  <1>1. IInv /\ MoneyOK /\ ItemsInv /\ [Next]_vars
          => [Abstract!Step]_<<owner, money, copies, Agreed>>
    BY ItemsStep
  <1> QED BY <1>1, IInvAlways, MoneyAlways, ItemsAlways, PTL DEF Spec, BarterSpec, Abstract!Spec
=============================================================================
