-------------------------------- MODULE Barter --------------------------------
(***************************************************************************)
(* What a trade promises to the player who accepts it first: the deal he   *)
(* saw, or none.  Of the goods he saw, those that are still where they     *)
(* were change hands, all in one step and together with exactly the coins  *)
(* he saw.  What has been used up since is not made good: the coins are    *)
(* paid all the same.                                                      *)
(***************************************************************************)
EXTENDS Integers

CONSTANTS
    Nil, Players, Items, Free, Lost,
    Within(_)   \* may a player have all these items?

VARIABLES
    owner, money, copies,
    agreed      \* what each player has accepted and with whom, or Nil

\* May r have In, besides what he has and does not give away?
MayHave(r, In, Out) == Within(({i \in Items : owner[i] = r} \ Out) \cup In)

\* The deal p accepted, with q.
Exchange(p, q) ==
    LET give == agreed[p].gives
        get == agreed[p].gets
        Out == {i \in give.goods : owner[i] = p}
        In == {i \in get.goods : owner[i] = q}
    IN  /\ p # q /\ agreed[p] # Nil /\ agreed[p].with = q
        /\ give.coins <= money[p] /\ get.coins <= money[q]
        /\ money' = [money EXCEPT ![p] = @ - give.coins + get.coins,
                                  ![q] = @ - get.coins + give.coins]
        /\ IF MayHave(p, In, Out) /\ MayHave(q, Out, In)
           THEN /\ owner' = [i \in Items |-> IF i \in Out THEN q
                                            ELSE IF i \in In THEN p ELSE owner[i]]
                /\ copies' = copies
           ELSE \* Some of them stay or get lost, or come back twice.
                /\ \A i \in Items : owner'[i] # owner[i] =>
                        i \in In \cup Out /\ owner'[i] \in {p, q, Lost}
                /\ \A r \in Players : copies[r] \subseteq copies'[r]
                        /\ copies'[r] \ copies[r] \subseteq
                             IF r = p THEN Out ELSE IF r = q THEN In ELSE {}
        /\ agreed' = [agreed EXCEPT ![p] = Nil, ![q] = Nil]

\* A deal is accepted or given up, never changed.
Haggle ==
    /\ UNCHANGED <<owner, money, copies>>
    /\ \A p \in Players : agreed[p] = Nil \/ agreed'[p] \in {agreed[p], Nil}

\* The rest of the world: one player loses one thing, alone.
Elsewhere ==
    /\ agreed' = agreed
    /\ \/ /\ \E i \in Items : owner' = [owner EXCEPT ![i] = Free]
          /\ UNCHANGED <<money, copies>>
       \/ /\ \E p \in Players : \E c \in 0..money[p] :
               money' = [money EXCEPT ![p] = c]
          /\ UNCHANGED <<owner, copies>>
       \/ /\ \E p \in Players, i \in Items :
               copies' = [copies EXCEPT ![p] = @ \ {i}]
          /\ UNCHANGED <<owner, money>>

Step == Haggle \/ Elsewhere \/ \E p, q \in Players : Exchange(p, q)

Spec == [][Step]_<<owner, money, copies, agreed>>
=============================================================================
