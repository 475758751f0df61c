------------------------------ MODULE LuaTable ------------------------------
(***************************************************************************)
(* Arrays kept in Lua tables, as Game.lua uses them.  A table is a total   *)
(* function on 1..n whose absent entries hold Nil; assigning nil to an     *)
(* entry leaves a hole.  The length operator of Lua 5.2 returns a BORDER   *)
(* of the table, and a table with holes has several: which one is returned *)
(* depends on the sizes of the array and the hash part, which the scripts  *)
(* do not control, so the length is any border.                            *)
(***************************************************************************)
EXTENDS Integers

CONSTANT Nil

\* The indexes pairs(t) visits, in an order the language leaves open.
Used(t) == {i \in DOMAIN t : t[i] # Nil}

\* The values pairs(t) visits.
Values(t) == {t[i] : i \in Used(t)}

\* The possible results of #t: b with t[b] present (or b = 0), t[b + 1] absent.
Borders(t) == {b \in {0} \cup Used(t) : b + 1 \notin Used(t)}

\* table.insert(t, v) when #t is b: the write t[b + 1] = v.
InsertAfter(t, b, v) == [t EXCEPT ![b + 1] = v]

\* t[k] = nil for every index of K.
Erase(t, K) == [i \in DOMAIN t |-> IF i \in K THEN Nil ELSE t[i]]

\* The argument check of table.remove(t, pos) when #t is size.
RemoveInBounds(size, pos) == pos = size \/ (1 <= pos /\ pos <= size + 1)

\* table.remove(t, pos) when #t is size: the entries above pos move down.
TableRemove(t, size, pos) ==
    [i \in DOMAIN t |->
        IF pos <= i /\ i < size THEN t[i + 1]
        ELSE IF i >= pos /\ (i = size \/ i = pos) THEN Nil
        ELSE t[i]]
=============================================================================
