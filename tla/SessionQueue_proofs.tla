-------------------------- MODULE SessionQueue_proofs --------------------------
(***************************************************************************)
(* Proofs about the admission of sessions, for any number of accounts and  *)
(* sessions, any limits and any settings.                                  *)
(***************************************************************************)
EXTENDS SessionQueue, SequenceTheorems, FiniteSetTheorems, TLAPS

------------------------------------------------------------------------------
(***************************************************************************)
(* The operators on the queue.                                             *)
(***************************************************************************)

LEMMA RangeIs ==
    ASSUME NEW S, NEW q \in Seq(S), NEW x
    PROVE  x \in Range(q) <=> \E i \in 1..Len(q) : q[i] = x
  <1>1. DOMAIN q = 1..Len(q)
    BY LenProperties
  <1> QED BY <1>1 DEF Range

\* A queue with one more at its end.
LEMMA AppendedIs ==
    ASSUME NEW S, NEW q \in Seq(S), NEW p \in S
    PROVE  /\ Append(q, p) \in Seq(S) /\ Len(Append(q, p)) = Len(q) + 1
           /\ Append(q, p)[Len(q) + 1] = p /\ Len(q) \in Nat
           /\ \A i \in 1..Len(q) : Append(q, p)[i] = q[i]
           /\ Range(Append(q, p)) = Range(q) \cup {p}
           /\ IsInjective(q) /\ p \notin Range(q) => IsInjective(Append(q, p))
  <1> DEFINE u == Append(q, p)
             N == Len(q)
  <1>1. /\ u \in Seq(S) /\ Len(u) = N + 1 /\ u[N + 1] = p /\ N \in Nat
        /\ \A i \in 1..N : u[i] = q[i]
    OBVIOUS
  <1>2. \A x : x \in Range(q) <=> \E i \in 1..N : q[i] = x
    BY RangeIs
  <1>3. \A x : x \in Range(u) <=> \E i \in 1..Len(u) : u[i] = x
    BY <1>1, RangeIs
  <1>4. DOMAIN q = 1..N /\ DOMAIN u = 1..(N + 1)
    BY <1>1, LenProperties
  <1> HIDE DEF u, N
  <1>5. N + 1 \in 1..(N + 1) /\ \A i \in 1..(N + 1) : i \in 1..N \/ i = N + 1
    BY <1>1
  <1>6. \A i \in 1..N : i \in 1..(N + 1)
    BY <1>1
  <1>7. Range(u) = Range(q) \cup {p}
    <2>1. ASSUME NEW x \in Range(u) PROVE x \in Range(q) \cup {p}
      <3>1. PICK i \in 1..(N + 1) : u[i] = x
        BY <1>1, <1>3
      <3> QED BY <1>1, <1>2, <1>5, <3>1, Zenon
    <2>2. ASSUME NEW x \in Range(q) PROVE x \in Range(u)
      <3>1. PICK i \in 1..N : q[i] = x
        BY <1>2
      <3> QED BY <1>1, <1>3, <1>6, <3>1
    <2>3. p \in Range(u)
      BY <1>1, <1>3, <1>5
    <2> QED BY <2>1, <2>2, <2>3
  <1>8. ASSUME IsInjective(q), p \notin Range(q) PROVE IsInjective(u)
    <2>1. \A i, j \in 1..N : q[i] = q[j] => i = j
      BY <1>4, <1>8 DEF IsInjective
    <2>2. \A i \in 1..N : q[i] # p
      BY <1>2, <1>8
    <2>3. ASSUME NEW i \in 1..(N + 1), NEW j \in 1..(N + 1), u[i] = u[j] PROVE i = j
      <3>1. CASE i \in 1..N /\ j \in 1..N
        BY <1>1, <2>1, <2>3, <3>1
      <3>2. CASE i \in 1..N /\ j = N + 1
        BY <1>1, <2>2, <2>3, <3>2
      <3>3. CASE i = N + 1 /\ j \in 1..N
        BY <1>1, <2>2, <2>3, <3>3
      <3> QED BY <1>5, <3>1, <3>2, <3>3
    <2> QED BY <1>4, <2>3 DEF IsInjective
  <1> QED BY <1>1, <1>7, <1>8 DEF u, N

LEMMA RemoveAtIs ==
    ASSUME NEW S, NEW q \in Seq(S), NEW k \in 1..Len(q)
    PROVE  /\ RemoveAt(q, k) \in Seq(S)
           /\ Len(RemoveAt(q, k)) = Len(q) - 1
           /\ \A i \in 1..(Len(q) - 1) :
                RemoveAt(q, k)[i] = IF i < k THEN q[i] ELSE q[i + 1]
  <1> DEFINE a == SubSeq(q, 1, k - 1)
             b == SubSeq(q, k + 1, Len(q))
  <1>1. /\ a \in Seq(S) /\ Len(a) = k - 1
        /\ \A i \in 1..(k - 1) : a[i] = q[i]
    OBVIOUS
  <1>2. /\ b \in Seq(S) /\ Len(b) = Len(q) - k
        /\ \A i \in 1..(Len(q) - k) : b[i] = q[k + i]
    OBVIOUS
  <1> HIDE DEF a, b
  <1>3. /\ a \o b \in Seq(S) /\ Len(a \o b) = Len(a) + Len(b)
        /\ \A i \in 1..(Len(a) + Len(b)) :
             (a \o b)[i] = IF i <= Len(a) THEN a[i] ELSE b[i - Len(a)]
    BY <1>1, <1>2, ConcatProperties
  <1>4. RemoveAt(q, k) = a \o b
    BY DEF RemoveAt, a, b
  <1>5. Len(q) \in Nat
    OBVIOUS
  <1>6. ASSUME NEW i \in 1..(Len(q) - 1)
        PROVE  (a \o b)[i] = IF i < k THEN q[i] ELSE q[i + 1]
    <2>1. CASE i < k
      BY <1>1, <1>2, <1>3, <1>5, <2>1
    <2>2. CASE ~(i < k)
      <3>1. i - (k - 1) \in 1..(Len(q) - k) /\ k + (i - (k - 1)) = i + 1
        BY <1>5, <2>2
      <3>2. (a \o b)[i] = b[i - (k - 1)]
        BY <1>1, <1>2, <1>3, <1>5, <2>2
      <3>3. b[i - (k - 1)] = q[k + (i - (k - 1))]
        BY <1>2, <3>1
      <3> QED BY <2>2, <3>1, <3>2, <3>3
    <2> QED BY <2>1, <2>2
  <1> QED BY <1>1, <1>2, <1>3, <1>4, <1>5, <1>6

\* What is left of a queue: in the same order, each one once.
Rest(r, q) ==
    /\ IsInjective(r)
    /\ \A i \in 1..Len(r) : \E j \in 1..Len(q) : r[i] = q[j]
    /\ \A h, i \in 1..Len(r), j, k \in 1..Len(q) :
         r[h] = q[j] /\ r[i] = q[k] /\ j < k => h < i

\* p is erased, and nothing else.
LEMMA ErasedIs ==
    ASSUME NEW S, NEW q \in Seq(S), NEW p, IsInjective(q)
    PROVE  /\ Erased(q, p) \in Seq(S)
           /\ Rest(Erased(q, p), q)
           /\ Range(Erased(q, p)) = Range(q) \ {p}
           /\ Len(Erased(q, p)) = IF p \in Range(q) THEN Len(q) - 1 ELSE Len(q)
           /\ Erased(q, p) # <<>> =>
                \E k \in 1..Len(q) : /\ q[k] = Erased(q, p)[1]
                                     /\ \A i \in 1..(k - 1) : q[i] = p
  <1>0. Len(q) \in Nat /\ DOMAIN q = 1..Len(q)
    BY LenProperties
  <1>a. \A i, j \in 1..Len(q) : q[i] = q[j] => i = j
    BY <1>0 DEF IsInjective
  <1>1. CASE ~Contains(q, p)
    <2>1. Erased(q, p) = q
      BY <1>1 DEF Erased
    <2>2. p \notin Range(q)
      BY <1>1, RangeIs DEF Contains
    <2>3. Rest(q, q)
      BY <1>0, <1>a DEF Rest
    <2>4. q # <<>> => 1 \in 1..Len(q)
      BY <1>0, EmptySeq
    <2> QED BY <1>0, <2>1, <2>2, <2>3, <2>4
  <1>2. CASE Contains(q, p)
    <2>1. PICK k \in 1..Len(q) : q[k] = p
      BY <1>2 DEF Contains
    <2>2. \A j \in 1..(k - 1) : q[j] # p
      BY <1>0, <1>a, <2>1
    <2>3. (CHOOSE i \in 1..Len(q) : q[i] = p /\ \A j \in 1..(i - 1) : q[j] # p) = k
      BY <1>a, <2>1, <2>2
    <2> DEFINE r == RemoveAt(q, k)
    <2>4. Erased(q, p) = r
      BY <1>2, <2>3 DEF Erased
    <2>5. /\ r \in Seq(S) /\ Len(r) = Len(q) - 1
          /\ \A i \in 1..Len(r) : r[i] = IF i < k THEN q[i] ELSE q[i + 1]
      BY <1>0, RemoveAtIs
    <2> HIDE DEF r
    <2>6. DOMAIN r = 1..Len(r) /\ Len(r) \in Nat
      BY <2>5, LenProperties
    <2>7. \A i \in 1..Len(r) : \E j \in 1..Len(q) : r[i] = q[j] /\ j # k
      BY <1>0, <2>5
    <2>8. \A j \in 1..Len(q) : j # k => \E i \in 1..Len(r) : r[i] = q[j]
      <3> SUFFICES ASSUME NEW j \in 1..Len(q), j # k
                   PROVE  \E i \in 1..Len(r) : r[i] = q[j]
        OBVIOUS
      <3>1. CASE j < k
        <4>1. j \in 1..Len(r) /\ r[j] = q[j]
          BY <1>0, <2>5, <3>1
        <4> QED BY <4>1
      <3>2. CASE j > k
        <4>1. j - 1 \in 1..Len(r) /\ r[j - 1] = q[(j - 1) + 1] /\ (j - 1) + 1 = j
          BY <1>0, <2>5, <3>2
        <4> QED BY <4>1
      <3> QED BY <1>0, <3>1, <3>2
    <2>9. Range(r) = Range(q) \ {p}
      <3>1. \A x : x \in Range(r) <=> \E i \in 1..Len(r) : r[i] = x
        BY <2>5, RangeIs
      <3>2. \A x : x \in Range(q) <=> \E i \in 1..Len(q) : q[i] = x
        BY RangeIs
      <3>3. \A j \in 1..Len(q) : j # k => q[j] # p
        BY <1>a, <2>1
      <3>4. \A x \in Range(r) : x \in Range(q) \ {p}
        BY <2>7, <3>1, <3>2, <3>3
      <3>5. \A x \in Range(q) \ {p} : x \in Range(r)
        BY <2>1, <2>8, <3>1, <3>2
      <3> QED BY <3>4, <3>5
    <2>10. \A h, i \in 1..Len(r), j, l \in 1..Len(q) :
             r[h] = q[j] /\ r[i] = q[l] /\ j < l => h < i
      <3> SUFFICES ASSUME NEW h \in 1..Len(r), NEW i \in 1..Len(r),
                          NEW j \in 1..Len(q), NEW l \in 1..Len(q),
                          r[h] = q[j], r[i] = q[l], j < l
                   PROVE  h < i
        OBVIOUS
      <3>1. j = IF h < k THEN h ELSE h + 1
        <4>1. h \in 1..Len(q) /\ h + 1 \in 1..Len(q)
          BY <1>0, <2>5
        <4> QED BY <1>a, <2>5, <4>1
      <3>2. l = IF i < k THEN i ELSE i + 1
        <4>1. i \in 1..Len(q) /\ i + 1 \in 1..Len(q)
          BY <1>0, <2>5
        <4> QED BY <1>a, <2>5, <4>1
      <3> QED BY <2>6, <3>1, <3>2
    <2>11. IsInjective(r)
      <3> SUFFICES ASSUME NEW h \in 1..Len(r), NEW i \in 1..Len(r), r[h] = r[i]
                   PROVE  h = i
        BY <2>6 DEF IsInjective
      <3>1. /\ (IF h < k THEN h ELSE h + 1) \in 1..Len(q)
            /\ (IF i < k THEN i ELSE i + 1) \in 1..Len(q)
        BY <1>0, <2>5
      <3>2. (IF h < k THEN h ELSE h + 1) = (IF i < k THEN i ELSE i + 1)
        <4>1. r[h] = q[IF h < k THEN h ELSE h + 1]
          BY <2>5
        <4>2. r[i] = q[IF i < k THEN i ELSE i + 1]
          BY <2>5
        <4> QED BY <1>a, <3>1, <4>1, <4>2
      <3> QED BY <2>6, <3>2
    <2>12. Rest(r, q)
      BY <2>7, <2>10, <2>11 DEF Rest
    <2>13. p \in Range(q)
      BY <2>1, RangeIs
    <2>14. r # <<>> => \E l \in 1..Len(q) : /\ q[l] = r[1]
                                            /\ \A i \in 1..(l - 1) : q[i] = p
      <3> SUFFICES ASSUME r # <<>>
                   PROVE  \E l \in 1..Len(q) : /\ q[l] = r[1]
                                               /\ \A i \in 1..(l - 1) : q[i] = p
        OBVIOUS
      <3>1. 1 \in 1..Len(r) /\ Len(q) >= 2
        BY <1>0, <2>5, <2>6, EmptySeq
      <3>2. CASE k = 1
        <4>1. r[1] = q[2] /\ 2 \in 1..Len(q)
          BY <1>0, <2>5, <3>1, <3>2
        <4>2. \A i \in 1..(2 - 1) : q[i] = p
          BY <2>1, <3>2
        <4> QED BY <4>1, <4>2
      <3>3. CASE k # 1
        <4>1. r[1] = q[1] /\ 1 \in 1..Len(q)
          BY <1>0, <2>5, <3>1, <3>3
        <4>2. \A i \in 1..(1 - 1) : q[i] = p
          OBVIOUS
        <4> QED BY <4>1, <4>2
      <3> QED BY <3>2, <3>3
    <2> QED BY <2>4, <2>5, <2>9, <2>12, <2>13, <2>14
  <1> QED BY <1>1, <1>2

LEMMA TailIs ==
    ASSUME NEW S, NEW q \in Seq(S), IsInjective(q), q # <<>>
    PROVE  /\ Tail(q) \in Seq(S)
           /\ Rest(Tail(q), q)
           /\ Range(Tail(q)) = Range(q) \ {q[1]}
           /\ Len(Tail(q)) = Len(q) - 1
  <1> DEFINE r == Tail(q)
  <1>0. Len(q) \in Nat /\ DOMAIN q = 1..Len(q) /\ 1 \in 1..Len(q)
    BY LenProperties, EmptySeq
  <1>1. \A i, j \in 1..Len(q) : q[i] = q[j] => i = j
    BY <1>0 DEF IsInjective
  <1>2. /\ r \in Seq(S) /\ Len(r) = Len(q) - 1
        /\ \A i \in 1..Len(r) : r[i] = q[i + 1]
    BY HeadTailProperties
  <1> HIDE DEF r
  <1>3. DOMAIN r = 1..Len(r) /\ Len(r) \in Nat
    BY <1>2, LenProperties
  <1>4. \A i \in 1..Len(r) : i + 1 \in 1..Len(q) /\ i + 1 # 1
    BY <1>0, <1>2
  <1>5. Rest(r, q)
    <2>1. IsInjective(r)
      <3> SUFFICES ASSUME NEW h \in 1..Len(r), NEW i \in 1..Len(r), r[h] = r[i]
                   PROVE  h = i
        BY <1>3 DEF IsInjective
      <3>1. h + 1 = i + 1
        BY <1>1, <1>2, <1>4
      <3> QED BY <1>3, <3>1
    <2>2. \A i \in 1..Len(r) : \E j \in 1..Len(q) : r[i] = q[j]
      BY <1>2, <1>4
    <2>3. \A h, i \in 1..Len(r), j, k \in 1..Len(q) :
            r[h] = q[j] /\ r[i] = q[k] /\ j < k => h < i
      <3> SUFFICES ASSUME NEW h \in 1..Len(r), NEW i \in 1..Len(r),
                          NEW j \in 1..Len(q), NEW k \in 1..Len(q),
                          r[h] = q[j], r[i] = q[k], j < k
                   PROVE  h < i
        OBVIOUS
      <3>1. j = h + 1 /\ k = i + 1
        BY <1>1, <1>2, <1>4
      <3> QED BY <3>1, <1>3
    <2> QED BY <2>1, <2>2, <2>3 DEF Rest
  <1>6. Range(r) = Range(q) \ {q[1]}
    <2>1. \A x : x \in Range(r) <=> \E i \in 1..Len(r) : r[i] = x
      BY <1>2, RangeIs
    <2>2. \A x : x \in Range(q) <=> \E i \in 1..Len(q) : q[i] = x
      BY RangeIs
    <2>3. \A x \in Range(r) : x \in Range(q) \ {q[1]}
      BY <1>0, <1>1, <1>2, <1>4, <2>1, <2>2
    <2>4. ASSUME NEW j \in 1..Len(q), q[j] # q[1]
          PROVE  q[j] \in Range(r)
      <3>1. j # 1
        BY <2>4
      <3>2. j - 1 \in 1..Len(r) /\ (j - 1) + 1 = j
        BY <1>0, <1>2, <3>1
      <3>3. r[j - 1] = q[j]
        BY <1>2, <3>2
      <3> QED BY <2>1, <3>2, <3>3
    <2> QED BY <2>2, <2>3, <2>4
  <1> QED BY <1>2, <1>5, <1>6 DEF r

LEMMA RestRest ==
    ASSUME NEW S, NEW q \in Seq(S), NEW r \in Seq(S), NEW s \in Seq(S),
           IsInjective(q), Rest(r, q), Rest(s, r)
    PROVE  Rest(s, q)
  <1>0. Len(q) \in Nat /\ DOMAIN q = 1..Len(q) /\ Len(r) \in Nat /\ DOMAIN r = 1..Len(r)
    BY LenProperties
  <1>1. \A i \in 1..Len(s) : \E j \in 1..Len(q) : s[i] = q[j]
    BY DEF Rest
  <1>2. ASSUME NEW h \in 1..Len(s), NEW i \in 1..Len(s),
               NEW j \in 1..Len(q), NEW k \in 1..Len(q),
               s[h] = q[j], s[i] = q[k], j < k
        PROVE  h < i
    <2>1. PICK h2 \in 1..Len(r) : s[h] = r[h2]
      BY DEF Rest
    <2>2. PICK i2 \in 1..Len(r) : s[i] = r[i2]
      BY DEF Rest
    <2>3. r[h2] = q[j] /\ r[i2] = q[k]
      BY <1>2, <2>1, <2>2
    <2>4. \A c, d \in 1..Len(r), f, g \in 1..Len(q) :
            r[c] = q[f] /\ r[d] = q[g] /\ f < g => c < d
      BY DEF Rest
    <2>5. \A c, d \in 1..Len(s), f, g \in 1..Len(r) :
            s[c] = r[f] /\ s[d] = r[g] /\ f < g => c < d
      BY DEF Rest
    <2>6. h2 < i2
      BY <1>2, <2>3, <2>4
    <2> QED BY <2>1, <2>2, <2>5, <2>6
  <1> QED BY <1>1, <1>2 DEF Rest

\* Whoever left the queue, other than p, had only p before it.
LeftInOrder(q, r, p) ==
    \A i, j \in 1..Len(q) :
        i < j /\ q[j] \notin Range(r) /\ q[j] # p => q[i] \notin Range(r)

\* The number of sessions RemoveQueuedPlayer compares with the limit.
SessionsLeft(q, total, p) ==
    IF p \in Range(q) \/ total - Len(q) = 0 THEN total - Len(q)
    ELSE total - Len(q) - 1

\* The queue with p erased has so many sessions.
LenWithout(q, p) == IF p \in Range(q) THEN Len(q) - 1 ELSE Len(q)

\* r is what RemoveQueuedPlayer(p) leaves of the queue q.
Removal(q, r, total, p) ==
    /\ r \in Seq(Pointers) /\ Rest(r, q) /\ LeftInOrder(q, r, p)
    /\ Range(r) \subseteq Range(q) \ {p}
    /\ \/ Len(r) = LenWithout(q, p) /\ Range(r) = Range(q) \ {p}
          /\ (Len(r) = 0 \/ ~HasRoom(SessionsLeft(q, total, p)))
       \/ Len(r) = LenWithout(q, p) - 1 /\ HasRoom(SessionsLeft(q, total, p))

LEMMA RemoveQueuedPlayerIs ==
    ASSUME NEW q \in Seq(Pointers), NEW total \in Int, NEW p, IsInjective(q)
    PROVE  Removal(q, RemoveQueuedPlayer(q, total, p), total, p)
  <1> DEFINE e == Erased(q, p)
             r == RemoveQueuedPlayer(q, total, p)
             n == LenWithout(q, p)
  <1>1. /\ e \in Seq(Pointers) /\ Rest(e, q) /\ Range(e) = Range(q) \ {p}
        /\ Len(e) = n
        /\ e # <<>> =>
             \E k \in 1..Len(q) : q[k] = e[1] /\ \A i \in 1..(k - 1) : q[i] = p
    BY ErasedIs DEF LenWithout
  <1>2. Contains(q, p) <=> p \in Range(q)
    BY RangeIs DEF Contains
  <1>3. r = IF e # <<>> /\ HasRoom(SessionsLeft(q, total, p)) THEN Tail(e) ELSE e
    BY <1>2 DEF RemoveQueuedPlayer, SessionsLeft
  <1>4. IsInjective(e)
    BY <1>1 DEF Rest
  <1>q. \A x : x \in Range(q) <=> \E i \in 1..Len(q) : q[i] = x
    BY RangeIs
  <1>i. \A i, j \in 1..Len(q) : q[i] = q[j] => i = j
    BY LenProperties DEF IsInjective
  <1> HIDE DEF e, r, n
  <1>5. CASE e # <<>> /\ HasRoom(SessionsLeft(q, total, p))
    <2>1. /\ r = Tail(e) /\ r \in Seq(Pointers) /\ Rest(r, e)
          /\ Range(r) = Range(e) \ {e[1]} /\ Len(r) = n - 1
      BY <1>1, <1>3, <1>4, <1>5, TailIs
    <2>2. Rest(r, q)
      BY <1>1, <2>1, RestRest
    <2>3. LeftInOrder(q, r, p)
      <3> SUFFICES ASSUME NEW i \in 1..Len(q), NEW j \in 1..Len(q), i < j,
                          q[j] \notin Range(r), q[j] # p
                   PROVE  q[i] \notin Range(r)
        BY DEF LeftInOrder
      <3>1. PICK k \in 1..Len(q) : q[k] = e[1] /\ \A l \in 1..(k - 1) : q[l] = p
        BY <1>1, <1>5
      <3>2. q[j] = e[1]
        BY <1>1, <1>q, <2>1
      <3>3. j = k
        BY <1>i, <3>1, <3>2
      <3>4. i \in 1..(k - 1)
        BY <3>3, LenProperties
      <3> QED BY <1>1, <2>1, <3>1, <3>4
    <2> QED BY <1>1, <1>5, <2>1, <2>2, <2>3 DEF Removal, r, n
  <1>6. CASE ~(e # <<>> /\ HasRoom(SessionsLeft(q, total, p)))
    <2>1. r = e
      BY <1>3, <1>6
    <2>2. n = 0 \/ ~HasRoom(SessionsLeft(q, total, p))
      BY <1>1, <1>6, EmptySeq
    <2>3. LeftInOrder(q, r, p)
      BY <1>1, <1>q, <2>1 DEF LeftInOrder
    <2> QED BY <1>1, <2>1, <2>2, <2>3 DEF Removal, r, n
  <1> QED BY <1>5, <1>6

------------------------------------------------------------------------------
(***************************************************************************)
(* Who is in the queue.  The inductive invariant follows every pointer:    *)
(* from addSessQueue, where nobody else knows it, to the session map, and  *)
(* from there into the queue and out of it.                                *)
(***************************************************************************)

\* The session of an account is alive and its own.
Owner == \A a \in Accounts : m_sessions[a] # Nil =>
    session[m_sessions[a]] # Nil /\ session[m_sessions[a]].account = a

\* A session that waits to be added is alive and nowhere else, and is added once.
Fresh ==
    /\ \A i \in 1..Len(addSessQueue) :
         /\ session[addSessQueue[i]] # Nil
         /\ session[addSessQueue[i]].player = "none"
         /\ addSessQueue[i] \notin Queued
         /\ \A a \in Accounts : m_sessions[a] # addSessQueue[i]
    /\ \A i, j \in 1..Len(addSessQueue) :
         addSessQueue[i] = addSessQueue[j] => i = j

\* m_inQueue tells who is in the queue.
Flagged == \A p \in Pointers :
    session[p] # Nil => (session[p].inQueue <=> p \in Queued)

\* Who is in the queue is the session of an account and has no character.
Member == \A p \in Queued :
    /\ session[p] # Nil /\ session[p].player = "none"
    /\ m_sessions[session[p].account] = p

IInv == /\ TypeOK /\ Owner /\ Fresh /\ Flagged /\ Member
        /\ IsInjective(m_QueuedPlayer) /\ IsFiniteSet(Live)

LEMMA QueuedIs ==
    ASSUME IInv
    PROVE  /\ Queued \subseteq Pointers
           /\ \A x : x \in Queued <=> \E i \in 1..Len(m_QueuedPlayer) : m_QueuedPlayer[i] = x
  <1>1. \A x : x \in Queued <=> \E i \in 1..Len(m_QueuedPlayer) : m_QueuedPlayer[i] = x
    BY RangeIs DEF IInv, TypeOK, Queued
  <1>2. \A i \in 1..Len(m_QueuedPlayer) : m_QueuedPlayer[i] \in Pointers
    BY ElementOfSeq DEF IInv, TypeOK
  <1> QED BY <1>1, <1>2

LEMMA IInvInit == Init => IInv
  <1> SUFFICES ASSUME Init PROVE IInv
    OBVIOUS
  <1>1. Queued = {}
    BY DEF Init, Queued, Range
  <1>2. Live = {}
    BY DEF Init, Live
  <1>3. TypeOK
    BY <1>2, SessionQueueAssumption DEF Init, TypeOK
  <1>4. Owner /\ Fresh /\ Flagged /\ Member
    BY <1>1 DEF Init, Owner, Fresh, Flagged, Member
  <1>5. IsInjective(m_QueuedPlayer)
    BY DEF Init, IsInjective
  <1> QED BY <1>2, <1>3, <1>4, <1>5, FS_EmptySet DEF IInv

\* The invariant gives the properties.
LEMMA IInvSays == IInv => QueueIsLive /\ WaitingDoNotPlay
  <1> SUFFICES ASSUME IInv PROVE QueueIsLive /\ WaitingDoNotPlay
    OBVIOUS
  <1>1. \A a \in Live : session[m_sessions[a]] # Nil /\ m_sessions[a] \in Pointers
    BY DEF IInv, TypeOK, Owner, Live
  <1>2. WaitingDoNotPlay
    BY DEF IInv, Member, WaitingDoNotPlay
  <1> DEFINE W == {m_sessions[a] : a \in {b \in Live : session[m_sessions[b]].inQueue}}
  <1>3. ASSUME NEW p \in Queued PROVE p \in W
    <2>1. p \in Pointers /\ session[p] # Nil /\ m_sessions[session[p].account] = p
      BY QueuedIs DEF IInv, Member
    <2>2. session[p].account \in Accounts
      BY <2>1 DEF IInv, TypeOK, Session
    <2>3. session[p].account \in Live
      BY <2>1, <2>2, SessionQueueAssumption DEF Live
    <2>4. session[p].inQueue
      BY <2>1 DEF IInv, Flagged
    <2> QED BY <2>1, <2>3, <2>4
  <1>4. ASSUME NEW p \in W PROVE p \in Queued
    BY <1>1 DEF IInv, Flagged
  <1>5. Queued = W
    BY <1>3, <1>4
  <1> QED BY <1>1, <1>2, <1>5 DEF QueueIsLive, IInv

\* Steps that change one session, but not its account, its flag or, while it
\* waits, its character.
LEMMA OneChanged ==
    ASSUME IInv, NEW p \in Pointers, session[p] # Nil, NEW s \in Session,
           session' = [session EXCEPT ![p] = s],
           s.account = session[p].account,
           s.inQueue <=> session[p].inQueue,
           \/ s.player = session[p].player
           \/ ~session[p].inQueue /\ \E a \in Accounts : m_sessions[a] = p,
           visiting' \subseteq visiting,
           UNCHANGED <<addSessQueue, m_sessions, m_QueuedPlayer, m_playerLimit,
                       m_disconnects, floor>>
    PROVE  IInv'
  <1>1. Queued' = Queued /\ Live' = Live
    BY DEF Queued, Live
  <1>2. session'[p] = s /\ \A x \in Pointers : x # p => session'[x] = session[x]
    BY DEF IInv, TypeOK
  <1>3. s # Nil
    BY SessionQueueAssumption
  <1>4. TypeOK'
    <2>1. session' \in [Pointers -> Session \cup {Nil}]
      BY DEF IInv, TypeOK
    <2> QED BY <1>1, <2>1 DEF IInv, TypeOK
  <1>5. Owner'
    BY <1>2, <1>3 DEF IInv, TypeOK, Owner
  <1>6. Fresh'
    <2>1. \A i \in 1..Len(addSessQueue) : addSessQueue[i] \in Pointers
      BY ElementOfSeq DEF IInv, TypeOK
    <2>2. \A i \in 1..Len(addSessQueue) :
            session'[addSessQueue[i]] # Nil /\ session'[addSessQueue[i]].player = "none"
      BY <1>2, <1>3, <2>1 DEF IInv, Fresh
    <2> QED BY <1>1, <2>2 DEF IInv, Fresh
  <1>7. Flagged'
    <2>1. s.inQueue <=> p \in Queued
      BY DEF IInv, Flagged
    <2> QED BY <1>1, <1>2, <2>1 DEF IInv, Flagged
  <1>8. Member'
    <2>1. p \in Queued => s.player = "none" /\ m_sessions[s.account] = p
      BY DEF IInv, Flagged, Member
    <2> QED BY <1>1, <1>2, <1>3, <2>1, QueuedIs DEF IInv, Member
  <1> QED BY <1>1, <1>4, <1>5, <1>6, <1>7, <1>8 DEF IInv

LEMMA SmallSteps ==
    ASSUME IInv,
           \/ \E p \in Pointers : CloseSocket(p)
           \/ \E a \in Accounts : KickPlayer(a) \/ KeepSession(a)
    PROVE  IInv'
  <1>0. \A p \in Pointers : session[p] # Nil => session[p] \in Session
    BY DEF IInv, TypeOK
  <1>1. ASSUME NEW p \in Pointers, CloseSocket(p) PROVE IInv'
    <2> DEFINE s == [session[p] EXCEPT !.open = FALSE]
    <2>1. session[p] \in Session /\ session[p] # Nil
      BY <1>0, <1>1 DEF CloseSocket
    <2>2. s \in Session /\ s.account = session[p].account /\ s.player = session[p].player
      BY <2>1 DEF Session
    <2>3. s.inQueue <=> session[p].inQueue
      BY <2>1 DEF Session
    <2>4. session' = [session EXCEPT ![p] = s]
      BY <1>1 DEF CloseSocket
    <2>5. visiting' \subseteq visiting
          /\ UNCHANGED <<addSessQueue, m_sessions, m_QueuedPlayer, m_playerLimit,
                         m_disconnects, floor>>
      BY <1>1 DEF CloseSocket
    <2> HIDE DEF s
    <2> QED BY <2>1, <2>2, <2>3, <2>4, <2>5, OneChanged
  <1>2. ASSUME NEW a \in Accounts, KickPlayer(a) PROVE IInv'
    <2> DEFINE p == m_sessions[a]
               s == Kicked(session[p])
    <2>1. p \in Pointers /\ session[p] \in Session /\ session[p] # Nil
      BY <1>0, <1>2 DEF KickPlayer, IInv, TypeOK, Owner
    <2>2. s \in Session /\ s.account = session[p].account /\ s.player = session[p].player
      <3>1. 0 \in 0..Expire
        BY SessionQueueAssumption
      <3>2. s \in Session
        BY <2>1, <3>1 DEF Session, Kicked
      <3>3. s.account = session[p].account /\ s.player = session[p].player
        BY <2>1 DEF Session, Kicked
      <3> QED BY <3>2, <3>3
    <2>3. s.inQueue <=> session[p].inQueue
      BY <2>1 DEF Session, Kicked
    <2>4. session' = [session EXCEPT ![p] = s]
      BY <1>2 DEF KickPlayer
    <2>5. visiting' \subseteq visiting
          /\ UNCHANGED <<addSessQueue, m_sessions, m_QueuedPlayer, m_playerLimit,
                         m_disconnects, floor>>
      BY <1>2 DEF KickPlayer
    <2> HIDE DEF s, p
    <2> QED BY <2>1, <2>2, <2>3, <2>4, <2>5, OneChanged
  <1>3. ASSUME NEW a \in Accounts, KeepSession(a) PROVE IInv'
    <2> DEFINE p == m_sessions[a]
    <2>1. a \in Live
      BY <1>3 DEF KeepSession, IInv, TypeOK
    <2>2. p \in Pointers /\ session[p] \in Session /\ session[p] # Nil
      BY <1>0, <2>1 DEF Live, IInv, TypeOK, Owner
    <2>3. PICK c \in Served(session[p]) :
            session' = [session EXCEPT ![p] = Aged([session[p] EXCEPT !.player = c])]
      BY <1>3 DEF KeepSession
    <2>4. c \in {"none", "loading", "world"} /\ (session[p].inQueue => c = session[p].player)
      BY <2>2 DEF Served, Session
    <2> DEFINE t == [session[p] EXCEPT !.player = c]
               s == Aged(t)
    <2>5. t \in Session /\ t.account = session[p].account /\ t.player = c
          /\ (t.inQueue <=> session[p].inQueue)
      BY <2>2, <2>4 DEF Session
    <2>6. s \in Session /\ s.account = t.account /\ s.player = t.player
          /\ (s.inQueue <=> t.inQueue)
      <3>1. CASE t.open \/ t.expire = 0
        BY <2>5, <3>1 DEF Aged
      <3>2. CASE ~(t.open \/ t.expire = 0)
        <4>1. t.expire - 1 \in 0..Expire
          BY <2>5, <3>2, SessionQueueAssumption DEF Session
        <4>2. s = [t EXCEPT !.expire = t.expire - 1]
          BY <3>2 DEF Aged
        <4> QED BY <2>5, <4>1, <4>2 DEF Session
      <3> QED BY <3>1, <3>2
    <2>7. visiting' \subseteq visiting
          /\ UNCHANGED <<addSessQueue, m_sessions, m_QueuedPlayer, m_playerLimit,
                         m_disconnects, floor>>
      BY <1>3 DEF KeepSession
    <2>8. session' = [session EXCEPT ![p] = s]
      BY <2>3
    <2>9. \E b \in Accounts : m_sessions[b] = p
      OBVIOUS
    <2> HIDE DEF p, t, s
    <2>10. s.inQueue <=> session[p].inQueue
      BY <2>5, <2>6
    <2>11. s.account = session[p].account /\ s \in Session
      BY <2>5, <2>6
    <2>12. s.player = session[p].player \/ ~session[p].inQueue
      BY <2>4, <2>5, <2>6
    <2> QED BY <2>2, <2>7, <2>8, <2>9, <2>10, <2>11, <2>12, OneChanged
  <1> QED BY <1>1, <1>2, <1>3

\* A new object, at a pointer nobody holds, waits to be added.
LEMMA AddStep ==
    ASSUME IInv, NEW a \in Accounts, AddSession(a)
    PROVE  IInv'
  <1> DEFINE s == [account |-> a, player |-> "none", open |-> TRUE,
                   expire |-> Expire, inQueue |-> FALSE]
  <1>1. PICK p \in Pointers : /\ session[p] = Nil
                              /\ session' = [session EXCEPT ![p] = s]
                              /\ addSessQueue' = Append(addSessQueue, p)
    BY DEF AddSession
  <1>2. Queued' = Queued /\ Live' = Live /\ m_sessions' = m_sessions
    BY DEF AddSession, Queued, Live
  <1>3. s \in Session /\ s # Nil /\ s.player = "none" /\ ~s.inQueue
    <2>1. Expire \in 0..Expire
      BY SessionQueueAssumption
    <2>2. s \in Session
      BY <2>1 DEF Session
    <2> QED BY <2>2, SessionQueueAssumption
  <1> HIDE DEF s
  <1>4. session'[p] = s /\ \A x \in Pointers : x # p => session'[x] = session[x]
    BY <1>1 DEF IInv, TypeOK
  <1>5. p \notin Queued /\ \A b \in Accounts : m_sessions[b] # p
    BY <1>1, SessionQueueAssumption DEF IInv, Member, Owner
  <1>6. /\ \A i \in 1..Len(addSessQueue) : addSessQueue[i] \in Pointers /\ addSessQueue[i] # p
        /\ Len(addSessQueue) \in Nat /\ addSessQueue' \in Seq(Pointers)
        /\ Len(addSessQueue') = Len(addSessQueue) + 1
        /\ addSessQueue'[Len(addSessQueue) + 1] = p
        /\ \A i \in 1..Len(addSessQueue) : addSessQueue'[i] = addSessQueue[i]
    BY <1>1 DEF IInv, TypeOK, Fresh
  <1>7. TypeOK'
    <2>1. session' \in [Pointers -> Session \cup {Nil}]
      BY <1>1, <1>3 DEF IInv, TypeOK
    <2> QED BY <1>2, <1>6, <2>1 DEF IInv, TypeOK, AddSession
  <1>8. Owner'
    BY <1>2, <1>4, <1>5 DEF IInv, TypeOK, Owner
  <1>9. Fresh'
    <2>1. ASSUME NEW i \in 1..Len(addSessQueue')
          PROVE  /\ session'[addSessQueue'[i]] # Nil
                 /\ session'[addSessQueue'[i]].player = "none"
                 /\ addSessQueue'[i] \notin Queued'
                 /\ \A b \in Accounts : m_sessions'[b] # addSessQueue'[i]
      <3>1. CASE i = Len(addSessQueue) + 1
        BY <1>2, <1>3, <1>4, <1>5, <1>6, <3>1
      <3>2. CASE i \in 1..Len(addSessQueue)
        BY <1>2, <1>4, <1>6, <3>2 DEF IInv, Fresh
      <3> QED BY <1>6, <3>1, <3>2
    <2>2. ASSUME NEW i \in 1..Len(addSessQueue'), NEW j \in 1..Len(addSessQueue'),
                 addSessQueue'[i] = addSessQueue'[j]
          PROVE  i = j
      BY <1>6, <2>2 DEF IInv, Fresh
    <2> QED BY <2>1, <2>2 DEF Fresh
  <1>10. Flagged'
    BY <1>2, <1>3, <1>4, <1>5 DEF IInv, Flagged
  <1>11. Member'
    BY <1>2, <1>4, <1>5, QueuedIs DEF IInv, Member
  <1>12. IsInjective(m_QueuedPlayer)'
    BY DEF IInv, AddSession
  <1> QED BY <1>2, <1>7, <1>8, <1>9, <1>10, <1>11, <1>12 DEF IInv

\* The first session that waits to be added.
LEMMA FirstToAdd ==
    ASSUME IInv, addSessQueue # <<>>, NEW p, p = Head(addSessQueue),
           addSessQueue' = Tail(addSessQueue)
    PROVE  /\ p \in Pointers /\ session[p] \in Session /\ session[p] # Nil
           /\ session[p].player = "none" /\ session[p].account \in Accounts
           /\ p \notin Queued /\ \A a \in Accounts : m_sessions[a] # p
           /\ addSessQueue' \in Seq(Pointers) /\ Len(addSessQueue') \in Nat
           /\ \A i \in 1..Len(addSessQueue') :
                \E k \in 1..Len(addSessQueue) :
                  k = i + 1 /\ addSessQueue'[i] = addSessQueue[k]
           /\ \A i \in 1..Len(addSessQueue') :
                addSessQueue'[i] \in Pointers /\ addSessQueue'[i] # p
           /\ \A i, j \in 1..Len(addSessQueue') :
                addSessQueue'[i] = addSessQueue'[j] => i = j
  <1>1. /\ addSessQueue \in Seq(Pointers) /\ Len(addSessQueue) \in Nat
        /\ 1 \in 1..Len(addSessQueue) /\ p = addSessQueue[1]
        /\ addSessQueue' \in Seq(Pointers) /\ Len(addSessQueue') \in Nat
        /\ Len(addSessQueue') = Len(addSessQueue) - 1
        /\ \A i \in 1..Len(addSessQueue') : addSessQueue'[i] = addSessQueue[i + 1]
    BY DEF IInv, TypeOK
  <1>2. \A i \in 1..Len(addSessQueue) : addSessQueue[i] \in Pointers
    BY <1>1, ElementOfSeq
  <1>3. /\ p \in Pointers /\ session[p] # Nil /\ session[p].player = "none"
        /\ p \notin Queued /\ \A a \in Accounts : m_sessions[a] # p
    BY <1>1, <1>2 DEF IInv, Fresh
  <1>4. session[p] \in Session /\ session[p].account \in Accounts
    BY <1>3 DEF IInv, TypeOK, Session
  <1>5. \A i \in 1..Len(addSessQueue') : i + 1 \in 1..Len(addSessQueue) /\ i + 1 # 1
    BY <1>1
  <1>6. \A i \in 1..Len(addSessQueue') : addSessQueue'[i] \in Pointers /\ addSessQueue'[i] # p
    BY <1>1, <1>2, <1>5 DEF IInv, Fresh
  <1>7. ASSUME NEW i \in 1..Len(addSessQueue'), NEW j \in 1..Len(addSessQueue'),
               addSessQueue'[i] = addSessQueue'[j]
        PROVE  i = j
    <2>1. i + 1 = j + 1
      BY <1>1, <1>5, <1>7 DEF IInv, Fresh
    <2> QED BY <1>1, <2>1
  <1> QED BY <1>1, <1>3, <1>4, <1>5, <1>6, <1>7

LEMMA RefuseStep ==
    ASSUME IInv, RefuseSession
    PROVE  IInv'
  <1> DEFINE p == Head(addSessQueue)
  <1>1. /\ addSessQueue # <<>> /\ addSessQueue' = Tail(addSessQueue)
        /\ session' = [session EXCEPT ![p] = Nil]
        /\ UNCHANGED <<m_sessions, m_QueuedPlayer, m_playerLimit, m_disconnects,
                       visiting, floor>>
    BY DEF RefuseSession
  <1>2. /\ p \in Pointers /\ p \notin Queued /\ \A a \in Accounts : m_sessions[a] # p
        /\ addSessQueue' \in Seq(Pointers)
        /\ \A i \in 1..Len(addSessQueue') :
             \E k \in 1..Len(addSessQueue) :
               k = i + 1 /\ addSessQueue'[i] = addSessQueue[k]
        /\ \A i \in 1..Len(addSessQueue') :
             addSessQueue'[i] \in Pointers /\ addSessQueue'[i] # p
        /\ \A i, j \in 1..Len(addSessQueue') :
             addSessQueue'[i] = addSessQueue'[j] => i = j
    BY <1>1, FirstToAdd
  <1> HIDE DEF p
  <1>3. Queued' = Queued /\ Live' = Live
    BY <1>1 DEF Queued, Live
  <1>4. session'[p] = Nil /\ \A x \in Pointers : x # p => session'[x] = session[x]
    BY <1>1, <1>2 DEF IInv, TypeOK
  <1>5. TypeOK'
    <2>1. session' \in [Pointers -> Session \cup {Nil}]
      BY <1>1 DEF IInv, TypeOK
    <2> QED BY <1>1, <1>2, <1>3, <2>1 DEF IInv, TypeOK
  <1>6. Owner'
    BY <1>1, <1>2, <1>4 DEF IInv, TypeOK, Owner
  <1>7. Fresh'
    BY <1>1, <1>2, <1>3, <1>4 DEF IInv, Fresh
  <1>8. Flagged'
    BY <1>3, <1>4 DEF IInv, Flagged
  <1>9. Member'
    BY <1>1, <1>2, <1>3, <1>4, QueuedIs DEF IInv, Member
  <1> QED BY <1>1, <1>3, <1>5, <1>6, <1>7, <1>8, <1>9 DEF IInv

\* SetInQueue: whoever left the queue is told so, nothing else changes.
LEMMA ReleasedIs ==
    ASSUME IInv, NEW q, Range(q) \subseteq Queued
    PROVE  /\ Released(session, q) \in [Pointers -> Session \cup {Nil}]
           /\ \A x \in Pointers : session[x] = Nil => Released(session, q)[x] = Nil
           /\ \A x \in Pointers : session[x] # Nil =>
                /\ Released(session, q)[x] # Nil
                /\ Released(session, q)[x].account = session[x].account
                /\ Released(session, q)[x].player = session[x].player
                /\ Released(session, q)[x].inQueue <=> x \in Range(q)
                /\ x \notin Queued => Released(session, q)[x] = session[x]
  <1>1. \A x \in Queued : session[x] \in Session
    BY QueuedIs DEF IInv, TypeOK, Member
  <1> DEFINE r(x) == [session[x] EXCEPT !.inQueue = FALSE]
  <1>2. \A x \in Queued : /\ r(x) \in Session
                          /\ r(x).account = session[x].account
                          /\ r(x).player = session[x].player /\ ~r(x).inQueue
    BY <1>1 DEF Session
  <1>3. \A x \in Pointers : Released(session, q)[x] =
                              IF x \in Queued \ Range(q) THEN r(x) ELSE session[x]
    BY DEF Released
  <1>4. Released(session, q) = [x \in Pointers |-> Released(session, q)[x]]
    BY DEF Released
  <1> HIDE DEF r
  <1>5. \A x \in Pointers : Released(session, q)[x] \in Session \cup {Nil}
    BY <1>2, <1>3 DEF IInv, TypeOK
  <1>6. ASSUME NEW x \in Pointers, session[x] # Nil
        PROVE  /\ Released(session, q)[x] # Nil
               /\ Released(session, q)[x].account = session[x].account
               /\ Released(session, q)[x].player = session[x].player
               /\ Released(session, q)[x].inQueue <=> x \in Range(q)
               /\ x \notin Queued => Released(session, q)[x] = session[x]
    <2>1. CASE x \in Queued \ Range(q)
      BY <1>2, <1>3, <2>1, SessionQueueAssumption
    <2>2. CASE ~(x \in Queued \ Range(q))
      <3>1. Released(session, q)[x] = session[x]
        BY <1>3, <2>2
      <3>2. session[x].inQueue <=> x \in Range(q)
        BY <1>6, <2>2 DEF IInv, Flagged
      <3> QED BY <1>6, <3>1, <3>2
    <2> QED BY <2>1, <2>2
  <1>7. \A x \in Pointers : session[x] = Nil => Released(session, q)[x] = Nil
    BY <1>3 DEF IInv, Member
  <1> QED BY <1>4, <1>5, <1>6, <1>7

LEMMA TwoCalls ==
    ASSUME NEW S, NEW q \in Seq(S), NEW r \in Seq(S), NEW s \in Seq(S), NEW p,
           Rest(r, q), LeftInOrder(q, r, p), LeftInOrder(r, s, p),
           Range(s) \subseteq Range(r)
    PROVE  LeftInOrder(q, s, p)
  <1> SUFFICES ASSUME NEW i \in 1..Len(q), NEW j \in 1..Len(q), i < j,
                      q[j] \notin Range(s), q[j] # p, q[i] \in Range(s)
               PROVE  FALSE
    BY DEF LeftInOrder
  <1>1. PICK k \in 1..Len(r) : r[k] = q[i]
    BY RangeIs
  <1>2. q[j] \in Range(r)
    BY DEF LeftInOrder
  <1>3. PICK l \in 1..Len(r) : r[l] = q[j]
    BY <1>2, RangeIs
  <1>4. k < l
    BY <1>1, <1>3 DEF Rest
  <1> QED BY <1>1, <1>3, <1>4 DEF LeftInOrder

\* The session of an account leaves: what DropSession does to the queue.
LEMMA DropIs ==
    ASSUME IInv, NEW a \in Accounts, DropSession(a), NEW p, p = m_sessions[a]
    PROVE  /\ a \in Live /\ p \in Pointers /\ session[p] # Nil
           /\ session[p].account = a
           /\ m_QueuedPlayer' \in Seq(Pointers) /\ IsInjective(m_QueuedPlayer')
           /\ Queued' \subseteq Queued \ {p}
           /\ LeftInOrder(m_QueuedPlayer, m_QueuedPlayer', p)
           /\ session' = [Released(session, m_QueuedPlayer') EXCEPT ![p] = Nil]
           /\ m_sessions' = [m_sessions EXCEPT ![a] = Nil]
           /\ visiting' = visiting \ {a} /\ addSessQueue' = addSessQueue
           /\ m_playerLimit' = m_playerLimit
  <1> DEFINE n == Cardinality(Live)
             q == RemoveQueuedPlayer(m_QueuedPlayer, n, p)
             q2 == RemoveQueuedPlayer(q, n, p)
  <1>1. a \in Live
    BY DEF DropSession, IInv, TypeOK
  <1>2. p \in Pointers /\ session[p] # Nil /\ session[p].account = a
    BY <1>1 DEF Live, IInv, TypeOK, Owner
  <1>3. n \in Int
    BY FS_CardinalityType DEF IInv
  <1>4. m_QueuedPlayer \in Seq(Pointers) /\ IsInjective(m_QueuedPlayer)
    BY DEF IInv, TypeOK
  <1>6. m_QueuedPlayer' = q2
    BY DEF DropSession
  <1>7. session' = [Released(session, m_QueuedPlayer') EXCEPT ![p] = Nil]
    BY <1>6 DEF DropSession
  <1> HIDE DEF n
  <1>8. /\ q \in Seq(Pointers) /\ Rest(q, m_QueuedPlayer)
        /\ LeftInOrder(m_QueuedPlayer, q, p)
        /\ Range(q) \subseteq Range(m_QueuedPlayer) \ {p}
    BY <1>3, <1>4, RemoveQueuedPlayerIs DEF Removal
  <1>9. IsInjective(q)
    BY <1>8 DEF Rest
  <1> HIDE DEF q
  <1>11. /\ q2 \in Seq(Pointers) /\ Rest(q2, q)
         /\ LeftInOrder(q, q2, p) /\ Range(q2) \subseteq Range(q) \ {p}
    BY <1>3, <1>8, <1>9, RemoveQueuedPlayerIs DEF Removal
  <1> HIDE DEF q2
  <1>12. LeftInOrder(m_QueuedPlayer, q2, p)
    BY <1>4, <1>8, <1>11, TwoCalls
  <1>13. Queued' \subseteq Queued \ {p}
    BY <1>6, <1>8, <1>11 DEF Queued
  <1>14. IsInjective(q2)
    BY <1>11 DEF Rest
  <1> QED BY <1>1, <1>2, <1>6, <1>7, <1>11, <1>12, <1>13, <1>14 DEF DropSession

LEMMA DropStep ==
    ASSUME IInv, NEW a \in Accounts, DropSession(a)
    PROVE  IInv'
  <1> DEFINE p == m_sessions[a]
             r == Released(session, m_QueuedPlayer')
  <1>1. /\ a \in Live /\ p \in Pointers /\ session[p] # Nil
        /\ session[p].account = a
        /\ m_QueuedPlayer' \in Seq(Pointers) /\ IsInjective(m_QueuedPlayer')
        /\ Queued' \subseteq Queued \ {p}
        /\ session' = [r EXCEPT ![p] = Nil]
        /\ m_sessions' = [m_sessions EXCEPT ![a] = Nil]
        /\ visiting' = visiting \ {a} /\ addSessQueue' = addSessQueue
        /\ m_playerLimit' = m_playerLimit
    BY DropIs
  <1>2. Range(m_QueuedPlayer') = Queued'
    BY DEF Queued
  <1>3. /\ r \in [Pointers -> Session \cup {Nil}]
        /\ \A x \in Pointers : session[x] = Nil => r[x] = Nil
        /\ \A x \in Pointers : session[x] # Nil =>
             /\ r[x] # Nil /\ r[x].account = session[x].account
             /\ r[x].player = session[x].player
             /\ r[x].inQueue <=> x \in Queued'
             /\ x \notin Queued => r[x] = session[x]
    BY <1>1, <1>2, ReleasedIs
  <1> HIDE DEF r
  <1>4. session'[p] = Nil /\ \A x \in Pointers : x # p => session'[x] = r[x]
    BY <1>1, <1>3
  <1>5. m_sessions'[a] = Nil /\ \A b \in Accounts : b # a => m_sessions'[b] = m_sessions[b]
    BY <1>1 DEF IInv, TypeOK
  <1>6. \A b \in Accounts : b # a => m_sessions[b] # p
    BY <1>1, SessionQueueAssumption DEF IInv, Owner
  <1> HIDE DEF p
  <1>7. Live' = Live \ {a}
    BY <1>5 DEF Live
  <1>8. TypeOK'
    <2>1. session' \in [Pointers -> Session \cup {Nil}]
      BY <1>1, <1>3
    <2>2. m_sessions' \in [Accounts -> Pointers \cup {Nil}]
      BY <1>1 DEF IInv, TypeOK
    <2>3. m_disconnects' \subseteq Accounts
      BY DEF DropSession, IInv, TypeOK
    <2>4. floor' \in Nat
      BY <1>1, SessionQueueAssumption DEF DropSession, KeepFloor, IInv, TypeOK
    <2>5. visiting' \subseteq Live'
      BY <1>1, <1>7 DEF IInv, TypeOK
    <2> QED BY <1>1, <2>1, <2>2, <2>3, <2>4, <2>5 DEF IInv, TypeOK
  <1>9. Owner'
    <2> SUFFICES ASSUME NEW b \in Accounts, m_sessions'[b] # Nil
                 PROVE  session'[m_sessions'[b]] # Nil /\ session'[m_sessions'[b]].account = b
      BY DEF Owner
    <2>1. b # a /\ m_sessions'[b] = m_sessions[b] /\ m_sessions[b] # p
      BY <1>5, <1>6
    <2>2. m_sessions[b] \in Pointers
      BY <2>1 DEF IInv, TypeOK
    <2> QED BY <1>3, <1>4, <2>1, <2>2 DEF IInv, Owner
  <1>10. Fresh'
    <2>1. \A i \in 1..Len(addSessQueue) : addSessQueue[i] \in Pointers
      BY ElementOfSeq DEF IInv, TypeOK
    <2>2. \A i \in 1..Len(addSessQueue) : addSessQueue[i] # p
      BY DEF IInv, Fresh, p
    <2>3. \A i \in 1..Len(addSessQueue) :
            session'[addSessQueue[i]] # Nil /\ session'[addSessQueue[i]].player = "none"
      BY <1>3, <1>4, <2>1, <2>2 DEF IInv, Fresh
    <2>4. \A i \in 1..Len(addSessQueue) : addSessQueue[i] \notin Queued'
      BY <1>1 DEF IInv, Fresh
    <2>5. \A i \in 1..Len(addSessQueue) : \A b \in Accounts : m_sessions'[b] # addSessQueue[i]
      BY <1>5, <2>1, SessionQueueAssumption DEF IInv, Fresh
    <2> QED BY <1>1, <2>3, <2>4, <2>5 DEF IInv, Fresh
  <1>11. Flagged'
    BY <1>3, <1>4 DEF Flagged
  <1>12. Member'
    <2> SUFFICES ASSUME NEW x \in Queued'
                 PROVE  /\ session'[x] # Nil /\ session'[x].player = "none"
                        /\ m_sessions'[session'[x].account] = x
      BY DEF Member
    <2>1. x \in Queued /\ x # p /\ x \in Pointers
      BY <1>1, QueuedIs
    <2>2. /\ session[x] # Nil /\ session[x].player = "none"
          /\ m_sessions[session[x].account] = x /\ session[x].account \in Accounts
      BY <2>1 DEF IInv, Member, TypeOK, Session
    <2>3. session[x].account # a
      BY <2>1, <2>2 DEF p
    <2> QED BY <1>3, <1>4, <1>5, <2>1, <2>2, <2>3
  <1>13. IsFiniteSet(Live')
    BY <1>7, FS_RemoveElement DEF IInv
  <1> QED BY <1>1, <1>8, <1>9, <1>10, <1>11, <1>12, <1>13 DEF IInv

\* A session is added: what AcceptSession does to the queue and the objects.
LEMMA AcceptIs ==
    ASSUME IInv, AcceptSession, NEW p, p = Head(addSessQueue),
           NEW a, a = session[p].account, NEW old, old = m_sessions[a],
           NEW q, q = QueueWithout(old)
    PROVE  /\ a \in Accounts /\ p \in Pointers /\ p \notin Queued
           /\ \A b \in Accounts : m_sessions[b] # p
           /\ old # Nil => /\ old \in Pointers /\ session[old] # Nil
                           /\ session[old].account = a
           /\ q \in Seq(Pointers) /\ IsInjective(q)
           /\ Range(q) \subseteq Queued \ {old}
           /\ LeftInOrder(m_QueuedPlayer, q, old)
           /\ m_sessions' = [m_sessions EXCEPT ![a] = p]
           /\ \/ m_QueuedPlayer' = Append(q, p) /\ Queued' = Range(q) \cup {p}
              \/ m_QueuedPlayer' = q /\ Queued' = Range(q)
           /\ m_QueuedPlayer' \in Seq(Pointers) /\ IsInjective(m_QueuedPlayer')
           /\ session' \in [Pointers -> Session \cup {Nil}]
           /\ old # Nil => session'[old] = Nil
           /\ \A x \in Pointers : x # old /\ x # p =>
                session'[x] = Released(session, q)[x]
           /\ session'[p] # Nil /\ session'[p].player = "none"
           /\ session'[p].account = a
           /\ session'[p].inQueue <=> p \in Queued'
           /\ visiting' = visiting /\ m_playerLimit' = m_playerLimit
           /\ m_disconnects' = m_disconnects
           /\ addSessQueue # <<>> /\ addSessQueue' = Tail(addSessQueue)
  <1>1. /\ addSessQueue # <<>> /\ addSessQueue' = Tail(addSessQueue)
        /\ visiting' = visiting /\ m_playerLimit' = m_playerLimit
        /\ m_disconnects' = m_disconnects
        /\ m_sessions' = [m_sessions EXCEPT ![a] = p]
    BY DEF AcceptSession
  <1>2. /\ p \in Pointers /\ session[p] \in Session /\ session[p] # Nil
        /\ session[p].player = "none" /\ a \in Accounts
        /\ p \notin Queued /\ \A b \in Accounts : m_sessions[b] # p
    BY <1>1, FirstToAdd
  <1>3. old # Nil => old \in Pointers /\ session[old] # Nil /\ session[old].account = a
    BY <1>2 DEF IInv, TypeOK, Owner
  <1>4. old # p
    BY <1>2
  <1>5. /\ q \in Seq(Pointers) /\ Rest(q, m_QueuedPlayer)
        /\ Range(q) \subseteq Queued \ {old}
        /\ LeftInOrder(m_QueuedPlayer, q, old)
    <2>1. m_QueuedPlayer \in Seq(Pointers) /\ IsInjective(m_QueuedPlayer)
      BY DEF IInv, TypeOK
    <2>2. CASE old = Nil
      <3>1. q = m_QueuedPlayer
        BY <2>2 DEF QueueWithout
      <3>2. Rest(q, q)
        BY <2>1, <3>1, LenProperties DEF Rest, IsInjective
      <3>3. LeftInOrder(q, q, old)
        BY <2>1, <3>1, RangeIs DEF LeftInOrder
      <3>4. Nil \notin Queued
        BY QueuedIs, SessionQueueAssumption
      <3> QED BY <2>1, <2>2, <3>1, <3>2, <3>3, <3>4 DEF Queued
    <2>3. CASE old # Nil
      <3> DEFINE n == Cardinality(Live)
      <3>1. n \in Int
        BY FS_CardinalityType DEF IInv
      <3>2. q = RemoveQueuedPlayer(m_QueuedPlayer, n, old)
        BY <2>3 DEF QueueWithout
      <3> HIDE DEF n
      <3> QED BY <2>1, <3>1, <3>2, RemoveQueuedPlayerIs DEF Removal, Queued
    <2> QED BY <2>2, <2>3
  <1>6. IsInjective(q)
    BY <1>5 DEF Rest
  <1> DEFINE r == Released(session, q)
             d == [r EXCEPT ![IF old = Nil THEN p ELSE old] =
                              IF old = Nil THEN @ ELSE Nil]
  <1>7. /\ r \in [Pointers -> Session \cup {Nil}]
        /\ r[p] = session[p]
    <2>1. Range(q) \subseteq Queued
      BY <1>5
    <2> QED BY <1>2, <2>1, ReleasedIs
  <1>8. \/ m_QueuedPlayer' = Append(q, p) /\ session' = [d EXCEPT ![p].inQueue = TRUE]
        \/ m_QueuedPlayer' = q /\ session' = d
    BY DEF AcceptSession
  <1> HIDE DEF r
  <1>9. /\ d \in [Pointers -> Session \cup {Nil}]
        /\ d[p] = session[p]
        /\ old # Nil => d[old] = Nil
        /\ \A x \in Pointers : x # old /\ x # p => d[x] = r[x]
    <2>1. CASE old = Nil
      BY <1>2, <1>7, <2>1
    <2>2. CASE old # Nil
      BY <1>2, <1>3, <1>4, <1>7, <2>2
    <2> QED BY <2>1, <2>2
  <1> HIDE DEF d
  <1>10. ~session[p].inQueue
    BY <1>2 DEF IInv, Flagged
  <1>11. CASE m_QueuedPlayer' = Append(q, p) /\ session' = [d EXCEPT ![p].inQueue = TRUE]
    <2> DEFINE s == [session[p] EXCEPT !.inQueue = TRUE]
    <2>1. s \in Session /\ s.account = session[p].account /\ s.player = session[p].player
      BY <1>2 DEF Session
    <2>2. s.inQueue
      BY <1>2 DEF Session
    <2>3. session' = [d EXCEPT ![p] = s]
      BY <1>9, <1>11
    <2> HIDE DEF s
    <2>4. /\ session' \in [Pointers -> Session \cup {Nil}] /\ session'[p] = s
          /\ old # Nil => session'[old] = Nil
          /\ \A x \in Pointers : x # old /\ x # p => session'[x] = r[x]
      BY <1>2, <1>3, <1>4, <1>9, <2>1, <2>3
    <2>5. s # Nil
      BY <2>1, SessionQueueAssumption
    <2>6. m_QueuedPlayer' \in Seq(Pointers)
      <3>1. q \in Seq(Pointers) /\ p \in Pointers /\ m_QueuedPlayer' = Append(q, p)
        BY <1>2, <1>5, <1>11
      <3> QED BY <3>1, AppendProperties
    <2>9. Queued' = Range(q) \cup {p}
      <3>1. q \in Seq(Pointers) /\ p \in Pointers /\ m_QueuedPlayer' = Append(q, p)
        BY <1>2, <1>5, <1>11
      <3>2. Range(Append(q, p)) = Range(q) \cup {p}
        BY <3>1, AppendedIs
      <3> QED BY <3>1, <3>2, Zenon DEF Queued
    <2>10. IsInjective(m_QueuedPlayer')
      <3>1. p \notin Range(q)
        BY <1>2, <1>5
      <3> QED BY <1>2, <1>5, <1>6, <1>11, <3>1, AppendedIs
    <2>11. session'[p].inQueue <=> p \in Queued'
      BY <2>2, <2>4, <2>9
    <2> QED BY <1>1, <1>2, <1>3, <1>5, <1>6, <1>11, <2>1, <2>4, <2>5, <2>6, <2>9,
               <2>10, <2>11 DEF r
  <1>12. CASE m_QueuedPlayer' = q /\ session' = d
    <2>1. Queued' = Range(q)
      BY <1>12 DEF Queued
    <2>2. session'[p].inQueue <=> p \in Queued'
      BY <1>2, <1>5, <1>9, <1>10, <1>12, <2>1
    <2> QED BY <1>1, <1>2, <1>3, <1>5, <1>6, <1>9, <1>12, <2>1, <2>2 DEF r
  <1> QED BY <1>8, <1>11, <1>12

LEMMA AcceptStep ==
    ASSUME IInv, AcceptSession
    PROVE  IInv'
  <1> DEFINE p == Head(addSessQueue)
             a == session[p].account
             old == m_sessions[a]
             q == QueueWithout(old)
             r == Released(session, q)
  <1>1. /\ a \in Accounts /\ p \in Pointers /\ p \notin Queued
        /\ \A b \in Accounts : m_sessions[b] # p
        /\ old # Nil => /\ old \in Pointers /\ session[old] # Nil
                        /\ session[old].account = a
        /\ Range(q) \subseteq Queued \ {old}
        /\ m_sessions' = [m_sessions EXCEPT ![a] = p]
        /\ Queued' \subseteq Range(q) \cup {p} /\ Range(q) \subseteq Queued'
        /\ m_QueuedPlayer' \in Seq(Pointers) /\ IsInjective(m_QueuedPlayer')
    BY AcceptIs
  <1>2. /\ session' \in [Pointers -> Session \cup {Nil}]
        /\ old # Nil => session'[old] = Nil
        /\ \A x \in Pointers : x # old /\ x # p => session'[x] = r[x]
        /\ session'[p] # Nil /\ session'[p].player = "none"
        /\ session'[p].account = a
        /\ session'[p].inQueue <=> p \in Queued'
        /\ visiting' = visiting /\ m_playerLimit' = m_playerLimit
        /\ m_disconnects' = m_disconnects
        /\ addSessQueue # <<>> /\ addSessQueue' = Tail(addSessQueue)
    BY AcceptIs
  <1>3. /\ addSessQueue' \in Seq(Pointers)
        /\ \A i \in 1..Len(addSessQueue') :
             \E k \in 1..Len(addSessQueue) :
               k = i + 1 /\ addSessQueue'[i] = addSessQueue[k]
        /\ \A i \in 1..Len(addSessQueue') :
             addSessQueue'[i] \in Pointers /\ addSessQueue'[i] # p
        /\ \A i, j \in 1..Len(addSessQueue') :
             addSessQueue'[i] = addSessQueue'[j] => i = j
    BY <1>2, FirstToAdd
  <1>4. \A x \in Pointers :
          /\ session[x] = Nil => r[x] = Nil
          /\ session[x] # Nil =>
               /\ r[x] # Nil /\ r[x].account = session[x].account
               /\ r[x].player = session[x].player
               /\ r[x].inQueue <=> x \in Range(q)
    <2>1. Range(q) \subseteq Queued
      BY <1>1
    <2> QED BY <2>1, ReleasedIs
  <1> HIDE DEF r, q
  <1>5. \A b \in Accounts : b # a => m_sessions[b] # old \/ old = Nil
    BY <1>1 DEF IInv, Owner
  <1>o. old = m_sessions[a]
    OBVIOUS
  <1> HIDE DEF old, a, p
  <1>6. m_sessions'[a] = p /\ \A b \in Accounts : b # a => m_sessions'[b] = m_sessions[b]
    BY <1>1 DEF IInv, TypeOK
  <1>7. Live' = Live \cup {a}
    BY <1>1, <1>6, SessionQueueAssumption DEF Live
  <1>8. TypeOK'
    <2>1. m_sessions' \in [Accounts -> Pointers \cup {Nil}]
      BY <1>1 DEF IInv, TypeOK
    <2>2. floor' \in Nat
      BY <1>2, SessionQueueAssumption DEF AcceptSession, KeepFloor, IInv, TypeOK
    <2>3. visiting' \subseteq Live'
      BY <1>2, <1>7 DEF IInv, TypeOK
    <2> QED BY <1>1, <1>2, <1>3, <2>1, <2>2, <2>3 DEF IInv, TypeOK
  <1>9. Owner'
    <2> SUFFICES ASSUME NEW b \in Accounts, m_sessions'[b] # Nil
                 PROVE  session'[m_sessions'[b]] # Nil /\ session'[m_sessions'[b]].account = b
      BY DEF Owner
    <2>1. CASE b = a
      BY <1>2, <1>6, <2>1
    <2>2. CASE b # a
      <3>1. m_sessions'[b] = m_sessions[b] /\ m_sessions[b] # p /\ m_sessions[b] # old
        BY <1>1, <1>5, <1>6, <2>2
      <3>2. m_sessions[b] \in Pointers
        BY <3>1 DEF IInv, TypeOK
      <3> QED BY <1>2, <1>4, <3>1, <3>2 DEF IInv, Owner
    <2> QED BY <2>1, <2>2
  <1>10. Fresh'
    <2>1. ASSUME NEW i \in 1..Len(addSessQueue'), NEW x, x = addSessQueue'[i]
          PROVE  /\ session'[x] # Nil /\ session'[x].player = "none"
                 /\ x \notin Queued' /\ \A b \in Accounts : m_sessions'[b] # x
      <3>1. PICK k \in 1..Len(addSessQueue) : x = addSessQueue[k]
        BY <1>3, <2>1
      <3>2. x \in Pointers /\ x # p
        BY <1>3, <2>1
      <3>3. /\ session[x] # Nil /\ session[x].player = "none" /\ x \notin Queued
            /\ \A b \in Accounts : m_sessions[b] # x
        BY <3>1 DEF IInv, Fresh
      <3>4. x # old
        BY <1>1, <1>o, <3>3
      <3> QED BY <1>1, <1>2, <1>4, <1>6, <3>2, <3>3, <3>4
    <2> QED BY <1>3, <2>1 DEF Fresh
  <1>11. Flagged'
    <2> SUFFICES ASSUME NEW x \in Pointers, session'[x] # Nil
                 PROVE  session'[x].inQueue <=> x \in Queued'
      BY DEF Flagged
    <2>1. CASE x = p
      BY <1>2, <2>1
    <2>2. CASE x # p
      <3>1. x # old
        BY <1>2, SessionQueueAssumption
      <3>2. session'[x] = r[x] /\ session[x] # Nil
        BY <1>2, <1>4, <2>2, <3>1
      <3> QED BY <1>1, <1>4, <2>2, <3>2
    <2> QED BY <2>1, <2>2
  <1>12. Member'
    <2> SUFFICES ASSUME NEW x \in Queued'
                 PROVE  /\ session'[x] # Nil /\ session'[x].player = "none"
                        /\ m_sessions'[session'[x].account] = x
      BY DEF Member
    <2>1. CASE x = p
      BY <1>2, <1>6, <2>1
    <2>2. CASE x # p
      <3>1. x \in Queued /\ x # old /\ x \in Pointers
        BY <1>1, <2>2, QueuedIs
      <3>2. /\ session[x] # Nil /\ session[x].player = "none"
            /\ m_sessions[session[x].account] = x /\ session[x].account \in Accounts
        BY <3>1 DEF IInv, Member, TypeOK, Session
      <3>3. session[x].account # a
        BY <1>o, <3>1, <3>2
      <3> QED BY <1>2, <1>4, <1>6, <2>2, <3>1, <3>2, <3>3
    <2> QED BY <2>1, <2>2
  <1>13. IsFiniteSet(Live')
    BY <1>7, FS_AddElement DEF IInv
  <1> QED BY <1>1, <1>8, <1>9, <1>10, <1>11, <1>12, <1>13 DEF IInv

LEMMA IInvStep == IInv /\ [Next]_vars => IInv'
  <1> SUFFICES ASSUME IInv, [Next]_vars PROVE IInv'
    OBVIOUS
  <1>1. CASE UNCHANGED vars
    BY <1>1 DEF vars, IInv, TypeOK, Owner, Fresh, Flagged, Member, Queued, Live
  <1>2. ASSUME NEW a \in Accounts, AddSession(a) PROVE IInv'
    BY <1>2, AddStep
  <1>3. CASE \/ \E p \in Pointers : CloseSocket(p)
             \/ \E a \in Accounts : KickPlayer(a) \/ KeepSession(a)
    BY <1>3, SmallSteps
  <1>4. ASSUME NEW limit \in Limits, SetPlayerAmountLimit(limit) PROVE IInv'
    <2>1. /\ UNCHANGED <<session, addSessQueue, m_sessions, m_QueuedPlayer,
                         m_disconnects, visiting>>
          /\ m_playerLimit' = limit
      BY <1>4 DEF SetPlayerAmountLimit
    <2>2. Queued' = Queued /\ Live' = Live
      BY <2>1 DEF Queued, Live
    <2>3. floor' \in Nat
      BY <1>4, SessionQueueAssumption
         DEF SetPlayerAmountLimit, KeepFloor, IInv, TypeOK
    <2>4. TypeOK'
      BY <2>1, <2>2, <2>3 DEF IInv, TypeOK
    <2>5. Owner' /\ Fresh' /\ Flagged' /\ Member'
      BY <2>1, <2>2 DEF IInv, Owner, Fresh, Flagged, Member
    <2> QED BY <2>1, <2>2, <2>4, <2>5 DEF IInv
  <1>5. CASE UpdateSessions
    <2>1. /\ UNCHANGED <<session, addSessQueue, m_sessions, m_QueuedPlayer,
                         m_playerLimit, m_disconnects, floor>>
          /\ visiting' = Live
      BY <1>5 DEF UpdateSessions
    <2>2. Queued' = Queued /\ Live' = Live
      BY <2>1 DEF Queued, Live
    <2>3. TypeOK'
      BY <2>1, <2>2 DEF IInv, TypeOK
    <2>4. Owner' /\ Fresh' /\ Flagged' /\ Member'
      BY <2>1, <2>2 DEF IInv, Owner, Fresh, Flagged, Member
    <2> QED BY <2>1, <2>2, <2>3, <2>4 DEF IInv
  <1>6. ASSUME NEW a \in Accounts, DropSession(a) PROVE IInv'
    BY <1>6, DropStep
  <1> QED BY <1>1, <1>2, <1>3, <1>4, <1>5, <1>6, RefuseStep, AcceptStep
          DEF Next, WorldThread

LEMMA IInvAlways == Spec => []IInv
  <1> QED BY IInvInit, IInvStep, PTL DEF Spec

\* Every variable has its type, and UpdateSessions visits only accounts that
\* still have a session.
THEOREM TypesKept == Spec => []TypeOK
  <1>1. IInv => TypeOK
    BY DEF IInv
  <1> QED BY <1>1, IInvAlways, PTL

\* The queue never holds a pointer to a deleted session, nor a session twice,
\* whichever sessions are replaced, kicked or expire while they wait: m_inQueue
\* is set for the sessions in it and for no other.
THEOREM QueueLive == Spec => []QueueIsLive
  <1>1. IInv => QueueIsLive
    BY IInvSays
  <1> QED BY <1>1, IInvAlways, PTL

\* Nobody gets a character before RemoveQueuedPlayer has let him in.
THEOREM NobodyPlaysEarly == Spec => []WaitingDoNotPlay
  <1>1. IInv => WaitingDoNotPlay
    BY IInvSays
  <1> QED BY <1>1, IInvAlways, PTL

------------------------------------------------------------------------------
(***************************************************************************)
(* The counting.  RemoveQueuedPlayer runs while the leaving session still  *)
(* counts, and it lets in at most one; the difference of all sessions and  *)
(* the queue, not either of them, is what stays above the limit.           *)
(***************************************************************************)

\* How many RemoveQueuedPlayer lets in.
LEMMA RemovalCounts ==
    ASSUME NEW q \in Seq(Pointers), NEW r, NEW total \in Nat, NEW p,
           Removal(q, r, total, p), m_playerLimit \in Nat
    PROVE  /\ Len(r) \in Nat /\ Len(q) \in Nat
           /\ p \in Range(q) =>
                /\ Len(q) >= 1
                /\ \/ Len(r) = Len(q) - 1
                   \/ /\ Len(r) = Len(q) - 2
                      /\ m_playerLimit = 0 \/ total - Len(q) < m_playerLimit
           /\ p \notin Range(q) =>
                \/ Len(r) = 0 /\ Len(q) = 0
                \/ /\ Len(r) = Len(q) /\ m_playerLimit > 0
                   /\ total - Len(q) - 1 >= m_playerLimit
                \/ /\ Len(r) = Len(q) - 1
                   /\ m_playerLimit = 0 \/ total - Len(q) - 1 < m_playerLimit
  <1>1. Len(r) \in Nat /\ Len(q) \in Nat
    BY DEF Removal
  <1>2. p \in Range(q) => Len(q) >= 1
    BY <1>1, RangeIs
  <1> QED BY <1>1, <1>2 DEF Removal, LenWithout, SessionsLeft, HasRoom

\* Somebody else left the queue only because there was room.
LEMMA RemovalPops ==
    ASSUME NEW q \in Seq(Pointers), NEW r, NEW total \in Nat, NEW p,
           Removal(q, r, total, p), m_playerLimit \in Nat,
           NEW x \in Range(q) \ {p}, x \notin Range(r)
    PROVE  /\ p \in Range(q) =>
                /\ Len(r) = Len(q) - 2
                /\ m_playerLimit = 0 \/ total - Len(q) < m_playerLimit
           /\ p \notin Range(q) =>
                /\ Len(r) = Len(q) - 1
                /\ m_playerLimit = 0 \/ total - Len(q) - 1 < m_playerLimit
  <1>1. Len(r) \in Nat /\ Len(q) \in Nat
    BY DEF Removal
  <1>2. Len(r) = LenWithout(q, p) - 1 /\ HasRoom(SessionsLeft(q, total, p))
    BY DEF Removal
  <1> QED BY <1>1, <1>2 DEF LenWithout, SessionsLeft, HasRoom

\* The floor is never above the limit, and only rises when nobody waits.
LEMMA FloorIs ==
    ASSUME KeepFloor, floor \in Nat, m_playerLimit' \in Nat
    PROVE  /\ floor' \in Nat /\ floor' <= m_playerLimit'
           /\ m_QueuedPlayer' # <<>> => floor' <= floor
  BY DEF KeepFloor

\* The invariant of the counting.
Places == floor <= m_playerLimit /\ NoIdlePlace

\* The sizes IInv speaks of are numbers.
LEMMA Numbers ==
    ASSUME IInv
    PROVE  /\ Cardinality(Live) \in Nat /\ Len(m_QueuedPlayer) \in Nat
           /\ m_playerLimit \in Nat /\ floor \in Nat
           /\ m_QueuedPlayer = <<>> <=> Len(m_QueuedPlayer) = 0
  <1>1. m_QueuedPlayer \in Seq(Pointers)
    BY DEF IInv, TypeOK
  <1>2. Cardinality(Live) \in Nat
    BY FS_CardinalityType DEF IInv
  <1>3. m_playerLimit \in Nat /\ floor \in Nat
    BY SessionQueueAssumption DEF IInv, TypeOK
  <1> QED BY <1>1, <1>2, <1>3, EmptySeq

\* Of the sessions of DropSession one leaves, and its two calls let in one
\* for it if anybody waits.
LEMMA DropPlaces ==
    ASSUME IInv, IInv', Places, NEW a \in Accounts, DropSession(a)
    PROVE  Places'
  <1> DEFINE p == m_sessions[a]
             n == Cardinality(Live)
             q == RemoveQueuedPlayer(m_QueuedPlayer, n, p)
             q2 == RemoveQueuedPlayer(q, n, p)
  <1>1. a \in Live /\ m_sessions' = [m_sessions EXCEPT ![a] = Nil] /\ m_playerLimit' = m_playerLimit
    BY DropIs
  <1>2. Live' = Live \ {a}
    BY <1>1 DEF Live, IInv, TypeOK
  <1>3. Cardinality(Live') = n - 1
    BY <1>1, <1>2, FS_RemoveElement DEF IInv
  <1>4. n \in Nat
    BY Numbers
  <1>5. m_QueuedPlayer' = q2 /\ KeepFloor
    BY DEF DropSession
  <1> HIDE DEF n
  <1>6. m_QueuedPlayer \in Seq(Pointers) /\ IsInjective(m_QueuedPlayer)
    BY DEF IInv, TypeOK
  <1>7. Removal(m_QueuedPlayer, q, n, p)
    BY <1>4, <1>6, RemoveQueuedPlayerIs
  <1>8. q \in Seq(Pointers) /\ IsInjective(q) /\ p \notin Range(q)
    BY <1>7 DEF Removal, Rest
  <1> HIDE DEF q, p
  <1>9. Removal(q, q2, n, p)
    BY <1>4, <1>8, RemoveQueuedPlayerIs
  <1> HIDE DEF q2
  <1>10. /\ floor' \in Nat /\ floor' <= m_playerLimit' /\ m_playerLimit' \in Nat
         /\ m_QueuedPlayer' # <<>> => floor' <= floor
    BY <1>1, <1>5, FloorIs, Numbers
  <1>11. ASSUME m_QueuedPlayer' # <<>>
         PROVE  n - 1 - Len(q2) >= floor'
    <2> DEFINE L == Len(m_QueuedPlayer)
               M == Len(q)
               N == Len(q2)
    <2>1. /\ L \in Nat /\ M \in Nat /\ N \in Nat /\ floor \in Nat /\ N > 0
          /\ m_playerLimit \in Nat
      BY <1>4, <1>5, <1>6, <1>7, <1>8, <1>9, <1>11, Numbers, RemovalCounts, EmptySeq
         DEF Removal
    <2>2. L > 0 => n - L >= floor
      BY <2>1, Numbers DEF Places, NoIdlePlace, ActiveCount, n
    <2>3. \/ N = 0 /\ M = 0
          \/ N = M /\ n - M - 1 >= m_playerLimit
          \/ N = M - 1
      BY <1>4, <1>8, <1>9, <2>1, RemovalCounts
    <2>4. CASE p \in Range(m_QueuedPlayer)
      <3>1. L >= 1 /\ M <= L - 1
        BY <1>4, <1>6, <1>7, <2>1, <2>4, RemovalCounts
      <3> HIDE DEF L, M, N
      <3> QED BY <1>1, <1>4, <1>10, <1>11, <2>1, <2>2, <2>3, <3>1 DEF N
    <2>5. CASE p \notin Range(m_QueuedPlayer)
      <3>1. \/ L = 0 /\ M = 0
            \/ L = M /\ n - L - 1 >= m_playerLimit
            \/ M = L - 1
        BY <1>4, <1>6, <1>7, <2>1, <2>5, RemovalCounts
      <3> HIDE DEF L, M, N
      <3> QED BY <1>1, <1>4, <1>10, <1>11, <2>1, <2>2, <2>3, <3>1 DEF N
    <2> QED BY <2>4, <2>5
  <1> QED BY <1>3, <1>5, <1>10, <1>11 DEF Places, NoIdlePlace, ActiveCount

\* What AcceptSession does to the numbers: n sessions in all, L in the queue
\* before the replaced session is out of it, M after.
Admission(p, a, old, q, n, L, M) ==
    /\ n \in Nat /\ L \in Nat /\ M \in Nat
    /\ old = Nil => M = L /\ Cardinality(Live') = n + 1
    /\ old # Nil => /\ Cardinality(Live') = n
                    /\ Removal(m_QueuedPlayer, q, n, old)
    /\ old # Nil /\ old \in Queued =>
         L >= 1 /\ (\/ M = L - 1
                    \/ /\ M = L - 2
                       /\ m_playerLimit = 0 \/ n - L < m_playerLimit)
    /\ old # Nil /\ old \notin Queued =>
         \/ L = 0 /\ M = 0
         \/ L = M /\ m_playerLimit > 0 /\ n - L - 1 >= m_playerLimit
         \/ /\ M = L - 1
            /\ m_playerLimit = 0 \/ n - L - 1 < m_playerLimit
    /\ \/ /\ m_QueuedPlayer' = Append(q, p) /\ Len(m_QueuedPlayer') = M + 1
          /\ m_playerLimit > 0 /\ Ordinary(a)
          /\ old # Nil /\ old \in Queued => n >= m_playerLimit
          /\ old # Nil /\ old \notin Queued => n - 1 >= m_playerLimit
          /\ old = Nil => n >= m_playerLimit
       \/ /\ m_QueuedPlayer' = q
          /\ \/ m_playerLimit = 0 \/ ~Ordinary(a)
             \/ /\ old # Nil /\ old \in Queued => n < m_playerLimit
                /\ old # Nil /\ old \notin Queued => n - 1 < m_playerLimit
                /\ old = Nil => n < m_playerLimit

LEMMA AcceptCounts ==
    ASSUME IInv, AcceptSession, NEW p, p = Head(addSessQueue),
           NEW a, a = session[p].account, NEW old, old = m_sessions[a],
           NEW q, q = QueueWithout(old), NEW n, n = Cardinality(Live),
           NEW L, L = Len(m_QueuedPlayer), NEW M, M = Len(q)
    PROVE  Admission(p, a, old, q, n, L, M)
  <1>1. /\ a \in Accounts /\ p \in Pointers /\ m_sessions' = [m_sessions EXCEPT ![a] = p]
        /\ q \in Seq(Pointers) /\ m_playerLimit' = m_playerLimit
    BY AcceptIs
  <1>2. Live' = Live \cup {a}
    BY <1>1, SessionQueueAssumption DEF Live, IInv, TypeOK
  <1>3. n \in Nat /\ L \in Nat /\ m_playerLimit \in Nat
    BY Numbers
  <1>4. Cardinality(Live') = IF old = Nil THEN n + 1 ELSE n
    <2>1. a \in Live <=> old # Nil
      BY <1>1 DEF Live
    <2> QED BY <1>2, <2>1, FS_AddElement DEF IInv
  <1>5. m_QueuedPlayer \in Seq(Pointers) /\ IsInjective(m_QueuedPlayer)
    BY DEF IInv, TypeOK
  <1>r. old # Nil => Removal(m_QueuedPlayer, q, n, old)
    BY <1>3, <1>5, RemoveQueuedPlayerIs DEF QueueWithout
  <1>6. /\ old # Nil /\ old \in Queued =>
             L >= 1 /\ (\/ M = L - 1
                        \/ /\ M = L - 2
                           /\ m_playerLimit = 0 \/ n - L < m_playerLimit)
        /\ old # Nil /\ old \notin Queued =>
             \/ L = 0 /\ M = 0
             \/ L = M /\ m_playerLimit > 0 /\ n - L - 1 >= m_playerLimit
             \/ /\ M = L - 1
                /\ m_playerLimit = 0 \/ n - L - 1 < m_playerLimit
    <2> SUFFICES ASSUME old # Nil
                 PROVE  /\ old \in Queued =>
                             L >= 1 /\ (\/ M = L - 1
                                        \/ /\ M = L - 2
                                           /\ m_playerLimit = 0 \/ n - L < m_playerLimit)
                        /\ old \notin Queued =>
                             \/ L = 0 /\ M = 0
                             \/ L = M /\ m_playerLimit > 0 /\ n - L - 1 >= m_playerLimit
                             \/ /\ M = L - 1
                                /\ m_playerLimit = 0 \/ n - L - 1 < m_playerLimit
      OBVIOUS
    <2>1. Removal(m_QueuedPlayer, q, n, old)
      BY <1>r
    <2>2. old \in Queued <=> old \in Range(m_QueuedPlayer)
      BY DEF Queued
    <2> HIDE DEF Queued
    <2> QED BY <1>3, <1>5, <2>1, <2>2, RemovalCounts
  <1>7. old = Nil => M = L
    BY DEF QueueWithout
  <1> DEFINE others == Cardinality(Live \cup {a}) -
                         (IF old # Nil /\ old \in Queued THEN 0 ELSE 1)
  <1>8. \/ MustWait(a, others) /\ m_QueuedPlayer' = Append(q, p)
        \/ ~MustWait(a, others) /\ m_QueuedPlayer' = q
    BY DEF AcceptSession
  <1>9. others = IF old # Nil /\ old \in Queued THEN n
                 ELSE IF old # Nil THEN n - 1 ELSE n
    BY <1>2, <1>3, <1>4
  <1> HIDE DEF others
  <1>10. M \in Nat
    BY <1>1, LenProperties
  <1>11. m_QueuedPlayer' = Append(q, p) => Len(m_QueuedPlayer') = M + 1
    BY <1>1, AppendedIs
  <1>12. MustWait(a, others) <=>
           m_playerLimit > 0 /\ others >= m_playerLimit /\ Ordinary(a)
    BY DEF MustWait, Ordinary
  <1>13. CASE MustWait(a, others) /\ m_QueuedPlayer' = Append(q, p)
    <2>1. others >= m_playerLimit /\ m_playerLimit > 0 /\ Ordinary(a)
      BY <1>12, <1>13
    <2>2. /\ old # Nil /\ old \in Queued => n >= m_playerLimit
          /\ old # Nil /\ old \notin Queued => n - 1 >= m_playerLimit
          /\ old = Nil => n >= m_playerLimit
      BY <1>9, <2>1
    <2> QED BY <1>3, <1>4, <1>r, <1>6, <1>7, <1>10, <1>11, <1>13, <2>1, <2>2
           DEF Admission
  <1>14. CASE ~MustWait(a, others) /\ m_QueuedPlayer' = q
    <2>1. m_playerLimit = 0 \/ ~Ordinary(a) \/ others < m_playerLimit
      BY <1>3, <1>9, <1>12, <1>14
    <2>2. \/ m_playerLimit = 0 \/ ~Ordinary(a)
          \/ /\ old # Nil /\ old \in Queued => n < m_playerLimit
             /\ old # Nil /\ old \notin Queued => n - 1 < m_playerLimit
             /\ old = Nil => n < m_playerLimit
      BY <1>9, <2>1
    <2> QED BY <1>3, <1>4, <1>r, <1>6, <1>7, <1>10, <1>14, <2>2 DEF Admission
  <1> QED BY <1>8, <1>13, <1>14

\* A new session waits when the places are taken; it may take the place of
\* the session it replaces only when nobody else can.
LEMMA AcceptPlaces ==
    ASSUME IInv, IInv', Places, AcceptSession
    PROVE  Places'
  <1> DEFINE p == Head(addSessQueue)
             a == session[p].account
             old == m_sessions[a]
             q == QueueWithout(old)
             n == Cardinality(Live)
             L == Len(m_QueuedPlayer)
             M == Len(q)
             N == Len(m_QueuedPlayer')
             K == Cardinality(Live')
  <1>1. /\ n \in Nat /\ L \in Nat /\ M \in Nat
        /\ old = Nil => M = L /\ K = n + 1
        /\ old # Nil => K = n
        /\ old # Nil /\ old \in Queued => L >= 1 /\ (M = L - 1 \/ M = L - 2)
        /\ old # Nil /\ old \notin Queued =>
             \/ L = 0 /\ M = 0
             \/ L = M /\ n - L - 1 >= m_playerLimit
             \/ M = L - 1
        /\ \/ /\ N = M + 1
              /\ old # Nil /\ old \notin Queued => n - 1 >= m_playerLimit
              /\ old = Nil => n >= m_playerLimit
           \/ N = M
    <2>0. Admission(p, a, old, q, n, L, M)
      BY AcceptCounts
    <2> HIDE DEF p, a, old, q, n, L, M, N, K
    <2>1. /\ n \in Nat /\ L \in Nat /\ M \in Nat
          /\ old = Nil => M = L /\ K = n + 1
          /\ old # Nil => K = n
      BY <2>0 DEF Admission, K, N
    <2>2. /\ old # Nil /\ old \in Queued => L >= 1 /\ (M = L - 1 \/ M = L - 2)
          /\ old # Nil /\ old \notin Queued =>
               \/ L = 0 /\ M = 0
               \/ L = M /\ n - L - 1 >= m_playerLimit
               \/ M = L - 1
      BY <2>0 DEF Admission, K, N
    <2>3. \/ /\ N = M + 1
             /\ old # Nil /\ old \notin Queued => n - 1 >= m_playerLimit
             /\ old = Nil => n >= m_playerLimit
          \/ N = M
      BY <2>0 DEF Admission, K, N, M, q
    <2> QED BY <2>1, <2>2, <2>3
  <1>2. m_playerLimit' = m_playerLimit /\ KeepFloor
    BY DEF AcceptSession
  <1>3. /\ floor' \in Nat /\ floor' <= m_playerLimit' /\ m_playerLimit' \in Nat
        /\ m_QueuedPlayer' # <<>> => floor' <= floor
    BY <1>2, FloorIs, Numbers
  <1>4. /\ floor \in Nat /\ m_playerLimit \in Nat
        /\ L > 0 => n - L >= floor
    BY Numbers DEF Places, NoIdlePlace, ActiveCount
  <1>5. m_QueuedPlayer' # <<>> => N \in Nat /\ N > 0
    <2>1. m_QueuedPlayer' \in Seq(Pointers)
      BY DEF IInv, TypeOK
    <2> QED BY <2>1, EmptySeq
  <1> HIDE DEF p, a, old, q, n, L, M, N, K
  <1>6. ASSUME m_QueuedPlayer' # <<>>
        PROVE  K - N >= floor'
    <2>1. CASE old = Nil
      BY <1>1, <1>2, <1>3, <1>4, <1>5, <1>6, <2>1
    <2>2. CASE old # Nil /\ old \in Queued
      BY <1>1, <1>2, <1>3, <1>4, <1>5, <1>6, <2>2
    <2>3. CASE old # Nil /\ old \notin Queued
      BY <1>1, <1>2, <1>3, <1>4, <1>5, <1>6, <2>3
    <2> QED BY <2>1, <2>2, <2>3
  <1> QED BY <1>3, <1>6 DEF Places, NoIdlePlace, ActiveCount, K, N

LEMMA PlacesInit == Init => Places
  <1> SUFFICES ASSUME Init PROVE Places
    OBVIOUS
  <1>1. m_playerLimit \in Nat
    BY SessionQueueAssumption DEF Init
  <1> QED BY <1>1 DEF Init, Places, NoIdlePlace

LEMMA PlacesStep == IInv /\ IInv' /\ Places /\ [Next]_vars => Places'
  <1> SUFFICES ASSUME IInv, IInv', Places, [Next]_vars PROVE Places'
    OBVIOUS
  <1>1. CASE UNCHANGED <<m_sessions, m_QueuedPlayer, m_playerLimit, floor>>
    BY <1>1 DEF Places, NoIdlePlace, ActiveCount, Live
  <1>2. ASSUME NEW limit \in Limits, SetPlayerAmountLimit(limit) PROVE Places'
    <2>1. /\ m_sessions' = m_sessions /\ m_QueuedPlayer' = m_QueuedPlayer
          /\ m_playerLimit' \in Nat /\ KeepFloor
      BY <1>2, SessionQueueAssumption DEF SetPlayerAmountLimit
    <2>2. /\ floor' \in Nat /\ floor' <= m_playerLimit'
          /\ m_QueuedPlayer' # <<>> => floor' <= floor
      BY <2>1, FloorIs, Numbers
    <2>3. ActiveCount' = ActiveCount /\ ActiveCount \in Int
      BY <2>1, Numbers DEF ActiveCount, Live
    <2>4. floor \in Nat
      BY Numbers
    <2> HIDE DEF ActiveCount
    <2> QED BY <2>1, <2>2, <2>3, <2>4 DEF Places, NoIdlePlace
  <1>3. ASSUME NEW a \in Accounts, DropSession(a) PROVE Places'
    BY <1>3, DropPlaces
  <1>4. CASE AcceptSession
    BY <1>4, AcceptPlaces
  <1> QED BY <1>1, <1>2, <1>3, <1>4
          DEF Next, WorldThread, AddSession, KickPlayer, CloseSocket, RefuseSession,
              UpdateSessions, KeepSession, vars

\* The counting of World::RemoveQueuedPlayer and World::AddSession_ leaves no
\* place empty while somebody waits: as many sessions play as the lowest limit
\* since the queue was last empty allows.
THEOREM PlacesAreTaken == Spec => []NoIdlePlace
  <1>1. Places => NoIdlePlace
    BY DEF Places
  <1> QED BY <1>1, IInvAlways, PlacesInit, PlacesStep, PTL DEF Spec

------------------------------------------------------------------------------
(***************************************************************************)
(* Who comes in, and when.                                                 *)
(***************************************************************************)

\* GetActiveSessionCount counts the accounts that have a session outside the
\* queue; the ordinary ones are some of them.
LEMMA ActiveIs ==
    ASSUME IInv
    PROVE  /\ OrdinaryCount \in Nat /\ OrdinaryCount <= ActiveCount
           /\ \A a \in Accounts : Active(a) /\ ~Ordinary(a) =>
                OrdinaryCount <= ActiveCount - 1
  <1> DEFINE q == m_QueuedPlayer
             W == {a \in Live : m_sessions[a] \in Queued}
             A == {a \in Accounts : Active(a)}
             O == {a \in Accounts : Active(a) /\ Ordinary(a)}
             f == [i \in 1..Len(q) |-> session[q[i]].account]
  <1>0. q \in Seq(Pointers) /\ Len(q) \in Nat /\ Cardinality(Live) \in Nat
    BY Numbers DEF IInv, TypeOK
  <1>q. \A x : x \in Queued <=> \E i \in 1..Len(q) : q[i] = x
    BY QueuedIs
  <1>i. \A i, j \in 1..Len(q) : q[i] = q[j] => i = j
    BY <1>0, LenProperties DEF IInv, IsInjective
  <1>1. \A i \in 1..Len(q) :
          /\ q[i] \in Queued /\ q[i] \in Pointers
          /\ f[i] \in Accounts /\ m_sessions[f[i]] = q[i]
    <2> SUFFICES ASSUME NEW i \in 1..Len(q)
                 PROVE  /\ q[i] \in Queued /\ q[i] \in Pointers
                        /\ f[i] \in Accounts /\ m_sessions[f[i]] = q[i]
      OBVIOUS
    <2>1. q[i] \in Queued /\ q[i] \in Pointers
      BY <1>q, QueuedIs
    <2>2. session[q[i]] # Nil /\ m_sessions[session[q[i]].account] = q[i]
      BY <2>1 DEF IInv, Member
    <2>3. session[q[i]].account \in Accounts
      BY <2>1, <2>2 DEF IInv, TypeOK, Session
    <2> QED BY <2>1, <2>2, <2>3
  <1>2. \A i \in 1..Len(q) : f[i] \in W
    BY <1>1, SessionQueueAssumption DEF Live
  <1>3. \A a \in W : \E i \in 1..Len(q) : f[i] = a
    <2> SUFFICES ASSUME NEW a \in W PROVE \E i \in 1..Len(q) : f[i] = a
      OBVIOUS
    <2>1. PICK i \in 1..Len(q) : q[i] = m_sessions[a]
      BY <1>q
    <2>2. session[m_sessions[a]].account = a
      BY DEF IInv, Owner, Live
    <2> QED BY <2>1, <2>2
  <1>4. \A i, j \in 1..Len(q) : f[i] = f[j] => i = j
    BY <1>1, <1>i
  <1>5. f \in [1..Len(q) -> W]
    BY <1>2
  <1> HIDE DEF f, W
  <1>6. f \in Bijection(1..Len(q), W)
    BY <1>3, <1>4, <1>5 DEF Bijection, Injection, Surjection, IsInjective
  <1>7. Cardinality(W) = Len(q)
    BY <1>0, <1>6, FS_CountingElements DEF ExistsBijection
  <1>8. A = Live \ W /\ W \subseteq Live /\ O \subseteq A
    BY DEF W, Live, Active
  <1> HIDE DEF A
  <1>9. Live \cap W = W
    BY <1>8
  <1>10. IsFiniteSet(A) /\ Cardinality(A) = Cardinality(Live) - Len(q)
    <2>1. /\ IsFiniteSet(Live \ W)
          /\ Cardinality(Live \ W) = Cardinality(Live) - Cardinality(Live \cap W)
      BY FS_Difference DEF IInv
    <2> QED BY <1>7, <1>8, <1>9, <2>1
  <1>11. Cardinality(A) = ActiveCount
    BY <1>10 DEF ActiveCount
  <1>12. OrdinaryCount = Cardinality(O)
    BY DEF OrdinaryCount
  <1>13. ASSUME NEW a \in Accounts, Active(a), ~Ordinary(a)
         PROVE  Cardinality(O) <= Cardinality(A) - 1
    <2>1. a \in A /\ O \subseteq A \ {a}
      BY <1>8, <1>13 DEF A
    <2>2. IsFiniteSet(A \ {a}) /\ Cardinality(A \ {a}) = Cardinality(A) - 1
      BY <1>10, <2>1, FS_RemoveElement
    <2> HIDE DEF O
    <2> QED BY <2>1, <2>2, FS_Subset
  <1> HIDE DEF O
  <1>14. Cardinality(O) \in Nat /\ Cardinality(O) <= Cardinality(A)
    BY <1>8, <1>10, FS_Subset, FS_CardinalityType
  <1> QED BY <1>11, <1>12, <1>13, <1>14

\* The same in the state after a step.
Counted ==
    /\ OrdinaryCount \in Nat /\ ActiveCount \in Int /\ OrdinaryCount <= ActiveCount
    /\ \A a \in Accounts : Active(a) /\ ~Ordinary(a) => OrdinaryCount <= ActiveCount - 1

LEMMA ThenCounted == IInv' => Counted'
  <1>1. IInv => Counted
    <2> SUFFICES ASSUME IInv PROVE Counted
      OBVIOUS
    <2>1. ActiveCount \in Int
      BY Numbers DEF ActiveCount
    <2> QED BY <2>1, ActiveIs DEF Counted
  <1> QED BY <1>1, PTL

\* A step that leaves the map and the queue alone lets nobody in.
LEMMA NobodyMoves ==
    ASSUME [Next]_vars
    PROVE  \/ UNCHANGED <<m_sessions, m_QueuedPlayer>>
           \/ AcceptSession \/ \E a \in Accounts : DropSession(a)
  BY DEF Next, WorldThread, AddSession, KickPlayer, CloseSocket, RefuseSession,
         UpdateSessions, KeepSession, SetPlayerAmountLimit, vars

LEMMA InTurnStep ==
    ASSUME IInv, IInv', [Next]_vars
    PROVE  InTurn
  <1>q. \A i \in 1..Len(m_QueuedPlayer) :
          m_QueuedPlayer[i] \in Queued /\ m_QueuedPlayer[i] \in Pointers
    BY QueuedIs
  <1>1. CASE UNCHANGED <<m_sessions, m_QueuedPlayer>>
    BY <1>1, <1>q DEF InTurn, Queued
  <1>2. ASSUME NEW a \in Accounts, DropSession(a) PROVE InTurn
    <2> DEFINE p == m_sessions[a]
    <2>1. /\ p \in Pointers /\ LeftInOrder(m_QueuedPlayer, m_QueuedPlayer', p)
          /\ session' = [Released(session, m_QueuedPlayer') EXCEPT ![p] = Nil]
          /\ Queued' \subseteq Queued \ {p}
      BY <1>2, DropIs
    <2>2. Range(m_QueuedPlayer') = Queued'
      BY DEF Queued
    <2>3. Released(session, m_QueuedPlayer') \in [Pointers -> Session \cup {Nil}]
      BY <2>1, <2>2, ReleasedIs
    <2>4. session'[p] = Nil
      BY <2>1, <2>3
    <2> HIDE DEF p
    <2> QED BY <2>1, <2>2, <2>4 DEF InTurn, LeftInOrder
  <1>3. CASE AcceptSession
    <2> DEFINE p == Head(addSessQueue)
               a == session[p].account
               old == m_sessions[a]
               q == QueueWithout(old)
    <2>1. /\ p \notin Queued /\ Range(q) \subseteq Queued \ {old}
          /\ LeftInOrder(m_QueuedPlayer, q, old)
          /\ \/ Queued' = Range(q) \cup {p}
             \/ Queued' = Range(q)
          /\ old # Nil => session'[old] = Nil
      BY <1>3, AcceptIs
    <2> HIDE DEF p, a, old, q
    <2>2. Nil \notin Queued
      BY QueuedIs, SessionQueueAssumption
    <2> SUFFICES ASSUME NEW i \in 1..Len(m_QueuedPlayer),
                        NEW j \in 1..Len(m_QueuedPlayer), i < j,
                        m_QueuedPlayer[j] \notin Queued',
                        session'[m_QueuedPlayer[j]] # Nil
                 PROVE  m_QueuedPlayer[i] \notin Queued'
      BY DEF InTurn
    <2>3. m_QueuedPlayer[j] # old /\ m_QueuedPlayer[j] \notin Range(q)
      BY <1>q, <2>1, <2>2
    <2>4. m_QueuedPlayer[i] \notin Range(q)
      BY <2>1, <2>3 DEF LeftInOrder
    <2> QED BY <1>q, <2>1, <2>4
  <1> QED BY <1>1, <1>2, <1>3, NobodyMoves

LEMMA NobodyPassesStep ==
    ASSUME IInv, IInv', Places, [Next]_vars
    PROVE  NobodyPasses
  <1> SUFFICES ASSUME NEW b \in Accounts, Ordinary(b), m_sessions[b] = Nil, Active(b)',
                      m_QueuedPlayer' # <<>>
               PROVE  m_playerLimit = 0 \/ floor < m_playerLimit
    BY DEF NobodyPasses
  <1>b. m_sessions'[b] # Nil /\ m_sessions'[b] \notin Queued'
    BY DEF Active
  <1>1. CASE UNCHANGED <<m_sessions, m_QueuedPlayer>>
    BY <1>b, <1>1
  <1>2. ASSUME NEW a \in Accounts, DropSession(a) PROVE FALSE
    <2>1. m_sessions' = [m_sessions EXCEPT ![a] = Nil]
      BY <1>2, DropIs
    <2> QED BY <1>b, <2>1 DEF IInv, TypeOK
  <1>3. CASE AcceptSession
    <2> DEFINE p == Head(addSessQueue)
               a == session[p].account
               old == m_sessions[a]
               q == QueueWithout(old)
               n == Cardinality(Live)
               L == Len(m_QueuedPlayer)
               M == Len(q)
    <2>1. m_sessions' = [m_sessions EXCEPT ![a] = p] /\ a \in Accounts /\ p \in Pointers
      BY <1>3, AcceptIs
    <2>2. Admission(p, a, old, q, n, L, M)
      BY <1>3, AcceptCounts
    <2> HIDE DEF p, n, L, M, q
    <2>3. b = a /\ m_sessions'[b] = p /\ old = Nil
      BY <1>b, <2>1 DEF IInv, TypeOK
    <2> HIDE DEF old, a
    <2>4. m_QueuedPlayer' # Append(q, p)
      <3>1. ASSUME m_QueuedPlayer' = Append(q, p) PROVE p \in Queued'
        <4>1. q \in Seq(Pointers)
          BY <1>3, AcceptIs DEF q, old, a, p
        <4>2. /\ m_QueuedPlayer' \in Seq(Pointers)
              /\ Len(q) + 1 \in 1..Len(m_QueuedPlayer') /\ m_QueuedPlayer'[Len(q) + 1] = p
          BY <2>1, <3>1, <4>1
        <4> QED BY <4>2, RangeIs DEF Queued
      <3> QED BY <1>b, <2>3, <3>1
    <2>5. m_playerLimit = 0 \/ n < m_playerLimit
      BY <2>2, <2>3, <2>4 DEF Admission
    <2>6. m_QueuedPlayer' = q /\ M = L /\ L \in Nat /\ n \in Nat
      BY <2>2, <2>3, <2>4 DEF Admission
    <2>7. L # 0
      <3>1. m_QueuedPlayer' \in Seq(Pointers)
        BY DEF IInv, TypeOK
      <3> QED BY <2>6, <3>1, EmptySeq DEF M
    <2>8. n - L >= floor /\ floor \in Nat /\ m_playerLimit \in Nat
      BY <2>7, Numbers DEF Places, NoIdlePlace, ActiveCount, n, L
    <2> QED BY <2>5, <2>6, <2>7, <2>8
  <1> QED BY <1>1, <1>2, <1>3, NobodyMoves

\* Whoever RemoveQueuedPlayer lets in was the first of those still there, and
\* AddSession_ lets no ordinary account past the queue unless the limit was
\* raised meanwhile.
THEOREM InTurnAlways == Spec => FirstComeFirstServed
  <1>1. IInv /\ IInv' /\ Places /\ [Next]_vars => InTurn /\ NobodyPasses
    BY InTurnStep, NobodyPassesStep
  <1>2. Spec => [][InTurn /\ NobodyPasses]_vars
    BY <1>1, IInvAlways, PlacesInit, PlacesStep, PTL DEF Spec
  <1> QED BY <1>2 DEF FirstComeFirstServed

\* DropSession lets somebody in only when the place left by its session, or
\* another one, is free.
LEMMA DropKeepsLimit ==
    ASSUME IInv, IInv', NEW a \in Accounts, DropSession(a),
           NEW x \in Queued \ Queued', x # m_sessions[a]
    PROVE  m_playerLimit = 0 \/ ActiveCount' <= m_playerLimit
  <1> DEFINE p == m_sessions[a]
             n == Cardinality(Live)
             q == RemoveQueuedPlayer(m_QueuedPlayer, n, p)
             q2 == RemoveQueuedPlayer(q, n, p)
  <1>1. a \in Live /\ m_sessions' = [m_sessions EXCEPT ![a] = Nil]
    BY DropIs
  <1>2. Live' = Live \ {a}
    BY <1>1 DEF Live, IInv, TypeOK
  <1>3. Cardinality(Live') = n - 1
    BY <1>1, <1>2, FS_RemoveElement DEF IInv
  <1>4. n \in Nat /\ m_playerLimit \in Nat
    BY Numbers
  <1>5. m_QueuedPlayer' = q2
    BY DEF DropSession
  <1> HIDE DEF n
  <1>6. m_QueuedPlayer \in Seq(Pointers) /\ IsInjective(m_QueuedPlayer)
    BY DEF IInv, TypeOK
  <1>7. Removal(m_QueuedPlayer, q, n, p)
    BY <1>4, <1>6, RemoveQueuedPlayerIs
  <1>8. q \in Seq(Pointers) /\ IsInjective(q) /\ p \notin Range(q)
    BY <1>7 DEF Removal, Rest
  <1>x. x # p
    OBVIOUS
  <1> HIDE DEF q, p
  <1>9. Removal(q, q2, n, p)
    BY <1>4, <1>8, RemoveQueuedPlayerIs
  <1> HIDE DEF q2
  <1>10. x \in Range(m_QueuedPlayer) /\ x \notin Range(q2)
    BY <1>5 DEF Queued
  <1> DEFINE L == Len(m_QueuedPlayer)
             M == Len(q)
             N == Len(q2)
  <1>11. L \in Nat /\ M \in Nat /\ N \in Nat
    BY <1>4, <1>6, <1>7, <1>8, <1>9, RemovalCounts
  <1>12. ActiveCount' = n - 1 - N
    BY <1>3, <1>5 DEF ActiveCount
  <1>13. CASE x \in Range(q)
    <2>1. m_playerLimit = 0 \/ n - M - 1 < m_playerLimit
      BY <1>4, <1>8, <1>9, <1>10, <1>13, <1>x, RemovalPops
    <2>2. N = M - 1
      BY <1>4, <1>8, <1>9, <1>10, <1>13, <1>x, RemovalPops
    <2> HIDE DEF L, M, N
    <2> QED BY <1>4, <1>11, <1>12, <2>1, <2>2
  <1>14. CASE x \notin Range(q)
    <2>1. \/ M = L - 2 /\ (m_playerLimit = 0 \/ n - L < m_playerLimit)
          \/ M = L - 1 /\ (m_playerLimit = 0 \/ n - L - 1 < m_playerLimit)
      BY <1>4, <1>6, <1>7, <1>10, <1>14, <1>x, RemovalPops
    <2>2. \/ N = M
          \/ N = M - 1 /\ (m_playerLimit = 0 \/ n - M - 1 < m_playerLimit)
      BY <1>4, <1>8, <1>9, RemovalCounts
    <2> HIDE DEF L, M, N
    <2> QED BY <1>4, <1>11, <1>12, <2>1, <2>2
  <1> QED BY <1>13, <1>14

\* AcceptSession: the account that comes, and one that was waiting.
LEMMA AcceptKeepsLimit ==
    ASSUME IInv, IInv', AcceptSession, m_playerLimit # 0,
           NEW b \in Accounts, Ordinary(b), Active(b)',
           ~Active(b) \/ m_sessions[b] # m_sessions'[b]
    PROVE  OrdinaryCount' <= m_playerLimit
  <1> SUFFICES ASSUME NEW p, p = Head(addSessQueue), NEW a, a = session[p].account
               PROVE  OrdinaryCount' <= m_playerLimit
    OBVIOUS
  <1> DEFINE old == m_sessions[a]
             q == QueueWithout(old)
             n == Cardinality(Live)
             L == Len(m_QueuedPlayer)
             M == Len(q)
             N == Len(m_QueuedPlayer')
             K == Cardinality(Live')
  <1>1. /\ m_sessions' = [m_sessions EXCEPT ![a] = p] /\ a \in Accounts /\ p \in Pointers
        /\ \/ m_QueuedPlayer' = Append(q, p) /\ Queued' = Range(q) \cup {p}
           \/ m_QueuedPlayer' = q /\ Queued' = Range(q)
        /\ q \in Seq(Pointers) /\ m_disconnects' = m_disconnects
        /\ p \notin Queued /\ Range(q) \subseteq Queued
        /\ old # Nil => session[old].account = a
    <2>1. ASSUME NEW o, o = old, NEW w, w = q
          PROVE  /\ m_sessions' = [m_sessions EXCEPT ![a] = p]
                 /\ a \in Accounts /\ p \in Pointers
                 /\ \/ m_QueuedPlayer' = Append(w, p) /\ Queued' = Range(w) \cup {p}
                    \/ m_QueuedPlayer' = w /\ Queued' = Range(w)
                 /\ w \in Seq(Pointers) /\ m_disconnects' = m_disconnects
                 /\ p \notin Queued /\ Range(w) \subseteq Queued
                 /\ o # Nil => session[o].account = a
      BY <2>1, AcceptIs
    <2> QED BY <2>1, Zenon
  <1>2. Admission(p, a, old, q, n, L, M)
    BY AcceptCounts
  <1> HIDE DEF n, L, M, N, K, q
  <1>3. m_sessions'[a] = p /\ \A c \in Accounts : c # a => m_sessions'[c] = m_sessions[c]
    BY <1>1 DEF IInv, TypeOK
  <1>o. \A c \in Accounts : c # a /\ m_sessions[c] # Nil => m_sessions[c] # old
    BY <1>1 DEF IInv, Owner
  <1> HIDE DEF old
  <1>4. /\ OrdinaryCount' \in Nat /\ OrdinaryCount' <= K - N
        /\ Active(a)' /\ ~Ordinary(a) => OrdinaryCount' <= K - N - 1
    <2>1. Ordinary(a)' = Ordinary(a)
      BY <1>1 DEF Ordinary, HasRecentlyDisconnected
    <2>2. ActiveCount' = K - N
      BY DEF ActiveCount, K, N
    <2> HIDE DEF OrdinaryCount, ActiveCount
    <2> QED BY <1>1, <2>1, <2>2, ThenCounted DEF Counted
  <1>5. m_playerLimit \in Nat /\ m_playerLimit > 0 /\ n \in Nat /\ L \in Nat /\ M \in Nat
    BY <1>2, Numbers DEF Admission
  <1>k. (old = Nil => K = n + 1 /\ M = L) /\ (old # Nil => K = n)
    BY <1>2 DEF Admission, K
  <1>b. m_sessions'[b] # Nil /\ m_sessions'[b] \notin Queued'
    BY DEF Active
  <1>6. CASE b = a
    <2>1. m_QueuedPlayer' = q
      BY <1>1, <1>3, <1>6, <1>b
    <2>2. N = M
      BY <2>1 DEF N, M
    <2>3. p \notin Range(q)
      BY <1>1
    <2>4. m_QueuedPlayer' # Append(q, p)
      <3>1. Len(Append(q, p)) = Len(q) + 1 /\ Len(q) \in Nat
        BY <1>1
      <3> QED BY <2>1, <3>1
    <2>5. /\ old # Nil /\ old \in Queued => n < m_playerLimit
          /\ old # Nil /\ old \notin Queued => n - 1 < m_playerLimit
          /\ old = Nil => n < m_playerLimit
      BY <1>2, <1>5, <1>6, <2>4 DEF Admission
    <2> QED BY <1>4, <1>5, <1>k, <2>2, <2>5
  <1>7. CASE b # a
    <2> DEFINE x == m_sessions[b]
    <2>1. x = m_sessions'[b] /\ x # Nil /\ x # old
      BY <1>3, <1>7, <1>b, <1>o
    <2>2. x \in Queued /\ x \notin Range(q)
      BY <1>1, <1>b, <2>1 DEF Active
    <2> HIDE DEF x
    <2>3. old # Nil
      BY <2>2 DEF q, QueueWithout, Queued
    <2>4. Removal(m_QueuedPlayer, q, n, old)
      BY <1>2, <2>3 DEF Admission
    <2>5. \/ old \in Queued /\ M = L - 2 /\ n - L < m_playerLimit
          \/ old \notin Queued /\ M = L - 1 /\ n - L - 1 < m_playerLimit
      <3>1. m_QueuedPlayer \in Seq(Pointers) /\ x \in Range(m_QueuedPlayer) \ {old}
        BY <2>1, <2>2 DEF Queued, IInv, TypeOK
      <3> QED BY <1>5, <2>2, <2>4, <3>1, RemovalPops DEF L, M, Queued
    <2>6. CASE m_QueuedPlayer' = Append(q, p)
      <3>1. N = M + 1
        BY <1>1, <2>6 DEF N, M
      <3> QED BY <1>4, <1>5, <1>k, <2>3, <2>5, <3>1
    <2>7. CASE m_QueuedPlayer' # Append(q, p)
      <3>1. m_QueuedPlayer' = q /\ N = M
        BY <1>1, <2>7 DEF N, M
      <3>2. p \notin Queued'
        BY <1>1, <2>7
      <3>3. Active(a)'
        BY <1>1, <1>3, <3>2, SessionQueueAssumption DEF Active
      <3>4. \/ ~Ordinary(a)
            \/ /\ old \in Queued => n < m_playerLimit
               /\ old \notin Queued => n - 1 < m_playerLimit
        BY <1>2, <1>5, <2>3, <2>7 DEF Admission
      <3> QED BY <1>4, <1>5, <1>k, <2>3, <2>5, <3>1, <3>3, <3>4
    <2> QED BY <2>6, <2>7
  <1> QED BY <1>6, <1>7

LEMMA LimitStep ==
    ASSUME IInv, IInv', [Next]_vars
    PROVE  WithinLimit
  <1> SUFFICES ASSUME NEW b \in Accounts, Ordinary(b), Active(b)',
                      ~Active(b) \/ m_sessions[b] # m_sessions'[b],
                      m_playerLimit # 0
               PROVE  OrdinaryCount' <= m_playerLimit
    BY DEF WithinLimit
  <1>b. m_sessions'[b] # Nil /\ m_sessions'[b] \notin Queued'
    BY DEF Active
  <1>1. CASE UNCHANGED <<m_sessions, m_QueuedPlayer>>
    BY <1>1 DEF Active, Queued
  <1>2. ASSUME NEW a \in Accounts, DropSession(a)
        PROVE  OrdinaryCount' <= m_playerLimit
    <2>1. m_sessions' = [m_sessions EXCEPT ![a] = Nil]
      BY <1>2, DropIs
    <2>2. b # a /\ m_sessions'[b] = m_sessions[b]
      BY <1>b, <2>1 DEF IInv, TypeOK
    <2>3. m_sessions[b] \in Queued \ Queued' /\ m_sessions[b] # m_sessions[a]
      <3>1. m_sessions[b] # m_sessions[a]
        BY <1>b, <2>2 DEF IInv, Owner
      <3> QED BY <1>b, <2>2, <3>1 DEF Active
    <2>4. ActiveCount' <= m_playerLimit
      BY <1>2, <2>3, DropKeepsLimit
    <2>6. /\ OrdinaryCount' \in Nat /\ OrdinaryCount' <= ActiveCount'
          /\ ActiveCount' \in Int
      BY ThenCounted DEF Counted
    <2>7. m_playerLimit \in Nat
      BY Numbers
    <2> HIDE DEF OrdinaryCount, ActiveCount
    <2> QED BY <2>4, <2>6, <2>7
  <1>3. CASE AcceptSession
    BY <1>3, AcceptKeepsLimit
  <1> QED BY <1>1, <1>2, <1>3, NobodyMoves

\* RemoveQueuedPlayer and AddSession_ keep PlayerLimit for the accounts it is
\* meant for, although the leaving session still counts while they decide.
THEOREM LimitAlwaysKept == Spec => LimitKept
  <1>1. IInv /\ IInv' /\ [Next]_vars => WithinLimit
    BY LimitStep
  <1>2. Spec => [][WithinLimit]_vars
    BY <1>1, IInvAlways, PTL DEF Spec
  <1> QED BY <1>2 DEF LimitKept
=============================================================================
