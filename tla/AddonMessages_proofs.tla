------------------------- MODULE AddonMessages_proofs -------------------------
(***************************************************************************)
(* Proofs about the messages to the client, for any messages, any length   *)
(* of a link and any number of packets, messages and reloads.              *)
(***************************************************************************)
EXTENDS AddonMessages, SequenceTheorems, FiniteSetTheorems, WellFoundedInduction,
        TLAPS

------------------------------------------------------------------------------
(***************************************************************************)
(* What the client joins is the message with its doubled characters.  The  *)
(* concatenation is a recursive function; what it computes is shown by a   *)
(* least counterexample, a set of numbers instead of a predicate.          *)
(***************************************************************************)

\* A set of natural numbers has a least element.
LEMMA LeastOf ==
    ASSUME NEW T, T \subseteq Nat, T # {}
    PROVE  \E m \in T : \A y \in T : m <= y
  <1> DEFINE R == OpToRel(<, Nat)
  <1>1. IsWellFoundedOn(R, Nat)
    BY NatLessThanWellFounded
  <1>2. \A x, y \in Nat : y < x => <<y, x>> \in R
    BY DEF OpToRel
  <1> HIDE DEF R
  <1>3. PICK x \in T : \A y \in T : ~ (<<y, x>> \in R)
    BY <1>1, WFMin
  <1>4. ASSUME NEW y \in T PROVE x <= y
    <2>1. x \in Nat /\ y \in Nat
      OBVIOUS
    <2>2. ~(y < x)
      BY <1>2, <1>3, <2>1
    <2> QED BY <2>1, <2>2
  <1> QED BY <1>4

\* g[i] is the first i sequences of c, one after the other.
Adds(g, c, n) == g = [i \in 1..n |-> IF i = 1 THEN c[i] ELSE g[i - 1] \o c[i]]

\* FlattenSeq is the only function that adds one sequence after the other.
LEMMA FlattenIs ==
    ASSUME NEW c, NEW n \in Nat \ {0}, Len(c) = n, NEW g, Adds(g, c, n)
    PROVE  FlattenSeq(c) = g[n]
  <1> DEFINE Rec(f) == f = [i \in 1..n |-> IF i = 1 THEN c[i] ELSE f[i - 1] \o c[i]]
             f == CHOOSE h : Rec(h)
  <1>1. FlattenSeq(c) = f[n]
    BY DEF FlattenSeq
  <1>2. Rec(f)
    <2>1. Rec(g)
      BY DEF Adds
    <2> HIDE DEF Rec
    <2> QED BY <2>1
  <1>3. \A i \in 1..n : f[i] = IF i = 1 THEN c[i] ELSE f[i - 1] \o c[i]
    BY <1>2
  <1>4. \A i \in 1..n : g[i] = IF i = 1 THEN c[i] ELSE g[i - 1] \o c[i]
    BY DEF Adds
  <1> HIDE DEF f
  <1>5. \A i \in 1..n : f[i] = g[i]
    <2> DEFINE T == {i \in 1..n : f[i] # g[i]}
    <2> SUFFICES ASSUME T # {} PROVE FALSE
      OBVIOUS
    <2>1. PICK m \in T : \A y \in T : m <= y
      <3>1. T \subseteq Nat
        OBVIOUS
      <3> HIDE DEF T
      <3> QED BY <3>1, LeastOf
    <2>2. m # 1
      BY <1>3, <1>4
    <2>3. m - 1 \in 1..n /\ m - 1 \notin T
      BY <2>1, <2>2
    <2> QED BY <1>3, <1>4, <2>2, <2>3
  <1> QED BY <1>1, <1>5

\* Division, where the divisor is not a number the provers know.
LEMMA DivIs ==
    ASSUME NEW y \in Nat, y > 0, NEW q \in Nat, NEW r \in 0..(y - 1),
           NEW x \in Nat, x = q * y + r
    PROVE  x \div y = q
  OBVIOUS

LEMMA DivBounds ==
    ASSUME NEW y \in Nat, y > 0, NEW x \in Nat
    PROVE  x \div y \in Nat /\ (x \div y) * y <= x /\ x < (x \div y) * y + y
  OBVIOUS

LEMMA Times ==
    ASSUME NEW a \in Int, NEW b \in Int, NEW c \in Int
    PROVE  /\ (a + b) * c = a * c + b * c /\ (a - 1) * c = a * c - c
           /\ a * c \in Int
  OBVIOUS

LEMMA TimesNat ==
    ASSUME NEW a \in Nat, NEW c \in Nat
    PROVE  a * c \in Nat
  OBVIOUS

LEMMA TimesMono ==
    ASSUME NEW a \in Nat, NEW b \in Nat, NEW c \in Nat, a <= b
    PROVE  a * c <= b * c
  <1> DEFINE k == b - a
  <1>1. k \in Nat /\ b = a + k /\ k \in Int
    OBVIOUS
  <1> HIDE DEF k
  <1>2. (a + k) * c = a * c + k * c
    BY <1>1, Times
  <1>3. k * c \in Nat /\ a * c \in Nat
    BY <1>1, TimesNat
  <1> QED BY <1>1, <1>2, <1>3

\* All links but the last are of splitLength + 1 characters.
LEMMA ChunkIs ==
    ASSUME NEW S, NEW msg \in Seq(S), Splits(msg) \in Nat \ {0},
           NEW c \in 1..Splits(msg)
    PROVE  /\ Chunk(msg, c) \in Seq(S)
           /\ c < Splits(msg) => Len(Chunk(msg, c)) = SplitLength + 1
           /\ c = Splits(msg) => Len(Chunk(msg, c)) = Len(msg) - (c - 1) * SplitLength
           /\ (c - 1) * SplitLength + Len(Chunk(msg, c)) <= Len(msg)
           /\ \A r \in 1..Len(Chunk(msg, c)) :
                Chunk(msg, c)[r] = msg[(c - 1) * SplitLength + r]
  <1> DEFINE n == Splits(msg)
             d == (c - 1) * SplitLength
             z == (n - 1) * SplitLength
             N == Len(msg)
  <1>1. SplitLength \in Nat /\ SplitLength > 0 /\ N \in Nat /\ n \in Nat /\ n >= 1
    BY AddonAssumption
  <1>2. n * SplitLength <= N + SplitLength - 1 /\ N + SplitLength - 1 < n * SplitLength + SplitLength
    <2>1. N + SplitLength - 1 \in Nat
      BY <1>1
    <2>2. n = (N + SplitLength - 1) \div SplitLength
      BY DEF Splits
    <2> QED BY <1>1, <2>1, <2>2, DivBounds
  <1>3. n * SplitLength = z + SplitLength /\ z \in Nat
    <2>1. n - 1 \in Nat /\ n \in Int /\ SplitLength \in Int
      BY <1>1
    <2> HIDE DEF n
    <2>2. (n - 1) * SplitLength = n * SplitLength - SplitLength /\ n * SplitLength \in Int
      BY <2>1, Times
    <2>3. z \in Nat
      BY <1>1, <2>1, TimesNat
    <2> HIDE DEF z
    <2> QED BY <2>1, <2>2, <2>3 DEF z
  <1>4. z < N /\ N <= z + SplitLength
    BY <1>1, <1>2, <1>3
  <1>5. d \in Nat
    BY <1>1
  <1>6. c < n => d + SplitLength <= z
    <2> SUFFICES ASSUME c < n PROVE c * SplitLength <= (n - 1) * SplitLength
      <3>1. c \in Int /\ SplitLength \in Int
        BY <1>1
      <3>2. d = c * SplitLength - SplitLength /\ c * SplitLength \in Int
        BY <3>1, Times
      <3> QED BY <3>1, <3>2
    <2> DEFINE k == n - 1 - c
    <2>1. k \in Nat /\ k \in Int /\ n - 1 = c + k /\ c \in Nat /\ SplitLength \in Int
      BY <1>1
    <2> HIDE DEF k
    <2>2. (c + k) * SplitLength = c * SplitLength + k * SplitLength
      BY <1>1, <2>1, Times
    <2>3. k * SplitLength \in Nat /\ c * SplitLength \in Nat
      BY <1>1, <2>1, TimesNat
    <2> QED BY <2>1, <2>2, <2>3
  <1>7. c = n => d = z
    OBVIOUS
  <1> HIDE DEF d, z, n
  <1>8. Chunk(msg, c) = IF d + 1 + SplitLength > N THEN SubSeq(msg, d + 1, N)
                                                   ELSE SubSeq(msg, d + 1, d + 1 + SplitLength)
    BY DEF Chunk, d
  <1>9. CASE c < n
    <2>1. d + 1 + SplitLength <= N
      BY <1>1, <1>3, <1>4, <1>5, <1>6, <1>9
    <2>2. Chunk(msg, c) = SubSeq(msg, d + 1, d + 1 + SplitLength)
      BY <1>1, <1>5, <1>8, <2>1
    <2> DEFINE e == d + 1 + SplitLength
               s == SubSeq(msg, d + 1, e)
    <2>3. e \in 1..N /\ d + 1 \in 1..N
      BY <1>1, <1>5, <2>1
    <2> HIDE DEF e
    <2>4. /\ s \in Seq(S) /\ Len(s) = e - (d + 1) + 1
          /\ \A r \in 1..(e - (d + 1) + 1) : s[r] = msg[(d + 1) + r - 1]
      <3>1. d + 1 \in Int /\ e \in Int /\ d + 1 <= e
        BY <1>1, <1>5, <2>3 DEF e
      <3>2. \A r \in (d + 1)..e : msg[r] \in S
        BY <1>1, <2>3, <3>1
      <3>3. ASSUME NEW o \in Int, o = d + 1, NEW f \in Int, f = e
            PROVE  /\ SubSeq(msg, o, f) \in Seq(S) /\ Len(SubSeq(msg, o, f)) = f - o + 1
                   /\ \A r \in 1..(f - o + 1) : SubSeq(msg, o, f)[r] = msg[o + r - 1]
        BY <3>1, <3>2, <3>3, SubSeqProperties
      <3> QED BY <3>1, <3>3
    <2> HIDE DEF s
    <2>5. Len(s) = SplitLength + 1
      BY <1>1, <1>5, <2>4 DEF e
    <2>6. \A r \in 1..Len(s) : s[r] = msg[d + r]
      <3> SUFFICES ASSUME NEW r \in 1..Len(s) PROVE s[r] = msg[d + r]
        OBVIOUS
      <3>1. (d + 1) + r - 1 = d + r /\ r \in 1..(e - (d + 1) + 1)
        BY <1>1, <1>5, <2>4, <2>5
      <3> QED BY <2>4, <3>1
    <2>7. Chunk(msg, c) = s
      BY <2>2 DEF s, e
    <2> QED BY <1>1, <1>5, <1>9, <2>1, <2>4, <2>5, <2>6, <2>7 DEF d, n
  <1>10. CASE c = n
    <2>1. d + 1 + SplitLength > N /\ d + 1 \in 1..N
      BY <1>1, <1>4, <1>5, <1>7, <1>10
    <2> DEFINE s == SubSeq(msg, d + 1, N)
    <2>2. Chunk(msg, c) = s
      BY <1>8, <2>1
    <2>4. /\ s \in Seq(S) /\ Len(s) = N - (d + 1) + 1
          /\ \A r \in 1..(N - (d + 1) + 1) : s[r] = msg[(d + 1) + r - 1]
      BY <1>1, <1>5, <2>1, SubSeqProperties
    <2> HIDE DEF s
    <2>5. Len(s) = N - d
      BY <1>1, <1>5, <2>4
    <2>6. \A r \in 1..Len(s) : s[r] = msg[d + r]
      <3> SUFFICES ASSUME NEW r \in 1..Len(s) PROVE s[r] = msg[d + r]
        OBVIOUS
      <3>1. (d + 1) + r - 1 = d + r /\ r \in 1..(N - (d + 1) + 1)
        BY <1>1, <1>5, <2>4, <2>5
      <3> QED BY <2>4, <3>1
    <2>7. ~(c < n)
      BY <1>1, <1>10
    <2>8. d + Len(s) <= N
      BY <1>1, <1>5, <2>5
    <2> QED BY <1>10, <2>2, <2>4, <2>5, <2>6, <2>7, <2>8 DEF d, n
  <1> QED BY <1>1, <1>9, <1>10 DEF n

\* The characters Doubled takes for link c.
LEMMA DoubledAt ==
    ASSUME NEW c \in Nat \ {0}, NEW r \in 1..(SplitLength + 1)
    PROVE  LET m == (c - 1) * (SplitLength + 1) + r
           IN  /\ m \in Nat /\ m >= 1
               /\ m - (m - 1) \div (SplitLength + 1) = (c - 1) * SplitLength + r
  <1> DEFINE y == SplitLength + 1
             m == (c - 1) * y + r
  <1>1. y \in Nat /\ y > 0 /\ SplitLength \in Nat /\ c - 1 \in Nat /\ r \in Nat /\ r - 1 \in 0..(y - 1)
    BY AddonAssumption
  <1>2. (c - 1) * y \in Nat
    BY <1>1, TimesNat
  <1>3. m \in Nat /\ m >= 1 /\ m - 1 = (c - 1) * y + (r - 1) /\ m - 1 \in Nat
    BY <1>1, <1>2
  <1>4. (m - 1) \div y = c - 1
    <2> HIDE DEF m, y
    <2> QED BY <1>1, <1>3, DivIs
  <1>5. (c - 1) * y = (c - 1) * SplitLength + (c - 1)
    <2> DEFINE a == c - 1
    <2>1. a \in Int /\ SplitLength \in Int
      BY <1>1
    <2> HIDE DEF a
    <2>2. a * (SplitLength + 1) = a * SplitLength + a
      BY <2>1
    <2> QED BY <2>2 DEF a
  <1>6. (c - 1) * SplitLength \in Nat
    BY <1>1, TimesNat
  <1> HIDE DEF m
  <1>7. m = (c - 1) * SplitLength + (c - 1) + r
    BY <1>5 DEF m
  <1>8. m - (c - 1) = (c - 1) * SplitLength + r
    <2> DEFINE b == (c - 1) * SplitLength
    <2> HIDE DEF b
    <2>1. b \in Nat /\ m = b + (c - 1) + r
      BY <1>6, <1>7 DEF b
    <2> QED BY <1>1, <2>1 DEF b
  <1> QED BY <1>3, <1>4, <1>8 DEF m

\* The message with its doubled characters, up to and including link i.
UpTo(msg, i) ==
    [m \in 1..(IF i = Splits(msg) THEN Len(msg) + i - 1 ELSE i * (SplitLength + 1)) |->
        msg[m - (m - 1) \div (SplitLength + 1)]]

LEMMA UpToIs ==
    ASSUME NEW S, NEW msg \in Seq(S), Splits(msg) \in Nat \ {0},
           NEW i \in 1..Splits(msg)
    PROVE  /\ UpTo(msg, i) \in Seq(S)
           /\ UpTo(msg, i) = IF i = 1 THEN Chunk(msg, i)
                                      ELSE UpTo(msg, i - 1) \o Chunk(msg, i)
  <1> DEFINE y == SplitLength + 1
             n == Splits(msg)
             N == Len(msg)
             d == (i - 1) * SplitLength
             b == (i - 1) * y
             C == Chunk(msg, i)
             L == IF i = n THEN N + i - 1 ELSE i * y
             U == UpTo(msg, i)
  <1>1. /\ SplitLength \in Nat /\ y \in Nat /\ y > 0 /\ N \in Nat /\ n \in Nat
        /\ i - 1 \in Nat /\ i \in Nat /\ i >= 1
    BY AddonAssumption
  <1>2. /\ C \in Seq(S)
        /\ i < n => Len(C) = y
        /\ i = n => Len(C) = N - d
        /\ d + Len(C) <= N
        /\ \A r \in 1..Len(C) : C[r] = msg[d + r]
    BY ChunkIs
  <1>3. d \in Nat /\ b \in Nat /\ b = d + (i - 1)
    <2> DEFINE a == i - 1
    <2>1. a \in Nat /\ a \in Int /\ SplitLength \in Int
      BY <1>1
    <2> HIDE DEF a
    <2>2. a * (SplitLength + 1) = a * SplitLength + a /\ a * SplitLength \in Nat /\ a * (SplitLength + 1) \in Nat
      BY <1>1, <2>1, TimesNat
    <2> QED BY <2>2 DEF a
  <1>4. i * y = b + y
    <2>1. i \in Int /\ y \in Int
      BY <1>1
    <2> HIDE DEF y
    <2>2. (i - 1) * y = i * y - y /\ i * y \in Int
      BY <2>1, Times
    <2> HIDE DEF b
    <2> QED BY <2>1, <2>2 DEF b
  <1>c. Len(C) \in Nat
    BY <1>2
  <1> HIDE DEF C, d, b
  <1>5. L = b + Len(C) /\ L \in Nat /\ Len(C) <= y
    <2>1. CASE i < n
      <3>1. L = i * y /\ Len(C) = y
        BY <1>1, <1>2, <2>1
      <3> HIDE DEF L, n, y
      <3> QED BY <1>1, <1>3, <1>4, <1>c, <3>1
    <2>2. CASE i = n
      <3>1. Len(C) <= y
        <4>1. N <= d + SplitLength
          <5>1. n = (N + SplitLength - 1) \div SplitLength
            BY DEF Splits
          <5>2. N + SplitLength - 1 \in Nat /\ SplitLength > 0
            BY <1>1, AddonAssumption
          <5>3. N + SplitLength - 1 < n * SplitLength + SplitLength
            BY <1>1, <5>1, <5>2, DivBounds
          <5>4. (i - 1) * SplitLength = i * SplitLength - SplitLength /\ i * SplitLength \in Int
            <6>1. i \in Int /\ SplitLength \in Int
              BY <1>1
            <6> QED BY <6>1, Times
          <5>5. d = n * SplitLength - SplitLength /\ n * SplitLength \in Int
            BY <2>2, <5>4 DEF d
          <5> HIDE DEF n
          <5>6. N < d + SplitLength + SplitLength - SplitLength + 1
            BY <1>1, <1>3, <5>3, <5>5
          <5> QED BY <1>1, <1>3, <5>6
        <4> QED BY <1>1, <1>2, <1>3, <1>c, <2>2, <4>1
      <3>2. L = N + i - 1
        BY <2>2
      <3>3. Len(C) = N - d
        BY <1>2, <2>2
      <3> HIDE DEF L, n, y, N
      <3> QED BY <1>1, <1>3, <1>c, <3>1, <3>2, <3>3
    <2> QED BY <1>1, <2>1, <2>2
  <1>6. U = [m \in 1..L |-> msg[m - (m - 1) \div y]]
    BY DEF UpTo
  <1> HIDE DEF L, U
  <1>7. \A r \in 1..Len(C) : b + r \in 1..L /\ U[b + r] = C[r]
    <2> SUFFICES ASSUME NEW r \in 1..Len(C)
                 PROVE  b + r \in 1..L /\ U[b + r] = C[r]
      OBVIOUS
    <2>1. b + r \in 1..L /\ r \in 1..y
      BY <1>1, <1>3, <1>5, <1>c
    <2>2. (b + r) - ((b + r) - 1) \div y = d + r
      BY <1>1, <2>1, DoubledAt DEF b, d
    <2>3. U[b + r] = msg[(b + r) - ((b + r) - 1) \div y]
      BY <1>6, <2>1
    <2> QED BY <1>2, <2>1, <2>2, <2>3
  <1>8. CASE i = 1
    <2>1. b = 0 /\ d = 0
      BY <1>1, <1>8 DEF b, d
    <2>2. L = Len(C) /\ \A r \in 1..Len(C) : U[r] = C[r]
      BY <1>5, <1>7, <1>c, <2>1
    <2>3. C = [m \in 1..Len(C) |-> C[m]]
      BY <1>2
    <2>4. U = [m \in 1..Len(C) |-> U[m]]
      BY <1>6, <2>2
    <2>5. U = C
      BY <2>2, <2>3, <2>4
    <2> QED BY <1>2, <1>8, <2>5 DEF U, C
  <1> DEFINE V == UpTo(msg, i - 1)
  <1>9. ASSUME i # 1 PROVE V = [m \in 1..b |-> U[m]]
    <2>1. i - 1 # n
      BY <1>1
    <2>2. V = [m \in 1..b |-> msg[m - (m - 1) \div y]]
      BY <2>1 DEF UpTo, b
    <2>3. \A m \in 1..b : m \in 1..L
      BY <1>3, <1>5, <1>c
    <2>4. \A m \in 1..b : U[m] = msg[m - (m - 1) \div y]
      BY <1>6, <2>3
    <2> HIDE DEF V
    <2> QED BY <2>2, <2>4
  <1> HIDE DEF V
  <1>10. CASE i # 1 /\ \A m \in 1..b : U[m] \in S
    <2>1. /\ V \in Seq(S) /\ Len(V) = b
          /\ \A m \in 1..b : V[m] = U[m]
      BY <1>3, <1>9, <1>10
    <2>2. /\ V \o C \in Seq(S) /\ Len(V \o C) = b + Len(C)
          /\ \A m \in 1..(b + Len(C)) :
               (V \o C)[m] = IF m <= b THEN V[m] ELSE C[m - b]
      <3>0. V \in Seq(S) /\ C \in Seq(S)
        BY <1>2, <2>1
      <3>1. /\ V \o C \in Seq(S) /\ Len(V \o C) = Len(V) + Len(C)
            /\ \A m \in 1..(Len(V) + Len(C)) :
                 (V \o C)[m] = IF m <= Len(V) THEN V[m] ELSE C[m - Len(V)]
        BY <3>0, ConcatProperties
      <3> QED BY <2>1, <3>1
    <2>3. \A m \in 1..L : (V \o C)[m] = U[m]
      <3> SUFFICES ASSUME NEW m \in 1..L PROVE (V \o C)[m] = U[m]
        OBVIOUS
      <3>1. CASE m <= b
        BY <1>3, <1>5, <1>c, <2>1, <2>2, <3>1
      <3>2. CASE ~(m <= b)
        <4>1. m - b \in 1..Len(C) /\ b + (m - b) = m
          BY <1>3, <1>5, <1>c, <3>2
        <4> QED BY <1>5, <1>7, <2>2, <3>2, <4>1
      <3> QED BY <3>1, <3>2
    <2>4. V \o C = [m \in 1..L |-> (V \o C)[m]]
      <3> DEFINE W == V \o C
      <3>1. W \in Seq(S) /\ Len(W) = L
        BY <1>5, <2>2
      <3> HIDE DEF W
      <3>2. W = [m \in 1..Len(W) |-> W[m]]
        BY <3>1
      <3> QED BY <3>1, <3>2 DEF W
    <2>5. U = [m \in 1..L |-> U[m]]
      BY <1>6
    <2>6. U = V \o C
      BY <2>3, <2>4, <2>5
    <2> QED BY <1>10, <2>2, <2>6 DEF U, V, C
  <1>11. \A m \in 1..b : U[m] \in S
    <2> SUFFICES ASSUME NEW m \in 1..b PROVE U[m] \in S
      OBVIOUS
    <2> DEFINE k == (m - 1) \div y
    <2>1. m - 1 \in Nat /\ m \in Nat /\ m <= b /\ m \in 1..L
      BY <1>3, <1>5, <1>c
    <2>2. k \in Nat /\ k * y <= m - 1 /\ m - 1 < k * y + y
      BY <1>1, <2>1, DivBounds
    <2>4. U[m] = msg[m - k]
      BY <1>6, <2>1
    <2> HIDE DEF k, y
    <2>5. k < i - 1
      <3> SUFFICES ASSUME i - 1 <= k PROVE FALSE
        BY <1>1, <2>2
      <3>1. (i - 1) * y <= k * y
        BY <1>1, <2>2, TimesMono
      <3>2. b <= k * y
        BY <3>1 DEF b
      <3>3. k * y \in Nat
        BY <1>1, <2>2, TimesNat
      <3> QED BY <1>3, <2>1, <2>2, <3>2, <3>3
    <2> DEFINE c == k + 1
               r == m - k * y
    <2>6. c \in 1..n /\ c < n /\ c \in Nat \ {0} /\ c - 1 = k
      BY <1>1, <2>2, <2>5
    <2>7. r \in 1..y /\ m = k * y + r
      BY <1>1, <2>1, <2>2
    <2> HIDE DEF c
    <2>8. /\ Len(Chunk(msg, c)) = y
          /\ k * SplitLength + Len(Chunk(msg, c)) <= N
      BY <2>6, ChunkIs DEF y
    <2>9. m - k = k * SplitLength + r
      <3>1. ((c - 1) * (SplitLength + 1) + r) - (((c - 1) * (SplitLength + 1) + r) - 1) \div (SplitLength + 1)
               = (c - 1) * SplitLength + r
        BY <2>6, <2>7, DoubledAt DEF y
      <3>2. (k * y + r) - ((k * y + r) - 1) \div y = k * SplitLength + r
        BY <2>6, <3>1 DEF y
      <3> HIDE DEF r
      <3> QED BY <2>7, <3>2 DEF k
    <2>10. k * SplitLength \in Nat
      BY <1>1, <2>2, TimesNat
    <2> HIDE DEF r
    <2>11. m - k \in 1..N
      BY <1>1, <2>2, <2>7, <2>8, <2>9, <2>10
    <2> QED BY <2>4, <2>11, ElementOfSeq
  <1> QED BY <1>8, <1>10, <1>11

\* What table.concat makes of all the links of a message.
LEMMA JoinedIs ==
    ASSUME NEW msg \in Messages, NEW t,
           \A i \in 1..Splits(msg) : t[i] = Chunk(msg, i)
    PROVE  Joined(t, Splits(msg)) = Doubled(msg)
  <1> DEFINE n == Splits(msg)
             S == ToSet(msg)
             c == [i \in 1..n |-> t[i]]
             g == [i \in 1..n |-> UpTo(msg, i)]
  <1>1. msg \in Seq(S) /\ n \in Nat \ {0}
    BY AddonAssumption DEF Links
  <1>2. \A i \in 1..n : c[i] = Chunk(msg, i)
    OBVIOUS
  <1>3. \A i \in 1..n : UpTo(msg, i) = IF i = 1 THEN c[i] ELSE UpTo(msg, i - 1) \o c[i]
    <2> HIDE DEF c, S
    <2> SUFFICES ASSUME NEW i \in 1..n
                 PROVE  UpTo(msg, i) = IF i = 1 THEN c[i] ELSE UpTo(msg, i - 1) \o c[i]
      OBVIOUS
    <2>1. UpTo(msg, i) = IF i = 1 THEN Chunk(msg, i) ELSE UpTo(msg, i - 1) \o Chunk(msg, i)
      BY <1>1, UpToIs, Zenon
    <2> QED BY <1>2, <2>1, Zenon
  <1>4. \A i \in 1..n : i # 1 => i - 1 \in 1..n
    BY <1>1
  <1>5. Adds(g, c, n)
    <2> HIDE DEF c, n
    <2> QED BY <1>3, <1>4 DEF Adds
  <1>6. Len(c) = n
    BY <1>1
  <1> HIDE DEF c, g
  <1>7. FlattenSeq(c) = g[n]
    BY <1>1, <1>5, <1>6, FlattenIs
  <1>8. g[n] = UpTo(msg, n)
    BY <1>1 DEF g
  <1>9. UpTo(msg, n) = Doubled(msg)
    BY DEF UpTo, Doubled
  <1> QED BY <1>7, <1>8, <1>9 DEF Joined, c

------------------------------------------------------------------------------
(***************************************************************************)
(* Client and channel.  A message is put on the channel as a whole, so the *)
(* links under way are whole messages one after the other, but for the     *)
(* first one, part of which the client may have.  The invariant says so,   *)
(* and that on a packet no reload has cut the client holds exactly the     *)
(* part that is gone from the channel.                                     *)
(***************************************************************************)

Texts == {Chunk(m, c) : m \in Messages, c \in Links}

Carried == [packet : Packets, link : Links, linkCount : Links, MSG : Texts,
            of : Messages]

\* A link is the part of its message that its number says.
Genuine(l) ==
    /\ l.linkCount = Splits(l.of) /\ l.link <= l.linkCount
    /\ l.MSG = Chunk(l.of, l.link)

\* After link l comes the next one of its message, or the first of another.
Follows(k, l) ==
    IF l.link < l.linkCount
    THEN k.packet = l.packet /\ k.of = l.of /\ k.link = l.link + 1
    ELSE k.link = 1

Types ==
    /\ channel \in Seq(Carried)
    /\ count \in [Packets -> Nat]
    /\ parts \in [Packets -> [Links -> Texts \cup {Nil}]]
    /\ cut \in [Packets -> BOOLEAN]

Chain ==
    /\ \A i \in 1..Len(channel) : Genuine(channel[i])
    /\ \A i \in 1..Len(channel) :
         IF i < Len(channel) THEN Follows(channel[i + 1], channel[i])
         ELSE channel[i].link = channel[i].linkCount

\* What the client has of a message of p.
Holds(p) ==
    IF channel # <<>> /\ channel[1].packet = p THEN channel[1].link - 1 ELSE 0

Client ==
    \A p \in Packets : ~cut[p] =>
        /\ count[p] = Holds(p)
        /\ \A i \in Links :
             parts[p][i] = IF i <= Holds(p) THEN Chunk(channel[1].of, i) ELSE Nil

IInv == Types /\ Chain /\ Client

LEMMA Constants ==
    /\ SplitLength \in Nat /\ MaxLinks \in Nat
    /\ \A m \in Messages :
         /\ Splits(m) \in Nat /\ Splits(m) >= 1 /\ Splits(m) <= MaxLinks
         /\ Splits(m) \in Links
         /\ \A c \in 1..Splits(m) : c \in Links /\ Chunk(m, c) # Nil /\ Chunk(m, c) \in Texts
  <1>1. SplitLength \in Nat /\ MaxLinks \in Nat
    BY AddonAssumption
  <1>2. \A m \in Messages : Splits(m) \in 1..MaxLinks
    BY AddonAssumption DEF Links
  <1>3. \A m \in Messages : \A c \in 1..Splits(m) : c \in Links /\ Chunk(m, c) # Nil
    BY <1>1, <1>2, AddonAssumption DEF Links
  <1> QED BY <1>1, <1>2, <1>3 DEF Texts, Links

\* What is known of a link under way.
LEMMA LinkIs ==
    ASSUME Types, Chain, NEW i \in 1..Len(channel), NEW l, l = channel[i]
    PROVE  /\ l \in Carried /\ l.packet \in Packets /\ l.of \in Messages
           /\ l.link \in Links /\ l.link \in Nat /\ l.link >= 1 /\ l.link <= l.linkCount
           /\ l.linkCount = Splits(l.of) /\ l.linkCount \in Nat /\ l.linkCount \in Links
           /\ l.MSG = Chunk(l.of, l.link) /\ l.MSG # Nil /\ l.MSG \in Texts
  <1>1. l \in Carried
    BY ElementOfSeq DEF Types
  <1>2. /\ l.packet \in Packets /\ l.of \in Messages /\ l.link \in Links
        /\ l.MSG \in Texts /\ l.linkCount \in Links
    BY <1>1 DEF Carried
  <1>3. l.linkCount = Splits(l.of) /\ l.link <= l.linkCount /\ l.MSG = Chunk(l.of, l.link)
    BY DEF Chain, Genuine
  <1>4. l.link \in Nat /\ l.link >= 1 /\ l.linkCount \in Nat
    BY <1>2, Constants DEF Links
  <1>5. l.link \in 1..Splits(l.of)
    BY <1>3, <1>4
  <1> QED BY <1>1, <1>2, <1>3, <1>4, <1>5, Constants

\* The first link of p under way is the first of all or begins a message.
LEMMA NextLinkIs ==
    ASSUME Types, Chain, NEW p \in Packets
    PROVE  Holds(p) = IF Under(p) = {} THEN 0 ELSE NextLink(p) - 1
  <1>0. channel \in Seq(Carried) /\ Len(channel) \in Nat
    BY DEF Types
  <1>1. CASE Under(p) = {}
    <2>1. ~(channel # <<>> /\ channel[1].packet = p)
      BY <1>0, <1>1, EmptySeq DEF Under
    <2> QED BY <1>1, <2>1 DEF Holds
  <1>2. CASE Under(p) # {}
    <2>1. Under(p) \subseteq Nat
      BY <1>0 DEF Under
    <2>2. PICK k \in Under(p) : \A y \in Under(p) : k <= y
      BY <1>2, <2>1, LeastOf
    <2>3. Min(Under(p)) = k
      <3> DEFINE U == Under(p)
      <3>1. \A x \in U : (\A y \in U : x =< y) => x = k
        BY <2>1, <2>2
      <3> HIDE DEF U
      <3>2. Min(U) = k
        BY <2>2, <3>1 DEF Min, U
      <3> QED BY <3>2 DEF U
    <2>4. NextLink(p) = channel[k].link /\ k \in 1..Len(channel) /\ channel[k].packet = p
      BY <2>3 DEF NextLink, Under
    <2>5. CASE k = 1
      <3>1. channel # <<>>
        BY <1>0, <2>4, EmptySeq
      <3> QED BY <1>2, <2>4, <2>5, <3>1 DEF Holds
    <2>6. CASE k # 1
      <3>1. k - 1 \in 1..Len(channel) /\ k - 1 < Len(channel) /\ (k - 1) + 1 = k /\ 1 \in 1..Len(channel)
        BY <1>0, <2>4, <2>6
      <3>2. k - 1 \notin Under(p) /\ 1 \notin Under(p)
        BY <2>1, <2>2, <2>4, <2>6, <3>1
      <3>3. channel[k - 1].packet # p /\ channel[1].packet # p
        BY <3>1, <3>2 DEF Under
      <3>4. Follows(channel[k], channel[k - 1])
        BY <3>1 DEF Chain
      <3>5. channel[k].link = 1
        BY <2>4, <3>3, <3>4 DEF Follows
      <3> QED BY <1>2, <2>4, <3>3, <3>5 DEF Holds
    <2> QED BY <2>5, <2>6
  <1> QED BY <1>1, <1>2

LEMMA HoldsIs ==
    ASSUME Types, Chain, NEW p \in Packets
    PROVE  Holds(p) \in Nat /\ Holds(p) \in 0..MaxLinks
  <1>0. channel \in Seq(Carried) /\ MaxLinks \in Nat
    BY Constants DEF Types
  <1>1. CASE channel # <<>>
    <2>1. 1 \in 1..Len(channel)
      BY <1>0, <1>1, EmptySeq
    <2>2. channel[1].link \in 1..MaxLinks
      BY <2>1, LinkIs DEF Links
    <2> QED BY <1>0, <2>2 DEF Holds
  <1> QED BY <1>0, <1>1 DEF Holds

\* The invariant gives the property.
LEMMA IInvSays == IInv => InStep
  <1> SUFFICES ASSUME IInv, NEW p \in Packets, ~cut[p]
               PROVE  /\ count[p] = (IF Under(p) = {} THEN 0 ELSE NextLink(p) - 1)
                      /\ Used(parts[p]) = 1..count[p]
    BY DEF InStep
  <1>1. Types /\ Chain /\ count[p] = Holds(p) /\ parts[p] \in [Links -> Texts \cup {Nil}]
    BY DEF IInv, Client, Types
  <1>2. count[p] = (IF Under(p) = {} THEN 0 ELSE NextLink(p) - 1)
    BY <1>1, NextLinkIs
  <1>3. \A i \in Links : parts[p][i] # Nil <=> i <= Holds(p)
    <2> SUFFICES ASSUME NEW i \in Links, i <= Holds(p) PROVE parts[p][i] # Nil
      BY DEF IInv, Client
    <2>1. i \in Nat /\ i >= 1 /\ Holds(p) # 0
      BY <1>1, HoldsIs, Constants DEF Links
    <2>2. channel # <<>> /\ Holds(p) = channel[1].link - 1
      BY <2>1 DEF Holds
    <2>3. 1 \in 1..Len(channel)
      BY <2>2, EmptySeq DEF IInv, Types
    <2>4. i \in 1..Splits(channel[1].of) /\ channel[1].of \in Messages
      <3>1. /\ channel[1].of \in Messages /\ channel[1].link \in Nat
            /\ channel[1].link <= Splits(channel[1].of) /\ Splits(channel[1].of) \in Nat
        BY <1>1, <2>3, LinkIs
      <3> QED BY <2>1, <2>2, <3>1
    <2>5. parts[p][i] = Chunk(channel[1].of, i)
      BY DEF IInv, Client
    <2> QED BY <2>4, <2>5, Constants
  <1>4. Holds(p) \in 0..MaxLinks /\ MaxLinks \in Nat
    BY <1>1, HoldsIs, Constants
  <1>5. Used(parts[p]) = {i \in Links : i <= Holds(p)}
    BY <1>1, <1>3 DEF Used
  <1>6. {i \in Links : i <= Holds(p)} = 1..Holds(p)
    BY <1>4 DEF Links
  <1> QED BY <1>1, <1>2, <1>5, <1>6

LEMMA IInvInit == Init => IInv
  <1> SUFFICES ASSUME Init PROVE IInv
    OBVIOUS
  <1>1. channel = <<>> /\ Len(channel) = 0
    BY DEF Init
  <1>2. Types
    BY DEF Init, Types, NoLinks
  <1>3. Chain
    BY <1>1 DEF Chain
  <1>4. \A p \in Packets : Holds(p) = 0
    BY <1>1 DEF Holds
  <1>5. Client
    BY <1>4 DEF Client, Init, NoLinks, Links
  <1> QED BY <1>2, <1>3, <1>5 DEF IInv

\* A message is added as a whole, after whole messages.
LEMMA SendStep ==
    ASSUME IInv, NEW m \in Messages, NEW q \in Packets, sendAddonMessage(m, q)
    PROVE  IInv'
  <1> DEFINE n == Splits(m)
             rec(c) == [packet |-> q, link |-> c, linkCount |-> n,
                        MSG |-> Chunk(m, c), of |-> m]
             new == [c \in 1..n |-> rec(c)]
             L == Len(channel)
  <1>1. channel' = channel \o new /\ UNCHANGED <<count, parts, cut>>
    BY DEF sendAddonMessage
  <1>2. n \in Nat /\ n >= 1 /\ n \in Links
    BY Constants
  <1>3. \A c \in 1..n : /\ rec(c) \in Carried /\ Genuine(rec(c))
                        /\ rec(c).packet = q /\ rec(c).link = c /\ rec(c).linkCount = n
                        /\ rec(c).of = m
    <2> SUFFICES ASSUME NEW c \in 1..n
                 PROVE  /\ rec(c) \in Carried /\ Genuine(rec(c))
                        /\ rec(c).packet = q /\ rec(c).link = c /\ rec(c).linkCount = n
                        /\ rec(c).of = m
      OBVIOUS
    <2>1. c \in Links /\ Chunk(m, c) \in Texts /\ c <= n
      BY <1>2, Constants
    <2> QED BY <1>2, <2>1 DEF Carried, Genuine
  <1> HIDE DEF rec
  <1>4. new \in Seq(Carried) /\ Len(new) = n /\ \A c \in 1..n : new[c] = rec(c)
    BY <1>2, <1>3
  <1>5. channel \in Seq(Carried) /\ L \in Nat
    BY DEF IInv, Types
  <1> HIDE DEF new, n
  <1>6. /\ channel' \in Seq(Carried) /\ Len(channel') = L + n
        /\ \A i \in 1..(L + n) : channel'[i] = IF i <= L THEN channel[i] ELSE rec(i - L)
    <2>1. /\ channel \o new \in Seq(Carried) /\ Len(channel \o new) = Len(channel) + Len(new)
          /\ \A i \in 1..(Len(channel) + Len(new)) :
               (channel \o new)[i] = IF i <= Len(channel) THEN channel[i] ELSE new[i - Len(channel)]
      BY <1>4, <1>5, ConcatProperties
    <2>2. \A i \in 1..(L + n) : ~(i <= L) => i - L \in 1..n
      BY <1>2, <1>5
    <2> QED BY <1>1, <1>4, <2>1, <2>2
  <1>7. \A i \in 1..L : i \in 1..(L + n)
    BY <1>2, <1>5
  <1>8. Types'
    BY <1>1, <1>6 DEF IInv, Types
  <1>9. Chain'
    <2>1. ASSUME NEW i \in 1..(L + n) PROVE Genuine(channel'[i])
      <3>1. CASE i <= L
        <4>1. i \in 1..L
          BY <1>5, <3>1
        <4> QED BY <1>6, <3>1, <4>1 DEF IInv, Chain
      <3>2. CASE ~(i <= L)
        <4>1. i - L \in 1..n
          BY <1>2, <1>5, <3>2
        <4> QED BY <1>3, <1>6, <3>2, <4>1
      <3> QED BY <3>1, <3>2
    <2>2. ASSUME NEW i \in 1..(L + n)
          PROVE  IF i < L + n THEN Follows(channel'[i + 1], channel'[i])
                 ELSE channel'[i].link = channel'[i].linkCount
      <3>1. CASE i < L
        <4>1. i \in 1..L /\ i + 1 <= L /\ i + 1 \in 1..(L + n) /\ i <= L /\ i < L + n
          BY <1>2, <1>5, <3>1
        <4>2. channel'[i] = channel[i] /\ channel'[i + 1] = channel[i + 1]
          BY <1>6, <4>1
        <4>3. Follows(channel[i + 1], channel[i])
          BY <3>1, <4>1 DEF IInv, Chain
        <4> QED BY <4>1, <4>2, <4>3
      <3>2. CASE i = L
        <4>1. i \in 1..L /\ i + 1 \in 1..(L + n) /\ ~(i + 1 <= L) /\ (i + 1) - L = 1 /\ i <= L /\ i < L + n
          BY <1>2, <1>5, <3>2
        <4>2. channel'[i] = channel[i] /\ channel'[i + 1] = rec(1)
          BY <1>6, <4>1
        <4>3. channel[i].link = channel[i].linkCount /\ channel[i].linkCount \in Nat
          BY <3>2, <4>1, LinkIs DEF IInv, Chain
        <4>4. rec(1).link = 1
          BY <1>2, <1>3
        <4> QED BY <4>1, <4>2, <4>3, <4>4 DEF Follows
      <3>3. CASE i > L /\ i < L + n
        <4> DEFINE c == i - L
        <4>1. /\ c \in 1..n /\ c + 1 \in 1..n /\ c < n /\ i + 1 \in 1..(L + n)
              /\ (i + 1) - L = c + 1 /\ ~(i <= L) /\ ~(i + 1 <= L)
          BY <1>2, <1>5, <3>3
        <4> HIDE DEF c
        <4>2. channel'[i] = rec(c) /\ channel'[i + 1] = rec(c + 1)
          BY <1>6, <4>1 DEF c
        <4>3. Follows(rec(c + 1), rec(c))
          BY <1>3, <4>1 DEF Follows
        <4> QED BY <3>3, <4>2, <4>3
      <3>4. CASE i = L + n
        <4>1. ~(i <= L) /\ i - L = n /\ n \in 1..n /\ ~(i < L + n)
          BY <1>2, <1>5, <3>4
        <4>2. channel'[i] = rec(n)
          BY <1>6, <4>1
        <4> QED BY <1>3, <4>1, <4>2
      <3> QED BY <1>2, <1>5, <3>1, <3>2, <3>3, <3>4
    <2> QED BY <1>6, <2>1, <2>2 DEF Chain
  <1>10. Client'
    <2>1. channel' # <<>> /\ 1 \in 1..(L + n)
      BY <1>2, <1>5, <1>6, EmptySeq
    <2>2. CASE channel # <<>>
      <3>1. 1 <= L
        BY <1>5, <2>2, EmptySeq
      <3>2. channel'[1] = channel[1]
        BY <1>6, <2>1, <3>1
      <3>3. ASSUME NEW p \in Packets
            PROVE  (Holds(p))' = Holds(p)
        BY <2>1, <2>2, <3>2 DEF Holds
      <3> QED BY <1>1, <3>2, <3>3 DEF IInv, Client
    <2>3. CASE channel = <<>>
      <3>1. L = 0
        BY <2>3
      <3>2. channel'[1].link = 1
        <4>1. ~(1 <= L) /\ 1 - L = 1
          BY <3>1
        <4> QED BY <1>2, <1>3, <1>6, <2>1, <4>1
      <3>3. ASSUME NEW p \in Packets
            PROVE  (Holds(p))' = 0 /\ Holds(p) = 0
        BY <2>3, <3>2 DEF Holds
      <3>4. \A i \in Links : ~(i <= 0)
        BY Constants DEF Links
      <3> QED BY <1>1, <3>3, <3>4 DEF IInv, Client
    <2> QED BY <2>2, <2>3
  <1> QED BY <1>8, <1>9, <1>10 DEF IInv

\* The first link is taken off: what is left, and what the client now has to
\* hold of it.
LEMMA ArrivesIs ==
    ASSUME IInv, NEW l, Arrives(l)
    PROVE  /\ l = channel[1] /\ 1 \in 1..Len(channel) /\ channel # <<>>
           /\ channel' \in Seq(Carried) /\ Chain'
           /\ \A p \in Packets : p # l.packet => (Holds(p))' = 0 /\ Holds(p) = 0
           /\ Holds(l.packet) = l.link - 1
           /\ l.link < l.linkCount =>
                /\ (Holds(l.packet))' = l.link /\ channel'[1].of = l.of
           /\ l.link = l.linkCount => (Holds(l.packet))' = 0
  <1> DEFINE L == Len(channel)
  <1>1. /\ channel \in Seq(Carried) /\ L \in Nat /\ channel # <<>> /\ L >= 1
        /\ l = channel[1] /\ 1 \in 1..L
    BY EmptySeq DEF IInv, Types, Arrives
  <1>2. /\ channel' \in Seq(Carried) /\ Len(channel') = L - 1
        /\ \A i \in 1..(L - 1) : channel'[i] = channel[i + 1]
    BY <1>1, HeadTailProperties DEF Arrives
  <1>3. \A i \in 1..(L - 1) : i \in 1..L /\ i + 1 \in 1..L /\ (i < L - 1 <=> i + 1 < L)
    BY <1>1
  <1>4. Chain'
    <2>1. ASSUME NEW i \in 1..(L - 1) PROVE Genuine(channel'[i])
      BY <1>2, <1>3 DEF IInv, Chain
    <2>2. ASSUME NEW i \in 1..(L - 1)
          PROVE  IF i < L - 1 THEN Follows(channel'[i + 1], channel'[i])
                 ELSE channel'[i].link = channel'[i].linkCount
      <3>1. CASE i < L - 1
        <4>1. i + 1 \in 1..(L - 1)
          BY <1>1, <3>1
        <4> QED BY <1>2, <1>3, <3>1, <4>1 DEF IInv, Chain
      <3>2. CASE ~(i < L - 1)
        BY <1>2, <1>3, <3>2 DEF IInv, Chain
      <3> QED BY <3>1, <3>2
    <2> QED BY <1>2, <2>1, <2>2 DEF Chain
  <1>5. /\ l.link \in Nat /\ l.linkCount \in Nat /\ l.link <= l.linkCount
    BY <1>1, LinkIs DEF IInv
  <1>6. channel' = <<>> <=> L = 1
    BY <1>1, <1>2, EmptySeq
  <1>7. CASE L = 1
    <2>1. l.link = l.linkCount
      BY <1>1, <1>7 DEF IInv, Chain
    <2>2. \A p : (Holds(p))' = 0
      BY <1>6, <1>7 DEF Holds
    <2> QED BY <1>1, <1>2, <1>4, <1>5, <2>1, <2>2 DEF Holds
  <1>8. CASE L # 1
    <2>1. 1 \in 1..(L - 1) /\ 1 < L /\ channel' # <<>>
      <3>1. L \in Nat /\ L >= 1
        BY <1>1
      <3>2. channel' # <<>>
        BY <1>6, <1>8
      <3> HIDE DEF L
      <3>3. 1 \in 1..(L - 1) /\ 1 < L
        BY <1>8, <3>1
      <3> QED BY <3>2, <3>3
    <2>2. channel'[1] = channel[2] /\ Follows(channel[2], channel[1])
      <3>1. channel'[1] = channel[1 + 1] /\ Follows(channel[1 + 1], channel[1])
        BY <1>1, <1>2, <2>1 DEF IInv, Chain
      <3> QED BY <3>1
    <2>3. CASE l.link < l.linkCount
      <3>1. /\ channel'[1].packet = l.packet /\ channel'[1].of = l.of
            /\ channel'[1].link = l.link + 1
        BY <1>1, <2>2, <2>3 DEF Follows
      <3>2. (Holds(l.packet))' = l.link
        BY <1>5, <2>1, <3>1 DEF Holds
      <3>3. \A p : p # l.packet => (Holds(p))' = 0 /\ Holds(p) = 0
        BY <1>1, <3>1 DEF Holds
      <3>4. Holds(l.packet) = l.link - 1
        BY <1>1 DEF Holds
      <3> QED BY <1>1, <1>2, <1>4, <1>5, <2>3, <3>1, <3>2, <3>3, <3>4
    <2>4. CASE l.link = l.linkCount
      <3>1. channel'[1].link = 1
        BY <1>1, <1>5, <2>2, <2>4 DEF Follows
      <3>2. \A p : (Holds(p))' = 0
        BY <3>1 DEF Holds
      <3> QED BY <1>1, <1>2, <1>4, <1>5, <2>4, <3>2 DEF Holds
    <2> QED BY <1>5, <2>3, <2>4
  <1> QED BY <1>7, <1>8

\* On a packet that is not cut the client stores the link it waits for.
LEMMA StoredIs ==
    ASSUME IInv, NEW l, Arrives(l)
    PROVE  /\ Stored(l) \in [Packets -> [Links -> Texts \cup {Nil}]]
           /\ \A p \in Packets : p # l.packet => Stored(l)[p] = parts[p]
           /\ ~cut[l.packet] => \A i \in Links :
                Stored(l)[l.packet][i] = IF i <= l.link THEN Chunk(l.of, i) ELSE Nil
  <1>1. /\ l.packet \in Packets /\ l.link \in Links /\ l.link \in Nat /\ l.link >= 1
        /\ l.MSG = Chunk(l.of, l.link) /\ l.MSG \in Texts /\ l = channel[1]
        /\ Holds(l.packet) = l.link - 1
    BY ArrivesIs, LinkIs DEF IInv
  <1>2. parts \in [Packets -> [Links -> Texts \cup {Nil}]]
    BY DEF IInv, Types
  <1>3. /\ Stored(l) \in [Packets -> [Links -> Texts \cup {Nil}]]
        /\ \A p \in Packets : p # l.packet => Stored(l)[p] = parts[p]
        /\ \A i \in Links : Stored(l)[l.packet][i] =
             IF i = l.link THEN l.MSG ELSE parts[l.packet][i]
    BY <1>1, <1>2 DEF Stored
  <1>4. ASSUME ~cut[l.packet], NEW i \in Links
        PROVE  Stored(l)[l.packet][i] = IF i <= l.link THEN Chunk(l.of, i) ELSE Nil
    <2>1. parts[l.packet][i] = IF i <= l.link - 1 THEN Chunk(l.of, i) ELSE Nil
      BY <1>1, <1>4 DEF IInv, Client
    <2>2. i \in Nat
      BY Constants DEF Links
    <2> QED BY <1>1, <1>3, <2>1, <2>2
  <1> QED BY <1>3, <1>4

\* The length of such a table is the number of links, and none is missing.
LEMMA BorderIs ==
    ASSUME IInv, NEW l, Arrives(l), ~cut[l.packet]
    PROVE  \A size \in Borders(Stored(l)[l.packet]) :
             size = l.link /\ Whole(Stored(l)[l.packet], size)
  <1> DEFINE t == Stored(l)[l.packet]
  <1>1. /\ l.link \in Links /\ l.link \in Nat /\ l.link >= 1 /\ l.link <= Splits(l.of)
        /\ l.of \in Messages /\ l.packet \in Packets /\ Splits(l.of) \in Nat
    BY ArrivesIs, LinkIs DEF IInv
  <1>2. /\ t \in [Links -> Texts \cup {Nil}]
        /\ \A i \in Links : t[i] = IF i <= l.link THEN Chunk(l.of, i) ELSE Nil
    BY <1>1, StoredIs
  <1> HIDE DEF t
  <1>3. MaxLinks \in Nat /\ \A i \in Links : i \in Nat /\ i >= 1 /\ i <= MaxLinks
    BY Constants DEF Links
  <1>4. \A i \in 1..l.link : i \in Links /\ t[i] # Nil
    <2> SUFFICES ASSUME NEW i \in 1..l.link PROVE i \in Links /\ t[i] # Nil
      OBVIOUS
    <2>1. i \in 1..Splits(l.of) /\ i <= l.link
      BY <1>1
    <2>2. i \in Links /\ Chunk(l.of, i) # Nil
      BY <1>1, <2>1, Constants
    <2> QED BY <1>2, <2>1, <2>2
  <1>5. Used(t) = 1..l.link
    <2>1. \A i \in Used(t) : i \in 1..l.link
      BY <1>1, <1>2, <1>3 DEF Used
    <2>2. \A i \in 1..l.link : i \in Used(t)
      BY <1>2, <1>4 DEF Used
    <2> QED BY <2>1, <2>2
  <1>6. \A size \in Borders(t) : size = l.link
    BY <1>1, <1>5 DEF Borders
  <1> QED BY <1>4, <1>6 DEF Whole, t

LEMMA ReceiveStep ==
    ASSUME IInv, Receive
    PROVE  IInv'
  <1> SUFFICES ASSUME NEW l, Arrives(l), cut' = cut,
                      \/ /\ count[l.packet] + 1 # l.linkCount
                         /\ count' = [count EXCEPT ![l.packet] = @ + 1]
                         /\ parts' = Stored(l)
                      \/ /\ count[l.packet] + 1 = l.linkCount
                         /\ count' = [count EXCEPT ![l.packet] = 0]
                         /\ parts' = [parts EXCEPT ![l.packet] = NoLinks]
                      \/ /\ count[l.packet] + 1 = l.linkCount
                         /\ \E size \in Borders(Stored(l)[l.packet]) :
                              ~Whole(Stored(l)[l.packet], size)
                         /\ count' = [count EXCEPT ![l.packet] = @ + 1]
                         /\ parts' = Stored(l)
               PROVE  IInv'
    <2>1. CASE ReceiveLink
      BY <2>1 DEF ReceiveLink
    <2>2. CASE ReceiveLast
      BY <2>2 DEF ReceiveLast
    <2>3. CASE ReceiveError
      BY <2>3 DEF ReceiveError
    <2> QED BY <2>1, <2>2, <2>3 DEF Receive
  <1>1. /\ channel' \in Seq(Carried) /\ Chain'
        /\ \A p \in Packets : p # l.packet => (Holds(p))' = 0 /\ Holds(p) = 0
        /\ Holds(l.packet) = l.link - 1
        /\ l.link < l.linkCount =>
             (Holds(l.packet))' = l.link /\ channel'[1].of = l.of
        /\ l.link = l.linkCount => (Holds(l.packet))' = 0
    BY ArrivesIs
  <1>2. /\ l.packet \in Packets /\ l.link \in Nat /\ l.linkCount \in Nat
        /\ l.link <= l.linkCount /\ l.link >= 1
    BY ArrivesIs, LinkIs DEF IInv
  <1>3. /\ Stored(l) \in [Packets -> [Links -> Texts \cup {Nil}]]
        /\ \A p \in Packets : p # l.packet => Stored(l)[p] = parts[p]
        /\ ~cut[l.packet] => \A i \in Links :
             Stored(l)[l.packet][i] = IF i <= l.link THEN Chunk(l.of, i) ELSE Nil
    BY StoredIs
  <1>4. count \in [Packets -> Nat] /\ parts \in [Packets -> [Links -> Texts \cup {Nil}]]
    BY DEF IInv, Types
  <1>5. NoLinks \in [Links -> Texts \cup {Nil}] /\ \A i \in Links : NoLinks[i] = Nil
    BY DEF NoLinks
  <1>6. Types'
    <2>1. count' \in [Packets -> Nat]
      BY <1>4
    <2>2. parts' \in [Packets -> [Links -> Texts \cup {Nil}]]
      BY <1>2, <1>3, <1>4, <1>5
    <2> QED BY <1>1, <2>1, <2>2 DEF IInv, Types
  <1>7. \A p \in Packets : p # l.packet => count'[p] = count[p] /\ parts'[p] = parts[p]
    BY <1>2, <1>3, <1>4
  <1>8. ASSUME NEW p \in Packets, p # l.packet, ~cut[p]
        PROVE  /\ count'[p] = (Holds(p))'
               /\ \A i \in Links : parts'[p][i] =
                    IF i <= (Holds(p))' THEN Chunk(channel'[1].of, i) ELSE Nil
    <2>1. (Holds(p))' = 0 /\ Holds(p) = 0 /\ count'[p] = count[p] /\ parts'[p] = parts[p]
      BY <1>1, <1>7, <1>8
    <2>2. \A i \in Links : ~(i <= 0)
      BY Constants DEF Links
    <2> QED BY <1>8, <2>1, <2>2 DEF IInv, Client
  <1>9. ASSUME ~cut[l.packet]
        PROVE  /\ count'[l.packet] = (Holds(l.packet))'
               /\ \A i \in Links : parts'[l.packet][i] =
                    IF i <= (Holds(l.packet))' THEN Chunk(channel'[1].of, i) ELSE Nil
    <2>1. count[l.packet] = l.link - 1
      BY <1>1, <1>2, <1>9 DEF IInv, Client
    <2>2. CASE l.link < l.linkCount
      <3>1. count'[l.packet] = l.link /\ parts' = Stored(l)
        BY <1>2, <1>4, <2>1, <2>2
      <3> QED BY <1>1, <1>3, <1>9, <2>2, <3>1
    <2>3. CASE l.link = l.linkCount
      <3>1. \A size \in Borders(Stored(l)[l.packet]) : Whole(Stored(l)[l.packet], size)
        BY <1>9, BorderIs
      <3>2. count'[l.packet] = 0 /\ parts'[l.packet] = NoLinks
        BY <1>2, <1>4, <2>1, <2>3, <3>1
      <3>3. \A i \in Links : ~(i <= 0)
        BY Constants DEF Links
      <3> QED BY <1>1, <1>5, <2>3, <3>2, <3>3
    <2> QED BY <1>2, <2>2, <2>3
  <1>10. Client'
    <2> SUFFICES ASSUME NEW p \in Packets, ~cut[p]
                 PROVE  /\ count'[p] = (Holds(p))'
                        /\ \A i \in Links : parts'[p][i] =
                             IF i <= (Holds(p))' THEN Chunk(channel'[1].of, i) ELSE Nil
      BY DEF Client
    <2> QED BY <1>8, <1>9
  <1> QED BY <1>1, <1>6, <1>10 DEF IInv

\* A reload leaves the client with nothing; that is right unless the first
\* link under way is not the first of its message.
LEMMA ReloadStep ==
    ASSUME IInv, ReloadUI
    PROVE  IInv'
  <1>1. /\ channel' = channel
        /\ count' = [p \in Packets |-> 0] /\ parts' = [p \in Packets |-> NoLinks]
        /\ cut' = [p \in Packets |-> Under(p) # {} /\ NextLink(p) # 1]
    BY DEF ReloadUI
  <1>2. Types'
    BY <1>1 DEF IInv, Types, NoLinks
  <1>3. Chain'
    BY <1>1 DEF IInv, Chain
  <1>4. ASSUME NEW p \in Packets, ~cut'[p]
        PROVE  (Holds(p))' = 0
    <2>1. Under(p) = {} \/ NextLink(p) = 1
      BY <1>1, <1>4
    <2>2. Holds(p) = 0
      BY <2>1, NextLinkIs DEF IInv
    <2> QED BY <1>1, <2>2 DEF Holds
  <1>5. \A i \in Links : ~(i <= 0) /\ NoLinks[i] = Nil
    BY Constants DEF Links, NoLinks
  <1>6. Client'
    BY <1>1, <1>4, <1>5 DEF Client
  <1> QED BY <1>2, <1>3, <1>6 DEF IInv

LEMMA IInvStep == IInv /\ [Next]_vars => IInv'
  <1> SUFFICES ASSUME IInv, [Next]_vars PROVE IInv'
    OBVIOUS
  <1>1. CASE UNCHANGED vars
    BY <1>1 DEF vars, IInv, Types, Chain, Client, Holds
  <1> QED BY <1>1, SendStep, ReceiveStep, ReloadStep DEF Next

LEMMA IInvAlways == Spec => []IInv
  BY IInvInit, IInvStep, PTL DEF Spec

\* Whatever is sent on however many packets, and whenever the user interface is
\* reloaded: on a packet no reload has cut, eventHandlerMainFrame has counted
\* and stored exactly the links of the message that is still under way.
THEOREM StaysInStep == Spec => []InStep
  BY IInvSays, IInvAlways, PTL

\* Every message eventHandlerMainFrame shows on such a packet is the one whose
\* last link just arrived, with one character doubled at every boundary of two
\* links: sendAddonMessage cuts it with string.sub(msg, i, i + splitLength).
THEOREM ShownAsItWasSent == Spec => ShownAsSent
  <1> DEFINE A == (/\ channel # <<>> /\ ~cut[Head(channel).packet] /\ Receive
                   /\ Head(channel).link = Head(channel).linkCount)
                  => shown' = Doubled(Head(channel).of)
  <1>1. ASSUME IInv, channel # <<>>, ~cut[Head(channel).packet], Receive,
               Head(channel).link = Head(channel).linkCount
        PROVE  shown' = Doubled(Head(channel).of)
    <2>0. \E l : /\ Arrives(l)
                 /\ \/ count[l.packet] + 1 # l.linkCount
                    \/ \E size \in Borders(Stored(l)[l.packet]) :
                         shown' = Joined(Stored(l)[l.packet], size)
                    \/ \E size \in Borders(Stored(l)[l.packet]) :
                         ~Whole(Stored(l)[l.packet], size)
      BY <1>1 DEF Receive, ReceiveLink, ReceiveLast, ReceiveError
    <2>1. PICK l : /\ Arrives(l)
                   /\ \/ count[l.packet] + 1 # l.linkCount
                      \/ \E size \in Borders(Stored(l)[l.packet]) :
                           shown' = Joined(Stored(l)[l.packet], size)
                      \/ \E size \in Borders(Stored(l)[l.packet]) :
                           ~Whole(Stored(l)[l.packet], size)
      BY <2>0
    <2>2. l = Head(channel)
      BY <2>1 DEF Arrives
    <2>3. ~cut[l.packet] /\ l.link = l.linkCount
      BY <1>1, <2>2
    <2>4. /\ l.packet \in Packets /\ l.link \in Nat /\ l.of \in Messages
          /\ l.linkCount = Splits(l.of) /\ Holds(l.packet) = l.link - 1
      BY <1>1, <2>1, ArrivesIs, LinkIs DEF IInv
    <2>5. count[l.packet] + 1 = l.linkCount
      BY <1>1, <2>3, <2>4 DEF IInv, Client
    <2>6. \A size \in Borders(Stored(l)[l.packet]) :
            size = l.link /\ Whole(Stored(l)[l.packet], size)
      BY <1>1, <2>1, <2>3, BorderIs
    <2>7. shown' = Joined(Stored(l)[l.packet], Splits(l.of))
      BY <2>1, <2>3, <2>4, <2>5, <2>6
    <2>8. \A i \in 1..Splits(l.of) : Stored(l)[l.packet][i] = Chunk(l.of, i)
      <3>1. \A i \in Links :
              Stored(l)[l.packet][i] = IF i <= l.link THEN Chunk(l.of, i) ELSE Nil
        BY <1>1, <2>1, <2>3, StoredIs
      <3>2. \A i \in 1..Splits(l.of) : i \in Links /\ i <= l.link
        BY <2>3, <2>4, Constants
      <3> QED BY <3>1, <3>2
    <2>9. Joined(Stored(l)[l.packet], Splits(l.of)) = Doubled(l.of)
      BY <2>4, <2>8, JoinedIs
    <2> QED BY <2>2, <2>7, <2>9
  <1>2. IInv => A
    BY <1>1
  <1>3. Spec => [][A]_vars
    <2> HIDE DEF A
    <2> QED BY <1>2, IInvAlways, PTL DEF Spec
  <1> QED BY <1>3 DEF ShownAsSent
=============================================================================
