---------------------------- MODULE ServiceProofs ----------------------------
(***************************************************************************)
(* A session of one programmer and one target on a path that keeps the     *)
(* order of requests implements the service of FlashService: retries, and  *)
(* lost or repeated datagrams, are not visible to the caller.              *)
(***************************************************************************)
EXTENDS OrderedProofs, SessionService, FiniteSetTheorems

-----------------------------------------------------------------------------
(***************************************************************************)
(* Numbers in ascending order                                              *)
(***************************************************************************)
UpTo(S, h)  == {k \in S : k <= h}
Above(S, h) == {k \in S : k > h}
Rank(S, n)  == Cardinality(UpTo(S, n))

\* The rank of a number grows with the number, up to the size of the set.
LEMMA RankFacts ==
  ASSUME NEW S \in SUBSET Nat, IsFiniteSet(S)
  PROVE  /\ Cardinality(S) \in Nat
         /\ \A n \in Nat : IsFiniteSet(UpTo(S, n)) /\ Rank(S, n) \in 0 .. Cardinality(S)
         /\ \A n \in S : Rank(S, n) \in 1 .. Cardinality(S)
         /\ \A m, n \in S : m < n => Rank(S, m) < Rank(S, n)
<1>1. Cardinality(S) \in Nat
  BY FS_CardinalityType
<1>2. \A n \in Nat : IsFiniteSet(UpTo(S, n)) /\ Rank(S, n) \in 0 .. Cardinality(S)
  <2> TAKE n \in Nat
  <2>1. UpTo(S, n) \in SUBSET S
    BY DEF UpTo
  <2>2. IsFiniteSet(UpTo(S, n)) /\ Rank(S, n) <= Cardinality(S)
    BY <2>1, FS_Subset DEF Rank
  <2>3. Rank(S, n) \in Nat
    BY <2>2, FS_CardinalityType DEF Rank
  <2> QED BY <1>1, <2>2, <2>3
<1>3. \A n \in S : Rank(S, n) \in 1 .. Cardinality(S)
  <2> TAKE n \in S
  <2>1. n \in Nat /\ n \in UpTo(S, n)
    BY DEF UpTo
  <2>2. Rank(S, n) # 0
    BY <1>2, <2>1, FS_EmptySet DEF Rank
  <2> QED BY <1>1, <1>2, <2>1, <2>2
<1>4. \A m, n \in S : m < n => Rank(S, m) < Rank(S, n)
  <2> TAKE m, n \in S
  <2> HAVE m < n
  <2>1. m \in Nat /\ n \in Nat
    OBVIOUS
  <2>2. UpTo(S, m) \in SUBSET UpTo(S, n)
    <3>1. \A k \in S : k \in Nat /\ (k <= m => k <= n)
      BY <2>1
    <3> QED BY <3>1 DEF UpTo
  <2>3. n \in UpTo(S, n) /\ n \notin UpTo(S, m)
    BY <2>1 DEF UpTo
  <2>4. IsFiniteSet(UpTo(S, n)) /\ Rank(S, m) \in Nat /\ Rank(S, n) \in Nat
    BY <1>2, <2>1
  <2>5. Rank(S, m) <= Rank(S, n) /\ Rank(S, n) # Rank(S, m)
    BY <2>2, <2>3, <2>4, FS_Subset DEF Rank
  <2> QED BY <2>4, <2>5
<1> QED BY <1>1, <1>2, <1>3, <1>4

\* Nth() is the inverse of the rank.
LEMMA NthFacts ==
  ASSUME NEW S \in SUBSET Nat, IsFiniteSet(S)
  PROVE  /\ \A i \in 1 .. Cardinality(S) : Nth(S, i) \in S /\ Rank(S, Nth(S, i)) = i
         /\ \A n \in S : Nth(S, Rank(S, n)) = n
<1> DEFINE N == 1 .. Cardinality(S)
           rank == [n \in S |-> Rank(S, n)]
<1>1. \A m, n \in S : Rank(S, m) = Rank(S, n) => m = n
  <2> TAKE m, n \in S
  <2>1. m \in Nat /\ n \in Nat /\ Rank(S, m) \in Nat /\ Rank(S, n) \in Nat
    BY RankFacts
  <2>2. (m < n => Rank(S, m) < Rank(S, n)) /\ (n < m => Rank(S, n) < Rank(S, m))
    BY RankFacts
  <2> QED BY <2>1, <2>2
<1>2. rank \in [S -> N]
  BY RankFacts
<1>3. rank \in Injection(S, N)
  BY <1>1, <1>2 DEF Injection, IsInjective
<1>4. Cardinality(S) \in Nat
  BY RankFacts
<1>5. IsFiniteSet(N) /\ Cardinality(N) = Cardinality(S)
  BY <1>4, FS_Interval
<1>6. rank \in Surjection(S, N)
  <2> HIDE DEF rank, N
  <2> QED BY <1>3, <1>5, FS_Injection
<1>7. \A i \in N : \E n \in S : Rank(S, n) = i
  BY <1>6 DEF Surjection
<1>8. ASSUME NEW i \in N
      PROVE  Nth(S, i) \in S /\ Rank(S, Nth(S, i)) = i
  <2>1. \E n \in S : Cardinality({k \in S : k <= n}) = i
    BY <1>7 DEF Rank, UpTo
  <2> QED BY <2>1 DEF Nth, Rank, UpTo
<1>9. ASSUME NEW n \in S
      PROVE  Nth(S, Rank(S, n)) = n
  <2>1. Rank(S, n) \in N
    BY RankFacts
  <2> QED BY <1>1, <1>8, <2>1
<1> QED BY <1>8, <1>9

\* A list has one element for each number.
LEMMA ListedFacts ==
  ASSUME NEW S \in SUBSET Nat, IsFiniteSet(S), NEW C, NEW f \in [S -> C]
  PROVE  /\ Listed(S, f) \in Seq(C) /\ Len(Listed(S, f)) = Cardinality(S)
         /\ \A i \in 1 .. Cardinality(S) : Listed(S, f)[i] = f[Nth(S, i)]
         /\ \A n \in S : Listed(S, f)[Rank(S, n)] = f[n]
<1>1. Cardinality(S) \in Nat
  BY RankFacts
<1>2. \A i \in 1 .. Cardinality(S) : f[Nth(S, i)] \in C
  BY NthFacts
<1>3. Listed(S, f) \in [1 .. Cardinality(S) -> C]
  BY <1>2 DEF Listed
<1>4. Listed(S, f) \in Seq(C) /\ Len(Listed(S, f)) = Cardinality(S)
  BY <1>1, <1>3
<1>5. \A i \in 1 .. Cardinality(S) : Listed(S, f)[i] = f[Nth(S, i)]
  BY DEF Listed
<1>6. \A n \in S : Listed(S, f)[Rank(S, n)] = f[n]
  BY <1>5, RankFacts, NthFacts
<1> QED BY <1>4, <1>5, <1>6

\* The numbers above h are those that follow it in the order.
LEMMA RankAbove ==
  ASSUME NEW S \in SUBSET Nat, IsFiniteSet(S), NEW h \in Nat
  PROVE  /\ IsFiniteSet(Above(S, h))
         /\ Cardinality(S) = Rank(S, h) + Cardinality(Above(S, h))
         /\ \A n \in Above(S, h) : Rank(S, n) = Rank(S, h) + Rank(Above(S, h), n)
         /\ \A i \in 1 .. Cardinality(Above(S, h)) :
              Nth(Above(S, h), i) = Nth(S, Rank(S, h) + i)
<1> DEFINE A == Above(S, h)
<1>1. A \in SUBSET S /\ A \in SUBSET Nat
  BY DEF Above
<1>2. IsFiniteSet(A) /\ IsFiniteSet(UpTo(S, h))
  BY <1>1, FS_Subset, RankFacts
<1>0. \A k \in S : k \in Nat /\ (k <= h <=> ~(k > h))
  OBVIOUS
<1>3. S = UpTo(S, h) \cup A /\ UpTo(S, h) \cap A = {}
  BY <1>0 DEF UpTo, Above
<1>4. ASSUME NEW n \in A
      PROVE  UpTo(S, n) = UpTo(S, h) \cup UpTo(A, n) /\ UpTo(S, h) \cap UpTo(A, n) = {}
  <2>1. \A k \in S : k <= n <=> k <= h \/ (k > h /\ k <= n)
    BY <1>0, <1>1, <1>4 DEF Above
  <2> QED BY <1>0, <2>1 DEF UpTo, Above
<1>5. Rank(S, h) \in Nat /\ Cardinality(A) \in Nat
  BY <1>1, <1>2, RankFacts
<1> HIDE DEF A
<1>6. Cardinality(S) = Rank(S, h) + Cardinality(A)
  <2>1. Cardinality(S) = Cardinality(UpTo(S, h)) + Cardinality(A) - Cardinality({})
    BY <1>2, <1>3, FS_Union
  <2> QED BY <1>5, <2>1, FS_EmptySet DEF Rank
<1>7. \A n \in A : Rank(S, n) = Rank(S, h) + Rank(A, n)
  <2> TAKE n \in A
  <2>1. n \in Nat /\ IsFiniteSet(UpTo(A, n)) /\ Rank(A, n) \in Nat
    BY <1>1, <1>2, RankFacts
  <2>2. Rank(S, n) = Cardinality(UpTo(S, h)) + Cardinality(UpTo(A, n)) - Cardinality({})
    BY <1>2, <1>4, <2>1, FS_Union DEF Rank
  <2> QED BY <1>5, <2>1, <2>2, FS_EmptySet DEF Rank
<1>8. ASSUME NEW i \in 1 .. Cardinality(A)
      PROVE  Nth(A, i) = Nth(S, Rank(S, h) + i)
  <2>1. Nth(A, i) \in A /\ Rank(A, Nth(A, i)) = i
    BY <1>1, <1>2, NthFacts
  <2>2. Nth(A, i) \in S /\ Rank(S, Nth(A, i)) = Rank(S, h) + i
    BY <1>1, <1>7, <2>1
  <2> QED BY <2>2, NthFacts
<1> QED BY <1>2, <1>6, <1>7, <1>8 DEF A

\* t is what comes after the first i elements of s.
IsEnd(s, t, i) == i \in 0 .. Len(s) /\ t = SubSeq(s, i + 1, Len(s))

\* So their list is the end of the list of all.
LEMMA ListedAbove ==
  ASSUME NEW S \in SUBSET Nat, IsFiniteSet(S), NEW h \in Nat, NEW C, NEW f \in [S -> C],
         NEW g \in [Above(S, h) -> C], \A n \in Above(S, h) : g[n] = f[n]
  PROVE  IsEnd(Listed(S, f), Listed(Above(S, h), g), Rank(S, h))
<1> DEFINE A == Above(S, h)
           c == Rank(S, h)
           long == Listed(S, f)
           short == Listed(A, g)
<1>1. A \in SUBSET Nat /\ IsFiniteSet(A) /\ c \in 0 .. Cardinality(S)
  BY RankAbove, RankFacts DEF Above
<1>2. Cardinality(S) \in Nat /\ Cardinality(A) \in Nat /\ Cardinality(S) = c + Cardinality(A)
  BY <1>1, RankFacts, RankAbove
<1>3. long \in Seq(C) /\ Len(long) = Cardinality(S)
  BY ListedFacts
<1>4. short \in Seq(C) /\ Len(short) = Cardinality(A)
  <2> HIDE DEF A
  <2>1. g \in [A -> C]
    BY DEF A
  <2> QED BY <1>1, <2>1, ListedFacts
<1>5. ASSUME NEW i \in 1 .. Cardinality(A)
      PROVE  short[i] = long[c + i]
  <2>1. Nth(A, i) \in A /\ Nth(A, i) = Nth(S, c + i)
    BY <1>1, NthFacts, RankAbove
  <2>2. short[i] = g[Nth(A, i)]
    BY DEF Listed
  <2>3. c + i \in 1 .. Cardinality(S)
    BY <1>1, <1>2
  <2>4. long[c + i] = f[Nth(S, c + i)]
    BY <2>3 DEF Listed
  <2> QED BY <2>1, <2>2, <2>4
<1> HIDE DEF A, c, long, short
<1>6. short = SubSeq(long, c + 1, Len(long))
  <2> DEFINE tail == SubSeq(long, c + 1, Len(long))
  <2>1. tail \in Seq(C) /\ Len(tail) = Cardinality(A)
    BY <1>1, <1>2, <1>3
  <2>2. \A i \in 1 .. Cardinality(A) : tail[i] = long[c + i]
    BY <1>1, <1>2, <1>3
  <2> HIDE DEF tail
  <2>3. \A i \in 1 .. Cardinality(A) : short[i] = tail[i]
    BY <1>5, <2>2
  <2>4. Len(short) = Len(tail) /\ \A i \in 1 .. Len(short) : short[i] = tail[i]
    BY <1>4, <2>1, <2>3
  <2>5. short = tail
    BY <1>4, <2>1, <2>4
  <2> QED BY <2>5 DEF tail
<1>7. IsEnd(long, short, c)
  BY <1>1, <1>3, <1>6 DEF IsEnd
<1> QED BY <1>7 DEF A, c, long, short

\* n copies of c.
Copies(n, c) == [i \in 1 .. n |-> c]

\* The numbers of S are below those of T.
Below(S, T) ==
  /\ S \in SUBSET Nat /\ IsFiniteSet(S)
  /\ T \in SUBSET Nat /\ IsFiniteSet(T)
  /\ \A s \in S : \A t \in T : s < t

\* g goes on where f ends, with nothing but c.
GoesOn(S, T, C, f, g, c) ==
  /\ f \in [S -> C] /\ g \in [S \cup T -> C] /\ c \in C
  /\ \A n \in S : g[n] = f[n]
  /\ \A n \in T : g[n] = c

\* The list of S and T is that of S followed by copies of c.
IsJoin(S, T, f, g, c) == Listed(S \cup T, g) = Listed(S, f) \o Copies(Cardinality(T), c)

\* The list of numbers that go on above S is a join of that kind.
LEMMA ListedJoin ==
  ASSUME NEW S, NEW T, Below(S, T), NEW C, NEW f, NEW g, NEW c, GoesOn(S, T, C, f, g, c)
  PROVE  IsJoin(S, T, f, g, c)
<1>0. /\ S \in SUBSET Nat /\ IsFiniteSet(S)
      /\ T \in SUBSET Nat /\ IsFiniteSet(T)
      /\ f \in [S -> C] /\ g \in [S \cup T -> C] /\ c \in C
      /\ \A n \in S : g[n] = f[n]
      /\ \A n \in T : g[n] = c
  BY DEF Below, GoesOn
<1> DEFINE U == S \cup T
           k == Cardinality(S)
           l == Cardinality(T)
           low == Listed(S, f)
           all == Listed(U, g)
           high == Copies(l, c)
<1>1. U \in SUBSET Nat /\ IsFiniteSet(U) /\ k \in Nat /\ l \in Nat /\ S \cap T = {}
  <2>1. S \cap T = {}
    BY DEF Below
  <2> QED BY <1>0, <2>1, FS_Union, RankFacts
<1>2. Cardinality(U) = k + l
  <2>1. Cardinality(U) = k + l - Cardinality({})
    BY <1>0, <1>1, FS_Union
  <2> QED BY <1>1, <2>1, FS_EmptySet
<1>3. \A n \in S : Rank(U, n) = Rank(S, n)
  <2> TAKE n \in S
  <2>1. \A t \in T : n \in Nat /\ t \in Nat /\ ~(t <= n)
    BY DEF Below
  <2>2. UpTo(U, n) = UpTo(S, n)
    BY <2>1 DEF UpTo
  <2> QED BY <2>2 DEF Rank
<1>4. low \in Seq(C) /\ Len(low) = k
  BY <1>0, ListedFacts
<1>5. all \in Seq(C) /\ Len(all) = k + l
  <2> HIDE DEF U
  <2>1. g \in [U -> C]
    BY <1>0 DEF U
  <2> QED BY <1>1, <1>2, <2>1, ListedFacts
<1>6. high \in Seq(C) /\ Len(high) = l
  BY <1>0, <1>1 DEF Copies
<1>7. ASSUME NEW i \in 1 .. k
      PROVE  all[i] = low[i]
  <2>1. Nth(S, i) \in S /\ Rank(S, Nth(S, i)) = i
    BY <1>0, NthFacts
  <2>2. Nth(U, i) = Nth(S, i)
    <3>1. Nth(S, i) \in U /\ Rank(U, Nth(S, i)) = i
      BY <1>3, <2>1
    <3> HIDE DEF U
    <3> QED BY <1>1, <3>1, NthFacts
  <2>3. i \in 1 .. k + l
    BY <1>1
  <2>4. all[i] = g[Nth(U, i)] /\ low[i] = f[Nth(S, i)]
    BY <1>2, <2>3 DEF Listed
  <2> QED BY <1>0, <2>1, <2>2, <2>4
<1>8. ASSUME NEW i \in k + 1 .. k + l
      PROVE  all[i] = c
  <2>1. Nth(U, i) \in U /\ Rank(U, Nth(U, i)) = i
    <3>1. i \in 1 .. Cardinality(U)
      BY <1>1, <1>2
    <3> HIDE DEF U
    <3> QED BY <1>1, <3>1, NthFacts
  <2>2. Nth(U, i) \notin S
    <3> SUFFICES ASSUME Nth(U, i) \in S PROVE FALSE
      OBVIOUS
    <3>1. Rank(S, Nth(U, i)) \in 1 .. k
      BY <1>0, RankFacts
    <3>2. Rank(S, Nth(U, i)) = i
      BY <1>3, <2>1
    <3> QED BY <1>1, <3>1, <3>2
  <2>3. all[i] = g[Nth(U, i)]
    BY <1>1, <1>2 DEF Listed
  <2> QED BY <1>0, <2>1, <2>2, <2>3
<1> HIDE DEF U, k, l, low, all, high
<1>9. all = low \o high
  <2> DEFINE both == low \o high
  <2>1. both \in Seq(C) /\ Len(both) = k + l
    BY <1>1, <1>4, <1>6
  <2>2. \A i \in 1 .. k : both[i] = low[i]
    BY <1>1, <1>4, <1>6
  <2>3. \A i \in k + 1 .. k + l : both[i] = c
    <3> TAKE i \in k + 1 .. k + l
    <3>1. i - k \in 1 .. l /\ both[i] = high[i - k]
      BY <1>1, <1>4, <1>6
    <3> QED BY <3>1 DEF high, Copies
  <2>4. \A i \in 1 .. k + l : i \in 1 .. k \/ i \in k + 1 .. k + l
    BY <1>1
  <2> HIDE DEF both
  <2>5. \A i \in 1 .. k + l : all[i] = both[i]
    BY <1>7, <1>8, <2>2, <2>3, <2>4
  <2>6. Len(all) = Len(both) /\ \A i \in 1 .. Len(all) : all[i] = both[i]
    BY <1>5, <2>1, <2>5
  <2>7. all = both
    BY <1>5, <2>1, <2>6
  <2> QED BY <2>7 DEF both
<1> QED BY <1>9 DEF U, k, l, low, all, high, IsJoin

-----------------------------------------------------------------------------
(***************************************************************************)
(* The calls of a set of requests                                          *)
(***************************************************************************)
Call == [op : Operation, addr : Nat, len : Nat, body : Body]

\* Requests that have a number each.
Numbered(reqs) == reqs \subseteq Request /\ \A m, x \in reqs : m.n = x.n => m = x

Within(m, lo, hi)     == lo < m.n /\ m.n <= hi
Numbers(reqs, lo, hi) == {m.n : m \in reqs} \cap (lo + 1 .. hi)
CallNo(reqs, n)       == CallOfRequest(CHOOSE m \in reqs : m.n = n)
Late(reqs, lo, hi)    == Listed(Numbers(reqs, lo, hi),
                                [n \in Numbers(reqs, lo, hi) |-> CallNo(reqs, n)])

\* A request names its call.
LEMMA NumberedCalls ==
  ASSUME NEW reqs, Numbered(reqs), NEW lo \in Nat, NEW hi \in Nat
  PROVE  /\ Numbers(reqs, lo, hi) \in SUBSET Nat
         /\ IsFiniteSet(Numbers(reqs, lo, hi))
         /\ \A m \in reqs : CallNo(reqs, m.n) = CallOfRequest(m)
         /\ \A m \in reqs : m.n \in Numbers(reqs, lo, hi) <=> Within(m, lo, hi)
         /\ \A n \in Numbers(reqs, lo, hi) : \E m \in reqs : m.n = n /\ Within(m, lo, hi)
         /\ \A n \in Numbers(reqs, lo, hi) : CallNo(reqs, n) \in Call
<1>1. \A m \in reqs : m \in Request /\ m.n \in Nat
  BY DEF Numbered, Request
<1>2. IsFiniteSet(Numbers(reqs, lo, hi)) /\ Numbers(reqs, lo, hi) \in SUBSET Nat
  <2>1. IsFiniteSet(lo + 1 .. hi)
    BY FS_Interval
  <2>2. Numbers(reqs, lo, hi) \in SUBSET (lo + 1 .. hi)
    BY DEF Numbers
  <2> QED BY <2>1, <2>2, FS_Subset
<1>3. \A m \in reqs : CallNo(reqs, m.n) = CallOfRequest(m)
  <2> TAKE m \in reqs
  <2> DEFINE x == CHOOSE y \in reqs : y.n = m.n
  <2>1. x \in reqs /\ x.n = m.n
    OBVIOUS
  <2>2. x = m
    BY <2>1 DEF Numbered
  <2> QED BY <2>2 DEF CallNo
<1>4. \A m \in reqs : m.n \in Numbers(reqs, lo, hi) <=> Within(m, lo, hi)
  BY <1>1 DEF Numbers, Within
<1>5. \A n \in Numbers(reqs, lo, hi) : \E m \in reqs : m.n = n /\ Within(m, lo, hi)
  BY <1>1 DEF Numbers, Within
<1>6. \A n \in Numbers(reqs, lo, hi) : CallNo(reqs, n) \in Call
  <2> TAKE n \in Numbers(reqs, lo, hi)
  <2> PICK m \in reqs : m.n = n
    BY <1>5
  <2>1. m \in Request
    BY <1>1
  <2>2. CallOfRequest(m) \in Call
    BY <2>1 DEF Call, CallOfRequest, CallOf, Request, Length
  <2> QED BY <1>3, <2>2
<1> QED BY <1>2, <1>3, <1>4, <1>5, <1>6

\* Their calls are a list with a place for each request.
LEMMA LateFacts ==
  ASSUME NEW reqs, Numbered(reqs), NEW lo \in Nat, NEW hi \in Nat
  PROVE  /\ Late(reqs, lo, hi) \in Seq(Call)
         /\ lo >= hi => Late(reqs, lo, hi) = <<>>
         /\ \A m \in reqs : Within(m, lo, hi) =>
              /\ Rank(Numbers(reqs, lo, hi), m.n) \in DOMAIN Late(reqs, lo, hi)
              /\ Late(reqs, lo, hi)[Rank(Numbers(reqs, lo, hi), m.n)] = CallOfRequest(m)
<1> DEFINE N == Numbers(reqs, lo, hi)
           f == [n \in N |-> CallNo(reqs, n)]
           calls == Listed(N, f)
<1>1. N \in SUBSET Nat /\ IsFiniteSet(N) /\ f \in [N -> Call]
  BY NumberedCalls
<1>2. Late(reqs, lo, hi) = calls
  BY DEF Late
<1>3. \A m \in reqs : Within(m, lo, hi) => m.n \in N /\ f[m.n] = CallOfRequest(m)
  BY NumberedCalls
<1>4. lo >= hi => N = {}
  <2>1. lo >= hi => lo + 1 .. hi = {}
    OBVIOUS
  <2> QED BY <2>1 DEF Numbers
<1> HIDE DEF N, f
<1>5. /\ calls \in Seq(Call) /\ Len(calls) = Cardinality(N)
      /\ \A n \in N : calls[Rank(N, n)] = f[n]
  BY <1>1, ListedFacts, ZenonT(30)
<1>6. \A n \in N : Rank(N, n) \in 1 .. Cardinality(N)
  BY <1>1, RankFacts
<1> HIDE DEF calls
<1>7. DOMAIN calls = 1 .. Cardinality(N)
  BY <1>5
<1>8. lo >= hi => calls = <<>>
  <2>1. lo >= hi => Len(calls) = 0
    BY <1>4, <1>5, FS_EmptySet
  <2> QED BY <1>5, <2>1
<1> QED BY <1>2, <1>3, <1>5, <1>6, <1>7, <1>8 DEF N

\* When the requests up to number k are gone, so are the first of the calls.
LEMMA LateForgets ==
  ASSUME NEW reqs, Numbered(reqs), NEW lo \in Nat, NEW hi \in Nat,
         NEW rest, Numbered(rest), NEW low \in Nat, NEW high \in Nat, NEW k \in Nat,
         \A m \in rest : Within(m, low, high) => m \in reqs /\ Within(m, lo, hi) /\ k < m.n,
         \A m \in reqs : Within(m, lo, hi) /\ k < m.n => m \in rest /\ Within(m, low, high)
  PROVE  IsEnd(Late(reqs, lo, hi), Late(rest, low, high), Rank(Numbers(reqs, lo, hi), k))
<1> DEFINE N == Numbers(reqs, lo, hi)
           f == [n \in N |-> CallNo(reqs, n)]
           g == [n \in Above(N, k) |-> CallNo(rest, n)]
<1>1. N \in SUBSET Nat /\ IsFiniteSet(N) /\ f \in [N -> Call]
  BY NumberedCalls
<1>2. /\ \A m \in reqs : CallNo(reqs, m.n) = CallOfRequest(m)
      /\ \A m \in reqs : m.n \in N <=> Within(m, lo, hi)
      /\ \A n \in N : \E m \in reqs : m.n = n /\ Within(m, lo, hi)
  BY NumberedCalls
<1>3. /\ \A m \in rest : CallNo(rest, m.n) = CallOfRequest(m)
      /\ \A m \in rest : m.n \in Numbers(rest, low, high) <=> Within(m, low, high)
      /\ \A n \in Numbers(rest, low, high) : \E m \in rest : m.n = n /\ Within(m, low, high)
  BY NumberedCalls
<1>4. \A n \in Above(N, k) :
        \E m \in reqs : m.n = n /\ Within(m, lo, hi) /\ m \in rest /\ Within(m, low, high)
  <2> TAKE n \in Above(N, k)
  <2>1. n \in N /\ n > k /\ n \in Nat
    BY <1>1 DEF Above
  <2> PICK m \in reqs : m.n = n /\ Within(m, lo, hi)
    BY <1>2, <2>1
  <2> QED BY <2>1
<1>5. Numbers(rest, low, high) = Above(N, k)
  <2>1. ASSUME NEW n \in Numbers(rest, low, high)
        PROVE  n \in Above(N, k)
    <3> PICK m \in rest : m.n = n /\ Within(m, low, high)
      BY <1>3
    <3>1. m \in reqs /\ Within(m, lo, hi) /\ k < m.n
      OBVIOUS
    <3>2. m.n \in N /\ m.n \in Nat
      BY <1>1, <1>2, <3>1
    <3> QED BY <3>1, <3>2 DEF Above
  <2>2. ASSUME NEW n \in Above(N, k)
        PROVE  n \in Numbers(rest, low, high)
    BY <1>3, <1>4
  <2> QED BY <2>1, <2>2
<1>6. \A n \in Above(N, k) : g[n] = f[n] /\ g[n] \in Call
  <2> TAKE n \in Above(N, k)
  <2>1. n \in N
    BY DEF Above
  <2> PICK m \in reqs : m.n = n /\ m \in rest
    BY <1>4
  <2> QED BY <1>1, <1>2, <1>3, <2>1
<1>7. g \in [Above(N, k) -> Call]
  BY <1>6
<1>8. Late(reqs, lo, hi) = Listed(N, f) /\ Late(rest, low, high) = Listed(Above(N, k), g)
  BY <1>5 DEF Late
<1> HIDE DEF N, f, g
<1>9. IsEnd(Listed(N, f), Listed(Above(N, k), g), Rank(N, k))
  <2>1. \A n \in Above(N, k) : g[n] = f[n]
    BY <1>6
  <2> QED BY <1>1, <1>7, <2>1, ListedAbove, Zenon
<1> QED BY <1>8, <1>9 DEF N

\* That is what the service may forget.
LEMMA LateForgotten ==
  ASSUME NEW reqs, Numbered(reqs), NEW lo \in Nat, NEW hi \in Nat,
         NEW rest, Numbered(rest), NEW low \in Nat, NEW high \in Nat, NEW k \in Nat,
         \A m \in rest : Within(m, low, high) => m \in reqs /\ Within(m, lo, hi) /\ k < m.n,
         \A m \in reqs : Within(m, lo, hi) /\ k < m.n => m \in rest /\ Within(m, low, high)
  PROVE  Late(rest, low, high) \in Service!Forgotten(Late(reqs, lo, hi))
<1> DEFINE calls == Late(reqs, lo, hi)
           i     == Rank(Numbers(reqs, lo, hi), k)
<1>0. IsEnd(calls, Late(rest, low, high), i)
  BY LateForgets
<1>1. i \in 0 .. Len(calls) /\ Late(rest, low, high) = SubSeq(calls, i + 1, Len(calls))
  BY <1>0 DEF IsEnd
<1>2. calls \in Seq(Call)
  BY LateFacts
<1>3. i + 1 \in 1 .. Len(calls) + 1
  BY <1>1, <1>2
<1> QED BY <1>1, <1>3 DEF Service!Forgotten

\* All requests behind hi, and up to high, are copies of call c.
AllOf(reqs, hi, high, c) ==
  \A m \in reqs : hi < m.n /\ m.n <= high => CallOfRequest(m) = c

\* They follow in the list.
Extended(reqs, lo, hi, high, c) ==
  \E k \in 0 .. MAX_TRIES : Late(reqs, lo, high) = Late(reqs, lo, hi) \o Copies(k, c)

\* The requests behind hi, when all of them are copies of one call, follow in the list.
LEMMA LateJoins ==
  ASSUME NEW reqs, Numbered(reqs), NEW lo \in Nat, NEW hi \in Nat, NEW high \in Nat,
         hi <= high, high <= hi + MAX_TRIES, NEW c \in Call, AllOf(reqs, hi, high, c)
  PROVE  Extended(reqs, lo, hi, high, c)
<1> DEFINE S == Numbers(reqs, lo, hi)
           A == Numbers(reqs, lo, high)
           T == {n \in A : n > hi}
           f == [n \in S |-> CallNo(reqs, n)]
           g == [n \in A |-> CallNo(reqs, n)]
<1>1. /\ S \in SUBSET Nat /\ IsFiniteSet(S) /\ f \in [S -> Call]
      /\ A \in SUBSET Nat /\ IsFiniteSet(A) /\ g \in [A -> Call]
  BY NumberedCalls
<1>2. A = S \cup T /\ T \in SUBSET Nat /\ T \in SUBSET A
  <2>1. \A n \in Nat : n \in lo + 1 .. high <=> n \in lo + 1 .. hi \/ (n \in lo + 1 .. high /\ n > hi)
    OBVIOUS
  <2>2. \A m \in reqs : m.n \in Nat
    BY DEF Numbered, Request
  <2> QED BY <1>1, <2>1, <2>2 DEF Numbers
<1>3. \A s \in S : \A t \in T : s < t
  BY <1>1 DEF Numbers
<1>4. \A n \in T : g[n] = c
  <2> TAKE n \in T
  <2> PICK m \in reqs : m.n = n /\ Within(m, lo, high)
    BY <1>2, NumberedCalls
  <2>1. CallOfRequest(m) = c
    BY DEF Within, AllOf
  <2>2. CallNo(reqs, n) = CallOfRequest(m)
    BY NumberedCalls
  <2> QED BY <1>2, <2>1, <2>2
<1>5. \A n \in S : g[n] = f[n]
  BY <1>2
<1>6. IsFiniteSet(T) /\ Cardinality(T) \in 0 .. MAX_TRIES
  <2>1. T \in SUBSET (hi + 1 .. high)
    BY <1>1 DEF Numbers
  <2>2. IsFiniteSet(hi + 1 .. high) /\ Cardinality(hi + 1 .. high) \in 0 .. MAX_TRIES
    <3>1. hi + 1 \in Int /\ high \in Int /\ MAX_TRIES = 3
      BY DEF MAX_TRIES
    <3>2. /\ IsFiniteSet(hi + 1 .. high)
          /\ Cardinality(hi + 1 .. high) =
               IF hi + 1 > high THEN 0 ELSE high - (hi + 1) + 1
      BY <3>1, FS_Interval
    <3>3. 0 \in 0 .. MAX_TRIES /\ (hi + 1 <= high => high - (hi + 1) + 1 \in 0 .. MAX_TRIES)
      BY <3>1
    <3> QED BY <3>1, <3>2, <3>3
  <2>3. IsFiniteSet(T) /\ Cardinality(T) <= Cardinality(hi + 1 .. high)
    BY <2>1, <2>2, FS_Subset
  <2>4. Cardinality(T) \in Nat
    <3> HIDE DEF T
    <3> QED BY <2>3, FS_CardinalityType
  <2>5. MAX_TRIES \in Nat /\ Cardinality(hi + 1 .. high) \in Nat
    BY <2>2 DEF MAX_TRIES
  <2> HIDE DEF T
  <2> QED BY <2>2, <2>3, <2>4, <2>5
<1>7. Late(reqs, lo, hi) = Listed(S, f) /\ Late(reqs, lo, high) = Listed(A, g)
  BY DEF Late
<1> HIDE DEF S, A, T, f, g
<1>9. IsJoin(S, T, f, g, c)
  <2>1. Below(S, T)
    BY <1>1, <1>2, <1>3, <1>6 DEF Below
  <2>2. GoesOn(S, T, Call, f, g, c)
    BY <1>1, <1>2, <1>4, <1>5 DEF GoesOn
  <2> QED BY <2>1, <2>2, ListedJoin
<1> QED BY <1>2, <1>6, <1>7, <1>9 DEF IsJoin, Extended

-----------------------------------------------------------------------------
(***************************************************************************)
(* The inductive invariant                                                 *)
(***************************************************************************)

\* There is one programmer and one target.
Alone == Programmers = {Caller} /\ Targets = {Device}

\* The transmissions of the call in progress carry what is in the buffer.
CallCopies == \A m \in requests : m.n > CallStart => InBuffer(Caller, m)

\* A target that has handled a request serves the only programmer there is.
ServesCaller == handled[Device] # {} => registered[Device] = Caller

HandledOps == \A m \in handled[Device] : m.op \in RegisterOps \cup MemoryOps

\* The newest request the target has heard, should another copy of it arrive, is dropped or
\* refused, unless it does no more than register once more.
HeardOnce ==
  \A m \in requests :
    m.n = heard[Device][Caller] =>
      \/ m.op \in RegisterOps
      \/ m.seq = lastSeq[Device]
      \/ registered[Device] # Caller

ServiceParts ==
  /\ tries[Caller] <= sent[Caller]
  /\ CallCopies
  /\ ServesCaller
  /\ HandledOps
  /\ HeardOnce

ServiceInv == CurrentInv /\ ServiceParts

\* The types and the relations between numbers that the steps below need.
LEMMA ServiceFacts ==
  ASSUME Alone, CurrentInv
  PROVE  /\ Caller \in Programmers /\ Device \in Targets
         /\ sent \in [Programmers -> Nat] /\ sent[Caller] \in Nat
         /\ tries \in [Programmers -> 0 .. MAX_TRIES] /\ tries[Caller] \in 0 .. MAX_TRIES
         /\ heard \in [Targets -> [Programmers -> Nat]] /\ heard[Device][Caller] \in Nat
         /\ heard[Device][Caller] <= sent[Caller]
         /\ hdr \in [Programmers -> Header] /\ body \in [Programmers -> Body]
         /\ rx \in [Programmers -> Seq(Word \cup DeviceIds)]
         /\ flash \in [Targets -> Memory]
         /\ registered \in [Targets -> Programmers \cup {Nobody}]
         /\ lastSeq \in [Targets -> SeqNo]
         /\ handled \in [Targets -> SUBSET Request]
         /\ \A m \in requests : /\ m \in Request /\ m.src = Caller
                                /\ m.n \in Nat /\ m.n <= sent[Caller]
         /\ \A m \in handled[Device] : /\ m \in Request /\ m.src = Caller
                                       /\ m.n \in Nat /\ m.n <= heard[Device][Caller]
         /\ Numbered(requests)
<1>1. /\ Caller \in Programmers /\ Device \in Targets
      /\ \A p \in Programmers : p = Caller
  BY DEF Alone
<1>2. /\ sent \in [Programmers -> Nat]
      /\ tries \in [Programmers -> 0 .. MAX_TRIES]
      /\ heard \in [Targets -> [Programmers -> Nat]]
      /\ hdr \in [Programmers -> Header] /\ body \in [Programmers -> Body]
      /\ rx \in [Programmers -> Seq(Word \cup DeviceIds)]
      /\ flash \in [Targets -> Memory]
      /\ registered \in [Targets -> Programmers \cup {Nobody}]
      /\ lastSeq \in [Targets -> SeqNo]
      /\ handled \in [Targets -> SUBSET Request]
      /\ requests \subseteq Request
  BY DEF CurrentInv, OnceInv, TypeInv, TypeOK
<1>3. \A m \in Request : m.src \in Programmers /\ m.n \in Nat
  BY DEF Request
<1>4. OneRequest /\ HeardOK
  BY DEF CurrentInv, OnceInv
<1>5. /\ sent[Caller] \in Nat /\ tries[Caller] \in 0 .. MAX_TRIES
      /\ heard[Device][Caller] \in Nat /\ heard[Device][Caller] <= sent[Caller]
  BY <1>1, <1>2, <1>4 DEF HeardOK
<1>6. \A m \in requests : m \in Request /\ m.src = Caller /\ m.n \in Nat /\ m.n <= sent[Caller]
  BY <1>1, <1>2, <1>3, <1>4 DEF OneRequest
<1>7. \A m \in handled[Device] : /\ m \in Request /\ m.src = Caller
                                 /\ m.n \in Nat /\ m.n <= heard[Device][Caller]
  BY <1>1, <1>2, <1>3, <1>4 DEF HeardOK
<1>8. Numbered(requests)
  <2>1. \A m, x \in requests : m.n = x.n => m = x
    BY <1>1, <1>4, <1>6 DEF OneRequest
  <2> QED BY <1>2, <2>1 DEF Numbered
<1> QED BY <1>1, <1>2, <1>5, <1>6, <1>7, <1>8

-----------------------------------------------------------------------------
(***************************************************************************)
(* The form of the steps                                                   *)
(***************************************************************************)

\* A call begins.
CallBegins ==
  \E h \in Header, b \in Body, dst \in Destination, allowed \in BOOLEAN :
    Communicate(Caller, h, b, dst, allowed)

\* The frame is sent again.
CallRepeats ==
  /\ tries[Caller] \in 1 .. MAX_TRIES - 1
  /\ \E dst, allowed : Transmit(Caller, hdr[Caller], body[Caller], dst, allowed)
  /\ tries' = [tries EXCEPT ![Caller] = @ + 1]
  /\ UNCHANGED <<heard, hdr, body, rx>>

\* A call ends without a result.
CallFails ==
  /\ tries[Caller] > 0
  /\ tries' = [tries EXCEPT ![Caller] = 0]
  /\ UNCHANGED <<requests, sent, heard, hdr, body, rx>>

\* A reply ends it.
CallSucceeds(r) ==
  /\ Done(Caller, r)
  /\ tries' = [tries EXCEPT ![Caller] = 0]
  /\ rx' = [rx EXCEPT ![Caller] = IF r.op = "OP_READ" THEN r.payload ELSE @]
  /\ UNCHANGED <<requests, sent, heard, hdr, body>>

\* A step of the programmer has one of these forms, or no one but its caller notices it.
LEMMA CallerForm ==
  ASSUME Lifetime <= SeqMod, Alone, ServiceInv, Programmer(Caller)
  PROVE  \/ CallBegins
         \/ CallRepeats
         \/ CallFails
         \/ \E r \in replies : CallSucceeds(r)
         \/ UNCHANGED <<requests, sent, heard, tries, hdr, body, rx>>
<1>1. CurrentInv /\ AckInv /\ TypeInv
  BY DEF ServiceInv, CurrentInv, OnceInv
<1>2. /\ Caller \in Programmers /\ tries[Caller] \in 0 .. MAX_TRIES
      /\ rx \in [Programmers -> Seq(Word \cup DeviceIds)]
  BY <1>1, ServiceFacts
<1>3. CASE StartCall(Caller)
  <2>1. CASE Begins(Caller)
    BY <2>1 DEF Begins, CallBegins
  <2>2. CASE Refused(Caller)
    BY <2>2 DEF Refused, Refuse, pathVars, bufVars, devVars
  <2> QED BY <1>1, <1>2, <1>3, <2>1, <2>2, StartCallForm
<1>4. CASE Timeout(Caller)
  <2>1. tries[Caller] > 0 /\ UNCHANGED <<heard, hdr, body, rx>>
    BY <1>4 DEF Timeout, bufVars, devVars
  <2>2. CASE /\ tries[Caller] < MAX_TRIES
             /\ Transmit(Caller, hdr[Caller], body[Caller], txAddr[Caller], bcast[Caller])
             /\ tries' = [tries EXCEPT ![Caller] = @ + 1]
    <3>1. tries[Caller] \in 1 .. MAX_TRIES - 1
      BY <1>2, <2>1, <2>2 DEF MAX_TRIES
    <3> QED BY <2>1, <2>2, <3>1 DEF CallRepeats
  <2>3. CASE Throw(Caller, "timeout") /\ UNCHANGED <<seq, sent, requests, replies>>
    BY <2>1, <2>3 DEF Throw, CallFails
  <2> QED BY <1>4, <2>2, <2>3 DEF Timeout
<1>5. CASE RefuseFrame(Caller)
  BY <1>5 DEF RefuseFrame, Throw, CallFails, pathVars, bufVars, devVars
<1>6. ASSUME NEW r \in replies, TakeReply(Caller, r)
      PROVE  CallFails \/ CallSucceeds(r)
  <2>1. CASE Reject(Caller, r)
    BY <2>1 DEF Reject, Takes, Throw, CallFails, pathVars, bufVars, devVars
  <2>2. CASE DiscoverDone(Caller, r)
    <3>1. rx' = [rx EXCEPT ![Caller] = IF r.op = "OP_READ" THEN r.payload ELSE @]
      BY <1>2, <2>2 DEF DiscoverDone, RegisterOps
    <3> QED BY <2>2, <3>1 DEF DiscoverDone, CallSucceeds, pathVars, bufVars
  <2>3. CASE DataDone(Caller, r)
    <3>1. Done(Caller, r) /\ tries[Caller] > 0 /\ r.op = hdr[Caller].op
      BY <2>3 DEF DataDone, Done, Takes
    <3>2. r.op = "OP_READ"
      <4>1. PICK m \in handled[r.src] : InBuffer(Caller, m)
        BY <1>1, <1>2, <3>1, DoneMeansHandled
      <4>2. r.src = Device
        BY <1>1, <1>2, <3>1, DoneMeansHandled DEF Alone
      <4>3. r.op \in RegisterOps \cup MemoryOps
        BY <3>1, <4>1, <4>2 DEF InBuffer, ServiceInv, ServiceParts, HandledOps
      <4> QED BY <2>3, <4>3 DEF DataDone, RegisterOps, MemoryOps
    <3>3. CASE rx' = [rx EXCEPT ![Caller] = r.payload]
      BY <2>3, <3>2, <3>3 DEF DataDone, CallSucceeds, pathVars, bufVars
    <3>4. CASE UNCHANGED rx
      BY <2>3, <3>1, <3>4 DEF DataDone, CallFails, pathVars, bufVars
    <3> QED BY <2>3, <3>3, <3>4 DEF DataDone
  <2>4. CASE CommandDone(Caller, r)
    <3>1. rx' = [rx EXCEPT ![Caller] = IF r.op = "OP_READ" THEN r.payload ELSE @]
      BY <1>2, <2>4 DEF CommandDone, devVars
    <3> QED BY <2>4, <3>1 DEF CommandDone, CallSucceeds, pathVars, bufVars, devVars
  <2> QED BY <1>6, <2>1, <2>2, <2>3, <2>4 DEF TakeReply
<1> QED BY <1>3, <1>4, <1>5, <1>6 DEF Programmer

\* The target answers a request without carrying it out, or drops it.
Idles == UNCHANGED <<flash, handled, registered>>

\* It carries request m out.
CarriesOut(m) ==
  /\ flash'[Device] \in CallEffects(CallOfRequest(m), flash[Device])
  /\ handled' = [handled EXCEPT ![Device] = @ \cup {m}]
  /\ registered'[Device] = m.src
  /\ m.op \in RegisterOps \cup MemoryOps
  /\ m.op \in RegisterOps => flash'[Device] = flash[Device]
  /\ m.op \notin RegisterOps => m.seq # lastSeq[Device] /\ registered[Device] = m.src

\* The effects of a call are those of the request that carries it.
LEMMA EffectsOfRequest ==
  ASSUME NEW m \in Request, NEW mem
  PROVE  /\ m.op \notin {"OP_ERASE", "OP_WRITE"} => mem \in CallEffects(CallOfRequest(m), mem)
         /\ m.op = "OP_ERASE" /\ ValidErase(m) =>
              [i \in DOMAIN mem |-> IF i \in m.addr .. m.addr + ERASE_SIZE - 1
                                    THEN Blank ELSE mem[i]]
                \in CallEffects(CallOfRequest(m), mem)
         /\ m.op = "OP_WRITE" /\ ValidWrite(m) =>
              \A d \in ReceivedData(m) :
                [i \in DOMAIN mem |-> IF i \in m.addr .. m.addr + WRITE_SIZE - 1
                                      THEN d[i - m.addr] ELSE mem[i]]
                  \in CallEffects(CallOfRequest(m), mem)
<1> DEFINE c == CallOfRequest(m)
<1>1. c.op = m.op /\ c.addr = m.addr /\ c.len = m.len /\ c.body = m.body
  BY DEF CallOfRequest, CallOf
<1>2. (ValidErase(c) <=> ValidErase(m)) /\ (ValidWrite(c) <=> ValidWrite(m))
      /\ ReceivedData(c) = ReceivedData(m)
  BY <1>1 DEF ValidErase, ValidWrite, ReceivedData
<1> HIDE DEF c
<1>3. m.op \notin {"OP_ERASE", "OP_WRITE"} => CallEffects(c, mem) = {mem}
  BY <1>1 DEF CallEffects
<1>4. m.op = "OP_ERASE" /\ ValidErase(m) =>
        CallEffects(c, mem) = {[i \in DOMAIN mem |-> IF i \in m.addr .. m.addr + ERASE_SIZE - 1
                                                     THEN Blank ELSE mem[i]]}
  BY <1>1, <1>2 DEF CallEffects
<1>5. m.op = "OP_WRITE" /\ ValidWrite(m) =>
        CallEffects(c, mem) = {[i \in DOMAIN mem |-> IF i \in m.addr .. m.addr + WRITE_SIZE - 1
                                                     THEN d[i - m.addr] ELSE mem[i]] :
                               d \in ReceivedData(m)}
  BY <1>1, <1>2 DEF CallEffects
<1> QED BY <1>3, <1>4, <1>5 DEF c

\* What the target does with a request has one of these forms.
LEMMA DeviceForm ==
  ASSUME Alone, CurrentInv, NEW m \in requests, Receive(Device, m)
  PROVE  Idles \/ CarriesOut(m)
<1>1. /\ Device \in Targets /\ m \in Request
      /\ flash \in [Targets -> Memory]
      /\ handled \in [Targets -> SUBSET Request]
      /\ registered \in [Targets -> Programmers \cup {Nobody}]
  BY ServiceFacts
<1>2. CASE DropDuplicate(Device, m) \/ RefuseStranger(Device, m)
  BY <1>2 DEF DropDuplicate, RefuseStranger, targetVars, Idles
<1>3. CASE RefuseParam(Device, m) \/ Unsupported(Device, m)
  BY <1>3 DEF RefuseParam, Unsupported, Idles
<1>4. ASSUME Accept(Device, m), Perform(Device, m), m.op \in MemoryOps, UNCHANGED registered,
             flash'[Device] \in CallEffects(CallOfRequest(m), flash[Device])
      PROVE  CarriesOut(m)
  <2>1. m.op \notin RegisterOps
    BY <1>4 DEF RegisterOps, MemoryOps
  <2>2. m.seq # lastSeq[Device] /\ registered[Device] = m.src
    BY <1>4, <2>1 DEF Accept, Duplicate, Stranger
  <2> QED BY <1>4, <2>1, <2>2 DEF CarriesOut, Perform
<1>5. CASE Register(Device, m)
  <2>1. flash'[Device] \in CallEffects(CallOfRequest(m), flash[Device])
    BY <1>1, <1>5, EffectsOfRequest DEF Register, RegisterOps
  <2> QED BY <1>1, <1>5, <2>1 DEF Register, Perform, CarriesOut
<1>6. CASE ErasePage(Device, m)
  <2>1. flash'[Device] = [i \in DOMAIN flash[Device] |->
                            IF i \in m.addr .. m.addr + ERASE_SIZE - 1
                            THEN Blank ELSE flash[Device][i]]
    BY <1>1, <1>6 DEF ErasePage
  <2>2. flash'[Device] \in CallEffects(CallOfRequest(m), flash[Device])
    BY <1>1, <1>6, <2>1, EffectsOfRequest DEF ErasePage
  <2> QED BY <1>4, <1>6, <2>2 DEF ErasePage, Report, MemoryOps
<1>7. CASE WriteSector(Device, m)
  <2>1. PICK d \in ReceivedData(m) :
          flash' = [flash EXCEPT ![Device] =
                      [i \in DOMAIN @ |-> IF i \in m.addr .. m.addr + WRITE_SIZE - 1
                                          THEN d[i - m.addr] ELSE @[i]]]
    BY <1>7 DEF WriteSector
  <2>2. flash'[Device] = [i \in DOMAIN flash[Device] |->
                            IF i \in m.addr .. m.addr + WRITE_SIZE - 1
                            THEN d[i - m.addr] ELSE flash[Device][i]]
    BY <1>1, <2>1
  <2>3. flash'[Device] \in CallEffects(CallOfRequest(m), flash[Device])
    <3>1. m.op = "OP_WRITE" /\ ValidWrite(m)
      BY <1>7 DEF WriteSector
    <3>2. [i \in DOMAIN flash[Device] |-> IF i \in m.addr .. m.addr + WRITE_SIZE - 1
                                          THEN d[i - m.addr] ELSE flash[Device][i]]
            \in CallEffects(CallOfRequest(m), flash[Device])
      BY <1>1, <3>1, EffectsOfRequest, Zenon
    <3> QED BY <2>2, <3>2, Zenon
  <2> QED BY <1>4, <1>7, <2>3 DEF WriteSector, Report, MemoryOps
<1>8. CASE ReadBlock(Device, m)
  <2>1. flash'[Device] \in CallEffects(CallOfRequest(m), flash[Device])
    BY <1>1, <1>8, EffectsOfRequest DEF ReadBlock
  <2> QED BY <1>4, <1>8, <2>1 DEF ReadBlock, Report, MemoryOps
<1> QED BY <1>2, <1>3, <1>5, <1>6, <1>7, <1>8 DEF Receive

-----------------------------------------------------------------------------
(***************************************************************************)
(* The invariant is inductive                                              *)
(***************************************************************************)

\* A transmission of the caller, and what is left of the requests before it.
LEMMA CallerTransmits ==
  ASSUME Alone, CurrentInv, NEW h, NEW b, NEW dst, NEW allowed,
         Transmit(Caller, h, b, dst, allowed)
  PROVE  /\ sent'[Caller] = sent[Caller] + 1
         /\ \A m \in requests : m \in requests' <=> m.n + Lifetime > sent[Caller] + 1
         /\ \A m \in requests' : m \notin requests =>
              /\ CanSend(dst, allowed)
              /\ m.n = sent[Caller] + 1
              /\ m.src = Caller /\ m.op = h.op /\ m.addr = h.addr /\ m.len = h.len /\ m.body = b
<1>1. /\ Caller \in Programmers /\ sent \in [Programmers -> Nat] /\ sent[Caller] \in Nat
      /\ \A m \in requests : m.src = Caller /\ m.n \in Nat /\ m.n <= sent[Caller]
  BY ServiceFacts
<1>2. sent'[Caller] = sent[Caller] + 1
  BY <1>1 DEF Transmit
<1> DEFINE f == Frame(Caller, h, b, dst)
<1>3. /\ f.n = sent[Caller] + 1 /\ f.src = Caller
      /\ f.op = h.op /\ f.addr = h.addr /\ f.len = h.len /\ f.body = b
  BY DEF Frame
<1>4. requests' = RequestsAfter(Caller, sent[Caller] + 1)
                    \cup (IF CanSend(dst, allowed) THEN {f} ELSE {})
  BY DEF Transmit
<1> HIDE DEF f
<1>5. \A m \in requests : m # f
  BY <1>1, <1>3
<1>6. \A m \in requests :
        m \in RequestsAfter(Caller, sent[Caller] + 1) <=> m.n + Lifetime > sent[Caller] + 1
  BY <1>1 DEF RequestsAfter
<1>7. \A m \in RequestsAfter(Caller, sent[Caller] + 1) : m \in requests
  BY DEF RequestsAfter
<1>8. \A m \in requests : m \in requests' <=> m.n + Lifetime > sent[Caller] + 1
  BY <1>4, <1>5, <1>6
<1>9. \A m \in requests' : m \notin requests => CanSend(dst, allowed) /\ m = f
  BY <1>4, <1>7
<1> QED BY <1>2, <1>3, <1>8, <1>9

\* When a call begins it has one transmission, or none.
LEMMA CallerBegins ==
  ASSUME Alone, CurrentInv, NEW h \in Header, NEW b \in Body, NEW dst, NEW allowed,
         Communicate(Caller, h, b, dst, allowed)
  PROVE  /\ tries[Caller] = 0 /\ Transmit(Caller, h, b, dst, allowed)
         /\ tries'[Caller] = (IF CanSend(dst, allowed) THEN 1 ELSE 0)
         /\ hdr'[Caller] = h /\ body'[Caller] = b
         /\ UNCHANGED <<heard, rx>>
<1>1. /\ Caller \in Programmers /\ tries \in [Programmers -> 0 .. MAX_TRIES]
      /\ hdr \in [Programmers -> Header] /\ body \in [Programmers -> Body]
  BY ServiceFacts
<1> QED BY <1>1 DEF Communicate, devVars

\* A step of the programmer keeps the parts of the invariant.
LEMMA CallerParts ==
  ASSUME Lifetime <= SeqMod, Alone, ServiceInv, Programmer(Caller), UNCHANGED targetVars
  PROVE  ServiceParts'
<1>0. CurrentInv /\ ServiceParts
  BY DEF ServiceInv
<1>1. /\ Caller \in Programmers /\ Device \in Targets
      /\ sent[Caller] \in Nat /\ tries[Caller] \in 0 .. MAX_TRIES
      /\ tries \in [Programmers -> 0 .. MAX_TRIES]
      /\ heard[Device][Caller] \in Nat /\ heard[Device][Caller] <= sent[Caller]
      /\ \A m \in requests : m.src = Caller /\ m.n \in Nat /\ m.n <= sent[Caller]
  BY <1>0, ServiceFacts
<1>2. UNCHANGED <<handled, registered, lastSeq>> /\ ServesCaller' /\ HandledOps'
  BY <1>0 DEF targetVars, ServiceParts, ServesCaller, HandledOps
<1>3. ASSUME UNCHANGED <<requests, heard>> PROVE HeardOnce'
  BY <1>0, <1>2, <1>3 DEF ServiceParts, HeardOnce
<1>4. ASSUME NEW h, NEW b, NEW dst, NEW allowed, Transmit(Caller, h, b, dst, allowed),
             UNCHANGED heard
      PROVE  HeardOnce'
  <2>1. \A m \in requests' : m.n = heard[Device][Caller] => m \in requests
    BY <1>0, <1>1, <1>4, CallerTransmits
  <2> QED BY <1>0, <1>2, <1>4, <2>1 DEF ServiceParts, HeardOnce
<1>5. ASSUME UNCHANGED <<requests, sent, heard>>, tries'[Caller] = 0
      PROVE  ServiceParts'
  <2>1. CallCopies'
    BY <1>1, <1>5 DEF CallCopies, CallStart
  <2>2. tries'[Caller] <= sent'[Caller]
    BY <1>1, <1>5
  <2> QED BY <1>2, <1>3, <1>5, <2>1, <2>2 DEF ServiceParts
<1>6. CASE CallBegins
  <2> PICK h \in Header, b \in Body, dst \in Destination, allowed \in BOOLEAN :
             Communicate(Caller, h, b, dst, allowed)
    BY <1>6 DEF CallBegins
  <2>1. /\ tries[Caller] = 0 /\ Transmit(Caller, h, b, dst, allowed)
        /\ tries'[Caller] = (IF CanSend(dst, allowed) THEN 1 ELSE 0)
        /\ hdr'[Caller] = h /\ body'[Caller] = b
        /\ UNCHANGED <<heard, rx>>
    BY <1>0, CallerBegins
  <2>2. /\ sent'[Caller] = sent[Caller] + 1
        /\ \A m \in requests' : m \notin requests =>
             /\ CanSend(dst, allowed)
             /\ m.n = sent[Caller] + 1
             /\ m.src = Caller /\ m.op = h.op /\ m.addr = h.addr /\ m.len = h.len /\ m.body = b
    BY <1>0, <2>1, CallerTransmits
  <2>3. tries'[Caller] <= sent'[Caller]
    BY <1>1, <2>1, <2>2
  <2>4. CallCopies'
    <3>1. CallStart' = sent'[Caller] - tries'[Caller]
      BY DEF CallStart
    <3>2. \A m \in requests' : m.n > CallStart' => m \notin requests
      BY <1>1, <2>1, <2>2, <3>1
    <3>3. \A m \in requests' : m.n > CallStart' => InBuffer(Caller, m)'
      BY <2>1, <2>2, <3>2 DEF InBuffer
    <3> QED BY <3>3 DEF CallCopies
  <2> QED BY <1>2, <1>4, <2>1, <2>3, <2>4 DEF ServiceParts
<1>7. CASE CallRepeats
  <2> PICK dst, allowed : Transmit(Caller, hdr[Caller], body[Caller], dst, allowed)
    BY <1>7 DEF CallRepeats
  <2>1. UNCHANGED <<heard, hdr, body>> /\ tries'[Caller] = tries[Caller] + 1
    BY <1>1, <1>7 DEF CallRepeats
  <2>2. /\ sent'[Caller] = sent[Caller] + 1
        /\ \A m \in requests' : m \notin requests =>
             /\ m.src = Caller /\ m.op = hdr[Caller].op /\ m.addr = hdr[Caller].addr
             /\ m.len = hdr[Caller].len /\ m.body = body[Caller]
    BY <1>0, CallerTransmits
  <2>3. tries'[Caller] <= sent'[Caller] /\ CallStart' = CallStart
    BY <1>0, <1>1, <2>1, <2>2 DEF ServiceParts, CallStart
  <2>4. CallCopies'
    <3>1. \A m \in requests' : m.n > CallStart => InBuffer(Caller, m)
      BY <1>0, <2>2 DEF ServiceParts, CallCopies, InBuffer
    <3> QED BY <2>1, <2>3, <3>1 DEF CallCopies, InBuffer
  <2> QED BY <1>2, <1>4, <2>1, <2>3, <2>4 DEF ServiceParts
<1>8. CASE CallFails \/ \E r \in replies : CallSucceeds(r)
  BY <1>1, <1>5, <1>8 DEF CallFails, CallSucceeds
<1>9. CASE UNCHANGED <<requests, sent, heard, tries, hdr, body, rx>>
  BY <1>0, <1>2, <1>3, <1>9 DEF ServiceParts, CallCopies, CallStart, InBuffer
<1> QED BY <1>6, <1>7, <1>8, <1>9, CallerForm

\* What the target has heard when it has taken a request.
LEMMA DeviceHears ==
  ASSUME Ordered, Alone, CurrentInv, NEW m \in requests, Receive(Device, m)
  PROVE  /\ UNCHANGED <<requests, sent>>
         /\ m.n >= heard[Device][Caller]
         /\ heard'[Device][Caller] = m.n
         /\ Drops(Device, m) \/ RefusesSender(Device, m) \/ Serves(Device, m)
<1>1. /\ Caller \in Programmers /\ Device \in Targets /\ m.src = Caller
      /\ heard \in [Targets -> [Programmers -> Nat]]
  BY ServiceFacts
<1>2. TypeInv
  BY DEF CurrentInv, OnceInv
<1>3. /\ m.n >= heard[Device][m.src]
      /\ heard' = [heard EXCEPT ![Device][m.src] = m.n]
      /\ Drops(Device, m) \/ RefusesSender(Device, m) \/ Serves(Device, m)
  BY <1>1, <1>2, HearForm
<1> QED BY <1>1, <1>3, ReceiveForm

\* A step of the target keeps the parts of the invariant.
LEMMA DeviceParts ==
  ASSUME Ordered, Alone, ServiceInv, UNCHANGED progVars,
         NEW m \in requests, Receive(Device, m)
  PROVE  ServiceParts'
<1>0. CurrentInv /\ ServiceParts
  BY DEF ServiceInv
<1>1. /\ Caller \in Programmers /\ Device \in Targets
      /\ registered \in [Targets -> Programmers \cup {Nobody}]
      /\ lastSeq \in [Targets -> SeqNo]
      /\ handled \in [Targets -> SUBSET Request]
      /\ m.src = Caller /\ Numbered(requests)
  BY <1>0, ServiceFacts
<1>2. /\ UNCHANGED <<requests, sent>>
      /\ heard'[Device][Caller] = m.n
      /\ Drops(Device, m) \/ RefusesSender(Device, m) \/ Serves(Device, m)
  BY <1>0, DeviceHears
<1>3. UNCHANGED <<tries, hdr, body>>
  BY DEF progVars
<1>4. tries'[Caller] <= sent'[Caller] /\ CallCopies'
  BY <1>0, <1>2, <1>3 DEF ServiceParts, CallCopies, CallStart, InBuffer
<1>5. ServesCaller' /\ HandledOps'
  <2>1. CASE Idles
    BY <1>0, <2>1 DEF Idles, ServiceParts, ServesCaller, HandledOps
  <2>2. CASE CarriesOut(m)
    <3>1. handled'[Device] = handled[Device] \cup {m} /\ registered'[Device] = Caller
      BY <1>1, <2>2 DEF CarriesOut
    <3>2. m.op \in RegisterOps \cup MemoryOps
      BY <2>2 DEF CarriesOut
    <3> QED BY <1>0, <3>1, <3>2 DEF ServiceParts, ServesCaller, HandledOps
  <2> QED BY <1>0, <2>1, <2>2, DeviceForm
<1>6. HeardOnce'
  <2> SUFFICES ASSUME NEW x \in requests, x.n = m.n
               PROVE  \/ x.op \in RegisterOps
                      \/ x.seq = lastSeq'[Device]
                      \/ registered'[Device] # Caller
    BY <1>2 DEF HeardOnce
  <2>1. x = m
    BY <1>1 DEF Numbered
  <2> QED BY <1>1, <1>2, <2>1 DEF Drops, RefusesSender, Serves
<1> QED BY <1>4, <1>5, <1>6 DEF ServiceParts

\* With one programmer and one target every step is one of theirs, or none.
LEMMA AloneNext ==
  ASSUME Alone, MaxRestarts = 0, TypeInv, [Next]_vars
  PROVE  \/ Programmer(Caller) /\ UNCHANGED targetVars
         \/ (\E m \in requests : Receive(Device, m)) /\ UNCHANGED progVars
         \/ UNCHANGED vars
<1>1. (\A p \in Programmers : p = Caller) /\ (\A t \in Targets : t = Device)
  BY DEF Alone
<1>2. ASSUME NEW t \in Targets, Restart(t) PROVE FALSE
  BY <1>2 DEF Restart, TypeInv, TypeOK
<1>3. ASSUME NEW p \in Programmers, Programmer(p), UNCHANGED targetVars
      PROVE  Programmer(Caller) /\ UNCHANGED targetVars
  BY <1>1, <1>3
<1>4. ASSUME NEW t \in Targets, NEW m \in requests, Receive(t, m), UNCHANGED progVars
      PROVE  (\E x \in requests : Receive(Device, x)) /\ UNCHANGED progVars
  BY <1>1, <1>4
<1>5. CASE Exhausted
  BY <1>5 DEF Exhausted
<1> QED BY <1>2, <1>3, <1>4, <1>5 DEF Next

\* Every step keeps the invariant.
LEMMA ServiceNext ==
  ASSUME Ordered, MaxRestarts = 0, Lifetime <= SeqMod, Alone
  PROVE  ServiceInv /\ [Next]_vars => ServiceInv'
<1> SUFFICES ASSUME ServiceInv, [Next]_vars PROVE ServiceInv'
  OBVIOUS
<1>1. CurrentInv' /\ TypeInv
  BY CurrentNext DEF ServiceInv, CurrentInv, OnceInv
<1>2. ASSUME Programmer(Caller), UNCHANGED targetVars PROVE ServiceParts'
  BY <1>2, CallerParts
<1>3. ASSUME NEW m \in requests, Receive(Device, m), UNCHANGED progVars PROVE ServiceParts'
  BY <1>3, DeviceParts
<1>4. ASSUME UNCHANGED vars PROVE ServiceParts'
  <2>1. UNCHANGED <<requests, sent, heard, tries, hdr, body, handled, registered, lastSeq>>
    BY <1>4 DEF vars, pathVars, progVars, targetVars
  <2> QED
    BY <2>1 DEF ServiceInv, ServiceParts, CallCopies, CallStart, InBuffer, ServesCaller,
                HandledOps, HeardOnce
<1>5. ServiceParts'
  BY <1>1, <1>2, <1>3, <1>4, AloneNext
<1> QED BY <1>1, <1>5 DEF ServiceInv

\* It holds in the initial states.
LEMMA ServiceInit == ASSUME Alone PROVE Init => ServiceInv
<1> SUFFICES ASSUME Init PROVE ServiceInv
  OBVIOUS
<1>1. /\ requests = {} /\ handled = [t \in Targets |-> {}]
      /\ tries = [p \in Programmers |-> 0] /\ sent = [p \in Programmers |-> 0]
  BY DEF Init, PathInit, ProgInit, TargetInit
<1>2. handled[Device] = {} /\ tries[Caller] = 0 /\ sent[Caller] = 0
  BY <1>1 DEF Alone
<1>3. CallCopies /\ ServesCaller /\ HandledOps /\ HeardOnce
  BY <1>1, <1>2 DEF CallCopies, ServesCaller, HandledOps, HeardOnce
<1>4. tries[Caller] <= sent[Caller]
  BY <1>2
<1> QED BY <1>3, <1>4, CurrentInit DEF ServiceInv, ServiceParts

-----------------------------------------------------------------------------
(***************************************************************************)
(* The steps of the service                                                *)
(***************************************************************************)

\* The variables of the service that have no name of their own.
Pending ==
  IF tries[Caller] = 0 THEN Idle
  ELSE CallOf(hdr[Caller].op, hdr[Caller].addr, hdr[Caller].len, body[Caller])

Applied == tries[Caller] > 0 /\ \E m \in handled[Device] : m.n > CallStart

\* A step of the session with which the service forgets calls, or does nothing at all.
Unseen ==
  /\ Outstanding' \in Service!Forgotten(Outstanding)
  /\ UNCHANGED <<flash[Device], Pending, Applied, rx[Caller]>>

\* Such a step is one of the service.
LEMMA UnseenStep == Unseen => Service!Forget
  BY DEF Unseen, Service!Forget, Pending, Applied

\* The calls that are outstanding are those of the requests of earlier calls.
LEMMA OutstandingIsLate ==
  /\ Outstanding = Late(requests, heard[Device][Caller], CallStart)
  /\ Outstanding' = Late(requests', heard'[Device][Caller], CallStart')
  BY DEF Outstanding, Overdue, Late, Numbers, CallNo

\* What the steps need to know of the state before and after them.
LEMMA ServiceState ==
  ASSUME Alone, ServiceInv
  PROVE  /\ CallStart \in Nat /\ CallStart = sent[Caller] - tries[Caller]
         /\ Numbered(requests)
         /\ Outstanding \in Seq(Call)
         /\ tries[Caller] > 0 =>
              /\ Pending = CallOf(hdr[Caller].op, hdr[Caller].addr, hdr[Caller].len, body[Caller])
              /\ Pending \in Call /\ Pending # Idle
         /\ tries[Caller] = 0 => Pending = Idle
         /\ Applied <=> \E m \in handled[Device] : m.n > CallStart
<1>1. /\ Caller \in Programmers
      /\ sent[Caller] \in Nat /\ tries[Caller] \in 0 .. MAX_TRIES
      /\ heard[Device][Caller] \in Nat /\ heard[Device][Caller] <= sent[Caller]
      /\ hdr[Caller] \in Header /\ body[Caller] \in Body
      /\ \A m \in handled[Device] : m.n \in Nat /\ m.n <= heard[Device][Caller]
      /\ Numbered(requests)
  BY ServiceFacts DEF ServiceInv
<1>2. CallStart \in Nat /\ CallStart = sent[Caller] - tries[Caller]
  BY <1>1 DEF ServiceInv, ServiceParts, CallStart, MAX_TRIES
<1>3. Outstanding \in Seq(Call)
  BY <1>1, <1>2, OutstandingIsLate, LateFacts
<1>4. CallOf(hdr[Caller].op, hdr[Caller].addr, hdr[Caller].len, body[Caller]) \in Call
  BY <1>1 DEF Header, Length, CallOf, Call
<1>5. Idle \notin Call
  BY IdleAssumption DEF Call
<1>6. Applied <=> \E m \in handled[Device] : m.n > CallStart
  BY <1>1, <1>2 DEF Applied, MAX_TRIES
<1> QED BY <1>1, <1>2, <1>3, <1>4, <1>5, <1>6 DEF Pending, MAX_TRIES

\* The same for the state after a step.
LEMMA ServiceStateNext ==
  ASSUME Alone, ServiceInv, ServiceInv'
  PROVE  /\ CallStart' \in Nat /\ CallStart' = sent'[Caller] - tries'[Caller]
         /\ heard'[Device][Caller] \in Nat
         /\ Numbered(requests')
<1>1. /\ Caller \in Programmers /\ Device \in Targets
      /\ \A p \in Programmers : p = Caller
  BY DEF Alone
<1>2. /\ sent' \in [Programmers -> Nat]
      /\ tries' \in [Programmers -> 0 .. MAX_TRIES]
      /\ heard' \in [Targets -> [Programmers -> Nat]]
      /\ requests' \subseteq Request
  BY DEF ServiceInv, CurrentInv, OnceInv, TypeInv, TypeOK
<1>3. tries'[Caller] <= sent'[Caller] /\ CallStart' = sent'[Caller] - tries'[Caller]
  BY DEF ServiceInv, ServiceParts, CallStart
<1>4. Numbered(requests')
  <2>1. \A m \in requests' : m.src = Caller
    BY <1>1, <1>2 DEF Request
  <2>2. \A m, x \in requests' : m.src = x.src /\ m.n = x.n => m = x
    BY <1>1 DEF ServiceInv, CurrentInv, OnceInv, OneRequest
  <2> QED BY <1>2, <2>1, <2>2 DEF Numbered
<1> QED BY <1>1, <1>2, <1>3, <1>4 DEF MAX_TRIES

\* A transmission has the oldest of the outstanding calls forgotten, and no other.
LEMMA TransmitForgets ==
  ASSUME Alone, ServiceInv, ServiceInv', NEW h, NEW b, NEW dst, NEW allowed,
         Transmit(Caller, h, b, dst, allowed), UNCHANGED heard,
         \A m \in requests : m.n <= CallStart' <=> m.n <= CallStart,
         \A m \in requests' : m \notin requests => m.n > CallStart'
  PROVE  Outstanding' \in Service!Forgotten(Outstanding)
<1> DEFINE lo   == heard[Device][Caller]
           last == sent[Caller] + 1
           k    == IF last >= Lifetime THEN last - Lifetime ELSE 0
<1>1. /\ lo \in Nat /\ last \in Nat /\ Lifetime \in Nat
      /\ \A m \in requests : m.n \in Nat
  BY ServiceFacts, PathAssumption DEF ServiceInv
<1>2. /\ CallStart \in Nat /\ CallStart' \in Nat
      /\ Numbered(requests) /\ Numbered(requests')
  BY ServiceState, ServiceStateNext
<1>3. \A m \in requests : m \in requests' <=> m.n + Lifetime > last
  BY CallerTransmits DEF ServiceInv
<1>4. k \in Nat /\ \A m \in requests : lo < m.n => (m.n + Lifetime > last <=> k < m.n)
  BY <1>1
<1> HIDE DEF lo, last, k
<1>5. \A m \in requests' : Within(m, lo, CallStart') =>
        m \in requests /\ Within(m, lo, CallStart) /\ k < m.n
  <2> TAKE m \in requests'
  <2> HAVE Within(m, lo, CallStart')
  <2>1. m.n <= CallStart' /\ lo < m.n
    BY DEF Within
  <2>2. m \in requests
    <3>1. m.n \in Nat
      BY <1>2 DEF Numbered, Request
    <3> QED BY <1>2, <2>1, <3>1
  <2> QED BY <1>3, <1>4, <2>1, <2>2 DEF Within
<1>6. \A m \in requests : Within(m, lo, CallStart) /\ k < m.n =>
        m \in requests' /\ Within(m, lo, CallStart')
  BY <1>3, <1>4 DEF Within
<1>7. Late(requests', lo, CallStart') \in Service!Forgotten(Late(requests, lo, CallStart))
  BY <1>1, <1>2, <1>4, <1>5, <1>6, LateForgotten
<1>8. heard'[Device][Caller] = lo
  BY DEF lo
<1> QED BY <1>7, <1>8, OutstandingIsLate DEF lo

\* A call that begins is a call of the service; one whose frame cannot be sent is not.
LEMMA BeginsStep ==
  ASSUME Alone, ServiceInv, ServiceInv', CallBegins, UNCHANGED targetVars
  PROVE  Service!Begin \/ Service!Forget
<1> PICK h \in Header, b \in Body, dst \in Destination, allowed \in BOOLEAN :
           Communicate(Caller, h, b, dst, allowed)
  BY DEF CallBegins
<1>1. /\ tries[Caller] = 0 /\ Transmit(Caller, h, b, dst, allowed)
      /\ tries'[Caller] = (IF CanSend(dst, allowed) THEN 1 ELSE 0)
      /\ hdr'[Caller] = h /\ body'[Caller] = b
      /\ UNCHANGED <<heard, rx>>
  BY CallerBegins DEF ServiceInv
<1>2. /\ sent'[Caller] = sent[Caller] + 1
      /\ \A m \in requests' : m \notin requests =>
           CanSend(dst, allowed) /\ m.n = sent[Caller] + 1
  BY <1>1, CallerTransmits DEF ServiceInv
<1>3. /\ sent[Caller] \in Nat
      /\ \A m \in requests : m.n \in Nat /\ m.n <= sent[Caller]
      /\ \A m \in handled[Device] : m.n \in Nat /\ m.n <= sent[Caller]
  <2>1. /\ sent[Caller] \in Nat /\ heard[Device][Caller] \in Nat
        /\ heard[Device][Caller] <= sent[Caller]
        /\ \A m \in handled[Device] : m.n \in Nat /\ m.n <= heard[Device][Caller]
        /\ \A m \in requests : m.n \in Nat /\ m.n <= sent[Caller]
    BY ServiceFacts DEF ServiceInv
  <2> QED BY <2>1
<1>4. /\ CallStart = sent[Caller] - tries[Caller]
      /\ CallStart' = sent'[Caller] - tries'[Caller]
      /\ Pending = Idle
      /\ Applied <=> \E m \in handled[Device] : m.n > CallStart
  BY <1>1, ServiceState, ServiceStateNext
<1>5. CallStart = sent[Caller] /\ sent[Caller] <= CallStart'
      /\ (CanSend(dst, allowed) => CallStart' = sent[Caller])
  BY <1>1, <1>2, <1>3, <1>4
<1>6. Outstanding' \in Service!Forgotten(Outstanding)
  <2>1. \A m \in requests : m.n <= CallStart' <=> m.n <= CallStart
    BY <1>3, <1>5, ServiceStateNext
  <2>2. \A m \in requests' : m \notin requests => m.n > CallStart'
    BY <1>2, <1>3, <1>5
  <2> QED BY <1>1, <2>1, <2>2, TransmitForgets
<1>7. UNCHANGED <<flash, handled>>
  BY DEF targetVars
<1>8. ~Applied
  BY <1>3, <1>4, <1>5
<1>9. CASE ~CanSend(dst, allowed)
  <2>1. tries'[Caller] = 0
    BY <1>1, <1>9
  <2>2. Pending' = Idle /\ ~Applied'
    BY <2>1 DEF Pending, Applied
  <2>3. UNCHANGED <<Pending, Applied>>
    BY <1>4, <1>8, <2>2 DEF Applied
  <2>4. Unseen
    BY <1>1, <1>6, <1>7, <2>3 DEF Unseen
  <2> QED BY <2>4, UnseenStep
<1>10. CASE CanSend(dst, allowed)
  <2>1. tries'[Caller] = 1
    BY <1>1, <1>10
  <2>2. Pending' \in Call
    <3>1. CallOf(h.op, h.addr, h.len, b) \in Call
      BY DEF Header, Length, CallOf, Call
    <3> QED BY <1>1, <2>1, <3>1 DEF Pending
  <2>3. Pending' # Idle
    BY <2>2, IdleAssumption DEF Call
  <2>4. ~Applied'
    <3>1. \A m \in handled'[Device] : ~(m.n > CallStart')
      BY <1>3, <1>5, <1>7, <1>10
    <3> QED BY <3>1 DEF Applied
  <2> QED BY <1>1, <1>4, <1>6, <1>7, <2>3, <2>4 DEF Service!Begin, Pending, Applied
<1> QED BY <1>9, <1>10

\* A repeated transmission goes unseen.
LEMMA RepeatsStep ==
  ASSUME Alone, ServiceInv, ServiceInv', CallRepeats, UNCHANGED targetVars
  PROVE  Service!Forget
<1> PICK dst, allowed : Transmit(Caller, hdr[Caller], body[Caller], dst, allowed)
  BY DEF CallRepeats
<1>1. /\ UNCHANGED <<heard, hdr, body, rx>>
      /\ tries[Caller] \in 1 .. MAX_TRIES - 1 /\ tries'[Caller] = tries[Caller] + 1
  BY ServiceFacts DEF CallRepeats, ServiceInv
<1>2. /\ sent'[Caller] = sent[Caller] + 1
      /\ \A m \in requests' : m \notin requests => m.n = sent[Caller] + 1
  BY CallerTransmits DEF ServiceInv
<1>3. sent[Caller] \in Nat
  BY ServiceFacts DEF ServiceInv
<1>4. /\ CallStart = sent[Caller] - tries[Caller]
      /\ CallStart' = sent'[Caller] - tries'[Caller]
  BY ServiceState, ServiceStateNext
<1>5. tries[Caller] \in Nat /\ tries[Caller] > 0 /\ tries'[Caller] > 0
  BY <1>1 DEF MAX_TRIES
<1>6. CallStart' = CallStart /\ sent[Caller] + 1 > CallStart
  BY <1>1, <1>2, <1>3, <1>4, <1>5
<1>7. Outstanding' \in Service!Forgotten(Outstanding)
  <2>1. \A m \in requests : m.n <= CallStart' <=> m.n <= CallStart
    BY <1>6
  <2>2. \A m \in requests' : m \notin requests => m.n > CallStart'
    BY <1>2, <1>6
  <2> QED BY <1>1, <2>1, <2>2, TransmitForgets
<1>8. UNCHANGED <<flash, handled>>
  BY DEF targetVars
<1>9. UNCHANGED <<Pending, Applied>>
  BY <1>1, <1>5, <1>6, <1>8 DEF Pending, Applied
<1>10. Unseen
  BY <1>1, <1>7, <1>8, <1>9 DEF Unseen
<1> QED BY <1>10, UnseenStep

\* A call that fails leaves its transmissions behind.
LEMMA FailsStep ==
  ASSUME Alone, ServiceInv, ServiceInv', CallFails, UNCHANGED targetVars
  PROVE  Service!Fail
<1> DEFINE lo == heard[Device][Caller]
<1>1. /\ tries[Caller] > 0 /\ tries'[Caller] = 0
      /\ UNCHANGED <<requests, sent, heard, hdr, body, rx, flash>>
  BY ServiceFacts DEF CallFails, ServiceInv, targetVars
<1>2. /\ sent[Caller] \in Nat /\ tries[Caller] \in 0 .. MAX_TRIES /\ lo \in Nat
      /\ \A m \in requests : m.n \in Nat /\ m.n <= sent[Caller]
  BY ServiceFacts DEF ServiceInv
<1>3. /\ CallStart \in Nat /\ CallStart = sent[Caller] - tries[Caller]
      /\ CallStart' = sent'[Caller] - tries'[Caller]
      /\ Pending = CallOf(hdr[Caller].op, hdr[Caller].addr, hdr[Caller].len, body[Caller])
      /\ Pending \in Call /\ Pending # Idle
      /\ Outstanding \in Seq(Call) /\ Numbered(requests)
  BY <1>1, ServiceState, ServiceStateNext
<1>4. CallStart' = sent[Caller] /\ CallStart <= sent[Caller]
      /\ sent[Caller] <= CallStart + MAX_TRIES
  BY <1>1, <1>2, <1>3 DEF MAX_TRIES
<1>5. \A m \in requests : CallStart < m.n /\ m.n <= sent[Caller] => CallOfRequest(m) = Pending
  <2> TAKE m \in requests
  <2> HAVE CallStart < m.n /\ m.n <= sent[Caller]
  <2>1. InBuffer(Caller, m)
    BY <1>2, <1>3 DEF ServiceInv, ServiceParts, CallCopies
  <2> QED BY <1>3, <2>1 DEF InBuffer, CallOfRequest
<1> DEFINE c == Pending
<1>6. c \in Call
  BY <1>3
<1> HIDE DEF lo, c
<1>7. Extended(requests, lo, CallStart, sent[Caller], c)
  <2>1. AllOf(requests, CallStart, sent[Caller], c)
    BY <1>5 DEF c, AllOf
  <2> QED BY <1>2, <1>3, <1>4, <1>6, <2>1, LateJoins
<1>8. PICK k \in 0 .. MAX_TRIES : Outstanding' = Outstanding \o [i \in 1 .. k |-> c]
  <2>1. heard'[Device][Caller] = lo
    BY <1>1 DEF lo
  <2> QED BY <1>1, <1>4, <1>7, <2>1, OutstandingIsLate DEF lo, Extended, Copies
<1>9. Outstanding' \in Service!Forgotten(Outstanding \o [i \in 1 .. k |-> c])
  <2> DEFINE s == Outstanding \o [i \in 1 .. k |-> c]
  <2>1. s \in Seq(Call)
    BY <1>3, <1>6
  <2> HIDE DEF s
  <2>2. s = SubSeq(s, 1, Len(s)) /\ 1 \in 1 .. Len(s) + 1
    BY <2>1
  <2>3. s \in Service!Forgotten(s)
    BY <2>2 DEF Service!Forgotten
  <2> QED BY <1>8, <2>3 DEF s
<1>10. Pending' = Idle /\ ~Applied'
  BY <1>1 DEF Pending, Applied
<1> QED BY <1>1, <1>3, <1>9, <1>10 DEF Service!Fail, Pending, Applied, c

\* A call that a reply ends has taken effect, and returns what it was to return.
LEMMA SucceedsStep ==
  ASSUME Lifetime <= SeqMod, Alone, ServiceInv, ServiceInv', UNCHANGED targetVars,
         NEW r \in replies, CallSucceeds(r)
  PROVE  Service!Return
<1>0. AckInv /\ ReadReplies /\ ServesCaller
  BY DEF ServiceInv, ServiceParts, CurrentInv
<1>1. /\ tries[Caller] > 0 /\ r.dst = Caller /\ r.op = hdr[Caller].op /\ r.status = "STATUS_OK"
      /\ Done(Caller, r) /\ Takes(Caller, r)
  BY DEF CallSucceeds, Done, Takes
<1>2. /\ Caller \in Programmers /\ Device \in Targets
      /\ tries'[Caller] = 0
      /\ rx'[Caller] = (IF r.op = "OP_READ" THEN r.payload ELSE rx[Caller])
      /\ UNCHANGED <<requests, sent, heard, hdr, body, flash>>
  BY ServiceFacts DEF CallSucceeds, ServiceInv, targetVars
<1>3. /\ sent[Caller] \in Nat /\ tries[Caller] \in 0 .. MAX_TRIES
      /\ heard[Device][Caller] \in Nat /\ heard[Device][Caller] <= sent[Caller]
      /\ \A m \in handled[Device] : m.n \in Nat /\ m.n <= heard[Device][Caller]
  BY ServiceFacts DEF ServiceInv
<1>4. r.n = sent[Caller]
  BY <1>0, <1>1, <1>2, TakesNewest
<1>5. r.src = Device /\ \E m \in handled[Device] : m.n = sent[Caller]
  <2>1. /\ r.src \in Targets
        /\ \E m \in handled[r.src] : InBuffer(Caller, m) /\ m.n = sent[Caller]
    BY <1>0, <1>1, <1>2, DoneMeansHandled
  <2>2. r.src = Device
    BY <2>1 DEF Alone
  <2> QED BY <2>1, <2>2
<1>6. heard[Device][Caller] = sent[Caller]
  BY <1>3, <1>5
<1>7. /\ CallStart \in Nat /\ CallStart = sent[Caller] - tries[Caller]
      /\ CallStart' \in Nat /\ CallStart' = sent'[Caller] - tries'[Caller]
      /\ Pending = CallOf(hdr[Caller].op, hdr[Caller].addr, hdr[Caller].len, body[Caller])
      /\ Pending # Idle
      /\ Applied <=> \E m \in handled[Device] : m.n > CallStart
      /\ Numbered(requests)
  BY <1>1, ServiceState, ServiceStateNext
<1>8. Applied
  <2>1. sent[Caller] > CallStart
    BY <1>1, <1>3, <1>7 DEF MAX_TRIES
  <2> QED BY <1>5, <1>7, <2>1
<1>9. Outstanding' = <<>>
  <2>1. CallStart' = sent[Caller] /\ heard'[Device][Caller] = sent[Caller]
    BY <1>2, <1>3, <1>6, <1>7
  <2>2. Late(requests, sent[Caller], sent[Caller]) = <<>>
    <3>1. sent[Caller] >= sent[Caller]
      BY <1>3
    <3> QED BY <1>3, <1>7, <3>1, LateFacts
  <2> QED BY <1>2, <2>1, <2>2, OutstandingIsLate
<1>10. rx'[Caller] = CallResult(Pending, flash[Device], rx[Caller])
  <2>1. /\ Pending.op = r.op
        /\ Pending.addr = hdr[Caller].addr /\ Pending.len = hdr[Caller].len
    BY <1>1, <1>7 DEF CallOf
  <2>2. r.op = "OP_READ" =>
          r.payload = Words(flash[Device], hdr[Caller].addr, hdr[Caller].len)
    <3>1. registered[Device] = Caller
      BY <1>0, <1>5 DEF ServesCaller
    <3> QED BY <1>0, <1>1, <1>4, <1>5, <3>1 DEF ReadReplies
  <2> QED BY <1>2, <2>1, <2>2 DEF CallResult
<1>11. Pending' = Idle /\ ~Applied'
  BY <1>2 DEF Pending, Applied
<1> QED BY <1>2, <1>7, <1>8, <1>9, <1>10, <1>11 DEF Service!Return, Pending, Applied

\* A request that the target takes has every request before it forgotten.
LEMMA DeviceForgets ==
  ASSUME Ordered, Alone, ServiceInv, ServiceInv', UNCHANGED progVars,
         NEW m \in requests, Receive(Device, m)
  PROVE  /\ CallStart' = CallStart
         /\ Outstanding' = Late(requests, m.n, CallStart)
         /\ IsEnd(Outstanding, Outstanding',
                  Rank(Numbers(requests, heard[Device][Caller], CallStart), m.n))
         /\ Outstanding' \in Service!Forgotten(Outstanding)
<1> DEFINE lo == heard[Device][Caller]
<1>1. UNCHANGED <<requests, sent, tries>> /\ lo <= m.n /\ heard'[Device][Caller] = m.n
  BY DeviceHears DEF ServiceInv, progVars
<1>2. /\ lo \in Nat /\ m.n \in Nat /\ \A x \in requests : x.n \in Nat
  BY ServiceFacts DEF ServiceInv
<1>3. CallStart' = CallStart /\ CallStart \in Nat /\ Numbered(requests)
  BY <1>1, ServiceState DEF CallStart
<1>4. Outstanding = Late(requests, lo, CallStart) /\ Outstanding' = Late(requests, m.n, CallStart)
  BY <1>1, <1>3, OutstandingIsLate
<1>5. /\ \A x \in requests : Within(x, m.n, CallStart) =>
           x \in requests /\ Within(x, lo, CallStart) /\ m.n < x.n
      /\ \A x \in requests : Within(x, lo, CallStart) /\ m.n < x.n =>
           x \in requests /\ Within(x, m.n, CallStart)
  BY <1>1, <1>2 DEF Within
<1> HIDE DEF lo
<1>6. IsEnd(Late(requests, lo, CallStart), Late(requests, m.n, CallStart),
            Rank(Numbers(requests, lo, CallStart), m.n))
  BY <1>2, <1>3, <1>5, LateForgets
<1>7. Late(requests, m.n, CallStart) \in Service!Forgotten(Late(requests, lo, CallStart))
  BY <1>2, <1>3, <1>5, LateForgotten
<1> QED BY <1>3, <1>4, <1>6, <1>7 DEF lo

\* What the target carries out is the call in progress, an earlier one, or a registration.
LEMMA DeviceStep ==
  ASSUME Ordered, Alone, ServiceInv, ServiceInv', UNCHANGED progVars,
         NEW m \in requests, Receive(Device, m)
  PROVE  Service!Apply \/ Service!ApplyLate \/ Service!Forget
<1> DEFINE lo == heard[Device][Caller]
           N  == Numbers(requests, lo, CallStart)
           i  == Rank(N, m.n)
<1>1. /\ CallStart' = CallStart
      /\ Outstanding' = Late(requests, m.n, CallStart)
      /\ IsEnd(Outstanding, Outstanding', i)
      /\ Outstanding' \in Service!Forgotten(Outstanding)
  BY DeviceForgets
<1>2. /\ Device \in Targets /\ m \in Request
      /\ handled \in [Targets -> SUBSET Request]
      /\ sent[Caller] \in Nat /\ tries[Caller] \in 0 .. MAX_TRIES
      /\ lo \in Nat /\ m.n \in Nat /\ m.n <= sent[Caller]
      /\ \A x \in handled[Device] : x.n \in Nat /\ x.n <= lo
      /\ m.src = Caller
  BY ServiceFacts DEF ServiceInv
<1>3. /\ CallStart \in Nat /\ CallStart = sent[Caller] - tries[Caller]
      /\ Numbered(requests) /\ Outstanding \in Seq(Call)
      /\ tries[Caller] > 0 =>
           /\ Pending = CallOf(hdr[Caller].op, hdr[Caller].addr, hdr[Caller].len, body[Caller])
           /\ Pending # Idle
      /\ Applied <=> \E x \in handled[Device] : x.n > CallStart
  BY ServiceState
<1>4. UNCHANGED <<tries, hdr, body, rx, Pending>> /\ lo <= m.n
  BY DeviceHears DEF ServiceInv, progVars, Pending
<1>5. CASE Idles
  <2>1. UNCHANGED Applied
    BY <1>1, <1>4, <1>5 DEF Idles, Applied
  <2>2. Unseen
    BY <1>1, <1>4, <1>5, <2>1 DEF Idles, Unseen
  <2> QED BY <2>2, UnseenStep
<1>6. ASSUME CarriesOut(m)
      PROVE  /\ handled'[Device] = handled[Device] \cup {m}
             /\ flash'[Device] \in CallEffects(CallOfRequest(m), flash[Device])
  BY <1>2, <1>6 DEF CarriesOut
<1> HIDE DEF lo, N, i
<1>7. CASE CarriesOut(m) /\ m.n > CallStart
  <2>1. tries[Caller] > 0
    BY <1>2, <1>3, <1>7
  <2>2. Pending = CallOfRequest(m)
    <3>1. InBuffer(Caller, m)
      BY <1>7 DEF ServiceInv, ServiceParts, CallCopies
    <3> QED BY <1>3, <2>1, <3>1 DEF InBuffer, CallOfRequest
  <2>3. Outstanding' = <<>>
    <3>1. m.n >= CallStart
      BY <1>2, <1>3, <1>7
    <3> QED BY <1>1, <1>2, <1>3, <3>1, LateFacts
  <2>4. Applied'
    <3>1. tries'[Caller] > 0
      BY <1>4, <2>1
    <3> QED BY <1>1, <1>6, <1>7, <3>1 DEF Applied
  <2>5. flash'[Device] \in CallEffects(Pending, flash[Device])
    BY <1>6, <1>7, <2>2
  <2>6. Service!Apply
    BY <1>3, <1>4, <2>1, <2>3, <2>4, <2>5 DEF Service!Apply, Pending, Applied
  <2> QED BY <2>6
<1>8. CASE CarriesOut(m) /\ lo < m.n /\ m.n <= CallStart
  <2>1. ~Applied
    BY <1>2, <1>3, <1>8
  <2>2. ~Applied'
    <3>1. \A x \in handled'[Device] : ~(x.n > CallStart')
      BY <1>1, <1>2, <1>3, <1>6, <1>8
    <3> QED BY <3>1 DEF Applied
  <2>3. Outstanding = Late(requests, lo, CallStart)
    BY OutstandingIsLate DEF lo
  <2>4. Within(m, lo, CallStart)
    BY <1>8 DEF Within
  <2>5. i \in DOMAIN Outstanding /\ Outstanding[i] = CallOfRequest(m)
    BY <1>2, <1>3, <2>3, <2>4, LateFacts, SMTT(30) DEF i, N
  <2>6. flash'[Device] \in CallEffects(Outstanding[i], flash[Device])
    BY <1>6, <1>8, <2>5
  <2>7. Outstanding' = SubSeq(Outstanding, i + 1, Len(Outstanding))
    BY <1>1 DEF IsEnd
  <2>8. UNCHANGED Applied
    BY <2>1, <2>2 DEF Applied
  <2>9. Service!ApplyLate
    BY <1>4, <2>1, <2>5, <2>6, <2>7, <2>8 DEF Service!ApplyLate, Pending, Applied
  <2> QED BY <2>9
<1>9. CASE CarriesOut(m) /\ m.n = lo /\ m.n <= CallStart
  <2>1. m.op \in RegisterOps
    BY <1>2, <1>9 DEF CarriesOut, ServiceInv, ServiceParts, HeardOnce, lo
  <2>2. flash'[Device] = flash[Device]
    BY <1>9, <2>1 DEF CarriesOut
  <2>3. UNCHANGED Applied
    <3>1. \A x \in handled[Device] \cup {m} : ~(x.n > CallStart)
      BY <1>2, <1>3, <1>9
    <3>2. ~Applied /\ ~Applied'
      BY <1>1, <1>3, <1>6, <1>9, <3>1 DEF Applied
    <3> QED BY <3>2 DEF Applied
  <2>4. Unseen
    BY <1>1, <1>4, <2>2, <2>3 DEF Unseen
  <2> QED BY <2>4, UnseenStep
<1>10. m.n > CallStart \/ m.n <= CallStart
  BY <1>2, <1>3
<1>11. lo < m.n \/ m.n = lo
  BY <1>2, <1>4
<1>12. Idles \/ CarriesOut(m)
  BY DeviceForm DEF ServiceInv
<1> QED BY <1>5, <1>7, <1>8, <1>9, <1>10, <1>11, <1>12

\* A step that leaves the datagrams and the call in progress alone leaves the service alone.
LEMMA StutterStep ==
  ASSUME UNCHANGED <<requests, sent, heard, tries, hdr, body, rx, flash, handled>>
  PROVE  UNCHANGED Service!vars
<1>1. CallStart' = CallStart
  BY DEF CallStart
<1>2. UNCHANGED Outstanding
  BY <1>1, OutstandingIsLate
<1>3. UNCHANGED Pending /\ UNCHANGED Applied
  BY <1>1 DEF Pending, Applied
<1> QED BY <1>2, <1>3 DEF Service!vars, Pending, Applied

-----------------------------------------------------------------------------
(***************************************************************************)
(* The refinement                                                          *)
(***************************************************************************)

\* The initial states are initial states of the service.
LEMMA ServiceStarts == ASSUME Alone PROVE Init => Service!Init
<1> SUFFICES ASSUME Init PROVE Service!Init
  OBVIOUS
<1>1. ServiceInv
  BY ServiceInit
<1>2. tries[Caller] = 0 /\ rx[Caller] = <<>> /\ sent[Caller] = 0 /\ heard[Device][Caller] = 0
  BY DEF Init, PathInit, ProgInit, Alone
<1>3. CallStart = 0 /\ Numbered(requests)
  BY <1>1, <1>2, ServiceState
<1>4. Outstanding = <<>>
  <2>1. Late(requests, 0, 0) = <<>>
    BY <1>3, LateFacts
  <2> QED BY <1>2, <1>3, <2>1, OutstandingIsLate
<1> QED BY <1>2, <1>4 DEF Service!Init

\* Every step is a step of the service, or leaves it as it is.
LEMMA ServiceSteps ==
  ASSUME Ordered, MaxRestarts = 0, Lifetime <= SeqMod, Alone
  PROVE  ServiceInv /\ ServiceInv' /\ [Next]_vars => [Service!Next]_(Service!vars)
<1> SUFFICES ASSUME ServiceInv, ServiceInv', [Next]_vars
             PROVE  [Service!Next]_(Service!vars)
  OBVIOUS
<1>1. TypeInv
  BY DEF ServiceInv, CurrentInv, OnceInv
<1>2. ASSUME Programmer(Caller), UNCHANGED targetVars
      PROVE  Service!Next \/ UNCHANGED Service!vars
  <2>1. CASE UNCHANGED <<requests, sent, heard, tries, hdr, body, rx>>
    BY <1>2, <2>1, StutterStep DEF targetVars
  <2>2. CASE CallBegins
    BY <1>2, <2>2, BeginsStep DEF Service!Next
  <2>3. CASE CallRepeats
    BY <1>2, <2>3, RepeatsStep DEF Service!Next
  <2>4. CASE CallFails
    BY <1>2, <2>4, FailsStep DEF Service!Next
  <2>5. CASE \E r \in replies : CallSucceeds(r)
    BY <1>2, <2>5, SucceedsStep DEF Service!Next
  <2> QED BY <1>2, <2>1, <2>2, <2>3, <2>4, <2>5, CallerForm
<1>3. ASSUME NEW m \in requests, Receive(Device, m), UNCHANGED progVars
      PROVE  Service!Next
  BY <1>3, DeviceStep DEF Service!Next
<1>4. ASSUME UNCHANGED vars
      PROVE  UNCHANGED Service!vars
  BY <1>4, StutterStep DEF vars, pathVars, progVars, targetVars
<1> QED BY <1>1, <1>2, <1>3, <1>4, AloneNext

\* On a path that keeps the order of requests, without restarts, and when no datagram
\* outlives a full turn of the sequence number, a programmer and its target are the service
\* of FlashService: whatever is sent, lost or repeated, a call that returned has taken effect
\* and will not do so again, what it returns is what the memory held, and a call that failed
\* never takes effect behind a newer one.
THEOREM ServiceImplemented ==
  ASSUME Ordered, MaxRestarts = 0, Lifetime <= SeqMod,
         Programmers = {Caller}, Targets = {Device}
  PROVE  Spec => ImplementsService
<1>1. Alone
  BY DEF Alone
<1>2. Init => ServiceInv /\ Service!Init
  BY <1>1, ServiceInit, ServiceStarts
<1>3. ServiceInv /\ [Next]_vars => ServiceInv'
  BY <1>1, ServiceNext
<1>4. ServiceInv /\ ServiceInv' /\ [Next]_vars => [Service!Next]_(Service!vars)
  BY <1>1, ServiceSteps
<1> QED BY <1>2, <1>3, <1>4, PTL DEF Spec, ImplementsService, Service!Spec
=============================================================================
