---------------------------- MODULE SequenceFacts ----------------------------
(***************************************************************************)
(* Facts about numbers and sequences that the proofs about the modules share. *)
(* Where a fact needs induction it is stated of a set of numbers, because the  *)
(* library's induction theorems have an operator for a parameter.            *)
(***************************************************************************)
EXTENDS Integers, Sequences, FiniteSets, SequencesExt, Filtering, FiniteSetTheorems,
        WellFoundedInduction, TLAPS

-----------------------------------------------------------------------------
(* Numbers *)

\* Mathematical induction, as a fact about a set.
LEMMA Counting ==
    ASSUME NEW S, 0 \in S, \A n \in Nat : n \in S => n + 1 \in S
    PROVE  Nat \subseteq S
<1>. DEFINE R == {p \in Nat \X Nat : p[1] < p[2]}
            Out == Nat \ S
<1>1. IsWellFoundedOn(R, Nat)
  BY NatLessThanWellFounded DEF OpToRel
<1>. SUFFICES ASSUME Out # {} PROVE FALSE
  OBVIOUS
<1>2. PICK c \in Out : TRUE
  OBVIOUS
<1>3. Out \subseteq Nat
  OBVIOUS
<1>4. PICK b \in Out : \A a \in Out : ~(<<a, b>> \in R)
  <2>. HIDE DEF Out, R
  <2>. QED  BY <1>1, <1>2, <1>3, WFMin
<1>5. b \in Nat /\ b # 0 /\ b - 1 \in Nat
  OBVIOUS
<1>6. b - 1 \in Out
  BY <1>5
<1>7. <<b - 1, b>> \in Nat \X Nat /\ <<b - 1, b>>[1] = b - 1 /\ <<b - 1, b>>[2] = b
  BY <1>5
<1>. QED  BY <1>4, <1>5, <1>6, <1>7

\* A set of naturals that is not empty has a least member.
LEMMA LeastMember ==
    ASSUME NEW S, S \subseteq Nat, S # {}
    PROVE  \E n \in S : \A m \in S : n <= m
<1> DEFINE R == {p \in Nat \X Nat : p[1] < p[2]}
<1>1. IsWellFoundedOn(R, Nat)
  BY NatLessThanWellFounded DEF OpToRel
<1>2. PICK n \in S : \A m \in S : ~(<<m, n>> \in R)
  BY <1>1, WFMin
<1>3. ASSUME NEW m \in S PROVE n <= m
  <2>1. <<m, n>> \in Nat \X Nat /\ <<m, n>>[1] = m /\ <<m, n>>[2] = n
    OBVIOUS
  <2> QED
    BY <1>2, <2>1
<1> QED
  BY <1>3

\* Where a property of the places of a sequence holds of every place before one
\* it holds of, it holds of the first ones, and there are as many as it has.
LEMMA FirstOnes ==
    ASSUME NEW n \in Nat, NEW S \in SUBSET (1 .. n), \A i, j \in 1 .. n : i <= j /\ j \in S => i \in S
    PROVE  Cardinality(S) \in 0 .. n /\ S = 1 .. Cardinality(S)
<1> DEFINE Others == (1 .. n + 1) \ S
<1>1. Others \subseteq Nat /\ n + 1 \in Others
  OBVIOUS
<1>2. PICK m \in Others : \A k \in Others : m <= k
  BY <1>1, LeastMember
<1>3. m - 1 \in 0 .. n
  OBVIOUS
<1>4. S = 1 .. m - 1
  <2>1. ASSUME NEW i \in 1 .. m - 1 PROVE i \in S
    BY <1>2
  <2>2. ASSUME NEW i \in S PROVE i \in 1 .. m - 1
    BY <1>2
  <2> QED
    BY <2>1, <2>2
<1>5. Cardinality(S) = m - 1
  BY <1>3, <1>4, FS_Interval
<1> QED
  BY <1>3, <1>4, <1>5

\* A set of naturals with a bound has a greatest member.
LEMMA GreatestMember ==
    ASSUME NEW S, S \subseteq Nat, S # {}, NEW bound \in Nat, \A n \in S : n <= bound
    PROVE  \E n \in S : \A m \in S : m <= n
<1>. DEFINE R == {p \in Nat \X Nat : p[1] < p[2]}
            Bounds == {b \in Nat : \A m \in S : m <= b}
<1>1. IsWellFoundedOn(R, Nat)
  BY NatLessThanWellFounded DEF OpToRel
<1>2. Bounds \subseteq Nat /\ bound \in Bounds
  OBVIOUS
<1>. HIDE DEF Bounds
<1>3. PICK b \in Bounds : \A c \in Bounds : ~(<<c, b>> \in R)
  BY <1>1, <1>2, WFMin
<1>4. b \in Nat /\ \A m \in S : m \in Nat /\ m <= b
  BY <1>2 DEF Bounds
<1>5. ASSUME b \notin S PROVE FALSE
  <2>1. ASSUME NEW m \in S PROVE m <= b - 1
    <3>1. m \in Nat /\ m <= b /\ m # b
      BY <1>4, <1>5
    <3>. QED  BY <1>4, <3>1
  <2>2. b - 1 \in Nat
    <3>1. PICK m \in S : TRUE
      OBVIOUS
    <3>2. m \in Nat /\ m <= b - 1
      BY <1>4, <2>1, <3>1
    <3>. QED  BY <1>4, <3>2
  <2>3. b - 1 \in Bounds
    BY <2>1, <2>2 DEF Bounds
  <2>4. <<b - 1, b>> \in Nat \X Nat /\ <<b - 1, b>>[1] = b - 1 /\ <<b - 1, b>>[2] = b
    BY <1>4, <2>2
  <2>. QED  BY <1>3, <1>4, <2>2, <2>3, <2>4
<1>. QED  BY <1>4, <1>5

\* Min and Max are the least and the greatest member.
LEMMA MinIs ==
    ASSUME NEW S, S \subseteq Nat, S # {}
    PROVE  Min(S) \in S /\ \A m \in S : Min(S) <= m
BY LeastMember DEF Min

LEMMA MaxIs ==
    ASSUME NEW S, S \subseteq Nat, S # {}, NEW b \in Nat, \A n \in S : n <= b
    PROVE  Max(S) \in S /\ \A m \in S : m <= Max(S)
<1>1. \E n \in S : \A m \in S : n >= m
  <2>1. PICK n \in S : \A m \in S : m <= n
    BY GreatestMember
  <2>2. \A m \in S : n >= m
    BY <2>1
  <2>. QED  BY <2>2
<1>. QED  BY <1>1 DEF Max

LEMMA MaxOfTwo ==
    ASSUME NEW c \in Nat, NEW d \in {0, c}
    PROVE  Max({d, c}) = c
<1>1. PICK S : S = {d, c}
  OBVIOUS
<1>2. S \subseteq Nat /\ S # {} /\ \A n \in S : n <= c
  BY <1>1
<1>3. Max(S) \in S /\ \A m \in S : m <= Max(S)
  BY <1>2, MaxIs
<1>4. c \in S /\ Max(S) \in Nat /\ Max(S) <= c /\ c <= Max(S)
  BY <1>1, <1>2, <1>3
<1>. QED  BY <1>1, <1>4

\* A finite set of numbers has a bound.
LEMMA Bounded ==
    ASSUME NEW S, S \subseteq Nat, IsFiniteSet(S)
    PROVE  \E b \in Nat : \A n \in S : n < b
<1>. DEFINE Bound(T) == \E b \in Nat : \A n \in T : n < b
            Has == {c \in Nat : \A T \in SUBSET Nat : (IsFiniteSet(T) /\ Cardinality(T) = c) => Bound(T)}
<1>1. 0 \in Has
  <2>. SUFFICES ASSUME NEW T \in SUBSET Nat, IsFiniteSet(T), Cardinality(T) = 0
       PROVE  \E b \in Nat : \A n \in T : n < b
    OBVIOUS
  <2>1. T = {}
    BY FS_EmptySet
  <2>. QED  BY <2>1
<1>2. ASSUME NEW c \in Nat, c \in Has PROVE c + 1 \in Has
  <2>. SUFFICES ASSUME NEW T \in SUBSET Nat, IsFiniteSet(T), Cardinality(T) = c + 1 PROVE Bound(T)
    <3>. HIDE DEF Bound
    <3>. QED  OBVIOUS
  <2>1. PICK t \in T : TRUE
    <3>1. T # {}
      BY FS_EmptySet
    <3>. QED  BY <3>1
  <2>. DEFINE U == T \ {t}
  <2>2. IsFiniteSet(U) /\ Cardinality(U) = c /\ U \in SUBSET Nat
    BY <2>1, FS_RemoveElement
  <2>3. PICK b \in Nat : \A n \in U : n < b
    BY <1>2, <2>2
  <2>4. \A n \in T : n < b + t + 1
    BY <2>1, <2>3
  <2>5. b + t + 1 \in Nat
    BY <2>1
  <2>. QED  BY <2>4, <2>5
<1>3. Nat \subseteq Has
  <2>. HIDE DEF Has
  <2>. QED  BY <1>1, <1>2, Counting
<1>4. Cardinality(S) \in Nat
  BY FS_CardinalityType
<1>. QED  BY <1>3, <1>4

-----------------------------------------------------------------------------
(* Loops *)

\* A loop of L turns over a state in S, begun at b, and what each turn leaves.
Loop(L, S, b, turn) == L \in Nat /\ b \in S /\ turn \in [1..L -> [S -> S]]
Looped(f, L, S, b, turn) ==
    /\ f \in [0..L -> S] /\ f[0] = b
    /\ \A n \in 1..L : f[n] = turn[n][f[n - 1]]

LEMMA Iterates ==
    ASSUME NEW L, NEW S, NEW b, NEW turn, Loop(L, S, b, turn)
    PROVE  \E f : Looped(f, L, S, b, turn)
<1>0. L \in Nat /\ b \in S /\ turn \in [1..L -> [S -> S]]
  BY DEF Loop
<1>. DEFINE Good(f, n) == f[0] = b /\ \A i \in 1..n : f[i] = turn[i][f[i - 1]]
            Reach == {n \in Nat : n <= L => \E f \in [0..n -> S] : Good(f, n)}
<1>1. 0 \in Reach
  <2>. DEFINE e == [i \in 0..0 |-> b]
  <2>1. e \in [0..0 -> S] /\ Good(e, 0)
    BY <1>0
  <2>. HIDE DEF e
  <2>. QED  BY <2>1
<1>2. ASSUME NEW n \in Nat, n \in Reach PROVE n + 1 \in Reach
  <2>. SUFFICES ASSUME n + 1 <= L PROVE \E f \in [0..(n + 1) -> S] : Good(f, n + 1)
    OBVIOUS
  <2>1. PICK f \in [0..n -> S] : Good(f, n)
    BY <1>0, <1>2
  <2>. DEFINE x == turn[n + 1][f[n]]
              g == [i \in 0..(n + 1) |-> IF i <= n THEN f[i] ELSE x]
  <2>2. x \in S
    <3>1. n \in 0..n /\ n + 1 \in 1..L
      BY <1>0
    <3>2. f[n] \in S /\ turn[n + 1] \in [S -> S]
      BY <1>0, <3>1
    <3>. QED  BY <3>2
  <2>. HIDE DEF x
  <2>3. /\ g \in [0..(n + 1) -> S] /\ g[n + 1] = x
        /\ \A i \in 0..n : g[i] = f[i]
    BY <2>2
  <2>. HIDE DEF g
  <2>4. g[0] = b
    BY <2>1, <2>3
  <2>5. ASSUME NEW i \in 1..(n + 1) PROVE g[i] = turn[i][g[i - 1]]
    <3>1. CASE i <= n
      <4>1. i \in 0..n /\ i \in 1..n /\ i - 1 \in 0..n
        BY <3>1
      <4>. QED  BY <2>1, <2>3, <4>1
    <3>2. CASE i = n + 1
      <4>1. i - 1 = n /\ n \in 0..n
        BY <3>2
      <4>2. g[i - 1] = f[n]
        BY <2>3, <4>1
      <4>. QED  BY <2>3, <3>2, <4>2 DEF x
    <3>. QED  BY <3>1, <3>2
  <2>. QED  BY <2>3, <2>4, <2>5
<1>3. Nat \subseteq Reach
  <2>. HIDE DEF Reach
  <2>. QED  BY <1>1, <1>2, Counting
<1>4. L \in Reach
  <2>. HIDE DEF Reach
  <2>. QED  BY <1>0, <1>3
<1>. QED  BY <1>0, <1>4 DEF Looped

\* A loop whose turns keep the state in S leaves it there.
LEMMA LoopKeeps ==
    ASSUME NEW L \in Nat, NEW S, NEW h, h[0] \in S, \A n \in 1..L : h[n - 1] \in S => h[n] \in S
    PROVE  \A n \in 0..L : h[n] \in S
<1>. DEFINE Good == {n \in Nat : n \in 0..L => h[n] \in S}
<1>1. 0 \in Good
  OBVIOUS
<1>2. ASSUME NEW n \in Nat, n \in Good PROVE n + 1 \in Good
  <2>. SUFFICES ASSUME n + 1 \in 0..L PROVE h[n + 1] \in S
    OBVIOUS
  <2>1. n \in 0..L /\ n + 1 \in 1..L /\ (n + 1) - 1 = n
    OBVIOUS
  <2>. QED  BY <1>2, <2>1
<1>3. Nat \subseteq Good
  <2>. HIDE DEF Good
  <2>. QED  BY <1>1, <1>2, Counting
<1>. QED  BY <1>3

-----------------------------------------------------------------------------
(* Numbers in order *)

\* A finite set of numbers can be put in order.
LEMMA Ordered ==
    ASSUME NEW S, S \subseteq Nat, IsFiniteSet(S)
    PROVE  /\ InOrder(S) \in Seq(S)
           /\ \A k \in DOMAIN InOrder(S) : InOrder(S)[k] \in S
<1>. DEFINE Rising(s, T) == /\ s \in [1..Cardinality(T) -> T]
                            /\ \A i, j \in DOMAIN s : i < j => s[i] < s[j]
            Has == {b \in Nat : \A T \in SUBSET Nat : (\A n \in T : n < b) => \E s : Rising(s, T)}
<1>1. 0 \in Has
  <2>. SUFFICES ASSUME NEW T \in SUBSET Nat, \A n \in T : n < 0 PROVE \E s : Rising(s, T)
    OBVIOUS
  <2>1. T = {}
    OBVIOUS
  <2>2. Cardinality(T) = 0
    BY <2>1, FS_EmptySet
  <2>3. [i \in 1..0 |-> 0] \in [1..0 -> T] /\ DOMAIN [i \in 1..0 |-> 0] = {}
    OBVIOUS
  <2>. QED  BY <2>2, <2>3
<1>2. ASSUME NEW b \in Nat, b \in Has PROVE b + 1 \in Has
  <2>. SUFFICES ASSUME NEW T \in SUBSET Nat, \A n \in T : n < b + 1 PROVE \E s : Rising(s, T)
    OBVIOUS
  <2>1. CASE b \notin T
    <3>1. \A n \in T : n < b
      BY <2>1
    <3>. QED  BY <1>2, <3>1
  <2>2. CASE b \in T
    <3>. DEFINE U == T \ {b}
                c == Cardinality(U)
    <3>1. U \in SUBSET Nat /\ \A n \in U : n < b
      OBVIOUS
    <3>2. IsFiniteSet(U) /\ c \in Nat
      <4>1. \A n \in U : n <= b
        BY <3>1
      <4>. QED  BY <3>1, <4>1, FS_BoundedSetOfNaturals, FS_CardinalityType
    <3>3. Cardinality(T) = c + 1
      <4>1. T = U \cup {b} /\ b \notin U
        BY <2>2
      <4>. HIDE DEF U
      <4>. QED  BY <3>2, <4>1, FS_AddElement
    <3>4. PICK s : Rising(s, U)
      <4>. HIDE DEF Rising, U
      <4>. QED  BY <1>2, <3>1
    <3>. HIDE DEF c
    <3>5. s \in [1..c -> U] /\ \A i, j \in 1..c : i < j => s[i] < s[j]
      BY <3>4 DEF c
    <3>. DEFINE t == [i \in 1..(c + 1) |-> IF i = c + 1 THEN b ELSE s[i]]
    <3>6. t \in [1..(c + 1) -> T]
      BY <2>2, <3>2, <3>5
    <3>7. \A i, j \in 1..(c + 1) : i < j => t[i] < t[j]
      <4>. SUFFICES ASSUME NEW i \in 1..(c + 1), NEW j \in 1..(c + 1), i < j PROVE t[i] < t[j]
        OBVIOUS
      <4>1. i \in 1..c /\ t[i] = s[i] /\ s[i] \in U
        BY <3>2, <3>5
      <4>2. CASE j = c + 1
        BY <3>1, <4>1, <4>2
      <4>3. CASE j # c + 1
        <5>1. j \in 1..c /\ t[j] = s[j]
          BY <3>2, <4>3
        <5>. QED  BY <3>5, <4>1, <5>1
      <4>. QED  BY <4>2, <4>3
    <3>. HIDE DEF t
    <3>8. Rising(t, T)
      BY <3>3, <3>6, <3>7
    <3>. QED  BY <3>8
  <2>. QED  BY <2>1, <2>2
<1>3. Nat \subseteq Has
  <2>. HIDE DEF Has
  <2>. QED  BY <1>1, <1>2, Counting
<1>4. \E s : Rising(s, S)
  <2>1. PICK b \in Nat : \A n \in S : n < b
    BY Bounded
  <2>2. b \in Has
    BY <1>3
  <2>. HIDE DEF Rising
  <2>. QED  BY <2>1, <2>2
<1>5. InOrder(S) \in [1..Cardinality(S) -> S]
  BY <1>4 DEF InOrder
<1>6. Cardinality(S) \in Nat
  BY FS_CardinalityType
<1>. QED  BY <1>5, <1>6

-----------------------------------------------------------------------------
(* One more at the end *)

\* t is s with x at its end.
Extends(t, s, x) ==
    /\ t \in Seq(Range(t)) /\ Len(t) = Len(s) + 1 /\ Len(t) \in DOMAIN t
    /\ t[Len(t)] = x /\ t # <<>>
    /\ \A i \in DOMAIN s : i \in DOMAIN t /\ t[i] = s[i]
    /\ \A y \in Range(t) : y \in Range(s) \/ y = x

LEMMA Appended ==
    ASSUME NEW S, NEW s \in Seq(S), NEW x, NEW t, t = Append(s, x)
    PROVE  Extends(t, s, x)
<1>1. s \in Seq(S \cup {x}) /\ x \in S \cup {x}
  OBVIOUS
<1>2. /\ t \in Seq(S \cup {x}) /\ Len(t) = Len(s) + 1 /\ Len(t) \in DOMAIN t
      /\ t[Len(t)] = x /\ t # <<>> /\ DOMAIN t = 1..(Len(s) + 1) /\ Len(s) \in Nat /\ DOMAIN s = 1..Len(s)
      /\ \A i \in DOMAIN s : i \in DOMAIN t /\ t[i] = s[i]
      /\ \A i \in DOMAIN t : i \in DOMAIN s \/ i = Len(s) + 1
  BY <1>1
<1>3. ASSUME NEW y \in Range(t) PROVE y \in Range(s) \/ y = x
  <2>1. PICK i \in DOMAIN t : y = t[i]
    BY DEF Range
  <2>2. CASE i \in DOMAIN s
    BY <1>2, <2>1, <2>2 DEF Range
  <2>3. CASE i = Len(s) + 1
    BY <1>2, <2>1, <2>3
  <2>. QED  BY <1>2, <2>2, <2>3
<1>4. t \in Seq(Range(t))
  <2>1. \A i \in 1..Len(t) : t[i] \in Range(t)
    BY <1>2 DEF Range
  <2>. QED  BY <1>2, <2>1
<1>. QED  BY <1>2, <1>3, <1>4 DEF Extends

-----------------------------------------------------------------------------
(* Sequences laid end to end *)

\* u holds what s and t hold.
Joins(u, s, t) ==
    /\ \A x \in DOMAIN u : \/ \E k \in DOMAIN s : u[x] = s[k]
                           \/ \E k \in DOMAIN t : u[x] = t[k]
    /\ \A k \in DOMAIN s : \E x \in DOMAIN u : u[x] = s[k]
    /\ \A k \in DOMAIN t : \E x \in DOMAIN u : u[x] = t[k]

LEMMA JoinHolds ==
    ASSUME NEW S, NEW s \in Seq(S), NEW t \in Seq(S), NEW u, u = s \o t
    PROVE  u \in Seq(S) /\ Joins(u, s, t)
<1>1. /\ u \in Seq(S) /\ Len(s) \in Nat
      /\ \A k \in DOMAIN s : k \in DOMAIN u /\ u[k] = s[k]
      /\ \A k \in DOMAIN t : Len(s) + k \in DOMAIN u /\ u[Len(s) + k] = t[k]
      /\ \A k \in DOMAIN u : k > Len(s) => k - Len(s) \in DOMAIN t
      /\ \A k \in DOMAIN u : k \in Nat /\ (k <= Len(s) => k \in DOMAIN s)
  OBVIOUS
<1>2. ASSUME NEW x \in DOMAIN u
      PROVE  \/ \E k \in DOMAIN s : u[x] = s[k]
             \/ \E k \in DOMAIN t : u[x] = t[k]
  <2>1. CASE x <= Len(s)
    BY <1>1, <2>1
  <2>2. CASE x > Len(s)
    <3>1. PICK k \in DOMAIN t : k = x - Len(s)
      BY <1>1, <2>2
    <3>2. Len(s) + k = x
      BY <1>1, <3>1
    <3>. QED  BY <1>1, <3>2
  <2>. QED  BY <1>1, <2>1, <2>2
<1>. QED  BY <1>1, <1>2 DEF Joins

\* h[n] is the first n of the sequences of ss, end to end.
Lays(h, ss, L) ==
    /\ h[1] = ss[1]
    /\ \A n \in 2..L : h[n] = h[n - 1] \o ss[n]
    /\ FlattenSeq(ss) = h[L]

\* What FlattenSeq computes, one sequence after the other.
LEMMA LaidOut ==
    ASSUME NEW S, NEW ss, NEW L \in Nat \ {0}, ss \in [1..L -> Seq(S)]
    PROVE  \E h : Lays(h, ss, L)
<1>. DEFINE Nth(f, i) == IF i = 1 THEN ss[i] ELSE f[i - 1] \o ss[i]
            Good(f, n) == \A i \in 1..n : f[i] = Nth(f, i)
            Reach == {n \in Nat : n <= L => \E f : f = [i \in 1..n |-> f[i]] /\ Good(f, n)}
<1>1. ss \in Seq(Seq(S)) /\ Len(ss) = L /\ DOMAIN ss = 1..L
  OBVIOUS
<1>2. 0 \in Reach
  <2>. DEFINE e == [i \in 1..0 |-> 0]
  <2>1. e = [i \in 1..0 |-> e[i]] /\ Good(e, 0)
    OBVIOUS
  <2>. HIDE DEF e
  <2>. QED  BY <2>1
<1>3. ASSUME NEW n \in Nat, n \in Reach PROVE n + 1 \in Reach
  <2>. SUFFICES ASSUME n + 1 <= L
       PROVE \E f : f = [i \in 1..(n + 1) |-> f[i]] /\ Good(f, n + 1)
    OBVIOUS
  <2>1. PICK f : f = [i \in 1..n |-> f[i]] /\ Good(f, n)
    BY <1>3
  <2>. DEFINE g == [i \in 1..(n + 1) |-> IF i <= n THEN f[i] ELSE Nth(f, n + 1)]
  <2>2. \A i \in 1..n : g[i] = f[i]
    OBVIOUS
  <2>3. g[n + 1] = Nth(f, n + 1)
    OBVIOUS
  <2>4. g = [i \in 1..(n + 1) |-> g[i]]
    OBVIOUS
  <2>. HIDE DEF g
  <2>5. Good(g, n + 1)
    <3>. SUFFICES ASSUME NEW i \in 1..(n + 1) PROVE g[i] = Nth(g, i)
      OBVIOUS
    <3>1. CASE i <= n
      <4>1. i \in 1..n /\ (i # 1 => i - 1 \in 1..n)
        BY <3>1
      <4>. QED  BY <2>1, <2>2, <4>1
    <3>2. CASE i = n + 1
      <4>1. i # 1 => (i - 1 \in 1..n /\ i - 1 = n)
        BY <3>2
      <4>. QED  BY <2>2, <2>3, <3>2, <4>1
    <3>. QED  BY <3>1, <3>2
  <2>. QED  BY <2>4, <2>5
<1>4. Nat \subseteq Reach
  <2>. HIDE DEF Reach
  <2>. QED  BY <1>2, <1>3, Counting
<1>5. PICK f : f = [i \in 1..L |-> f[i]] /\ Good(f, L)
  <2>1. L \in Reach
    <3>. HIDE DEF Reach
    <3>. QED  BY <1>4
  <2>. QED  BY <2>1
<1>6. f = [i \in 1..L |-> Nth(f, i)]
  <2>1. \A i \in 1..L : f[i] = Nth(f, i)
    BY <1>5
  <2>. HIDE DEF Nth
  <2>. QED  BY <1>5, <2>1
<1>. DEFINE h == CHOOSE g : g = [i \in 1..L |-> IF i = 1 THEN ss[i] ELSE g[i - 1] \o ss[i]]
<1>7. h = [i \in 1..L |-> IF i = 1 THEN ss[i] ELSE h[i - 1] \o ss[i]]
  BY <1>6
<1>8. FlattenSeq(ss) = h[L]
  BY <1>1 DEF FlattenSeq
<1>. HIDE DEF h
<1>9. h[1] = ss[1]
  <2>1. 1 \in 1..L
    OBVIOUS
  <2>. QED  BY <1>7, <2>1
<1>10. ASSUME NEW n \in 2..L PROVE h[n] = h[n - 1] \o ss[n]
  <2>1. n \in 1..L /\ n # 1
    OBVIOUS
  <2>. QED  BY <1>7, <2>1
<1>11. Lays(h, ss, L)
  BY <1>8, <1>9, <1>10 DEF Lays
<1>. QED  BY <1>11

\* FlattenSeq of one sequence is that sequence.
LEMMA FlattenOne ==
    ASSUME NEW S, NEW s \in Seq(S)
    PROVE  FlattenSeq(<<s>>) = s
<1>1. PICK ss : ss = <<s>>
  OBVIOUS
<1>2. ss \in [1..1 -> Seq(S)] /\ ss[1] = s
  BY <1>1
<1>3. PICK h : Lays(h, ss, 1)
  <2>1. 1 \in Nat \ {0}
    OBVIOUS
  <2>. QED  BY <1>2, <2>1, LaidOut
<1>. QED  BY <1>1, <1>2, <1>3 DEF Lays

\* The first sequences laid end to end are a sequence.
LEMMA LaidIsSeq ==
    ASSUME NEW S, NEW ss, NEW L \in Nat \ {0}, ss \in [1..L -> Seq(S)], NEW h, Lays(h, ss, L)
    PROVE  \A n \in 1..L : h[n] \in Seq(S)
<1>. DEFINE Good == {n \in Nat : n \in 1..L => h[n] \in Seq(S)}
<1>1. 0 \in Good
  OBVIOUS
<1>2. ASSUME NEW n \in Nat, n \in Good PROVE n + 1 \in Good
  <2>. SUFFICES ASSUME n + 1 <= L PROVE h[n + 1] \in Seq(S)
    OBVIOUS
  <2>1. CASE n = 0
    BY <2>1 DEF Lays
  <2>2. CASE n # 0
    <3>1. n + 1 \in 2..L /\ (n + 1) - 1 = n /\ n \in 1..L
      BY <2>2
    <3>2. h[n + 1] = h[n] \o ss[n + 1]
      BY <3>1 DEF Lays
    <3>3. h[n] \in Seq(S) /\ ss[n + 1] \in Seq(S)
      BY <1>2, <3>1
    <3>. QED  BY <3>2, <3>3
  <2>. QED  BY <2>1, <2>2
<1>3. Nat \subseteq Good
  <2>. HIDE DEF Good
  <2>. QED  BY <1>1, <1>2, Counting
<1>. QED  BY <1>3

\* Each place of r comes from a sequence of ss, and a later place from no earlier one.
InTurn(r, ss, L) ==
    \E from \in [DOMAIN r -> 1..L] :
        /\ \A k \in DOMAIN r : \E m \in DOMAIN ss[from[k]] : r[k] = ss[from[k]][m]
        /\ \A j, k \in DOMAIN r : j < k => from[j] <= from[k]

LEMMA FlattenedInTurn ==
    ASSUME NEW S, NEW ss, NEW L \in Nat, ss \in [1..L -> Seq(S)],
           NEW r, r = FlattenSeq(ss)
    PROVE  r \in Seq(S) /\ InTurn(r, ss, L)
<1>1. CASE L = 0
  <2>1. Len(ss) = 0 /\ ss = <<>>
    BY <1>1
  <2>2. r = <<>>
    BY <2>1 DEF FlattenSeq
  <2>. DEFINE from == [k \in DOMAIN r |-> 0]
  <2>3. from \in [DOMAIN r -> 1..L] /\ DOMAIN r = {}
    BY <2>2
  <2>. HIDE DEF from
  <2>4. /\ \A k \in DOMAIN r : \E m \in DOMAIN ss[from[k]] : r[k] = ss[from[k]][m]
        /\ \A j, k \in DOMAIN r : j < k => from[j] <= from[k]
    BY <2>3
  <2>5. InTurn(r, ss, L)
    BY <2>3, <2>4 DEF InTurn
  <2>. QED  BY <2>2, <2>5
<1>2. CASE L # 0
  <2>1. PICK h : Lays(h, ss, L)
    BY <1>2, LaidOut
  <2>. DEFINE Good == {n \in Nat : n \in 1..L => InTurn(h[n], ss, n)}
  <2>2. \A n \in 1..L : h[n] \in Seq(S)
    BY <1>2, <2>1, LaidIsSeq
  <2>3. 0 \in Good
    OBVIOUS
  <2>4. ASSUME NEW n \in Nat, n \in Good PROVE n + 1 \in Good
    <3>. SUFFICES ASSUME n + 1 <= L PROVE InTurn(h[n + 1], ss, n + 1)
      OBVIOUS
    <3>0. PICK u, t : u = h[n + 1] /\ t = ss[n + 1]
      OBVIOUS
    <3>1. CASE n = 0
      <4>1. u = t /\ u \in Seq(S)
        BY <2>1, <2>2, <3>0, <3>1 DEF Lays
      <4>. DEFINE from == [k \in DOMAIN u |-> 1]
      <4>2. from \in [DOMAIN u -> 1..(n + 1)] /\ \A k \in DOMAIN u : from[k] = 1
        BY <3>1
      <4>. HIDE DEF from
      <4>3. \A k \in DOMAIN u : \E m \in DOMAIN ss[1] : u[k] = ss[1][m]
        BY <3>0, <3>1, <4>1
      <4>4. /\ \A k \in DOMAIN u : \E m \in DOMAIN ss[from[k]] : u[k] = ss[from[k]][m]
            /\ \A j, k \in DOMAIN u : j < k => from[j] <= from[k]
        BY <4>2, <4>3
      <4>5. InTurn(u, ss, n + 1)
        BY <4>2, <4>4 DEF InTurn
      <4>. QED  BY <3>0, <4>5
    <3>2. CASE n # 0
      <4>1. n + 1 \in 2..L /\ (n + 1) - 1 = n /\ n \in 1..L
        BY <3>2
      <4>2. PICK s : s = h[n]
        OBVIOUS
      <4>3. s \in Seq(S) /\ t \in Seq(S) /\ u = s \o t
        <5>1. s \in Seq(S)
          BY <2>2, <4>1, <4>2
        <5>2. t \in Seq(S)
          BY <3>0
        <5>3. h[n + 1] = h[(n + 1) - 1] \o ss[n + 1]
          BY <2>1, <4>1 DEF Lays
        <5>. QED  BY <3>0, <4>1, <4>2, <5>1, <5>2, <5>3
      <4>4. /\ Len(s) \in Nat /\ DOMAIN s = 1..Len(s)
            /\ \A k \in DOMAIN u : k \in Nat
            /\ \A k \in DOMAIN u : k <= Len(s) => k \in DOMAIN s /\ u[k] = s[k]
            /\ \A k \in DOMAIN u : k > Len(s) => k - Len(s) \in DOMAIN t /\ u[k] = t[k - Len(s)]
        BY <4>3
      <4>5. PICK from \in [DOMAIN s -> 1..n] :
              /\ \A k \in DOMAIN s : \E m \in DOMAIN ss[from[k]] : s[k] = ss[from[k]][m]
              /\ \A j, k \in DOMAIN s : j < k => from[j] <= from[k]
        BY <2>4, <4>1, <4>2 DEF InTurn
      <4>. DEFINE l == Len(s)
                  of == [k \in DOMAIN u |-> IF k <= l THEN from[k] ELSE n + 1]
      <4>6. of \in [DOMAIN u -> 1..(n + 1)]
        <5>1. ASSUME NEW k \in DOMAIN u PROVE (IF k <= l THEN from[k] ELSE n + 1) \in 1..(n + 1)
          <6>1. k <= l => from[k] \in 1..n
            BY <4>4, <4>5
          <6>. QED  BY <6>1
        <5>. QED  BY <5>1
      <4>7. ASSUME NEW k \in DOMAIN u PROVE \E m \in DOMAIN ss[of[k]] : u[k] = ss[of[k]][m]
        <5>1. CASE k <= l
          <6>1. of[k] = from[k] /\ k \in DOMAIN s /\ u[k] = s[k]
            BY <4>4, <5>1
          <6>. QED  BY <4>5, <6>1
        <5>2. CASE k > l
          <6>1. of[k] = n + 1 /\ k - l \in DOMAIN t /\ u[k] = t[k - l]
            BY <4>4, <5>2
          <6>. QED  BY <3>0, <6>1
        <5>. QED  BY <4>4, <5>1, <5>2
      <4>8. ASSUME NEW j \in DOMAIN u, NEW k \in DOMAIN u, j < k PROVE of[j] <= of[k]
        <5>1. CASE k <= l
          <6>1. /\ of[k] = from[k] /\ k \in DOMAIN s
                /\ of[j] = from[j] /\ j \in DOMAIN s
            BY <4>4, <4>8, <5>1
          <6>. QED  BY <4>5, <4>8, <6>1
        <5>2. CASE k > l
          <6>1. of[k] = n + 1 /\ of[j] \in 1..(n + 1)
            BY <4>4, <4>6, <5>2
          <6>. QED  BY <6>1
        <5>. QED  BY <4>4, <5>1, <5>2
      <4>. HIDE DEF of
      <4>. QED  BY <3>0, <4>6, <4>7, <4>8 DEF InTurn
    <3>. QED  BY <3>1, <3>2
  <2>5. Nat \subseteq Good
    <3>. HIDE DEF Good
    <3>. QED  BY <2>3, <2>4, Counting
  <2>6. L \in Good /\ L \in 1..L
    <3>. HIDE DEF Good
    <3>. QED  BY <1>2, <2>5
  <2>. QED  BY <2>1, <2>2, <2>6 DEF Lays
<1>. QED  BY <1>1, <1>2

\* What comes last in the last of the sequences comes last.
LEMMA FlattenedEnd ==
    ASSUME NEW S, NEW ss, NEW L \in Nat \ {0}, ss \in [1..L -> Seq(S)],
           NEW x, ss[L] = <<x>>, NEW r, r = FlattenSeq(ss)
    PROVE  Len(r) # 0 /\ r[Len(r)] = x
<1>1. PICK h : Lays(h, ss, L)
  BY LaidOut
<1>2. \A n \in 1..L : h[n] \in Seq(S)
  BY <1>1, LaidIsSeq
<1>3. x \in S
  <2>1. <<x>> \in Seq(S)
    <3>1. L \in 1..L
      OBVIOUS
    <3>2. ss[L] \in Seq(S)
      BY <3>1
    <3>. QED  BY <3>2
  <2>2. <<x>>[1] = x /\ 1 \in DOMAIN <<x>>
    OBVIOUS
  <2>. QED  BY <2>1, <2>2
<1>4. CASE L = 1
  BY <1>1, <1>4, SMTT(30) DEF Lays
<1>5. CASE L # 1
  <2>1. PICK s : s = h[L - 1]
    OBVIOUS
  <2>2. s \in Seq(S) /\ r = s \o <<x>>
    <3>1. L \in 2..L /\ L - 1 \in 1..L
      BY <1>5
    <3>. QED  BY <1>1, <1>2, <2>1, <3>1 DEF Lays
  <2>. QED  BY <1>3, <2>2
<1>. QED  BY <1>4, <1>5

\* A sequence of sequences laid end to end holds what each of them holds.
HoldsAll(r, ss, L) ==
    /\ \A k \in DOMAIN r : \E i \in 1..L : \E m \in DOMAIN ss[i] : r[k] = ss[i][m]
    /\ \A i \in 1..L : \A m \in DOMAIN ss[i] : \E k \in DOMAIN r : r[k] = ss[i][m]

LEMMA Flattened ==
    ASSUME NEW S, NEW ss, NEW L \in Nat, ss \in [1..L -> Seq(S)],
           NEW r, r = FlattenSeq(ss)
    PROVE  r \in Seq(S) /\ HoldsAll(r, ss, L)
<1>1. r \in Seq(S) /\ InTurn(r, ss, L)
  BY FlattenedInTurn
<1>2. \A k \in DOMAIN r : \E i \in 1..L : \E m \in DOMAIN ss[i] : r[k] = ss[i][m]
  <2>1. PICK from \in [DOMAIN r -> 1..L] :
          \A k \in DOMAIN r : \E m \in DOMAIN ss[from[k]] : r[k] = ss[from[k]][m]
    BY <1>1 DEF InTurn
  <2>2. \A k \in DOMAIN r : from[k] \in 1..L
    OBVIOUS
  <2>. QED  BY <2>1, <2>2
<1>3. CASE L = 0
  BY <1>1, <1>2, <1>3 DEF HoldsAll
<1>4. CASE L # 0
  <2>1. PICK h : Lays(h, ss, L)
    BY <1>4, LaidOut
  <2>2. \A n \in 1..L : h[n] \in Seq(S)
    BY <1>4, <2>1, LaidIsSeq
  <2>. DEFINE Has(n) == \A i \in 1..n : \A m \in DOMAIN ss[i] : \E k \in DOMAIN h[n] : h[n][k] = ss[i][m]
              Good == {n \in Nat : n \in 1..L => Has(n)}
  <2>3. 0 \in Good
    OBVIOUS
  <2>4. ASSUME NEW n \in Nat, n \in Good PROVE n + 1 \in Good
    <3>. SUFFICES ASSUME n + 1 <= L PROVE Has(n + 1)
      <4>. HIDE DEF Has
      <4>. QED  OBVIOUS
    <3>1. CASE n = 0
      <4>1. h[n + 1] = ss[1]
        BY <2>1, <3>1 DEF Lays
      <4>. QED  BY <3>1, <4>1
    <3>2. CASE n # 0
      <4>1. n + 1 \in 2..L /\ (n + 1) - 1 = n /\ n \in 1..L
        BY <3>2
      <4>2. PICK s, t, u : s = h[n] /\ t = ss[n + 1] /\ u = h[n + 1]
        OBVIOUS
      <4>3. s \in Seq(S) /\ t \in Seq(S) /\ u = s \o t
        <5>1. s \in Seq(S)
          BY <2>2, <4>1, <4>2
        <5>2. t \in Seq(S)
          BY <4>2
        <5>3. h[n + 1] = h[(n + 1) - 1] \o ss[n + 1]
          BY <2>1, <4>1 DEF Lays
        <5>. QED  BY <4>1, <4>2, <5>1, <5>2, <5>3
      <4>4. Joins(u, s, t)
        BY <4>3, JoinHolds
      <4>5. Has(n)
        <5>. HIDE DEF Has
        <5>. QED  BY <2>4, <4>1
      <4>. SUFFICES ASSUME NEW i \in 1..(n + 1), NEW m \in DOMAIN ss[i]
           PROVE  \E k \in DOMAIN u : u[k] = ss[i][m]
        BY <4>2
      <4>6. CASE i \in 1..n
        <5>1. PICK k \in DOMAIN s : s[k] = ss[i][m]
          BY <4>2, <4>5, <4>6
        <5>. QED  BY <4>4, <5>1 DEF Joins
      <4>7. CASE i = n + 1
        <5>1. ss[i] = t
          BY <4>2, <4>7
        <5>. QED  BY <4>4, <5>1 DEF Joins
      <4>8. i \in 1..n \/ i = n + 1
        OBVIOUS
      <4>. QED  BY <4>6, <4>7, <4>8
    <3>. QED  BY <3>1, <3>2
  <2>5. Nat \subseteq Good
    <3>. HIDE DEF Good
    <3>. QED  BY <2>3, <2>4, Counting
  <2>6. Has(L)
    <3>1. L \in Good /\ L \in 1..L
      <4>. HIDE DEF Good
      <4>. QED  BY <1>4, <2>5
    <3>. HIDE DEF Has
    <3>. QED  BY <3>1
  <2>7. r = h[L]
    BY <2>1 DEF Lays
  <2>8. \A i \in 1..L : \A m \in DOMAIN ss[i] : \E k \in DOMAIN r : r[k] = ss[i][m]
    BY <2>6, <2>7
  <2>. HIDE DEF Has, Good
  <2>. QED  BY <1>1, <1>2, <2>8 DEF HoldsAll
<1>. QED  BY <1>3, <1>4

-----------------------------------------------------------------------------
(* The members of a sequence that are in a set *)

\* The sequences of at most one member that Among lays end to end.
LEMMA AmongParts ==
    ASSUME NEW S, NEW s \in Seq(S), NEW T
    PROVE  \E ss \in [1..Len(s) -> Seq(S)] :
              /\ Among(s, T) = FlattenSeq(ss)
              /\ \A i \in 1..Len(s) : ss[i] = IF s[i] \in T THEN <<s[i]>> ELSE <<>>
<1>. DEFINE ss == [i \in DOMAIN s |-> IF s[i] \in T THEN <<s[i]>> ELSE <<>>]
<1>1. DOMAIN s = 1..Len(s) /\ \A i \in 1..Len(s) : s[i] \in S
  OBVIOUS
<1>2. \A i \in 1..Len(s) : ss[i] \in Seq(S) /\ ss[i] = IF s[i] \in T THEN <<s[i]>> ELSE <<>>
  <2>1. \A i \in 1..Len(s) : <<s[i]>> \in Seq(S) /\ <<>> \in Seq(S)
    BY <1>1
  <2>. QED  BY <1>1, <2>1
<1>3. Among(s, T) = FlattenSeq(ss)
  BY DEF Among
<1>4. ss \in [1..Len(s) -> Seq(S)]
  BY <1>1, <1>2
<1>. HIDE DEF ss
<1>. QED  BY <1>2, <1>3, <1>4

\* What Among keeps is what is in the set.
AmongOnes(r, s, T) ==
    /\ \A k \in DOMAIN r : r[k] \in T /\ \E i \in DOMAIN s : r[k] = s[i]
    /\ \A i \in DOMAIN s : s[i] \in T => \E k \in DOMAIN r : r[k] = s[i]

LEMMA AmongHolds ==
    ASSUME NEW S, NEW s \in Seq(S), NEW T, NEW r, r = Among(s, T)
    PROVE  r \in Seq(S) /\ AmongOnes(r, s, T)
<1>. DEFINE L == Len(s)
<1>1. PICK ss \in [1..L -> Seq(S)] :
         /\ r = FlattenSeq(ss)
         /\ \A i \in 1..L : ss[i] = IF s[i] \in T THEN <<s[i]>> ELSE <<>>
  BY AmongParts
<1>2. L \in Nat /\ DOMAIN s = 1..L
  OBVIOUS
<1>. HIDE DEF L
<1>3. r \in Seq(S) /\ HoldsAll(r, ss, L)
  BY <1>1, <1>2, Flattened
<1>4. ASSUME NEW i \in 1..L, NEW m \in DOMAIN ss[i] PROVE s[i] \in T /\ ss[i][m] = s[i]
  <2>1. CASE s[i] \in T
    <3>1. ss[i] = <<s[i]>>
      BY <1>1, <2>1
    <3>2. m \in DOMAIN <<s[i]>>
      BY <3>1
    <3>3. m = 1 /\ <<s[i]>>[1] = s[i]
      BY <3>2
    <3>. QED  BY <2>1, <3>1, <3>3
  <2>2. CASE s[i] \notin T
    <3>1. ss[i] = <<>>
      BY <1>1, <2>2
    <3>2. m \in DOMAIN <<>>
      BY <3>1
    <3>. QED  BY <3>2
  <2>. QED  BY <2>1, <2>2
<1>5. ASSUME NEW k \in DOMAIN r PROVE r[k] \in T /\ \E i \in DOMAIN s : r[k] = s[i]
  <2>1. PICK i \in 1..L : \E m \in DOMAIN ss[i] : r[k] = ss[i][m]
    BY <1>3 DEF HoldsAll
  <2>. QED  BY <1>2, <1>4, <2>1
<1>6. ASSUME NEW i \in DOMAIN s, s[i] \in T PROVE \E k \in DOMAIN r : r[k] = s[i]
  <2>1. ss[i] = <<s[i]>> /\ i \in 1..L
    BY <1>1, <1>2, <1>6
  <2>2. 1 \in DOMAIN <<s[i]>> /\ <<s[i]>>[1] = s[i]
    OBVIOUS
  <2>3. 1 \in DOMAIN ss[i] /\ ss[i][1] = s[i]
    BY <2>1, <2>2
  <2>. QED  BY <1>3, <2>1, <2>3 DEF HoldsAll
<1>. QED  BY <1>3, <1>5, <1>6 DEF AmongOnes

\* A last member that is in the set stays last.
LEMMA AmongEnd ==
    ASSUME NEW S, NEW s \in Seq(S), s # <<>>, NEW T, s[Len(s)] \in T, NEW r, r = Among(s, T)
    PROVE  Len(r) # 0 /\ r[Len(r)] = s[Len(s)]
<1>. DEFINE L == Len(s)
<1>1. PICK ss \in [1..L -> Seq(S)] :
         /\ r = FlattenSeq(ss)
         /\ \A i \in 1..L : ss[i] = IF s[i] \in T THEN <<s[i]>> ELSE <<>>
  BY AmongParts
<1>2. L \in Nat \ {0} /\ L \in 1..L
  OBVIOUS
<1>3. PICK x : x = s[L]
  OBVIOUS
<1>4. ss[L] = <<x>>
  BY <1>1, <1>2, <1>3
<1>. HIDE DEF L
<1>5. Len(r) # 0 /\ r[Len(r)] = x
  BY <1>1, <1>2, <1>4, FlattenedEnd
<1>. QED  BY <1>3, <1>5 DEF L

\* What Among keeps is in its order.
LEMMA AmongInTurn ==
    ASSUME NEW S, NEW s \in Seq(S), NEW T, NEW r, r = Among(s, T)
    PROVE  \E place \in [DOMAIN r -> DOMAIN s] :
              /\ \A k \in DOMAIN r : r[k] = s[place[k]]
              /\ \A j, k \in DOMAIN r : j < k => place[j] <= place[k]
<1>. DEFINE L == Len(s)
<1>1. PICK ss \in [1..L -> Seq(S)] :
         /\ r = FlattenSeq(ss)
         /\ \A i \in 1..L : ss[i] = IF s[i] \in T THEN <<s[i]>> ELSE <<>>
  BY AmongParts
<1>2. L \in Nat /\ DOMAIN s = 1..L
  OBVIOUS
<1>. HIDE DEF L
<1>3. InTurn(r, ss, L)
  BY <1>1, <1>2, FlattenedInTurn
<1>4. ASSUME NEW i \in 1..L, NEW m \in DOMAIN ss[i] PROVE ss[i][m] = s[i]
  <2>1. CASE s[i] \in T
    <3>1. ss[i] = <<s[i]>>
      BY <1>1, <2>1
    <3>2. m \in DOMAIN <<s[i]>>
      BY <3>1
    <3>. QED  BY <3>1, <3>2
  <2>2. CASE s[i] \notin T
    <3>1. ss[i] = <<>>
      BY <1>1, <2>2
    <3>2. m \in DOMAIN <<>>
      BY <3>1
    <3>. QED  BY <3>2
  <2>. QED  BY <2>1, <2>2
<1>5. PICK place \in [DOMAIN r -> 1..L] :
         /\ \A k \in DOMAIN r : \E m \in DOMAIN ss[place[k]] : r[k] = ss[place[k]][m]
         /\ \A j, k \in DOMAIN r : j < k => place[j] <= place[k]
  BY <1>3 DEF InTurn
<1>6. \A k \in DOMAIN r : r[k] = s[place[k]]
  <2>. TAKE k \in DOMAIN r
  <2>1. place[k] \in 1..L
    BY <1>5
  <2>2. PICK m \in DOMAIN ss[place[k]] : r[k] = ss[place[k]][m]
    BY <1>5
  <2>. QED  BY <1>4, <2>1, <2>2
<1>. QED  BY <1>2, <1>5, <1>6

=============================================================================
