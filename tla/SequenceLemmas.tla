--------------------------- MODULE SequenceLemmas ---------------------------
(***************************************************************************)
(* What the proofs about texts and tasks need of numbers and sequences:    *)
(* induction with sets of numbers, the existence of functions that are     *)
(* defined recursively, and joined sequences.                              *)
(***************************************************************************)
EXTENDS Integers, SequencesExt, WellFoundedInduction, TLAPS

-----------------------------------------------------------------------------
(* Induction and recursion, with sets of numbers and functions.            *)

\* A set of numbers that has 0, and with each number the next, has them all.
LEMMA EveryNumber ==
  ASSUME NEW T, 0 \in T, \A n \in Nat : n \in T => n + 1 \in T
  PROVE  Nat \subseteq T
<1> DEFINE B == Nat \ T
<1>1. SUFFICES ASSUME B # {} PROVE FALSE
  OBVIOUS
<1>2. IsWellFoundedOn(OpToRel(<, Nat), Nat)
  BY NatLessThanWellFounded
<1>3. PICK x \in B : \A y \in B : ~ (<<y, x>> \in OpToRel(<, Nat))
  <2>1. B \subseteq Nat
    OBVIOUS
  <2> HIDE DEF B
  <2> QED  BY <1>1, <1>2, <2>1, WFMin
<1>4. x # 0 /\ x - 1 \in Nat /\ x - 1 + 1 = x
  OBVIOUS
<1>5. x - 1 \in B
  BY <1>4
<1>6. <<x - 1, x>> \in OpToRel(<, Nat)
  BY <1>4 DEF OpToRel
<1> QED  BY <1>3, <1>5, <1>6

\* f follows the rule G where the measure m is below k.
Follows(f, G, S, V, m, k) ==
  f \in [S -> V] /\ \A x \in S : m[x] < k => f[x] = G[x][f]

\* The rule G asks for values at a smaller measure only.
Descends(G, S, V, m) ==
  /\ m \in [S -> Nat]
  /\ \A x \in S, f \in [S -> V] : G[x][f] \in V
  /\ \A x \in S, f, g \in [S -> V] :
       (\A y \in S : m[y] < m[x] => f[y] = g[y]) => G[x][f] = G[x][g]

\* Two functions that follow a rule are the same, as far as they do.
LEMMA FollowSame ==
  ASSUME NEW S, NEW V, NEW m, NEW G, Descends(G, S, V, m), NEW k \in Nat,
         NEW f, Follows(f, G, S, V, m, k), NEW g, Follows(g, G, S, V, m, k)
  PROVE  \A x \in S : m[x] < k => f[x] = g[x]
<1> DEFINE T == {j \in Nat : j <= k => \A x \in S : m[x] < j => f[x] = g[x]}
<1>1. 0 \in T
  BY DEF Descends
<1>2. ASSUME NEW j \in Nat, j \in T PROVE j + 1 \in T
  <2>1. SUFFICES ASSUME j + 1 <= k, NEW x \in S, m[x] < j + 1 PROVE f[x] = g[x]
    OBVIOUS
  <2>2. m[x] <= j /\ m[x] \in Nat /\ j <= k
    BY <1>2, <2>1 DEF Descends
  <2>3. \A y \in S : m[y] < m[x] => f[y] = g[y]
    BY <1>2, <2>2 DEF Descends
  <2>4. G[x][f] = G[x][g]
    BY <2>3 DEF Descends, Follows
  <2> QED  BY <2>1, <2>2, <2>4 DEF Follows
<1>3. Nat \subseteq T
  <2> HIDE DEF T
  <2> QED  BY <1>1, <1>2, EveryNumber
<1>4. k \in T
  BY <1>3
<1> QED  BY <1>4

\* f follows the rule everywhere.
Solves(f, G, S, V) == f \in [S -> V] /\ \A x \in S : f[x] = G[x][f]

\* There is a function that does.
LEMMA Recursion ==
  ASSUME NEW S, NEW V, NEW v \in V, NEW m, NEW G, Descends(G, S, V, m)
  PROVE  \E f : Solves(f, G, S, V)
<1> DEFINE T == {k \in Nat : \E f : Follows(f, G, S, V, m, k)}
<1>1. 0 \in T
  <2>1. Follows([x \in S |-> v], G, S, V, m, 0)
    BY DEF Follows, Descends
  <2> QED  BY <2>1
<1>2. ASSUME NEW k \in Nat, k \in T PROVE k + 1 \in T
  <2>1. PICK f : Follows(f, G, S, V, m, k)
    BY <1>2
  <2> DEFINE g == [x \in S |-> IF m[x] < k THEN f[x] ELSE G[x][f]]
  <2>2. f \in [S -> V] /\ g \in [S -> V]
    BY <2>1 DEF Follows, Descends
  <2>3. ASSUME NEW x \in S, m[x] < k + 1 PROVE g[x] = G[x][g]
    <3>1. m[x] \in Nat /\ k \in Nat /\ \A y \in S : m[y] \in Nat
      BY DEF Descends
    <3>2. \A y \in S : m[y] < m[x] => f[y] = g[y]
      BY <2>3, <3>1
    <3>3. G[x][f] = G[x][g]
      <4> HIDE DEF g
      <4> QED  BY <2>2, <3>2 DEF Descends
    <3>4. g[x] = G[x][f]
      BY <2>1 DEF Follows
    <3> QED  BY <3>3, <3>4
  <2>4. Follows(g, G, S, V, m, k + 1)
    <3> HIDE DEF g
    <3> QED  BY <2>2, <2>3 DEF Follows
  <2> HIDE DEF g
  <2> QED  BY <2>4
<1>3. Nat \subseteq T
  <2> HIDE DEF T
  <2> QED  BY <1>1, <1>2, EveryNumber
<1> DEFINE F == [k \in Nat |-> CHOOSE f : Follows(f, G, S, V, m, k)]
           h == [x \in S |-> F[m[x] + 1][x]]
<1>4. \A k \in Nat : Follows(F[k], G, S, V, m, k)
  BY <1>3
<1>5. \A x \in S : m[x] \in Nat /\ m[x] + 1 \in Nat
  BY DEF Descends
<1> HIDE DEF F
<1>6. h \in [S -> V]
  BY <1>4, <1>5 DEF Follows
<1>7. ASSUME NEW x \in S PROVE h[x] = G[x][h]
  <2>1. ASSUME NEW y \in S, m[y] < m[x] PROVE F[m[x] + 1][y] = h[y]
    <3>1. Follows(F[m[x] + 1], G, S, V, m, m[y] + 1)
      BY <1>4, <1>5, <2>1 DEF Follows
    <3>2. Follows(F[m[y] + 1], G, S, V, m, m[y] + 1)
      BY <1>4, <1>5
    <3>3. m[y] < m[y] + 1
      BY <1>5
    <3> HIDE DEF h
    <3>4. F[m[x] + 1][y] = F[m[y] + 1][y]
      BY <1>5, <3>1, <3>2, <3>3, FollowSame
    <3> QED  BY <3>4 DEF h
  <2>2. F[m[x] + 1] \in [S -> V] /\ F[m[x] + 1][x] = G[x][F[m[x] + 1]]
    BY <1>4, <1>5 DEF Follows
  <2>3. h[x] = F[m[x] + 1][x]
    OBVIOUS
  <2> HIDE DEF h
  <2>4. G[x][F[m[x] + 1]] = G[x][h]
    BY <1>6, <2>1, <2>2 DEF Descends
  <2> QED  BY <2>2, <2>3, <2>4
<1>8. Solves(h, G, S, V)
  <2> HIDE DEF h
  <2> QED  BY <1>6, <1>7 DEF Solves
<1> QED  BY <1>8

-----------------------------------------------------------------------------
(* Numbers.                                                                *)

\* A set of numbers up to n has a last one.
LEMMA Largest ==
  ASSUME NEW n \in Nat, NEW S \in SUBSET (1 .. n), S # {}
  PROVE  Max(S) \in S /\ \A x \in S : x <= Max(S)
<1> DEFINE T == {k \in Nat : \A x \in S : n - x = k => \E y \in S : \A z \in S : y >= z}
           U == {k \in Nat : \A j \in 0 .. k : j \in T}
<1>1. ASSUME NEW x \in S, \A j \in 0 .. n - x - 1 : j \in T PROVE \E y \in S : \A z \in S : y >= z
  <2>1. x \in 1 .. n
    OBVIOUS
  <2>2. CASE \A z \in S : x >= z
    BY <2>2
  <2>3. CASE \E z \in S : ~ (x >= z)
    <3>1. PICK z \in S : ~ (x >= z)
      BY <2>3
    <3>2. z \in 1 .. n
      OBVIOUS
    <3>3. n - z \in 0 .. n - x - 1
      BY <2>1, <3>1, <3>2
    <3> QED  BY <1>1, <3>3
  <2> QED  BY <2>2, <2>3
<1>2. 0 \in U
  <2>1. 0 \in T
    <3>1. ASSUME NEW x \in S, n - x = 0 PROVE \E y \in S : \A z \in S : y >= z
      <4>1. \A j \in 0 .. n - x - 1 : j \in T
        BY <3>1
      <4> QED  BY <1>1, <4>1
    <3> QED  BY <3>1
  <2> QED  BY <2>1
<1>3. ASSUME NEW k \in Nat, k \in U PROVE k + 1 \in U
  <2>1. k + 1 \in T
    <3>1. ASSUME NEW x \in S, n - x = k + 1 PROVE \E y \in S : \A z \in S : y >= z
      <4>1. n - x - 1 = k
        BY <3>1
      <4>2. \A j \in 0 .. n - x - 1 : j \in T
        <5> HIDE DEF T
        <5> QED  BY <1>3, <4>1
      <4> QED  BY <1>1, <4>2
    <3> QED  BY <3>1
  <2>2. \A j \in 0 .. k + 1 : j = k + 1 \/ j \in 0 .. k
    OBVIOUS
  <2> HIDE DEF T
  <2> QED  BY <1>3, <2>1, <2>2
<1>4. Nat \subseteq U
  <2> HIDE DEF U
  <2> QED  BY <1>2, <1>3, EveryNumber
<1>5. PICK x : x \in S
  OBVIOUS
<1>6. n - x \in Nat /\ n - x \in 0 .. n - x /\ x \in 1 .. n
  BY <1>5
<1>7. n - x \in T
  <2> HIDE DEF T
  <2> QED  BY <1>4, <1>6
<1>8. \E y \in S : \A z \in S : y >= z
  BY <1>5, <1>6, <1>7
<1>9. Max(S) \in S /\ \A z \in S : Max(S) >= z
  BY <1>8 DEF Max
<1>10. \A z \in S : z \in Int
  OBVIOUS
<1> QED  BY <1>9, <1>10

\* A set of numbers up to n has a first one.
LEMMA Smallest ==
  ASSUME NEW n \in Nat, NEW S \in SUBSET (0 .. n), S # {}
  PROVE  Min(S) \in S /\ \A x \in S : Min(S) <= x
<1> DEFINE T == {k \in Nat : (\E x \in S : x <= k) => \E y \in S : \A z \in S : y <= z}
<1>1. 0 \in T
  OBVIOUS
<1>2. ASSUME NEW k \in Nat, k \in T PROVE k + 1 \in T
  <2>1. ASSUME NEW x \in S, x <= k + 1 PROVE \E y \in S : \A z \in S : y <= z
    <3>1. CASE \E z \in S : z <= k
      BY <1>2, <3>1
    <3>2. CASE \A z \in S : ~ (z <= k)
      <4>1. \A z \in S : x <= z
        BY <2>1, <3>2
      <4> QED  BY <4>1
    <3> QED  BY <3>1, <3>2
  <2> QED  BY <2>1
<1>3. Nat \subseteq T
  <2> HIDE DEF T
  <2> QED  BY <1>1, <1>2, EveryNumber
<1>4. n \in T
  <2> HIDE DEF T
  <2> QED  BY <1>3
<1>5. \E y \in S : \A z \in S : y <= z
  <2>1. PICK x : x \in S
    OBVIOUS
  <2>2. x <= n
    BY <2>1
  <2> QED  BY <1>4, <2>1, <2>2
<1>6. Min(S) \in S /\ \A z \in S : Min(S) <= z
  BY <1>5 DEF Min
<1> QED  BY <1>6

\* The smaller of two numbers.
LEMMA MinTwo ==
  ASSUME NEW a \in Nat, NEW b \in Nat
  PROVE  Min({a, b}) = IF a <= b THEN a ELSE b
<1>1. \A x, y \in {a, b} : (\A z \in {a, b} : x <= z) /\ (\A z \in {a, b} : y <= z) => x = y
  OBVIOUS
<1>2. CASE a <= b
  <2>1. a \in {a, b} /\ \A z \in {a, b} : a <= z
    BY <1>2
  <2> QED  BY <1>1, <1>2, <2>1 DEF Min
<1>3. CASE ~ (a <= b)
  <2>1. b \in {a, b} /\ \A z \in {a, b} : b <= z
    BY <1>3
  <2> QED  BY <1>1, <1>3, <2>1 DEF Min
<1> QED  BY <1>2, <1>3

-----------------------------------------------------------------------------
(* Two and three sequences.                                                *)

\* Two sequences, one behind the other.
LEMMA ConcatFacts ==
  ASSUME NEW W, NEW u \in Seq(W), NEW v \in Seq(W)
  PROVE  /\ u \o v \in Seq(W) /\ Len(u \o v) = Len(u) + Len(v) /\ Len(u) \in Nat /\ Len(v) \in Nat
         /\ \A i \in 1 .. Len(u) : (u \o v)[i] = u[i]
         /\ \A i \in 1 .. Len(v) : (u \o v)[Len(u) + i] = v[i]
  OBVIOUS

\* Two elements are a sequence.
LEMMA ConcatOfTwo ==
  ASSUME NEW W, NEW a \in W, NEW b \in W
  PROVE  <<a>> \o <<b>> = <<a, b>>
<1> DEFINE x == <<a>>
           y == <<b>>
           s == x \o y
           t == <<a, b>>
<1>1. x \in Seq(W) /\ y \in Seq(W) /\ Len(x) = 1 /\ Len(y) = 1 /\ x[1] = a /\ y[1] = b
      /\ t \in Seq(W) /\ Len(t) = 2 /\ t[1] = a /\ t[2] = b
  OBVIOUS
<1> HIDE DEF x, y, t
<1>2. s \in Seq(W) /\ Len(s) = Len(x) + Len(y) /\ (\A i \in 1 .. Len(x) : s[i] = x[i])
      /\ \A i \in 1 .. Len(y) : s[Len(x) + i] = y[i]
  <2>1. x \in Seq(W) /\ y \in Seq(W)
    BY <1>1
  <2> QED  BY <2>1, ConcatFacts
<1> HIDE DEF s
<1>3. Len(s) = 2 /\ s[1] = a /\ s[2] = b
  <2>1. 1 \in 1 .. Len(x) /\ 1 \in 1 .. Len(y) /\ Len(x) + 1 = 2
    BY <1>1
  <2>2. s[1] = x[1] /\ s[Len(x) + 1] = y[1]
    BY <1>2, <2>1
  <2> QED  BY <1>1, <1>2, <2>1, <2>2
<1>4. s = t
  <2>1. Len(s) = Len(t) /\ \A i \in 1 .. Len(s) : s[i] = t[i]
    BY <1>1, <1>3
  <2> QED  BY <1>1, <1>2, <2>1
<1> QED  BY <1>4 DEF s, x, y, t

\* It does not matter how three sequences are joined.
LEMMA ConcatAssociative ==
  ASSUME NEW W, NEW u \in Seq(W), NEW v \in Seq(W), NEW w \in Seq(W)
  PROVE  (u \o v) \o w = u \o (v \o w)
<1> DEFINE a == u \o v
           b == v \o w
           x == a \o w
           y == u \o b
           k == Len(u)
           m == Len(v)
           n == Len(w)
<1>1. k \in Nat /\ m \in Nat /\ n \in Nat /\ Len(u) = k /\ Len(v) = m /\ Len(w) = n
  OBVIOUS
<1>2. a \in Seq(W) /\ Len(a) = Len(u) + Len(v) /\ (\A i \in 1 .. Len(u) : a[i] = u[i])
      /\ \A i \in 1 .. Len(v) : a[Len(u) + i] = v[i]
  BY ConcatFacts
<1>3. b \in Seq(W) /\ Len(b) = Len(v) + Len(w) /\ (\A i \in 1 .. Len(v) : b[i] = v[i])
      /\ \A i \in 1 .. Len(w) : b[Len(v) + i] = w[i]
  BY ConcatFacts
<1> HIDE DEF a, b, k, m, n
<1>4. x \in Seq(W) /\ Len(x) = Len(a) + Len(w) /\ (\A i \in 1 .. Len(a) : x[i] = a[i])
      /\ \A i \in 1 .. Len(w) : x[Len(a) + i] = w[i]
  <2>1. a \in Seq(W)
    BY <1>2
  <2> QED  BY <2>1, ConcatFacts
<1>5. y \in Seq(W) /\ Len(y) = Len(u) + Len(b) /\ (\A i \in 1 .. Len(u) : y[i] = u[i])
      /\ \A i \in 1 .. Len(b) : y[Len(u) + i] = b[i]
  <2>1. b \in Seq(W)
    BY <1>3
  <2> QED  BY <2>1, ConcatFacts
<1> HIDE DEF x, y
<1>6. Len(x) = k + m + n /\ Len(y) = k + m + n /\ Len(a) = k + m /\ Len(b) = m + n
  BY <1>1, <1>2, <1>3, <1>4, <1>5
<1>7. ASSUME NEW i \in 1 .. k + m + n PROVE x[i] = y[i]
  <2>1. CASE i <= k
    <3>1. i \in 1 .. k /\ i \in 1 .. k + m
      BY <1>1, <2>1
    <3> QED  BY <1>1, <1>2, <1>4, <1>5, <1>6, <3>1
  <2>2. CASE k < i /\ i <= k + m
    <3> DEFINE j == i - k
    <3>1. j \in 1 .. m /\ k + j = i /\ i \in 1 .. k + m /\ j \in 1 .. m + n
      BY <1>1, <2>2
    <3> HIDE DEF j
    <3>2. x[i] = a[i] /\ a[k + j] = v[j] /\ y[k + j] = b[j] /\ b[j] = v[j]
      BY <1>1, <1>2, <1>3, <1>4, <1>5, <1>6, <3>1
    <3> QED  BY <3>1, <3>2
  <2>3. CASE k + m < i
    <3> DEFINE j == i - (k + m)
               e == m + j
    <3>1. j \in 1 .. n /\ (k + m) + j = i /\ e \in 1 .. m + n /\ k + e = i /\ m + j = e
      BY <1>1, <2>3
    <3> HIDE DEF j, e
    <3>2. x[(k + m) + j] = w[j] /\ b[m + j] = w[j] /\ y[k + e] = b[e]
      BY <1>1, <1>3, <1>4, <1>5, <1>6, <3>1
    <3> QED  BY <3>1, <3>2
  <2> QED  BY <1>1, <2>1, <2>2, <2>3
<1>8. x = y
  <2>1. x \in Seq(W) /\ y \in Seq(W)
    BY <1>4, <1>5
  <2>2. Len(x) = Len(y) /\ \A i \in 1 .. Len(x) : x[i] = y[i]
    BY <1>6, <1>7
  <2> QED  BY <2>1, <2>2
<1> QED  BY <1>8 DEF x, y, a, b

\* One element before two sequences.
LEMMA ConsJoined ==
  ASSUME NEW W, NEW c \in W, NEW x \in Seq(W), NEW y \in Seq(W)
  PROVE  (<<c>> \o x) \o y = <<c>> \o (x \o y) /\ x \o y \in Seq(W)
<1>1. x \o y \in Seq(W)
  OBVIOUS
<1> DEFINE u == (<<c>> \o x) \o y
           v == <<c>> \o (x \o y)
<1>2. u \in Seq(W) /\ v \in Seq(W) /\ Len(u) = 1 + Len(x) + Len(y) /\ Len(v) = 1 + Len(x) + Len(y)
  OBVIOUS
<1>3. \A i \in 1 .. Len(u) : u[i] = v[i]
  OBVIOUS
<1> HIDE DEF u, v
<1>4. u = v
  BY <1>2, <1>3
<1> QED  BY <1>1, <1>4 DEF u, v

\* A sequence of S with one more of S.
LEMMA AppendFacts ==
  ASSUME NEW S, NEW s \in Seq(S), NEW e \in S
  PROVE  /\ Append(s, e) \in Seq(S) /\ Len(Append(s, e)) = Len(s) + 1 /\ Append(s, e) # <<>>
         /\ Append(s, e)[Len(s) + 1] = e /\ Last(Append(s, e)) = e
         /\ \A i \in 1 .. Len(s) : Append(s, e)[i] = s[i]
<1> DEFINE t == Append(s, e)
<1>1. Len(s) \in Nat /\ t \in Seq(S) /\ Len(t) = Len(s) + 1 /\ t[Len(s) + 1] = e
      /\ \A i \in 1 .. Len(s) : t[i] = s[i]
  OBVIOUS
<1> HIDE DEF t
<1>2. t # <<>> /\ Last(t) = e
  BY <1>1 DEF Last
<1> QED  BY <1>1, <1>2 DEF t

\* A sequence that gets one more element.
LEMMA AppendedElement ==
  ASSUME NEW s, s \in Seq(ToSet(s)), NEW e
  PROVE  /\ Append(s, e) \in Seq(ToSet(Append(s, e)))
         /\ Len(Append(s, e)) = Len(s) + 1 /\ Last(Append(s, e)) = e
<1> DEFINE S == ToSet(s) \cup {e}
           t == Append(s, e)
<1>1. s \in Seq(S) /\ e \in S
  <2>1. \A i \in 1 .. Len(s) : s[i] \in S
    BY DEF ToSet
  <2> HIDE DEF S
  <2>2. s \in Seq(S)
    BY <2>1
  <2> QED  BY <2>2 DEF S
<1> HIDE DEF S
<1>2. t \in Seq(S) /\ Len(t) = Len(s) + 1 /\ t[Len(s) + 1] = e
  BY <1>1
<1> HIDE DEF t
<1>3. t \in Seq(ToSet(t))
  <2>1. \A i \in 1 .. Len(t) : t[i] \in ToSet(t)
    BY <1>2 DEF ToSet
  <2> DEFINE U == ToSet(t)
  <2> HIDE DEF U
  <2>2. t \in Seq(U)
    BY <1>2, <2>1 DEF U
  <2> QED  BY <2>2 DEF U
<1> QED  BY <1>2, <1>3 DEF t, Last

-----------------------------------------------------------------------------
(* Joined sequences.                                                       *)

\* f joins the first sequences of s, one more at each place.
Joins(f, s) ==
  f = [i \in 1 .. Len(s) |-> IF i = 1 THEN s[i] ELSE f[i - 1] \o s[i]]

Then(a, b) == a \o b

Grows(f, s, n) ==
  /\ n >= 1 => f[1] = s[1]
  /\ \A i, j \in 1 .. n : j < i /\ i <= j + 1 => f[i] = Then(f[j], s[i])

\* A function that joins one more at each place grows by it.
LEMMA Grown ==
  ASSUME NEW f, NEW s, NEW n \in Nat,
         \A i \in 1 .. n : f[i] = (IF i = 1 THEN s[i] ELSE f[i - 1] \o s[i])
  PROVE  Grows(f, s, n)
<1>1. \A i \in 1 .. n : i # 1 => f[i] = Then(f[i - 1], s[i])
  BY DEF Then
<1>2. ASSUME NEW i \in 1 .. n, NEW j \in 1 .. n, j < i, i <= j + 1
      PROVE  f[i] = Then(f[j], s[i])
  <2>1. i # 1 /\ i - 1 = j
    BY <1>2
  <2>2. f[i] = Then(f[i - 1], s[i])
    BY <1>1, <2>1
  <2> QED  BY <2>1, <2>2
<1>3. n >= 1 => f[1] = s[1]
  OBVIOUS
<1> QED  BY <1>2, <1>3 DEF Grows

(* FlattenSeq, whose definition is recursive, joins the sequences of s one   *)
(* after the other.                                                         *)
LEMMA Joined ==
  ASSUME NEW W, NEW s \in Seq(Seq(W)), s # <<>>
  PROVE  \E f \in [1 .. Len(s) -> Seq(W)] : Joins(f, s) /\ FlattenSeq(s) = f[Len(s)]
<1> DEFINE S == 1 .. Len(s)
           V == Seq(W)
           m == [i \in S |-> i]
           G == [i \in S |-> [f \in [S -> V] |-> IF i = 1 THEN s[i] ELSE f[i - 1] \o s[i]]]
<1>1. s \in Seq(V) /\ <<>> \in V /\ Len(s) \in Nat
  OBVIOUS
<1>2. \A i \in S : s[i] \in V /\ i \in Nat /\ (i # 1 => i - 1 \in S)
  OBVIOUS
<1>3. \A p, q \in V : p \o q \in V
  OBVIOUS
<1> HIDE DEF S, V
<1>4. ASSUME NEW i \in S, NEW f \in [S -> V]
      PROVE  G[i][f] = (IF i = 1 THEN s[i] ELSE f[i - 1] \o s[i])
  OBVIOUS
<1>5. \A i \in S : m[i] = i
  OBVIOUS
<1>6. m \in [S -> Nat]
  BY <1>2
<1> HIDE DEF G, m
<1>7. Descends(G, S, V, m)
  <2>1. ASSUME NEW i \in S, NEW f \in [S -> V], NEW g \in [S -> V],
               \A y \in S : m[y] < m[i] => f[y] = g[y]
        PROVE  G[i][f] = G[i][g]
    <3>1. ASSUME i # 1 PROVE f[i - 1] = g[i - 1]
      <4>1. i - 1 \in S /\ i \in Nat
        BY <1>2, <3>1
      <4>2. m[i - 1] = i - 1 /\ m[i] = i
        BY <1>5, <4>1
      <4>3. m[i - 1] < m[i]
        BY <4>1, <4>2
      <4> QED  BY <2>1, <4>1, <4>3
    <3> QED  BY <1>4, <3>1
  <2>2. ASSUME NEW i \in S, NEW f \in [S -> V] PROVE G[i][f] \in V
    <3>1. i # 1 => f[i - 1] \in V
      BY <1>2
    <3> QED  BY <1>2, <1>3, <1>4, <3>1
  <2> QED  BY <1>6, <2>1, <2>2 DEF Descends
<1>8. PICK f : Solves(f, G, S, V)
  BY <1>1, <1>7, Recursion
<1>9. Joins(f, s)
  <2>1. \A i \in S : f[i] = (IF i = 1 THEN s[i] ELSE f[i - 1] \o s[i])
    BY <1>4, <1>8 DEF Solves
  <2>2. f = [i \in S |-> f[i]]
    BY <1>8 DEF Solves
  <2> QED  BY <2>1, <2>2 DEF Joins, S
<1> DEFINE h == CHOOSE h : Joins(h, s)
<1>10. Joins(h, s)
  BY <1>9
<1>11. FlattenSeq(s) = h[Len(s)]
  BY DEF FlattenSeq, Joins
<1> HIDE DEF h
<1>12. Grows(h, s, Len(s))
  <2>1. \A i \in 1 .. Len(s) : h[i] = (IF i = 1 THEN s[i] ELSE h[i - 1] \o s[i])
    BY <1>10 DEF Joins
  <2> QED  BY <1>1, <2>1, Grown
<1> DEFINE T == {k \in Nat : k \in S => h[k] \in V}
<1>13. 0 \in T
  BY DEF S
<1>14. ASSUME NEW k \in Nat, k \in T PROVE k + 1 \in T
  <2>2. CASE k = 0
    <3>1. k + 1 = 1
      BY <2>2
    <3> QED  BY <1>1, <1>2, <1>12, <3>1 DEF Grows, S
  <2>3. CASE k # 0
    <3>1. SUFFICES ASSUME k + 1 \in S PROVE h[k + 1] \in V
      OBVIOUS
    <3>2. k \in S /\ k + 1 # 1 /\ k + 1 = k + 1
      BY <2>3, <3>1, <1>1 DEF S
    <3>3. h[k] \in V
      BY <1>14, <3>2
    <3>4. h[k + 1] = Then(h[k], s[k + 1])
      <4>1. k < k + 1 /\ k + 1 <= k + 1
        OBVIOUS
      <4> QED  BY <1>1, <1>12, <3>1, <3>2, <4>1 DEF S, Grows
    <3> QED  BY <1>2, <1>3, <3>1, <3>3, <3>4 DEF Then
  <2> QED  BY <2>2, <2>3
<1>15. Nat \subseteq T
  <2> HIDE DEF T
  <2> QED  BY <1>13, <1>14, EveryNumber
<1>16. h \in [S -> V]
  <2>1. \A k \in S : h[k] \in V
    BY <1>2, <1>15
  <2>2. h = [k \in S |-> h[k]]
    BY <1>10 DEF Joins, S
  <2> QED  BY <2>1, <2>2
<1> QED  BY <1>10, <1>11, <1>16 DEF S, V

-----------------------------------------------------------------------------
(* Beginnings of sequences, and of joined ones.                            *)

\* The beginning of a sequence.
Prefix(s, n) == SubSeq(s, 1, n)

\* What the beginning of a sequence is.
LEMMA PrefixFacts ==
  ASSUME NEW S, NEW s \in Seq(S), NEW n \in 0 .. Len(s)
  PROVE  /\ Prefix(s, n) \in Seq(S) /\ Len(Prefix(s, n)) = n
         /\ \A i \in 1 .. n : Prefix(s, n)[i] = s[i]
         /\ (n = 0) = (Prefix(s, n) = <<>>)
         /\ Prefix(s, Len(s)) = s
  BY DEF Prefix

\* Joining one more of the sequences of s.
LEMMA JoinOneMore ==
  ASSUME NEW W, NEW s \in Seq(Seq(W)), NEW n \in 1 .. Len(s), NEW o \in Nat, o < n, n <= o + 1
  PROVE  /\ FlattenSeq(Prefix(s, n)) = FlattenSeq(Prefix(s, o)) \o s[n]
         /\ FlattenSeq(Prefix(s, n)) \in Seq(W)
         /\ FlattenSeq(Prefix(s, o)) \in Seq(W)
<1> DEFINE t == Prefix(s, n)
           u == Prefix(s, o)
<1>1. /\ t \in Seq(Seq(W)) /\ Len(t) = n /\ \A i \in 1 .. n : t[i] = s[i]
      /\ u \in Seq(Seq(W)) /\ Len(u) = o /\ \A i \in 1 .. o : u[i] = s[i]
      /\ s[n] \in Seq(W) /\ n \in Nat /\ n >= 1 /\ o + 1 = n
  BY PrefixFacts
<1> HIDE DEF t, u
<1>2. PICK f \in [1 .. n -> Seq(W)] : Joins(f, t) /\ FlattenSeq(t) = f[n]
  <2>1. t # <<>>
    BY <1>1
  <2>2. PICK f \in [1 .. Len(t) -> Seq(W)] : Joins(f, t) /\ FlattenSeq(t) = f[Len(t)]
    BY <1>1, <2>1, Joined
  <2> QED  BY <1>1, <2>2
<1>3. Grows(f, t, n)
  <2>1. \A i \in 1 .. n : f[i] = (IF i = 1 THEN t[i] ELSE f[i - 1] \o t[i])
    BY <1>1, <1>2 DEF Joins
  <2> QED  BY <1>1, <2>1, Grown
<1>4. ASSUME NEW i \in 1 .. n, NEW j \in 1 .. n, j < i, i <= j + 1 PROVE f[i] = Then(f[j], s[i])
  <2>1. f[i] = Then(f[j], t[i])
    BY <1>1, <1>3, <1>4 DEF Grows
  <2> QED  BY <1>1, <2>1
<1>5. f[1] = s[1] /\ f[n] \in Seq(W)
  BY <1>1, <1>3 DEF Grows
<1>6. CASE o = 0
  <2>1. FlattenSeq(u) = <<>>
    BY <1>1, <1>6 DEF FlattenSeq
  <2>2. FlattenSeq(t) = s[n]
    BY <1>1, <1>2, <1>5, <1>6
  <2>3. <<>> \o s[n] = s[n] /\ <<>> \in Seq(W)
    BY <1>1
  <2> QED  BY <1>1, <2>1, <2>2, <2>3 DEF t, u
<1>7. CASE o # 0
  <2>1. PICK g \in [1 .. o -> Seq(W)] : Joins(g, u) /\ FlattenSeq(u) = g[o]
    <3>1. u # <<>>
      BY <1>1, <1>7
    <3> QED  BY <1>1, <3>1, Joined
  <2>2. Grows(g, u, o)
    <3>1. \A i \in 1 .. o : g[i] = (IF i = 1 THEN u[i] ELSE g[i - 1] \o u[i])
      BY <1>1, <2>1 DEF Joins
    <3> QED  BY <1>1, <3>1, Grown
  <2>3. ASSUME NEW i \in 1 .. o, NEW j \in 1 .. o, j < i, i <= j + 1 PROVE g[i] = Then(g[j], s[i])
    <3>1. g[i] = Then(g[j], u[i])
      BY <1>1, <2>2, <2>3 DEF Grows
    <3> QED  BY <1>1, <3>1
  <2> DEFINE T == {k \in Nat : k \in 1 .. o => f[k] = g[k]}
  <2>4. 0 \in T
    OBVIOUS
  <2>5. ASSUME NEW k \in Nat, k \in T PROVE k + 1 \in T
    <3>1. SUFFICES ASSUME k + 1 \in 1 .. o PROVE f[k + 1] = g[k + 1]
      OBVIOUS
    <3>2. CASE k = 0
      <4>1. g[1] = s[1]
        <5>1. 1 \in 1 .. o /\ u[1] = s[1]
          BY <1>1, <1>7
        <5> QED  BY <5>1, <2>2 DEF Grows
      <4> QED  BY <1>5, <3>2, <4>1
    <3>3. CASE k # 0
      <4>1. k \in 1 .. o /\ k \in 1 .. n /\ k + 1 \in 1 .. n /\ k < k + 1 /\ k + 1 <= k + 1
        BY <1>1, <3>1, <3>3
      <4>2. f[k] = g[k]
        BY <2>5, <4>1
      <4>3. f[k + 1] = Then(f[k], s[k + 1])
        BY <1>4, <4>1
      <4>4. g[k + 1] = Then(g[k], s[k + 1])
        BY <2>3, <3>1, <4>1
      <4> QED  BY <4>2, <4>3, <4>4
    <3> QED  BY <3>2, <3>3
  <2>6. Nat \subseteq T
    <3> HIDE DEF T
    <3> QED  BY <2>4, <2>5, EveryNumber
  <2>7. o \in 1 .. o /\ o \in 1 .. n /\ n \in 1 .. n /\ o < n /\ n <= o + 1
    BY <1>1, <1>7
  <2>8. f[o] = g[o]
    BY <1>1, <2>6, <2>7
  <2>9. f[n] = Then(f[o], s[n]) /\ g[o] \in Seq(W)
    BY <1>4, <2>7
  <2> QED  BY <1>2, <1>5, <2>1, <2>8, <2>9 DEF t, u, Then
<1> QED  BY <1>1, <1>6, <1>7

\* What joining the first few sequences gives, for any number of them.
LEMMA JoinedPrefix ==
  ASSUME NEW W, NEW s \in Seq(Seq(W)), NEW n \in 0 .. Len(s)
  PROVE  /\ FlattenSeq(Prefix(s, n)) \in Seq(W)
         /\ n = 0 => FlattenSeq(Prefix(s, n)) = <<>>
<1>1. CASE n = 0
  <2>1. Len(Prefix(s, n)) = 0 /\ Prefix(s, n) = <<>>
    BY <1>1, PrefixFacts
  <2> QED  BY <2>1 DEF FlattenSeq
<1>2. CASE n # 0
  <2>1. n \in 1 .. Len(s) /\ n - 1 \in Nat /\ n - 1 < n /\ n <= (n - 1) + 1
    BY <1>2
  <2> QED  BY <1>2, <2>1, JoinOneMore
<1> QED  BY <1>1, <1>2

\* It is the beginning of what joining more of them gives.
LEMMA JoinedBegins ==
  ASSUME NEW W, NEW s \in Seq(Seq(W)), NEW n \in 0 .. Len(s), NEW k \in n .. Len(s)
  PROVE  LET a == FlattenSeq(Prefix(s, n))
             b == FlattenSeq(Prefix(s, k))
         IN  Len(a) <= Len(b) /\ \A i \in 1 .. Len(a) : b[i] = a[i]
<1> DEFINE F(j) == FlattenSeq(Prefix(s, j))
           a == F(n)
           T == {j \in Nat : n + j <= Len(s) =>
                   Len(a) <= Len(F(n + j)) /\ \A i \in 1 .. Len(a) : F(n + j)[i] = a[i]}
<1>1. a \in Seq(W) /\ n \in Nat /\ Len(s) \in Nat
  BY JoinedPrefix
<1>2. 0 \in T
  <2>1. n + 0 = n
    BY <1>1
  <2> HIDE DEF F
  <2> QED  BY <1>1, <2>1
<1>3. ASSUME NEW j \in Nat, j \in T PROVE j + 1 \in T
  <2>1. SUFFICES ASSUME n + (j + 1) <= Len(s)
                 PROVE  LET b == F(n + (j + 1)) IN
                        Len(a) <= Len(b) /\ \A i \in 1 .. Len(a) : b[i] = a[i]
    OBVIOUS
  <2>2. n + (j + 1) \in 1 .. Len(s) /\ n + j \in Nat /\ n + j < n + (j + 1) /\ n + (j + 1) <= (n + j) + 1 /\ n + j <= Len(s)
    BY <1>1, <2>1
  <2>3. F(n + (j + 1)) = F(n + j) \o s[n + (j + 1)] /\ F(n + j) \in Seq(W)
    BY <2>2, JoinOneMore
  <2>4. Len(a) <= Len(F(n + j)) /\ \A i \in 1 .. Len(a) : F(n + j)[i] = a[i]
    BY <1>3, <2>2
  <2>5. s[n + (j + 1)] \in Seq(W)
    BY <2>2
  <2> HIDE DEF F
  <2>6. ASSUME NEW p \in Seq(W), NEW q \in Seq(W), NEW c \in Seq(W), Len(c) <= Len(p),
               \A i \in 1 .. Len(c) : p[i] = c[i]
        PROVE  p \o q \in Seq(W) /\ Len(c) <= Len(p \o q) /\ \A i \in 1 .. Len(c) : (p \o q)[i] = c[i]
    BY <2>6
  <2> HIDE DEF T, a
  <2>7. LET b == F(n + j) \o s[n + (j + 1)] IN
        Len(a) <= Len(b) /\ \A i \in 1 .. Len(a) : b[i] = a[i]
    <3> DEFINE p == F(n + j)
               q == s[n + (j + 1)]
    <3>1. p \in Seq(W) /\ q \in Seq(W) /\ Len(a) <= Len(p)
          /\ \A i \in 1 .. Len(a) : p[i] = a[i]
      BY <2>3, <2>4, <2>5
    <3> HIDE DEF p, q
    <3>2. LET b == p \o q IN Len(a) <= Len(b) /\ \A i \in 1 .. Len(a) : b[i] = a[i]
      BY <1>1, <2>6, <3>1
    <3> QED  BY <3>2 DEF p, q
  <2> QED  BY <2>3, <2>7
<1>4. Nat \subseteq T
  <2> HIDE DEF T
  <2> QED  BY <1>2, <1>3, EveryNumber
<1>5. k - n \in Nat /\ n + (k - n) = k /\ k <= Len(s)
  BY <1>1
<1>6. k - n \in T
  BY <1>4, <1>5
<1>7. LET b == F(n + (k - n)) IN Len(a) <= Len(b) /\ \A i \in 1 .. Len(a) : b[i] = a[i]
  BY <1>5, <1>6
<1>8. F(n + (k - n)) = F(k)
  BY <1>5
<1> HIDE DEF F
<1>9. LET b == F(k) IN Len(a) <= Len(b) /\ \A i \in 1 .. Len(a) : b[i] = a[i]
  BY <1>7, <1>8
<1> QED  BY <1>9 DEF F

=============================================================================
