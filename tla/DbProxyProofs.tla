--------------------------- MODULE DbProxyProofs ----------------------------
(***************************************************************************)
(* A request that is read becomes a task of its words, and its answer says *)
(* what became of it: for all batches of commands, keys, values, characters *)
(* and ways in which lines are cut.                                        *)
(*                                                                         *)
(* What stoi() and the parsers find is defined recursively.  That there is *)
(* a function that follows such a definition is lemma Recursion, which     *)
(* takes the definition as a function from functions to functions; what it *)
(* finds in a request is proved by induction with sets of numbers.         *)
(***************************************************************************)
EXTENDS DbProxy, SequenceLemmas

-----------------------------------------------------------------------------
(* The words of a batch of commands.                                       *)

\* A command is two or three words, the first of which is what it is called.
LEMMA CommandWords ==
  ASSUME NEW c \in Command
  PROVE  /\ WordsOf(c) \in Seq(Word) /\ Len(WordsOf(c)) \in {2, 3}
         /\ c.op \in {"set", "get", "del"} /\ c.key \in Word
         /\ WordsOf(c)[1] = Spelled[c.op] /\ WordsOf(c)[2] = c.key
         /\ (Len(WordsOf(c)) = 3) = (c.op = "set")
         /\ c.op = "set" => WordsOf(c)[3] = c.val /\ c.val \in Word
<1>1. Spelled.set \in Word /\ Spelled.get \in Word /\ Spelled.del \in Word
  <2>1. /\ Spelled.set = <<"s", "e", "t">> /\ Spelled.get = <<"g", "e", "t">>
        /\ Spelled.del = <<"d", "e", "l">>
    BY DEF Spelled
  <2>2. /\ <<"s", "e", "t">> \in Seq(Char) /\ <<"g", "e", "t">> \in Seq(Char)
        /\ <<"d", "e", "l">> \in Seq(Char)
    <3>1. ASSUME NEW S, NEW x \in S, NEW y \in S, NEW z \in S PROVE <<x, y, z>> \in Seq(S)
      OBVIOUS
    <3>2. {"s", "e", "t", "g", "d", "l"} \subseteq Char
      BY CharAssumption
    <3> QED  BY <3>1, <3>2, Zenon
  <2> QED  BY <2>1, <2>2 DEF Word
<1>2. Spelled["set"] = Spelled.set /\ Spelled["get"] = Spelled.get /\ Spelled["del"] = Spelled.del
  OBVIOUS
<1> HIDE DEF Word
<1>3. CASE c.op = "set"
  <2>1. c.key \in Word /\ c.val \in Word
    BY <1>3 DEF Command
  <2>2. WordsOf(c) = <<Spelled.set, c.key, c.val>>
    BY <1>3 DEF WordsOf
  <2>3. Spelled[c.op] = Spelled.set
    BY <1>3
  <2> QED  BY <1>1, <1>3, <2>1, <2>2, <2>3
<1>4. CASE c.op # "set"
  <2>1. c.op \in {"get", "del"} /\ c.key \in Word
    BY <1>4 DEF Command
  <2>2. WordsOf(c) = <<Spelled[c.op], c.key>>
    BY <1>4 DEF WordsOf
  <2>3. Spelled[c.op] \in Word
    BY <1>1, <1>2, <2>1
  <2> QED  BY <1>4, <2>1, <2>2, <2>3
<1> QED  BY <1>3, <1>4

\* The names of the commands differ.
LEMMA SpelledDiffer ==
  /\ Spelled.set # Spelled.get /\ Spelled.set # Spelled.del /\ Spelled.get # Spelled.del
  /\ Spelled["set"] = Spelled.set /\ Spelled["get"] = Spelled.get /\ Spelled["del"] = Spelled.del
<1>1. Spelled.set[1] = "s" /\ Spelled.get[1] = "g" /\ Spelled.del[1] = "d"
  BY DEF Spelled
<1>2. "s" # "g" /\ "s" # "d" /\ "g" # "d"
  OBVIOUS
<1> QED  BY <1>1, <1>2

\* The words of the first n commands.
LEMMA SaysPrefix ==
  ASSUME NEW batch \in Seq(Command), NEW n \in 0 .. Len(batch)
  PROVE  LET w == [i \in 1 .. Len(batch) |-> WordsOf(batch[i])]
         IN  /\ w \in Seq(Seq(Word)) /\ Len(w) = Len(batch)
             /\ Says(Prefix(batch, n)) = FlattenSeq(Prefix(w, n))
<1> DEFINE w == [i \in 1 .. Len(batch) |-> WordsOf(batch[i])]
           p == Prefix(batch, n)
           v == [i \in 1 .. Len(p) |-> WordsOf(p[i])]
<1>1. \A i \in 1 .. Len(batch) : WordsOf(batch[i]) \in Seq(Word)
  BY CommandWords
<1>2. w \in Seq(Seq(Word)) /\ Len(w) = Len(batch)
  BY <1>1
<1>3. p \in Seq(Command) /\ Len(p) = n /\ \A i \in 1 .. n : p[i] = batch[i]
  BY PrefixFacts
<1> HIDE DEF p
<1>4. v = Prefix(w, n)
  <2>1. v \in Seq(Seq(Word)) /\ Len(v) = n /\ \A i \in 1 .. n : v[i] = WordsOf(batch[i])
    <3>1. \A i \in 1 .. n : i \in 1 .. Len(batch) /\ WordsOf(p[i]) = WordsOf(batch[i])
      BY <1>3
    <3>2. \A i \in 1 .. Len(p) : v[i] = WordsOf(p[i]) /\ WordsOf(p[i]) \in Seq(Word)
      BY <1>1, <1>3, <3>1
    <3>3. DOMAIN v = 1 .. Len(p) /\ Len(p) \in Nat /\ v = [i \in 1 .. Len(p) |-> v[i]]
      BY <1>3
    <3> HIDE DEF v
    <3>4. v \in [1 .. Len(p) -> Seq(Word)]
      BY <3>2, <3>3
    <3>5. v \in Seq(Seq(Word)) /\ Len(v) = Len(p)
      BY <3>3, <3>4
    <3> QED  BY <1>3, <3>1, <3>2, <3>5
  <2>2. /\ Prefix(w, n) \in Seq(Seq(Word)) /\ Len(Prefix(w, n)) = n
        /\ \A i \in 1 .. n : Prefix(w, n)[i] = w[i]
    <3> HIDE DEF w
    <3> QED  BY <1>2, PrefixFacts
  <2>3. \A i \in 1 .. n : w[i] = WordsOf(batch[i])
    OBVIOUS
  <2> DEFINE q == Prefix(w, n)
  <2> HIDE DEF v, q, w
  <2>4. \A i \in 1 .. n : v[i] = q[i]
    BY <2>1, <2>2, <2>3 DEF q
  <2> QED  BY <2>1, <2>2, <2>4 DEF q
<1> QED  BY <1>2, <1>4 DEF p, Says

\* Where the words of command n + 1 stand among those of the batch.
LEMMA CommandAt ==
  ASSUME NEW batch \in Seq(Command), NEW o \in Nat, NEW n \in 1 .. Len(batch),
         o < n, n <= o + 1
  PROVE  LET before_n == Len(Says(Prefix(batch, o)))
             w == WordsOf(batch[n])
         IN  /\ before_n \in Nat /\ Says(batch) \in Seq(Word)
             /\ Len(Says(Prefix(batch, n))) = before_n + Len(w)
             /\ before_n + Len(w) <= Len(Says(batch))
             /\ \A i \in 1 .. Len(w) : Says(batch)[before_n + i] = w[i]
<1> DEFINE all == [i \in 1 .. Len(batch) |-> WordsOf(batch[i])]
           a == FlattenSeq(Prefix(all, o))
           b == FlattenSeq(Prefix(all, n))
           c == FlattenSeq(Prefix(all, Len(batch)))
           w == WordsOf(batch[n])
<1>1. /\ all \in Seq(Seq(Word)) /\ Len(all) = Len(batch) /\ all[n] = w
      /\ o \in 0 .. Len(batch) /\ n \in 0 .. Len(batch) /\ Len(batch) \in n .. Len(batch)
  BY CommandWords
<1>2. Says(Prefix(batch, o)) = a /\ Says(Prefix(batch, n)) = b /\ Says(batch) = c
  <2>1. Prefix(batch, Len(batch)) = batch
    BY PrefixFacts
  <2> QED  BY <1>1, <2>1, SaysPrefix
<1>3. w \in Seq(Word)
  BY CommandWords
<1> HIDE DEF all, w
<1>4. b = a \o w /\ b \in Seq(Word) /\ a \in Seq(Word)
  BY <1>1, JoinOneMore
<1>5. Len(b) <= Len(c) /\ \A i \in 1 .. Len(b) : c[i] = b[i]
  BY <1>1, JoinedBegins
<1>6. c \in Seq(Word)
  BY <1>1, JoinedPrefix
<1> HIDE DEF a, b, c
<1>7. Len(b) = Len(a) + Len(w) /\ \A i \in 1 .. Len(w) : b[Len(a) + i] = w[i]
  BY <1>3, <1>4
<1>8. ASSUME NEW i \in 1 .. Len(w) PROVE c[Len(a) + i] = w[i]
  <2>1. Len(a) + i \in 1 .. Len(b) /\ b[Len(a) + i] = w[i]
    BY <1>3, <1>4, <1>7
  <2> QED  BY <1>5, <2>1
<1> QED  BY <1>2, <1>4, <1>5, <1>6, <1>7, <1>8 DEF w

\* The whole of a batch, and nothing of it.
LEMMA SaysEnds ==
  ASSUME NEW batch \in Seq(Command)
  PROVE  Says(Prefix(batch, 0)) = <<>> /\ Prefix(batch, Len(batch)) = batch
<1> DEFINE all == [i \in 1 .. Len(batch) |-> WordsOf(batch[i])]
<1>1. 0 \in 0 .. Len(batch)
  OBVIOUS
<1>2. /\ all \in Seq(Seq(Word)) /\ Len(all) = Len(batch)
      /\ Says(Prefix(batch, 0)) = FlattenSeq(Prefix(all, 0))
  BY <1>1, SaysPrefix
<1> HIDE DEF all
<1>3. FlattenSeq(Prefix(all, 0)) = <<>>
  <2>1. 0 \in 0 .. Len(all)
    BY <1>1, <1>2
  <2> QED  BY <1>2, <2>1, JoinedPrefix
<1> QED  BY <1>2, <1>3, PrefixFacts

-----------------------------------------------------------------------------
(* What a batch of commands makes of a database.                           *)

Database == UNION {[keys -> Word] : keys \in SUBSET Word}

\* A function from words to words is a database ...
LEMMA DatabaseFacts ==
  ASSUME NEW f, DOMAIN f \subseteq Word, f = [k \in DOMAIN f |-> f[k]],
         \A k \in DOMAIN f : f[k] \in Word
  PROVE  f \in Database
<1>1. f \in [DOMAIN f -> Word]
  OBVIOUS
<1> QED  BY <1>1 DEF Database

\* ... and a database is that.
LEMMA DatabaseHas ==
  ASSUME NEW f \in Database
  PROVE  DOMAIN f \subseteq Word /\ f = [k \in DOMAIN f |-> f[k]] /\ \A k \in DOMAIN f : f[k] \in Word
<1>1. PICK keys \in SUBSET Word : f \in [keys -> Word]
  BY DEF Database
<1> QED  BY <1>1

\* A command leaves a database, and Applied's CASE is these three.
LEMMA AppliedTyped ==
  ASSUME NEW e \in Database, NEW c \in Command
  PROVE  /\ Applied(e, c) \in Database
         /\ c.op = "set" => Applied(e, c) = [k \in DOMAIN e \cup {c.key} |->
                                               IF k = c.key THEN c.val ELSE e[k]]
         /\ c.op = "del" => Applied(e, c) = [k \in DOMAIN e \ {c.key} |-> e[k]]
         /\ c.op = "get" => Applied(e, c) = e
<1>1. c.op \in {"set", "get", "del"} /\ c.key \in Word /\ (c.op = "set" => c.val \in Word)
  BY CommandWords
<1>2. DOMAIN e \subseteq Word /\ \A k \in DOMAIN e : e[k] \in Word
  BY DatabaseHas
<1>3. CASE c.op = "set"
  <2> DEFINE f == [k \in DOMAIN e \cup {c.key} |-> IF k = c.key THEN c.val ELSE e[k]]
  <2>1. Applied(e, c) = f
    BY <1>3 DEF Applied
  <2>2. \A k \in DOMAIN f : f[k] \in Word
    BY <1>1, <1>2, <1>3
  <2>3. DOMAIN f \subseteq Word /\ f = [k \in DOMAIN f |-> f[k]]
    BY <1>1, <1>2
  <2>4. f \in Database
    <3> HIDE DEF f
    <3> QED  BY <2>2, <2>3, DatabaseFacts
  <2> QED  BY <1>3, <2>1, <2>4
<1>4. CASE c.op = "del"
  <2> DEFINE f == [k \in DOMAIN e \ {c.key} |-> e[k]]
  <2>1. Applied(e, c) = f
    BY <1>4 DEF Applied
  <2>2. \A k \in DOMAIN f : f[k] \in Word
    BY <1>2
  <2>3. DOMAIN f \subseteq Word /\ f = [k \in DOMAIN f |-> f[k]]
    BY <1>2
  <2>4. f \in Database
    <3> HIDE DEF f
    <3> QED  BY <2>2, <2>3, DatabaseFacts
  <2> QED  BY <1>4, <2>1, <2>4
<1>5. CASE c.op = "get"
  <2>1. Applied(e, c) = e
    BY <1>5 DEF Applied
  <2> QED  BY <1>5, <2>1
<1> QED  BY <1>1, <1>3, <1>4, <1>5

\* f tells what d has become after each of the first n commands of s.
Becomes(f, d, s, n) ==
  /\ f[0] = d
  /\ \A i \in 1 .. n, j \in 0 .. n : j < i /\ i <= j + 1 => f[i] = Applied(f[j], s[i])

\* It is determined by that.
LEMMA BecomesOne ==
  ASSUME NEW n \in Nat, NEW d, NEW s, NEW f, NEW g,
         Becomes(f, d, s, n), Becomes(g, d, s, n)
  PROVE  f[n] = g[n]
<1> DEFINE T == {k \in Nat : k <= n => f[k] = g[k]}
<1>1. 0 \in T
  BY DEF Becomes
<1>2. ASSUME NEW k \in Nat, k \in T PROVE k + 1 \in T
  <2>1. SUFFICES ASSUME k + 1 <= n PROVE f[k + 1] = g[k + 1]
    OBVIOUS
  <2>2. k + 1 \in 1 .. n /\ k \in 0 .. n /\ k < k + 1 /\ k + 1 <= k + 1
    BY <2>1
  <2>3. f[k] = g[k]
    BY <1>2, <2>2
  <2>4. f[k + 1] = Applied(f[k], s[k + 1]) /\ g[k + 1] = Applied(g[k], s[k + 1])
    BY <2>2 DEF Becomes
  <2> QED  BY <2>3, <2>4
<1>3. Nat \subseteq T
  <2> HIDE DEF T
  <2> QED  BY <1>1, <1>2, EveryNumber
<1>4. n \in T
  BY <1>3
<1> QED  BY <1>4

\* Effect, which is defined recursively, carries out one command after the other.
LEMMA EffectIs ==
  ASSUME NEW d \in Database, NEW s \in Seq(Command)
  PROVE  \E f : Becomes(f, d, s, Len(s)) /\ Effect(d, s) = f[Len(s)]
                /\ \A i \in 0 .. Len(s) : f[i] \in Database
<1> DEFINE S == 0 .. Len(s)
           V == Database
           A(f) == [i \in S |-> IF i = 0 THEN d ELSE Applied(f[i - 1], s[i])]
           m == [i \in S |-> i]
           G == [i \in S |-> [f \in [S -> V] |-> IF i = 0 THEN d ELSE Applied(f[i - 1], s[i])]]
<1>1. Len(s) \in Nat
  OBVIOUS
<1>2. \A i \in S : i \in Nat /\ (i # 0 => i - 1 \in S /\ i - 1 < i /\ s[i] \in Command)
  OBVIOUS
<1> HIDE DEF S, V
<1>3. ASSUME NEW i \in S, NEW f \in [S -> V]
      PROVE  G[i][f] = (IF i = 0 THEN d ELSE Applied(f[i - 1], s[i]))
  OBVIOUS
<1>4. \A i \in S : m[i] = i
  OBVIOUS
<1>5. m \in [S -> Nat]
  BY <1>2
<1> HIDE DEF G, m
<1>6. Descends(G, S, V, m)
  <2>1. ASSUME NEW i \in S, NEW f \in [S -> V], NEW g \in [S -> V],
               \A y \in S : m[y] < m[i] => f[y] = g[y]
        PROVE  G[i][f] = G[i][g]
    <3>1. ASSUME i # 0 PROVE f[i - 1] = g[i - 1]
      <4>1. i - 1 \in S /\ i \in Nat
        BY <1>2, <3>1
      <4>2. m[i - 1] = i - 1 /\ m[i] = i
        BY <1>4, <4>1
      <4>3. m[i - 1] < m[i]
        BY <4>1, <4>2
      <4> QED  BY <2>1, <4>1, <4>3
    <3> QED  BY <1>3, <3>1
  <2>2. ASSUME NEW i \in S, NEW f \in [S -> V] PROVE G[i][f] \in V
    <3>1. CASE i = 0
      BY <1>3, <3>1 DEF V
    <3>2. CASE i # 0
      <4>1. f[i - 1] \in V /\ s[i] \in Command
        BY <1>2, <3>2
      <4>2. Applied(f[i - 1], s[i]) \in V
        BY <4>1, AppliedTyped DEF V
      <4> QED  BY <1>3, <3>2, <4>2
    <3> QED  BY <3>1, <3>2
  <2> QED  BY <1>5, <2>1, <2>2 DEF Descends
<1>7. PICK f : Solves(f, G, S, V)
  <2>1. d \in V
    BY DEF V
  <2> QED  BY <1>6, <2>1, Recursion
<1>8. f = A(f)
  <2>1. \A i \in S : f[i] = (IF i = 0 THEN d ELSE Applied(f[i - 1], s[i]))
    BY <1>3, <1>7 DEF Solves
  <2>2. f = [i \in S |-> f[i]]
    BY <1>7 DEF Solves
  <2> QED  BY <2>1, <2>2
<1> DEFINE h == CHOOSE h : h = A(h)
<1>9. h = A(h)
  BY <1>8
<1>10. Effect(d, s) = h[Len(s)]
  BY DEF Effect, S
<1> HIDE DEF h
<1>11. Becomes(h, d, s, Len(s))
  <2>1. h[0] = d
    <3>1. 0 \in S
      BY <1>1 DEF S
    <3> QED  BY <1>9, <3>1
  <2>2. ASSUME NEW i \in 1 .. Len(s), NEW j \in 0 .. Len(s), j < i, i <= j + 1
        PROVE  h[i] = Applied(h[j], s[i])
    <3>1. i - 1 = j /\ i # 0 /\ i \in S
      BY <1>1, <2>2 DEF S
    <3>2. h[i] = Applied(h[i - 1], s[i])
      BY <1>9, <3>1
    <3> QED  BY <3>1, <3>2
  <2> QED  BY <2>1, <2>2 DEF Becomes
<1> DEFINE T == {k \in Nat : k <= Len(s) => h[k] \in Database}
<1>12. 0 \in T
  BY <1>11 DEF Becomes
<1>13. ASSUME NEW k \in Nat, k \in T PROVE k + 1 \in T
  <2>1. SUFFICES ASSUME k + 1 <= Len(s) PROVE h[k + 1] \in Database
    OBVIOUS
  <2>2. /\ k + 1 \in 1 .. Len(s) /\ k \in 0 .. Len(s) /\ k < k + 1 /\ k + 1 <= k + 1
        /\ s[k + 1] \in Command
    BY <1>1, <2>1
  <2>3. h[k] \in Database
    BY <1>13, <1>1, <2>2
  <2>4. h[k + 1] = Applied(h[k], s[k + 1])
    BY <1>11, <2>2 DEF Becomes
  <2> QED  BY <2>2, <2>3, <2>4, AppliedTyped
<1>14. Nat \subseteq T
  <2> HIDE DEF T
  <2> QED  BY <1>12, <1>13, EveryNumber
<1>15. \A i \in 0 .. Len(s) : h[i] \in Database
  BY <1>1, <1>14
<1> QED  BY <1>10, <1>11, <1>15

\* One command after the other.
LEMMA EffectStep ==
  ASSUME NEW d \in Database, NEW s \in Seq(Command), NEW o \in Nat, NEW n \in 1 .. Len(s),
         o < n, n <= o + 1
  PROVE  /\ Effect(d, Prefix(s, n)) = Applied(Effect(d, Prefix(s, o)), s[n])
         /\ Effect(d, Prefix(s, o)) \in Database
<1> DEFINE t == Prefix(s, n)
           u == Prefix(s, o)
<1>1. /\ t \in Seq(Command) /\ Len(t) = n /\ \A i \in 1 .. n : t[i] = s[i]
      /\ u \in Seq(Command) /\ Len(u) = o /\ \A i \in 1 .. o : u[i] = s[i]
      /\ n \in Nat /\ \A i \in 1 .. o : i \in 1 .. n
      /\ \A i \in 0 .. o : i \in 0 .. n
  BY PrefixFacts
<1> HIDE DEF t, u
<1>2. PICK f : Becomes(f, d, t, n) /\ Effect(d, t) = f[n]
  BY <1>1, EffectIs
<1>3. PICK g : Becomes(g, d, u, o) /\ Effect(d, u) = g[o] /\ \A i \in 0 .. o : g[i] \in Database
  BY <1>1, EffectIs
<1>4. Becomes(f, d, u, o)
  BY <1>1, <1>2 DEF Becomes
<1>5. f[o] = g[o]
  BY <1>3, <1>4, BecomesOne
<1>6. f[n] = Applied(f[o], s[n]) /\ g[o] \in Database
  <2>1. n \in 1 .. n /\ o \in 0 .. n /\ o \in 0 .. o
    BY <1>1
  <2> QED  BY <1>1, <1>2, <1>3, <2>1 DEF Becomes
<1> QED  BY <1>2, <1>3, <1>5, <1>6 DEF t, u

\* No command has no effect.
LEMMA EffectOfNone ==
  ASSUME NEW d \in Database, NEW s \in Seq(Command)
  PROVE  Effect(d, Prefix(s, 0)) = d
<1>1. Prefix(s, 0) \in Seq(Command) /\ Len(Prefix(s, 0)) = 0
  BY PrefixFacts
<1>2. PICK f : Becomes(f, d, Prefix(s, 0), 0) /\ Effect(d, Prefix(s, 0)) = f[0]
  BY <1>1, EffectIs
<1> QED  BY <1>2 DEF Becomes

\* What the last "get" finds, command by command.
LEMMA FoundStep ==
  ASSUME NEW d \in Database, NEW s \in Seq(Command), NEW o \in Nat, NEW n \in 1 .. Len(s),
         o < n, n <= o + 1
  PROVE  Found(d, Prefix(s, n)) =
           IF s[n].op = "get" THEN <<Effect(d, Prefix(s, o))[s[n].key]>>
           ELSE Found(d, Prefix(s, o))
<1> DEFINE t == Prefix(s, n)
           u == Prefix(s, o)
           I == {i \in 1 .. Len(t) : t[i].op = "get"}
           J == {i \in 1 .. Len(u) : u[i].op = "get"}
           g == IF I # {} THEN Max(I) ELSE 0
           h == IF J # {} THEN Max(J) ELSE 0
<1>1. /\ t \in Seq(Command) /\ Len(t) = n /\ \A i \in 1 .. n : t[i] = s[i]
      /\ u \in Seq(Command) /\ Len(u) = o /\ \A i \in 1 .. o : u[i] = s[i]
      /\ n \in Nat /\ \A i \in 1 .. n : i \in 1 .. o \/ i = n
      /\ n \in 1 .. n /\ o = n - 1
      /\ \A i \in 1 .. o : i \in 1 .. n /\ i # n
  BY PrefixFacts
<1>2. \A i \in 1 .. n : SubSeq(t, 1, i - 1) = Prefix(s, i - 1)
  <2>1. SUFFICES ASSUME NEW i \in 1 .. n PROVE SubSeq(t, 1, i - 1) = SubSeq(s, 1, i - 1)
    BY DEF Prefix
  <2>2. SubSeq(t, 1, i - 1) \in Seq(Command) /\ Len(SubSeq(t, 1, i - 1)) = i - 1
        /\ \A j \in 1 .. i - 1 : SubSeq(t, 1, i - 1)[j] = s[j]
    <3> HIDE DEF t
    <3> QED  BY <1>1
  <2>3. SubSeq(s, 1, i - 1) \in Seq(Command) /\ Len(SubSeq(s, 1, i - 1)) = i - 1
        /\ \A j \in 1 .. i - 1 : SubSeq(s, 1, i - 1)[j] = s[j]
    OBVIOUS
  <2> DEFINE p == SubSeq(t, 1, i - 1)
             q == SubSeq(s, 1, i - 1)
  <2>4. p = q
    <3> HIDE DEF p, q
    <3>1. Len(p) = Len(q) /\ p \in Seq(Command) /\ q \in Seq(Command)
          /\ \A j \in 1 .. Len(p) : p[j] = q[j]
      BY <2>2, <2>3 DEF p, q
    <3> QED  BY <3>1
  <2> QED  BY <2>4
<1>3. \A i \in 1 .. o : SubSeq(u, 1, i - 1) = Prefix(s, i - 1)
  <2>1. SUFFICES ASSUME NEW i \in 1 .. o PROVE SubSeq(u, 1, i - 1) = SubSeq(s, 1, i - 1)
    BY DEF Prefix
  <2>2. SubSeq(u, 1, i - 1) \in Seq(Command) /\ Len(SubSeq(u, 1, i - 1)) = i - 1
        /\ \A j \in 1 .. i - 1 : SubSeq(u, 1, i - 1)[j] = s[j]
    <3> HIDE DEF u
    <3> QED  BY <1>1
  <2>3. i \in 1 .. Len(s)
    BY <1>1
  <2>4. SubSeq(s, 1, i - 1) \in Seq(Command) /\ Len(SubSeq(s, 1, i - 1)) = i - 1
        /\ \A j \in 1 .. i - 1 : SubSeq(s, 1, i - 1)[j] = s[j]
    BY <2>3
  <2> DEFINE p == SubSeq(u, 1, i - 1)
             q == SubSeq(s, 1, i - 1)
  <2>5. p = q
    <3> HIDE DEF p, q
    <3>1. Len(p) = Len(q) /\ p \in Seq(Command) /\ q \in Seq(Command)
          /\ \A j \in 1 .. Len(p) : p[j] = q[j]
      BY <2>2, <2>4 DEF p, q
    <3> QED  BY <3>1
  <2> QED  BY <2>5
<1>4. Found(d, t) = (IF g = 0 THEN <<>> ELSE <<Effect(d, SubSeq(t, 1, g - 1))[t[g].key]>>)
  BY DEF Found, SelectLastInSeq
<1>5. Found(d, u) = (IF h = 0 THEN <<>> ELSE <<Effect(d, SubSeq(u, 1, h - 1))[u[h].key]>>)
  BY DEF Found, SelectLastInSeq
<1> HIDE DEF t, u
<1>6. CASE s[n].op = "get"
  <2>1. n \in I /\ I \in SUBSET (1 .. n)
    BY <1>1, <1>6
  <2>2. Max(I) = n
    <3> HIDE DEF I
    <3>1. Max(I) \in I /\ n <= Max(I)
      BY <1>1, <2>1, Largest
    <3>2. Max(I) \in 1 .. n
      BY <2>1, <3>1
    <3> QED  BY <3>1, <3>2
  <2>3. g = n
    <3> HIDE DEF I
    <3> QED  BY <2>1, <2>2
  <2>4. g # 0 /\ SubSeq(t, 1, g - 1) = Prefix(s, o) /\ t[g] = s[n]
    <3>1. SubSeq(t, 1, n - 1) = Prefix(s, n - 1)
      BY <1>1, <1>2
    <3> HIDE DEF g
    <3> QED  BY <1>1, <2>3, <3>1
  <2> HIDE DEF g
  <2> QED  BY <1>4, <1>6, <2>4 DEF t
<1>7. CASE s[n].op # "get"
  <2>1. I = J
    BY <1>1, <1>7
  <2>2. g = h
    BY <2>1
  <2>3. h \in 0 .. o
    <3>1. J \in SUBSET (1 .. o)
      BY <1>1
    <3> HIDE DEF J
    <3>2. CASE J = {}
      BY <3>2
    <3>3. CASE J # {}
      <4>1. Max(J) \in J
        BY <3>1, <3>3, Largest
      <4>2. Max(J) \in 1 .. o /\ h = Max(J)
        BY <3>1, <3>3, <4>1
      <4> QED  BY <4>2
    <3> QED  BY <3>2, <3>3
  <2> HIDE DEF g, h
  <2>4. h # 0 => SubSeq(t, 1, g - 1) = SubSeq(u, 1, h - 1) /\ t[g] = u[h]
    <3>1. SUFFICES ASSUME h # 0 PROVE SubSeq(t, 1, g - 1) = SubSeq(u, 1, h - 1) /\ t[g] = u[h]
      OBVIOUS
    <3>2. h \in 1 .. o /\ h \in 1 .. n
      BY <1>1, <2>3, <3>1
    <3>3. SubSeq(t, 1, h - 1) = Prefix(s, h - 1) /\ SubSeq(u, 1, h - 1) = Prefix(s, h - 1)
      BY <1>2, <1>3, <3>2
    <3> QED  BY <1>1, <2>2, <3>2, <3>3
  <2>5. Found(d, t) = Found(d, u)
    <3>1. CASE h = 0
      BY <1>4, <1>5, <2>2, <3>1
    <3>2. CASE h # 0
      <4>1. SubSeq(t, 1, g - 1) = SubSeq(u, 1, h - 1) /\ t[g] = u[h]
        BY <2>4, <3>2
      <4> DEFINE e(a, b) == <<Effect(d, a)[b.key]>>
      <4>2. Found(d, t) = e(SubSeq(t, 1, g - 1), t[g])
        BY <1>4, <2>2, <3>2
      <4>3. Found(d, u) = e(SubSeq(u, 1, h - 1), u[h])
        BY <1>5, <3>2
      <4> HIDE DEF e
      <4> QED  BY <4>1, <4>2, <4>3
    <3> QED  BY <3>1, <3>2
  <2> QED  BY <1>7, <2>5 DEF t, u
<1> QED  BY <1>6, <1>7

\* Where there is no command, no "get" has found anything.
LEMMA FoundInNone ==
  ASSUME NEW d \in Database, NEW s \in Seq(Command)
  PROVE  Found(d, Prefix(s, 0)) = <<>>
<1> DEFINE t == Prefix(s, 0)
<1>1. Len(t) = 0
  BY PrefixFacts
<1> HIDE DEF t
<1>2. {i \in 1 .. Len(t) : t[i].op = "get"} = {}
  BY <1>1
<1>3. Found(d, t) = <<>>
  BY <1>2 DEF Found, SelectLastInSeq
<1> QED  BY <1>3 DEF t

-----------------------------------------------------------------------------
(* The executing thread.                                                   *)

\* IsDatabase says that a function is in the set Database.
LEMMA DatabaseExact ==
  ASSUME NEW d
  PROVE  IsDatabase(d) = (d \in Database)
<1>1. ASSUME IsDatabase(d) PROVE d \in Database
  BY <1>1, DatabaseFacts DEF IsDatabase
<1>2. ASSUME d \in Database PROVE IsDatabase(d)
  BY <1>2, DatabaseHas DEF IsDatabase
<1> QED  BY <1>1, <1>2 DEF IsDatabase

\* The request that cmd is about.
Current == requests[Len(answers) + 1]

(* What the invariant says of the task in hand: it is that of the request   *)
(* which is answered next.                                                  *)
LEMMA CurrentIs ==
  ASSUME IInv, cmd # <<>>
  PROVE  /\ cmd \in Seq(Word) /\ st \in 1 .. Len(cmd) + 1
         /\ db \in Database /\ before \in Database /\ output \in Seq(Word)
         /\ ~ world.cuts => Current \in Seq(Command) /\ cmd = Says(Current)
                            /\ \E j \in 0 .. Len(Current) : Carried(Current, j)
<1>1. Len(answers) + 1 \in 1 .. Len(forwarded) /\ cmd = forwarded[Len(answers) + 1]
  BY DEF IInv, ExecutorInv
<1>2. cmd \in Seq(Word) /\ st \in 1 .. Len(cmd) + 1 /\ output \in Seq(Word)
      /\ db \in Database /\ before \in Database
  BY DatabaseExact DEF IInv, ExecutorInv
<1>3. ASSUME ~ world.cuts
      PROVE  Current \in Seq(Command) /\ cmd = Says(Current)
             /\ \E j \in 0 .. Len(Current) : Carried(Current, j)
  <2>1. /\ Len(forwarded) <= Len(requests) /\ requests \in Seq(Batches)
        /\ forwarded[Len(answers) + 1] = Says(requests[Len(answers) + 1])
    <3>1. /\ Len(requests) = Len(forwarded) + (IF pending = <<>> THEN 0 ELSE 1)
          /\ \A i \in 1 .. Len(forwarded) : forwarded[i] = Says(requests[i])
          /\ requests \in Seq(Batches) /\ forwarded \in Seq(Seq(Word) \ {<<>>})
      BY <1>3 DEF IInv, ParserInv
    <3>2. Len(forwarded) \in Nat
      BY <3>1
    <3> QED  BY <1>1, <3>1, <3>2
  <2>2. Current \in Batches
    <3>1. Len(answers) + 1 \in 1 .. Len(requests)
      <4>1. Len(forwarded) \in Nat /\ Len(requests) \in Nat
        BY <2>1 DEF IInv, ParserInv
      <4> QED  BY <1>1, <2>1, <4>1
    <3> QED  BY <2>1, <3>1 DEF Current
  <2>3. \E j \in 0 .. Len(Current) : Carried(Current, j)
    BY <1>3 DEF IInv, ExecutorInv, Current
  <2> QED  BY <1>1, <2>1, <2>2, <2>3, BatchAssumption DEF Current
<1> QED  BY <1>2, <1>3

\* The thread is at command n of the batch, after the first j.
At(batch, j, n) ==
  LET c == batch[n]
      w == WordsOf(c)
  IN  /\ n = j + 1 /\ n \in 1 .. Len(batch) /\ c \in Command
      /\ st + Len(w) <= Len(cmd) + 1
      /\ \A i \in 1 .. Len(w) : cmd[st + i - 1] = w[i]
      /\ st + Len(w) = 1 + Len(Says(Prefix(batch, n)))

\* Between the commands of its task, the thread is at one or behind the last.
LEMMA AtCommand ==
  ASSUME NEW batch \in Seq(Command), cmd = Says(batch), cmd \in Seq(Word),
         NEW j \in 0 .. Len(batch), Carried(batch, j)
  PROVE  IF j = Len(batch) THEN st = Len(cmd) + 1
         ELSE st <= Len(cmd) /\ At(batch, j, j + 1)
<1>1. CASE j = Len(batch)
  <2>1. Prefix(batch, j) = batch
    BY <1>1, SaysEnds
  <2>2. st = 1 + Len(Says(Prefix(batch, j)))
    BY DEF Carried, Prefix
  <2> QED  BY <1>1, <2>1, <2>2
<1>2. CASE j # Len(batch)
  <2> DEFINE n == j + 1
             w == WordsOf(batch[n])
             b == Len(Says(Prefix(batch, j)))
  <2>1. n \in 1 .. Len(batch) /\ j \in Nat /\ j < n /\ n <= j + 1 /\ batch[n] \in Command
    BY <1>2
  <2>2. st = 1 + b
    BY DEF Carried, Prefix
  <2>3. /\ b \in Nat /\ Len(Says(Prefix(batch, n))) = b + Len(w)
        /\ b + Len(w) <= Len(cmd)
        /\ \A i \in 1 .. Len(w) : cmd[b + i] = w[i]
    <3> HIDE DEF n
    <3> QED  BY <2>1, CommandAt
  <2>4. Len(w) \in {2, 3} /\ Len(cmd) \in Nat
    <3>1. Len(w) \in {2, 3}
      BY <2>1, CommandWords
    <3>2. cmd \in Seq(Word)
      <4> HIDE DEF n
      <4> QED  BY <2>1, CommandAt
    <3> QED  BY <3>1, <3>2
  <2> HIDE DEF b, w
  <2>5. \A i \in 1 .. Len(w) : cmd[st + i - 1] = w[i]
    <3>1. ASSUME NEW i \in 1 .. Len(w) PROVE st + i - 1 = b + i
      BY <2>2, <2>3, <2>4
    <3> QED  BY <2>3, <3>1
  <2>6. /\ st <= Len(cmd) /\ st + Len(w) <= Len(cmd) + 1
        /\ st + Len(w) = 1 + Len(Says(Prefix(batch, n)))
    <3>1. Len(w) \in Nat /\ Len(w) >= 2
      BY <2>4
    <3>2. st + Len(w) = 1 + (b + Len(w)) /\ st <= b + Len(w)
      BY <2>2, <2>3, <3>1
    <3>3. b + Len(w) \in Nat
      BY <2>3, <3>1
    <3>4. st <= Len(cmd)
      BY <2>2, <2>3, <2>4, <3>1, <3>2, <3>3
    <3>5. st + Len(w) <= Len(cmd) + 1
      BY <2>2, <2>3, <2>4, <3>1
    <3>6. 1 + Len(Says(Prefix(batch, n))) = 1 + (b + Len(w))
      BY <2>3
    <3> QED  BY <3>2, <3>4, <3>5, <3>6
  <2> HIDE DEF n
  <2>7. At(batch, j, n)
    BY <2>1, <2>5, <2>6 DEF At, w, n
  <2> QED  BY <1>2, <2>6, <2>7 DEF n
<1> QED  BY <1>1, <1>2

\* What Is() says about the command at which the thread is.
LEMMA IsCommand ==
  ASSUME NEW batch, NEW j, NEW n, At(batch, j, n), cmd \in Seq(Word), st \in 1 .. Len(cmd) + 1
  PROVE  /\ Is(Spelled.set, 2) = (batch[n].op = "set")
         /\ Is(Spelled.get, 1) = (batch[n].op = "get")
         /\ Is(Spelled.del, 1) = (batch[n].op = "del")
         /\ cmd[st] = Spelled[batch[n].op] /\ cmd[st + 1] = batch[n].key
         /\ batch[n].op = "set" => cmd[st + 2] = batch[n].val
         /\ batch[n].op \in {"set", "get", "del"}
         /\ Len(WordsOf(batch[n])) = (IF batch[n].op = "set" THEN 3 ELSE 2)
<1> DEFINE c == batch[n]
           w == WordsOf(c)
<1>1. /\ c \in Command /\ st + Len(w) <= Len(cmd) + 1
      /\ \A i \in 1 .. Len(w) : cmd[st + i - 1] = w[i]
  BY DEF At
<1>2. /\ Len(w) \in {2, 3} /\ c.op \in {"set", "get", "del"}
      /\ w[1] = Spelled[c.op] /\ w[2] = c.key /\ (Len(w) = 3) = (c.op = "set")
      /\ c.op = "set" => w[3] = c.val
  BY <1>1, CommandWords
<1> HIDE DEF c, w
<1>3. st \in Nat /\ st + 1 - 1 = st /\ st + 2 - 1 = st + 1 /\ st + 3 - 1 = st + 2
      /\ Len(cmd) \in Nat
  OBVIOUS
<1>4. cmd[st] = w[1] /\ cmd[st + 1] = w[2] /\ (c.op = "set" => cmd[st + 2] = w[3])
  <2>1. 1 \in 1 .. Len(w) /\ 2 \in 1 .. Len(w) /\ (c.op = "set" => 3 \in 1 .. Len(w))
    BY <1>2
  <2>2. cmd[st + 1 - 1] = w[1] /\ cmd[st + 2 - 1] = w[2]
        /\ (c.op = "set" => cmd[st + 3 - 1] = w[3])
    BY <1>1, <2>1
  <2> QED  BY <1>3, <2>2
<1>5. st <= Len(cmd) /\ st + 1 <= Len(cmd) /\ (c.op = "set" => st + 2 <= Len(cmd))
  BY <1>1, <1>2, <1>3
<1>6. cmd[st] = Spelled[c.op]
  BY <1>2, <1>4
<1>7. /\ Is(Spelled.set, 2) = (c.op = "set")
      /\ Is(Spelled.get, 1) = (c.op = "get")
      /\ Is(Spelled.del, 1) = (c.op = "del")
  <2>1. CASE c.op = "set"
    BY <1>5, <1>6, <2>1, SpelledDiffer DEF Is
  <2>2. CASE c.op = "get"
    BY <1>5, <1>6, <2>2, SpelledDiffer DEF Is
  <2>3. CASE c.op = "del"
    BY <1>5, <1>6, <2>3, SpelledDiffer DEF Is
  <2> QED  BY <1>2, <2>1, <2>2, <2>3
<1> QED  BY <1>2, <1>4, <1>6, <1>7 DEF c, w

\* One more command of the batch has been carried out.
LEMMA CarriedOn ==
  ASSUME NEW batch \in Seq(Command), NEW j \in 0 .. Len(batch), NEW n,
         At(batch, j, n), Carried(batch, j), before \in Database, before' = before,
         st' = st + Len(WordsOf(batch[n])), db' = Applied(db, batch[n]),
         output' = IF batch[n].op = "get" THEN <<db[batch[n].key]>> ELSE output
  PROVE  n \in 0 .. Len(batch) /\ Carried(batch, n)'
<1>1. n \in 1 .. Len(batch) /\ j \in Nat /\ j < n /\ n <= j + 1
  BY DEF At
<1>2. db' = Effect(before, Prefix(batch, n))
  BY <1>1, EffectStep DEF Carried, Prefix
<1>3. output' = Found(before, Prefix(batch, n))
  <2>1. db = Effect(before, Prefix(batch, j)) /\ output = Found(before, Prefix(batch, j))
    BY DEF Carried, Prefix
  <2> QED  BY <1>1, <2>1, FoundStep
<1>4. st' = 1 + Len(Says(Prefix(batch, n)))
  BY DEF At
<1> QED  BY <1>1, <1>2, <1>3, <1>4 DEF Carried, Prefix

\* What is left to show of a command that has been carried out.
LEMMA CommandDone ==
  ASSUME IInv, cmd # <<>>, UNCHANGED <<parserVars, cmd, before, answers>>,
         st' \in 1 .. Len(cmd) + 1, db' \in Database, output' \in Seq(Word),
         ~ world.cuts => \E j \in 0 .. Len(Current) : Carried(Current, j)'
  PROVE  ExecutorInv'
<1>1. /\ world' = world /\ requests' = requests /\ tasks' = tasks /\ forwarded' = forwarded
      /\ cmd' = cmd /\ before' = before /\ answers' = answers
  BY DEF parserVars
<1>2. IsDatabase(db)' /\ IsDatabase(before)'
  <2>1. IsDatabase(before)
    BY DEF IInv, ExecutorInv
  <2>2. IsDatabase(before)'
    BY <1>1, <2>1 DEF IsDatabase
  <2>3. DOMAIN db' \subseteq Word /\ db' = [k \in DOMAIN db' |-> db'[k]] /\ \A k \in DOMAIN db' : db'[k] \in Word
    BY DatabaseHas
  <2> QED  BY <2>2, <2>3 DEF IsDatabase
<1>3. Current' = Current
  BY <1>1 DEF Current
<1>4. (~ world.cuts => \E j \in 0 .. Len(Current) : Carried(Current, j))'
  BY <1>1, <1>3 DEF Carried
<1> QED  BY <1>1, <1>2, <1>4 DEF IInv, ExecutorInv, Current

\* A command, as the words at which the thread is.
Written(c) ==
  /\ c \in Command
  /\ st + Len(WordsOf(c)) <= Len(cmd) + 1
  /\ cmd[st] = Spelled[c.op] /\ cmd[st + 1] = c.key
  /\ c.op = "set" => cmd[st + 2] = c.val

\* It is the one that the batch has there.
LEMMA TheSame ==
  ASSUME NEW batch, NEW j, NEW n, At(batch, j, n), NEW c, Written(c),
         cmd \in Seq(Word), st \in 1 .. Len(cmd) + 1
  PROVE  /\ c.op = batch[n].op /\ c.key = batch[n].key
         /\ c.op = "set" => c.val = batch[n].val
         /\ Len(WordsOf(c)) = Len(WordsOf(batch[n]))
<1>1. /\ cmd[st] = Spelled[batch[n].op] /\ cmd[st + 1] = batch[n].key
      /\ batch[n].op = "set" => cmd[st + 2] = batch[n].val
      /\ batch[n].op \in {"set", "get", "del"}
      /\ Len(WordsOf(batch[n])) = (IF batch[n].op = "set" THEN 3 ELSE 2)
  BY IsCommand
<1>2. c.op \in {"set", "get", "del"} /\ Len(WordsOf(c)) = (IF c.op = "set" THEN 3 ELSE 2)
  BY CommandWords DEF Written
<1>3. Spelled[c.op] = Spelled[batch[n].op]
  BY <1>1 DEF Written
<1>4. c.op = batch[n].op
  BY <1>1, <1>2, <1>3, SpelledDiffer
<1> QED  BY <1>1, <1>2, <1>4 DEF Written

\* A command that the thread carries out is one more of the batch.
LEMMA Executes ==
  ASSUME IInv, cmd # <<>>, UNCHANGED <<parserVars, cmd, before, answers>>,
         NEW c, Written(c), st' = st + Len(WordsOf(c)), db' = Applied(db, c),
         output' = IF c.op = "get" THEN <<db[c.key]>> ELSE output,
         c.op = "get" => c.key \in DOMAIN db
  PROVE  ExecutorInv'
<1>1. /\ cmd \in Seq(Word) /\ st \in 1 .. Len(cmd) + 1
      /\ db \in Database /\ before \in Database /\ output \in Seq(Word)
      /\ ~ world.cuts => Current \in Seq(Command) /\ cmd = Says(Current)
                         /\ \E j \in 0 .. Len(Current) : Carried(Current, j)
  BY CurrentIs
<1>2. c \in Command /\ Len(WordsOf(c)) \in {2, 3}
  BY CommandWords DEF Written
<1>3. st' \in 1 .. Len(cmd) + 1
  BY <1>1, <1>2 DEF Written
<1>4. db' \in Database
  BY <1>1, <1>2, AppliedTyped
<1>5. output' \in Seq(Word)
  <2>1. c.op = "get" => db[c.key] \in Word
    BY <1>1, DatabaseHas
  <2> QED  BY <1>1, <2>1
<1>6. ASSUME ~ world.cuts PROVE \E j \in 0 .. Len(Current) : Carried(Current, j)'
  <2>1. PICK j \in 0 .. Len(Current) : Carried(Current, j)
    BY <1>1, <1>6
  <2>2. Current \in Seq(Command) /\ cmd = Says(Current)
    BY <1>1, <1>6
  <2>3. st <= Len(cmd) /\ Len(cmd) \in Nat
    <3>1. Len(WordsOf(c)) = 2 \/ Len(WordsOf(c)) = 3
      BY <1>2
    <3>3. st + Len(WordsOf(c)) <= Len(cmd) + 1
      BY DEF Written
    <3>2. Len(cmd) \in Nat /\ st \in Nat
      BY <1>1
    <3>4. ASSUME NEW l, l = 2 \/ l = 3, st + l <= Len(cmd) + 1 PROVE st <= Len(cmd)
      BY <3>2, <3>4
    <3> QED  BY <3>1, <3>2, <3>3, <3>4
  <2> DEFINE n == j + 1
             b == Current
  <2>4. At(b, j, n)
    BY <1>1, <2>1, <2>2, <2>3, AtCommand
  <2>5. /\ c.op = b[n].op /\ c.key = b[n].key
        /\ c.op = "set" => c.val = b[n].val
        /\ Len(WordsOf(c)) = Len(WordsOf(b[n]))
    <3> HIDE DEF n, b
    <3> QED  BY <1>1, <2>4, TheSame
  <2>6. b[n] \in Command
    BY <2>4 DEF At
  <2>7. Applied(db, c) = Applied(db, b[n])
    <3> HIDE DEF n, b
    <3>1. CASE c.op = "set"
      BY <2>5, <3>1 DEF Applied
    <3>2. CASE c.op = "get"
      BY <2>5, <3>2 DEF Applied
    <3>3. CASE c.op = "del"
      BY <2>5, <3>3 DEF Applied
    <3>4. c.op \in {"set", "get", "del"}
      BY <1>2, CommandWords
    <3> QED  BY <3>1, <3>2, <3>3, <3>4
  <2>8. /\ st' = st + Len(WordsOf(b[n])) /\ db' = Applied(db, b[n]) /\ before' = before
        /\ output' = IF b[n].op = "get" THEN <<db[b[n].key]>> ELSE output
    <3> HIDE DEF n, b
    <3> QED  BY <2>5, <2>7
  <2>9. b' = b
    BY DEF Current, parserVars
  <2>10. n \in 0 .. Len(b) /\ Carried(b, n)'
    <3>1. ASSUME NEW q \in Seq(Command), q = b PROVE n \in 0 .. Len(q) /\ Carried(q, n)'
      <4> HIDE DEF n, b
      <4>1. At(q, j, n) /\ Carried(q, j) /\ j \in 0 .. Len(q)
        BY <2>1, <2>4, <3>1 DEF b
      <4> QED  BY <1>1, <2>8, <3>1, <4>1, CarriedOn
    <3> QED  BY <2>2, <2>9, <3>1 DEF Carried
  <2> QED  BY <2>10
<1> QED  BY <1>3, <1>4, <1>5, <1>6, CommandDone

\* The thread carries out a "set" ...
LEMMA SetStep == ASSUME IInv, set PROVE ExecutorInv'
<1> DEFINE c == [op |-> "set", key |-> cmd[st + 1], val |-> cmd[st + 2]]
<1>1. cmd \in Seq(Word) /\ st \in 1 .. Len(cmd) + 1 /\ cmd # <<>> /\ db \in Database
  BY CurrentIs DEF set, Executing
<1>2. cmd[st] = Spelled.set /\ st + 2 <= Len(cmd)
  BY DEF set, Is
<1>3. c \in Command /\ WordsOf(c) = <<Spelled.set, cmd[st + 1], cmd[st + 2]>>
  <2>1. cmd[st + 1] \in Word /\ cmd[st + 2] \in Word
    BY <1>1, <1>2
  <2> QED  BY <2>1 DEF Command, WordsOf
<1>4. /\ c.op = "set" /\ c.key = cmd[st + 1] /\ c.val = cmd[st + 2]
      /\ Len(WordsOf(c)) = 3
  BY <1>3
<1>5. UNCHANGED <<parserVars, cmd, before, answers>> /\ st' = st + 3 /\ output' = output
  BY <1>1 DEF set, Advance
<1> HIDE DEF c
<1>6. Written(c)
  BY <1>1, <1>2, <1>3, <1>4, SpelledDiffer DEF Written
<1>7. db' = Applied(db, c)
  BY <1>4 DEF set, Applied
<1> QED  BY <1>1, <1>4, <1>5, <1>6, <1>7, Executes

\* ... a "get" that finds its key ...
LEMMA GetStep == ASSUME IInv, get PROVE ExecutorInv'
<1> DEFINE c == [op |-> "get", key |-> cmd[st + 1]]
<1>1. cmd \in Seq(Word) /\ st \in 1 .. Len(cmd) + 1 /\ cmd # <<>> /\ db \in Database
  BY CurrentIs DEF get, Executing
<1>2. cmd[st] = Spelled.get /\ st + 1 <= Len(cmd)
  BY DEF get, Is
<1>3. c \in Command
  <2>1. cmd[st + 1] \in Word
    BY <1>1, <1>2
  <2> QED  BY <2>1 DEF Command
<1>4. c.op = "get" /\ c.key = cmd[st + 1]
  OBVIOUS
<1>5. Len(WordsOf(c)) = 2
  BY <1>4 DEF WordsOf
<1>6. /\ UNCHANGED <<parserVars, cmd, before, answers>> /\ st' = st + 2
      /\ output' = <<db[cmd[st + 1]]>> /\ db' = db /\ cmd[st + 1] \in DOMAIN db
  BY <1>1 DEF get, Advance
<1> HIDE DEF c
<1>7. Written(c)
  BY <1>1, <1>2, <1>3, <1>4, <1>5, SpelledDiffer DEF Written
<1>8. db' = Applied(db, c)
  BY <1>4, <1>6 DEF Applied
<1> QED  BY <1>1, <1>4, <1>5, <1>6, <1>7, <1>8, Executes

\* ... or a "del", and is at the next command.
LEMMA DelStep == ASSUME IInv, del PROVE ExecutorInv'
<1> DEFINE c == [op |-> "del", key |-> cmd[st + 1]]
<1>1. cmd \in Seq(Word) /\ st \in 1 .. Len(cmd) + 1 /\ cmd # <<>> /\ db \in Database
  BY CurrentIs DEF del, Executing
<1>2. cmd[st] = Spelled.del /\ st + 1 <= Len(cmd)
  BY DEF del, Is
<1>3. c \in Command
  <2>1. cmd[st + 1] \in Word
    BY <1>1, <1>2
  <2> QED  BY <2>1 DEF Command
<1>4. c.op = "del" /\ c.key = cmd[st + 1]
  OBVIOUS
<1>5. Len(WordsOf(c)) = 2
  BY <1>4 DEF WordsOf
<1>6. /\ UNCHANGED <<parserVars, cmd, before, answers>> /\ st' = st + 2
      /\ output' = output /\ db' = [key \in DOMAIN db \ {cmd[st + 1]} |-> db[key]]
  BY <1>1 DEF del, Advance
<1> HIDE DEF c
<1>7. Written(c)
  BY <1>1, <1>2, <1>3, <1>4, <1>5, SpelledDiffer DEF Written
<1>8. db' = Applied(db, c)
  BY <1>4, <1>6 DEF Applied
<1> QED  BY <1>1, <1>4, <1>5, <1>6, <1>7, <1>8, Executes

-----------------------------------------------------------------------------
(* Taking and answering a task.                                            *)

\* An answer leaves the thread without a task, in step with what is forwarded.
LEMMA AnswerStep == ASSUME IInv, cmd # <<>>, NEW status, Answer(status) PROVE ExecutorInv'
<1>1. /\ forwarded' = forwarded /\ tasks' = tasks /\ db' = db /\ before' = before
      /\ cmd' = <<>> /\ output' = <<>> /\ answers' = Append(answers, Append(output, status))
  BY DEF Answer, parserVars
<1>2. /\ answers' \in Seq(ToSet(answers')) /\ Len(answers') = Len(answers) + 1
      /\ Len(answers) \in Nat
  BY <1>1, AppendedElement DEF IInv, ExecutorInv
<1>3. /\ Len(forwarded) = Len(answers) + 1 + Len(tasks)
      /\ \A i \in 1 .. Len(tasks) : tasks[i] = forwarded[Len(answers) + 1 + i]
      /\ tasks \in Seq(Seq(Word))
  BY DEF IInv, ExecutorInv
<1>4. /\ Len(forwarded') = Len(answers') + 0 + Len(tasks')
      /\ \A i \in 1 .. Len(tasks') : tasks'[i] = forwarded'[Len(answers') + 0 + i]
  BY <1>1, <1>2, <1>3
<1>5. IsDatabase(db)' /\ IsDatabase(before)'
  BY <1>1 DEF IInv, ExecutorInv, IsDatabase
<1>6. <<>> \in Seq(Word)
  OBVIOUS
<1> QED  BY <1>1, <1>2, <1>3, <1>4, <1>5, <1>6 DEF ExecutorInv

\* A task is taken up at its first command, before any of them.
LEMMA TakeTaskStep == ASSUME IInv, TakeTask PROVE ExecutorInv'
<1>1. /\ forwarded' = forwarded /\ answers' = answers /\ requests' = requests
      /\ world' = world /\ db' = db /\ before' = db /\ output' = output /\ st' = 1
      /\ cmd = <<>> /\ tasks # <<>> /\ cmd' = Head(tasks) /\ tasks' = Tail(tasks)
  BY DEF TakeTask
<1>2. /\ output = <<>> /\ tasks \in Seq(Seq(Word)) /\ Len(answers) \in Nat
      /\ Len(forwarded) = Len(answers) + Len(tasks)
      /\ \A i \in 1 .. Len(tasks) : tasks[i] = forwarded[Len(answers) + i]
      /\ answers \in Seq(ToSet(answers)) /\ db \in Database
  <2>1. /\ output = <<>> /\ tasks \in Seq(Seq(Word)) /\ IsDatabase(db)
        /\ answers \in Seq(ToSet(answers))
        /\ Len(forwarded) = Len(answers) + 0 + Len(tasks)
        /\ \A i \in 1 .. Len(tasks) : tasks[i] = forwarded[Len(answers) + 0 + i]
    BY <1>1 DEF IInv, ExecutorInv
  <2>2. Len(answers) \in Nat /\ Len(answers) + 0 = Len(answers)
    BY <2>1
  <2> QED  BY <2>1, <2>2, DatabaseExact
<1>3. Len(tasks) \in Nat /\ Len(tasks) >= 1 /\ Len(answers) + 1 \in 1 .. Len(forwarded)
  BY <1>1, <1>2
<1>4. forwarded \in Seq(Seq(Word) \ {<<>>})
  BY DEF IInv, ParserInv
<1>5. cmd' = forwarded[Len(answers) + 1] /\ cmd' \in Seq(Word) /\ cmd' # <<>>
  <2>1. 1 \in 1 .. Len(tasks) /\ Head(tasks) = tasks[1]
    BY <1>2, <1>3
  <2> QED  BY <1>1, <1>2, <1>3, <1>4, <2>1
<1>6. /\ tasks' \in Seq(Seq(Word)) /\ Len(forwarded') = Len(answers') + 1 + Len(tasks')
      /\ \A i \in 1 .. Len(tasks') : tasks'[i] = forwarded'[Len(answers') + 1 + i]
  <2>1. /\ Tail(tasks) \in Seq(Seq(Word)) /\ Len(Tail(tasks)) = Len(tasks) - 1
        /\ \A i \in 1 .. Len(tasks) - 1 : Tail(tasks)[i] = tasks[i + 1]
    BY <1>2, <1>3
  <2>2. ASSUME NEW i \in 1 .. Len(tasks) - 1
        PROVE  tasks[i + 1] = forwarded[Len(answers) + 1 + i]
    <3>1. i + 1 \in 1 .. Len(tasks) /\ Len(answers) + (i + 1) = Len(answers) + 1 + i
      BY <1>2, <1>3
    <3>2. tasks[i + 1] = forwarded[Len(answers) + (i + 1)]
      BY <1>2, <3>1
    <3> QED  BY <3>1, <3>2
  <2> QED  BY <1>1, <1>2, <1>3, <2>1, <2>2
<1>7. st' \in 1 .. Len(cmd') + 1
  BY <1>1, <1>5
<1>8. IsDatabase(db)' /\ IsDatabase(before)'
  BY <1>1 DEF IInv, ExecutorInv, IsDatabase
<1>9. ASSUME ~ world.cuts PROVE \E j \in 0 .. Len(Current) : Carried(Current, j)'
  <2>1. Current \in Seq(Command)
    <3>1. /\ Len(requests) = Len(forwarded) + (IF pending = <<>> THEN 0 ELSE 1)
          /\ requests \in Seq(Batches)
      BY <1>9 DEF IInv, ParserInv
    <3>2. Len(answers) + 1 \in 1 .. Len(requests)
      BY <1>2, <1>3, <1>4, <3>1
    <3> QED  BY <3>1, <3>2, BatchAssumption DEF Current
  <2>2. /\ Says(Prefix(Current, 0)) = <<>>
        /\ Effect(db, Prefix(Current, 0)) = db /\ Found(db, Prefix(Current, 0)) = <<>>
    BY <1>2, <2>1, SaysEnds, EffectOfNone, FoundInNone
  <2>3. Current' = Current
    BY <1>1 DEF Current
  <2>4. ASSUME NEW q, q = Current PROVE Carried(q, 0)'
    BY <1>1, <1>2, <2>2, <2>4 DEF Carried, Prefix
  <2>5. Carried(Current, 0)'
    BY <2>3, <2>4 DEF Carried
  <2>6. 0 \in 0 .. Len(Current)
    BY <2>1
  <2> QED  BY <2>5, <2>6
<1>10. (~ world.cuts => \E j \in 0 .. Len(Current) : Carried(Current, j))'
  <2>1. Current' = Current
    BY <1>1 DEF Current
  <2> QED  BY <1>1, <1>9, <2>1 DEF Carried
<1> QED  BY <1>1, <1>2, <1>5, <1>6, <1>7, <1>8, <1>10 DEF ExecutorInv, Current

\* A request, or the forwarding of one, is no matter of the thread yet.
LEMMA MoreToDo ==
  ASSUME IInv, UNCHANGED <<world, db, cmd, st, before, output, answers>>,
         \/ UNCHANGED <<tasks, forwarded>>
         \/ \E words \in Seq(Word) : /\ tasks' = Append(tasks, words)
                                     /\ forwarded' = Append(forwarded, words),
         \/ requests' = requests
         \/ \E batch \in Batches : requests' = Append(requests, batch)
  PROVE  ExecutorInv'
<1> DEFINE taken == Len(answers) + (IF cmd = <<>> THEN 0 ELSE 1)
<1>1. /\ world' = world /\ db' = db /\ cmd' = cmd /\ st' = st /\ before' = before
      /\ output' = output /\ answers' = answers
  OBVIOUS
<1>2. /\ tasks \in Seq(Seq(Word)) /\ taken \in Nat
      /\ Len(forwarded) = taken + Len(tasks)
      /\ \A i \in 1 .. Len(tasks) : tasks[i] = forwarded[taken + i]
      /\ answers \in Seq(ToSet(answers)) /\ Len(answers) \in Nat
      /\ cmd # <<>> => Len(answers) + 1 \in 1 .. Len(forwarded)
  BY DEF IInv, ExecutorInv
<1>3. forwarded \in Seq(Seq(Word) \ {<<>>}) /\ requests \in Seq(Batches)
  BY DEF IInv, ParserInv
<1>4. /\ tasks' \in Seq(Seq(Word))
      /\ Len(forwarded') = taken + Len(tasks')
      /\ \A i \in 1 .. Len(tasks') : tasks'[i] = forwarded'[taken + i]
      /\ \A i \in 1 .. Len(forwarded) : forwarded'[i] = forwarded[i]
  <2> HIDE DEF taken
  <2>1. CASE UNCHANGED <<tasks, forwarded>>
    BY <1>2, <2>1
  <2>2. ASSUME NEW words \in Seq(Word), tasks' = Append(tasks, words),
               forwarded' = Append(forwarded, words)
        PROVE  /\ tasks' \in Seq(Seq(Word))
               /\ Len(forwarded') = taken + Len(tasks')
               /\ \A i \in 1 .. Len(tasks') : tasks'[i] = forwarded'[taken + i]
               /\ \A i \in 1 .. Len(forwarded) : forwarded'[i] = forwarded[i]
    <3>1. forwarded \in Seq(Seq(Word))
      BY <1>3
    <3>2. /\ tasks' \in Seq(Seq(Word)) /\ Len(tasks') = Len(tasks) + 1
          /\ tasks'[Len(tasks) + 1] = words /\ \A i \in 1 .. Len(tasks) : tasks'[i] = tasks[i]
      BY <1>2, <2>2
    <3>3. /\ forwarded' \in Seq(Seq(Word)) /\ Len(forwarded') = Len(forwarded) + 1
          /\ forwarded'[Len(forwarded) + 1] = words
          /\ \A i \in 1 .. Len(forwarded) : forwarded'[i] = forwarded[i]
      BY <3>1, <2>2
    <3>4. ASSUME NEW i \in 1 .. Len(tasks') PROVE tasks'[i] = forwarded'[taken + i]
      <4>1. CASE i = Len(tasks) + 1
        <5>1. taken + i = Len(forwarded) + 1
          BY <1>2, <4>1
        <5> QED  BY <3>2, <3>3, <4>1, <5>1
      <4>2. CASE i # Len(tasks) + 1
        <5>1. i \in 1 .. Len(tasks) /\ taken + i \in 1 .. Len(forwarded)
          <6>1. Len(tasks) \in Nat /\ taken \in Nat /\ Len(forwarded) = taken + Len(tasks)
            BY <1>2
          <6>2. i \in 1 .. Len(tasks) + 1 /\ i # Len(tasks) + 1
            BY <3>2, <4>2
          <6> HIDE DEF taken
          <6> QED  BY <6>1, <6>2
        <5> QED  BY <1>2, <3>2, <3>3, <5>1
      <4> QED  BY <4>1, <4>2
    <3>5. Len(forwarded') = taken + Len(tasks')
      BY <1>2, <3>2, <3>3
    <3> QED  BY <3>2, <3>3, <3>4, <3>5
  <2> QED  BY <2>1, <2>2
<1>5. IsDatabase(db)' /\ IsDatabase(before)'
  BY <1>1 DEF IInv, ExecutorInv, IsDatabase
<1>6. ASSUME ~ world.cuts, cmd # <<>> PROVE Current' = Current
  <2>1. Len(answers) + 1 \in 1 .. Len(requests)
    <3>1. Len(requests) = Len(forwarded) + (IF pending = <<>> THEN 0 ELSE 1)
      BY <1>6 DEF IInv, ParserInv
    <3> QED  BY <1>2, <1>3, <1>6, <3>1
  <2>2. ASSUME NEW batch \in Batches, requests' = Append(requests, batch) PROVE Current' = Current
    BY <1>1, <1>3, <2>1, <2>2 DEF Current
  <2> QED  BY <1>1, <2>2 DEF Current
<1>7. (cmd # <<>> /\ ~ world.cuts => \E j \in 0 .. Len(Current) : Carried(Current, j))'
  <2>1. SUFFICES ASSUME cmd # <<>>, ~ world.cuts
                 PROVE  (\E j \in 0 .. Len(Current) : Carried(Current, j))'
    BY <1>1
  <2>2. \E j \in 0 .. Len(Current) : Carried(Current, j)
    BY <2>1, CurrentIs
  <2>3. Current' = Current
    BY <1>6, <2>1
  <2> QED  BY <1>1, <2>2, <2>3 DEF Carried
<1>8. (cmd # <<>> => cmd = forwarded[Len(answers) + 1] /\ st \in 1 .. Len(cmd) + 1)'
  BY <1>1, <1>2, <1>4 DEF IInv, ExecutorInv
<1> QED  BY <1>1, <1>4, <1>5, <1>7, <1>8 DEF IInv, ExecutorInv, Current

\* Where the thread is in a request that has come whole.
LEMMA Whereabouts ==
  ASSUME IInv, cmd # <<>>, ~ world.cuts
  PROVE  \E j \in 0 .. Len(Current) :
           /\ Carried(Current, j)
           /\ j = Len(Current) => st = Len(cmd) + 1
           /\ j # Len(Current) =>
                LET c == Current[j + 1] IN
                /\ st <= Len(cmd) /\ c.op \in {"set", "get", "del"}
                /\ Is(Spelled.set, 2) = (c.op = "set") /\ Is(Spelled.get, 1) = (c.op = "get")
                /\ cmd[st] = Spelled[c.op] /\ cmd[st + 1] = c.key
<1>1. /\ cmd \in Seq(Word) /\ st \in 1 .. Len(cmd) + 1
      /\ Current \in Seq(Command) /\ cmd = Says(Current)
  BY CurrentIs
<1>2. PICK j \in 0 .. Len(Current) : Carried(Current, j)
  BY CurrentIs
<1> DEFINE b == Current
<1> HIDE DEF b
<1>3. b \in Seq(Command) /\ j \in 0 .. Len(b) /\ Carried(b, j) /\ cmd = Says(b)
  BY <1>1, <1>2 DEF b
<1>4. CASE j = Len(b)
  <2>1. st = Len(cmd) + 1
    BY <1>1, <1>3, <1>4, AtCommand
  <2> QED  BY <1>2, <1>4, <2>1 DEF b
<1>5. CASE j # Len(b)
  <2> DEFINE n == j + 1
  <2>1. st <= Len(cmd) /\ At(b, j, n)
    BY <1>1, <1>3, <1>5, AtCommand
  <2> HIDE DEF n
  <2>2. /\ b[n].op \in {"set", "get", "del"}
        /\ Is(Spelled.set, 2) = (b[n].op = "set") /\ Is(Spelled.get, 1) = (b[n].op = "get")
        /\ cmd[st] = Spelled[b[n].op] /\ cmd[st + 1] = b[n].key
    BY <1>1, <2>1, IsCommand
  <2> QED  BY <1>2, <1>5, <2>1, <2>2 DEF b, n
<1> QED  BY <1>4, <1>5

\* What an answer says of the request.
Promised(status, full) ==
  \E j \in 0 .. Len(Current) :
    /\ db = Effect(before, SubSeq(Current, 1, j))
    /\ output = Found(before, SubSeq(Current, 1, j))
    /\ status = IF j = Len(Current) THEN "OK!" ELSE "Error!"
    /\ j < Len(Current) /\ full =>
         Current[j + 1].op = "get" /\ Current[j + 1].key \notin DOMAIN db

(* Whether it succeeds or fails, the thread answers with as much of the     *)
(* request as it has carried out.                                           *)
LEMMA AnswerPromises ==
  ASSUME IInv, cmd # <<>>, ~ world.cuts, NEW status,
         \/ getMissing /\ status = "Error!"
         \/ WriteFails /\ status = "Error!"
         \/ InvalidCommand /\ status = "Error!"
         \/ Finish /\ status = "OK!"
  PROVE  Promised(status, ~ world.faults)
<1>1. PICK j \in 0 .. Len(Current) :
        /\ Carried(Current, j)
        /\ j = Len(Current) => st = Len(cmd) + 1
        /\ j # Len(Current) =>
             LET c == Current[j + 1] IN
             /\ st <= Len(cmd) /\ c.op \in {"set", "get", "del"}
             /\ Is(Spelled.set, 2) = (c.op = "set") /\ Is(Spelled.get, 1) = (c.op = "get")
             /\ cmd[st] = Spelled[c.op] /\ cmd[st + 1] = c.key
  BY Whereabouts
<1>2. cmd \in Seq(Word) /\ Current \in Seq(Command)
  BY CurrentIs
<1>3. Len(cmd) \in Nat /\ Len(Current) \in Nat /\ ~ (Len(cmd) + 1 <= Len(cmd))
      /\ (j < Len(Current) => j # Len(Current))
  BY <1>2
<1>4. db = Effect(before, SubSeq(Current, 1, j)) /\ output = Found(before, SubSeq(Current, 1, j))
  BY <1>1 DEF Carried
<1>5. CASE getMissing /\ status = "Error!"
  <2>1. Is(Spelled.get, 1) /\ cmd[st + 1] \notin DOMAIN db /\ st <= Len(cmd)
    BY <1>5 DEF getMissing, Is
  <2>2. j # Len(Current)
    BY <1>1, <1>3, <2>1
  <2>3. Current[j + 1].op = "get" /\ Current[j + 1].key \notin DOMAIN db
    BY <1>1, <2>1, <2>2
  <2> QED  BY <1>4, <1>5, <2>2, <2>3 DEF Promised
<1>6. CASE WriteFails /\ status = "Error!"
  <2>1. world.faults /\ st <= Len(cmd)
    BY <1>6 DEF WriteFails, Is
  <2>2. j # Len(Current)
    BY <1>1, <1>3, <2>1
  <2> QED  BY <1>4, <1>6, <2>1, <2>2 DEF Promised
<1>7. CASE InvalidCommand /\ status = "Error!"
  <2>1. /\ st <= Len(cmd) /\ ~ Is(Spelled.set, 2) /\ ~ Is(Spelled.get, 1)
        /\ cmd[st] # Spelled.del
    BY <1>7 DEF InvalidCommand
  <2>2. j # Len(Current)
    BY <1>1, <1>3, <2>1
  <2>3. Current[j + 1].op = "del"
    BY <1>1, <2>1, <2>2
  <2>4. Spelled["del"] = Spelled.del
    BY SpelledDiffer
  <2> QED  BY <1>1, <2>1, <2>2, <2>3, <2>4
<1>8. CASE Finish /\ status = "OK!"
  <2>1. st > Len(cmd)
    BY <1>8 DEF Finish
  <2>2. j = Len(Current)
    <3>1. st \in 1 .. Len(cmd) + 1
      BY CurrentIs
    <3>2. ~ (st <= Len(cmd))
      BY <1>3, <2>1, <3>1
    <3> QED  BY <1>1, <3>2
  <2>3. ~ (j < Len(Current))
    BY <1>3, <2>2
  <2> QED  BY <1>4, <1>8, <2>2, <2>3 DEF Promised
<1> QED  BY <1>5, <1>6, <1>7, <1>8

\* What AllOrPrefix says of a step.
Kept ==
  Len(answers') > Len(answers) /\ ~ world.cuts =>
    LET batch == requests[Len(answers')] IN
    \E j \in 0 .. Len(batch) :
      /\ db' = Effect(before, SubSeq(batch, 1, j))
      /\ Last(answers') = Found(before, SubSeq(batch, 1, j))
                            \o <<IF j = Len(batch) THEN "OK!" ELSE "Error!">>
      /\ j < Len(batch) /\ ~ world.faults =>
           batch[j + 1].op = "get" /\ batch[j + 1].key \notin DOMAIN db'

\* An answer that keeps what it promises is as AllOrPrefix says.
LEMMA AnswerKept ==
  ASSUME IInv, cmd # <<>>, NEW status, Answer(status),
         ~ world.cuts => Promised(status, ~ world.faults)
  PROVE  Kept
<1>1. SUFFICES ASSUME ~ world.cuts PROVE Kept
  BY DEF Kept
<1>2. db' = db /\ answers' = Append(answers, Append(output, status))
  BY DEF Answer
<1>3. answers \in Seq(ToSet(answers)) /\ output \in Seq(Word)
  BY DEF IInv, ExecutorInv
<1>4. Len(answers') = Len(answers) + 1 /\ Last(answers') = Append(output, status)
  BY <1>2, <1>3, AppendedElement
<1>5. requests[Len(answers')] = Current
  BY <1>4 DEF Current
<1>6. PICK j \in 0 .. Len(Current) :
        /\ db = Effect(before, SubSeq(Current, 1, j))
        /\ output = Found(before, SubSeq(Current, 1, j))
        /\ status = IF j = Len(Current) THEN "OK!" ELSE "Error!"
        /\ j < Len(Current) /\ ~ world.faults =>
             Current[j + 1].op = "get" /\ Current[j + 1].key \notin DOMAIN db
  BY <1>1 DEF Promised
<1>7. Append(output, status) = output \o <<status>>
  <2>1. ASSUME NEW S, NEW s \in Seq(S), NEW e PROVE Append(s, e) = s \o <<e>>
    <3> DEFINE R == S \cup {e}
    <3>1. s \in Seq(R) /\ e \in R
      OBVIOUS
    <3> HIDE DEF R
    <3> QED  BY <3>1
  <2> QED  BY <1>3, <2>1
<1>8. Last(answers') = Found(before, SubSeq(Current, 1, j))
                         \o <<IF j = Len(Current) THEN "OK!" ELSE "Error!">>
  <2> DEFINE f == Found(before, SubSeq(Current, 1, j))
             e == IF j = Len(Current) THEN "OK!" ELSE "Error!"
  <2>1. output = f /\ status = e
    BY <1>6
  <2> HIDE DEF f, e
  <2>2. Last(answers') = f \o <<e>>
    BY <1>4, <1>7, <2>1
  <2> QED  BY <2>2 DEF f, e
<1> QED  BY <1>2, <1>5, <1>6, <1>8 DEF Kept

\* A step of the thread.
LEMMA ThreadStep == ASSUME IInv, handleTask PROVE ExecutorInv' /\ Kept
<1>1. cmd # <<>>
  BY DEF handleTask, set, get, getMissing, del, WriteFails, InvalidCommand, Finish, Executing
<1>2. CASE set \/ get \/ del
  <2>1. answers' = answers /\ Len(answers) \in Nat
    BY <1>2 DEF set, get, del, Advance, IInv, ExecutorInv
  <2>2. Kept
    BY <2>1 DEF Kept
  <2> QED  BY <1>2, <2>2, SetStep, GetStep, DelStep
<1>3. ASSUME getMissing \/ WriteFails \/ InvalidCommand PROVE ExecutorInv' /\ Kept
  <2>1. Answer("Error!")
    BY <1>3 DEF getMissing, WriteFails, InvalidCommand
  <2>2. ~ world.cuts => Promised("Error!", ~ world.faults)
    BY <1>1, <1>3, AnswerPromises
  <2> QED  BY <1>1, <2>1, <2>2, AnswerStep, AnswerKept
<1>4. CASE Finish
  <2>1. Answer("OK!")
    BY <1>4 DEF Finish
  <2>2. ~ world.cuts => Promised("OK!", ~ world.faults)
    BY <1>1, <1>4, AnswerPromises
  <2> QED  BY <1>1, <2>1, <2>2, AnswerStep, AnswerKept
<1> QED  BY <1>2, <1>3, <1>4 DEF handleTask

\* It leaves the parser alone.
LEMMA ParserAlone ==
  ASSUME ParserInv, UNCHANGED <<world, requests, pending, cut, client, crashed, forwarded>>
  PROVE  ParserInv'
<1>1. /\ KeepsText(0)' = KeepsText(0) /\ KeepsText(1)' = KeepsText(1)
      /\ EndsLine(pending)' = EndsLine(pending)
  BY DEF KeepsText, EndsLine
<1>2. Outstanding => Outstanding'
  BY DEF Outstanding
<1> QED  BY <1>1, <1>2 DEF ParserInv

-----------------------------------------------------------------------------
(* The numbers that stoi() reads.                                          *)

\* What stoi() makes of a text, with a value so far of -1 or a number.
WithDigit(n, d) == (IF n = -1 THEN 0 ELSE 10 * n) + d

BeginsWithDigit(r) == r.text # <<>> /\ r.text[1] \in ToSet(Digit)
BeginsBlank(r) == r.text # <<>> /\ r.n = -1 /\ r.text[1] \in {Space, CR, LF}
PastDigit(r) == [text |-> Tail(r.text), n |-> WithDigit(r.n, DigitOf(r.text[1]))]
PastBlank(r) == [text |-> Tail(r.text), n |-> -1]

ValueOf(r, f) ==
  IF BeginsWithDigit(r) THEN f[PastDigit(r)] ELSE IF BeginsBlank(r) THEN f[PastBlank(r)] ELSE r.n

\* The definition of Value.
Evaluates(f) ==
  f = [r \in Reading |->
         IF r.text # <<>> /\ r.text[1] \in ToSet(Digit)
         THEN f[[text |-> Tail(r.text),
                 n |-> (IF r.n = -1 THEN 0 ELSE 10 * r.n) + DigitOf(r.text[1])]]
         ELSE IF r.text # <<>> /\ r.n = -1 /\ r.text[1] \in {Space, CR, LF}
         THEN f[[text |-> Tail(r.text), n |-> -1]]
         ELSE r.n]

\* The digits stand for their numbers, and no end of a line is among them.
LEMMA DigitIs ==
  /\ Len(Digit) = 10
  /\ ToSet(Digit) \subseteq Char
  /\ \A d \in 0 .. 9 : Digit[d + 1] \in ToSet(Digit)
                       /\ DigitOf(Digit[d + 1]) = d
  /\ CR \notin ToSet(Digit) /\ LF \notin ToSet(Digit)
<1>1. Len(Digit) = 10 /\ ToSet(Digit) = {"0", "1", "2", "3", "4", "5", "6", "7", "8", "9"}
  <2>1. DOMAIN Digit = 1 .. 10
    BY DEF Digit
  <2>2. ToSet(Digit) = {Digit[i] : i \in 1 .. 10}
    BY <2>1 DEF ToSet
  <2>3. {Digit[i] : i \in 1 .. 10} = {"0", "1", "2", "3", "4", "5", "6", "7", "8", "9"}
    BY DEF Digit
  <2> QED  BY <2>2, <2>3 DEF Digit
<1>2. \A d, e \in 0 .. 9 : Digit[d + 1] = Digit[e + 1] => d = e
  BY DEF Digit
<1>3. \A d \in 0 .. 9 : Digit[d + 1] \in ToSet(Digit)
  BY <1>1 DEF Digit
<1>4. \A d \in 0 .. 9 : (CHOOSE e \in 0 .. 9 : Digit[d + 1] = Digit[e + 1]) = d
  BY <1>2
<1> QED  BY <1>1, <1>3, <1>4, CharAssumption DEF CR, LF, DigitOf

\* stoi() has less to read after each character.
LEMMA NextReading ==
  ASSUME NEW r \in Reading
  PROVE  /\ BeginsWithDigit(r) => PastDigit(r) \in Reading /\ Len(PastDigit(r).text) < Len(r.text)
         /\ BeginsBlank(r) => PastBlank(r) \in Reading /\ Len(PastBlank(r).text) < Len(r.text)
<1>1. ASSUME NEW text \in Seq(Char), text # <<>>
      PROVE  Tail(text) \in Seq(Char) /\ Len(Tail(text)) < Len(text)
  BY <1>1
<1>2. r.text \in Seq(Char) /\ r.n \in Nat \cup {-1}
  BY DEF Reading
<1>3. ASSUME BeginsWithDigit(r) PROVE PastDigit(r) \in Reading /\ Len(PastDigit(r).text) < Len(r.text)
  <2>1. PICK d \in 1 .. 10 : r.text[1] = Digit[d]
    BY <1>3, DigitIs DEF BeginsWithDigit, ToSet, Digit
  <2>2. d - 1 \in 0 .. 9 /\ r.text[1] = Digit[(d - 1) + 1]
    BY <2>1
  <2>3. DigitOf(r.text[1]) \in 0 .. 9
    BY <2>2 DEF DigitOf
  <2>4. WithDigit(r.n, DigitOf(r.text[1])) \in Nat \cup {-1}
    BY <1>2, <2>3 DEF WithDigit
  <2> QED  BY <1>1, <1>2, <1>3, <2>4 DEF BeginsWithDigit, PastDigit, Reading
<1>4. ASSUME BeginsBlank(r) PROVE PastBlank(r) \in Reading /\ Len(PastBlank(r).text) < Len(r.text)
  BY <1>1, <1>2, <1>4 DEF BeginsBlank, PastBlank, Reading
<1> QED  BY <1>3, <1>4

\* Value, which is defined recursively, is a function that follows its definition.
LEMMA ValueRule ==
  /\ Value \in [Reading -> Nat \cup {-1}]
  /\ \A r \in Reading : Value[r] = ValueOf(r, Value)
<1> DEFINE N == Nat \cup {-1}
           S == Reading
           m == [x \in S |-> Len(x.text)]
           G == [x \in S |-> [f \in [S -> N] |-> ValueOf(x, f)]]
<1>1. m \in [S -> Nat]
  BY DEF Reading
<1>2. ASSUME NEW x \in S, NEW f \in [S -> N] PROVE G[x][f] = ValueOf(x, f) /\ G[x][f] \in N
  <2>1. G[x][f] = ValueOf(x, f) /\ x.n \in N
    BY DEF Reading
  <2>2. ValueOf(x, f) \in N
    BY <2>1, NextReading DEF ValueOf
  <2> QED  BY <2>1, <2>2
<1>3. ASSUME NEW x \in S, NEW f \in [S -> N], NEW g \in [S -> N],
             \A y \in S : m[y] < m[x] => f[y] = g[y]
      PROVE  G[x][f] = G[x][g]
  <2>1. \A y \in S : Len(y.text) < Len(x.text) => f[y] = g[y]
    BY <1>3
  <2>2. ValueOf(x, f) = ValueOf(x, g)
    BY <2>1, NextReading DEF ValueOf
  <2>3. G[x][f] = ValueOf(x, f) /\ G[x][g] = ValueOf(x, g)
    BY <1>2
  <2> QED  BY <2>2, <2>3
<1>4. PICK f : Solves(f, G, S, N)
  <2> HIDE DEF G, m, S
  <2>1. 0 \in N
    OBVIOUS
  <2>2. Descends(G, S, N, m)
    BY <1>1, <1>2, <1>3 DEF Descends
  <2> QED  BY <2>1, <2>2, Recursion
<1>5. f \in [S -> N] /\ \A r \in S : f[r] = ValueOf(r, f)
  BY <1>2, <1>4 DEF Solves
<1>6. Evaluates(f)
  <2> DEFINE C(r, g) ==
         IF r.text # <<>> /\ r.text[1] \in ToSet(Digit)
         THEN g[[text |-> Tail(r.text),
                 n |-> (IF r.n = -1 THEN 0 ELSE 10 * r.n) + DigitOf(r.text[1])]]
         ELSE IF r.text # <<>> /\ r.n = -1 /\ r.text[1] \in {Space, CR, LF}
         THEN g[[text |-> Tail(r.text), n |-> -1]]
         ELSE r.n
  <2>1. \A r \in Reading : ValueOf(r, f) = C(r, f)
    BY DEF ValueOf, BeginsWithDigit, BeginsBlank, PastDigit, PastBlank, WithDigit
  <2>2. f = [r \in Reading |-> C(r, f)]
    <3> HIDE DEF C
    <3> QED  BY <1>5, <2>1
  <2> QED  BY <2>2 DEF Evaluates
<1> DEFINE h == CHOOSE h : Evaluates(h)
<1>7. Evaluates(h)
  BY <1>6
<1>8. Value = h
  BY DEF Value, Evaluates
<1> HIDE DEF h
<1>9. \A r \in Reading : h[r] = ValueOf(r, h)
  <2>1. ASSUME NEW r \in Reading PROVE h[r] = ValueOf(r, h)
    BY <1>7 DEF Evaluates, ValueOf, BeginsWithDigit, BeginsBlank, PastDigit, PastBlank, WithDigit
  <2> QED  BY <2>1
<1>10. h = [r \in Reading |-> h[r]]
  BY <1>7 DEF Evaluates
<1> DEFINE T == {k \in Nat : \A r \in Reading : Len(r.text) < k => h[r] = f[r]}
<1>11. \A r \in Reading : Len(r.text) \in Nat
  BY DEF Reading
<1>12. 0 \in T
  BY <1>11
<1>13. ASSUME NEW k \in Nat, k \in T PROVE k + 1 \in T
  <2>1. ASSUME NEW r \in Reading, Len(r.text) < k + 1 PROVE h[r] = f[r]
    <3>1. \A x \in Reading : Len(x.text) < Len(r.text) => h[x] = f[x]
      BY <1>11, <1>13, <2>1
    <3>2. ValueOf(r, h) = ValueOf(r, f)
      BY <3>1, NextReading DEF ValueOf
    <3> QED  BY <1>5, <1>9, <3>2
  <2> QED  BY <2>1
<1>14. Nat \subseteq T
  <2> HIDE DEF T
  <2> QED  BY <1>12, <1>13, EveryNumber
<1>15. \A r \in Reading : h[r] = f[r]
  <2>1. SUFFICES ASSUME NEW r \in Reading PROVE h[r] = f[r]
    OBVIOUS
  <2>2. Len(r.text) + 1 \in T /\ Len(r.text) < Len(r.text) + 1
    BY <1>11, <1>14
  <2> QED  BY <2>2
<1>16. h = f
  BY <1>5, <1>10, <1>15
<1> QED  BY <1>5, <1>8, <1>16

\* The number that Decimal() wrote is read again, whatever follows it.
LEMMA StoiDecimal ==
  ASSUME NEW n \in 0 .. 99, NEW rest \in Seq(Char), rest # <<>>, rest[1] \notin ToSet(Digit)
  PROVE  /\ Decimal(n) \in Seq(Char) /\ Len(Decimal(n)) \in 1 .. 2
         /\ \A i \in 1 .. Len(Decimal(n)) : Decimal(n)[i] # LF
         /\ Stoi(Decimal(n) \o rest) = n
<1>1. ASSUME NEW t \in Seq(Char), NEW d \in 0 .. 9, NEW k \in Nat \cup {-1}
      PROVE  LET r == [text |-> <<Digit[d + 1]>> \o t, n |-> k]
                 s == [text |-> t, n |-> (IF k = -1 THEN 0 ELSE 10 * k) + d]
             IN  r \in Reading /\ s \in Reading /\ Value[r] = Value[s]
  <2> DEFINE r == [text |-> <<Digit[d + 1]>> \o t, n |-> k]
             s == [text |-> t, n |-> (IF k = -1 THEN 0 ELSE 10 * k) + d]
  <2>1. Digit[d + 1] \in ToSet(Digit) /\ Digit[d + 1] \in Char /\ DigitOf(Digit[d + 1]) = d
    BY DigitIs
  <2>2. \A c \in Char : /\ <<c>> \o t \in Seq(Char) /\ Tail(<<c>> \o t) = t
                        /\ (<<c>> \o t)[1] = c /\ <<c>> \o t # <<>>
    OBVIOUS
  <2>3. (IF k = -1 THEN 0 ELSE 10 * k) + d \in Nat
    OBVIOUS
  <2>4. r \in Reading /\ s \in Reading
    BY <2>1, <2>2, <2>3 DEF Reading
  <2>5. BeginsWithDigit(r) /\ PastDigit(r) = s
    BY <2>1, <2>2 DEF BeginsWithDigit, PastDigit, WithDigit
  <2>6. Value[r] = Value[s]
    <3> HIDE DEF r, s
    <3> QED  BY <2>4, <2>5, ValueRule DEF ValueOf
  <2> QED  BY <2>4, <2>6
<1>2. ASSUME NEW k \in Nat PROVE Value[[text |-> rest, n |-> k]] = k
  <2> DEFINE r == [text |-> rest, n |-> k]
  <2>1. r \in Reading /\ ~ BeginsWithDigit(r) /\ ~ BeginsBlank(r) /\ r.n = k
    BY DEF Reading, BeginsWithDigit, BeginsBlank
  <2> HIDE DEF r
  <2>2. Value[r] = k
    BY <2>1, ValueRule DEF ValueOf
  <2> QED  BY <2>2 DEF r
<1>3. CASE n < 10
  <2>1. Decimal(n) = <<Digit[n + 1]>>
    BY <1>3 DEF Decimal
  <2>2. Digit[n + 1] \in Char /\ Digit[n + 1] # LF /\ n \in 0 .. 9
    BY <1>3, DigitIs
  <2>3. Stoi(<<Digit[n + 1]>> \o rest) = Value[[text |-> rest, n |-> n]]
    <3>1. (IF -1 = -1 THEN 0 ELSE 10 * (-1)) + n = n /\ -1 \in Nat \cup {-1}
      OBVIOUS
    <3>2. Value[[text |-> <<Digit[n + 1]>> \o rest, n |-> -1]]
            = Value[[text |-> rest, n |-> (IF -1 = -1 THEN 0 ELSE 10 * (-1)) + n]]
      BY <1>1, <2>2, <3>1
    <3> QED  BY <3>1, <3>2 DEF Stoi
  <2> QED  BY <1>2, <2>1, <2>2, <2>3
<1>4. CASE n >= 10
  <2> DEFINE a == n \div 10
             b == n % 10
             x == Digit[a + 1]
             y == Digit[b + 1]
  <2>1. Decimal(n) = <<x, y>>
    BY <1>4 DEF Decimal
  <2>2. a \in 0 .. 9 /\ b \in 0 .. 9 /\ 10 * a + b = n
    BY <1>4
  <2> HIDE DEF a, b
  <2>3. x \in Char /\ x # LF /\ y \in Char /\ y # LF
    BY <2>2, DigitIs
  <2>4. Value[[text |-> <<x>> \o (<<y>> \o rest), n |-> -1]] = Value[[text |-> <<y>> \o rest, n |-> a]]
    <3>1. (IF -1 = -1 THEN 0 ELSE 10 * (-1)) + a = a /\ -1 \in Nat \cup {-1} /\ a \in 0 .. 9
      BY <2>2
    <3>2. <<y>> \o rest \in Seq(Char)
      BY <2>3
    <3> HIDE DEF y
    <3>3. Value[[text |-> <<Digit[a + 1]>> \o (<<y>> \o rest), n |-> -1]]
            = Value[[text |-> <<y>> \o rest, n |-> (IF -1 = -1 THEN 0 ELSE 10 * (-1)) + a]]
      BY <1>1, <3>1, <3>2
    <3> QED  BY <3>1, <3>3
  <2>5. Value[[text |-> <<y>> \o rest, n |-> a]] = Value[[text |-> rest, n |-> n]]
    <3>1. (IF a = -1 THEN 0 ELSE 10 * a) + b = n /\ a \in Nat \cup {-1} /\ b \in 0 .. 9
      BY <2>2
    <3>2. Value[[text |-> <<Digit[b + 1]>> \o rest, n |-> a]]
            = Value[[text |-> rest, n |-> (IF a = -1 THEN 0 ELSE 10 * a) + b]]
      BY <1>1, <3>1
    <3> QED  BY <3>1, <3>2
  <2> HIDE DEF x, y
  <2>6. <<x, y>> \o rest = <<x>> \o (<<y>> \o rest)
    <3>1. ASSUME NEW p \in Char, NEW q \in Char PROVE <<p, q>> \o rest = <<p>> \o (<<q>> \o rest)
      <4> DEFINE u == <<p, q>> \o rest
                 v == <<p>> \o (<<q>> \o rest)
      <4>1. u \in Seq(Char) /\ v \in Seq(Char) /\ Len(u) = 2 + Len(rest) /\ Len(v) = 2 + Len(rest)
        OBVIOUS
      <4>2. \A i \in 1 .. Len(u) : u[i] = v[i]
        OBVIOUS
      <4> HIDE DEF u, v
      <4>3. u = v
        BY <4>1, <4>2
      <4> QED  BY <4>3 DEF u, v
    <3> QED  BY <2>3, <3>1
  <2>7. Stoi(<<x, y>> \o rest) = n
    <3>1. Value[[text |-> rest, n |-> n]] = n
      <4>1. n \in Nat
        OBVIOUS
      <4> QED  BY <1>2, <4>1
    <3>2. Stoi(<<x, y>> \o rest) = Value[[text |-> <<x, y>> \o rest, n |-> -1]]
      BY DEF Stoi
    <3>3. Stoi(<<x, y>> \o rest) = Value[[text |-> <<x>> \o (<<y>> \o rest), n |-> -1]]
      BY <2>6, <3>2
    <3> QED  BY <2>4, <2>5, <3>1, <3>3
  <2>8. <<x, y>> \in Seq(Char) /\ Len(<<x, y>>) = 2 /\ <<x, y>>[1] = x /\ <<x, y>>[2] = y
    BY <2>3
  <2> QED  BY <2>1, <2>3, <2>7, <2>8
<1> QED  BY <1>3, <1>4

-----------------------------------------------------------------------------
(* The words of a line.                                                    *)

Ends(c) == c \in {Space, CR}
End(line) == SelectInSeq(line, LAMBDA c : c \in {Space, CR})

\* End is the first place at which a word may end, or 0.
LEMMA EndIs ==
  ASSUME NEW line \in Seq(Char)
  PROVE  /\ End(line) \in 0 .. Len(line)
         /\ End(line) = 0 => \A i \in 1 .. Len(line) : ~ Ends(line[i])
         /\ End(line) # 0 => Ends(line[End(line)])
                             /\ \A i \in 1 .. End(line) - 1 : ~ Ends(line[i])
<1> DEFINE I == {i \in 1 .. Len(line) : line[i] \in {Space, CR}}
<1>1. End(line) = IF I # {} THEN Min(I) ELSE 0
  BY DEF End, SelectInSeq
<1>2. CASE I = {}
  BY <1>1, <1>2 DEF Ends
<1>3. CASE I # {}
  <2>1. Len(line) \in Nat /\ I \in SUBSET (0 .. Len(line))
    OBVIOUS
  <2>2. End(line) \in I /\ \A x \in I : End(line) <= x
    <3> HIDE DEF I
    <3>1. Min(I) \in I /\ \A x \in I : Min(I) <= x
      BY <1>3, <2>1, Smallest
    <3> QED  BY <1>1, <1>3, <3>1
  <2> QED  BY <2>2 DEF Ends
<1> QED  BY <1>2, <1>3

\* A word ends at the first place at which it may.
LEMMA EndAt ==
  ASSUME NEW line \in Seq(Char), NEW k \in 1 .. Len(line), Ends(line[k]),
         \A i \in 1 .. k - 1 : ~ Ends(line[i])
  PROVE  End(line) = k
<1>1. End(line) \in 0 .. Len(line) /\ Len(line) \in Nat
  BY EndIs
<1>2. End(line) # 0
  BY EndIs
<1>3. ~ (End(line) < k)
  BY <1>1, <1>2, EndIs
<1>4. ~ (k < End(line))
  BY <1>1, <1>2, EndIs
<1> QED  BY <1>1, <1>3, <1>4

WordsFrom(line, f) ==
  IF line = <<>> THEN <<>>
  ELSE IF End(line) = 0 THEN <<line>>
  ELSE IF End(line) = 1 /\ line[1] = Space THEN f[Tail(line)]
  ELSE <<SubSeq(line, 1, End(line) - 1)>> \o f[Erase(line, End(line))]

\* The definition of Words.
Splits(f) ==
  f = [line \in Seq(Char) |->
         LET end == SelectInSeq(line, LAMBDA c : c \in {Space, CR})
         IN IF line = <<>> THEN <<>>
            ELSE IF end = 0 THEN <<line>>
            ELSE IF end = 1 /\ line[1] = Space THEN f[Tail(line)]
            ELSE <<SubSeq(line, 1, end - 1)>> \o f[Erase(line, end)]]

\* The parser of lines has less to read after each word.
LEMMA Shorter ==
  ASSUME NEW line \in Seq(Char)
  PROVE  /\ line # <<>> => Tail(line) \in Seq(Char) /\ Len(Tail(line)) < Len(line)
         /\ End(line) # 0 => /\ SubSeq(line, 1, End(line) - 1) \in Seq(Char)
                             /\ Erase(line, End(line)) \in Seq(Char)
                             /\ Len(Erase(line, End(line))) < Len(line)
<1>1. End(line) \in 0 .. Len(line) /\ Len(line) \in Nat
  BY EndIs
<1>2. ASSUME NEW k \in 1 .. Len(line)
      PROVE  /\ SubSeq(line, 1, k - 1) \in Seq(Char)
             /\ SubSeq(line, k + 1, Len(line)) \in Seq(Char)
             /\ Len(SubSeq(line, k + 1, Len(line))) < Len(line)
  OBVIOUS
<1>3. line # <<>> => Tail(line) \in Seq(Char) /\ Len(Tail(line)) < Len(line)
  OBVIOUS
<1> QED  BY <1>1, <1>2, <1>3 DEF Erase

\* Words, which is defined recursively, is a function that follows its definition.
LEMMA WordsRule ==
  /\ Words \in [Seq(Char) -> Seq(Word)]
  /\ \A line \in Seq(Char) : Words[line] = WordsFrom(line, Words)
<1> DEFINE S == Seq(Char)
           V == Seq(Word)
           m == [x \in S |-> Len(x)]
           G == [x \in S |-> [f \in [S -> V] |-> WordsFrom(x, f)]]
<1>1. m \in [S -> Nat]
  OBVIOUS
<1>2. ASSUME NEW x \in S, NEW f \in [S -> V] PROVE G[x][f] = WordsFrom(x, f) /\ G[x][f] \in V
  <2>1. G[x][f] = WordsFrom(x, f)
    OBVIOUS
  <2>2. \A p \in Word, q \in V : <<p>> \in V /\ <<p>> \o q \in V
    OBVIOUS
  <2>3. <<>> \in V /\ x \in Word
    BY DEF Word
  <2>4. WordsFrom(x, f) \in V
    <3> HIDE DEF V
    <3>1. CASE x = <<>>
      BY <2>3, <3>1 DEF WordsFrom
    <3>2. CASE x # <<>> /\ End(x) = 0
      <4>1. WordsFrom(x, f) = <<x>>
        BY <3>2 DEF WordsFrom
      <4>2. <<x>> \in V
        BY <2>2, <2>3
      <4> QED  BY <4>1, <4>2
    <3>3. CASE x # <<>> /\ End(x) = 1 /\ x[1] = Space
      <4>1. f[Tail(x)] \in V
        BY <3>3, Shorter
      <4>2. WordsFrom(x, f) = f[Tail(x)]
        BY <3>3 DEF WordsFrom
      <4> QED  BY <4>1, <4>2
    <3>4. CASE x # <<>> /\ End(x) # 0 /\ ~ (End(x) = 1 /\ x[1] = Space)
      <4>1. SubSeq(x, 1, End(x) - 1) \in Word /\ Erase(x, End(x)) \in S
        BY <3>4, Shorter DEF Word
      <4>2. f[Erase(x, End(x))] \in V
        BY <4>1
      <4> HIDE DEF S
      <4>3. <<SubSeq(x, 1, End(x) - 1)>> \o f[Erase(x, End(x))] \in V
        BY <2>2, <4>1, <4>2
      <4> QED  BY <3>4, <4>3 DEF WordsFrom
    <3> QED  BY <3>1, <3>2, <3>3, <3>4
  <2> QED  BY <2>1, <2>4
<1>3. ASSUME NEW x \in S, NEW f, NEW g,
             \A y \in S : Len(y) < Len(x) => f[y] = g[y]
      PROVE  WordsFrom(x, f) = WordsFrom(x, g)
  <2>1. x # <<>> => f[Tail(x)] = g[Tail(x)]
    BY <1>3, Shorter
  <2>2. End(x) # 0 => f[Erase(x, End(x))] = g[Erase(x, End(x))]
    BY <1>3, Shorter
  <2> QED  BY <2>1, <2>2 DEF WordsFrom
<1>4. ASSUME NEW x \in S, NEW f \in [S -> V], NEW g \in [S -> V],
             \A y \in S : m[y] < m[x] => f[y] = g[y]
      PROVE  G[x][f] = G[x][g]
  <2>1. WordsFrom(x, f) = WordsFrom(x, g)
    BY <1>3, <1>4
  <2> QED  BY <1>2, <2>1
<1>5. PICK f : Solves(f, G, S, V)
  <2>1. <<>> \in V
    OBVIOUS
  <2> HIDE DEF G, m, S, V
  <2>2. Descends(G, S, V, m)
    BY <1>1, <1>2, <1>4 DEF Descends
  <2> QED  BY <2>1, <2>2, Recursion
<1>6. f \in [S -> V] /\ \A x \in S : f[x] = WordsFrom(x, f)
  <2> HIDE DEF G, S, V
  <2> QED  BY <1>2, <1>5 DEF Solves
<1>7. Splits(f)
  <2> DEFINE C(line, g) ==
         LET end == SelectInSeq(line, LAMBDA c : c \in {Space, CR})
         IN IF line = <<>> THEN <<>>
            ELSE IF end = 0 THEN <<line>>
            ELSE IF end = 1 /\ line[1] = Space THEN g[Tail(line)]
            ELSE <<SubSeq(line, 1, end - 1)>> \o g[Erase(line, end)]
  <2>1. \A line \in S : WordsFrom(line, f) = C(line, f)
    BY DEF WordsFrom, End
  <2>2. f = [line \in Seq(Char) |-> C(line, f)]
    <3> HIDE DEF C, V
    <3> QED  BY <1>6, <2>1
  <2> QED  BY <2>2 DEF Splits
<1> DEFINE h == CHOOSE h : Splits(h)
<1>8. Splits(h)
  BY <1>7
<1>9. Words = h
  BY DEF Words, Splits
<1> HIDE DEF h
<1>10. \A x \in S : h[x] = WordsFrom(x, h)
  <2>1. ASSUME NEW x \in S PROVE h[x] = WordsFrom(x, h)
    BY <1>8 DEF Splits, WordsFrom, End
  <2> QED  BY <2>1
<1>11. h = [x \in S |-> h[x]]
  BY <1>8 DEF Splits
<1> DEFINE T == {k \in Nat : \A x \in S : Len(x) < k => h[x] = f[x]}
<1>12. 0 \in T
  OBVIOUS
<1>13. ASSUME NEW k \in Nat, k \in T PROVE k + 1 \in T
  <2>1. ASSUME NEW x \in S, Len(x) < k + 1 PROVE h[x] = f[x]
    <3>1. \A y \in S : Len(y) < Len(x) => h[y] = f[y]
      BY <1>13, <2>1
    <3>2. WordsFrom(x, h) = WordsFrom(x, f)
      BY <1>3, <3>1
    <3> QED  BY <1>6, <1>10, <3>2
  <2> QED  BY <2>1
<1>14. Nat \subseteq T
  <2> HIDE DEF T
  <2> QED  BY <1>12, <1>13, EveryNumber
<1>15. ASSUME NEW x \in S PROVE h[x] = f[x]
  <2>1. Len(x) + 1 \in T /\ Len(x) < Len(x) + 1
    BY <1>14
  <2> QED  BY <2>1
<1>16. h = f
  <2> HIDE DEF S, V
  <2> QED  BY <1>6, <1>11, <1>15
<1> QED  BY <1>6, <1>9, <1>16

\* A space before a word is skipped.
LEMMA SkipSpace ==
  ASSUME NEW x \in Seq(Char)
  PROVE  <<Space>> \o x \in Seq(Char) /\ Words[<<Space>> \o x] = Words[x]
<1> DEFINE line == <<Space>> \o x
<1>1. ASSUME NEW c \in Char
      PROVE  /\ <<c>> \o x \in Seq(Char) /\ (<<c>> \o x)[1] = c /\ Tail(<<c>> \o x) = x
             /\ 1 \in 1 .. Len(<<c>> \o x) /\ <<c>> \o x # <<>>
  OBVIOUS
<1>2. Space \in Char
  BY CharAssumption
<1>3. line \in Seq(Char) /\ line[1] = Space /\ Tail(line) = x /\ 1 \in 1 .. Len(line) /\ line # <<>>
  BY <1>1, <1>2
<1> HIDE DEF line
<1>4. Ends(line[1])
  BY <1>3 DEF Ends
<1>5. End(line) = 1
  <2>1. End(line) # 0
    BY <1>3, <1>4, EndIs
  <2>2. 1 \notin 1 .. End(line) - 1
    BY <1>3, <1>4, <2>1, EndIs
  <2> QED  BY <1>3, <2>1, <2>2, EndIs
<1>6. Words[line] = Words[x]
  <2>1. Words[line] = WordsFrom(line, Words)
    BY <1>3, WordsRule
  <2>2. WordsFrom(line, Words) = Words[Tail(line)]
    BY <1>3, <1>5 DEF WordsFrom
  <2> QED  BY <1>3, <2>1, <2>2
<1> QED  BY <1>3, <1>6 DEF line

\* What has no end of a word in it is one word.
LEMMA LastWord ==
  ASSUME NEW w \in Word, Plain(w)
  PROVE  Words[w] = <<w>>
<1>1. w \in Seq(Char) /\ w # <<>> /\ \A i \in 1 .. Len(w) : ~ Ends(w[i])
  BY DEF Word, Plain, Ends
<1>2. End(w) = 0
  BY <1>1, EndIs
<1> QED  BY <1>1, <1>2, WordsRule DEF WordsFrom

\* A word is found before the next space, and the rest behind it.
LEMMA NextWord ==
  ASSUME NEW w \in Word, Plain(w), NEW c \in Char, Ends(c), NEW x \in Seq(Char)
  PROVE  w \o (<<c>> \o x) \in Seq(Char) /\ Words[w \o (<<c>> \o x)] = <<w>> \o Words[x]
<1> DEFINE line == w \o (<<c>> \o x)
           k == Len(w) + 1
<1>1. w \in Seq(Char) /\ Len(w) \in Nat /\ Len(w) >= 1 /\ \A i \in 1 .. Len(w) : ~ Ends(w[i])
  BY DEF Word, Plain, Ends
<1>2. /\ line \in Seq(Char) /\ Len(line) = k + Len(x) /\ Len(x) \in Nat
      /\ line[k] = c /\ \A i \in 1 .. Len(w) : line[i] = w[i]
      /\ \A i \in 1 .. Len(x) : line[k + i] = x[i]
  BY <1>1
<1>3. k \in 1 .. Len(line) /\ k # 1 /\ k # 0 /\ k - 1 = Len(w) /\ line # <<>>
  <2> HIDE DEF line
  <2> QED  BY <1>1, <1>2
<1> HIDE DEF line
<1>4. SubSeq(line, 1, k - 1) = w
  <2> DEFINE u == SubSeq(line, 1, k - 1)
  <2>1. u \in Seq(Char) /\ Len(u) = Len(w) /\ \A i \in 1 .. Len(w) : u[i] = w[i]
    BY <1>1, <1>2, <1>3
  <2> HIDE DEF u
  <2>2. u = w
    BY <1>1, <2>1
  <2> QED  BY <2>2 DEF u
<1>5. Erase(line, k) = x
  <2> DEFINE u == SubSeq(line, k + 1, Len(line))
  <2>1. u \in Seq(Char) /\ Len(u) = Len(x) /\ \A i \in 1 .. Len(x) : u[i] = x[i]
    BY <1>1, <1>2, <1>3
  <2> HIDE DEF u
  <2>2. u = x
    BY <2>1
  <2> QED  BY <2>2 DEF u, Erase
<1> HIDE DEF k
<1>6. End(line) = k
  BY <1>1, <1>2, <1>3, EndAt
<1>7. Words[line] = <<w>> \o Words[x]
  BY <1>2, <1>3, <1>4, <1>5, <1>6, WordsRule DEF WordsFrom
<1> QED  BY <1>2, <1>7 DEF line

\* What is behind the beginning of a text.
LEMMA EraseMore ==
  ASSUME NEW W, NEW full \in Seq(W), NEW a \in Seq(W), NEW q \in Seq(W),
         Len(a) + Len(q) <= Len(full),
         \A i \in 1 .. Len(q) : full[Len(a) + i] = q[i]
  PROVE  /\ Erase(full, Len(a) + Len(q)) \in Seq(W)
         /\ Erase(full, Len(a)) = q \o Erase(full, Len(a) + Len(q))
<1> DEFINE k == Len(a) + Len(q)
           r == SubSeq(full, k + 1, Len(full))
           u == SubSeq(full, Len(a) + 1, Len(full))
<1>1. k \in 0 .. Len(full) /\ Len(a) \in Nat /\ Len(q) \in Nat /\ Len(full) \in Nat
  OBVIOUS
<1>2. r \in Seq(W) /\ Len(r) = Len(full) - k /\ \A i \in 1 .. Len(r) : r[i] = full[k + i]
  <2>1. k \in Nat /\ k <= Len(full)
    BY <1>1
  <2> HIDE DEF k
  <2>2. r \in Seq(W)
    BY <1>1, <2>1
  <2>3. Len(r) = Len(full) - k
    BY <1>1, <2>1
  <2>4. \A i \in 1 .. Len(r) : r[i] = full[k + i]
    BY <1>1, <2>1, <2>3
  <2> QED  BY <2>2, <2>3, <2>4
<1>3. u \in Seq(W) /\ Len(u) = Len(full) - Len(a) /\ \A i \in 1 .. Len(u) : u[i] = full[Len(a) + i]
  BY <1>1
<1> HIDE DEF r, u
<1>4. q \o r \in Seq(W) /\ Len(q \o r) = Len(q) + Len(r)
      /\ (\A i \in 1 .. Len(q) : (q \o r)[i] = q[i])
      /\ \A i \in Len(q) + 1 .. Len(q) + Len(r) : (q \o r)[i] = r[i - Len(q)]
  BY <1>2
<1>5. ASSUME NEW i \in 1 .. Len(u) PROVE u[i] = (q \o r)[i]
  <2>1. CASE i <= Len(q)
    BY <1>1, <1>3, <1>4, <2>1
  <2>2. CASE i > Len(q)
    <3>1. i - Len(q) \in 1 .. Len(r) /\ k + (i - Len(q)) = Len(a) + i
      BY <1>1, <1>2, <1>3, <2>2
    <3>2. r[i - Len(q)] = full[Len(a) + i]
      BY <1>2, <3>1
    <3>3. i \in Len(q) + 1 .. Len(q) + Len(r)
      BY <1>1, <1>2, <1>3, <2>2
    <3>4. (q \o r)[i] = r[i - Len(q)]
      BY <1>4, <3>3
    <3>5. u[i] = full[Len(a) + i]
      BY <1>3
    <3> QED  BY <3>2, <3>4, <3>5
  <2>3. i <= Len(q) \/ i > Len(q)
    BY <1>1, <1>3
  <2> QED  BY <2>1, <2>2, <2>3
<1>6. Len(u) = Len(q \o r)
  BY <1>1, <1>2, <1>3, <1>4
<1> DEFINE v == q \o r
<1> HIDE DEF v
<1>7. u = v
  <2>1. u \in Seq(W) /\ v \in Seq(W) /\ Len(u) = Len(v)
    BY <1>3, <1>4, <1>6 DEF v
  <2>2. \A i \in 1 .. Len(u) : u[i] = v[i]
    BY <1>5 DEF v
  <2> QED  BY <2>1, <2>2
<1> QED  BY <1>2, <1>7 DEF Erase, r, u, v

\* The pieces of a text, followed by something.
Remains(p, t, k) == Erase(FlattenSeq(p) \o t, Len(FlattenSeq(Prefix(p, k))))

\* One piece more.
LEMMA RemainsOne ==
  ASSUME NEW W, NEW p \in Seq(Seq(W)), NEW t \in Seq(W), NEW k \in 1 .. Len(p), NEW o \in Nat,
         o < k, k <= o + 1
  PROVE  Remains(p, t, k) \in Seq(W) /\ Remains(p, t, o) = p[k] \o Remains(p, t, k)
<1> DEFINE L == FlattenSeq(p)
           a == FlattenSeq(Prefix(p, o))
           b == FlattenSeq(Prefix(p, k))
           q == p[k]
<1>1. b = a \o q /\ b \in Seq(W) /\ a \in Seq(W) /\ q \in Seq(W)
  BY JoinOneMore
<1>2. Len(p) \in Nat /\ Len(p) \in k .. Len(p) /\ k \in 0 .. Len(p) /\ Prefix(p, Len(p)) = p /\ Len(p) \in 0 .. Len(p)
  BY PrefixFacts
<1>3. L \in Seq(W)
  <2>1. FlattenSeq(Prefix(p, Len(p))) \in Seq(W)
    BY <1>2, JoinedPrefix
  <2> QED  BY <1>2, <2>1
<1>4. Len(b) <= Len(L) /\ \A i \in 1 .. Len(b) : L[i] = b[i]
  <2>1. LET c == FlattenSeq(Prefix(p, Len(p))) IN Len(b) <= Len(c) /\ \A i \in 1 .. Len(b) : c[i] = b[i]
    BY <1>2, JoinedBegins
  <2> QED  BY <1>2, <2>1
<1> HIDE DEF L, a, b, q
<1> DEFINE full == L \o t
<1>5. full \in Seq(W) /\ Len(a) + Len(q) = Len(b) /\ Len(b) <= Len(full)
      /\ \A i \in 1 .. Len(q) : full[Len(a) + i] = q[i]
  <2>1. full \in Seq(W) /\ Len(full) = Len(L) + Len(t) /\ \A i \in 1 .. Len(L) : full[i] = L[i]
    BY <1>3
  <2>2. Len(b) = Len(a) + Len(q) /\ \A i \in 1 .. Len(q) : b[Len(a) + i] = q[i]
    BY <1>1
  <2>3. Len(a) \in Nat /\ Len(q) \in Nat /\ Len(L) \in Nat /\ Len(t) \in Nat
    BY <1>1, <1>3
  <2>4. \A i \in 1 .. Len(q) : Len(a) + i \in 1 .. Len(b) /\ Len(a) + i \in 1 .. Len(L)
    BY <1>4, <2>2, <2>3
  <2>5. \A i \in 1 .. Len(q) : full[Len(a) + i] = q[i]
    <3> HIDE DEF full
    <3>1. SUFFICES ASSUME NEW i \in 1 .. Len(q) PROVE full[Len(a) + i] = q[i]
      OBVIOUS
    <3>2. full[Len(a) + i] = L[Len(a) + i] /\ L[Len(a) + i] = b[Len(a) + i]
      BY <1>4, <2>1, <2>4
    <3> QED  BY <2>2, <3>2
  <2>6. Len(b) <= Len(full)
    <3> HIDE DEF full
    <3>1. Len(b) \in Nat
      BY <1>1
    <3> QED  BY <1>4, <2>1, <2>3, <3>1
  <2> QED  BY <2>1, <2>2, <2>5, <2>6
<1> HIDE DEF full
<1>6. Erase(full, Len(a) + Len(q)) \in Seq(W)
      /\ Erase(full, Len(a)) = q \o Erase(full, Len(a) + Len(q))
  <2>1. Len(a) + Len(q) <= Len(full) /\ \A i \in 1 .. Len(q) : full[Len(a) + i] = q[i]
    BY <1>5
  <2>2. full \in Seq(W) /\ a \in Seq(W) /\ q \in Seq(W)
    BY <1>1, <1>5
  <2> QED  BY <2>1, <2>2, EraseMore
<1>7. Erase(full, Len(b)) \in Seq(W) /\ Erase(full, Len(a)) = q \o Erase(full, Len(b))
  BY <1>5, <1>6
<1> QED  BY <1>7 DEF Remains, full, L, a, b, q

\* Before the first piece, and behind the last.
LEMMA RemainsEnds ==
  ASSUME NEW W, NEW p \in Seq(Seq(W)), NEW t \in Seq(W)
  PROVE  /\ FlattenSeq(p) \in Seq(W)
         /\ Remains(p, t, 0) = FlattenSeq(p) \o t
         /\ Remains(p, t, Len(p)) = t
<1> DEFINE L == FlattenSeq(p)
<1>1. Prefix(p, Len(p)) = p /\ Len(p) \in 0 .. Len(p) /\ 0 \in 0 .. Len(p)
  BY PrefixFacts
<1>2. L \in Seq(W) /\ FlattenSeq(Prefix(p, Len(p))) = L
  <2>1. FlattenSeq(Prefix(p, Len(p))) \in Seq(W)
    BY <1>1, JoinedPrefix
  <2> QED  BY <1>1, <2>1
<1>3. FlattenSeq(Prefix(p, 0)) = <<>>
  BY <1>1, JoinedPrefix
<1> HIDE DEF L
<1>4. ASSUME NEW u \in Seq(W) PROVE SubSeq(u, 0 + 1, Len(u)) = u
  OBVIOUS
<1>5. Remains(p, t, 0) = L \o t
  <2>1. L \o t \in Seq(W) /\ Len(<<>>) = 0
    BY <1>2
  <2>2. Erase(L \o t, 0) = L \o t
    BY <1>4, <2>1 DEF Erase
  <2> QED  BY <1>3, <2>1, <2>2 DEF Remains, L
<1>6. Erase(L \o t, Len(L)) = t
  <2> DEFINE u == SubSeq(L \o t, Len(L) + 1, Len(L \o t))
  <2>1. u \in Seq(W) /\ Len(u) = Len(t) /\ \A i \in 1 .. Len(t) : u[i] = t[i]
    BY <1>2
  <2> HIDE DEF u
  <2>2. u = t
    BY <2>1
  <2> QED  BY <2>2 DEF u, Erase
<1> QED  BY <1>2, <1>5, <1>6 DEF Remains, L

Pieces(words) == [i \in 1 .. Len(words) |-> <<Space>> \o words[i]]

\* The pieces of a line are texts.
LEMMA PiecesTyped ==
  ASSUME NEW W, Space \in W, NEW words \in Seq(Seq(W))
  PROVE  /\ Pieces(words) \in Seq(Seq(W)) /\ Len(Pieces(words)) = Len(words)
         /\ \A i \in 1 .. Len(words) : Pieces(words)[i] = <<Space>> \o words[i]
<1>1. \A c \in W, x \in Seq(W) : <<c>> \o x \in Seq(W)
  OBVIOUS
<1>2. \A i \in 1 .. Len(words) : <<Space>> \o words[i] \in Seq(W)
  <2>1. \A i \in 1 .. Len(words) : words[i] \in Seq(W)
    OBVIOUS
  <2> QED  BY <1>1, <2>1
<1>3. ASSUME NEW V, NEW n \in Nat, NEW f \in [1 .. n -> V] PROVE f \in Seq(V) /\ Len(f) = n
  OBVIOUS
<1>4. Pieces(words) \in [1 .. Len(words) -> Seq(W)]
  BY <1>2 DEF Pieces
<1>5. Len(words) \in Nat
  OBVIOUS
<1>6. \A i \in 1 .. Len(words) : Pieces(words)[i] = <<Space>> \o words[i]
  BY DEF Pieces
<1> QED  BY <1>3, <1>4, <1>5, <1>6

\* The words of what is left of a line after k of its words.
LEMMA LineStep ==
  ASSUME NEW words \in Seq(Word), \A i \in 1 .. Len(words) : Plain(words[i]),
         NEW t \in {<<>>, <<CR>>}, NEW k \in 1 .. Len(words), NEW o \in Nat, o < k, k <= o + 1
  PROVE  Words[Remains(Pieces(words), t, o)] =
           IF k = Len(words) THEN <<words[k]>> ELSE <<words[k]>> \o Words[Remains(Pieces(words), t, k)]
<1> DEFINE p == Pieces(words)
           R(i) == Remains(p, t, i)
<1>1. words[k] \in Word /\ words[k] \in Seq(Char) /\ Plain(words[k]) /\ Len(words) \in Nat
  BY DEF Word
<1>2. Space \in Char /\ CR \in Char /\ Ends(Space) /\ Ends(CR)
  BY CharAssumption DEF Ends
<1>3. p \in Seq(Seq(Char)) /\ Len(p) = Len(words) /\ \A i \in 1 .. Len(words) : p[i] = <<Space>> \o words[i]
  <2>1. words \in Seq(Seq(Char))
    BY DEF Word
  <2>2. Space \in Char
    BY <1>2
  <2> QED  BY <2>1, <2>2, PiecesTyped
<1>4. t \in Seq(Char)
  <2>1. <<>> \in Seq(Char) /\ <<CR>> \in Seq(Char)
    BY <1>2
  <2> QED  BY <2>1
<1> HIDE DEF p
<1>5. R(k) \in Seq(Char) /\ R(o) = p[k] \o R(k)
  <2>1. k \in 1 .. Len(p)
    BY <1>3
  <2> QED  BY <1>3, <1>4, <2>1, RemainsOne
<1>6. Words[R(o)] = Words[words[k] \o R(k)]
  <2>2. R(o) = (<<Space>> \o words[k]) \o R(k)
    BY <1>3, <1>5
  <2>3. words[k] \in Seq(Char) /\ R(k) \in Seq(Char) /\ Space \in Char
    BY <1>1, <1>2, <1>5
  <2> HIDE DEF R
  <2> DEFINE x == words[k]
             y == R(k)
             c == Space
  <2>4. R(o) = (<<c>> \o x) \o y /\ x \in Seq(Char) /\ y \in Seq(Char) /\ c \in Char
    BY <2>2, <2>3
  <2> HIDE DEF x, y, c
  <2>5. (<<c>> \o x) \o y = <<c>> \o (x \o y) /\ x \o y \in Seq(Char)
    BY <2>4, ConsJoined
  <2>6. R(o) = <<c>> \o (x \o y)
    BY <2>4, <2>5
  <2>7. Words[<<Space>> \o (x \o y)] = Words[x \o y]
    BY <2>5, SkipSpace
  <2> QED  BY <2>6, <2>7 DEF x, y, c
<1>7. CASE k # Len(words)
  <2> DEFINE n == k + 1
  <2>1. n \in 1 .. Len(words) /\ k < n /\ n <= k + 1 /\ k \in Nat
    BY <1>1, <1>7
  <2> HIDE DEF n
  <2>2. R(n) \in Seq(Char) /\ R(k) = p[n] \o R(n)
    <3>1. n \in 1 .. Len(p)
      BY <1>3, <2>1
    <3> QED  BY <1>3, <1>4, <2>1, <3>1, RemainsOne
  <2>3. words[n] \in Seq(Char)
    BY <2>1 DEF Word
  <2> DEFINE y == words[n] \o R(n)
  <2>5. y \in Seq(Char) /\ R(k) = <<Space>> \o y
    <3>1. R(k) = (<<Space>> \o words[n]) \o R(n)
      BY <1>3, <2>1, <2>2
    <3>2. R(n) \in Seq(Char) /\ Space \in Char
      BY <1>2, <2>2
    <3> DEFINE x == words[n]
               z == R(n)
               c == Space
    <3>3. R(k) = (<<c>> \o x) \o z /\ x \in Seq(Char) /\ z \in Seq(Char) /\ c \in Char
      BY <2>3, <3>1, <3>2
    <3> HIDE DEF x, z, c, R
    <3>4. (<<c>> \o x) \o z = <<c>> \o (x \o z) /\ x \o z \in Seq(Char)
      BY <3>3, ConsJoined
    <3>5. R(k) = <<c>> \o (x \o z)
      BY <3>3, <3>4
    <3> QED  BY <3>4, <3>5 DEF x, z, c
  <2> HIDE DEF y, R
  <2>6. Words[words[k] \o R(k)] = <<words[k]>> \o Words[y]
    <3>1. words[k] \o R(k) = words[k] \o (<<Space>> \o y)
      BY <2>5
    <3>2. Words[words[k] \o (<<Space>> \o y)] = <<words[k]>> \o Words[y]
      BY <1>1, <1>2, <2>5, NextWord
    <3> QED  BY <3>1, <3>2
  <2>7. Words[R(k)] = Words[y]
    BY <2>5, SkipSpace
  <2>8. Words[R(o)] = <<words[k]>> \o Words[R(k)]
    BY <1>6, <2>6, <2>7
  <2> QED  BY <1>7, <2>8 DEF R, p
<1>8. CASE k = Len(words)
  <2>1. R(k) = t
    BY <1>3, <1>4, <1>8, RemainsEnds
  <2> HIDE DEF R
  <2>2. CASE t = <<>>
    <3>1. words[k] \o <<>> = words[k]
      BY <1>1
    <3> QED  BY <1>1, <1>6, <1>8, <2>1, <2>2, <3>1, LastWord DEF R, p
  <2>3. CASE t = <<CR>>
    <3>1. <<CR>> = <<CR>> \o <<>> /\ <<>> \in Seq(Char)
      BY <1>2
    <3>2. Words[words[k] \o (<<CR>> \o <<>>)] = <<words[k]>> \o Words[<<>>]
      BY <1>1, <1>2, <3>1, NextWord
    <3>3. Words[<<>>] = <<>>
      BY <3>1, WordsRule DEF WordsFrom
    <3>4. <<words[k]>> \o <<>> = <<words[k]>>
      BY <1>1
    <3>5. Words[R(o)] = <<words[k]>>
      BY <1>6, <2>1, <2>3, <3>1, <3>2, <3>3, <3>4
    <3> QED  BY <1>8, <3>5 DEF R, p
  <2> QED  BY <2>2, <2>3
<1> QED  BY <1>7, <1>8

\* The words of a line are those that were written.
LEMMA LineWords ==
  ASSUME NEW words \in Seq(Word), words # <<>>, \A i \in 1 .. Len(words) : Plain(words[i]),
         NEW t \in {<<>>, <<CR>>}
  PROVE  LET L == FlattenSeq(Pieces(words)) IN
         /\ Tail(L) \in Seq(Char \ {LF}) /\ Tail(L) # <<>> /\ Tail(L)[1] = words[1][1]
         /\ Words[Tail(L) \o t] = words
<1> DEFINE p == Pieces(words)
           L == FlattenSeq(p)
           R(i) == Remains(p, t, i)
           n == Len(words)
<1>1. Space \in Char \ {LF} /\ Space \in Char /\ CR \in Char /\ t \in Seq(Char)
  <2>1. Space # LF
    BY DEF Space, LF
  <2>2. Space \in Char /\ CR \in Char
    BY CharAssumption
  <2>3. <<>> \in Seq(Char) /\ <<CR>> \in Seq(Char)
    BY <2>2
  <2> QED  BY <2>1, <2>2, <2>3
<1>2. n \in Nat /\ n >= 1 /\ \A i \in 1 .. n : words[i] \in Word
  OBVIOUS
<1>3. \A i \in 1 .. n : words[i] \in Seq(Char) /\ words[i] # <<>>
                        /\ words[i] \in Seq(Char \ {LF})
  <2>1. ASSUME NEW w \in Seq(Char), \A i \in 1 .. Len(w) : w[i] # LF PROVE w \in Seq(Char \ {LF})
    BY <2>1
  <2> QED  BY <1>2, <2>1 DEF Plain, Word
<1>4. p \in Seq(Seq(Char \ {LF})) /\ p \in Seq(Seq(Char)) /\ Len(p) = n
      /\ \A i \in 1 .. n : p[i] = <<Space>> \o words[i]
  <2>1. words \in Seq(Seq(Char \ {LF}))
    <3>1. ASSUME NEW V, \A i \in 1 .. Len(words) : words[i] \in V PROVE words \in Seq(V)
      BY <3>1
    <3> QED  BY <1>3, <3>1
  <2>2. words \in Seq(Seq(Char))
    BY DEF Word
  <2>3. p \in Seq(Seq(Char \ {LF}))
    BY <1>1, <2>1, PiecesTyped
  <2> QED  BY <1>1, <2>2, <2>3, PiecesTyped
<1> HIDE DEF p
<1>5. L \in Seq(Char \ {LF}) /\ L \in Seq(Char)
  BY <1>1, <1>4, RemainsEnds
<1>6. L \o t = R(0) /\ L = Remains(p, <<>>, 0)
  <2>1. L \o <<>> = L
    BY <1>5
  <2>2. <<>> \in Seq(Char)
    OBVIOUS
  <2>3. Remains(p, t, 0) = L \o t
    BY <1>1, <1>4, RemainsEnds
  <2>4. Remains(p, <<>>, 0) = L \o <<>>
    BY <1>4, <2>2, RemainsEnds
  <2> QED  BY <2>1, <2>3, <2>4
<1>7. PICK r \in Seq(Char) : L = (<<Space>> \o words[1]) \o r
  <2>1. <<>> \in Seq(Char) /\ 1 \in 1 .. Len(p) /\ 0 < 1 /\ 1 <= 0 + 1 /\ 0 \in Nat
    BY <1>2, <1>4
  <2> DEFINE e == <<>>
  <2>2. e \in Seq(Char)
    OBVIOUS
  <2> DEFINE k == 1
             o == 0
  <2>5. p \in Seq(Seq(Char)) /\ k \in 1 .. Len(p) /\ o \in Nat /\ o < k /\ k <= o + 1
    BY <1>4, <2>1
  <2> HIDE DEF e, k, o
  <2>6. Remains(p, e, k) \in Seq(Char) /\ Remains(p, e, o) = p[k] \o Remains(p, e, k)
    BY <2>2, <2>5, RemainsOne
  <2>3. Remains(p, e, 1) \in Seq(Char) /\ Remains(p, e, 0) = p[1] \o Remains(p, e, 1)
    BY <2>6 DEF k, o
  <2>4. p[1] = <<Space>> \o words[1] /\ L = Remains(p, e, 0)
    BY <1>2, <1>4, <1>6 DEF e
  <2> HIDE DEF L
  <2> QED  BY <2>3, <2>4
<1> HIDE DEF L
<1>8. Len(L) >= 2 /\ L[1] = Space /\ L[2] = words[1][1]
  <2>1. ASSUME NEW c \in Char, NEW w \in Seq(Char), w # <<>>
        PROVE  LET u == (<<c>> \o w) \o r IN Len(u) >= 2 /\ u[1] = c /\ u[2] = w[1]
    BY <2>1
  <2>2. 1 \in 1 .. n
    BY <1>2
  <2>3. words[1] \in Seq(Char) /\ words[1] # <<>>
    BY <1>3, <2>2
  <2>4. LET u == (<<Space>> \o words[1]) \o r
        IN Len(u) >= 2 /\ u[1] = Space /\ u[2] = words[1][1]
    BY <1>1, <2>1, <2>3
  <2> QED  BY <1>7, <2>4
<1>9. Tail(L) \in Seq(Char \ {LF}) /\ Tail(L) \in Seq(Char) /\ Tail(L) # <<>> /\ Tail(L)[1] = L[2]
  <2>1. ASSUME NEW V, NEW u \in Seq(V), Len(u) >= 2
        PROVE  Tail(u) \in Seq(V) /\ Tail(u) # <<>> /\ Tail(u)[1] = u[2]
    <3>1. u # <<>> /\ Len(u) \in Nat
      BY <2>1
    <3>2. Tail(u) \in Seq(V) /\ Len(Tail(u)) = Len(u) - 1
      BY <3>1
    <3>3. \A i \in 1 .. Len(u) - 1 : Tail(u)[i] = u[i + 1]
      BY <3>1
    <3>4. 1 \in 1 .. Len(u) - 1 /\ 1 + 1 = 2
      BY <2>1, <3>1
    <3>5. Tail(u) # <<>>
      <4> DEFINE w == Tail(u)
      <4>1. w \in Seq(V) /\ Len(w) >= 1
        BY <2>1, <3>1, <3>2
      <4> HIDE DEF w
      <4>2. w # <<>>
        BY <4>1
      <4> QED  BY <4>2 DEF w
    <3> QED  BY <3>2, <3>3, <3>4, <3>5
  <2> QED  BY <1>5, <1>8, <2>1
<1>10. L \o t = <<Space>> \o (Tail(L) \o t)
  <2>1. L = <<Space>> \o Tail(L)
    BY <1>5, <1>8
  <2>2. Space \in Char /\ Tail(L) \in Seq(Char) /\ t \in Seq(Char)
    BY <1>1, <1>9
  <2>3. (<<Space>> \o Tail(L)) \o t = <<Space>> \o (Tail(L) \o t)
    BY <2>2, ConsJoined
  <2> QED  BY <2>1, <2>3
<1>11. Words[R(0)] = Words[Tail(L) \o t]
  <2>1. Tail(L) \o t \in Seq(Char)
    BY <1>1, <1>9
  <2> QED  BY <1>6, <1>10, <2>1, SkipSpace
<1> DEFINE Good(k) == Words[R(0)] = Prefix(words, k) \o Words[R(k)]
           T == {k \in Nat : k < n => Good(k)}
<1> HIDE DEF R, n
<1>12. ASSUME NEW k \in Nat, k < n PROVE Words[R(k)] \in Seq(Word)
  <2> DEFINE m == k + 1
  <2>1. m \in 1 .. Len(words) /\ k < m /\ m <= k + 1
    BY <1>2, <1>12 DEF n
  <2> HIDE DEF m
  <2>2. Remains(p, t, m) \in Seq(Char) /\ R(k) = p[m] \o Remains(p, t, m)
    <3>1. m \in 1 .. Len(p)
      BY <1>4, <2>1 DEF n
    <3>2. p \in Seq(Seq(Char)) /\ t \in Seq(Char)
      BY <1>1, <1>4
    <3>3. Remains(p, t, m) \in Seq(Char) /\ Remains(p, t, k) = p[m] \o Remains(p, t, m)
      <4>1. m \in 1 .. Len(p) /\ k \in Nat /\ k < m /\ m <= k + 1
        BY <2>1, <3>1
      <4> QED  BY <3>2, <4>1, RemainsOne
    <3> QED  BY <3>3 DEF R
  <2>3. p[m] \in Seq(Char)
    BY <1>4, <2>1 DEF n
  <2>4. R(k) \in Seq(Char)
    BY <2>2, <2>3
  <2> QED  BY <2>4, WordsRule
<1>13. ASSUME NEW k \in Nat, k < n
       PROVE  LET m == k + 1 IN
              /\ m \in 1 .. n
              /\ Words[R(k)] = IF m = n THEN <<words[m]>> ELSE <<words[m]>> \o Words[R(m)]
  <2> DEFINE m == k + 1
  <2>1. m \in 1 .. Len(words) /\ k < m /\ m <= k + 1
    BY <1>2, <1>13 DEF n
  <2> HIDE DEF m
  <2>2. Words[R(k)] = IF m = n THEN <<words[m]>> ELSE <<words[m]>> \o Words[R(m)]
    BY <2>1, LineStep DEF R, p, n
  <2> QED  BY <2>1, <2>2 DEF m, n
<1>14. \A k \in 0 .. n - 1 : Prefix(words, k) \o <<words[k + 1]>> = Prefix(words, k + 1)
  <2> SUFFICES ASSUME NEW k \in 0 .. n - 1 PROVE Prefix(words, k) \o <<words[k + 1]>> = Prefix(words, k + 1)
    OBVIOUS
  <2>1. k \in 0 .. Len(words) /\ k + 1 \in 0 .. Len(words) /\ words[k + 1] \in Word
    BY <1>2 DEF n
  <2> DEFINE u == Prefix(words, k)
             v == Prefix(words, k + 1)
             w == u \o <<words[k + 1]>>
  <2>2. u \in Seq(Word) /\ Len(u) = k /\ \A i \in 1 .. k : u[i] = words[i]
    BY <2>1, PrefixFacts
  <2>3. v \in Seq(Word) /\ Len(v) = k + 1 /\ \A i \in 1 .. k + 1 : v[i] = words[i]
    BY <2>1, PrefixFacts
  <2> HIDE DEF u, v
  <2>4. w \in Seq(Word) /\ Len(w) = k + 1 /\ \A i \in 1 .. k + 1 : w[i] = words[i]
    BY <2>1, <2>2
  <2> HIDE DEF w
  <2>5. w = v
    BY <2>3, <2>4
  <2> QED  BY <2>5 DEF u, v, w
<1>15. 0 \in T
  <2>1. 0 < n => Words[R(0)] \in Seq(Word)
    BY <1>12
  <2>2. Prefix(words, 0) = <<>>
    BY PrefixFacts, <1>2 DEF n
  <2>3. ASSUME NEW x \in Seq(Word) PROVE <<>> \o x = x
    OBVIOUS
  <2> QED  BY <2>1, <2>2, <2>3
<1>16. ASSUME NEW k \in Nat, k \in T PROVE k + 1 \in T
  <2> SUFFICES ASSUME k + 1 < n PROVE Good(k + 1)
    <3> HIDE DEF Good
    <3> QED  OBVIOUS
  <2> DEFINE m == k + 1
  <2>1. k < n /\ m # n /\ m \in Nat /\ m < n /\ k \in 0 .. n - 1 /\ k \in 0 .. Len(words)
    BY <1>2 DEF n
  <2>2. Words[R(0)] = Prefix(words, k) \o Words[R(k)]
    BY <1>16, <2>1
  <2>3. Words[R(k)] = <<words[m]>> \o Words[R(m)] /\ words[m] \in Word
    <3>1. m \in 1 .. n /\ Words[R(k)] = IF m = n THEN <<words[m]>> ELSE <<words[m]>> \o Words[R(m)]
      BY <1>13, <2>1
    <3>2. words[m] \in Word
      BY <1>2, <3>1 DEF n
    <3> QED  BY <2>1, <3>1, <3>2
  <2>4. Words[R(m)] \in Seq(Word)
    BY <1>12, <2>1
  <2>5. Prefix(words, k) \in Seq(Word) /\ Prefix(words, k) \o <<words[m]>> = Prefix(words, m)
    BY <1>14, <2>1, PrefixFacts
  <2> HIDE DEF m
  <2>6. ASSUME NEW x \in Seq(Word), NEW w \in Word, NEW y \in Seq(Word)
        PROVE  x \o (<<w>> \o y) = (x \o <<w>>) \o y
    <3> DEFINE u == x \o (<<w>> \o y)
               v == (x \o <<w>>) \o y
    <3>1. u \in Seq(Word) /\ v \in Seq(Word) /\ Len(u) = Len(x) + 1 + Len(y) /\ Len(v) = Len(x) + 1 + Len(y)
      OBVIOUS
    <3>2. \A i \in 1 .. Len(u) : u[i] = v[i]
      OBVIOUS
    <3> HIDE DEF u, v
    <3>3. u = v
      BY <3>1, <3>2
    <3> QED  BY <3>3 DEF u, v
  <2> DEFINE a == Prefix(words, k)
             y == Words[R(m)]
             w == words[m]
  <2>7. a \in Seq(Word) /\ y \in Seq(Word) /\ w \in Word /\ Words[R(0)] = a \o (<<w>> \o y)
        /\ a \o <<w>> = Prefix(words, m)
    BY <2>2, <2>3, <2>4, <2>5
  <2> HIDE DEF a, y, w
  <2>9. a \o (<<w>> \o y) = (a \o <<w>>) \o y
    BY <2>6, <2>7
  <2>8. Words[R(0)] = Prefix(words, m) \o y
    BY <2>7, <2>9
  <2> QED  BY <2>8 DEF m, y
<1>17. Nat \subseteq T
  <2> HIDE DEF T
  <2> QED  BY <1>15, <1>16, EveryNumber
<1>18. Words[R(0)] = words
  <2> DEFINE k == n - 1
  <2>1. k \in Nat /\ k < n /\ k + 1 = n /\ k \in 0 .. n - 1
    BY <1>2 DEF n
  <2>2. k \in T
    <3> HIDE DEF T, k
    <3> QED  BY <1>17, <2>1
  <2>3. Words[R(0)] = Prefix(words, k) \o Words[R(k)]
    BY <2>1, <2>2
  <2>4. Words[R(k)] = <<words[k + 1]>>
    <3> HIDE DEF k
    <3> QED  BY <1>13, <2>1
  <2>5. Prefix(words, k + 1) = words
    <3>1. Prefix(words, Len(words)) = words
      BY PrefixFacts, <1>2 DEF n
    <3> QED  BY <2>1, <3>1 DEF n
  <2> HIDE DEF k
  <2> QED  BY <1>14, <2>1, <2>3, <2>4, <2>5
<1> QED  BY <1>8, <1>9, <1>11, <1>18 DEF L, p

-----------------------------------------------------------------------------
(* Reading into the buffer, and finding in it.                             *)

\* What read() makes of the buffer: what was read, and something that was
\* there before, or zeros.
LEMMA StoredIs ==
  ASSUME NEW Q, NUL \in Q, NEW W, Q \subseteq W, NEW old \in Seq(Q), NEW t \in Seq(W)
  PROVE  \E r \in Seq(Q) : Stored(old, t) = t \o r
<1> DEFINE e == Erase(old, Len(t))
           k == Min({Len(old), Len(t)})
           z == [i \in 1 .. k |-> NUL]
<1>1. Len(old) \in Nat /\ Len(t) \in Nat
  OBVIOUS
<1>2. k \in Nat
  BY <1>1, MinTwo
<1> HIDE DEF k
<1>3. z \in Seq(Q)
  BY <1>2
<1>4. e \in Seq(Q)
  BY <1>1 DEF Erase
<1> HIDE DEF e, z
<1>5. e \o z \in Seq(Q)
  BY <1>3, <1>4
<1>6. t \o e \o z = t \o (e \o z)
  <2>1. e \in Seq(W) /\ z \in Seq(W)
    BY <1>3, <1>4
  <2> DEFINE u == (t \o e) \o z
             v == t \o (e \o z)
  <2>2. u \in Seq(W) /\ v \in Seq(W) /\ Len(u) = Len(t) + Len(e) + Len(z) /\ Len(v) = Len(t) + Len(e) + Len(z)
    BY <2>1
  <2>3. \A i \in 1 .. Len(u) : u[i] = v[i]
    BY <2>1
  <2> HIDE DEF u, v
  <2>4. u = v
    BY <2>2, <2>3
  <2> QED  BY <2>4 DEF u, v
<1> QED  BY <1>5, <1>6 DEF Stored, e, z, k

\* What is left of a text without its beginning.
LEMMA BehindJoined ==
  ASSUME NEW W, NEW h \in Seq(W), NEW r \in Seq(W)
  PROVE  Erase(h \o r, Len(h)) = r
<1> DEFINE u == SubSeq(h \o r, Len(h) + 1, Len(h \o r))
<1>1. u \in Seq(W) /\ Len(u) = Len(r) /\ \A i \in 1 .. Len(r) : u[i] = r[i]
  OBVIOUS
<1> HIDE DEF u
<1>2. u = r
  BY <1>1
<1> QED  BY <1>2 DEF u, Erase

\* find() finds the first line feed ...
LEMMA FindAt ==
  ASSUME NEW text \in Seq(Char), NEW from \in Nat, NEW k \in from + 1 .. Len(text),
         text[k] = LF, \A i \in from + 1 .. k - 1 : text[i] # LF
  PROVE  Find(text, from) = k - 1
<1> DEFINE S == {i \in from + 1 .. Len(text) : text[i] = LF}
           n == Len(text)
<1>1. n \in Nat /\ S \in SUBSET (0 .. n) /\ k \in S /\ S # {} /\ k \in Int /\ \A i \in S : i \in Int
  OBVIOUS
<1>2. \A i \in S : k <= i
  OBVIOUS
<1>3. Find(text, from) = IF S = {} THEN -1 ELSE Min(S) - 1
  BY DEF Find
<1> HIDE DEF S, n
<1>4. Min(S) \in S /\ \A x \in S : Min(S) <= x
  BY <1>1, Smallest
<1>5. Min(S) \in Int
  BY <1>1, <1>4
<1>6. Min(S) = k
  BY <1>1, <1>2, <1>4, <1>5
<1> QED  BY <1>1, <1>3, <1>6

\* ... and says if there is none.
LEMMA FindNone ==
  ASSUME NEW text \in Seq(Char \ {LF})
  PROVE  Find(text, 0) = -1
<1>1. {i \in 0 + 1 .. Len(text) : text[i] = LF} = {}
  OBVIOUS
<1> QED  BY <1>1 DEF Find

-----------------------------------------------------------------------------
(* The parser, and lines.                                                  *)

\* A parser.
Rec(buff, type, pos, cnt, len, words) ==
  [queryBuff |-> buff, qryType |-> type, qry_pos |-> pos,
   multiBulkCnt |-> cnt, bulkLen |-> len, paras |-> words]

\* Its assignments.
SetBuff(c, x) == [c EXCEPT !.queryBuff = x]

SetType(c, x) == [c EXCEPT !.qryType = x]
SetPos(c, x) == [c EXCEPT !.qry_pos = x]
SetCnt(c, x) == [c EXCEPT !.multiBulkCnt = x]
SetLen(c, x) == [c EXCEPT !.bulkLen = x]
SetParas(c, x) == [c EXCEPT !.paras = x]

\* What an assignment makes of a parser.
LEMMA RecSet ==
  ASSUME NEW b, NEW t, NEW q, NEW m, NEW l, NEW p, NEW x
  PROVE  /\ SetBuff(Rec(b, t, q, m, l, p), x) = Rec(x, t, q, m, l, p)
         /\ SetType(Rec(b, t, q, m, l, p), x) = Rec(b, x, q, m, l, p)
         /\ SetPos(Rec(b, t, q, m, l, p), x) = Rec(b, t, x, m, l, p)
         /\ SetCnt(Rec(b, t, q, m, l, p), x) = Rec(b, t, q, x, l, p)
         /\ SetLen(Rec(b, t, q, m, l, p), x) = Rec(b, t, q, m, x, p)
         /\ SetParas(Rec(b, t, q, m, l, p), x) = Rec(b, t, q, m, l, x)
  BY DEF Rec, SetBuff, SetType, SetPos, SetCnt, SetLen, SetParas

\* The parser at rest, but for what it keeps.
Holding(buff, type) == Rec(buff, type, 0, 0, -1, <<>>)

Given(buff, words) == Rec(buff, 0, 0, 0, -1, words)

\* KeepsText says that the parser is at rest, but for text of one kind.
LEMMA HoldingIs ==
  /\ \A buff \in Seq(Char), type \in 0 .. 2 : Holding(buff, type) \in Parser
  /\ \A type : KeepsText(type) = (client = Holding(client.queryBuff, type))
<1>1. \A buff \in Seq(Char), type \in 0 .. 2 : Holding(buff, type) \in Parser
  BY DEF Holding, Rec, Parser
<1>2. ASSUME NEW buff, NEW type
      PROVE  [Fresh EXCEPT !.queryBuff = buff, !.qryType = type] = Holding(buff, type)
  <2>1. Fresh = Rec(<<>>, 0, 0, 0, -1, <<>>)
    BY DEF Fresh, Rec
  <2>2. SetType(SetBuff(Fresh, buff), type) = Holding(buff, type)
    BY <2>1, RecSet DEF Holding
  <2> QED  BY <2>2 DEF SetType, SetBuff
<1> QED  BY <1>1, <1>2 DEF KeepsText

\* A line that is not all there is awaited.
LEMMA LineWaits ==
  ASSUME NEW buff \in Seq(Char \ {LF})
  PROVE  Parsed[Holding(buff, 1)] = Result(Holding(buff, 1), "wait")
<1>1. buff \in Seq(Char)
  OBVIOUS
<1>2. Holding(buff, 1) \in Parser
  BY <1>1, HoldingIs
<1>3. Parsed[Holding(buff, 1)] = parseQuery(Holding(buff, 1))
  <2>1. Holding(buff, 1).qryType # 2
    BY DEF Holding, Rec
  <2> QED  BY <1>2, <2>1 DEF Parsed
<1>4. Find(Holding(buff, 1).queryBuff, Holding(buff, 1).qry_pos) = -1
  BY FindNone DEF Holding, Rec
<1> QED  BY <1>3, <1>4 DEF parseQuery

\* One that is there is split into words, and what was behind it is kept.
LEMMA LineIsRead ==
  ASSUME NEW b \in Seq(Char \ {LF}), NEW r \in Seq(Char \ {LF})
  PROVE  LET buff == (b \o <<LF>>) \o r IN
         /\ buff \in Seq(Char)
         /\ Parsed[Holding(buff, 1)] =
              Result(Given(r, Words[b]), IF Words[b] = <<>> THEN "wait" ELSE "task")
<1> DEFINE buff == (b \o <<LF>>) \o r
           n == Len(b)
           c == Holding(buff, 1)
<1>1. LF \in Char /\ b \in Seq(Char) /\ r \in Seq(Char) /\ n \in Nat
      /\ \A i \in 1 .. n : b[i] # LF
  BY CharAssumption
<1> DEFINE h == b \o <<LF>>
<1>12. h \in Seq(Char) /\ Len(h) = n + 1 /\ h[n + 1] = LF /\ \A i \in 1 .. n : h[i] = b[i]
  BY <1>1
<1>2. buff \in Seq(Char) /\ Len(buff) = (n + 1) + Len(r) /\ buff[n + 1] = LF
      /\ (\A i \in 1 .. n : buff[i] = b[i])
      /\ Len(h) \in Nat /\ Len(buff) = Len(h) + Len(r) /\ \A i \in 1 .. Len(r) : buff[Len(h) + i] = r[i]
  <2> HIDE DEF h
  <2>1. h \o r \in Seq(Char) /\ Len(h \o r) = Len(h) + Len(r)
        /\ (\A i \in 1 .. Len(h) : (h \o r)[i] = h[i])
        /\ \A i \in 1 .. Len(r) : (h \o r)[Len(h) + i] = r[i]
    BY <1>1, <1>12
  <2>2. buff = h \o r
    BY DEF h
  <2> HIDE DEF buff
  <2> QED  BY <1>1, <1>12, <2>1, <2>2
<1> HIDE DEF buff, h
<1>3. Find(buff, 0) = n
  <2> DEFINE k == n + 1
             from == 0
  <2>1. from \in Nat /\ k \in from + 1 .. Len(buff) /\ buff[k] = LF
        /\ \A i \in from + 1 .. k - 1 : buff[i] # LF
    BY <1>1, <1>2
  <2> HIDE DEF k, from
  <2>2. Find(buff, from) = k - 1
    BY <1>2, <2>1, FindAt
  <2> QED  BY <1>1, <2>2 DEF k, from
<1>4. Substr(buff, 0, n) = b
  <2>1. Min({n, Len(buff)}) = n
    <3>1. Len(buff) \in Nat /\ n <= Len(buff)
      BY <1>1, <1>2
    <3> HIDE DEF n
    <3> QED  BY <1>1, <3>1, MinTwo
  <2>2. Substr(buff, 0, n) = SubSeq(buff, 1, n)
    <3>1. 0 + n = n /\ 0 + 1 = 1 /\ ~ (n < 0)
      BY <1>1
    <3> QED  BY <2>1, <3>1 DEF Substr
  <2> DEFINE u == SubSeq(buff, 1, n)
  <2>3. u \in Seq(Char) /\ Len(u) = n /\ \A i \in 1 .. n : u[i] = b[i]
    BY <1>1, <1>2
  <2> HIDE DEF u
  <2>4. u = b
    BY <1>1, <2>3
  <2> QED  BY <2>2, <2>4 DEF u
<1>5. Erase(buff, n + 1) = r
  <2>1. buff \in Seq(Char) /\ r \in Seq(Char) /\ Len(h) = n + 1
    BY <1>1, <1>2, <1>12
  <2>2. Erase(buff, Len(h)) = r
    <3>1. h \in Seq(Char)
      BY <1>12
    <3>2. Erase(h \o r, Len(h)) = r
      BY <1>1, <3>1, BehindJoined
    <3> QED  BY <3>2 DEF buff, h
  <2> QED  BY <2>1, <2>2
<1>6. c \in Parser /\ c.qryType = 1 /\ c.queryBuff = buff /\ c.qry_pos = 0 /\ c.paras = <<>>
  <2>1. c \in Parser
    <3>1. 1 \in 0 .. 2
      OBVIOUS
    <3> QED  BY <1>2, <3>1, HoldingIs
  <2>2. c.qryType = 1 /\ c.queryBuff = buff /\ c.qry_pos = 0 /\ c.paras = <<>>
    BY DEF Holding, Rec
  <2> QED  BY <2>1, <2>2
<1>7. Parsed[c] = parseQuery(c)
  BY <1>6 DEF Parsed
<1>8. Words[b] \in Seq(Word) /\ <<>> \o Words[b] = Words[b]
  <2>1. Words[b] \in Seq(Word)
    BY <1>1, WordsRule
  <2>2. \A w \in Seq(Word) : <<>> \o w = w
    OBVIOUS
  <2> QED  BY <2>1, <2>2
<1>9. [c EXCEPT !.paras = Words[b], !.qryType = 0, !.queryBuff = r] = Given(r, Words[b])
  <2>1. SetBuff(SetType(SetParas(c, Words[b]), 0), r) = Given(r, Words[b])
    BY RecSet DEF Holding, Given
  <2> HIDE DEF c
  <2> QED  BY <2>1 DEF SetBuff, SetType, SetParas
<1>10. parseQuery(c) = Result([c EXCEPT !.paras = Words[b], !.qryType = 0, !.queryBuff = r],
                              IF Words[b] = <<>> THEN "wait" ELSE "task")
  <2> HIDE DEF c
  <2>1. Find(c.queryBuff, c.qry_pos) = n /\ n # -1
    BY <1>1, <1>3, <1>6
  <2>2. c.paras \o Words[Substr(c.queryBuff, 0, n)] = Words[b]
    BY <1>4, <1>6, <1>8
  <2>3. Erase(c.queryBuff, n + 1) = r
    BY <1>5, <1>6
  <2> QED  BY <2>1, <2>2, <2>3 DEF parseQuery
<1> QED  BY <1>2, <1>7, <1>9, <1>10 DEF buff

-----------------------------------------------------------------------------
(* Words with their lengths.                                               *)

HeaderEnd(c) == Find(c.queryBuff, c.qry_pos)
WordLength(c) == IF c.bulkLen = -1 THEN Number(c, HeaderEnd(c), -1) ELSE c.bulkLen
WordAt(c) == IF c.bulkLen = -1 THEN HeaderEnd(c) + 1 ELSE c.qry_pos
Done(c) == Rec(Erase(c.queryBuff, c.qry_pos), 0, 0, c.multiBulkCnt, c.bulkLen, c.paras)
More(c) == Rec(c.queryBuff, c.qryType, WordAt(c), c.multiBulkCnt, WordLength(c), c.paras)

After(c) == Rec(c.queryBuff, c.qryType, WordAt(c) + WordLength(c) + 2, c.multiBulkCnt - 1, -1,
                Append(c.paras, Substr(c.queryBuff, WordAt(c), WordLength(c))))

BulksOf(c, f) ==
  IF c.multiBulkCnt = 0 THEN Result(Done(c), "task")
  ELSE IF c.bulkLen = -1 /\ HeaderEnd(c) = -1 THEN Result(c, "wait")
  ELSE IF c.bulkLen = -1 /\ HeaderEnd(c) - c.qry_pos > 1 /\ WordLength(c) = -1 THEN Result(c, "throw")
  ELSE IF WordAt(c) + WordLength(c) + 2 >= Len(c.queryBuff) THEN Result(More(c), "wait")
  ELSE f[After(c)]

\* The definition of Bulks.
Counts(f) ==
  f = [c \in Parser |->
  LET pos == Find(c.queryBuff, c.qry_pos)
      len == IF c.bulkLen = -1 THEN Number(c, pos, -1) ELSE c.bulkLen
      at == IF c.bulkLen = -1 THEN pos + 1 ELSE c.qry_pos
      more == [c EXCEPT !.bulkLen = len, !.qry_pos = at]
  IN IF c.multiBulkCnt = 0
     THEN Result([c EXCEPT !.queryBuff = Erase(@, c.qry_pos), !.qry_pos = 0,
                           !.qryType = 0], "task")
     ELSE IF c.bulkLen = -1 /\ pos = -1 THEN Result(c, "wait")
     ELSE IF c.bulkLen = -1 /\ pos - c.qry_pos > 1 /\ len = -1 THEN Result(c, "throw")
     ELSE IF at + len + 2 >= Len(c.queryBuff) THEN Result(more, "wait")
     ELSE f[[c EXCEPT !.paras = Append(@, Substr(c.queryBuff, at, len)),
                          !.qry_pos = at + len + 2,
                          !.multiBulkCnt = @ - 1, !.bulkLen = -1]]]

\* A parser is made of its parts ...
LEMMA ParserIs ==
  ASSUME NEW c \in Parser
  PROVE  /\ c = Rec(c.queryBuff, c.qryType, c.qry_pos, c.multiBulkCnt, c.bulkLen, c.paras)
         /\ c.queryBuff \in Seq(Char) /\ c.qryType \in 0 .. 2 /\ c.qry_pos \in Nat
         /\ c.multiBulkCnt \in Nat /\ c.bulkLen \in Nat \cup {-1} /\ c.paras \in Seq(Seq(Char))
  BY DEF Parser, Rec

\* ... and parts of the right kinds make a parser.
LEMMA RecIs ==
  ASSUME NEW b \in Seq(Char), NEW t \in 0 .. 2, NEW q \in Nat, NEW m \in Nat, NEW l \in Nat \cup {-1},
         NEW p \in Seq(Seq(Char))
  PROVE  Rec(b, t, q, m, l, p) \in Parser /\ Rec(b, t, q, m, l, p).multiBulkCnt = m
  BY DEF Parser, Rec

\* The assignments of Bulks.
LEMMA SetMore ==
  ASSUME NEW c \in Parser, NEW len, NEW at
  PROVE  [c EXCEPT !.bulkLen = len, !.qry_pos = at]
              = Rec(c.queryBuff, c.qryType, at, c.multiBulkCnt, len, c.paras)
<1>1. SetPos(SetLen(c, len), at) = Rec(c.queryBuff, c.qryType, at, c.multiBulkCnt, len, c.paras)
  BY ParserIs, RecSet
<1> QED  BY <1>1 DEF SetPos, SetLen

\* ... when all words have been found ...
LEMMA SetDone ==
  ASSUME NEW c \in Parser, NEW x
  PROVE  [c EXCEPT !.queryBuff = x, !.qry_pos = 0, !.qryType = 0]
              = Rec(x, 0, 0, c.multiBulkCnt, c.bulkLen, c.paras)
<1>1. SetType(SetPos(SetBuff(c, x), 0), 0) = Rec(x, 0, 0, c.multiBulkCnt, c.bulkLen, c.paras)
  BY ParserIs, RecSet
<1> QED  BY <1>1 DEF SetPos, SetBuff, SetType

\* ... and when one more has been.
LEMMA SetAfter ==
  ASSUME NEW c \in Parser, NEW at, NEW x, NEW cnt
  PROVE  [c EXCEPT !.paras = x, !.qry_pos = at, !.multiBulkCnt = cnt, !.bulkLen = -1]
              = Rec(c.queryBuff, c.qryType, at, cnt, -1, x)
<1>1. SetLen(SetCnt(SetPos(SetParas(c, x), at), cnt), -1) = Rec(c.queryBuff, c.qryType, at, cnt, -1, x)
  BY ParserIs, RecSet
<1> QED  BY <1>1 DEF SetPos, SetParas, SetCnt, SetLen

\* What find() returns is a place behind the one where it began, or -1.
LEMMA FindIs ==
  ASSUME NEW text \in Seq(Char), NEW from \in Nat
  PROVE  Find(text, from) \in Nat \cup {-1} /\ (Find(text, from) # -1 => Find(text, from) >= from)
<1> DEFINE S == {i \in from + 1 .. Len(text) : text[i] = LF}
           n == Len(text)
<1>1. n \in Nat /\ S \in SUBSET (0 .. n) /\ \A i \in S : i \in Nat /\ i >= from + 1
  OBVIOUS
<1>2. Find(text, from) = IF S = {} THEN -1 ELSE Min(S) - 1
  BY DEF Find
<1> HIDE DEF S, n
<1>3. CASE S = {}
  BY <1>2, <1>3
<1>4. CASE S # {}
  <2>1. Min(S) \in S
    BY <1>1, <1>4, Smallest
  <2>2. Min(S) \in Nat /\ Min(S) >= from + 1
    BY <1>1, <2>1
  <2> QED  BY <1>2, <1>4, <2>2
<1> QED  BY <1>3, <1>4

\* What substr() returns is text.
LEMMA SubstrIs ==
  ASSUME NEW text \in Seq(Char), NEW from \in Nat, NEW len \in Int
  PROVE  Substr(text, from, len) \in Seq(Char)
<1>1. Len(text) \in Nat
  OBVIOUS
<1>2. ASSUME NEW k \in Int, k <= Len(text) PROVE SubSeq(text, from + 1, k) \in Seq(Char)
  BY <1>1, <1>2
<1>3. CASE len < 0
  BY <1>1, <1>2, <1>3 DEF Substr
<1>4. CASE ~ (len < 0)
  <2> DEFINE k == Min({from + len, Len(text)})
  <2>1. from + len \in Nat
    BY <1>4
  <2>2. k \in Int /\ k <= Len(text)
    BY <1>1, <2>1, MinTwo
  <2> HIDE DEF k
  <2>3. SubSeq(text, from + 1, k) \in Seq(Char)
    BY <1>2, <2>2
  <2> QED  BY <1>4, <2>3 DEF Substr, k
<1> QED  BY <1>3, <1>4

\* What stoi() returns is a number, or the exception.
LEMMA StoiIs ==
  ASSUME NEW text \in Seq(Char)
  PROVE  Stoi(text) \in Nat \cup {-1}
<1>1. [text |-> text, n |-> -1] \in Reading
  BY DEF Reading
<1> QED  BY <1>1, ValueRule DEF Stoi

\* The positions and lengths with which the parser counts are numbers.
LEMMA BulkNumbers ==
  ASSUME NEW c \in Parser
  PROVE  /\ HeaderEnd(c) \in Nat \cup {-1}
         /\ WordLength(c) \in Nat \cup {-1}
         /\ WordAt(c) \in Nat
<1>1. HeaderEnd(c) \in Nat \cup {-1}
  BY FindIs, ParserIs DEF HeaderEnd
<1>2. WordLength(c) \in Nat \cup {-1}
  <2>1. c.bulkLen \in Nat \cup {-1} /\ c.queryBuff \in Seq(Char) /\ c.qry_pos \in Nat
    BY ParserIs
  <2>2. c.qry_pos + 1 \in Nat /\ HeaderEnd(c) - c.qry_pos \in Int
    BY <1>1, <2>1
  <2>3. Stoi(Substr(c.queryBuff, c.qry_pos + 1, HeaderEnd(c) - c.qry_pos)) \in Nat \cup {-1}
    BY <2>1, <2>2, SubstrIs, StoiIs
  <2> QED  BY <2>1, <2>3 DEF WordLength, Number
<1>3. WordAt(c) \in Nat
  <2>1. c.qry_pos \in Nat
    BY ParserIs
  <2> QED  BY <1>1, <2>1 DEF WordAt
<1> QED  BY <1>1, <1>2, <1>3

\* What it comes to is a parser, with one word less to find.
LEMMA BulkTyped ==
  ASSUME NEW c \in Parser
  PROVE  /\ Done(c) \in Parser
         /\ More(c) \in Parser
         /\ c.multiBulkCnt # 0 => After(c) \in Parser /\ After(c).multiBulkCnt < c.multiBulkCnt
<1>1. /\ c.queryBuff \in Seq(Char) /\ c.qryType \in 0 .. 2 /\ c.qry_pos \in Nat
      /\ c.multiBulkCnt \in Nat /\ c.bulkLen \in Nat \cup {-1} /\ c.paras \in Seq(Seq(Char))
      /\ 0 \in 0 .. 2 /\ 0 \in Nat /\ -1 \in Nat \cup {-1}
  BY ParserIs
<1>2. WordLength(c) \in Nat \cup {-1} /\ WordAt(c) \in Nat /\ WordLength(c) \in Int
  BY BulkNumbers
<1>3. Done(c) \in Parser
  <2>1. \A s \in Seq(Char), k \in Nat : Erase(s, k) \in Seq(Char)
    BY DEF Erase
  <2> QED  BY <1>1, <2>1, RecIs DEF Done
<1>4. More(c) \in Parser
  BY <1>1, <1>2, RecIs DEF More
<1>5. ASSUME c.multiBulkCnt # 0
      PROVE  After(c) \in Parser /\ After(c).multiBulkCnt < c.multiBulkCnt
  <2>1. c.multiBulkCnt - 1 \in Nat /\ c.multiBulkCnt - 1 < c.multiBulkCnt
    BY <1>1, <1>5
  <2>2. WordAt(c) + WordLength(c) + 2 \in Nat
    BY <1>2
  <2>3. Substr(c.queryBuff, WordAt(c), WordLength(c)) \in Seq(Char)
    BY <1>1, <1>2, SubstrIs
  <2>4. Append(c.paras, Substr(c.queryBuff, WordAt(c), WordLength(c))) \in Seq(Seq(Char))
    <3>1. \A s \in Seq(Seq(Char)), w \in Seq(Char) : Append(s, w) \in Seq(Seq(Char))
      OBVIOUS
    <3> QED  BY <1>1, <2>3, <3>1
  <2>5. After(c) \in Parser /\ After(c).multiBulkCnt = c.multiBulkCnt - 1
    <3> DEFINE p == Append(c.paras, Substr(c.queryBuff, WordAt(c), WordLength(c)))
               q == WordAt(c) + WordLength(c) + 2
               m == c.multiBulkCnt - 1
    <3>1. p \in Seq(Seq(Char)) /\ q \in Nat /\ m \in Nat
      BY <2>1, <2>2, <2>4
    <3>2. After(c) = Rec(c.queryBuff, c.qryType, q, m, -1, p)
      BY DEF After
    <3> HIDE DEF p, q, m
    <3> DEFINE b == c.queryBuff
               t == c.qryType
               l == -1
    <3>4. b \in Seq(Char) /\ t \in 0 .. 2 /\ l \in Nat \cup {-1} /\ After(c) = Rec(b, t, q, m, l, p)
      BY <1>1, <3>2
    <3> HIDE DEF b, t, l
    <3>5. Rec(b, t, q, m, l, p) \in Parser /\ Rec(b, t, q, m, l, p).multiBulkCnt = m
      BY <3>1, <3>4 DEF Rec, Parser
    <3>3. After(c) \in Parser /\ After(c).multiBulkCnt = m
      BY <3>4, <3>5
    <3> QED  BY <3>3 DEF m
  <2> QED  BY <2>1, <2>5
<1> QED  BY <1>3, <1>4, <1>5

\* Bulks, which is defined recursively, is a function that follows its definition.
LEMMA BulksRule ==
  \A c \in Parser : Bulks[c] = BulksOf(c, Bulks)
<1> DEFINE S == Parser
           V == [client : Parser, ret : {"task", "wait", "throw"}]
           m == [x \in S |-> x.multiBulkCnt]
           G == [x \in S |-> [f \in [S -> V] |-> BulksOf(x, f)]]
<1>1. m \in [S -> Nat]
  BY ParserIs
<1>2. ASSUME NEW x \in S, NEW f \in [S -> V] PROVE G[x][f] = BulksOf(x, f) /\ G[x][f] \in V
  <2>1. G[x][f] = BulksOf(x, f)
    OBVIOUS
  <2>2. \A c \in Parser : Result(c, "task") \in V /\ Result(c, "wait") \in V /\ Result(c, "throw") \in V
    BY DEF Result
  <2>3. BulksOf(x, f) \in V
    <3> HIDE DEF V, G
    <3>1. CASE x.multiBulkCnt = 0
      BY <2>2, <3>1, BulkTyped DEF BulksOf
    <3>2. CASE x.multiBulkCnt # 0
      <4>1. f[After(x)] \in V
        BY <3>2, BulkTyped
      <4> QED  BY <2>2, <3>2, <4>1, BulkTyped DEF BulksOf
    <3> QED  BY <3>1, <3>2
  <2> QED  BY <2>1, <2>3
<1>3. ASSUME NEW x \in S, NEW f, NEW g,
             \A y \in S : y.multiBulkCnt < x.multiBulkCnt => f[y] = g[y]
      PROVE  BulksOf(x, f) = BulksOf(x, g)
  <2>1. x.multiBulkCnt # 0 => f[After(x)] = g[After(x)]
    BY <1>3, BulkTyped
  <2> QED  BY <2>1 DEF BulksOf
<1>4. ASSUME NEW x \in S, NEW f \in [S -> V], NEW g \in [S -> V],
             \A y \in S : m[y] < m[x] => f[y] = g[y]
      PROVE  G[x][f] = G[x][g]
  <2>1. \A y \in S : y.multiBulkCnt < x.multiBulkCnt => f[y] = g[y]
    BY <1>4
  <2>2. BulksOf(x, f) = BulksOf(x, g)
    BY <1>3, <2>1
  <2> QED  BY <1>2, <2>2
<1>5. PICK f : Solves(f, G, S, V)
  <2>1. Result(Fresh, "wait") \in V
    <3>1. Fresh \in Parser
      BY DEF Fresh, Parser
    <3> QED  BY <3>1 DEF Result
  <2> HIDE DEF G, m, S, V
  <2>2. Descends(G, S, V, m)
    BY <1>1, <1>2, <1>4 DEF Descends
  <2> QED  BY <2>1, <2>2, Recursion
<1>6. f \in [S -> V] /\ \A x \in S : f[x] = BulksOf(x, f)
  <2> HIDE DEF G, S, V
  <2> QED  BY <1>2, <1>5 DEF Solves
<1> DEFINE C(c, g) ==
  LET pos == Find(c.queryBuff, c.qry_pos)
      len == IF c.bulkLen = -1 THEN Number(c, pos, -1) ELSE c.bulkLen
      at == IF c.bulkLen = -1 THEN pos + 1 ELSE c.qry_pos
      more == [c EXCEPT !.bulkLen = len, !.qry_pos = at]
  IN IF c.multiBulkCnt = 0
     THEN Result([c EXCEPT !.queryBuff = Erase(@, c.qry_pos), !.qry_pos = 0,
                           !.qryType = 0], "task")
     ELSE IF c.bulkLen = -1 /\ pos = -1 THEN Result(c, "wait")
     ELSE IF c.bulkLen = -1 /\ pos - c.qry_pos > 1 /\ len = -1 THEN Result(c, "throw")
     ELSE IF at + len + 2 >= Len(c.queryBuff) THEN Result(more, "wait")
     ELSE g[[c EXCEPT !.paras = Append(@, Substr(c.queryBuff, at, len)),
                          !.qry_pos = at + len + 2,
                          !.multiBulkCnt = @ - 1, !.bulkLen = -1]]
<1>7. ASSUME NEW x \in S, NEW g PROVE C(x, g) = BulksOf(x, g)
  <2> DEFINE pos == HeaderEnd(x)
             len == WordLength(x)
             at == WordAt(x)
             word == Substr(x.queryBuff, at, len)
             rest == Erase(x.queryBuff, x.qry_pos)
  <2>1. [x EXCEPT !.bulkLen = len, !.qry_pos = at] = More(x)
    <3> HIDE DEF len, at
    <3>1. [x EXCEPT !.bulkLen = len, !.qry_pos = at]
            = Rec(x.queryBuff, x.qryType, at, x.multiBulkCnt, len, x.paras)
      BY SetMore
    <3> QED  BY <3>1 DEF More, len, at
  <2>2. [x EXCEPT !.queryBuff = rest, !.qry_pos = 0, !.qryType = 0] = Done(x)
    BY SetDone DEF Done
  <2>3. [x EXCEPT !.paras = Append(x.paras, word), !.qry_pos = at + len + 2,
                  !.multiBulkCnt = x.multiBulkCnt - 1, !.bulkLen = -1] = After(x)
    <3> DEFINE p == Append(x.paras, word)
               q == at + len + 2
               k == x.multiBulkCnt - 1
    <3> HIDE DEF p, q, k
    <3>1. [x EXCEPT !.paras = p, !.qry_pos = q, !.multiBulkCnt = k, !.bulkLen = -1]
            = Rec(x.queryBuff, x.qryType, q, k, -1, p)
      BY SetAfter
    <3> QED  BY <3>1 DEF After, p, q, k
  <2>4. C(x, g) =
     IF x.multiBulkCnt = 0
     THEN Result([x EXCEPT !.queryBuff = rest, !.qry_pos = 0, !.qryType = 0], "task")
     ELSE IF x.bulkLen = -1 /\ pos = -1 THEN Result(x, "wait")
     ELSE IF x.bulkLen = -1 /\ pos - x.qry_pos > 1 /\ len = -1 THEN Result(x, "throw")
     ELSE IF at + len + 2 >= Len(x.queryBuff) THEN Result([x EXCEPT !.bulkLen = len, !.qry_pos = at], "wait")
     ELSE g[[x EXCEPT !.paras = Append(x.paras, word), !.qry_pos = at + len + 2,
                  !.multiBulkCnt = x.multiBulkCnt - 1, !.bulkLen = -1]]
    BY DEF HeaderEnd, WordLength, WordAt
  <2> HIDE DEF C
  <2> QED  BY <2>1, <2>2, <2>3, <2>4 DEF BulksOf
<1>8. Counts(f)
  <2>1. f = [c \in Parser |-> C(c, f)]
    <3> HIDE DEF C, V
    <3> QED  BY <1>6, <1>7
  <2> QED  BY <2>1 DEF Counts
<1> DEFINE h == CHOOSE h : Counts(h)
<1>9. Counts(h)
  BY <1>8
<1>10. Bulks = h
  BY DEF Bulks, Counts
<1> HIDE DEF h
<1>11. h = [c \in Parser |-> C(c, h)]
  BY <1>9 DEF Counts
<1> HIDE DEF C
<1>12. \A x \in S : h[x] = BulksOf(x, h)
  BY <1>7, <1>11
<1> QED  BY <1>10, <1>12

\* The text s has x behind its first k characters.
Has(s, k, x) == k \in Nat /\ k + Len(x) <= Len(s) /\ \A i \in 1 .. Len(x) : s[k + i] = x[i]

\* Two texts, one behind the other, are where the one and the other are.
LEMMA HasParts ==
  ASSUME NEW W, NEW s \in Seq(W), NEW x \in Seq(W), NEW y \in Seq(W), NEW k \in Nat
  PROVE  Has(s, k, x \o y) = (Has(s, k, x) /\ Has(s, k + Len(x), y))
<1> DEFINE z == x \o y
<1>1. Len(z) = Len(x) + Len(y) /\ Len(x) \in Nat /\ Len(y) \in Nat
      /\ (\A i \in 1 .. Len(x) : z[i] = x[i]) /\ \A i \in 1 .. Len(y) : z[Len(x) + i] = y[i]
  BY ConcatFacts
<1> HIDE DEF z
<1> DEFINE p == Len(x)
           q == Len(y)
           e == k + p
<1>3. p \in Nat /\ q \in Nat /\ e \in Nat /\ Len(s) \in Nat /\ e = k + p /\ Len(z) = p + q
      /\ (\A i \in 1 .. p : z[i] = x[i]) /\ (\A i \in 1 .. q : z[p + i] = y[i])
  <2>1. p = Len(x) /\ q = Len(y) /\ Len(s) \in Nat
    OBVIOUS
  <2> HIDE DEF p, q
  <2>2. e \in Nat
    BY <1>1, <2>1
  <2> QED  BY <1>1, <2>1, <2>2
<1>4. /\ Has(s, k, z) = (k + Len(z) <= Len(s) /\ \A i \in 1 .. Len(z) : s[k + i] = z[i])
      /\ Has(s, k, x) = (k + p <= Len(s) /\ \A i \in 1 .. p : s[k + i] = x[i])
      /\ Has(s, k + Len(x), y) = (e + q <= Len(s) /\ \A i \in 1 .. q : s[e + i] = y[i])
  <2>1. k + Len(x) \in Nat
    BY <1>3
  <2> QED  BY <2>1 DEF Has
<1> HIDE DEF p, q, e
<1>5. k + Len(z) = e + q
  BY <1>3
<1>6. e + q <= Len(s) => k + p <= Len(s)
  BY <1>3
<1>7. ASSUME \A i \in 1 .. Len(z) : s[k + i] = z[i]
      PROVE  (\A i \in 1 .. p : s[k + i] = x[i]) /\ \A i \in 1 .. q : s[e + i] = y[i]
  <2>1. ASSUME NEW i \in 1 .. p PROVE s[k + i] = x[i]
    <3>1. i \in 1 .. Len(z)
      BY <1>3
    <3> QED  BY <1>3, <1>7, <3>1
  <2>2. ASSUME NEW i \in 1 .. q PROVE s[e + i] = y[i]
    <3> DEFINE j == p + i
    <3>1. j \in 1 .. Len(z) /\ k + j = e + i /\ z[j] = y[i]
      BY <1>3
    <3> HIDE DEF j
    <3>2. s[k + j] = z[j]
      BY <1>7, <3>1
    <3> QED  BY <3>1, <3>2
  <2> QED  BY <2>1, <2>2
<1>8. ASSUME \A i \in 1 .. p : s[k + i] = x[i], \A i \in 1 .. q : s[e + i] = y[i]
      PROVE  \A i \in 1 .. Len(z) : s[k + i] = z[i]
  <2> SUFFICES ASSUME NEW i \in 1 .. Len(z) PROVE s[k + i] = z[i]
    OBVIOUS
  <2>1. CASE i <= p
    <3>1. i \in 1 .. p
      BY <1>3, <2>1
    <3> QED  BY <1>3, <1>8, <3>1
  <2>2. CASE p < i
    <3> DEFINE j == i - p
    <3>1. j \in 1 .. q /\ e + j = k + i /\ p + j = i
      BY <1>3, <2>2
    <3> HIDE DEF j
    <3>2. s[e + j] = y[j] /\ z[p + j] = y[j]
      BY <1>3, <1>8, <3>1
    <3> QED  BY <3>1, <3>2
  <2>3. i <= p \/ p < i
    BY <1>3
  <2> QED  BY <2>1, <2>2, <2>3
<1> DEFINE AX == \A i \in 1 .. p : s[k + i] = x[i]
           AY == \A i \in 1 .. q : s[e + i] = y[i]
           AZ == \A i \in 1 .. Len(z) : s[k + i] = z[i]
<1>9. AZ = (AX /\ AY)
  BY <1>7, <1>8
<1> HIDE DEF AX, AY, AZ
<1>10. /\ Has(s, k, z) = (k + Len(z) <= Len(s) /\ AZ)
       /\ Has(s, k, x) = (k + p <= Len(s) /\ AX)
       /\ Has(s, k + Len(x), y) = (e + q <= Len(s) /\ AY)
  BY <1>4 DEF AX, AY, AZ
<1> QED  BY <1>5, <1>6, <1>9, <1>10 DEF z

\* A text that is in another is a part of it ...
LEMMA HasSub ==
  ASSUME NEW W, NEW s \in Seq(W), NEW x \in Seq(W), NEW k, Has(s, k, x)
  PROVE  k \in Nat /\ k + Len(x) <= Len(s) /\ SubSeq(s, k + 1, k + Len(x)) = x
<1>1. k \in Nat /\ Len(x) \in Nat /\ Len(s) \in Nat /\ k + Len(x) <= Len(s)
      /\ \A i \in 1 .. Len(x) : s[k + i] = x[i]
  BY DEF Has
<1> DEFINE e == k + Len(x)
           u == SubSeq(s, k + 1, e)
<1>2. e \in Nat /\ e >= k /\ e <= Len(s) /\ e - k = Len(x)
  BY <1>1
<1> HIDE DEF e
<1>3. u \in Seq(W) /\ Len(u) = e - k /\ \A i \in 1 .. e - k : u[i] = s[k + i]
  BY <1>1, <1>2
<1> HIDE DEF u
<1>4. u = x
  BY <1>1, <1>2, <1>3
<1> QED  BY <1>1, <1>4 DEF u, e

\* ... and the one that substr() returns.
LEMMA SubstrAt ==
  ASSUME NEW s \in Seq(Char), NEW x \in Seq(Char), NEW k, Has(s, k, x), NEW n, n = Len(x)
  PROVE  Substr(s, k, n) = x
<1>1. k \in Nat /\ Len(x) \in Nat /\ Len(s) \in Nat /\ k + n <= Len(s) /\ k + n \in Nat /\ ~ (n < 0)
  <2>1. k \in Nat /\ k + Len(x) <= Len(s) /\ Len(x) \in Nat /\ Len(s) \in Nat
    BY HasSub
  <2> QED  BY <2>1
<1>2. Min({k + n, Len(s)}) = k + n
  <2> DEFINE e == k + n
  <2>1. e \in Nat /\ e <= Len(s)
    BY <1>1
  <2> HIDE DEF e
  <2>2. Min({e, Len(s)}) = e
    BY <1>1, <2>1, MinTwo
  <2> QED  BY <2>2 DEF e
<1>3. SubSeq(s, k + 1, k + n) = x
  BY HasSub
<1> QED  BY <1>1, <1>2, <1>3 DEF Substr

\* A number after its mark.
Mark(m, n) == <<m>> \o Decimal(n) \o <<CR, LF>>

(* A number that follows its mark is found again wherever it stands: its     *)
(* line feed is the next one, and stoi() reads the digits between the two.  *)
LEMMA MarkIs ==
  ASSUME NEW m \in {"*", "$"}, NEW n \in 0 .. 99
  PROVE  /\ Mark(m, n) \in Seq(Char) /\ Len(Mark(m, n)) \in 4 .. 5 /\ Mark(m, n)[1] = m
         /\ \A s \in Seq(Char), q \in Nat : Has(s, q, Mark(m, n)) =>
              /\ Find(s, q) = q + Len(Mark(m, n)) - 1
              /\ Stoi(Substr(s, q + 1, Len(Mark(m, n)) - 1)) = n
<1> DEFINE D == Decimal(n)
           d == Len(D)
           eol == <<CR, LF>>
           M == Mark(m, n)
<1>1. m \in Char /\ m # LF /\ CR \in Char /\ LF \in Char /\ CR # LF
  <2>1. "*" # LF /\ "$" # LF /\ CR # LF
    BY DEF LF, CR
  <2> QED  BY <2>1, CharAssumption
<1>2. eol \in Seq(Char) /\ Len(eol) = 2 /\ eol # <<>> /\ eol[1] = CR /\ eol[2] = LF /\ eol[1] \notin ToSet(Digit)
  BY <1>1, DigitIs
<1>3. /\ D \in Seq(Char) /\ d \in 1 .. 2 /\ \A i \in 1 .. d : D[i] # LF
      /\ Stoi(D \o eol) = n
  <2> HIDE DEF eol
  <2> QED  BY <1>2, StoiDecimal
<1> HIDE DEF D, eol
<1>4. <<m>> \in Seq(Char) /\ Len(<<m>>) = 1 /\ <<m>>[1] = m
  BY <1>1
<1> DEFINE a == <<m>>
<1> HIDE DEF a
<1>5. a \in Seq(Char) /\ Len(a) = 1 /\ a[1] = m /\ M = (a \o D) \o eol
  BY <1>4 DEF a, Mark, D, eol
<1> HIDE DEF M
<1> DEFINE aD == a \o D
           De == D \o eol
<1>61. d \in Nat /\ Len(D) = d /\ D \in Seq(Char) /\ (1 \in 1 .. 1)
  BY <1>3
<1> HIDE DEF d
<1>62. aD \in Seq(Char) /\ Len(aD) = 1 + d /\ aD[1] = m
  <2>1. aD \in Seq(Char) /\ Len(aD) = Len(a) + Len(D) /\ \A i \in 1 .. Len(a) : aD[i] = a[i]
    BY <1>5, <1>61, ConcatFacts
  <2> HIDE DEF aD
  <2> QED  BY <1>5, <1>61, <2>1
<1>63. De \in Seq(Char) /\ Len(De) = d + 2
  <2>1. De \in Seq(Char) /\ Len(De) = Len(D) + Len(eol)
    BY <1>2, <1>61, ConcatFacts
  <2> HIDE DEF De
  <2> QED  BY <1>2, <1>61, <2>1
<1>6. a \o D \in Seq(Char) /\ Len(a \o D) = 1 + d /\ (a \o D)[1] = m /\ D \o eol \in Seq(Char) /\ Len(D \o eol) = d + 2
  BY <1>62, <1>63
<1>7. M \in Seq(Char) /\ Len(M) = d + 3 /\ M[1] = m
  <2>1. aD \in Seq(Char) /\ Len(aD) = 1 + d /\ aD[1] = m /\ M = aD \o eol /\ 1 \in 1 .. 1 + d
    BY <1>5, <1>61, <1>62
  <2> HIDE DEF aD
  <2>2. M \in Seq(Char) /\ Len(M) = Len(aD) + Len(eol) /\ \A i \in 1 .. Len(aD) : M[i] = aD[i]
    <3>1. aD \in Seq(Char) /\ eol \in Seq(Char)
      BY <1>2, <2>1
    <3>2. /\ aD \o eol \in Seq(Char) /\ Len(aD \o eol) = Len(aD) + Len(eol)
          /\ \A i \in 1 .. Len(aD) : (aD \o eol)[i] = aD[i]
      BY <3>1, ConcatFacts
    <3> QED  BY <2>1, <3>2
  <2> QED  BY <1>2, <1>61, <2>1, <2>2
<1> HIDE DEF aD, De
<1>8. ASSUME NEW s \in Seq(Char), NEW q \in Nat, Has(s, q, M)
      PROVE  Find(s, q) = q + Len(M) - 1 /\ Stoi(Substr(s, q + 1, Len(M) - 1)) = n
  <2>1. Has(s, q, a \o D) /\ Has(s, q + Len(a \o D), eol)
    <3> DEFINE b == a \o D
    <3>1. b \in Seq(Char) /\ Has(s, q, b \o eol)
      BY <1>5, <1>6, <1>8
    <3> HIDE DEF b
    <3>2. Has(s, q, b) /\ Has(s, q + Len(b), eol)
      BY <1>2, <3>1, HasParts
    <3> QED  BY <3>2 DEF b
  <2>2. Has(s, q, a) /\ Has(s, q + 1, D)
    BY <1>3, <1>5, <2>1, HasParts
  <2>3. Has(s, q + 1 + d, eol)
    <3>1. q + Len(a \o D) = q + 1 + d
      BY <1>3, <1>6
    <3> QED  BY <2>1, <3>1
  <2>4. Has(s, q + 1, D \o eol)
    <3> DEFINE k == q + 1
    <3>1. k \in Nat /\ Has(s, k, D) /\ Has(s, k + Len(D), eol)
      BY <1>61, <2>2, <2>3
    <3> HIDE DEF k
    <3>2. Has(s, k, D \o eol)
      BY <1>2, <1>61, <3>1, HasParts
    <3> QED  BY <3>2 DEF k
  <2>5. Stoi(Substr(s, q + 1, Len(M) - 1)) = n
    <3> DEFINE k == q + 1
               e == Len(M) - 1
    <3>1. De \in Seq(Char) /\ e = Len(De) /\ Has(s, k, De)
      BY <1>61, <1>63, <1>7, <2>4 DEF De
    <3> HIDE DEF k, e
    <3>2. Substr(s, k, e) = De
      BY <3>1, SubstrAt
    <3> QED  BY <1>3, <3>2 DEF De, k, e
  <2>6. Find(s, q) = q + Len(M) - 1
    <3> DEFINE k == q + d + 3
    <3>1. k \in q + 1 .. Len(s)
      <4>1. q + 1 + d + 2 <= Len(s) /\ Len(s) \in Nat
        BY <1>2, <2>3 DEF Has
      <4> QED  BY <1>3, <4>1
    <3>2. s[k] = LF
      <4>1. 2 \in 1 .. Len(eol)
        BY <1>2
      <4>2. s[q + 1 + d + 2] = eol[2]
        BY <2>3, <4>1 DEF Has
      <4>3. q + 1 + d + 2 = k
        BY <1>3
      <4> QED  BY <1>2, <4>2, <4>3
    <3>3. ASSUME NEW i \in q + 1 .. k - 1 PROVE s[i] # LF
      <4>1. CASE i = q + 1
        <5>1. s[q + 1] = a[1]
          BY <1>5, <2>2 DEF Has
        <5> QED  BY <1>1, <1>5, <4>1, <5>1
      <4>2. CASE i \in q + 2 .. q + 1 + d
        <5> DEFINE j == i - (q + 1)
        <5>1. j \in 1 .. d /\ q + 1 + j = i
          BY <1>3, <4>2
        <5> HIDE DEF j
        <5>2. s[q + 1 + j] = D[j]
          BY <1>61, <2>2, <5>1 DEF Has
        <5> QED  BY <1>3, <5>1, <5>2
      <4>3. CASE i = q + 1 + d + 1
        <5>1. 1 \in 1 .. Len(eol)
          BY <1>2
        <5>2. s[q + 1 + d + 1] = eol[1]
          BY <2>3, <5>1 DEF Has
        <5> QED  BY <1>1, <1>2, <4>3, <5>2
      <4>4. i = q + 1 \/ i \in q + 2 .. q + 1 + d \/ i = q + 1 + d + 1
        BY <1>3
      <4> QED  BY <4>1, <4>2, <4>3, <4>4
    <3> HIDE DEF k
    <3>4. Find(s, q) = k - 1
      BY <3>1, <3>2, <3>3, FindAt
    <3>5. k - 1 = q + Len(M) - 1
      BY <1>3, <1>7 DEF k
    <3> QED  BY <3>4, <3>5
  <2> QED  BY <2>5, <2>6
<1>9. Len(M) \in 4 .. 5
  <2>1. d \in 1 .. 2
    BY <1>3 DEF d
  <2> QED  BY <1>7, <2>1
<1> QED  BY <1>7, <1>8, <1>9 DEF M

\* A word after its length.
Item(w) == Mark("$", Len(w)) \o w \o <<CR, LF>>

\* A word that follows its length is found, wherever it stands.
LEMMA ItemIs ==
  ASSUME NEW w \in Word, Len(w) < 100, NEW s \in Seq(Char), NEW q \in Nat, Has(s, q, Item(w))
  PROVE  LET M == Mark("$", Len(w)) IN
         /\ Len(M) \in 4 .. 5 /\ Len(Item(w)) = Len(M) + Len(w) + 2
         /\ Find(s, q) = q + Len(M) - 1 /\ Stoi(Substr(s, q + 1, Len(M) - 1)) = Len(w)
         /\ Substr(s, q + Len(M), Len(w)) = w
<1> DEFINE d == "$"
           n == Len(w)
           eol == <<CR, LF>>
           M == Mark(d, n)
<1>1. d \in {"*", "$"} /\ n \in 0 .. 99 /\ w \in Seq(Char) /\ Item(w) = (M \o w) \o eol
  <2>1. w \in Seq(Char)
    BY DEF Word
  <2>2. n \in Nat /\ n < 100
    BY <2>1
  <2>3. Item(w) = (M \o w) \o eol
    BY DEF Item
  <2> HIDE DEF n
  <2> QED  BY <2>1, <2>2, <2>3
<1>2. eol \in Seq(Char) /\ Len(eol) = 2
  BY CharAssumption
<1> HIDE DEF d, n, eol
<1>3. /\ M \in Seq(Char) /\ Len(M) \in 4 .. 5
      /\ (Has(s, q, M) => Find(s, q) = q + Len(M) - 1 /\ Stoi(Substr(s, q + 1, Len(M) - 1)) = n)
  <2>1. /\ M \in Seq(Char) /\ Len(M) \in 4 .. 5
        /\ \A x \in Seq(Char), y \in Nat : Has(x, y, M) =>
             Find(x, y) = y + Len(M) - 1 /\ Stoi(Substr(x, y + 1, Len(M) - 1)) = n
    BY <1>1, MarkIs
  <2> HIDE DEF M
  <2> QED  BY <2>1
<1> HIDE DEF M
<1> DEFINE h == M \o w
<1>4. h \in Seq(Char) /\ Len(h) = Len(M) + Len(w)
  BY <1>1, <1>3, ConcatFacts
<1>5. Has(s, q, h) = (Has(s, q, M) /\ Has(s, q + Len(M), w))
  BY <1>1, <1>3, HasParts
<1> HIDE DEF h
<1>6. Len(h \o eol) = Len(h) + Len(eol)
  BY <1>2, <1>4, ConcatFacts
<1>7. Has(s, q, h)
  <2>1. Has(s, q, h \o eol)
    BY <1>1 DEF h
  <2> QED  BY <1>2, <1>4, <2>1, HasParts
<1>8. Substr(s, q + Len(M), n) = w
  <2> DEFINE k == q + Len(M)
  <2>1. Has(s, k, w) /\ n = Len(w)
    BY <1>5, <1>7 DEF n
  <2> HIDE DEF k
  <2>2. Substr(s, k, n) = w
    BY <1>1, <2>1, SubstrAt
  <2> QED  BY <2>2 DEF k
<1>9. Len(Item(w)) = Len(M) + Len(w) + 2
  <2>1. Len(w) \in Nat /\ Len(M) \in Nat
    BY <1>1, <1>3
  <2>2. Item(w) = h \o eol
    BY <1>1 DEF h
  <2> QED  BY <1>2, <1>4, <1>6, <2>1, <2>2
<1> QED  BY <1>3, <1>5, <1>7, <1>8, <1>9 DEF M, d, n

\* One word is found.
LEMMA BulkStep ==
  ASSUME NEW b \in Seq(Char), NEW q \in Nat, NEW m \in Nat, m # 0, NEW p \in Seq(Word),
         NEW w \in Word, Len(w) < 100, Has(b, q, Item(w)), q + Len(Item(w)) < Len(b)
  PROVE  Bulks[Rec(b, 2, q, m, -1, p)] = Bulks[Rec(b, 2, q + Len(Item(w)), m - 1, -1, Append(p, w))]
<1> DEFINE c == Rec(b, 2, q, m, -1, p)
           M == Mark("$", Len(w))
<1>1. c \in Parser
  <2>1. 2 \in 0 .. 2 /\ -1 \in Nat \cup {-1} /\ p \in Seq(Seq(Char))
    BY DEF Word
  <2> QED  BY <2>1 DEF Parser, Rec
<1>2. /\ c.queryBuff = b /\ c.qryType = 2 /\ c.qry_pos = q /\ c.multiBulkCnt = m
      /\ c.bulkLen = -1 /\ c.paras = p
  BY DEF Rec
<1> HIDE DEF c
<1>3. /\ Len(M) \in 4 .. 5 /\ Len(Item(w)) = Len(M) + Len(w) + 2
      /\ Find(b, q) = q + Len(M) - 1 /\ Stoi(Substr(b, q + 1, Len(M) - 1)) = Len(w)
      /\ Substr(b, q + Len(M), Len(w)) = w
  BY ItemIs
<1> HIDE DEF M
<1>4. Len(M) \in Nat /\ Len(w) \in Nat /\ Len(M) > 2 /\ Len(b) \in Nat
  <2>1. Len(w) \in Nat
    BY DEF Word
  <2>2. Len(b) \in Nat
    OBVIOUS
  <2>3. \A k \in 4 .. 5 : k \in Nat /\ k > 2
    OBVIOUS
  <2> QED  BY <1>3, <2>1, <2>2, <2>3
<1>5. HeaderEnd(c) = q + Len(M) - 1 /\ HeaderEnd(c) # -1 /\ HeaderEnd(c) - c.qry_pos = Len(M) - 1 /\ HeaderEnd(c) - c.qry_pos > 1
  BY <1>2, <1>3, <1>4 DEF HeaderEnd
<1>6. WordLength(c) = Len(w) /\ WordLength(c) # -1
  <2>1. WordLength(c) = Stoi(Substr(b, q + 1, Len(M) - 1))
    BY <1>2, <1>5 DEF WordLength, Number
  <2> QED  BY <1>3, <1>4, <2>1
<1>7. WordAt(c) = q + Len(M)
  <2>1. WordAt(c) = HeaderEnd(c) + 1
    BY <1>2 DEF WordAt
  <2> QED  BY <1>4, <1>5, <2>1
<1>8. WordAt(c) + WordLength(c) + 2 = q + Len(Item(w)) /\ ~ (WordAt(c) + WordLength(c) + 2 >= Len(c.queryBuff))
  <2>1. WordAt(c) + WordLength(c) + 2 = q + Len(Item(w)) /\ q + Len(Item(w)) \in Nat
    BY <1>3, <1>4, <1>6, <1>7
  <2> QED  BY <1>2, <1>4, <2>1
<1>9. After(c) = Rec(b, 2, q + Len(Item(w)), m - 1, -1, Append(p, w))
  <2>1. Substr(c.queryBuff, WordAt(c), WordLength(c)) = w
    BY <1>2, <1>3, <1>6, <1>7
  <2> QED  BY <1>2, <1>8, <2>1 DEF After
<1>10. BulksOf(c, Bulks) = Bulks[After(c)]
  BY <1>2, <1>5, <1>6, <1>8 DEF BulksOf
<1>11. Bulks[c] = BulksOf(c, Bulks)
  BY <1>1, BulksRule
<1> QED  BY <1>9, <1>10, <1>11 DEF c

\* A word with its length is text.
LEMMA ItemTyped ==
  ASSUME NEW w \in Word, Len(w) < 100
  PROVE  Item(w) \in Seq(Char)
<1> DEFINE d == "$"
           n == Len(w)
           eol == <<CR, LF>>
           M == Mark(d, n)
<1>1. d \in {"*", "$"} /\ Item(w) = (M \o w) \o eol /\ n \in Nat
  BY DEF Word, Item
<1>2. eol \in Seq(Char) /\ w \in Seq(Char)
  BY CharAssumption DEF Word
<1>3. n < 100
  OBVIOUS
<1> HIDE DEF d, n, eol
<1>4. n \in 0 .. 99
  BY <1>1, <1>3
<1>5. M \in Seq(Char)
  BY <1>1, <1>4, MarkIs
<1> HIDE DEF M
<1>6. M \o w \in Seq(Char)
  BY <1>2, <1>5
<1> DEFINE h == M \o w
<1> HIDE DEF h
<1>7. h \o eol \in Seq(Char)
  BY <1>2, <1>6 DEF h
<1> QED  BY <1>1, <1>7 DEF h

\* What has a text has the beginning of it.
LEMMA HasBegin ==
  ASSUME NEW s \in Seq(Char), NEW k, NEW x \in Seq(Char), Has(s, k, x),
         NEW y \in Seq(Char), Len(y) <= Len(x), \A i \in 1 .. Len(y) : x[i] = y[i]
  PROVE  Has(s, k, y)
<1>1. Len(x) \in Nat /\ Len(y) \in Nat /\ Len(s) \in Nat
  OBVIOUS
<1>2. k \in Nat /\ k + Len(x) <= Len(s) /\ \A i \in 1 .. Len(x) : s[k + i] = x[i]
  BY DEF Has
<1>3. k + Len(y) <= Len(s)
  BY <1>1, <1>2
<1>4. ASSUME NEW i \in 1 .. Len(y) PROVE s[k + i] = y[i]
  <2>1. i \in 1 .. Len(x)
    BY <1>1
  <2> QED  BY <1>2, <2>1
<1> QED  BY <1>2, <1>3, <1>4 DEF Has

Items(words) == [i \in 1 .. Len(words) |-> Item(words[i])]

\* What can be written with its lengths.
IsShortText(words) ==
  words \in Seq(Word) /\ words # <<>> /\ Len(words) < 100 /\ \A i \in 1 .. Len(words) : Len(words[i]) < 100

\* So are all of them.
LEMMA ItemsTyped ==
  ASSUME NEW words, IsShortText(words)
  PROVE  Items(words) \in Seq(Seq(Char)) /\ Len(Items(words)) = Len(words)
         /\ \A i \in 1 .. Len(words) : Items(words)[i] = Item(words[i])
<1>1. words \in Seq(Word) /\ Len(words) \in Nat
  BY DEF IsShortText
<1>2. \A i \in 1 .. Len(words) : Item(words[i]) \in Seq(Char)
  <2> SUFFICES ASSUME NEW i \in 1 .. Len(words) PROVE Item(words[i]) \in Seq(Char)
    OBVIOUS
  <2>1. words[i] \in Word /\ Len(words[i]) < 100
    BY <1>1 DEF IsShortText
  <2> QED  BY <2>1, ItemTyped
<1> QED  BY <1>1, <1>2 DEF Items

\* All words are found.
LEMMA BulkRun ==
  ASSUME NEW words, IsShortText(words), NEW b \in Seq(Char), NEW H \in Nat,
         Has(b, H, FlattenSeq(Items(words))), H + Len(FlattenSeq(Items(words))) < Len(b)
  PROVE  Bulks[Rec(b, 2, H, Len(words), -1, <<>>)]
           = Bulks[Rec(b, 2, H + Len(FlattenSeq(Items(words))), 0, -1, words)]
<1> DEFINE n == Len(words)
           items == Items(words)
           F(k) == FlattenSeq(Prefix(items, k))
           S(k) == Rec(b, 2, H + Len(F(k)), n - k, -1, Prefix(words, k))
           T == {k \in Nat : k <= n => Bulks[S(k)] = Bulks[S(0)]}
<1>1. words \in Seq(Word) /\ n \in Nat /\ items \in Seq(Seq(Char)) /\ Len(items) = n
      /\ (\A i \in 1 .. n : items[i] = Item(words[i])) /\ Len(b) \in Nat
      /\ \A i \in 1 .. n : words[i] \in Word /\ Len(words[i]) < 100
  <2>1. words \in Seq(Word)
    BY DEF IsShortText
  <2> QED  BY <2>1, ItemsTyped DEF IsShortText
<1> HIDE DEF n, items
<1>2. \A k \in 0 .. n : F(k) \in Seq(Char)
  <2> HIDE DEF F
  <2> QED  BY <1>1, JoinedPrefix DEF F
<1>3. F(n) = FlattenSeq(Items(words)) /\ n \in 0 .. n
  <2>1. Prefix(items, Len(items)) = items /\ n \in 0 .. n
    BY <1>1, PrefixFacts
  <2> QED  BY <1>1, <2>1 DEF items
<1>4. ASSUME NEW k \in Nat, NEW j \in Nat, j < k, k <= j + 1, k <= n
      PROVE  Bulks[S(k)] = Bulks[S(j)]
  <2>1. k \in 1 .. n /\ j \in 0 .. n /\ k \in 0 .. n /\ k = j + 1
    BY <1>1, <1>4
  <2>2. F(k) = F(j) \o items[k] /\ F(k) \in Seq(Char) /\ F(j) \in Seq(Char)
    BY <1>1, <1>4, <2>1, JoinOneMore
  <2> DEFINE w == words[k]
             u == F(k)
             v == F(j)
             q == H + Len(v)
             m == n - j
             p == Prefix(words, j)
  <2>3. w \in Word /\ Len(w) < 100 /\ items[k] = Item(w) /\ Item(w) \in Seq(Char)
    <3>1. w \in Word /\ Len(w) < 100 /\ items[k] = Item(w)
      BY <1>1, <2>1
    <3> HIDE DEF w
    <3> QED  BY <3>1, ItemTyped
  <2> HIDE DEF w
  <2>4. Has(b, H, u)
    <3> DEFINE x == F(n)
    <3>1. Len(u) <= Len(x) /\ \A i \in 1 .. Len(u) : x[i] = u[i]
      <4>1. k \in 0 .. Len(items) /\ n \in k .. Len(items)
        BY <1>1, <2>1
      <4> HIDE DEF u, x
      <4> QED  BY <1>1, <4>1, JoinedBegins DEF u, x
    <3>2. x \in Seq(Char) /\ u \in Seq(Char) /\ Has(b, H, x)
      BY <1>2, <1>3, <2>1
    <3> HIDE DEF u, x
    <3> QED  BY <3>1, <3>2, HasBegin
  <2>5. u = v \o Item(w) /\ v \in Seq(Char) /\ u \in Seq(Char)
    BY <2>2, <2>3
  <2> HIDE DEF F
  <2>61. Has(b, H, v \o Item(w))
    BY <2>4, <2>5
  <2>62. Len(v \o Item(w)) = Len(v) + Len(Item(w)) /\ Len(v) \in Nat /\ Len(Item(w)) \in Nat
    <3> HIDE DEF v
    <3> QED  BY <2>3, <2>5, ConcatFacts
  <2>6. Has(b, q, Item(w)) /\ Len(u) = Len(v) + Len(Item(w)) /\ Len(v) \in Nat /\ Len(Item(w)) \in Nat
    <3>1. Has(b, H + Len(v), Item(w))
      <4> HIDE DEF v
      <4> QED  BY <2>3, <2>5, <2>61, HasParts
    <3> QED  BY <2>5, <2>62, <3>1
  <2>7. q \in Nat /\ q + Len(Item(w)) = H + Len(u) /\ m \in Nat /\ m # 0 /\ m - 1 = n - k
    <3> HIDE DEF u, v
    <3> QED  BY <1>1, <2>1, <2>6
  <2>8. H + Len(u) < Len(b)
    <3>1. Len(u) <= Len(F(n)) /\ Len(F(n)) \in Nat /\ Len(u) \in Nat
      <4>1. k \in 0 .. Len(items) /\ n \in k .. Len(items)
        BY <1>1, <2>1
      <4>2. Len(u) <= Len(F(n))
        BY <1>1, <4>1, JoinedBegins DEF u, F
      <4>3. F(n) \in Seq(Char)
        BY <1>2, <1>3
      <4> QED  BY <2>5, <4>2, <4>3
    <3>2. H + Len(F(n)) < Len(b)
      BY <1>3
    <3> DEFINE a == Len(u)
               e == Len(F(n))
    <3>3. a <= e /\ a \in Nat /\ e \in Nat /\ H + e < Len(b)
      BY <3>1, <3>2
    <3> HIDE DEF a, e
    <3>4. H + a < Len(b)
      BY <1>1, <3>3
    <3> QED  BY <3>4 DEF a
  <2>9. p \in Seq(Word) /\ Append(p, w) = Prefix(words, k)
    <3> DEFINE r == Prefix(words, k)
               t == Append(p, w)
    <3>0. j \in 0 .. Len(words) /\ k \in 0 .. Len(words)
      BY <2>1 DEF n
    <3>01. p \in Seq(Word) /\ Len(p) = j /\ (\A i \in 1 .. j : p[i] = words[i])
      BY <1>1, <3>0, PrefixFacts
    <3>02. r \in Seq(Word) /\ Len(r) = k /\ (\A i \in 1 .. k : r[i] = words[i])
      BY <1>1, <3>0, PrefixFacts
    <3>1. p \in Seq(Word) /\ Len(p) = j /\ (\A i \in 1 .. j : p[i] = words[i])
          /\ r \in Seq(Word) /\ Len(r) = k /\ (\A i \in 1 .. k : r[i] = words[i])
      BY <3>01, <3>02
    <3> HIDE DEF p, r
    <3>2. t \in Seq(Word) /\ Len(t) = j + 1 /\ (\A i \in 1 .. j : t[i] = p[i]) /\ t[j + 1] = w
      BY <2>3, <3>1
    <3> HIDE DEF t
    <3>3. \A i \in 1 .. k : t[i] = r[i]
      <4> SUFFICES ASSUME NEW i \in 1 .. k PROVE t[i] = r[i]
        OBVIOUS
      <4>1. i \in 1 .. j \/ i = j + 1
        BY <2>1
      <4> QED  BY <2>1, <3>1, <3>2, <4>1 DEF w
    <3>4. t = r
      BY <2>1, <3>1, <3>2, <3>3
    <3> QED  BY <3>1, <3>4 DEF t, r
  <2>10. Bulks[Rec(b, 2, q, m, -1, p)] = Bulks[Rec(b, 2, q + Len(Item(w)), m - 1, -1, Append(p, w))]
    <3>1. q + Len(Item(w)) < Len(b)
      BY <2>7, <2>8
    <3>2. /\ b \in Seq(Char) /\ q \in Nat /\ m \in Nat /\ m # 0 /\ p \in Seq(Word) /\ w \in Word
          /\ Len(w) < 100 /\ Has(b, q, Item(w))
      BY <2>3, <2>6, <2>7, <2>9
    <3> HIDE DEF q, m, p
    <3> QED  BY <3>1, <3>2, BulkStep
  <2>11. q = H + Len(F(j)) /\ q + Len(Item(w)) = H + Len(F(k)) /\ m = n - j /\ m - 1 = n - k
         /\ p = Prefix(words, j) /\ Append(p, w) = Prefix(words, k)
    BY <2>7, <2>9
  <2> HIDE DEF q, m, p
  <2> QED  BY <2>10, <2>11
<1>5. \A k \in 0 .. n : Bulks[S(k)] = Bulks[S(0)]
  <2>1. 0 \in T
    OBVIOUS
  <2>2. ASSUME NEW k \in T PROVE k + 1 \in T
    <3> DEFINE e == k + 1
    <3>1. k \in Nat /\ e \in Nat /\ k < e /\ e <= k + 1
      OBVIOUS
    <3>2. e <= n => k <= n
      BY <1>1
    <3> HIDE DEF S, e
    <3>3. e <= n => Bulks[S(e)] = Bulks[S(k)]
      BY <1>4, <3>1
    <3>4. e \in T
      BY <3>1, <3>2, <3>3
    <3> QED  BY <3>4 DEF e
  <2> HIDE DEF T
  <2>3. Nat \subseteq T
    BY <2>1, <2>2, EveryNumber
  <2> HIDE DEF S
  <2> QED  BY <1>1, <2>3 DEF T
<1>6. S(0) = Rec(b, 2, H, n, -1, <<>>)
  <2> DEFINE o == 0
  <2>1. o \in 0 .. Len(words) /\ o \in 0 .. Len(items) /\ o = 0
    BY <1>1 DEF n
  <2> HIDE DEF o
  <2>2. Prefix(words, o) = <<>> /\ F(o) = <<>>
    BY <1>1, <2>1, PrefixFacts, JoinedPrefix
  <2>3. Len(F(o)) = 0 /\ H + 0 = H /\ n - o = n
    BY <1>1, <2>1, <2>2
  <2> HIDE DEF F
  <2> QED  BY <2>1, <2>2, <2>3
<1>7. S(n) = Rec(b, 2, H + Len(FlattenSeq(Items(words))), 0, -1, words)
  <2>1. Prefix(words, n) = words
    BY <1>1, PrefixFacts DEF n
  <2>2. n - n = 0
    BY <1>1
  <2> HIDE DEF F
  <2> QED  BY <1>3, <2>1, <2>2
<1> HIDE DEF S
<1> QED  BY <1>3, <1>5, <1>6, <1>7 DEF n

Array(words) == Bulk(words, <<CR, LF>>)

\* An array is the number of its words and the words with their lengths.
LEMMA ArrayIs ==
  ASSUME NEW words, IsShortText(words)
  PROVE  LET h == Mark("*", Len(words))
             x == FlattenSeq(Items(words))
         IN  /\ Array(words) = h \o x /\ Array(words) \in Seq(Char) /\ Array(words)[1] = "*"
             /\ h \in Seq(Char) /\ x \in Seq(Char) /\ Len(h) \in 4 .. 5
             /\ \A s \in Seq(Char) : Has(s, 0, h) =>
                  Find(s, 0) = Len(h) - 1 /\ Stoi(Substr(s, 1, Len(h) - 1)) = Len(words)
<1> DEFINE d == "*"
           n == Len(words)
           h == Mark(d, n)
           x == FlattenSeq(Items(words))
           o == 0
<1>1. d \in {"*", "$"} /\ n \in 0 .. 99
  <2>1. n \in Nat /\ n < 100
    BY DEF IsShortText
  <2> HIDE DEF n
  <2> QED  BY <2>1
<1>2. Array(words) = h \o x
  BY DEF Array, Bulk, Mark, Items, Item
<1>3. x \in Seq(Char)
  <2> DEFINE items == Items(words)
             k == Len(items)
  <2>1. items \in Seq(Seq(Char))
    BY ItemsTyped
  <2>2. k \in 0 .. Len(items) /\ Prefix(items, Len(items)) = items
    <3> HIDE DEF items
    <3>1. k \in 0 .. Len(items)
      BY <2>1
    <3> QED  BY <2>1, <3>1, PrefixFacts
  <2> HIDE DEF items
  <2>3. FlattenSeq(Prefix(items, k)) \in Seq(Char)
    <3> HIDE DEF k
    <3> QED  BY <2>1, <2>2, JoinedPrefix
  <2> QED  BY <2>2, <2>3 DEF items
<1>4. o \in Nat /\ o = 0
  OBVIOUS
<1> HIDE DEF d, n, x, o
<1>5. h \in Seq(Char) /\ Len(h) \in 4 .. 5 /\ h[1] = d
  BY <1>1, MarkIs
<1>6. ASSUME NEW s \in Seq(Char), Has(s, o, h)
      PROVE  Find(s, o) = o + Len(h) - 1 /\ Stoi(Substr(s, o + 1, Len(h) - 1)) = n
  <2>1. \A t \in Seq(Char), q \in Nat : Has(t, q, h) =>
          Find(t, q) = q + Len(h) - 1 /\ Stoi(Substr(t, q + 1, Len(h) - 1)) = n
    BY <1>1, MarkIs
  <2> HIDE DEF h
  <2> QED  BY <1>4, <1>6, <2>1
<1> HIDE DEF h
<1>7. \A s \in Seq(Char) : Has(s, 0, h) =>
        Find(s, 0) = Len(h) - 1 /\ Stoi(Substr(s, 1, Len(h) - 1)) = n
  <2> SUFFICES ASSUME NEW s \in Seq(Char), Has(s, 0, h)
               PROVE  Find(s, 0) = Len(h) - 1 /\ Stoi(Substr(s, 1, Len(h) - 1)) = n
    OBVIOUS
  <2>1. Find(s, o) = o + Len(h) - 1 /\ Stoi(Substr(s, o + 1, Len(h) - 1)) = n
    BY <1>4, <1>6
  <2>2. o + Len(h) - 1 = Len(h) - 1 /\ o + 1 = 1
    BY <1>4, <1>5
  <2> QED  BY <1>4, <2>1, <2>2
<1>8. Array(words) \in Seq(Char) /\ Array(words)[1] = d
  <2>1. h \o x \in Seq(Char) /\ \A i \in 1 .. Len(h) : (h \o x)[i] = h[i]
    BY <1>3, <1>5, ConcatFacts
  <2>2. 1 \in 1 .. Len(h)
    BY <1>5
  <2> QED  BY <1>2, <1>5, <2>1, <2>2
<1> QED  BY <1>2, <1>3, <1>5, <1>7, <1>8 DEF d, n, h, x

\* A text has its beginning.
LEMMA HasFront ==
  ASSUME NEW u \in Seq(Char), NEW v \in Seq(Char)
  PROVE  Has(u \o v, 0, u)
<1> DEFINE s == u \o v
<1>1. Len(s) = Len(u) + Len(v) /\ Len(u) \in Nat /\ Len(v) \in Nat /\ \A i \in 1 .. Len(u) : s[i] = u[i]
  BY ConcatFacts
<1> HIDE DEF s
<1>2. 0 \in Nat /\ 0 + Len(u) <= Len(s) /\ \A i \in 1 .. Len(u) : s[0 + i] = u[i]
  BY <1>1
<1>3. Has(s, 0, u)
  BY <1>2 DEF Has
<1> QED  BY <1>3 DEF s

\* Words that are written with their lengths are read as they are.
LEMMA ArrayIsRead ==
  ASSUME NEW words, IsShortText(words), NEW r \in Seq(Char), r # <<>>
  PROVE  LET buff == Array(words) \o r IN
         /\ buff \in Seq(Char)
         /\ Parsed[Holding(buff, 2)] = Result(Given(r, words), "task")
<1> DEFINE a == Array(words)
           buff == a \o r
           n == Len(words)
           h == Mark("*", n)
           x == FlattenSeq(Items(words))
           c == Holding(buff, 2)
           d == Rec(buff, 2, Len(h), n, -1, <<>>)
<1>1. /\ a = h \o x /\ a \in Seq(Char) /\ h \in Seq(Char) /\ x \in Seq(Char) /\ Len(h) \in 4 .. 5
      /\ \A s \in Seq(Char) : Has(s, 0, h) =>
           Find(s, 0) = Len(h) - 1 /\ Stoi(Substr(s, 1, Len(h) - 1)) = n
  BY ArrayIs
<1>2. n \in Nat /\ n # 0 /\ words \in Seq(Word)
  BY DEF IsShortText
<1> HIDE DEF a, n, h, x
<1>3. buff \in Seq(Char) /\ Len(buff) = Len(a) + Len(r) /\ Len(a) \in Nat /\ Len(r) \in Nat /\ Len(r) # 0
      /\ Has(buff, 0, a)
  <2>1. Len(r) # 0
    OBVIOUS
  <2> QED  BY <1>1, <2>1, ConcatFacts, HasFront
<1> HIDE DEF buff
<1>4. Len(a) = Len(h) + Len(x) /\ Len(h) \in Nat /\ Len(x) \in Nat
  BY <1>1, ConcatFacts
<1>5. Has(buff, 0, h) /\ Has(buff, Len(h), x)
  <2> DEFINE o == 0
  <2>1. Has(buff, o, h \o x) /\ o \in Nat
    BY <1>1, <1>3
  <2> HIDE DEF o
  <2>2. Has(buff, o, h) /\ Has(buff, o + Len(h), x)
    BY <1>1, <1>3, <2>1, HasParts
  <2>3. o = 0 /\ o + Len(h) = Len(h)
    BY <1>4 DEF o
  <2> QED  BY <2>2, <2>3
<1>6. Find(buff, 0) = Len(h) - 1 /\ Stoi(Substr(buff, 1, Len(h) - 1)) = n
  BY <1>1, <1>3, <1>5
<1>7. /\ c \in Parser /\ c.queryBuff = buff /\ c.qryType = 2 /\ c.qry_pos = 0 /\ c.multiBulkCnt = 0
  <2>1. c \in Parser
    BY <1>3, HoldingIs
  <2> QED  BY <2>1 DEF Holding, Rec
<1>8. c = Rec(buff, 2, 0, 0, -1, <<>>)
  BY DEF Holding
<1>9. [c EXCEPT !.multiBulkCnt = n, !.qry_pos = Len(h)] = d
  <2> DEFINE k == Len(h)
             o == 0
             l == -1
             t == 2
             e == <<>>
  <2>1. c = Rec(buff, t, o, o, l, e) /\ d = Rec(buff, t, k, n, l, e)
    BY <1>8
  <2> HIDE DEF c, d, k, o, l, t, e
  <2>2. SetPos(SetCnt(c, n), k) = d
    BY <2>1, RecSet
  <2>3. [c EXCEPT !.multiBulkCnt = n, !.qry_pos = k] = d
    BY <2>2 DEF SetPos, SetCnt
  <2> QED  BY <2>3 DEF k
<1>10. LET p == [c EXCEPT !.qry_pos = 0] IN p.queryBuff = buff /\ p.qry_pos = 0
  BY <1>8 DEF Rec
<1>11. d.qry_pos = Len(h)  /\ d.queryBuff = buff
  BY DEF Rec
<1> HIDE DEF c, d
<1>12. parseBulkQuery(c) = Bulks[d]
  <2> DEFINE pos == Find(c.queryBuff, 0)
             cnt == Number([c EXCEPT !.qry_pos = 0], pos, 0)
  <2>1. pos = Len(h) - 1 /\ pos # -1 /\ pos - 0 > 1 /\ pos - 0 = Len(h) - 1 /\ 0 + 1 = 1 /\ pos + 1 = Len(h)
    <3>1. pos = Len(h) - 1
      BY <1>6, <1>7
    <3> DEFINE k == Len(h)
    <3>2. k \in Nat /\ k > 2 /\ pos = k - 1
      <4>1. \A j \in 4 .. 5 : j \in Nat /\ j > 2
        OBVIOUS
      <4> QED  BY <1>1, <3>1, <4>1
    <3> HIDE DEF k, pos
    <3>3. pos # -1 /\ pos - 0 > 1 /\ pos - 0 = k - 1 /\ 0 + 1 = 1 /\ pos + 1 = k
      BY <3>2
    <3> QED  BY <3>1, <3>3 DEF k
  <2>2. cnt = n
    <3> DEFINE p == [c EXCEPT !.qry_pos = 0]
    <3>1. p.queryBuff = buff /\ p.qry_pos = 0
      BY <1>10
    <3> HIDE DEF p, pos
    <3>2. Number(p, pos, 0) = Stoi(Substr(buff, 1, Len(h) - 1))
      BY <2>1, <3>1 DEF Number
    <3> QED  BY <1>6, <3>2 DEF p
  <2> HIDE DEF cnt
  <2>3. cnt # -1
    BY <1>2, <2>2
  <2>4. ~ (d.qry_pos >= Len(d.queryBuff))
    BY <1>3, <1>4, <1>11
  <2>5. parseBulkQuery(c) =
          IF pos = -1 THEN Result(c, "wait")
          ELSE IF cnt = -1 THEN Result(c, "throw")
          ELSE IF [c EXCEPT !.multiBulkCnt = cnt, !.qry_pos = pos + 1].qry_pos
                    >= Len([c EXCEPT !.multiBulkCnt = cnt, !.qry_pos = pos + 1].queryBuff)
               THEN Result([c EXCEPT !.multiBulkCnt = cnt, !.qry_pos = pos + 1], "wait")
          ELSE Bulks[[c EXCEPT !.multiBulkCnt = cnt, !.qry_pos = pos + 1]]
    BY <1>7 DEF parseBulkQuery, cnt
  <2>6. [c EXCEPT !.multiBulkCnt = cnt, !.qry_pos = pos + 1] = d
    BY <1>9, <2>1, <2>2
  <2> HIDE DEF pos
  <2> QED  BY <2>1, <2>3, <2>4, <2>5, <2>6
<1>13. Bulks[d] = Bulks[Rec(buff, 2, Len(h) + Len(x), 0, -1, words)]
  <2> DEFINE H == Len(h)
  <2>1. H \in Nat /\ Has(buff, H, x) /\ H + Len(x) < Len(buff)
    BY <1>3, <1>4, <1>5
  <2> HIDE DEF H
  <2>2. Bulks[Rec(buff, 2, H, Len(words), -1, <<>>)]
          = Bulks[Rec(buff, 2, H + Len(FlattenSeq(Items(words))), 0, -1, words)]
    BY <1>3, <2>1, BulkRun DEF x
  <2> QED  BY <2>2 DEF H, n, x, d
<1>14. Bulks[Rec(buff, 2, Len(h) + Len(x), 0, -1, words)] = Result(Given(r, words), "task")
  <2> DEFINE e == Rec(buff, 2, Len(h) + Len(x), 0, -1, words)
             k == Len(h) + Len(x)
  <2>1. e \in Parser
    <3>1. k \in Nat /\ 0 \in Nat /\ -1 \in Nat \cup {-1} /\ 2 \in 0 .. 2 /\ words \in Seq(Seq(Char))
      BY <1>2, <1>4 DEF Word
    <3> HIDE DEF k
    <3>2. Rec(buff, 2, k, 0, -1, words) \in Parser
      BY <1>3, <3>1 DEF Rec, Parser
    <3> QED  BY <3>2 DEF k
  <2>2. e.queryBuff = buff /\ e.qry_pos = k /\ e.multiBulkCnt = 0 /\ e.bulkLen = -1 /\ e.paras = words
    BY DEF Rec
  <2>3. k = Len(a)
    BY <1>4
  <2> HIDE DEF e, k
  <2>4. Erase(buff, Len(a)) = r
    <3> HIDE DEF a
    <3> QED  BY <1>1, BehindJoined DEF buff
  <2>5. Bulks[e] = BulksOf(e, Bulks)
    BY <2>1, BulksRule
  <2>6. BulksOf(e, Bulks) = Result(Done(e), "task")
    BY <2>2 DEF BulksOf
  <2>7. Done(e) = Given(r, words)
    BY <2>2, <2>3, <2>4 DEF Done, Given
  <2> QED  BY <2>5, <2>6, <2>7 DEF e
<1>15. Parsed[c] = parseBulkQuery(c)
  BY <1>7 DEF Parsed
<1> QED  BY <1>3, <1>12, <1>13, <1>14, <1>15 DEF buff, a, c

-----------------------------------------------------------------------------
(* Requests, as they are written and read.                                 *)

(* What a batch says is short enough to be written, and does not begin like  *)
(* an array.                                                                *)
LEMMA RequestWords ==
  ASSUME NEW batch \in Batches
  PROVE  LET words == Says(batch) IN
         IsShortText(words) /\ words[1] # <<>> /\ words[1][1] # "*"
<1>1. /\ batch \in Seq(Command) /\ batch # <<>> /\ Len(Says(batch)) < 100
      /\ \A i \in 1 .. Len(Says(batch)) : Len(Says(batch)[i]) < 100
  BY BatchAssumption
<1> DEFINE o == 0
           n == 1
           c == batch[n]
           w == WordsOf(c)
           words == Says(batch)
<1>2. o \in Nat /\ n \in 1 .. Len(batch) /\ o < n /\ n <= o + 1 /\ c \in Command /\ o = 0
  BY <1>1
<1>3. Says(Prefix(batch, o)) = <<>>
  BY <1>1, SaysEnds
<1> HIDE DEF o, n
<1>4. /\ Len(Says(Prefix(batch, o))) \in Nat /\ words \in Seq(Word)
      /\ Len(Says(Prefix(batch, o))) + Len(w) <= Len(words)
      /\ \A i \in 1 .. Len(w) : words[Len(Says(Prefix(batch, o))) + i] = w[i]
  BY <1>1, <1>2, CommandAt
<1>5. Len(w) \in {2, 3} /\ w[1] = Spelled[c.op] /\ c.op \in {"set", "get", "del"}
  BY <1>2, CommandWords
<1> HIDE DEF w, words
<1>6. Len(words) \in Nat /\ Len(words) >= 2 /\ words[1] = w[1] /\ words # <<>>
  <2> DEFINE k == Len(Says(Prefix(batch, o)))
  <2>1. k = 0
    BY <1>3
  <2> HIDE DEF k
  <2>2. k + Len(w) <= Len(words) /\ \A i \in 1 .. Len(w) : words[k + i] = w[i]
    BY <1>4 DEF k
  <2>3. 1 \in 1 .. Len(w) /\ Len(w) >= 2 /\ Len(w) \in Nat
    BY <1>5
  <2>4. words[k + 1] = w[1] /\ k + 1 = 1 /\ Len(words) \in Nat
    BY <1>4, <2>1, <2>2, <2>3
  <2>5. Len(words) >= 2
    BY <1>4, <2>1, <2>2, <2>3
  <2>6. words # <<>>
    BY <2>5
  <2> QED  BY <2>4, <2>5, <2>6
<1>7. Spelled[c.op] # <<>> /\ Spelled[c.op][1] # "*"
  <2>1. \A op \in {"set", "get", "del"} : Spelled[op] # <<>> /\ Spelled[op][1] # "*"
    BY DEF Spelled
  <2> QED  BY <1>5, <2>1
<1>8. IsShortText(words)
  BY <1>1, <1>4, <1>6 DEF IsShortText, words
<1> QED  BY <1>5, <1>6, <1>7, <1>8 DEF words

\* A text that is a line.
LineOf(text, words) ==
  \E b \in Seq(Char \ {LF}) : text = b \o <<LF>> /\ b # <<>> /\ b[1] # "*" /\ Words[b] = words

\* The words of a request that is written as a line are those of the line.
LEMMA TextOfLine ==
  ASSUME NEW words, IsShortText(words), words[1][1] # "*", NEW form \in {"line", "crlf"},
         \A i \in 1 .. Len(words) : Plain(words[i])
  PROVE  LineOf(Text(form, words), words)
<1> DEFINE L == Tail(FlattenSeq(Pieces(words)))
           t == IF form = "line" THEN <<>> ELSE <<CR>>
           b == L \o t
           P == Char \ {LF}
<1>1. words \in Seq(Word) /\ words # <<>> /\ t \in {<<>>, <<CR>>}
  BY DEF IsShortText
<1>2. L \in Seq(P) /\ L # <<>> /\ L[1] = words[1][1] /\ Words[L \o t] = words
  <2> HIDE DEF t
  <2> QED  BY <1>1, LineWords
<1>3. Text(form, words) = IF form = "line" THEN L \o <<LF>> ELSE L \o <<CR, LF>>
  BY DEF Text, Pieces
<1>4. CR \in P /\ LF \in Char /\ t \in Seq(P)
  <2>1. CR # LF
    BY DEF CR, LF
  <2>2. CR \in P /\ LF \in Char
    BY <2>1, CharAssumption
  <2> HIDE DEF P
  <2> QED  BY <2>2
<1> HIDE DEF L, P
<1>5. Text(form, words) = b \o <<LF>>
  <2>1. L \in Seq(Char) /\ CR \in Char
    BY <1>2, <1>4 DEF P
  <2>2. L \o <<>> = L
    BY <2>1
  <2>3. (L \o <<CR>>) \o <<LF>> = L \o <<CR, LF>>
    <3> DEFINE x == <<CR>>
               y == <<LF>>
    <3>1. x \in Seq(Char) /\ y \in Seq(Char) /\ L \in Seq(Char)
      BY <1>4, <2>1
    <3>2. x \o y = <<CR, LF>>
      BY <1>4, <2>1, ConcatOfTwo
    <3> HIDE DEF x, y
    <3>3. (L \o x) \o y = L \o (x \o y)
      BY <3>1, ConcatAssociative
    <3> QED  BY <3>2, <3>3 DEF x, y
  <2> QED  BY <1>3, <2>2, <2>3
<1>6. b \in Seq(P) /\ b # <<>> /\ b[1] = L[1]
  <2> HIDE DEF t
  <2>1. /\ L \o t \in Seq(P) /\ Len(L \o t) = Len(L) + Len(t) /\ Len(L) \in Nat /\ Len(t) \in Nat
        /\ \A i \in 1 .. Len(L) : (L \o t)[i] = L[i]
    BY <1>2, <1>4, ConcatFacts
  <2>2. Len(L) # 0
    BY <1>2
  <2> HIDE DEF L
  <2>3. 1 \in 1 .. Len(L) /\ Len(L \o t) # 0
    BY <2>1, <2>2
  <2>4. L \o t # <<>> /\ (L \o t)[1] = L[1]
    BY <2>1, <2>3
  <2> QED  BY <2>1, <2>4
<1> HIDE DEF b
<1>7. Words[b] = words
  BY <1>2 DEF b
<1> QED  BY <1>2, <1>5, <1>6, <1>7 DEF LineOf, P

\* A line ends where its line feed is.
LEMMA LineTyped ==
  ASSUME NEW b \in Seq(Char \ {LF})
  PROVE  /\ b \o <<LF>> \in Seq(Char) /\ b \o <<LF>> # <<>> /\ EndsLine(b \o <<LF>>)
         /\ Len(b \o <<LF>>) = Len(b) + 1 /\ \A i \in 1 .. Len(b) : (b \o <<LF>>)[i] = b[i]
<1> DEFINE t == <<LF>>
           s == b \o t
<1>1. b \in Seq(Char) /\ LF \in Char /\ Len(b) \in Nat /\ \A i \in 1 .. Len(b) : b[i] # LF
  BY CharAssumption
<1>2. t \in Seq(Char) /\ Len(t) = 1 /\ t[1] = LF
  BY <1>1
<1> HIDE DEF t
<1>3. s \in Seq(Char) /\ Len(s) = Len(b) + 1 /\ (\A i \in 1 .. Len(b) : s[i] = b[i])
      /\ \A i \in 1 .. Len(t) : s[Len(b) + i] = t[i]
  BY <1>1, <1>2, ConcatFacts
<1> HIDE DEF s
<1>4. s # <<>> /\ s[Len(b) + 1] = LF
  <2>1. 1 \in 1 .. Len(t)
    BY <1>2
  <2>2. s[Len(b) + 1] = LF
    BY <1>2, <1>3, <2>1
  <2>3. s # <<>>
    BY <1>1, <1>3
  <2> QED  BY <2>2, <2>3
<1>5. EndsLine(s)
  <2> SUFFICES ASSUME NEW i \in 1 .. Len(s) PROVE (s[i] = LF) = (i = Len(s))
    BY DEF EndsLine
  <2>1. CASE i = Len(s)
    BY <1>3, <1>4, <2>1
  <2>2. CASE i # Len(s)
    <3>1. i \in 1 .. Len(b)
      BY <1>1, <1>3, <2>2
    <3>2. s[i] # LF
      BY <1>1, <1>3, <3>1
    <3> QED  BY <2>2, <3>2
  <2> QED  BY <2>1, <2>2
<1> QED  BY <1>3, <1>4, <1>5 DEF s, t

-----------------------------------------------------------------------------
(* The steps of the event loop.                                            *)

\* The kind of a request, of which the parser has the beginning.
TypeOf(buff, type) == IF type = 0 THEN IF buff[1] = "*" THEN 2 ELSE 1 ELSE type

(* processQuery() reads into the buffer, settles what kind of request it is, *)
(* and parses what the buffer has.                                          *)
LEMMA ProcessIs ==
  ASSUME NEW old, NEW type, NEW t
  PROVE  processQuery(Holding(old, type), t) = Parsed[Holding(Stored(old, t), TypeOf(Stored(old, t), type))]
<1> DEFINE c == Holding(old, type)
           b == Stored(old, t)
           k == TypeOf(b, type)
           o == 0
           l == -1
           e == <<>>
<1>1. c = Rec(old, type, o, o, l, e) /\ c.queryBuff = old /\ c.qryType = type
  BY DEF Holding, Rec
<1>2. Holding(b, k) = Rec(b, k, o, o, l, e)
  BY DEF Holding
<1>3. processQuery(c, t) = Parsed[[c EXCEPT !.queryBuff = b, !.qryType = k]]
  BY <1>1 DEF processQuery, TypeOf
<1> HIDE DEF b, k, c, o, l, e
<1>4. SetType(SetBuff(c, b), k) = Rec(b, k, o, o, l, e)
  BY <1>1, RecSet
<1>5. [c EXCEPT !.queryBuff = b, !.qryType = k] = Rec(b, k, o, o, l, e)
  BY <1>4 DEF SetType, SetBuff
<1> QED  BY <1>2, <1>3, <1>5 DEF b, k, c

\* What the buffer keeps between two requests: padding, if they come whole.
Kind == IF world.cuts THEN Char \ {LF} ELSE {NUL}

\* Neither kind has a line feed, and both have zeros.
LEMMA KindIs == NUL \in Kind /\ Kind \subseteq Char /\ Kind \subseteq Char \ {LF}
<1>1. NUL # LF
  BY DEF NUL, LF
<1> QED  BY <1>1, CharAssumption DEF Kind

\* What is read comes before what the buffer keeps of earlier requests.
LEMMA StoredText ==
  ASSUME NEW old \in Seq(Kind), NEW t \in Seq(Char)
  PROVE  \E r \in Seq(Kind) : Stored(old, t) = t \o r
<1>1. NUL \in Kind /\ Kind \subseteq Char
  BY KindIs
<1> QED  BY <1>1, StoredIs

\* ParserInv says of the buffer and the parser ...
LEMMA ParserHolds ==
  ASSUME ParserInv
  PROVE  /\ client = Holding(client.queryBuff, IF cut THEN 1 ELSE 0)
         /\ client.queryBuff \in Seq(Kind)
<1>1. client.queryBuff \in Seq(Char)
  BY ParserIs DEF ParserInv
<1>2. client.queryBuff \in Seq(Kind)
  <2>1. \A i \in 1 .. Len(client.queryBuff) : client.queryBuff[i] \in Kind
    <3> SUFFICES ASSUME NEW i \in 1 .. Len(client.queryBuff) PROVE client.queryBuff[i] \in Kind
      OBVIOUS
    <3>1. client.queryBuff[i] \in Char
      BY <1>1
    <3> QED  BY <3>1 DEF ParserInv, Kind
  <2> DEFINE b == client.queryBuff
  <2>2. b \in Seq(Char) /\ \A i \in 1 .. Len(b) : b[i] \in Kind
    BY <1>1, <2>1
  <2> HIDE DEF b
  <2>3. b \in Seq(Kind)
    BY <2>2
  <2> QED  BY <2>3 DEF b
<1>3. KeepsText(IF cut THEN 1 ELSE 0)
  BY DEF ParserInv
<1> QED  BY <1>2, <1>3, HoldingIs

\* ... and needs to have of them.
LEMMA ParserHeld ==
  ASSUME NEW buff \in Seq(Kind), world' = world,
         client' = Holding(buff, IF cut' THEN 1 ELSE 0), cut' \in BOOLEAN
  PROVE  /\ client' \in Parser
         /\ KeepsText(IF cut THEN 1 ELSE 0)'
         /\ \A i \in 1 .. Len(client'.queryBuff) :
              client'.queryBuff[i] # LF /\ (~ world'.cuts => client'.queryBuff[i] = NUL)
<1> DEFINE k == IF cut' THEN 1 ELSE 0
<1>1. k \in 0 .. 2
  OBVIOUS
<1>2. buff \in Seq(Char) /\ \A i \in 1 .. Len(buff) : buff[i] # LF /\ (~ world.cuts => buff[i] = NUL)
  <2>1. \A i \in 1 .. Len(buff) : buff[i] \in Kind
    OBVIOUS
  <2>2. buff \in Seq(Char)
    BY KindIs
  <2> QED  BY <2>1, <2>2, KindIs DEF Kind
<1> HIDE DEF k
<1>3. client' = Holding(buff, k) /\ Holding(buff, k) \in Parser
  BY <1>1, <1>2, HoldingIs DEF k
<1>4. client'.queryBuff = buff
  BY <1>3 DEF Holding, Rec
<1>5. [Fresh EXCEPT !.queryBuff = buff, !.qryType = k] = Holding(buff, k)
  <2> DEFINE f == Rec(<<>>, 0, 0, 0, -1, <<>>)
             e == <<>>
             o == 0
             l == -1
  <2>1. Fresh = Rec(e, o, o, o, l, e) /\ Holding(buff, k) = Rec(buff, k, o, o, l, e)
    BY DEF Fresh, Rec, Holding
  <2> HIDE DEF e, o, l
  <2>2. SetType(SetBuff(Fresh, buff), k) = Rec(buff, k, o, o, l, e)
    BY <2>1, RecSet
  <2> QED  BY <2>1, <2>2 DEF SetType, SetBuff
<1>6. KeepsText(IF cut THEN 1 ELSE 0)'
  BY <1>3, <1>4, <1>5 DEF KeepsText, k
<1> QED  BY <1>2, <1>3, <1>4, <1>6

\* What a step of the parser comes to.
Forwards(words) == tasks' = Append(tasks, words) /\ forwarded' = Append(forwarded, words)

Parses(buff, words) ==
  /\ client' = Holding(buff, 0) /\ ~ crashed' /\ pending' = <<>> /\ cut' = FALSE
  /\ IF words = <<>> THEN UNCHANGED <<tasks, forwarded>> ELSE Forwards(words)
  /\ UNCHANGED <<world, requests>>

\* A task is taken from what a line or an array comes to.
LEMMA TaskOf ==
  ASSUME NEW n, processInput(n), n = Len(pending), pending \in Seq(Char), NEW buff, NEW words,
         processQuery(client, SubSeq(pending, 1, n))
           = Result(Given(buff, words), IF words = <<>> THEN "wait" ELSE "task")
  PROVE  Parses(buff, words)
<1> DEFINE r == processQuery(client, SubSeq(pending, 1, n))
<1>1. r = Result(Given(buff, words), IF words = <<>> THEN "wait" ELSE "task")
  OBVIOUS
<1>2. /\ pending' = Erase(pending, n) /\ cut' = (pending' # <<>>)
      /\ client' = IF r.ret = "task" THEN [r.client EXCEPT !.paras = <<>>] ELSE r.client
      /\ crashed' = (r.ret = "throw")
      /\ IF r.ret = "task"
         THEN tasks' = Append(tasks, r.client.paras) /\ forwarded' = Append(forwarded, r.client.paras)
         ELSE UNCHANGED <<tasks, forwarded>>
      /\ UNCHANGED <<world, requests>>
  BY DEF processInput
<1> HIDE DEF r
<1>3. r.client = Given(buff, words) /\ r.ret = IF words = <<>> THEN "wait" ELSE "task"
  BY <1>1 DEF Result
<1>4. Given(buff, words).paras = words
  BY DEF Given, Rec
<1>5. [Given(buff, words) EXCEPT !.paras = <<>>] = Holding(buff, 0)
  <2> DEFINE e == <<>>
             o == 0
             l == -1
  <2>1. Given(buff, words) = Rec(buff, o, o, o, l, words) /\ Holding(buff, 0) = Rec(buff, o, o, o, l, e)
    BY DEF Given, Holding
  <2> HIDE DEF e, o, l
  <2>2. SetParas(Given(buff, words), e) = Holding(buff, 0)
    BY <2>1, RecSet
  <2> QED  BY <2>2 DEF SetParas, e
<1>6. words = <<>> => Given(buff, words) = Holding(buff, 0)
  BY DEF Given, Holding
<1>7. pending' = <<>> /\ cut' = FALSE
  <2>1. Erase(pending, n) = <<>>
    BY DEF Erase
  <2> QED  BY <1>2, <2>1
<1>8. client' = Holding(buff, 0) /\ ~ crashed'
  BY <1>2, <1>3, <1>5, <1>6
<1>9. IF words = <<>> THEN UNCHANGED <<tasks, forwarded>> ELSE Forwards(words)
  BY <1>2, <1>3, <1>4 DEF Forwards
<1> QED  BY <1>2, <1>7, <1>8, <1>9 DEF Parses

\* A line is read, whatever the buffer has behind it.
LEMMA LineWhole ==
  ASSUME NEW b \in Seq(Char \ {LF}), NEW r \in Seq(Kind)
  PROVE  Parsed[Holding((b \o <<LF>>) \o r, 1)]
           = Result(Given(r, Words[b]), IF Words[b] = <<>> THEN "wait" ELSE "task")
<1>1. r \in Seq(Char \ {LF})
  BY KindIs
<1> QED  BY <1>1, LineIsRead

\* A request is one of these texts.
IsText(form, text, words) ==
  \/ form \in {"line", "crlf"} /\ LineOf(text, words)
  \/ ~ world.cuts /\ text = Array(words) \o <<NUL, NUL>>

\* What a client writes is a line of its words, or an array of them.
LEMMA RequestIsText ==
  ASSUME Readable, world \in Worlds, NEW batch \in Batches, NEW form \in world.forms,
         IsLine(form) => \A i \in 1 .. Len(Says(batch)) : Plain(Says(batch)[i])
  PROVE  IsText(form, Text(form, Says(batch)), Says(batch))
<1> DEFINE words == Says(batch)
<1>1. IsShortText(words) /\ words[1][1] # "*"
  BY RequestWords
<1>2. IsLine(form) => \A i \in 1 .. Len(words) : Plain(words[i])
  OBVIOUS
<1> HIDE DEF words
<1>3. form \in {"line", "crlf"} \/ (~ world.cuts /\ form = "array")
  BY DEF Readable, CanRead
<1>4. CASE form \in {"line", "crlf"}
  <2>1. LineOf(Text(form, words), words)
    BY <1>1, <1>2, <1>4, TextOfLine DEF IsLine
  <2> QED  BY <1>4, <2>1 DEF IsText, words
<1>5. CASE ~ world.cuts /\ form = "array"
  <2>1. Text(form, words) = Array(words) \o <<NUL, NUL>>
    BY <1>5 DEF Text, Array
  <2> QED  BY <1>5, <2>1 DEF IsText, words
<1> QED  BY <1>3, <1>4, <1>5

\* Such a text is read as the words it was made of.
LEMMA TextIsRead ==
  ASSUME NEW form, NEW text, NEW words, IsShortText(words), IsText(form, text, words)
  PROVE  /\ text \in Seq(Char) /\ text # <<>>
         /\ \A r \in Seq(Kind) : \E buff \in Seq(Kind) :
              Parsed[Holding(text \o r, TypeOf(text \o r, 0))] = Result(Given(buff, words), "task")
<1>0. words # <<>>
  BY DEF IsShortText
<1>1. CASE LineOf(text, words)
  <2>1. PICK b \in Seq(Char \ {LF}) : text = b \o <<LF>> /\ b # <<>> /\ b[1] # "*" /\ Words[b] = words
    BY <1>1 DEF LineOf
  <2>2. /\ text \in Seq(Char) /\ text # <<>> /\ Len(text) = Len(b) + 1
        /\ \A i \in 1 .. Len(b) : text[i] = b[i]
    BY <2>1, LineTyped
  <2>3. Len(b) \in Nat /\ Len(b) # 0 /\ 1 \in 1 .. Len(b) /\ 1 \in 1 .. Len(b) + 1
    <3>1. Len(b) \in Nat /\ Len(b) # 0
      BY <2>1
    <3> DEFINE k == Len(b)
    <3> HIDE DEF k
    <3>2. k \in Nat /\ k # 0 => 1 \in 1 .. k /\ 1 \in 1 .. k + 1
      OBVIOUS
    <3> QED  BY <3>1, <3>2 DEF k
  <2>4. ASSUME NEW r \in Seq(Kind)
        PROVE  Parsed[Holding(text \o r, TypeOf(text \o r, 0))] = Result(Given(r, words), "task")
    <3>1. r \in Seq(Char)
      BY KindIs
    <3>2. \A i \in 1 .. Len(text) : (text \o r)[i] = text[i]
      BY <2>2, <3>1, ConcatFacts
    <3> DEFINE s == text \o r
    <3> HIDE DEF s
    <3>3. s[1] = b[1]
      BY <2>2, <2>3, <3>2 DEF s
    <3>4. TypeOf(s, 0) = 1
      BY <2>1, <3>3 DEF TypeOf
    <3>5. Parsed[Holding((b \o <<LF>>) \o r, 1)]
            = Result(Given(r, Words[b]), IF Words[b] = <<>> THEN "wait" ELSE "task")
      BY LineWhole
    <3>6. Parsed[Holding(s, 1)] = Result(Given(r, words), "task")
      BY <1>0, <2>1, <3>5 DEF s
    <3> QED  BY <3>4, <3>6 DEF s
  <2> QED  BY <2>2, <2>4
<1>2. CASE ~ world.cuts /\ text = Array(words) \o <<NUL, NUL>>
  <2> DEFINE a == Array(words)
             z == <<NUL, NUL>>
  <2>1. z \in Seq(Char) /\ z \in Seq(Kind) /\ z # <<>> /\ Len(z) = 2
    BY KindIs
  <2>2. a \in Seq(Char) /\ a[1] = "*" /\ Len(a) \in Nat /\ 1 \in 1 .. Len(a)
    <3> DEFINE h == Mark("*", Len(words))
               x == FlattenSeq(Items(words))
    <3>1. a = h \o x /\ a \in Seq(Char) /\ a[1] = "*" /\ h \in Seq(Char) /\ x \in Seq(Char) /\ Len(h) \in 4 .. 5
      BY ArrayIs
    <3> HIDE DEF a, h, x
    <3>2. Len(a) = Len(h) + Len(x) /\ Len(h) \in Nat /\ Len(x) \in Nat
      BY <3>1, ConcatFacts
    <3> DEFINE k == Len(h)
               m == Len(x)
    <3>3. k \in 4 .. 5 /\ m \in Nat /\ Len(a) = k + m
      BY <3>1, <3>2
    <3> HIDE DEF k, m
    <3>4. Len(a) \in Nat /\ 1 \in 1 .. Len(a)
      BY <3>3
    <3> QED  BY <3>1, <3>4
  <2>3. text = a \o z
    BY <1>2
  <2> HIDE DEF a, z
  <2>4. text \in Seq(Char) /\ text # <<>>
    <3>1. a \o z \in Seq(Char) /\ Len(a \o z) = Len(a) + Len(z)
      BY <2>1, <2>2, ConcatFacts
    <3>2. Len(text) # 0
      BY <2>1, <2>2, <2>3, <3>1
    <3> QED  BY <2>3, <3>1, <3>2
  <2>5. ASSUME NEW r \in Seq(Kind)
        PROVE  /\ z \o r \in Seq(Kind)
               /\ Parsed[Holding(text \o r, TypeOf(text \o r, 0))] = Result(Given(z \o r, words), "task")
    <3>1. r \in Seq(Char)
      BY KindIs
    <3> DEFINE zr == z \o r
    <3>2. zr \in Seq(Kind) /\ zr \in Seq(Char) /\ Len(zr) = Len(z) + Len(r) /\ Len(r) \in Nat
      BY <2>1, <3>1, ConcatFacts
    <3>3. text \o r = a \o zr
      <4>1. a \in Seq(Char) /\ z \in Seq(Char)
        BY <2>1, <2>2
      <4>2. (a \o z) \o r = a \o (z \o r)
        BY <3>1, <4>1, ConcatAssociative
      <4> QED  BY <2>3, <4>2
    <3> HIDE DEF zr
    <3>4. zr # <<>>
      BY <2>1, <3>2
    <3> DEFINE s == a \o zr
    <3>5. \A i \in 1 .. Len(a) : s[i] = a[i]
      BY <2>2, <3>2, ConcatFacts
    <3>6. Parsed[Holding(s, 2)] = Result(Given(zr, words), "task")
      BY <3>2, <3>4, ArrayIsRead DEF a
    <3> HIDE DEF s
    <3>7. TypeOf(s, 0) = 2
      BY <2>2, <3>5 DEF TypeOf
    <3>8. text \o r = s
      BY <3>3 DEF s
    <3> QED  BY <3>2, <3>6, <3>7, <3>8 DEF zr
  <2> QED  BY <2>4, <2>5
<1> QED  BY <1>1, <1>2 DEF IsText

\* The text that is outstanding is that of the last request.
LEMMA OutstandingText ==
  ASSUME Readable, ParserInv, pending # <<>>, ~ cut
  PROVE  LET words == Says(Last(requests)) IN
         /\ Last(requests) \in Batches /\ requests # <<>> /\ IsShortText(words)
         /\ \E form : IsText(form, pending, words)
<1>1. Outstanding /\ world \in Worlds /\ requests \in Seq(Batches)
  BY DEF ParserInv
<1>2. requests # <<>> /\ Last(requests) \in Batches
  <2>1. requests # <<>>
    BY <1>1 DEF Outstanding
  <2> DEFINE n == Len(requests)
  <2>2. n \in 1 .. n
    BY <1>1, <2>1
  <2>3. requests[n] \in Batches
    BY <1>1, <2>2
  <2> QED  BY <2>1, <2>3 DEF Last
<1> DEFINE batch == Last(requests)
<1>3. PICK form \in world.forms :
        /\ IsLine(form) => \A i \in 1 .. Len(Says(batch)) : Plain(Says(batch)[i])
        /\ pending = Text(form, Says(batch))
  BY <1>1 DEF Outstanding
<1> HIDE DEF batch
<1>4. batch \in Batches
  BY <1>2 DEF batch
<1>5. IsText(form, Text(form, Says(batch)), Says(batch))
  BY <1>1, <1>3, <1>4, RequestIsText
<1>6. IsShortText(Says(batch))
  BY <1>4, RequestWords
<1> QED  BY <1>2, <1>3, <1>5, <1>6 DEF batch

\* A request that is read whole becomes a task of its words.
LEMMA ReadWhole ==
  ASSUME Readable, ParserInv, ~ cut, NEW n, n = Len(pending), processInput(n)
  PROVE  \E buff \in Seq(Kind) : Parses(buff, Says(Last(requests)))
<1> DEFINE words == Says(Last(requests))
           old == client.queryBuff
<1>1. pending # <<>> /\ pending \in Seq(Char)
  BY DEF processInput, ParserInv
<1>2. IsShortText(words) /\ \E form : IsText(form, pending, words)
  BY <1>1, OutstandingText
<1>3. words # <<>>
  BY <1>2 DEF IsShortText
<1> HIDE DEF words
<1>4. client = Holding(old, 0) /\ old \in Seq(Kind)
  BY ParserHolds
<1> HIDE DEF old
<1>5. SubSeq(pending, 1, n) = pending
  BY <1>1
<1>6. PICK r \in Seq(Kind) : Stored(old, pending) = pending \o r
  <2>1. old \in Seq(Kind) /\ pending \in Seq(Char)
    BY <1>1, <1>4
  <2> QED  BY <2>1, StoredText
<1>7. PICK buff \in Seq(Kind) :
        Parsed[Holding(pending \o r, TypeOf(pending \o r, 0))] = Result(Given(buff, words), "task")
  BY <1>2, TextIsRead
<1>8. processQuery(client, SubSeq(pending, 1, n))
        = Result(Given(buff, words), IF words = <<>> THEN "wait" ELSE "task")
  BY <1>3, <1>4, <1>5, <1>6, <1>7, ProcessIs
<1>9. Parses(buff, words)
  BY <1>1, <1>8, TaskOf
<1> QED  BY <1>9 DEF words

\* A part of a line is kept.
Waits(buff) ==
  /\ client' = Holding(buff, 1) /\ ~ crashed' /\ cut' = TRUE
  /\ pending' \in Seq(Char) /\ pending' # <<>> /\ EndsLine(pending')
  /\ UNCHANGED <<world, requests, tasks, forwarded>>

\* What is left of a line is left to its end.
LEMMA RestEndsLine ==
  ASSUME NEW s \in Seq(Char), EndsLine(s), NEW n \in 1 .. Len(s), n # Len(s)
  PROVE  Erase(s, n) \in Seq(Char) /\ Erase(s, n) # <<>> /\ EndsLine(Erase(s, n))
<1> DEFINE u == Erase(s, n)
<1>1. Len(s) \in Nat /\ n \in Nat /\ n < Len(s)
  OBVIOUS
<1>2. u \in Seq(Char) /\ Len(u) = Len(s) - n /\ \A i \in 1 .. Len(s) - n : u[i] = s[n + i]
  BY <1>1 DEF Erase
<1> HIDE DEF u
<1>3. u # <<>>
  BY <1>1, <1>2
<1>4. ASSUME NEW i \in 1 .. Len(u) PROVE (u[i] = LF) = (i = Len(u))
  <2>1. n + i \in 1 .. Len(s) /\ (n + i = Len(s)) = (i = Len(u)) /\ u[i] = s[n + i]
    BY <1>1, <1>2
  <2>2. (s[n + i] = LF) = (n + i = Len(s))
    BY <2>1 DEF EndsLine
  <2> QED  BY <2>1, <2>2
<1>5. EndsLine(u)
  BY <1>4 DEF EndsLine
<1> QED  BY <1>2, <1>3, <1>5 DEF u

\* The first part of a line is kept, and no task made of it.
LEMMA ReadPart ==
  ASSUME Readable, ParserInv, world.cuts, ~ cut, NEW n \in 1 .. Len(pending), n # Len(pending),
         processInput(n)
  PROVE  \E buff \in Seq(Kind) : Waits(buff)
<1> DEFINE old == client.queryBuff
           t == SubSeq(pending, 1, n)
<1>1. pending # <<>> /\ pending \in Seq(Char) /\ Kind = Char \ {LF}
  BY DEF processInput, ParserInv, Kind
<1>2. PICK words : LineOf(pending, words)
  <2>1. \E form : IsText(form, pending, Says(Last(requests)))
    BY <1>1, OutstandingText
  <2> QED  BY <2>1 DEF IsText
<1>3. PICK b \in Seq(Char \ {LF}) : pending = b \o <<LF>> /\ b # <<>> /\ b[1] # "*"
  BY <1>2 DEF LineOf
<1>4. EndsLine(pending) /\ Len(pending) = Len(b) + 1 /\ \A i \in 1 .. Len(b) : pending[i] = b[i]
  BY <1>3, LineTyped
<1>5. t \in Seq(Kind) /\ Len(t) = n /\ t[1] = b[1]
  <2>1. Len(b) \in Nat /\ n \in Nat /\ n <= Len(b) /\ \A i \in 1 .. Len(b) : b[i] \in Kind
    BY <1>1, <1>4
  <2>2. t \in Seq(Char) /\ Len(t) = n /\ \A i \in 1 .. n : t[i] = pending[i]
    BY <1>1, <1>4, <2>1
  <2> HIDE DEF t
  <2>3. \A i \in 1 .. n : t[i] = b[i] /\ t[i] \in Kind
    BY <1>4, <2>1, <2>2
  <2>4. 1 \in 1 .. n
    OBVIOUS
  <2> QED  BY <2>2, <2>3, <2>4
<1>6. client = Holding(old, 0) /\ old \in Seq(Kind)
  BY ParserHolds
<1> HIDE DEF old, t
<1>7. PICK r \in Seq(Kind) : Stored(old, t) = t \o r
  <2>1. t \in Seq(Char) /\ old \in Seq(Kind)
    BY <1>5, <1>6, KindIs
  <2> QED  BY <2>1, StoredText
<1> DEFINE buff == t \o r
<1>8. buff \in Seq(Kind) /\ buff[1] = b[1]
  <2>1. buff \in Seq(Kind) /\ \A i \in 1 .. Len(t) : buff[i] = t[i]
    BY <1>5, ConcatFacts
  <2>2. 1 \in 1 .. Len(t)
    BY <1>5
  <2> QED  BY <1>5, <2>1, <2>2
<1>9. Stored(old, t) = buff
  BY <1>7
<1> HIDE DEF buff
<1>10. TypeOf(buff, 0) = 1
  BY <1>3, <1>8 DEF TypeOf
<1>11. Parsed[Holding(buff, 1)] = Result(Holding(buff, 1), "wait")
  BY <1>1, <1>8, LineWaits
<1>12. processQuery(client, t) = Result(Holding(buff, 1), "wait")
  BY <1>6, <1>9, <1>10, <1>11, ProcessIs
<1>13. Result(Holding(buff, 1), "wait").client = Holding(buff, 1)
       /\ Result(Holding(buff, 1), "wait").ret = "wait"
  BY DEF Result
<1>14. /\ pending' = Erase(pending, n) /\ cut' = (pending' # <<>>)
       /\ client' = Holding(buff, 1) /\ crashed' = FALSE
       /\ UNCHANGED <<world, requests, tasks, forwarded>>
  <2> DEFINE q == processQuery(client, t)
  <2>1. q.client = Holding(buff, 1) /\ q.ret = "wait"
    BY <1>12, <1>13
  <2>2. /\ pending' = Erase(pending, n) /\ cut' = (pending' # <<>>)
        /\ client' = IF q.ret = "task" THEN [q.client EXCEPT !.paras = <<>>] ELSE q.client
        /\ crashed' = (q.ret = "throw")
        /\ IF q.ret = "task"
           THEN tasks' = Append(tasks, q.client.paras) /\ forwarded' = Append(forwarded, q.client.paras)
           ELSE UNCHANGED <<tasks, forwarded>>
        /\ UNCHANGED <<world, requests>>
    BY DEF processInput, t
  <2> HIDE DEF q
  <2> QED  BY <2>1, <2>2
<1>15. Erase(pending, n) \in Seq(Char) /\ Erase(pending, n) # <<>> /\ EndsLine(Erase(pending, n))
  BY <1>1, <1>4, RestEndsLine
<1> QED  BY <1>8, <1>14, <1>15 DEF Waits

\* What has its only line feed at its end is a line.
LEMMA EndsLineIs ==
  ASSUME NEW s \in Seq(Char), s # <<>>, EndsLine(s)
  PROVE  \E b \in Seq(Char \ {LF}) : s = b \o <<LF>>
<1> DEFINE n == Len(s)
           k == n - 1
           b == SubSeq(s, 1, k)
           t == <<LF>>
           u == b \o t
<1>1. n \in Nat /\ n # 0 /\ k \in Nat /\ n = k + 1
  BY DEF EndsLine
<1>2. \A i \in 1 .. n : s[i] \in Char /\ (s[i] = LF) = (i = n)
  BY DEF EndsLine
<1>3. Len(s) = n
  OBVIOUS
<1> HIDE DEF n, k
<1>4. b \in Seq(Char) /\ Len(b) = k /\ \A i \in 1 .. k : b[i] = s[i]
  BY <1>1, <1>3
<1>5. b \in Seq(Char \ {LF})
  <2>1. \A i \in 1 .. k : b[i] \in Char \ {LF}
    BY <1>1, <1>2, <1>4
  <2> HIDE DEF b
  <2> QED  BY <1>4, <2>1
<1> HIDE DEF b
<1>6. t \in Seq(Char) /\ Len(t) = 1 /\ t[1] = LF
  BY CharAssumption
<1> HIDE DEF t
<1>7. u \in Seq(Char) /\ Len(u) = Len(b) + Len(t) /\ (\A i \in 1 .. Len(b) : u[i] = b[i])
      /\ \A i \in 1 .. Len(t) : u[Len(b) + i] = t[i]
  <2>1. b \in Seq(Char) /\ t \in Seq(Char)
    BY <1>4, <1>6
  <2> QED  BY <2>1, ConcatFacts
<1> HIDE DEF u
<1>8. Len(u) = Len(s) /\ \A i \in 1 .. Len(u) : u[i] = s[i]
  <2>1. Len(u) = n
    BY <1>1, <1>4, <1>6, <1>7
  <2>2. 1 \in 1 .. Len(t)
    BY <1>6
  <2>3. u[k + 1] = LF
    BY <1>4, <1>6, <1>7, <2>2
  <2>4. ASSUME NEW i \in 1 .. n PROVE u[i] = s[i]
    <3>1. CASE i = n
      BY <1>1, <1>2, <2>3, <3>1
    <3>2. CASE i # n
      <4>1. i \in 1 .. k
        BY <1>1, <3>2
      <4> QED  BY <1>4, <1>7, <4>1
    <3> QED  BY <3>1, <3>2
  <2> QED  BY <1>3, <2>1, <2>4
<1>9. u = s
  BY <1>7, <1>8
<1> QED  BY <1>5, <1>9 DEF u, t

\* With the other part of a line it is read.
LEMMA ReadRest ==
  ASSUME ParserInv, cut, NEW n, n = Len(pending), processInput(n)
  PROVE  world.cuts /\ \E buff \in Seq(Kind), words \in Seq(Word) : Parses(buff, words)
<1> DEFINE old == client.queryBuff
<1>1. pending # <<>> /\ pending \in Seq(Char) /\ EndsLine(pending) /\ world.cuts
  BY DEF ParserInv
<1>2. PICK b \in Seq(Char \ {LF}) : pending = b \o <<LF>>
  BY <1>1, EndsLineIs
<1>3. client = Holding(old, 1) /\ old \in Seq(Kind)
  BY ParserHolds
<1> HIDE DEF old
<1>4. SubSeq(pending, 1, n) = pending
  BY <1>1
<1>5. PICK r \in Seq(Kind) : Stored(old, pending) = pending \o r
  <2>1. old \in Seq(Kind) /\ pending \in Seq(Char)
    BY <1>1, <1>3
  <2> QED  BY <2>1, StoredText
<1> DEFINE words == Words[b]
           s == pending \o r
<1>6. Parsed[Holding(s, 1)] = Result(Given(r, words), IF words = <<>> THEN "wait" ELSE "task")
  BY <1>2, LineWhole
<1>7. words \in Seq(Word)
  <2>1. b \in Seq(Char)
    OBVIOUS
  <2> QED  BY <2>1, WordsRule
<1> HIDE DEF words
<1>8. Stored(old, pending) = s /\ TypeOf(s, 1) = 1
  BY <1>5 DEF TypeOf
<1> HIDE DEF s
<1>9. processQuery(client, SubSeq(pending, 1, n))
        = Result(Given(r, words), IF words = <<>> THEN "wait" ELSE "task")
  <2> DEFINE o == 1
  <2>1. client = Holding(old, o) /\ TypeOf(s, o) = o /\ Stored(old, pending) = s
        /\ Parsed[Holding(s, o)] = Result(Given(r, words), IF words = <<>> THEN "wait" ELSE "task")
    BY <1>3, <1>6, <1>8
  <2> HIDE DEF o
  <2>2. processQuery(Holding(old, o), pending)
          = Parsed[Holding(Stored(old, pending), TypeOf(Stored(old, pending), o))]
    BY ProcessIs
  <2> QED  BY <1>4, <2>1, <2>2
<1>10. Parses(r, words)
  BY <1>1, <1>9, TaskOf
<1> QED  BY <1>1, <1>7, <1>10

-----------------------------------------------------------------------------
(* The steps, and what follows from them.                                  *)

\* A task of the words of a text keeps the parser's invariant.
LEMMA ParsesKeeps ==
  ASSUME ParserInv, pending # <<>>, NEW buff \in Seq(Kind), NEW words \in Seq(Word), Parses(buff, words),
         ~ world.cuts => words # <<>> /\ requests # <<>> /\ words = Says(Last(requests))
  PROVE  ParserInv'
<1>1. /\ client' = Holding(buff, 0) /\ ~ crashed' /\ pending' = <<>> /\ cut' = FALSE
      /\ world' = world /\ requests' = requests
      /\ IF words = <<>> THEN UNCHANGED <<tasks, forwarded>> ELSE Forwards(words)
  BY DEF Parses
<1>2. /\ client' \in Parser /\ KeepsText(IF cut THEN 1 ELSE 0)'
      /\ \A i \in 1 .. Len(client'.queryBuff) :
              client'.queryBuff[i] # LF /\ (~ world'.cuts => client'.queryBuff[i] = NUL)
  BY <1>1, ParserHeld
<1>3. world \in Worlds /\ requests \in Seq(Batches) /\ forwarded \in Seq(Seq(Word) \ {<<>>})
  BY DEF ParserInv
<1>4. forwarded' \in Seq(Seq(Word) \ {<<>>})
  <2>1. CASE words = <<>>
    BY <1>1, <1>3, <2>1
  <2>2. CASE words # <<>>
    <3> DEFINE W == Seq(Word) \ {<<>>}
    <3>1. forwarded' = Append(forwarded, words) /\ words \in W /\ forwarded \in Seq(W)
      BY <1>1, <1>3, <2>2 DEF Forwards
    <3> HIDE DEF W
    <3>2. Append(forwarded, words) \in Seq(W)
      BY <3>1, AppendFacts
    <3> QED  BY <3>1, <3>2 DEF W
  <2> QED  BY <2>1, <2>2
<1>5. ASSUME ~ world.cuts
      PROVE  /\ Len(requests') = Len(forwarded') + (IF pending' = <<>> THEN 0 ELSE 1)
             /\ \A i \in 1 .. Len(forwarded') : forwarded'[i] = Says(requests'[i])
  <2>1. /\ Len(requests) = Len(forwarded) + 1 /\ Len(forwarded) \in Nat
        /\ \A i \in 1 .. Len(forwarded) : forwarded[i] = Says(requests[i])
    BY <1>3, <1>5 DEF ParserInv
  <2>2. words \in Seq(Word) \ {<<>>} /\ words = Says(Last(requests)) /\ forwarded' = Append(forwarded, words)
    BY <1>1, <1>5 DEF Forwards
  <2> DEFINE g == forwarded'
  <2>3. /\ Len(g) = Len(forwarded) + 1 /\ g[Len(forwarded) + 1] = words
        /\ \A i \in 1 .. Len(forwarded) : g[i] = forwarded[i]
    BY <1>3, <2>2, AppendFacts
  <2> HIDE DEF g
  <2>4. Last(requests) = requests[Len(forwarded) + 1]
    BY <2>1 DEF Last
  <2>5. \A i \in 1 .. Len(g) : g[i] = Says(requests[i])
    <3> SUFFICES ASSUME NEW i \in 1 .. Len(g) PROVE g[i] = Says(requests[i])
      OBVIOUS
    <3>1. i \in 1 .. Len(forwarded) \/ i = Len(forwarded) + 1
      BY <2>1, <2>3
    <3> QED  BY <2>1, <2>2, <2>3, <2>4, <3>1
  <2>6. Len(requests) = Len(g) + 0
    BY <2>1, <2>3
  <2> QED  BY <1>1, <2>5, <2>6 DEF g
<1>6. <<>> \in Seq(Char)
  OBVIOUS
<1> QED  BY <1>1, <1>2, <1>3, <1>4, <1>5, <1>6 DEF ParserInv

\* So does a part of a line.
LEMMA WaitsKeeps ==
  ASSUME ParserInv, world.cuts, NEW buff \in Seq(Kind), Waits(buff)
  PROVE  ParserInv'
<1>1. /\ client' = Holding(buff, 1) /\ ~ crashed' /\ cut' = TRUE
      /\ pending' \in Seq(Char) /\ pending' # <<>> /\ EndsLine(pending')
      /\ world' = world /\ requests' = requests /\ forwarded' = forwarded
  BY DEF Waits
<1>2. /\ client' \in Parser /\ KeepsText(IF cut THEN 1 ELSE 0)'
      /\ \A i \in 1 .. Len(client'.queryBuff) :
              client'.queryBuff[i] # LF /\ (~ world'.cuts => client'.queryBuff[i] = NUL)
  BY <1>1, ParserHeld
<1>3. world \in Worlds /\ requests \in Seq(Batches) /\ forwarded \in Seq(Seq(Word) \ {<<>>})
  BY DEF ParserInv
<1>4. EndsLine(pending)'
  BY <1>1 DEF EndsLine
<1> QED  BY <1>1, <1>2, <1>3, <1>4 DEF ParserInv

\* What WholeForwarded says of a step.
Forwarded ==
  pending # <<>> /\ ~ cut /\ pending' = <<>> => forwarded' = Append(forwarded, Says(Last(requests)))

\* The event loop's step: it reads, and perhaps forwards a task.
LEMMA InputStep == ASSUME Readable, IInv, Input PROVE IInv' /\ Forwarded /\ Kept
<1>1. PICK n \in 1 .. Len(pending) :
        ((world.cuts /\ ~ cut) \/ n = Len(pending)) /\ processInput(n)
  BY DEF Input
<1>2. UNCHANGED <<db, cmd, st, before, output, answers>>
  BY DEF Input
<1>3. ParserInv /\ pending # <<>>
  BY <1>1 DEF IInv, processInput
<1>4. Kept
  <2>1. Len(answers) \in Nat
    BY DEF IInv, ExecutorInv
  <2> QED  BY <1>2, <2>1 DEF Kept
<1>5. ASSUME NEW buff \in Seq(Kind), NEW words \in Seq(Word), Parses(buff, words) PROVE ExecutorInv'
  <2>1. /\ world' = world /\ requests' = requests
        /\ IF words = <<>> THEN UNCHANGED <<tasks, forwarded>> ELSE Forwards(words)
    BY <1>5 DEF Parses
  <2>2. \/ UNCHANGED <<tasks, forwarded>>
        \/ \E w \in Seq(Word) : tasks' = Append(tasks, w) /\ forwarded' = Append(forwarded, w)
    BY <2>1 DEF Forwards
  <2> QED  BY <1>2, <2>1, <2>2, MoreToDo
<1>6. CASE ~ cut /\ n = Len(pending)
  <2>1. PICK buff \in Seq(Kind) : Parses(buff, Says(Last(requests)))
    BY <1>1, <1>3, <1>6, ReadWhole
  <2> DEFINE words == Says(Last(requests))
  <2>2. requests # <<>> /\ words \in Seq(Word) /\ words # <<>>
    BY <1>3, <1>6, OutstandingText DEF IsShortText
  <2>3. forwarded' = Append(forwarded, words)
    BY <2>1, <2>2 DEF Parses, Forwards
  <2>4. ParserInv'
    BY <1>3, <2>1, <2>2, ParsesKeeps
  <2>5. ExecutorInv'
    BY <1>5, <2>1, <2>2
  <2> QED  BY <1>4, <2>3, <2>4, <2>5 DEF IInv, Forwarded
<1>7. CASE ~ cut /\ n # Len(pending)
  <2>1. world.cuts
    BY <1>1, <1>7
  <2>2. PICK buff \in Seq(Kind) : Waits(buff)
    BY <1>1, <1>3, <1>7, <2>1, ReadPart
  <2>3. /\ world' = world /\ requests' = requests /\ tasks' = tasks /\ forwarded' = forwarded
        /\ pending' # <<>>
    BY <2>2 DEF Waits
  <2>4. ParserInv'
    BY <1>3, <2>1, <2>2, WaitsKeeps
  <2>5. ExecutorInv'
    BY <1>2, <2>3, MoreToDo
  <2> QED  BY <1>4, <2>3, <2>4, <2>5 DEF IInv, Forwarded
<1>8. CASE cut
  <2>1. n = Len(pending)
    BY <1>1, <1>8
  <2>2. world.cuts /\ \E buff \in Seq(Kind), words \in Seq(Word) : Parses(buff, words)
    BY <1>1, <1>3, <1>8, <2>1, ReadRest
  <2>3. PICK buff \in Seq(Kind), words \in Seq(Word) : Parses(buff, words)
    BY <2>2
  <2>4. ParserInv'
    BY <1>3, <2>2, <2>3, ParsesKeeps
  <2>5. ExecutorInv'
    BY <1>5, <2>3
  <2> QED  BY <1>4, <1>8, <2>4, <2>5 DEF IInv, Forwarded
<1>9. cut \in BOOLEAN
  BY <1>3 DEF ParserInv
<1> QED  BY <1>6, <1>7, <1>8, <1>9

\* A client writes a request.
LEMMA WriteStep ==
  ASSUME Readable, IInv, NEW batch \in Batches, NEW form \in world.forms, Write(batch, form)
  PROVE  IInv' /\ Forwarded /\ Kept
<1>1. /\ pending = <<>> /\ requests' = Append(requests, batch) /\ pending' = Text(form, Says(batch))
      /\ IsLine(form) => \A i \in 1 .. Len(Says(batch)) : Plain(Says(batch)[i])
      /\ UNCHANGED <<world, cut, client, crashed, tasks, forwarded, db, cmd, st, before, output, answers>>
  BY DEF Write
<1>2. /\ world \in Worlds /\ requests \in Seq(Batches) /\ client \in Parser /\ ~ crashed
      /\ forwarded \in Seq(Seq(Word) \ {<<>>}) /\ KeepsText(IF cut THEN 1 ELSE 0)
      /\ \A i \in 1 .. Len(client.queryBuff) :
           client.queryBuff[i] # LF /\ (~ world.cuts => client.queryBuff[i] = NUL)
      /\ cut = FALSE
      /\ ~ world.cuts => /\ Len(requests) = Len(forwarded) + 0
                         /\ \A i \in 1 .. Len(forwarded) : forwarded[i] = Says(requests[i])
  BY <1>1 DEF IInv, ParserInv
<1>3. pending' \in Seq(Char) /\ pending' # <<>>
  <2> DEFINE words == Says(batch)
             text == Text(form, Says(batch))
  <2>1. IsText(form, text, words) /\ IsShortText(words)
    BY <1>1, <1>2, RequestIsText, RequestWords
  <2> HIDE DEF words, text
  <2>2. text \in Seq(Char) /\ text # <<>>
    BY <2>1, TextIsRead
  <2> QED  BY <1>1, <2>2 DEF text
<1> DEFINE q == requests'
<1>4. /\ q \in Seq(Batches) /\ Len(q) = Len(requests) + 1 /\ q # <<>> /\ Last(q) = batch
      /\ \A i \in 1 .. Len(requests) : q[i] = requests[i]
  BY <1>1, <1>2, AppendFacts
<1>5. Outstanding'
  <2>1. requests' # <<>> /\ Last(requests') = batch /\ world' = world
    BY <1>1, <1>4
  <2> QED  BY <1>1, <2>1 DEF Outstanding
<1>6. KeepsText(IF cut THEN 1 ELSE 0)'
  <2>1. KeepsText(0)' = KeepsText(0) /\ cut' = FALSE
    BY <1>1, <1>2 DEF KeepsText
  <2> QED  BY <1>2, <2>1
<1> HIDE DEF q
<1>7. ASSUME ~ world.cuts
      PROVE  Len(q) = Len(forwarded) + 1 /\ \A i \in 1 .. Len(forwarded) : forwarded[i] = Says(q[i])
  <2>1. Len(forwarded) \in Nat
    BY <1>2
  <2> QED  BY <1>2, <1>4, <1>7, <2>1
<1>8. ParserInv'
  BY <1>1, <1>2, <1>3, <1>4, <1>5, <1>6, <1>7 DEF ParserInv, q
<1>9. ExecutorInv'
  BY <1>1, MoreToDo
<1>10. Forwarded /\ Kept
  <2>1. Len(answers) \in Nat
    BY DEF IInv, ExecutorInv
  <2> QED  BY <1>1, <2>1 DEF Forwarded, Kept
<1> QED  BY <1>8, <1>9, <1>10 DEF IInv

\* The executing thread takes a task, or takes a step in it.
LEMMA ExecutorStep == ASSUME IInv, TakeTask \/ handleTask PROVE IInv' /\ Forwarded /\ Kept
<1>1. UNCHANGED <<world, requests, pending, cut, client, crashed, forwarded>>
  BY DEF TakeTask, handleTask, set, get, getMissing, del, WriteFails, InvalidCommand, Finish,
         Advance, Answer, parserVars
<1>2. ParserInv'
  BY <1>1, ParserAlone DEF IInv
<1>3. Forwarded
  BY <1>1 DEF Forwarded
<1>4. CASE TakeTask
  <2>1. answers' = answers /\ Len(answers) \in Nat
    BY <1>4 DEF TakeTask, IInv, ExecutorInv
  <2> QED  BY <1>2, <1>3, <1>4, <2>1, TakeTaskStep DEF Kept, IInv
<1>5. CASE handleTask
  BY <1>2, <1>3, <1>5, ThreadStep DEF IInv
<1> QED  BY <1>4, <1>5

\* A step that changes nothing.
LEMMA SameStep == ASSUME IInv, UNCHANGED vars PROVE IInv' /\ Forwarded /\ Kept
<1>1. /\ UNCHANGED <<world, requests, pending, cut, client, crashed, tasks, forwarded>>
      /\ UNCHANGED <<db, cmd, st, before, output, answers>>
  BY DEF vars, parserVars
<1>2. ParserInv'
  BY <1>1, ParserAlone DEF IInv
<1>3. ExecutorInv'
  BY <1>1, MoreToDo
<1>4. Len(answers) \in Nat
  BY DEF IInv, ExecutorInv
<1> QED  BY <1>1, <1>2, <1>3, <1>4 DEF IInv, Forwarded, Kept

\* Every step keeps the invariant, and does as the action properties say.
LEMMA ProxyStep == ASSUME Readable, IInv, [Next]_vars PROVE IInv' /\ Forwarded /\ Kept
<1>1. CASE \E batch \in Batches, form \in world.forms : Write(batch, form)
  BY <1>1, WriteStep
<1>2. CASE Input
  BY <1>2, InputStep
<1>3. CASE TakeTask \/ handleTask
  BY <1>3, ExecutorStep
<1>4. CASE UNCHANGED vars
  BY <1>4, SameStep
<1> QED  BY <1>1, <1>2, <1>3, <1>4 DEF Next

\* The invariant holds when the server has started.
LEMMA ProxyInit == ASSUME Init PROVE IInv
<1>1. /\ world \in Worlds
      /\ requests = <<>> /\ pending = <<>> /\ cut = FALSE
      /\ client = Fresh /\ crashed = FALSE /\ tasks = <<>> /\ forwarded = <<>>
      /\ db = <<>> /\ cmd = <<>> /\ st = 1 /\ before = <<>>
      /\ output = <<>> /\ answers = <<>>
  BY DEF Init
<1>2. Fresh = Holding(<<>>, 0)
  BY DEF Fresh, Holding, Rec
<1>3. client \in Parser /\ client.queryBuff = <<>>
  <2>1. <<>> \in Seq(Char) /\ 0 \in 0 .. 2
    OBVIOUS
  <2> QED  BY <1>1, <1>2, <2>1, HoldingIs DEF Fresh
<1>4. KeepsText(0)
  BY <1>1, <1>2, <1>3, HoldingIs
<1>5. ParserInv
  <2>1. <<>> \in Seq(Char) /\ <<>> \in Seq(Batches) /\ <<>> \in Seq(Seq(Word) \ {<<>>})
        /\ Len(<<>>) = 0 /\ 1 .. 0 = {} /\ 0 + 0 = 0
    OBVIOUS
  <2> QED  BY <1>1, <1>3, <1>4, <2>1 DEF ParserInv
<1>6. ExecutorInv
  <2>1. <<>> \in Seq(Word) /\ <<>> \in Seq(Seq(Word)) /\ <<>> \in Seq(ToSet(answers))
        /\ Len(<<>>) = 0 /\ 1 .. 0 = {} /\ 0 + 0 = 0 /\ DOMAIN <<>> = {}
    OBVIOUS
  <2>2. IsDatabase(<<>>)
    BY <2>1 DEF IsDatabase
  <2> QED  BY <1>1, <2>1, <2>2 DEF ExecutorInv
<1> QED  BY <1>5, <1>6 DEF IInv

(* The words of a task are those of its request, and the executing thread,  *)
(* which counts words, is always at the beginning of one of its commands:   *)
(* for all batches that can be written with numbers of two digits.          *)
THEOREM QueryInductive == ASSUME Readable PROVE Spec => []IInv
<1>1. Init => IInv
  BY ProxyInit
<1>2. IInv /\ [Next]_vars => IInv'
  BY ProxyStep
<1> QED  BY <1>1, <1>2, PTL DEF Spec

(* A request that is read whole is forwarded as it was written, whatever    *)
(* the buffer kept of earlier ones.                                         *)
THEOREM RequestsForwarded == ASSUME Readable PROVE Spec => WholeForwarded
<1>1. IInv /\ [Next]_vars => Forwarded
  BY ProxyStep
<1>2. IInv /\ [Next]_vars =>
        [pending # <<>> /\ ~ cut /\ pending' = <<>> =>
           forwarded' = Append(forwarded, Says(Last(requests)))]_vars
  BY <1>1 DEF Forwarded
<1> QED  BY <1>2, QueryInductive, PTL DEF Spec, WholeForwarded

(* The word that "del" takes for its key is there, in whatever batch that   *)
(* arrives whole, and whatever its keys and values spell.                   *)
THEOREM KeysThere == ASSUME Readable PROVE Spec => []KeyThere
<1>1. IInv => KeyThere
  <2> SUFFICES ASSUME IInv, Executing, ~ world.cuts, st <= Len(cmd), cmd[st] = Spelled.del
               PROVE  st < Len(cmd)
    BY DEF KeyThere
  <2>1. /\ cmd \in Seq(Word) /\ st \in 1 .. Len(cmd) + 1
        /\ Current \in Seq(Command) /\ cmd = Says(Current)
        /\ \E j \in 0 .. Len(Current) : Carried(Current, j)
    BY CurrentIs DEF Executing
  <2>2. PICK j \in 0 .. Len(Current) : Carried(Current, j)
    BY <2>1
  <2> DEFINE b == Current
             n == j + 1
  <2> HIDE DEF b, n
  <2>3. At(b, j, n)
    <3>1. j \in 0 .. Len(b) /\ b \in Seq(Command) /\ cmd = Says(b) /\ Carried(b, j)
      BY <2>1, <2>2 DEF b
    <3>2. ~ (st = Len(cmd) + 1)
      BY <2>1
    <3> QED  BY <2>1, <3>1, <3>2, AtCommand DEF n
  <2>4. /\ Is(Spelled.del, 1) = (b[n].op = "del") /\ cmd[st] = Spelled[b[n].op]
        /\ b[n].op \in {"set", "get", "del"}
    BY <2>1, <2>3, IsCommand
  <2>5. Is(Spelled.del, 1)
    BY <2>4, SpelledDiffer
  <2> QED  BY <2>1, <2>5 DEF Is
<1> QED  BY <1>1, QueryInductive, PTL

(* "OK!" says that the whole batch took effect, "Error!" that exactly the   *)
(* commands before a certain one did.                                       *)
THEOREM BatchesAnswered == ASSUME Readable PROVE Spec => AllOrPrefix
<1>1. IInv /\ [Next]_vars => Kept
  BY ProxyStep
<1>2. IInv /\ [Next]_vars =>
        [Len(answers') > Len(answers) /\ ~ world.cuts =>
           LET batch == requests[Len(answers')] IN
           \E j \in 0 .. Len(batch) :
             /\ db' = Effect(before, SubSeq(batch, 1, j))
             /\ Last(answers') = Found(before, SubSeq(batch, 1, j))
                                   \o <<IF j = Len(batch) THEN "OK!" ELSE "Error!">>
             /\ j < Len(batch) /\ ~ world.faults =>
                  batch[j + 1].op = "get" /\ batch[j + 1].key \notin DOMAIN db']_vars
  BY <1>1 DEF Kept
<1> QED  BY <1>2, QueryInductive, PTL DEF Spec, AllOrPrefix

=============================================================================
