-------------------------- MODULE TargetingProofs ---------------------------
(***************************************************************************)
(* For any clients, filter objects, raw expressions and capabilities: what *)
(* the classes of filters render to, on lists of any length and nested to  *)
(* any depth, and what requests store.                                     *)
(*                                                                         *)
(* Texts are joined by a fold and filters are made of filters.  What holds *)
(* of all of them is proved by induction on sets: the least number a       *)
(* formula fails for does not exist, and the filters that keep their       *)
(* promises are closed under every way of making a filter.                 *)
(***************************************************************************)
EXTENDS Targeting, FiniteSetTheorems, WellFoundedInduction, TLAPS

-----------------------------------------------------------------------------
(* Natural numbers.                                                        *)

LEMMA LeastNumber ==
  ASSUME NEW S \in SUBSET Nat, S # {}
  PROVE  \E x \in S : \A y \in S : x <= y
<1> DEFINE R == {ss \in Nat \X Nat : ss[1] < ss[2]}
<1>1. IsWellFoundedOn(R, Nat)
  BY NatLessThanWellFounded DEF OpToRel
<1>2. \A x, y \in Nat : y < x => <<y, x>> \in R
  OBVIOUS
<1> HIDE DEF R
<1>3. PICK x \in S : \A y \in S : <<y, x>> \notin R
  BY <1>1, WFMin
<1>4. x \in Nat /\ \A y \in S : y \in Nat /\ ~(y < x)
  BY <1>2, <1>3
<1> QED BY <1>4

\* Induction, on a set and not on a formula.
LEMMA ByInduction ==
  ASSUME NEW S \in SUBSET Nat, 0 \in S, \A n \in S : n + 1 \in S
  PROVE  S = Nat
<1> SUFFICES ASSUME Nat \ S # {} PROVE FALSE
  OBVIOUS
<1>1. PICK x \in Nat \ S : \A y \in Nat \ S : x <= y
  <2> DEFINE T == Nat \ S
  <2>1. T \in SUBSET Nat /\ T # {}
    OBVIOUS
  <2> HIDE DEF T
  <2>2. \E x \in T : \A y \in T : x <= y
    BY <2>1, LeastNumber
  <2> QED BY <2>2 DEF T
<1>2. x # 0 /\ x - 1 \in Nat /\ ~(x <= x - 1) /\ (x - 1) + 1 = x
  OBVIOUS
<1> QED BY <1>1, <1>2

\* The greatest of finitely many numbers, as FoldLeft takes it.
LEMMA Greatest ==
  ASSUME NEW n \in Nat, NEW s \in SUBSET (1 .. n), s # {}
  PROVE  Max(s) \in s /\ \A y \in s : y <= Max(s)
<1> DEFINE U == {u \in Nat : \A y \in s : y <= u}
<1>1. n \in U
  OBVIOUS
<1>2. PICK m \in U : \A u \in U : m <= u
  <2>1. U \in SUBSET Nat /\ U # {}
    BY <1>1
  <2> HIDE DEF U
  <2> QED BY <2>1, LeastNumber
<1>3. m \in s
  <2>1. SUFFICES ASSUME m \notin s PROVE FALSE
    OBVIOUS
  <2>2. m # 0
    <3>1. PICK y \in s : y \in 1 .. n
      OBVIOUS
    <3> QED BY <1>2, <3>1
  <2>3. m - 1 \in U
    BY <1>2, <2>1, <2>2
  <2> QED BY <1>2, <2>3
<1>4. \A y \in s : m >= y
  BY <1>2
<1>5. \E x \in s : \A y \in s : x >= y
  BY <1>3, <1>4
<1>6. Max(s) \in s /\ \A y \in s : Max(s) >= y
  BY <1>5 DEF Max
<1> QED BY <1>6

LEMMA Upto ==
  ASSUME NEW n \in Nat
  PROVE  /\ Max(1 .. n + 1) = n + 1
         /\ (1 .. n + 1) \ {n + 1} = 1 .. n
         /\ 1 .. n + 1 # {}
<1> DEFINE s == 1 .. n + 1
<1>1. s \in SUBSET (1 .. n + 1) /\ s # {} /\ n + 1 \in Nat
  OBVIOUS
<1> HIDE DEF s
<1>2. Max(s) \in s /\ \A y \in s : y <= Max(s)
  BY <1>1, Greatest
<1>3. Max(s) \in 1 .. n + 1 /\ n + 1 <= Max(s)
  BY <1>2 DEF s
<1> QED BY <1>3 DEF s

-----------------------------------------------------------------------------
(* Texts that are joined.                                                  *)

Glue(op, joined, t) == IF joined = <<>> THEN t ELSE joined \o [t EXCEPT ![1].op = op]

\* What FoldLeft makes of the texts at indices s.
Step(op, texts, before, s) ==
  IF s = {} THEN <<>> ELSE Glue(op, before[s \ {Max(s)}], texts[Max(s)])

Small(n, k) == {s \in SUBSET (1 .. n) : Cardinality(s) <= k}

LEMMA SmallSets ==
  ASSUME NEW n \in Nat
  PROVE  /\ Small(n, 0) = {{}}
         /\ Small(n, n) = SUBSET (1 .. n)
         /\ \A k \in Nat : /\ Small(n, k) \subseteq Small(n, k + 1)
                          /\ \A s \in Small(n, k + 1) : s # {} => s \ {Max(s)} \in Small(n, k)
<1>1. IsFiniteSet(1 .. n) /\ Cardinality(1 .. n) = n
  BY FS_Interval
<1>2. ASSUME NEW s \in SUBSET (1 .. n)
      PROVE  /\ Cardinality(s) \in Nat /\ Cardinality(s) <= n
             /\ s # {} => /\ Cardinality(s) # 0
                          /\ Cardinality(s \ {Max(s)}) = Cardinality(s) - 1
             /\ s = {} => Cardinality(s) = 0
  <2>1. IsFiniteSet(s) /\ Cardinality(s) <= Cardinality(1 .. n)
    BY <1>1, FS_Subset
  <2>2. Cardinality(s) \in Nat
    BY <2>1, FS_CardinalityType
  <2>3. s # {} <=> Cardinality(s) # 0
    BY <2>1, FS_EmptySet
  <2>4. s # {} => Max(s) \in s
    BY Greatest
  <2>5. Max(s) \in s => Cardinality(s \ {Max(s)}) = Cardinality(s) - 1
    BY <2>1, FS_RemoveElement
  <2> QED BY <1>1, <2>1, <2>2, <2>3, <2>4, <2>5
<1>3. ASSUME NEW s
      PROVE  s \in Small(n, 0) <=> s = {}
  <2>1. ASSUME s \in SUBSET (1 .. n), Cardinality(s) <= 0
        PROVE  s = {}
    <3>1. Cardinality(s) \in Nat /\ (s # {} => Cardinality(s) # 0)
      BY <1>2, <2>1
    <3> QED BY <2>1, <3>1
  <2>2. {} \in SUBSET (1 .. n) /\ Cardinality({}) <= 0
    BY FS_EmptySet
  <2> QED BY <2>1, <2>2 DEF Small
<1>4. Small(n, n) = SUBSET (1 .. n)
  BY <1>2 DEF Small
<1>5. ASSUME NEW k \in Nat, NEW s \in Small(n, k)
      PROVE  s \in Small(n, k + 1)
  <2>1. s \in SUBSET (1 .. n) /\ Cardinality(s) <= k
    BY DEF Small
  <2>2. Cardinality(s) \in Nat
    BY <1>2, <2>1
  <2>3. Cardinality(s) <= k + 1
    BY <2>1, <2>2
  <2> QED BY <2>1, <2>3 DEF Small
<1>6. ASSUME NEW k \in Nat, NEW s \in Small(n, k + 1), s # {}
      PROVE  s \ {Max(s)} \in Small(n, k)
  <2>1. s \in SUBSET (1 .. n) /\ Cardinality(s) <= k + 1
    BY DEF Small
  <2>2. Cardinality(s) \in Nat /\ Cardinality(s \ {Max(s)}) = Cardinality(s) - 1
    BY <1>2, <1>6, <2>1
  <2>3. Cardinality(s \ {Max(s)}) <= k
    BY <2>1, <2>2
  <2> QED BY <2>1, <2>3 DEF Small
<1> QED BY <1>3, <1>4, <1>5, <1>6

LEMMA FoldExists ==
  ASSUME NEW op, NEW texts, NEW n \in Nat, DOMAIN texts = 1 .. n
  PROVE  \E iter : iter = [s \in SUBSET DOMAIN texts |-> Step(op, texts, iter, s)]
<1> DEFINE K == {k \in Nat : \E g : g = [s \in Small(n, k) |-> Step(op, texts, g, s)]}
<1>1. 0 \in K
  <2> DEFINE g == [s \in Small(n, 0) |-> <<>>]
  <2>1. g = [s \in Small(n, 0) |-> Step(op, texts, g, s)]
    BY SmallSets DEF Step
  <2> QED BY <2>1
<1>2. ASSUME NEW k \in K
      PROVE  k + 1 \in K
  <2>1. k \in Nat
    OBVIOUS
  <2>2. PICK g : g = [s \in Small(n, k) |-> Step(op, texts, g, s)]
    OBVIOUS
  <2> DEFINE h == [s \in Small(n, k + 1) |-> Step(op, texts, g, s)]
  <2>3. \A s \in Small(n, k) : h[s] = g[s]
    <3>1. \A s \in Small(n, k) : s \in Small(n, k + 1)
      BY <2>1, SmallSets
    <3>2. \A s \in Small(n, k) : g[s] = Step(op, texts, g, s)
      BY <2>2
    <3> QED BY <3>1, <3>2
  <2>4. \A s \in Small(n, k + 1) : h[s] = Step(op, texts, g, s)
    OBVIOUS
  <2>5. h = [s \in Small(n, k + 1) |-> h[s]]
    OBVIOUS
  <2> HIDE DEF h
  <2>6. \A s \in Small(n, k + 1) : s # {} => s \ {Max(s)} \in Small(n, k)
    BY <2>1, SmallSets
  <2>7. \A s \in Small(n, k + 1) : h[s] = Step(op, texts, h, s)
    BY <2>3, <2>4, <2>6 DEF Step
  <2> QED BY <2>1, <2>5, <2>7
<1>3. n \in K
  <2>1. K \in SUBSET Nat
    OBVIOUS
  <2> HIDE DEF K
  <2> QED BY <1>1, <1>2, <2>1, ByInduction
<1> QED BY <1>3, SmallSets

\* The texts joined one by one.
LEMMA JoinSteps ==
  ASSUME NEW op, NEW texts, NEW n \in Nat, DOMAIN texts = 1 .. n
  PROVE  \E J : /\ J[0] = <<>>
                /\ \A m \in 0 .. n - 1 : J[m + 1] = Glue(op, J[m], texts[m + 1])
                /\ J[n] = Join(op, texts)
<1> DEFINE iter == CHOOSE iter : iter = [s \in SUBSET DOMAIN texts |-> Step(op, texts, iter, s)]
           J == [m \in 0 .. n |-> iter[1 .. m]]
<1>1. Join(op, texts) = iter[DOMAIN texts]
  BY DEF Join, FoldLeft, MapThenFoldSet, Step, Glue
<1>2. iter = [s \in SUBSET DOMAIN texts |-> Step(op, texts, iter, s)]
  BY FoldExists
<1> HIDE DEF iter
<1>3. \A s \in SUBSET (1 .. n) : iter[s] = Step(op, texts, iter, s)
  BY <1>2
<1>4. J[0] = <<>>
  <2>1. J[0] = iter[{}]
    OBVIOUS
  <2> QED BY <1>3, <2>1 DEF Step
<1>5. ASSUME NEW m \in 0 .. n - 1
      PROVE  J[m + 1] = Glue(op, J[m], texts[m + 1])
  <2> DEFINE s == 1 .. m + 1
  <2>1. /\ s \in SUBSET (1 .. n) /\ s # {}
        /\ Max(s) = m + 1 /\ s \ {m + 1} = 1 .. m
    <3>1. m \in Nat /\ m + 1 <= n
      OBVIOUS
    <3>2. Max(s) = m + 1 /\ s \ {m + 1} = 1 .. m /\ s # {}
      BY <3>1, Upto
    <3> QED BY <3>1, <3>2
  <2>2. J[m + 1] = iter[s] /\ J[m] = iter[1 .. m]
    OBVIOUS
  <2> HIDE DEF s, J
  <2> QED BY <1>3, <2>1, <2>2 DEF Step
<1>6. J[n] = Join(op, texts)
  BY <1>1
<1> HIDE DEF J
<1> QED BY <1>4, <1>5, <1>6

\* Text v has the tokens of t, and then those of u, op before them.
Glued(op, t, u, v) ==
  /\ v \in Seq(Token) /\ Len(v) = Len(t) + Len(u)
  /\ \A k \in 1 .. Len(t) : v[k] = t[k]
  /\ \A l \in 1 .. Len(u) :
       /\ v[Len(t) + l].who = u[l].who
       /\ v[Len(t) + l].op = IF l = 1 THEN op ELSE u[l].op

LEMMA GlueIs ==
  ASSUME NEW op \in {"and", "or"}, NEW t \in Seq(Token), t # <<>>,
         NEW u \in Seq(Token), u # <<>>
  PROVE  Glued(op, t, u, Glue(op, t, u))
<1> DEFINE w == [u EXCEPT ![1].op = op]
<1>1. Len(u) \in Nat /\ 1 \in DOMAIN u /\ DOMAIN u = 1 .. Len(u)
  OBVIOUS
<1>2. ASSUME NEW l \in 1 .. Len(u)
      PROVE  /\ w[l] \in Token
             /\ w[l].who = u[l].who
             /\ w[l].op = IF l = 1 THEN op ELSE u[l].op
  <2> DEFINE token == u[l]
  <2>1. token \in Token
    BY <1>1
  <2>2. w[l] = IF l = 1 THEN [token EXCEPT !.op = op] ELSE token
    BY <1>1
  <2> HIDE DEF token, w
  <2>3. /\ [token EXCEPT !.op = op] \in Token
        /\ [token EXCEPT !.op = op].who = token.who
        /\ [token EXCEPT !.op = op].op = op
    BY <2>1 DEF Token
  <2> QED BY <2>1, <2>2, <2>3 DEF token
<1>3. w \in Seq(Token) /\ Len(w) = Len(u)
  <2>1. DOMAIN w = 1 .. Len(u) /\ w = [l \in 1 .. Len(u) |-> w[l]]
    BY <1>1
  <2> HIDE DEF w
  <2> QED BY <1>1, <1>2, <2>1
<1>4. Glue(op, t, u) = t \o w
  BY DEF Glue
<1> HIDE DEF w
<1>5. /\ t \o w \in Seq(Token) /\ Len(t \o w) = Len(t) + Len(w)
      /\ \A k \in 1 .. Len(t) : (t \o w)[k] = t[k]
      /\ \A l \in 1 .. Len(w) : (t \o w)[Len(t) + l] = w[l]
  BY <1>3
<1> QED BY <1>2, <1>3, <1>4, <1>5 DEF Glued

\* Text t has the tokens of the first m texts and no others.
Joins(op, texts, m, t) ==
  /\ t \in Seq(Token)
  /\ IF m = 0 THEN t = <<>> ELSE t # <<>> /\ t[1] = texts[1][1]
  /\ \A k \in DOMAIN t : \E i \in 1 .. m : \E l \in DOMAIN texts[i] : t[k].who = texts[i][l].who
  /\ \A i \in 1 .. m : \A l \in DOMAIN texts[i] : \E k \in DOMAIN t :
       /\ t[k].who = texts[i][l].who
       /\ i > 1 \/ l > 1 => k > 1 /\ t[k].op = IF l > 1 THEN texts[i][l].op ELSE op

LEMMA JoinsOne ==
  ASSUME NEW op, NEW texts, NEW u \in Seq(Token), u # <<>>, u = texts[1]
  PROVE  Joins(op, texts, 1, u)
<1>1. 1 \in 1 .. 1 /\ \A i \in 1 .. 1 : i = 1
  OBVIOUS
<1>2. DOMAIN u = 1 .. Len(u) /\ Len(u) \in Nat
  OBVIOUS
<1>3. \A k \in DOMAIN u : \E i \in 1 .. 1 : \E l \in DOMAIN texts[i] : u[k].who = texts[i][l].who
  BY <1>1
<1>4. ASSUME NEW i \in 1 .. 1, NEW l \in DOMAIN texts[i]
      PROVE  /\ l \in DOMAIN u /\ u[l].who = texts[i][l].who
             /\ i > 1 \/ l > 1 => l > 1 /\ u[l].op = IF l > 1 THEN texts[i][l].op ELSE op
  <2>1. i = 1 /\ texts[i] = u /\ l \in DOMAIN u
    BY <1>1
  <2> QED BY <1>2, <2>1
<1>5. \A i \in 1 .. 1 : \A l \in DOMAIN texts[i] : \E k \in DOMAIN u :
        /\ u[k].who = texts[i][l].who
        /\ i > 1 \/ l > 1 => k > 1 /\ u[k].op = IF l > 1 THEN texts[i][l].op ELSE op
  BY <1>4
<1> QED BY <1>3, <1>5 DEF Joins

LEMMA JoinsMore ==
  ASSUME NEW op \in {"and", "or"}, NEW texts, NEW m \in Nat \ {0},
         NEW t, Joins(op, texts, m, t),
         NEW u \in Seq(Token), u # <<>>, u = texts[m + 1],
         NEW v, v = Glue(op, t, u)
  PROVE  Joins(op, texts, m + 1, v)
<1>1. t \in Seq(Token) /\ t # <<>> /\ t[1] = texts[1][1]
  BY DEF Joins
<1>2. Len(t) \in Nat \ {0} /\ Len(u) \in Nat \ {0}
  BY <1>1
<1>3. /\ v \in Seq(Token) /\ Len(v) = Len(t) + Len(u)
      /\ \A k \in 1 .. Len(t) : v[k] = t[k]
      /\ \A l \in 1 .. Len(u) :
           /\ v[Len(t) + l].who = u[l].who
           /\ v[Len(t) + l].op = IF l = 1 THEN op ELSE u[l].op
  <2>1. Glued(op, t, u, v)
    BY <1>1, GlueIs
  <2> QED BY <2>1 DEF Glued
<1>4. DOMAIN v = 1 .. Len(v) /\ DOMAIN t = 1 .. Len(t) /\ DOMAIN u = 1 .. Len(u)
  BY <1>1, <1>3
<1>5. ASSUME NEW k \in DOMAIN v
      PROVE  \E i \in 1 .. m + 1 : \E l \in DOMAIN texts[i] : v[k].who = texts[i][l].who
  <2>1. CASE k <= Len(t)
    <3>1. k \in DOMAIN t /\ v[k] = t[k]
      BY <1>2, <1>3, <1>4, <2>1
    <3>2. PICK i \in 1 .. m : \E l \in DOMAIN texts[i] : t[k].who = texts[i][l].who
      BY <3>1 DEF Joins
    <3> QED BY <3>1, <3>2
  <2>2. CASE k > Len(t)
    <3>1. k - Len(t) \in 1 .. Len(u) /\ k = Len(t) + (k - Len(t))
      BY <1>2, <1>3, <1>4, <2>2
    <3>2. v[k].who = u[k - Len(t)].who
      BY <1>3, <3>1
    <3>3. m + 1 \in 1 .. m + 1
      OBVIOUS
    <3> QED BY <1>4, <3>1, <3>2, <3>3
  <2> QED BY <1>2, <1>3, <1>4, <2>1, <2>2
<1>6. ASSUME NEW i \in 1 .. m + 1, NEW l \in DOMAIN texts[i]
      PROVE  \E k \in DOMAIN v :
               /\ v[k].who = texts[i][l].who
               /\ i > 1 \/ l > 1 => k > 1 /\ v[k].op = IF l > 1 THEN texts[i][l].op ELSE op
  <2>1. CASE i <= m
    <3>1. i \in 1 .. m
      BY <2>1
    <3>2. PICK k \in DOMAIN t :
            /\ t[k].who = texts[i][l].who
            /\ i > 1 \/ l > 1 => k > 1 /\ t[k].op = IF l > 1 THEN texts[i][l].op ELSE op
      BY <3>1 DEF Joins
    <3>3. k \in DOMAIN v /\ v[k] = t[k]
      BY <1>2, <1>3, <1>4
    <3> QED BY <3>2, <3>3
  <2>2. CASE i = m + 1
    <3>1. l \in 1 .. Len(u) /\ texts[i] = u
      BY <1>4, <2>2
    <3>2. Len(t) + l \in DOMAIN v /\ Len(t) + l > 1
      BY <1>2, <1>3, <1>4, <3>1
    <3>3. /\ v[Len(t) + l].who = texts[i][l].who
          /\ v[Len(t) + l].op = IF l > 1 THEN texts[i][l].op ELSE op
      <4>1. /\ v[Len(t) + l].who = u[l].who
            /\ v[Len(t) + l].op = IF l = 1 THEN op ELSE u[l].op
        BY <1>3, <3>1
      <4>2. l > 1 <=> l # 1
        BY <1>2, <3>1
      <4> QED BY <3>1, <4>1, <4>2
    <3> QED BY <3>2, <3>3
  <2> QED BY <2>1, <2>2
<1>7. v # <<>> /\ v[1] = texts[1][1] /\ m + 1 # 0
  BY <1>1, <1>2, <1>3
<1> QED BY <1>3, <1>5, <1>6, <1>7 DEF Joins

LEMMA JoinTokens ==
  ASSUME NEW op \in {"and", "or"}, NEW texts \in Seq(Seq(Token)),
         \A i \in DOMAIN texts : texts[i] # <<>>
  PROVE  Joins(op, texts, Len(texts), Join(op, texts))
<1> DEFINE n == Len(texts)
<1>1. n \in Nat /\ DOMAIN texts = 1 .. n /\ \A i \in 1 .. n : texts[i] \in Seq(Token) \ {<<>>}
  OBVIOUS
<1> HIDE DEF n
<1>2. PICK J : /\ J[0] = <<>>
               /\ \A m \in 0 .. n - 1 : J[m + 1] = Glue(op, J[m], texts[m + 1])
               /\ J[n] = Join(op, texts)
  BY <1>1, JoinSteps
<1> DEFINE K == {m \in Nat : m <= n => Joins(op, texts, m, J[m])}
<1>3. 0 \in K
  <2>1. Joins(op, texts, 0, <<>>)
    BY DEF Joins
  <2> QED BY <1>2, <2>1
<1>4. ASSUME NEW m \in K
      PROVE  m + 1 \in K
  <2>1. SUFFICES ASSUME m + 1 <= n PROVE Joins(op, texts, m + 1, J[m + 1])
    OBVIOUS
  <2>2. m \in Nat /\ m \in 0 .. n - 1 /\ m + 1 \in 1 .. n /\ Joins(op, texts, m, J[m])
    BY <1>1, <2>1
  <2>3. /\ J[m + 1] = Glue(op, J[m], texts[m + 1])
        /\ texts[m + 1] \in Seq(Token) /\ texts[m + 1] # <<>>
    BY <1>1, <1>2, <2>2
  <2> HIDE DEF K
  <2>4. CASE m = 0
    <3>1. J[1] = texts[1] /\ texts[1] \in Seq(Token) /\ texts[1] # <<>>
      BY <1>2, <2>3, <2>4 DEF Glue
    <3>2. Joins(op, texts, 1, texts[1])
      BY <3>1, JoinsOne
    <3> QED BY <2>4, <3>1, <3>2
  <2>5. CASE m # 0
    BY <2>2, <2>3, <2>5, JoinsMore
  <2> QED BY <2>4, <2>5
<1>5. n \in K
  <2>1. K \in SUBSET Nat
    OBVIOUS
  <2> HIDE DEF K
  <2> QED BY <1>1, <1>3, <1>4, <2>1, ByInduction
<1> QED BY <1>1, <1>2, <1>5 DEF n

-----------------------------------------------------------------------------
(* What texts with one operator are satisfied by.                          *)

\* Operands joined by && are satisfied by the clients that satisfy every one.
LEMMA AllAnd ==
  ASSUME NEW t, DOMAIN t = 1 .. Len(t), Len(t) \in Nat \ {0}, t[1].op # "and",
         \A i \in 2 .. Len(t) : t[i].op = "and", NEW c
  PROVE  Satisfies(c, t) <=> \A i \in DOMAIN t : c \in t[i].who
<1>1. ASSUME Satisfies(c, t), NEW i \in DOMAIN t
      PROVE  c \in t[i].who
  <2>1. PICK k \in DOMAIN t :
          /\ t[k].op # "and"
          /\ c \in t[k].who
          /\ \A j \in k + 1 .. Len(t) :
               t[j].op = "and" /\ (c.jexl = "andFirst" => OnlyAnd(t, k, j)) => c \in t[j].who
    BY <1>1 DEF Satisfies
  <2>2. k = 1
    BY <2>1
  <2>3. \A j \in 1 .. Len(t) : OnlyAnd(t, 1, j)
    BY DEF OnlyAnd
  <2> QED BY <2>1, <2>2, <2>3
<1>2. ASSUME \A i \in DOMAIN t : c \in t[i].who
      PROVE  Satisfies(c, t)
  <2>1. 1 \in DOMAIN t /\ \A j \in 2 .. Len(t) : j \in DOMAIN t
    OBVIOUS
  <2> QED BY <1>2, <2>1 DEF Satisfies
<1> QED BY <1>1, <1>2

\* Operands joined by || are satisfied by the clients that satisfy any of them.
LEMMA AllOr ==
  ASSUME NEW t, DOMAIN t = 1 .. Len(t), Len(t) \in Nat,
         \A i \in 1 .. Len(t) : t[i].op # "and", NEW c
  PROVE  Satisfies(c, t) <=> \E i \in DOMAIN t : c \in t[i].who
BY DEF Satisfies

LEMMA UniformIs ==
  ASSUME NEW t \in Seq(Token), Uniform(t), NEW i \in 2 .. Len(t), NEW j \in 2 .. Len(t)
  PROVE  t[i].op = t[j].op
<1> DEFINE S == {t[k].op : k \in 2 .. Len(t)}
           Ops == {"first", "and", "or"}
<1>1. IsFiniteSet(Ops)
  <2>1. IsFiniteSet({"first"}) /\ Ops = ({"first"} \cup {"and"}) \cup {"or"}
    BY FS_Singleton
  <2> HIDE DEF Ops
  <2>2. IsFiniteSet({"first"} \cup {"and"})
    BY <2>1, FS_AddElement
  <2>3. IsFiniteSet(({"first"} \cup {"and"}) \cup {"or"})
    BY <2>2, FS_AddElement
  <2> QED BY <2>1, <2>3
<1>2. S \subseteq Ops
  <2>1. \A k \in 2 .. Len(t) : t[k] \in Token
    OBVIOUS
  <2>2. \A token \in Token : token.op \in Ops
    BY DEF Token
  <2> QED BY <2>1, <2>2
<1>3. t[i].op \in S /\ t[j].op \in S
  OBVIOUS
<1>4. Cardinality(S) <= 1
  BY DEF Uniform
<1> HIDE DEF S, Ops
<1>5. IsFiniteSet(S)
  BY <1>1, <1>2, FS_Subset
<1>6. Cardinality(S) = 0 \/ Cardinality(S) = 1
  BY <1>4, <1>5, FS_CardinalityType
<1>7. Cardinality(S) # 0
  BY <1>3, <1>5, FS_EmptySet
<1>8. \E x : S = {x}
  BY <1>5, <1>6, <1>7, FS_Singleton
<1> QED BY <1>3, <1>8

\* Texts that one operator joins, if it is the only one they have.
LEMMA JoinedTexts ==
  ASSUME NEW op \in {"and", "or"}, NEW texts \in Seq(Seq(Token)), texts # <<>>,
         \A i \in DOMAIN texts : texts[i] # <<>> /\ texts[i][1].op = "first",
         Len(texts) = 1 \/ Uniform(Join(op, texts)), NEW c
  PROVE  Satisfies(c, Join(op, texts)) <=>
           IF op = "and" THEN \A i \in DOMAIN texts : Satisfies(c, texts[i])
                         ELSE \E i \in DOMAIN texts : Satisfies(c, texts[i])
<1> DEFINE n == Len(texts)
           t == Join(op, texts)
<1>1. /\ n \in Nat \ {0} /\ DOMAIN texts = 1 .. n
      /\ \A i \in 1 .. n : /\ texts[i] \in Seq(Token) /\ texts[i] # <<>>
                           /\ texts[i][1].op = "first"
                           /\ DOMAIN texts[i] = 1 .. Len(texts[i])
                           /\ Len(texts[i]) \in Nat \ {0}
  OBVIOUS
<1>2. Joins(op, texts, n, t)
  BY JoinTokens
<1>3. CASE n = 1
  <2>1. PICK J : /\ J[0] = <<>>
                 /\ \A m \in 0 .. n - 1 : J[m + 1] = Glue(op, J[m], texts[m + 1])
                 /\ J[n] = t
    BY <1>1, JoinSteps
  <2>2. t = texts[1]
    BY <1>3, <2>1 DEF Glue
  <2> HIDE DEF t
  <2> QED BY <1>1, <1>3, <2>2 DEF t
<1>4. CASE n > 1
  <2> HIDE DEF n, t
  <2>1. t \in Seq(Token) /\ t # <<>> /\ t[1] = texts[1][1]
    BY <1>1, <1>2 DEF Joins
  <2>2. \A i \in 1 .. n : \A l \in DOMAIN texts[i] : \E k \in DOMAIN t :
          /\ t[k].who = texts[i][l].who
          /\ i > 1 \/ l > 1 => k > 1 /\ t[k].op = IF l > 1 THEN texts[i][l].op ELSE op
    BY <1>2 DEF Joins
  <2>3. DOMAIN t = 1 .. Len(t) /\ Len(t) \in Nat \ {0}
    BY <2>1
  <2>4. \A k \in 2 .. Len(t) : t[k].op = op
    <3>1. 2 \in 1 .. n /\ 1 \in DOMAIN texts[2]
      BY <1>1, <1>4
    <3>2. PICK k \in DOMAIN t : k > 1 /\ t[k].op = op
      BY <2>2, <3>1
    <3>3. k \in 2 .. Len(t)
      BY <2>3, <3>2
    <3>4. Uniform(t)
      BY <1>4 DEF n, t
    <3> QED BY <2>1, <3>2, <3>3, <3>4, UniformIs
  <2>5. ASSUME NEW i \in 1 .. n, NEW l \in 2 .. Len(texts[i])
        PROVE  texts[i][l].op = op
    <3>1. l \in DOMAIN texts[i] /\ l > 1
      BY <1>1
    <3>2. PICK k \in DOMAIN t : k > 1 /\ t[k].op = texts[i][l].op
      BY <2>2, <3>1
    <3> QED BY <2>3, <2>4, <3>2
  <2>6. /\ \A k \in DOMAIN t : \E i \in 1 .. n : \E l \in DOMAIN texts[i] : t[k].who = texts[i][l].who
        /\ \A i \in 1 .. n : \A l \in DOMAIN texts[i] : \E k \in DOMAIN t : t[k].who = texts[i][l].who
    BY <1>2, <2>2 DEF Joins
  <2>7. CASE op = "and"
    <3>1. Satisfies(c, t) <=> \A k \in DOMAIN t : c \in t[k].who
      <4>1. t[1].op # "and" /\ \A k \in 2 .. Len(t) : t[k].op = "and"
        BY <1>1, <2>1, <2>4, <2>7
      <4> QED BY <2>3, <4>1, AllAnd
    <3>2. ASSUME NEW i \in 1 .. n
          PROVE  Satisfies(c, texts[i]) <=> \A l \in DOMAIN texts[i] : c \in texts[i][l].who
      BY <1>1, <2>5, <2>7, AllAnd
    <3>3. Satisfies(c, t) <=> \A i \in 1 .. n : Satisfies(c, texts[i])
      BY <2>6, <3>1, <3>2
    <3> QED BY <1>1, <2>7, <3>3 DEF t
  <2>8. CASE op = "or"
    <3>1. Satisfies(c, t) <=> \E k \in DOMAIN t : c \in t[k].who
      <4>1. \A k \in 1 .. Len(t) : t[k].op # "and"
        BY <1>1, <2>1, <2>3, <2>4, <2>8
      <4> QED BY <2>3, <4>1, AllOr
    <3>2. ASSUME NEW i \in 1 .. n
          PROVE  Satisfies(c, texts[i]) <=> \E l \in DOMAIN texts[i] : c \in texts[i][l].who
      <4>1. \A l \in 1 .. Len(texts[i]) : texts[i][l].op # "and"
        BY <1>1, <2>5, <2>8
      <4> QED BY <1>1, <4>1, AllOr
    <3>3. Satisfies(c, t) <=> \E i \in 1 .. n : Satisfies(c, texts[i])
      BY <2>6, <3>1, <3>2
    <3> QED BY <1>1, <2>8, <3>3 DEF t
  <2> QED BY <2>7, <2>8
<1> QED BY <1>1, <1>3, <1>4

LEMMA JoinedByAnd ==
  ASSUME NEW S, NEW sets \in Seq(S), sets # <<>>, NEW c
  PROVE  Satisfies(c, JoinOperands("and", sets)) <=> \A i \in DOMAIN sets : c \in sets[i]
<1> DEFINE t == JoinOperands("and", sets)
<1>1. Len(sets) \in Nat \ {0} /\ DOMAIN sets = 1 .. Len(sets)
  OBVIOUS
<1>2. /\ DOMAIN t = 1 .. Len(sets) /\ Len(t) = Len(sets)
      /\ \A i \in 1 .. Len(sets) : t[i].who = sets[i] /\ t[i].op = IF i = 1 THEN "first" ELSE "and"
  BY <1>1 DEF JoinOperands
<1> HIDE DEF t
<1>3. t[1].op # "and" /\ \A i \in 2 .. Len(t) : t[i].op = "and"
  BY <1>1, <1>2
<1>4. Satisfies(c, t) <=> \A i \in DOMAIN t : c \in t[i].who
  BY <1>1, <1>2, <1>3, AllAnd
<1> QED BY <1>1, <1>2, <1>4 DEF t

LEMMA JoinedByOr ==
  ASSUME NEW S, NEW sets \in Seq(S), sets # <<>>, NEW c
  PROVE  Satisfies(c, JoinOperands("or", sets)) <=> \E i \in DOMAIN sets : c \in sets[i]
<1> DEFINE t == JoinOperands("or", sets)
<1>1. Len(sets) \in Nat \ {0} /\ DOMAIN sets = 1 .. Len(sets)
  OBVIOUS
<1>2. /\ DOMAIN t = 1 .. Len(sets) /\ Len(t) = Len(sets)
      /\ \A i \in 1 .. Len(sets) : t[i].who = sets[i] /\ t[i].op # "and"
  BY <1>1 DEF JoinOperands
<1> HIDE DEF t
<1>3. Satisfies(c, t) <=> \E i \in DOMAIN t : c \in t[i].who
  BY <1>1, <1>2, AllOr
<1> QED BY <1>1, <1>2, <1>3 DEF t

LEMMA SequenceOf ==
  ASSUME NEW S, NEW f, NEW n \in Nat, DOMAIN f = 1 .. n, f = [i \in 1 .. n |-> f[i]],
         \A i \in 1 .. n : f[i] \in S
  PROVE  f \in Seq(S) /\ Len(f) = n
  OBVIOUS

-----------------------------------------------------------------------------
(* Filter classes.                                                         *)

\* Text that an evaluator can read.
WellFormed(t) == t \in Seq(Token) /\ t # <<>> /\ t[1].op = "first"

\* A filter that keeps its promises: if it renders, clients it is sound for satisfy
\* it as documented, and it lists the capabilities its text needs.
Honest(f) ==
  /\ f \in Filter
  /\ WellFormed(f.text)
  /\ f.needs \subseteq f.caps
  /\ \A a \in Action, c \in Client :
       c \in f.sound /\ f.outcome[a] = "text" => (Satisfies(c, f.text) <=> c \in f.means)

LEMMA OneOperand ==
  ASSUME NEW S \in SUBSET Client
  PROVE  /\ WellFormed(Operand(S))
         /\ \A c : Satisfies(c, Operand(S)) <=> c \in S
<1> DEFINE token == [op |-> "first", who |-> S]
<1>1. token \in Token /\ token.op = "first" /\ token.who = S
  BY DEF Token
<1> HIDE DEF token
<1>2. Operand(S) = <<token>>
  BY DEF Operand, token
<1>3. WellFormed(<<token>>)
  BY <1>1 DEF WellFormed
<1>4. \A c : Satisfies(c, <<token>>) <=> c \in S
  <2> DEFINE t == <<token>>
  <2>1. DOMAIN t = 1 .. Len(t) /\ Len(t) = 1 /\ t[1] = token
    OBVIOUS
  <2> HIDE DEF t
  <2>2. \A i \in 1 .. Len(t) : t[i].op # "and"
    BY <1>1, <2>1
  <2>3. \A c : Satisfies(c, t) <=> \E i \in DOMAIN t : c \in t[i].who
    BY <2>1, <2>2, AllOr
  <2> QED BY <1>1, <2>1, <2>3 DEF t
<1> QED BY <1>2, <1>3, <1>4

LEMMA Operands ==
  ASSUME NEW op \in {"and", "or"}, NEW sets \in Seq(SUBSET Client), sets # <<>>
  PROVE  WellFormed(JoinOperands(op, sets))
<1>1. Len(sets) \in Nat \ {0} /\ \A i \in 1 .. Len(sets) : sets[i] \in SUBSET Client
  OBVIOUS
<1> DEFINE t == JoinOperands(op, sets)
<1>2. /\ DOMAIN t = 1 .. Len(sets) /\ t = [i \in 1 .. Len(sets) |-> t[i]]
      /\ \A i \in 1 .. Len(sets) : t[i] = [op |-> IF i = 1 THEN "first" ELSE op, who |-> sets[i]]
  BY <1>1 DEF JoinOperands
<1> HIDE DEF t
<1>3. \A i \in 1 .. Len(sets) : t[i] \in Token
  BY <1>1, <1>2 DEF Token
<1>4. t \in Seq(Token) /\ Len(t) = Len(sets)
  BY <1>1, <1>2, <1>3, SequenceOf
<1>5. t[1].op = "first"
  BY <1>1, <1>2
<1> QED BY <1>1, <1>4, <1>5 DEF WellFormed, t

LEMMA BaseHonest ==
  ASSUME NEW text, WellFormed(text), NEW means \in SUBSET Client, NEW caps \in SUBSET Capability,
         \A c \in Client : Satisfies(c, text) <=> c \in means
  PROVE  Honest(Base(text, means, caps))
<1>1. Renders \in [Action -> Outcome]
  BY DEF Renders, Outcome
<1>2. Base(text, means, caps) \in Filter
  BY <1>1 DEF Base, Filter, WellFormed
<1> QED BY <1>2 DEF Honest, Base

\* The same where the promise is known to be broken for some clients.
LEMMA BrokenHonest ==
  ASSUME NEW text, WellFormed(text), NEW means \in SUBSET Client, NEW caps \in SUBSET Capability,
         NEW sound \in SUBSET Client, \A c \in sound : Satisfies(c, text) <=> c \in means
  PROVE  Honest([Base(text, means, caps) EXCEPT !.sound = sound])
<1> DEFINE f == [Base(text, means, caps) EXCEPT !.sound = sound]
<1>1. Renders \in [Action -> Outcome]
  BY DEF Renders, Outcome
<1>2. f = [type |-> "simple", text |-> text, means |-> means, outcome |-> Renders,
           caps |-> caps, needs |-> caps, sound |-> sound]
  BY DEF Base
<1> HIDE DEF f
<1>3. f \in Filter
  BY <1>1, <1>2 DEF Filter, WellFormed
<1>4. Honest(f)
  BY <1>2, <1>3 DEF Honest
<1> QED BY <1>4 DEF f

LEMMA OperandHonest ==
  ASSUME NEW S \in SUBSET Client, NEW caps \in SUBSET Capability
  PROVE  Honest(Base(Operand(S), S, caps))
BY OneOperand, BaseHonest

LEMMA ValueIs ==
  ASSUME NEW t
  PROVE  Value(t) \in SUBSET Client /\ \A c \in Client : c \in Value(t) <=> Satisfies(c, t)
BY DEF Value

LEMMA ListedHonest == ASSUME NEW S PROVE Honest(Listed(S))
BY OperandHonest DEF Listed

LEMMA PlatformHonest ==
  ASSUME NEW S, NEW ps \in Seq(S), ps # <<>>
  PROVE  Honest(Platform(ps))
<1> DEFINE sets == [i \in DOMAIN ps |-> {c \in Client : c.os = ps[i]}]
           means == {c \in Client : \E i \in DOMAIN ps : c.os = ps[i]}
<1>1. Len(ps) \in Nat \ {0} /\ DOMAIN ps = 1 .. Len(ps)
  OBVIOUS
<1>2. sets \in Seq(SUBSET Client) /\ Len(sets) = Len(ps)
  <2>1. DOMAIN sets = 1 .. Len(ps) /\ sets = [i \in 1 .. Len(ps) |-> sets[i]]
    BY <1>1
  <2>2. \A i \in 1 .. Len(ps) : sets[i] \in SUBSET Client
    BY <1>1
  <2> HIDE DEF sets
  <2> QED BY <1>1, <2>1, <2>2, SequenceOf
<1>3. \A c \in Client : c \in means <=> \E i \in DOMAIN sets : c \in sets[i]
  OBVIOUS
<1>4. Platform(ps) = Base(JoinOperands("or", sets), means, {}) /\ means \in SUBSET Client
  BY DEF Platform
<1> HIDE DEF sets, means
<1>5. sets # <<>>
  BY <1>1, <1>2
<1>6. \A c \in Client : Satisfies(c, JoinOperands("or", sets)) <=> c \in means
  BY <1>2, <1>3, <1>5, JoinedByOr
<1>7. WellFormed(JoinOperands("or", sets))
  BY <1>2, <1>5, Operands
<1> QED BY <1>4, <1>6, <1>7, BaseHonest

LEMMA AddonsHonest ==
  ASSUME NEW S, NEW addons \in Seq(S), addons # <<>>, NEW anyOrAll \in {"any", "all"}
  PROVE  Honest(Addons(anyOrAll, addons))
<1> DEFINE with == [i \in DOMAIN addons |-> {c \in Client : addons[i] \in c.has}]
           some == UNION {with[i] : i \in DOMAIN with}
           every == {c \in Client : \A i \in DOMAIN with : c \in with[i]}
<1>1. Len(addons) \in Nat \ {0} /\ DOMAIN addons = 1 .. Len(addons)
  OBVIOUS
<1>2. with \in Seq(SUBSET Client) /\ Len(with) = Len(addons)
  <2>1. DOMAIN with = 1 .. Len(addons) /\ with = [i \in 1 .. Len(addons) |-> with[i]]
    BY <1>1
  <2>2. \A i \in 1 .. Len(addons) : with[i] \in SUBSET Client
    BY <1>1
  <2> HIDE DEF with
  <2> QED BY <1>1, <2>1, <2>2, SequenceOf
<1>3. Addons(anyOrAll, addons) = IF anyOrAll = "any"
                                 THEN Base(JoinOperands("or", with), some, {})
                                 ELSE Base(JoinOperands("and", with), every, {})
  BY DEF Addons
<1> HIDE DEF with
<1>4. with # <<>> /\ DOMAIN with = 1 .. Len(with)
  BY <1>1, <1>2
<1>5. some \in SUBSET Client /\ every \in SUBSET Client
  <2>1. \A i \in DOMAIN with : with[i] \subseteq Client
    BY <1>2
  <2> QED BY <2>1
<1>6. \A c : c \in some <=> \E i \in DOMAIN with : c \in with[i]
  OBVIOUS
<1>7. \A c \in Client : c \in every <=> \A i \in DOMAIN with : c \in with[i]
  OBVIOUS
<1> HIDE DEF some, every
<1>8. CASE anyOrAll = "any"
  <2>1. \A c \in Client : Satisfies(c, JoinOperands("or", with)) <=> c \in some
    BY <1>2, <1>4, <1>6, JoinedByOr
  <2>2. WellFormed(JoinOperands("or", with))
    BY <1>2, <1>4, Operands
  <2> QED BY <1>3, <1>5, <1>8, <2>1, <2>2, BaseHonest
<1>9. CASE anyOrAll = "all"
  <2>1. \A c \in Client : Satisfies(c, JoinOperands("and", with)) <=> c \in every
    BY <1>2, <1>4, <1>7, JoinedByAnd
  <2>2. WellFormed(JoinOperands("and", with))
    BY <1>2, <1>4, Operands
  <2> QED BY <1>3, <1>5, <1>9, <2>1, <2>2, BaseHonest
<1> QED BY <1>8, <1>9

LEMMA PrefCompareHonest ==
  ASSUME NEW comparison, NEW value
  PROVE  Honest(PrefCompare(comparison, value))
BY OperandHonest, CapabilityAssumption DEF PrefCompare

LEMMA PrefIsHonest ==
  ASSUME NEW transform \in Capability, NEW pref, NEW value
  PROVE  Honest(PrefIs(transform, pref, value))
<1> DEFINE there(b) == {c \in Client : (pref \in c.has) = b}
           S == there(Truthy(value))
           means == there(value \in SaysTrue)
           sound == IF Truthy(value) = (value \in SaysTrue) THEN Client ELSE {}
<1>1. PrefIs(transform, pref, value) = [Base(Operand(S), means, {transform}) EXCEPT !.sound = sound]
  BY DEF PrefIs
<1>2. S \in SUBSET Client /\ means \in SUBSET Client /\ sound \in SUBSET Client
  OBVIOUS
<1>3. \A c \in sound : c \in S <=> c \in means
  OBVIOUS
<1> HIDE DEF S, means, sound
<1>4. WellFormed(Operand(S)) /\ \A c : Satisfies(c, Operand(S)) <=> c \in S
  BY <1>2, OneOperand
<1>5. {transform} \in SUBSET Capability
  OBVIOUS
<1>6. \A c \in sound : Satisfies(c, Operand(S)) <=> c \in means
  BY <1>3, <1>4
<1>7. Honest([Base(Operand(S), means, {transform}) EXCEPT !.sound = sound])
  BY <1>2, <1>4, <1>5, <1>6, BrokenHonest
<1> QED BY <1>1, <1>7

LEMMA SampleHonest ==
  ASSUME NEW S \in SUBSET Client, NEW transform \in Capability
  PROVE  Honest(Sample(S, transform))
BY OperandHonest DEF Sample

LEMMA TwoOperands ==
  ASSUME NEW S \in SUBSET Client, NEW T \in SUBSET Client, NEW op \in {"and", "or"}, NEW c
  PROVE  /\ WellFormed(JoinOperands(op, <<S, T>>))
         /\ Satisfies(c, JoinOperands(op, <<S, T>>)) <=>
              IF op = "and" THEN c \in S /\ c \in T ELSE c \in S \/ c \in T
<1> DEFINE sets == <<S, T>>
<1>1. sets \in Seq(SUBSET Client) /\ sets # <<>> /\ DOMAIN sets = 1 .. 2
  OBVIOUS
<1>2. sets[1] = S /\ sets[2] = T
  OBVIOUS
<1> HIDE DEF sets
<1>3. WellFormed(JoinOperands(op, sets))
  BY <1>1, Operands
<1>4. Satisfies(c, JoinOperands("and", sets)) <=> \A i \in DOMAIN sets : c \in sets[i]
  BY <1>1, JoinedByAnd
<1>5. Satisfies(c, JoinOperands("or", sets)) <=> \E i \in DOMAIN sets : c \in sets[i]
  BY <1>1, JoinedByOr
<1> QED BY <1>1, <1>2, <1>3, <1>4, <1>5 DEF sets

LEMMA VersionRangeHonest ==
  ASSUME NEW low \in Int, NEW high \in Int
  PROVE  Honest(VersionRange(low, high))
<1> DEFINE means == {c \in Client : low <= c.version /\ c.version < high}
           text == JoinOperands("and", <<From(low), Before(high)>>)
<1>1. From(low) \in SUBSET Client /\ Before(high) \in SUBSET Client
  BY DEF From, Before
<1>2. \A c \in Client : c \in means <=> c \in From(low) /\ c \in Before(high)
  BY ClientAssumption DEF From, Before
<1>3. WellFormed(text) /\ \A c : Satisfies(c, text) <=> c \in From(low) /\ c \in Before(high)
  BY <1>1, TwoOperands
<1>4. VersionRange(low, high) = Base(text, means, {"env.version", "versionCompare"})
  BY DEF VersionRange
<1>5. means \in SUBSET Client /\ {"env.version", "versionCompare"} \in SUBSET Capability
  BY CapabilityAssumption
<1> HIDE DEF means, text
<1> QED BY <1>2, <1>3, <1>4, <1>5, BaseHonest

LEMMA WindowsBuildHonest ==
  ASSUME NEW comparison, NEW value
  PROVE  Honest(WindowsBuild(comparison, value))
<1> DEFINE windows == {c \in Client : c.os = "windows"}
           compared == {c \in Client : Compares(c.number, comparison, value)}
           text == JoinOperands("and", <<windows, compared>>)
<1>1. windows \in SUBSET Client /\ compared \in SUBSET Client
  OBVIOUS
<1>2. WindowsBuild(comparison, value) = Base(Paren(text), windows \cap compared, {})
  BY DEF WindowsBuild
<1> HIDE DEF windows, compared
<1>3. \A c : Satisfies(c, text) <=> c \in windows /\ c \in compared
  BY <1>1, TwoOperands
<1> HIDE DEF text
<1>4. Value(text) = windows \cap compared
  BY <1>1, <1>3 DEF Value
<1> QED BY <1>1, <1>2, <1>4, OperandHonest DEF Paren

LEMMA ProfileCreateDateHonest ==
  ASSUME NEW direction, NEW day
  PROVE  Honest(ProfileCreateDate(direction, day))
<1> DEFINE without == {c \in Client : c.created = None}
           before == {c \in Client \ without : c.created < day}
           onDay == {c \in Client \ without : c.created = day}
           after == {c \in Client \ without : c.created > day}
           text == JoinOperands("or", <<without, after>>)
<1>1. /\ without \in SUBSET Client /\ before \in SUBSET Client
      /\ onDay \in SUBSET Client /\ after \in SUBSET Client
  OBVIOUS
<1>2. ProfileCreateDate(direction, day) =
        IF direction = "olderThan"
        THEN [Base(Operand(before \cup onDay), before, {}) EXCEPT !.sound = Client \ onDay]
        ELSE [Base(text, after, {}) EXCEPT !.sound = Client \ without]
  BY DEF ProfileCreateDate
<1> HIDE DEF without, before, onDay, after
<1>3. Honest([Base(Operand(before \cup onDay), before, {}) EXCEPT !.sound = Client \ onDay])
  <2>1. before \cup onDay \in SUBSET Client /\ Client \ onDay \in SUBSET Client
    BY <1>1
  <2>2. \A c \in Client \ onDay : Satisfies(c, Operand(before \cup onDay)) <=> c \in before
    BY <2>1, OneOperand
  <2> QED BY <1>1, <2>1, <2>2, OneOperand, BrokenHonest
<1>4. Honest([Base(text, after, {}) EXCEPT !.sound = Client \ without])
  <2>1. WellFormed(text) /\ \A c : Satisfies(c, text) <=> c \in without \/ c \in after
    BY <1>1, TwoOperands
  <2> HIDE DEF text
  <2> QED BY <1>1, <2>1, BrokenHonest
<1> HIDE DEF text
<1> QED BY <1>2, <1>3, <1>4

LEMMA JexlHonest ==
  ASSUME NEW text, NEW caps \in SUBSET Capability
  PROVE  Honest(Jexl(text, caps))
BY OperandHonest, ValueIs DEF Jexl, Paren

\* Where a filter renders to nothing, it promises nothing.
LEMMA OutcomeHonest ==
  ASSUME NEW f, Honest(f), NEW outcome \in [Action -> Outcome],
         \A a \in Action : outcome[a] = "text" => f.outcome[a] = "text"
  PROVE  Honest([f EXCEPT !.outcome = outcome])
BY DEF Honest, Filter

LEMMA UnrecognizedHonest ==
  ASSUME NEW caps \in SUBSET Capability
  PROVE  Honest(Unrecognized(caps))
<1>1. Honest(Base(Operand({}), {}, caps))
  BY OperandHonest
<1>2. Raises \in [Action -> Outcome] /\ \A a \in Action : Raises[a] # "text"
  BY DEF Raises, Outcome
<1> QED BY <1>1, <1>2, OutcomeHonest DEF Unrecognized

LEMMA IncompleteHonest == Honest(Incomplete)
<1> DEFINE outcome == [a \in Action |-> "keyError"]
<1>1. Honest(Base(Operand({}), {}, {}))
  BY OperandHonest
<1>2. outcome \in [Action -> Outcome] /\ \A a \in Action : outcome[a] # "text"
  BY DEF Outcome
<1>3. Incomplete = [Base(Operand({}), {}, {}) EXCEPT !.outcome = outcome]
  BY DEF Incomplete
<1> HIDE DEF outcome
<1> QED BY <1>1, <1>2, <1>3, OutcomeHonest

LEMMA QaOnlyHonest ==
  ASSUME NEW documented, NEW rendered
  PROVE  Honest(QaOnly(documented, rendered))
<1> DEFINE naming(pref) == {c \in Client : pref \in c.has}
           S == naming(rendered)
           means == naming(documented)
           sound == {c \in Client : documented \in c.has <=> rendered \in c.has}
           outcome == [a \in Action |-> IF a = "slugged" THEN "text" ELSE "error"]
           f == [Base(Operand(S), means, {"preferenceValue"}) EXCEPT !.sound = sound]
<1>1. S \in SUBSET Client /\ means \in SUBSET Client /\ sound \in SUBSET Client
  OBVIOUS
<1>2. \A c \in sound : c \in S <=> c \in means
  OBVIOUS
<1>3. outcome \in [Action -> Outcome]
  BY DEF Outcome
<1>4. QaOnly(documented, rendered) = [f EXCEPT !.outcome = outcome]
  BY DEF QaOnly, Base
<1>5. \A a \in Action : f.outcome[a] = "text"
  BY DEF Base, Renders
<1> HIDE DEF S, means, sound
<1>6. Honest(f)
  <2>1. WellFormed(Operand(S)) /\ \A c : Satisfies(c, Operand(S)) <=> c \in S
    BY <1>1, OneOperand
  <2>2. {"preferenceValue"} \in SUBSET Capability
    BY CapabilityAssumption
  <2> QED BY <1>1, <1>2, <2>1, <2>2, BrokenHonest
<1> HIDE DEF f, outcome
<1> QED BY <1>3, <1>4, <1>5, <1>6, OutcomeHonest

-----------------------------------------------------------------------------
(* Filters made of filters.                                                *)

\* The first of a list of filters that does not render decides, if there is one.
LEMMA OutcomeOfAll ==
  ASSUME NEW filters \in Seq(Filter), NEW a \in Action
  PROVE  /\ FirstOutcome(filters, a) \in Outcome
         /\ FirstOutcome(filters, a) = "text" =>
              \A i \in DOMAIN filters : filters[i].outcome[a] = "text"
<1> DEFINE failed == {i \in DOMAIN filters : filters[i].outcome[a] # "text"}
           first == CHOOSE i \in failed : \A j \in failed : i <= j
<1>1. FirstOutcome(filters, a) = IF failed = {} THEN "text" ELSE filters[first].outcome[a]
  BY DEF FirstOutcome
<1>2. failed \in SUBSET Nat /\ failed \subseteq DOMAIN filters
  OBVIOUS
<1>3. \A i \in DOMAIN filters : filters[i].outcome[a] \in Outcome
  <2>1. \A f \in Filter : f.outcome[a] \in Outcome
    BY DEF Filter
  <2> QED BY <2>1
<1>4. CASE failed = {}
  BY <1>1, <1>4 DEF Outcome
<1>5. CASE failed # {}
  <2>1. first \in failed
    <3> HIDE DEF failed
    <3>1. \E i \in failed : \A j \in failed : i <= j
      BY <1>2, <1>5, LeastNumber
    <3> QED BY <3>1
  <2>2. filters[first].outcome[a] # "text" /\ first \in DOMAIN filters
    BY <2>1
  <2> HIDE DEF first, failed
  <2> QED BY <1>1, <1>3, <1>5, <2>2
<1> QED BY <1>4, <1>5

LEMMA NegateHonest ==
  ASSUME NEW f, Honest(f)
  PROVE  Honest(Negate(f))
<1> DEFINE S == Client \ Value(f.text)
           others == Client \ f.means
           g == Negate(f)
<1>1. S \in SUBSET Client /\ \A c \in Client : c \in S <=> ~Satisfies(c, f.text)
  BY ValueIs
<1>2. f \in Filter
  BY DEF Honest
<1>3. others \in SUBSET Client /\ \A c \in Client : c \in others <=> c \notin f.means
  OBVIOUS
<1>4. g = [type |-> "negate", text |-> Operand(S), means |-> others, outcome |-> f.outcome,
           caps |-> {}, needs |-> {}, sound |-> f.sound]
  <2>1. g = [f EXCEPT !.type = "negate", !.text = Operand(S), !.means = others,
                      !.caps = {}, !.needs = {}]
    BY DEF Negate
  <2> HIDE DEF g, S, others
  <2>2. f = [type |-> f.type, text |-> f.text, means |-> f.means, outcome |-> f.outcome,
             caps |-> f.caps, needs |-> f.needs, sound |-> f.sound]
    BY <1>2 DEF Filter
  <2> QED BY <2>1, <2>2
<1> HIDE DEF S, others
<1>5. WellFormed(Operand(S)) /\ \A c : Satisfies(c, Operand(S)) <=> c \in S
  BY <1>1, OneOperand
<1>6. f.outcome \in [Action -> Outcome] /\ f.sound \in SUBSET Client
  BY <1>2 DEF Filter
<1>7. g \in Filter
  <2> HIDE DEF g
  <2> QED BY <1>3, <1>4, <1>5, <1>6 DEF Filter, WellFormed
<1>8. /\ g.text = Operand(S) /\ g.means = others /\ g.outcome = f.outcome
      /\ g.needs = {} /\ g.sound = f.sound
  <2> HIDE DEF g
  <2> QED BY <1>4
<1> HIDE DEF g
<1>9. ASSUME NEW a \in Action, NEW c \in Client, c \in g.sound, g.outcome[a] = "text"
      PROVE  Satisfies(c, g.text) <=> c \in g.means
  <2>1. Satisfies(c, f.text) <=> c \in f.means
    BY <1>8, <1>9 DEF Honest
  <2> QED BY <1>1, <1>3, <1>5, <1>8, <2>1
<1>10. Honest(g)
  BY <1>5, <1>7, <1>8, <1>9 DEF Honest
<1> QED BY <1>10 DEF g

\* Nested filters keep their promises if their parts do: what is sound has one
\* operator, and parts that do not render do not let the whole render.
LEMMA CompositeHonest ==
  ASSUME NEW type \in {"and", "or"}, NEW filters \in Seq(Filter), filters # <<>>,
         \A i \in DOMAIN filters : Honest(filters[i]), NEW means \in SUBSET Client,
         \A c \in Client : c \in means <=>
           IF type = "and" THEN \A i \in DOMAIN filters : c \in filters[i].means
                           ELSE \E i \in DOMAIN filters : c \in filters[i].means
  PROVE  Honest(Composite(type, means, filters))
<1> DEFINE texts == [i \in DOMAIN filters |-> filters[i].text]
           joined == Join(type, texts)
           outcome == [a \in Action |-> FirstOutcome(filters, a)]
           caps == UNION {filters[i].caps : i \in DOMAIN filters}
           needs == UNION {filters[i].needs : i \in DOMAIN filters}
           sound == IF Len(filters) = 1 \/ Uniform(joined)
                    THEN {c \in Client : \A i \in DOMAIN filters : c \in filters[i].sound}
                    ELSE {}
           f == Composite(type, means, filters)
<1>1. Len(filters) \in Nat \ {0} /\ DOMAIN filters = 1 .. Len(filters)
  OBVIOUS
<1>2. \A i \in DOMAIN filters : /\ filters[i] \in Filter /\ WellFormed(filters[i].text)
                                /\ filters[i].needs \subseteq filters[i].caps
  BY DEF Honest
<1>3. f = [type |-> type, text |-> Paren(joined), means |-> means, outcome |-> outcome,
           caps |-> caps, needs |-> needs, sound |-> sound]
  BY DEF Composite
<1>4. /\ texts \in Seq(Seq(Token)) /\ Len(texts) = Len(filters) /\ DOMAIN texts = DOMAIN filters
      /\ \A i \in DOMAIN texts : texts[i] = filters[i].text
  <2>1. DOMAIN texts = 1 .. Len(filters) /\ texts = [i \in 1 .. Len(filters) |-> texts[i]]
    BY <1>1
  <2>2. \A i \in 1 .. Len(filters) : texts[i] \in Seq(Token)
    BY <1>1, <1>2 DEF WellFormed
  <2> HIDE DEF texts
  <2>3. texts \in Seq(Seq(Token)) /\ Len(texts) = Len(filters)
    BY <1>1, <2>1, <2>2, SequenceOf
  <2> QED BY <1>1, <2>1, <2>3 DEF texts
<1>5. outcome \in [Action -> Outcome]
  BY OutcomeOfAll
<1>6. caps \in SUBSET Capability /\ needs \in SUBSET Capability /\ needs \subseteq caps
  <2>1. \A i \in DOMAIN filters : /\ filters[i].caps \subseteq Capability
                                  /\ filters[i].needs \subseteq Capability
    BY <1>2 DEF Filter
  <2> QED BY <1>2, <2>1
<1>7. Value(joined) \in SUBSET Client /\ \A c \in Client : c \in Value(joined) <=> Satisfies(c, joined)
  BY ValueIs
<1>8. WellFormed(Paren(joined)) /\ \A c : Satisfies(c, Paren(joined)) <=> c \in Value(joined)
  BY <1>7, OneOperand DEF Paren
<1>9. ASSUME NEW a \in Action, outcome[a] = "text", NEW c \in Client, c \in sound
      PROVE  Satisfies(c, joined) <=> c \in means
  <2>1. \A i \in DOMAIN filters : filters[i].outcome[a] = "text"
    BY <1>9, OutcomeOfAll
  <2>2. \A i \in DOMAIN filters : Satisfies(c, filters[i].text) <=> c \in filters[i].means
    <3>1. \A i \in DOMAIN filters : c \in filters[i].sound
      BY <1>9
    <3> QED BY <1>9, <2>1, <3>1 DEF Honest
  <2>3. texts # <<>> /\ \A i \in DOMAIN texts : texts[i] # <<>> /\ texts[i][1].op = "first"
    BY <1>1, <1>2, <1>4 DEF WellFormed
  <2>4. Len(texts) = 1 \/ Uniform(joined)
    BY <1>4, <1>9
  <2> HIDE DEF texts, sound, outcome
  <2>5. Satisfies(c, joined) <=>
          IF type = "and" THEN \A i \in DOMAIN texts : Satisfies(c, texts[i])
                          ELSE \E i \in DOMAIN texts : Satisfies(c, texts[i])
    BY <1>4, <2>3, <2>4, JoinedTexts
  <2> QED BY <1>4, <2>2, <2>5
<1> HIDE DEF texts, outcome, caps, needs, f
<1>10. f \in Filter
  <2>1. sound \in SUBSET Client
    OBVIOUS
  <2> HIDE DEF sound, joined
  <2> QED BY <1>3, <1>5, <1>6, <1>8, <2>1 DEF Filter, WellFormed
<1> HIDE DEF sound, joined
<1> QED BY <1>3, <1>6, <1>7, <1>8, <1>9, <1>10 DEF Honest, f

LEMMA JoinedHonest ==
  ASSUME NEW filters \in Seq(Filter), filters # <<>>,
         \A i \in DOMAIN filters : Honest(filters[i])
  PROVE  Honest(AndFilter(filters)) /\ Honest(OrFilter(filters))
<1> DEFINE every == {c \in Client : \A i \in DOMAIN filters : c \in filters[i].means}
           some == UNION {filters[i].means : i \in DOMAIN filters}
<1>1. \A i \in DOMAIN filters : filters[i].means \subseteq Client
  BY DEF Honest, Filter
<1>2. every \in SUBSET Client /\ some \in SUBSET Client
  BY <1>1
<1>3. \A c \in Client : /\ c \in every <=> \A i \in DOMAIN filters : c \in filters[i].means
                        /\ c \in some <=> \E i \in DOMAIN filters : c \in filters[i].means
  OBVIOUS
<1>4. AndFilter(filters) = Composite("and", every, filters) /\ OrFilter(filters) = Composite("or", some, filters)
  BY DEF AndFilter, OrFilter
<1> HIDE DEF every, some
<1>5. Honest(Composite("and", every, filters))
  BY <1>2, <1>3, CompositeHonest
<1>6. Honest(Composite("or", some, filters))
  BY <1>2, <1>3, CompositeHonest
<1> QED BY <1>4, <1>5, <1>6

-----------------------------------------------------------------------------
(* Lists of versions.                                                      *)

\* What comes before element i of s, itself included.
UpTo(s, i) == {j \in DOMAIN s : s[j] < s[i] \/ (s[j] = s[i] /\ j <= i)}
Place(s, i) == Cardinality(UpTo(s, i))

LEMMA Places ==
  ASSUME NEW s \in Seq(Nat)
  PROVE  /\ \A i \in DOMAIN s : Place(s, i) \in DOMAIN s
         /\ \A i, j \in DOMAIN s : Place(s, i) < Place(s, j) => s[i] <= s[j]
         /\ \A k \in DOMAIN s : \E i \in DOMAIN s : Place(s, i) = k
<1> DEFINE n == Len(s)
           D == DOMAIN s
<1>1. /\ n \in Nat /\ D = 1 .. n /\ \A i \in D : s[i] \in Nat
      /\ IsFiniteSet(D) /\ Cardinality(D) = n
  <2>1. n \in Nat /\ D = 1 .. n /\ \A i \in D : s[i] \in Nat
    OBVIOUS
  <2> HIDE DEF n, D
  <2> QED BY <2>1, FS_Interval
<1> HIDE DEF n
<1>2. ASSUME NEW i \in D
      PROVE  /\ IsFiniteSet(UpTo(s, i)) /\ Place(s, i) \in Nat
             /\ Place(s, i) <= n /\ Place(s, i) # 0
  <2>1. UpTo(s, i) \in SUBSET D /\ i \in UpTo(s, i)
    BY <1>1 DEF UpTo
  <2>2. IsFiniteSet(UpTo(s, i)) /\ Place(s, i) <= n
    BY <1>1, <2>1, FS_Subset DEF Place
  <2> QED BY <2>1, <2>2, FS_CardinalityType, FS_EmptySet DEF Place
<1>3. ASSUME NEW i \in D, NEW j \in D, s[i] < s[j] \/ (s[i] = s[j] /\ i < j)
      PROVE  Place(s, i) < Place(s, j)
  <2> DEFINE rest == UpTo(s, j) \ {j}
  <2>1. UpTo(s, i) \subseteq UpTo(s, j) /\ j \notin UpTo(s, i) /\ j \in UpTo(s, j)
    BY <1>1, <1>3 DEF UpTo
  <2>2. UpTo(s, i) \in SUBSET rest
    BY <2>1
  <2>3. IsFiniteSet(rest) /\ Cardinality(rest) = Place(s, j) - 1
    BY <1>2, <2>1, FS_RemoveElement DEF Place
  <2> HIDE DEF rest
  <2>4. Place(s, i) <= Place(s, j) - 1
    BY <2>2, <2>3, FS_Subset DEF Place
  <2> QED BY <1>2, <2>4
<1> DEFINE place == [i \in D |-> Place(s, i)]
<1>4. place \in [D -> D]
  BY <1>1, <1>2
<1>5. \A i, j \in D : place[i] = place[j] => i = j
  BY <1>1, <1>2, <1>3
<1>6. place \in Surjection(D, D)
  <2> HIDE DEF place, D
  <2>1. DOMAIN place = D
    BY <1>4
  <2>2. place \in Injection(D, D)
    BY <1>4, <1>5, <2>1 DEF Injection, IsInjective
  <2> QED BY <1>1, <2>2, FS_Injection
<1>7. \A k \in D : \E i \in D : place[i] = k
  BY <1>6 DEF Surjection
<1>8. \A i, j \in D : Place(s, i) < Place(s, j) => s[i] <= s[j]
  BY <1>1, <1>2, <1>3
<1> QED BY <1>4, <1>7, <1>8

\* Sorted lists have as many elements, all of them numbers, in their order.
Ordered(vs) ==
  /\ vs \in Seq(Nat)
  /\ \A k, l \in DOMAIN vs : k < l => vs[k] <= vs[l]

LEMMA SortedIs ==
  ASSUME NEW s \in Seq(Nat)
  PROVE  /\ Ordered(Sorted(s)) /\ Len(Sorted(s)) = Len(s)
         /\ Repeats(Sorted(s)) => Repeats(s)
<1> DEFINE at(k) == CHOOSE i \in DOMAIN s : Place(s, i) = k
           vs == Sorted(s)
<1>1. Len(s) \in Nat /\ DOMAIN s = 1 .. Len(s) /\ \A i \in DOMAIN s : s[i] \in Nat
  OBVIOUS
<1>2. vs = [k \in DOMAIN s |-> s[at(k)]]
  BY DEF Sorted, Place, UpTo
<1>3. \A k \in DOMAIN s : at(k) \in DOMAIN s /\ Place(s, at(k)) = k
  BY Places
<1> HIDE DEF at, vs
<1>4. \A k \in 1 .. Len(s) : vs[k] \in Nat
  BY <1>1, <1>2, <1>3
<1>5. vs \in Seq(Nat) /\ Len(vs) = Len(s)
  BY <1>1, <1>2, <1>4, SequenceOf
<1>6. \A k, l \in DOMAIN s : k < l => vs[k] <= vs[l]
  BY <1>2, <1>3, Places
<1>7. DOMAIN vs = DOMAIN s
  BY <1>2
<1>8. Ordered(vs)
  BY <1>5, <1>6, <1>7 DEF Ordered
<1>9. Repeats(vs) => Repeats(s)
  <2> SUFFICES ASSUME NEW k \in DOMAIN s, NEW l \in DOMAIN s, k # l, vs[k] = vs[l]
               PROVE  Repeats(s)
    BY <1>7 DEF Repeats
  <2>1. s[at(k)] = s[at(l)] /\ at(k) # at(l) /\ at(k) \in DOMAIN s /\ at(l) \in DOMAIN s
    BY <1>2, <1>3
  <2> QED BY <2>1 DEF Repeats
<1> QED BY <1>5, <1>8, <1>9 DEF vs

\* Versions that do not repeat and are as many as the range has are the range.
LEMMA OneRange ==
  ASSUME NEW vs, Ordered(vs), NEW n \in Nat \ {0}, n = Len(vs),
         \A i, j \in DOMAIN vs : vs[i] = vs[j] => i = j,
         vs[n] - vs[1] + 1 = n
  PROVE  \A v \in Nat : vs[1] <= v /\ v <= vs[n] <=> \E i \in DOMAIN vs : v = vs[i]
<1>1. DOMAIN vs = 1 .. n /\ \A i \in 1 .. n : vs[i] \in Nat
  BY DEF Ordered
<1>2. \A k, l \in 1 .. n : k < l => vs[k] < vs[l]
  BY <1>1 DEF Ordered
<1> DEFINE Up == {d \in Nat : d < n => vs[1] + d <= vs[1 + d]}
           Down == {d \in Nat : d < n => vs[n - d] + d <= vs[n]}
<1>3. Up = Nat
  <2>1. 0 \in Up
    BY <1>1
  <2>2. ASSUME NEW d \in Up
        PROVE  d + 1 \in Up
    <3>1. SUFFICES ASSUME d + 1 < n PROVE vs[1] + (d + 1) <= vs[1 + (d + 1)]
      OBVIOUS
    <3>2. d \in Nat /\ vs[1] + d <= vs[1 + d] /\ 1 + d \in 1 .. n /\ 1 + (d + 1) \in 1 .. n
      BY <3>1
    <3>3. vs[1 + d] < vs[1 + (d + 1)]
      BY <1>2, <3>2
    <3> QED BY <1>1, <3>2, <3>3
  <2>3. Up \in SUBSET Nat
    OBVIOUS
  <2> HIDE DEF Up
  <2> QED BY <2>1, <2>2, <2>3, ByInduction
<1>4. Down = Nat
  <2>1. 0 \in Down
    BY <1>1
  <2>2. ASSUME NEW d \in Down
        PROVE  d + 1 \in Down
    <3>1. SUFFICES ASSUME d + 1 < n PROVE vs[n - (d + 1)] + (d + 1) <= vs[n]
      OBVIOUS
    <3>2. d \in Nat /\ vs[n - d] + d <= vs[n] /\ n - d \in 1 .. n /\ n - (d + 1) \in 1 .. n
      BY <3>1
    <3>3. vs[n - (d + 1)] < vs[n - d]
      BY <1>2, <3>2
    <3>4. vs[n] \in Nat /\ vs[n - d] \in Nat /\ vs[n - (d + 1)] \in Nat
      BY <1>1, <3>2
    <3> QED BY <3>2, <3>3, <3>4
  <2>3. Down \in SUBSET Nat
    OBVIOUS
  <2> HIDE DEF Down
  <2> QED BY <2>1, <2>2, <2>3, ByInduction
<1>5. ASSUME NEW k \in 1 .. n
      PROVE  vs[k] = vs[1] + (k - 1)
  <2>1. k - 1 \in Nat /\ k - 1 < n /\ 1 + (k - 1) = k
    OBVIOUS
  <2>2. n - k \in Nat /\ n - k < n /\ n - (n - k) = k
    OBVIOUS
  <2>3. vs[1] + (k - 1) <= vs[k]
    BY <1>3, <2>1
  <2>4. vs[k] + (n - k) <= vs[n]
    BY <1>4, <2>2
  <2>5. vs[1] \in Nat /\ vs[k] \in Nat /\ vs[n] \in Nat /\ 1 \in 1 .. n
    BY <1>1
  <2> QED BY <2>3, <2>4, <2>5
<1> HIDE DEF Up, Down
<1>6. ASSUME NEW v \in Nat, vs[1] <= v, v <= vs[n]
      PROVE  \E i \in DOMAIN vs : v = vs[i]
  <2>1. v - vs[1] + 1 \in 1 .. n
    BY <1>1, <1>6
  <2>2. vs[v - vs[1] + 1] = v
    BY <1>1, <1>5, <2>1
  <2> QED BY <1>1, <2>1, <2>2
<1>7. ASSUME NEW v \in Nat, NEW i \in DOMAIN vs, v = vs[i]
      PROVE  vs[1] <= v /\ v <= vs[n]
  BY <1>1, <1>5, <1>7
<1> QED BY <1>6, <1>7

Pair(v) == JoinOperands("and", <<From(v), Before(v + 1)>>)

\* Text t says of each of the first m versions that it is there.
Pairs(vs, m, t) ==
  /\ t \in Seq(Token) /\ Len(t) = 2 * m
  /\ \A i \in 1 .. m :
       /\ t[2 * i - 1].who = From(vs[i])
       /\ t[2 * i - 1].op = IF i = 1 THEN "first" ELSE "or"
       /\ t[2 * i].who = Before(vs[i] + 1)
       /\ t[2 * i].op = "and"

LEMMA PairIs ==
  ASSUME NEW v
  PROVE  /\ Pair(v) \in Seq(Token) /\ Len(Pair(v)) = 2 /\ Pair(v) # <<>>
         /\ Pair(v)[1].who = From(v) /\ Pair(v)[1].op = "first"
         /\ Pair(v)[2].who = Before(v + 1) /\ Pair(v)[2].op = "and"
<1> DEFINE sets == <<From(v), Before(v + 1)>>
           t == JoinOperands("and", sets)
<1>1. From(v) \in SUBSET Client /\ Before(v + 1) \in SUBSET Client
  BY DEF From, Before
<1>2. sets \in Seq(SUBSET Client) /\ sets # <<>> /\ Len(sets) = 2
      /\ sets[1] = From(v) /\ sets[2] = Before(v + 1)
  BY <1>1
<1> HIDE DEF sets
<1>3. t \in Seq(Token) /\ t # <<>>
  BY <1>2, Operands DEF WellFormed
<1>4. t = [i \in 1 .. 2 |-> [op |-> IF i = 1 THEN "first" ELSE "and", who |-> sets[i]]]
  BY <1>2 DEF JoinOperands
<1> HIDE DEF t
<1>5. Len(t) = 2
  BY <1>3, <1>4
<1> QED BY <1>2, <1>3, <1>4, <1>5 DEF Pair, t, sets

LEMMA PairsMore ==
  ASSUME NEW vs, NEW m \in Nat \ {0}, NEW t, Pairs(vs, m, t),
         NEW u, Glued("or", t, Pair(vs[m + 1]), u)
  PROVE  Pairs(vs, m + 1, u)
<1> DEFINE v == vs[m + 1]
<1>1. /\ Len(t) = 2 * m /\ Len(Pair(v)) = 2
      /\ u \in Seq(Token) /\ Len(u) = 2 * (m + 1)
  <2>1. Len(t) = 2 * m /\ Len(Pair(v)) = 2
    BY PairIs DEF Pairs
  <2>2. u \in Seq(Token) /\ Len(u) = Len(t) + Len(Pair(v))
    BY DEF Glued
  <2> HIDE DEF v
  <2> QED BY <2>1, <2>2
<1>2. \A k \in 1 .. 2 * m : u[k] = t[k]
  BY <1>1 DEF Glued
<1>3. /\ u[2 * m + 1].who = Pair(v)[1].who /\ u[2 * m + 1].op = "or"
      /\ u[2 * m + 2].who = Pair(v)[2].who /\ u[2 * m + 2].op = Pair(v)[2].op
  <2>1. \A l \in 1 .. 2 : /\ u[2 * m + l].who = Pair(v)[l].who
                          /\ u[2 * m + l].op = IF l = 1 THEN "or" ELSE Pair(v)[l].op
    BY <1>1 DEF Glued
  <2>2. 1 \in 1 .. 2 /\ 2 \in 1 .. 2
    OBVIOUS
  <2> QED BY <2>1, <2>2
<1>4. ASSUME NEW i \in 1 .. m + 1
      PROVE  /\ u[2 * i - 1].who = From(vs[i])
             /\ u[2 * i - 1].op = IF i = 1 THEN "first" ELSE "or"
             /\ u[2 * i].who = Before(vs[i] + 1)
             /\ u[2 * i].op = "and"
  <2>1. CASE i <= m
    <3>1. i \in 1 .. m /\ 2 * i \in 1 .. 2 * m /\ 2 * i - 1 \in 1 .. 2 * m
      BY <2>1
    <3>2. u[2 * i - 1] = t[2 * i - 1] /\ u[2 * i] = t[2 * i]
      BY <1>2, <3>1
    <3>3. /\ t[2 * i - 1].who = From(vs[i])
          /\ t[2 * i - 1].op = IF i = 1 THEN "first" ELSE "or"
          /\ t[2 * i].who = Before(vs[i] + 1)
          /\ t[2 * i].op = "and"
      BY <3>1 DEF Pairs
    <3> QED BY <3>2, <3>3
  <2>2. CASE i = m + 1
    <3>1. 2 * i - 1 = 2 * m + 1 /\ 2 * i = 2 * m + 2 /\ i # 1 /\ vs[i] = v
      BY <2>2
    <3> QED BY <1>3, <3>1, PairIs
  <2> QED BY <2>1, <2>2
<1> QED BY <1>1, <1>4 DEF Pairs

LEMMA PairsJoined ==
  ASSUME NEW vs \in Seq(Nat), vs # <<>>
  PROVE  Pairs(vs, Len(vs), Join("or", [i \in DOMAIN vs |-> Pair(vs[i])]))
<1> DEFINE n == Len(vs)
           texts == [i \in DOMAIN vs |-> Pair(vs[i])]
<1>1. n \in Nat \ {0} /\ DOMAIN texts = 1 .. n /\ \A i \in 1 .. n : texts[i] = Pair(vs[i])
  OBVIOUS
<1> HIDE DEF n, texts
<1>2. PICK J : /\ J[0] = <<>>
               /\ \A m \in 0 .. n - 1 : J[m + 1] = Glue("or", J[m], texts[m + 1])
               /\ J[n] = Join("or", texts)
  BY <1>1, JoinSteps
<1> DEFINE K == {m \in Nat : 0 < m /\ m <= n => Pairs(vs, m, J[m])}
<1>3. 0 \in K
  OBVIOUS
<1>4. ASSUME NEW m \in K
      PROVE  m + 1 \in K
  <2>1. SUFFICES ASSUME m + 1 <= n PROVE Pairs(vs, m + 1, J[m + 1])
    OBVIOUS
  <2>2. m \in Nat /\ m \in 0 .. n - 1 /\ m + 1 \in 1 .. n
    BY <1>1, <2>1
  <2>3. J[m + 1] = Glue("or", J[m], Pair(vs[m + 1]))
    BY <1>1, <1>2, <2>2
  <2>4. CASE m = 0
    <3>1. J[1] = Pair(vs[1])
      BY <1>2, <2>3, <2>4 DEF Glue
    <3>2. \A i \in 1 .. 1 : i = 1 /\ 2 * i - 1 = 1 /\ 2 * i = 2
      OBVIOUS
    <3>3. Pairs(vs, 1, Pair(vs[1]))
      BY <3>2, PairIs DEF Pairs
    <3> QED BY <2>4, <3>1, <3>3
  <2>5. CASE m # 0
    <3>1. Pairs(vs, m, J[m])
      <4>1. 0 < m /\ m <= n
        BY <1>1, <2>1, <2>2, <2>5
      <4> QED BY <4>1
    <3> HIDE DEF K
    <3>2. J[m] \in Seq(Token) /\ J[m] # <<>>
      BY <2>2, <2>5, <3>1 DEF Pairs
    <3>3. Glued("or", J[m], Pair(vs[m + 1]), J[m + 1])
      BY <2>3, <3>2, PairIs, GlueIs
    <3> QED BY <2>2, <2>5, <3>1, <3>3, PairsMore
  <2> QED BY <2>4, <2>5
<1>5. n \in K
  <2>1. K \in SUBSET Nat
    OBVIOUS
  <2> HIDE DEF K
  <2> QED BY <1>1, <1>3, <1>4, <2>1, ByInduction
<1> QED BY <1>1, <1>2, <1>5 DEF n, texts

\* However && and || are read, sorted pairs leave every version in and no other.
LEMMA PairsSatisfied ==
  ASSUME NEW vs, Ordered(vs), vs # <<>>, NEW t, Pairs(vs, Len(vs), t), NEW c \in Client
  PROVE  Satisfies(c, t) <=> \E i \in DOMAIN vs : c.version = vs[i]
<1> DEFINE n == Len(vs)
<1>1. /\ n \in Nat \ {0} /\ DOMAIN vs = 1 .. n /\ \A i \in 1 .. n : vs[i] \in Nat
      /\ c.version \in Nat /\ \A i, j \in 1 .. n : i < j => vs[i] <= vs[j]
  BY ClientAssumption DEF Ordered
<1>2. /\ Len(t) = 2 * n /\ DOMAIN t = 1 .. 2 * n
      /\ \A i \in 1 .. n : /\ t[2 * i - 1].who = From(vs[i])
                           /\ t[2 * i - 1].op # "and"
                           /\ t[2 * i].who = Before(vs[i] + 1)
                           /\ t[2 * i].op = "and"
  BY <1>1 DEF Pairs
<1> HIDE DEF n
<1>3. \A k \in 1 .. 2 * n : \E i \in 1 .. n : k = 2 * i - 1 \/ k = 2 * i
  <2>1. ASSUME NEW k \in 1 .. 2 * n
        PROVE  \E i \in 1 .. n : k = 2 * i - 1 \/ k = 2 * i
    <3> DEFINE i == (k + 1) \div 2
    <3>1. i \in 1 .. n /\ (k = 2 * i - 1 \/ k = 2 * i)
      BY <1>1, SMT
    <3> QED BY <3>1
  <2> QED BY <2>1
<1>4. \A i \in 1 .. n : /\ c \in From(vs[i]) <=> c.version >= vs[i]
                        /\ c \in Before(vs[i] + 1) <=> c.version <= vs[i]
  BY <1>1 DEF From, Before
<1>5. ASSUME Satisfies(c, t)
      PROVE  \E i \in 1 .. n : c.version = vs[i]
  <2>1. PICK k \in 1 .. 2 * n :
          /\ t[k].op # "and"
          /\ c \in t[k].who
          /\ \A j \in k + 1 .. Len(t) :
               t[j].op = "and" /\ (c.jexl = "andFirst" => OnlyAnd(t, k, j)) => c \in t[j].who
    BY <1>2, <1>5 DEF Satisfies
  <2>2. PICK i \in 1 .. n : k = 2 * i - 1
    BY <1>2, <1>3, <2>1
  <2>3. 2 * i \in k + 1 .. Len(t) /\ \A j \in k + 1 .. 2 * i : j = 2 * i
    <3>1. 2 * i \in k + 1 .. 2 * n
      BY <1>1, <2>2
    <3>2. \A j \in k + 1 .. 2 * i : j = 2 * i
      BY <2>2
    <3> QED BY <1>2, <3>1, <3>2
  <2>4. OnlyAnd(t, k, 2 * i)
    BY <1>2, <2>3 DEF OnlyAnd
  <2>5. c \in t[2 * i].who
    BY <1>2, <2>1, <2>3, <2>4
  <2>6. c.version >= vs[i] /\ c.version <= vs[i]
    BY <1>2, <1>4, <2>1, <2>2, <2>5
  <2> QED BY <1>1, <2>6
<1>6. ASSUME NEW i \in 1 .. n, c.version = vs[i]
      PROVE  Satisfies(c, t)
  <2> DEFINE k == 2 * i - 1
  <2>1. k \in DOMAIN t /\ t[k].op # "and" /\ c \in t[k].who
    <3>1. k \in 1 .. 2 * n
      BY <1>1
    <3>2. c \in From(vs[i])
      BY <1>1, <1>4, <1>6
    <3>3. t[k].who = From(vs[i]) /\ t[k].op # "and"
      BY <1>2
    <3> QED BY <1>2, <3>1, <3>2, <3>3
  <2>2. ASSUME NEW j \in k + 1 .. Len(t), t[j].op = "and"
        PROVE  c \in t[j].who
    <3>1. PICK l \in 1 .. n : j = 2 * l
      <4>1. j \in 1 .. 2 * n
        <5>1. j \in 2 * i - 1 + 1 .. 2 * n
          BY <1>2
        <5> HIDE DEF k
        <5> QED BY <5>1
      <4>2. PICK l \in 1 .. n : j = 2 * l - 1 \/ j = 2 * l
        BY <1>3, <4>1
      <4> QED BY <1>2, <2>2, <4>2
    <3>2. i <= l
      BY <3>1
    <3>3. vs[i] <= vs[l]
      BY <1>1, <3>2
    <3> QED BY <1>2, <1>4, <1>6, <3>1, <3>3
  <2> HIDE DEF k
  <2> QED BY <2>1, <2>2 DEF Satisfies
<1> QED BY <1>1, <1>5, <1>6

LEMMA VersionHonest ==
  ASSUME NEW versions \in Seq(Nat), versions # <<>>
  PROVE  Honest(Version(versions))
<1> DEFINE vs == Sorted(versions)
           n == Len(vs)
           among == {c \in Client : \E i \in DOMAIN vs : c.version = vs[i]}
           pairs == Join("or", [i \in DOMAIN vs |-> Pair(vs[i])])
           range == JoinOperands("and", <<From(vs[1]), Before(vs[n] + 1)>>)
           text == IF vs[n] - vs[1] + 1 # n THEN pairs ELSE range
           caps == {"env.version", "versionCompare"}
           sound == IF Repeats(versions) THEN {} ELSE Client
           f == Version(versions)
<1>1. Ordered(vs) /\ n \in Nat \ {0} /\ vs # <<>> /\ (Repeats(vs) => Repeats(versions))
  <2>1. /\ Ordered(vs) /\ n = Len(versions) /\ Len(versions) \in Nat \ {0}
        /\ Repeats(vs) => Repeats(versions)
    BY SortedIs
  <2> HIDE DEF vs
  <2> QED BY <2>1
<1>2. f = [Base(text, among, caps) EXCEPT !.sound = sound]
  BY DEF Version, Pair
<1> HIDE DEF vs, f
<1>3. /\ DOMAIN vs = 1 .. n /\ \A i \in 1 .. n : vs[i] \in Nat
      /\ 1 \in 1 .. n /\ n \in 1 .. n
  BY <1>1 DEF Ordered
<1>4. Pairs(vs, n, pairs)
  BY <1>1, PairsJoined DEF Ordered
<1>5. WellFormed(pairs) /\ \A c \in Client : Satisfies(c, pairs) <=> c \in among
  <2> HIDE DEF pairs, n
  <2>1. pairs \in Seq(Token) /\ Len(pairs) = 2 * n
    BY <1>4 DEF Pairs
  <2>2. pairs[2 * 1 - 1].op = "first"
    BY <1>3, <1>4 DEF Pairs
  <2>3. pairs # <<>>
    BY <1>1, <2>1
  <2>4. \A c \in Client : Satisfies(c, pairs) <=> \E i \in DOMAIN vs : c.version = vs[i]
    BY <1>1, <1>4, PairsSatisfied DEF n
  <2> QED BY <2>1, <2>2, <2>3, <2>4 DEF WellFormed
<1>6. /\ WellFormed(range)
      /\ \A c \in Client : Satisfies(c, range) <=> vs[1] <= c.version /\ c.version <= vs[n]
  <2>1. From(vs[1]) \in SUBSET Client /\ Before(vs[n] + 1) \in SUBSET Client
    BY DEF From, Before
  <2>2. WellFormed(range)
        /\ \A c : Satisfies(c, range) <=> c \in From(vs[1]) /\ c \in Before(vs[n] + 1)
    BY <2>1, TwoOperands
  <2>3. \A c \in Client : /\ c \in From(vs[1]) <=> vs[1] <= c.version
                          /\ c \in Before(vs[n] + 1) <=> c.version <= vs[n]
    BY <1>3, ClientAssumption DEF From, Before
  <2> HIDE DEF range
  <2> QED BY <2>2, <2>3
<1>7. ASSUME NEW c \in sound
      PROVE  Satisfies(c, text) <=> c \in among
  <2>1. CASE vs[n] - vs[1] + 1 # n
    BY <1>5, <1>7, <2>1
  <2>2. CASE vs[n] - vs[1] + 1 = n
    <3>1. \A v \in Nat : vs[1] <= v /\ v <= vs[n] <=> \E i \in DOMAIN vs : v = vs[i]
      <4>1. \A i, j \in DOMAIN vs : vs[i] = vs[j] => i = j
        BY <1>1, <1>7 DEF Repeats
      <4> HIDE DEF n
      <4> QED BY <1>1, <2>2, <4>1, OneRange DEF n
    <3>2. c.version \in Nat
      BY <1>7, ClientAssumption
    <3> HIDE DEF range, pairs
    <3> QED BY <1>6, <2>2, <3>1, <3>2
  <2> QED BY <2>1, <2>2
<1>8. WellFormed(text)
  BY <1>5, <1>6
<1>9. among \in SUBSET Client /\ caps \in SUBSET Capability /\ sound \in SUBSET Client
  BY CapabilityAssumption
<1> HIDE DEF text, among, caps, sound
<1>10. f = [type |-> "simple", text |-> text, means |-> among, outcome |-> Renders,
            caps |-> caps, needs |-> caps, sound |-> sound]
  BY <1>2 DEF Base
<1>11. Renders \in [Action -> Outcome]
  BY DEF Renders, Outcome
<1>12. f \in Filter
  BY <1>8, <1>9, <1>10, <1>11 DEF Filter, WellFormed
<1> QED BY <1>7, <1>8, <1>10, <1>12 DEF Honest, f

LEMMA Elements ==
  ASSUME NEW S, NEW s \in Seq(S)
  PROVE  /\ Len(s) \in Nat
         /\ DOMAIN s = 1 .. Len(s)
         /\ \A i \in DOMAIN s : s[i] \in S
         /\ s # <<>> <=> Len(s) > 0
  OBVIOUS

-----------------------------------------------------------------------------
(* Every filter there is.                                                   *)

NonEmptySeq(S) == Seq(S) \ {<<>>}

\* A filter of some class that is not made of others, with fields its validation
\* accepts or, where Unrecognized and Incomplete stand for it, does not.
Plain(f) ==
  \/ \E S : f = Listed(S)
  \/ \E S : \E ps \in NonEmptySeq(S) : f = Platform(ps)
  \/ \E S : \E addons \in NonEmptySeq(S), anyOrAll \in {"any", "all"} : f = Addons(anyOrAll, addons)
  \/ \E comparison, value :
       f = PrefCompare(comparison, value) \/ f = WindowsBuild(comparison, value)
  \/ \E transform \in Capability, value \in SaysTrue \cup SaysFalse :
       \E pref : f = PrefIs(transform, pref, value)
  \/ \E S \in SUBSET Client, transform \in Capability : f = Sample(S, transform)
  \/ \E versions \in NonEmptySeq(Nat) : f = Version(versions)
  \/ \E low, high \in Int : f = VersionRange(low, high)
  \/ \E direction, day : f = ProfileCreateDate(direction, day)
  \/ \E caps \in SUBSET Capability : f = Unrecognized(caps) \/ \E text : f = Jexl(text, caps)
  \/ \E documented, rendered : f = QaOnly(documented, rendered)
  \/ f = Incomplete

\* Negated filters and filters joined from a list are filters again.
Closed(F) ==
  /\ \A f \in Filter : Plain(f) => f \in F
  /\ \A f \in F : Negate(f) \in F
  /\ \A filters \in NonEmptySeq(F) : AndFilter(filters) \in F /\ OrFilter(filters) \in F

\* What from_data() makes of data: the least set of that kind, filters nested to
\* any depth.
Built == {f \in Filter : \A F \in SUBSET Filter : Closed(F) => f \in F}

LEMMA PlainHonest ==
  ASSUME NEW f, Plain(f)
  PROVE  Honest(f)
<1>1. ASSUME NEW S, f = Listed(S) PROVE Honest(f)
  BY <1>1, ListedHonest
<1>2. ASSUME NEW S, NEW ps \in NonEmptySeq(S), f = Platform(ps) PROVE Honest(f)
  BY <1>2, PlatformHonest DEF NonEmptySeq
<1>3. ASSUME NEW S, NEW addons \in NonEmptySeq(S), NEW anyOrAll \in {"any", "all"},
             f = Addons(anyOrAll, addons)
      PROVE  Honest(f)
  BY <1>3, AddonsHonest DEF NonEmptySeq
<1>4. ASSUME NEW comparison, NEW value,
             f = PrefCompare(comparison, value) \/ f = WindowsBuild(comparison, value)
      PROVE  Honest(f)
  BY <1>4, PrefCompareHonest, WindowsBuildHonest
<1>5. ASSUME NEW transform \in Capability, NEW pref, NEW value, f = PrefIs(transform, pref, value)
      PROVE  Honest(f)
  BY <1>5, PrefIsHonest
<1>6. ASSUME NEW S \in SUBSET Client, NEW transform \in Capability, f = Sample(S, transform)
      PROVE  Honest(f)
  BY <1>6, SampleHonest
<1>7. ASSUME NEW versions \in NonEmptySeq(Nat), f = Version(versions) PROVE Honest(f)
  BY <1>7, VersionHonest DEF NonEmptySeq
<1>8. ASSUME NEW low \in Int, NEW high \in Int, f = VersionRange(low, high) PROVE Honest(f)
  BY <1>8, VersionRangeHonest
<1>9. ASSUME NEW direction, NEW day, f = ProfileCreateDate(direction, day) PROVE Honest(f)
  BY <1>9, ProfileCreateDateHonest
<1>10. ASSUME NEW caps \in SUBSET Capability, f = Unrecognized(caps) \/ \E text : f = Jexl(text, caps)
       PROVE  Honest(f)
  BY <1>10, UnrecognizedHonest, JexlHonest
<1>11. ASSUME NEW documented, NEW rendered, f = QaOnly(documented, rendered) PROVE Honest(f)
  BY <1>11, QaOnlyHonest
<1>12. CASE f = Incomplete
  BY <1>12, IncompleteHonest
<1> QED
  BY <1>1, <1>2, <1>3, <1>4, <1>5, <1>6, <1>7, <1>8, <1>9, <1>10, <1>11, <1>12 DEF Plain

LEMMA BuiltHonest ==
  ASSUME NEW f \in Built
  PROVE  Honest(f)
<1> DEFINE F == {g \in Filter : Honest(g)}
<1>1. F \in SUBSET Filter /\ \A g : g \in F <=> Honest(g)
  BY DEF Honest
<1> HIDE DEF F
<1>2. \A g \in Filter : Plain(g) => g \in F
  BY <1>1, PlainHonest
<1>3. \A g \in F : Negate(g) \in F
  BY <1>1, NegateHonest
<1>4. ASSUME NEW filters \in NonEmptySeq(F)
      PROVE  AndFilter(filters) \in F /\ OrFilter(filters) \in F
  <2>1. filters \in Seq(Filter) /\ filters # <<>> /\ \A i \in DOMAIN filters : filters[i] \in F
    BY <1>1 DEF NonEmptySeq
  <2>2. \A i \in DOMAIN filters : Honest(filters[i])
    BY <1>1, <2>1
  <2>3. Honest(AndFilter(filters)) /\ Honest(OrFilter(filters))
    BY <2>1, <2>2, JoinedHonest
  <2> QED BY <1>1, <2>3
<1>5. Closed(F)
  BY <1>2, <1>3, <1>4 DEF Closed
<1> QED BY <1>1, <1>5 DEF Built

LEMMA FiltersHonest ==
  ASSUME \A i \in DOMAIN Object : Object[i] \in Built, NEW r \in Recipe,
         NEW i \in DOMAIN r.filters
  PROVE  Honest(Object[r.filters[i]])
<1>1. r.filters \in Seq(DOMAIN Object)
  BY ConstantsAssumption DEF Recipe
<1>2. r.filters[i] \in DOMAIN Object
  BY <1>1, Elements
<1> QED BY <1>2, BuiltHonest

\* Filters of every class are there, and so are all that they nest in.
THEOREM EveryFilterIsBuilt == Closed(Built)
<1>1. ASSUME NEW f \in Filter, Plain(f)
      PROVE  f \in Built
  BY <1>1 DEF Built, Closed
<1>2. ASSUME NEW f \in Built
      PROVE  Negate(f) \in Built
  <2>1. Negate(f) \in Filter
    BY BuiltHonest, NegateHonest DEF Honest
  <2>2. ASSUME NEW F \in SUBSET Filter, Closed(F)
        PROVE  Negate(f) \in F
    BY <2>2 DEF Built, Closed
  <2> QED BY <2>1, <2>2 DEF Built
<1>3. ASSUME NEW filters \in NonEmptySeq(Built)
      PROVE  AndFilter(filters) \in Built /\ OrFilter(filters) \in Built
  <2>1. /\ filters \in Seq(Filter) /\ filters # <<>>
        /\ \A i \in DOMAIN filters : filters[i] \in Built
    <3>1. Built \subseteq Filter
      BY DEF Built
    <3> QED BY <3>1 DEF NonEmptySeq
  <2>2. Honest(AndFilter(filters)) /\ Honest(OrFilter(filters))
    BY <2>1, BuiltHonest, JoinedHonest
  <2>3. ASSUME NEW F \in SUBSET Filter, Closed(F)
        PROVE  AndFilter(filters) \in F /\ OrFilter(filters) \in F
    <3>1. \A f \in Built : f \in F
      BY <2>3 DEF Built
    <3>2. \A i \in DOMAIN filters : filters[i] \in F
      BY <2>1, <3>1
    <3>3. Len(filters) \in Nat /\ DOMAIN filters = 1 .. Len(filters)
          /\ filters = [i \in 1 .. Len(filters) |-> filters[i]]
      BY <2>1
    <3>4. filters \in Seq(F)
      BY <3>2, <3>3, SequenceOf
    <3> QED BY <2>1, <2>3, <3>4 DEF Closed, NonEmptySeq
  <2> QED BY <2>2, <2>3 DEF Built, Honest
<1> QED BY <1>1, <1>2, <1>3 DEF Closed

-----------------------------------------------------------------------------
(* Stored recipes.                                                         *)

LEMMA PartsType ==
  ASSUME NEW r \in Recipe
  PROVE  /\ Parts(r) \in Seq(Seq(Token))
         /\ FilterObjects(r) \in Seq(Filter)
         /\ r.filters # <<>> \/ r.extra # None => Parts(r) # <<>>
<1>1. r.filters \in Seq(DOMAIN Object) /\ r.listed \in Seq(DOMAIN Object)
  BY ConstantsAssumption DEF Recipe
<1> DEFINE objects == r.listed \o r.filters
           texts == [i \in DOMAIN objects |-> Object[objects[i]].text]
<1>2. /\ objects \in Seq(DOMAIN Object)
      /\ Len(objects) = Len(r.listed) + Len(r.filters)
  BY <1>1
<1> HIDE DEF objects
<1>3. \A i \in DOMAIN Object : Object[i] \in Filter
  BY ConstantsAssumption
<1>4. \A i \in DOMAIN objects : objects[i] \in DOMAIN Object
  BY <1>2, Elements
<1>5. \A i \in DOMAIN objects : Object[objects[i]].text \in Seq(Token)
  <2>1. \A f \in Filter : f.text \in Seq(Token)
    BY DEF Filter
  <2> QED
    BY <2>1, <1>3, <1>4
<1>6. DOMAIN objects = 1 .. Len(objects) /\ Len(objects) \in Nat
  BY <1>2, Elements
<1>7. texts \in Seq(Seq(Token)) /\ Len(texts) = Len(objects)
  <2>1. DOMAIN texts = 1 .. Len(objects) /\ texts = [i \in 1 .. Len(objects) |-> texts[i]]
    BY <1>6
  <2>2. \A i \in 1 .. Len(objects) : texts[i] \in Seq(Token)
    BY <1>5, <1>6
  <2> HIDE DEF texts
  <2> QED
    BY <2>1, <2>2, <1>6, SequenceOf
<1>8. r.extra # None => Raw[r.extra] \in Seq(Token)
  BY ConstantsAssumption DEF Recipe
<1>9. Parts(r) = IF r.extra = None THEN texts ELSE Append(texts, Raw[r.extra])
  BY DEF Parts, objects
<1>10. FilterObjects(r) \in Seq(Filter)
  <2>1. \A i \in DOMAIN r.filters : Object[r.filters[i]] \in Filter
    BY <1>1, <1>3, Elements
  <2> QED
    <3>1. DOMAIN r.filters = 1 .. Len(r.filters) /\ Len(r.filters) \in Nat
      BY <1>1, Elements
    <3>2. FilterObjects(r) = [i \in 1 .. Len(r.filters) |-> Object[r.filters[i]]]
      BY <3>1 DEF FilterObjects
    <3> QED
      BY <2>1, <3>1, <3>2
<1>11. r.filters # <<>> => Len(objects) > 0
  <2>1. Len(r.listed) \in Nat /\ Len(r.filters) \in Nat
    BY <1>1, Elements
  <2>2. r.filters # <<>> => Len(r.filters) > 0
    BY <1>1, Elements
  <2>3. \A m, n \in Nat : n > 0 => m + n > 0
    OBVIOUS
  <2>4. Len(objects) = Len(r.listed) + Len(r.filters)
    BY <1>2
  <2> QED
    BY <2>1, <2>2, <2>3, <2>4
<1> QED
  <2> HIDE DEF texts
  <2>1. Parts(r) \in Seq(Seq(Token))
    BY <1>7, <1>8, <1>9
  <2>2. r.extra # None => Parts(r) # <<>>
    BY <1>7, <1>8, <1>9
  <2>3. r.filters # <<>> => Parts(r) # <<>>
    <3>1. CASE r.extra = None
      BY <3>1, <1>7, <1>9, <1>11
    <3>2. CASE r.extra # None
      BY <3>2, <2>2
    <3> QED
      BY <3>1, <3>2
  <2> QED
    BY <2>1, <2>2, <2>3, <1>10

\* The type and the validated fields of what is stored.
IInv == TypeOK /\ NeverUnfiltered

LEMMA InitIInv == ASSUME ConstantsAssumption, Init PROVE IInv
<1>1. CASE recipe = None
  BY <1>1 DEF IInv, TypeOK, NeverUnfiltered, Stored
<1>2. CASE recipe # None
  <2>1. /\ recipe \in [action : Action, listed : OldColumns, filters : {<<>>},
                       extra : DOMAIN Raw \cup {None}]
        /\ Parts(recipe) # <<>>
    BY <1>2 DEF Init
  <2>2. recipe \in Recipe /\ recipe.filters = <<>>
    BY <2>1, ConstantsAssumption DEF Recipe
  <2> QED
    BY <2>1, <2>2 DEF IInv, TypeOK, NeverUnfiltered
<1> QED
  BY <1>1, <1>2

\* A request that stores r keeps the invariant if r says whom it is for.
LEMMA StoresIInv ==
  ASSUME NEW r \in Recipe, Parts(r) # <<>>, Stores(r)
  PROVE  IInv'
BY DEF Stores, IInv, TypeOK, NeverUnfiltered, Stored, Parts

LEMMA CreateIInv ==
  ASSUME NEW a \in Action, NEW fs \in FilterLists, NEW x \in Extra, Create(a, fs, x)
  PROVE  IInv'
<1> DEFINE r == [action |-> a, listed |-> <<>>, filters |-> fs, extra |-> x]
<1>1. r \in Recipe
  BY ConstantsAssumption DEF Recipe, Extra
<1>2. Stores(r) /\ (r.filters # <<>> \/ r.extra # None)
  BY DEF Create
<1> HIDE DEF r
<1> QED
  BY <1>1, <1>2, PartsType, StoresIInv

LEMMA UpdateIInv ==
  ASSUME IInv, NEW a \in Action, NEW new,
         "filters" \in DOMAIN new => new.filters \in FilterLists,
         "extra" \in DOMAIN new => new.extra \in Extra,
         DOMAIN new \subseteq {"filters", "extra"},
         Update(a, new)
  PROVE  IInv'
<1> DEFINE r == [action |-> a, listed |-> recipe.listed,
                 filters |-> IF "filters" \in DOMAIN new THEN new.filters ELSE recipe.filters,
                 extra |-> IF "extra" \in DOMAIN new THEN new.extra ELSE recipe.extra]
<1>1. recipe \in Recipe
  BY DEF Update, IInv, TypeOK
<1>2. r \in Recipe
  BY <1>1 DEF Recipe, Extra
<1>3. Stores(r)
  BY DEF Update
<1>4. Parts(r) # <<>>
  <2>1. CASE DOMAIN new = {}
    <3>1. r.listed = recipe.listed /\ r.filters = recipe.filters /\ r.extra = recipe.extra
      BY <2>1
    <3>2. Parts(r) = Parts(recipe)
      BY <3>1 DEF Parts
    <3> QED
      BY <3>2, <1>1 DEF IInv, NeverUnfiltered, Stored, Update
  <2>2. CASE DOMAIN new # {}
    <3>1. r.filters # <<>> \/ r.extra # None
      BY <2>2 DEF Update, ValidUpdate
    <3> HIDE DEF r
    <3> QED
      BY <3>1, <1>2, PartsType
  <2> QED
    BY <2>1, <2>2
<1> HIDE DEF r
<1> QED
  BY <1>2, <1>3, <1>4, StoresIInv

LEMMA NextIInv == IInv /\ [Next]_recipe => IInv'
<1> SUFFICES ASSUME IInv, [Next]_recipe PROVE IInv'
  OBVIOUS
<1>1. CASE UNCHANGED recipe
  BY <1>1 DEF IInv, TypeOK, NeverUnfiltered, Stored, Parts
<1>2. ASSUME NEW a \in Action, NEW fs \in FilterLists, NEW x \in Extra, Create(a, fs, x)
      PROVE  IInv'
  BY <1>2, CreateIInv
<1>3. ASSUME NEW a \in Action,
             NEW new \in [filters : FilterLists, extra : Extra] \cup [filters : FilterLists]
                           \cup [extra : Extra] \cup {<<>>},
             Update(a, new)
      PROVE  IInv'
  <2>1. /\ "filters" \in DOMAIN new => new.filters \in FilterLists
        /\ "extra" \in DOMAIN new => new.extra \in Extra
        /\ DOMAIN new \subseteq {"filters", "extra"}
    OBVIOUS
  <2> QED
    BY <2>1, <1>3, UpdateIInv
<1> QED
  BY <1>1, <1>2, <1>3 DEF Next

LEMMA Invariance == Spec => []IInv
<1>1. Init => IInv
  BY InitIInv, ConstantsAssumption
<1> QED
  BY <1>1, NextIInv, PTL DEF Spec

-----------------------------------------------------------------------------
(* Theorems.                                                               *)

\* Whatever is submitted in whatever order, what is stored is a recipe.
THEOREM TypeCorrect == Spec => []TypeOK
<1>1. IInv => TypeOK
  BY DEF IInv
<1> QED
  BY <1>1, Invariance, PTL

\* No order of creating and updating leaves a recipe that says nothing of its
\* clients, for any filter objects, raw expressions and old columns.
THEOREM AlwaysFiltered == Spec => []NeverUnfiltered
<1>1. IInv => NeverUnfiltered
  BY DEF IInv
<1> QED
  BY <1>1, Invariance, PTL

\* For filter objects of any text, however && and || are read, the filter
\* expression is satisfied by the clients that satisfy every one of its parts.
THEOREM PartsAreAnded == Spec => []EveryPartRequired
<1>1. ASSUME NEW r \in Recipe, Parts(r) # <<>>, NEW c \in Client
      PROVE  Satisfies(c, FilterExpression(r))
               <=> \A i \in DOMAIN Parts(r) : Satisfies(c, Parts(r)[i])
  <2> DEFINE parts == Parts(r)
             sets == [i \in DOMAIN parts |-> Value(parts[i])]
  <2>1. parts \in Seq(Seq(Token)) /\ parts # <<>>
    BY <1>1, PartsType
  <2>2. DOMAIN parts = 1 .. Len(parts) /\ Len(parts) \in Nat \ {0}
    BY <2>1, Elements
  <2>3. \A i \in DOMAIN parts : c \in Value(parts[i]) <=> Satisfies(c, parts[i])
    BY DEF Value
  <2> HIDE DEF parts
  <2>4. CASE Len(parts) > 1
    <3>1. FilterExpression(r) = JoinOperands("and", sets)
      BY <2>4 DEF FilterExpression, parts
    <3>2. sets \in Seq(SUBSET Client) /\ Len(sets) = Len(parts)
      <4>1. DOMAIN sets = 1 .. Len(parts) /\ sets = [i \in 1 .. Len(parts) |-> sets[i]]
        BY <2>2
      <4>2. \A i \in 1 .. Len(parts) : sets[i] \in SUBSET Client
        BY <2>2 DEF Value
      <4> HIDE DEF sets
      <4> QED
        BY <4>1, <4>2, <2>2, SequenceOf
    <3>3. sets # <<>> /\ DOMAIN sets = DOMAIN parts
      BY <3>2, <2>2, Elements
    <3>4. \A i \in DOMAIN parts : c \in sets[i] <=> Satisfies(c, parts[i])
      BY <2>3
    <3> HIDE DEF sets
    <3>5. Satisfies(c, JoinOperands("and", sets)) <=> \A i \in DOMAIN sets : c \in sets[i]
      BY <3>2, <3>3, JoinedByAnd
    <3> QED
      BY <3>1, <3>3, <3>4, <3>5 DEF parts
  <2>5. CASE Len(parts) = 1
    <3>1. FilterExpression(r) = parts[1]
      BY <2>5, <2>1 DEF FilterExpression, parts
    <3>2. DOMAIN parts = {1}
      BY <2>5, <2>2
    <3> QED
      BY <3>1, <3>2 DEF parts
  <2> QED
    BY <2>2, <2>4, <2>5
<1>2. IInv => EveryPartRequired
  BY <1>1 DEF IInv, TypeOK, NeverUnfiltered, EveryPartRequired, Stored
<1> QED
  BY <1>2, Invariance, PTL

\* For any filter objects there are, on lists of any length and nested to any
\* depth, and for evaluators of both kinds: every filter of a stored recipe is
\* satisfied by the clients its documentation names, apart from the clients for
\* whom one of the five divergences is known that ClientsAsDocumented finds.
THEOREM AsDocumented ==
  ASSUME \A i \in DOMAIN Object : Object[i] \in Built
  PROVE  Spec => []MatchesAsDocumented
<1>1. IInv => MatchesAsDocumented
  <2> SUFFICES ASSUME IInv, Stored, NEW i \in DOMAIN recipe.filters,
                      FilterAt(i).outcome[recipe.action] = "text", NEW c \in FilterAt(i).sound
               PROVE  Satisfies(c, FilterAt(i).text) <=> c \in FilterAt(i).means
    BY DEF MatchesAsDocumented
  <2>1. recipe \in Recipe
    BY DEF IInv, TypeOK, Stored
  <2>2. recipe.action \in Action
    BY <2>1 DEF Recipe
  <2>3. Honest(FilterAt(i))
    BY <2>1, FiltersHonest DEF FilterAt
  <2>4. c \in Client
    BY <2>3 DEF Honest, Filter
  <2> QED BY <2>2, <2>3, <2>4 DEF Honest
<1> QED BY <1>1, Invariance, PTL

\* For the same filters: a recipe that is offered to clients with the baseline
\* capabilities only renders to nothing that needs another.
THEOREM BaselineIsEnough ==
  ASSUME \A i \in DOMAIN Object : Object[i] \in Built
  PROVE  Spec => []OldClientsSpared
<1>1. IInv => OldClientsSpared
  <2> SUFFICES ASSUME IInv, Stored, UsesOnlyBaseline(recipe), NEW i \in DOMAIN recipe.filters
               PROVE  Object[recipe.filters[i]].needs \subseteq Baseline
    BY DEF OldClientsSpared
  <2> DEFINE f == Object[recipe.filters[i]]
  <2>1. recipe \in Recipe
    BY DEF IInv, TypeOK, Stored
  <2>2. f.needs \subseteq f.caps
    BY <2>1, FiltersHonest DEF Honest
  <2>3. FilterObjects(recipe)[i] = f /\ i \in DOMAIN FilterObjects(recipe)
    BY DEF FilterObjects
  <2>4. f.caps \subseteq Capabilities(recipe)
    <3> HIDE DEF f
    <3> QED BY <2>3 DEF Capabilities
  <2> QED BY <2>2, <2>4 DEF UsesOnlyBaseline
<1> QED BY <1>1, Invariance, PTL

\* For any list of add-ons, and for "any" as for "all", the text of an add-on
\* filter is satisfied by the clients its documentation names.
THEOREM AnyOrAll ==
  ASSUME NEW S, NEW addons \in Seq(S), addons # <<>>, NEW anyOrAll \in {"any", "all"},
         NEW c \in Client
  PROVE  Satisfies(c, Addons(anyOrAll, addons).text) <=> c \in Addons(anyOrAll, addons).means
<1>1. Honest(Addons(anyOrAll, addons))
  BY AddonsHonest
<1>2. Addons(anyOrAll, addons).sound = Client /\ Addons(anyOrAll, addons).outcome = Renders
  BY DEF Addons, Base
<1> QED BY <1>1, <1>2 DEF Honest, Renders, Action

\* For any list of versions, in any order, the text of a version filter is
\* satisfied by the clients of these versions if none is repeated, be they one
\* range or several, and whether && binds tighter than || or not.
THEOREM AnyVersions ==
  ASSUME NEW versions \in Seq(Nat), versions # <<>>, ~Repeats(versions), NEW c \in Client
  PROVE  Satisfies(c, Version(versions).text) <=> c \in Version(versions).means
<1>1. Honest(Version(versions))
  BY VersionHonest
<1>2. Version(versions).outcome = Renders /\ Version(versions).sound = Client
  BY DEF Version, Base
<1> QED BY <1>1, <1>2 DEF Honest, Renders, Action
=============================================================================
