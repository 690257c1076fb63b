------------------------- MODULE TritonFusionProofs -------------------------
(* The subgraphs of the fusion pass are convex, the graph stays in an order *)
(* in which it can be run, a subgraph that was set aside does not come back,*)
(* the nodes of a kernel agree about the tiles, and the memory estimate of  *)
(* a subgraph keeps every operand until it has been read, for any graphs,   *)
(* chips and limits.                                                        *)
EXTENDS TritonFusion, FiniteSetTheorems, WellFoundedInduction, TLAPS

-----------------------------------------------------------------------------
(* Induction, and functions defined by recursion over a range of numbers.   *)

LEMMA LeastOfNumbers ==
    ASSUME NEW T, T \subseteq Nat, T # {}
    PROVE  \E x \in T : \A y \in T : x <= y
PROOF
<1> DEFINE R == {p \in Nat \X Nat : p[1] < p[2]}
<1>1. IsWellFoundedOn(R, Nat)
  BY NatLessThanWellFounded DEF OpToRel
<1>2. PICK x \in T : \A y \in T : ~(<<y, x>> \in R)
  <2> HIDE DEF R
  <2>. QED BY <1>1, WFMin
<1>3. \A y \in T : ~(y < x)
  BY <1>2
<1>. QED BY <1>3

\* A set that has 0, and the successor of every number below n that it has, has all
\* numbers up to n.
LEMMA UpTo ==
    ASSUME NEW n \in Nat, NEW T, 0 \in T, \A k \in 0..(n - 1) : k \in T => k + 1 \in T
    PROVE  0..n \subseteq T
PROOF
<1> DEFINE Bad == (0..n) \ T
<1> SUFFICES ASSUME Bad # {} PROVE FALSE OBVIOUS
<1>1. Bad \subseteq Nat OBVIOUS
<1>2. PICK k \in Bad : \A j \in Bad : k <= j
  <2> HIDE DEF Bad
  <2>. QED BY <1>1, LeastOfNumbers
<1>3. k # 0 /\ k \in 0..n OBVIOUS
<1>4. k - 1 \in 0..(n - 1) /\ k - 1 \in 0..n BY <1>3
<1>5. k - 1 \in T BY <1>2, <1>4
<1>6. (k - 1) + 1 \in T BY <1>4, <1>5
<1>. QED BY <1>3, <1>6

\* A value in V for each number, from a base and a step that makes the next one.
Unfolds(f, V, base, step, n) ==
    f \in [0..n -> V] /\ f[0] = base /\ \A k \in 1..n : f[k] = step[k][f[k - 1]]

LEMMA Recursion ==
    ASSUME NEW V, NEW base \in V, NEW n \in Nat, NEW step \in [Nat -> [V -> V]]
    PROVE  \E f : Unfolds(f, V, base, step, n)
PROOF
<1> DEFINE Is(f, m) == f \in [0..m -> V] /\ f[0] = base /\ \A k \in 1..m : f[k] = step[k][f[k - 1]]
<1> DEFINE T == {m \in 0..n : \E f : Is(f, m)}
<1>1. 0 \in T
  <2>1. Is([k \in 0..0 |-> base], 0) OBVIOUS
  <2> HIDE DEF Is
  <2>. QED BY <2>1
<1>2. ASSUME NEW m \in 0..(n - 1), m \in T PROVE m + 1 \in T
  <2>1. PICK f : Is(f, m) BY <1>2
  <2> DEFINE v == step[m + 1][f[m]]
  <2> DEFINE g == [k \in 0..(m + 1) |-> IF k = m + 1 THEN v ELSE f[k]]
  <2>2. m \in Nat /\ f[m] \in V BY <2>1
  <2>3. v \in V BY <2>2
  <2>4. g \in [0..(m + 1) -> V] BY <2>1, <2>3
  <2>5. g[0] = base BY <2>1, <2>2
  <2>6. ASSUME NEW k \in 1..(m + 1) PROVE g[k] = step[k][g[k - 1]]
    <3>1. CASE k = m + 1
      <4>1. g[k] = v /\ g[k - 1] = f[m] BY <2>2, <3>1
      <4>. QED BY <3>1, <4>1
    <3>2. CASE k # m + 1
      <4>1. k \in 1..m /\ g[k] = f[k] /\ g[k - 1] = f[k - 1] BY <2>2, <3>2
      <4>. QED BY <2>1, <4>1
    <3>. QED BY <3>1, <3>2
  <2>7. Is(g, m + 1)
    <3> HIDE DEF g
    <3>. QED BY <2>4, <2>5, <2>6
  <2>8. m + 1 \in 0..n BY <2>2
  <2> HIDE DEF Is
  <2>. QED BY <2>7, <2>8
<1>3. 0..n \subseteq T
  <2> HIDE DEF T
  <2>. QED BY <1>1, <1>2, UpTo
<1>4. n \in T BY <1>3
<1>5. PICK f : Is(f, n)
  <2> HIDE DEF Is
  <2>. QED BY <1>4
<1>6. Unfolds(f, V, base, step, n) BY <1>5 DEF Unfolds
<1>. QED BY <1>6

-----------------------------------------------------------------------------
(* Sequences without repetition, as orders of their members.                *)

Ahead(s, x, y) == \E i, j \in DOMAIN s : i < j /\ s[i] = x /\ s[j] = y
Distinct(s) == \A x : ~Ahead(s, x, x)

LEMMA DistinctPlaces ==
    ASSUME NEW V, NEW s \in Seq(V), Distinct(s),
           NEW i \in DOMAIN s, NEW j \in DOMAIN s, s[i] = s[j]
    PROVE  i = j
PROOF
<1>1. i \in Nat /\ j \in Nat OBVIOUS
<1>2. ~(i < j) /\ ~(j < i) BY DEF Distinct, Ahead
<1>. QED BY <1>1, <1>2

\* In a sequence without repetition to be ahead is an order of its members.
LEMMA AheadIsOrder ==
    ASSUME NEW V, NEW s \in Seq(V), Distinct(s)
    PROVE  /\ \A x, y : Ahead(s, x, y) => x \in ToSet(s) /\ y \in ToSet(s) /\ x # y /\ ~Ahead(s, y, x)
           /\ \A x, y, z : Ahead(s, x, y) /\ Ahead(s, y, z) => Ahead(s, x, z)
           /\ \A x, y \in ToSet(s) : x = y \/ Ahead(s, x, y) \/ Ahead(s, y, x)
PROOF
<1>1. DOMAIN s \subseteq Nat OBVIOUS
<1>2. \A i, j \in DOMAIN s : s[i] = s[j] => i = j BY DistinctPlaces
<1>3. ASSUME NEW x, NEW y, Ahead(s, x, y)
      PROVE  x \in ToSet(s) /\ y \in ToSet(s) /\ x # y /\ ~Ahead(s, y, x)
  <2>1. PICK i, j \in DOMAIN s : i < j /\ s[i] = x /\ s[j] = y BY <1>3 DEF Ahead
  <2>2. x \in ToSet(s) /\ y \in ToSet(s) BY <2>1 DEF ToSet
  <2>3. x # y BY <1>1, <1>2, <2>1
  <2>4. ASSUME Ahead(s, y, x) PROVE FALSE
    <3>1. PICK k, l \in DOMAIN s : k < l /\ s[k] = y /\ s[l] = x BY <2>4 DEF Ahead
    <3>2. k = j /\ l = i BY <1>2, <2>1, <3>1
    <3>. QED BY <1>1, <2>1, <3>1, <3>2
  <2>. QED BY <2>2, <2>3, <2>4
<1>4. ASSUME NEW x, NEW y, NEW z, Ahead(s, x, y), Ahead(s, y, z) PROVE Ahead(s, x, z)
  <2>1. PICK i, j \in DOMAIN s : i < j /\ s[i] = x /\ s[j] = y BY <1>4 DEF Ahead
  <2>2. PICK k, l \in DOMAIN s : k < l /\ s[k] = y /\ s[l] = z BY <1>4 DEF Ahead
  <2>3. k = j BY <1>2, <2>1, <2>2
  <2>4. i < l BY <1>1, <2>1, <2>2, <2>3
  <2>. QED BY <2>1, <2>2, <2>4 DEF Ahead
<1>5. ASSUME NEW x \in ToSet(s), NEW y \in ToSet(s), x # y PROVE Ahead(s, x, y) \/ Ahead(s, y, x)
  <2>1. PICK i \in DOMAIN s : s[i] = x BY DEF ToSet
  <2>2. PICK j \in DOMAIN s : s[j] = y BY DEF ToSet
  <2>3. i < j \/ j < i BY <1>1, <1>5, <2>1, <2>2
  <2>. QED BY <2>1, <2>2, <2>3 DEF Ahead
<1>. QED BY <1>3, <1>4, <1>5

LEMMA AppendFacts ==
    ASSUME NEW V, NEW s \in Seq(V), NEW e \in V
    PROVE  /\ Append(s, e) \in Seq(V)
           /\ ToSet(Append(s, e)) = ToSet(s) \cup {e}
           /\ \A x, y : Ahead(Append(s, e), x, y) <=> Ahead(s, x, y) \/ (x \in ToSet(s) /\ y = e)
PROOF
<1> DEFINE t == Append(s, e)
<1>1. /\ t \in Seq(V) /\ Len(s) \in Nat /\ DOMAIN t = 1..(Len(s) + 1) /\ DOMAIN s = 1..Len(s)
      /\ \A i \in DOMAIN s : t[i] = s[i]
      /\ t[Len(s) + 1] = e
  OBVIOUS
<1> HIDE DEF t
<1>2. \A i \in DOMAIN t : i \in DOMAIN s \/ i = Len(s) + 1 BY <1>1
<1>3. DOMAIN s \subseteq DOMAIN t /\ Len(s) + 1 \in DOMAIN t BY <1>1
<1>4. ToSet(t) = ToSet(s) \cup {e} BY <1>1, <1>2, <1>3 DEF ToSet
<1>5. ASSUME NEW x, NEW y, Ahead(t, x, y) PROVE Ahead(s, x, y) \/ (x \in ToSet(s) /\ y = e)
  <2>1. PICK i, j \in DOMAIN t : i < j /\ t[i] = x /\ t[j] = y BY <1>5 DEF Ahead
  <2>2. i \in DOMAIN s BY <1>1, <2>1
  <2>3. CASE j \in DOMAIN s BY <1>1, <2>1, <2>2, <2>3 DEF Ahead
  <2>4. CASE j = Len(s) + 1 BY <1>1, <2>1, <2>2, <2>4 DEF ToSet
  <2>. QED BY <1>2, <2>3, <2>4
<1>6. ASSUME NEW x, NEW y, Ahead(s, x, y) PROVE Ahead(t, x, y) BY <1>1, <1>3, <1>6 DEF Ahead
<1>7. ASSUME NEW x \in ToSet(s) PROVE Ahead(t, x, e)
  <2>1. PICK i \in DOMAIN s : s[i] = x BY DEF ToSet
  <2>2. i < Len(s) + 1 BY <1>1
  <2>. QED BY <1>1, <1>3, <2>1, <2>2 DEF Ahead
<1>. QED BY <1>1, <1>4, <1>5, <1>6, <1>7 DEF t

LEMMA ConcatFacts ==
    ASSUME NEW V, NEW s \in Seq(V), NEW t \in Seq(V)
    PROVE  /\ s \o t \in Seq(V)
           /\ ToSet(s \o t) = ToSet(s) \cup ToSet(t)
           /\ \A x, y : Ahead(s \o t, x, y) <=>
                 Ahead(s, x, y) \/ Ahead(t, x, y) \/ (x \in ToSet(s) /\ y \in ToSet(t))
PROOF
<1> DEFINE u == s \o t
<1>1. /\ u \in Seq(V) /\ Len(s) \in Nat /\ Len(t) \in Nat
      /\ DOMAIN s = 1..Len(s) /\ DOMAIN t = 1..Len(t) /\ DOMAIN u = 1..(Len(s) + Len(t))
      /\ \A i \in DOMAIN s : u[i] = s[i]
      /\ \A i \in DOMAIN t : u[Len(s) + i] = t[i]
  OBVIOUS
<1> HIDE DEF u
<1>2. \A i \in DOMAIN s : i \in DOMAIN u BY <1>1
<1>3. \A i \in DOMAIN t : Len(s) + i \in DOMAIN u BY <1>1
<1>4. ASSUME NEW i \in DOMAIN u
      PROVE  (i \in DOMAIN s /\ u[i] = s[i]) \/ (\E k \in DOMAIN t : i = Len(s) + k /\ u[i] = t[k])
  <2>1. CASE i <= Len(s) BY <1>1, <2>1
  <2>2. CASE ~(i <= Len(s))
    <3>1. i - Len(s) \in DOMAIN t /\ i = Len(s) + (i - Len(s)) BY <1>1, <2>2
    <3>. QED BY <1>1, <3>1
  <2>. QED BY <2>1, <2>2
<1>5. ToSet(u) = ToSet(s) \cup ToSet(t)
  <2>1. \A i \in DOMAIN u : u[i] \in ToSet(s) \cup ToSet(t) BY <1>4 DEF ToSet
  <2>2. ToSet(s) \subseteq ToSet(u) BY <1>1, <1>2 DEF ToSet
  <2>3. ToSet(t) \subseteq ToSet(u)
    <3> SUFFICES ASSUME NEW k \in DOMAIN t PROVE t[k] \in ToSet(u) BY DEF ToSet
    <3>1. Len(s) + k \in DOMAIN u /\ u[Len(s) + k] = t[k] BY <1>1, <1>3
    <3>. QED BY <3>1 DEF ToSet
  <2>4. ToSet(u) \subseteq ToSet(s) \cup ToSet(t) BY <2>1 DEF ToSet
  <2>. QED BY <2>2, <2>3, <2>4
<1>6. ASSUME NEW x, NEW y, Ahead(u, x, y)
      PROVE  Ahead(s, x, y) \/ Ahead(t, x, y) \/ (x \in ToSet(s) /\ y \in ToSet(t))
  <2>1. PICK i, j \in DOMAIN u : i < j /\ u[i] = x /\ u[j] = y BY <1>6 DEF Ahead
  <2>2. CASE i \in DOMAIN s /\ j \in DOMAIN s BY <1>1, <2>1, <2>2 DEF Ahead
  <2>3. CASE i \in DOMAIN s /\ j \notin DOMAIN s
    <3>1. x \in ToSet(s) BY <1>1, <2>1, <2>3 DEF ToSet
    <3>2. y \in ToSet(t) BY <1>4, <2>1, <2>3 DEF ToSet
    <3>. QED BY <3>1, <3>2
  <2>4. CASE i \notin DOMAIN s
    <3>1. PICK k \in DOMAIN t : i = Len(s) + k /\ u[i] = t[k] BY <1>4, <2>1, <2>4
    <3>2. j \notin DOMAIN s BY <1>1, <2>1, <2>4
    <3>3. PICK l \in DOMAIN t : j = Len(s) + l /\ u[j] = t[l] BY <1>4, <2>1, <3>2
    <3>4. k < l BY <1>1, <2>1, <3>1, <3>3
    <3>. QED BY <2>1, <3>1, <3>3, <3>4 DEF Ahead
  <2>. QED BY <2>2, <2>3, <2>4
<1>7. ASSUME NEW x, NEW y, Ahead(s, x, y) PROVE Ahead(u, x, y) BY <1>1, <1>2, <1>7 DEF Ahead
<1>8. ASSUME NEW x, NEW y, Ahead(t, x, y) PROVE Ahead(u, x, y)
  <2>1. PICK i, j \in DOMAIN t : i < j /\ t[i] = x /\ t[j] = y BY <1>8 DEF Ahead
  <2>2. Len(s) + i < Len(s) + j BY <1>1, <2>1
  <2>3. u[Len(s) + i] = x /\ u[Len(s) + j] = y BY <1>1, <2>1
  <2>. QED BY <1>3, <2>2, <2>3 DEF Ahead
<1>9. ASSUME NEW x \in ToSet(s), NEW y \in ToSet(t) PROVE Ahead(u, x, y)
  <2>1. PICK i \in DOMAIN s : s[i] = x BY DEF ToSet
  <2>2. PICK j \in DOMAIN t : t[j] = y BY DEF ToSet
  <2>3. i < Len(s) + j BY <1>1
  <2>4. u[i] = x /\ u[Len(s) + j] = y BY <1>1, <2>1, <2>2
  <2>. QED BY <1>2, <1>3, <2>3, <2>4 DEF Ahead
<1>. QED BY <1>1, <1>5, <1>6, <1>7, <1>8, <1>9 DEF u

-----------------------------------------------------------------------------
(* The lists of the pass.                                                   *)

LEMMA PartFacts ==
    ASSUME NEW V, NEW s \in Seq(V), NEW S
    PROVE  /\ Part(s, S) \in Seq(V)
           /\ ToSet(Part(s, S)) = ToSet(s) \cap S
           /\ \A x, y : Ahead(Part(s, S), x, y) <=> x \in S /\ y \in S /\ Ahead(s, x, y)
PROOF
<1> DEFINE n == Len(s)
<1> DEFINE Is(g) == g = [k \in 0..n |->
                            IF k = 0 THEN <<>> ELSE IF s[k] \in S THEN Append(g[k - 1], s[k]) ELSE g[k - 1]]
<1> DEFINE part == CHOOSE g : Is(g)
<1> DEFINE step == [k \in Nat |-> [v \in Seq(V) |->
                       IF k \in 1..n THEN IF s[k] \in S THEN Append(v, s[k]) ELSE v ELSE v]]
<1>1. n \in Nat /\ DOMAIN s = 1..n /\ \A k \in 1..n : s[k] \in V OBVIOUS
<1>2. Part(s, S) = part[n] BY DEF Part
<1> HIDE DEF n
<1>3. step \in [Nat -> [Seq(V) -> Seq(V)]] BY <1>1
<1>4. \A k \in 1..n, v \in Seq(V) : step[k][v] = IF s[k] \in S THEN Append(v, s[k]) ELSE v
  BY <1>1
<1> HIDE DEF step
<1>5. PICK f \in [0..n -> Seq(V)] : f[0] = <<>> /\ \A k \in 1..n : f[k] = step[k][f[k - 1]]
  <2> DEFINE W == Seq(V)
  <2> DEFINE base == <<>>
  <2>1. base \in W /\ step \in [Nat -> [W -> W]] BY <1>3
  <2> HIDE DEF W, base
  <2>2. PICK f : Unfolds(f, W, base, step, n) BY <1>1, <2>1, Recursion
  <2>. QED BY <2>2 DEF W, base, Unfolds
<1>6. Is(f)
  <2>1. ASSUME NEW k \in 0..n
        PROVE  f[k] = IF k = 0 THEN <<>> ELSE IF s[k] \in S THEN Append(f[k - 1], s[k]) ELSE f[k - 1]
    <3>1. CASE k = 0 BY <1>5, <3>1
    <3>2. CASE k # 0
      <4>1. k \in 1..n /\ f[k - 1] \in Seq(V) BY <1>1, <1>5, <3>2
      <4>. QED BY <1>4, <1>5, <3>2, <4>1
    <3>. QED BY <3>1, <3>2
  <2>. QED BY <2>1
<1>7. Is(part)
  <2> HIDE DEF Is
  <2>. QED BY <1>6
<1>8. /\ part[0] = <<>>
      /\ \A k \in 1..n : part[k] = IF s[k] \in S THEN Append(part[k - 1], s[k]) ELSE part[k - 1]
  <2> HIDE DEF part
  <2>1. 0 \in 0..n /\ \A k \in 1..n : k \in 0..n /\ k # 0 BY <1>1
  <2>. QED BY <1>7, <2>1
<1> HIDE DEF part
<1> DEFINE Upto(k, x, y) == \E i, j \in 1..k : i < j /\ s[i] = x /\ s[j] = y
<1> DEFINE Right(k) == /\ part[k] \in Seq(V)
                       /\ ToSet(part[k]) = {s[i] : i \in 1..k} \cap S
                       /\ \A x, y : Ahead(part[k], x, y) <=> x \in S /\ y \in S /\ Upto(k, x, y)
<1> DEFINE T == {k \in 0..n : Right(k)}
<1>9. 0 \in T
  <2>1. Right(0)
    <3>1. \A x, y : ~Ahead(<<>>, x, y) BY DEF Ahead
    <3>. QED BY <1>8, <3>1 DEF ToSet
  <2>. QED BY <1>1, <2>1
<1>10. ASSUME NEW k \in 0..(n - 1), k \in T PROVE k + 1 \in T
  <2>1. k \in Nat /\ k + 1 \in 1..n /\ (k + 1) - 1 = k /\ Right(k) BY <1>1, <1>10
  <2>2. s[k + 1] \in V BY <1>1, <2>1
  <2>3. \A i : i \in 1..(k + 1) <=> i \in 1..k \/ i = k + 1 BY <2>1
  <2>4. {s[i] : i \in 1..(k + 1)} = {s[i] : i \in 1..k} \cup {s[k + 1]} BY <2>3
  <2>5. ASSUME NEW x, NEW y
        PROVE Upto(k + 1, x, y) <=> Upto(k, x, y) \/ (x \in {s[i] : i \in 1..k} /\ y = s[k + 1])
    <3>1. ASSUME Upto(k + 1, x, y)
          PROVE  Upto(k, x, y) \/ (x \in {s[i] : i \in 1..k} /\ y = s[k + 1])
      <4>1. PICK i, j \in 1..(k + 1) : i < j /\ s[i] = x /\ s[j] = y BY <3>1
      <4>2. i \in 1..k BY <2>1, <4>1
      <4>. QED BY <2>3, <4>1, <4>2
    <3>2. ASSUME Upto(k, x, y) PROVE Upto(k + 1, x, y) BY <2>3, <3>2
    <3>3. ASSUME NEW i \in 1..k PROVE Upto(k + 1, s[i], s[k + 1])
      <4>1. i < k + 1 /\ i \in 1..(k + 1) /\ k + 1 \in 1..(k + 1) BY <2>1
      <4>. QED BY <4>1
    <3> HIDE DEF Upto
    <3>. QED BY <3>1, <3>2, <3>3
  <2> HIDE DEF Upto
  <2>6. Right(k + 1)
    <3>1. CASE s[k + 1] \in S
      <4>1. part[k + 1] = Append(part[k], s[k + 1]) BY <1>8, <2>1, <3>1
      <4>2. /\ part[k + 1] \in Seq(V)
            /\ ToSet(part[k + 1]) = ToSet(part[k]) \cup {s[k + 1]}
            /\ \A x, y : Ahead(part[k + 1], x, y) <=>
                            Ahead(part[k], x, y) \/ (x \in ToSet(part[k]) /\ y = s[k + 1])
        BY <2>1, <2>2, <4>1, AppendFacts
      <4>3. ToSet(part[k + 1]) = {s[i] : i \in 1..(k + 1)} \cap S BY <2>1, <2>4, <3>1, <4>2
      <4>4. ASSUME NEW x, NEW y
            PROVE  Ahead(part[k + 1], x, y) <=> x \in S /\ y \in S /\ Upto(k + 1, x, y)
        BY <2>1, <2>5, <3>1, <4>2
      <4>. QED BY <4>2, <4>3, <4>4
    <3>2. CASE s[k + 1] \notin S
      <4>1. part[k + 1] = part[k] BY <1>8, <2>1, <3>2
      <4>2. ASSUME NEW x, NEW y
            PROVE  Ahead(part[k + 1], x, y) <=> x \in S /\ y \in S /\ Upto(k + 1, x, y)
        BY <2>1, <2>5, <3>2, <4>1
      <4>. QED BY <2>1, <2>4, <3>2, <4>1, <4>2
    <3>. QED BY <3>1, <3>2
  <2>7. k + 1 \in 0..n BY <2>1
  <2> HIDE DEF Right
  <2>. QED BY <2>6, <2>7
<1>11. n \in T
  <2> HIDE DEF T
  <2>1. 0..n \subseteq T BY <1>1, <1>9, <1>10, UpTo
  <2>. QED BY <1>1, <2>1
<1>12. Right(n) BY <1>11
<1>13. ToSet(s) = {s[i] : i \in 1..n} BY <1>1 DEF ToSet
<1>14. \A x, y : Upto(n, x, y) <=> Ahead(s, x, y) BY <1>1 DEF Ahead
<1> HIDE DEF Upto
<1>. QED BY <1>2, <1>12, <1>13, <1>14

LEMMA PutFacts ==
    ASSUME NEW V, NEW s \in Seq(V), NEW e \in V
    PROVE  /\ Put(s, e) \in Seq(V) /\ ToSet(Put(s, e)) = ToSet(s) \cup {e}
           /\ Distinct(s) => Distinct(Put(s, e))
PROOF
<1>1. CASE Contains(s, e)
  <2>1. e \in ToSet(s) BY <1>1 DEF Contains, ToSet
  <2>. QED BY <1>1, <2>1 DEF Put
<1>2. CASE ~Contains(s, e)
  <2>1. e \notin ToSet(s) /\ Put(s, e) = Append(s, e) BY <1>2 DEF Contains, ToSet, Put
  <2>. QED BY <2>1, AppendFacts DEF Distinct
<1>. QED BY <1>1, <1>2

LEMMA PutAllFacts ==
    ASSUME NEW V, NEW s \in Seq(V), NEW t \in Seq(V)
    PROVE  /\ PutAll(s, t) \in Seq(V) /\ ToSet(PutAll(s, t)) = ToSet(s) \cup ToSet(t)
           /\ Distinct(s) => Distinct(PutAll(s, t))
PROOF
<1> DEFINE n == Len(t)
<1> DEFINE New(k) == t[k] \notin ToSet(s) \cup {t[j] : j \in 1..k - 1}
<1> DEFINE Is(g) == g = [k \in 0..n |->
                            IF k = 0 THEN s ELSE IF New(k) THEN Append(g[k - 1], t[k]) ELSE g[k - 1]]
<1> DEFINE all == CHOOSE g : Is(g)
<1> DEFINE step == [k \in Nat |-> [v \in Seq(V) |->
                       IF k \in 1..n THEN IF New(k) THEN Append(v, t[k]) ELSE v ELSE v]]
<1>1. n \in Nat /\ DOMAIN t = 1..n /\ \A k \in 1..n : t[k] \in V OBVIOUS
<1>2. PutAll(s, t) = all[n] BY DEF PutAll
<1> HIDE DEF n, New
<1>3. step \in [Nat -> [Seq(V) -> Seq(V)]] BY <1>1
<1>4. \A k \in 1..n, v \in Seq(V) : step[k][v] = IF New(k) THEN Append(v, t[k]) ELSE v
  BY <1>1
<1> HIDE DEF step
<1>5. PICK f \in [0..n -> Seq(V)] : f[0] = s /\ \A k \in 1..n : f[k] = step[k][f[k - 1]]
  <2> DEFINE W == Seq(V)
  <2>1. s \in W /\ step \in [Nat -> [W -> W]] BY <1>3
  <2> HIDE DEF W
  <2>2. PICK f : Unfolds(f, W, s, step, n) BY <1>1, <2>1, Recursion
  <2>. QED BY <2>2 DEF W, Unfolds
<1>6. Is(f)
  <2>1. ASSUME NEW k \in 0..n
        PROVE  f[k] = IF k = 0 THEN s ELSE IF New(k) THEN Append(f[k - 1], t[k]) ELSE f[k - 1]
    <3>1. CASE k = 0 BY <1>5, <3>1
    <3>2. CASE k # 0
      <4>1. k \in 1..n /\ f[k - 1] \in Seq(V) BY <1>1, <1>5, <3>2
      <4>. QED BY <1>4, <1>5, <3>2, <4>1
    <3>. QED BY <3>1, <3>2
  <2>. QED BY <2>1
<1>7. Is(all)
  <2> HIDE DEF Is
  <2>. QED BY <1>6
<1>8. /\ all[0] = s
      /\ \A k \in 1..n : all[k] = IF New(k) THEN Append(all[k - 1], t[k]) ELSE all[k - 1]
  <2> HIDE DEF all
  <2>1. 0 \in 0..n /\ \A k \in 1..n : k \in 0..n /\ k # 0 BY <1>1
  <2>. QED BY <1>7, <2>1
<1> HIDE DEF all
<1> DEFINE Right(k) == /\ all[k] \in Seq(V) /\ ToSet(all[k]) = ToSet(s) \cup {t[i] : i \in 1..k}
                       /\ Distinct(s) => Distinct(all[k])
<1> DEFINE T == {k \in 0..n : Right(k)}
<1>9. 0 \in T BY <1>1, <1>8
<1>10. ASSUME NEW k \in 0..(n - 1), k \in T PROVE k + 1 \in T
  <2>1. k \in Nat /\ k + 1 \in 1..n /\ (k + 1) - 1 = k /\ Right(k) BY <1>1, <1>10
  <2>2. t[k + 1] \in V BY <1>1, <2>1
  <2>3. \A i : i \in 1..(k + 1) <=> i \in 1..k \/ i = k + 1 BY <2>1
  <2>4. {t[i] : i \in 1..(k + 1)} = {t[i] : i \in 1..k} \cup {t[k + 1]} BY <2>3
  <2>5. New(k + 1) <=> t[k + 1] \notin ToSet(s) \cup {t[i] : i \in 1..k} BY <2>1 DEF New
  <2>6. Right(k + 1)
    <3>1. CASE New(k + 1)
      <4>1. all[k + 1] = Append(all[k], t[k + 1]) BY <1>8, <2>1, <3>1
      <4>2. all[k + 1] \in Seq(V) /\ ToSet(all[k + 1]) = ToSet(all[k]) \cup {t[k + 1]}
        BY <2>1, <2>2, <4>1, AppendFacts
      <4>3. Distinct(s) => Distinct(all[k + 1])
        <5>1. t[k + 1] \notin ToSet(all[k]) BY <2>1, <2>5, <3>1
        <5>. QED BY <2>1, <2>2, <4>1, <5>1, AppendFacts DEF Distinct
      <4>. QED BY <2>1, <2>4, <4>2, <4>3
    <3>2. CASE ~New(k + 1)
      <4>1. all[k + 1] = all[k] BY <1>8, <2>1, <3>2
      <4>. QED BY <2>1, <2>4, <2>5, <3>2, <4>1
    <3>. QED BY <3>1, <3>2
  <2>7. k + 1 \in 0..n BY <2>1
  <2> HIDE DEF Right
  <2>. QED BY <2>6, <2>7
<1>11. n \in T
  <2> HIDE DEF T
  <2>1. 0..n \subseteq T BY <1>1, <1>9, <1>10, UpTo
  <2>. QED BY <1>1, <2>1
<1>12. ToSet(t) = {t[i] : i \in 1..n} BY <1>1 DEF ToSet
<1>. QED BY <1>2, <1>11, <1>12

\* One comes before the other in one of the first k lists, or in an earlier one of them.
AheadIn(ss, k, x, y) ==
    \/ \E i \in 1..k : Ahead(ss[i], x, y)
    \/ \E i, j \in 1..k : i < j /\ x \in ToSet(ss[i]) /\ y \in ToSet(ss[j])

LEMMA FlattenFacts ==
    ASSUME NEW V, NEW n \in Nat, NEW ss \in [1..n -> Seq(V)]
    PROVE  /\ FlattenSeq(ss) \in Seq(V)
           /\ ToSet(FlattenSeq(ss)) = UNION {ToSet(ss[i]) : i \in 1..n}
           /\ \A x, y : Ahead(FlattenSeq(ss), x, y) => AheadIn(ss, n, x, y)
PROOF
<1>0. ss \in Seq(Seq(V)) /\ Len(ss) = n OBVIOUS
<1>1. CASE n = 0
  <2>1. FlattenSeq(ss) = ss BY <1>0, <1>1 DEF FlattenSeq
  <2>2. ss = <<>> BY <1>0, <1>1
  <2>3. 1..n = {} BY <1>1
  <2>. QED BY <2>1, <2>2, <2>3 DEF ToSet, Ahead
<1>2. CASE n # 0
  <2> DEFINE Is(g) == g = [i \in 1..n |-> IF i = 1 THEN ss[i] ELSE g[i - 1] \o ss[i]]
  <2> DEFINE flat == CHOOSE g : Is(g)
  <2>1. FlattenSeq(ss) = flat[n] BY <1>0, <1>2 DEF FlattenSeq
  <2> DEFINE step == [k \in Nat |-> [v \in Seq(V) |-> IF k \in 1..n THEN v \o ss[k] ELSE v]]
  <2>2. step \in [Nat -> [Seq(V) -> Seq(V)]] /\ \A k \in 1..n, v \in Seq(V) : step[k][v] = v \o ss[k]
    OBVIOUS
  <2> HIDE DEF step
  <2>3. PICK f \in [0..n -> Seq(V)] : f[0] = <<>> /\ \A k \in 1..n : f[k] = step[k][f[k - 1]]
    <3> DEFINE W == Seq(V)
    <3> DEFINE base == <<>>
    <3>1. base \in W /\ step \in [Nat -> [W -> W]] BY <2>2
    <3> HIDE DEF W, base
    <3>2. PICK f : Unfolds(f, W, base, step, n) BY <3>1, Recursion
    <3>. QED BY <3>2 DEF W, base, Unfolds
  <2>4. \A k \in 1..n : f[k - 1] \in Seq(V) /\ f[k] = f[k - 1] \o ss[k]
    <3>1. \A k \in 1..n : k - 1 \in 0..n OBVIOUS
    <3>. QED BY <2>2, <2>3, <3>1
  <2>5. Is([i \in 1..n |-> f[i]])
    <3> DEFINE g == [i \in 1..n |-> f[i]]
    <3>1. ASSUME NEW i \in 1..n PROVE g[i] = IF i = 1 THEN ss[i] ELSE g[i - 1] \o ss[i]
      <4>1. CASE i = 1
        <5>0. 1 \in 1..n /\ 1 - 1 = 0 BY <4>1
        <5>1. f[1] = f[0] \o ss[1] BY <2>4, <5>0
        <5>4. f[1] = <<>> \o ss[1] BY <2>3, <5>1
        <5>2. ss[1] \in Seq(V) BY <4>1
        <5>3. <<>> \o ss[1] = ss[1] BY <5>2
        <5>. QED BY <4>1, <5>4, <5>3
      <4>2. CASE i # 1
        <5>1. i - 1 \in 1..n BY <4>2
        <5>. QED BY <2>4, <4>2, <5>1
      <4>. QED BY <4>1, <4>2
    <3>. QED BY <3>1
  <2>6. Is(flat)
    <3> HIDE DEF Is
    <3>. QED BY <2>5
  <2> DEFINE Right(k) == /\ flat[k] \in Seq(V) /\ ToSet(flat[k]) = UNION {ToSet(ss[i]) : i \in 1..k}
                         /\ \A x, y : Ahead(flat[k], x, y) => AheadIn(ss, k, x, y)
  <2>7. /\ flat[1] = ss[1]
        /\ \A k \in 2..n : flat[k] = flat[k - 1] \o ss[k]
    <3> HIDE DEF flat
    <3>1. 1 \in 1..n /\ \A k \in 2..n : k \in 1..n /\ k # 1 BY <1>2
    <3>. QED BY <2>6, <3>1
  <2> HIDE DEF flat
  <2> DEFINE T == {k \in 0..(n - 1) : Right(k + 1)}
  <2>8. n - 1 \in Nat BY <1>2
  <2>9. 0 \in T
    <3>1. {ToSet(ss[i]) : i \in 1..1} = {ToSet(ss[1])} OBVIOUS
    <3>2. ss[1] \in Seq(V) BY <1>2
    <3>3. Right(1)
      <4>1. 1 \in 1..1 OBVIOUS
      <4>. QED BY <2>7, <3>1, <3>2, <4>1 DEF AheadIn
    <3>4. 0 \in 0..(n - 1) BY <2>8
    <3> HIDE DEF Right
    <3>. QED BY <3>3, <3>4
  <2>10. ASSUME NEW k \in 0..((n - 1) - 1), k \in T PROVE k + 1 \in T
    <3>1. k \in Nat /\ k + 2 \in 2..n /\ (k + 2) - 1 = k + 1 /\ k + 2 \in 1..n /\ k + 1 \in 0..(n - 1)
          /\ (k + 1) + 1 = k + 2
      BY <2>8
    <3>2. flat[k + 2] = flat[k + 1] \o ss[k + 2] BY <2>7, <3>1
    <3>3. Right(k + 1) BY <2>10
    <3>4. flat[k + 2] \in Seq(V) /\ ToSet(flat[k + 2]) = ToSet(flat[k + 1]) \cup ToSet(ss[k + 2])
      <4>1. ss[k + 2] \in Seq(V) /\ flat[k + 1] \in Seq(V) BY <3>1, <3>3
      <4>. QED BY <3>2, <4>1, ConcatFacts
    <3>5. \A i : i \in 1..(k + 2) <=> i \in 1..(k + 1) \/ i = k + 2 BY <3>1
    <3>6. UNION {ToSet(ss[i]) : i \in 1..(k + 2)} = (UNION {ToSet(ss[i]) : i \in 1..(k + 1)}) \cup ToSet(ss[k + 2])
      BY <3>5
    <3>7. ASSUME NEW x, NEW y, Ahead(flat[k + 2], x, y) PROVE AheadIn(ss, k + 2, x, y)
      <4>1. ss[k + 2] \in Seq(V) /\ flat[k + 1] \in Seq(V) BY <3>1, <3>3
      <4>2. \/ Ahead(flat[k + 1], x, y) \/ Ahead(ss[k + 2], x, y)
            \/ x \in ToSet(flat[k + 1]) /\ y \in ToSet(ss[k + 2])
        BY <3>2, <3>7, <4>1, ConcatFacts
      <4>3. k + 2 \in 1..(k + 2) /\ \A i \in 1..(k + 1) : i \in 1..(k + 2) /\ i < k + 2 BY <3>1
      <4>4. CASE Ahead(flat[k + 1], x, y)
        <5>1. AheadIn(ss, k + 1, x, y) BY <3>3, <4>4
        <5>. QED BY <4>3, <5>1 DEF AheadIn
      <4>5. CASE Ahead(ss[k + 2], x, y) BY <4>3, <4>5 DEF AheadIn
      <4>6. CASE x \in ToSet(flat[k + 1]) /\ y \in ToSet(ss[k + 2])
        <5>1. PICK i \in 1..(k + 1) : x \in ToSet(ss[i]) BY <3>3, <4>6
        <5>. QED BY <4>3, <4>6, <5>1 DEF AheadIn
      <4>. QED BY <4>2, <4>4, <4>5, <4>6
    <3>8. Right(k + 2) BY <3>3, <3>4, <3>6, <3>7
    <3> HIDE DEF Right
    <3>. QED BY <3>1, <3>8
  <2>11. n - 1 \in T
    <3> HIDE DEF T
    <3>1. 0..(n - 1) \subseteq T BY <2>8, <2>9, <2>10, UpTo
    <3>. QED BY <2>8, <3>1
  <2>12. (n - 1) + 1 = n OBVIOUS
  <2>13. Right(n)
    <3> HIDE DEF Right
    <3>. QED BY <2>11, <2>12
  <2>. QED BY <2>1, <2>13
<1>. QED BY <1>1, <1>2

-----------------------------------------------------------------------------
(* What a set leads to.                                                     *)

\* D lies in the graph and next leads nowhere else from it.
Closed(G, next, D) == D \subseteq Ids(G) /\ \A x \in D : next[x] \subseteq D

IsList(G) == G.order \in Seq(Ids(G))

LEMMA IdsFinite ==
    ASSUME NEW G, IsList(G)
    PROVE  Len(G.order) \in Nat /\ IsFiniteSet(Ids(G)) /\ Cardinality(Ids(G)) <= Len(G.order)
PROOF
<1> DEFINE s == G.order
<1> DEFINE n == Len(s)
<1>1. n \in Nat /\ DOMAIN s = 1..n /\ s \in [1..n -> Ids(G)] BY DEF IsList
<1>2. ToSet(s) = Ids(G) BY DEF Ids
<1>3. s \in Surjection(1..n, Ids(G))
  <2>1. \A x \in Ids(G) : \E i \in 1..n : s[i] = x BY <1>1, <1>2 DEF ToSet
  <2> HIDE DEF s, n
  <2>. QED BY <1>1, <2>1 DEF Surjection
<1>4. IsFiniteSet(1..n) /\ Cardinality(1..n) = n
  <2> HIDE DEF n
  <2>. QED BY <1>1, FS_Interval
<1> HIDE DEF s, n
<1>5. IsFiniteSet(Ids(G)) /\ Cardinality(Ids(G)) <= Cardinality(1..n) BY <1>3, <1>4, FS_Surjection
<1>. QED BY <1>1, <1>4, <1>5 DEF s, n

\* What is reached in at most k steps, for every k up to the number of nodes.
Reaches(G, next, S, reach) ==
    /\ reach \in [0..Len(G.order) -> SUBSET Ids(G)]
    /\ reach[0] = S
    /\ \A k \in 1..Len(G.order) : reach[k] = UNION {{x} \cup next[x] : x \in reach[k - 1]}
    /\ Closure(G, next, S) = reach[Len(G.order)]

LEMMA ClosureUnfolded ==
    ASSUME NEW G, IsList(G), NEW next \in [Ids(G) -> SUBSET Ids(G)], NEW S, S \subseteq Ids(G)
    PROVE  \E reach : Reaches(G, next, S, reach)
PROOF
<1> DEFINE n == Len(G.order)
<1> DEFINE V == SUBSET Ids(G)
<1> DEFINE More(v) == UNION {{x} \cup next[x] : x \in v}
<1> DEFINE Is(g) == g = [k \in 0..n |-> IF k = 0 THEN S ELSE More(g[k - 1])]
<1> DEFINE reach == CHOOSE g : Is(g)
<1>1. n \in Nat BY IdsFinite
<1>2. Closure(G, next, S) = reach[n] BY DEF Closure
<1> DEFINE step == [k \in Nat |-> [v \in V |-> More(v)]]
<1>3. \A v \in V : More(v) \in V OBVIOUS
<1> HIDE DEF n, More
<1>4. step \in [Nat -> [V -> V]] /\ \A k \in 1..n, v \in V : step[k][v] = More(v)
  <2> HIDE DEF V
  <2>. QED BY <1>3
<1>5. S \in V OBVIOUS
<1> HIDE DEF step, V
<1>6. PICK f : Unfolds(f, V, S, step, n) BY <1>1, <1>4, <1>5, Recursion
<1>7. f \in [0..n -> V] /\ f[0] = S /\ \A k \in 1..n : f[k] = More(f[k - 1])
  <2>1. \A k \in 1..n : k - 1 \in 0..n BY <1>1
  <2>. QED BY <1>4, <1>6, <2>1 DEF Unfolds
<1>8. Is(f)
  <2>1. \A k \in 0..n : k = 0 \/ k \in 1..n BY <1>1
  <2>. QED BY <1>7, <2>1
<1>9. Is(reach)
  <2> HIDE DEF Is
  <2>. QED BY <1>8
<1>10. reach[0] = S /\ \A k \in 1..n : reach[k] = More(reach[k - 1])
  <2> HIDE DEF reach
  <2>1. 0 \in 0..n /\ \A k \in 1..n : k \in 0..n /\ k # 0 BY <1>1
  <2>. QED BY <1>9, <2>1
<1>11. reach = [k \in 0..n |-> reach[k]]
  <2> HIDE DEF reach
  <2>. QED BY <1>9
<1> HIDE DEF reach
<1> DEFINE T == {k \in 0..n : reach[k] \in V}
<1>12. 0 \in T BY <1>1, <1>5, <1>10
<1>13. ASSUME NEW k \in 0..(n - 1), k \in T PROVE k + 1 \in T
  <2>1. k + 1 \in 1..n /\ (k + 1) - 1 = k /\ k + 1 \in 0..n BY <1>1
  <2>. QED BY <1>3, <1>10, <1>13, <2>1
<1>14. 0..n \subseteq T
  <2> HIDE DEF T
  <2>. QED BY <1>1, <1>12, <1>13, UpTo
<1>15. reach \in [0..n -> V] BY <1>11, <1>14
<1>16. Reaches(G, next, S, reach) BY <1>2, <1>10, <1>15 DEF n, V, More, Reaches
<1>. QED BY <1>16

\* The closure is the least closed set that has S.
LEMMA ClosureFacts ==
    ASSUME NEW G, IsList(G), NEW next \in [Ids(G) -> SUBSET Ids(G)], NEW S, S \subseteq Ids(G)
    PROVE  /\ S \subseteq Closure(G, next, S)
           /\ Closed(G, next, Closure(G, next, S))
           /\ \A D : S \subseteq D /\ (\A x \in D \cap Ids(G) : next[x] \subseteq D) => Closure(G, next, S) \subseteq D
PROOF
<1> DEFINE n == Len(G.order)
<1>1. n \in Nat /\ IsFiniteSet(Ids(G)) /\ Cardinality(Ids(G)) <= n BY IdsFinite
<1>0. PICK reach : Reaches(G, next, S, reach) BY ClosureUnfolded
<1>2. /\ reach \in [0..n -> SUBSET Ids(G)]
      /\ reach[0] = S
      /\ \A k \in 1..n : reach[k] = UNION {{x} \cup next[x] : x \in reach[k - 1]}
      /\ Closure(G, next, S) = reach[n]
  BY <1>0 DEF Reaches
<1> HIDE DEF n
<1>3. ASSUME NEW k \in 0..(n - 1)
      PROVE  /\ k + 1 \in 0..n /\ k \in 0..n
             /\ reach[k] \subseteq reach[k + 1]
             /\ \A x \in reach[k] : next[x] \subseteq reach[k + 1]
             /\ \A y \in reach[k + 1] : y \in reach[k] \/ \E x \in reach[k] : y \in next[x]
  <2>1. k + 1 \in 1..n /\ k + 1 \in 0..n /\ k \in 0..n /\ (k + 1) - 1 = k BY <1>1
  <2>2. reach[k + 1] = UNION {{x} \cup next[x] : x \in reach[k]} BY <1>2, <2>1
  <2>. QED BY <2>1, <2>2
<1>4. S \subseteq reach[n]
  <2> DEFINE T == {k \in 0..n : S \subseteq reach[k]}
  <2>1. 0 \in T BY <1>1, <1>2
  <2>2. ASSUME NEW k \in 0..(n - 1), k \in T PROVE k + 1 \in T BY <1>3, <2>2
  <2>3. 0..n \subseteq T
    <3> HIDE DEF T
    <3>. QED BY <1>1, <2>1, <2>2, UpTo
  <2>. QED BY <1>1, <2>3
<1>5. ASSUME NEW D, S \subseteq D, \A x \in D \cap Ids(G) : next[x] \subseteq D
      PROVE  reach[n] \subseteq D
  <2> DEFINE T == {k \in 0..n : reach[k] \subseteq D}
  <2>1. 0 \in T BY <1>1, <1>2, <1>5
  <2>2. ASSUME NEW k \in 0..(n - 1), k \in T PROVE k + 1 \in T BY <1>2, <1>3, <1>5, <2>2
  <2>3. 0..n \subseteq T
    <3> HIDE DEF T
    <3>. QED BY <1>1, <2>1, <2>2, UpTo
  <2>. QED BY <1>1, <2>3
<1>6. ASSUME NEW k \in 0..n PROVE \A x \in reach[k] : x \in Ids(G) BY <1>2
<1>7. reach[n] \subseteq Ids(G) BY <1>1, <1>6
<1>8. \A x \in reach[n] : next[x] \subseteq reach[n]
  <2> DEFINE Stops(k) == \A x \in reach[k] : next[x] \subseteq reach[k]
  <2> DEFINE T == {k \in 0..n : Stops(k) \/ Cardinality(reach[k]) >= k}
  <2>1. ASSUME NEW k \in 0..n
        PROVE  IsFiniteSet(reach[k]) /\ Cardinality(reach[k]) \in Nat /\ Cardinality(reach[k]) <= Cardinality(Ids(G))
               /\ (Cardinality(reach[k]) = Cardinality(Ids(G)) => reach[k] = Ids(G))
    <3>1. reach[k] \in SUBSET Ids(G) BY <1>2
    <3>2. IsFiniteSet(reach[k]) BY <1>1, <3>1, FS_Subset
    <3>. QED BY <1>1, <3>1, <3>2, FS_Subset, FS_CardinalityType
  <2>2. 0 \in T
    <3>1. 0 \in 0..n BY <1>1
    <3>2. Cardinality(reach[0]) \in Nat BY <2>1, <3>1
    <3>. QED BY <3>1, <3>2
  <2>3. ASSUME NEW k \in 0..(n - 1), k \in T PROVE k + 1 \in T
    <3>1. k + 1 \in 0..n /\ k \in 0..n BY <1>3
    <3>2. CASE reach[k + 1] = reach[k]
      <4>1. Stops(k + 1) BY <1>3, <3>2
      <4>. QED BY <3>1, <4>1
    <3>3. CASE reach[k + 1] # reach[k]
      <4>1. ~Stops(k)
        <5>1. PICK y \in reach[k + 1] : y \notin reach[k] BY <1>3, <3>3
        <5>2. PICK x \in reach[k] : y \in next[x] BY <1>3, <5>1
        <5>. QED BY <5>1, <5>2
      <4>2. Cardinality(reach[k]) >= k BY <2>3, <4>1
      <4>3. reach[k] \in SUBSET reach[k + 1] BY <1>3
      <4>4. Cardinality(reach[k]) <= Cardinality(reach[k + 1]) /\ Cardinality(reach[k + 1]) # Cardinality(reach[k])
        BY <2>1, <3>1, <3>3, <4>3, FS_Subset
      <4>5. Cardinality(reach[k]) \in Nat /\ Cardinality(reach[k + 1]) \in Nat /\ k \in Nat BY <1>1, <2>1, <3>1
      <4>6. Cardinality(reach[k + 1]) >= k + 1 BY <4>2, <4>4, <4>5
      <4>. QED BY <3>1, <4>6
    <3>. QED BY <3>2, <3>3
  <2>4. 0..n \subseteq T
    <3> HIDE DEF T
    <3>. QED BY <1>1, <2>2, <2>3, UpTo
  <2>5. n \in 0..n BY <1>1
  <2>6. CASE Stops(n) BY <2>6
  <2>7. CASE Cardinality(reach[n]) >= n
    <3>1. Cardinality(Ids(G)) \in Nat BY <1>1, FS_CardinalityType
    <3>2. Cardinality(reach[n]) = Cardinality(Ids(G)) BY <1>1, <2>1, <2>5, <2>7, <3>1
    <3>3. reach[n] = Ids(G) BY <2>1, <2>5, <3>2
    <3>. QED BY <3>3
  <2>. QED BY <2>4, <2>5, <2>6, <2>7
<1>. QED BY <1>2, <1>4, <1>5, <1>7, <1>8 DEF Closed

-----------------------------------------------------------------------------
(* Graphs: the order of their nodes, and what depends on what.             *)

LEMMA WellFormedFacts ==
    ASSUME NEW G, WellFormed(G)
    PROVE  /\ IsList(G) /\ Distinct(G.order)
           /\ \A n \in Ids(G) : Args(G, n) \in Seq(Ids(G)) /\ InputSet(G, n) \subseteq Ids(G)
           /\ \A n : UserSet(G, n) \subseteq Ids(G)
           /\ \A n, u \in Ids(G) : u \in UserSet(G, n) <=> n \in InputSet(G, u)
           /\ \A n \in Ids(G) : \A u \in UserSet(G, n) :
                Op(G, n) # "output" /\ (Op(G, n) \in MultiOutput => Op(G, u) = "getitem")
           /\ \A n \in Ids(G) : Op(G, n) = "getitem" =>
                Args(G, n)[1] \in Ids(G) /\ InputSet(G, n) = {Args(G, n)[1]}
PROOF
<1>1. IsList(G) BY DEF WellFormed, IsList
<1>2. Distinct(G.order)
  <2> SUFFICES ASSUME NEW i \in DOMAIN G.order, NEW j \in DOMAIN G.order, i < j, G.order[i] = G.order[j]
               PROVE  FALSE
    BY DEF Distinct, Ahead
  <2>1. i = j BY DEF WellFormed, IsInjective
  <2>2. i \in Nat BY <1>1 DEF IsList
  <2>. QED BY <2>1, <2>2
<1>3. ASSUME NEW n \in Ids(G) PROVE Args(G, n) \in Seq(Ids(G)) /\ InputSet(G, n) \subseteq Ids(G)
  BY DEF WellFormed, InputSet, ToSet
<1>4. \A n : UserSet(G, n) \subseteq Ids(G) BY DEF UserSet
<1>5. \A n, u \in Ids(G) : u \in UserSet(G, n) <=> n \in InputSet(G, u) BY DEF UserSet
<1>6. \A n \in Ids(G) : \A u \in UserSet(G, n) :
         Op(G, n) # "output" /\ (Op(G, n) \in MultiOutput => Op(G, u) = "getitem")
  BY DEF WellFormed, UserSet
<1>7. ASSUME NEW n \in Ids(G), Op(G, n) = "getitem"
      PROVE  Args(G, n)[1] \in Ids(G) /\ InputSet(G, n) = {Args(G, n)[1]}
  <2>1. Len(Args(G, n)) = 1 BY <1>7 DEF WellFormed
  <2>2. DOMAIN Args(G, n) = {1} BY <1>3, <2>1
  <2>3. InputSet(G, n) = {Args(G, n)[1]} BY <2>2 DEF InputSet, ToSet
  <2>. QED BY <1>3, <2>3
<1>. QED BY <1>1, <1>2, <1>3, <1>4, <1>5, <1>6, <1>7

LEMMA InGraphOrderFacts ==
    ASSUME NEW G, IsList(G), NEW S
    PROVE  /\ InGraphOrder(G, S) \in Seq(Ids(G))
           /\ ToSet(InGraphOrder(G, S)) = Ids(G) \cap S
           /\ \A x, y : Ahead(InGraphOrder(G, S), x, y) <=> x \in S /\ y \in S /\ Ahead(G.order, x, y)
PROOF
<1> DEFINE V == Ids(G)
<1> DEFINE s == G.order
<1>1. s \in Seq(V) BY DEF IsList
<1>2. ToSet(s) = V BY DEF Ids
<1>3. InGraphOrder(G, S) = Part(s, S) BY DEF InGraphOrder
<1> HIDE DEF V, s
<1>4. /\ Part(s, S) \in Seq(V)
      /\ ToSet(Part(s, S)) = ToSet(s) \cap S
      /\ \A x, y : Ahead(Part(s, S), x, y) <=> x \in S /\ y \in S /\ Ahead(s, x, y)
  BY <1>1, PartFacts
<1>. QED BY <1>2, <1>3, <1>4 DEF V, s

\* The operands, once each.
LEMMA InputsFacts ==
    ASSUME NEW G, WellFormed(G), NEW n \in Ids(G)
    PROVE  Inputs(G, n) \in Seq(Ids(G)) /\ ToSet(Inputs(G, n)) = InputSet(G, n)
PROOF
<1> DEFINE V == Ids(G)
<1> DEFINE s == <<>>
<1> DEFINE t == Args(G, n)
<1>1. s \in Seq(V) /\ t \in Seq(V) BY WellFormedFacts
<1>2. ToSet(s) = {} BY DEF ToSet
<1>3. Inputs(G, n) = PutAll(s, t) /\ InputSet(G, n) = ToSet(t) BY DEF Inputs, InputSet
<1> HIDE DEF V, s, t
<1>4. PutAll(s, t) \in Seq(V) /\ ToSet(PutAll(s, t)) = ToSet(s) \cup ToSet(t) BY <1>1, PutAllFacts
<1>. QED BY <1>2, <1>3, <1>4 DEF V

\* Places and precedence are the same thing.
LEMMA EarlierIsAhead ==
    ASSUME NEW G, IsList(G), Distinct(G.order), NEW x \in Ids(G), NEW y \in Ids(G)
    PROVE  /\ Pos(G, x) \in DOMAIN G.order /\ G.order[Pos(G, x)] = x
           /\ Earlier(G, x, y) <=> Ahead(G.order, x, y)
PROOF
<1>1. ASSUME NEW z \in Ids(G) PROVE Pos(G, z) \in DOMAIN G.order /\ G.order[Pos(G, z)] = z
  <2>1. \E i \in DOMAIN G.order : G.order[i] = z BY DEF Ids, ToSet
  <2>. QED BY <2>1 DEF Pos
<1>2. Earlier(G, x, y) => Ahead(G.order, x, y) BY <1>1 DEF Earlier, Ahead
<1>3. ASSUME Ahead(G.order, x, y) PROVE Earlier(G, x, y)
  <2>1. PICK i, j \in DOMAIN G.order : i < j /\ G.order[i] = x /\ G.order[j] = y BY <1>3 DEF Ahead
  <2>2. G.order \in Seq(Ids(G)) BY DEF IsList
  <2>3. Pos(G, x) = i BY <1>1, <2>1, <2>2, DistinctPlaces
  <2>4. Pos(G, y) = j BY <1>1, <2>1, <2>2, DistinctPlaces
  <2>. QED BY <2>1, <2>3, <2>4 DEF Earlier
<1>. QED BY <1>1, <1>2, <1>3

LEMMA FirstFacts ==
    ASSUME NEW G, IsList(G), Distinct(G.order), NEW S, S \subseteq Ids(G), S # {}
    PROVE  First(G, S) \in S /\ \A m \in S : ~Earlier(G, m, First(G, S))
PROOF
<1> DEFINE T == {Pos(G, m) : m \in S}
<1>1. T \subseteq Nat
  <2>1. \A m \in S : Pos(G, m) \in DOMAIN G.order BY EarlierIsAhead
  <2>2. DOMAIN G.order \subseteq Nat BY DEF IsList
  <2>. QED BY <2>1, <2>2
<1>2. T # {} OBVIOUS
<1>3. PICK p \in T : \A q \in T : p <= q
  <2> HIDE DEF T
  <2>. QED BY <1>1, <1>2, LeastOfNumbers
<1>4. PICK n \in S : p = Pos(G, n) OBVIOUS
<1>5. ASSUME NEW m \in S PROVE ~Earlier(G, m, n)
  <2>1. p <= Pos(G, m) /\ p \in Nat /\ Pos(G, m) \in Nat BY <1>1, <1>3
  <2>. QED BY <1>4, <2>1 DEF Earlier
<1>6. \E x \in S : \A m \in S : ~Earlier(G, m, x) BY <1>5
<1>. QED BY <1>6 DEF First

\* What is computed from S, S included.
Desc(G, S) == Closure(G, [x \in Ids(G) |-> UserSet(G, x)], S)

LEMMA DescFacts ==
    ASSUME NEW G, WellFormed(G), NEW S, S \subseteq Ids(G)
    PROVE  /\ S \subseteq Desc(G, S) /\ Desc(G, S) \subseteq Ids(G)
           /\ \A x \in Desc(G, S) : UserSet(G, x) \subseteq Desc(G, S)
           /\ \A D : S \subseteq D /\ (\A x \in D \cap Ids(G) : UserSet(G, x) \subseteq D) => Desc(G, S) \subseteq D
PROOF
<1> DEFINE next == [x \in Ids(G) |-> UserSet(G, x)]
<1>1. IsList(G) /\ next \in [Ids(G) -> SUBSET Ids(G)] BY WellFormedFacts
<1>2. \A x \in Ids(G) : next[x] = UserSet(G, x) OBVIOUS
<1>3. Desc(G, S) = Closure(G, next, S) BY DEF Desc
<1> HIDE DEF next
<1>4. /\ S \subseteq Desc(G, S)
      /\ Closed(G, next, Desc(G, S))
      /\ \A D : S \subseteq D /\ (\A x \in D \cap Ids(G) : next[x] \subseteq D) => Desc(G, S) \subseteq D
  BY <1>1, <1>3, ClosureFacts
<1>. QED BY <1>2, <1>4 DEF Closed

\* What is computed from S is in S, or computed from a user of a member.
LEMMA DescSplit ==
    ASSUME NEW G, WellFormed(G), NEW S, S \subseteq Ids(G)
    PROVE  /\ \A y \in Desc(G, S) : y \in S \/ \E s \in S : y \in Desc(G, UserSet(G, s))
           /\ \A s \in S : Desc(G, UserSet(G, s)) \subseteq Desc(G, S)
PROOF
<1>1. \A s : UserSet(G, s) \subseteq Ids(G) BY WellFormedFacts
<1> DEFINE D == S \cup {y \in Ids(G) : \E s \in S : y \in Desc(G, UserSet(G, s))}
<1>2. ASSUME NEW x \in D \cap Ids(G) PROVE UserSet(G, x) \subseteq D
  <2>1. CASE x \in S
    <3>1. UserSet(G, x) \subseteq Desc(G, UserSet(G, x)) BY <1>1, DescFacts
    <3>. QED BY <1>1, <2>1, <3>1
  <2>2. CASE x \notin S
    <3>1. PICK s \in S : x \in Desc(G, UserSet(G, s)) BY <2>2
    <3>2. UserSet(G, x) \subseteq Desc(G, UserSet(G, s)) BY <1>1, <3>1, DescFacts
    <3>. QED BY <1>1, <3>2
  <2>. QED BY <2>1, <2>2
<1>3. Desc(G, S) \subseteq D
  <2>1. S \subseteq D OBVIOUS
  <2> HIDE DEF D
  <2>. QED BY <1>2, <2>1, DescFacts
<1>4. ASSUME NEW s \in S PROVE Desc(G, UserSet(G, s)) \subseteq Desc(G, S)
  <2>1. S \subseteq Desc(G, S) /\ Desc(G, S) \subseteq Ids(G) /\ \A x \in Desc(G, S) : UserSet(G, x) \subseteq Desc(G, S)
    BY DescFacts
  <2>2. UserSet(G, s) \subseteq Desc(G, S) BY <2>1
  <2>. QED BY <1>1, <2>1, <2>2, DescFacts
<1>. QED BY <1>3, <1>4

-----------------------------------------------------------------------------
(* What the rules answer for.                                               *)

LEMMA BackRuleFacts ==
    ASSUME NEW G, NEW n, NEW T, BackRule(G, n, T) # {}
    PROVE  /\ Op(G, n) \in Registered
           /\ Op(G, n) = "getitem" => Op(G, Args(G, n)[1]) \in MultiOutput
PROOF
<1>1. CASE Op(G, n) = "getitem"
  <2>1. Op(G, Args(G, n)[1]) \in MultiOutput BY <1>1 DEF BackRule
  <2>. QED BY <1>1, <2>1 DEF Registered
<1>2. CASE Op(G, n) # "getitem"
  <2>1. BackOwn(G, n, T) # {} BY <1>2 DEF BackRule
  <2>2. Op(G, n) \in Registered BY <2>1 DEF BackOwn
  <2>. QED BY <1>2, <2>2
<1>. QED BY <1>1, <1>2

LEMMA ForOutputsDomain ==
    ASSUME NEW G, NEW n, NEW d
    PROVE  DOMAIN ForOutputs(G, n, d) = {n}
BY DEF ForOutputs

\* Only unbind answers for other nodes than itself on the way forward.
LEMMA FrontRuleDomain ==
    ASSUME NEW G, NEW n, NEW T, NEW m \in FrontRule(G, n, T)
    PROVE  DOMAIN m \subseteq {n} \/ Op(G, n) = "unbind"
PROOF
<1> SUFFICES ASSUME Op(G, n) # "unbind" PROVE DOMAIN m \subseteq {n} OBVIOUS
<1> DEFINE o == Op(G, n)
<1>1. DOMAIN Nobody = {} BY DEF Nobody
<1>2. \A d : DOMAIN ForOutputs(G, n, d) = {n} BY ForOutputsDomain
<1>4. ~(o \notin Registered \ {"placeholder"} \/ ReducesAll(G, n)) BY DEF FrontRule
<1>5. CASE o = "full" BY <1>1, <1>4, <1>5 DEF FrontRule, AlignRight, Reduce, Permute, Matmul
<1>6. CASE o \in AlignRight
  <2>1. m \in FrontAlignRight(G, n, T) BY <1>4, <1>6 DEF FrontRule, AlignRight, Reduce, Permute, Matmul
  <2>. QED BY <1>2, <2>1 DEF FrontAlignRight
<1>7. CASE o \in Reduce
  <2>1. m \in FrontReduce(G, n, T) BY <1>4, <1>7 DEF FrontRule, AlignRight, Reduce, Permute, Matmul
  <2>. QED BY <1>2, <2>1 DEF FrontReduce
<1>8. CASE o \in Permute
  <2>1. m \in FrontPermute(G, n, T) BY <1>4, <1>8 DEF FrontRule, AlignRight, Reduce, Permute, Matmul
  <2>. QED BY <1>2, <2>1 DEF FrontPermute
<1>9. CASE o \in Matmul
  <2>1. m \in FrontMatmul(G, n, T) BY <1>4, <1>9 DEF FrontRule, AlignRight, Reduce, Permute, Matmul
  <2>2. m = Nobody \/ \E d : m = ForOutputs(G, n, d) BY <2>1 DEF FrontMatmul
  <2>. QED BY <1>1, <1>2, <2>2
<1>10. CASE o = "repeat"
  <2>1. m \in FrontRepeat(G, n, T) BY <1>4, <1>10 DEF FrontRule, AlignRight, Reduce, Permute, Matmul
  <2>. QED BY <1>2, <2>1 DEF FrontRepeat
<1>11. CASE o = "gather"
  <2>1. m \in FrontGather(G, n, T) BY <1>4, <1>11 DEF FrontRule, AlignRight, Reduce, Permute, Matmul
  <2>2. m = Nobody \/ \E d : m = ForOutputs(G, n, d) BY <2>1 DEF FrontGather
  <2>. QED BY <1>1, <1>2, <2>2
<1>12. CASE o = "reshape"
  <2>1. m \in FrontReshape(G, n, T) BY <1>4, <1>12 DEF FrontRule, AlignRight, Reduce, Permute, Matmul
  <2>. QED BY <1>2, <2>1 DEF FrontReshape
<1>13. CASE o = "getitem"
  <2>1. m \in FrontGetitem(G, n, T) BY <1>4, <1>13 DEF FrontRule, AlignRight, Reduce, Permute, Matmul
  <2>2. m = Nobody \/ DOMAIN m = {n} BY <2>1 DEF FrontGetitem
  <2>. QED BY <1>1, <2>2
<1>14. \/ o = "full" \/ o \in AlignRight \/ o \in Reduce \/ o \in Permute \/ o \in Matmul
       \/ o = "repeat" \/ o = "gather" \/ o = "reshape" \/ o = "getitem"
  BY <1>4 DEF Registered, AlignRight, Reduce, Permute, Matmul
<1>. QED BY <1>5, <1>6, <1>7, <1>8, <1>9, <1>10, <1>11, <1>12, <1>13, <1>14

-----------------------------------------------------------------------------
(* Subgraphs, and how they grow.                                            *)

\* The nodes the pass makes are kernels and the getitems of kernels.
CreatedOps(G) ==
    \A n \in Ids(G) \cap ToSet(FreshNames) :
        \/ Op(G, n) = "kernel"
        \/ Op(G, n) = "getitem" /\ Op(G, Args(G, n)[1]) = "kernel"

\* What is computed from a node comes behind it, unless the node is one of those that
\* the pass makes.
Downstream(G) ==
    \A s \in Ids(G) \ ToSet(FreshNames) : \A y \in Desc(G, UserSet(G, s)) : Ahead(G.order, s, y)

GraphOK(G) == WellFormed(G) /\ CreatedOps(G) /\ Downstream(G)

\* Supported nodes, none of them fed by the others from outside.  The node that the
\* subgraph was started from is one of them and new, and the others are new as well,
\* unless they came along with their family.
Subgraph(G, s, v, S) ==
    /\ S \subseteq Ids(G) \ ToSet(FreshNames)
    /\ \A n \in S : Op(G, n) \in Registered
    /\ \A n \in S : \A x \in InputSet(G, n) : x \in Desc(G, S) => x \in S
    /\ S # {} => s \in S /\ s \notin v
    /\ \A n \in S \cap v : Op(G, n) \in MultiOutput \cup {"getitem"}

FamilySet(G, n) ==
    IF Op(G, n) = "getitem" THEN {Args(G, n)[1]} \cup UserSet(G, Args(G, n)[1]) ELSE {n}

\* A node that is worth asking: the first one, a member, one that is read, or one whose
\* family the subgraph has met.
Near(G, s, S, k) ==
    /\ k \in Ids(G)
    /\ S = {} => k = s
    /\ \/ k = s \/ k \in S \/ RealUsers(G, k) # {}
       \/ Op(G, k) = "getitem" /\ FamilySet(G, k) \cap S # {}

\* Nothing is computed from itself.
LEMMA NoCycle ==
    ASSUME NEW G, WellFormed(G), Downstream(G), NEW m \in Ids(G) \ ToSet(FreshNames),
           NEW z \in InputSet(G, m)
    PROVE  z \notin Desc(G, {m})
PROOF
<1> SUFFICES ASSUME z \in Desc(G, {m}) PROVE FALSE OBVIOUS
<1>1. z \in Ids(G) /\ m \in UserSet(G, z) /\ UserSet(G, m) \subseteq Ids(G) /\ {m} \subseteq Ids(G)
  BY WellFormedFacts
<1>2. m \in Desc(G, UserSet(G, m))
  <2>1. CASE z = m BY <1>1, <2>1, DescFacts
  <2>2. CASE z # m
    <3>1. z \in Desc(G, UserSet(G, m)) BY <1>1, <2>2, DescSplit
    <3>. QED BY <1>1, <3>1, DescFacts
  <2>. QED BY <2>1, <2>2
<1>3. Ahead(G.order, m, m) BY <1>2 DEF Downstream
<1>. QED BY <1>3, WellFormedFacts DEF Distinct

LEMMA FamilyFacts ==
    ASSUME NEW G, WellFormed(G), NEW n \in Ids(G)
    PROVE  /\ n \in FamilySet(G, n) /\ FamilySet(G, n) \subseteq Ids(G)
           /\ Op(G, n) = "getitem" /\ Op(G, Args(G, n)[1]) \in MultiOutput =>
                 \A x \in FamilySet(G, n) : x = Args(G, n)[1] \/ Op(G, x) = "getitem"
PROOF
<1>1. CASE Op(G, n) = "getitem"
  <2>1. Args(G, n)[1] \in Ids(G) /\ n \in UserSet(G, Args(G, n)[1]) BY <1>1, WellFormedFacts
  <2>. QED BY <1>1, <2>1, WellFormedFacts DEF FamilySet
<1>2. CASE Op(G, n) # "getitem" BY <1>2 DEF FamilySet
<1>. QED BY <1>1, <1>2

\* What a family needs: what its node with several outputs needs, and that node.
LEMMA FamilyNeeds ==
    ASSUME NEW G, WellFormed(G), NEW n \in Ids(G),
           Op(G, n) = "getitem" => Op(G, Args(G, n)[1]) \in MultiOutput
    PROVE  LET root == IF Op(G, n) = "getitem" THEN Args(G, n)[1] ELSE n IN
           /\ root \in FamilySet(G, n)
           /\ FamilySet(G, n) \subseteq Desc(G, {root})
           /\ \A f \in FamilySet(G, n) : \A z \in InputSet(G, f) : z \in FamilySet(G, n) \/ z \in InputSet(G, root)
           /\ \A f \in FamilySet(G, n) : f = root \/ root \in InputSet(G, f)
PROOF
<1>1. CASE Op(G, n) = "getitem"
  <2> DEFINE p == Args(G, n)[1]
  <2>1. p \in Ids(G) /\ Op(G, p) \in MultiOutput BY <1>1, WellFormedFacts
  <2>2. FamilySet(G, n) = {p} \cup UserSet(G, p) BY <1>1 DEF FamilySet
  <2>3. \A f \in UserSet(G, p) : f \in Ids(G) /\ Op(G, f) = "getitem" /\ p \in InputSet(G, f)
    BY <2>1, WellFormedFacts
  <2>4. \A f \in UserSet(G, p) : InputSet(G, f) = {p}
    <3> TAKE f \in UserSet(G, p)
    <3>1. InputSet(G, f) = {Args(G, f)[1]} BY <2>3, WellFormedFacts
    <3>. QED BY <2>3, <3>1
  <2>5. {p} \cup UserSet(G, p) \subseteq Desc(G, {p})
    <3>1. {p} \subseteq Ids(G) BY <2>1
    <3>. QED BY <3>1, DescFacts
  <2> HIDE DEF p
  <2>. QED BY <1>1, <2>2, <2>3, <2>4, <2>5 DEF p
<1>2. CASE Op(G, n) # "getitem"
  <2>1. FamilySet(G, n) = {n} BY <1>2 DEF FamilySet
  <2>2. n \in Desc(G, {n})
    <3>1. {n} \subseteq Ids(G) OBVIOUS
    <3>. QED BY <3>1, DescFacts
  <2>. QED BY <1>2, <2>1, <2>2
<1>. QED BY <1>1, <1>2

\* A node whose op a rule answers for is none of those the pass makes.
LEMMA NotCreated ==
    ASSUME NEW G, GraphOK(G), NEW n \in Ids(G), Op(G, n) \in Registered,
           Op(G, n) = "getitem" => Op(G, Args(G, n)[1]) \in MultiOutput
    PROVE  \A f \in FamilySet(G, n) : f \notin ToSet(FreshNames) /\ Op(G, f) \in Registered
PROOF
<1> USE DEF GraphOK
<1>1. "kernel" \notin Registered /\ MultiOutput \subseteq Registered /\ "getitem" \in Registered
      /\ "kernel" \notin MultiOutput /\ "getitem" \notin MultiOutput
  BY DEF Registered, MultiOutput
<1>2. CASE Op(G, n) = "getitem"
  <2> DEFINE p == Args(G, n)[1]
  <2>1. p \in Ids(G) /\ Op(G, p) \in MultiOutput BY <1>2, WellFormedFacts
  <2>2. p \notin ToSet(FreshNames) BY <1>1, <2>1 DEF CreatedOps
  <2>3. ASSUME NEW f \in UserSet(G, p) PROVE f \notin ToSet(FreshNames) /\ Op(G, f) = "getitem"
    <3>1. f \in Ids(G) /\ Op(G, f) = "getitem" /\ p \in InputSet(G, f) BY <2>1, WellFormedFacts
    <3>2. InputSet(G, f) = {Args(G, f)[1]} BY <3>1, WellFormedFacts
    <3>3. Args(G, f)[1] = p BY <3>1, <3>2
    <3>. QED BY <1>1, <2>1, <3>1, <3>3 DEF CreatedOps
  <2>4. FamilySet(G, n) = {p} \cup UserSet(G, p) BY <1>2 DEF FamilySet
  <2> HIDE DEF p
  <2>. QED BY <1>1, <2>1, <2>2, <2>3, <2>4
<1>3. CASE Op(G, n) # "getitem"
  <2>1. n \notin ToSet(FreshNames) BY <1>1, <1>3 DEF CreatedOps
  <2>. QED BY <1>3, <2>1 DEF FamilySet
<1>. QED BY <1>2, <1>3

\* On the way back: a node or a family whose users are all in may be taken.
LEMMA GrowsBack ==
    ASSUME NEW G, GraphOK(G), NEW s, NEW v, NEW S, NEW n, s \notin v,
           Subgraph(G, s, v, S), Near(G, s, S, n), n \notin v, n \notin S,
           Op(G, n) \in Registered,
           Op(G, n) = "getitem" => Op(G, Args(G, n)[1]) \in MultiOutput,
           n # s => \A u \in FamilyUsers(G, n) : Op(G, u) = "output" \/ u \in S
    PROVE  Subgraph(G, s, v, S \cup FamilySet(G, n))
PROOF
<1> DEFINE F == FamilySet(G, n)
<1> DEFINE root == IF Op(G, n) = "getitem" THEN Args(G, n)[1] ELSE n
<1>1. WellFormed(G) /\ Downstream(G) BY DEF GraphOK
<1>2. n \in Ids(G) BY DEF Near
<1>3. n \in F /\ F \subseteq Ids(G) BY <1>1, <1>2, FamilyFacts
<1>4. \A f \in F : f \notin ToSet(FreshNames) /\ Op(G, f) \in Registered BY <1>2, NotCreated
<1>5. /\ root \in F
      /\ F \subseteq Desc(G, {root})
      /\ \A f \in F : \A z \in InputSet(G, f) : z \in F \/ z \in InputSet(G, root)
      /\ \A f \in F : f = root \/ root \in InputSet(G, f)
  BY <1>1, <1>2, FamilyNeeds
<1>6. S \subseteq Ids(G) /\ S \cup F \subseteq Ids(G) BY <1>3 DEF Subgraph
<1>7. S # {} => s \in S BY DEF Subgraph
<1>8. \A x \in F \cap v : Op(G, x) \in MultiOutput \cup {"getitem"}
  <2>1. CASE Op(G, n) = "getitem"
    <3>1. \A x \in F : x = Args(G, n)[1] \/ Op(G, x) = "getitem" BY <1>1, <1>2, <2>1, FamilyFacts
    <3>. QED BY <2>1, <3>1
  <2>2. CASE Op(G, n) # "getitem" BY <2>2 DEF FamilySet
  <2>. QED BY <2>1, <2>2
<1>9. ASSUME NEW f \in S \cup F, NEW x \in InputSet(G, f), x \in Desc(G, S \cup F)
      PROVE  x \in S \cup F
  <2>0. x \in Ids(G) /\ f \in Ids(G) /\ f \in UserSet(G, x) BY <1>1, <1>6, WellFormedFacts
  <2>1. CASE S = {}
    <3>1. root \in Ids(G) /\ root \notin ToSet(FreshNames) BY <1>3, <1>4, <1>5
    <3>2. Desc(G, S \cup F) \subseteq Desc(G, {root})
      <4>1. {root} \subseteq Ids(G) BY <3>1
      <4>2. \A y \in Desc(G, {root}) : UserSet(G, y) \subseteq Desc(G, {root}) BY <1>1, <4>1, DescFacts
      <4>3. S \cup F \subseteq Desc(G, {root}) BY <1>5, <2>1
      <4> DEFINE R == Desc(G, {root})
      <4>4. S \cup F \subseteq R /\ \A y \in R \cap Ids(G) : UserSet(G, y) \subseteq R BY <4>2, <4>3
      <4> HIDE DEF root, F, R
      <4>5. Desc(G, S \cup F) \subseteq R BY <1>1, <1>6, <4>4, DescFacts
      <4>. QED BY <4>5 DEF R
    <3>3. x \notin InputSet(G, root) BY <1>1, <1>9, <3>1, <3>2, NoCycle
    <3>. QED BY <1>5, <2>1, <3>3
  <2>2. CASE S # {}
    <3>1. n # s BY <1>7, <2>2
    <3>2. \A f2 \in F : \A u \in UserSet(G, f2) : u \in F \/ Op(G, u) = "output" \/ u \in S
      <4>1. CASE Op(G, n) = "getitem"
        <5> DEFINE p == Args(G, n)[1]
        <5>1. F = {p} \cup UserSet(G, p) BY <4>1 DEF FamilySet
        <5>2. FamilyUsers(G, n) = UNION {UserSet(G, t) : t \in UserSet(G, p)} BY <4>1 DEF FamilyUsers
        <5> HIDE DEF p, F
        <5>. QED BY <3>1, <5>1, <5>2
      <4>2. CASE Op(G, n) # "getitem"
        <5>1. F = {n} /\ FamilyUsers(G, n) = UserSet(G, n) BY <4>2 DEF FamilySet, FamilyUsers
        <5> HIDE DEF F
        <5>. QED BY <3>1, <5>1
      <4>. QED BY <4>1, <4>2
    <3> DEFINE D == Desc(G, S) \cup F \cup {u \in Ids(G) : Op(G, u) = "output"}
    <3>3. S \subseteq Desc(G, S) /\ \A y \in Desc(G, S) : UserSet(G, y) \subseteq Desc(G, S) BY <1>1, <1>6, DescFacts
    <3>4. ASSUME NEW y \in D \cap Ids(G) PROVE UserSet(G, y) \subseteq D
      <4>1. UserSet(G, y) \subseteq Ids(G) BY <1>1, WellFormedFacts
      <4>2. CASE y \in Desc(G, S) BY <3>3, <4>2
      <4>3. CASE y \in F BY <3>2, <3>3, <4>1, <4>3
      <4>4. CASE Op(G, y) = "output"
        <5>1. UserSet(G, y) = {} BY <1>1, <4>4, WellFormedFacts
        <5>. QED BY <5>1
      <4>. QED BY <4>2, <4>3, <4>4
    <3>5. Desc(G, S \cup F) \subseteq D
      <4>1. S \cup F \subseteq D BY <3>3
      <4> HIDE DEF D, F
      <4>. QED BY <1>1, <1>6, <3>4, <4>1, DescFacts
    <3>6. Op(G, x) # "output" BY <1>1, <2>0, WellFormedFacts
    <3>7. CASE x \in F BY <3>7
    <3>8. CASE x \in Desc(G, S) /\ x \notin F
      <4>0. \A g \in S : \A z \in InputSet(G, g) : z \in Desc(G, S) => z \in S BY DEF Subgraph
      <4>1. CASE f \in S BY <3>8, <4>0, <4>1
      <4>2. CASE f \in F
        <5>1. x \in InputSet(G, root) BY <1>5, <3>8, <4>2
        <5>2. root \in Ids(G) BY <1>3, <1>5
        <5>3. root \in UserSet(G, x) BY <1>1, <2>0, <5>1, <5>2, WellFormedFacts
        <5>4. root \in Desc(G, S) BY <3>3, <3>8, <5>3
        <5>5. root \in S
          <6>1. CASE F \cap S # {} BY <1>5, <4>0, <5>4, <6>1
          <6>2. CASE RealUsers(G, n) # {}
            <7>1. PICK u \in UserSet(G, n) : Op(G, u) # "output" BY <6>2 DEF RealUsers
            <7>2. u \in F \/ u \in S BY <1>3, <3>2, <7>1
            <7>3. u \in Ids(G) /\ n \in InputSet(G, u) BY <1>1, <1>2, <7>1, WellFormedFacts
            <7>4. n \in Desc(G, S)
              <8>1. n = root \/ root \in InputSet(G, n) BY <1>3, <1>5
              <8>2. root \in InputSet(G, n) => n \in UserSet(G, root) BY <1>1, <1>2, <5>2, WellFormedFacts
              <8>. QED BY <3>3, <5>4, <8>1, <8>2
            <7>5. CASE u \in S BY <4>0, <7>3, <7>4, <7>5
            <7>6. CASE u \in F /\ u \notin S
              <8>1. CASE Op(G, n) = "getitem"
                <9>1. u \in FamilyUsers(G, n)
                  <10>1. n \in UserSet(G, Args(G, n)[1]) BY <1>1, <1>2, <8>1, WellFormedFacts
                  <10>. QED BY <7>1, <8>1, <10>1 DEF FamilyUsers
                <9>. QED BY <3>1, <7>1, <7>6, <9>1
              <8>2. CASE Op(G, n) # "getitem"
                <9>1. u \in FamilyUsers(G, n) BY <7>1, <8>2 DEF FamilyUsers
                <9>. QED BY <3>1, <7>1, <7>6, <9>1
              <8>. QED BY <8>1, <8>2
            <7>. QED BY <7>2, <7>5, <7>6
          <6>. QED BY <3>1, <6>1, <6>2 DEF Near
        <5>. QED BY <3>8, <4>0, <5>1, <5>5
      <4>. QED BY <4>1, <4>2
    <3>. QED BY <1>9, <3>5, <3>6, <3>7, <3>8
  <2>. QED BY <2>1, <2>2
<1>10. s \in S \cup F BY <1>3, <1>7 DEF Near
<1>11. /\ S \cap ToSet(FreshNames) = {} /\ (\A x \in S : Op(G, x) \in Registered)
       /\ \A x \in S \cap v : Op(G, x) \in MultiOutput \cup {"getitem"}
  BY DEF Subgraph
<1> HIDE DEF F, root
<1>12. Subgraph(G, s, v, S \cup F) BY <1>4, <1>6, <1>8, <1>9, <1>10, <1>11 DEF Subgraph
<1>. QED BY <1>12 DEF F

\* The way back from n, outside S and not before its first node, as has_ring_fuse goes it.
WayBack(G, S, n) ==
    Closure(G, [x \in Ids(G) |-> IF x \in S \/ Earlier(G, x, First(G, S)) THEN {} ELSE InputSet(G, x)],
            InputSet(G, n) \ S)

\* On the way forward: a node that is computed from the subgraph may be taken, if the
\* way back does not meet the subgraph.
LEMMA GrowsFront ==
    ASSUME NEW G, GraphOK(G), NEW s, NEW v, NEW S, NEW n,
           Subgraph(G, s, v, S), n \in Desc(G, S), n \notin v \/ Op(G, n) = "getitem",
           Op(G, n) \in Registered,
           Op(G, n) = "getitem" => Op(G, Args(G, n)[1]) \in MultiOutput,
           WayBack(G, S, n) \cap S = {}
    PROVE  Subgraph(G, s, v, S \cup {n})
PROOF
<1>1. WellFormed(G) /\ Downstream(G) BY DEF GraphOK
<1>2. S \subseteq Ids(G) BY DEF Subgraph
<1>3. /\ S \subseteq Desc(G, S) /\ Desc(G, S) \subseteq Ids(G)
      /\ \A y \in Desc(G, S) : UserSet(G, y) \subseteq Desc(G, S)
  BY <1>1, <1>2, DescFacts
<1>4. n \in Ids(G) BY <1>3
<1>5. S # {}
  <2> SUFFICES ASSUME S = {} PROVE FALSE OBVIOUS
  <2>1. Desc(G, S) \subseteq {} BY <1>1, <1>2, DescFacts
  <2>. QED BY <2>1
<1>6. n \notin ToSet(FreshNames) BY <1>1, <1>4, NotCreated, FamilyFacts
<1>7. Desc(G, S \cup {n}) \subseteq Desc(G, S)
  <2>1. S \cup {n} \subseteq Ids(G) /\ S \cup {n} \subseteq Desc(G, S) BY <1>2, <1>3, <1>4
  <2> DEFINE R == Desc(G, S)
  <2>2. S \cup {n} \subseteq R /\ \A y \in R \cap Ids(G) : UserSet(G, y) \subseteq R BY <1>3, <2>1
  <2> HIDE DEF R
  <2>3. Desc(G, S \cup {n}) \subseteq R BY <1>1, <2>1, <2>2, DescFacts
  <2>. QED BY <2>3 DEF R
<1> DEFINE C == WayBack(G, S, n)
<1> DEFINE next == [x \in Ids(G) |-> IF x \in S \/ Earlier(G, x, First(G, S)) THEN {} ELSE InputSet(G, x)]
<1>8. /\ InputSet(G, n) \ S \subseteq C /\ C \subseteq Ids(G)
      /\ \A x \in C : x \notin S /\ ~Earlier(G, x, First(G, S)) => InputSet(G, x) \subseteq C
  <2>1. IsList(G) /\ next \in [Ids(G) -> SUBSET Ids(G)] BY <1>1, WellFormedFacts
  <2>2. InputSet(G, n) \ S \subseteq Ids(G) BY <1>1, <1>4, WellFormedFacts
  <2>3. C = Closure(G, next, InputSet(G, n) \ S) BY DEF WayBack
  <2>4. \A x \in Ids(G) : x \notin S /\ ~Earlier(G, x, First(G, S)) => next[x] = InputSet(G, x) OBVIOUS
  <2> HIDE DEF next, C
  <2>5. InputSet(G, n) \ S \subseteq C /\ Closed(G, next, C) BY <2>1, <2>2, <2>3, ClosureFacts
  <2>. QED BY <2>4, <2>5 DEF Closed
<1>9. C \cap Desc(G, S) = {}
  <2> DEFINE D == Desc(G, S) \ C
  <2>1. S \subseteq D BY <1>3
  <2>2. ASSUME NEW y \in D \cap Ids(G), NEW u \in UserSet(G, y) PROVE u \in D
    <3>1. u \in Desc(G, S) /\ u \in Ids(G) /\ y \in InputSet(G, u) BY <1>1, <1>3, <2>2, WellFormedFacts
    <3>2. ASSUME u \in C PROVE FALSE
      <4>1. u \notin S BY <3>2
      <4>2. PICK z \in S : u \in Desc(G, UserSet(G, z)) BY <1>1, <1>2, <3>1, <4>1, DescSplit
      <4>3. z \in Ids(G) \ ToSet(FreshNames) BY DEF Subgraph
      <4>4. Ahead(G.order, z, u) BY <1>1, <4>2, <4>3 DEF Downstream
      <4>5. First(G, S) \in S /\ ~Earlier(G, z, First(G, S)) BY <1>1, <1>2, <1>5, FirstFacts, WellFormedFacts
      <4>6. ~Earlier(G, u, First(G, S))
        <5>1. ASSUME Ahead(G.order, u, First(G, S)) PROVE Ahead(G.order, z, First(G, S))
          <6>1. G.order \in Seq(Ids(G)) /\ Distinct(G.order) BY <1>1, WellFormedFacts DEF IsList
          <6>. QED BY <4>4, <5>1, <6>1, AheadIsOrder
        <5>2. First(G, S) \in Ids(G) /\ IsList(G) /\ Distinct(G.order) BY <1>1, <1>2, <4>5, WellFormedFacts
        <5>3. Earlier(G, u, First(G, S)) => Ahead(G.order, u, First(G, S)) BY <3>1, <5>2, EarlierIsAhead
        <5>4. Ahead(G.order, z, First(G, S)) => Earlier(G, z, First(G, S)) BY <4>3, <5>2, EarlierIsAhead
        <5>. QED BY <4>5, <5>1, <5>3, <5>4
      <4>7. y \in C BY <1>8, <3>1, <3>2, <4>1, <4>6
      <4>. QED BY <4>7
    <3>. QED BY <3>1, <3>2
  <2>3. \A y \in D \cap Ids(G) : UserSet(G, y) \subseteq D BY <2>2
  <2>4. Desc(G, S) \subseteq D
    <3> HIDE DEF D
    <3>. QED BY <1>1, <1>2, <2>1, <2>3, DescFacts
  <2>. QED BY <2>4
<1>10. ASSUME NEW f \in S \cup {n}, NEW x \in InputSet(G, f), x \in Desc(G, S \cup {n})
       PROVE  x \in S \cup {n}
  <2>1. x \in Desc(G, S) BY <1>7, <1>10
  <2>2. CASE f \in S BY <2>1, <2>2 DEF Subgraph
  <2>3. CASE f = n
    <3>1. x \in S \/ x \in C BY <1>8, <2>3
    <3>. QED BY <1>9, <2>1, <3>1
  <2>. QED BY <2>2, <2>3
<1>11. /\ S \cap ToSet(FreshNames) = {} /\ (\A x \in S : Op(G, x) \in Registered)
       /\ s \in S /\ s \notin v /\ \A x \in S \cap v : Op(G, x) \in MultiOutput \cup {"getitem"}
  BY <1>5 DEF Subgraph
<1>. QED BY <1>2, <1>4, <1>6, <1>10, <1>11 DEF Subgraph

\* A subgraph that has grown is near to everything it was near to.
LEMMA NearGrows ==
    ASSUME NEW G, NEW s, NEW S, NEW S2, S \subseteq S2, NEW k, Near(G, s, S, k)
    PROVE  Near(G, s, S2, k)
BY DEF Near

LEMMA KeysFacts ==
    ASSUME NEW G, WellFormed(G), NEW s, NEW S, NEW n \in Ids(G), n \in S,
           Op(G, n) \in Registered, NEW m
    PROVE  /\ Keys(G, n, m) \in Seq(Ids(G)) /\ ToSet(Keys(G, n, m)) \subseteq DOMAIN m
           /\ \A k \in ToSet(Keys(G, n, m)) : Near(G, s, S, k)
PROOF
<1> DEFINE first == IF Op(G, n) = "getitem" THEN Args(G, n)[1] ELSE n
<1> DEFINE family == IF Op(G, first) \in MultiOutput THEN <<first>> \o Users(G, first) ELSE <<n>>
<1>1. first \in Ids(G) BY WellFormedFacts
<1>2. n = first \/ (n \in UserSet(G, first) /\ Op(G, n) = "getitem") BY WellFormedFacts
<1>3. Op(G, n) # "output" BY DEF Registered
<1>4. Op(G, first) # "output" BY <1>1, <1>2, <1>3, WellFormedFacts
<1> HIDE DEF first
<1>5. Users(G, first) \in Seq(Ids(G)) /\ ToSet(Users(G, first)) = UserSet(G, first)
  <2>1. UserSet(G, first) \subseteq Ids(G) BY WellFormedFacts
  <2> DEFINE U == UserSet(G, first)
  <2>2. Users(G, first) = InGraphOrder(G, U) BY DEF Users
  <2> HIDE DEF U
  <2>0. IsList(G) BY WellFormedFacts
  <2>3. InGraphOrder(G, U) \in Seq(Ids(G)) /\ ToSet(InGraphOrder(G, U)) = Ids(G) \cap U
    BY <2>0, InGraphOrderFacts
  <2>4. Ids(G) \cap U = U BY <2>1 DEF U
  <2>. QED BY <2>2, <2>3, <2>4 DEF U
<1>6. Inputs(G, first) \in Seq(Ids(G)) /\ ToSet(Inputs(G, first)) = InputSet(G, first) BY <1>1, InputsFacts
<1>7. /\ family \in Seq(Ids(G))
      /\ \A k \in ToSet(family) : k = n \/ k = first \/ (Op(G, first) \in MultiOutput /\ k \in UserSet(G, first))
  <2>1. \A k \in Ids(G) : <<k>> \in Seq(Ids(G)) /\ ToSet(<<k>>) = {k} BY DEF ToSet
  <2>2. CASE Op(G, first) \in MultiOutput
    <3> DEFINE one == <<first>>
    <3> DEFINE rest == Users(G, first)
    <3> DEFINE V == Ids(G)
    <3>0. family = one \o rest BY <2>2
    <3>2. one \in Seq(V) /\ ToSet(one) = {first} /\ rest \in Seq(V) /\ ToSet(rest) = UserSet(G, first)
      BY <1>1, <1>5, <2>1
    <3>1. family \in Seq(Ids(G)) /\ ToSet(family) = {first} \cup UserSet(G, first)
      <4> HIDE DEF one, rest, V
      <4>1. one \o rest \in Seq(V) /\ ToSet(one \o rest) = ToSet(one) \cup ToSet(rest) BY <3>2, ConcatFacts
      <4>. QED BY <3>0, <3>2, <4>1 DEF V
    <3>. QED BY <2>2, <3>1
  <2>3. CASE Op(G, first) \notin MultiOutput BY <2>1, <2>3
  <2>. QED BY <2>2, <2>3
<1>8. Keys(G, n, m) = Part(family \o Inputs(G, first), DOMAIN m) BY DEF Keys, first
<1> HIDE DEF family
<1>9. /\ family \o Inputs(G, first) \in Seq(Ids(G))
      /\ ToSet(family \o Inputs(G, first)) = ToSet(family) \cup InputSet(G, first)
  BY <1>6, <1>7, ConcatFacts
<1>10. /\ Keys(G, n, m) \in Seq(Ids(G)) /\ ToSet(Keys(G, n, m)) \subseteq DOMAIN m
       /\ ToSet(Keys(G, n, m)) \subseteq ToSet(family) \cup InputSet(G, first)
  <2> DEFINE V == Ids(G)
  <2> DEFINE s0 == family \o Inputs(G, first)
  <2>1. s0 \in Seq(V) BY <1>9
  <2> HIDE DEF V, s0
  <2>2. Part(s0, DOMAIN m) \in Seq(V) /\ ToSet(Part(s0, DOMAIN m)) = ToSet(s0) \cap DOMAIN m BY <2>1, PartFacts
  <2>. QED BY <1>8, <1>9, <2>2 DEF V, s0
<1>11. ASSUME NEW k \in Ids(G), k = first \/ k \in InputSet(G, first) PROVE Near(G, s, S, k)
  <2>1. CASE k = n BY <2>1 DEF Near
  <2>2. CASE k # n
    <3>1. RealUsers(G, k) # {}
      <4>1. CASE k = first BY <1>2, <1>3, <2>2, <4>1 DEF RealUsers
      <4>2. CASE k \in InputSet(G, first)
        <5>1. first \in UserSet(G, k) BY <1>1, <4>2, WellFormedFacts
        <5>. QED BY <1>4, <5>1 DEF RealUsers
      <4>. QED BY <1>11, <4>1, <4>2
    <3>. QED BY <3>1 DEF Near
  <2>. QED BY <2>1, <2>2
<1>12. ASSUME NEW k \in UserSet(G, first), Op(G, first) \in MultiOutput PROVE Near(G, s, S, k)
  <2>1. k \in Ids(G) /\ Op(G, k) = "getitem" /\ first \in InputSet(G, k) BY <1>1, <1>12, WellFormedFacts
  <2>2. Args(G, k)[1] = first
    <3>1. InputSet(G, k) = {Args(G, k)[1]} BY <2>1, WellFormedFacts
    <3>. QED BY <2>1, <3>1
  <2>3. n \in FamilySet(G, k) BY <1>2, <2>1, <2>2 DEF FamilySet
  <2>. QED BY <2>1, <2>3 DEF Near
<1>13. Near(G, s, S, n) BY DEF Near
<1>14. InputSet(G, first) \subseteq Ids(G) BY <1>1, WellFormedFacts
<1>. QED BY <1>1, <1>7, <1>10, <1>11, <1>12, <1>13, <1>14

\* What a subgraph needs and what is computed from it have only the subgraph in common.
LEMMA SubgraphIsConvex ==
    ASSUME NEW G, WellFormed(G), NEW s, NEW v, NEW S, Subgraph(G, s, v, S)
    PROVE  Closure(G, [x \in Ids(G) |-> UserSet(G, x)], S) \cap Closure(G, [x \in Ids(G) |-> InputSet(G, x)], S)
              \subseteq S
PROOF
<1> DEFINE next == [x \in Ids(G) |-> InputSet(G, x)]
<1> DEFINE D == S \cup (Ids(G) \ Desc(G, S))
<1>1. S \subseteq Ids(G) BY DEF Subgraph
<1>2. IsList(G) /\ next \in [Ids(G) -> SUBSET Ids(G)] BY WellFormedFacts
<1>3. ASSUME NEW x \in D \cap Ids(G), NEW z \in next[x] PROVE z \in D
  <2>1. z \in InputSet(G, x) /\ z \in Ids(G) /\ x \in UserSet(G, z) BY <1>3, WellFormedFacts
  <2>2. CASE z \in Desc(G, S)
    <3>1. x \in Desc(G, S) BY <1>1, <2>1, <2>2, DescFacts
    <3>. QED BY <1>3, <2>1, <2>2, <3>1 DEF Subgraph
  <2>. QED BY <2>1, <2>2
<1>4. Closure(G, next, S) \subseteq D
  <2>1. S \subseteq D /\ \A x \in D \cap Ids(G) : next[x] \subseteq D BY <1>3
  <2> HIDE DEF next, D
  <2>. QED BY <1>1, <1>2, <2>1, ClosureFacts
<1>. QED BY <1>4 DEF Desc

-----------------------------------------------------------------------------
(* Putting a kernel into the graph.                                         *)

LEMMA ArrangedFacts ==
    ASSUME NEW G, IsList(G), Distinct(G.order), NEW last \in Nat, NEW group \in [Ids(G) -> 0..last]
    PROVE  /\ Arranged(G, group, last) \in Seq(Ids(G))
           /\ ToSet(Arranged(G, group, last)) = Ids(G)
           /\ \A x, y : Ahead(Arranged(G, group, last), x, y) <=>
                 /\ x \in Ids(G) /\ y \in Ids(G)
                 /\ group[x] < group[y] \/ (group[x] = group[y] /\ Ahead(G.order, x, y))
PROOF
<1> DEFINE V == Seq(Ids(G))
<1> DEFINE these(k) == InGraphOrder(G, {n \in Ids(G) : group[n] = k})
<1> DEFINE Is(g) == g = [k \in 0..last |-> IF k = 0 THEN these(k) ELSE g[k - 1] \o these(k)]
<1> DEFINE placed == CHOOSE g : Is(g)
<1> DEFINE step == [k \in Nat |-> [v \in V |-> v \o these(k)]]
<1>1. Arranged(G, group, last) = placed[last] BY DEF Arranged
<1>2. ASSUME NEW k \in 0..last
      PROVE  /\ these(k) \in V
             /\ ToSet(these(k)) = {n \in Ids(G) : group[n] = k}
             /\ \A x, y : Ahead(these(k), x, y) <=>
                   /\ x \in Ids(G) /\ y \in Ids(G) /\ group[x] = k /\ group[y] = k /\ Ahead(G.order, x, y)
  <2> DEFINE S == {n \in Ids(G) : group[n] = k}
  <2>1. \A x : x \in S <=> x \in Ids(G) /\ group[x] = k OBVIOUS
  <2>2. these(k) = InGraphOrder(G, S) OBVIOUS
  <2> HIDE DEF S, these
  <2>3. /\ InGraphOrder(G, S) \in Seq(Ids(G))
        /\ ToSet(InGraphOrder(G, S)) = Ids(G) \cap S
        /\ \A x, y : Ahead(InGraphOrder(G, S), x, y) <=> x \in S /\ y \in S /\ Ahead(G.order, x, y)
    BY InGraphOrderFacts
  <2>. QED BY <2>1, <2>2, <2>3
<1>3. \A k \in Nat : these(k) \in V BY InGraphOrderFacts
<1> HIDE DEF these
<1>4. step \in [Nat -> [V -> V]] /\ \A k \in 1..last, v \in V : step[k][v] = v \o these(k)
  <2>1. \A v \in V, w \in V : v \o w \in V OBVIOUS
  <2> HIDE DEF V
  <2>. QED BY <1>3, <2>1
<1> HIDE DEF step, V
<1>5. PICK f : Unfolds(f, V, these(0), step, last) BY <1>3, <1>4, Recursion
<1>6. f \in [0..last -> V] /\ f[0] = these(0) /\ \A k \in 1..last : f[k] = f[k - 1] \o these(k)
  <2>1. \A k \in 1..last : k - 1 \in 0..last OBVIOUS
  <2>. QED BY <1>4, <1>5, <2>1 DEF Unfolds
<1>7. Is(f)
  <2>1. \A k \in 0..last : k = 0 \/ k \in 1..last OBVIOUS
  <2>. QED BY <1>6, <2>1
<1>8. Is(placed)
  <2> HIDE DEF Is
  <2>. QED BY <1>7
<1>9. placed[0] = these(0) /\ \A k \in 1..last : placed[k] = placed[k - 1] \o these(k)
  <2> HIDE DEF placed
  <2>1. 0 \in 0..last /\ \A k \in 1..last : k \in 0..last /\ k # 0 OBVIOUS
  <2>. QED BY <1>8, <2>1
<1> HIDE DEF placed
<1> DEFINE Before(x, y) == group[x] < group[y] \/ (group[x] = group[y] /\ Ahead(G.order, x, y))
<1> DEFINE Right(k) == /\ placed[k] \in V
                       /\ \A x : x \in ToSet(placed[k]) <=> x \in Ids(G) /\ group[x] <= k
                       /\ \A x, y : Ahead(placed[k], x, y) <=>
                             /\ x \in Ids(G) /\ y \in Ids(G) /\ group[x] <= k /\ group[y] <= k /\ Before(x, y)
<1> DEFINE T == {k \in 0..last : Right(k)}
<1>10. \A x \in Ids(G) : group[x] \in Nat /\ group[x] <= last OBVIOUS
<1>11. 0 \in T
  <2>1. 0 \in 0..last OBVIOUS
  <2>2. \A x \in Ids(G) : group[x] <= 0 <=> group[x] = 0 BY <1>10
  <2>3. Right(0) BY <1>2, <1>9, <1>10, <2>1, <2>2
  <2> HIDE DEF Right
  <2>. QED BY <2>1, <2>3
<1>12. ASSUME NEW k \in 0..(last - 1), k \in T PROVE k + 1 \in T
  <2>1. k \in Nat /\ k + 1 \in 1..last /\ k + 1 \in 0..last /\ (k + 1) - 1 = k /\ Right(k) BY <1>12
  <2>2. placed[k + 1] = placed[k] \o these(k + 1) BY <1>9, <2>1
  <2>3. /\ these(k + 1) \in V
        /\ ToSet(these(k + 1)) = {n \in Ids(G) : group[n] = k + 1}
        /\ \A x, y : Ahead(these(k + 1), x, y) <=>
              /\ x \in Ids(G) /\ y \in Ids(G) /\ group[x] = k + 1 /\ group[y] = k + 1 /\ Ahead(G.order, x, y)
    BY <1>2, <2>1
  <2>4. /\ placed[k + 1] \in V
        /\ ToSet(placed[k + 1]) = ToSet(placed[k]) \cup ToSet(these(k + 1))
        /\ \A x, y : Ahead(placed[k + 1], x, y) <=>
              Ahead(placed[k], x, y) \/ Ahead(these(k + 1), x, y) \/ (x \in ToSet(placed[k]) /\ y \in ToSet(these(k + 1)))
    BY <2>1, <2>2, <2>3, ConcatFacts DEF V
  <2>5. \A x \in Ids(G) : group[x] <= k + 1 <=> group[x] <= k \/ group[x] = k + 1 BY <1>10, <2>1
  <2>6. \A x : x \in ToSet(placed[k + 1]) <=> x \in Ids(G) /\ group[x] <= k + 1 BY <2>1, <2>3, <2>4, <2>5
  <2>7. ASSUME NEW x, NEW y
        PROVE  Ahead(placed[k + 1], x, y) <=>
                  /\ x \in Ids(G) /\ y \in Ids(G) /\ group[x] <= k + 1 /\ group[y] <= k + 1 /\ Before(x, y)
    <3>1. CASE x \in Ids(G) /\ y \in Ids(G)
      <4>1. group[x] \in Nat /\ group[y] \in Nat BY <1>10, <3>1
      <4>. QED BY <2>1, <2>3, <2>4, <3>1, <4>1
    <3>2. CASE ~(x \in Ids(G) /\ y \in Ids(G)) BY <2>1, <2>3, <2>4, <3>2
    <3>. QED BY <3>1, <3>2
  <2>8. Right(k + 1) BY <2>4, <2>6, <2>7
  <2> HIDE DEF Right
  <2>. QED BY <2>1, <2>8
<1>13. last \in T
  <2> HIDE DEF T
  <2>1. 0..last \subseteq T BY <1>11, <1>12, UpTo
  <2>. QED BY <2>1
<1>14. Right(last) BY <1>13
<1>15. ToSet(placed[last]) = Ids(G) BY <1>10, <1>14
<1>. QED BY <1>1, <1>10, <1>14, <1>15 DEF V

LEMMA BehindFacts ==
    ASSUME NEW G, WellFormed(G), NEW point \in Ids(G), NEW x \in Ids(G)
    PROVE  LET B == Behind(G, x, point) IN
           /\ \A y \in B : y \in Ids(G) /\ Earlier(G, point, y)
           /\ Earlier(G, point, x) => x \in B
           /\ \A y \in B : \A z \in InputSet(G, y) : Earlier(G, point, z) => z \in B
           /\ \A D : x \in D /\ (\A y \in D \cap Ids(G) : InputSet(G, y) \subseteq D) => B \subseteq D
PROOF
<1> DEFINE next == [z \in Ids(G) |-> {y \in InputSet(G, z) : Earlier(G, point, y)}]
<1> DEFINE S == {x}
<1> DEFINE B == Behind(G, x, point)
<1>1. CASE ~Earlier(G, point, x)
  <2>1. B = {} BY <1>1 DEF Behind
  <2>. QED BY <1>1, <2>1
<1>2. CASE Earlier(G, point, x)
  <2>1. B = Closure(G, next, S) BY <1>2 DEF Behind
  <2>2. IsList(G) /\ next \in [Ids(G) -> SUBSET Ids(G)] BY WellFormedFacts
  <2>3. S \subseteq Ids(G) OBVIOUS
  <2>4. \A z \in Ids(G) : next[z] = {y \in InputSet(G, z) : Earlier(G, point, y)} OBVIOUS
  <2> HIDE DEF next, B
  <2>5. /\ S \subseteq B
        /\ Closed(G, next, B)
        /\ \A D : S \subseteq D /\ (\A y \in D \cap Ids(G) : next[y] \subseteq D) => B \subseteq D
    <3> HIDE DEF S
    <3>. QED BY <2>1, <2>2, <2>3, ClosureFacts
  <2>6. \A y \in B : y \in Ids(G) /\ Earlier(G, point, y)
    <3> DEFINE D == {y \in Ids(G) : Earlier(G, point, y)}
    <3>1. S \subseteq D BY <1>2
    <3>2. \A y \in D \cap Ids(G) : next[y] \subseteq D BY <2>2, <2>4, WellFormedFacts
    <3>3. B \subseteq D
      <4> HIDE DEF D
      <4>. QED BY <2>5, <3>1, <3>2
    <3>. QED BY <3>3
  <2>7. \A y \in B : \A z \in InputSet(G, y) : Earlier(G, point, z) => z \in B BY <2>4, <2>5, <2>6 DEF Closed
  <2>8. ASSUME NEW D, x \in D, \A y \in D \cap Ids(G) : InputSet(G, y) \subseteq D PROVE B \subseteq D
    <3>1. \A y \in D \cap Ids(G) : next[y] \subseteq D BY <2>4, <2>8
    <3>. QED BY <2>5, <2>8, <3>1
  <2>. QED BY <2>5, <2>6, <2>7, <2>8 DEF B
<1>. QED BY <1>1, <1>2

\* A node is moved with one of the inputs.
IsMoved(G, ins, point, y) == \E i \in DOMAIN ins : y \in Behind(G, ins[i], point)

\* Nodes keep their order, unless the second is moved and the first is not; what is moved
\* or lay before point ends up before what stays behind.
LEMMA MoveFacts ==
    ASSUME NEW G, WellFormed(G), NEW point \in Ids(G), NEW ins \in Seq(Ids(G))
    PROVE  LET M == MovedInputs(G, ins, point) IN
           /\ M.order \in Seq(Ids(G)) /\ ToSet(M.order) = Ids(G) /\ Distinct(M.order) /\ M.node = G.node
           /\ \A x, y \in Ids(G) :
                 /\ Ahead(G.order, x, y)
                 /\ \A i \in DOMAIN ins : y \in Behind(G, ins[i], point) =>
                       Earlier(G, x, point) \/ x \in Behind(G, ins[i], point)
                 => Ahead(M.order, x, y)
           /\ \A x, y \in Ids(G) :
                 /\ Earlier(G, x, point) \/ IsMoved(G, ins, point, x)
                 /\ ~Earlier(G, y, point) /\ ~IsMoved(G, ins, point, y)
                 => Ahead(M.order, x, y)
PROOF
<1> DEFINE L == Len(ins)
<1> DEFINE B(i) == Behind(G, ins[i], point)
<1> DEFINE moved == UNION {{i} \X B(i) : i \in DOMAIN ins}
<1> DEFINE Turns(n) == {i \in DOMAIN ins : <<i, n>> \in moved}
<1> DEFINE group == [n \in Ids(G) |-> IF Turns(n) # {} THEN Min(Turns(n)) ELSE IF Earlier(G, n, point) THEN 0 ELSE L + 1]
<1> DEFINE M == MovedInputs(G, ins, point)
<1>0. IsList(G) /\ Distinct(G.order) BY WellFormedFacts
<1>1. L \in Nat /\ DOMAIN ins = 1..L /\ \A i \in DOMAIN ins : ins[i] \in Ids(G) OBVIOUS
<1>2. M = [order |-> Arranged(G, group, L + 1), node |-> G.node] BY DEF MovedInputs, MoveBefore
<1>3. \A i, n : <<i, n>> \in moved <=> i \in DOMAIN ins /\ n \in B(i) OBVIOUS
<1> HIDE DEF B, moved
<1>4. ASSUME NEW n PROVE Turns(n) = {i \in DOMAIN ins : n \in B(i)} BY <1>3
<1>5. ASSUME NEW n, Turns(n) # {} PROVE Min(Turns(n)) \in Turns(n) /\ \A i \in Turns(n) : Min(Turns(n)) <= i
  <2> DEFINE T == Turns(n)
  <2>0. \A i \in T : i \in 1..L BY <1>1, <1>4
  <2>1. T # {} BY <1>5
  <2> HIDE DEF T
  <2>4. T \subseteq Nat BY <1>1, <2>0
  <2>2. \E i \in T : \A j \in T : i <= j BY <2>1, <2>4, LeastOfNumbers
  <2>3. Min(T) \in T /\ \A i \in T : Min(T) <= i BY <2>2 DEF Min
  <2>. QED BY <2>3 DEF T
<1>6. \A n : IsMoved(G, ins, point, n) <=> Turns(n) # {} BY <1>4 DEF IsMoved, B
<1>7. \A n, i : i \in Turns(n) <=> i \in DOMAIN ins /\ n \in B(i) BY <1>4
<1>8. \A n, i : i \in Turns(n) => i \in 1..L BY <1>1
<1> HIDE DEF Turns
<1>9. \A n \in Ids(G) : group[n] = IF Turns(n) # {} THEN Min(Turns(n)) ELSE IF Earlier(G, n, point) THEN 0 ELSE L + 1
  OBVIOUS
<1> HIDE DEF L
<1>10. ASSUME NEW n \in Ids(G) PROVE group[n] \in 0..(L + 1)
  <2>1. CASE Turns(n) # {}
    <3>1. Min(Turns(n)) \in 1..L BY <1>5, <1>8, <2>1
    <3>. QED BY <1>1, <1>9, <2>1, <3>1
  <2>2. CASE Turns(n) = {} BY <1>1, <1>9, <2>2
  <2>. QED BY <2>1, <2>2
<1>11. group \in [Ids(G) -> 0..(L + 1)] BY <1>10
<1> HIDE DEF group
<1>12. L + 1 \in Nat BY <1>1
<1> DEFINE O == Arranged(G, group, L + 1)
<1>13. /\ O \in Seq(Ids(G)) /\ ToSet(O) = Ids(G)
       /\ \A x, y : Ahead(O, x, y) <=>
             /\ x \in Ids(G) /\ y \in Ids(G)
             /\ group[x] < group[y] \/ (group[x] = group[y] /\ Ahead(G.order, x, y))
  <2> DEFINE last == L + 1
  <2>1. last \in Nat /\ group \in [Ids(G) -> 0..last] BY <1>11, <1>12
  <2> HIDE DEF last
  <2>2. /\ Arranged(G, group, last) \in Seq(Ids(G))
        /\ ToSet(Arranged(G, group, last)) = Ids(G)
        /\ \A x, y : Ahead(Arranged(G, group, last), x, y) <=>
              /\ x \in Ids(G) /\ y \in Ids(G)
              /\ group[x] < group[y] \/ (group[x] = group[y] /\ Ahead(G.order, x, y))
    BY <1>0, <2>1, ArrangedFacts
  <2>. QED BY <2>2 DEF last
<1>14. M.order = O /\ M.node = G.node BY <1>2
<1> HIDE DEF M, O
<1>15. \A n \in Ids(G) : group[n] \in Nat BY <1>10, <1>12
<1>16. Distinct(O)
  <2>1. \A x : ~Ahead(O, x, x) BY <1>0, <1>13, <1>15 DEF Distinct
  <2>. QED BY <2>1 DEF Distinct
<1>17. ASSUME NEW n \in Ids(G), Turns(n) # {} PROVE Earlier(G, point, n)
  <2>1. PICK i \in DOMAIN ins : n \in B(i) BY <1>7, <1>17
  <2>2. ins[i] \in Ids(G) BY <1>1
  <2>. QED BY <2>1, <2>2, BehindFacts DEF B
<1>18. \A x, y \in Ids(G) : Earlier(G, x, y) <=> Ahead(G.order, x, y) BY <1>0, EarlierIsAhead
<1>19. ASSUME NEW x \in Ids(G), Earlier(G, x, point) PROVE group[x] = 0
  <2>1. Turns(x) = {}
    <3>1. ~Earlier(G, point, x) BY <1>0, <1>18, <1>19, AheadIsOrder DEF IsList
    <3>. QED BY <1>17, <3>1
  <2>. QED BY <1>9, <1>19, <2>1
<1>20. ASSUME NEW x \in Ids(G), NEW y \in Ids(G), Ahead(G.order, x, y),
             \A i \in DOMAIN ins : y \in B(i) => Earlier(G, x, point) \/ x \in B(i)
       PROVE  Ahead(O, x, y)
  <2>1. group[x] <= group[y]
    <3>1. CASE Turns(y) # {}
      <4>1. Min(Turns(y)) \in Turns(y) /\ group[y] = Min(Turns(y)) BY <1>5, <1>9, <3>1
      <4>2. group[y] \in DOMAIN ins /\ y \in B(group[y]) BY <1>7, <4>1
      <4>3. CASE Earlier(G, x, point) BY <1>15, <1>19, <4>3
      <4>4. CASE x \in B(group[y])
        <5>1. group[y] \in Turns(x) BY <1>7, <4>2, <4>4
        <5>. QED BY <1>5, <1>9, <5>1
      <4>. QED BY <1>20, <4>2, <4>3, <4>4
    <3>2. CASE Turns(y) = {} /\ ~Earlier(G, y, point)
      <4>1. group[y] = L + 1 BY <1>9, <3>2
      <4>. QED BY <1>1, <1>10, <4>1
    <3>3. CASE Earlier(G, y, point)
      <4>1. Earlier(G, x, point) BY <1>0, <1>18, <1>20, <3>3, AheadIsOrder DEF IsList
      <4>. QED BY <1>19, <3>3, <4>1
    <3>. QED BY <3>1, <3>2, <3>3
  <2>. QED BY <1>13, <1>15, <1>20, <2>1
<1>21. ASSUME NEW x \in Ids(G), NEW y \in Ids(G), Earlier(G, x, point) \/ Turns(x) # {},
             ~Earlier(G, y, point), Turns(y) = {}
       PROVE  Ahead(O, x, y)
  <2>1. group[y] = L + 1 BY <1>9, <1>21
  <2>2. group[x] <= L
    <3>1. CASE Earlier(G, x, point) BY <1>1, <1>19, <3>1
    <3>2. CASE Turns(x) # {}
      <4>1. group[x] \in 1..L BY <1>5, <1>8, <1>9, <3>2
      <4>. QED BY <1>1, <4>1
    <3>. QED BY <1>21, <3>1, <3>2
  <2>. QED BY <1>1, <1>13, <1>15, <2>1, <2>2
<1>. QED BY <1>6, <1>13, <1>14, <1>16, <1>20, <1>21 DEF M, B

\* A list put into another one.
LEMMA InsertedFacts ==
    ASSUME NEW V, NEW s \in Seq(V), Distinct(s), NEW at \in DOMAIN s,
           NEW t \in Seq(V), Distinct(t), ToSet(t) \cap ToSet(s) = {}
    PROVE  LET u == SubSeq(s, 1, at - 1) \o t \o SubSeq(s, at, Len(s)) IN
           /\ u \in Seq(V) /\ ToSet(u) = ToSet(s) \cup ToSet(t) /\ Distinct(u)
           /\ \A x, y : Ahead(s, x, y) \/ Ahead(t, x, y) => Ahead(u, x, y)
           /\ \A x, y : Ahead(s, x, s[at]) /\ y \in ToSet(t) => Ahead(u, x, y)
           /\ \A x, y : x \in ToSet(t) /\ (y = s[at] \/ Ahead(s, s[at], y)) => Ahead(u, x, y)
PROOF
<1> DEFINE n == Len(s)
<1> DEFINE a == SubSeq(s, 1, at - 1)
<1> DEFINE b == SubSeq(s, at, n)
<1> DEFINE u == a \o t \o b
<1>1. n \in Nat /\ DOMAIN s = 1..n /\ at \in 1..n /\ \A i \in 1..n : s[i] \in V OBVIOUS
<1>2. a \in Seq(V) /\ DOMAIN a = 1..(at - 1) /\ \A i \in 1..(at - 1) : a[i] = s[i] BY <1>1
<1>3. b \in Seq(V) /\ DOMAIN b = 1..(n - at + 1) /\ \A i \in 1..(n - at + 1) : b[i] = s[at + i - 1] BY <1>1
<1> HIDE DEF a, b, n
<1>4. \A x : x \in ToSet(a) <=> \E i \in 1..(at - 1) : s[i] = x BY <1>2 DEF ToSet
<1>5. \A x : x \in ToSet(b) <=> \E i \in at..n : s[i] = x
  <2>1. \A i \in 1..(n - at + 1) : at + i - 1 \in at..n BY <1>1
  <2>2. \A j \in at..n : j - at + 1 \in 1..(n - at + 1) /\ at + (j - at + 1) - 1 = j BY <1>1
  <2>. QED BY <1>3, <2>1, <2>2 DEF ToSet
<1>6. \A x, y : Ahead(a, x, y) <=> \E i, j \in 1..(at - 1) : i < j /\ s[i] = x /\ s[j] = y BY <1>2 DEF Ahead
<1>7. \A x, y : Ahead(b, x, y) <=> \E i, j \in at..n : i < j /\ s[i] = x /\ s[j] = y
  <2>1. ASSUME NEW x, NEW y, Ahead(b, x, y) PROVE \E i, j \in at..n : i < j /\ s[i] = x /\ s[j] = y
    <3>1. PICK i, j \in 1..(n - at + 1) : i < j /\ b[i] = x /\ b[j] = y BY <1>3, <2>1 DEF Ahead
    <3>2. at + i - 1 \in at..n /\ at + j - 1 \in at..n /\ at + i - 1 < at + j - 1 BY <1>1, <3>1
    <3>. QED BY <1>3, <3>1, <3>2
  <2>2. ASSUME NEW x, NEW y, NEW i \in at..n, NEW j \in at..n, i < j, s[i] = x, s[j] = y PROVE Ahead(b, x, y)
    <3>1. /\ i - at + 1 \in 1..(n - at + 1) /\ j - at + 1 \in 1..(n - at + 1) /\ i - at + 1 < j - at + 1
          /\ at + (i - at + 1) - 1 = i /\ at + (j - at + 1) - 1 = j
      BY <1>1, <2>2
    <3>. QED BY <1>3, <2>2, <3>1 DEF Ahead
  <2>. QED BY <2>1, <2>2
<1>8. /\ a \o t \in Seq(V) /\ ToSet(a \o t) = ToSet(a) \cup ToSet(t)
      /\ \A x, y : Ahead(a \o t, x, y) <=> Ahead(a, x, y) \/ Ahead(t, x, y) \/ (x \in ToSet(a) /\ y \in ToSet(t))
  BY <1>2, ConcatFacts
<1>9. /\ u \in Seq(V) /\ ToSet(u) = ToSet(a) \cup ToSet(t) \cup ToSet(b)
      /\ \A x, y : Ahead(u, x, y) <=>
            Ahead(a \o t, x, y) \/ Ahead(b, x, y) \/ (x \in ToSet(a \o t) /\ y \in ToSet(b))
  <2> DEFINE h == a \o t
  <2>1. h \in Seq(V) /\ ToSet(h) = ToSet(a) \cup ToSet(t) BY <1>8
  <2> HIDE DEF h
  <2>2. /\ h \o b \in Seq(V) /\ ToSet(h \o b) = ToSet(h) \cup ToSet(b)
        /\ \A x, y : Ahead(h \o b, x, y) <=> Ahead(h, x, y) \/ Ahead(b, x, y) \/ (x \in ToSet(h) /\ y \in ToSet(b))
    BY <1>3, <2>1, ConcatFacts
  <2>. QED BY <2>1, <2>2 DEF h
<1> HIDE DEF u
<1>10. \A i \in 1..n : i \in 1..(at - 1) \/ i \in at..n BY <1>1
<1>11. \A i \in 1..(at - 1) : i \in 1..n BY <1>1
<1>12. \A i \in at..n : i \in 1..n BY <1>1
<1>13. \A i \in 1..(at - 1), j \in at..n : i < j BY <1>1
<1>14. ToSet(s) = ToSet(a) \cup ToSet(b)
  <2>1. \A x : x \in ToSet(s) <=> \E i \in 1..n : s[i] = x BY <1>1 DEF ToSet
  <2>. QED BY <1>4, <1>5, <1>10, <1>11, <1>12, <2>1
<1>15. \A x, y : Ahead(s, x, y) <=> Ahead(a, x, y) \/ Ahead(b, x, y) \/ (x \in ToSet(a) /\ y \in ToSet(b))
  <2>1. ASSUME NEW x, NEW y, Ahead(s, x, y)
        PROVE  Ahead(a, x, y) \/ Ahead(b, x, y) \/ (x \in ToSet(a) /\ y \in ToSet(b))
    <3>1. PICK i, j \in 1..n : i < j /\ s[i] = x /\ s[j] = y BY <1>1, <2>1 DEF Ahead
    <3>2. CASE i \in 1..(at - 1) BY <1>4, <1>5, <1>6, <1>10, <3>1, <3>2
    <3>3. CASE i \in at..n
      <4>1. j \in at..n BY <1>1, <3>1, <3>3
      <4>. QED BY <1>7, <3>1, <3>3, <4>1
    <3>. QED BY <1>10, <3>2, <3>3
  <2>0. \A x, y : (\E i, j \in 1..n : i < j /\ s[i] = x /\ s[j] = y) => Ahead(s, x, y) BY <1>1 DEF Ahead
  <2>2. ASSUME NEW x, NEW y, Ahead(a, x, y) \/ Ahead(b, x, y) \/ (x \in ToSet(a) /\ y \in ToSet(b))
        PROVE  Ahead(s, x, y)
    <3>1. CASE Ahead(a, x, y)
      <4>1. PICK i, j \in 1..(at - 1) : i < j /\ s[i] = x /\ s[j] = y BY <1>6, <3>1
      <4>. QED BY <1>11, <2>0, <4>1
    <3>2. CASE Ahead(b, x, y)
      <4>1. PICK i, j \in at..n : i < j /\ s[i] = x /\ s[j] = y BY <1>7, <3>2
      <4>. QED BY <1>12, <2>0, <4>1
    <3>3. CASE x \in ToSet(a) /\ y \in ToSet(b)
      <4>1. PICK i \in 1..(at - 1) : s[i] = x BY <1>4, <3>3
      <4>2. PICK j \in at..n : s[j] = y BY <1>5, <3>3
      <4>. QED BY <1>11, <1>12, <1>13, <2>0, <4>1, <4>2
    <3>. QED BY <2>2, <3>1, <3>2, <3>3
  <2>. QED BY <2>1, <2>2
<1>16. \A x : ~Ahead(s, x, x) /\ ~Ahead(t, x, x) BY DEF Distinct
<1>17. Distinct(u) BY <1>8, <1>9, <1>14, <1>15, <1>16 DEF Distinct
<1>18. s[at] \in ToSet(b) BY <1>1, <1>5
<1>19. \A x : Ahead(s, x, s[at]) => x \in ToSet(a)
  <2> SUFFICES ASSUME NEW x, Ahead(s, x, s[at]) PROVE x \in ToSet(a) OBVIOUS
  <2>1. PICK i, j \in 1..n : i < j /\ s[i] = x /\ s[j] = s[at] BY <1>1 DEF Ahead
  <2>2. j = at BY <1>1, <2>1, DistinctPlaces
  <2>3. i \in 1..(at - 1) BY <1>1, <2>1, <2>2
  <2>. QED BY <1>4, <2>1, <2>3
<1>20. \A y : Ahead(s, s[at], y) => y \in ToSet(b)
  <2> SUFFICES ASSUME NEW y, Ahead(s, s[at], y) PROVE y \in ToSet(b) OBVIOUS
  <2>1. PICK i, j \in 1..n : i < j /\ s[i] = s[at] /\ s[j] = y BY <1>1 DEF Ahead
  <2>2. i = at BY <1>1, <2>1, DistinctPlaces
  <2>3. j \in at..n BY <1>1, <2>1, <2>2
  <2>. QED BY <1>5, <2>1, <2>3
<1>21. u \in Seq(V) /\ ToSet(u) = ToSet(s) \cup ToSet(t) BY <1>9, <1>14
<1>22. \A x, y : Ahead(s, x, y) \/ Ahead(t, x, y) => Ahead(u, x, y) BY <1>8, <1>9, <1>15
<1>23. \A x, y : Ahead(s, x, s[at]) /\ y \in ToSet(t) => Ahead(u, x, y) BY <1>8, <1>9, <1>19
<1>24. \A x, y : x \in ToSet(t) /\ (y = s[at] \/ Ahead(s, s[at], y)) => Ahead(u, x, y)
  BY <1>8, <1>9, <1>18, <1>20
<1>. QED BY <1>17, <1>21, <1>22, <1>23, <1>24 DEF u, a, b, n

\* What the pass replaces and by what: a subgraph as it is found, the values it needs,
\* those it gives, the node that the kernel goes before, and names not used yet.
Replaces(G, K, ins, outs, anchor, names) ==
    /\ GraphOK(G)
    /\ K \subseteq Ids(G) \ ToSet(FreshNames)
    /\ \A n \in K : Op(G, n) \in Registered
    /\ \A n \in K : \A x \in InputSet(G, n) : x \in Desc(G, K) => x \in K
    /\ \A n \in K : Op(G, n) = "getitem" => Args(G, n)[1] \in K
    /\ ins \in Seq(Ids(G)) /\ ToSet(ins) = (UNION {InputSet(G, n) : n \in K}) \ K
    /\ outs \in Seq(Ids(G)) /\ ToSet(outs) = {n \in K : ~(UserSet(G, n) \subseteq K)}
    /\ anchor \in ToSet(outs)
    /\ names \in Seq(ToSet(FreshNames)) /\ Distinct(names) /\ ToSet(names) \cap Ids(G) = {}
    /\ Len(names) = IF Len(outs) = 1 THEN 1 ELSE Len(outs) + 1

Place(G, outs) == First(G, ToSet(outs))
Replaced(G, K, ins, outs, anchor, names) ==
    Erased(WithKernel(MovedInputs(G, ins, Place(G, outs)), ins, outs, anchor, names), K)

\* The nodes of the new graph E: those of G that stay, with their uses of the subgraph
\* turned to the new nodes, the kernel, and getitems of the kernel.
Rewired(G, E, K, ins, names) ==
    /\ Ids(E) = (Ids(G) \ K) \cup ToSet(names)
    /\ E.order \in Seq(Ids(E)) /\ Distinct(E.order)
    /\ \A n \in Ids(G) \ K :
          /\ Op(E, n) = Op(G, n) /\ Shapes(E, n) = Shapes(G, n) /\ E.node[n].attr = G.node[n].attr
          /\ Args(E, n) \in Seq(Ids(E)) /\ Len(Args(E, n)) = Len(Args(G, n))
          /\ \A i \in DOMAIN Args(G, n) :
                IF Args(G, n)[i] \in K THEN Args(E, n)[i] \in ToSet(names) ELSE Args(E, n)[i] = Args(G, n)[i]
    /\ 1 \in DOMAIN names
    /\ \A i \in DOMAIN names :
          /\ IF i = 1 THEN Op(E, names[i]) = "kernel" /\ Args(E, names[i]) = ins
             ELSE Op(E, names[i]) = "getitem" /\ Args(E, names[i]) = <<names[1]>>
          /\ Shapes(E, names[i]) \in {<<>>} \cup {Shapes(G, y) : y \in Ids(G)}

\* Their order: that of the graph M whose inputs have been moved, with the new nodes at
\* the anchor.
Spliced(M, E, K, anchor, names) ==
    \A x, y \in Ids(E) :
       \/ Ahead(M.order, x, y)
       \/ Ahead(names, x, y)
       \/ Ahead(M.order, x, anchor) /\ y \in ToSet(names)
       \/ x \in ToSet(names) /\ Ahead(M.order, anchor, y)
       => Ahead(E.order, x, y)

LEMMA PlaceFacts ==
    ASSUME NEW G, NEW K, NEW ins, NEW outs, NEW anchor, NEW names, Replaces(G, K, ins, outs, anchor, names)
    PROVE  /\ Place(G, outs) \in ToSet(outs) /\ Place(G, outs) \in K /\ Place(G, outs) \in Ids(G)
           /\ anchor \in K /\ anchor \in Ids(G) /\ ToSet(outs) \subseteq Ids(G)
           /\ \A o \in ToSet(outs) : o = Place(G, outs) \/ Ahead(G.order, Place(G, outs), o)
PROOF
<1>1. WellFormed(G) BY DEF Replaces, GraphOK
<1>2. ToSet(outs) \subseteq Ids(G) /\ ToSet(outs) # {} /\ ToSet(outs) \subseteq K /\ anchor \in ToSet(outs)
  BY DEF Replaces
<1>3. IsList(G) /\ Distinct(G.order) BY <1>1, WellFormedFacts
<1> DEFINE S == ToSet(outs)
<1>4. Place(G, outs) = First(G, S) BY DEF Place
<1>5. First(G, S) \in S /\ \A m \in S : ~Earlier(G, m, First(G, S))
  <2>1. S \subseteq Ids(G) /\ S # {} BY <1>2
  <2> HIDE DEF S
  <2>. QED BY <1>3, <2>1, FirstFacts
<1>6. ASSUME NEW o \in ToSet(outs) PROVE o = Place(G, outs) \/ Ahead(G.order, Place(G, outs), o)
  <2>1. o \in Ids(G) /\ Place(G, outs) \in Ids(G) /\ ~Earlier(G, o, Place(G, outs)) BY <1>2, <1>4, <1>5
  <2>2. ~Ahead(G.order, o, Place(G, outs)) BY <1>3, <2>1, EarlierIsAhead
  <2>3. ToSet(G.order) = Ids(G) /\ G.order \in Seq(Ids(G)) BY <1>3 DEF Ids, IsList
  <2>. QED BY <1>3, <2>1, <2>2, <2>3, AheadIsOrder
<1>. QED BY <1>2, <1>4, <1>5, <1>6

LEMMA ReplacedNodes ==
    ASSUME NEW G, NEW K, NEW ins, NEW outs, NEW anchor, NEW names, Replaces(G, K, ins, outs, anchor, names)
    PROVE  LET E == Replaced(G, K, ins, outs, anchor, names)
               M == MovedInputs(G, ins, Place(G, outs))
           IN Rewired(G, E, K, ins, names) /\ Spliced(M, E, K, anchor, names)
PROOF
<1> DEFINE M == MovedInputs(G, ins, Place(G, outs))
<1> DEFINE W == WithKernel(M, ins, outs, anchor, names)
<1> DEFINE E == Replaced(G, K, ins, outs, anchor, names)
<1> DEFINE New == ToSet(names)
<1> DEFINE V == Ids(G) \cup New
<1>1. WellFormed(G) /\ GraphOK(G) BY DEF Replaces, GraphOK
<1>2. M.order \in Seq(Ids(G)) /\ ToSet(M.order) = Ids(G) /\ Distinct(M.order) /\ M.node = G.node
  <2>1. Place(G, outs) \in Ids(G) /\ ins \in Seq(Ids(G)) BY PlaceFacts DEF Replaces
  <2>. QED BY <1>1, <2>1, MoveFacts
<1> HIDE DEF M
<1>3. anchor \in Ids(G) /\ anchor \in K BY PlaceFacts
<1>4. Ids(M) = Ids(G) /\ \A n : Op(M, n) = Op(G, n) /\ Args(M, n) = Args(G, n) /\ Shapes(M, n) = Shapes(G, n)
  BY <1>2 DEF Ids, Op, Args, Shapes
<1> DEFINE at == Pos(M, anchor)
<1>5. at \in DOMAIN M.order /\ M.order[at] = anchor
  <2>1. IsList(M) BY <1>2, <1>4 DEF IsList
  <2>. QED BY <1>2, <1>3, <1>4, <2>1, EarlierIsAhead
<1> DEFINE u == SubSeq(M.order, 1, at - 1) \o names \o SubSeq(M.order, at, Len(M.order))
<1>6. W.order = u BY DEF WithKernel
<1>7. /\ names \in Seq(New) /\ Distinct(names) /\ New \cap Ids(G) = {} /\ Len(names) \in Nat \ {0}
      /\ DOMAIN names = 1..Len(names) /\ New \cap K = {}
      /\ Len(names) = IF Len(outs) = 1 THEN 1 ELSE Len(outs) + 1
  <2>1. names \in Seq(ToSet(FreshNames)) /\ outs \in Seq(Ids(G)) /\ Distinct(names) /\ New \cap Ids(G) = {}
        /\ K \subseteq Ids(G) /\ Len(names) = IF Len(outs) = 1 THEN 1 ELSE Len(outs) + 1
    BY DEF Replaces
  <2>2. names \in Seq(New) BY <2>1 DEF ToSet
  <2>3. Len(names) \in Nat /\ DOMAIN names = 1..Len(names)
    <3> HIDE DEF New
    <3>. QED BY <2>2
  <2>4. Len(outs) \in Nat
    <3>1. outs \in Seq(Ids(G)) BY <2>1
    <3>. QED BY <3>1
  <2>5. Len(names) # 0 BY <2>1, <2>4
  <2>. QED BY <2>1, <2>2, <2>3, <2>5
<1> HIDE DEF at
<1>8. /\ u \in Seq(V) /\ ToSet(u) = V /\ Distinct(u)
      /\ \A x, y : Ahead(M.order, x, y) \/ Ahead(names, x, y) => Ahead(u, x, y)
      /\ \A x, y : Ahead(M.order, x, anchor) /\ y \in New => Ahead(u, x, y)
      /\ \A x, y : x \in New /\ (y = anchor \/ Ahead(M.order, anchor, y)) => Ahead(u, x, y)
  <2> DEFINE s == M.order
  <2>1. s \in Seq(V) /\ names \in Seq(V) /\ Distinct(s) /\ at \in DOMAIN s /\ s[at] = anchor
    BY <1>2, <1>5, <1>7
  <2>2. ToSet(names) \cap ToSet(s) = {} /\ ToSet(s) \cup ToSet(names) = V BY <1>2, <1>7
  <2> DEFINE v == SubSeq(s, 1, at - 1) \o names \o SubSeq(s, at, Len(s))
  <2>3. u = v OBVIOUS
  <2> HIDE DEF V, s
  <2>4. /\ v \in Seq(V) /\ ToSet(v) = ToSet(s) \cup ToSet(names) /\ Distinct(v)
        /\ \A x, y : Ahead(s, x, y) \/ Ahead(names, x, y) => Ahead(v, x, y)
        /\ \A x, y : Ahead(s, x, s[at]) /\ y \in ToSet(names) => Ahead(v, x, y)
        /\ \A x, y : x \in ToSet(names) /\ (y = s[at] \/ Ahead(s, s[at], y)) => Ahead(v, x, y)
    BY <1>7, <2>1, <2>2, InsertedFacts
  <2> HIDE DEF v, u
  <2>. QED BY <2>1, <2>2, <2>3, <2>4 DEF s
<1> HIDE DEF u
<1>9. Ids(W) = V /\ W.order \in Seq(V) /\ IsList(W) BY <1>6, <1>8 DEF Ids, IsList
<1>10. E = Erased(W, K) BY DEF Replaced, M
<1>11. E.order = InGraphOrder(W, V \ K) /\ E.node = [n \in V \ K |-> W.node[n]]
  BY <1>9, <1>10 DEF Erased, Restrict
<1>12. W.node = [n \in New \cup Ids(G) |-> W.node[n]] BY <1>4 DEF WithKernel
<1> HIDE DEF E
<1>13. /\ E.order \in Seq(V) /\ ToSet(E.order) = V \ K
       /\ \A x, y : Ahead(E.order, x, y) <=> x \in V \ K /\ y \in V \ K /\ Ahead(u, x, y)
  <2> DEFINE S == V \ K
  <2>1. S \subseteq V OBVIOUS
  <2>2. E.order = InGraphOrder(W, S) BY <1>11
  <2> HIDE DEF S, W, V
  <2>3. /\ InGraphOrder(W, S) \in Seq(Ids(W))
        /\ ToSet(InGraphOrder(W, S)) = Ids(W) \cap S
        /\ \A x, y : Ahead(InGraphOrder(W, S), x, y) <=> x \in S /\ y \in S /\ Ahead(W.order, x, y)
    BY <1>9, InGraphOrderFacts
  <2>. QED BY <1>6, <1>9, <2>1, <2>2, <2>3 DEF S
<1>14. Ids(E) = V \ K /\ V \ K = (Ids(G) \ K) \cup New BY <1>7, <1>13 DEF Ids
<1>15. E.order \in Seq(Ids(E)) /\ Distinct(E.order)
  <2>1. E.order \in Seq(Ids(E)) BY <1>13 DEF Ids, ToSet
  <2>. QED BY <1>8, <1>13, <2>1 DEF Distinct
<1>16. \A n \in V \ K : /\ Op(E, n) = W.node[n].op /\ Args(E, n) = W.node[n].args
                        /\ Shapes(E, n) = W.node[n].shapes /\ E.node[n].attr = W.node[n].attr
  BY <1>11 DEF Op, Args, Shapes
<1> DEFINE k == names[1]
<1> DEFINE single == Len(outs) = 1
<1> DEFINE Index(S, x) == CHOOSE i \in DOMAIN S : S[i] = x
<1> DEFINE R == [n \in ToSet(outs) |-> IF single THEN k ELSE names[Index(outs, n) + 1]]
<1>17. \A n \in Ids(G) : n \notin New => W.node[n] = Renamed(M, R).node[n] BY <1>4 DEF WithKernel
<1>18. ASSUME NEW i \in DOMAIN names
       PROVE  /\ IF i = 1 THEN Op(E, names[i]) = "kernel" /\ Args(E, names[i]) = ins
                 ELSE Op(E, names[i]) = "getitem" /\ Args(E, names[i]) = <<k>>
              /\ Shapes(E, names[i]) \in {<<>>} \cup {Shapes(G, y) : y \in Ids(G)}
  <2>1. names[i] \in New BY DEF ToSet
  <2>2. names[i] \in V \ K BY <1>7, <2>1
  <2>3. Index(names, names[i]) = i
    <3> DEFINE j == Index(names, names[i])
    <3>1. j \in DOMAIN names /\ names[j] = names[i] OBVIOUS
    <3> HIDE DEF j
    <3>2. j = i BY <1>7, <3>1, DistinctPlaces
    <3>. QED BY <3>2 DEF j
  <2>4. W.node[names[i]] =
          IF Index(names, names[i]) = 1
          THEN [op |-> "kernel", args |-> ins, attr |-> <<>>,
                shapes |-> IF single THEN Shapes(M, outs[1]) ELSE <<>>]
          ELSE [op |-> "getitem", args |-> <<k>>, attr |-> <<Index(names, names[i]) - 2>>,
                shapes |-> Shapes(M, outs[Index(names, names[i]) - 1])]
    BY <2>1 DEF WithKernel
  <2>5. outs \in Seq(Ids(G)) /\ outs # <<>>
    <3>1. outs \in Seq(Ids(G)) /\ anchor \in ToSet(outs) BY DEF Replaces
    <3>2. ToSet(<<>>) = {} BY DEF ToSet
    <3>. QED BY <3>1, <3>2
  <2>6. outs[1] \in Ids(G) BY <2>5
  <2>7. i # 1 => outs[i - 1] \in Ids(G)
    <3>1. i \in 1 .. Len(names) BY <1>7
    <3>2. Len(outs) \in Nat BY <2>5
    <3>3. i # 1 => i - 1 \in 1 .. Len(outs) BY <1>7, <3>1, <3>2
    <3>. QED BY <2>5, <3>3
  <2> HIDE DEF Index, single, k, W
  <2>8. IF i = 1 THEN Op(E, names[i]) = "kernel" /\ Args(E, names[i]) = ins
        ELSE Op(E, names[i]) = "getitem" /\ Args(E, names[i]) = <<k>>
    BY <1>16, <2>2, <2>3, <2>4
  <2>9. Shapes(E, names[i]) = IF i = 1 THEN (IF single THEN Shapes(M, outs[1]) ELSE <<>>) ELSE Shapes(M, outs[i - 1])
    BY <1>16, <2>2, <2>3, <2>4
  <2>. QED BY <1>4, <2>6, <2>7, <2>8, <2>9
<1>19. \A x \in ToSet(outs) : R[x] \in New
  <2> SUFFICES ASSUME NEW x \in ToSet(outs) PROVE R[x] \in New OBVIOUS
  <2> DEFINE j == Index(outs, x)
  <2>1. \E i \in DOMAIN outs : outs[i] = x BY DEF ToSet
  <2>2. j \in DOMAIN outs BY <2>1
  <2> HIDE DEF j
  <2>3. outs \in Seq(Ids(G)) BY DEF Replaces
  <2>4. j \in 1..Len(outs) BY <2>2, <2>3
  <2>5. ~single => j + 1 \in DOMAIN names BY <1>7, <2>4
  <2>6. 1 \in DOMAIN names BY <1>7
  <2>7. R[x] = IF single THEN k ELSE names[j + 1] BY DEF j
  <2> HIDE DEF R
  <2>. QED BY <2>5, <2>6, <2>7 DEF ToSet
<1>20. DOMAIN R = ToSet(outs) OBVIOUS
<1> HIDE DEF R, W
<1>21. ASSUME NEW n \in Ids(G) \ K
       PROVE  /\ Op(E, n) = Op(G, n) /\ Shapes(E, n) = Shapes(G, n) /\ E.node[n].attr = G.node[n].attr
              /\ Args(E, n) \in Seq(Ids(E)) /\ Len(Args(E, n)) = Len(Args(G, n))
              /\ \A i \in DOMAIN Args(G, n) :
                    IF Args(G, n)[i] \in K THEN Args(E, n)[i] \in New ELSE Args(E, n)[i] = Args(G, n)[i]
  <2> DEFINE Name(x) == IF x \in DOMAIN R THEN R[x] ELSE x
  <2>1. n \in V \ K /\ n \notin New BY <1>7
  <2>2. W.node[n] = Renamed(M, R).node[n] BY <1>17, <2>1
  <2>3. /\ Renamed(M, R).node[n].op = Op(G, n)
        /\ Renamed(M, R).node[n].args = [i \in DOMAIN Args(G, n) |-> Name(Args(G, n)[i])]
        /\ Renamed(M, R).node[n].shapes = Shapes(G, n)
        /\ Renamed(M, R).node[n].attr = G.node[n].attr
    BY <1>2, <1>4 DEF Renamed
  <2>4. /\ Op(E, n) = Op(G, n) /\ Args(E, n) = [i \in DOMAIN Args(G, n) |-> Name(Args(G, n)[i])]
        /\ Shapes(E, n) = Shapes(G, n) /\ E.node[n].attr = G.node[n].attr
    BY <1>16, <2>1, <2>2, <2>3
  <2>5. Args(G, n) \in Seq(Ids(G)) /\ DOMAIN Args(G, n) = 1..Len(Args(G, n)) /\ Len(Args(G, n)) \in Nat
    BY <1>1, WellFormedFacts
  <2>6. ASSUME NEW i \in DOMAIN Args(G, n)
        PROVE  /\ Name(Args(G, n)[i]) \in Ids(E)
               /\ IF Args(G, n)[i] \in K THEN Name(Args(G, n)[i]) \in New ELSE Name(Args(G, n)[i]) = Args(G, n)[i]
    <3> DEFINE a == Args(G, n)[i]
    <3>1. a \in Ids(G) BY <2>5
    <3>2. n \in UserSet(G, a) BY DEF UserSet, InputSet, ToSet
    <3>3. ToSet(outs) = {m \in K : ~(UserSet(G, m) \subseteq K)} BY DEF Replaces
    <3>4. a \in ToSet(outs) <=> a \in K BY <3>2, <3>3
    <3> HIDE DEF a
    <3>5. IF a \in K THEN Name(a) \in New ELSE Name(a) = a BY <1>19, <1>20, <3>4
    <3>6. Name(a) \in Ids(E) BY <1>14, <3>1, <3>5
    <3>. QED BY <3>5, <3>6 DEF a
  <2> HIDE DEF Name
  <2>. QED BY <2>4, <2>5, <2>6
<1>22. \A x, y \in Ids(E) :
          \/ Ahead(M.order, x, y)
          \/ Ahead(names, x, y)
          \/ Ahead(M.order, x, anchor) /\ y \in New
          \/ x \in New /\ Ahead(M.order, anchor, y)
          => Ahead(E.order, x, y)
  BY <1>8, <1>13, <1>14
<1>23. Spliced(M, E, K, anchor, names) BY <1>22 DEF Spliced
<1>24. 1 \in DOMAIN names BY <1>7
<1>25. Rewired(G, E, K, ins, names) BY <1>14, <1>15, <1>18, <1>21, <1>24 DEF Rewired
<1>. QED BY <1>23, <1>25 DEF M, E

\* Operands in the new graph: a node that stays reads what it has read, or a new node in
\* place of a member of the subgraph; the kernel reads the values the subgraph needs.
LEMMA RewiredInputs ==
    ASSUME NEW G, NEW E, NEW K, NEW ins, NEW outs, NEW anchor, NEW names,
           Replaces(G, K, ins, outs, anchor, names), Rewired(G, E, K, ins, names)
    PROVE  /\ \A n \in Ids(G) \ K : \A x \in InputSet(E, n) :
                 \/ x \in InputSet(G, n) \ K
                 \/ x \in ToSet(names) /\ \E a \in InputSet(G, n) : a \in K
           /\ \A x \in ToSet(names) : x \notin Ids(G) /\ x \notin K /\ x \in Ids(E) /\ Op(E, x) \in {"kernel", "getitem"}
           /\ names[1] \in ToSet(names)
           /\ Op(E, names[1]) = "kernel" /\ Args(E, names[1]) = ins
           /\ InputSet(E, names[1]) = (UNION {InputSet(G, n) : n \in K}) \ K
           /\ \A x \in ToSet(names) \ {names[1]} :
                 /\ Op(E, x) = "getitem" /\ Args(E, x) = <<names[1]>> /\ InputSet(E, x) = {names[1]}
                 /\ Ahead(names, names[1], x)
PROOF
<1>1. WellFormed(G) BY DEF Replaces, GraphOK
<1>2. ASSUME NEW n \in Ids(G) \ K, NEW x \in InputSet(E, n)
      PROVE  x \in InputSet(G, n) \ K \/ (x \in ToSet(names) /\ \E a \in InputSet(G, n) : a \in K)
  <2>1. /\ Args(E, n) \in Seq(Ids(E)) /\ Len(Args(E, n)) = Len(Args(G, n))
        /\ \A i \in DOMAIN Args(G, n) :
              IF Args(G, n)[i] \in K THEN Args(E, n)[i] \in ToSet(names) ELSE Args(E, n)[i] = Args(G, n)[i]
    BY DEF Rewired
  <2>2. PICK i \in DOMAIN Args(E, n) : x = Args(E, n)[i] BY DEF InputSet, ToSet
  <2>3. Args(G, n) \in Seq(Ids(G)) BY <1>1, WellFormedFacts
  <2>4. i \in DOMAIN Args(G, n) BY <2>1, <2>2, <2>3
  <2>5. Args(G, n)[i] \in InputSet(G, n) BY <2>4 DEF InputSet, ToSet
  <2>. QED BY <2>1, <2>2, <2>4, <2>5
<1>3. ToSet(names) \cap Ids(G) = {} /\ K \subseteq Ids(G) /\ ToSet(names) \subseteq Ids(E)
  BY DEF Replaces, Rewired
<1>4. \A i \in DOMAIN names :
         IF i = 1 THEN Op(E, names[i]) = "kernel" /\ Args(E, names[i]) = ins
         ELSE Op(E, names[i]) = "getitem" /\ Args(E, names[i]) = <<names[1]>>
  BY DEF Rewired
<1>5. 1 \in DOMAIN names /\ names[1] \in ToSet(names) BY DEF Rewired, ToSet
<1>6. \A x \in ToSet(names) : Op(E, x) \in {"kernel", "getitem"} BY <1>4 DEF ToSet
<1>7. Op(E, names[1]) = "kernel" /\ Args(E, names[1]) = ins BY <1>4, <1>5
<1>8. InputSet(E, names[1]) = (UNION {InputSet(G, n) : n \in K}) \ K BY <1>7 DEF InputSet, Replaces
<1>9. ASSUME NEW x \in ToSet(names) \ {names[1]}
      PROVE  /\ Op(E, x) = "getitem" /\ Args(E, x) = <<names[1]>> /\ InputSet(E, x) = {names[1]}
             /\ Ahead(names, names[1], x)
  <2>1. PICK i \in DOMAIN names : x = names[i] BY DEF ToSet
  <2>2. i # 1 BY <2>1
  <2>3. Op(E, x) = "getitem" /\ Args(E, x) = <<names[1]>> BY <1>4, <2>1, <2>2
  <2>4. ToSet(<<names[1]>>) = {names[1]} BY DEF ToSet
  <2>5. names \in Seq(ToSet(FreshNames)) BY DEF Replaces
  <2>6. 1 < i BY <2>1, <2>2, <2>5
  <2>7. Ahead(names, names[1], x) BY <1>5, <2>1, <2>6 DEF Ahead
  <2>. QED BY <2>3, <2>4, <2>7 DEF InputSet
<1>. QED BY <1>2, <1>3, <1>5, <1>6, <1>7, <1>8, <1>9

LEMMA RewiredIsWellFormed ==
    ASSUME NEW G, NEW E, NEW K, NEW ins, NEW outs, NEW anchor, NEW names,
           Replaces(G, K, ins, outs, anchor, names), Rewired(G, E, K, ins, names)
    PROVE  WellFormed(E) /\ CreatedOps(E)
PROOF
<1>1. WellFormed(G) /\ CreatedOps(G) BY DEF Replaces, GraphOK
<1>2. Ids(E) = (Ids(G) \ K) \cup ToSet(names) /\ E.order \in Seq(Ids(E)) /\ Distinct(E.order) BY DEF Rewired
<1>3. \A n \in Ids(G) \ K : Op(E, n) = Op(G, n) /\ Args(E, n) \in Seq(Ids(E)) /\ Len(Args(E, n)) = Len(Args(G, n))
  BY DEF Rewired
<1>4. /\ \A n \in Ids(G) \ K : \A x \in InputSet(E, n) :
            \/ x \in InputSet(G, n) \ K
            \/ x \in ToSet(names) /\ \E a \in InputSet(G, n) : a \in K
      /\ \A x \in ToSet(names) : x \notin Ids(G) /\ x \notin K /\ x \in Ids(E) /\ Op(E, x) \in {"kernel", "getitem"}
      /\ names[1] \in ToSet(names)
      /\ Op(E, names[1]) = "kernel" /\ Args(E, names[1]) = ins
      /\ InputSet(E, names[1]) = (UNION {InputSet(G, n) : n \in K}) \ K
      /\ \A x \in ToSet(names) \ {names[1]} :
            Op(E, x) = "getitem" /\ Args(E, x) = <<names[1]>> /\ InputSet(E, x) = {names[1]}
  BY RewiredInputs
<1>5. IsInjective(E.order)
  <2>1. \A i, j \in DOMAIN E.order : E.order[i] = E.order[j] => i = j BY <1>2, DistinctPlaces
  <2>. QED BY <2>1 DEF IsInjective
<1>6. ASSUME NEW n \in Ids(E) PROVE Args(E, n) \in Seq(Ids(E))
  <2>1. CASE n \in Ids(G) \ K BY <1>3, <2>1
  <2>2. CASE n = names[1]
    <3>1. ins \in Seq(Ids(G)) /\ ToSet(ins) = (UNION {InputSet(G, m) : m \in K}) \ K BY DEF Replaces
    <3>2. ToSet(ins) \subseteq Ids(E)
      <4>1. \A i \in DOMAIN ins : ins[i] \in Ids(G) BY <3>1
      <4>2. ToSet(ins) \subseteq Ids(G) BY <4>1 DEF ToSet
      <4>. QED BY <1>2, <3>1, <4>2
    <3>3. \A i \in DOMAIN ins : ins[i] \in Ids(E) BY <3>2 DEF ToSet
    <3>4. ins \in Seq(Ids(E)) BY <3>1, <3>3
    <3>. QED BY <1>4, <2>2, <3>4
  <2>3. CASE n \in ToSet(names) \ {names[1]}
    <3>1. Args(E, n) = <<names[1]>> /\ names[1] \in Ids(E) BY <1>4, <2>3
    <3>. QED BY <3>1
  <2>. QED BY <1>2, <2>1, <2>2, <2>3
<1>7. ASSUME NEW n \in Ids(E), Op(E, n) = "getitem" PROVE Len(Args(E, n)) = 1
  <2>1. CASE n \in Ids(G) \ K BY <1>1, <1>3, <1>7, <2>1 DEF WellFormed
  <2>2. CASE n \in ToSet(names) \ {names[1]} BY <1>4, <2>2
  <2>. QED BY <1>2, <1>4, <1>7, <2>1, <2>2
<1>8. "kernel" \notin MultiOutput /\ "getitem" \notin MultiOutput /\ "kernel" \notin Registered
  BY DEF MultiOutput, Registered
<1>9. \A n \in Ids(G) : \A x \in InputSet(G, n) :
         x \in Ids(G) /\ Op(G, x) # "output" /\ (Op(G, x) \in MultiOutput => Op(G, n) = "getitem")
  BY <1>1, WellFormedFacts DEF WellFormed
<1>10. K \subseteq Ids(G) /\ (\A n \in K : Op(G, n) = "getitem" => Args(G, n)[1] \in K)
       /\ (\A n \in K : Op(G, n) \in Registered)
  BY DEF Replaces
<1>11. ASSUME NEW n \in Ids(E), NEW x \in InputSet(E, n)
       PROVE  Op(E, x) # "output" /\ (Op(E, x) \in MultiOutput => Op(E, n) = "getitem")
  <2>1. CASE x \in ToSet(names) BY <1>4, <1>8, <2>1
  <2>2. CASE x \notin ToSet(names) /\ n \in Ids(G) \ K
    <3>1. x \in InputSet(G, n) \ K BY <1>4, <2>2
    <3>. QED BY <1>3, <1>9, <2>2, <3>1
  <2>3. CASE n = names[1]
    <3>1. PICK m \in K : x \in InputSet(G, m) \ K BY <1>4, <2>3
    <3>2. m \in Ids(G) /\ x \in Ids(G) \ K /\ Op(E, x) = Op(G, x) BY <1>3, <1>9, <1>10, <3>1
    <3>3. ASSUME Op(G, x) \in MultiOutput PROVE FALSE
      <4>1. Op(G, m) = "getitem" BY <1>9, <3>1, <3>2, <3>3
      <4>2. InputSet(G, m) = {Args(G, m)[1]} BY <1>1, <3>2, <4>1, WellFormedFacts
      <4>. QED BY <1>10, <3>1, <4>1, <4>2
    <3>. QED BY <1>9, <3>1, <3>2, <3>3
  <2>. QED BY <1>2, <1>4, <2>1, <2>2, <2>3
<1>12. \A n \in Ids(G) \ K : Shapes(E, n) = Shapes(G, n) /\ E.node[n].attr = G.node[n].attr BY DEF Rewired
<1>13. ASSUME NEW n \in Ids(E), NEW x \in InputSet(E, n), Op(E, x) \in MultiOutput
       PROVE  E.node[n].attr[1] + 1 \in DOMAIN Shapes(E, x)
  <2>1. Op(E, n) = "getitem" /\ x \notin ToSet(names) BY <1>4, <1>8, <1>11, <1>13
  <2>2. n \in Ids(G) \ K
    <3>1. CASE n \in ToSet(names)
      <4>1. InputSet(E, n) = {names[1]} BY <1>4, <2>1, <3>1
      <4>. QED BY <1>4, <2>1, <4>1
    <3>. QED BY <1>2, <3>1
  <2>3. x \in InputSet(G, n) \ K BY <1>4, <2>1, <2>2
  <2>4. x \in Ids(G) \ K BY <1>9, <2>2, <2>3
  <2>5. Op(G, x) \in MultiOutput BY <1>3, <1>13, <2>4
  <2>6. G.node[n].attr[1] + 1 \in DOMAIN Shapes(G, x) BY <1>1, <2>2, <2>3, <2>5 DEF WellFormed
  <2>. QED BY <1>12, <2>2, <2>4, <2>6
<1>14. ASSUME NEW n \in Ids(E)
       PROVE  /\ Shapes(E, n) \in Seq(Seq(Int)) /\ Len(Shapes(E, n)) <= MaxOutputs
              /\ Op(E, n) \in Registered \ (MultiOutput \cup {"getitem"}) => Shapes(E, n) # <<>>
  <2>1. \A y \in Ids(G) :
           /\ Shapes(G, y) \in Seq(Seq(Int)) /\ Len(Shapes(G, y)) <= MaxOutputs
           /\ Op(G, y) \in Registered \ (MultiOutput \cup {"getitem"}) => Shapes(G, y) # <<>>
    BY <1>1 DEF WellFormed
  <2>2. CASE n \in Ids(G) \ K BY <1>3, <1>12, <2>1, <2>2
  <2>3. CASE n \in ToSet(names)
    <3>1. Op(E, n) \notin Registered \ (MultiOutput \cup {"getitem"}) BY <1>4, <1>8, <2>3
    <3>2. Shapes(E, n) \in {<<>>} \cup {Shapes(G, y) : y \in Ids(G)} BY <2>3 DEF Rewired, ToSet
    <3>3. <<>> \in Seq(Seq(Int)) /\ Len(<<>>) <= MaxOutputs BY SlotsAssumption
    <3>. QED BY <2>1, <3>1, <3>2, <3>3
  <2>. QED BY <1>2, <2>2, <2>3
<1>15. WellFormed(E) BY <1>2, <1>5, <1>6, <1>7, <1>11, <1>13, <1>14 DEF WellFormed
<1>16. ASSUME NEW n \in Ids(E) \cap ToSet(FreshNames)
       PROVE  Op(E, n) = "kernel" \/ (Op(E, n) = "getitem" /\ Op(E, Args(E, n)[1]) = "kernel")
  <2>1. CASE n \in ToSet(names) BY <1>4, <2>1
  <2>2. CASE n \in Ids(G) \ K
    <3>1. Op(G, n) = "kernel" \/ (Op(G, n) = "getitem" /\ Op(G, Args(G, n)[1]) = "kernel") BY <1>1, <2>2 DEF CreatedOps
    <3>2. CASE Op(G, n) = "kernel" BY <1>3, <2>2, <3>2
    <3>3. CASE Op(G, n) = "getitem" /\ Op(G, Args(G, n)[1]) = "kernel"
      <4> DEFINE p == Args(G, n)[1]
      <4>1. p \in Ids(G) \ K BY <1>1, <1>8, <1>10, <2>2, <3>3, WellFormedFacts
      <4>2. Op(E, p) = "kernel" BY <1>3, <3>3, <4>1
      <4>3. Args(G, n) \in Seq(Ids(G)) /\ Len(Args(G, n)) = 1 BY <1>1, <2>2, <3>3 DEF WellFormed
      <4>4. 1 \in DOMAIN Args(G, n) BY <4>3
      <4>5. Args(E, n)[1] = p BY <2>2, <4>1, <4>4 DEF Rewired
      <4>. QED BY <1>3, <2>2, <3>3, <4>2, <4>5
    <3>. QED BY <3>1, <3>2, <3>3
  <2>. QED BY <1>2, <2>1, <2>2
<1>17. CreatedOps(E) BY <1>16 DEF CreatedOps
<1>. QED BY <1>15, <1>17

\* What is behind point, needed for y and itself needs s, is moved with y.
LEMMA BehindBack ==
    ASSUME NEW G, WellFormed(G), Downstream(G), NEW point \in Ids(G), NEW x \in Ids(G),
           NEW s \in Ids(G) \ ToSet(FreshNames), Ahead(G.order, point, s),
           NEW y \in Behind(G, x, point), y \in Desc(G, {s})
    PROVE  s \in Behind(G, x, point)
PROOF
<1> SUFFICES ASSUME s \notin Behind(G, x, point) PROVE FALSE OBVIOUS
<1> DEFINE B == Behind(G, x, point)
<1> DEFINE S == {s}
<1> DEFINE D == Desc(G, S) \ B
<1>1. S \subseteq Ids(G) OBVIOUS
<1>2. /\ S \subseteq Desc(G, S) /\ Desc(G, S) \subseteq Ids(G)
      /\ \A z \in Desc(G, S) : UserSet(G, z) \subseteq Desc(G, S)
      /\ \A C : S \subseteq C /\ (\A z \in C \cap Ids(G) : UserSet(G, z) \subseteq C) => Desc(G, S) \subseteq C
  <2> HIDE DEF S
  <2>. QED BY <1>1, DescFacts
<1>3. \A z \in B : \A w \in InputSet(G, z) : Earlier(G, point, w) => w \in B BY BehindFacts
<1>4. IsList(G) /\ Distinct(G.order) BY WellFormedFacts
<1>5. ASSUME NEW z \in D, NEW u \in UserSet(G, z) PROVE u \in D
  <2>1. z \in Ids(G) /\ u \in Ids(G) /\ u \in Desc(G, S) /\ z \in InputSet(G, u) BY <1>2, WellFormedFacts
  <2>2. z = s \/ Ahead(G.order, s, z)
    <3>1. z \in S \/ \E t \in S : z \in Desc(G, UserSet(G, t))
      <4> HIDE DEF S
      <4>. QED BY <1>1, DescSplit
    <3>. QED BY <3>1 DEF Downstream
  <2>3. Ahead(G.order, point, z) BY <1>4, <2>2, AheadIsOrder DEF IsList
  <2>4. Earlier(G, point, z) BY <1>4, <2>1, <2>3, EarlierIsAhead
  <2>5. u \notin B BY <1>3, <2>1, <2>4
  <2>. QED BY <2>1, <2>5
<1>6. S \subseteq D BY <1>2
<1> HIDE DEF S, B
<1>7. Desc(G, S) \subseteq D
  <2> HIDE DEF D
  <2>1. \A z \in D \cap Ids(G) : UserSet(G, z) \subseteq D BY <1>5
  <2>. QED BY <1>2, <1>6, <2>1
<1>. QED BY <1>7 DEF S, B

\* What is computed from the subgraph is not moved.
LEMMA NotMoved ==
    ASSUME NEW G, NEW K, NEW ins, NEW outs, NEW anchor, NEW names, Replaces(G, K, ins, outs, anchor, names),
           NEW y \in Desc(G, K)
    PROVE  ~IsMoved(G, ins, Place(G, outs), y)
PROOF
<1> SUFFICES ASSUME NEW i \in DOMAIN ins, y \in Behind(G, ins[i], Place(G, outs)) PROVE FALSE BY DEF IsMoved
<1>1. WellFormed(G) /\ K \subseteq Ids(G) /\ ins \in Seq(Ids(G)) /\ Place(G, outs) \in Ids(G)
  BY PlaceFacts DEF Replaces, GraphOK
<1> DEFINE x == ins[i]
<1> DEFINE D == Ids(G) \ Desc(G, K)
<1>2. x \in Ids(G) /\ x \in ToSet(ins) BY <1>1 DEF ToSet
<1>3. PICK n \in K : x \in InputSet(G, n) /\ x \notin K BY <1>2 DEF Replaces
<1>4. x \notin Desc(G, K) BY <1>3 DEF Replaces
<1>5. \A z \in Desc(G, K) : UserSet(G, z) \subseteq Desc(G, K) BY <1>1, DescFacts
<1>6. ASSUME NEW z \in D, NEW w \in InputSet(G, z) PROVE w \in D
  <2>1. w \in Ids(G) /\ z \in UserSet(G, w) BY <1>1, WellFormedFacts
  <2>. QED BY <1>5, <2>1
<1>7. x \in D BY <1>2, <1>4
<1> HIDE DEF x
<1>8. Behind(G, x, Place(G, outs)) \subseteq D
  <2>1. \A z \in D \cap Ids(G) : InputSet(G, z) \subseteq D BY <1>6
  <2> HIDE DEF D
  <2>. QED BY <1>1, <1>2, <1>7, <2>1, BehindFacts
<1>. QED BY <1>8 DEF x

\* Outside the subgraph, what is computed from it is computed from one of its outputs.
LEMMA OutputsLead ==
    ASSUME NEW G, NEW K, NEW ins, NEW outs, NEW anchor, NEW names, Replaces(G, K, ins, outs, anchor, names),
           NEW y \in Desc(G, K) \ K
    PROVE  Ahead(G.order, Place(G, outs), y)
PROOF
<1>1. WellFormed(G) /\ K \subseteq Ids(G) \ ToSet(FreshNames) /\ Downstream(G)
      /\ ToSet(outs) = {n \in K : ~(UserSet(G, n) \subseteq K)}
  BY DEF Replaces, GraphOK
<1> DEFINE D == K \cup {z \in Ids(G) : \E o \in ToSet(outs) : z \in Desc(G, UserSet(G, o))}
<1>2. ASSUME NEW z \in D, NEW u \in UserSet(G, z) PROVE u \in D
  <2>1. u \in Ids(G) /\ UserSet(G, z) \subseteq Ids(G) BY <1>1, WellFormedFacts
  <2>2. CASE z \in K /\ u \notin K
    <3>1. z \in ToSet(outs) BY <1>1, <2>2
    <3>2. u \in Desc(G, UserSet(G, z)) BY <1>1, <2>1, DescFacts
    <3>. QED BY <2>1, <3>1, <3>2
  <2>3. CASE z \notin K
    <3>1. PICK o \in ToSet(outs) : z \in Desc(G, UserSet(G, o)) BY <2>3
    <3>2. UserSet(G, o) \subseteq Ids(G) BY <1>1, WellFormedFacts
    <3>3. u \in Desc(G, UserSet(G, o)) BY <1>1, <3>1, <3>2, DescFacts
    <3>. QED BY <2>1, <3>3
  <2>. QED BY <2>2, <2>3
<1>3. Desc(G, K) \subseteq D
  <2>1. K \subseteq D /\ \A z \in D \cap Ids(G) : UserSet(G, z) \subseteq D BY <1>2
  <2> HIDE DEF D
  <2>. QED BY <1>1, <2>1, DescFacts
<1>4. PICK o \in ToSet(outs) : y \in Desc(G, UserSet(G, o)) BY <1>3
<1>5. o \in Ids(G) \ ToSet(FreshNames) BY <1>1
<1>6. Ahead(G.order, o, y) BY <1>1, <1>4, <1>5 DEF Downstream
<1>7. o = Place(G, outs) \/ Ahead(G.order, Place(G, outs), o) BY PlaceFacts
<1>8. G.order \in Seq(Ids(G)) /\ Distinct(G.order) BY <1>1, WellFormedFacts DEF IsList
<1>. QED BY <1>6, <1>7, <1>8, AheadIsOrder

\* What leads to the subgraph lies before the kernel, or is moved before it.
LEMMA FeedersAreMoved ==
    ASSUME NEW G, NEW K, NEW ins, NEW outs, NEW anchor, NEW names, Replaces(G, K, ins, outs, anchor, names),
           NEW s \in (Ids(G) \ K) \ ToSet(FreshNames), NEW t \in K, t \in Desc(G, UserSet(G, s))
    PROVE  Earlier(G, s, Place(G, outs)) \/ IsMoved(G, ins, Place(G, outs), s)
PROOF
<1> DEFINE p == Place(G, outs)
<1> DEFINE S == {s}
<1>1. /\ WellFormed(G) /\ Downstream(G) /\ ins \in Seq(Ids(G)) /\ K \subseteq Ids(G)
      /\ ToSet(ins) = (UNION {InputSet(G, n) : n \in K}) \ K
  BY DEF Replaces, GraphOK
<1>2. p \in K /\ p \in Ids(G) BY PlaceFacts
<1>3. IsList(G) /\ Distinct(G.order) /\ ToSet(G.order) = Ids(G) BY <1>1, WellFormedFacts DEF Ids
<1> SUFFICES ASSUME ~Earlier(G, s, p) PROVE IsMoved(G, ins, p, s) OBVIOUS
<1>4. Ahead(G.order, p, s)
  <2>1. ~Ahead(G.order, s, p) BY <1>2, <1>3, EarlierIsAhead
  <2>2. s # p BY <1>2
  <2>. QED BY <1>2, <1>3, <2>1, <2>2, AheadIsOrder DEF IsList
<1>5. S \subseteq Ids(G) OBVIOUS
<1>6. /\ S \subseteq Desc(G, S) /\ Desc(G, S) \subseteq Ids(G)
      /\ \A z \in Desc(G, S) : UserSet(G, z) \subseteq Desc(G, S)
      /\ \A C : S \subseteq C /\ (\A z \in C \cap Ids(G) : UserSet(G, z) \subseteq C) => Desc(G, S) \subseteq C
      /\ \A z \in Desc(G, S) : z \in S \/ \E w \in S : z \in Desc(G, UserSet(G, w))
      /\ \A w \in S : Desc(G, UserSet(G, w)) \subseteq Desc(G, S)
  <2> HIDE DEF S
  <2>. QED BY <1>1, <1>5, DescFacts, DescSplit
<1>7. t \in Desc(G, S) BY <1>6
<1>8. \E x \in ToSet(ins) : x \in Desc(G, S)
  <2> SUFFICES ASSUME \A x \in ToSet(ins) : x \notin Desc(G, S) PROVE FALSE OBVIOUS
  <2> DEFINE D == Desc(G, S) \ K
  <2>1. ASSUME NEW z \in D, NEW u \in UserSet(G, z) PROVE u \in D
    <3>1. z \in Ids(G) /\ u \in Ids(G) /\ z \in InputSet(G, u) BY <1>1, <1>6, <2>1, WellFormedFacts
    <3>2. u \in K => z \in ToSet(ins) BY <1>1, <2>1, <3>1
    <3>. QED BY <1>6, <2>1, <3>2
  <2>2. S \subseteq D BY <1>6
  <2> HIDE DEF S
  <2>3. Desc(G, S) \subseteq D
    <3>1. \A z \in D \cap Ids(G) : UserSet(G, z) \subseteq D BY <2>1
    <3> HIDE DEF D
    <3>. QED BY <1>6, <2>2, <3>1
  <2>. QED BY <1>7, <2>3
<1>9. PICK x \in ToSet(ins) : x \in Desc(G, S) BY <1>8
<1>10. PICK i \in DOMAIN ins : x = ins[i] BY DEF ToSet
<1>11. x \in Ids(G) BY <1>6, <1>9
<1>12. x = s \/ Ahead(G.order, s, x) BY <1>1, <1>6, <1>9 DEF Downstream
<1>13. Ahead(G.order, p, x)
  <2>1. CASE x = s BY <1>4, <2>1
  <2>2. CASE Ahead(G.order, s, x) BY <1>3, <1>4, <2>2, AheadIsOrder DEF IsList
  <2>. QED BY <1>12, <2>1, <2>2
<1>14. Earlier(G, p, x) BY <1>2, <1>3, <1>11, <1>13, EarlierIsAhead
<1>15. x \in Behind(G, x, p) BY <1>1, <1>2, <1>11, <1>14, BehindFacts
<1>16. s \in Behind(G, x, p)
  <2> HIDE DEF p
  <2>. QED BY <1>1, <1>2, <1>4, <1>9, <1>11, <1>15, BehindBack DEF S
<1>. QED BY <1>10, <1>16 DEF IsMoved

\* Where the rest goes: what feeds the subgraph comes before the kernel, which comes
\* before what is computed from the subgraph.
LEMMA MovedOrder ==
    ASSUME NEW G, NEW K, NEW ins, NEW outs, NEW anchor, NEW names, Replaces(G, K, ins, outs, anchor, names)
    PROVE  LET M == MovedInputs(G, ins, Place(G, outs)) IN
           /\ \A s \in Ids(G) : Earlier(G, s, Place(G, outs)) \/ IsMoved(G, ins, Place(G, outs), s) =>
                 \A y \in (Desc(G, K) \ K) \cup ToSet(outs) : Ahead(M.order, s, y)
           /\ \A y \in Desc(G, K) \ K : Ahead(M.order, Place(G, outs), y)
PROOF
<1> DEFINE p == Place(G, outs)
<1> DEFINE M == MovedInputs(G, ins, p)
<1>1. /\ WellFormed(G) /\ ins \in Seq(Ids(G)) /\ K \subseteq Ids(G) /\ ToSet(outs) \subseteq K
      /\ p \in Ids(G) /\ p \in K /\ IsList(G) /\ Distinct(G.order)
      /\ \A o \in ToSet(outs) : o = p \/ Ahead(G.order, p, o)
  BY PlaceFacts, WellFormedFacts DEF Replaces, GraphOK
<1>2. K \subseteq Desc(G, K) /\ Desc(G, K) \subseteq Ids(G) BY <1>1, DescFacts
<1>3. /\ \A x, y \in Ids(G) :
            /\ Ahead(G.order, x, y)
            /\ \A i \in DOMAIN ins : y \in Behind(G, ins[i], p) =>
                  Earlier(G, x, p) \/ x \in Behind(G, ins[i], p)
            => Ahead(M.order, x, y)
      /\ \A x, y \in Ids(G) :
            /\ Earlier(G, x, p) \/ IsMoved(G, ins, p, x)
            /\ ~Earlier(G, y, p) /\ ~IsMoved(G, ins, p, y)
            => Ahead(M.order, x, y)
  <2> HIDE DEF p
  <2>. QED BY <1>1, MoveFacts
<1> HIDE DEF M
<1>4. ASSUME NEW y \in Desc(G, K) PROVE ~IsMoved(G, ins, p, y) BY NotMoved
<1>5. ASSUME NEW y \in Desc(G, K) \ K PROVE Ahead(G.order, p, y) BY OutputsLead
<1> HIDE DEF p
<1>6. ASSUME NEW y \in (Desc(G, K) \ K) \cup ToSet(outs) PROVE y \in Ids(G) /\ ~Earlier(G, y, p)
  <2>1. y \in Ids(G) BY <1>1, <1>2
  <2>2. y = p \/ Ahead(G.order, p, y) BY <1>1, <1>5
  <2>3. ~Ahead(G.order, y, p) BY <1>1, <2>2, AheadIsOrder DEF IsList
  <2>. QED BY <1>1, <2>1, <2>3, EarlierIsAhead
<1>7. ASSUME NEW s \in Ids(G), Earlier(G, s, p) \/ IsMoved(G, ins, p, s),
             NEW y \in (Desc(G, K) \ K) \cup ToSet(outs)
      PROVE  Ahead(M.order, s, y)
  <2>1. y \in Desc(G, K) BY <1>1, <1>2
  <2>. QED BY <1>3, <1>4, <1>6, <1>7, <2>1
<1>8. ASSUME NEW y \in Desc(G, K) \ K PROVE Ahead(M.order, p, y)
  <2>1. \A i \in DOMAIN ins : y \notin Behind(G, ins[i], p) BY <1>4 DEF IsMoved
  <2>2. y \in Ids(G) BY <1>2
  <2>. QED BY <1>1, <1>3, <1>5, <2>1, <2>2
<1>. QED BY <1>7, <1>8 DEF M, p

\* Outside the subgraph, a node keeps its place before what is computed from it.
LEMMA KeepsAhead ==
    ASSUME NEW G, NEW K, NEW ins, NEW outs, NEW anchor, NEW names, Replaces(G, K, ins, outs, anchor, names),
           NEW s \in (Ids(G) \ K) \ ToSet(FreshNames), NEW y \in Desc(G, UserSet(G, s))
    PROVE  Ahead(MovedInputs(G, ins, Place(G, outs)).order, s, y)
PROOF
<1> DEFINE p == Place(G, outs)
<1> DEFINE M == MovedInputs(G, ins, p)
<1>1. /\ WellFormed(G) /\ Downstream(G) /\ ins \in Seq(Ids(G)) /\ p \in Ids(G) /\ p \in K
      /\ IsList(G) /\ Distinct(G.order)
  BY PlaceFacts, WellFormedFacts DEF Replaces, GraphOK
<1>2. \A x, z \in Ids(G) :
            /\ Ahead(G.order, x, z)
            /\ \A i \in DOMAIN ins : z \in Behind(G, ins[i], p) =>
                  Earlier(G, x, p) \/ x \in Behind(G, ins[i], p)
            => Ahead(M.order, x, z)
  <2> HIDE DEF p
  <2>. QED BY <1>1, MoveFacts
<1> HIDE DEF M
<1>3. Ahead(G.order, s, y) BY <1>1 DEF Downstream
<1>4. y \in Ids(G) /\ y \in Desc(G, {s})
  <2>1. UserSet(G, s) \subseteq Ids(G) BY <1>1, WellFormedFacts
  <2>2. {s} \subseteq Ids(G) OBVIOUS
  <2>. QED BY <1>1, <2>1, <2>2, DescFacts, DescSplit
<1>5. ASSUME NEW i \in DOMAIN ins, y \in Behind(G, ins[i], p), ~Earlier(G, s, p) PROVE s \in Behind(G, ins[i], p)
  <2> DEFINE x == ins[i]
  <2>1. x \in Ids(G) BY <1>1
  <2>2. Ahead(G.order, p, s)
    <3>1. s # p /\ ~Ahead(G.order, s, p) BY <1>1, <1>5, EarlierIsAhead
    <3>2. ToSet(G.order) = Ids(G) BY DEF Ids
    <3>. QED BY <1>1, <3>1, <3>2, AheadIsOrder DEF IsList
  <2> HIDE DEF x, p
  <2>. QED BY <1>1, <1>4, <1>5, <2>1, <2>2, BehindBack DEF x
<1>. QED BY <1>2, <1>3, <1>4, <1>5 DEF M, p

LEMMA ReplacedDownstream ==
    ASSUME NEW G, NEW K, NEW ins, NEW outs, NEW anchor, NEW names, Replaces(G, K, ins, outs, anchor, names)
    PROVE  Downstream(Replaced(G, K, ins, outs, anchor, names))
PROOF
<1> DEFINE E == Replaced(G, K, ins, outs, anchor, names)
<1> DEFINE p == Place(G, outs)
<1> DEFINE M == MovedInputs(G, ins, p)
<1> DEFINE New == ToSet(names)
<1>1. Rewired(G, E, K, ins, names) /\ Spliced(M, E, K, anchor, names) BY ReplacedNodes
<1> HIDE DEF E
<1> SUFFICES ASSUME NEW s \in Ids(E) \ ToSet(FreshNames) PROVE \A y \in Desc(E, UserSet(E, s)) : Ahead(E.order, s, y)
  BY DEF Downstream, E
<1>2. /\ WellFormed(G) /\ K \subseteq Ids(G) \ ToSet(FreshNames) /\ New \cap Ids(G) = {}
      /\ ToSet(outs) = {n \in K : ~(UserSet(G, n) \subseteq K)}
      /\ anchor \in ToSet(outs)
  BY DEF Replaces, GraphOK
<1>3. WellFormed(E) BY <1>1, RewiredIsWellFormed
<1>4. Ids(E) = (Ids(G) \ K) \cup New BY <1>1 DEF Rewired
<1>5. New \subseteq ToSet(FreshNames)
  <2>1. names \in Seq(ToSet(FreshNames)) BY DEF Replaces
  <2>. QED BY <2>1 DEF ToSet
<1>6. s \in (Ids(G) \ K) \ ToSet(FreshNames) BY <1>4, <1>5
<1>7. /\ \A n \in Ids(G) \ K : \A x \in InputSet(E, n) :
            \/ x \in InputSet(G, n) \ K
            \/ x \in New /\ \E a \in InputSet(G, n) : a \in K
      /\ \A x \in New : x \notin Ids(G) /\ x \notin K
      /\ names[1] \in New
      /\ InputSet(E, names[1]) = (UNION {InputSet(G, n) : n \in K}) \ K
      /\ \A x \in New \ {names[1]} : InputSet(E, x) = {names[1]}
  BY <1>1, RewiredInputs
<1> DEFINE A == Desc(G, UserSet(G, s))
<1> DEFINE Meets == A \cap K # {}
<1> DEFINE D == (A \ K) \cup {y \in New \cup (Desc(G, K) \ K) : Meets}
<1>8. UserSet(G, s) \subseteq A /\ A \subseteq Ids(G) /\ \A z \in A : UserSet(G, z) \subseteq A
  <2>1. UserSet(G, s) \subseteq Ids(G) BY <1>2, WellFormedFacts
  <2>. QED BY <1>2, <2>1, DescFacts
<1>9. K \subseteq Desc(G, K) /\ Desc(G, K) \subseteq Ids(G) /\ \A z \in Desc(G, K) : UserSet(G, z) \subseteq Desc(G, K)
  <2>1. K \subseteq Ids(G) BY <1>2
  <2>. QED BY <1>2, <2>1, DescFacts
<1> HIDE DEF A
<1>10. ASSUME NEW x \in Ids(E), x = s \/ x \in D, NEW u \in UserSet(E, x) PROVE u \in D
  <2>1. u \in Ids(E) /\ x \in InputSet(E, u) BY DEF UserSet
  <2>2. x = s => x \in Ids(G) \ K BY <1>6
  <2>3. CASE u \in Ids(G) \ K
    <3>1. CASE x \in InputSet(G, u) \ K
      <4>1. u \in UserSet(G, x) BY <2>3, <3>1 DEF UserSet
      <4>2. x \in Ids(G) BY <1>2, <2>3, <3>1, WellFormedFacts
      <4>3. x \notin New BY <1>7, <4>2
      <4>. QED BY <1>8, <1>9, <1>10, <2>3, <4>1, <4>3, <3>1
    <3>2. CASE x \in New /\ \E a \in InputSet(G, u) : a \in K
      <4>1. x # s /\ x \notin A BY <1>7, <1>8, <2>2, <3>2
      <4>2. Meets BY <1>10, <4>1
      <4>3. PICK a \in K : a \in InputSet(G, u) BY <3>2
      <4>4. u \in UserSet(G, a) BY <2>3, <4>3 DEF UserSet
      <4>. QED BY <1>9, <2>3, <4>2, <4>3, <4>4
    <3>. QED BY <1>7, <2>1, <2>3, <3>1, <3>2
  <2>4. CASE u = names[1]
    <3>1. PICK n \in K : x \in InputSet(G, n) /\ x \notin K BY <1>7, <2>1, <2>4
    <3>2. n \in Ids(G) /\ x \in Ids(G) BY <1>2, <3>1, WellFormedFacts
    <3>3. n \in UserSet(G, x) BY <3>1, <3>2 DEF UserSet
    <3>4. Meets BY <1>8, <1>10, <3>1, <3>3
    <3>. QED BY <1>7, <2>4, <3>4
  <2>5. CASE u \in New \ {names[1]}
    <3>1. x = names[1] BY <1>7, <2>1, <2>5
    <3>2. x # s /\ x \notin A BY <1>7, <1>8, <2>2, <3>1
    <3>3. Meets BY <1>10, <3>2
    <3>. QED BY <2>5, <3>3
  <2>. QED BY <1>4, <2>1, <2>3, <2>4, <2>5
<1>11. Desc(E, UserSet(E, s)) \subseteq D
  <2> DEFINE U == UserSet(E, s)
  <2>1. U \subseteq Ids(E) BY <1>3, WellFormedFacts
  <2>2. U \subseteq D BY <1>10
  <2>3. \A x \in D \cap Ids(E) : UserSet(E, x) \subseteq D BY <1>10
  <2> HIDE DEF D, U
  <2>4. Desc(E, U) \subseteq D BY <1>3, <2>1, <2>2, <2>3, DescFacts
  <2>. QED BY <2>4 DEF U
<1>12. ASSUME NEW y \in A \ K PROVE Ahead(E.order, s, y)
  <2>1. Ahead(M.order, s, y) BY <1>6, KeepsAhead DEF A
  <2>2. y \in Ids(E) BY <1>4, <1>8
  <2>. QED BY <1>1, <2>1, <2>2 DEF Spliced
<1>13. ASSUME Meets
       PROVE  Ahead(M.order, s, anchor) /\ \A y \in Desc(G, K) \ K : Ahead(M.order, s, y)
  <2>1. PICK t \in K : t \in A BY <1>13
  <2>2. Earlier(G, s, p) \/ IsMoved(G, ins, p, s) BY <1>6, <2>1, FeedersAreMoved DEF A
  <2>3. s \in Ids(G) BY <1>6
  <2>4. \A y \in (Desc(G, K) \ K) \cup ToSet(outs) : Ahead(M.order, s, y)
    BY <2>2, <2>3, MovedOrder
  <2> HIDE DEF M
  <2>. QED BY <1>2, <2>4
<1>14. ASSUME NEW y \in D PROVE y \in Ids(E) /\ Ahead(E.order, s, y)
  <2>1. y \in Ids(E) BY <1>4, <1>8, <1>9
  <2>2. CASE y \in A \ K BY <1>12, <2>1, <2>2
  <2>3. CASE Meets /\ y \in New
    <3> HIDE DEF M
    <3>. QED BY <1>1, <1>13, <2>1, <2>3 DEF Spliced
  <2>4. CASE Meets /\ y \in Desc(G, K) \ K
    <3> HIDE DEF M
    <3>. QED BY <1>1, <1>13, <2>1, <2>4 DEF Spliced
  <2>. QED BY <2>1, <2>2, <2>3, <2>4
<1>. QED BY <1>11, <1>14

\* The order is kept by a kernel that is put before the first of the outputs.
LEMMA ReplacedInOrder ==
    ASSUME NEW G, NEW K, NEW ins, NEW outs, NEW names, Replaces(G, K, ins, outs, Place(G, outs), names),
           \A n \in Ids(G) : \A x \in InputSet(G, n) : Earlier(G, x, n)
    PROVE  LET E == Replaced(G, K, ins, outs, Place(G, outs), names) IN
           \A n \in Ids(E) : \A x \in InputSet(E, n) : Earlier(E, x, n)
PROOF
<1> DEFINE p == Place(G, outs)
<1> DEFINE E == Replaced(G, K, ins, outs, p, names)
<1> DEFINE M == MovedInputs(G, ins, p)
<1> DEFINE New == ToSet(names)
<1>1. Rewired(G, E, K, ins, names) /\ Spliced(M, E, K, p, names) BY ReplacedNodes
<1> HIDE DEF E
<1>2. /\ WellFormed(G) /\ K \subseteq Ids(G) \ ToSet(FreshNames) /\ New \cap Ids(G) = {}
      /\ ins \in Seq(Ids(G)) /\ ToSet(ins) = (UNION {InputSet(G, n) : n \in K}) \ K
      /\ p \in K /\ p \in Ids(G) /\ p \in ToSet(outs) /\ IsList(G) /\ Distinct(G.order)
  BY PlaceFacts, WellFormedFacts DEF Replaces, GraphOK
<1>3. WellFormed(E) /\ IsList(E) /\ Distinct(E.order) BY <1>1, RewiredIsWellFormed, WellFormedFacts
<1>4. Ids(E) = (Ids(G) \ K) \cup New BY <1>1 DEF Rewired
<1>5. /\ \A n \in Ids(G) \ K : \A x \in InputSet(E, n) :
            \/ x \in InputSet(G, n) \ K
            \/ x \in New /\ \E a \in InputSet(G, n) : a \in K
      /\ \A x \in New : x \notin Ids(G) /\ x \notin K
      /\ names[1] \in New
      /\ InputSet(E, names[1]) = (UNION {InputSet(G, n) : n \in K}) \ K
      /\ \A x \in New \ {names[1]} : InputSet(E, x) = {names[1]} /\ Ahead(names, names[1], x)
  BY <1>1, RewiredInputs
<1>6. \A x, z \in Ids(G) :
            /\ Ahead(G.order, x, z)
            /\ \A i \in DOMAIN ins : z \in Behind(G, ins[i], p) =>
                  Earlier(G, x, p) \/ x \in Behind(G, ins[i], p)
            => Ahead(M.order, x, z)
  <2> HIDE DEF p
  <2>. QED BY <1>2, MoveFacts
<1>7. /\ \A s \in Ids(G) : Earlier(G, s, p) \/ IsMoved(G, ins, p, s) =>
            \A y \in (Desc(G, K) \ K) \cup ToSet(outs) : Ahead(M.order, s, y)
      /\ \A y \in Desc(G, K) \ K : Ahead(M.order, p, y)
  BY MovedOrder
<1> HIDE DEF M
<1>8. \A x, z \in Ids(G) : Earlier(G, x, z) <=> Ahead(G.order, x, z) BY <1>2, EarlierIsAhead
<1>9. \A x \in Ids(G) \ K : ~Earlier(G, x, p) => Earlier(G, p, x)
  <2>1. ToSet(G.order) = Ids(G) BY DEF Ids
  <2>. QED BY <1>2, <1>8, <2>1, AheadIsOrder DEF IsList
<1>10. ASSUME NEW n \in Ids(E), NEW x \in InputSet(E, n) PROVE Ahead(E.order, x, n)
  <2>1. x \in Ids(E) BY <1>3, WellFormedFacts
  <2>2. CASE n \in Ids(G) \ K /\ x \in InputSet(G, n) \ K
    <3>1. x \in Ids(G) \ K BY <1>2, <2>2, WellFormedFacts
    <3>2. Ahead(G.order, x, n) BY <1>8, <2>2, <3>1
    <3>3. ASSUME NEW i \in DOMAIN ins, n \in Behind(G, ins[i], p), ~Earlier(G, x, p) PROVE x \in Behind(G, ins[i], p)
      <4> DEFINE v == ins[i]
      <4>1. v \in Ids(G) BY <1>2
      <4>2. Earlier(G, p, x) BY <1>9, <3>1, <3>3
      <4> HIDE DEF v, p
      <4>. QED BY <1>2, <2>2, <3>3, <4>1, <4>2, BehindFacts DEF v
    <3>4. Ahead(M.order, x, n) BY <1>6, <2>2, <3>1, <3>2, <3>3
    <3>. QED BY <1>1, <2>1, <3>4 DEF Spliced
  <2>3. CASE n \in Ids(G) \ K /\ x \in New /\ \E a \in InputSet(G, n) : a \in K
    <3>1. PICK a \in K : a \in InputSet(G, n) BY <2>3
    <3>2. n \in UserSet(G, a) BY <2>3, <3>1 DEF UserSet
    <3>3. n \in Desc(G, K) \ K
      <4>1. K \subseteq Ids(G) BY <1>2
      <4>. QED BY <1>2, <2>3, <3>2, <4>1, DescFacts
    <3>4. Ahead(M.order, p, n) BY <1>7, <3>3
    <3>. QED BY <1>1, <2>1, <2>3, <3>4 DEF Spliced
  <2>4. CASE n = names[1]
    <3>1. x \in ToSet(ins) /\ x \notin K BY <1>2, <1>5, <2>4
    <3>2. x \in Ids(G) BY <1>2, <3>1 DEF ToSet
    <3>3. Earlier(G, x, p) \/ IsMoved(G, ins, p, x)
      <4> SUFFICES ASSUME ~Earlier(G, x, p) PROVE IsMoved(G, ins, p, x) OBVIOUS
      <4>1. Earlier(G, p, x) BY <1>9, <3>1, <3>2
      <4>2. x \in Behind(G, x, p)
        <5> HIDE DEF p
        <5>. QED BY <1>2, <3>2, <4>1, BehindFacts
      <4>3. PICK i \in DOMAIN ins : x = ins[i] BY <3>1 DEF ToSet
      <4>. QED BY <4>2, <4>3 DEF IsMoved
    <3>4. Ahead(M.order, x, p) BY <1>2, <1>7, <3>2, <3>3
    <3>. QED BY <1>1, <1>5, <2>1, <2>4, <3>4 DEF Spliced
  <2>5. CASE n \in New \ {names[1]}
    <3>1. Ahead(names, x, n) BY <1>5, <2>5
    <3>. QED BY <1>1, <2>1, <3>1 DEF Spliced
  <2>. QED BY <1>4, <1>5, <2>2, <2>3, <2>4, <2>5
<1>11. ASSUME NEW n \in Ids(E), NEW x \in InputSet(E, n) PROVE Earlier(E, x, n)
  <2>1. x \in Ids(E) BY <1>3, WellFormedFacts
  <2>. QED BY <1>3, <1>10, <2>1, EarlierIsAhead
<1>. QED BY <1>11 DEF E, p

\* The new graph is one the search may go on with.
LEMMA ReplacedFacts ==
    ASSUME NEW G, NEW K, NEW ins, NEW outs, NEW anchor, NEW names, Replaces(G, K, ins, outs, anchor, names)
    PROVE  LET E == Replaced(G, K, ins, outs, anchor, names) IN
           GraphOK(E) /\ Ids(E) = (Ids(G) \ K) \cup ToSet(names)
PROOF
<1> DEFINE E == Replaced(G, K, ins, outs, anchor, names)
<1>1. Rewired(G, E, K, ins, names) BY ReplacedNodes
<1>2. Downstream(E) BY ReplacedDownstream
<1> HIDE DEF E
<1>3. WellFormed(E) /\ CreatedOps(E) BY <1>1, RewiredIsWellFormed
<1>4. Ids(E) = (Ids(G) \ K) \cup ToSet(names) BY <1>1 DEF Rewired
<1>. QED BY <1>2, <1>3, <1>4 DEF GraphOK, E

-----------------------------------------------------------------------------
(* The search.                                                             *)

\* The graph, whatever the search is doing.
GraphInv ==
    /\ case \in Cases
    /\ made \in 0..Len(FreshNames)
    /\ GraphOK(graph)
    /\ Ids(graph) \subseteq Ids(case.graph) \cup {FreshNames[i] : i \in 1..made}
    /\ visited \subseteq Ids(case.graph) \cup ToSet(FreshNames)
    /\ starts \in Seq(Ids(graph))

\* Where one dimension of a start node is tried.
Trying == {"round", "back", "backMeasured", "front", "batch", "batchMeasured", "report"}

\* A start node has dimensions to be tried if it is new.
StartInv ==
    pc \in Trying \cup {"dims"} => start \in Ids(graph) /\ (pc # "dims" \/ dims # <<>> => start \notin visited)

\* The best subgraph so far.
BestInv ==
    /\ pc \in Trying \cup {"dims", "found", "insert"} =>
          best.nodes \in Seq(Ids(graph)) /\ Subgraph(graph, start, visited, ToSet(best.nodes))
    /\ pc \in {"found", "insert"} => best.nodes # <<>>
    /\ pc = "insert" => KernelOutputs # <<>> /\ NamesDefined

\* The subgraph of the dimension that is tried.
FusedInv ==
    pc \in Trying =>
        /\ fused \in Seq(Ids(graph)) /\ keys \in Seq(Ids(graph))
        /\ Subgraph(graph, start, visited, ToSet(fused))
        /\ \A k \in ToSet(keys) : Near(graph, start, ToSet(fused), k)

\* The nodes that are still to be asked.
BackInv ==
    pc \in {"back", "backMeasured"} =>
        /\ work \in Seq(ToSet(work)) /\ (pc = "backMeasured" => work # <<>>)
        /\ \A w \in ToSet(work) : Near(graph, start, ToSet(fused), w[1])

FrontInv ==
    /\ pc \in {"front", "batch", "batchMeasured"} =>
          work \in Seq(ToSet(work)) /\ ToSet(work) \subseteq Desc(graph, ToSet(fused))
    /\ pc \in {"batch", "batchMeasured"} =>
          /\ batch \in Seq(ToSet(batch)) /\ (pc = "batchMeasured" => batch # <<>>)
          /\ \A b \in ToSet(batch) :
                b[1] \in Desc(graph, ToSet(fused)) /\ (b[1] \in visited => Op(graph, b[1]) = "getitem")

LabelInv ==
    /\ pc \in Trying \cup {"starts", "dims", "found", "insert", "done", "raised"}
    /\ ToSet(fused) = DOMAIN fusedTiles

Inv == LabelInv /\ GraphInv /\ InOrder /\ StartInv /\ BestInv /\ FusedInv /\ BackInv /\ FrontInv

LEMMA InvImpliesTypeOK ==
    Inv => TypeOK
PROOF
<1> SUFFICES ASSUME Inv PROVE TypeOK OBVIOUS
<1>1. \A n \in Ids(graph) : InputSet(graph, n) \subseteq Ids(graph)
  BY WellFormedFacts DEF Inv, GraphInv, GraphOK
<1>2. visited \subseteq Ids(case.graph) \cup ToSet(FreshNames) BY DEF Inv, GraphInv
<1>. QED BY <1>1, <1>2 DEF Inv, LabelInv, Trying, TypeOK

LEMMA SelfSeq ==
    ASSUME NEW V, NEW s \in Seq(V)
    PROVE  s \in Seq(ToSet(s)) /\ ToSet(s) \subseteq V
BY DEF ToSet

LEMMA ListFacts ==
    ASSUME NEW s, s \in Seq(ToSet(s)), s # <<>>
    PROVE  /\ Head(s) \in ToSet(s)
           /\ ToSet(Tail(s)) \subseteq ToSet(s) /\ Tail(s) \in Seq(ToSet(Tail(s)))
PROOF
<1> DEFINE V == ToSet(s)
<1>1. s \in Seq(V) OBVIOUS
<1> HIDE DEF V
<1>2. Head(s) \in V /\ Tail(s) \in Seq(V) BY <1>1
<1>3. Tail(s) \in Seq(ToSet(Tail(s))) /\ ToSet(Tail(s)) \subseteq V BY <1>2, SelfSeq
<1>. QED BY <1>2, <1>3 DEF V

LEMMA StartNodesFacts ==
    ASSUME NEW G, IsList(G)
    PROVE  StartNodes(G) \in Seq(Ids(G))
PROOF
<1> DEFINE V == Ids(G)
<1> DEFINE s == Reverse(G.order)
<1> DEFINE S == {n \in Ids(G) : Op(G, n) \in StartOps}
<1>1. G.order \in Seq(V) BY DEF IsList
<1>2. s \in Seq(V)
  <2>1. Len(G.order) \in Nat /\ \A i \in 1..Len(G.order) : (Len(G.order) - i) + 1 \in 1..Len(G.order)
    <3> HIDE DEF V
    <3>. QED BY <1>1
  <2> HIDE DEF V
  <2>. QED BY <1>1, <2>1 DEF Reverse
<1>3. StartNodes(G) = Part(s, S) BY DEF StartNodes
<1> HIDE DEF V, s, S
<1>4. Part(s, S) \in Seq(V) BY <1>2, PartFacts
<1>. QED BY <1>3, <1>4 DEF V

LEMMA DescGrows ==
    ASSUME NEW G, WellFormed(G), NEW S, NEW S2, S \subseteq S2, S2 \subseteq Ids(G)
    PROVE  Desc(G, S) \subseteq Desc(G, S2)
PROOF
<1> DEFINE D == Desc(G, S2)
<1>1. S2 \subseteq D /\ \A x \in D : UserSet(G, x) \subseteq D BY DescFacts
<1> HIDE DEF D
<1>2. S \subseteq Ids(G) /\ S \subseteq D /\ \A x \in D \cap Ids(G) : UserSet(G, x) \subseteq D BY <1>1
<1>3. Desc(G, S) \subseteq D BY <1>2, DescFacts
<1>. QED BY <1>3 DEF D

\* Nothing is in the empty subgraph, and nothing is computed from it.
LEMMA EmptySubgraph ==
    ASSUME NEW G, WellFormed(G), NEW s, NEW v
    PROVE  ToSet(<<>>) = {} /\ Desc(G, {}) = {} /\ Subgraph(G, s, v, {})
PROOF
<1>1. ToSet(<<>>) = {} BY DEF ToSet
<1>2. Desc(G, {}) \subseteq {} BY DescFacts
<1>. QED BY <1>1, <1>2 DEF Subgraph

\* A list of pairs, one for each entry of a list.
LEMMA PairsFacts ==
    ASSUME NEW V, NEW s \in Seq(V), NEW f
    PROVE  LET p == [i \in DOMAIN s |-> <<s[i], f[s[i]]>>] IN
           p \in Seq(ToSet(p)) /\ \A w \in ToSet(p) : w[1] \in ToSet(s)
PROOF
<1> DEFINE p == [i \in DOMAIN s |-> <<s[i], f[s[i]]>>]
<1>1. Len(s) \in Nat /\ DOMAIN s = 1..Len(s) OBVIOUS
<1>2. DOMAIN p = 1..Len(s) /\ \A i \in 1..Len(s) : p[i] = <<s[i], f[s[i]]>> BY <1>1
<1>3. \A w \in ToSet(p) : w[1] \in ToSet(s) BY <1>1, <1>2 DEF ToSet
<1>4. p = [i \in 1..Len(s) |-> p[i]] BY <1>1
<1> HIDE DEF p
<1>5. p \in [1..Len(s) -> ToSet(p)] BY <1>2, <1>4 DEF ToSet
<1>6. p \in Seq(ToSet(p)) BY <1>1, <1>5
<1>. QED BY <1>3, <1>6 DEF p

\* In the graphs that are given, what is computed from a node comes behind it.
LEMMA CaseGraphOK ==
    ASSUME NEW c \in Cases
    PROVE  GraphOK(c.graph) /\ Ids(c.graph) \cap ToSet(FreshNames) = {}
PROOF
<1> DEFINE G == c.graph
<1>1. WellFormed(G) /\ \A n \in Ids(G) : \A x \in InputSet(G, n) : Earlier(G, x, n) BY CasesAssumption
<1>2. Ids(G) \cap ToSet(FreshNames) = {} BY NamesAssumption
<1> HIDE DEF G
<1>3. IsList(G) /\ Distinct(G.order) BY <1>1, WellFormedFacts
<1>4. ASSUME NEW s \in Ids(G) PROVE \A y \in Desc(G, UserSet(G, s)) : Ahead(G.order, s, y)
  <2> DEFINE D == {y \in Ids(G) : Ahead(G.order, s, y)}
  <2>1. UserSet(G, s) \subseteq Ids(G) BY <1>1, WellFormedFacts
  <2>2. ASSUME NEW x \in Ids(G), NEW u \in UserSet(G, x) PROVE u \in Ids(G) /\ Ahead(G.order, x, u)
    <3>1. u \in Ids(G) /\ x \in InputSet(G, u) BY <1>1, <2>2, WellFormedFacts
    <3>. QED BY <1>1, <1>3, <3>1, EarlierIsAhead
  <2>3. UserSet(G, s) \subseteq D BY <2>2
  <2>4. ASSUME NEW x \in D PROVE UserSet(G, x) \subseteq D
    <3>1. \A u \in UserSet(G, x) : u \in Ids(G) /\ Ahead(G.order, s, u)
      BY <1>3, <2>2, <2>4, AheadIsOrder DEF IsList
    <3>. QED BY <3>1
  <2>5. Desc(G, UserSet(G, s)) \subseteq D
    <3> DEFINE U == UserSet(G, s)
    <3>1. U \subseteq Ids(G) /\ U \subseteq D /\ \A x \in D \cap Ids(G) : UserSet(G, x) \subseteq D BY <2>1, <2>3, <2>4
    <3> HIDE DEF D, U
    <3>2. Desc(G, U) \subseteq D BY <1>1, <3>1, DescFacts
    <3>. QED BY <3>2 DEF U
  <2>. QED BY <2>5
<1>5. Downstream(G) BY <1>4 DEF Downstream
<1>6. CreatedOps(G) BY <1>2 DEF CreatedOps
<1>. QED BY <1>1, <1>2, <1>5, <1>6 DEF GraphOK, G

LEMMA InitInv ==
    Init => Inv
PROOF
<1> SUFFICES ASSUME Init PROVE Inv OBVIOUS
<1>1. case \in Cases /\ graph = case.graph /\ GraphOK(graph) BY CaseGraphOK DEF Init
<1>2. made \in 0..Len(FreshNames)
  <2>1. Len(FreshNames) \in Nat BY NamesAssumption
  <2>2. made = 0 BY DEF Init
  <2>. QED BY <2>1, <2>2
<1>3. starts \in Seq(Ids(graph)) BY <1>1, StartNodesFacts, WellFormedFacts DEF Init, GraphOK
<1>4. GraphInv BY <1>1, <1>2, <1>3 DEF GraphInv, Init
<1>5. InOrder BY <1>1, CasesAssumption DEF InOrder
<1>7. pc = "starts" /\ fused = <<>> /\ fusedTiles = Nobody BY DEF Init
<1>6. LabelInv BY <1>7 DEF LabelInv, Nobody, ToSet
<1>8. StartInv /\ BestInv /\ FusedInv /\ BackInv /\ FrontInv
  BY <1>7 DEF StartInv, BestInv, FusedInv, BackInv, FrontInv, Trying
<1>. QED BY <1>4, <1>5, <1>6, <1>8 DEF Inv

\* What the search itself leaves alone.
LEMMA GraphKept ==
    ASSUME GraphInv, InOrder, UNCHANGED passVars, starts' \in Seq(Ids(graph))
    PROVE  GraphInv' /\ InOrder'
BY DEF GraphInv, InOrder, passVars

LEMMA TakeStartInv ==
    ASSUME Inv, TakeStart PROVE Inv'
PROOF
<1> USE DEF Inv
<1>1. /\ pc = "starts" /\ starts # <<>> /\ pc' = "dims"
      /\ start' = Head(starts) /\ starts' = Tail(starts) /\ best' = None
      /\ Head(starts) \in visited => dims' = <<>>
      /\ UNCHANGED passVars /\ UNCHANGED fuseVars
  BY DEF TakeStart, Goto
<1>2. starts \in Seq(Ids(graph)) /\ WellFormed(graph) BY DEF GraphInv, GraphOK
<1>3. Head(starts) \in Ids(graph) /\ Tail(starts) \in Seq(Ids(graph)) BY <1>1, <1>2
<1>4. GraphInv' /\ InOrder' BY <1>1, <1>3, GraphKept
<1>5. LabelInv' BY <1>1 DEF LabelInv, fuseVars, Trying
<1>6. StartInv' BY <1>1, <1>3 DEF StartInv, Trying, passVars
<1>7. BestInv'
  <2>1. best'.nodes = <<>> BY <1>1 DEF None
  <2>2. Subgraph(graph, start', visited, ToSet(<<>>)) BY <1>2, EmptySubgraph
  <2>3. graph' = graph /\ visited' = visited BY <1>1 DEF passVars
  <2>. QED BY <1>1, <2>1, <2>2, <2>3 DEF BestInv, Trying
<1>8. FusedInv' /\ BackInv' /\ FrontInv' BY <1>1 DEF FusedInv, BackInv, FrontInv, Trying
<1>. QED BY <1>4, <1>5, <1>6, <1>7, <1>8

LEMMA TakeDimInv ==
    ASSUME Inv, TakeDim PROVE Inv'
PROOF
<1> USE DEF Inv
<1>1. pc = "dims" /\ dims # <<>> /\ UNCHANGED passVars /\ starts' = starts /\ best' = best /\ start' = start
  BY DEF TakeDim
<1>2. WellFormed(graph) /\ start \in Ids(graph) /\ start \notin visited
  BY <1>1 DEF GraphInv, GraphOK, StartInv, Trying
<1>3. GraphInv' /\ InOrder' BY <1>1, GraphKept DEF GraphInv
<1>4. graph' = graph /\ visited' = visited BY <1>1 DEF passVars
<1>5. CASE pc' = "dims" /\ UNCHANGED fuseVars
  <2>1. LabelInv' BY <1>1, <1>5 DEF LabelInv, fuseVars
  <2>2. StartInv' BY <1>1, <1>2, <1>4, <1>5 DEF StartInv
  <2>3. BestInv' BY <1>1, <1>4, <1>5 DEF BestInv, Trying
  <2>4. FusedInv' /\ BackInv' /\ FrontInv' BY <1>5 DEF FusedInv, BackInv, FrontInv, Trying
  <2>. QED BY <1>3, <2>1, <2>2, <2>3, <2>4
<1>6. CASE pc' = "round" /\ keys' = <<start>> /\ fused' = <<>> /\ fusedTiles' = Nobody
  <2>1. LabelInv' BY <1>6 DEF LabelInv, Trying, Nobody, ToSet
  <2>2. StartInv' BY <1>1, <1>2, <1>4 DEF StartInv
  <2>3. BestInv' BY <1>1, <1>4, <1>6 DEF BestInv, Trying
  <2>4. FusedInv'
    <3>1. ToSet(<<>>) = {} /\ Subgraph(graph, start, visited, {}) BY <1>2, EmptySubgraph
    <3>2. <<start>> \in Seq(Ids(graph)) /\ \A k \in ToSet(<<start>>) : k = start BY <1>2 DEF ToSet
    <3>3. \A k \in ToSet(<<start>>) : Near(graph, start, {}, k) BY <1>2, <3>2 DEF Near
    <3>4. fused' \in Seq(Ids(graph)) /\ keys' \in Seq(Ids(graph)) BY <1>6, <3>2
    <3>5. Subgraph(graph, start, visited, ToSet(fused')) /\ \A k \in ToSet(keys') : Near(graph, start, ToSet(fused'), k)
      BY <1>6, <3>1, <3>3
    <3>. QED BY <1>1, <1>4, <3>4, <3>5 DEF FusedInv
  <2>5. BackInv' /\ FrontInv' BY <1>6 DEF BackInv, FrontInv
  <2>. QED BY <1>3, <2>1, <2>2, <2>3, <2>4, <2>5
<1>7. \/ pc' = "dims" /\ UNCHANGED fuseVars
      \/ pc' = "round" /\ keys' = <<start>> /\ fused' = <<>> /\ fusedTiles' = Nobody
  <2>1. CASE SkipDim(Head(dims))
    <3>1. UNCHANGED <<pc, dim, fuseVars>> BY <2>1 DEF TakeDim
    <3>. QED BY <1>1, <3>1
  <2>2. CASE ~SkipDim(Head(dims)) BY <2>2 DEF TakeDim, Goto
  <2>. QED BY <2>1, <2>2
<1>. QED BY <1>5, <1>6, <1>7

LEMMA EndDimInv ==
    ASSUME Inv, EndDim PROVE Inv'
PROOF
<1> USE DEF Inv
<1>1. /\ pc = "report" /\ pc' = "dims" /\ UNCHANGED passVars /\ UNCHANGED fuseVars
      /\ starts' = starts /\ start' = start /\ dims' = dims
      /\ best' = best \/ best' = [nodes |-> fused, tiles |-> fusedTiles, dim |-> dim]
  BY DEF EndDim, Goto
<1>2. graph' = graph /\ visited' = visited BY <1>1 DEF passVars
<1>3. GraphInv' /\ InOrder' BY <1>1, GraphKept DEF GraphInv
<1>4. LabelInv' BY <1>1 DEF LabelInv, fuseVars
<1>5. StartInv' BY <1>1, <1>2 DEF StartInv, Trying
<1>6. BestInv'
  <2>1. fused \in Seq(Ids(graph)) /\ Subgraph(graph, start, visited, ToSet(fused)) BY <1>1 DEF FusedInv, Trying
  <2>2. best.nodes \in Seq(Ids(graph)) /\ Subgraph(graph, start, visited, ToSet(best.nodes))
    BY <1>1 DEF BestInv, Trying
  <2>3. best'.nodes = best.nodes \/ best'.nodes = fused BY <1>1
  <2>. QED BY <1>1, <1>2, <2>1, <2>2, <2>3 DEF BestInv
<1>7. FusedInv' /\ BackInv' /\ FrontInv' BY <1>1 DEF FusedInv, BackInv, FrontInv, Trying
<1>. QED BY <1>3, <1>4, <1>5, <1>6, <1>7

LEMMA EndStartInv ==
    ASSUME Inv, EndStart PROVE Inv'
PROOF
<1> USE DEF Inv
<1>1. /\ pc = "dims" /\ UNCHANGED passVars /\ UNCHANGED scanVars /\ UNCHANGED fuseVars
      /\ pc' = IF Len(best.nodes) \in case.minNodes .. case.maxNodes THEN "found" ELSE "starts"
  BY DEF EndStart, Goto
<1>2. graph' = graph /\ visited' = visited /\ starts' = starts /\ start' = start /\ best' = best
  BY <1>1 DEF passVars, scanVars
<1>3. GraphInv' /\ InOrder' BY <1>1, <1>2, GraphKept DEF GraphInv
<1>4. LabelInv' BY <1>1 DEF LabelInv, fuseVars
<1>5. StartInv' /\ FusedInv' /\ BackInv' /\ FrontInv' BY <1>1 DEF StartInv, FusedInv, BackInv, FrontInv, Trying
<1>6. BestInv'
  <2>1. best.nodes \in Seq(Ids(graph)) /\ Subgraph(graph, start, visited, ToSet(best.nodes))
    BY <1>1 DEF BestInv
  <2>2. case.minNodes \in Nat \ {0} /\ case.maxNodes \in Nat BY CasesAssumption DEF GraphInv
  <2>3. pc' = "found" => best.nodes # <<>>
    <3>1. pc' = "found" => Len(best.nodes) \in case.minNodes .. case.maxNodes BY <1>1
    <3>2. Len(<<>>) = 0 OBVIOUS
    <3>. QED BY <2>2, <3>1, <3>2
  <2>. QED BY <1>1, <1>2, <2>1, <2>3 DEF BestInv, Trying
<1>. QED BY <1>3, <1>4, <1>5, <1>6

-----------------------------------------------------------------------------
(* One dimension, step by step.                                             *)

\* What the steps of one dimension leave alone.
Steady == UNCHANGED passVars /\ UNCHANGED scanVars

LEMMA SteadyInv ==
    ASSUME Inv, Steady, pc \in Trying, pc' \in Trying
    PROVE  /\ GraphInv' /\ InOrder' /\ StartInv' /\ BestInv'
           /\ graph' = graph /\ visited' = visited /\ start' = start
PROOF
<1> USE DEF Inv
<1>1. /\ graph' = graph /\ visited' = visited /\ starts' = starts /\ start' = start /\ best' = best
      /\ case' = case /\ UNCHANGED passVars
  BY DEF Steady, passVars, scanVars
<1>2. GraphInv' /\ InOrder' BY <1>1, GraphKept DEF GraphInv
<1>3. pc # "dims" /\ pc' # "dims" /\ pc' \notin {"found", "insert"} BY DEF Trying
<1>4. start \in Ids(graph) /\ start \notin visited BY <1>3 DEF StartInv
<1>5. StartInv' BY <1>1, <1>4 DEF StartInv
<1>6. best.nodes \in Seq(Ids(graph)) /\ Subgraph(graph, start, visited, ToSet(best.nodes)) BY DEF BestInv
<1>7. BestInv' BY <1>1, <1>3, <1>6 DEF BestInv
<1>. QED BY <1>1, <1>2, <1>5, <1>7

\* The pass has raised.
LEMMA RaiseInv ==
    ASSUME Inv, Steady, Raise, UNCHANGED <<fused, fusedTiles>> PROVE Inv'
PROOF
<1> USE DEF Inv
<1>1. pc' = "raised" /\ UNCHANGED passVars /\ starts' = starts BY DEF Raise, Goto, Steady, scanVars
<1>2. GraphInv' /\ InOrder' BY <1>1, GraphKept DEF GraphInv
<1>3. LabelInv' BY <1>1 DEF LabelInv
<1>4. StartInv' /\ BestInv' /\ FusedInv' /\ BackInv' /\ FrontInv'
  BY <1>1 DEF StartInv, BestInv, FusedInv, BackInv, FrontInv, Trying
<1>. QED BY <1>2, <1>3, <1>4

\* A step that takes nothing.
LEMMA FusedKept ==
    ASSUME Inv, Steady, pc \in Trying, pc' \in Trying, UNCHANGED <<keys, fused, fusedTiles>>
    PROVE  /\ GraphInv' /\ InOrder' /\ StartInv' /\ BestInv' /\ LabelInv' /\ FusedInv'
           /\ graph' = graph /\ visited' = visited /\ start' = start
PROOF
<1>1. /\ GraphInv' /\ InOrder' /\ StartInv' /\ BestInv'
      /\ graph' = graph /\ visited' = visited /\ start' = start
  BY SteadyInv
<1>2. LabelInv' BY DEF Inv, LabelInv
<1>3. FusedInv' BY <1>1 DEF Inv, FusedInv
<1>. QED BY <1>1, <1>2, <1>3

LEMMA BeginBackInv ==
    ASSUME Inv, BeginBack PROVE Inv'
PROOF
<1>1. /\ pc = "round" /\ pc' = "back" /\ Steady /\ UNCHANGED <<keys, fused, fusedTiles>>
      /\ work' = [i \in DOMAIN keys |-> <<keys[i], tiles[keys[i]]>>]
  BY DEF BeginBack, Goto, Steady
<1>2. pc \in Trying /\ pc' \in Trying BY <1>1 DEF Trying
<1>3. /\ GraphInv' /\ InOrder' /\ StartInv' /\ BestInv' /\ LabelInv' /\ FusedInv'
      /\ graph' = graph /\ visited' = visited /\ start' = start
  BY <1>1, <1>2, FusedKept
<1>4. keys \in Seq(Ids(graph)) /\ \A k \in ToSet(keys) : Near(graph, start, ToSet(fused), k)
  BY <1>2 DEF Inv, FusedInv
<1>5. work' \in Seq(ToSet(work')) /\ \A w \in ToSet(work') : w[1] \in ToSet(keys) BY <1>1, <1>4, PairsFacts
<1>6. BackInv' BY <1>1, <1>3, <1>4, <1>5 DEF BackInv
<1>7. FrontInv' BY <1>1 DEF FrontInv
<1>. QED BY <1>3, <1>6, <1>7 DEF Inv

LEMMA BackAskInv ==
    ASSUME Inv, BackAsk PROVE Inv'
PROOF
<1>1. pc = "back" /\ work # <<>> /\ pc' = "backMeasured" /\ Steady /\ UNCHANGED <<keys, fused, fusedTiles, work>>
  BY DEF BackAsk, Goto, Steady, fuseVars
<1>2. pc \in Trying /\ pc' \in Trying BY <1>1 DEF Trying
<1>3. /\ GraphInv' /\ InOrder' /\ StartInv' /\ BestInv' /\ LabelInv' /\ FusedInv'
      /\ graph' = graph /\ visited' = visited /\ start' = start
  BY <1>1, <1>2, FusedKept
<1>4. BackInv' BY <1>1, <1>3 DEF Inv, BackInv
<1>5. FrontInv' BY <1>1 DEF FrontInv
<1>. QED BY <1>3, <1>4, <1>5 DEF Inv

LEMMA BackSkipInv ==
    ASSUME Inv, BackSkip PROVE Inv'
PROOF
<1>1. /\ pc = "back" /\ work # <<>> /\ work' = Tail(work) /\ Steady /\ UNCHANGED <<keys, fused, fusedTiles>>
      /\ Raise \/ pc' = pc
  BY DEF BackSkip, Steady
<1>2. CASE Raise BY <1>1, <1>2, RaiseInv
<1>3. CASE pc' = pc
  <2>1. pc \in Trying /\ pc' \in Trying BY <1>1, <1>3 DEF Trying
  <2>2. /\ GraphInv' /\ InOrder' /\ StartInv' /\ BestInv' /\ LabelInv' /\ FusedInv'
        /\ graph' = graph /\ visited' = visited /\ start' = start
    BY <1>1, <2>1, FusedKept
  <2>3. work \in Seq(ToSet(work)) /\ \A w \in ToSet(work) : Near(graph, start, ToSet(fused), w[1])
    BY <1>1 DEF Inv, BackInv
  <2>4. ToSet(work') \subseteq ToSet(work) /\ work' \in Seq(ToSet(work')) BY <1>1, <2>3, ListFacts
  <2>5. BackInv' BY <1>1, <1>3, <2>2, <2>3, <2>4 DEF BackInv
  <2>6. FrontInv' BY <1>1, <1>3 DEF FrontInv
  <2>. QED BY <2>2, <2>5, <2>6 DEF Inv
<1>. QED BY <1>1, <1>2, <1>3

LEMMA ContainsFacts ==
    ASSUME NEW V, NEW s \in Seq(V), NEW e
    PROVE  Contains(s, e) <=> e \in ToSet(s)
BY DEF Contains, ToSet

LEMMA UsersFacts ==
    ASSUME NEW G, WellFormed(G), NEW n
    PROVE  Users(G, n) \in Seq(Ids(G)) /\ ToSet(Users(G, n)) = UserSet(G, n)
PROOF
<1> DEFINE U == UserSet(G, n)
<1>1. U \subseteq Ids(G) /\ IsList(G) BY WellFormedFacts
<1>2. Users(G, n) = InGraphOrder(G, U) BY DEF Users
<1> HIDE DEF U
<1>3. InGraphOrder(G, U) \in Seq(Ids(G)) /\ ToSet(InGraphOrder(G, U)) = Ids(G) \cap U BY <1>1, InGraphOrderFacts
<1>4. Ids(G) \cap U = U BY <1>1
<1>. QED BY <1>2, <1>3, <1>4 DEF U

\* A node and its users.
LEMMA WithUsers ==
    ASSUME NEW G, WellFormed(G), NEW n \in Ids(G)
    PROVE  <<n>> \o Users(G, n) \in Seq(Ids(G)) /\ ToSet(<<n>> \o Users(G, n)) = {n} \cup UserSet(G, n)
PROOF
<1> DEFINE V == Ids(G)
<1> DEFINE one == <<n>>
<1> DEFINE rest == Users(G, n)
<1>1. one \in Seq(V) /\ ToSet(one) = {n} BY DEF ToSet
<1>2. rest \in Seq(V) /\ ToSet(rest) = UserSet(G, n) BY UsersFacts
<1> HIDE DEF V, one, rest
<1>3. one \o rest \in Seq(V) /\ ToSet(one \o rest) = ToSet(one) \cup ToSet(rest) BY <1>1, <1>2, ConcatFacts
<1>. QED BY <1>1, <1>2, <1>3 DEF V, one, rest

LEMMA FamilyList ==
    ASSUME WellFormed(graph), NEW n \in Ids(graph)
    PROVE  Family(n) \in Seq(Ids(graph)) /\ ToSet(Family(n)) = FamilySet(graph, n)
PROOF
<1>1. CASE Op(graph, n) = "getitem"
  <2> DEFINE p == Args(graph, n)[1]
  <2>1. p \in Ids(graph) BY <1>1, WellFormedFacts
  <2>2. Family(n) = <<p>> \o Users(graph, p) /\ FamilySet(graph, n) = {p} \cup UserSet(graph, p)
    BY <1>1 DEF Family, FamilySet
  <2> HIDE DEF p
  <2>. QED BY <2>1, <2>2, WithUsers
<1>2. CASE Op(graph, n) # "getitem"
  <2>1. Family(n) = <<n>> /\ FamilySet(graph, n) = {n} BY <1>2 DEF Family, FamilySet
  <2>2. <<n>> \in Seq(Ids(graph)) /\ ToSet(<<n>>) = {n} BY DEF ToSet
  <2>. QED BY <2>1, <2>2
<1>. QED BY <1>1, <1>2

LEMMA BackTakeInv ==
    ASSUME Inv, BackTake PROVE Inv'
PROOF
<1> DEFINE n == Head(work)[1]
<1> DEFINE t == Head(work)[2]
<1> DEFINE S == ToSet(fused)
<1>1. pc = "backMeasured" /\ pc' = "back" /\ Steady /\ work' = Tail(work) BY DEF BackTake, Goto, Steady
<1>2. pc \in Trying /\ pc' \in Trying BY <1>1 DEF Trying
<1>3. /\ GraphInv' /\ InOrder' /\ StartInv' /\ BestInv'
      /\ graph' = graph /\ visited' = visited /\ start' = start
  BY <1>1, <1>2, SteadyInv
<1>4. work \in Seq(ToSet(work)) /\ work # <<>> /\ \A w \in ToSet(work) : Near(graph, start, S, w[1])
  BY <1>1 DEF Inv, BackInv
<1>5. Head(work) \in ToSet(work) /\ ToSet(work') \subseteq ToSet(work) /\ work' \in Seq(ToSet(work'))
  BY <1>1, <1>4, ListFacts
<1>6. Near(graph, start, S, n) BY <1>4, <1>5
<1>7. FrontInv' BY <1>1 DEF FrontInv
<1>8. GraphOK(graph) /\ WellFormed(graph) /\ start \notin visited BY <1>1 DEF Inv, GraphInv, GraphOK, StartInv, Trying
<1>9. fused \in Seq(Ids(graph)) /\ keys \in Seq(Ids(graph)) /\ Subgraph(graph, start, visited, S)
      /\ \A k \in ToSet(keys) : Near(graph, start, S, k)
  BY <1>2 DEF Inv, FusedInv
<1>10. PICK m \in BackOffers(n, t) :
          IF Affordable(case.chip)
          THEN /\ keys' = PutAll(keys, Keys(graph, n, m))
               /\ fused' = PutAll(fused, Family(n))
               /\ fusedTiles' = [x \in ToSet(Family(n)) \cup DOMAIN fusedTiles |->
                                    IF x = n THEN t ELSE IF x \in ToSet(Family(n)) THEN m[x] ELSE fusedTiles[x]]
          ELSE UNCHANGED <<keys, fused, fusedTiles>>
  BY DEF BackTake
<1>11. m \in BackRule(graph, n, tiles) /\ MayTake(n) /\ (n # start => UsersIn(n)) BY DEF BackOffers, Ready
<1> HIDE DEF t
<1>12. CASE ~Affordable(case.chip)
  <2>1. UNCHANGED <<keys, fused, fusedTiles>> BY <1>10, <1>12
  <2>2. LabelInv' /\ FusedInv' BY <1>1, <1>2, <2>1, FusedKept
  <2>3. BackInv' BY <1>1, <1>3, <1>4, <1>5, <2>1 DEF BackInv
  <2>. QED BY <1>3, <1>7, <2>2, <2>3 DEF Inv
<1>13. CASE Affordable(case.chip)
  <2> DEFINE F == FamilySet(graph, n)
  <2>1. n \in Ids(graph) BY <1>6 DEF Near
  <2>2. n \notin visited /\ n \notin S BY <1>9, <1>11, ContainsFacts DEF MayTake
  <2>3. Op(graph, n) \in Registered /\ (Op(graph, n) = "getitem" => Op(graph, Args(graph, n)[1]) \in MultiOutput)
    BY <1>11, BackRuleFacts
  <2>4. n # start => \A u \in FamilyUsers(graph, n) : Op(graph, u) = "output" \/ u \in S BY <1>11 DEF UsersIn
  <2> HIDE DEF n, S
  <2>5. Subgraph(graph, start, visited, S \cup F) BY <1>6, <1>8, <1>9, <2>2, <2>3, <2>4, GrowsBack
  <2>6. n \in F BY <1>8, <2>1, FamilyFacts
  <2>7. Family(n) \in Seq(Ids(graph)) /\ ToSet(Family(n)) = F BY <1>8, <2>1, FamilyList
  <2>8. fused' = PutAll(fused, Family(n)) /\ keys' = PutAll(keys, Keys(graph, n, m))
        /\ DOMAIN fusedTiles' = F \cup DOMAIN fusedTiles
    BY <1>10, <1>13, <2>7
  <2>9. fused' \in Seq(Ids(graph)) /\ ToSet(fused') = S \cup F BY <1>9, <2>7, <2>8, PutAllFacts DEF S
  <2>10. Keys(graph, n, m) \in Seq(Ids(graph)) /\ \A k \in ToSet(Keys(graph, n, m)) : Near(graph, start, S \cup F, k)
    <3> DEFINE Z == S \cup F
    <3>1. n \in Z BY <2>6
    <3> HIDE DEF Z, F
    <3>2. Keys(graph, n, m) \in Seq(Ids(graph)) /\ \A k \in ToSet(Keys(graph, n, m)) : Near(graph, start, Z, k)
      BY <1>8, <2>1, <2>3, <3>1, KeysFacts
    <3>. QED BY <3>2 DEF Z
  <2>11. keys' \in Seq(Ids(graph)) /\ ToSet(keys') = ToSet(keys) \cup ToSet(Keys(graph, n, m))
    BY <1>9, <2>8, <2>10, PutAllFacts
  <2>12. \A k : Near(graph, start, S, k) => Near(graph, start, S \cup F, k)
    <3> DEFINE Z == S \cup F
    <3>1. S \subseteq Z OBVIOUS
    <3> HIDE DEF Z
    <3>2. \A k : Near(graph, start, S, k) => Near(graph, start, Z, k) BY <3>1, NearGrows
    <3>. QED BY <3>2 DEF Z
  <2> HIDE DEF F
  <2>13. FusedInv' BY <1>3, <1>9, <2>5, <2>9, <2>10, <2>11, <2>12 DEF FusedInv
  <2>14. LabelInv'
    <3>1. ToSet(fused) = DOMAIN fusedTiles BY DEF Inv, LabelInv
    <3>2. ToSet(fused') = DOMAIN fusedTiles' BY <2>8, <2>9, <3>1 DEF S
    <3>. QED BY <1>2, <3>2 DEF LabelInv
  <2>15. BackInv' BY <1>1, <1>3, <1>4, <1>5, <2>9, <2>12 DEF BackInv
  <2>. QED BY <1>3, <1>7, <2>13, <2>14, <2>15 DEF Inv
<1>. QED BY <1>12, <1>13

LEMMA BeginFrontInv ==
    ASSUME Inv, BeginFront PROVE Inv'
PROOF
<1> DEFINE S == ToSet(fused)
<1> DEFINE ss == [i \in DOMAIN fused |-> Users(graph, fused[i])]
<1>1. /\ pc = "back" /\ pc' = "front" /\ Steady /\ UNCHANGED <<keys, fused, fusedTiles, batch>>
      /\ work' = FlattenSeq(ss)
  BY DEF BeginFront, Goto, Steady
<1>2. pc \in Trying /\ pc' \in Trying BY <1>1 DEF Trying
<1>3. /\ GraphInv' /\ InOrder' /\ StartInv' /\ BestInv' /\ LabelInv' /\ FusedInv'
      /\ graph' = graph /\ visited' = visited /\ start' = start
  BY <1>1, <1>2, FusedKept
<1>4. WellFormed(graph) /\ fused \in Seq(Ids(graph)) /\ S \subseteq Ids(graph)
  BY <1>2, SelfSeq DEF Inv, GraphInv, GraphOK, FusedInv
<1> DEFINE V == Ids(graph)
<1> DEFINE n == Len(fused)
<1>5. n \in Nat /\ DOMAIN fused = 1..n BY <1>4
<1>6. \A i \in 1..n : ss[i] \in Seq(V) /\ ToSet(ss[i]) = UserSet(graph, fused[i]) /\ fused[i] \in S
  BY <1>4, <1>5, UsersFacts DEF ToSet
<1>7. ss \in [1..n -> Seq(V)] BY <1>5, <1>6
<1> HIDE DEF ss, n, V
<1>8. FlattenSeq(ss) \in Seq(V) /\ ToSet(FlattenSeq(ss)) = UNION {ToSet(ss[i]) : i \in 1..n}
  BY <1>5, <1>7, FlattenFacts
<1>9. S \subseteq Desc(graph, S) /\ \A x \in Desc(graph, S) : UserSet(graph, x) \subseteq Desc(graph, S)
  <2> HIDE DEF S
  <2>. QED BY <1>4, DescFacts
<1> HIDE DEF S
<1>10. ToSet(work') \subseteq Desc(graph, S) BY <1>1, <1>6, <1>8, <1>9
<1>11. work' \in Seq(ToSet(work')) BY <1>1, <1>8, SelfSeq
<1>12. FrontInv'
  <2> HIDE DEF ss
  <2>1. pc' = "front" /\ fused' = fused /\ graph' = graph BY <1>1, <1>3
  <2>. QED BY <1>10, <1>11, <2>1 DEF FrontInv, S
<1>13. BackInv' BY <1>1 DEF BackInv
<1>. QED BY <1>3, <1>12, <1>13 DEF Inv

\* What a rule answers for on the way forward is computed from the subgraph.
LEMMA InferredFacts ==
    ASSUME WellFormed(graph), NEW S, S \subseteq Ids(graph), NEW n \in Desc(graph, S),
           n \notin visited, NEW T, NEW m \in FrontRule(graph, n, T)
    PROVE  LET s == Part(<<n>> \o Users(graph, n), DOMAIN m)
               items == [i \in DOMAIN s |-> <<s[i], m[s[i]]>>]
           IN /\ items \in Seq(ToSet(items))
              /\ \A b \in ToSet(items) :
                    b[1] \in Desc(graph, S) /\ (b[1] \in visited => Op(graph, b[1]) = "getitem")
PROOF
<1> DEFINE all == <<n>> \o Users(graph, n)
<1> DEFINE s == Part(all, DOMAIN m)
<1> DEFINE items == [i \in DOMAIN s |-> <<s[i], m[s[i]]>>]
<1>1. Desc(graph, S) \subseteq Ids(graph) /\ UserSet(graph, n) \subseteq Desc(graph, S) BY DescFacts
<1>2. n \in Ids(graph) BY <1>1
<1>3. all \in Seq(Ids(graph)) /\ ToSet(all) = {n} \cup UserSet(graph, n) BY <1>2, WithUsers
<1>4. s \in Seq(Ids(graph)) /\ ToSet(s) = ToSet(all) \cap DOMAIN m
  <2> DEFINE V == Ids(graph)
  <2> DEFINE D == DOMAIN m
  <2> HIDE DEF all, V, D
  <2>1. Part(all, D) \in Seq(V) /\ ToSet(Part(all, D)) = ToSet(all) \cap D BY <1>3, PartFacts DEF V
  <2>. QED BY <2>1 DEF V, D
<1> HIDE DEF all, s
<1>5. items \in Seq(ToSet(items)) /\ \A b \in ToSet(items) : b[1] \in ToSet(s) BY <1>4, PairsFacts
<1>6. ASSUME NEW x \in ToSet(s)
      PROVE  x \in Desc(graph, S) /\ (x \in visited => Op(graph, x) = "getitem")
  <2>1. CASE x = n BY <2>1
  <2>2. CASE x # n
    <3>1. x \in UserSet(graph, n) /\ x \in DOMAIN m BY <1>3, <1>4, <2>2
    <3>2. Op(graph, n) = "unbind" BY <2>2, <3>1, FrontRuleDomain
    <3>3. Op(graph, x) = "getitem" BY <1>2, <3>1, <3>2, WellFormedFacts DEF MultiOutput
    <3>. QED BY <1>1, <3>1, <3>3
  <2>. QED BY <2>1, <2>2
<1>. QED BY <1>5, <1>6 DEF items, s, all

LEMMA InferInv ==
    ASSUME Inv, Infer PROVE Inv'
PROOF
<1> DEFINE n == Head(work)
<1> DEFINE S == ToSet(fused)
<1> DEFINE maps == IF MayTake(n) THEN FrontRule(graph, n, tiles) ELSE {}
<1> DEFINE Items(m) == LET s == Part(<<n>> \o Users(graph, n), DOMAIN m)
                       IN [i \in DOMAIN s |-> <<s[i], m[s[i]]>>]
<1>1. /\ pc = "front" /\ work # <<>> /\ pc' = "batch" /\ Steady /\ UNCHANGED <<keys, fused, fusedTiles>>
      /\ work' = Tail(work)
      /\ batch' = <<>> \/ \E m \in maps : batch' = Items(m)
  BY DEF Infer, Goto, Steady
<1>2. pc \in Trying /\ pc' \in Trying BY <1>1 DEF Trying
<1>3. /\ GraphInv' /\ InOrder' /\ StartInv' /\ BestInv' /\ LabelInv' /\ FusedInv'
      /\ graph' = graph /\ visited' = visited /\ start' = start
  BY <1>1, <1>2, FusedKept
<1>4. WellFormed(graph) /\ fused \in Seq(Ids(graph)) /\ S \subseteq Ids(graph)
  BY <1>2, SelfSeq DEF Inv, GraphInv, GraphOK, FusedInv
<1>5. work \in Seq(ToSet(work)) /\ ToSet(work) \subseteq Desc(graph, S) BY <1>1 DEF Inv, FrontInv
<1>6. n \in Desc(graph, S) /\ ToSet(work') \subseteq Desc(graph, S) /\ work' \in Seq(ToSet(work'))
  BY <1>1, <1>5, ListFacts
<1>7. /\ batch' \in Seq(ToSet(batch'))
      /\ \A b \in ToSet(batch') :
            b[1] \in Desc(graph, S) /\ (b[1] \in visited => Op(graph, b[1]) = "getitem")
  <2>1. CASE batch' = <<>> BY <2>1 DEF ToSet
  <2>2. CASE \E m \in maps : batch' = Items(m)
    <3>1. PICK m \in maps : batch' = Items(m) BY <2>2
    <3>2. MayTake(n) /\ m \in FrontRule(graph, n, tiles) BY <3>1
    <3>3. n \notin visited BY <3>2 DEF MayTake
    <3> HIDE DEF n, S
    <3>. QED BY <1>4, <1>6, <3>1, <3>2, <3>3, InferredFacts
  <2>. QED BY <1>1, <2>1, <2>2
<1>8. fused' = fused BY <1>1
<1> HIDE DEF maps, Items, n
<1>9. FrontInv' BY <1>1, <1>3, <1>6, <1>7, <1>8 DEF FrontInv
<1>10. BackInv' BY <1>1 DEF BackInv
<1>. QED BY <1>3, <1>9, <1>10 DEF Inv

LEMMA FrontAskInv ==
    ASSUME Inv, FrontAsk PROVE Inv'
PROOF
<1>1. /\ pc = "batch" /\ batch # <<>> /\ pc' = "batchMeasured" /\ Steady
      /\ UNCHANGED <<keys, fused, fusedTiles, work, batch>>
  BY DEF FrontAsk, Goto, Steady, fuseVars
<1>2. pc \in Trying /\ pc' \in Trying BY <1>1 DEF Trying
<1>3. /\ GraphInv' /\ InOrder' /\ StartInv' /\ BestInv' /\ LabelInv' /\ FusedInv'
      /\ graph' = graph /\ visited' = visited /\ start' = start
  BY <1>1, <1>2, FusedKept
<1>4. FrontInv' BY <1>1, <1>3 DEF Inv, FrontInv
<1>5. BackInv' BY <1>1 DEF BackInv
<1>. QED BY <1>3, <1>4, <1>5 DEF Inv

LEMMA FrontSkipInv ==
    ASSUME Inv, FrontSkip PROVE Inv'
PROOF
<1>1. /\ pc = "batch" /\ batch # <<>> /\ batch' = Tail(batch) /\ Steady
      /\ UNCHANGED <<keys, fused, fusedTiles, work>>
      /\ Raise \/ pc' = pc
  BY DEF FrontSkip, Steady
<1>2. CASE Raise BY <1>1, <1>2, RaiseInv
<1>3. CASE pc' = pc
  <2>1. pc \in Trying /\ pc' \in Trying BY <1>1, <1>3 DEF Trying
  <2>2. /\ GraphInv' /\ InOrder' /\ StartInv' /\ BestInv' /\ LabelInv' /\ FusedInv'
        /\ graph' = graph /\ visited' = visited /\ start' = start
    BY <1>1, <2>1, FusedKept
  <2>3. /\ batch \in Seq(ToSet(batch))
        /\ \A b \in ToSet(batch) :
              b[1] \in Desc(graph, ToSet(fused)) /\ (b[1] \in visited => Op(graph, b[1]) = "getitem")
        /\ work \in Seq(ToSet(work)) /\ ToSet(work) \subseteq Desc(graph, ToSet(fused))
    BY <1>1 DEF Inv, FrontInv
  <2>4. ToSet(batch') \subseteq ToSet(batch) /\ batch' \in Seq(ToSet(batch')) BY <1>1, <2>3, ListFacts
  <2>5. fused' = fused /\ work' = work BY <1>1
  <2>6. FrontInv' BY <1>1, <1>3, <2>2, <2>3, <2>4, <2>5 DEF FrontInv
  <2>7. BackInv' BY <1>1, <1>3 DEF BackInv
  <2>. QED BY <2>2, <2>6, <2>7 DEF Inv
<1>. QED BY <1>1, <1>2, <1>3

LEMMA EndBatchInv ==
    ASSUME Inv, EndBatch PROVE Inv'
PROOF
<1>1. pc = "batch" /\ pc' = "front" /\ Steady /\ UNCHANGED <<keys, fused, fusedTiles, work>>
  BY DEF EndBatch, Goto, Steady, fuseVars
<1>2. pc \in Trying /\ pc' \in Trying BY <1>1 DEF Trying
<1>3. /\ GraphInv' /\ InOrder' /\ StartInv' /\ BestInv' /\ LabelInv' /\ FusedInv'
      /\ graph' = graph /\ visited' = visited /\ start' = start
  BY <1>1, <1>2, FusedKept
<1>4. FrontInv' BY <1>1, <1>3 DEF Inv, FrontInv
<1>5. BackInv' BY <1>1 DEF BackInv
<1>. QED BY <1>3, <1>4, <1>5 DEF Inv

LEMMA EndRoundInv ==
    ASSUME Inv, EndRound PROVE Inv'
PROOF
<1>1. pc = "front" /\ pc' \in {"round", "report"} /\ Steady /\ UNCHANGED <<keys, fused, fusedTiles>>
  BY DEF EndRound, Goto, Steady, fuseVars
<1>2. pc \in Trying /\ pc' \in Trying BY <1>1 DEF Trying
<1>3. GraphInv' /\ InOrder' /\ StartInv' /\ BestInv' /\ LabelInv' /\ FusedInv' BY <1>1, <1>2, FusedKept
<1>4. FrontInv' /\ BackInv' BY <1>1 DEF FrontInv, BackInv
<1>. QED BY <1>3, <1>4 DEF Inv

LEMMA MeasureStepInv ==
    ASSUME Inv, MeasureStep PROVE Inv'
PROOF
<1>1. pc \in {"backMeasured", "batchMeasured", "report"} /\ Steady /\ UNCHANGED fuseVars /\ (Raise \/ pc' = pc)
  BY DEF MeasureStep, Steady
<1>2. UNCHANGED <<keys, fused, fusedTiles, work, batch>> BY <1>1 DEF fuseVars
<1>3. CASE Raise BY <1>1, <1>2, <1>3, RaiseInv
<1>4. CASE pc' = pc
  <2>1. pc \in Trying /\ pc' \in Trying BY <1>1, <1>4 DEF Trying
  <2>2. /\ GraphInv' /\ InOrder' /\ StartInv' /\ BestInv' /\ LabelInv' /\ FusedInv'
        /\ graph' = graph /\ visited' = visited /\ start' = start
    BY <1>1, <1>2, <2>1, FusedKept
  <2>3. FrontInv' BY <1>2, <1>4, <2>2 DEF Inv, FrontInv
  <2>4. BackInv' BY <1>2, <1>4, <2>2 DEF Inv, BackInv
  <2>. QED BY <2>2, <2>3, <2>4 DEF Inv
<1>. QED BY <1>1, <1>3, <1>4

LEMMA FrontTakeInv ==
    ASSUME Inv, FrontTake PROVE Inv'
PROOF
<1> DEFINE n == Head(batch)[1]
<1> DEFINE t == Head(batch)[2]
<1> DEFINE S == ToSet(fused)
<1>1. pc = "batchMeasured" /\ pc' = "batch" /\ Steady /\ batch' = Tail(batch) /\ work' = work
  BY DEF FrontTake, Goto, Steady
<1>2. pc \in Trying /\ pc' \in Trying BY <1>1 DEF Trying
<1>3. /\ GraphInv' /\ InOrder' /\ StartInv' /\ BestInv'
      /\ graph' = graph /\ visited' = visited /\ start' = start
  BY <1>1, <1>2, SteadyInv
<1>4. /\ batch \in Seq(ToSet(batch)) /\ batch # <<>>
      /\ \A b \in ToSet(batch) :
            b[1] \in Desc(graph, S) /\ (b[1] \in visited => Op(graph, b[1]) = "getitem")
      /\ work \in Seq(ToSet(work)) /\ ToSet(work) \subseteq Desc(graph, S)
  BY <1>1 DEF Inv, FrontInv
<1>5. Head(batch) \in ToSet(batch) /\ ToSet(batch') \subseteq ToSet(batch) /\ batch' \in Seq(ToSet(batch'))
  BY <1>1, <1>4, ListFacts
<1>6. n \in Desc(graph, S) /\ (n \in visited => Op(graph, n) = "getitem") BY <1>4, <1>5
<1>7. BackInv' BY <1>1 DEF BackInv
<1>8. GraphOK(graph) /\ WellFormed(graph) BY DEF Inv, GraphInv, GraphOK
<1>9. fused \in Seq(Ids(graph)) /\ keys \in Seq(Ids(graph)) /\ Subgraph(graph, start, visited, S)
      /\ \A k \in ToSet(keys) : Near(graph, start, S, k)
  BY <1>2 DEF Inv, FusedInv
<1>10. S \subseteq Ids(graph) BY <1>9, SelfSeq
<1>11. Desc(graph, S) \subseteq Ids(graph)
  <2> HIDE DEF S
  <2>. QED BY <1>8, <1>10, DescFacts
<1>12. n \in Ids(graph) BY <1>6, <1>11
<1>13. PICK m \in FrontOffers(n, t) :
          IF Affordable(case.chip)
          THEN /\ keys' = PutAll(Put(keys, n), Keys(graph, n, m))
               /\ fused' = Put(fused, n)
               /\ fusedTiles' = [x \in {n} \cup DOMAIN fusedTiles |-> IF x = n THEN t ELSE fusedTiles[x]]
          ELSE UNCHANGED <<keys, fused, fusedTiles>>
  BY DEF FrontTake
<1>14. BackRule(graph, n, Only(n, t)) # {} /\ ~Ring(n) BY DEF FrontOffers
<1>15. CASE ~Affordable(case.chip)
  <2> HIDE DEF n, t
  <2>1. UNCHANGED <<keys, fused, fusedTiles>> BY <1>13, <1>15
  <2>2. LabelInv' /\ FusedInv' BY <1>1, <1>2, <2>1, FusedKept
  <2>3. FrontInv' BY <1>1, <1>3, <1>4, <1>5, <2>1 DEF FrontInv
  <2>. QED BY <1>3, <1>7, <2>2, <2>3 DEF Inv
<1>16. CASE Affordable(case.chip)
  <2>1. fused # <<>>
    <3> SUFFICES ASSUME fused = <<>> PROVE FALSE OBVIOUS
    <3>1. S = {} BY DEF ToSet
    <3>2. Desc(graph, {}) = {} BY <1>8, EmptySubgraph
    <3>. QED BY <1>6, <3>1, <3>2
  <2>2. WayBack(graph, S, n) \cap S = {}
    <3> HIDE DEF n
    <3>. QED BY <1>14, <2>1 DEF Ring, WayBack
  <2> HIDE DEF t
  <2>3. Op(graph, n) \in Registered /\ (Op(graph, n) = "getitem" => Op(graph, Args(graph, n)[1]) \in MultiOutput)
    <3> DEFINE T == Only(n, t)
    <3>1. BackRule(graph, n, T) # {} BY <1>14
    <3> HIDE DEF T, n
    <3>. QED BY <3>1, BackRuleFacts
  <2> HIDE DEF n
  <2>4. fused' = Put(fused, n) /\ keys' = PutAll(Put(keys, n), Keys(graph, n, m))
        /\ DOMAIN fusedTiles' = {n} \cup DOMAIN fusedTiles
    BY <1>13, <1>16
  <2>5. fused' \in Seq(Ids(graph)) /\ ToSet(fused') = S \cup {n} BY <1>9, <1>12, <2>4, PutFacts
  <2> DEFINE Z == S \cup {n}
  <2> HIDE DEF S
  <2>6. Subgraph(graph, start, visited, Z) BY <1>6, <1>8, <1>9, <2>2, <2>3, GrowsFront
  <2>7. S \subseteq Z /\ n \in Z /\ Z \subseteq Ids(graph) BY <1>10, <1>12
  <2> HIDE DEF Z
  <2>8. Keys(graph, n, m) \in Seq(Ids(graph)) /\ \A k \in ToSet(Keys(graph, n, m)) : Near(graph, start, Z, k)
    BY <1>8, <1>12, <2>3, <2>7, KeysFacts
  <2>9. \A k : Near(graph, start, S, k) => Near(graph, start, Z, k) BY <2>7, NearGrows
  <2>10. Near(graph, start, Z, n) BY <1>12, <2>7 DEF Near
  <2>11. keys' \in Seq(Ids(graph)) /\ ToSet(keys') = ToSet(keys) \cup {n} \cup ToSet(Keys(graph, n, m))
    <3> DEFINE k0 == Put(keys, n)
    <3>1. k0 \in Seq(Ids(graph)) /\ ToSet(k0) = ToSet(keys) \cup {n} BY <1>9, <1>12, PutFacts
    <3> HIDE DEF k0
    <3>2. PutAll(k0, Keys(graph, n, m)) \in Seq(Ids(graph))
          /\ ToSet(PutAll(k0, Keys(graph, n, m))) = ToSet(k0) \cup ToSet(Keys(graph, n, m))
      BY <2>8, <3>1, PutAllFacts
    <3>. QED BY <2>4, <3>1, <3>2 DEF k0
  <2>12. ToSet(fused') = Z BY <2>5 DEF Z
  <2>13. FusedInv' BY <1>3, <1>9, <2>5, <2>6, <2>8, <2>9, <2>10, <2>11, <2>12 DEF FusedInv
  <2>14. LabelInv'
    <3>1. ToSet(fused) = DOMAIN fusedTiles BY DEF Inv, LabelInv
    <3>2. ToSet(fused') = DOMAIN fusedTiles' BY <2>4, <2>5, <3>1 DEF S
    <3>. QED BY <1>2, <3>2 DEF LabelInv
  <2>15. Desc(graph, S) \subseteq Desc(graph, Z) BY <1>8, <2>7, DescGrows
  <2>16. FrontInv' BY <1>1, <1>3, <1>4, <1>5, <2>12, <2>15 DEF FrontInv
  <2>. QED BY <1>3, <1>7, <2>13, <2>14, <2>16 DEF Inv
<1>. QED BY <1>15, <1>16

-----------------------------------------------------------------------------
(* The pass.                                                               *)

LEMMA FinishInv ==
    ASSUME Inv, Finish PROVE Inv'
PROOF
<1> USE DEF Inv
<1>1. pc' = "done" /\ UNCHANGED passVars /\ UNCHANGED fuseVars /\ starts' = starts
  BY DEF Finish, Goto, scanVars
<1>2. GraphInv' /\ InOrder' BY <1>1, GraphKept DEF GraphInv
<1>3. LabelInv' BY <1>1 DEF LabelInv, fuseVars
<1>4. StartInv' /\ BestInv' /\ FusedInv' /\ BackInv' /\ FrontInv'
  BY <1>1 DEF StartInv, BestInv, FusedInv, BackInv, FrontInv, Trying
<1>. QED BY <1>2, <1>3, <1>4

LEMMA TransformFailsInv ==
    ASSUME Inv, TransformFails PROVE Inv'
PROOF
<1> USE DEF Inv
<1>1. /\ pc = "found" /\ pc' = "starts" /\ visited' = visited \cup Kernel /\ starts' = StartNodes(graph)
      /\ case' = case /\ graph' = graph /\ made' = made /\ late' = late /\ UNCHANGED fuseVars
  BY DEF TransformFails, Goto
<1>2. Kernel \subseteq Ids(graph)
  <2>1. best.nodes \in Seq(Ids(graph)) BY <1>1 DEF BestInv
  <2>. QED BY <2>1, SelfSeq DEF Kernel
<1>3. Ids(graph) \subseteq Ids(case.graph) \cup ToSet(FreshNames)
  <2>1. \A i \in 1..made : FreshNames[i] \in ToSet(FreshNames)
    <3>1. made \in 0..Len(FreshNames) BY DEF GraphInv
    <3>2. DOMAIN FreshNames = 1..Len(FreshNames) /\ Len(FreshNames) \in Nat BY NamesAssumption
    <3>. QED BY <3>1, <3>2 DEF ToSet
  <2>. QED BY <2>1 DEF GraphInv
<1>4. starts' \in Seq(Ids(graph)) BY <1>1, StartNodesFacts, WellFormedFacts DEF GraphInv, GraphOK
<1>5. visited' \subseteq Ids(case.graph) \cup ToSet(FreshNames) BY <1>1, <1>2, <1>3 DEF GraphInv
<1>6. GraphInv' BY <1>1, <1>4, <1>5 DEF GraphInv
<1>7. InOrder' BY <1>1 DEF InOrder
<1>8. LabelInv' BY <1>1 DEF LabelInv, fuseVars
<1>9. StartInv' /\ BestInv' /\ FusedInv' /\ BackInv' /\ FrontInv'
  BY <1>1 DEF StartInv, BestInv, FusedInv, BackInv, FrontInv, Trying
<1>. QED BY <1>6, <1>7, <1>8, <1>9

LEMMA TransformInv ==
    ASSUME Inv, Transform PROVE Inv'
PROOF
<1> USE DEF Inv
<1>1. /\ pc = "found" /\ pc' = "insert" /\ UNCHANGED passVars /\ UNCHANGED scanVars /\ UNCHANGED fuseVars
      /\ KernelOutputs # <<>> /\ NamesDefined
  BY DEF Transform, Goto
<1>2. graph' = graph /\ visited' = visited /\ starts' = starts /\ start' = start /\ best' = best
  BY <1>1 DEF passVars, scanVars
<1>3. GraphInv' /\ InOrder' BY <1>1, <1>2, GraphKept DEF GraphInv
<1>4. LabelInv' BY <1>1 DEF LabelInv, fuseVars
<1>5. KernelOutputs' = KernelOutputs /\ NamesDefined' = NamesDefined
  BY <1>2 DEF KernelOutputs, NamesDefined, Kernel
<1>6. BestInv' BY <1>1, <1>2, <1>5 DEF BestInv
<1>7. StartInv' /\ FusedInv' /\ BackInv' /\ FrontInv'
  BY <1>1 DEF StartInv, FusedInv, BackInv, FrontInv, Trying
<1>. QED BY <1>3, <1>4, <1>6, <1>7

LEMMA NewNames ==
    ASSUME NEW a \in Nat, NEW n \in Nat, a + n <= Len(FreshNames)
    PROVE  LET new == SubSeq(FreshNames, a + 1, a + n) IN
           /\ new \in Seq(ToSet(FreshNames)) /\ Len(new) = n /\ Distinct(new)
           /\ ToSet(new) \subseteq {FreshNames[i] : i \in 1..(a + n)}
           /\ ToSet(new) \cap {FreshNames[i] : i \in 1..a} = {}
PROOF
<1> DEFINE new == SubSeq(FreshNames, a + 1, a + n)
<1> DEFINE V == ToSet(FreshNames)
<1> DEFINE L == Len(FreshNames)
<1>1. FreshNames \in Seq(V) /\ L \in Nat /\ DOMAIN FreshNames = 1..L /\ \A i \in 1..L : FreshNames[i] \in V
  <2>1. FreshNames \in Seq(V) BY NamesAssumption
  <2> HIDE DEF V
  <2>. QED BY <2>1
<1>2. \A i, j \in 1..L : FreshNames[i] = FreshNames[j] => i = j BY <1>1, NamesAssumption DEF IsInjective
<1> HIDE DEF V
<1>3. new \in Seq(V) /\ Len(new) = n /\ DOMAIN new = 1..n /\ \A i \in 1..n : new[i] = FreshNames[a + i]
  BY <1>1
<1> HIDE DEF new
<1>4. \A i \in 1..n : a + i \in 1..L /\ a + i \in 1..(a + n) /\ a + i \notin 1..a BY <1>1
<1>5. \A i, j \in 1..n : i < j => a + i # a + j OBVIOUS
<1>6. Distinct(new)
  <2> SUFFICES ASSUME NEW i \in 1..n, NEW j \in 1..n, i < j, new[i] = new[j] PROVE FALSE
    BY <1>3 DEF Distinct, Ahead
  <2>1. FreshNames[a + i] = FreshNames[a + j] /\ a + i \in 1..L /\ a + j \in 1..L BY <1>3, <1>4
  <2>2. a + i = a + j BY <1>2, <2>1
  <2>. QED BY <1>5, <2>2
<1>7. ToSet(new) = {FreshNames[a + i] : i \in 1..n} BY <1>3 DEF ToSet
<1>8. ToSet(new) \subseteq {FreshNames[i] : i \in 1..(a + n)} BY <1>4, <1>7
<1>9. \A i \in 1..a : i \in 1..L BY <1>1
<1>10. ASSUME NEW i \in 1..n, NEW j \in 1..a, FreshNames[a + i] = FreshNames[j] PROVE FALSE
  <2>1. a + i = j BY <1>2, <1>4, <1>9, <1>10
  <2>. QED BY <1>4, <2>1
<1>11. ToSet(new) \cap {FreshNames[i] : i \in 1..a} = {} BY <1>7, <1>10
<1>. QED BY <1>3, <1>6, <1>8, <1>11 DEF new, V

LEMMA InsertKernelInv ==
    ASSUME Inv, InsertKernel PROVE Inv'
PROOF
<1> DEFINE ins == InGraphOrder(graph, KernelInputs)
<1> DEFINE outs == KernelOutputs
<1> DEFINE n == IF Len(outs) = 1 THEN 1 ELSE Len(outs) + 1
<1> DEFINE new == SubSeq(FreshNames, made + 1, made + n)
<1>1. pc = "insert" /\ pc' = "starts" /\ starts' = StartNodes(graph') /\ case' = case /\ visited' = visited
      /\ UNCHANGED fuseVars
  BY DEF InsertKernel, Goto
<1>2. PICK anchor \in ToSet(outs) :
        /\ made + n <= Len(FreshNames)
        /\ made' = made + n
        /\ graph' = Replaced(graph, Kernel, ins, outs, anchor, new)
        /\ late' = (late \/ anchor # Place(graph, outs))
  BY DEF InsertKernel, Replaced, Place
<1>3. /\ GraphOK(graph) /\ WellFormed(graph) /\ IsList(graph) /\ made \in Nat /\ case \in Cases
      /\ Ids(graph) \subseteq Ids(case.graph) \cup {FreshNames[i] : i \in 1..made}
      /\ InOrder
  <2>1. Len(FreshNames) \in Nat BY NamesAssumption
  <2>2. made \in 0..Len(FreshNames) /\ GraphOK(graph) BY DEF Inv, GraphInv
  <2>3. made \in Nat BY <2>1, <2>2
  <2>4. IsList(graph) BY <2>2, WellFormedFacts DEF GraphOK
  <2>. QED BY <2>2, <2>3, <2>4 DEF Inv, GraphInv, GraphOK
<1>4. /\ Subgraph(graph, start, visited, Kernel)
      /\ KernelOutputs # <<>> /\ NamesDefined
  BY <1>1 DEF Inv, BestInv, Kernel
<1>5. Kernel \subseteq Ids(graph) BY <1>4 DEF Subgraph
<1>6. ins \in Seq(Ids(graph)) /\ ToSet(ins) = (UNION {InputSet(graph, m) : m \in Kernel}) \ Kernel
  <2> DEFINE V == Ids(graph)
  <2> DEFINE S == KernelInputs
  <2>1. S = (UNION {InputSet(graph, m) : m \in Kernel}) \ Kernel BY DEF KernelInputs
  <2>2. S \subseteq V BY <1>3, <1>5, <2>1, WellFormedFacts
  <2> HIDE DEF S
  <2>3. InGraphOrder(graph, S) \in Seq(Ids(graph)) /\ ToSet(InGraphOrder(graph, S)) = Ids(graph) \cap S
    BY <1>3, InGraphOrderFacts
  <2>4. Ids(graph) \cap S = S BY <2>2
  <2>. QED BY <2>1, <2>3, <2>4 DEF S
<1>7. outs \in Seq(Ids(graph)) /\ ToSet(outs) = {m \in Kernel : ~(UserSet(graph, m) \subseteq Kernel)}
  <2> DEFINE S == {m \in Kernel : ~(UserSet(graph, m) \subseteq Kernel)}
  <2>1. outs = InGraphOrder(graph, S) BY DEF KernelOutputs
  <2>2. Ids(graph) \cap S = S BY <1>5
  <2> HIDE DEF S, outs
  <2>3. InGraphOrder(graph, S) \in Seq(Ids(graph)) /\ ToSet(InGraphOrder(graph, S)) = Ids(graph) \cap S
    BY <1>3, InGraphOrderFacts
  <2>. QED BY <2>1, <2>2, <2>3 DEF S
<1>8. n \in Nat
  <2> HIDE DEF outs
  <2>. QED BY <1>7
<1> HIDE DEF ins, outs, n
<1>9. /\ new \in Seq(ToSet(FreshNames)) /\ Len(new) = n /\ Distinct(new)
      /\ ToSet(new) \subseteq {FreshNames[i] : i \in 1..(made + n)}
      /\ ToSet(new) \cap {FreshNames[i] : i \in 1..made} = {}
  BY <1>2, <1>3, <1>8, NewNames
<1> HIDE DEF new
<1>10. ToSet(new) \cap Ids(graph) = {}
  <2>1. ToSet(new) \subseteq ToSet(FreshNames) BY <1>9, SelfSeq
  <2>2. Ids(case.graph) \cap ToSet(FreshNames) = {} BY <1>3, CaseGraphOK
  <2>. QED BY <1>3, <1>9, <2>1, <2>2
<1>11. Replaces(graph, Kernel, ins, outs, anchor, new)
  <2>1. Len(new) = IF Len(outs) = 1 THEN 1 ELSE Len(outs) + 1 BY <1>9 DEF n
  <2>2. \A m \in Kernel : Op(graph, m) = "getitem" => Args(graph, m)[1] \in Kernel BY <1>4 DEF NamesDefined
  <2>3. /\ Kernel \subseteq Ids(graph) \ ToSet(FreshNames)
        /\ \A m \in Kernel : Op(graph, m) \in Registered
        /\ \A m \in Kernel : \A x \in InputSet(graph, m) : x \in Desc(graph, Kernel) => x \in Kernel
    BY <1>4 DEF Subgraph
  <2>. QED BY <1>2, <1>3, <1>6, <1>7, <1>9, <1>10, <2>1, <2>2, <2>3 DEF Replaces
<1>12. GraphOK(graph') /\ Ids(graph') = (Ids(graph) \ Kernel) \cup ToSet(new) BY <1>2, <1>11, ReplacedFacts
<1>13. GraphInv'
  <2>1. made' \in 0..Len(FreshNames)
    <3>1. Len(FreshNames) \in Nat BY NamesAssumption
    <3>. QED BY <1>2, <1>3, <1>8, <3>1
  <2>2. {FreshNames[i] : i \in 1..made} \subseteq {FreshNames[i] : i \in 1..made'}
    <3>1. \A i \in 1..made : i \in 1..made' BY <1>2, <1>3, <1>8
    <3>. QED BY <3>1
  <2>3. Ids(graph') \subseteq Ids(case.graph) \cup {FreshNames[i] : i \in 1..made'}
    BY <1>2, <1>3, <1>9, <1>12, <2>2
  <2>4. starts' \in Seq(Ids(graph')) BY <1>1, <1>12, StartNodesFacts, WellFormedFacts DEF GraphOK
  <2>5. visited' \subseteq Ids(case'.graph) \cup ToSet(FreshNames) BY <1>1 DEF Inv, GraphInv
  <2>. QED BY <1>1, <1>3, <1>12, <2>1, <2>3, <2>4, <2>5 DEF GraphInv
<1>14. InOrder'
  <2> SUFFICES ASSUME ~late' PROVE \A m \in Ids(graph') : \A x \in InputSet(graph', m) : Earlier(graph', x, m)
    BY DEF InOrder
  <2>1. ~late /\ anchor = Place(graph, outs) BY <1>2
  <2>2. \A m \in Ids(graph) : \A x \in InputSet(graph, m) : Earlier(graph, x, m) BY <1>3, <2>1 DEF InOrder
  <2>3. graph' = Replaced(graph, Kernel, ins, outs, Place(graph, outs), new) BY <1>2, <2>1
  <2>4. Replaces(graph, Kernel, ins, outs, Place(graph, outs), new) BY <1>11, <2>1
  <2>. QED BY <2>2, <2>3, <2>4, ReplacedInOrder
<1>15. LabelInv' BY <1>1 DEF Inv, LabelInv, fuseVars
<1>16. StartInv' /\ BestInv' /\ FusedInv' /\ BackInv' /\ FrontInv'
  BY <1>1 DEF StartInv, BestInv, FusedInv, BackInv, FrontInv, Trying
<1>. QED BY <1>13, <1>14, <1>15, <1>16 DEF Inv

LEMMA StutterInv ==
    ASSUME Inv, UNCHANGED vars PROVE Inv'
PROOF
<1>1. UNCHANGED <<passVars, pc, scanVars, fuseVars>> BY DEF vars
<1>2. GraphInv' /\ InOrder' BY <1>1, GraphKept DEF Inv, GraphInv, scanVars
<1>3. LabelInv' /\ StartInv' BY <1>1 DEF Inv, LabelInv, StartInv, passVars, scanVars, fuseVars
<1>4. KernelOutputs' = KernelOutputs /\ NamesDefined' = NamesDefined
  BY <1>1 DEF KernelOutputs, NamesDefined, Kernel, passVars, scanVars
<1>5. BestInv' BY <1>1, <1>4 DEF Inv, BestInv, passVars, scanVars
<1>6. FusedInv' BY <1>1 DEF Inv, FusedInv, passVars, scanVars, fuseVars
<1>7. BackInv' /\ FrontInv' BY <1>1 DEF Inv, BackInv, FrontInv, passVars, scanVars, fuseVars
<1>. QED BY <1>2, <1>3, <1>5, <1>6, <1>7 DEF Inv

LEMMA NextInv ==
    ASSUME Inv, [Next]_vars PROVE Inv'
PROOF
<1>1. CASE Search
  <2>1. CASE TakeStart \/ TakeDim \/ EndDim \/ EndStart
    BY <2>1, TakeStartInv, TakeDimInv, EndDimInv, EndStartInv
  <2>2. CASE BeginBack \/ BackAsk \/ BackTake \/ BackSkip
    BY <2>2, BeginBackInv, BackAskInv, BackTakeInv, BackSkipInv
  <2>3. CASE BeginFront \/ Infer \/ FrontAsk \/ FrontTake \/ FrontSkip
    BY <2>3, BeginFrontInv, InferInv, FrontAskInv, FrontTakeInv, FrontSkipInv
  <2>4. CASE EndBatch \/ EndRound \/ MeasureStep BY <2>4, EndBatchInv, EndRoundInv, MeasureStepInv
  <2>. QED BY <1>1, <2>1, <2>2, <2>3, <2>4 DEF Search
<1>2. CASE Transform BY <1>2, TransformInv
<1>3. CASE TransformFails BY <1>3, TransformFailsInv
<1>4. CASE InsertKernel BY <1>4, InsertKernelInv
<1>5. CASE Finish BY <1>5, FinishInv
<1>6. CASE UNCHANGED vars BY <1>6, StutterInv
<1>. QED BY <1>1, <1>2, <1>3, <1>4, <1>5, <1>6 DEF Next

\* The invariant of the pass, for any graphs, chips and limits.
THEOREM SpecInv ==
    Spec => []Inv
PROOF
<1>1. Init => Inv BY InitInv
<1>2. Inv /\ [Next]_vars => Inv' BY NextInv
<1>. QED BY <1>1, <1>2, PTL DEF Spec

\* The pass is at one of its labels, what was set aside are nodes, the tiles are those
\* of the members of the subgraph, and every operand is a node of the graph.
THEOREM FusionTyping ==
    Spec => []TypeOK
PROOF
<1>1. Inv => TypeOK BY InvImpliesTypeOK
<1>. QED BY <1>1, SpecInv, PTL

\* No value leaves a subgraph and comes back to it (has_ring_fuse, and the test of all
\* users on the way back), whatever the rules of the tiles say.
THEOREM KernelsAreConvex ==
    Spec => []Convex
PROOF
<1>1. Inv => Convex
  <2> SUFFICES ASSUME Inv, pc \in {"found", "insert"} PROVE Convex BY DEF Convex
  <2>1. Subgraph(graph, start, visited, Kernel) /\ WellFormed(graph)
    BY DEF Inv, BestInv, GraphInv, GraphOK, Kernel
  <2> DEFINE K == Kernel
  <2>2. Subgraph(graph, start, visited, K) BY <2>1
  <2> HIDE DEF K
  <2>3. Closure(graph, [x \in Ids(graph) |-> UserSet(graph, x)], K)
           \cap Closure(graph, [x \in Ids(graph) |-> InputSet(graph, x)], K) \subseteq K
    BY <2>1, <2>2, SubgraphIsConvex
  <2>. QED BY <2>3 DEF Convex, K
<1>. QED BY <1>1, SpecInv, PTL

\* The graph stays in an order in which it can be run, as long as every kernel is put
\* before the first of its outputs (prepare_fusion_insertion, triton_fusion_pass).
THEOREM GraphStaysInOrder ==
    Spec => []InOrder
PROOF
<1>1. Inv => InOrder BY DEF Inv
<1>. QED BY <1>1, SpecInv, PTL

\* A subgraph that was set aside does not come back (visited_subgraphs,
\* check_nodes_limits).
THEOREM SetAsideIsAvoided ==
    Spec => []NoRetry
PROOF
<1>1. Inv => NoRetry
  <2> SUFFICES ASSUME Inv, pc \in {"found", "insert"} PROVE NoRetry BY DEF NoRetry
  <2>1. Subgraph(graph, start, visited, Kernel) /\ best.nodes \in Seq(Ids(graph)) /\ best.nodes # <<>>
    BY DEF Inv, BestInv, Kernel
  <2>2. Kernel # {}
    <3>1. 1 \in DOMAIN best.nodes BY <2>1
    <3>. QED BY <3>1 DEF Kernel, ToSet
  <2>. QED BY <2>1, <2>2 DEF NoRetry, Subgraph
<1>. QED BY <1>1, SpecInv, PTL

-----------------------------------------------------------------------------
(* What a back rule answers with.                                           *)

AtMostOne(S) == \A x, y \in S : x = y

\* A map that says something of every node it names.
Full(m) == \A x \in DOMAIN m : m[x] # <<>>

LEMMA OperandTilesFull ==
    ASSUME NEW S, NEW F(_)
    PROVE  Full(OperandTiles(S, F))
BY DEF Full, OperandTiles

LEMMA OneEntryFull ==
    ASSUME NEW x, NEW v
    PROVE  Full(Only(x, <<v>>))
BY DEF Full, Only

\* A dimension has at most one place.
LEMMA SamePlaceFacts ==
    ASSUME NEW s, NEW t, NEW d, NEW taken
    PROVE  AtMostOne(SamePlace(s, t, d, taken)) /\ SamePlace(s, t, d, taken) \subseteq Int
PROOF
<1> DEFINE found == {i \in 0 .. Len(t) - 1 :
                        /\ Product(SubSeq(t, 1, i)) = Product(SubSeq(s, 1, d))
                        /\ t[i + 1] = s[d + 1]
                        /\ i \notin taken}
<1>1. SamePlace(s, t, d, taken) = {i \in found : \A j \in found : i <= j} BY DEF SamePlace
<1>2. found \subseteq Int OBVIOUS
<1> HIDE DEF found
<1>3. ASSUME NEW i \in SamePlace(s, t, d, taken), NEW j \in SamePlace(s, t, d, taken) PROVE i = j
  <2>1. i \in Int /\ j \in Int /\ i <= j /\ j <= i BY <1>1, <1>2
  <2>. QED BY <2>1
<1>. QED BY <1>1, <1>2, <1>3 DEF AtMostOne

LEMMA MatmulAnswer ==
    ASSUME NEW G, NEW n, NEW t
    PROVE  \E F : BackMatmul(G, n, t) = {F} /\ Full(F)
PROOF
<1> DEFINE tile == t[1]
<1> DEFINE rank == Len(Shape(G, n))
<1> DEFINE row == rank - 2
<1> DEFINE col == rank - 1
<1> DEFINE Named(x) == \/ x = MatInput(G, n) /\ tile \ {col} # {}
                       \/ x = Filter(G, n) /\ tile \ {row} # {}
                       \/ x \in Bias(G, n) /\ (col \in tile \/ (row \in tile /\ Len(Shape(G, x)) = rank))
<1> DEFINE Carried(x) ==
              (IF x = MatInput(G, n) THEN tile \ {col} ELSE {})
                \cup (IF x = Filter(G, n) THEN tile \ {row} ELSE {})
                \cup (IF x \in Bias(G, n)
                      THEN LET r == Len(Shape(G, x)) IN
                           {d \in {r - 1} : col \in tile /\ Dim(Shape(G, x), d) > 1}
                             \cup {d \in {r - 2} : row \in tile /\ r = rank /\ Dim(Shape(G, x), d) > 1}
                      ELSE {})
<1> DEFINE S == {y \in InputSet(G, n) : Named(y)}
<1> DEFINE F == [x \in S |-> <<Carried(x)>>]
<1>1. BackMatmul(G, n, t) = {F} BY DEF BackMatmul
<1> HIDE DEF Carried, S
<1>2. Full(F) BY DEF Full
<1>. QED BY <1>1, <1>2

LEMMA BackReshapeFacts ==
    ASSUME NEW G, WellFormed(G), NEW n \in Ids(G), Op(G, n) = "reshape", NEW t
    PROVE  AtMostOne(BackReshape(G, n, t)) /\ \A m \in BackReshape(G, n, t) : Full(m)
PROOF
<1> DEFINE x == Args(G, n)[1]
<1> DEFINE r == Len(Shape(G, n))
<1> DEFINE Add(found, d) == UNION {{ds \cup {i} : i \in SamePlace(Shape(G, n), Shape(G, x), d, ds)} :
                                      ds \in found}
<1> DEFINE V == SUBSET (SUBSET Int)
<1> DEFINE Is(g) == g = [k \in 0..r |->
                            IF k = 0 THEN {{}} ELSE IF k - 1 \in t[1] THEN Add(g[k - 1], k - 1) ELSE g[k - 1]]
<1> DEFINE upTo == CHOOSE g : Is(g)
<1>1. BackReshape(G, n, t) = {Only(x, <<ds>>) : ds \in upTo[r]} BY DEF BackReshape
<1>2. r \in Nat
  <2>1. Shapes(G, n) \in Seq(Seq(Int)) /\ Shapes(G, n) # <<>>
    BY DEF WellFormed, Registered, MultiOutput
  <2>2. Shape(G, n) \in Seq(Int) BY <2>1 DEF Shape
  <2>. QED BY <2>2
<1> HIDE DEF r, x
<1>3. ASSUME NEW v \in V, NEW d PROVE Add(v, d) \in V
  <2>1. ASSUME NEW a \in Add(v, d) PROVE a \subseteq Int
    <3>0. PICK da \in v : \E i : i \in SamePlace(Shape(G, n), Shape(G, x), d, da) /\ a = da \cup {i} OBVIOUS
    <3>1. PICK i : i \in SamePlace(Shape(G, n), Shape(G, x), d, da) /\ a = da \cup {i} BY <3>0
    <3>2. i \in Int BY <3>1, SamePlaceFacts
    <3>. QED BY <3>1, <3>2
  <2> HIDE DEF Add
  <2>. QED BY <2>1
<1>4. \A v \in V : \A d : AtMostOne(v) => AtMostOne(Add(v, d))
  <2> SUFFICES ASSUME NEW v \in V, NEW d, AtMostOne(v), NEW a \in Add(v, d), NEW b \in Add(v, d) PROVE a = b
    BY DEF AtMostOne
  <2>a. PICK da \in v : \E i : i \in SamePlace(Shape(G, n), Shape(G, x), d, da) /\ a = da \cup {i} OBVIOUS
  <2>b. PICK db \in v : \E j : j \in SamePlace(Shape(G, n), Shape(G, x), d, db) /\ b = db \cup {j} OBVIOUS
  <2>1. PICK i : i \in SamePlace(Shape(G, n), Shape(G, x), d, da) /\ a = da \cup {i} BY <2>a
  <2>2. PICK j : j \in SamePlace(Shape(G, n), Shape(G, x), d, db) /\ b = db \cup {j} BY <2>b
  <2>3. da = db BY DEF AtMostOne
  <2>4. i = j BY <2>1, <2>2, <2>3, SamePlaceFacts DEF AtMostOne
  <2>. QED BY <2>1, <2>2, <2>3, <2>4
<1> HIDE DEF Add
<1> DEFINE step == [k \in Nat |-> [v \in V |-> IF k - 1 \in t[1] THEN Add(v, k - 1) ELSE v]]
<1>5. {{}} \in V /\ step \in [Nat -> [V -> V]] BY <1>3
<1>6. \A k \in 1..r, v \in V : step[k][v] = IF k - 1 \in t[1] THEN Add(v, k - 1) ELSE v BY <1>2
<1> HIDE DEF step
<1>7. PICK f \in [0..r -> V] : f[0] = {{}} /\ \A k \in 1..r : f[k] = step[k][f[k - 1]]
  <2> DEFINE base == {{}}
  <2>1. base \in V BY <1>5
  <2> HIDE DEF V, base
  <2>2. PICK f : Unfolds(f, V, base, step, r) BY <1>2, <1>5, <2>1, Recursion
  <2>. QED BY <2>2 DEF base, Unfolds
<1> HIDE DEF V
<1>8. Is(f)
  <2>1. ASSUME NEW k \in 0..r
        PROVE  f[k] = IF k = 0 THEN {{}} ELSE IF k - 1 \in t[1] THEN Add(f[k - 1], k - 1) ELSE f[k - 1]
    <3>1. CASE k = 0 BY <1>7, <3>1
    <3>2. CASE k # 0
      <4>1. k \in 1..r /\ f[k - 1] \in V BY <1>2, <1>7, <3>2
      <4>. QED BY <1>6, <1>7, <3>2, <4>1
    <3>. QED BY <3>1, <3>2
  <2>. QED BY <2>1
<1>9. Is(upTo)
  <2> HIDE DEF Is
  <2>. QED BY <1>8
<1>10. /\ upTo[0] = {{}}
       /\ \A k \in 1..r : upTo[k] = IF k - 1 \in t[1] THEN Add(upTo[k - 1], k - 1) ELSE upTo[k - 1]
  <2> HIDE DEF upTo
  <2>1. 0 \in 0..r /\ \A k \in 1..r : k \in 0..r /\ k # 0 BY <1>2
  <2>. QED BY <1>9, <2>1
<1> HIDE DEF upTo, Is
<1> DEFINE Z == {k \in 0..r : upTo[k] \in V /\ AtMostOne(upTo[k])}
<1>11. 0 \in Z
  <2>1. AtMostOne({{}}) BY DEF AtMostOne
  <2>2. upTo[0] \in V /\ AtMostOne(upTo[0]) BY <1>5, <1>10, <2>1
  <2>3. 0 \in 0..r BY <1>2
  <2>. QED BY <2>2, <2>3
<1>12. ASSUME NEW k \in 0..(r - 1), k \in Z PROVE k + 1 \in Z
  <2>1. k + 1 \in 1..r /\ (k + 1) - 1 = k /\ k + 1 \in 0..r BY <1>2
  <2>2. upTo[k + 1] = IF k \in t[1] THEN Add(upTo[k], k) ELSE upTo[k] BY <1>10, <2>1
  <2>3. upTo[k] \in V /\ AtMostOne(upTo[k]) BY <1>12
  <2>. QED BY <1>3, <1>4, <2>1, <2>2, <2>3
<1>13. r \in Z
  <2> HIDE DEF Z
  <2>1. 0..r \subseteq Z BY <1>2, <1>11, <1>12, UpTo
  <2>. QED BY <1>2, <2>1
<1>14. AtMostOne(upTo[r]) BY <1>13
<1>15. \A v : Full(Only(x, <<v>>)) BY OneEntryFull
<1>. QED BY <1>1, <1>14, <1>15 DEF AtMostOne

\* A node that is no getitem: one answer at most, which says something of every operand
\* it names, and which depends on the tiles of the node alone.
LEMMA BackOwnFacts ==
    ASSUME NEW G, WellFormed(G), NEW n \in Ids(G), NEW T
    PROVE  AtMostOne(BackOwn(G, n, T)) /\ \A m \in BackOwn(G, n, T) : Full(m)
PROOF
<1> DEFINE o == Op(G, n)
<1> SUFFICES ASSUME BackOwn(G, n, T) # {} PROVE AtMostOne(BackOwn(G, n, T)) /\ \A m \in BackOwn(G, n, T) : Full(m)
  BY DEF AtMostOne
<1>1. ~(o \notin Registered \ {"placeholder"} \/ ReducesAll(G, n)) BY DEF BackOwn
<1>2. Full(Nobody) BY DEF Full, Nobody
<1>3. CASE ~Tiled(T, n) \/ o = "full"
  <2>1. BackOwn(G, n, T) = {Nobody} BY <1>1, <1>3 DEF BackOwn
  <2>. QED BY <1>2, <2>1 DEF AtMostOne
<1> DEFINE t == T[n]
<1>4. CASE Tiled(T, n) /\ o # "full"
  <2>0. BackOwn(G, n, T) =
           CASE o \in AlignRight -> BackAlignRight(G, n, t)
             [] o \in Reduce -> BackReduce(G, n, t)
             [] o \in Permute -> BackPermute(G, n, t)
             [] o \in Matmul -> BackMatmul(G, n, t)
             [] o = "repeat" -> BackRepeat(G, n, t)
             [] o = "gather" -> BackGather(G, n, t)
             [] o = "reshape" -> BackReshape(G, n, t)
             [] OTHER -> BackUnbind(G, n, t)
    BY <1>1, <1>4 DEF BackOwn
  <2> HIDE DEF t
  <2>1. CASE o \in AlignRight
    <3>1. BackOwn(G, n, T) = BackAlignRight(G, n, t) BY <2>0, <2>1 DEF AlignRight, Reduce, Permute, Matmul
    <3>2. BackAlignRight(G, n, t) = {Nobody} \/ \E F : BackAlignRight(G, n, t) = {F} /\ Full(F)
      BY OperandTilesFull DEF BackAlignRight
    <3>. QED BY <1>2, <3>1, <3>2 DEF AtMostOne
  <2>2. CASE o \in Reduce
    <3>1. BackOwn(G, n, T) = BackReduce(G, n, t) BY <2>0, <2>2 DEF AlignRight, Reduce, Permute, Matmul
    <3>2. BackReduce(G, n, t) \in {{}, {Nobody}} \/ \E F : BackReduce(G, n, t) = {F} /\ Full(F)
      BY OperandTilesFull DEF BackReduce
    <3>. QED BY <1>2, <3>1, <3>2 DEF AtMostOne
  <2>3. CASE o \in Permute
    <3>1. BackOwn(G, n, T) = BackPermute(G, n, t) BY <2>0, <2>3 DEF AlignRight, Reduce, Permute, Matmul
    <3>2. BackPermute(G, n, t) = {} \/ \E F : BackPermute(G, n, t) = {F} /\ Full(F)
      BY OperandTilesFull DEF BackPermute
    <3>. QED BY <3>1, <3>2 DEF AtMostOne
  <2>4. CASE o \in Matmul
    <3>1. BackOwn(G, n, T) = BackMatmul(G, n, t) BY <2>0, <2>4 DEF AlignRight, Reduce, Permute, Matmul
    <3>2. \E F : BackMatmul(G, n, t) = {F} /\ Full(F) BY MatmulAnswer
    <3>. QED BY <3>1, <3>2 DEF AtMostOne
  <2>5. CASE o = "repeat"
    <3>1. BackOwn(G, n, T) = BackRepeat(G, n, t) BY <2>0, <2>5 DEF AlignRight, Reduce, Permute, Matmul
    <3>2. BackRepeat(G, n, t) = {} \/ \E F : BackRepeat(G, n, t) = {F} /\ Full(F) BY OneEntryFull DEF BackRepeat
    <3>. QED BY <3>1, <3>2 DEF AtMostOne
  <2>6. CASE o = "gather"
    <3>1. BackOwn(G, n, T) = BackGather(G, n, t) BY <2>0, <2>6 DEF AlignRight, Reduce, Permute, Matmul
    <3>2. BackGather(G, n, t) = {} \/ \E F : BackGather(G, n, t) = {F} /\ Full(F) BY DEF BackGather, Full
    <3>. QED BY <3>1, <3>2 DEF AtMostOne
  <2>7. CASE o = "reshape"
    <3>1. BackOwn(G, n, T) = BackReshape(G, n, t) BY <2>0, <2>7 DEF AlignRight, Reduce, Permute, Matmul
    <3>. QED BY <2>7, <3>1, BackReshapeFacts
  <2>8. CASE o \notin AlignRight \cup Reduce \cup Permute \cup Matmul \cup {"repeat", "gather", "reshape"}
    <3>1. BackOwn(G, n, T) = BackUnbind(G, n, t) BY <2>0, <2>8
    <3>2. \E F : BackUnbind(G, n, t) = {F} /\ Full(F) BY OperandTilesFull DEF BackUnbind
    <3>. QED BY <3>1, <3>2 DEF AtMostOne
  <2>. QED BY <2>1, <2>2, <2>3, <2>4, <2>5, <2>6, <2>7, <2>8
<1>. QED BY <1>3, <1>4

\* The answer for a node depends on its own tiles alone.
LEMMA BackOwnSame ==
    ASSUME NEW G, NEW n, NEW T, NEW S, n \in DOMAIN T, n \in DOMAIN S, T[n] = S[n]
    PROVE  BackOwn(G, n, T) = BackOwn(G, n, S)
BY DEF BackOwn, Tiled

\* Something is said of every node with several outputs that is in T.
WholeIn(G, T) == \A x \in DOMAIN T : Op(G, x) \in MultiOutput /\ UserSet(G, x) # {} => T[x] # <<>>

\* S says what T says, and maybe more.
Extends(S, T) == DOMAIN T \subseteq DOMAIN S /\ \A x \in DOMAIN T : S[x] = T[x]

\* What a node with several outputs that has the tiles t says of its getitems.
FromRoot(G, m, t) == [x \in {m} \cup UserSet(G, m) |-> IF x = m THEN t ELSE <<t[G.node[x].attr[1] + 1]>>]

LEMMA SiblingsFacts ==
    ASSUME NEW G, WellFormed(G), NEW m \in Ids(G), Op(G, m) \in MultiOutput, NEW T
    PROVE  LET F == Siblings(G, m, T)
               family == {m} \cup UserSet(G, m)
           IN /\ DOMAIN F \subseteq family /\ WholeIn(G, F)
              /\ DOMAIN T \cap UserSet(G, m) # {} => DOMAIN F = family
              /\ m \in DOMAIN T /\ T[m] # <<>> => F = FromRoot(G, m, T[m])
PROOF
<1> DEFINE tiled == Part(Users(G, m), DOMAIN T)
<1> DEFINE family == {m} \cup UserSet(G, m)
<1> DEFINE F == Siblings(G, m, T)
<1> DEFINE A == [x \in family |-> IF x = m THEN T[m] ELSE <<T[m][G.node[x].attr[1] + 1]>>]
<1> DEFINE B == [x \in family |-> IF x = m THEN [i \in DOMAIN Shapes(G, m) |-> T[tiled[1]][1]] ELSE T[tiled[1]]]
<1>1. F = IF m \in DOMAIN T /\ T[m] # <<>> THEN A ELSE IF tiled = <<>> THEN Nobody ELSE B BY DEF Siblings, Tiled
<1>2. \A x \in UserSet(G, m) : Op(G, x) \notin MultiOutput
  <2>1. \A x \in UserSet(G, m) : Op(G, x) = "getitem" BY WellFormedFacts
  <2>. QED BY <2>1 DEF MultiOutput
<1>3. tiled = <<>> => DOMAIN T \cap UserSet(G, m) = {}
  <2>1. Users(G, m) \in Seq(Ids(G)) /\ ToSet(Users(G, m)) = UserSet(G, m) BY UsersFacts
  <2>2. ToSet(tiled) = ToSet(Users(G, m)) \cap DOMAIN T BY <2>1, PartFacts
  <2>3. ToSet(<<>>) = {} BY DEF ToSet
  <2>. QED BY <2>1, <2>2, <2>3
<1> HIDE DEF tiled
<1>4. UserSet(G, m) # {} => [i \in DOMAIN Shapes(G, m) |-> T[tiled[1]][1]] # <<>>
  <2> SUFFICES ASSUME NEW u \in UserSet(G, m) PROVE [i \in DOMAIN Shapes(G, m) |-> T[tiled[1]][1]] # <<>>
    OBVIOUS
  <2>1. u \in Ids(G) /\ m \in InputSet(G, u) BY DEF UserSet
  <2>2. G.node[u].attr[1] + 1 \in DOMAIN Shapes(G, m) BY <2>1 DEF WellFormed
  <2>. QED BY <2>2
<1>5. m \in DOMAIN T /\ T[m] # <<>> => WholeIn(G, A) BY <1>2 DEF WholeIn
<1>6. WholeIn(G, B) BY <1>2, <1>4 DEF WholeIn
<1>7. WholeIn(G, Nobody) /\ DOMAIN Nobody = {} BY DEF WholeIn, Nobody
<1>8. DOMAIN A = family /\ DOMAIN B = family OBVIOUS
<1> HIDE DEF A, B
<1>9. DOMAIN F \subseteq family /\ WholeIn(G, F) /\ (DOMAIN T \cap UserSet(G, m) # {} => DOMAIN F = family)
  BY <1>1, <1>3, <1>5, <1>6, <1>7, <1>8
<1>10. m \in DOMAIN T /\ T[m] # <<>> => F = A BY <1>1
<1>11. A = FromRoot(G, m, T[m]) BY DEF A, FromRoot
<1>. QED BY <1>9, <1>10, <1>11

\* What the first of two maps says goes before what the second says.
LEMMA OverFacts ==
    ASSUME NEW f, NEW g
    PROVE  /\ DOMAIN Over(f, g) = DOMAIN f \cup DOMAIN g
           /\ \A x \in DOMAIN f : Over(f, g)[x] = f[x]
           /\ \A x \in DOMAIN g \ DOMAIN f : Over(f, g)[x] = g[x]
BY DEF Over

LEMMA OverWhole ==
    ASSUME NEW G, NEW f, NEW g, WholeIn(G, f), WholeIn(G, g)
    PROVE  WholeIn(G, Over(f, g))
PROOF
<1> SUFFICES ASSUME NEW x \in DOMAIN Over(f, g), Op(G, x) \in MultiOutput, UserSet(G, x) # {} PROVE Over(f, g)[x] # <<>>
  BY DEF WholeIn
<1>1. CASE x \in DOMAIN f BY <1>1, OverFacts DEF WholeIn
<1>2. CASE x \in DOMAIN g \ DOMAIN f
  <2>1. Over(f, g)[x] = g[x] BY <1>2 DEF Over
  <2>2. g[x] # <<>> BY <1>2 DEF WholeIn
  <2>. QED BY <2>1, <2>2
<1>. QED BY <1>1, <1>2, OverFacts

\* What a rule answers for a family, and what the answer of any rule says of nodes with
\* several outputs.
LEMMA BackRuleOfFamily ==
    ASSUME NEW G, WellFormed(G), NEW n \in Ids(G), Op(G, n) = "getitem", NEW T, NEW m \in BackRule(G, n, T)
    PROVE  LET p == Args(G, n)[1]
               F == Siblings(G, p, T)
           IN /\ p \in Ids(G) /\ Op(G, p) \in MultiOutput /\ n \in UserSet(G, p)
              /\ \E up \in BackOwn(G, p, Over(F, T)) : m = Over(up, F)
PROOF
<1> DEFINE p == Args(G, n)[1]
<1>1. Op(G, p) \in MultiOutput BY DEF BackRule
<1>2. p \in Ids(G) /\ n \in UserSet(G, p) BY WellFormedFacts
<1>3. \E up \in BackOwn(G, p, Over(Siblings(G, p, T), T)) : m = Over(up, Siblings(G, p, T)) BY <1>1 DEF BackRule
<1>. QED BY <1>1, <1>2, <1>3

LEMMA AnswersWhole ==
    ASSUME NEW G, WellFormed(G), NEW n \in Ids(G), NEW T, NEW m \in BackRule(G, n, T)
    PROVE  /\ WholeIn(G, m)
           /\ Op(G, n) = "getitem" /\ n \in DOMAIN T => FamilySet(G, n) \subseteq DOMAIN m
PROOF
<1>1. \A f : Full(f) => WholeIn(G, f) BY DEF Full, WholeIn
<1>2. CASE Op(G, n) # "getitem"
  <2>1. m \in BackOwn(G, n, T) BY <1>2 DEF BackRule
  <2>. QED BY <1>1, <1>2, <2>1, BackOwnFacts
<1>3. CASE Op(G, n) = "getitem"
  <2> DEFINE p == Args(G, n)[1]
  <2> DEFINE F == Siblings(G, p, T)
  <2>1. p \in Ids(G) /\ Op(G, p) \in MultiOutput /\ n \in UserSet(G, p) BY <1>3, BackRuleOfFamily
  <2>2. PICK up \in BackOwn(G, p, Over(F, T)) : m = Over(up, F) BY <1>3, BackRuleOfFamily
  <2>3. WholeIn(G, up) BY <1>1, <2>1, <2>2, BackOwnFacts
  <2>4. WholeIn(G, F) /\ (DOMAIN T \cap UserSet(G, p) # {} => DOMAIN F = {p} \cup UserSet(G, p))
    BY <2>1, SiblingsFacts
  <2>5. FamilySet(G, n) = {p} \cup UserSet(G, p) BY <1>3 DEF FamilySet
  <2> HIDE DEF F, p
  <2>6. WholeIn(G, m) BY <2>2, <2>3, <2>4, OverWhole
  <2>7. n \in DOMAIN T => FamilySet(G, n) \subseteq DOMAIN m BY <2>1, <2>2, <2>4, <2>5, OverFacts
  <2>. QED BY <2>6, <2>7
<1>. QED BY <1>2, <1>3

\* Where the tiles of a node, or of the node its family belongs to, are known, its rule has
\* one answer at most, and the same one whatever else becomes known.
LEMMA RuleSettled ==
    ASSUME NEW G, WellFormed(G), NEW n \in Ids(G), NEW T, n \in DOMAIN T, WholeIn(G, T),
           Op(G, n) = "getitem" => Args(G, n)[1] \in DOMAIN T,
           NEW S, Extends(S, T)
    PROVE  /\ BackRule(G, n, S) = BackRule(G, n, T)
           /\ AtMostOne(BackRule(G, n, T)) /\ \A m \in BackRule(G, n, T) : Full(m)
PROOF
<1>1. CASE Op(G, n) # "getitem"
  <2>1. BackRule(G, n, S) = BackOwn(G, n, S) /\ BackRule(G, n, T) = BackOwn(G, n, T) BY <1>1 DEF BackRule
  <2>2. n \in DOMAIN S /\ S[n] = T[n] BY DEF Extends
  <2>3. BackOwn(G, n, S) = BackOwn(G, n, T) BY <2>2, BackOwnSame
  <2>. QED BY <2>1, <2>3, BackOwnFacts
<1>2. CASE Op(G, n) = "getitem"
  <2> DEFINE p == Args(G, n)[1]
  <2>1. p \in Ids(G) /\ n \in UserSet(G, p) /\ p \in DOMAIN T /\ p \in DOMAIN S /\ S[p] = T[p]
    BY <1>2, WellFormedFacts DEF Extends
  <2>2. CASE Op(G, p) \notin MultiOutput
    <3>1. BackRule(G, n, S) = {} /\ BackRule(G, n, T) = {} BY <1>2, <2>2 DEF BackRule
    <3>. QED BY <3>1 DEF AtMostOne
  <2>3. CASE Op(G, p) \in MultiOutput
    <3> DEFINE F == Siblings(G, p, T)
    <3> DEFINE E == Siblings(G, p, S)
    <3> DEFINE A == FromRoot(G, p, T[p])
    <3>1. T[p] # <<>> BY <2>1, <2>3 DEF WholeIn
    <3>2. F = A BY <2>1, <2>3, <3>1, SiblingsFacts
    <3>3. E = A BY <2>1, <2>3, <3>1, SiblingsFacts
    <3>4. Full(A) BY <3>1 DEF Full, FromRoot
    <3>5. p \in DOMAIN A /\ A[p] = T[p] BY DEF FromRoot
    <3>6. BackRule(G, n, T) = {Over(up, F) : up \in BackOwn(G, p, Over(F, T))} BY <1>2, <2>3 DEF BackRule
    <3>7. BackRule(G, n, S) = {Over(up, E) : up \in BackOwn(G, p, Over(E, S))} BY <1>2, <2>3 DEF BackRule
    <3> HIDE DEF A, F, E, p
    <3>8. BackOwn(G, p, Over(A, T)) = BackOwn(G, p, Over(A, S))
      <4>1. p \in DOMAIN Over(A, T) /\ p \in DOMAIN Over(A, S) /\ Over(A, T)[p] = A[p] /\ Over(A, S)[p] = A[p]
        BY <3>5, OverFacts
      <4>. QED BY <4>1, BackOwnSame
    <3>9. AtMostOne(BackOwn(G, p, Over(A, T))) /\ \A m \in BackOwn(G, p, Over(A, T)) : Full(m) BY <2>1, BackOwnFacts
    <3>10. \A up : Full(up) => Full(Over(up, A))
      <4> SUFFICES ASSUME NEW up, Full(up), NEW x \in DOMAIN Over(up, A) PROVE Over(up, A)[x] # <<>> BY DEF Full
      <4>1. CASE x \in DOMAIN up BY <4>1, OverFacts DEF Full
      <4>2. CASE x \in DOMAIN A \ DOMAIN up
        <5>1. Over(up, A)[x] = A[x] BY <4>2 DEF Over
        <5>2. A[x] # <<>> BY <3>4, <4>2 DEF Full
        <5>. QED BY <5>1, <5>2
      <4>. QED BY <4>1, <4>2, OverFacts
    <3>11. BackRule(G, n, S) = BackRule(G, n, T) BY <3>2, <3>3, <3>6, <3>7, <3>8
    <3>12. AtMostOne(BackRule(G, n, T)) BY <3>2, <3>6, <3>9 DEF AtMostOne
    <3>. QED BY <3>2, <3>6, <3>9, <3>10, <3>11, <3>12
  <2>. QED BY <2>2, <2>3
<1>. QED BY <1>1, <1>2

\* S holds what the rule of n answered at some time after T.
Heard(G, T, S, n) ==
    \E U : \E m \in BackRule(G, n, U) :
        Extends(U, T) /\ \A x \in DOMAIN m : m[x] # <<>> => x \in DOMAIN S /\ S[x] = m[x]

\* What the last node needs, then what the one before it needs, and so on: where all
\* agree there is a map S of what all of them said, starting from T.
LEMMA BackAllFacts ==
    ASSUME NEW G, NEW V, NEW nodes \in Seq(V), NEW T, BackAll(G, nodes, T) # {}
    PROVE  \E S : Extends(S, T) /\ \A n \in ToSet(nodes) : Heard(G, T, S, n)
PROOF
<1> DEFINE l == Len(nodes)
<1> DEFINE Merge(S, m) == IF \A x \in DOMAIN m : m[x] # <<>> /\ Tiled(S, x) => S[x] = m[x]
                          THEN {Over(S, Restrict(m, {x \in DOMAIN m : m[x] # <<>>}))}
                          ELSE {}
<1> DEFINE Learn(S, n) == IF BackRaises(G, n, S) THEN {} ELSE UNION {Merge(S, m) : m \in BackRule(G, n, S)}
<1> DEFINE Step(v, k) == UNION {Learn(S, nodes[l + 1 - k]) : S \in v}
<1> DEFINE Is(g) == g = [k \in 0..l |-> IF k = 0 THEN {T} ELSE Step(g[k - 1], k)]
<1> DEFINE back == CHOOSE g : Is(g)
<1>1. BackAll(G, nodes, T) = back[l] BY DEF BackAll
<1>2. l \in Nat /\ DOMAIN nodes = 1..l OBVIOUS
<1>3. \E g : Is(g)
  <2> HIDE DEF Step, l
  <2> DEFINE To(g, j) == g = [k \in 0..j |-> IF k = 0 THEN {T} ELSE Step(g[k - 1], k)]
  <2> DEFINE Z == {j \in 0..l : \E g : To(g, j)}
  <2>1. 0 \in Z
    <3>1. To([k \in 0..0 |-> {T}], 0) OBVIOUS
    <3> HIDE DEF To
    <3>. QED BY <1>2, <3>1
  <2>2. ASSUME NEW j \in 0..(l - 1), j \in Z PROVE j + 1 \in Z
    <3>1. PICK g : To(g, j) BY <2>2
    <3> DEFINE w == Step(g[j], j + 1)
    <3> DEFINE h == [k \in 0..(j + 1) |-> IF k = j + 1 THEN w ELSE g[k]]
    <3>2. j \in Nat OBVIOUS
    <3>3. ASSUME NEW k \in 0..(j + 1) PROVE h[k] = IF k = 0 THEN {T} ELSE Step(h[k - 1], k)
      <4>1. CASE k = j + 1
        <5>1. h[k] = w /\ h[k - 1] = g[j] /\ k # 0 BY <3>2, <4>1
        <5>. QED BY <4>1, <5>1
      <4>2. CASE k # j + 1
        <5>1. k \in 0..j /\ h[k] = g[k] BY <3>2, <4>2
        <5>2. k # 0 => h[k - 1] = g[k - 1] BY <3>2, <5>1
        <5>3. g[k] = IF k = 0 THEN {T} ELSE Step(g[k - 1], k) BY <3>1, <5>1
        <5>. QED BY <5>1, <5>2, <5>3
      <4>. QED BY <4>1, <4>2
    <3>4. To(h, j + 1)
      <4>1. h = [k \in 0..(j + 1) |-> h[k]] OBVIOUS
      <4> HIDE DEF h
      <4>. QED BY <3>3, <4>1
    <3>5. j + 1 \in 0..l BY <1>2
    <3> HIDE DEF To, h
    <3>. QED BY <3>4, <3>5
  <2>3. l \in Z
    <3> HIDE DEF Z
    <3>1. 0..l \subseteq Z BY <1>2, <2>1, <2>2, UpTo
    <3>. QED BY <1>2, <3>1
  <2>. QED BY <2>3
<1>4. Is(back)
  <2> HIDE DEF Is
  <2>. QED BY <1>3
<1>5. back[0] = {T} /\ \A k \in 1..l : back[k] = Step(back[k - 1], k)
  <2> HIDE DEF back, Step, l
  <2>1. 0 \in 0..l /\ \A k \in 1..l : k \in 0..l /\ k # 0 BY <1>2
  <2>. QED BY <1>4, <2>1
<1> HIDE DEF back, Is
<1> DEFINE Right(S, k) == Extends(S, T) /\ \A i \in 1..k : Heard(G, T, S, nodes[l + 1 - i])
<1> DEFINE Z == {k \in 0..l : \A S \in back[k] : Right(S, k)}
<1>6. 0 \in Z
  <2>1. Right(T, 0) BY DEF Extends
  <2> HIDE DEF Right
  <2>. QED BY <1>2, <1>5, <2>1
<1>7. ASSUME NEW S, NEW n, NEW S2 \in Learn(S, n), Extends(S, T) PROVE Extends(S2, S) /\ Extends(S2, T) /\ Heard(G, T, S2, n)
  <2>1. PICK m \in BackRule(G, n, S) : S2 \in Merge(S, m) OBVIOUS
  <2> DEFINE said == {x \in DOMAIN m : m[x] # <<>>}
  <2>2. /\ \A x \in DOMAIN m : m[x] # <<>> /\ x \in DOMAIN S => S[x] = m[x]
        /\ S2 = Over(S, Restrict(m, said))
    BY <2>1 DEF Tiled
  <2>3. DOMAIN Restrict(m, said) = said /\ \A x \in said : Restrict(m, said)[x] = m[x] BY DEF Restrict
  <2>4. Extends(S2, S)
    <3> DEFINE r == Restrict(m, said)
    <3>1. S2 = Over(S, r) BY <2>2
    <3> HIDE DEF r
    <3>. QED BY <3>1 DEF Extends, Over
  <2>5. ASSUME NEW x \in said PROVE x \in DOMAIN S2 /\ S2[x] = m[x]
    <3>1. CASE x \in DOMAIN S BY <2>2, <2>4, <2>5, <3>1 DEF Extends
    <3>2. CASE x \notin DOMAIN S
      <4> DEFINE r == Restrict(m, said)
      <4>1. S2 = Over(S, r) /\ x \in DOMAIN r /\ r[x] = m[x] BY <2>2, <2>3
      <4> HIDE DEF r
      <4>. QED BY <3>2, <4>1 DEF Over
    <3>. QED BY <3>1, <3>2
  <2>6. Extends(S2, T) BY <1>7, <2>4 DEF Extends
  <2>7. Heard(G, T, S2, n) BY <1>7, <2>1, <2>5 DEF Heard
  <2>. QED BY <2>4, <2>6, <2>7
<1>8. ASSUME NEW k \in 0..(l - 1), k \in Z PROVE k + 1 \in Z
  <2>1. k + 1 \in 1..l /\ (k + 1) - 1 = k /\ k + 1 \in 0..l /\ k \in Nat BY <1>2
  <2>2. back[k + 1] = Step(back[k], k + 1) BY <1>5, <2>1
  <2>3. ASSUME NEW S2 \in back[k + 1] PROVE Right(S2, k + 1)
    <3>1. PICK S \in back[k] : S2 \in Learn(S, nodes[l + 1 - (k + 1)]) BY <2>2, <2>3
    <3>2. Right(S, k) BY <1>8
    <3> DEFINE n == nodes[l + 1 - (k + 1)]
    <3> HIDE DEF n, Learn
    <3>3. Extends(S2, S) /\ Extends(S2, T) /\ Heard(G, T, S2, n) BY <1>7, <3>1, <3>2 DEF n
    <3>4. ASSUME NEW i \in 1..(k + 1) PROVE Heard(G, T, S2, nodes[l + 1 - i])
      <4>1. CASE i = k + 1 BY <3>3, <4>1 DEF n
      <4>2. CASE i # k + 1
        <5>1. i \in 1..k BY <2>1, <4>2
        <5> DEFINE a == nodes[l + 1 - i]
        <5>2. Heard(G, T, S, a) BY <3>2, <5>1
        <5> HIDE DEF a
        <5>3. Heard(G, T, S2, a) BY <3>3, <5>2 DEF Extends, Heard
        <5>. QED BY <5>3 DEF a
      <4>. QED BY <4>1, <4>2
    <3>. QED BY <3>3, <3>4
  <2> HIDE DEF Right
  <2>. QED BY <2>1, <2>3
<1>9. l \in Z
  <2> HIDE DEF Z
  <2>1. 0..l \subseteq Z BY <1>2, <1>6, <1>8, UpTo
  <2>. QED BY <1>2, <2>1
<1>10. PICK S \in back[l] : TRUE BY <1>1
<1>11. Right(S, l) BY <1>9, <1>10
<1>12. ASSUME NEW n \in ToSet(nodes) PROVE Heard(G, T, S, n)
  <2>1. PICK j \in 1..l : n = nodes[j] BY <1>2 DEF ToSet
  <2>2. l + 1 - j \in 1..l /\ l + 1 - (l + 1 - j) = j BY <1>2
  <2>3. Heard(G, T, S, nodes[l + 1 - (l + 1 - j)]) BY <1>11, <2>2
  <2>. QED BY <2>1, <2>2, <2>3
<1>. QED BY <1>11, <1>12

\* Where all the nodes of a subgraph agree, all of them want the same.
LEMMA AllAgree ==
    ASSUME NEW G, WellFormed(G), NEW nodes \in Seq(Ids(G)), NEW T, WholeIn(G, T),
           ToSet(nodes) \subseteq DOMAIN T,
           \A n \in ToSet(nodes) : Op(G, n) = "getitem" => Args(G, n)[1] \in ToSet(nodes),
           BackAll(G, nodes, T) # {}
    PROVE  \E S : /\ Extends(S, T)
                  /\ \A n \in ToSet(nodes) : \A m \in BackRule(G, n, T) : \A x \in DOMAIN m :
                        x \in DOMAIN S /\ S[x] = m[x]
PROOF
<1> DEFINE K == ToSet(nodes)
<1>1. PICK S : Extends(S, T) /\ \A n \in K : Heard(G, T, S, n)
  <2> DEFINE V == Ids(G)
  <2>1. nodes \in Seq(V) OBVIOUS
  <2> HIDE DEF V
  <2>. QED BY <2>1, BackAllFacts
<1>2. ASSUME NEW n \in K, NEW m \in BackRule(G, n, T), NEW x \in DOMAIN m PROVE x \in DOMAIN S /\ S[x] = m[x]
  <2>1. PICK U, a : /\ a \in BackRule(G, n, U) /\ Extends(U, T)
                    /\ \A y \in DOMAIN a : a[y] # <<>> => y \in DOMAIN S /\ S[y] = a[y]
    BY <1>1 DEF Heard
  <2>2. n \in Ids(G) /\ n \in DOMAIN T BY DEF ToSet
  <2>3. Op(G, n) = "getitem" => Args(G, n)[1] \in DOMAIN T OBVIOUS
  <2> HIDE DEF K
  <2>4. /\ BackRule(G, n, U) = BackRule(G, n, T) /\ AtMostOne(BackRule(G, n, T))
        /\ \A b \in BackRule(G, n, T) : Full(b)
    BY <2>1, <2>2, <2>3, RuleSettled
  <2>5. a = m /\ Full(m) BY <2>1, <2>4 DEF AtMostOne
  <2>. QED BY <2>1, <2>5 DEF Full
<1>. QED BY <1>1, <1>2

-----------------------------------------------------------------------------
(* The tiles of the search.                                                *)

\* Nothing is listed or taken without tiles of its own.
TilesInv ==
    pc \in Trying => WholeIn(graph, tiles) /\ WholeIn(graph, fusedTiles) /\ ToSet(keys) \subseteq DOMAIN tiles

WorkInv ==
    pc \in {"back", "backMeasured"} =>
        \A w \in ToSet(work) :
            w[1] \in DOMAIN tiles /\ (Op(graph, w[1]) \in MultiOutput /\ UserSet(graph, w[1]) # {} => w[2] # <<>>)

BestTilesInv ==
    pc \in Trying \cup {"dims", "found", "insert"} =>
        WholeIn(graph, best.tiles) /\ ToSet(best.nodes) \subseteq DOMAIN best.tiles

TileInv == TilesInv /\ WorkInv /\ BestTilesInv /\ KernelAgrees

LEMMA InitTileInv ==
    Init => TileInv
PROOF
<1> SUFFICES ASSUME Init PROVE TileInv OBVIOUS
<1>1. pc = "starts" BY DEF Init
<1>. QED BY <1>1 DEF TileInv, TilesInv, WorkInv, BestTilesInv, KernelAgrees, Trying

\* Nothing is said of tiles where no subgraph is at hand.
LEMMA NoTilesInv ==
    ASSUME pc' \in {"starts", "done", "raised"} PROVE TileInv'
BY DEF TileInv, TilesInv, WorkInv, BestTilesInv, KernelAgrees, Trying

\* The best subgraph so far, while one dimension is tried.
LEMMA BestTilesKept ==
    ASSUME TileInv, Steady, pc \in Trying, pc' \in Trying
    PROVE  BestTilesInv' /\ KernelAgrees' /\ graph' = graph
PROOF
<1>1. graph' = graph /\ best' = best BY DEF Steady, passVars, scanVars
<1>2. BestTilesInv' BY <1>1 DEF TileInv, BestTilesInv
<1>3. KernelAgrees' BY DEF KernelAgrees, Trying
<1>. QED BY <1>1, <1>2, <1>3

\* A step that takes nothing.
LEMMA TilesKept ==
    ASSUME TileInv, Steady, pc \in Trying, pc' \in Trying, UNCHANGED <<tiles, keys, fusedTiles>>,
           pc' \in {"back", "backMeasured"} => pc \in {"back", "backMeasured"} /\ ToSet(work') \subseteq ToSet(work)
    PROVE  TileInv'
PROOF
<1>1. BestTilesInv' /\ KernelAgrees' /\ graph' = graph BY BestTilesKept
<1>2. TilesInv' BY <1>1 DEF TileInv, TilesInv
<1>3. WorkInv' BY <1>1 DEF TileInv, WorkInv
<1>. QED BY <1>1, <1>2, <1>3 DEF TileInv

LEMMA TakeStartTiles ==
    ASSUME Inv, TileInv, TakeStart PROVE TileInv'
PROOF
<1>1. pc' = "dims" /\ best' = None BY DEF TakeStart, Goto
<1>2. best'.tiles = Nobody /\ best'.nodes = <<>> BY <1>1 DEF None
<1>3. WholeIn(graph', Nobody) /\ ToSet(<<>>) = {} BY DEF WholeIn, Nobody, ToSet
<1>4. BestTilesInv' BY <1>2, <1>3 DEF BestTilesInv
<1>. QED BY <1>1, <1>4 DEF TileInv, TilesInv, WorkInv, KernelAgrees, Trying

\* The tiles of a start node, one set for each of its outputs.
LEMMA StartTiles ==
    ASSUME NEW G, WellFormed(G), NEW n \in Ids(G), NEW ds
    PROVE  WholeIn(G, ForOutputs(G, n, ds)) /\ DOMAIN ForOutputs(G, n, ds) = {n}
PROOF
<1> DEFINE sets == [i \in DOMAIN Shapes(G, n) |-> ds]
<1>1. DOMAIN ForOutputs(G, n, ds) = {n} /\ ForOutputs(G, n, ds)[n] = sets BY DEF ForOutputs
<1>2. ASSUME Op(G, n) \in MultiOutput, UserSet(G, n) # {} PROVE sets # <<>>
  <2>1. PICK u \in UserSet(G, n) : TRUE BY <1>2
  <2>2. u \in Ids(G) /\ n \in InputSet(G, u) BY WellFormedFacts
  <2>3. G.node[u].attr[1] + 1 \in DOMAIN Shapes(G, n) BY <1>2, <2>2 DEF WellFormed
  <2>4. DOMAIN sets # {} BY <2>3
  <2>5. DOMAIN <<>> = {} OBVIOUS
  <2>. QED BY <2>4, <2>5
<1>. QED BY <1>1, <1>2 DEF WholeIn

LEMMA TakeDimTiles ==
    ASSUME Inv, TileInv, TakeDim PROVE TileInv'
PROOF
<1>1. pc = "dims" /\ dims # <<>> /\ UNCHANGED passVars /\ best' = best BY DEF TakeDim
<1>2. graph' = graph BY <1>1 DEF passVars
<1>3. BestTilesInv' BY <1>1, <1>2 DEF TileInv, BestTilesInv
<1>4. CASE SkipDim(Head(dims))
  <2>1. pc' = "dims" BY <1>1, <1>4 DEF TakeDim
  <2>. QED BY <1>3, <2>1 DEF TileInv, TilesInv, WorkInv, KernelAgrees, Trying
<1>5. CASE ~SkipDim(Head(dims))
  <2>1. /\ pc' = "round" /\ keys' = <<start>> /\ fusedTiles' = Nobody
        /\ tiles' = ForOutputs(graph, start, {Head(dims)})
    BY <1>5 DEF TakeDim, Goto
  <2>2. WellFormed(graph) /\ start \in Ids(graph) BY <1>1 DEF Inv, GraphInv, GraphOK, StartInv
  <2>3. WholeIn(graph, tiles') /\ DOMAIN tiles' = {start} BY <2>1, <2>2, StartTiles
  <2>4. WholeIn(graph, Nobody) BY DEF WholeIn, Nobody
  <2>5. ToSet(<<start>>) = {start} BY DEF ToSet
  <2>6. TilesInv' BY <1>2, <2>1, <2>3, <2>4, <2>5 DEF TilesInv
  <2>. QED BY <1>3, <2>1, <2>6 DEF TileInv, WorkInv, KernelAgrees
<1>. QED BY <1>4, <1>5

LEMMA EndDimTiles ==
    ASSUME Inv, TileInv, EndDim PROVE TileInv'
PROOF
<1>1. /\ pc = "report" /\ pc' = "dims" /\ UNCHANGED passVars
      /\ best' = best \/ best' = [nodes |-> fused, tiles |-> fusedTiles, dim |-> dim]
  BY DEF EndDim, Goto
<1>2. graph' = graph BY <1>1 DEF passVars
<1>3. /\ WholeIn(graph, fusedTiles) /\ ToSet(fused) = DOMAIN fusedTiles
      /\ WholeIn(graph, best.tiles) /\ ToSet(best.nodes) \subseteq DOMAIN best.tiles
  BY <1>1 DEF Inv, LabelInv, TileInv, TilesInv, BestTilesInv, Trying
<1>4. \/ best'.tiles = best.tiles /\ best'.nodes = best.nodes
      \/ best'.tiles = fusedTiles /\ best'.nodes = fused
  <2>1. CASE best' = best BY <2>1
  <2>2. CASE best' = [nodes |-> fused, tiles |-> fusedTiles, dim |-> dim] BY <2>2
  <2>. QED BY <1>1, <2>1, <2>2
<1>5. BestTilesInv' BY <1>2, <1>3, <1>4 DEF BestTilesInv
<1>. QED BY <1>1, <1>5 DEF TileInv, TilesInv, WorkInv, KernelAgrees, Trying

LEMMA EndStartTiles ==
    ASSUME Inv, TileInv, EndStart PROVE TileInv'
PROOF
<1>1. pc = "dims" /\ pc' \in {"found", "starts"} /\ UNCHANGED passVars /\ UNCHANGED scanVars
  BY DEF EndStart, Goto
<1>2. graph' = graph /\ best' = best BY <1>1 DEF passVars, scanVars
<1>3. BestTilesInv' BY <1>1, <1>2 DEF TileInv, BestTilesInv
<1>. QED BY <1>1, <1>3 DEF TileInv, TilesInv, WorkInv, KernelAgrees, Trying

LEMMA BeginBackTiles ==
    ASSUME Inv, TileInv, BeginBack PROVE TileInv'
PROOF
<1>1. /\ pc = "round" /\ pc' = "back" /\ Steady /\ UNCHANGED <<tiles, keys, fusedTiles>>
      /\ work' = [i \in DOMAIN keys |-> <<keys[i], tiles[keys[i]]>>]
  BY DEF BeginBack, Goto, Steady
<1>2. pc \in Trying /\ pc' \in Trying BY <1>1 DEF Trying
<1>3. BestTilesInv' /\ KernelAgrees' /\ graph' = graph BY <1>1, <1>2, BestTilesKept
<1>4. WholeIn(graph, tiles) /\ ToSet(keys) \subseteq DOMAIN tiles BY <1>2 DEF TileInv, TilesInv
<1>5. TilesInv' BY <1>1, <1>2, <1>3 DEF TileInv, TilesInv
<1>6. \A w \in ToSet(work') : w[1] \in ToSet(keys) /\ w[2] = tiles[w[1]] BY <1>1 DEF ToSet
<1>7. WorkInv' BY <1>1, <1>3, <1>4, <1>6 DEF WorkInv, WholeIn
<1>. QED BY <1>3, <1>5, <1>7 DEF TileInv

LEMMA BackTakeTiles ==
    ASSUME Inv, TileInv, BackTake PROVE TileInv'
PROOF
<1> DEFINE n == Head(work)[1]
<1> DEFINE t == Head(work)[2]
<1> DEFINE F == ToSet(Family(n))
<1>1. pc = "backMeasured" /\ pc' = "back" /\ Steady /\ work' = Tail(work) BY DEF BackTake, Goto, Steady
<1>2. pc \in Trying /\ pc' \in Trying BY <1>1 DEF Trying
<1>3. BestTilesInv' /\ KernelAgrees' /\ graph' = graph BY <1>1, <1>2, BestTilesKept
<1>4. work \in Seq(ToSet(work)) /\ work # <<>> BY <1>1 DEF Inv, BackInv
<1>5. Head(work) \in ToSet(work) /\ ToSet(work') \subseteq ToSet(work) BY <1>1, <1>4, ListFacts
<1>6. n \in DOMAIN tiles /\ (Op(graph, n) \in MultiOutput /\ UserSet(graph, n) # {} => t # <<>>)
  BY <1>1, <1>5 DEF TileInv, WorkInv
<1>7. n \in Ids(graph) /\ WellFormed(graph) BY <1>1, <1>5 DEF Inv, BackInv, Near, GraphInv, GraphOK
<1>8. WholeIn(graph, tiles) /\ WholeIn(graph, fusedTiles) /\ ToSet(keys) \subseteq DOMAIN tiles
  BY <1>2 DEF TileInv, TilesInv
<1>9. PICK m \in BackOffers(n, t) :
         IF Affordable(case.chip)
         THEN /\ tiles' = Over(m, tiles)
              /\ keys' = PutAll(keys, Keys(graph, n, m))
              /\ fusedTiles' = [x \in F \cup DOMAIN fusedTiles |->
                                   IF x = n THEN t ELSE IF x \in F THEN m[x] ELSE fusedTiles[x]]
         ELSE UNCHANGED <<tiles, keys, fusedTiles>>
  BY DEF BackTake
<1>10. CASE ~Affordable(case.chip) BY <1>1, <1>2, <1>5, <1>9, <1>10, TilesKept
<1>11. CASE Affordable(case.chip)
  <2>1. m \in BackRule(graph, n, tiles) BY DEF BackOffers
  <2>2. /\ tiles' = Over(m, tiles) /\ keys' = PutAll(keys, Keys(graph, n, m))
        /\ fusedTiles' = [x \in F \cup DOMAIN fusedTiles |->
                             IF x = n THEN t ELSE IF x \in F THEN m[x] ELSE fusedTiles[x]]
    BY <1>9, <1>11
  <2>3. F = FamilySet(graph, n) BY <1>7, FamilyList
  <2> HIDE DEF n, t, F
  <2>4. WholeIn(graph, m) /\ (Op(graph, n) = "getitem" => FamilySet(graph, n) \subseteq DOMAIN m)
    BY <1>6, <1>7, <2>1, AnswersWhole
  <2>5. WholeIn(graph, tiles') /\ DOMAIN tiles' = DOMAIN m \cup DOMAIN tiles
    BY <1>8, <2>2, <2>4, OverWhole, OverFacts
  <2>6. WholeIn(graph, fusedTiles')
    <3>1. \A x \in F : x = n \/ x \in DOMAIN m BY <2>3, <2>4 DEF FamilySet
    <3>2. ASSUME NEW x \in DOMAIN fusedTiles', Op(graph, x) \in MultiOutput, UserSet(graph, x) # {}
          PROVE  fusedTiles'[x] # <<>>
      <4>1. CASE x = n BY <1>6, <2>2, <3>2, <4>1
      <4>2. CASE x # n /\ x \in F BY <2>2, <2>4, <3>1, <3>2, <4>2 DEF WholeIn
      <4>3. CASE x # n /\ x \notin F BY <1>8, <2>2, <3>2, <4>3 DEF WholeIn
      <4>. QED BY <4>1, <4>2, <4>3
    <3>. QED BY <3>2 DEF WholeIn
  <2>7. ToSet(keys') \subseteq DOMAIN tiles'
    <3>1. Op(graph, n) \in Registered BY <2>1, BackRuleFacts
    <3>2. Keys(graph, n, m) \in Seq(Ids(graph)) /\ ToSet(Keys(graph, n, m)) \subseteq DOMAIN m
      BY <1>7, <3>1, KeysFacts, n \in {n}
    <3>3. keys \in Seq(Ids(graph)) BY <1>2 DEF Inv, FusedInv
    <3>4. ToSet(keys') = ToSet(keys) \cup ToSet(Keys(graph, n, m)) BY <2>2, <3>2, <3>3, PutAllFacts
    <3>. QED BY <1>8, <2>5, <3>2, <3>4
  <2>8. TilesInv' BY <1>3, <2>5, <2>6, <2>7 DEF TilesInv
  <2>9. WorkInv' BY <1>1, <1>3, <1>5, <2>5 DEF TileInv, WorkInv
  <2>. QED BY <1>3, <2>8, <2>9 DEF TileInv
<1>. QED BY <1>10, <1>11

LEMMA FrontTakeTiles ==
    ASSUME Inv, TileInv, FrontTake PROVE TileInv'
PROOF
<1> DEFINE n == Head(batch)[1]
<1> DEFINE t == Head(batch)[2]
<1>1. pc = "batchMeasured" /\ pc' = "batch" /\ Steady BY DEF FrontTake, Goto, Steady
<1>2. pc \in Trying /\ pc' \in Trying BY <1>1 DEF Trying
<1>3. BestTilesInv' /\ KernelAgrees' /\ graph' = graph BY <1>1, <1>2, BestTilesKept
<1>4. batch \in Seq(ToSet(batch)) /\ batch # <<>> BY <1>1 DEF Inv, FrontInv
<1>5. Head(batch) \in ToSet(batch) BY <1>4, ListFacts
<1>6. WellFormed(graph) /\ ToSet(fused) \subseteq Ids(graph)
  <2>1. fused \in Seq(Ids(graph)) BY <1>2 DEF Inv, FusedInv
  <2>. QED BY <2>1, SelfSeq DEF Inv, GraphInv, GraphOK
<1>7. n \in Ids(graph)
  <2>1. n \in Desc(graph, ToSet(fused)) BY <1>1, <1>5 DEF Inv, FrontInv
  <2> DEFINE S == ToSet(fused)
  <2>2. S \subseteq Ids(graph) /\ n \in Desc(graph, S) BY <1>6, <2>1
  <2> HIDE DEF S, n
  <2>. QED BY <1>6, <2>2, DescFacts
<1>8. WholeIn(graph, tiles) /\ WholeIn(graph, fusedTiles) /\ ToSet(keys) \subseteq DOMAIN tiles
  BY <1>2 DEF TileInv, TilesInv
<1>9. PICK m \in FrontOffers(n, t) :
         IF Affordable(case.chip)
         THEN /\ tiles' = Over(m, Over(Only(n, t), tiles))
              /\ keys' = PutAll(Put(keys, n), Keys(graph, n, m))
              /\ fusedTiles' = [x \in {n} \cup DOMAIN fusedTiles |-> IF x = n THEN t ELSE fusedTiles[x]]
         ELSE UNCHANGED <<tiles, keys, fusedTiles>>
  BY DEF FrontTake
<1>10. CASE ~Affordable(case.chip) BY <1>1, <1>2, <1>9, <1>10, TilesKept
<1>11. CASE Affordable(case.chip)
  <2>1. m \in BackRule(graph, n, Only(n, t)) /\ SomeTile(t) BY DEF FrontOffers
  <2>2. /\ tiles' = Over(m, Over(Only(n, t), tiles)) /\ keys' = PutAll(Put(keys, n), Keys(graph, n, m))
        /\ fusedTiles' = [x \in {n} \cup DOMAIN fusedTiles |-> IF x = n THEN t ELSE fusedTiles[x]]
    BY <1>9, <1>11
  <2> HIDE DEF n, t
  <2>3. t # <<>> BY <2>1 DEF SomeTile
  <2>4. DOMAIN Only(n, t) = {n} /\ WholeIn(graph, Only(n, t)) BY <2>3 DEF Only, WholeIn
  <2>5. WholeIn(graph, m) BY <1>6, <1>7, <2>1, AnswersWhole
  <2>6. WholeIn(graph, tiles') /\ DOMAIN tiles' = DOMAIN m \cup {n} \cup DOMAIN tiles
    <3> DEFINE base == Over(Only(n, t), tiles)
    <3>1. WholeIn(graph, base) /\ DOMAIN base = {n} \cup DOMAIN tiles BY <1>8, <2>4, OverWhole, OverFacts
    <3>2. tiles' = Over(m, base) BY <2>2
    <3> HIDE DEF base
    <3>3. WholeIn(graph, Over(m, base)) BY <2>5, <3>1, OverWhole
    <3>4. DOMAIN Over(m, base) = DOMAIN m \cup DOMAIN base BY OverFacts
    <3>. QED BY <3>1, <3>2, <3>3, <3>4
  <2>7. WholeIn(graph, fusedTiles') BY <1>8, <2>2, <2>3 DEF WholeIn
  <2>8. ToSet(keys') \subseteq DOMAIN tiles'
    <3>1. Op(graph, n) \in Registered BY <2>1, BackRuleFacts
    <3>2. Keys(graph, n, m) \in Seq(Ids(graph)) /\ ToSet(Keys(graph, n, m)) \subseteq DOMAIN m
      BY <1>6, <1>7, <3>1, KeysFacts, n \in {n}
    <3>3. keys \in Seq(Ids(graph)) BY <1>2 DEF Inv, FusedInv
    <3>4. Put(keys, n) \in Seq(Ids(graph)) /\ ToSet(Put(keys, n)) = ToSet(keys) \cup {n}
      BY <1>7, <3>3, PutFacts
    <3>5. ToSet(keys') = ToSet(Put(keys, n)) \cup ToSet(Keys(graph, n, m)) BY <2>2, <3>2, <3>4, PutAllFacts
    <3>. QED BY <1>8, <2>6, <3>2, <3>4, <3>5
  <2>9. TilesInv' BY <1>3, <2>6, <2>7, <2>8 DEF TilesInv
  <2>10. WorkInv' BY <1>1 DEF WorkInv
  <2>. QED BY <1>3, <2>9, <2>10 DEF TileInv
<1>. QED BY <1>10, <1>11

\* The other steps of one dimension: they take nothing.
LEMMA OtherTiles ==
    ASSUME Inv, TileInv,
           BackAsk \/ BackSkip \/ BeginFront \/ Infer \/ FrontAsk \/ FrontSkip \/ EndBatch \/ EndRound \/ MeasureStep
    PROVE  TileInv'
PROOF
<1>1. /\ Steady /\ UNCHANGED <<tiles, keys, fusedTiles>> /\ pc \in Trying
      /\ pc' = "raised" \/ pc' \in Trying
      /\ pc' \in {"back", "backMeasured"} =>
            pc \in {"back", "backMeasured"} /\ (work' = work \/ (work # <<>> /\ work' = Tail(work)))
  <2>1. CASE BackAsk BY <2>1 DEF BackAsk, Goto, Steady, fuseVars, Trying
  <2>2. CASE BackSkip
    <3>1. pc = "back" /\ work # <<>> /\ work' = Tail(work) /\ (Raise \/ pc' = pc)
      BY <2>2 DEF BackSkip
    <3>. QED BY <2>2, <3>1 DEF BackSkip, Raise, Steady, Trying
  <2>3. CASE BeginFront BY <2>3 DEF BeginFront, Goto, Steady, Trying
  <2>4. CASE Infer BY <2>4 DEF Infer, Goto, Steady, Trying
  <2>5. CASE FrontAsk BY <2>5 DEF FrontAsk, Goto, Steady, fuseVars, Trying
  <2>6. CASE FrontSkip
    <3>1. pc = "batch" /\ (Raise \/ pc' = pc) BY <2>6 DEF FrontSkip
    <3>. QED BY <2>6, <3>1 DEF FrontSkip, Raise, Steady, Trying
  <2>7. CASE EndBatch BY <2>7 DEF EndBatch, Goto, Steady, fuseVars, Trying
  <2>8. CASE EndRound
    <3>1. pc = "front" /\ pc' \in {"round", "report"} BY <2>8 DEF EndRound, Goto
    <3>. QED BY <2>8, <3>1 DEF EndRound, Steady, fuseVars, Trying
  <2>9. CASE MeasureStep
    <3>1. pc \in {"backMeasured", "batchMeasured", "report"} /\ (Raise \/ pc' = pc) BY <2>9 DEF MeasureStep
    <3>. QED BY <2>9, <3>1 DEF MeasureStep, Raise, Steady, fuseVars, Trying
  <2>. QED BY <2>1, <2>2, <2>3, <2>4, <2>5, <2>6, <2>7, <2>8, <2>9
<1>2. CASE pc' = "raised" BY <1>2, NoTilesInv
<1>3. CASE pc' \in Trying
  <2>1. pc' \in {"back", "backMeasured"} => pc \in {"back", "backMeasured"} /\ ToSet(work') \subseteq ToSet(work)
    <3>1. pc \in {"back", "backMeasured"} => work \in Seq(ToSet(work)) BY DEF Inv, BackInv
    <3>. QED BY <1>1, <3>1, ListFacts
  <2>. QED BY <1>1, <1>3, <2>1, TilesKept
<1>. QED BY <1>1, <1>2, <1>3

\* What BackAll found to agree when the kernel was generated.
LEMMA TransformTiles ==
    ASSUME Inv, TileInv, Transform PROVE TileInv'
PROOF
<1> DEFINE K == Kernel
<1>1. /\ pc = "found" /\ pc' = "insert" /\ UNCHANGED passVars /\ UNCHANGED scanVars
      /\ BackAll(graph, best.nodes, best.tiles) # {} /\ NamesDefined
  BY DEF Transform, Goto, Consistent
<1>2. graph' = graph /\ best' = best /\ Kernel' = K BY <1>1 DEF passVars, scanVars, Kernel
<1>3. WellFormed(graph) /\ best.nodes \in Seq(Ids(graph)) BY <1>1 DEF Inv, GraphInv, GraphOK, BestInv
<1>4. WholeIn(graph, best.tiles) /\ K \subseteq DOMAIN best.tiles BY <1>1 DEF TileInv, BestTilesInv, Kernel
<1>5. \A n \in K : Op(graph, n) = "getitem" => Args(graph, n)[1] \in K BY <1>1 DEF NamesDefined
<1>6. PICK S : /\ Extends(S, best.tiles)
               /\ \A n \in K : \A m \in BackRule(graph, n, best.tiles) : \A x \in DOMAIN m :
                     x \in DOMAIN S /\ S[x] = m[x]
  BY <1>1, <1>3, <1>4, <1>5, AllAgree DEF Kernel
<1> HIDE DEF K
<1>7. ASSUME NEW n \in K, NEW k \in K, NEW m \in BackRule(graph, n, best.tiles), NEW l \in BackRule(graph, k, best.tiles)
      PROVE  /\ \A x \in DOMAIN m \cap DOMAIN l : m[x] = l[x]
             /\ \A x \in DOMAIN m \cap K : m[x] = best.tiles[x]
  <2>1. \A x \in DOMAIN m \cap DOMAIN l : m[x] = S[x] /\ l[x] = S[x] BY <1>6
  <2>2. \A x \in DOMAIN m \cap K : m[x] = S[x] /\ S[x] = best.tiles[x] BY <1>4, <1>6 DEF Extends
  <2>. QED BY <2>1, <2>2
<1>8. KernelAgrees' BY <1>2, <1>7 DEF KernelAgrees
<1>9. BestTilesInv' BY <1>1, <1>2 DEF TileInv, BestTilesInv
<1>. QED BY <1>1, <1>8, <1>9 DEF TileInv, TilesInv, WorkInv, Trying

LEMMA StutterTiles ==
    ASSUME TileInv, UNCHANGED vars PROVE TileInv'
PROOF
<1>1. /\ pc' = pc /\ graph' = graph /\ best' = best /\ tiles' = tiles /\ keys' = keys /\ work' = work
      /\ fusedTiles' = fusedTiles
  BY DEF vars, passVars, scanVars, fuseVars
<1>2. TilesInv' /\ WorkInv' /\ BestTilesInv' BY <1>1 DEF TileInv, TilesInv, WorkInv, BestTilesInv
<1>3. KernelAgrees' BY <1>1 DEF TileInv, KernelAgrees, Kernel
<1>. QED BY <1>2, <1>3 DEF TileInv

LEMMA NextTileInv ==
    ASSUME Inv, TileInv, [Next]_vars PROVE TileInv'
PROOF
<1>1. CASE Search
  <2>1. CASE TakeStart \/ TakeDim \/ EndDim \/ EndStart
    BY <2>1, TakeStartTiles, TakeDimTiles, EndDimTiles, EndStartTiles
  <2>2. CASE BeginBack \/ BackTake \/ FrontTake BY <2>2, BeginBackTiles, BackTakeTiles, FrontTakeTiles
  <2>3. CASE BackAsk \/ BackSkip \/ BeginFront \/ Infer \/ FrontAsk \/ FrontSkip \/ EndBatch \/ EndRound \/ MeasureStep
    BY <2>3, OtherTiles
  <2>. QED BY <1>1, <2>1, <2>2, <2>3 DEF Search
<1>2. CASE Transform BY <1>2, TransformTiles
<1>3. CASE TransformFails \/ InsertKernel \/ Finish
  <2>1. pc' \in {"starts", "done"} BY <1>3 DEF TransformFails, InsertKernel, Finish, Goto
  <2>. QED BY <2>1, NoTilesInv
<1>4. CASE UNCHANGED vars BY <1>4, StutterTiles
<1>. QED BY <1>1, <1>2, <1>3, <1>4 DEF Next

\* In a kernel all readers of a value, inside or outside, want it tiled in the same way,
\* and so does the node itself if it is inside (infer_tiledim_back_all), although
\* fuse_along_dim overwrites tiles.
THEOREM KernelsAgree ==
    Spec => []KernelAgrees
PROOF
<1>1. Init => Inv /\ TileInv BY InitInv, InitTileInv
<1>2. Inv /\ TileInv /\ [Next]_vars => (Inv /\ TileInv)' BY NextInv, NextTileInv
<1>3. TileInv => KernelAgrees BY DEF TileInv
<1>. QED BY <1>1, <1>2, <1>3, PTL DEF Spec

-----------------------------------------------------------------------------
(* What is played.                                                         *)

List(s) == s \in Seq(ToSet(s))

LEMMA ListOf ==
    ASSUME NEW k \in Nat, NEW f, DOMAIN f = 1..k, f = [i \in 1..k |-> f[i]]
    PROVE  List(f) /\ Len(f) = k
PROOF
<1>1. f \in [1..k -> ToSet(f)] BY DEF ToSet
<1>2. f \in Seq(ToSet(f)) BY <1>1
<1>. QED BY <1>2 DEF List

LEMMA JoinLists ==
    ASSUME NEW s, List(s), NEW t, List(t)
    PROVE  /\ List(s \o t) /\ ToSet(s \o t) = ToSet(s) \cup ToSet(t)
           /\ \A x, y : Ahead(s \o t, x, y) =>
                 Ahead(s, x, y) \/ Ahead(t, x, y) \/ (x \in ToSet(s) /\ y \in ToSet(t))
PROOF
<1> DEFINE V == ToSet(s) \cup ToSet(t)
<1>1. s \in Seq(V) /\ t \in Seq(V) BY DEF List
<1> HIDE DEF V
<1>2. /\ s \o t \in Seq(V) /\ ToSet(s \o t) = ToSet(s) \cup ToSet(t)
      /\ \A x, y : Ahead(s \o t, x, y) =>
            Ahead(s, x, y) \/ Ahead(t, x, y) \/ (x \in ToSet(s) /\ y \in ToSet(t))
  BY <1>1, ConcatFacts
<1>. QED BY <1>2 DEF List, V

LEMMA FlattenLists ==
    ASSUME NEW n \in Nat, NEW ss, ss = [i \in 1..n |-> ss[i]], \A i \in 1..n : List(ss[i])
    PROVE  /\ List(FlattenSeq(ss)) /\ ToSet(FlattenSeq(ss)) = UNION {ToSet(ss[i]) : i \in 1..n}
           /\ \A x, y : Ahead(FlattenSeq(ss), x, y) => AheadIn(ss, n, x, y)
PROOF
<1> DEFINE V == UNION {ToSet(ss[i]) : i \in 1..n}
<1>1. \A i \in 1..n : ss[i] \in Seq(V) BY DEF List
<1>2. ss \in [1..n -> Seq(V)] BY <1>1
<1> HIDE DEF V
<1>3. /\ FlattenSeq(ss) \in Seq(V) /\ ToSet(FlattenSeq(ss)) = UNION {ToSet(ss[i]) : i \in 1..n}
      /\ \A x, y : Ahead(FlattenSeq(ss), x, y) => AheadIn(ss, n, x, y)
  BY <1>2, FlattenFacts
<1>. QED BY <1>3 DEF List, V

\* What comes after the first entry.
LEMMA TailFacts ==
    ASSUME NEW s, List(s), s # <<>>
    PROVE  /\ List(Tail(s)) /\ ToSet(s) = {Head(s)} \cup ToSet(Tail(s))
           /\ \A x, y : Ahead(Tail(s), x, y) => Ahead(s, x, y)
           /\ \A y \in ToSet(Tail(s)) : Ahead(s, Head(s), y)
PROOF
<1> DEFINE V == ToSet(s)
<1> DEFINE h == <<Head(s)>>
<1>1. s \in Seq(V) BY DEF List
<1>2. h \in Seq(V) /\ Tail(s) \in Seq(V) /\ s = h \o Tail(s)
  <2> HIDE DEF V
  <2>. QED BY <1>1
<1>3. ToSet(h) = {Head(s)} BY DEF ToSet
<1>4. List(Tail(s)) BY <1>2, SelfSeq DEF List
<1> HIDE DEF V, h
<1>5. /\ ToSet(h \o Tail(s)) = ToSet(h) \cup ToSet(Tail(s))
      /\ \A x, y : Ahead(h \o Tail(s), x, y) <=>
            Ahead(h, x, y) \/ Ahead(Tail(s), x, y) \/ (x \in ToSet(h) /\ y \in ToSet(Tail(s)))
  BY <1>2, ConcatFacts
<1>. QED BY <1>2, <1>3, <1>4, <1>5

\* The nodes of S, in the order of the graph: once each if they are listed once.
LEMMA SortedFacts ==
    ASSUME NEW G, WellFormed(G), NEW listed \in Seq(Ids(G)), Distinct(listed), NEW S
    PROVE  LET s == Sorted(G, listed, S) IN
           s \in Seq(Ids(G)) /\ ToSet(s) \subseteq S /\ Distinct(s)
PROOF
<1> DEFINE order == InGraphOrder(G, S)
<1> DEFINE Times(n) == Cardinality({i \in DOMAIN listed : listed[i] = n})
<1> DEFINE ss == [i \in DOMAIN order |-> [j \in 1 .. Times(order[i]) |-> order[i]]]
<1> DEFINE k == Len(order)
<1>1. Sorted(G, listed, S) = FlattenSeq(ss) BY DEF Sorted
<1>2. order \in Seq(Ids(G)) /\ ToSet(order) = Ids(G) \cap S /\ Distinct(order)
  <2>1. IsList(G) /\ Distinct(G.order) BY WellFormedFacts
  <2>. QED BY <2>1, InGraphOrderFacts DEF Distinct
<1> HIDE DEF order
<1>3. k \in Nat /\ DOMAIN order = 1..k BY <1>2
<1>4. ASSUME NEW n PROVE Times(n) \in {0, 1}
  <2> DEFINE P == {i \in DOMAIN listed : listed[i] = n}
  <2>1. \A i, j \in P : i = j
    <3> DEFINE V == Ids(G)
    <3>1. listed \in Seq(V) OBVIOUS
    <3> HIDE DEF V
    <3>. QED BY <3>1, DistinctPlaces
  <2>2. CASE P = {} BY <2>2, FS_EmptySet
  <2>3. CASE P # {}
    <3>1. PICK i : P = {i} BY <2>1, <2>3
    <3>. QED BY <3>1, FS_Singleton
  <2>. QED BY <2>2, <2>3
<1> HIDE DEF Times
<1>5. ASSUME NEW i \in 1..k
      PROVE  /\ ss[i] \in Seq(Ids(G)) /\ ToSet(ss[i]) \subseteq {order[i]} /\ order[i] \in Ids(G) \cap S
             /\ \A x, y : ~Ahead(ss[i], x, y)
  <2> DEFINE n == order[i]
  <2>1. n \in Ids(G) \cap S BY <1>2, <1>3 DEF ToSet
  <2> DEFINE t == [j \in 1 .. Times(n) |-> n]
  <2>2. ss[i] = t BY <1>3
  <2>3. Times(n) = 0 \/ Times(n) = 1 BY <1>4
  <2> HIDE DEF n, ss
  <2>4. t \in Seq(Ids(G)) BY <2>1, <2>3
  <2>5. DOMAIN t \subseteq {1} /\ \A j \in DOMAIN t : t[j] = n BY <2>3
  <2>. QED BY <2>1, <2>2, <2>4, <2>5 DEF ToSet, Ahead, n
<1>6. DOMAIN ss = 1..k BY <1>3
<1>7. ss \in [1..k -> Seq(Ids(G))] BY <1>5, <1>6
<1> HIDE DEF ss
<1>8. /\ FlattenSeq(ss) \in Seq(Ids(G)) /\ ToSet(FlattenSeq(ss)) = UNION {ToSet(ss[i]) : i \in 1..k}
      /\ \A x, y : Ahead(FlattenSeq(ss), x, y) => AheadIn(ss, k, x, y)
  <2> DEFINE V == Ids(G)
  <2>1. ss \in [1..k -> Seq(V)] BY <1>7
  <2> HIDE DEF V, k
  <2>2. k \in Nat BY <1>3
  <2>3. /\ FlattenSeq(ss) \in Seq(V) /\ ToSet(FlattenSeq(ss)) = UNION {ToSet(ss[i]) : i \in 1..k}
        /\ \A x, y : Ahead(FlattenSeq(ss), x, y) => AheadIn(ss, k, x, y)
    BY <2>1, <2>2, FlattenFacts
  <2>. QED BY <2>3 DEF V
<1>9. ToSet(FlattenSeq(ss)) \subseteq S
  <2> HIDE DEF k
  <2> SUFFICES ASSUME NEW i \in 1..k, NEW x \in ToSet(ss[i]) PROVE x \in S BY <1>8
  <2>. QED BY <1>5
<1>10. ASSUME NEW x PROVE ~AheadIn(ss, k, x, x)
  <2> SUFFICES ASSUME NEW i \in 1..k, NEW j \in 1..k, i < j, x \in ToSet(ss[i]), x \in ToSet(ss[j])
               PROVE  FALSE
    BY <1>5 DEF AheadIn
  <2>1. order[i] = x /\ order[j] = x BY <1>5
  <2>. QED BY <1>2, <1>3, <2>1 DEF Distinct, Ahead
<1>. QED BY <1>1, <1>8, <1>9, <1>10 DEF Distinct

\* What asks for memory asks for a slot there is.
Gives(s) == \A r \in ToSet(s) : r.do = "give" /\ r.slot \in Slots

LEMMA Outputs ==
    ASSUME NEW G, WellFormed(G), NEW n \in Ids(G)
    PROVE  Len(Shapes(G, n)) \in Nat /\ DOMAIN Shapes(G, n) = 1..Len(Shapes(G, n)) /\ Len(Shapes(G, n)) <= MaxOutputs
PROOF
<1>1. Shapes(G, n) \in Seq(Seq(Int)) /\ Len(Shapes(G, n)) <= MaxOutputs BY DEF WellFormed
<1> DEFINE V == Seq(Int)
<1>2. Shapes(G, n) \in Seq(V) BY <1>1
<1> HIDE DEF V
<1>. QED BY <1>1, <1>2

LEMMA InputItems ==
    ASSUME NEW G, WellFormed(G), Ids(G) \subseteq Names, NEW x \in Ids(G), NEW T, NEW nodes, NEW chip
    PROVE  List(InputRequests(G, T, x, nodes, chip)) /\ Gives(InputRequests(G, T, x, nodes, chip))
PROOF
<1> DEFINE s == InputRequests(G, T, x, nodes, chip)
<1> DEFINE k == Len(Shapes(G, x))
<1>1. k \in Nat /\ DOMAIN Shapes(G, x) = 1..k /\ k <= MaxOutputs BY Outputs
<1>2. DOMAIN s = 1..k /\ s = [i \in 1..k |-> s[i]] BY <1>1 DEF InputRequests
<1>3. \A i \in 1..k : s[i].do = "give" /\ s[i].slot = <<x, i>> BY <1>1 DEF InputRequests, Ask
<1>4. \A i \in 1..k : i \in 1..MaxOutputs BY <1>1, SlotsAssumption
<1> HIDE DEF s, k
<1>5. Gives(s)
  <2>1. \A i \in 1..k : <<x, i>> \in Slots BY <1>4 DEF Slots
  <2>2. \A r \in ToSet(s) : \E i \in 1..k : r = s[i] BY <1>2 DEF ToSet
  <2>. QED BY <1>3, <2>1, <2>2 DEF Gives
<1>6. List(s) BY <1>1, <1>2, ListOf
<1>. QED BY <1>5, <1>6 DEF s

\* r asks for the i-th slot of n.
Asks(r, n, i) == \E a, b, c, pin : r = Ask(n, i, a, b, c, pin)

LEMMA AsksGive ==
    ASSUME NEW r, NEW n, NEW i, Asks(r, n, i)
    PROVE  r.do = "give" /\ r.slot = <<n, i>>
BY DEF Asks, Ask

\* The request for another slot of the same node.
LEMMA AsksElsewhere ==
    ASSUME NEW r, NEW n, NEW i, Asks(r, n, i), NEW j
    PROVE  [r EXCEPT !.slot[2] = j].do = "give" /\ [r EXCEPT !.slot[2] = j].slot = <<n, j>>
BY DEF Asks, Ask

LEMMA NodeItems ==
    ASSUME NEW G, WellFormed(G), NEW n \in Ids(G), NEW T
    PROVE  LET s == NodeRequests(G, T, n) IN
           \E k \in Nat : /\ DOMAIN s = 1..k /\ s = [i \in 1..k |-> s[i]]
                          /\ \A i \in 1..k : Asks(s[i], n, i) /\ i \in 1..MaxOutputs
PROOF
<1> DEFINE s == NodeRequests(G, T, n)
<1>1. CASE Op(G, n) \in Matmul
  <2> DEFINE p == FilterRequest(G, T, n)
  <2> DEFINE q == Ask(n, 2, TileSize(G, T, n, 1), 0, 0, FALSE)
  <2>0. Op(G, n) # "getitem" BY <1>1 DEF Matmul
  <2>1. s = <<p, q>>
    <3> HIDE DEF p, q
    <3>. QED BY <1>1, <2>0 DEF NodeRequests, p, q
  <2>2. Asks(p, n, 1) BY DEF FilterRequest, Asks
  <2>3. Asks(q, n, 2) BY DEF Asks
  <2>4. 1 \in 1..MaxOutputs /\ 2 \in 1..MaxOutputs BY SlotsAssumption
  <2> HIDE DEF p, q, s
  <2>5. 2 \in Nat /\ DOMAIN s = 1..2 /\ s = [i \in 1..2 |-> s[i]] BY <2>1
  <2>6. \A i \in 1..2 : Asks(s[i], n, i) /\ i \in 1..MaxOutputs
    <3>1. \A i \in 1..2 : i = 1 \/ i = 2 OBVIOUS
    <3>2. s[1] = p /\ s[2] = q BY <2>1
    <3>. QED BY <2>2, <2>3, <2>4, <3>1, <3>2
  <2>. QED BY <2>5, <2>6 DEF s
<1>2. CASE Op(G, n) = "getitem"
  <2> DEFINE q == Ask(n, 1, 0, 0, 0, FALSE)
  <2>1. s = <<q>> BY <1>2 DEF NodeRequests, Matmul
  <2>2. Asks(q, n, 1) BY DEF Asks
  <2>3. 1 \in 1..MaxOutputs BY SlotsAssumption
  <2> HIDE DEF q, s
  <2>4. 1 \in Nat /\ DOMAIN s = 1..1 /\ s = [i \in 1..1 |-> s[i]] BY <2>1
  <2>5. \A i \in 1..1 : Asks(s[i], n, i) /\ i \in 1..MaxOutputs
    <3>1. \A i \in 1..1 : i = 1 OBVIOUS
    <3>2. s[1] = q BY <2>1
    <3>. QED BY <2>2, <2>3, <3>1, <3>2
  <2>. QED BY <2>4, <2>5 DEF s
<1>3. CASE Op(G, n) \notin Matmul /\ Op(G, n) # "getitem"
  <2> DEFINE k == Len(Shapes(G, n))
  <2>1. k \in Nat /\ DOMAIN Shapes(G, n) = 1..k /\ k <= MaxOutputs BY Outputs
  <2>2. s = [i \in 1..k |-> Ask(n, i, TileSize(G, T, n, i), 0, 0, FALSE)] BY <1>3, <2>1 DEF NodeRequests
  <2>3. DOMAIN s = 1..k /\ s = [i \in 1..k |-> s[i]] BY <2>2
  <2>4. \A i \in 1..k : Asks(s[i], n, i) BY <2>2 DEF Asks
  <2>5. \A i \in 1..k : i \in 1..MaxOutputs BY <2>1, SlotsAssumption
  <2> HIDE DEF k, s
  <2>. QED BY <2>1, <2>3, <2>4, <2>5 DEF s
<1>. QED BY <1>1, <1>2, <1>3

LEMMA NodeGives ==
    ASSUME NEW G, WellFormed(G), Ids(G) \subseteq Names, NEW n \in Ids(G), NEW T
    PROVE  List(NodeRequests(G, T, n)) /\ Gives(NodeRequests(G, T, n))
PROOF
<1> DEFINE s == NodeRequests(G, T, n)
<1>1. PICK k \in Nat : /\ DOMAIN s = 1..k /\ s = [i \in 1..k |-> s[i]]
                       /\ \A i \in 1..k : Asks(s[i], n, i) /\ i \in 1..MaxOutputs
  BY NodeItems
<1> HIDE DEF s
<1>2. List(s) BY <1>1, ListOf
<1>3. Gives(s)
  <2>1. \A i \in 1..k : <<n, i>> \in Slots BY <1>1 DEF Slots
  <2>2. \A r \in ToSet(s) : \E i \in 1..k : r = s[i] BY <1>1 DEF ToSet
  <2>3. \A i \in 1..k : s[i].do = "give" /\ s[i].slot = <<n, i>> BY <1>1, AsksGive
  <2>. QED BY <2>1, <2>2, <2>3 DEF Gives
<1>. QED BY <1>2, <1>3 DEF s

\* The reads of a node, one for each of its operands.
LEMMA NodeReads ==
    ASSUME NEW G, WellFormed(G), NEW n \in Ids(G)
    PROVE  LET s == [i \in DOMAIN Inputs(G, n) |-> Read(n, Inputs(G, n)[i])] IN
           /\ List(s) /\ Distinct(s)
           /\ \A r \in ToSet(s) : \E x \in InputSet(G, n) : r = Read(n, x)
PROOF
<1> DEFINE ins == Inputs(G, n)
<1> DEFINE k == Len(ins)
<1> DEFINE s == [i \in DOMAIN ins |-> Read(n, ins[i])]
<1>1. ins \in Seq(Ids(G)) /\ ToSet(ins) = InputSet(G, n) /\ Distinct(ins)
  <2>1. Inputs(G, n) \in Seq(Ids(G)) /\ ToSet(Inputs(G, n)) = InputSet(G, n) BY InputsFacts
  <2>2. Distinct(Inputs(G, n))
    <3> DEFINE V == Ids(G)
    <3> DEFINE e == <<>>
    <3> DEFINE t == Args(G, n)
    <3>1. e \in Seq(V) /\ t \in Seq(V) BY WellFormedFacts
    <3>2. Distinct(e) BY DEF Distinct, Ahead
    <3>3. Inputs(G, n) = PutAll(e, t) BY DEF Inputs
    <3> HIDE DEF V, e, t
    <3>4. Distinct(PutAll(e, t)) BY <3>1, <3>2, PutAllFacts
    <3>. QED BY <3>3, <3>4
  <2>. QED BY <2>1, <2>2
<1> HIDE DEF ins
<1>2. k \in Nat /\ DOMAIN ins = 1..k BY <1>1
<1>3. DOMAIN s = 1..k /\ s = [i \in 1..k |-> s[i]] /\ \A i \in 1..k : s[i] = Read(n, ins[i]) BY <1>2
<1>4. List(s)
  <2> HIDE DEF s, k
  <2>. QED BY <1>2, <1>3, ListOf
<1>5. \A i \in 1..k : ins[i] \in InputSet(G, n) BY <1>1, <1>2 DEF ToSet
<1> HIDE DEF s, k
<1>6. \A r \in ToSet(s) : \E x \in InputSet(G, n) : r = Read(n, x) BY <1>3, <1>5 DEF ToSet
<1>7. ASSUME NEW r, Ahead(s, r, r) PROVE FALSE
  <2>1. PICK i, j \in 1..k : i < j /\ s[i] = r /\ s[j] = r BY <1>3, <1>7 DEF Ahead
  <2>2. Read(n, ins[i]) = Read(n, ins[j]) BY <1>3, <2>1
  <2>3. ins[i] = ins[j]
    <3>1. Read(n, ins[i]).operand = ins[i] /\ Read(n, ins[j]).operand = ins[j] BY DEF Read
    <3>. QED BY <2>2, <3>1
  <2>. QED BY <1>1, <1>2, <2>1, <2>3 DEF Distinct, Ahead
<1>. QED BY <1>4, <1>6, <1>7 DEF Distinct, s, ins

\* What is played for the nodes in N: requests for slots there are, and reads.
Plays(s, G, N) ==
    \A r \in ToSet(s) : \/ r.do = "give" /\ r.slot \in Slots
                        \/ \E n \in N : \E x \in InputSet(G, n) : r = Read(n, x)

\* Nothing but a request is played twice.
Once(s) == \A r : r.do # "give" => ~Ahead(s, r, r)

LEMMA AheadIsListed ==
    ASSUME NEW s, NEW x, NEW y, Ahead(s, x, y)
    PROVE  x \in ToSet(s) /\ y \in ToSet(s)
BY DEF Ahead, ToSet

\* A list of lists of requests.
LEMMA FlattenGives ==
    ASSUME NEW n \in Nat, NEW ss, ss = [i \in 1..n |-> ss[i]], \A i \in 1..n : List(ss[i]) /\ Gives(ss[i])
    PROVE  List(FlattenSeq(ss)) /\ Gives(FlattenSeq(ss))
PROOF
<1>1. List(FlattenSeq(ss)) /\ ToSet(FlattenSeq(ss)) = UNION {ToSet(ss[i]) : i \in 1..n} BY FlattenLists
<1>2. ASSUME NEW r \in ToSet(FlattenSeq(ss)) PROVE r.do = "give" /\ r.slot \in Slots
  <2>1. PICK i \in 1..n : r \in ToSet(ss[i]) BY <1>1
  <2>. QED BY <2>1 DEF Gives
<1>. QED BY <1>1, <1>2 DEF Gives

LEMMA NodeIsPlayed ==
    ASSUME NEW G, WellFormed(G), NEW n \in Ids(G), NEW own, List(own), Gives(own)
    PROVE  LET s == own \o [i \in DOMAIN Inputs(G, n) |-> Read(n, Inputs(G, n)[i])] IN
           List(s) /\ Plays(s, G, {n}) /\ Once(s)
PROOF
<1> DEFINE t == [i \in DOMAIN Inputs(G, n) |-> Read(n, Inputs(G, n)[i])]
<1>1. List(t) /\ Distinct(t) /\ \A r \in ToSet(t) : \E x \in InputSet(G, n) : r = Read(n, x) BY NodeReads
<1> HIDE DEF t
<1>2. /\ List(own \o t) /\ ToSet(own \o t) = ToSet(own) \cup ToSet(t)
      /\ \A x, y : Ahead(own \o t, x, y) =>
            Ahead(own, x, y) \/ Ahead(t, x, y) \/ (x \in ToSet(own) /\ y \in ToSet(t))
  BY <1>1, JoinLists
<1>3. Plays(own \o t, G, {n}) BY <1>1, <1>2 DEF Plays, Gives
<1>4. Once(own \o t)
  <2>1. \A x : Ahead(own, x, x) => x \in ToSet(own) BY AheadIsListed
  <2>. QED BY <1>1, <1>2, <2>1 DEF Once, Distinct, Gives
<1>. QED BY <1>2, <1>3, <1>4 DEF t

\* The script of a list of nodes without repetition.
LEMMA ScriptFacts ==
    ASSUME NEW G, WellFormed(G), Ids(G) \subseteq Names, NEW T, NEW nodes, nodes \subseteq Ids(G),
           NEW cats \in Seq(Ids(G)), NEW others \in Seq(Ids(G)), Distinct(others)
    PROVE  LET s == Script(G, T, nodes, cats, others) IN
           List(s) /\ Plays(s, G, ToSet(others)) /\ Once(s)
PROOF
<1> DEFINE Slot(k, i) == IF k > 1 /\ others[k - 1] = others[k] THEN i + 2 ELSE i
<1> DEFINE Requested(k) == LET asked == NodeRequests(G, T, others[k])
                           IN [i \in DOMAIN asked |-> [asked[i] EXCEPT !.slot[2] = Slot(k, @)]]
<1> DEFINE Play(k) == (IF Readers(G, nodes, others[k]) = {} THEN <<>> ELSE Requested(k))
                         \o [i \in DOMAIN Inputs(G, others[k]) |-> Read(others[k], Inputs(G, others[k])[i])]
<1> DEFINE first == [i \in DOMAIN cats |-> NodeRequests(G, T, cats[i])]
<1> DEFINE rest == [k \in DOMAIN others |-> Play(k)]
<1> DEFINE c == Len(cats)
<1> DEFINE l == Len(others)
<1>1. Script(G, T, nodes, cats, others) = FlattenSeq(first) \o FlattenSeq(rest) BY DEF Script
<1>2. c \in Nat /\ DOMAIN cats = 1..c /\ \A i \in 1..c : cats[i] \in Ids(G) OBVIOUS
<1>3. l \in Nat /\ DOMAIN others = 1..l /\ \A k \in 1..l : others[k] \in Ids(G) OBVIOUS
<1>4. List(FlattenSeq(first)) /\ Gives(FlattenSeq(first))
  <2>1. DOMAIN first = 1..c /\ first = [i \in 1..c |-> first[i]] /\ \A i \in 1..c : first[i] = NodeRequests(G, T, cats[i])
    BY <1>2
  <2> HIDE DEF first, c
  <2>2. \A i \in 1..c : List(first[i]) /\ Gives(first[i]) BY <1>2, <2>1, NodeGives
  <2>. QED BY <1>2, <2>1, <2>2, FlattenGives
<1>5. ASSUME NEW k \in 1..l PROVE List(Requested(k)) /\ Gives(Requested(k))
  <2> DEFINE n == others[k]
  <2> DEFINE asked == NodeRequests(G, T, n)
  <2> DEFINE own == [i \in DOMAIN asked |-> [asked[i] EXCEPT !.slot[2] = Slot(k, @)]]
  <2>0. Requested(k) = own OBVIOUS
  <2>1. n \in Ids(G) BY <1>3
  <2>2. \A i : Slot(k, i) = i
    <3>1. k > 1 => k - 1 \in DOMAIN others /\ k \in DOMAIN others /\ k - 1 < k BY <1>3
    <3>2. k > 1 => others[k - 1] # others[k] BY <3>1 DEF Distinct, Ahead
    <3>. QED BY <3>2
  <2> HIDE DEF Slot, n, asked, l
  <2>3. PICK j \in Nat : /\ DOMAIN asked = 1..j /\ asked = [i \in 1..j |-> asked[i]]
                         /\ \A i \in 1..j : Asks(asked[i], n, i) /\ i \in 1..MaxOutputs
    BY <2>1, NodeItems DEF asked
  <2>4. DOMAIN own = 1..j /\ \A i \in 1..j : own[i] = [asked[i] EXCEPT !.slot[2] = Slot(k, @)] BY <2>3
  <2>5. own = [i \in 1..j |-> own[i]] BY <2>3
  <2> HIDE DEF own
  <2>6. ASSUME NEW i \in 1..j PROVE own[i].do = "give" /\ own[i].slot \in Slots
    <3> DEFINE r == asked[i]
    <3>1. Asks(r, n, i) BY <2>3
    <3>2. own[i] = [r EXCEPT !.slot[2] = Slot(k, r.slot[2])] BY <2>4
    <3> HIDE DEF r
    <3>3. Slot(k, r.slot[2]) = i BY <2>2, <3>1, AsksGive
    <3>4. own[i] = [r EXCEPT !.slot[2] = i] BY <3>2, <3>3
    <3> DEFINE e == [r EXCEPT !.slot[2] = i]
    <3>5. e.do = "give" /\ e.slot = <<n, i>>
      <4>1. PICK na, wa, sa, pin : r = Ask(n, i, na, wa, sa, pin) BY <3>1 DEF Asks
      <4>2. e = [Ask(n, i, na, wa, sa, pin) EXCEPT !.slot[2] = i] BY <4>1
      <4> HIDE DEF e
      <4>. QED BY <4>2 DEF Ask
    <3>6. own[i] = e BY <3>4
    <3>. QED BY <2>1, <2>3, <3>5, <3>6 DEF Slots
  <2>7. List(own) BY <2>4, <2>5, ListOf
  <2>8. Gives(own) BY <2>4, <2>6 DEF Gives, ToSet
  <2>. QED BY <2>0, <2>7, <2>8
<1>6. ASSUME NEW k \in 1..l PROVE List(Play(k)) /\ Plays(Play(k), G, {others[k]}) /\ Once(Play(k))
  <2> DEFINE own == IF Readers(G, nodes, others[k]) = {} THEN <<>> ELSE Requested(k)
  <2>1. List(<<>>) /\ Gives(<<>>) BY DEF List, Gives, ToSet
  <2>2. List(own) /\ Gives(own) BY <1>5, <2>1
  <2> DEFINE n == others[k]
  <2>3. n \in Ids(G) BY <1>3
  <2>4. Play(k) = own \o [i \in DOMAIN Inputs(G, n) |-> Read(n, Inputs(G, n)[i])] OBVIOUS
  <2> HIDE DEF own, Play, n
  <2>5. List(Play(k)) /\ Plays(Play(k), G, {n}) /\ Once(Play(k)) BY <2>2, <2>3, <2>4, NodeIsPlayed
  <2>. QED BY <2>5 DEF n
<1>7. DOMAIN rest = 1..l /\ rest = [k \in 1..l |-> rest[k]] /\ \A k \in 1..l : rest[k] = Play(k) BY <1>3
<1> HIDE DEF first, Play, c
<1>8. \A k \in 1..l : List(rest[k]) /\ Plays(rest[k], G, {others[k]}) /\ Once(rest[k]) BY <1>6, <1>7
<1> HIDE DEF rest, l
<1>9. /\ List(FlattenSeq(rest)) /\ ToSet(FlattenSeq(rest)) = UNION {ToSet(rest[k]) : k \in 1..l}
      /\ \A x, y : Ahead(FlattenSeq(rest), x, y) => AheadIn(rest, l, x, y)
  BY <1>3, <1>7, <1>8, FlattenLists
<1>10. Plays(FlattenSeq(rest), G, ToSet(others))
  <2>1. ASSUME NEW r \in ToSet(FlattenSeq(rest))
        PROVE  \/ r.do = "give" /\ r.slot \in Slots
               \/ \E n \in ToSet(others) : \E x \in InputSet(G, n) : r = Read(n, x)
    <3>1. PICK k \in 1..l : r \in ToSet(rest[k]) BY <1>9
    <3>2. others[k] \in ToSet(others) BY <1>3 DEF ToSet
    <3>. QED BY <1>8, <3>1, <3>2 DEF Plays
  <2>. QED BY <2>1 DEF Plays
<1>11. Once(FlattenSeq(rest))
  <2> SUFFICES ASSUME NEW r, r.do # "give", Ahead(FlattenSeq(rest), r, r) PROVE FALSE BY DEF Once
  <2>1. AheadIn(rest, l, r, r) BY <1>9
  <2>2. PICK i, j \in 1..l : i < j /\ r \in ToSet(rest[i]) /\ r \in ToSet(rest[j])
    BY <1>8, <2>1 DEF AheadIn, Once
  <2>3. (\E x : r = Read(others[i], x)) /\ (\E x : r = Read(others[j], x)) BY <1>8, <2>2 DEF Plays
  <2>4. r.node = others[i] /\ r.node = others[j] BY <2>3 DEF Read
  <2>. QED BY <1>3, <2>2, <2>4 DEF Distinct, Ahead
<1> DEFINE a == FlattenSeq(first)
<1> DEFINE b == FlattenSeq(rest)
<1>12. List(a) /\ Gives(a) /\ List(b) /\ Plays(b, G, ToSet(others)) /\ Once(b) BY <1>4, <1>9, <1>10, <1>11
<1> HIDE DEF a, b
<1>13. /\ List(a \o b) /\ ToSet(a \o b) = ToSet(a) \cup ToSet(b)
       /\ \A x, y : Ahead(a \o b, x, y) => Ahead(a, x, y) \/ Ahead(b, x, y) \/ (x \in ToSet(a) /\ y \in ToSet(b))
  BY <1>12, JoinLists
<1>14. Plays(a \o b, G, ToSet(others)) BY <1>12, <1>13 DEF Plays, Gives
<1>15. Once(a \o b)
  <2>1. \A x : Ahead(a, x, x) => x \in ToSet(a) BY AheadIsListed
  <2>. QED BY <1>12, <1>13, <2>1 DEF Once, Gives
<1>. QED BY <1>1, <1>13, <1>14, <1>15 DEF a, b

-----------------------------------------------------------------------------
(* The invariant of the memory plan.                                       *)

InPlace(s) == Nram!Holds(s) /\ Wram!Holds(s) /\ Sm!Holds(s)

\* The nodes that are still to read x.
Waiting(G, s, x) == {n \in Ids(G) : Read(n, x) \in ToSet(s)}

\* What is left to play: a request for a slot there is, a read by a node of an operand
\* that is counted, or the return of a slot in place that nobody waits for.
GoodItem(r) ==
    \/ r.do = "give" /\ r.slot \in Slots
    \/ r.do = "read" /\ r = Read(r.node, r.operand) /\ r.node \in Ids(graph) /\ r.operand \in DOMAIN count
    \/ /\ r.do = "return" /\ r = Return(r.slot) /\ r.slot \in Slots
       /\ r.slot[1] \in DOMAIN count /\ count[r.slot[1]] = 0 /\ InPlace(r.slot)

Scripted == List(todo) /\ (\A r \in ToSet(todo) : GoodItem(r)) /\ Once(todo)
Counts == \A x \in DOMAIN count : count[x] \in Nat /\ Cardinality(Waiting(graph, todo, x)) <= count[x]
Kept == given \subseteq Slots /\ \A x \in DOMAIN count : count[x] # 0 => \A s \in given : s[1] = x => InPlace(s)
Playing == Scripted /\ Counts /\ Kept

\* There is a place for every slot, and the inputs of a subgraph are listed in some order.
PoolsInv ==
    /\ \A S \in DOMAIN orders : orders[S] \in Seq(S)
    /\ DOMAIN nramLive = Slots /\ DOMAIN wramLive = Slots /\ DOMAIN smLive = Slots

PlanInv ==
    /\ PoolsInv
    /\ pc \in Trying => Distinct(fused)
    /\ PlayedOnce => Playing

\* What the lists of a plan tell apart.
LEMMA Kinds ==
    /\ \A n, x : Read(n, x).do = "read" /\ Read(n, x).node = n /\ Read(n, x).operand = x
    /\ \A s : Return(s).do = "return" /\ Return(s).slot = s
BY DEF Read, Return

\* A pool that gives s keeps everything it had given.
LEMMA PoolGives ==
    ASSUME NEW f, NEW s \in DOMAIN f, NEW g, NEW b, b # Nram!Nothing, g = [f EXCEPT ![s] = b]
    PROVE  /\ DOMAIN g = DOMAIN f /\ g[s] # Nram!Nothing
           /\ \A o \in DOMAIN f : f[o] # Nram!Nothing => g[o] # Nram!Nothing
OBVIOUS

\* A pool that takes s back keeps everything else.
LEMMA PoolTakes ==
    ASSUME NEW f, NEW s \in DOMAIN f, f[s] # Nram!Nothing, NEW g, NEW p \in DOMAIN f,
           g = [f EXCEPT ![p] = f[s], ![s] = Nram!Nothing]
    PROVE  /\ DOMAIN g = DOMAIN f
           /\ \A o \in DOMAIN f : o # s /\ f[o] # Nram!Nothing => g[o] # Nram!Nothing
OBVIOUS

LEMMA NothingIsEmpty ==
    ASSUME NEW offset, NEW size
    PROVE  [offset |-> offset, size |-> Nram!Need(size)] # Nram!Nothing
PROOF
<1>1. Nram!Need(size) # 0 BY DEF Nram!Need
<1>2. Nram!Nothing.size = 0 BY DEF Nram!Nothing
<1>. QED BY <1>1, <1>2

LEMMA PoolsGive ==
    ASSUME PoolsInv, NEW s \in Slots, NEW k, NEW l, NEW m, NramAlloc(s, k), WramAlloc(s, l), SmAlloc(s, m),
           orders' = orders
    PROVE  PoolsInv' /\ InPlace(s)' /\ \A o \in Slots : InPlace(o) => InPlace(o)'
PROOF
<1>1. \E offset : nramLive' = [nramLive EXCEPT ![s] = [offset |-> offset, size |-> Nram!Need(k)]]
  BY DEF NramAlloc, Nram!AllocBestFit, Nram!AllocExtend, Nram!AllocGrow, Nram!Give
<1>2. \E offset : wramLive' = [wramLive EXCEPT ![s] = [offset |-> offset, size |-> Nram!Need(l)]]
  BY DEF WramAlloc, Wram!AllocBestFit, Wram!AllocExtend, Wram!AllocGrow, Wram!Give, Wram!Need, Nram!Need
<1>3. \E offset : smLive' = [smLive EXCEPT ![s] = [offset |-> offset, size |-> Nram!Need(m)]]
  BY DEF SmAlloc, Sm!AllocBestFit, Sm!AllocExtend, Sm!AllocGrow, Sm!Give, Sm!Need, Nram!Need
<1>4. DOMAIN nramLive = Slots /\ DOMAIN wramLive = Slots /\ DOMAIN smLive = Slots BY DEF PoolsInv
<1>5. /\ DOMAIN nramLive' = Slots /\ nramLive'[s] # Nram!Nothing
      /\ \A o \in Slots : nramLive[o] # Nram!Nothing => nramLive'[o] # Nram!Nothing
  BY <1>1, <1>4, NothingIsEmpty, PoolGives
<1>6. /\ DOMAIN wramLive' = Slots /\ wramLive'[s] # Nram!Nothing
      /\ \A o \in Slots : wramLive[o] # Nram!Nothing => wramLive'[o] # Nram!Nothing
  BY <1>2, <1>4, NothingIsEmpty, PoolGives
<1>7. /\ DOMAIN smLive' = Slots /\ smLive'[s] # Nram!Nothing
      /\ \A o \in Slots : smLive[o] # Nram!Nothing => smLive'[o] # Nram!Nothing
  BY <1>3, <1>4, NothingIsEmpty, PoolGives
<1>8. PoolsInv' BY <1>5, <1>6, <1>7 DEF PoolsInv
<1>9. InPlace(s)' /\ \A o \in Slots : InPlace(o) => InPlace(o)'
  BY <1>5, <1>6, <1>7 DEF InPlace, Nram!Holds, Wram!Holds, Sm!Holds, Nram!Nothing, Wram!Nothing, Sm!Nothing
<1>. QED BY <1>8, <1>9

LEMMA PoolsTake ==
    ASSUME PoolsInv, NEW s \in Slots, Nram!Free(s), Wram!Free(s), Sm!Free(s), orders' = orders
    PROVE  PoolsInv' /\ \A o \in Slots : o # s /\ InPlace(o) => InPlace(o)'
PROOF
<1>1. nramLive[s] # Nram!Nothing /\ \E p \in Slots : nramLive' = [nramLive EXCEPT ![p] = nramLive[s], ![s] = Nram!Nothing]
  BY DEF Nram!Free, Nram!MayFree, Nram!Holds
<1>2. wramLive[s] # Nram!Nothing /\ \E p \in Slots : wramLive' = [wramLive EXCEPT ![p] = wramLive[s], ![s] = Nram!Nothing]
  BY DEF Wram!Free, Wram!MayFree, Wram!Holds, Wram!Nothing, Nram!Nothing
<1>3. smLive[s] # Nram!Nothing /\ \E p \in Slots : smLive' = [smLive EXCEPT ![p] = smLive[s], ![s] = Nram!Nothing]
  BY DEF Sm!Free, Sm!MayFree, Sm!Holds, Sm!Nothing, Nram!Nothing
<1>4. DOMAIN nramLive = Slots /\ DOMAIN wramLive = Slots /\ DOMAIN smLive = Slots BY DEF PoolsInv
<1>5. /\ DOMAIN nramLive' = Slots
      /\ \A o \in Slots : o # s /\ nramLive[o] # Nram!Nothing => nramLive'[o] # Nram!Nothing
  BY <1>1, <1>4, PoolTakes
<1>6. /\ DOMAIN wramLive' = Slots
      /\ \A o \in Slots : o # s /\ wramLive[o] # Nram!Nothing => wramLive'[o] # Nram!Nothing
  BY <1>2, <1>4, PoolTakes
<1>7. /\ DOMAIN smLive' = Slots
      /\ \A o \in Slots : o # s /\ smLive[o] # Nram!Nothing => smLive'[o] # Nram!Nothing
  BY <1>3, <1>4, PoolTakes
<1>8. PoolsInv' BY <1>5, <1>6, <1>7 DEF PoolsInv
<1>9. \A o \in Slots : o # s /\ InPlace(o) => InPlace(o)'
  BY <1>5, <1>6, <1>7 DEF InPlace, Nram!Holds, Wram!Holds, Sm!Holds, Nram!Nothing, Wram!Nothing, Sm!Nothing
<1>. QED BY <1>8, <1>9

\* As fewer reads are left, fewer nodes wait.
LEMMA FewerWait ==
    ASSUME NEW G, WellFormed(G), NEW s, NEW t, NEW x, \A n : Read(n, x) \in ToSet(t) => Read(n, x) \in ToSet(s)
    PROVE  /\ Cardinality(Waiting(G, s, x)) \in Nat /\ Cardinality(Waiting(G, t, x)) \in Nat
           /\ Cardinality(Waiting(G, t, x)) <= Cardinality(Waiting(G, s, x))
           /\ \A m \in Waiting(G, s, x) \ Waiting(G, t, x) :
                 Cardinality(Waiting(G, t, x)) <= Cardinality(Waiting(G, s, x)) - 1
PROOF
<1> DEFINE A == Waiting(G, s, x)
<1> DEFINE B == Waiting(G, t, x)
<1>1. IsFiniteSet(Ids(G)) /\ A \subseteq Ids(G) /\ B \subseteq A
  <2>1. IsList(G) BY WellFormedFacts
  <2>. QED BY <2>1, IdsFinite DEF Waiting
<1>2. IsFiniteSet(A) /\ IsFiniteSet(B) /\ Cardinality(B) <= Cardinality(A) BY <1>1, FS_Subset
<1>3. Cardinality(A) \in Nat /\ Cardinality(B) \in Nat BY <1>2, FS_CardinalityType
<1>4. ASSUME NEW m \in A \ B PROVE Cardinality(B) <= Cardinality(A) - 1
  <2>1. B \in SUBSET (A \ {m}) BY <1>1
  <2>2. IsFiniteSet(A \ {m}) /\ Cardinality(A \ {m}) = Cardinality(A) - 1 BY <1>2, FS_RemoveElement
  <2>3. Cardinality(B) <= Cardinality(A \ {m}) BY <2>1, <2>2, FS_Subset
  <2>. QED BY <2>2, <2>3
<1>. QED BY <1>2, <1>3, <1>4

LEMMA GivePlaying ==
    ASSUME WellFormed(graph), graph' = graph, PoolsInv, Playing, Give
    PROVE  PoolsInv' /\ Playing'
PROOF
<1> DEFINE r == Head(todo)
<1>1. /\ todo # <<>> /\ r.do = "give" /\ todo' = Tail(todo) /\ orders' = orders /\ count' = count
      /\ NramAlloc(r.slot, r.nram) /\ WramAlloc(r.slot, r.wram) /\ SmAlloc(r.slot, r.sm)
      /\ given' = given \cup {r.slot}
  BY DEF Give, Up
<1>2. List(todo) /\ (\A i \in ToSet(todo) : GoodItem(i)) /\ Once(todo) BY DEF Playing, Scripted
<1>3. List(todo') /\ ToSet(todo) = {r} \cup ToSet(todo') /\ \A x, y : Ahead(todo', x, y) => Ahead(todo, x, y)
  BY <1>1, <1>2, TailFacts
<1>4. r.slot \in Slots
  <2>1. GoodItem(r) BY <1>2, <1>3
  <2>. QED BY <1>1, <2>1 DEF GoodItem
<1>5. PICK u \in Slots : u = r.slot BY <1>4
<1>6. PoolsInv' /\ InPlace(u)' /\ \A o \in Slots : InPlace(o) => InPlace(o)' BY <1>1, <1>5, PoolsGive
<1>7. Scripted'
  <2>1. ASSUME NEW i \in ToSet(todo') PROVE GoodItem(i)'
    <3>1. GoodItem(i) BY <1>2, <1>3
    <3> HIDE DEF r
    <3>. QED BY <1>1, <1>6, <3>1 DEF GoodItem
  <2>2. Once(todo') BY <1>2, <1>3 DEF Once
  <2>. QED BY <1>3, <2>1, <2>2 DEF Scripted
<1>8. Counts'
  <2> SUFFICES ASSUME NEW x \in DOMAIN count
               PROVE  count[x] \in Nat /\ Cardinality(Waiting(graph, todo', x)) <= count[x]
    BY <1>1 DEF Counts
  <2>1. count[x] \in Nat /\ Cardinality(Waiting(graph, todo, x)) <= count[x] BY DEF Playing, Counts
  <2>2. \A n : Read(n, x) \in ToSet(todo') => Read(n, x) \in ToSet(todo) BY <1>3
  <2>3. /\ Cardinality(Waiting(graph, todo, x)) \in Nat /\ Cardinality(Waiting(graph, todo', x)) \in Nat
        /\ Cardinality(Waiting(graph, todo', x)) <= Cardinality(Waiting(graph, todo, x))
    BY <2>2, FewerWait
  <2>. QED BY <2>1, <2>3
<1>9. Kept'
  <2>1. given' = given \cup {u} BY <1>1, <1>5
  <2> HIDE DEF r
  <2>. QED BY <1>1, <1>5, <1>6, <2>1 DEF Playing, Kept
<1>. QED BY <1>6, <1>7, <1>8, <1>9 DEF Playing

\* The slots that go back after the last read of x.
Returned(x, S) ==
    LET mine == Part([i \in 1 .. MaxOutputs |-> <<x, i>>], S) IN [i \in DOMAIN mine |-> Return(mine[i])]

LEMMA ReturnsFacts ==
    ASSUME NEW x, NEW S
    PROVE  /\ List(Returned(x, S)) /\ Distinct(Returned(x, S))
           /\ \A r \in ToSet(Returned(x, S)) : \E o \in S : o[1] = x /\ r = Return(o)
PROOF
<1> DEFINE base == [i \in 1 .. MaxOutputs |-> <<x, i>>]
<1> DEFINE V == {<<x, i>> : i \in 1 .. MaxOutputs}
<1> DEFINE mine == Part(base, S)
<1> DEFINE s == [i \in DOMAIN mine |-> Return(mine[i])]
<1>1. base \in Seq(V) BY SlotsAssumption
<1>2. \A y : ~Ahead(base, y, y)
  <2> SUFFICES ASSUME NEW i \in 1 .. MaxOutputs, NEW j \in 1 .. MaxOutputs, i < j, base[i] = base[j] PROVE FALSE
    BY DEF Ahead
  <2>1. base[i][2] = i /\ base[j][2] = j OBVIOUS
  <2>. QED BY <2>1, SlotsAssumption
<1>3. \A y \in V : y[1] = x OBVIOUS
<1> HIDE DEF base, V
<1>4. mine \in Seq(V) /\ ToSet(mine) = ToSet(base) \cap S /\ \A y : ~Ahead(mine, y, y) BY <1>1, <1>2, PartFacts
<1> HIDE DEF mine
<1>5. Len(mine) \in Nat /\ DOMAIN mine = 1 .. Len(mine) /\ \A i \in DOMAIN mine : mine[i] \in V /\ mine[i] \in S
  BY <1>4 DEF ToSet
<1>6. DOMAIN s = 1 .. Len(mine) /\ s = [i \in 1 .. Len(mine) |-> s[i]] /\ \A i \in DOMAIN s : s[i] = Return(mine[i])
  BY <1>5
<1> HIDE DEF s
<1>7. List(s) BY <1>5, <1>6, ListOf
<1>8. Distinct(s)
  <2> SUFFICES ASSUME NEW i \in DOMAIN s, NEW j \in DOMAIN s, i < j, s[i] = s[j] PROVE FALSE BY DEF Distinct, Ahead
  <2>1. mine[i] = mine[j] BY <1>6, Kinds
  <2>. QED BY <1>4, <1>5, <1>6, <2>1 DEF Ahead
<1>9. \A r \in ToSet(s) : \E o \in S : o[1] = x /\ r = Return(o) BY <1>3, <1>5, <1>6 DEF ToSet
<1>. QED BY <1>7, <1>8, <1>9 DEF s, mine, base, Returned

LEMMA ReadPlaying ==
    ASSUME WellFormed(graph), graph' = graph, PoolsInv, Playing, ReadOperand
    PROVE  PoolsInv' /\ Playing'
PROOF
<1> DEFINE r == Head(todo)
<1> DEFINE tail == Tail(todo)
<1>1. /\ List(todo) /\ (\A i \in ToSet(todo) : GoodItem(i)) /\ Once(todo)
      /\ \A y \in DOMAIN count : count[y] \in Nat /\ Cardinality(Waiting(graph, todo, y)) <= count[y]
      /\ given \subseteq Slots /\ \A y \in DOMAIN count : count[y] # 0 => \A s \in given : s[1] = y => InPlace(s)
  BY DEF Playing, Scripted, Counts, Kept
<1>2. /\ todo # <<>> /\ r.do = "read" /\ count[r.operand] > 0
      /\ orders' = orders /\ given' = given /\ UNCHANGED poolVars
      /\ count' = [count EXCEPT ![r.operand] = @ - 1]
  BY DEF ReadOperand, Up
<1>3. /\ List(tail) /\ ToSet(todo) = {r} \cup ToSet(tail)
      /\ (\A a, b : Ahead(tail, a, b) => Ahead(todo, a, b))
      /\ \A b \in ToSet(tail) : Ahead(todo, r, b)
  BY <1>1, <1>2, TailFacts
<1>4. r = Read(r.node, r.operand) /\ r.node \in Ids(graph) /\ r.operand \in DOMAIN count
  <2>1. GoodItem(r) BY <1>1, <1>3
  <2>. QED BY <1>2, <2>1 DEF GoodItem
<1>5. r \notin ToSet(tail) /\ Once(tail)
  <2>1. ~Ahead(todo, r, r) BY <1>1, <1>2 DEF Once
  <2>2. Once(tail) BY <1>1, <1>3 DEF Once
  <2>. QED BY <1>3, <2>1, <2>2
<1>6. PICK x \in DOMAIN count, n \in Ids(graph) : x = r.operand /\ n = r.node BY <1>4
<1>7. PICK back : /\ todo' = back \o tail
                  /\ List(back) /\ Distinct(back)
                  /\ \A i \in ToSet(back) : \E o \in given : o[1] = x /\ i = Return(o) /\ count[x] = 1
  <2> DEFINE rets == Returned(x, given \ pinned)
  <2>1. todo' = (IF count[x] = 1 THEN rets ELSE <<>>) \o tail BY <1>6 DEF ReadOperand, Returned
  <2>2. List(rets) /\ Distinct(rets) /\ \A i \in ToSet(rets) : \E o \in given \ pinned : o[1] = x /\ i = Return(o)
    BY ReturnsFacts
  <2> HIDE DEF rets, tail
  <2>3. List(<<>>) /\ Distinct(<<>>) /\ ToSet(<<>>) = {} BY DEF List, Distinct, Ahead, ToSet
  <2>4. CASE count[x] = 1 BY <2>1, <2>2, <2>4
  <2>5. CASE count[x] # 1 BY <2>1, <2>3, <2>5
  <2>. QED BY <2>4, <2>5
<1>8. /\ List(todo') /\ ToSet(todo') = ToSet(back) \cup ToSet(tail)
      /\ \A a, b : Ahead(todo', a, b) => Ahead(back, a, b) \/ Ahead(tail, a, b) \/ (a \in ToSet(back) /\ b \in ToSet(tail))
  <2> HIDE DEF tail
  <2>. QED BY <1>3, <1>7, JoinLists
<1>9. count' = [count EXCEPT ![x] = @ - 1] /\ count[x] \in Nat /\ count[x] > 0 BY <1>1, <1>2, <1>6
<1>10. r = Read(n, x) /\ r \notin ToSet(tail) /\ Read(n, x) \in ToSet(todo) BY <1>3, <1>4, <1>5, <1>6
<1>11. \A s : InPlace(s)' <=> InPlace(s)
  BY <1>2 DEF InPlace, Nram!Holds, Wram!Holds, Sm!Holds, poolVars
<1>12. \A i \in ToSet(tail) : GoodItem(i) BY <1>1, <1>3
<1> HIDE DEF r, tail
<1>13. DOMAIN count' = DOMAIN count /\ count'[x] = count[x] - 1 /\ \A y \in DOMAIN count : y # x => count'[y] = count[y]
  BY <1>9
<1>14. Scripted'
  <2>1. ASSUME NEW i \in ToSet(back) PROVE GoodItem(i)'
    <3>1. PICK o \in given : o[1] = x /\ i = Return(o) /\ count[x] = 1 BY <1>7
    <3>2. i.do = "return" /\ i.slot = o BY <3>1, Kinds
    <3>3. o \in Slots /\ InPlace(o)' BY <1>1, <1>9, <1>11, <3>1
    <3>4. count'[x] = 0 BY <1>13, <3>1
    <3>. QED BY <1>13, <3>1, <3>2, <3>3, <3>4 DEF GoodItem
  <2>2. ASSUME NEW i \in ToSet(tail) PROVE GoodItem(i)'
    <3>1. GoodItem(i) BY <1>12
    <3>2. CASE i.do # "return" BY <1>2, <1>6, <1>13, <3>1, <3>2 DEF GoodItem
    <3>3. CASE i.do = "return"
      <4>1. /\ i = Return(i.slot) /\ i.slot \in Slots /\ i.slot[1] \in DOMAIN count
            /\ count[i.slot[1]] = 0 /\ InPlace(i.slot)
        BY <3>1, <3>3 DEF GoodItem
      <4>2. count'[i.slot[1]] = 0 BY <1>9, <1>13, <4>1
      <4>3. InPlace(i.slot)' BY <1>11, <4>1
      <4>. QED BY <1>13, <3>3, <4>1, <4>2, <4>3 DEF GoodItem
    <3>. QED BY <3>2, <3>3
  <2>3. \A i \in ToSet(todo') : GoodItem(i)' BY <1>8, <2>1, <2>2
  <2>4. ASSUME NEW i, i.do # "give", Ahead(todo', i, i) PROVE FALSE
    <3>1. ~Ahead(back, i, i) /\ ~Ahead(tail, i, i) BY <1>5, <1>7, <2>4 DEF Distinct, Once
    <3>2. i \in ToSet(back) /\ i \in ToSet(tail) BY <1>8, <2>4, <3>1
    <3>3. PICK o : o[1] = x /\ i = Return(o) BY <1>7, <3>2
    <3>4. i.do = "return" /\ i.slot = o BY <3>3, Kinds
    <3>5. count[x] = 0 BY <1>12, <3>2, <3>3, <3>4 DEF GoodItem
    <3>. QED BY <1>9, <3>5
  <2>5. Once(todo') BY <2>4 DEF Once
  <2>. QED BY <1>8, <2>3, <2>5 DEF Scripted
<1>15. Counts'
  <2> SUFFICES ASSUME NEW y \in DOMAIN count
               PROVE  count'[y] \in Nat /\ Cardinality(Waiting(graph, todo', y)) <= count'[y]
    BY <1>13 DEF Counts
  <2>1. ASSUME NEW m, Read(m, y) \in ToSet(todo') PROVE Read(m, y) \in ToSet(tail)
    <3>1. Read(m, y) \notin ToSet(back)
      <4>1. Read(m, y).do = "read" BY Kinds
      <4>2. \A i \in ToSet(back) : i.do = "return" BY <1>7, Kinds
      <4>. QED BY <4>1, <4>2
    <3>. QED BY <1>8, <2>1, <3>1
  <2>2. \A m : Read(m, y) \in ToSet(todo') => Read(m, y) \in ToSet(todo) BY <1>3, <2>1
  <2>3. /\ Cardinality(Waiting(graph, todo, y)) \in Nat /\ Cardinality(Waiting(graph, todo', y)) \in Nat
        /\ Cardinality(Waiting(graph, todo', y)) <= Cardinality(Waiting(graph, todo, y))
        /\ \A m \in Waiting(graph, todo, y) \ Waiting(graph, todo', y) :
              Cardinality(Waiting(graph, todo', y)) <= Cardinality(Waiting(graph, todo, y)) - 1
    BY <2>2, FewerWait
  <2>4. count[y] \in Nat /\ Cardinality(Waiting(graph, todo, y)) <= count[y] BY <1>1
  <2>5. CASE y # x BY <1>13, <2>3, <2>4, <2>5
  <2>6. CASE y = x
    <3>1. n \in Waiting(graph, todo, y) BY <1>10, <2>6 DEF Waiting
    <3>2. n \notin Waiting(graph, todo', y) BY <1>10, <2>1, <2>6 DEF Waiting
    <3>3. Cardinality(Waiting(graph, todo', y)) <= Cardinality(Waiting(graph, todo, y)) - 1 BY <2>3, <3>1, <3>2
    <3>. QED BY <1>9, <1>13, <2>3, <2>4, <2>6, <3>3
  <2>. QED BY <2>5, <2>6
<1>16. Kept'
  <2>1. \A y \in DOMAIN count : count'[y] # 0 => count[y] # 0 BY <1>1, <1>9, <1>13
  <2>. QED BY <1>1, <1>2, <1>11, <1>13, <2>1 DEF Kept
<1>17. PoolsInv' BY <1>2 DEF PoolsInv, poolVars
<1>. QED BY <1>14, <1>15, <1>16, <1>17 DEF Playing

LEMMA ReturnPlaying ==
    ASSUME WellFormed(graph), graph' = graph, PoolsInv, Playing, ReturnSlot
    PROVE  PoolsInv' /\ Playing'
PROOF
<1> DEFINE r == Head(todo)
<1>1. /\ List(todo) /\ (\A i \in ToSet(todo) : GoodItem(i)) /\ Once(todo)
      /\ \A y \in DOMAIN count : count[y] \in Nat /\ Cardinality(Waiting(graph, todo, y)) <= count[y]
      /\ given \subseteq Slots /\ \A y \in DOMAIN count : count[y] # 0 => \A s \in given : s[1] = y => InPlace(s)
  BY DEF Playing, Scripted, Counts, Kept
<1>2. /\ todo # <<>> /\ r.do = "return" /\ todo' = Tail(todo)
      /\ Nram!Free(r.slot) /\ Wram!Free(r.slot) /\ Sm!Free(r.slot)
      /\ orders' = orders /\ given' = given /\ count' = count
  BY DEF ReturnSlot, Up
<1>3. /\ List(todo') /\ ToSet(todo) = {r} \cup ToSet(todo')
      /\ (\A a, b : Ahead(todo', a, b) => Ahead(todo, a, b))
      /\ \A b \in ToSet(todo') : Ahead(todo, r, b)
  BY <1>1, <1>2, TailFacts
<1>4. r = Return(r.slot) /\ r.slot \in Slots /\ r.slot[1] \in DOMAIN count /\ count[r.slot[1]] = 0
  <2>1. GoodItem(r) BY <1>1, <1>3
  <2>. QED BY <1>2, <2>1 DEF GoodItem
<1>5. r \notin ToSet(todo')
  <2>1. ~Ahead(todo, r, r) BY <1>1, <1>2 DEF Once
  <2>. QED BY <1>3, <2>1
<1>6. PICK u \in Slots : u = r.slot BY <1>4
<1>7. PoolsInv' /\ \A o \in Slots : o # u /\ InPlace(o) => InPlace(o)' BY <1>2, <1>6, PoolsTake
<1>8. Return(u) \notin ToSet(todo') /\ count[u[1]] = 0 BY <1>4, <1>5, <1>6
<1> HIDE DEF r
<1>9. Scripted'
  <2>1. ASSUME NEW i \in ToSet(todo') PROVE GoodItem(i)'
    <3>1. GoodItem(i) BY <1>1, <1>3
    <3>2. CASE i.do # "return" BY <1>2, <3>1, <3>2 DEF GoodItem
    <3>3. CASE i.do = "return"
      <4>1. /\ i = Return(i.slot) /\ i.slot \in Slots /\ i.slot[1] \in DOMAIN count
            /\ count[i.slot[1]] = 0 /\ InPlace(i.slot)
        BY <3>1, <3>3 DEF GoodItem
      <4>2. i.slot # u BY <1>8, <4>1
      <4>3. InPlace(i.slot)' BY <1>7, <4>1, <4>2
      <4>. QED BY <1>2, <3>3, <4>1, <4>3 DEF GoodItem
    <3>. QED BY <3>2, <3>3
  <2>2. Once(todo') BY <1>1, <1>3 DEF Once
  <2>. QED BY <1>3, <2>1, <2>2 DEF Scripted
<1>10. Counts'
  <2> SUFFICES ASSUME NEW x \in DOMAIN count
               PROVE  count[x] \in Nat /\ Cardinality(Waiting(graph, todo', x)) <= count[x]
    BY <1>2 DEF Counts
  <2>1. count[x] \in Nat /\ Cardinality(Waiting(graph, todo, x)) <= count[x] BY <1>1
  <2>2. \A n : Read(n, x) \in ToSet(todo') => Read(n, x) \in ToSet(todo) BY <1>3
  <2>3. /\ Cardinality(Waiting(graph, todo, x)) \in Nat /\ Cardinality(Waiting(graph, todo', x)) \in Nat
        /\ Cardinality(Waiting(graph, todo', x)) <= Cardinality(Waiting(graph, todo, x))
    BY <2>2, FewerWait
  <2>. QED BY <2>1, <2>3
<1>11. Kept'
  <2>1. ASSUME NEW x \in DOMAIN count, count[x] # 0, NEW s \in given, s[1] = x PROVE InPlace(s)'
    <3>1. InPlace(s) /\ s \in Slots BY <1>1, <2>1
    <3>2. s # u BY <1>8, <2>1
    <3>. QED BY <1>7, <3>1, <3>2
  <2>. QED BY <1>1, <1>2, <2>1 DEF Kept
<1>. QED BY <1>7, <1>9, <1>10, <1>11 DEF Playing

\* While a plan is played no assertion fails, and what is to be read is in place.
LEMMA PlayingIsSafe ==
    ASSUME WellFormed(graph), Playing
    PROVE  /\ ~PlanFails
           /\ \A i \in DOMAIN todo : todo[i].do = "read" =>
                 \A s \in given : s[1] = todo[i].operand => InPlace(s)
PROOF
<1>1. /\ List(todo) /\ (\A i \in ToSet(todo) : GoodItem(i)) /\ Once(todo)
      /\ \A y \in DOMAIN count : count[y] \in Nat /\ Cardinality(Waiting(graph, todo, y)) <= count[y]
      /\ \A y \in DOMAIN count : count[y] # 0 => \A s \in given : s[1] = y => InPlace(s)
  BY DEF Playing, Scripted, Counts, Kept
<1>2. ASSUME NEW r \in ToSet(todo), r.do = "read"
      PROVE  r.operand \in DOMAIN count /\ count[r.operand] # 0
  <2>1. r = Read(r.node, r.operand) /\ r.node \in Ids(graph) /\ r.operand \in DOMAIN count
    BY <1>1, <1>2 DEF GoodItem
  <2> DEFINE W == Waiting(graph, todo, r.operand)
  <2>2. r.node \in W BY <2>1 DEF Waiting
  <2>3. IsFiniteSet(W)
    <3>1. IsList(graph) BY WellFormedFacts
    <3>2. IsFiniteSet(Ids(graph)) /\ W \in SUBSET Ids(graph) BY <3>1, IdsFinite DEF Waiting
    <3>. QED BY <3>2, FS_Subset
  <2>4. Cardinality(W) \in Nat /\ Cardinality(W) # 0 BY <2>2, <2>3, FS_CardinalityType, FS_EmptySet
  <2>5. count[r.operand] \in Nat /\ Cardinality(W) <= count[r.operand] BY <1>1, <2>1
  <2>. QED BY <2>1, <2>4, <2>5
<1>3. ~PlanFails
  <2> SUFFICES ASSUME PlanFails PROVE FALSE OBVIOUS
  <2>1. todo # <<>> BY DEF PlanFails, Up
  <2>2. Head(todo) \in ToSet(todo) BY <1>1, <2>1, TailFacts
  <2>3. CASE Up("read") /\ count[Head(todo).operand] = 0 BY <1>2, <2>2, <2>3 DEF Up
  <2>4. CASE Up("return") /\ ~Nram!Holds(Head(todo).slot)
    <3>1. InPlace(Head(todo).slot) BY <1>1, <2>2, <2>4 DEF Up, GoodItem
    <3>. QED BY <2>4, <3>1 DEF InPlace
  <2>. QED BY <2>3, <2>4 DEF PlanFails
<1>4. \A i \in DOMAIN todo : todo[i] \in ToSet(todo) BY DEF ToSet
<1>. QED BY <1>1, <1>2, <1>3, <1>4

-----------------------------------------------------------------------------
(* A plan is made.                                                          *)

LEMMA MeasureOrder ==
    ASSUME WellFormed(graph), PoolsInv, NEW nodes, nodes \subseteq Ids(graph), NEW ins,
           ins = (UNION {InputSet(graph, n) : n \in nodes}) \ nodes,
           NEW order, order \in IF ins \in DOMAIN orders THEN {orders[ins]} ELSE SetToSeqs(ins)
    PROVE  ins \subseteq Ids(graph) /\ order \in Seq(ins)
PROOF
<1>1. ins \subseteq Ids(graph) BY WellFormedFacts
<1>2. CASE ins \in DOMAIN orders
  <2>1. order = orders[ins] BY <1>2
  <2>2. \A S \in DOMAIN orders : orders[S] \in Seq(S) BY DEF PoolsInv
  <2>3. orders[ins] \in Seq(ins) BY <1>2, <2>2, Zenon
  <2>. QED BY <1>1, <2>1, <2>3, Zenon
<1>3. CASE ins \notin DOMAIN orders
  <2>1. IsList(graph) BY WellFormedFacts
  <2>2. IsFiniteSet(Ids(graph)) BY <2>1, IdsFinite
  <2>3. IsFiniteSet(ins) BY <1>1, <2>2, FS_Subset
  <2>4. Cardinality(ins) \in Nat BY <2>3, FS_CardinalityType
  <2> DEFINE c == Cardinality(ins)
  <2>5. order \in [1..c -> ins] BY <1>3 DEF SetToSeqs
  <2>6. c \in Nat BY <2>4
  <2> HIDE DEF c
  <2>7. order \in Seq(ins) BY <2>5, <2>6
  <2>. QED BY <1>1, <2>7
<1>. QED BY <1>1, <1>2, <1>3

LEMMA MeasurePools ==
    ASSUME WellFormed(graph), PoolsInv, NEW T, NEW listed \in Seq(Ids(graph)), NEW chip,
           Measure(graph, T, listed, chip)
    PROVE  PoolsInv'
PROOF
<1> DEFINE nodes == ToSet(listed)
<1> DEFINE ins == (UNION {InputSet(graph, n) : n \in nodes}) \ nodes
<1>1. PICK order \in IF ins \in DOMAIN orders THEN {orders[ins]} ELSE SetToSeqs(ins) :
         orders' = Over(Only(ins, order), orders)
  BY DEF Measure
<1>2. nodes \subseteq Ids(graph) BY DEF ToSet
<1> HIDE DEF nodes
<1>3. order \in Seq(ins) BY <1>1, <1>2, MeasureOrder
<1> HIDE DEF ins
<1>4. DOMAIN Only(ins, order) = {ins} /\ Only(ins, order)[ins] = order BY DEF Only
<1>5. \A S \in DOMAIN orders' : orders'[S] \in Seq(S)
  <2> DEFINE f == Only(ins, order)
  <2>1. orders' = Over(f, orders) /\ DOMAIN f = {ins} /\ f[ins] = order BY <1>1, <1>4
  <2> HIDE DEF f
  <2> DEFINE g == Over(f, orders)
  <2>2. /\ DOMAIN g = DOMAIN f \cup DOMAIN orders /\ \A S \in DOMAIN f : g[S] = f[S]
        /\ \A S \in DOMAIN orders \ DOMAIN f : g[S] = orders[S]
    BY OverFacts
  <2>3. orders' = g BY <2>1
  <2> HIDE DEF g
  <2>4. /\ DOMAIN orders' = {ins} \cup DOMAIN orders /\ orders'[ins] = order
        /\ \A S \in DOMAIN orders \ {ins} : orders'[S] = orders[S]
    BY <2>1, <2>2, <2>3
  <2>5. orders'[ins] \in Seq(ins) BY <1>3, <2>4
  <2>6. \A S \in DOMAIN orders : orders[S] \in Seq(S) BY DEF PoolsInv
  <2>7. \A S \in DOMAIN orders \ {ins} : orders'[S] \in Seq(S) BY <2>4, <2>6, Zenon
  <2>. QED BY <2>4, <2>5, <2>7, Zenon
<1>6. DOMAIN EmptyPool = Slots BY DEF EmptyPool
<1>7. nramLive' = EmptyPool /\ wramLive' = EmptyPool /\ smLive' = EmptyPool BY DEF Measure
<1>. QED BY <1>5, <1>6, <1>7 DEF PoolsInv

LEMMA MeasurePlays ==
    ASSUME WellFormed(graph), Ids(graph) \subseteq Names, graph' = graph, PoolsInv,
           NEW T, NEW listed \in Seq(Ids(graph)), Distinct(listed), NEW chip, Measure(graph, T, listed, chip)
    PROVE  Playing'
PROOF
<1> DEFINE nodes == ToSet(listed)
<1> DEFINE ins == (UNION {InputSet(graph, n) : n \in nodes}) \ nodes
<1> DEFINE cats == Sorted(graph, listed, {n \in nodes : Op(graph, n) = "cat"})
<1> DEFINE others == Sorted(graph, listed, {n \in nodes : Op(graph, n) # "cat"})
<1> DEFINE Items(order) == [i \in DOMAIN order |-> InputRequests(graph, T, order[i], nodes, chip)]
<1> DEFINE script == Script(graph, T, nodes, cats, others)
<1>1. PICK order \in IF ins \in DOMAIN orders THEN {orders[ins]} ELSE SetToSeqs(ins) :
         todo' = FlattenSeq(Items(order)) \o script
  BY DEF Measure
<1>2. count' = [x \in nodes \cup ins |-> Cardinality(Readers(graph, nodes, x))] /\ given' = {} BY DEF Measure
<1>3. nodes \subseteq Ids(graph) BY DEF ToSet
<1>4. /\ cats \in Seq(Ids(graph)) /\ others \in Seq(Ids(graph)) /\ Distinct(others)
      /\ ToSet(others) \subseteq {n \in nodes : Op(graph, n) # "cat"}
  BY SortedFacts
<1> HIDE DEF nodes
<1>5. ins \subseteq Ids(graph) /\ order \in Seq(ins) BY <1>1, <1>3, MeasureOrder
<1>6. \A n \in nodes : InputSet(graph, n) \subseteq nodes \cup ins OBVIOUS
<1> HIDE DEF ins, cats, others
<1>7. List(script) /\ Plays(script, graph, ToSet(others)) /\ Once(script) BY <1>3, <1>4, ScriptFacts
<1> DEFINE first == FlattenSeq(Items(order))
<1>8. List(first) /\ Gives(first)
  <2> DEFINE k == Len(order)
  <2> DEFINE ss == Items(order)
  <2>1. k \in Nat /\ DOMAIN order = 1..k /\ \A i \in 1..k : order[i] \in Ids(graph) BY <1>5
  <2>2. ss = [i \in 1..k |-> ss[i]] /\ \A i \in 1..k : ss[i] = InputRequests(graph, T, order[i], nodes, chip)
    BY <2>1
  <2> HIDE DEF ss, k, Items
  <2>3. \A i \in 1..k : List(ss[i]) /\ Gives(ss[i]) BY <2>1, <2>2, InputItems
  <2>4. List(FlattenSeq(ss)) /\ Gives(FlattenSeq(ss)) BY <2>1, <2>2, <2>3, FlattenGives
  <2>. QED BY <2>4 DEF ss
<1> HIDE DEF script, first
<1>9. /\ todo' = first \o script /\ List(todo') /\ ToSet(todo') = ToSet(first) \cup ToSet(script)
      /\ \A x, y : Ahead(todo', x, y) =>
            Ahead(first, x, y) \/ Ahead(script, x, y) \/ (x \in ToSet(first) /\ y \in ToSet(script))
  BY <1>1, <1>7, <1>8, JoinLists DEF first
<1>10. ASSUME NEW r \in ToSet(todo')
       PROVE  \/ r.do = "give" /\ r.slot \in Slots
              \/ \E n \in nodes : \E x \in InputSet(graph, n) : Op(graph, n) # "cat" /\ r = Read(n, x)
  <2>1. CASE r \in ToSet(first) BY <1>8, <2>1 DEF Gives
  <2>2. CASE r \in ToSet(script) BY <1>4, <1>7, <2>2 DEF Plays
  <2>. QED BY <1>9, <2>1, <2>2
<1>11. Scripted'
  <2>1. ASSUME NEW r \in ToSet(todo') PROVE GoodItem(r)'
    <3>1. CASE r.do = "give" /\ r.slot \in Slots BY <3>1 DEF GoodItem
    <3>2. ASSUME NEW n \in nodes, NEW x \in InputSet(graph, n), r = Read(n, x) PROVE GoodItem(r)'
      <4>1. r.do = "read" /\ r.node = n /\ r.operand = x BY <3>2, Kinds
      <4>2. n \in Ids(graph) /\ x \in DOMAIN count' BY <1>2, <1>3, <1>6
      <4>. QED BY <3>2, <4>1, <4>2 DEF GoodItem
    <3>. QED BY <1>10, <3>1, <3>2
  <2>2. Once(todo')
    <3>1. \A r : Ahead(first, r, r) => r \in ToSet(first) BY AheadIsListed
    <3>. QED BY <1>7, <1>8, <1>9, <3>1 DEF Once, Gives
  <2>. QED BY <1>9, <2>1, <2>2 DEF Scripted
<1>12. Counts'
  <2> SUFFICES ASSUME NEW x \in nodes \cup ins
               PROVE  count'[x] \in Nat /\ Cardinality(Waiting(graph, todo', x)) <= count'[x]
    BY <1>2 DEF Counts
  <2> DEFINE W == Waiting(graph, todo', x)
  <2> DEFINE R == Readers(graph, nodes, x)
  <2>1. W \subseteq R
    <3> SUFFICES ASSUME NEW m \in Ids(graph), Read(m, x) \in ToSet(todo') PROVE m \in R BY DEF Waiting
    <3>1. Read(m, x).do = "read" BY Kinds
    <3>2. PICK n \in nodes : \E y \in InputSet(graph, n) : Op(graph, n) # "cat" /\ Read(m, x) = Read(n, y)
      BY <1>10, <3>1
    <3>3. m = n /\ x \in InputSet(graph, n) /\ Op(graph, n) # "cat" BY <3>2, Kinds
    <3>4. m \in UserSet(graph, x) BY <3>3 DEF UserSet
    <3>. QED BY <3>3, <3>4 DEF Readers
  <2>2. R \subseteq Ids(graph) BY DEF Readers, UserSet
  <2>3. IsFiniteSet(Ids(graph))
    <3>1. IsList(graph) BY WellFormedFacts
    <3>. QED BY <3>1, IdsFinite
  <2> HIDE DEF W, R
  <2>4. IsFiniteSet(R) /\ Cardinality(W) <= Cardinality(R) BY <2>1, <2>2, <2>3, FS_Subset
  <2>5. Cardinality(R) \in Nat BY <2>4, FS_CardinalityType
  <2>6. count'[x] = Cardinality(R) BY <1>2 DEF R
  <2>. QED BY <2>4, <2>5, <2>6 DEF W
<1>13. Kept' BY <1>2 DEF Kept
<1>. QED BY <1>11, <1>12, <1>13 DEF Playing

-----------------------------------------------------------------------------
(* The plans of the pass.                                                   *)

\* Every node is one that a slot may belong to.
LEMMA KnownNames ==
    ASSUME Inv PROVE WellFormed(graph) /\ Ids(graph) \subseteq Names
PROOF
<1>1. /\ case \in Cases /\ made \in 0..Len(FreshNames) /\ GraphOK(graph)
      /\ Ids(graph) \subseteq Ids(case.graph) \cup {FreshNames[i] : i \in 1..made}
  BY DEF Inv, GraphInv
<1>2. Ids(case.graph) \subseteq Names BY <1>1, CasesAssumption
<1>3. {FreshNames[i] : i \in 1..made} \subseteq ToSet(FreshNames)
  <2>1. FreshNames \in Seq(ToSet(FreshNames)) BY NamesAssumption
  <2>2. DOMAIN FreshNames = 1..Len(FreshNames) /\ Len(FreshNames) \in Nat BY <2>1
  <2>3. \A i \in 1..made : i \in DOMAIN FreshNames BY <1>1, <2>2
  <2>. QED BY <2>3 DEF ToSet
<1>. QED BY <1>1, <1>2, <1>3, NamesAssumption DEF GraphOK

LEMMA InitPlanInv ==
    Init => PlanInv
PROOF
<1> SUFFICES ASSUME Init PROVE PlanInv OBVIOUS
<1>1. pc = "starts" /\ PlanInit BY DEF Init
<1>2. DOMAIN EmptyPool = Slots /\ DOMAIN Nobody = {} BY DEF EmptyPool, Nobody
<1>3. PoolsInv BY <1>1, <1>2 DEF PoolsInv, PlanInit
<1>4. ~PlayedOnce BY <1>1 DEF PlayedOnce
<1>. QED BY <1>1, <1>3, <1>4 DEF PlanInv, Trying

\* A step that makes no plan and plays none.
LEMMA NoPlan ==
    ASSUME PlanInv, UNCHANGED planVars, pc' \in Trying => Distinct(fused'),
           pc' \notin {"backMeasured", "batchMeasured", "report"}
    PROVE  PlanInv'
PROOF
<1>1. PoolsInv' BY DEF PlanInv, PoolsInv, planVars, poolVars
<1>2. ~PlayedOnce' BY DEF PlayedOnce
<1>. QED BY <1>1, <1>2 DEF PlanInv

\* A family lists every node once.
LEMMA FamilyOnce ==
    ASSUME WellFormed(graph), NEW n \in Ids(graph),
           Op(graph, n) = "getitem" => Op(graph, Args(graph, n)[1]) \in MultiOutput
    PROVE  Family(n) \in Seq(Ids(graph)) /\ Distinct(Family(n))
PROOF
<1>1. Family(n) \in Seq(Ids(graph)) BY FamilyList
<1>2. ASSUME NEW V, NEW x \in V PROVE <<x>> \in Seq(V) /\ \A y, z : ~Ahead(<<x>>, y, z) BY DEF Ahead
<1>3. CASE Op(graph, n) = "getitem"
  <2> DEFINE p == Args(graph, n)[1]
  <2> DEFINE t == Users(graph, p)
  <2>1. p \in Ids(graph) BY <1>3, WellFormedFacts
  <2>2. Family(n) = <<p>> \o t BY <1>3 DEF Family
  <2>3. t \in Seq(Ids(graph)) /\ ToSet(t) = UserSet(graph, p) BY UsersFacts
  <2>4. Distinct(t)
    <3>1. IsList(graph) /\ Distinct(graph.order) BY WellFormedFacts
    <3>. QED BY <3>1, InGraphOrderFacts DEF Distinct, Users
  <2>5. p \notin UserSet(graph, p)
    <3>1. Op(graph, p) \in MultiOutput BY <1>3
    <3>2. Op(graph, p) # "getitem" BY <3>1 DEF MultiOutput
    <3>. QED BY <2>1, <3>1, <3>2, WellFormedFacts
  <2> DEFINE V == Ids(graph)
  <2>6. t \in Seq(V) /\ p \in V BY <2>1, <2>3
  <2> HIDE DEF p, t, V
  <2>7. <<p>> \in Seq(V) /\ \A y, z : ~Ahead(<<p>>, y, z) BY <1>2, <2>6
  <2>8. \A x, y : Ahead(<<p>> \o t, x, y) <=>
           Ahead(<<p>>, x, y) \/ Ahead(t, x, y) \/ (x \in ToSet(<<p>>) /\ y \in ToSet(t))
    BY <2>6, <2>7, ConcatFacts
  <2>9. ToSet(<<p>>) = {p} BY DEF ToSet
  <2>10. Distinct(<<p>> \o t) BY <2>3, <2>4, <2>5, <2>7, <2>8, <2>9 DEF Distinct
  <2>. QED BY <1>1, <2>2, <2>10
<1>4. CASE Op(graph, n) # "getitem"
  <2>1. Family(n) = <<n>> BY <1>4 DEF Family
  <2>. QED BY <1>1, <1>2, <2>1 DEF Distinct
<1>. QED BY <1>3, <1>4

\* Nodes join that are not in yet.
LEMMA JoinedOnce ==
    ASSUME NEW V, NEW s \in Seq(V), NEW t \in Seq(V), Distinct(s), Distinct(t), ToSet(t) \cap ToSet(s) = {}
    PROVE  Distinct(s \o t)
BY ConcatFacts DEF Distinct

LEMMA BackAskPlan ==
    ASSUME Inv, PlanInv, BackAsk PROVE PlanInv'
PROOF
<1> DEFINE n == Head(work)[1]
<1> DEFINE t == Head(work)[2]
<1>1. pc = "back" /\ work # <<>> /\ pc' = "backMeasured" /\ UNCHANGED <<passVars, scanVars, fuseVars>>
  BY DEF BackAsk, Goto
<1>2. PICK m \in BackOffers(n, t) : Measure(graph, Over(m, tiles), fused \o Family(n), case.chip) BY DEF BackAsk
<1>3. graph' = graph /\ fused' = fused /\ work' = work BY <1>1 DEF passVars, fuseVars
<1>4. WellFormed(graph) /\ Ids(graph) \subseteq Names BY KnownNames
<1>5. n \in Ids(graph)
  <2>1. work \in Seq(ToSet(work)) /\ \A w \in ToSet(work) : w[1] \in Ids(graph) BY <1>1 DEF Inv, BackInv, Near
  <2>2. Head(work) \in ToSet(work) BY <1>1, <2>1, ListFacts
  <2>. QED BY <2>1, <2>2
<1>6. Op(graph, n) = "getitem" => Op(graph, Args(graph, n)[1]) \in MultiOutput
  <2>1. BackRule(graph, n, tiles) # {} BY DEF BackOffers
  <2>. QED BY <2>1, BackRuleFacts
<1>7. fused \in Seq(Ids(graph)) /\ Distinct(fused) BY <1>1 DEF Inv, FusedInv, PlanInv, Trying
<1>8. (ToSet(Family(n)) \cap ToSet(fused) = {}) <=> PlayedOnce'
  <2>1. PlayedOnce' <=> (ToSet(Family(n)') \cap ToSet(fused') = {}) BY <1>1, <1>3 DEF PlayedOnce
  <2>2. Family(n)' = Family(n) BY <1>3 DEF Family
  <2>. QED BY <1>3, <2>1, <2>2
<1> HIDE DEF n, t
<1>9. Family(n) \in Seq(Ids(graph)) /\ Distinct(Family(n)) BY <1>4, <1>5, <1>6, FamilyOnce
<1> DEFINE joined == fused \o Family(n)
<1>10. joined \in Seq(Ids(graph)) BY <1>7, <1>9
<1>11. PoolsInv /\ Measure(graph, Over(m, tiles), joined, case.chip) BY <1>2 DEF PlanInv
<1>12. ASSUME PlayedOnce' PROVE Playing'
  <2>1. Distinct(joined)
    <3> DEFINE V == Ids(graph)
    <3>1. fused \in Seq(V) /\ Family(n) \in Seq(V) BY <1>7, <1>9
    <3> HIDE DEF V
    <3>. QED BY <1>7, <1>8, <1>9, <1>12, <3>1, JoinedOnce
  <2> HIDE DEF joined
  <2>. QED BY <1>3, <1>4, <1>10, <1>11, <2>1, MeasurePlays
<1>13. PoolsInv'
  <2> HIDE DEF joined
  <2>. QED BY <1>4, <1>10, <1>11, MeasurePools
<1>. QED BY <1>3, <1>7, <1>12, <1>13 DEF PlanInv

LEMMA FrontAskPlan ==
    ASSUME Inv, PlanInv, FrontAsk PROVE PlanInv'
PROOF
<1> DEFINE n == Head(batch)[1]
<1> DEFINE t == Head(batch)[2]
<1> DEFINE joined == Append(fused, n)
<1>1. pc = "batch" /\ batch # <<>> /\ pc' = "batchMeasured" /\ UNCHANGED <<passVars, scanVars, fuseVars>>
  BY DEF FrontAsk, Goto
<1>2. PICK m \in FrontOffers(n, t) : Measure(graph, Over(Only(n, t), Over(m, tiles)), joined, case.chip)
  BY DEF FrontAsk
<1>3. graph' = graph /\ fused' = fused /\ batch' = batch BY <1>1 DEF passVars, fuseVars
<1>4. WellFormed(graph) /\ Ids(graph) \subseteq Names BY KnownNames
<1>5. fused \in Seq(Ids(graph)) /\ Distinct(fused) /\ ToSet(fused) \subseteq Ids(graph)
  <2>1. fused \in Seq(Ids(graph)) /\ Distinct(fused) BY <1>1 DEF Inv, FusedInv, PlanInv, Trying
  <2>. QED BY <2>1 DEF ToSet
<1>6. n \in Ids(graph)
  <2>1. batch \in Seq(ToSet(batch)) /\ \A b \in ToSet(batch) : b[1] \in Desc(graph, ToSet(fused))
    BY <1>1 DEF Inv, FrontInv
  <2>2. Head(batch) \in ToSet(batch) BY <1>1, <2>1, ListFacts
  <2>3. Desc(graph, ToSet(fused)) \subseteq Ids(graph) BY <1>4, <1>5, DescFacts
  <2>. QED BY <2>1, <2>2, <2>3
<1>7. PlayedOnce' <=> ~Contains(fused, n) BY <1>1, <1>3 DEF PlayedOnce
<1> HIDE DEF n, t
<1>8. joined \in Seq(Ids(graph)) BY <1>5, <1>6
<1>9. PoolsInv BY DEF PlanInv
<1>10. ASSUME PlayedOnce' PROVE Playing'
  <2>1. Distinct(joined)
    <3> DEFINE V == Ids(graph)
    <3>1. fused \in Seq(V) /\ n \in V BY <1>5, <1>6
    <3> HIDE DEF V
    <3>2. n \notin ToSet(fused) BY <1>7, <1>10, <3>1, ContainsFacts
    <3>3. \A x, y : Ahead(joined, x, y) <=> Ahead(fused, x, y) \/ (x \in ToSet(fused) /\ y = n) BY <3>1, AppendFacts
    <3>. QED BY <1>5, <3>2, <3>3 DEF Distinct
  <2> HIDE DEF joined
  <2>. QED BY <1>2, <1>3, <1>4, <1>8, <1>9, <2>1, MeasurePlays
<1>11. PoolsInv'
  <2> HIDE DEF joined
  <2>. QED BY <1>2, <1>4, <1>8, <1>9, MeasurePools
<1>. QED BY <1>3, <1>5, <1>10, <1>11 DEF PlanInv

LEMMA EndRoundPlan ==
    ASSUME Inv, PlanInv, EndRound PROVE PlanInv'
PROOF
<1>1. /\ pc = "front" /\ UNCHANGED <<passVars, scanVars, fuseVars>>
      /\ \/ pc' = "round" /\ UNCHANGED planVars
         \/ pc' = "report" /\ Measure(graph, tiles, fused, case.chip)
  BY DEF EndRound, Goto
<1>2. graph' = graph /\ fused' = fused BY <1>1 DEF passVars, fuseVars
<1>3. fused \in Seq(Ids(graph)) /\ Distinct(fused) BY <1>1 DEF Inv, FusedInv, PlanInv, Trying
<1>4. CASE pc' = "round" /\ UNCHANGED planVars BY <1>2, <1>3, <1>4, NoPlan
<1>5. CASE pc' = "report" /\ Measure(graph, tiles, fused, case.chip)
  <2>1. WellFormed(graph) /\ Ids(graph) \subseteq Names BY KnownNames
  <2>2. PoolsInv BY DEF PlanInv
  <2>3. PoolsInv' BY <1>3, <1>5, <2>1, <2>2, MeasurePools
  <2>4. Playing' BY <1>2, <1>3, <1>5, <2>1, <2>2, MeasurePlays
  <2>. QED BY <1>2, <1>3, <2>3, <2>4 DEF PlanInv
<1>. QED BY <1>1, <1>4, <1>5

\* A plan, whatever is played, keeps to the slots there are.
LEMMA PlanStepPools ==
    ASSUME PoolsInv, PlanStep PROVE PoolsInv'
PROOF
<1>1. CASE Give
  <2> DEFINE s == Head(todo).slot
  <2>1. \E k : NramAlloc(s, k) BY <1>1 DEF Give
  <2>2. \E k : WramAlloc(s, k) BY <1>1 DEF Give
  <2>3. \E k : SmAlloc(s, k) BY <1>1 DEF Give
  <2>4. orders' = orders BY <1>1 DEF Give
  <2> HIDE DEF s
  <2>5. \E b : nramLive' = [nramLive EXCEPT ![s] = b]
    BY <2>1 DEF NramAlloc, Nram!AllocBestFit, Nram!AllocExtend, Nram!AllocGrow, Nram!Give
  <2>6. \E b : wramLive' = [wramLive EXCEPT ![s] = b]
    BY <2>2 DEF WramAlloc, Wram!AllocBestFit, Wram!AllocExtend, Wram!AllocGrow, Wram!Give
  <2>7. \E b : smLive' = [smLive EXCEPT ![s] = b]
    BY <2>3 DEF SmAlloc, Sm!AllocBestFit, Sm!AllocExtend, Sm!AllocGrow, Sm!Give
  <2>. QED BY <2>4, <2>5, <2>6, <2>7 DEF PoolsInv
<1>2. CASE ReadOperand BY <1>2 DEF ReadOperand, PoolsInv, poolVars
<1>3. CASE ReturnSlot
  <2> DEFINE s == Head(todo).slot
  <2>1. Nram!Free(s) /\ Wram!Free(s) /\ Sm!Free(s) /\ orders' = orders BY <1>3 DEF ReturnSlot
  <2> HIDE DEF s
  <2>2. \E p : nramLive' = [nramLive EXCEPT ![p] = nramLive[s], ![s] = Nram!Nothing] BY <2>1 DEF Nram!Free
  <2>3. \E p : wramLive' = [wramLive EXCEPT ![p] = wramLive[s], ![s] = Wram!Nothing] BY <2>1 DEF Wram!Free
  <2>4. \E p : smLive' = [smLive EXCEPT ![p] = smLive[s], ![s] = Sm!Nothing] BY <2>1 DEF Sm!Free
  <2>. QED BY <2>1, <2>2, <2>3, <2>4 DEF PoolsInv
<1>. QED BY <1>1, <1>2, <1>3 DEF PlanStep

LEMMA MeasureStepPlan ==
    ASSUME Inv, PlanInv, MeasureStep PROVE PlanInv'
PROOF
<1>1. /\ pc \in {"backMeasured", "batchMeasured", "report"} /\ UNCHANGED <<passVars, scanVars, fuseVars>>
      /\ \/ PlanStep /\ pc' = pc
         \/ pc' = "raised" /\ UNCHANGED planVars
  BY DEF MeasureStep, Raise
<1>2. graph' = graph /\ fused' = fused /\ work' = work /\ batch' = batch BY <1>1 DEF passVars, fuseVars
<1>3. Distinct(fused) BY <1>1 DEF PlanInv, Trying
<1>4. CASE pc' = "raised" /\ UNCHANGED planVars BY <1>2, <1>3, <1>4, NoPlan
<1>5. CASE PlanStep /\ pc' = pc
  <2>1. WellFormed(graph) BY KnownNames
  <2>2. PoolsInv BY DEF PlanInv
  <2>3. PlayedOnce' = PlayedOnce
    <3>1. Family(Head(work)[1])' = Family(Head(work)[1]) BY <1>2 DEF Family
    <3>. QED BY <1>2, <1>5, <3>1 DEF PlayedOnce
  <2>4. PoolsInv' BY <1>5, <2>2, PlanStepPools
  <2>5. PlayedOnce => Playing'
    <3> SUFFICES ASSUME PlayedOnce PROVE Playing' OBVIOUS
    <3>1. Playing BY DEF PlanInv
    <3>. QED BY <1>2, <1>5, <2>1, <2>2, <3>1, GivePlaying, ReadPlaying, ReturnPlaying DEF PlanStep
  <2>. QED BY <1>2, <1>3, <2>3, <2>4, <2>5 DEF PlanInv
<1>. QED BY <1>1, <1>4, <1>5

\* A step that takes nodes.
LEMMA BackTakePlan ==
    ASSUME Inv, PlanInv, BackTake PROVE PlanInv'
PROOF
<1> DEFINE n == Head(work)[1]
<1> DEFINE t == Head(work)[2]
<1>1. pc = "backMeasured" /\ pc' = "back" /\ UNCHANGED planVars BY DEF BackTake, Goto
<1>2. fused \in Seq(Ids(graph)) /\ Distinct(fused) BY <1>1 DEF Inv, FusedInv, PlanInv, Trying
<1>3. WellFormed(graph) BY KnownNames
<1>4. n \in Ids(graph)
  <2>1. work # <<>> /\ work \in Seq(ToSet(work)) /\ \A w \in ToSet(work) : w[1] \in Ids(graph)
    BY <1>1 DEF Inv, BackInv, Near
  <2>2. Head(work) \in ToSet(work) BY <2>1, ListFacts
  <2>. QED BY <2>1, <2>2
<1>5. fused' = fused \/ fused' = PutAll(fused, Family(n)) BY DEF BackTake
<1> HIDE DEF n
<1>6. Distinct(PutAll(fused, Family(n)))
  <2> DEFINE V == Ids(graph)
  <2>1. fused \in Seq(V) /\ Family(n) \in Seq(V) BY <1>2, <1>3, <1>4, FamilyList
  <2> HIDE DEF V
  <2>. QED BY <1>2, <2>1, PutAllFacts
<1>. QED BY <1>1, <1>2, <1>5, <1>6, NoPlan

LEMMA FrontTakePlan ==
    ASSUME Inv, PlanInv, FrontTake PROVE PlanInv'
PROOF
<1> DEFINE n == Head(batch)[1]
<1>1. pc = "batchMeasured" /\ pc' = "batch" /\ UNCHANGED planVars BY DEF FrontTake, Goto
<1>2. fused \in Seq(Ids(graph)) /\ Distinct(fused) BY <1>1 DEF Inv, FusedInv, PlanInv, Trying
<1>3. fused' = fused \/ fused' = Put(fused, n) BY DEF FrontTake
<1> HIDE DEF n
<1>4. Distinct(Put(fused, n))
  <2> DEFINE V == Ids(graph) \cup {n}
  <2>1. fused \in Seq(V) /\ n \in V BY <1>2
  <2> HIDE DEF V
  <2>. QED BY <1>2, <2>1, PutFacts
<1>. QED BY <1>1, <1>2, <1>3, <1>4, NoPlan

\* The other steps: none makes a plan, and none takes a node.
LEMMA OtherPlan ==
    ASSUME PlanInv,
           \/ TakeStart \/ TakeDim \/ EndDim \/ EndStart \/ BeginBack \/ BackSkip \/ BeginFront \/ Infer
           \/ FrontSkip \/ EndBatch \/ Transform \/ TransformFails \/ InsertKernel \/ Finish
    PROVE  PlanInv'
PROOF
<1>1. UNCHANGED planVars
  BY DEF TakeStart, TakeDim, EndDim, EndStart, BeginBack, BackSkip, BeginFront, Infer, FrontSkip, EndBatch,
         Transform, TransformFails, InsertKernel, Finish
<1>2. CASE TakeStart \/ EndDim \/ EndStart \/ Transform \/ TransformFails \/ InsertKernel \/ Finish
  <2>1. pc' \in {"dims", "found", "starts", "insert", "done"}
    BY <1>2 DEF TakeStart, EndDim, EndStart, Transform, TransformFails, InsertKernel, Finish, Goto
  <2>. QED BY <1>1, <2>1, NoPlan DEF Trying
<1>3. CASE TakeDim
  <2>1. pc = "dims" /\ (pc' = pc \/ (pc' = "round" /\ fused' = <<>>)) BY <1>3 DEF TakeDim, Goto
  <2>2. Distinct(<<>>) BY DEF Distinct, Ahead
  <2>. QED BY <1>1, <2>1, <2>2, NoPlan DEF Trying
<1>4. CASE BeginBack \/ BackSkip \/ BeginFront \/ Infer \/ FrontSkip \/ EndBatch
  <2>1. /\ fused' = fused /\ pc \in {"round", "back", "front", "batch"}
        /\ pc' \in {"back", "front", "batch", "raised"}
    <3>1. CASE BeginBack BY <3>1 DEF BeginBack, Goto
    <3>2. CASE BackSkip
      <4>1. pc = "back" /\ fused' = fused /\ (Raise \/ pc' = pc) BY <3>2 DEF BackSkip
      <4>. QED BY <4>1 DEF Raise
    <3>3. CASE BeginFront BY <3>3 DEF BeginFront, Goto
    <3>4. CASE Infer BY <3>4 DEF Infer, Goto
    <3>5. CASE FrontSkip
      <4>1. pc = "batch" /\ fused' = fused /\ (Raise \/ pc' = pc) BY <3>5 DEF FrontSkip
      <4>. QED BY <4>1 DEF Raise
    <3>6. CASE EndBatch BY <3>6 DEF EndBatch, Goto, fuseVars
    <3>. QED BY <1>4, <3>1, <3>2, <3>3, <3>4, <3>5, <3>6
  <2>2. Distinct(fused) BY <2>1 DEF PlanInv, Trying
  <2>. QED BY <1>1, <2>1, <2>2, NoPlan
<1>. QED BY <1>2, <1>3, <1>4

LEMMA StutterPlan ==
    ASSUME PlanInv, UNCHANGED vars PROVE PlanInv'
PROOF
<1>1. /\ pc' = pc /\ graph' = graph /\ fused' = fused /\ work' = work /\ batch' = batch
      /\ orders' = orders /\ todo' = todo /\ count' = count /\ given' = given /\ UNCHANGED poolVars
  BY DEF vars, passVars, fuseVars, planVars
<1>2. PoolsInv' BY <1>1 DEF PlanInv, PoolsInv, poolVars
<1>3. PlayedOnce' = PlayedOnce
  <2>1. Family(Head(work)[1])' = Family(Head(work)[1]) BY <1>1 DEF Family
  <2>. QED BY <1>1, <2>1 DEF PlayedOnce
<1>4. Playing => Playing'
  <2> SUFFICES ASSUME Playing PROVE Playing' OBVIOUS
  <2>1. \A s : InPlace(s)' <=> InPlace(s) BY <1>1 DEF InPlace, Nram!Holds, Wram!Holds, Sm!Holds, poolVars
  <2>2. \A r : GoodItem(r) => GoodItem(r)' BY <1>1, <2>1 DEF GoodItem
  <2>3. Scripted' BY <1>1, <2>2 DEF Playing, Scripted
  <2>4. Counts' BY <1>1 DEF Playing, Counts
  <2>5. Kept' BY <1>1, <2>1 DEF Playing, Kept
  <2>. QED BY <2>3, <2>4, <2>5 DEF Playing
<1>. QED BY <1>1, <1>2, <1>3, <1>4 DEF PlanInv

LEMMA NextPlanInv ==
    ASSUME Inv, PlanInv, [Next]_vars PROVE PlanInv'
PROOF
<1>1. CASE Search
  <2>1. CASE BackAsk \/ FrontAsk \/ EndRound \/ MeasureStep
    BY <2>1, BackAskPlan, FrontAskPlan, EndRoundPlan, MeasureStepPlan
  <2>2. CASE BackTake \/ FrontTake BY <2>2, BackTakePlan, FrontTakePlan
  <2>3. CASE \/ TakeStart \/ TakeDim \/ EndDim \/ EndStart \/ BeginBack \/ BackSkip \/ BeginFront \/ Infer
             \/ FrontSkip \/ EndBatch
    BY <2>3, OtherPlan
  <2>. QED BY <1>1, <2>1, <2>2, <2>3 DEF Search
<1>2. CASE Transform \/ TransformFails \/ InsertKernel \/ Finish BY <1>2, OtherPlan
<1>3. CASE UNCHANGED vars BY <1>3, StutterPlan
<1>. QED BY <1>1, <1>2, <1>3 DEF Next

LEMMA PlanInvImplies ==
    ASSUME Inv, PlanInv PROVE PlanNeverFails /\ ResidentWhenRead
PROOF
<1>1. WellFormed(graph) BY KnownNames
<1>2. CASE ~PlayedOnce BY <1>2 DEF PlanNeverFails, ResidentWhenRead
<1>3. CASE PlayedOnce
  <2>1. Playing BY <1>3 DEF PlanInv
  <2>2. ~PlanFails BY <1>1, <2>1, PlayingIsSafe
  <2>3. \A i \in DOMAIN todo : todo[i].do = "read" =>
           \A s \in given : s[1] = todo[i].operand => InPlace(s)
    BY <1>1, <2>1, PlayingIsSafe
  <2>. QED BY <2>2, <2>3 DEF PlanNeverFails, ResidentWhenRead, InPlace
<1>. QED BY <1>2, <1>3

\* In the estimate of a subgraph whose nodes are listed once no assertion of
\* get_memory_total_size fails: no output is read more often than node_du_counter says
\* and nothing is returned that is not there, whatever the graph, the chip and the
\* choice between blocks that fit equally well.
THEOREM EstimatesNeverFail ==
    Spec => []PlanNeverFails
PROOF
<1>1. Init => Inv /\ PlanInv BY InitInv, InitPlanInv
<1>2. Inv /\ PlanInv /\ [Next]_vars => (Inv /\ PlanInv)' BY NextInv, NextPlanInv
<1>3. Inv /\ PlanInv => PlanNeverFails BY PlanInvImplies
<1>. QED BY <1>1, <1>2, <1>3, PTL DEF Spec

\* What a node of such a subgraph is still to read is in place: the space of an output
\* goes back after its last reader and not before (get_memory_total_size).
THEOREM OperandsStay ==
    Spec => []ResidentWhenRead
PROOF
<1>1. Init => Inv /\ PlanInv BY InitInv, InitPlanInv
<1>2. Inv /\ PlanInv /\ [Next]_vars => (Inv /\ PlanInv)' BY NextInv, NextPlanInv
<1>3. Inv /\ PlanInv => ResidentWhenRead BY PlanInvImplies
<1>. QED BY <1>1, <1>2, <1>3, PTL DEF Spec
=============================================================================
