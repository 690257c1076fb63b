----------------------- MODULE GraphedCallablesProofs -----------------------
(* No replay overwrites what another one needs, and every gradient comes    *)
(* back in its place, for any number of callables and of iterations.        *)
EXTENDS GraphedCallables, FiniteSetTheorems, WellFoundedInduction, TLAPS

-----------------------------------------------------------------------------
(* One capture.                                                             *)

LEMMA RangeOfConcat ==
    ASSUME NEW S, NEW s \in Seq(S), NEW t \in Seq(S)
    PROVE  s \o t \in Seq(S) /\ Range(s \o t) = Range(s) \cup Range(t)
PROOF
<1>1. /\ s \o t \in Seq(S) /\ Len(s) \in Nat /\ Len(t) \in Nat
      /\ Len(s \o t) = Len(s) + Len(t)
      /\ \A k \in 1..Len(s) : (s \o t)[k] = s[k]
      /\ \A k \in 1..Len(t) : (s \o t)[Len(s) + k] = t[k]
  OBVIOUS
<1>2. Range(s \o t) \subseteq Range(s) \cup Range(t)
  <2> SUFFICES ASSUME NEW k \in 1..(Len(s) + Len(t))
               PROVE  (s \o t)[k] \in Range(s) \cup Range(t)
    BY <1>1 DEF Range
  <2>1. CASE k <= Len(s) BY <1>1, <2>1 DEF Range
  <2>2. CASE ~(k <= Len(s))
    <3>1. k - Len(s) \in 1..Len(t) /\ k = Len(s) + (k - Len(s)) BY <1>1, <2>2
    <3>. QED BY <1>1, <3>1 DEF Range
  <2>. QED BY <2>1, <2>2
<1>3. Range(s) \subseteq Range(s \o t)
  <2> SUFFICES ASSUME NEW k \in 1..Len(s) PROVE s[k] \in Range(s \o t) BY DEF Range
  <2>1. k \in 1..Len(s \o t) BY <1>1
  <2>. QED BY <1>1, <2>1 DEF Range
<1>4. Range(t) \subseteq Range(s \o t)
  <2> SUFFICES ASSUME NEW k \in 1..Len(t) PROVE t[k] \in Range(s \o t) BY DEF Range
  <2>1. Len(s) + k \in DOMAIN (s \o t) BY <1>1
  <2>2. (s \o t)[Len(s) + k] = t[k] BY <1>1
  <2>. QED BY <2>1, <2>2 DEF Range
<1>. QED BY <1>1, <1>2, <1>3, <1>4

\* The blocks a capture takes, and where everything is and what is free after it.
Allocates(things, dead, at, after, freed) ==
    /\ at \in [DOMAIN things -> free \cup Unused] /\ Fits(things, at)
    /\ after = [x \in DOMAIN place \cup Range(things) |->
                  IF x \in Range(things) THEN at[CHOOSE k \in DOMAIN things : things[k] = x]
                  ELSE place[x]]
    /\ freed = (free \ Range(at)) \cup {after[x] : x \in dead}

\* Things lie in different blocks, and not in these ones.
Separate(S, at) == \A x, y \in S : x # y => at[x] # at[y]
Outside(S, at, blocks) == \A x \in S : at[x] \notin blocks
InPool(at, blocks) == (\A x \in DOMAIN at : at[x] \in PoolBlocks) /\ blocks \subseteq PoolBlocks

\* A capture of new things, when some are alive, that leaves some dead.
Begins(W, things, live, dead) ==
    /\ things \in Seq(W) /\ Range(things) = W /\ W \cap DOMAIN place = {}
    /\ live \subseteq DOMAIN place /\ dead \subseteq live \cup W
    /\ InPool(place, free) /\ Outside(live, place, free) /\ Separate(live, place)

\* What is alive when a capture begins and what the capture allocates lie in different
\* blocks, and what is alive after it does not lie in a free one.
LEMMA CaptureKeepsApart ==
    ASSUME NEW W, NEW things, NEW live, NEW dead, Begins(W, things, live, dead),
           NEW at, NEW after, NEW freed, Allocates(things, dead, at, after, freed)
    PROVE  /\ DOMAIN after = DOMAIN place \cup W
           /\ \A x \in DOMAIN place : after[x] = place[x]
           /\ InPool(after, freed)
           /\ Separate(live \cup W, after)
           /\ Outside((live \cup W) \ dead, after, freed)
PROOF
<1>. /\ things \in Seq(W) /\ Range(things) = W /\ W \cap DOMAIN place = {}
     /\ live \subseteq DOMAIN place /\ dead \subseteq live \cup W
  BY DEF Begins
<1>0. /\ \A x \in DOMAIN place : place[x] \in PoolBlocks
      /\ free \subseteq PoolBlocks
      /\ \A x \in live : x \in DOMAIN place /\ place[x] \notin free
      /\ \A x, y \in live : x # y => place[x] # place[y]
  BY DEF Begins, InPool, Outside, Separate
<1>1. /\ at \in [DOMAIN things -> free \cup Unused] /\ Fits(things, at)
      /\ after = [x \in DOMAIN place \cup Range(things) |->
                         IF x \in Range(things) THEN at[CHOOSE k \in DOMAIN things : things[k] = x]
                         ELSE place[x]]
      /\ freed = (free \ Range(at)) \cup {after[x] : x \in dead}
  BY DEF Allocates
<1> DEFINE Index(x) == CHOOSE k \in DOMAIN things : things[k] = x
<1>2. \A x \in W : Index(x) \in DOMAIN things /\ things[Index(x)] = x
  <2> SUFFICES ASSUME NEW x \in W PROVE Index(x) \in DOMAIN things /\ things[Index(x)] = x
    OBVIOUS
  <2>1. \E k \in DOMAIN things : things[k] = x BY DEF Range
  <2>. QED BY <2>1
<1>3. \A x \in W : after[x] = at[Index(x)] BY <1>1
<1>4. \A x \in DOMAIN place : after[x] = place[x] BY <1>1
<1>5. DOMAIN after = DOMAIN place \cup W BY <1>1
<1> HIDE DEF Index
<1>6. \A x \in W : after[x] \in free \cup Unused /\ after[x] \in Range(at)
  BY <1>1, <1>2, <1>3 DEF Range
<1>7. \A j, k \in DOMAIN things : j < k => at[j] # at[k]
  <2> SUFFICES ASSUME NEW j \in DOMAIN things, NEW k \in DOMAIN things, j < k, at[j] = at[k]
               PROVE  FALSE
    OBVIOUS
  <2> DEFINE earlier == {at[l] : l \in 1..(k - 1)}
  <2>1. j \in 1..(k - 1) OBVIOUS
  <2>2. at[j] \in earlier BY <2>1
  <2>3. at[k] \notin earlier BY <1>1 DEF Fits
  <2>. QED BY <2>2, <2>3
<1>8. \A x, y \in W : x # y => after[x] # after[y]
  <2> SUFFICES ASSUME NEW x \in W, NEW y \in W, x # y PROVE after[x] # after[y] OBVIOUS
  <2>1. Index(x) \in DOMAIN things /\ Index(y) \in DOMAIN things /\ Index(x) # Index(y)
    BY <1>2
  <2>2. DOMAIN things \subseteq Nat OBVIOUS
  <2>3. Index(x) < Index(y) \/ Index(y) < Index(x) BY <2>1, <2>2
  <2>. QED BY <1>3, <1>7, <2>1, <2>3
<1>9. \A x \in live, y \in W : after[x] # after[y]
  BY <1>0, <1>4, <1>6 DEF Unused
<1>10. \A x, y \in live \cup W : x # y => after[x] # after[y]
  BY <1>0, <1>4, <1>8, <1>9
<1>11. \A x \in W : after[x] \in PoolBlocks BY <1>0, <1>6 DEF Unused
<1>12. \A x \in (live \cup W) \ dead : after[x] \notin freed
  <2> SUFFICES ASSUME NEW x \in (live \cup W) \ dead PROVE after[x] \notin freed OBVIOUS
  <2>1. after[x] \notin free \ Range(at) BY <1>0, <1>4, <1>6
  <2>2. after[x] \notin {after[y] : y \in dead} BY <1>10
  <2>3. freed = (free \ Range(at)) \cup {after[y] : y \in dead} BY <1>1
  <2> DEFINE D == {after[y] : y \in dead}
  <2> DEFINE here == after[x]
  <2> HIDE DEF D, here
  <2>4. here \notin free \ Range(at) /\ here \notin D /\ freed = (free \ Range(at)) \cup D
    BY <2>1, <2>2, <2>3 DEF D, here
  <2>5. here \notin freed BY <2>4
  <2>. QED BY <2>5 DEF here
<1>13. freed \subseteq PoolBlocks
  <2>1. \A x \in dead : after[x] \in PoolBlocks BY <1>0, <1>4, <1>11
  <2>2. {after[x] : x \in dead} \subseteq PoolBlocks BY <2>1
  <2>3. freed = (free \ Range(at)) \cup {after[x] : x \in dead} BY <1>1
  <2> DEFINE D == {after[x] : x \in dead}
  <2> HIDE DEF D
  <2>4. D \subseteq PoolBlocks /\ freed = (free \ Range(at)) \cup D BY <2>2, <2>3 DEF D
  <2>. QED BY <1>0, <2>4
<1>14. \A x \in DOMAIN after : after[x] \in PoolBlocks BY <1>0, <1>4, <1>5, <1>11
<1>. QED BY <1>4, <1>5, <1>10, <1>12, <1>13, <1>14 DEF InPool, Separate, Outside

-----------------------------------------------------------------------------
(* What the passes write.                                                   *)

Forward(i) == <<"forward", i>>
Backward(i) == <<"backward", i>>
Gradients(i) == {Gradient(i, j) : j \in Range(Wanted(i))}

\* What outlives its capture, and all that a pass writes.
Lasting(p) ==
    IF p[1] = "forward" THEN {Output(p[2])} \cup (IF callables[p[2]].grad THEN {Saved(p[2])} ELSE {})
    ELSE Gradients(p[2])
Things(p) == Lasting(p) \cup {IF p[1] = "forward" THEN Scratch(p[2]) ELSE BackScratch(p[2])}

CapturedForward == {Forward(i) : i \in 1..Len(fwdGraphs)}
CapturedBackward == {Backward(i) : i \in {k \in 1..N : k > N - Len(gradInputs) /\ callables[k].grad}}
Captured == CapturedForward \cup CapturedBackward
Live == (UNION {Lasting(p) : p \in Captured}) \ {Saved(p[2]) : p \in CapturedBackward}

\* q runs when p has left something to its backward pass, and that is still to come or q.
Until(p, q) == q = Backward(p[2]) \/ Before(q, Backward(p[2]))

\* What Graphed.backward of a callable returns.
Returned(i) ==
    Padded(i, IF callables[i].grad THEN [k \in DOMAIN Wanted(i) |-> Gradient(i, Wanted(i)[k])] ELSE <<>>)

Listed ==
    /\ callables \in Programs
    /\ fwdGraphs \in Seq({Things(Forward(i)) : i \in 1..N}) /\ Len(fwdGraphs) <= N
    /\ \A i \in 1..Len(fwdGraphs) : fwdGraphs[i] = Things(Forward(i))
    /\ gradInputs \in Seq({Returned(i) : i \in 1..N}) /\ Len(gradInputs) <= N
    /\ \A k \in 1..Len(gradInputs), i \in 1..N : i + k = N + 1 => gradInputs[k] = Returned(i)
    /\ Len(gradInputs) > 0 => Len(fwdGraphs) = N
    /\ DOMAIN bwdGraphs = 1..N
    /\ \A p \in CapturedBackward : bwdGraphs[p[2]] = Things(p)

Placed ==
    /\ DOMAIN place = UNION {Things(p) : p \in Captured}
    /\ InPool(place, free) /\ Outside(Live, place, free) /\ Separate(Live, place)

Apart ==
    /\ \A p \in Captured : Separate(Things(p), place)
    /\ \A p, q \in Captured : Before(p, q) =>
          \A x \in Lasting(p), y \in Things(q) :
             (x = Saved(p[2]) => Until(p, q)) => place[x] # place[y]

Replayed ==
    /\ todo \subseteq Captured /\ done \subseteq Captured
    /\ todo \cup done # {} => Len(gradInputs) = N
    /\ \A p \in done, q \in todo : Before(p, q)
    /\ \A p \in CapturedForward \cap (done \cup todo), q \in CapturedBackward \cap todo :
          callables[p[2]].grad => Backward(p[2]) \in done \cup todo
    /\ DOMAIN contents = PoolBlocks
    /\ iteration \in 0..MaxIterations
    /\ ReplaysUndisturbed

GraphInv == Listed /\ Placed /\ Apart /\ Replayed

\* Passes are pairs, and the things of different passes are different.
LEMMA CapturedPairs ==
    ASSUME Listed
    PROVE  /\ N \in Nat /\ Len(fwdGraphs) \in Nat /\ Len(gradInputs) \in Nat
           /\ \A p \in CapturedForward : p[1] = "forward" /\ p[2] \in 1..N /\ p = Forward(p[2])
           /\ \A p \in CapturedBackward : /\ p[1] = "backward" /\ p[2] \in 1..N /\ p = Backward(p[2])
                                          /\ callables[p[2]].grad /\ p[2] > N - Len(gradInputs)
                                          /\ Len(fwdGraphs) = N
           /\ \A p \in Captured : p[2] \in Int
PROOF
<1>1. N \in Nat BY ProgramsAssumption DEF Listed, N
<1>2. Len(fwdGraphs) \in Nat /\ Len(fwdGraphs) <= N /\ Len(gradInputs) \in Nat BY DEF Listed
<1>3. \A p \in CapturedForward : p[1] = "forward" /\ p[2] \in 1..N /\ p = Forward(p[2])
  BY <1>1, <1>2 DEF CapturedForward, Forward
<1>4. \A p \in CapturedBackward : /\ p[1] = "backward" /\ p[2] \in 1..N /\ p = Backward(p[2])
                                  /\ callables[p[2]].grad /\ p[2] > N - Len(gradInputs)
  BY DEF CapturedBackward, Backward
<1>5. \A p \in CapturedBackward : Len(fwdGraphs) = N
  BY <1>1, <1>2, <1>4 DEF Listed
<1>. QED BY <1>1, <1>2, <1>3, <1>4, <1>5 DEF Captured

LEMMA ThingsDiffer ==
    ASSUME NEW p, NEW q, p[1] \in {"forward", "backward"}, q[1] \in {"forward", "backward"},
           NEW x, x \in Things(p), x \in Things(q)
    PROVE  p[1] = q[1] /\ p[2] = q[2]
PROOF BY DEF Things, Lasting, Gradients, Scratch, BackScratch, Saved, Output, Gradient

\* Gradients are not saved tensors.
LEMMA SavedIsForward ==
    ASSUME NEW p, p[1] \in {"forward", "backward"}, NEW i, Saved(i) \in Lasting(p)
    PROVE  p[1] = "forward" /\ p[2] = i /\ callables[i].grad
PROOF BY DEF Lasting, Gradients, Saved, Output, Gradient

-----------------------------------------------------------------------------
(* The inputs that require a gradient.                                      *)

\* Every set of numbers has a least one: induction, in the form it is used here.
LEMMA LeastOfNumbers ==
    ASSUME NEW T, T \subseteq Nat, T # {}
    PROVE  \E x \in T : \A y \in T : x <= y
PROOF
<1> DEFINE R == {p \in Nat \X Nat : p[1] < p[2]}
<1>1. IsWellFoundedOn(R, Nat)
  BY NatLessThanWellFounded DEF OpToRel
<1>2. PICK x \in T : \A y \in T : ~(<<y, x>> \in R)
  <2> HIDE DEF R
  <2>. QED BY <1>1, WFMin
<1>3. \A y \in T : ~(y < x)
  BY <1>2
<1>. QED BY <1>3

\* The loop over the inputs has a result after each number of inputs.
LEMMA UptoExists ==
    ASSUME NEW surface, NEW n \in Nat
    PROVE  \E f : f = [j \in 0..n |-> IF j = 0 THEN <<>>
                                       ELSE IF surface[j] THEN Append(f[j - 1], j) ELSE f[j - 1]]
PROOF
<1> DEFINE Result(f, m) ==
      f = [j \in 0..m |-> IF j = 0 THEN <<>>
                           ELSE IF surface[j] THEN Append(f[j - 1], j) ELSE f[j - 1]]
<1> DEFINE Bad == {m \in Nat : ~\E f : Result(f, m)}
<1>1. ASSUME Bad # {} PROVE FALSE
  <2>1. PICK m \in Bad : \A l \in Bad : m <= l
    <3>1. Bad \subseteq Nat OBVIOUS
    <3> HIDE DEF Bad
    <3>. QED BY <1>1, <3>1, LeastOfNumbers
  <2>2. m \in Nat /\ ~\E f : Result(f, m) BY <2>1
  <2>3. m # 0
    <3>1. Result([j \in 0..0 |-> <<>>], 0) OBVIOUS
    <3> HIDE DEF Result
    <3>. QED BY <2>2, <3>1
  <2>4. m - 1 \in Nat /\ m - 1 \notin Bad
    <3> HIDE DEF Bad
    <3>. QED BY <2>1, <2>2, <2>3
  <2>5. PICK f : Result(f, m - 1) BY <2>4
  <2> DEFINE last == IF surface[m] THEN Append(f[m - 1], m) ELSE f[m - 1]
  <2> DEFINE g == [j \in 0..m |-> IF j = m THEN last ELSE f[j]]
  <2>6. ASSUME NEW j \in 0..m
        PROVE  g[j] = IF j = 0 THEN <<>>
                      ELSE IF surface[j] THEN Append(g[j - 1], j) ELSE g[j - 1]
    <3>1. CASE j = m
      <4>1. g[j] = last /\ g[j - 1] = f[m - 1] /\ j # 0 BY <2>2, <2>3, <3>1
      <4> HIDE DEF g
      <4>. QED BY <3>1, <4>1
    <3>2. CASE j # m
      <4>1. j \in 0..(m - 1) /\ g[j] = f[j] /\ (j # 0 => g[j - 1] = f[j - 1]) BY <2>2, <2>3, <3>2
      <4> HIDE DEF g
      <4>2. f[j] = IF j = 0 THEN <<>>
                   ELSE IF surface[j] THEN Append(f[j - 1], j) ELSE f[j - 1]
        BY <2>5, <4>1
      <4>. QED BY <4>1, <4>2
    <3>. QED BY <3>1, <3>2
  <2>7. Result(g, m) BY <2>6
  <2> HIDE DEF Result, g
  <2>. QED BY <2>2, <2>7
<1>2. n \notin Bad BY <1>1
<1>. QED BY <1>2

LEMMA UptoIs ==
    ASSUME NEW i, NEW n \in Nat, Len(callables[i].surface) = n
    PROVE  \E f : /\ Wanted(i) = f[n]
                  /\ \A j \in 0..n : f[j] =
                        IF j = 0 THEN <<>>
                        ELSE IF callables[i].surface[j] THEN Append(f[j - 1], j) ELSE f[j - 1]
PROOF
<1> DEFINE surface == callables[i].surface
<1> DEFINE Result(f) ==
      f = [j \in 0..n |-> IF j = 0 THEN <<>>
                           ELSE IF surface[j] THEN Append(f[j - 1], j) ELSE f[j - 1]]
<1> DEFINE f == CHOOSE f : Result(f)
<1>1. Wanted(i) = f[n] BY DEF Wanted
<1>2. \E h : Result(h)
  <2> HIDE DEF surface
  <2>. QED BY UptoExists
<1>3. Result(f)
  <2> HIDE DEF Result
  <2>. QED BY <1>2
<1>4. \A j \in 0..n : f[j] =
                        IF j = 0 THEN <<>>
                        ELSE IF surface[j] THEN Append(f[j - 1], j) ELSE f[j - 1]
  <2> HIDE DEF f, surface
  <2>. QED BY <1>3
<1> HIDE DEF f
<1>. QED BY <1>1, <1>4

\* grad_idx, counted from one, when the loop is at input j.
Rank(i, j) == Cardinality({k \in 1..j : callables[i].surface[k]})

LEMMA RankFacts ==
    ASSUME NEW i, NEW j \in Nat
    PROVE  /\ Rank(i, j) \in Nat /\ Rank(i, 0) = 0
           /\ j > 0 => Rank(i, j) = Rank(i, j - 1) + (IF callables[i].surface[j] THEN 1 ELSE 0)
PROOF
<1> DEFINE Upto(m) == {k \in 1..m : callables[i].surface[k]}
<1>1. ASSUME NEW m \in Nat PROVE IsFiniteSet(Upto(m)) /\ Cardinality(Upto(m)) \in Nat
  <2>1. Upto(m) \subseteq 1..m /\ IsFiniteSet(1..m) BY FS_Interval
  <2>2. IsFiniteSet(Upto(m))
    <3> HIDE DEF Upto
    <3>. QED BY <2>1, FS_Subset
  <2>. QED BY <2>2, FS_CardinalityType
<1>2. Cardinality(Upto(0)) = 0
  <2>1. Upto(0) = {} OBVIOUS
  <2>. QED BY <2>1, FS_EmptySet
<1>3. ASSUME j > 0
      PROVE Cardinality(Upto(j)) =
              Cardinality(Upto(j - 1)) + (IF callables[i].surface[j] THEN 1 ELSE 0)
  <2>1. j - 1 \in Nat /\ IsFiniteSet(Upto(j - 1)) /\ Cardinality(Upto(j - 1)) \in Nat BY <1>1, <1>3
  <2>2. CASE callables[i].surface[j]
    <3>1. Upto(j) = Upto(j - 1) \cup {j} /\ j \notin Upto(j - 1) BY <1>3, <2>2
    <3> HIDE DEF Upto
    <3>2. Cardinality(Upto(j - 1) \cup {j}) = Cardinality(Upto(j - 1)) + 1
      BY <2>1, <3>1, FS_AddElement
    <3>. QED BY <2>2, <3>1, <3>2
  <2>3. CASE ~callables[i].surface[j]
    <3>1. Upto(j) = Upto(j - 1) BY <1>3, <2>3
    <3> HIDE DEF Upto
    <3>. QED BY <2>1, <2>3, <3>1
  <2>. QED BY <2>2, <2>3
<1> HIDE DEF Upto
<1>4. \A m : Rank(i, m) = Cardinality(Upto(m)) BY DEF Rank, Upto
<1>. QED BY <1>1, <1>2, <1>3, <1>4

\* The inputs that require a gradient are asked for in the order in which the padding
\* loop meets them.
LEMMA WantedInOrder ==
    ASSUME callables \in Programs, NEW i \in 1..N
    PROVE  /\ Wanted(i) \in Seq(Nat)
           /\ \A j \in DOMAIN callables[i].surface : callables[i].surface[j] =>
                 Rank(i, j) \in 1..Len(Wanted(i)) /\ Wanted(i)[Rank(i, j)] = j
PROOF
<1> DEFINE surface == callables[i].surface
<1>1. surface \in Seq(BOOLEAN)
  <2> DEFINE C == [surface : Seq(BOOLEAN), grad : BOOLEAN]
  <2>1. callables \in Seq(C) BY ProgramsAssumption
  <2> HIDE DEF C
  <2>2. callables[i] \in C BY <2>1 DEF N
  <2>. QED BY <2>2 DEF C
<1> DEFINE n == Len(surface)
<1>2. n \in Nat /\ DOMAIN surface = 1..n BY <1>1
<1>3. PICK f : /\ Wanted(i) = f[n]
               /\ \A j \in 0..n : f[j] =
                     IF j = 0 THEN <<>> ELSE IF surface[j] THEN Append(f[j - 1], j) ELSE f[j - 1]
  BY <1>2, UptoIs
<1> DEFINE Good(m) ==
      /\ f[m] \in Seq(Nat) /\ Len(f[m]) = Rank(i, m)
      /\ \A j \in 1..m : surface[j] => Rank(i, j) \in 1..Rank(i, m) /\ f[m][Rank(i, j)] = j
<1> DEFINE Bad == {m \in 0..n : ~Good(m)}
<1>4. ASSUME Bad # {} PROVE FALSE
  <2>1. PICK m \in Bad : \A l \in Bad : m <= l
    <3>1. Bad \subseteq Nat BY <1>2
    <3> HIDE DEF Bad
    <3>. QED BY <1>4, <3>1, LeastOfNumbers
  <2>2. m \in 0..n /\ ~Good(m) BY <2>1
  <2> HIDE DEF surface, n
  <2>3. CASE m = 0
    <3>1. f[m] = <<>> BY <1>3, <2>2, <2>3
    <3>2. Rank(i, m) = 0 BY <2>3, RankFacts
    <3>3. Good(m) BY <2>3, <3>1, <3>2
    <3>. QED BY <2>2, <3>3
  <2>4. CASE m # 0
    <3>1. m - 1 \in 0..n /\ m \in Nat BY <1>2, <2>2, <2>4
    <3>2. Good(m - 1)
      <4>1. m - 1 \notin Bad
        <5> HIDE DEF Bad
        <5>. QED BY <2>1, <2>2, <3>1
      <4>. QED BY <3>1, <4>1
    <3> DEFINE s == f[m - 1]
    <3> DEFINE r == Rank(i, m - 1)
    <3>3. /\ s \in Seq(Nat) /\ Len(s) = r /\ r \in Nat
          /\ \A j \in 1..(m - 1) : surface[j] => Rank(i, j) \in 1..r /\ s[Rank(i, j)] = j
      BY <3>1, <3>2, RankFacts
    <3>4. f[m] = IF surface[m] THEN Append(s, m) ELSE s BY <1>3, <2>2, <2>4
    <3>5. Rank(i, m) = r + (IF surface[m] THEN 1 ELSE 0) BY <2>4, <3>1, RankFacts DEF surface
    <3> HIDE DEF s, r
    <3>6. CASE surface[m]
      <4>1. f[m] = Append(s, m) /\ Rank(i, m) = r + 1 BY <3>4, <3>5, <3>6
      <4>2. /\ f[m] \in Seq(Nat) /\ Len(f[m]) = r + 1 /\ f[m][r + 1] = m
            /\ \A k \in 1..r : f[m][k] = s[k]
        BY <3>1, <3>3, <4>1
      <4>3. \A j \in 1..m : surface[j] => Rank(i, j) \in 1..(r + 1) /\ f[m][Rank(i, j)] = j
        <5> SUFFICES ASSUME NEW j \in 1..m, surface[j]
                     PROVE  Rank(i, j) \in 1..(r + 1) /\ f[m][Rank(i, j)] = j
          OBVIOUS
        <5>1. CASE j = m BY <3>3, <4>1, <4>2, <5>1
        <5>2. CASE j # m
          <6>1. j \in 1..(m - 1) BY <3>1, <5>2
          <6>2. Rank(i, j) \in 1..r /\ s[Rank(i, j)] = j BY <3>3, <6>1
          <6>. QED BY <3>3, <4>2, <6>2
        <5>. QED BY <5>1, <5>2
      <4>4. Good(m) BY <4>1, <4>2, <4>3
      <4>. QED BY <2>2, <4>4
    <3>7. CASE ~surface[m]
      <4>1. f[m] = s /\ Rank(i, m) = r BY <3>3, <3>4, <3>5, <3>7
      <4>2. \A j \in 1..m : surface[j] => j \in 1..(m - 1) BY <3>1, <3>7
      <4>3. Good(m) BY <3>3, <4>1, <4>2
      <4>. QED BY <2>2, <4>3
    <3>. QED BY <3>6, <3>7
  <2>. QED BY <2>3, <2>4
<1>5. Good(n)
  <2>1. n \in 0..n BY <1>2
  <2>. QED BY <1>4, <2>1
<1> HIDE DEF n
<1>. QED BY <1>2, <1>3, <1>5

\* What a backward pass allocates is a sequence of its things.
LEMMA BackwardAllocation ==
    ASSUME callables \in Programs, NEW i \in 1..N,
           NEW grads, grads = [k \in DOMAIN Wanted(i) |-> Gradient(i, Wanted(i)[k])]
    PROVE  /\ <<BackScratch(i)>> \o grads \in Seq(Things(Backward(i)))
           /\ Range(<<BackScratch(i)>> \o grads) = Things(Backward(i))
PROOF
<1> DEFINE T == Things(Backward(i))
<1>1. Wanted(i) \in Seq(Nat) BY WantedInOrder
<1>2. T = {Gradient(i, j) : j \in Range(Wanted(i))} \cup {BackScratch(i)}
  BY DEF Things, Lasting, Backward, Gradients
<1>3. \A k \in DOMAIN Wanted(i) : Gradient(i, Wanted(i)[k]) \in T
  BY <1>2 DEF Range
<1>4. grads \in Seq(T) /\ Range(grads) = {Gradient(i, j) : j \in Range(Wanted(i))}
  <2>1. DOMAIN Wanted(i) = 1..Len(Wanted(i)) /\ Len(Wanted(i)) \in Nat BY <1>1
  <2>2. grads \in [1..Len(Wanted(i)) -> T]
    <3> HIDE DEF T
    <3>. QED BY <1>3, <2>1
  <2>3. grads \in Seq(T)
    <3> HIDE DEF T
    <3>. QED BY <2>1, <2>2
  <2>4. Range(grads) = {Gradient(i, j) : j \in Range(Wanted(i))} BY DEF Range
  <2>. QED BY <2>3, <2>4
<1> DEFINE first == <<BackScratch(i)>>
<1>5. first \in Seq(T) /\ Range(first) = {BackScratch(i)}
  <2>1. BackScratch(i) \in T BY <1>2
  <2> DEFINE b == BackScratch(i)
  <2> HIDE DEF T, b
  <2>2. <<b>> \in Seq(T) /\ Range(<<b>>) = {b} BY <2>1 DEF Range, b
  <2>. QED BY <2>2 DEF b
<1> HIDE DEF T, first
<1>6. first \o grads \in Seq(T) /\ Range(first \o grads) = Range(first) \cup Range(grads)
  BY <1>4, <1>5, RangeOfConcat
<1>. QED BY <1>2, <1>4, <1>5, <1>6 DEF T, first

LEMMA ForwardAllocation ==
    ASSUME NEW i, NEW saved, saved = IF callables[i].grad THEN <<Saved(i)>> ELSE <<>>
    PROVE  /\ <<Scratch(i), Output(i)>> \o saved \in Seq(Things(Forward(i)))
           /\ Range(<<Scratch(i), Output(i)>> \o saved) = Things(Forward(i))
PROOF
<1> DEFINE T == Things(Forward(i))
<1> DEFINE first == <<Scratch(i), Output(i)>>
<1>1. T = {Output(i)} \cup (IF callables[i].grad THEN {Saved(i)} ELSE {}) \cup {Scratch(i)}
  BY DEF Things, Lasting, Forward
<1> DEFINE a == Scratch(i)
<1> DEFINE b == Output(i)
<1> DEFINE c == Saved(i)
<1>2. T = {b} \cup (IF callables[i].grad THEN {c} ELSE {}) \cup {a} BY <1>1
<1> HIDE DEF T, a, b, c
<1>3. first \in Seq(T) /\ Range(first) = {a, b}
  <2>1. first = <<a, b>> BY DEF a, b
  <2> HIDE DEF first
  <2>2. a \in T /\ b \in T BY <1>2
  <2>3. DOMAIN first = 1..2 /\ first[1] = a /\ first[2] = b BY <2>1
  <2>4. first \in Seq(T) BY <2>1, <2>2
  <2>. QED BY <2>3, <2>4 DEF Range
<1>4. saved \in Seq(T) /\ Range(saved) = IF callables[i].grad THEN {c} ELSE {}
  <2>1. CASE callables[i].grad
    <3>1. saved = <<c>> /\ c \in T BY <1>2, <2>1 DEF c
    <3>2. DOMAIN saved = 1..1 /\ saved[1] = c BY <3>1
    <3>. QED BY <2>1, <3>1, <3>2 DEF Range
  <2>2. CASE ~callables[i].grad
    <3>1. saved = <<>> BY <2>2
    <3>. QED BY <2>2, <3>1 DEF Range
  <2>. QED BY <2>1, <2>2
<1> HIDE DEF first
<1> SUFFICES first \o saved \in Seq(T) /\ Range(first \o saved) = T
  BY DEF T, first
<1>5. first \o saved \in Seq(T) /\ Range(first \o saved) = Range(first) \cup Range(saved)
  <2> DEFINE rest == saved
  <2>1. rest \in Seq(T) BY <1>4
  <2> HIDE DEF rest
  <2>2. first \o rest \in Seq(T) /\ Range(first \o rest) = Range(first) \cup Range(rest)
    BY <1>3, <2>1, RangeOfConcat
  <2>. QED BY <2>2 DEF rest
<1>. QED BY <1>2, <1>3, <1>4, <1>5

-----------------------------------------------------------------------------
(* A capture.                                                               *)

\* What the passes write does not change.
LEMMA ThingsStay ==
    ASSUME callables' = callables
    PROVE  /\ N' = N /\ \A i : Wanted(i)' = Wanted(i)
           /\ \A p : Lasting(p)' = Lasting(p) /\ Things(p)' = Things(p)
PROOF
<1>1. N' = N BY DEF N
<1>2. \A i : Wanted(i)' = Wanted(i) BY DEF Wanted
<1>3. \A i : Gradients(i)' = Gradients(i) BY <1>2 DEF Gradients
<1>4. \A p : Lasting(p)' = Lasting(p) BY <1>3 DEF Lasting
<1>5. \A p : Things(p)' = Things(p) BY <1>4 DEF Things
<1>. QED BY <1>1, <1>2, <1>4, <1>5

\* A pass that is captured after all others leaves what they protect alone.
LEMMA CaptureStep ==
    ASSUME Listed, Placed, Apart, NEW i \in 1..N, NEW r, r = Forward(i) \/ r = Backward(i),
           r \notin Captured, \A p \in Captured : Before(p, r),
           callables' = callables, Captured' = Captured \cup {r},
           NEW things \in Seq(Things(r)), Range(things) = Things(r),
           NEW dead, Capture(things, dead), dead \subseteq Live \cup Things(r),
           Live' \subseteq (Live \cup Things(r)) \ dead
    PROVE  Placed' /\ Apart'
PROOF
<1> DEFINE W == Things(r)
<1>1. \A p \in Captured : p[1] \in {"forward", "backward"} /\ p = <<p[1], p[2]>> /\ p[2] \in 1..N
  BY CapturedPairs DEF Captured, Forward, Backward
<1>2. r[1] \in {"forward", "backward"} /\ r = <<r[1], r[2]>> /\ r[2] \in 1..N BY DEF Forward, Backward
<1>3. W \cap DOMAIN place = {}
  <2> SUFFICES ASSUME NEW x, x \in W, NEW p \in Captured, x \in Things(p) PROVE FALSE
    BY DEF Placed
  <2>1. p[1] = r[1] /\ p[2] = r[2] BY <1>1, <1>2, ThingsDiffer
  <2>. QED BY <1>1, <1>2, <2>1
<1>4. Live \subseteq DOMAIN place
  BY DEF Live, Placed, Things
<1>5. /\ DOMAIN place' = DOMAIN place \cup W
      /\ \A x \in DOMAIN place : place'[x] = place[x]
      /\ InPool(place', free')
      /\ Separate(Live \cup W, place')
      /\ Outside((Live \cup W) \ dead, place', free')
  <2>1. InPool(place, free) /\ Outside(Live, place, free) /\ Separate(Live, place) BY DEF Placed
  <2> HIDE DEF W
  <2>2. things \in Seq(W) /\ Range(things) = W /\ dead \subseteq Live \cup W BY DEF W
  <2>3. W \cap DOMAIN place = {} /\ Live \subseteq DOMAIN place BY <1>3, <1>4
  <2>4. PICK at : Allocates(things, dead, at, place', free')
    BY DEF Capture, Allocates
  <2>5. Begins(W, things, Live, dead) BY <2>1, <2>2, <2>3 DEF Begins
  <2>. QED BY <2>4, <2>5, CaptureKeepsApart
<1>6. \A p : Lasting(p)' = Lasting(p) /\ Things(p)' = Things(p) BY ThingsStay
<1>7. Placed'
  <2>1. DOMAIN place' = UNION {Things(p)' : p \in Captured'}
    <3>1. DOMAIN place = UNION {Things(p) : p \in Captured} BY DEF Placed
    <3>2. UNION {Things(p) : p \in Captured \cup {r}} = DOMAIN place \cup W BY <3>1
    <3>3. {Things(p)' : p \in Captured'} = {Things(p) : p \in Captured \cup {r}} BY <1>6
    <3>. QED BY <1>5, <3>2, <3>3
  <2> HIDE DEF W
  <2>2. Live' \subseteq (Live \cup W) \ dead BY DEF W
  <2>3. Outside(Live', place', free') /\ Separate(Live', place')
    BY <1>5, <2>2 DEF Outside, Separate
  <2>4. InPool(place', free') BY <1>5
  <2>. QED BY <2>1, <2>3, <2>4 DEF Placed, InPool, Outside, Separate
<1>8. \A p \in Captured : Things(p) \subseteq DOMAIN place BY DEF Placed
<1>9. \A p : Lasting(p) \subseteq Things(p) BY DEF Things
<1>10. \A p \in Captured' : \A x, y \in Things(p) : x # y => place'[x] # place'[y]
  <2> SUFFICES ASSUME NEW p \in Captured', NEW x \in Things(p), NEW y \in Things(p), x # y
               PROVE  place'[x] # place'[y]
    OBVIOUS
  <2>1. CASE p = r BY <1>5, <2>1 DEF Separate
  <2>2. CASE p \in Captured BY <1>5, <1>8, <2>2 DEF Apart, Separate
  <2>. QED BY <2>1, <2>2
<1>11. ASSUME NEW p \in Captured', NEW q \in Captured', Before(p, q),
              NEW x \in Lasting(p), NEW y \in Things(q), x = Saved(p[2]) => Until(p, q)
       PROVE  place'[x] # place'[y]
  <2>1. CASE p \in Captured /\ q \in Captured
    <3>1. x \in DOMAIN place /\ y \in DOMAIN place BY <1>8, <1>9, <2>1
    <3>2. place[x] # place[y] BY <1>11, <2>1 DEF Apart
    <3>. QED BY <1>5, <3>1, <3>2
  <2>2. CASE p \in Captured /\ q = r
    <3>1. x \in Live
      <4>1. x \in UNION {Lasting(s) : s \in Captured} BY <2>2
      <4>2. ASSUME NEW b \in CapturedBackward, x = Saved(b[2]) PROVE FALSE
        <5>1. p[1] = "forward" /\ p[2] = b[2] BY <1>1, <2>2, <4>2, SavedIsForward
        <5>2. b = Backward(p[2]) /\ b \in Captured /\ b[1] = "backward" /\ b[2] \in Int
          BY <5>1, CapturedPairs DEF Captured
        <5>3. r = Backward(p[2]) \/ Before(r, Backward(p[2])) BY <1>11, <2>2, <4>2, <5>1 DEF Until
        <5>4. Before(b, r) BY <5>2
        <5>5. ~(Before(b, r) /\ Before(r, b)) BY <1>2, <5>2 DEF Before
        <5>. QED BY <5>2, <5>3, <5>4, <5>5
      <4>. QED BY <4>1, <4>2 DEF Live
    <3>2. y \in W /\ x # y BY <1>3, <1>4, <2>2, <3>1
    <3>. QED BY <1>5, <3>1, <3>2 DEF Separate
  <2>3. CASE p = r /\ q \in Captured
    <3>1. Before(q, r) BY <2>3
    <3>2. ~(Before(q, r) /\ Before(r, q)) BY <1>1, <1>2, <2>3 DEF Before
    <3>. QED BY <1>11, <2>3, <3>1, <3>2
  <2>4. CASE p = r /\ q = r
    <3>1. ~Before(r, r) BY <1>2 DEF Before
    <3>. QED BY <1>11, <2>4, <3>1
  <2>. QED BY <2>1, <2>2, <2>3, <2>4
<1>12. Apart'
  BY <1>6, <1>10, <1>11 DEF Apart, Until, Separate
<1>. QED BY <1>7, <1>12

LEMMA ReturnedStays == ASSUME callables' = callables PROVE \A i : Returned(i)' = Returned(i)
PROOF BY ThingsStay DEF Returned, Padded

LEMMA CaptureForwardStep == ASSUME GraphInv, CaptureForward PROVE GraphInv'
PROOF
<1>. Listed /\ Placed /\ Apart /\ Replayed BY DEF GraphInv
<1> DEFINE i == Len(fwdGraphs) + 1
<1> DEFINE r == Forward(i)
<1> DEFINE saved == IF callables[i].grad THEN <<Saved(i)>> ELSE <<>>
<1> DEFINE things == <<Scratch(i), Output(i)>> \o saved
<1> DEFINE dead == {Scratch(i)}
<1>1. /\ i <= N /\ Capture(things, dead)
      /\ fwdGraphs' = Append(fwdGraphs, Range(things))
      /\ callables' = callables /\ bwdGraphs' = bwdGraphs /\ gradInputs' = gradInputs
      /\ contents' = contents /\ iteration' = iteration /\ todo' = todo /\ done' = done
  BY DEF CaptureForward, DeadAfterForward
<1>2. N \in Nat /\ Len(fwdGraphs) \in Nat /\ Len(gradInputs) \in Nat BY CapturedPairs
<1>3. i \in 1..N /\ Len(fwdGraphs) # N BY <1>1, <1>2
<1>4. Len(gradInputs) = 0 BY <1>2, <1>3 DEF Listed
<1>5. CapturedBackward = {} BY <1>2, <1>4 DEF CapturedBackward
<1>6. things \in Seq(Things(r)) /\ Range(things) = Things(r)
  <2> HIDE DEF saved
  <2>. QED BY ForwardAllocation DEF saved
<1>7. /\ N' = N /\ \A p : Lasting(p)' = Lasting(p) /\ Things(p)' = Things(p)
      /\ \A k : Returned(k)' = Returned(k)
  BY <1>1, ThingsStay, ReturnedStays
<1>8. /\ fwdGraphs' \in Seq({Things(Forward(k)) : k \in 1..N})
      /\ Len(fwdGraphs') = i
      /\ \A k \in 1..i : fwdGraphs'[k] = Things(Forward(k))
  <2> DEFINE T == {Things(Forward(k)) : k \in 1..N}
  <2> DEFINE t == Things(r)
  <2>1. t \in T BY <1>3
  <2>2. fwdGraphs \in Seq(T) /\ \A k \in 1..Len(fwdGraphs) : fwdGraphs[k] = Things(Forward(k))
    BY DEF Listed
  <2>3. fwdGraphs' = Append(fwdGraphs, t) BY <1>1, <1>6
  <2> HIDE DEF T, t
  <2>4. /\ fwdGraphs' \in Seq(T) /\ Len(fwdGraphs') = i /\ fwdGraphs'[i] = t
        /\ \A k \in 1..Len(fwdGraphs) : fwdGraphs'[k] = fwdGraphs[k]
    BY <2>1, <2>2, <2>3
  <2>. QED BY <1>2, <2>2, <2>4 DEF T, t
<1> HIDE DEF things
<1>9. CapturedForward' = CapturedForward \cup {r} /\ CapturedBackward' = {}
  <2>1. CapturedForward' = {Forward(k) : k \in 1..i} BY <1>8 DEF CapturedForward, Forward
  <2>2. 1..i = 1..Len(fwdGraphs) \cup {i} BY <1>2
  <2>3. CapturedBackward' = CapturedBackward
    BY <1>1, <1>7 DEF CapturedBackward, Backward
  <2>. QED BY <1>5, <2>1, <2>2, <2>3 DEF CapturedForward
<1>10. Captured' = Captured \cup {r} BY <1>5, <1>9 DEF Captured
<1>11. r \notin Captured /\ \A p \in Captured : Before(p, r)
  <2>1. \A p \in Captured : p[1] = "forward" /\ p[2] \in 1..Len(fwdGraphs)
    BY <1>5 DEF Captured, CapturedForward, Forward
  <2>. QED BY <1>2, <2>1 DEF Before, Forward
<1>12. Live = UNION {Lasting(p) : p \in Captured} BY <1>5 DEF Live
<1>13. Live' = Live \cup Lasting(r)
  <2>1. Live' = UNION {Lasting(p)' : p \in Captured'} BY <1>9 DEF Live
  <2>2. {Lasting(p)' : p \in Captured'} = {Lasting(p) : p \in Captured \cup {r}} BY <1>7, <1>10
  <2>. QED BY <1>12, <2>1, <2>2
<1>14. dead \subseteq Things(r) BY DEF Things, Forward
<1>15. Scratch(i) \notin Live \cup Lasting(r)
  <2>1. \A p : Scratch(i) \notin Lasting(p)
    BY DEF Lasting, Gradients, Scratch, Saved, Output, Gradient
  <2>. QED BY <1>12, <2>1
<1>16. Live' \subseteq (Live \cup Things(r)) \ dead BY <1>13, <1>15 DEF Things
<1>17. Placed' /\ Apart'
  <2> HIDE DEF r, dead, saved, i
  <2>1. r = Forward(i) BY DEF r
  <2>2. dead \subseteq Live \cup Things(r) BY <1>14
  <2>. QED BY <1>1, <1>3, <1>6, <1>10, <1>11, <1>16, <2>1, <2>2, CaptureStep
<1>18. Listed'
  <2>1. CapturedBackward' = {} BY <1>9
  <2>2. gradInputs' = gradInputs /\ Len(gradInputs') = 0 BY <1>1, <1>4
  <2>3. {Things(Forward(k))' : k \in 1..N'} = {Things(Forward(k)) : k \in 1..N} BY <1>7
  <2>4. gradInputs' = <<>> BY <2>2 DEF Listed
  <2>5. fwdGraphs' \in Seq({Things(Forward(k))' : k \in 1..N'}) BY <1>8, <2>3
  <2> HIDE DEF i
  <2>6. i <= N /\ N' = N /\ Len(fwdGraphs') = i BY <1>1, <1>7, <1>8
  <2>7. \A k \in 1..Len(fwdGraphs') : fwdGraphs'[k] = Things(Forward(k))' BY <1>7, <1>8
  <2>8. callables' \in Programs /\ DOMAIN bwdGraphs' = 1..N' BY <1>1, <1>7 DEF Listed
  <2>. QED BY <2>1, <2>2, <2>4, <2>5, <2>6, <2>7, <2>8 DEF Listed, Forward
<1>19. Replayed'
  <2>1. todo = {} /\ done = {} BY <1>2, <1>3, <1>4 DEF Replayed
  <2>. QED BY <1>1, <2>1 DEF Replayed, ReplaysUndisturbed
<1>. QED BY <1>17, <1>18, <1>19 DEF GraphInv

LEMMA CaptureBackwardStep == ASSUME GraphInv, CaptureBackward PROVE GraphInv'
PROOF
<1>. Listed /\ Placed /\ Apart /\ Replayed BY DEF GraphInv
<1> DEFINE m == Len(gradInputs)
<1> DEFINE i == N - m
<1> DEFINE r == Backward(i)
<1> DEFINE asked == [k \in DOMAIN Wanted(i) |-> Gradient(i, Wanted(i)[k])]
<1> DEFINE things == <<BackScratch(i)>> \o asked
<1> DEFINE dead == {BackScratch(i), Saved(i)}
<1>1. N \in Nat /\ m \in Nat /\ m < N BY CapturedPairs DEF CaptureBackward
<1>2. i \in 1..N BY <1>1
<1>3. CaptureOrder[m + 1] = i
  <2>1. Len([k \in 1..N |-> k]) = N BY <1>1
  <2>2. CaptureOrder = [k \in 1..N |-> (N - k) + 1] BY <1>1, <2>1 DEF CaptureOrder, Reverse
  <2>3. m + 1 \in 1..N /\ (N - (m + 1)) + 1 = N - m BY <1>1
  <2> HIDE DEF m
  <2>. QED BY <2>2, <2>3
<1>4. /\ Len(fwdGraphs) = N /\ callables' = callables /\ fwdGraphs' = fwdGraphs
      /\ gradInputs' = Append(gradInputs, Returned(i))
      /\ contents' = contents /\ iteration' = iteration /\ todo' = todo /\ done' = done
      /\ callables[i].grad => Capture(things, dead) /\ bwdGraphs' = [bwdGraphs EXCEPT ![i] = Range(things)]
      /\ ~callables[i].grad => UNCHANGED <<place, free, bwdGraphs>>
  <2> HIDE DEF i
  <2>. QED BY <1>3 DEF CaptureBackward, Returned
<1>5. /\ N' = N /\ \A p : Lasting(p)' = Lasting(p) /\ Things(p)' = Things(p)
      /\ \A k : Returned(k)' = Returned(k)
  BY <1>4, ThingsStay, ReturnedStays
<1>6. /\ gradInputs' \in Seq({Returned(k) : k \in 1..N}) /\ Len(gradInputs') = m + 1
      /\ \A k \in 1..(m + 1), l \in 1..N : l + k = N + 1 => gradInputs'[k] = Returned(l)
  <2> DEFINE T == {Returned(k) : k \in 1..N}
  <2> DEFINE t == Returned(i)
  <2>1. t \in T BY <1>2
  <2>2. gradInputs \in Seq(T) /\ \A k \in 1..m, l \in 1..N : l + k = N + 1 => gradInputs[k] = Returned(l)
    BY DEF Listed
  <2>3. gradInputs' = Append(gradInputs, t) BY <1>4
  <2> HIDE DEF T, t
  <2>4. /\ gradInputs' \in Seq(T) /\ Len(gradInputs') = m + 1 /\ gradInputs'[m + 1] = t
        /\ \A k \in 1..m : gradInputs'[k] = gradInputs[k]
    BY <2>1, <2>2, <2>3
  <2>5. \A l \in 1..N : l + (m + 1) = N + 1 => l = i BY <1>1
  <2>6. \A k \in 1..(m + 1) : k = m + 1 \/ k \in 1..m BY <1>1
  <2>7. \A k \in 1..(m + 1), l \in 1..N : l + k = N + 1 => gradInputs'[k] = Returned(l)
    <3> HIDE DEF i, m
    <3>. QED BY <2>2, <2>4, <2>5, <2>6 DEF t
  <2>. QED BY <2>4, <2>7 DEF T
<1>7. /\ CapturedForward' = CapturedForward
      /\ CapturedBackward' = CapturedBackward \cup (IF callables[i].grad THEN {r} ELSE {})
  <2>1. CapturedForward' = CapturedForward BY <1>4 DEF CapturedForward, Forward
  <2>2. \A k \in 1..N : k > N - (m + 1) <=> k > N - m \/ k = i BY <1>1
  <2>3. CapturedBackward' = {Backward(k) : k \in {l \in 1..N : l > N - (m + 1) /\ callables[l].grad}}
    BY <1>4, <1>5, <1>6 DEF CapturedBackward, Backward
  <2> HIDE DEF i, m
  <2>4. {l \in 1..N : l > N - (m + 1) /\ callables[l].grad}
          = {l \in 1..N : l > N - m /\ callables[l].grad} \cup (IF callables[i].grad THEN {i} ELSE {})
    BY <1>2, <2>2
  <2>. QED BY <2>1, <2>3, <2>4 DEF CapturedBackward, m, r
<1>8. todo = {} /\ done = {} BY <1>1 DEF Replayed
<1>9. Replayed' BY <1>4, <1>8 DEF Replayed, ReplaysUndisturbed
<1>10. /\ fwdGraphs' \in Seq({Things(Forward(k))' : k \in 1..N'}) /\ Len(fwdGraphs') = N'
       /\ \A k \in 1..Len(fwdGraphs') : fwdGraphs'[k] = Things(Forward(k))'
  <2>1. {Things(Forward(k))' : k \in 1..N'} = {Things(Forward(k)) : k \in 1..N} BY <1>5
  <2>2. fwdGraphs \in Seq({Things(Forward(k)) : k \in 1..N}) BY DEF Listed
  <2>. QED BY <1>4, <1>5, <2>1, <2>2 DEF Listed
<1>11. ASSUME DOMAIN bwdGraphs' = 1..N, \A p \in CapturedBackward' : bwdGraphs'[p[2]] = Things(p)
       PROVE  Listed'
  <2>1. {Returned(k)' : k \in 1..N'} = {Returned(k) : k \in 1..N} BY <1>5
  <2> HIDE DEF m, i
  <2>2. /\ gradInputs' \in Seq({Returned(k)' : k \in 1..N'}) /\ Len(gradInputs') <= N'
        /\ \A k \in 1..Len(gradInputs'), l \in 1..N' : l + k = N' + 1 => gradInputs'[k] = Returned(l)'
    BY <1>1, <1>5, <1>6, <2>1
  <2>3. callables' \in Programs BY <1>4 DEF Listed
  <2>4. DOMAIN bwdGraphs' = 1..N' /\ \A p \in CapturedBackward' : bwdGraphs'[p[2]] = Things(p)'
    BY <1>5, <1>11
  <2>5. Len(fwdGraphs') <= N' BY <1>1, <1>5, <1>10
  <2>. QED BY <1>10, <2>2, <2>3, <2>4, <2>5 DEF Listed, Forward
<1>12. CASE ~callables[i].grad
  <2>1. place' = place /\ free' = free /\ bwdGraphs' = bwdGraphs BY <1>4, <1>12
  <2>2. CapturedBackward' = CapturedBackward /\ Captured' = Captured BY <1>7, <1>12 DEF Captured
  <2>3. Live' = Live
    <3>1. {Lasting(p)' : p \in Captured'} = {Lasting(p) : p \in Captured} BY <1>5, <2>2
    <3>2. {Saved(p[2]) : p \in CapturedBackward'} = {Saved(p[2]) : p \in CapturedBackward}
      BY <2>2
    <3>. QED BY <3>1, <3>2 DEF Live, Saved
  <2>4. {Things(p)' : p \in Captured'} = {Things(p) : p \in Captured} BY <1>5, <2>2
  <2>5. Placed' BY <2>1, <2>3, <2>4 DEF Placed, InPool, Outside, Separate
  <2>6. Apart' BY <1>5, <2>1, <2>2 DEF Apart, Separate, Until
  <2>7. Listed' BY <1>11, <2>1, <2>2 DEF Listed
  <2>. QED BY <1>9, <2>5, <2>6, <2>7 DEF GraphInv
<1>13. CASE callables[i].grad
  <2>1. things \in Seq(Things(r)) /\ Range(things) = Things(r)
    <3> HIDE DEF asked, i
    <3>1. callables \in Programs BY DEF Listed
    <3>. QED BY <1>2, <3>1, BackwardAllocation DEF asked
  <2> HIDE DEF things
  <2>2. CapturedBackward' = CapturedBackward \cup {r} /\ Captured' = Captured \cup {r}
    BY <1>7, <1>13 DEF Captured
  <2>3. r \notin Captured /\ \A p \in Captured : Before(p, r)
    <3>1. \A p \in CapturedForward : p[1] = "forward" BY CapturedPairs
    <3>2. \A p \in CapturedBackward : p[1] = "backward" /\ p[2] > i /\ p[2] \in Nat
      BY <1>1, CapturedPairs
    <3>. QED BY <1>2, <3>1, <3>2 DEF Captured, Before, Backward
  <2>4. Saved(i) \in Live
    <3>1. Forward(i) \in Captured BY <1>2, <1>4 DEF Captured, CapturedForward
    <3>2. Saved(i) \in Lasting(Forward(i)) BY <1>13 DEF Lasting, Forward
    <3>3. \A p \in CapturedBackward : p[2] # i BY <1>1, CapturedPairs
    <3>4. \A p \in CapturedBackward : Saved(i) # Saved(p[2]) BY <3>3 DEF Saved
    <3>. QED BY <3>1, <3>2, <3>4 DEF Live
  <2>5. BackScratch(i) \in Things(r) BY DEF Things, Backward
  <2>6. Live' = (Live \cup Lasting(r)) \ {Saved(i)}
    <3>1. {Lasting(p)' : p \in Captured'} = {Lasting(p) : p \in Captured \cup {r}} BY <1>5, <2>2
    <3>2. {Saved(p[2]) : p \in CapturedBackward'} = {Saved(p[2]) : p \in CapturedBackward} \cup {Saved(i)}
      <4>1. r[2] = i BY DEF Backward
      <4> HIDE DEF r, i
      <4>2. {Saved(p[2]) : p \in CapturedBackward \cup {r}} = {Saved(p[2]) : p \in CapturedBackward} \cup {Saved(i)}
        BY <4>1
      <4>. QED BY <2>2, <4>2
    <3>3. \A p \in CapturedBackward : Saved(p[2]) \notin Lasting(r)
      BY DEF Lasting, Backward, Gradients, Saved, Gradient
    <3>4. Live' = (UNION {Lasting(p)' : p \in Captured'}) \ {Saved(p[2]) : p \in CapturedBackward'}
      BY DEF Live, Saved
    <3> DEFINE D == {Saved(p[2]) : p \in CapturedBackward}
    <3> DEFINE L == UNION {Lasting(p) : p \in Captured}
    <3>5. Live' = (L \cup Lasting(r)) \ (D \cup {Saved(i)}) BY <3>1, <3>2, <3>4
    <3>6. Lasting(r) \cap D = {} /\ Live = L \ D BY <3>3 DEF Live
    <3> HIDE DEF L, D, i, r
    <3>. QED BY <3>5, <3>6
  <2>7. BackScratch(i) \notin Live \cup Lasting(r)
    <3>1. \A p : BackScratch(i) \notin Lasting(p)
      BY DEF Lasting, Gradients, BackScratch, Saved, Output, Gradient
    <3>. QED BY <3>1 DEF Live
  <2>8. Saved(i) \notin Things(r)
    BY DEF Things, Lasting, Backward, Gradients, Saved, Gradient, BackScratch
  <2>9. Live' \subseteq (Live \cup Things(r)) \ dead BY <2>6, <2>7 DEF Things
  <2>10. Capture(things, dead) /\ bwdGraphs' = [bwdGraphs EXCEPT ![i] = Range(things)] BY <1>4, <1>13
  <2>11. Placed' /\ Apart'
    <3>1. dead \subseteq Live \cup Things(r) BY <2>4, <2>5
    <3> HIDE DEF dead, i, r
    <3>2. r = Backward(i) BY DEF r
    <3>. QED BY <1>2, <1>4, <2>1, <2>2, <2>3, <2>9, <2>10, <3>1, <3>2, CaptureStep
  <2>12. Listed'
    <3>1. DOMAIN bwdGraphs = 1..N /\ \A p \in CapturedBackward : bwdGraphs[p[2]] = Things(p) BY DEF Listed
    <3>2. \A p \in CapturedBackward : p[2] # i BY <1>1, CapturedPairs
    <3>3. r[2] = i BY DEF Backward
    <3> HIDE DEF i, r
    <3>4. bwdGraphs'[i] = Things(r) BY <1>2, <2>1, <2>10, <3>1
    <3>5. \A p \in CapturedBackward' : bwdGraphs'[p[2]] = Things(p)
      BY <2>2, <2>10, <3>1, <3>2, <3>3, <3>4
    <3>. QED BY <1>11, <2>10, <3>1, <3>5
  <2>. QED BY <1>9, <2>11, <2>12 DEF GraphInv
<1>. QED BY <1>12, <1>13

-----------------------------------------------------------------------------
(* The training loop.                                                       *)

\* What the captures left does not change in the loop.
LEMMA CapturesStay ==
    ASSUME GraphInv, UNCHANGED <<callables, place, free, fwdGraphs, bwdGraphs, gradInputs>>
    PROVE  /\ Listed' /\ Placed' /\ Apart'
           /\ CapturedForward' = CapturedForward /\ CapturedBackward' = CapturedBackward
           /\ Captured' = Captured /\ N' = N
           /\ \A p : Lasting(p)' = Lasting(p) /\ Things(p)' = Things(p)
PROOF
<1>1. /\ callables' = callables /\ place' = place /\ free' = free /\ fwdGraphs' = fwdGraphs
      /\ bwdGraphs' = bwdGraphs /\ gradInputs' = gradInputs
  OBVIOUS
<1>2. /\ N' = N /\ \A p : Lasting(p)' = Lasting(p) /\ Things(p)' = Things(p)
      /\ \A k : Returned(k)' = Returned(k)
  BY <1>1, ThingsStay, ReturnedStays
<1>3. CapturedForward' = CapturedForward /\ CapturedBackward' = CapturedBackward
  BY <1>1, <1>2 DEF CapturedForward, CapturedBackward, Forward, Backward
<1>4. Captured' = Captured BY <1>3 DEF Captured
<1>5. Listed'
  <2>1. {Returned(k)' : k \in 1..N'} = {Returned(k) : k \in 1..N} BY <1>2
  <2>2. {Things(Forward(k))' : k \in 1..N'} = {Things(Forward(k)) : k \in 1..N} BY <1>2
  <2>3. Listed BY DEF GraphInv
  <2>4. /\ fwdGraphs' \in Seq({Things(Forward(k))' : k \in 1..N'}) /\ Len(fwdGraphs') <= N'
        /\ \A k \in 1..Len(fwdGraphs') : fwdGraphs'[k] = Things(Forward(k))'
    BY <1>1, <1>2, <2>2, <2>3 DEF Listed
  <2>5. /\ gradInputs' \in Seq({Returned(k)' : k \in 1..N'}) /\ Len(gradInputs') <= N'
        /\ \A k \in 1..Len(gradInputs'), l \in 1..N' : l + k = N' + 1 => gradInputs'[k] = Returned(l)'
        /\ Len(gradInputs') > 0 => Len(fwdGraphs') = N'
    BY <1>1, <1>2, <2>1, <2>3 DEF Listed
  <2>6. callables' \in Programs /\ DOMAIN bwdGraphs' = 1..N' BY <1>1, <1>2, <2>3 DEF Listed
  <2>7. \A p \in CapturedBackward' : bwdGraphs'[p[2]] = Things(p)'
    BY <1>1, <1>2, <1>3, <2>3 DEF Listed
  <2>. QED BY <2>4, <2>5, <2>6, <2>7 DEF Listed, Forward
<1>6. Live' = Live
  <2>1. {Lasting(p)' : p \in Captured'} = {Lasting(p) : p \in Captured} BY <1>2, <1>4
  <2>2. {Saved(p[2]) : p \in CapturedBackward'} = {Saved(p[2]) : p \in CapturedBackward} BY <1>3
  <2>. QED BY <2>1, <2>2 DEF Live, Saved
<1>7. Placed'
  <2>1. {Things(p)' : p \in Captured'} = {Things(p) : p \in Captured} BY <1>2, <1>4
  <2>. QED BY <1>1, <1>6, <2>1 DEF GraphInv, Placed, InPool, Outside, Separate
<1>8. Apart' BY <1>1, <1>2, <1>4 DEF GraphInv, Apart, Separate, Until
<1>. QED BY <1>2, <1>3, <1>4, <1>5, <1>7, <1>8

LEMMA BeginIterationStep == ASSUME GraphInv, BeginIteration PROVE GraphInv'
PROOF
<1>. Listed /\ Replayed BY DEF GraphInv
<1>1. /\ Len(gradInputs) = N /\ iteration < MaxIterations /\ iteration' = iteration + 1 /\ done' = {}
      /\ UNCHANGED <<callables, place, free, fwdGraphs, bwdGraphs, gradInputs>>
      /\ contents' = contents
  BY DEF BeginIteration
<1>2. PICK graphed \in (SUBSET (1..N)) \ {{}}, training \in BOOLEAN :
        todo' = {Forward(i) : i \in graphed}
                  \cup {Backward(i) : i \in {k \in graphed : training /\ callables[k].grad}}
  BY DEF BeginIteration, Forward, Backward
<1>3. N \in Nat /\ N > 0 /\ Len(fwdGraphs) = N
  <2>1. N \in Nat /\ 1..N # {} BY <1>2, CapturedPairs
  <2>2. N > 0 BY <2>1
  <2>. QED BY <1>1, <2>1, <2>2 DEF Listed
<1>4. /\ Listed' /\ Placed' /\ Apart'
      /\ CapturedForward' = CapturedForward /\ CapturedBackward' = CapturedBackward
      /\ Captured' = Captured /\ N' = N
  BY <1>1, CapturesStay
<1>5. todo' \subseteq Captured
  <2>1. \A i \in graphed : Forward(i) \in Captured BY <1>3 DEF Captured, CapturedForward
  <2>2. \A i \in graphed : callables[i].grad => Backward(i) \in Captured
    BY <1>1, <1>3 DEF Captured, CapturedBackward
  <2>. QED BY <1>2, <2>1, <2>2
<1>6. \A p \in CapturedForward \cap todo', q \in CapturedBackward \cap todo' :
         callables[p[2]].grad => Backward(p[2]) \in todo'
  <2> SUFFICES ASSUME NEW p \in CapturedForward \cap todo', NEW q \in CapturedBackward \cap todo',
                      callables[p[2]].grad
               PROVE  Backward(p[2]) \in todo'
    OBVIOUS
  <2>1. p[1] = "forward" /\ q[1] = "backward" BY CapturedPairs
  <2>2. training BY <1>2, <2>1 DEF Forward
  <2>3. p[2] \in graphed BY <1>2, <2>1 DEF Forward, Backward
  <2>. QED BY <1>2, <2>2, <2>3
<1>7. iteration' \in 0..MaxIterations BY <1>1, IterationsAssumption DEF Replayed
<1>8. Replayed'
  <2>1. callables' = callables /\ gradInputs' = gradInputs BY <1>1
  <2>2. Len(gradInputs') = N' BY <1>1, <1>4
  <2>3. \A p \in CapturedForward' \cap (done' \cup todo'), q \in CapturedBackward' \cap todo' :
           callables'[p[2]].grad => Backward(p[2]) \in done' \cup todo'
    BY <1>1, <1>4, <1>6, <2>1
  <2>4. DOMAIN contents' = PoolBlocks BY <1>1 DEF Replayed
  <2>5. ReplaysUndisturbed' BY <1>1 DEF ReplaysUndisturbed
  <2>. QED BY <1>1, <1>4, <1>5, <1>7, <2>2, <2>3, <2>4, <2>5 DEF Replayed, Backward
<1>. QED BY <1>4, <1>8 DEF GraphInv

LEMMA ReplayStep == ASSUME GraphInv, NEW pass \in todo, Replay(pass) PROVE GraphInv'
PROOF
<1>. Listed /\ Placed /\ Apart /\ Replayed BY DEF GraphInv
<1>1. /\ \A other \in todo \ {pass} : Before(pass, other)
      /\ contents' = [b \in PoolBlocks |->
             IF \E x \in Written(pass) : place[x] = b
             THEN <<CHOOSE x \in Written(pass) : place[x] = b, iteration>>
             ELSE contents[b]]
      /\ todo' = todo \ {pass} /\ done' = done \cup {pass} /\ iteration' = iteration
      /\ UNCHANGED <<callables, place, free, fwdGraphs, bwdGraphs, gradInputs>>
  BY DEF Replay
<1>2. /\ Listed' /\ Placed' /\ Apart'
      /\ CapturedForward' = CapturedForward /\ CapturedBackward' = CapturedBackward
      /\ Captured' = Captured /\ N' = N
      /\ \A p : Lasting(p)' = Lasting(p) /\ Things(p)' = Things(p)
  BY <1>1, CapturesStay
<1>3. pass \in Captured /\ Len(gradInputs) = N BY DEF Replayed
<1>4. /\ \A p \in CapturedForward : p[1] = "forward" /\ p[2] \in 1..N /\ p = Forward(p[2])
      /\ \A p \in CapturedBackward : p[1] = "backward" /\ p[2] \in 1..N /\ p = Backward(p[2])
  BY CapturedPairs
<1>5. Written(pass) = Things(pass)
  <2>1. CASE pass \in CapturedForward
    <3>1. pass = Forward(pass[2]) /\ pass[1] = "forward" BY <1>4, <2>1
    <3>2. pass[2] \in 1..Len(fwdGraphs) BY <2>1 DEF CapturedForward, Forward
    <3>3. fwdGraphs[pass[2]] = Things(pass) BY <3>1, <3>2 DEF Listed
    <3>. QED BY <3>1, <3>3 DEF Written
  <2>2. CASE pass \in CapturedBackward
    <3>1. pass[1] = "backward" BY <1>4, <2>2
    <3>. QED BY <2>2, <3>1 DEF Written, Listed
  <2>. QED BY <1>3, <2>1, <2>2 DEF Captured
<1>6. \A p \in Captured : Needed(p) \subseteq Lasting(p) /\ Needed(p)' \subseteq Needed(p)
  <2> SUFFICES ASSUME NEW p \in Captured
               PROVE  Needed(p) \subseteq Lasting(p) /\ Needed(p)' \subseteq Needed(p)
    OBVIOUS
  <2>1. p[1] = "forward" \/ p[1] = "backward" BY <1>4 DEF Captured
  <2>2. callables' = callables /\ done \subseteq done' BY <1>1
  <2>3. Wanted(p[2])' = Wanted(p[2]) BY <2>2, ThingsStay
  <2>4. CASE p[1] = "backward"
    <3>1. Needed(p) = Gradients(p[2]) BY <2>4 DEF Needed, Gradients
    <3>2. Needed(p)' = Needed(p) BY <2>3, <2>4 DEF Needed
    <3>. QED BY <2>4, <3>1, <3>2 DEF Lasting
  <2>5. CASE p[1] = "forward"
    <3>1. Needed(p) = {Output(p[2])} \cup
             (IF callables[p[2]].grad /\ Backward(p[2]) \notin done THEN {Saved(p[2])} ELSE {})
      BY <2>5 DEF Needed, Backward
    <3>2. Needed(p)' = {Output(p[2])} \cup
             (IF callables[p[2]].grad /\ Backward(p[2]) \notin done' THEN {Saved(p[2])} ELSE {})
      BY <2>2, <2>5 DEF Needed, Backward, Output, Saved
    <3>. QED BY <2>2, <2>5, <3>1, <3>2 DEF Lasting
  <2>. QED BY <2>1, <2>4, <2>5
<1>7. \A p : Lasting(p) \subseteq Things(p) BY DEF Things
<1>8. \A p \in Captured : \A x \in Things(p) : x \in DOMAIN place /\ place[x] \in PoolBlocks
  BY DEF Placed, InPool
<1>9. \A x \in Things(pass) : contents'[place[x]] = <<x, iteration>>
  <2> SUFFICES ASSUME NEW x \in Things(pass) PROVE contents'[place[x]] = <<x, iteration>>
    OBVIOUS
  <2>1. place[x] \in PoolBlocks BY <1>3, <1>8
  <2>2. \A y \in Things(pass) : place[y] = place[x] => y = x BY <1>3 DEF Apart, Separate
  <2>3. (CHOOSE y \in Things(pass) : place[y] = place[x]) = x BY <2>2
  <2>. QED BY <1>1, <1>5, <2>1, <2>3
<1>10. \A p \in done : \A x \in Needed(p)' : contents'[place[x]] = <<x, iteration>>
  <2> SUFFICES ASSUME NEW p \in done, NEW x, x \in Needed(p)'
               PROVE  contents'[place[x]] = <<x, iteration>>
    OBVIOUS
  <2>1. p \in Captured /\ Before(p, pass) BY DEF Replayed
  <2>2. x \in Lasting(p) /\ x \in Needed(p) BY <1>6, <2>1
  <2>3. contents[place[x]] = <<x, iteration>> BY <2>2 DEF Replayed, ReplaysUndisturbed
  <2>4. x = Saved(p[2]) => Until(p, pass)
    <3> SUFFICES ASSUME x = Saved(p[2]) PROVE Until(p, pass) OBVIOUS
    <3>0. p[1] \in {"forward", "backward"} BY <1>4, <2>1 DEF Captured
    <3>1. p[1] = "forward" /\ callables[p[2]].grad BY <2>2, <3>0, SavedIsForward
    <3>2. Backward(p[2]) \notin done'
      <4>1. callables' = callables BY <1>1
      <4>. QED BY <3>1, <4>1 DEF Needed, Backward, Output, Saved
    <3>3. CASE pass \in CapturedForward
      <4>1. pass[1] = "forward" BY <1>4, <3>3
      <4>. QED BY <4>1 DEF Until, Before, Backward
    <3>4. CASE pass \in CapturedBackward
      <4>1. p \in CapturedForward BY <1>4, <2>1, <3>1 DEF Captured
      <4>2. Backward(p[2]) \in done \cup todo BY <3>1, <3>4, <4>1 DEF Replayed
      <4>3. Backward(p[2]) \in todo \ {pass} BY <1>1, <3>2, <4>2
      <4>. QED BY <1>1, <4>3 DEF Until
    <3>. QED BY <1>3, <3>3, <3>4 DEF Captured
  <2>5. \A y \in Things(pass) : place[x] # place[y] BY <1>3, <2>1, <2>2, <2>4 DEF Apart
  <2>6. place[x] \in PoolBlocks BY <1>7, <1>8, <2>1, <2>2
  <2>7. contents'[place[x]] = contents[place[x]] BY <1>1, <1>5, <2>5, <2>6
  <2>. QED BY <2>3, <2>7
<1>11. ReplaysUndisturbed'
  <2>1. place' = place BY <1>1
  <2>2. \A x \in Needed(pass)' : contents'[place[x]] = <<x, iteration>> BY <1>3, <1>6, <1>7, <1>9
  <2>3. \A p \in done' : \A x \in Needed(p)' : contents'[place'[x]] = <<x, iteration'>>
    BY <1>1, <1>10, <2>1, <2>2
  <2>. QED BY <2>3 DEF ReplaysUndisturbed
<1>12. \A p \in done', q \in todo' : Before(p, q) BY <1>1 DEF Replayed
<1>13. Replayed'
  <2>1. callables' = callables /\ gradInputs' = gradInputs BY <1>1
  <2>2. todo' \subseteq Captured' /\ done' \subseteq Captured' BY <1>1, <1>2, <1>3 DEF Replayed
  <2>3. Len(gradInputs') = N' BY <1>2, <1>3, <2>1
  <2>4. \A p \in CapturedForward' \cap (done' \cup todo'), q \in CapturedBackward' \cap todo' :
           callables'[p[2]].grad => Backward(p[2]) \in done' \cup todo'
    <3>1. done' \cup todo' = done \cup todo /\ todo' \subseteq todo BY <1>1
    <3>. QED BY <1>2, <2>1, <3>1 DEF Replayed
  <2>5. DOMAIN contents' = PoolBlocks /\ iteration' \in 0..MaxIterations BY <1>1 DEF Replayed
  <2>. QED BY <1>11, <1>12, <2>2, <2>3, <2>4, <2>5 DEF Replayed, Backward
<1>. QED BY <1>2, <1>13 DEF GraphInv

LEMMA GraphInvInit == GraphInit => GraphInv
PROOF
<1> SUFFICES ASSUME GraphInit PROVE GraphInv OBVIOUS
<1>1. /\ callables \in Programs /\ place = <<>> /\ free = {} /\ fwdGraphs = <<>>
      /\ bwdGraphs = [i \in 1..N |-> {}] /\ gradInputs = <<>> /\ iteration = 0
      /\ contents = [b \in PoolBlocks |-> <<Nothing, 0>>] /\ todo = {} /\ done = {}
  BY DEF GraphInit
<1>2. N \in Nat BY <1>1, ProgramsAssumption DEF N
<1>3. CapturedForward = {} /\ CapturedBackward = {} /\ Captured = {} /\ Live = {}
  <2>1. CapturedForward = {} BY <1>1 DEF CapturedForward
  <2>2. CapturedBackward = {} BY <1>1, <1>2 DEF CapturedBackward
  <2>. QED BY <2>1, <2>2 DEF Captured, Live
<1>4. Listed BY <1>1, <1>2, <1>3 DEF Listed
<1>5. Placed BY <1>1, <1>3 DEF Placed, InPool, Outside, Separate
<1>6. Apart BY <1>3 DEF Apart
<1>7. Replayed BY <1>1, <1>3, IterationsAssumption DEF Replayed, ReplaysUndisturbed
<1>. QED BY <1>4, <1>5, <1>6, <1>7 DEF GraphInv

LEMMA GraphInvNext == GraphInv /\ [GraphNext]_graphVars => GraphInv'
PROOF
<1> SUFFICES ASSUME GraphInv, [GraphNext]_graphVars PROVE GraphInv' OBVIOUS
<1>1. CASE CaptureForward BY <1>1, CaptureForwardStep
<1>2. CASE CaptureBackward BY <1>2, CaptureBackwardStep
<1>3. CASE BeginIteration BY <1>3, BeginIterationStep
<1>4. CASE \E pass \in todo : Replay(pass) BY <1>4, ReplayStep
<1>5. CASE UNCHANGED graphVars
  <2>1. /\ UNCHANGED <<callables, place, free, fwdGraphs, bwdGraphs, gradInputs>>
        /\ contents' = contents /\ iteration' = iteration /\ todo' = todo /\ done' = done
    BY <1>5 DEF graphVars
  <2>2. /\ Listed' /\ Placed' /\ Apart' /\ Captured' = Captured /\ N' = N
        /\ CapturedForward' = CapturedForward /\ CapturedBackward' = CapturedBackward
    BY <2>1, CapturesStay
  <2>3. ReplaysUndisturbed'
    <3>1. callables' = callables /\ place' = place BY <2>1
    <3>2. \A p : Needed(p)' = Needed(p)
      BY <2>1, <3>1, ThingsStay DEF Needed, Gradient, Output, Saved
    <3>3. ReplaysUndisturbed BY DEF GraphInv, Replayed
    <3>. QED BY <2>1, <3>1, <3>2, <3>3 DEF ReplaysUndisturbed
  <2>4. Replayed' BY <2>1, <2>2, <2>3 DEF GraphInv, Replayed, Backward
  <2>. QED BY <2>2, <2>4 DEF GraphInv
<1>. QED BY <1>1, <1>2, <1>3, <1>4, <1>5 DEF GraphNext

-----------------------------------------------------------------------------
(* What is promised.                                                        *)

\* Every block is of the pool, and the lists are not longer than the callables.
THEOREM GraphTyping == GraphSpec => []GraphTypeOK
PROOF
<1>1. GraphInv => GraphTypeOK
  BY DEF GraphInv, Listed, Placed, Replayed, InPool, GraphTypeOK
<1>. QED BY <1>1, GraphInvInit, GraphInvNext, PTL DEF GraphSpec

\* Whatever blocks the pool gives out, however many callables there are, whichever of
\* them run graphed and whichever iterations train: no replay overwrites what another
\* one of the iteration still needs.
THEOREM ReplaysAreUndisturbed == GraphSpec => []ReplaysUndisturbed
PROOF
<1>1. GraphInv => ReplaysUndisturbed BY DEF GraphInv, Replayed
<1>. QED BY <1>1, GraphInvInit, GraphInvNext, PTL DEF GraphSpec

\* Whichever inputs require a gradient: each gets its own, and no other input gets one.
THEOREM GradientsComeBackInPlace == GraphSpec => []GradientsInPlace
PROOF
<1>1. ASSUME GraphInv PROVE GradientsInPlace
  <2> SUFFICES ASSUME Len(gradInputs) = N, NEW i \in 1..N
               PROVE  OfCallable(i) = [j \in DOMAIN callables[i].surface |->
                        IF callables[i].surface[j] /\ callables[i].grad THEN Gradient(i, j) ELSE Nothing]
    BY DEF GradientsInPlace
  <2>. Listed BY <1>1 DEF GraphInv
  <2>1. N \in Nat BY CapturedPairs
  <2>2. OfCallable(i) = Returned(i)
    <3>1. OfCallable(i) = gradInputs[(N - i) + 1] BY <2>1 DEF OfCallable, Reverse
    <3>2. (N - i) + 1 \in 1..Len(gradInputs) /\ i + ((N - i) + 1) = N + 1 BY <2>1
    <3> DEFINE k == (N - i) + 1
    <3> HIDE DEF k
    <3>3. k \in 1..Len(gradInputs) /\ i + k = N + 1 BY <3>2 DEF k
    <3>4. gradInputs[k] = Returned(i) BY <3>3 DEF Listed
    <3>. QED BY <3>1, <3>4 DEF k
  <2> DEFINE surface == callables[i].surface
  <2> DEFINE asked == [k \in DOMAIN Wanted(i) |-> Gradient(i, Wanted(i)[k])]
  <2> DEFINE grads == IF callables[i].grad THEN asked ELSE <<>>
  <2>3. Returned(i) = [j \in DOMAIN surface |->
           IF surface[j] /\ grads # <<>> THEN grads[Rank(i, j)] ELSE Nothing]
    BY DEF Returned, Padded, Rank
  <2>4. callables \in Programs BY DEF Listed
  <2>5. ASSUME NEW j \in DOMAIN surface
        PROVE  (IF surface[j] /\ grads # <<>> THEN grads[Rank(i, j)] ELSE Nothing)
                 = IF surface[j] /\ callables[i].grad THEN Gradient(i, j) ELSE Nothing
    <3>1. CASE surface[j] /\ callables[i].grad
      <4>1. /\ Wanted(i) \in Seq(Nat) /\ Rank(i, j) \in 1..Len(Wanted(i))
            /\ Wanted(i)[Rank(i, j)] = j
        BY <2>4, <3>1, WantedInOrder
      <4>2. Rank(i, j) \in DOMAIN Wanted(i) BY <4>1
      <4>3. asked[Rank(i, j)] = Gradient(i, j) /\ Rank(i, j) \in DOMAIN asked BY <4>1, <4>2
      <4> HIDE DEF asked
      <4>4. asked # <<>> BY <4>3
      <4>. QED BY <3>1, <4>3, <4>4
    <3>2. CASE ~(surface[j] /\ callables[i].grad) BY <3>2
    <3>. QED BY <3>1, <3>2
  <2> HIDE DEF grads, surface
  <2>6. Returned(i) = [j \in DOMAIN surface |->
           IF surface[j] /\ callables[i].grad THEN Gradient(i, j) ELSE Nothing]
    BY <2>3, <2>5
  <2>. QED BY <2>2, <2>6 DEF surface
<1>2. GraphInv => GradientsInPlace BY <1>1
<1>. QED BY <1>2, GraphInvInit, GraphInvNext, PTL DEF GraphSpec
=============================================================================
