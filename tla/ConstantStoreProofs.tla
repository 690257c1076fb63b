------------------------ MODULE ConstantStoreProofs ------------------------
(* For any constants and any sequence of calls: what models read of the     *)
(* constants is what the two buffers promise, and nothing they read is      *)
(* freed, overwritten or left stale.                                        *)
EXTENDS ConstantStore, WellFoundedInduction, TLAPS

-----------------------------------------------------------------------------
(* Induction, and functions defined by recursion over a range of numbers.   *)

\* A set of numbers has a least one.
LEMMA LeastOfNumbers ==
    ASSUME NEW T, T \subseteq Nat, T # {}
    PROVE  \E x \in T : \A y \in T : x <= y
PROOF
<1> DEFINE R == {p \in Nat \X Nat : p[1] < p[2]}
<1>1. IsWellFoundedOn(R, Nat)
  BY NatLessThanWellFounded DEF OpToRel
<1>2. PICK x \in T : \A y \in T : ~(<<y, x>> \in R)
  <2> HIDE DEF R
  <2>. QED BY <1>1, WFMin
<1>3. \A y \in T : ~(y < x)
  BY <1>2
<1>. QED BY <1>3

\* A set that has 0, and the successor of every number below n that it has, has all
\* numbers up to n.
LEMMA UpTo ==
    ASSUME NEW n \in Nat, NEW T, 0 \in T, \A k \in 0..(n - 1) : k \in T => k + 1 \in T
    PROVE  0..n \subseteq T
PROOF
<1> DEFINE Bad == (0..n) \ T
<1> SUFFICES ASSUME Bad # {} PROVE FALSE OBVIOUS
<1>1. Bad \subseteq Nat OBVIOUS
<1>2. PICK k \in Bad : \A j \in Bad : k <= j
  <2> HIDE DEF Bad
  <2>. QED BY <1>1, LeastOfNumbers
<1>3. k # 0 /\ k \in 0..n OBVIOUS
<1>4. k - 1 \in 0..(n - 1) /\ k - 1 \in 0..n BY <1>3
<1>5. k - 1 \in T BY <1>2, <1>4
<1>6. (k - 1) + 1 \in T BY <1>4, <1>5
<1>. QED BY <1>3, <1>6

\* A value in V for each number, from a base and a step that makes the next one.
Unfolds(f, V, base, step, n) ==
    f \in [0..n -> V] /\ f[0] = base /\ \A k \in 1..n : f[k] = step[k][f[k - 1]]

\* There is such a function.
LEMMA Recursion ==
    ASSUME NEW V, NEW base \in V, NEW n \in Nat, NEW step \in [Nat -> [V -> V]]
    PROVE  \E f : Unfolds(f, V, base, step, n)
PROOF
<1> DEFINE Is(f, m) == f \in [0..m -> V] /\ f[0] = base /\ \A k \in 1..m : f[k] = step[k][f[k - 1]]
<1> DEFINE T == {m \in 0..n : \E f : Is(f, m)}
<1>1. 0 \in T
  <2>1. Is([k \in 0..0 |-> base], 0) OBVIOUS
  <2> HIDE DEF Is
  <2>. QED BY <2>1
<1>2. ASSUME NEW m \in 0..(n - 1), m \in T PROVE m + 1 \in T
  <2>1. PICK f : Is(f, m) BY <1>2
  <2> DEFINE v == step[m + 1][f[m]]
  <2> DEFINE g == [k \in 0..(m + 1) |-> IF k = m + 1 THEN v ELSE f[k]]
  <2>2. m \in Nat /\ f[m] \in V BY <2>1
  <2>3. v \in V BY <2>2
  <2>4. g \in [0..(m + 1) -> V] BY <2>1, <2>3
  <2>5. g[0] = base BY <2>1, <2>2
  <2>6. ASSUME NEW k \in 1..(m + 1) PROVE g[k] = step[k][g[k - 1]]
    <3>1. CASE k = m + 1
      <4>1. g[k] = v /\ g[k - 1] = f[m] BY <2>2, <3>1
      <4>. QED BY <3>1, <4>1
    <3>2. CASE k # m + 1
      <4>1. k \in 1..m /\ g[k] = f[k] /\ g[k - 1] = f[k - 1] BY <2>2, <3>2
      <4>. QED BY <2>1, <4>1
    <3>. QED BY <3>1, <3>2
  <2>7. Is(g, m + 1)
    <3> HIDE DEF g
    <3>. QED BY <2>4, <2>5, <2>6
  <2>8. m + 1 \in 0..n BY <2>2
  <2> HIDE DEF Is
  <2>. QED BY <2>7, <2>8
<1>3. 0..n \subseteq T
  <2> HIDE DEF T
  <2>. QED BY <1>1, <1>2, UpTo
<1>4. n \in T BY <1>3
<1>5. PICK f : Is(f, n)
  <2> HIDE DEF Is
  <2>. QED BY <1>4
<1>6. Unfolds(f, V, base, step, n) BY <1>5 DEF Unfolds
<1>. QED BY <1>6

-----------------------------------------------------------------------------
(* The layout of a blob.                                                    *)

\* A layout is a sequence, of constants that have a size.
LEMMA LayoutFacts ==
    ASSUME NEW l \in Layouts
    PROVE  /\ Len(l) \in Nat /\ DOMAIN l = 1..Len(l)
           /\ \A i \in DOMAIN l : l[i].size \in Nat
PROOF
<1> DEFINE R == [kind : {"parameter", "buffer", "tensor", "folded"}, size : Nat]
<1>1. l \in Seq(R) BY LayoutsAssumption
<1> HIDE DEF R
<1>2. Len(l) \in Nat /\ DOMAIN l = 1..Len(l) BY <1>1
<1>3. \A i \in DOMAIN l : l[i] \in R BY <1>1
<1>4. \A x \in R : x.size \in Nat BY DEF R
<1>. QED BY <1>2, <1>3, <1>4

\* What is aligned is not smaller.
LEMMA RoundUpFacts ==
    ASSUME NEW n \in Nat
    PROVE  RoundUp(n) \in Nat /\ n <= RoundUp(n)
PROOF
<1>1. Alignment \in Nat \ {0} BY AlignmentAssumption
<1> DEFINE q == n \div Alignment
<1> DEFINE r == n % Alignment
<1>2. q \in Nat /\ r \in Nat /\ r < Alignment /\ n = Alignment * q + r BY <1>1
<1> HIDE DEF q, r
<1>3. q * Alignment \in Nat /\ q * Alignment = Alignment * q BY <1>1, <1>2
<1> DEFINE p == q * Alignment
<1>4. p \in Nat /\ n = p + r BY <1>2, <1>3
<1>5. RoundUp(n) = IF r # 0 THEN Alignment + p ELSE n BY DEF RoundUp, q, r
<1> HIDE DEF p
<1>. QED BY <1>1, <1>2, <1>4, <1>5

\* What a constant takes in a blob.
Room(l, k) == IF l[k].kind = "folded" THEN 0 ELSE RoundUp(l[k].size)

\* The recursive definition of BlobUpTo is what it says.
LEMMA BlobUpToFacts ==
    ASSUME NEW l \in Layouts
    PROVE  /\ \A k \in 0..Len(l) : BlobUpTo(l, k) \in Nat
           /\ \A k \in 1..Len(l) : BlobUpTo(l, k) = BlobUpTo(l, k - 1) + Room(l, k)
PROOF
<1> DEFINE n == Len(l)
<1>1. n \in Nat /\ DOMAIN l = 1..n /\ \A i \in 1..n : l[i].size \in Nat BY LayoutFacts
<1>2. \A k \in 1..n : Room(l, k) \in Nat BY <1>1, RoundUpFacts DEF Room
<1> DEFINE room == [k \in Nat |-> IF k \in 1..n THEN Room(l, k) ELSE 0]
<1> DEFINE step == [k \in Nat |-> [v \in Nat |-> v + room[k]]]
<1>3. \A k \in Nat : room[k] \in Nat BY <1>2
<1>4. \A k \in 1..n : room[k] = Room(l, k) BY <1>1
<1> HIDE DEF room
<1>5. step \in [Nat -> [Nat -> Nat]] /\ \A k \in 1..n, v \in Nat : step[k][v] = v + Room(l, k)
  <2>1. \A k \in Nat, v \in Nat : v + room[k] \in Nat BY <1>3
  <2>2. \A k \in 1..n, v \in Nat : k \in Nat /\ step[k][v] = v + room[k] BY <1>1
  <2>. QED BY <1>4, <2>1, <2>2
<1> HIDE DEF step, n
<1>6. PICK f : Unfolds(f, Nat, 0, step, n) BY <1>1, <1>5, Recursion
<1>7. f \in [0..n -> Nat] /\ f[0] = 0 /\ \A k \in 1..n : f[k] = f[k - 1] + Room(l, k)
  <2>1. \A k \in 1..n : k - 1 \in 0..n BY <1>1
  <2>. QED BY <1>5, <1>6, <2>1 DEF Unfolds
<1> DEFINE Is(g) == g = [k \in 0..n |-> IF k = 0 THEN 0 ELSE g[k - 1] + Room(l, k)]
<1> DEFINE upTo == CHOOSE g : Is(g)
<1>8. Is(f)
  <2>1. \A k \in 0..n : f[k] = IF k = 0 THEN 0 ELSE f[k - 1] + Room(l, k) BY <1>1, <1>7
  <2>. QED BY <1>7, <2>1
<1>9. Is(upTo)
  <2> HIDE DEF Is
  <2>. QED BY <1>8
<1>10. \A k \in 0..n : BlobUpTo(l, k) = upTo[k] BY DEF BlobUpTo, Room, n
<1> HIDE DEF upTo
<1> DEFINE Good == {k \in 0..n : upTo[k] \in Nat}
<1>11. 0 \in Good
  <2>1. upTo[0] = 0 BY <1>1, <1>9
  <2>. QED BY <1>1, <2>1
<1>12. \A k \in 1..n : upTo[k] = upTo[k - 1] + Room(l, k) BY <1>1, <1>9
<1>13. \A k \in 0..(n - 1) : k \in Good => k + 1 \in Good
  <2> SUFFICES ASSUME NEW k \in 0..(n - 1), upTo[k] \in Nat PROVE k + 1 \in 0..n /\ upTo[k + 1] \in Nat
    OBVIOUS
  <2>1. k + 1 \in 1..n /\ (k + 1) - 1 = k BY <1>1
  <2>2. upTo[k + 1] = upTo[k] + Room(l, k + 1) BY <1>12, <2>1
  <2>. QED BY <1>1, <1>2, <2>1, <2>2
<1>14. 0..n \subseteq Good
  <2> HIDE DEF Good
  <2>. QED BY <1>1, <1>11, <1>13, UpTo
<1>15. \A k \in 1..n : k \in 0..n /\ k - 1 \in 0..n BY <1>1
<1>16. \A k \in 0..n : BlobUpTo(l, k) \in Nat BY <1>10, <1>14
<1>17. \A k \in 1..n : BlobUpTo(l, k) = BlobUpTo(l, k - 1) + Room(l, k) BY <1>10, <1>12, <1>15
<1>. QED BY <1>16, <1>17 DEF n

\* A longer prefix of a layout takes no less.
LEMMA BlobGrows ==
    ASSUME NEW l \in Layouts, NEW j \in 0..Len(l)
    PROVE  \A k \in j..Len(l) : BlobUpTo(l, j) <= BlobUpTo(l, k)
PROOF
<1> DEFINE n == Len(l)
<1> DEFINE size == [k \in 0..n |-> BlobUpTo(l, k)]
<1>1. n \in Nat /\ DOMAIN l = 1..n /\ \A i \in 1..n : l[i].size \in Nat BY LayoutFacts
<1>2. \A k \in 1..n : Room(l, k) \in Nat BY <1>1, RoundUpFacts DEF Room
<1>3. /\ \A k \in 0..n : size[k] \in Nat
      /\ \A k \in 1..n : size[k] = size[k - 1] + Room(l, k)
  <2>1. \A k \in 1..n : k \in 0..n /\ k - 1 \in 0..n BY <1>1
  <2>. QED BY <2>1, BlobUpToFacts
<1>4. \A k \in 0..n : BlobUpTo(l, k) = size[k] OBVIOUS
<1>5. j \in 0..n OBVIOUS
<1> HIDE DEF n, size
<1> DEFINE Good == {k \in 0..n : j <= k => size[j] <= size[k]}
<1>6. 0 \in Good
  <2>1. 0 \in 0..n /\ (j <= 0 => j = 0) BY <1>1, <1>5
  <2>2. size[0] <= size[0] BY <1>3, <2>1
  <2>. QED BY <2>1, <2>2
<1>7. \A k \in 0..(n - 1) : k \in Good => k + 1 \in Good
  <2> SUFFICES ASSUME NEW k \in 0..(n - 1), j <= k => size[j] <= size[k]
               PROVE  k + 1 \in 0..n /\ (j <= k + 1 => size[j] <= size[k + 1])
    OBVIOUS
  <2>1. k \in 0..n /\ k + 1 \in 0..n /\ k + 1 \in 1..n /\ (k + 1) - 1 = k BY <1>1
  <2>2. size[k + 1] = size[k] + Room(l, k + 1) BY <1>3, <2>1
  <2>3. size[k] <= size[k + 1] BY <1>2, <1>3, <2>1, <2>2
  <2>4. CASE j <= k BY <1>3, <1>5, <2>1, <2>3, <2>4
  <2>5. CASE j = k + 1 BY <1>3, <2>1, <2>5
  <2>. QED BY <1>5, <2>1, <2>4, <2>5
<1>8. 0..n \subseteq Good
  <2> HIDE DEF Good
  <2>. QED BY <1>1, <1>6, <1>7, UpTo
<1>9. ASSUME NEW k \in j..n PROVE size[j] <= size[k]
  <2>1. k \in 0..n /\ j <= k BY <1>1, <1>5
  <2>. QED BY <1>8, <2>1
<1>10. \A k \in j..n : k \in 0..n BY <1>1, <1>5
<1>. QED BY <1>4, <1>5, <1>9, <1>10 DEF n

\* Constants of a blob do not overlap and lie in it.
LEMMA ExtentsApart ==
    ASSUME layout \in Layouts
    PROVE  /\ \A i \in Unfolded : Extent(i) \subseteq 0..(BlobSize - 1)
           /\ \A i, j \in Unfolded : i # j => Extent(i) \cap Extent(j) = {}
           /\ \A i \in DOMAIN layout : Extent(i) = {} <=> layout[i].size = 0
PROOF
<1> DEFINE n == Len(layout)
<1> DEFINE S(k) == BlobUpTo(layout, k)
<1>1. n \in Nat /\ DOMAIN layout = 1..n /\ \A i \in 1..n : layout[i].size \in Nat BY LayoutFacts
<1>2. \A k \in 0..n : S(k) \in Nat BY BlobUpToFacts
<1>3. \A k \in 1..n : S(k) = S(k - 1) + Room(layout, k) BY BlobUpToFacts
<1>4. \A j \in 0..n : \A k \in j..n : S(j) <= S(k) BY BlobGrows
<1>5. BlobSize = S(n) /\ \A i : Offset(i) = S(i - 1) BY DEF BlobSize, Offset
<1> HIDE DEF S, n
<1>6. \A i \in 1..n : i - 1 \in 0..n /\ i \in 0..n BY <1>1
<1>7. \A i \in Unfolded : i \in 1..n /\ layout[i].size <= Room(layout, i) /\ Room(layout, i) \in Nat
  BY <1>1, RoundUpFacts DEF Unfolded, Room
<1>8. \A i \in Unfolded : Offset(i) \in Nat /\ Offset(i) + layout[i].size <= S(i)
  BY <1>1, <1>2, <1>3, <1>5, <1>6, <1>7
<1>9. ASSUME NEW i \in Unfolded PROVE Extent(i) \subseteq 0..(BlobSize - 1)
  <2>1. n \in i..n BY <1>1, <1>7
  <2>2. S(i) <= S(n) /\ S(i) \in Nat /\ S(n) \in Nat BY <1>1, <1>2, <1>4, <1>6, <1>7, <2>1
  <2>. QED BY <1>1, <1>5, <1>7, <1>8, <2>2 DEF Extent
<1>10. ASSUME NEW i \in Unfolded, NEW j \in Unfolded, i < j PROVE Extent(i) \cap Extent(j) = {}
  <2>1. j - 1 \in i..n /\ j - 1 \in 0..n /\ i \in 0..n BY <1>1, <1>7, <1>10
  <2>2. S(i) <= Offset(j) /\ S(i) \in Nat BY <1>2, <1>4, <1>5, <2>1
  <2>. QED BY <1>1, <1>7, <1>8, <2>2 DEF Extent
<1>11. \A i \in DOMAIN layout : Extent(i) = {} <=> layout[i].size = 0
  <2> SUFFICES ASSUME NEW i \in 1..n PROVE Extent(i) = {} <=> layout[i].size = 0 BY <1>1
  <2>1. Offset(i) \in Nat BY <1>2, <1>5, <1>6
  <2>2. layout[i].size # 0 => Offset(i) \in Extent(i) BY <1>1, <2>1 DEF Extent
  <2>3. layout[i].size = 0 => Extent(i) = {} BY <1>1, <2>1 DEF Extent
  <2>. QED BY <2>2, <2>3
<1>12. \A i, j \in Unfolded : i # j => Extent(i) \cap Extent(j) = {}
  <2> SUFFICES ASSUME NEW i \in Unfolded, NEW j \in Unfolded, i # j PROVE Extent(i) \cap Extent(j) = {}
    OBVIOUS
  <2>1. i < j \/ j < i BY <1>1, <1>7
  <2>. QED BY <1>10, <2>1
<1>. QED BY <1>9, <1>11, <1>12

-----------------------------------------------------------------------------
(* The invariant.                                                           *)

Levels == {"NONE", "INITIALIZED", "FOLDED"}
Used == 1..(names - 1)

StoreTyped ==
    /\ layout \in Layouts /\ secondary \in BOOLEAN /\ readiness \in [1..2 -> Levels]
    /\ calls \in Nat /\ names \in Nat \ {0}
    /\ DOMAIN blobs = 1..2 /\ DOMAIN maps = 1..2 /\ DOMAIN arrays = 1..2
    /\ DOMAIN cells \subseteq Used /\ DOMAIN tensors \subseteq Used
    /\ \A b \in 1..2 : DOMAIN arrays[b] = DOMAIN layout
    /\ \A b \in 1..2 : DOMAIN maps[b] \subseteq DOMAIN layout
    /\ \A b \in 1..2 : \A i \in DOMAIN maps[b] : maps[b][i].tensor \in Used \cup {Null}

\* A buffer has a blob of its own or none.
BlobsApart ==
    /\ \A b \in 1..2 : blobs[b] = Null \/ blobs[b] \in DOMAIN cells
    /\ blobs[1] = blobs[2] => blobs[1] = Null
    /\ \A id \in DOMAIN cells : DOMAIN cells[id] = 0..(BlobSize - 1)

\* Models read what the map says, but for folded constants that were released.
Linked(b) ==
    /\ readiness[b] = "FOLDED" => Folded \subseteq DOMAIN maps[b]
    /\ \A i \in DOMAIN layout :
          IF i \in DOMAIN maps[b]
          THEN i \in Unfolded \/ readiness[b] = "FOLDED" => arrays[b][i] = maps[b][i].tensor
          ELSE arrays[b][i] = Null

\* A tensor in a blob lies where its constant belongs, and not in the blob of a buffer
\* whose map does not have it.
Seated(b) ==
    \A i \in DOMAIN maps[b] : maps[b][i].tensor \in DOMAIN tensors =>
        LET x == tensors[maps[b][i].tensor]
        IN x.blob # Null => /\ x.of = i /\ i \in Unfolded /\ x.blob \in Used
                            /\ maps[b][i].by # "other" => x.blob # blobs[3 - b]

\* A tensor is in two maps only if one borrows it from the other ...
OwnersApart ==
    \A b, c \in 1..2 : \A i \in DOMAIN maps[b], j \in DOMAIN maps[c] :
        maps[b][i].tensor = maps[c][j].tensor /\ maps[b][i].tensor # Null =>
            i = j /\ (b # c => maps[b][i].by = "other" \/ maps[c][j].by = "other")

\* ... and what a map borrows the other one has, as its own.
Borrowed(b) ==
    \A i \in DOMAIN maps[b] : maps[b][i].by = "other" =>
        /\ i \in Unfolded /\ i \in DOMAIN maps[3 - b]
        /\ maps[3 - b][i].by # "other" /\ maps[3 - b][i].tensor = maps[b][i].tensor

StoreInv ==
    /\ StoreTyped /\ BlobsApart /\ OwnersApart
    /\ \A b \in 1..2 : Linked(b) /\ Seated(b) /\ Borrowed(b)
    /\ FoldedUpToDate
-----------------------------------------------------------------------------
(* Updates, whatever they are made of.                                      *)

\* The tensors that are made are new, those that are borrowed are in the other map,
\* and nobody borrows what is replaced.
Lawful(b, entries, made) ==
    /\ DOMAIN entries \subseteq DOMAIN layout /\ DOMAIN entries \cap Lent(b) = {}
    /\ DOMAIN made \subseteq DOMAIN entries
    /\ \A i \in DOMAIN made : entries[i].tensor = NewName(i) /\ entries[i].by # "other"
    /\ \A i \in DOMAIN made : made[i].blob # Null =>
          made[i].of = i /\ i \in Unfolded /\ made[i].blob \in {blobs[b], names}
    /\ \A i \in DOMAIN entries \ DOMAIN made :
          /\ entries[i].by = "other" /\ i \in Unfolded
          /\ i \in DOMAIN maps[3 - b] /\ entries[i].tensor = maps[3 - b][i].tensor

\* The blob of b is written where constants of S lie, and there may be a new blob.
Writes(b, S) ==
    /\ \A id \in DOMAIN cells :
          /\ id \in DOMAIN cells' /\ DOMAIN cells'[id] = 0..(BlobSize - 1)
          /\ \A c \in 0..(BlobSize - 1) :
                cells'[id][c] = cells[id][c] \/ (id = blobs[b] /\ \E i \in S \cap Unfolded : c \in Extent(i))
    /\ \A id \in DOMAIN cells' \ DOMAIN cells : id = names /\ DOMAIN cells'[id] = 0..(BlobSize - 1)
    /\ DOMAIN blobs' = 1..2 /\ blobs'[3 - b] = blobs[3 - b]
    /\ blobs'[b] = blobs[b] \/ (blobs[b] = Null /\ blobs'[b] = names /\ names \in DOMAIN cells')

Updates(b, entries, made) ==
    /\ layout' = layout /\ secondary' = secondary /\ calls' = calls + 1
    /\ Lawful(b, entries, made) /\ Writes(b, DOMAIN entries) /\ Insert(b, entries, NewTensors(made))
    /\ readiness' \in [1..2 -> Levels] /\ readiness'[3 - b] = readiness[3 - b]
    /\ readiness'[b] = "FOLDED" => Folded \subseteq DOMAIN entries

Gone(b, S) == {maps[b][i].tensor : i \in {j \in S \cap DOMAIN maps[b] : maps[b][j].by # "other"}}

\* There are two sides.
LEMMA OtherSide ==
    ASSUME NEW b \in 1..2
    PROVE  3 - b \in 1..2 /\ 3 - b # b /\ 3 - (3 - b) = b /\ \A c \in 1..2 : c = b \/ c = 3 - b
OBVIOUS

\* Everything about the layout stays with it.
LEMMA LayoutStays ==
    ASSUME layout' = layout
    PROVE  /\ Unfolded' = Unfolded /\ Folded' = Folded /\ BlobSize' = BlobSize
           /\ \A i : Extent(i)' = Extent(i)
BY DEF Unfolded, Folded, BlobSize, Extent, Offset

\* New tensors have names of their own, by constant.
LEMMA NewTensorsFacts ==
    ASSUME NEW made, names \in Nat, DOMAIN made \subseteq Nat
    PROVE  /\ DOMAIN NewTensors(made) = {NewName(i) : i \in DOMAIN made}
           /\ \A i \in DOMAIN made : NewTensors(made)[NewName(i)] = made[i]
PROOF
<1>1. DOMAIN NewTensors(made) = {NewName(i) : i \in DOMAIN made} BY DEF NewTensors
<1>2. ASSUME NEW i \in DOMAIN made PROVE NewTensors(made)[NewName(i)] = made[i]
  <2>1. i \in Nat /\ NewName(i) - names = i BY DEF NewName
  <2>2. NewName(i) \in {NewName(j) : j \in DOMAIN made} OBVIOUS
  <2>. QED BY <2>1, <2>2 DEF NewTensors
<1>. QED BY <1>1, <1>2

\* What an update leaves behind.
LEMMA InsertFacts ==
    ASSUME StoreInv, NEW b \in 1..2, NEW entries, NEW made, Updates(b, entries, made)
    PROVE  /\ DOMAIN maps' = 1..2 /\ DOMAIN arrays' = 1..2
           /\ maps'[3 - b] = maps[3 - b] /\ arrays'[3 - b] = arrays[3 - b]
           /\ DOMAIN maps'[b] = DOMAIN entries \cup DOMAIN maps[b]
           /\ \A i \in DOMAIN entries : maps'[b][i] = entries[i]
           /\ \A i \in DOMAIN maps[b] \ DOMAIN entries : maps'[b][i] = maps[b][i]
           /\ DOMAIN arrays'[b] = DOMAIN layout
           /\ \A i \in DOMAIN layout :
                 arrays'[b][i] = IF i \in DOMAIN maps'[b] THEN maps'[b][i].tensor ELSE arrays[b][i]
           /\ names' \in Nat \ {0} /\ Used \subseteq Used' /\ names \in Used' /\ names \notin Used
           /\ \A i \in DOMAIN made : /\ NewName(i) \in DOMAIN tensors' /\ tensors'[NewName(i)] = made[i]
                                     /\ NewName(i) \in Used' /\ NewName(i) \notin Used
           /\ \A i, j \in DOMAIN made : NewName(i) = NewName(j) => i = j
           /\ DOMAIN tensors' \subseteq Used'
           /\ \A t \in Used : /\ t \in DOMAIN tensors' <=> t \in DOMAIN tensors \ Gone(b, DOMAIN entries)
                              /\ t \in DOMAIN tensors' => tensors'[t] = tensors[t]
PROOF
<1> USE OtherSide
<1>1. StoreTyped BY DEF StoreInv
<1>2. /\ names \in Nat \ {0} /\ DOMAIN maps = 1..2 /\ DOMAIN arrays = 1..2
      /\ DOMAIN tensors \subseteq 1..(names - 1) /\ DOMAIN arrays[b] = DOMAIN layout
      /\ Len(layout) \in Nat /\ DOMAIN layout = 1..Len(layout)
  BY <1>1, LayoutFacts DEF StoreTyped, Used
<1>3. Insert(b, entries, NewTensors(made)) /\ Lawful(b, entries, made) BY DEF Updates
<1>4. DOMAIN entries \subseteq 1..Len(layout) /\ DOMAIN made \subseteq 1..Len(layout)
  BY <1>2, <1>3 DEF Lawful
<1>5. DOMAIN made \subseteq Nat BY <1>2, <1>4
<1>6. /\ maps' = [maps EXCEPT ![b] = Overlaid(entries, maps[b])]
      /\ arrays' = [arrays EXCEPT ![b] =
              [i \in DOMAIN layout |-> IF i \in DOMAIN maps'[b] THEN maps'[b][i].tensor ELSE arrays[b][i]]]
      /\ tensors' = Overlaid(NewTensors(made), [t \in DOMAIN tensors \ Gone(b, DOMAIN entries) |-> tensors[t]])
      /\ names' = names + Len(layout) + 1
  BY <1>3 DEF Insert, Gone
<1>7. maps'[b] = Overlaid(entries, maps[b]) /\ DOMAIN maps' = 1..2 /\ maps'[3 - b] = maps[3 - b] BY <1>2, <1>6
<1>8. /\ DOMAIN maps'[b] = DOMAIN entries \cup DOMAIN maps[b]
      /\ \A i \in DOMAIN entries : maps'[b][i] = entries[i]
      /\ \A i \in DOMAIN maps[b] \ DOMAIN entries : maps'[b][i] = maps[b][i]
  BY <1>7 DEF Overlaid
<1>9. /\ DOMAIN arrays' = 1..2 /\ arrays'[3 - b] = arrays[3 - b] /\ DOMAIN arrays'[b] = DOMAIN layout
      /\ \A i \in DOMAIN layout :
            arrays'[b][i] = IF i \in DOMAIN maps'[b] THEN maps'[b][i].tensor ELSE arrays[b][i]
  BY <1>2, <1>6
<1>10. /\ DOMAIN NewTensors(made) = {NewName(i) : i \in DOMAIN made}
       /\ \A i \in DOMAIN made : NewTensors(made)[NewName(i)] = made[i]
  BY <1>2, <1>5, NewTensorsFacts
<1>11. /\ names' \in Nat \ {0} /\ Used \subseteq Used' /\ names \in Used' /\ names \notin Used
       /\ \A i \in 1..Len(layout) : NewName(i) \in Used' /\ NewName(i) \notin Used
       /\ \A i, j \in 1..Len(layout) : NewName(i) = NewName(j) => i = j
  BY <1>2, <1>6 DEF Used, NewName
<1> DEFINE old == [t \in DOMAIN tensors \ Gone(b, DOMAIN entries) |-> tensors[t]]
<1>12. /\ DOMAIN tensors' = DOMAIN NewTensors(made) \cup (DOMAIN tensors \ Gone(b, DOMAIN entries))
       /\ \A t \in DOMAIN NewTensors(made) : tensors'[t] = NewTensors(made)[t]
       /\ \A t \in (DOMAIN tensors \ Gone(b, DOMAIN entries)) \ DOMAIN NewTensors(made) : tensors'[t] = tensors[t]
  BY <1>6 DEF Overlaid
<1>13. \A i \in DOMAIN made : NewName(i) \in DOMAIN tensors' /\ tensors'[NewName(i)] = made[i]
  BY <1>10, <1>12
<1>14. DOMAIN tensors' \subseteq Used'
  <2>1. DOMAIN tensors \subseteq Used BY <1>2 DEF Used
  <2>2. DOMAIN NewTensors(made) \subseteq Used' BY <1>4, <1>10, <1>11
  <2>. QED BY <1>11, <1>12, <2>1, <2>2
<1>15. \A t \in Used : t \notin DOMAIN NewTensors(made) BY <1>4, <1>10, <1>11
<1>16. \A t \in Used : /\ t \in DOMAIN tensors' <=> t \in DOMAIN tensors \ Gone(b, DOMAIN entries)
                       /\ t \in DOMAIN tensors' => tensors'[t] = tensors[t]
  BY <1>12, <1>15
<1>17. \A i \in DOMAIN made : NewName(i) \in Used' /\ NewName(i) \notin Used BY <1>4, <1>11
<1>18. \A i, j \in DOMAIN made : NewName(i) = NewName(j) => i = j BY <1>4, <1>11
<1>. QED BY <1>7, <1>8, <1>9, <1>11, <1>13, <1>14, <1>16, <1>17, <1>18

\* A tensor that keeps a place in a map is not destroyed.
LEMMA TensorsStay ==
    ASSUME StoreInv, NEW b \in 1..2, NEW entries, NEW made, Updates(b, entries, made),
           NEW c \in 1..2, NEW i \in DOMAIN maps[c], c = b => i \notin DOMAIN entries,
           maps[c][i].tensor # Null
    PROVE  /\ maps[c][i].tensor \in Used
           /\ maps[c][i].tensor \in DOMAIN tensors' <=> maps[c][i].tensor \in DOMAIN tensors
           /\ maps[c][i].tensor \in DOMAIN tensors' => tensors'[maps[c][i].tensor] = tensors[maps[c][i].tensor]
PROOF
<1> DEFINE t == maps[c][i].tensor
<1>1. t \in Used BY DEF StoreInv, StoreTyped
<1>2. t \notin Gone(b, DOMAIN entries)
  <2> SUFFICES ASSUME NEW j \in DOMAIN entries \cap DOMAIN maps[b], maps[b][j].by # "other", t = maps[b][j].tensor
               PROVE  FALSE
    BY DEF Gone
  <2>1. OwnersApart /\ \A d \in 1..2 : Borrowed(d) BY DEF StoreInv
  <2>2. i = j /\ (c # b => maps[c][i].by = "other") BY <2>1 DEF OwnersApart
  <2>3. c = 3 - b BY <2>2, OtherSide
  <2>4. i \in Lent(b) BY <2>2, <2>3, OtherSide DEF Lent
  <2>5. DOMAIN entries \cap Lent(b) = {} BY DEF Updates, Lawful
  <2>. QED BY <2>2, <2>4, <2>5
<1>3. \A u \in Used : /\ u \in DOMAIN tensors' <=> u \in DOMAIN tensors \ Gone(b, DOMAIN entries)
                      /\ u \in DOMAIN tensors' => tensors'[u] = tensors[u]
  BY InsertFacts
<1> HIDE DEF t
<1>4. t \in DOMAIN tensors' <=> t \in DOMAIN tensors BY <1>1, <1>2, <1>3
<1>5. t \in DOMAIN tensors' => tensors'[t] = tensors[t] BY <1>1, <1>3
<1>. QED BY <1>1, <1>4, <1>5 DEF t

\* What is not given anew reads as before, on both sides.
LEMMA ReadsStay ==
    ASSUME StoreInv, NEW b \in 1..2, NEW entries, NEW made, Updates(b, entries, made),
           NEW c \in 1..2, NEW i \in DOMAIN layout, c = b => i \notin DOMAIN entries,
           i \in Unfolded \/ readiness[c] = "FOLDED"
    PROVE  ReadOf(c, i)' = ReadOf(c, i)
PROOF
<1>1. Linked(c) /\ Seated(c) /\ Borrowed(c) /\ StoreTyped /\ BlobsApart BY DEF StoreInv
<1>2. /\ arrays'[c][i] = arrays[c][i]
      /\ arrays[c][i] = IF i \in DOMAIN maps[c] THEN maps[c][i].tensor ELSE Null
  <2>1. arrays[c][i] = IF i \in DOMAIN maps[c] THEN maps[c][i].tensor ELSE Null BY <1>1 DEF Linked
  <2>2. CASE c = b
    <3>1. i \in DOMAIN maps'[b] <=> i \in DOMAIN maps[b] BY <2>2, InsertFacts
    <3>2. i \in DOMAIN maps[b] => maps'[b][i] = maps[b][i] BY <2>2, InsertFacts
    <3>. QED BY <2>1, <2>2, <3>1, <3>2, InsertFacts
  <2>3. CASE c # b
    <3>1. c = 3 - b BY <2>3, OtherSide
    <3>. QED BY <2>1, <3>1, InsertFacts
  <2>. QED BY <2>2, <2>3
<1> DEFINE t == arrays[c][i]
<1>3. CASE i \notin DOMAIN maps[c] \/ maps[c][i].tensor = Null
  <2>1. t = Null BY <1>2, <1>3
  <2>2. names \in Nat \ {0} /\ names' \in Nat \ {0} BY <1>1, InsertFacts DEF StoreTyped
  <2>3. Null \notin Used /\ Null \notin Used' BY <2>2 DEF Used, Null
  <2>4. Null \notin DOMAIN tensors /\ Null \notin DOMAIN tensors' BY <1>1, <2>3, InsertFacts DEF StoreTyped
  <2>. QED BY <1>2, <2>1, <2>4 DEF ReadOf, Contents
<1>4. CASE i \in DOMAIN maps[c] /\ maps[c][i].tensor # Null
  <2>1. t = maps[c][i].tensor BY <1>2, <1>4
  <2>2. /\ t \in DOMAIN tensors' <=> t \in DOMAIN tensors
        /\ t \in DOMAIN tensors' => tensors'[t] = tensors[t]
    BY <1>4, <2>1, TensorsStay
  <2>3. CASE t \notin DOMAIN tensors BY <1>2, <2>2, <2>3 DEF ReadOf, Contents
  <2>4. CASE t \in DOMAIN tensors
    <3> DEFINE x == tensors[t]
    <3>1. tensors'[t] = x /\ t \in DOMAIN tensors' BY <2>2, <2>4
    <3>2. CASE x.blob = Null BY <1>2, <2>4, <3>1, <3>2 DEF ReadOf, Contents
    <3>3. CASE x.blob # Null
      <4>1. x.of = i /\ i \in Unfolded /\ x.blob \in Used /\ (maps[c][i].by # "other" => x.blob # blobs[3 - c])
        BY <1>1, <1>4, <2>1, <2>4, <3>3 DEF Seated
      <4>2. x.blob \in DOMAIN cells' <=> x.blob \in DOMAIN cells
        <5>1. x.blob # names BY <4>1, InsertFacts
        <5>. QED BY <5>1 DEF Updates, Writes
      <4>3. CASE x.blob \notin DOMAIN cells
        BY <1>2, <2>4, <3>1, <3>3, <4>2, <4>3 DEF ReadOf, Contents
      <4>4. CASE x.blob \in DOMAIN cells
        <5>1. layout \in Layouts BY <1>1 DEF StoreTyped
        <5>2. Extent(i) \subseteq 0..(BlobSize - 1) BY <4>1, <5>1, ExtentsApart
        <5>3. ~(x.blob = blobs[b] /\ i \in DOMAIN entries)
          <6> SUFFICES ASSUME x.blob = blobs[b], i \in DOMAIN entries PROVE FALSE OBVIOUS
          <6>1. c = 3 - b BY OtherSide
          <6>2. maps[c][i].by = "other" BY <4>1, <6>1, OtherSide
          <6>3. i \in Lent(b) BY <1>1, <1>4, <6>1, <6>2, OtherSide DEF Lent, Borrowed
          <6>. QED BY <6>3 DEF Updates, Lawful
        <5>4. ASSUME NEW k \in Extent(i) PROVE cells'[x.blob][k] = cells[x.blob][k]
          <6>1. SUFFICES ASSUME x.blob = blobs[b], NEW j \in DOMAIN entries \cap Unfolded, k \in Extent(j)
                         PROVE FALSE
            BY <4>4, <5>2 DEF Updates, Writes
          <6>2. i # j BY <5>3, <6>1
          <6>3. Extent(i) \cap Extent(j) = {} BY <4>1, <5>1, <6>2, ExtentsApart
          <6>. QED BY <6>1, <6>3
        <5>5. {cells'[x.blob][k] : k \in Extent(i)} = {cells[x.blob][k] : k \in Extent(i)} BY <5>4
        <5>6. layout' = layout BY DEF Updates
        <5>7. Extent(i)' = Extent(i) BY <5>6, LayoutStays
        <5>8. ReadOf(c, i) = Whole({cells[x.blob][k] : k \in Extent(i)})
          BY <2>4, <3>3, <4>1, <4>4 DEF ReadOf, Contents
        <5>9. ReadOf(c, i)' = Whole({cells'[x.blob][k] : k \in Extent(i)'})
          BY <1>2, <3>1, <3>3, <4>1, <4>2, <4>4 DEF ReadOf, Contents, Null, Whole
        <5>. QED BY <5>5, <5>7, <5>8, <5>9
      <4>. QED BY <4>3, <4>4
    <3>. QED BY <3>2, <3>3
  <2>. QED BY <2>3, <2>4
<1>. QED BY <1>3, <1>4

\* An entry after an update is the old one, one for a tensor that was made, or borrowed.
Old(b, entries, c, i) ==
    i \in DOMAIN maps[c] /\ (c = b => i \notin DOMAIN entries) /\ maps'[c][i] = maps[c][i]
Made(b, made, c, i) ==
    /\ c = b /\ i \in DOMAIN made
    /\ maps'[c][i].tensor = NewName(i) /\ maps'[c][i].by # "other"
Lends(b, entries, made, c, i) ==
    /\ c = b /\ i \in DOMAIN entries \ DOMAIN made /\ i \in Unfolded /\ i \in DOMAIN maps[3 - b]
    /\ maps'[c][i].by = "other" /\ maps'[c][i].tensor = maps[3 - b][i].tensor

\* There is no other entry after an update.
LEMMA EntryKinds ==
    ASSUME StoreInv, NEW b \in 1..2, NEW entries, NEW made, Updates(b, entries, made),
           NEW c \in 1..2, NEW i \in DOMAIN maps'[c]
    PROVE  Old(b, entries, c, i) \/ Made(b, made, c, i) \/ Lends(b, entries, made, c, i)
PROOF
<1>1. CASE c # b
  <2>1. c = 3 - b BY <1>1, OtherSide
  <2>2. maps'[c] = maps[c] BY <2>1, InsertFacts
  <2>. QED BY <1>1, <2>2 DEF Old
<1>2. CASE c = b
  <2>1. i \in DOMAIN entries \cup DOMAIN maps[b] BY <1>2, InsertFacts
  <2>2. CASE i \notin DOMAIN entries BY <1>2, <2>1, <2>2, InsertFacts DEF Old
  <2>3. CASE i \in DOMAIN entries
    <3>1. maps'[c][i] = entries[i] BY <1>2, <2>3, InsertFacts
    <3>2. Lawful(b, entries, made) BY DEF Updates
    <3>. QED BY <1>2, <2>3, <3>1, <3>2 DEF Lawful, Made, Lends
  <2>. QED BY <2>2, <2>3
<1>. QED BY <1>1, <1>2

\* The blobs after an update: at most the one of b is new.
LEMMA BlobsAfter ==
    ASSUME StoreInv, NEW b \in 1..2, NEW entries, NEW made, Updates(b, entries, made)
    PROVE  /\ BlobsApart' /\ DOMAIN blobs' = 1..2 /\ DOMAIN cells' \subseteq Used'
           /\ \A c \in 1..2 : blobs'[c] = blobs[c] \/ (c = b /\ blobs'[c] = names)
           /\ \A c \in 1..2 : blobs[c] \in Used \cup {Null}
PROOF
<1>1. StoreTyped /\ BlobsApart BY DEF StoreInv
<1>2. Writes(b, DOMAIN entries) /\ layout' = layout BY DEF Updates
<1>3. BlobSize' = BlobSize BY <1>2, LayoutStays
<1>4. names # Null /\ names \notin Used /\ names \in Used' /\ Used \subseteq Used'
  BY <1>1, InsertFacts DEF StoreTyped, Null
<1>5. DOMAIN cells \subseteq Used /\ DOMAIN blobs = 1..2 BY <1>1 DEF StoreTyped
<1>6. \A c \in 1..2 : blobs[c] \in Used \cup {Null} BY <1>1, <1>5 DEF BlobsApart
<1>7. DOMAIN cells' \subseteq Used' BY <1>2, <1>4, <1>5 DEF Writes
<1>8. DOMAIN blobs' = 1..2 /\ \A c \in 1..2 : blobs'[c] = blobs[c] \/ (c = b /\ blobs'[c] = names)
  BY <1>2, <1>5, OtherSide DEF Writes
<1>9. \A c \in 1..2 : blobs'[c] = Null \/ blobs'[c] \in DOMAIN cells'
  BY <1>1, <1>2, <1>5, <1>8, OtherSide DEF Writes, BlobsApart
<1>10. blobs'[1] = blobs'[2] => blobs'[1] = Null BY <1>1, <1>4, <1>6, <1>8 DEF BlobsApart
<1>11. \A id \in DOMAIN cells' : DOMAIN cells'[id] = 0..(BlobSize' - 1) BY <1>2, <1>3 DEF Writes
<1>12. BlobsApart' BY <1>9, <1>10, <1>11 DEF BlobsApart, Null
<1>. QED BY <1>6, <1>7, <1>8, <1>12

\* What is borrowed after an update has its owner: an owner is not replaced, and nothing is
\* borrowed from a borrower.
LEMMA BorrowedAfter ==
    ASSUME StoreInv, NEW b \in 1..2, NEW entries, NEW made, Updates(b, entries, made), NEW c \in 1..2
    PROVE  Borrowed(c)'
PROOF
<1>1. Unfolded' = Unfolded BY LayoutStays DEF Updates
<1>2. \A d \in 1..2 : Borrowed(d) BY DEF StoreInv
<1>3. DOMAIN entries \cap Lent(b) = {} BY DEF Updates, Lawful
<1>4. SUFFICES ASSUME NEW i \in DOMAIN maps'[c], maps'[c][i].by = "other"
               PROVE  /\ i \in Unfolded /\ i \in DOMAIN maps'[3 - c]
                      /\ maps'[3 - c][i].by # "other" /\ maps'[3 - c][i].tensor = maps'[c][i].tensor
  BY <1>1 DEF Borrowed
<1>5. CASE Old(b, entries, c, i)
  <2>1. /\ maps'[c][i] = maps[c][i] /\ i \in DOMAIN maps[c]
        /\ i \in Unfolded /\ i \in DOMAIN maps[3 - c]
        /\ maps[3 - c][i].by # "other" /\ maps[3 - c][i].tensor = maps[c][i].tensor
    BY <1>2, <1>4, <1>5 DEF Old, Borrowed
  <2>2. i \in DOMAIN maps'[3 - c] /\ maps'[3 - c][i] = maps[3 - c][i]
    <3>1. CASE c = b BY <2>1, <3>1, InsertFacts
    <3>2. CASE c # b
      <4>1. c = 3 - b /\ 3 - c = b BY <3>2, OtherSide
      <4>2. i \in Lent(b) BY <1>4, <2>1, <4>1 DEF Lent
      <4>3. i \in DOMAIN maps[b] \ DOMAIN entries BY <1>3, <2>1, <4>1, <4>2
      <4>. QED BY <4>1, <4>3, InsertFacts
    <3>. QED BY <3>1, <3>2
  <2>. QED BY <2>1, <2>2
<1>6. CASE Made(b, made, c, i) BY <1>4, <1>6 DEF Made
<1>7. CASE Lends(b, entries, made, c, i)
  <2>1. /\ c = b /\ i \in DOMAIN entries /\ i \in Unfolded /\ i \in DOMAIN maps[3 - b]
        /\ maps'[c][i].tensor = maps[3 - b][i].tensor
    BY <1>7 DEF Lends
  <2>2. maps'[3 - b] = maps[3 - b] BY InsertFacts
  <2>3. maps[3 - b][i].by # "other"
    <3> SUFFICES ASSUME maps[3 - b][i].by = "other" PROVE FALSE OBVIOUS
    <3>1. i \in DOMAIN maps[b] /\ maps[b][i].tensor = maps[3 - b][i].tensor
      BY <1>2, <2>1, OtherSide DEF Borrowed
    <3>2. i \in Lent(b) BY <2>1, <3>1 DEF Lent
    <3>. QED BY <1>3, <2>1, <3>2
  <2>. QED BY <2>1, <2>2, <2>3
<1>. QED BY <1>4, <1>5, <1>6, <1>7, EntryKinds

\* Made tensors are new and lent ones are borrowed: no tensor has two owners.
LEMMA OwnersAfter ==
    ASSUME StoreInv, NEW b \in 1..2, NEW entries, NEW made, Updates(b, entries, made)
    PROVE  OwnersApart'
PROOF
<1>1. SUFFICES ASSUME NEW c \in 1..2, NEW d \in 1..2, NEW i \in DOMAIN maps'[c], NEW j \in DOMAIN maps'[d],
                      maps'[c][i].tensor = maps'[d][j].tensor, maps'[c][i].tensor # Null
               PROVE  i = j /\ (c # d => maps'[c][i].by = "other" \/ maps'[d][j].by = "other")
  BY DEF OwnersApart, Null
<1>2. OwnersApart BY DEF StoreInv
<1>3. /\ Old(b, entries, c, i) \/ Made(b, made, c, i) \/ Lends(b, entries, made, c, i)
      /\ Old(b, entries, d, j) \/ Made(b, made, d, j) \/ Lends(b, entries, made, d, j)
  BY EntryKinds
<1>4. \A e \in 1..2 : \A k \in DOMAIN maps[e] : maps[e][k].tensor \in Used \cup {Null}
  BY DEF StoreInv, StoreTyped
<1>5. 3 - b \in 1..2 BY OtherSide
<1>6. CASE Made(b, made, c, i) \/ Made(b, made, d, j)
  <2>1. \A k \in DOMAIN made : NewName(k) \notin Used BY InsertFacts
  <2>2. ASSUME NEW e \in 1..2, NEW k, Old(b, entries, e, k) \/ Lends(b, entries, made, e, k)
        PROVE  maps'[e][k].tensor \in Used \cup {Null}
    BY <1>4, <1>5, <2>2 DEF Old, Lends
  <2>3. Made(b, made, c, i) /\ Made(b, made, d, j)
    BY <1>1, <1>3, <1>6, <2>1, <2>2 DEF Made
  <2>4. \A k, l \in DOMAIN made : NewName(k) = NewName(l) => k = l BY InsertFacts
  <2>. QED BY <1>1, <2>3, <2>4 DEF Made
<1>7. CASE Old(b, entries, c, i) /\ Old(b, entries, d, j)
  BY <1>1, <1>2, <1>7 DEF Old, OwnersApart
<1>8. CASE Old(b, entries, c, i) /\ Lends(b, entries, made, d, j)
  <2>1. /\ maps'[c][i] = maps[c][i] /\ i \in DOMAIN maps[c] /\ j \in DOMAIN maps[3 - b]
        /\ maps'[d][j].tensor = maps[3 - b][j].tensor /\ maps'[d][j].by = "other"
    BY <1>8 DEF Old, Lends
  <2>2. i = j BY <1>1, <1>2, <1>5, <2>1 DEF OwnersApart
  <2>. QED BY <2>1, <2>2
<1>9. CASE Lends(b, entries, made, c, i) /\ Old(b, entries, d, j)
  <2>1. /\ maps'[d][j] = maps[d][j] /\ j \in DOMAIN maps[d] /\ i \in DOMAIN maps[3 - b]
        /\ maps'[c][i].tensor = maps[3 - b][i].tensor /\ maps'[c][i].by = "other"
    BY <1>9 DEF Old, Lends
  <2>2. i = j BY <1>1, <1>2, <1>5, <2>1 DEF OwnersApart
  <2>. QED BY <2>1, <2>2
<1>10. CASE Lends(b, entries, made, c, i) /\ Lends(b, entries, made, d, j)
  BY <1>1, <1>2, <1>5, <1>10 DEF Lends, OwnersApart
<1>. QED BY <1>3, <1>6, <1>7, <1>8, <1>9, <1>10

\* Made tensors lie in the blob of b or a new one, the others where they lay.
LEMMA SeatedAfter ==
    ASSUME StoreInv, NEW b \in 1..2, NEW entries, NEW made, Updates(b, entries, made), NEW c \in 1..2
    PROVE  Seated(c)'
PROOF
<1>1. Unfolded' = Unfolded BY LayoutStays DEF Updates
<1>2. /\ StoreTyped /\ BlobsApart /\ \A d \in 1..2 : Seated(d) BY DEF StoreInv
<1>3. /\ names # Null /\ names \notin Used /\ names \in Used' /\ Used \subseteq Used' /\ Null \notin Used'
      /\ DOMAIN tensors' \subseteq Used'
  <2>1. names' \in Nat BY InsertFacts
  <2>2. Null \notin Used' BY <2>1 DEF Used, Null
  <2>. QED BY <1>2, <2>2, InsertFacts DEF StoreTyped, Null
<1>4. 3 - b \in 1..2 /\ 3 - c \in 1..2 /\ 3 - c # c /\ 3 - b # b BY OtherSide
<1>5. \A d \in 1..2 : blobs'[d] = blobs[d] \/ (d = b /\ blobs'[d] = names) BY BlobsAfter
<1>6. \A d \in 1..2 : blobs[d] \in Used \cup {Null} BY BlobsAfter
<1>7. SUFFICES ASSUME NEW i \in DOMAIN maps'[c], maps'[c][i].tensor \in DOMAIN tensors',
                      tensors'[maps'[c][i].tensor].blob # Null
               PROVE  /\ tensors'[maps'[c][i].tensor].of = i /\ i \in Unfolded
                      /\ tensors'[maps'[c][i].tensor].blob \in Used'
                      /\ maps'[c][i].by # "other" => tensors'[maps'[c][i].tensor].blob # blobs'[3 - c]
  BY <1>1 DEF Seated, Null
\* A tensor that was there lies where it lay.
<1>8. ASSUME NEW d \in 1..2, i \in DOMAIN maps[d], d = b => i \notin DOMAIN entries,
             maps'[c][i].tensor = maps[d][i].tensor
      PROVE  /\ tensors'[maps'[c][i].tensor].of = i /\ i \in Unfolded
             /\ tensors'[maps'[c][i].tensor].blob \in Used
             /\ maps[d][i].by # "other" => tensors'[maps'[c][i].tensor].blob # blobs[3 - d]
  <2> DEFINE t == maps[d][i].tensor
  <2>1. t # Null BY <1>3, <1>7, <1>8
  <2>2. t \in DOMAIN tensors /\ tensors'[t] = tensors[t] BY <1>7, <1>8, <2>1, TensorsStay
  <2>3. Seated(d) BY <1>2
  <2>. QED BY <1>7, <1>8, <2>2, <2>3 DEF Seated
<1>9. CASE Old(b, entries, c, i)
  <2>1. i \in DOMAIN maps[c] /\ (c = b => i \notin DOMAIN entries) /\ maps'[c][i] = maps[c][i] BY <1>9 DEF Old
  <2>. QED BY <1>3, <1>4, <1>5, <1>8, <2>1
<1>10. CASE Made(b, made, c, i)
  <2>1. c = b /\ i \in DOMAIN made /\ maps'[c][i].tensor = NewName(i) BY <1>10 DEF Made
  <2>2. tensors'[maps'[c][i].tensor] = made[i] BY <2>1, InsertFacts
  <2>3. made[i].of = i /\ i \in Unfolded /\ made[i].blob \in {blobs[b], names}
    BY <1>7, <2>1, <2>2 DEF Updates, Lawful
  <2>4. made[i].blob # Null BY <1>7, <2>2
  <2>5. made[i].blob \in Used' BY <1>3, <1>6, <2>3, <2>4
  <2>6. blobs'[3 - b] = blobs[3 - b] BY <1>4, <1>5
  <2>7. blobs[b] # Null => blobs[b] # blobs[3 - b] BY <1>2, <1>4 DEF BlobsApart
  <2>8. made[i].blob # blobs[3 - b] BY <1>3, <1>4, <1>6, <2>3, <2>4, <2>7
  <2>. QED BY <2>1, <2>2, <2>3, <2>5, <2>6, <2>8
<1>11. CASE Lends(b, entries, made, c, i)
  <2>1. i \in DOMAIN maps[3 - b] /\ maps'[c][i].tensor = maps[3 - b][i].tensor /\ maps'[c][i].by = "other"
    BY <1>11 DEF Lends
  <2>. QED BY <1>3, <1>4, <1>8, <2>1
<1>. QED BY <1>9, <1>10, <1>11, EntryKinds

\* update_array_from_map: the array is what the map says.
LEMMA LinkedAfter ==
    ASSUME StoreInv, NEW b \in 1..2, NEW entries, NEW made, Updates(b, entries, made), NEW c \in 1..2
    PROVE  Linked(c)'
PROOF
<1>1. Unfolded' = Unfolded /\ Folded' = Folded /\ layout' = layout BY LayoutStays DEF Updates
<1>2. Linked(c) BY DEF StoreInv
<1>3. CASE c = b
  <2>1. readiness'[b] = "FOLDED" => Folded \subseteq DOMAIN maps'[b] BY InsertFacts DEF Updates
  <2>2. \A i \in DOMAIN layout : arrays'[b][i] = IF i \in DOMAIN maps'[b] THEN maps'[b][i].tensor ELSE arrays[b][i]
    BY InsertFacts
  <2>3. \A i \in DOMAIN layout : i \notin DOMAIN maps'[b] => arrays[b][i] = Null
    BY <1>2, <1>3, InsertFacts DEF Linked
  <2>. QED BY <1>1, <1>3, <2>1, <2>2, <2>3 DEF Linked, Null
<1>4. CASE c # b
  <2>1. c = 3 - b BY <1>4, OtherSide
  <2>2. maps'[c] = maps[c] /\ arrays'[c] = arrays[c] /\ readiness'[c] = readiness[c]
    BY <2>1, InsertFacts DEF Updates
  <2>. QED BY <1>1, <1>2, <2>2 DEF Linked, Null
<1>. QED BY <1>3, <1>4

\* The types after an update.
LEMMA TypedAfter ==
    ASSUME StoreInv, NEW b \in 1..2, NEW entries, NEW made, Updates(b, entries, made)
    PROVE  StoreTyped'
PROOF
<1>1. StoreTyped BY DEF StoreInv
<1>2. /\ layout' \in Layouts /\ secondary' \in BOOLEAN /\ readiness' \in [1..2 -> Levels] /\ calls' \in Nat
      /\ layout' = layout
  BY <1>1 DEF StoreTyped, Updates
<1>3. /\ names' \in Nat \ {0} /\ DOMAIN maps' = 1..2 /\ DOMAIN arrays' = 1..2 /\ DOMAIN tensors' \subseteq Used'
  BY InsertFacts
<1>4. DOMAIN blobs' = 1..2 /\ DOMAIN cells' \subseteq Used' BY BlobsAfter
<1>5. ASSUME NEW c \in 1..2
      PROVE  /\ DOMAIN arrays'[c] = DOMAIN layout /\ DOMAIN maps'[c] \subseteq DOMAIN layout
  <2>1. DOMAIN arrays[c] = DOMAIN layout /\ DOMAIN maps[c] \subseteq DOMAIN layout BY <1>1 DEF StoreTyped
  <2>2. CASE c = b
    <3>1. DOMAIN entries \subseteq DOMAIN layout BY DEF Updates, Lawful
    <3>. QED BY <2>1, <2>2, <3>1, InsertFacts
  <2>3. CASE c # b
    <3>1. c = 3 - b BY <2>3, OtherSide
    <3>. QED BY <2>1, <3>1, InsertFacts
  <2>. QED BY <2>2, <2>3
<1>6. ASSUME NEW c \in 1..2, NEW i \in DOMAIN maps'[c] PROVE maps'[c][i].tensor \in Used' \cup {Null}
  <2>1. \A d \in 1..2 : \A j \in DOMAIN maps[d] : maps[d][j].tensor \in Used \cup {Null} BY <1>1 DEF StoreTyped
  <2>2. Used \subseteq Used' /\ \A j \in DOMAIN made : NewName(j) \in Used' BY InsertFacts
  <2>3. 3 - b \in 1..2 BY OtherSide
  <2>4. Old(b, entries, c, i) \/ Made(b, made, c, i) \/ Lends(b, entries, made, c, i) BY EntryKinds
  <2>. QED BY <2>1, <2>2, <2>3, <2>4 DEF Old, Made, Lends
<1>. QED BY <1>2, <1>3, <1>4, <1>5, <1>6 DEF StoreTyped, Null

\* An update leaves the fold of the other buffer as true as it was.
LEMMA FoldsStay ==
    ASSUME StoreInv, NEW b \in 1..2, NEW entries, NEW made, Updates(b, entries, made),
           readiness'[b] = "FOLDED" => \A i \in Folded : ReadOf(b, i)' = FoldOf(b)'
    PROVE  FoldedUpToDate'
PROOF
<1>1. Unfolded' = Unfolded /\ Folded' = Folded BY LayoutStays DEF Updates
<1>2. SUFFICES ASSUME NEW c \in 1..2, NEW i \in Folded, readiness'[c] = "FOLDED"
               PROVE  ReadOf(c, i)' = FoldOf(c)'
  BY <1>1 DEF FoldedUpToDate
<1>3. CASE c # b
  <2>1. c = 3 - b BY <1>3, OtherSide
  <2>2. readiness[c] = "FOLDED" BY <1>2, <2>1 DEF Updates
  <2>3. ReadOf(c, i) = FoldOf(c) BY <2>2 DEF StoreInv, FoldedUpToDate
  <2>4. i \in DOMAIN layout /\ Unfolded \subseteq DOMAIN layout BY DEF Folded, Unfolded
  <2>5. ReadOf(c, i)' = ReadOf(c, i) BY <1>3, <2>2, <2>4, ReadsStay
  <2>6. \A j \in Unfolded : ReadOf(c, j)' = ReadOf(c, j) BY <1>3, <2>4, ReadsStay
  <2>7. FoldOf(c)' = FoldOf(c) BY <1>1, <2>6 DEF FoldOf
  <2>. QED BY <2>3, <2>5, <2>7
<1>. QED BY <1>2, <1>3

\* Any update keeps the invariant.
LEMMA UpdateKeeps ==
    ASSUME StoreInv, NEW b \in 1..2, NEW entries, NEW made, Updates(b, entries, made),
           readiness'[b] = "FOLDED" => \A i \in Folded : ReadOf(b, i)' = FoldOf(b)'
    PROVE  StoreInv'
PROOF
<1>1. StoreTyped' BY TypedAfter
<1>2. BlobsApart' BY BlobsAfter
<1>3. OwnersApart' BY OwnersAfter
<1>4. \A c \in 1..2 : Linked(c)' /\ Seated(c)' /\ Borrowed(c)' BY LinkedAfter, SeatedAfter, BorrowedAfter
<1>5. FoldedUpToDate' BY FoldsStay
<1>. QED BY <1>1, <1>2, <1>3, <1>4, <1>5 DEF StoreInv

-----------------------------------------------------------------------------
(* What is read of what an update gives.                                    *)

\* A tensor with memory of its own reads what was put there.
LEMMA OwnReads ==
    ASSUME StoreInv, NEW b \in 1..2, NEW entries, NEW made, Updates(b, entries, made),
           NEW i \in DOMAIN made, made[i].blob = Null
    PROVE  ReadOf(b, i)' = made[i].value
PROOF
<1>1. i \in DOMAIN layout /\ i \in DOMAIN entries /\ entries[i].tensor = NewName(i) BY DEF Updates, Lawful
<1>2. arrays'[b][i] = NewName(i) BY <1>1, InsertFacts
<1>3. NewName(i) \in DOMAIN tensors' /\ tensors'[NewName(i)] = made[i] BY InsertFacts
<1>. QED BY <1>2, <1>3 DEF ReadOf, Contents

\* A tensor in a blob reads what was copied under it; nothing, if it has no size.
LEMMA BlobReads ==
    ASSUME StoreInv, NEW b \in 1..2, NEW entries, NEW made, Updates(b, entries, made),
           NEW i \in DOMAIN made, NEW id, id # Null, made[i] = InBlob(id, i), id \in DOMAIN cells',
           NEW v, \A k \in Extent(i) : cells'[id][k] = v
    PROVE  ReadOf(b, i)' = IF layout[i].size = 0 THEN <<0>> ELSE v
PROOF
<1>1. i \in DOMAIN layout /\ i \in DOMAIN entries /\ entries[i].tensor = NewName(i) /\ layout' = layout
  BY DEF Updates, Lawful
<1>2. arrays'[b][i] = NewName(i) BY <1>1, InsertFacts
<1>3. NewName(i) \in DOMAIN tensors' /\ tensors'[NewName(i)] = made[i] BY InsertFacts
<1>4. made[i].blob = id /\ made[i].of = i BY DEF InBlob
<1>5. ReadOf(b, i)' = Whole({cells'[id][k] : k \in Extent(i)'})
  BY <1>2, <1>3, <1>4 DEF ReadOf, Contents, Null, Whole
<1>6. Extent(i)' = Extent(i) BY <1>1, LayoutStays
<1>7. Extent(i) = {} <=> layout[i].size = 0 BY <1>1, ExtentsApart DEF StoreInv, StoreTyped
<1> DEFINE held == {cells'[id][k] : k \in Extent(i)}
<1>8. CASE layout[i].size = 0
  <2>1. held = {} BY <1>7, <1>8
  <2>. QED BY <1>5, <1>6, <1>8, <2>1 DEF Whole
<1>9. CASE layout[i].size # 0
  <2>1. held = {v} BY <1>7, <1>9
  <2>2. Whole(held) = v
    <3> HIDE DEF held
    <3>1. v \in held /\ held # {} /\ \A w \in held : w = v BY <2>1
    <3>2. (CHOOSE w \in held : TRUE) \in held BY <3>1
    <3>. QED BY <2>1, <3>1, <3>2 DEF Whole
  <2>. QED BY <1>5, <1>6, <1>9, <2>2
<1>. QED BY <1>8, <1>9

\* What the map of a buffer has of a constant that is not folded is what models read.
LEMMA MapReads ==
    ASSUME StoreInv, NEW c \in 1..2, NEW i \in Unfolded, i \in DOMAIN maps[c]
    PROVE  Contents(maps[c][i].tensor) = ReadOf(c, i)
PROOF
<1>1. Linked(c) /\ i \in DOMAIN layout BY DEF StoreInv, Unfolded
<1>2. arrays[c][i] = maps[c][i].tensor BY <1>1 DEF Linked
<1>. QED BY <1>2 DEF ReadOf

\* What is borrowed reads as in the other buffer.
LEMMA LentReads ==
    ASSUME StoreInv, NEW b \in 1..2, NEW entries, NEW made, Updates(b, entries, made),
           NEW i \in DOMAIN entries \ DOMAIN made
    PROVE  ReadOf(b, i)' = ReadOf(3 - b, i)
PROOF
<1>1. /\ i \in DOMAIN layout /\ i \in Unfolded /\ i \in DOMAIN maps[3 - b]
      /\ entries[i].tensor = maps[3 - b][i].tensor
  BY DEF Updates, Lawful
<1>2. arrays'[b][i] = maps[3 - b][i].tensor BY <1>1, InsertFacts
<1>3. arrays[3 - b][i] = maps[3 - b][i].tensor BY <1>1, OtherSide DEF StoreInv, Linked
<1>4. arrays'[3 - b][i] = arrays[3 - b][i] BY InsertFacts
<1>5. ReadOf(b, i)' = ReadOf(3 - b, i)' BY <1>2, <1>3, <1>4 DEF ReadOf
<1>6. ReadOf(3 - b, i)' = ReadOf(3 - b, i) BY <1>1, OtherSide, ReadsStay
<1>. QED BY <1>5, <1>6

-----------------------------------------------------------------------------
(* The calls.                                                               *)

\* What a call gives buffer b: v for the constants in given, what the other buffer has
\* for those in taken, and nothing else of what models read there is changed.
Gives(b, given, taken, v) ==
    /\ layout' = layout /\ secondary' = secondary
    /\ \A i \in Unfolded : layout[i].size > 0 =>
          ReadOf(b, i)' = IF i \in given THEN v ELSE IF i \in taken THEN ReadOf(3 - b, i) ELSE ReadOf(b, i)
    /\ \A i \in Unfolded : ReadOf(3 - b, i)' = ReadOf(3 - b, i)
    /\ \A i \in Unfolded : layout[i].size = 0 =>
          \/ ReadOf(b, i)' = v \/ ReadOf(b, i)' = <<0>>
          \/ i \in taken /\ ReadOf(b, i)' = ReadOf(3 - b, i)
          \/ ReadOf(b, i)' = ReadOf(b, i)

\* What an update may leave out.
LEMMA TakenFacts ==
    ASSUME NEW b, NEW given
    PROVE  /\ Taken(b, given) \subseteq Skippable \ given /\ Skippable \subseteq Unfolded
           /\ b = ActiveSide => Taken(b, given) = {}
           /\ b # ActiveSide => Taken(b, given) = Skippable \ given
BY DEF Taken, Skippable

\* An update may leave the blobs alone.
LEMMA NothingWritten ==
    ASSUME StoreInv, NEW b \in 1..2, NEW S, blobs' = blobs, cells' = cells
    PROVE  Writes(b, S)
BY DEF StoreInv, StoreTyped, BlobsApart, Writes

\* update_constant_buffer, user_managed (model_container.h:441).
LEMMA ManagedGives ==
    ASSUME StoreInv, NEW b \in 1..2, NEW given \in SUBSET Unfolded, UpdateManaged(b, given)
    PROVE  StoreInv' /\ Gives(b, given, Taken(b, given), <<calls + 1>>)
PROOF
<1> DEFINE taken == Taken(b, given)
<1> DEFINE S == given \cup taken
<1> DEFINE entries == [i \in S |-> IF i \in given THEN Entry(NewName(i), "user")
                                    ELSE Entry(maps[3 - b][i].tensor, "other")]
<1> DEFINE made == [i \in given |-> OnItsOwn(<<calls + 1>>)]
<1>1. /\ Begin(b, S) /\ taken \subseteq DOMAIN maps[3 - b] /\ MarkUpdated(b)
      /\ Insert(b, entries, NewTensors(made)) /\ blobs' = blobs /\ cells' = cells
  BY DEF UpdateManaged
<1>2. taken \cap given = {} /\ taken \subseteq Unfolded /\ Unfolded \subseteq DOMAIN layout
  BY TakenFacts DEF Unfolded
<1>3. DOMAIN entries = S /\ DOMAIN made = given OBVIOUS
<1>4. \A i \in given : /\ entries[i].tensor = NewName(i) /\ entries[i].by = "user"
                       /\ made[i].blob = Null /\ made[i].value = <<calls + 1>>
  BY DEF Entry, OnItsOwn
<1>5. \A i \in taken : entries[i].tensor = maps[3 - b][i].tensor /\ entries[i].by = "other"
  BY <1>2 DEF Entry
<1> HIDE DEF entries, made, taken
<1>6. Lawful(b, entries, made) BY <1>1, <1>2, <1>3, <1>4, <1>5 DEF Lawful, Begin
<1>7. Writes(b, DOMAIN entries) BY <1>1, NothingWritten
<1>8. /\ readiness' \in [1..2 -> Levels] /\ readiness'[3 - b] = readiness[3 - b] /\ readiness'[b] = "INITIALIZED"
  BY <1>1, OtherSide DEF MarkUpdated, StoreInv, StoreTyped, Levels
<1>9. layout' = layout /\ secondary' = secondary /\ calls' = calls + 1 BY <1>1 DEF Begin
<1>10. Updates(b, entries, made) BY <1>1, <1>6, <1>7, <1>8, <1>9 DEF Updates
<1>11. StoreInv' BY <1>8, <1>10, UpdateKeeps
<1>12. ASSUME NEW i \in given PROVE ReadOf(b, i)' = <<calls + 1>>
  <2>1. i \in DOMAIN made /\ made[i].blob = Null /\ made[i].value = <<calls + 1>> BY <1>3, <1>4
  <2>2. ReadOf(b, i)' = made[i].value BY <1>10, <2>1, OwnReads
  <2>. QED BY <2>1, <2>2
<1>13. \A i \in taken : ReadOf(b, i)' = ReadOf(3 - b, i) BY <1>2, <1>3, <1>10, LentReads
<1>14. \A i \in Unfolded \ S : ReadOf(b, i)' = ReadOf(b, i) BY <1>2, <1>3, <1>10, ReadsStay
<1>15. \A i \in Unfolded : ReadOf(3 - b, i)' = ReadOf(3 - b, i) BY <1>2, <1>10, ReadsStay, OtherSide
<1>16. \A i \in Unfolded :
          ReadOf(b, i)' = IF i \in given THEN <<calls + 1>> ELSE IF i \in taken THEN ReadOf(3 - b, i) ELSE ReadOf(b, i)
  BY <1>12, <1>13, <1>14
<1>17. Gives(b, given, taken, <<calls + 1>>) BY <1>9, <1>15, <1>16 DEF Gives
<1>. QED BY <1>11, <1>17 DEF taken

\* A copy into a blob lays every constant where it belongs.
LEMMA WriteBlobFacts ==
    ASSUME StoreInv, NEW b \in 1..2, NEW S \in SUBSET Unfolded, NEW contents, DOMAIN contents = S,
           NEW id, id = IF blobs[b] = Null THEN names ELSE blobs[b],
           WriteBlob(b, id, contents)
    PROVE  /\ Writes(b, S) /\ id \in DOMAIN cells' /\ id # Null
           /\ \A i \in S : \A k \in Extent(i) : cells'[id][k] = contents[i]
PROOF
<1>1. StoreTyped /\ BlobsApart BY DEF StoreInv
<1>2. layout \in Layouts /\ DOMAIN cells \subseteq Used /\ names \in Nat \ {0} /\ DOMAIN blobs = 1..2
  BY <1>1 DEF StoreTyped
<1>3. /\ \A i \in S : Extent(i) \subseteq 0..(BlobSize - 1)
      /\ \A i, j \in S : i # j => Extent(i) \cap Extent(j) = {}
  BY <1>2, ExtentsApart
<1> DEFINE old == IF blobs[b] = Null THEN [c \in 0..(BlobSize - 1) |-> Junk] ELSE cells[id]
<1> DEFINE at == [c \in UNION {Extent(i) : i \in S} |-> contents[CHOOSE i \in S : c \in Extent(i)]]
<1>4. blobs' = [blobs EXCEPT ![b] = id] /\ cells' = Overlaid([x \in {id} |-> Overlaid(at, old)], cells)
  BY DEF WriteBlob
<1>5. names \notin DOMAIN cells BY <1>2 DEF Used
<1>6. id # Null /\ (blobs[b] # Null => id \in DOMAIN cells /\ id = blobs[b]) /\ (blobs[b] = Null => id = names)
  BY <1>1, <1>2 DEF BlobsApart, Null
<1>7. DOMAIN old = 0..(BlobSize - 1) BY <1>1, <1>6 DEF BlobsApart
<1>8. \A i \in S : \A k \in Extent(i) : k \in DOMAIN at /\ at[k] = contents[i]
  <2> SUFFICES ASSUME NEW i \in S, NEW k \in Extent(i) PROVE k \in DOMAIN at /\ at[k] = contents[i]
    OBVIOUS
  <2>1. k \in DOMAIN at OBVIOUS
  <2> DEFINE j == CHOOSE j \in S : k \in Extent(j)
  <2>2. j \in S /\ k \in Extent(j) OBVIOUS
  <2>3. j = i BY <1>3, <2>2
  <2>. QED BY <2>1, <2>3
<1>9. \A k \in DOMAIN at : \E i \in S : k \in Extent(i) OBVIOUS
<1>10. DOMAIN at \subseteq 0..(BlobSize - 1) BY <1>3
<1> HIDE DEF old, at
<1>11. /\ DOMAIN cells' = {id} \cup DOMAIN cells /\ cells'[id] = Overlaid(at, old)
       /\ \A x \in DOMAIN cells \ {id} : cells'[x] = cells[x]
  BY <1>4 DEF Overlaid
<1>12. /\ DOMAIN cells'[id] = 0..(BlobSize - 1)
       /\ \A k \in 0..(BlobSize - 1) : cells'[id][k] = IF k \in DOMAIN at THEN at[k] ELSE old[k]
  BY <1>7, <1>10, <1>11 DEF Overlaid
<1>13. \A i \in S : \A k \in Extent(i) : cells'[id][k] = contents[i]
  BY <1>3, <1>8, <1>12
<1>14. ASSUME NEW x \in DOMAIN cells
       PROVE  /\ x \in DOMAIN cells' /\ DOMAIN cells'[x] = 0..(BlobSize - 1)
              /\ \A c \in 0..(BlobSize - 1) :
                   cells'[x][c] = cells[x][c] \/ (x = blobs[b] /\ \E i \in S \cap Unfolded : c \in Extent(i))
  <2>1. CASE x # id BY <1>1, <1>11, <2>1 DEF BlobsApart
  <2>2. CASE x = id
    <3>1. blobs[b] # Null /\ x = blobs[b] BY <1>5, <1>6, <2>2
    <3>2. old = cells[x] BY <2>2, <3>1 DEF old
    <3>. QED BY <1>9, <1>11, <1>12, <2>2, <3>1, <3>2
  <2>. QED BY <2>1, <2>2
<1>15. \A x \in DOMAIN cells' \ DOMAIN cells : x = names /\ DOMAIN cells'[x] = 0..(BlobSize - 1)
  BY <1>6, <1>11, <1>12
<1>16. /\ DOMAIN blobs' = 1..2 /\ blobs'[3 - b] = blobs[3 - b]
       /\ blobs'[b] = blobs[b] \/ (blobs[b] = Null /\ blobs'[b] = names /\ names \in DOMAIN cells')
  BY <1>2, <1>4, <1>6, <1>11, OtherSide
<1>17. Writes(b, S) BY <1>14, <1>15, <1>16 DEF Writes
<1>. QED BY <1>6, <1>11, <1>13, <1>17

\* update_constant_buffer with copies: what is given, and what is taken from the other
\* buffer, is copied into the blob of b.
LEMMA CopyingGives ==
    ASSUME StoreInv, NEW b \in 1..2, NEW given \in SUBSET Unfolded, UpdateCopying(b, given)
    PROVE  StoreInv' /\ Gives(b, given, Taken(b, given), <<calls + 1>>)
PROOF
<1> DEFINE taken == Taken(b, given)
<1> DEFINE S == given \cup taken
<1> DEFINE id == IF blobs[b] = Null THEN names ELSE blobs[b]
<1> DEFINE entries == [i \in S |-> Entry(NewName(i), "container")]
<1> DEFINE made == [i \in S |-> InBlob(id, i)]
<1> DEFINE contents == [i \in S |-> IF i \in given THEN <<calls + 1>> ELSE Contents(maps[3 - b][i].tensor)]
<1>1. /\ Begin(b, S) /\ taken \subseteq DOMAIN maps[3 - b] /\ MarkUpdated(b)
      /\ Insert(b, entries, NewTensors(made)) /\ WriteBlob(b, id, contents)
  BY DEF UpdateCopying
<1>2. taken \cap given = {} /\ S \subseteq Unfolded /\ Unfolded \subseteq DOMAIN layout
  BY TakenFacts DEF Unfolded
<1>3. DOMAIN entries = S /\ DOMAIN made = S /\ DOMAIN contents = S OBVIOUS
<1>4. \A i \in S : /\ entries[i].tensor = NewName(i) /\ entries[i].by = "container"
                   /\ made[i] = InBlob(id, i) /\ made[i].blob = id /\ made[i].of = i
  BY DEF Entry, InBlob
<1>5. \A i \in S : contents[i] = IF i \in given THEN <<calls + 1>> ELSE ReadOf(3 - b, i)
  BY <1>1, <1>2, MapReads, OtherSide
<1>6. /\ Writes(b, S) /\ id \in DOMAIN cells' /\ id # Null
      /\ \A i \in S : \A k \in Extent(i) : cells'[id][k] = contents[i]
  <2>1. WriteBlob(b, id, contents) /\ S \in SUBSET Unfolded /\ DOMAIN contents = S BY <1>1, <1>2, <1>3
  <2>2. id = IF blobs[b] = Null THEN names ELSE blobs[b] OBVIOUS
  <2> HIDE DEF id, contents, S
  <2>. QED BY <2>1, <2>2, WriteBlobFacts
<1>7. id \in {blobs[b], names} OBVIOUS
<1> HIDE DEF entries, made, contents, taken, id
<1>8. Lawful(b, entries, made) BY <1>1, <1>2, <1>3, <1>4, <1>7 DEF Lawful, Begin
<1>9. /\ readiness' \in [1..2 -> Levels] /\ readiness'[3 - b] = readiness[3 - b] /\ readiness'[b] = "INITIALIZED"
  BY <1>1, OtherSide DEF MarkUpdated, StoreInv, StoreTyped, Levels
<1>10. layout' = layout /\ secondary' = secondary /\ calls' = calls + 1 BY <1>1 DEF Begin
<1>11. Updates(b, entries, made) BY <1>1, <1>3, <1>6, <1>8, <1>9, <1>10 DEF Updates
<1>12. StoreInv' BY <1>9, <1>11, UpdateKeeps
<1>13. ASSUME NEW i \in S PROVE ReadOf(b, i)' = IF layout[i].size = 0 THEN <<0>> ELSE contents[i]
  <2>1. i \in DOMAIN made /\ made[i] = InBlob(id, i) BY <1>3, <1>4
  <2>2. id # Null /\ id \in DOMAIN cells' /\ \A k \in Extent(i) : cells'[id][k] = contents[i] BY <1>6
  <2> HIDE DEF S
  <2>. QED BY <1>11, <2>1, <2>2, BlobReads
<1>14. \A i \in Unfolded \ S : ReadOf(b, i)' = ReadOf(b, i) BY <1>2, <1>3, <1>11, ReadsStay
<1>15. \A i \in Unfolded : ReadOf(3 - b, i)' = ReadOf(3 - b, i) BY <1>2, <1>11, ReadsStay, OtherSide
<1>16. \A i \in Unfolded : layout[i].size > 0 =>
          ReadOf(b, i)' = IF i \in given THEN <<calls + 1>> ELSE IF i \in taken THEN ReadOf(3 - b, i) ELSE ReadOf(b, i)
  BY <1>5, <1>13, <1>14
<1>17. \A i \in Unfolded : layout[i].size = 0 => ReadOf(b, i)' = <<0>> \/ ReadOf(b, i)' = ReadOf(b, i)
  BY <1>13, <1>14
<1>18. Gives(b, given, taken, <<calls + 1>>) BY <1>10, <1>15, <1>16, <1>17 DEF Gives
<1>. QED BY <1>12, <1>18 DEF taken

\* load_constants with a blob that the user gives, for a library without weights.
LEMMA FromBlobGives ==
    ASSUME StoreInv, UpdateFromBlob
    PROVE  StoreInv' /\ Gives(1, Unfolded, {}, <<calls + 1>>)
PROOF
<1> DEFINE entries == [i \in Unfolded |-> Entry(NewName(i), "container")]
<1> DEFINE made == [i \in Unfolded |-> InBlob(names, i)]
<1> DEFINE fresh == [c \in 0..(BlobSize - 1) |-> <<calls + 1>>]
<1>1. /\ maps[1] = <<>> /\ Begin(1, {}) /\ cells' = Overlaid([x \in {names} |-> fresh], cells)
      /\ Insert(1, entries, NewTensors(made)) /\ readiness' = readiness /\ blobs' = blobs
  BY DEF UpdateFromBlob
<1>2. StoreTyped /\ BlobsApart /\ Linked(1) BY DEF StoreInv
<1>3. /\ layout \in Layouts /\ names \in Nat \ {0} /\ DOMAIN cells \subseteq Used /\ DOMAIN blobs = 1..2
      /\ readiness \in [1..2 -> Levels]
  BY <1>2 DEF StoreTyped
<1>4. names \notin DOMAIN cells /\ names # Null BY <1>3 DEF Used, Null
<1>5. DOMAIN maps[1] = {} BY <1>1
<1>6. DOMAIN entries = Unfolded /\ DOMAIN made = Unfolded /\ Unfolded \subseteq DOMAIN layout BY DEF Unfolded
<1>7. \A i \in Unfolded : /\ entries[i].tensor = NewName(i) /\ entries[i].by = "container"
                          /\ made[i] = InBlob(names, i) /\ made[i].blob = names /\ made[i].of = i
  BY DEF Entry, InBlob
<1>8. DOMAIN fresh = 0..(BlobSize - 1) /\ \A k \in 0..(BlobSize - 1) : fresh[k] = <<calls + 1>> OBVIOUS
<1> HIDE DEF entries, made, fresh
<1>9. /\ DOMAIN cells' = {names} \cup DOMAIN cells /\ cells'[names] = fresh
      /\ \A x \in DOMAIN cells : cells'[x] = cells[x]
  BY <1>1, <1>4 DEF Overlaid
<1>10. Lawful(1, entries, made)
  <2>1. Lent(1) = {} BY <1>5 DEF Lent
  <2>. QED BY <1>4, <1>6, <1>7, <2>1 DEF Lawful
<1>11. Writes(1, DOMAIN entries)
  <2>1. \A id \in DOMAIN cells : DOMAIN cells[id] = 0..(BlobSize - 1) BY <1>2 DEF BlobsApart
  <2>. QED BY <1>1, <1>3, <1>8, <1>9, <2>1 DEF Writes
<1>12. readiness[1] = "FOLDED" => Folded = {} BY <1>2, <1>5 DEF Linked
<1>13. layout' = layout /\ secondary' = secondary /\ calls' = calls + 1 BY <1>1 DEF Begin
<1>14. Updates(1, entries, made) BY <1>1, <1>3, <1>10, <1>11, <1>12, <1>13 DEF Updates
<1>15. StoreInv' BY <1>1, <1>12, <1>14, UpdateKeeps
<1>16. ASSUME NEW i \in Unfolded PROVE ReadOf(1, i)' = IF layout[i].size = 0 THEN <<0>> ELSE <<calls + 1>>
  <2>1. i \in DOMAIN made /\ made[i] = InBlob(names, i) BY <1>6, <1>7
  <2>2. names \in DOMAIN cells' /\ \A k \in Extent(i) : cells'[names][k] = <<calls + 1>>
    BY <1>3, <1>8, <1>9, ExtentsApart
  <2> DEFINE id == names
  <2> DEFINE v == <<calls + 1>>
  <2>3. /\ id # Null /\ made[i] = InBlob(id, i) /\ id \in DOMAIN cells'
        /\ \A k \in Extent(i) : cells'[id][k] = v
    BY <1>4, <2>1, <2>2
  <2>4. 1 \in 1..2 OBVIOUS
  <2> HIDE DEF id, v
  <2>5. ReadOf(1, i)' = IF layout[i].size = 0 THEN <<0>> ELSE v BY <1>14, <2>1, <2>3, <2>4, BlobReads
  <2>. QED BY <2>5 DEF v
<1>17. \A i \in Unfolded : ReadOf(3 - 1, i)' = ReadOf(3 - 1, i) BY <1>6, <1>14, ReadsStay, OtherSide
<1>18. /\ \A i \in Unfolded : layout[i].size > 0 => ReadOf(1, i)' = <<calls + 1>>
       /\ \A i \in Unfolded : layout[i].size = 0 => ReadOf(1, i)' = <<0>>
  BY <1>16
<1>19. Gives(1, Unfolded, {}, <<calls + 1>>) BY <1>13, <1>17, <1>18 DEF Gives
<1>. QED BY <1>15, <1>19

\* What a fold leaves alone: every weight that models read.
ReadsKept == layout' = layout /\ \A c \in 1..2, i \in Unfolded : ReadOf(c, i)' = ReadOf(c, i)

\* What can be read has an entry in the map.
LEMMA ReadIsMapped ==
    ASSUME StoreInv, NEW c \in 1..2, NEW i \in Unfolded, ReadOf(c, i) # Junk
    PROVE  i \in DOMAIN maps[c]
PROOF
<1>1. Linked(c) /\ StoreTyped /\ i \in DOMAIN layout BY DEF StoreInv, Unfolded
<1>2. SUFFICES ASSUME i \notin DOMAIN maps[c] PROVE FALSE OBVIOUS
<1>3. arrays[c][i] = Null BY <1>1, <1>2 DEF Linked
<1>4. Null \notin DOMAIN tensors BY <1>1 DEF StoreTyped, Used, Null
<1>. QED BY <1>3, <1>4 DEF ReadOf, Contents

\* A fold reads the weights of its buffer, and the clones it puts there are of weights that
\* are the same on both sides.
LEMMA FoldKeeps ==
    ASSUME StoreInv, NEW b \in 1..2, Fold(b)
    PROVE  StoreInv' /\ ReadsKept /\ secondary' = secondary
PROOF
<1> DEFINE cloned == IF b # ActiveSide THEN Tensors ELSE {}
<1> DEFINE D == Folded \cup cloned
<1> DEFINE entries == [i \in D |-> Entry(NewName(i), "container")]
<1> DEFINE made == [i \in D |-> OnItsOwn(IF i \in Folded THEN FoldOf(b) ELSE Contents(maps[3 - b][i].tensor))]
<1>1. /\ LoadedSide(b) /\ (b # ActiveSide => TensorConstantsAgree) /\ Begin(b, cloned)
      /\ readiness' = [readiness EXCEPT ![b] = "FOLDED"]
      /\ Insert(b, entries, NewTensors(made)) /\ blobs' = blobs /\ cells' = cells
  BY DEF Fold
<1>2. /\ cloned \subseteq Unfolded /\ Folded \cap Unfolded = {} /\ Unfolded \subseteq DOMAIN layout
      /\ Folded \subseteq DOMAIN layout
  BY DEF Tensors, Folded, Unfolded
<1>3. \A i \in cloned : i \in Tensors /\ b # ActiveSide OBVIOUS
<1>4. DOMAIN entries = D /\ DOMAIN made = D OBVIOUS
<1>5. \A i \in D : /\ entries[i].tensor = NewName(i) /\ entries[i].by = "container" /\ made[i].blob = Null
                   /\ made[i].value = IF i \in Folded THEN FoldOf(b) ELSE Contents(maps[3 - b][i].tensor)
  BY DEF Entry, OnItsOwn
<1> HIDE DEF entries, made, cloned
<1>6. Folded \cap Lent(b) = {}
  <2> SUFFICES ASSUME NEW i \in Folded, i \in Lent(b) PROVE FALSE OBVIOUS
  <2>1. Borrowed(3 - b) BY OtherSide DEF StoreInv
  <2>. QED BY <1>2, <2>1 DEF Lent, Borrowed
<1>7. Lawful(b, entries, made) BY <1>1, <1>2, <1>4, <1>5, <1>6 DEF Lawful, Begin
<1>8. Writes(b, DOMAIN entries) BY <1>1, NothingWritten
<1>9. readiness' \in [1..2 -> Levels] /\ readiness'[3 - b] = readiness[3 - b]
  BY <1>1, OtherSide DEF StoreInv, StoreTyped, Levels
<1>10. layout' = layout /\ secondary' = secondary /\ calls' = calls + 1 BY <1>1 DEF Begin
<1>11. Updates(b, entries, made) BY <1>1, <1>4, <1>7, <1>8, <1>9, <1>10 DEF Updates
<1>12. ASSUME NEW i \in D PROVE ReadOf(b, i)' = made[i].value
  <2>1. i \in DOMAIN made /\ made[i].blob = Null BY <1>4, <1>5
  <2> HIDE DEF D
  <2>. QED BY <1>11, <2>1, OwnReads
<1>13. ASSUME NEW i \in cloned PROVE ReadOf(b, i)' = ReadOf(b, i)
  <2>1. i \in Unfolded /\ i \in Tensors /\ TensorConstantsAgree /\ i \notin Folded BY <1>1, <1>2, <1>3
  <2>2. ReadOf(b, i) = ReadOf(3 - b, i) BY <2>1 DEF TensorConstantsAgree
  <2>3. ReadOf(3 - b, i) # Junk BY <1>1, <2>1, <2>2 DEF LoadedSide
  <2>4. i \in DOMAIN maps[3 - b] BY <2>1, <2>3, OtherSide, ReadIsMapped
  <2>5. Contents(maps[3 - b][i].tensor) = ReadOf(3 - b, i) BY <2>1, <2>4, OtherSide, MapReads
  <2>6. ReadOf(b, i)' = Contents(maps[3 - b][i].tensor) BY <1>5, <1>12, <2>1
  <2>. QED BY <2>2, <2>5, <2>6
<1>14. \A i \in Unfolded \ cloned : ReadOf(b, i)' = ReadOf(b, i) BY <1>2, <1>4, <1>11, ReadsStay
<1>15. \A i \in Unfolded : ReadOf(3 - b, i)' = ReadOf(3 - b, i) BY <1>2, <1>11, ReadsStay, OtherSide
<1>16. \A i \in Unfolded : ReadOf(b, i)' = ReadOf(b, i) BY <1>13, <1>14
<1>17. ReadsKept BY <1>10, <1>15, <1>16, OtherSide DEF ReadsKept
<1>18. FoldOf(b)' = FoldOf(b)
  <2>1. Unfolded' = Unfolded BY <1>10, LayoutStays
  <2>. QED BY <1>16, <2>1 DEF FoldOf
<1>19. \A i \in Folded : ReadOf(b, i)' = FoldOf(b)' BY <1>5, <1>12, <1>18
<1>20. StoreInv' BY <1>11, <1>19, UpdateKeeps
<1>. QED BY <1>10, <1>17, <1>20

\* Nothing but the choice of the buffer in use and the calls is changed.
MemoryStays == UNCHANGED <<layout, readiness, blobs, cells, tensors, maps, arrays, names>>

\* So what is read stays as it is.
LEMMA MemoryStaysKeeps ==
    ASSUME StoreInv, MemoryStays, secondary' \in BOOLEAN, calls' \in Nat
    PROVE  StoreInv' /\ ReadsKept
PROOF
<1>1. /\ layout' = layout /\ readiness' = readiness /\ blobs' = blobs /\ cells' = cells /\ tensors' = tensors
      /\ maps' = maps /\ arrays' = arrays /\ names' = names
  BY DEF MemoryStays
<1>2. Unfolded' = Unfolded /\ Folded' = Folded /\ BlobSize' = BlobSize /\ \A i : Extent(i)' = Extent(i)
  BY <1>1, LayoutStays
<1>3. ASSUME NEW t PROVE Contents(t)' = Contents(t)
  <2> DEFINE x == tensors[t]
  <2>1. CASE t \notin DOMAIN tensors \/ x.blob = Null \/ x.blob \notin DOMAIN cells
    BY <1>1, <2>1 DEF Contents, Null, Junk
  <2>2. CASE t \in DOMAIN tensors /\ x.blob # Null /\ x.blob \in DOMAIN cells
    <3> DEFINE of == x.of
    <3> DEFINE id == x.blob
    <3>1. tensors'[t].of = of /\ tensors'[t].blob = id /\ Extent(of)' = Extent(of) BY <1>1, <1>2
    <3>2. Contents(t) = Whole({cells[id][k] : k \in Extent(of)}) BY <2>2 DEF Contents
    <3>3. Contents(t)' = Whole({cells'[id][k] : k \in Extent(of)'})
      BY <1>1, <2>2, <3>1 DEF Contents, Null, Whole
    <3>. QED BY <1>1, <3>1, <3>2, <3>3
  <2>. QED BY <2>1, <2>2
<1>4. \A c, i : ReadOf(c, i)' = ReadOf(c, i) BY <1>1, <1>3 DEF ReadOf
<1>5. \A c : FoldOf(c)' = FoldOf(c) BY <1>2, <1>4 DEF FoldOf
<1>6. StoreTyped' BY <1>1 DEF StoreInv, StoreTyped, Used, Null
<1>7. BlobsApart' BY <1>1, <1>2 DEF StoreInv, BlobsApart, Null
<1>8. OwnersApart' BY <1>1 DEF StoreInv, OwnersApart, Null
<1>9. ASSUME NEW c \in 1..2 PROVE Linked(c)' /\ Seated(c)' /\ Borrowed(c)'
  <2>1. Linked(c) /\ Seated(c) /\ Borrowed(c) BY DEF StoreInv
  <2>2. Linked(c)' BY <1>1, <1>2, <2>1 DEF Linked, Null
  <2>3. Seated(c)' BY <1>1, <1>2, <2>1 DEF Seated, Null, Used
  <2>4. Borrowed(c)' BY <1>1, <1>2, <2>1 DEF Borrowed
  <2>. QED BY <2>2, <2>3, <2>4
<1>10. FoldedUpToDate' BY <1>1, <1>2, <1>4, <1>5 DEF StoreInv, FoldedUpToDate
<1>11. ReadsKept BY <1>1, <1>4 DEF ReadsKept
<1>. QED BY <1>6, <1>7, <1>8, <1>9, <1>10, <1>11 DEF StoreInv

\* What a release of buffer b takes away: its blob, and the folded constants in its map.
Dropped(b) == Folded \cap DOMAIN maps[b]

Releases(b) ==
    /\ layout' = layout /\ secondary' = secondary /\ calls' = calls + 1 /\ arrays' = arrays /\ names' = names
    /\ Lent(b) = {}
    /\ readiness' = [readiness EXCEPT ![b] = "NONE"] /\ blobs' = [blobs EXCEPT ![b] = Null]
    /\ cells' = [id \in DOMAIN cells \ {blobs[b]} |-> cells[id]]
    /\ tensors' = [t \in DOMAIN tensors \ {maps[b][i].tensor : i \in Dropped(b)} |-> tensors[t]]
    /\ maps' = [maps EXCEPT ![b] =
                  [i \in DOMAIN @ |-> IF i \in Dropped(b) THEN Entry(Null, "container") ELSE @[i]]]

\* A release that nobody borrows from does just that.
LEMMA ReleaseIs ==
    ASSUME StoreInv, ReleaseInactive
    PROVE  ReleasedSide \in 1..2 /\ ReleasedSide = 3 - ActiveSide /\ ActiveSide \in 1..2 /\ Releases(ReleasedSide)
PROOF
<1> DEFINE b == ReleasedSide
<1>1. ReleasedSide \in 1..2 /\ ReleasedSide = 3 - ActiveSide /\ ActiveSide \in 1..2 BY DEF ReleasedSide, ActiveSide
<1>2. Begin(b, DOMAIN maps[b]) BY DEF ReleaseInactive
<1>3. Lent(b) = {} BY <1>2 DEF Begin, Lent
<1> HIDE DEF b
<1>4. Releases(b) BY <1>2, <1>3 DEF ReleaseInactive, Releases, Dropped, Begin, BlobsWithout, b
<1>. QED BY <1>1, <1>4 DEF b

\* An entry of a map after a release.
LEMMA EntriesReleased ==
    ASSUME StoreInv, NEW b \in 1..2, Releases(b)
    PROVE  /\ DOMAIN maps' = 1..2 /\ maps'[3 - b] = maps[3 - b] /\ DOMAIN maps'[b] = DOMAIN maps[b]
           /\ \A i \in Dropped(b) : i \in DOMAIN maps[b] /\ maps'[b][i].tensor = Null /\ maps'[b][i].by = "container"
           /\ \A i \in DOMAIN maps[b] \ Dropped(b) : maps'[b][i] = maps[b][i]
           /\ \A i \in DOMAIN maps[b] \ Dropped(b) : i \in Unfolded
           /\ \A i \in DOMAIN maps[3 - b] : maps[3 - b][i].by # "other"
           /\ Null \notin DOMAIN tensors
PROOF
<1>1. StoreTyped /\ Borrowed(3 - b) BY OtherSide DEF StoreInv
<1>2. DOMAIN maps = 1..2 /\ DOMAIN maps[b] \subseteq DOMAIN layout BY <1>1 DEF StoreTyped
<1> DEFINE m == [i \in DOMAIN maps[b] |-> IF i \in Dropped(b) THEN Entry(Null, "container") ELSE maps[b][i]]
<1>3. maps' = [maps EXCEPT ![b] = m] BY DEF Releases
<1>4. /\ DOMAIN m = DOMAIN maps[b] /\ Dropped(b) \subseteq DOMAIN maps[b]
      /\ \A i \in DOMAIN maps[b] : m[i] = IF i \in Dropped(b) THEN Entry(Null, "container") ELSE maps[b][i]
  BY DEF Dropped
<1> HIDE DEF m
<1>5. DOMAIN maps' = 1..2 /\ maps'[3 - b] = maps[3 - b] /\ maps'[b] = m BY <1>2, <1>3, OtherSide
<1>6. \A i \in Dropped(b) : i \in DOMAIN maps[b] /\ maps'[b][i].tensor = Null /\ maps'[b][i].by = "container"
  BY <1>4, <1>5 DEF Entry
<1>7. \A i \in DOMAIN maps[b] \ Dropped(b) : i \in Unfolded BY <1>2 DEF Dropped, Folded
<1>8. ASSUME NEW i \in DOMAIN maps[3 - b], maps[3 - b][i].by = "other" PROVE FALSE
  <2>1. i \in DOMAIN maps[b] /\ maps[b][i].tensor = maps[3 - b][i].tensor
    BY <1>1, <1>8, OtherSide DEF Borrowed
  <2>2. i \in Lent(b) BY <1>8, <2>1 DEF Lent
  <2>. QED BY <2>2 DEF Releases
<1>9. Null \notin DOMAIN tensors BY <1>1 DEF StoreTyped, Used, Null
<1>. QED BY <1>4, <1>5, <1>6, <1>7, <1>8, <1>9

\* Of what the other buffer reads nothing is released; of the weights of this buffer
\* nothing but its blob.
LEMMA ReadsReleased ==
    ASSUME StoreInv, NEW b \in 1..2, Releases(b), NEW c \in 1..2, NEW i \in DOMAIN layout,
           i \in Unfolded \/ (c # b /\ readiness[c] = "FOLDED")
    PROVE  IF c = b THEN ReadOf(c, i)' \in {ReadOf(c, i), Junk} ELSE ReadOf(c, i)' = ReadOf(c, i)
PROOF
<1>1. Linked(c) /\ Seated(c) /\ OwnersApart /\ Borrowed(b) BY DEF StoreInv
<1>2. /\ layout' = layout /\ arrays' = arrays
      /\ DOMAIN tensors' = DOMAIN tensors \ {maps[b][j].tensor : j \in Dropped(b)}
      /\ \A u \in DOMAIN tensors' : tensors'[u] = tensors[u]
      /\ DOMAIN cells' = DOMAIN cells \ {blobs[b]} /\ \A id \in DOMAIN cells' : cells'[id] = cells[id]
  BY DEF Releases
<1>3. /\ \A j \in DOMAIN maps[3 - b] : maps[3 - b][j].by # "other"
      /\ Null \notin DOMAIN tensors
      /\ \A j \in Dropped(b) : j \in DOMAIN maps[b] /\ j \notin Unfolded
  BY EntriesReleased DEF Dropped, Folded
<1> DEFINE t == arrays[c][i]
<1>4. t = IF i \in DOMAIN maps[c] THEN maps[c][i].tensor ELSE Null BY <1>1 DEF Linked
<1>5. arrays[c][i] = t /\ arrays'[c][i] = t BY <1>2
<1> HIDE DEF t
<1>6. CASE t \notin DOMAIN tensors BY <1>2, <1>6, <1>5 DEF ReadOf, Contents, Junk
<1>7. CASE t \in DOMAIN tensors
  <2>1. i \in DOMAIN maps[c] /\ t = maps[c][i].tensor /\ t # Null BY <1>3, <1>4, <1>7
  <2>2. t \in DOMAIN tensors'
    <3> SUFFICES ASSUME NEW j \in Dropped(b), t = maps[b][j].tensor PROVE FALSE BY <1>2, <1>7
    <3>0. j \in DOMAIN maps[b] /\ maps[c][i].tensor = maps[b][j].tensor /\ maps[c][i].tensor # Null BY <1>3, <2>1
    <3>1. i = j /\ (c # b => maps[b][j].by = "other" \/ maps[c][i].by = "other")
      <4>1. \A k \in DOMAIN maps[c], l \in DOMAIN maps[b] :
              maps[c][k].tensor = maps[b][l].tensor /\ maps[c][k].tensor # Null =>
                  k = l /\ (c # b => maps[c][k].by = "other" \/ maps[b][l].by = "other")
        BY <1>1 DEF OwnersApart
      <4>. QED BY <2>1, <3>0, <4>1
    <3>2. c # b BY <1>3, <3>1
    <3>3. maps[b][j].by = "other" BY <1>3, <2>1, <3>1, <3>2, OtherSide
    <3>4. j \in Unfolded BY <1>1, <1>3, <3>3 DEF Borrowed
    <3>. QED BY <1>3, <3>4
  <2> DEFINE x == tensors[t]
  <2>3. tensors'[t] = x BY <1>2, <2>2
  <2>4. CASE x.blob = Null BY <1>2, <1>7, <1>5, <2>2, <2>3, <2>4 DEF ReadOf, Contents, Null, Junk
  <2>5. CASE x.blob # Null /\ x.blob \notin DOMAIN cells'
    <3>1. ReadOf(c, i)' = Junk BY <1>2, <1>5, <2>2, <2>3, <2>5 DEF ReadOf, Contents, Null, Junk
    <3>2. CASE c = b BY <3>1, <3>2
    <3>3. CASE c # b
      <4>1. c = 3 - b /\ 3 - c = b BY <3>3, OtherSide
      <4>2. maps[c][i].by # "other" BY <1>3, <2>1, <4>1
      <4>3. x.blob # blobs[b] BY <1>1, <1>7, <2>1, <2>5, <4>1, <4>2 DEF Seated
      <4>4. x.blob \notin DOMAIN cells BY <1>2, <2>5, <4>3
      <4>5. ReadOf(c, i) = Junk BY <1>7, <1>5, <2>5, <4>4 DEF ReadOf, Contents
      <4>. QED BY <3>1, <3>3, <4>5
    <3>. QED BY <3>2, <3>3
  <2>6. CASE x.blob # Null /\ x.blob \in DOMAIN cells'
    <3>1. x.blob \in DOMAIN cells /\ cells'[x.blob] = cells[x.blob] BY <1>2, <2>6
    <3>2. x.of = i BY <1>1, <1>7, <2>1, <2>6 DEF Seated
    <3>3. Extent(i)' = Extent(i) BY <1>2, LayoutStays
    <3>4. ReadOf(c, i) = Whole({cells[x.blob][k] : k \in Extent(i)})
      BY <1>7, <1>5, <2>6, <3>1, <3>2 DEF ReadOf, Contents
    <3>5. ReadOf(c, i)' = Whole({cells'[x.blob][k] : k \in Extent(i)'})
      BY <1>5, <2>2, <2>3, <2>6, <3>2 DEF ReadOf, Contents, Null, Whole
    <3>. QED BY <3>1, <3>3, <3>4, <3>5
  <2>. QED BY <2>4, <2>5, <2>6
<1>. QED BY <1>6, <1>7

\* A release keeps the invariant.
LEMMA ReleaseKeeps ==
    ASSUME StoreInv, NEW b \in 1..2, Releases(b)
    PROVE  StoreInv'
PROOF
<1>1. /\ StoreTyped /\ BlobsApart /\ OwnersApart /\ \A c \in 1..2 : Linked(c) /\ Seated(c) /\ Borrowed(c)
      /\ FoldedUpToDate
  BY DEF StoreInv
<1>2. /\ layout' = layout /\ secondary' = secondary /\ calls' = calls + 1 /\ arrays' = arrays /\ names' = names
      /\ readiness' = [readiness EXCEPT ![b] = "NONE"] /\ blobs' = [blobs EXCEPT ![b] = Null]
      /\ DOMAIN tensors' \subseteq DOMAIN tensors /\ \A u \in DOMAIN tensors' : tensors'[u] = tensors[u]
      /\ DOMAIN cells' = DOMAIN cells \ {blobs[b]} /\ \A id \in DOMAIN cells' : cells'[id] = cells[id]
  BY DEF Releases
<1>3. Unfolded' = Unfolded /\ Folded' = Folded /\ BlobSize' = BlobSize /\ Used' = Used
  BY <1>2, LayoutStays DEF Used
<1>4. 3 - b \in 1..2 /\ 3 - b # b /\ 3 - (3 - b) = b /\ \A c \in 1..2 : c = b \/ c = 3 - b BY OtherSide
<1>5. /\ DOMAIN maps' = 1..2 /\ maps'[3 - b] = maps[3 - b] /\ DOMAIN maps'[b] = DOMAIN maps[b]
      /\ \A i \in Dropped(b) : i \in DOMAIN maps[b] /\ maps'[b][i].tensor = Null /\ maps'[b][i].by = "container"
      /\ \A i \in DOMAIN maps[b] \ Dropped(b) : maps'[b][i] = maps[b][i] /\ i \in Unfolded
      /\ \A i \in DOMAIN maps[3 - b] : maps[3 - b][i].by # "other"
      /\ Null \notin DOMAIN tensors
  BY EntriesReleased
<1>6. \A c \in 1..2 : DOMAIN maps'[c] = DOMAIN maps[c] BY <1>4, <1>5
<1>7. ASSUME NEW c \in 1..2, NEW i \in DOMAIN maps[c]
      PROVE  maps'[c][i] = maps[c][i] \/ (c = b /\ i \in Dropped(b) /\ maps'[c][i].tensor = Null /\ maps'[c][i].by = "container")
  BY <1>4, <1>5
<1>8. /\ DOMAIN blobs' = 1..2 /\ blobs'[b] = Null /\ blobs'[3 - b] = blobs[3 - b]
      /\ readiness' \in [1..2 -> Levels] /\ readiness'[b] = "NONE" /\ readiness'[3 - b] = readiness[3 - b]
  BY <1>1, <1>2, <1>4 DEF StoreTyped, Levels
<1>9. StoreTyped'
  <2>1. /\ layout' \in Layouts /\ secondary' \in BOOLEAN /\ calls' \in Nat /\ names' \in Nat \ {0}
        /\ DOMAIN arrays' = 1..2 /\ \A c \in 1..2 : DOMAIN arrays'[c] = DOMAIN layout'
        /\ DOMAIN cells' \subseteq Used' /\ DOMAIN tensors' \subseteq Used'
    BY <1>1, <1>2, <1>3 DEF StoreTyped
  <2>2. \A c \in 1..2 : DOMAIN maps'[c] \subseteq DOMAIN layout' BY <1>1, <1>2, <1>6 DEF StoreTyped
  <2>3. \A c \in 1..2 : \A i \in DOMAIN maps'[c] : maps'[c][i].tensor \in Used' \cup {Null}
    <3>1. \A c \in 1..2 : \A i \in DOMAIN maps[c] : maps[c][i].tensor \in Used \cup {Null} BY <1>1 DEF StoreTyped
    <3>. QED BY <1>3, <1>6, <1>7, <3>1
  <2>. QED BY <1>5, <1>8, <2>1, <2>2, <2>3 DEF StoreTyped, Null
<1>10. BlobsApart'
  <2>1. blobs[3 - b] = blobs[b] => blobs[b] = Null BY <1>1, <1>4 DEF BlobsApart
  <2>2. blobs[3 - b] = Null \/ blobs[3 - b] \in DOMAIN cells BY <1>1, <1>4 DEF BlobsApart
  <2>3. \A c \in 1..2 : blobs'[c] = Null \/ blobs'[c] \in DOMAIN cells' BY <1>2, <1>4, <1>8, <2>1, <2>2
  <2>4. blobs'[1] = blobs'[2] => blobs'[1] = Null BY <1>4, <1>8
  <2>5. \A id \in DOMAIN cells' : DOMAIN cells'[id] = 0..(BlobSize' - 1) BY <1>1, <1>2, <1>3 DEF BlobsApart
  <2>. QED BY <2>3, <2>4, <2>5 DEF BlobsApart, Null
<1>11. OwnersApart'
  <2>1. SUFFICES ASSUME NEW c \in 1..2, NEW d \in 1..2, NEW i \in DOMAIN maps'[c], NEW j \in DOMAIN maps'[d],
                        maps'[c][i].tensor = maps'[d][j].tensor, maps'[c][i].tensor # Null
                 PROVE  i = j /\ (c # d => maps'[c][i].by = "other" \/ maps'[d][j].by = "other")
    BY DEF OwnersApart, Null
  <2>2. maps'[c][i] = maps[c][i] /\ maps'[d][j] = maps[d][j] BY <1>6, <1>7, <2>1
  <2>. QED BY <1>1, <1>6, <2>1, <2>2 DEF OwnersApart
<1>12. ASSUME NEW c \in 1..2 PROVE Linked(c)'
  <2>1. Linked(c) /\ arrays' = arrays BY <1>1, <1>2
  <2>2. readiness'[c] = "FOLDED" => c # b /\ readiness[c] = "FOLDED" /\ maps'[c] = maps[c] BY <1>4, <1>5, <1>8
  <2>3. \A i \in DOMAIN maps[c] : i \in Unfolded => maps'[c][i] = maps[c][i]
    BY <1>7 DEF Dropped, Folded
  <2>4. readiness'[c] = "FOLDED" => Folded' \subseteq DOMAIN maps'[c] BY <1>3, <2>1, <2>2 DEF Linked
  <2>5. ASSUME NEW i \in DOMAIN layout
        PROVE  IF i \in DOMAIN maps'[c]
               THEN i \in Unfolded \/ readiness'[c] = "FOLDED" => arrays'[c][i] = maps'[c][i].tensor
               ELSE arrays'[c][i] = Null
    BY <1>6, <2>1, <2>2, <2>3 DEF Linked
  <2>. QED BY <1>2, <1>3, <2>4, <2>5 DEF Linked, Null
<1>13. ASSUME NEW c \in 1..2 PROVE Seated(c)'
  <2>1. SUFFICES ASSUME NEW i \in DOMAIN maps'[c], maps'[c][i].tensor \in DOMAIN tensors',
                        tensors'[maps'[c][i].tensor].blob # Null
                 PROVE  /\ tensors'[maps'[c][i].tensor].of = i /\ i \in Unfolded
                        /\ tensors'[maps'[c][i].tensor].blob \in Used
                        /\ maps'[c][i].by # "other" => tensors'[maps'[c][i].tensor].blob # blobs'[3 - c]
    BY <1>3 DEF Seated, Null
  <2>2. i \in DOMAIN maps[c] /\ maps'[c][i] = maps[c][i] BY <1>2, <1>5, <1>6, <1>7, <2>1
  <2> DEFINE t == maps[c][i].tensor
  <2>3. t \in DOMAIN tensors /\ tensors'[t] = tensors[t] /\ tensors[t].blob # Null BY <1>2, <2>1, <2>2
  <2>4. Seated(c) BY <1>1
  <2>5. /\ tensors[t].of = i /\ i \in Unfolded /\ tensors[t].blob \in Used
        /\ maps[c][i].by # "other" => tensors[t].blob # blobs[3 - c]
    BY <2>2, <2>3, <2>4 DEF Seated
  <2>6. blobs'[3 - c] = blobs[3 - c] \/ blobs'[3 - c] = Null BY <1>4, <1>8
  <2>. QED BY <2>2, <2>3, <2>5, <2>6
<1>14. ASSUME NEW c \in 1..2 PROVE Borrowed(c)'
  <2>1. SUFFICES ASSUME NEW i \in DOMAIN maps'[c], maps'[c][i].by = "other"
                 PROVE  /\ i \in Unfolded /\ i \in DOMAIN maps'[3 - c]
                        /\ maps'[3 - c][i].by # "other" /\ maps'[3 - c][i].tensor = maps'[c][i].tensor
    BY <1>3 DEF Borrowed
  <2>2. i \in DOMAIN maps[c] /\ maps'[c][i] = maps[c][i] BY <1>6, <1>7, <2>1
  <2>3. c = b BY <1>4, <1>5, <2>1, <2>2
  <2>4. Borrowed(c) BY <1>1
  <2>. QED BY <1>5, <2>1, <2>2, <2>3, <2>4 DEF Borrowed
<1>15. FoldedUpToDate'
  <2>1. SUFFICES ASSUME NEW c \in 1..2, NEW i \in Folded, readiness'[c] = "FOLDED"
                 PROVE  ReadOf(c, i)' = FoldOf(c)'
    BY <1>3 DEF FoldedUpToDate
  <2>2. c # b /\ readiness[c] = "FOLDED" BY <1>4, <1>8, <2>1
  <2>3. i \in DOMAIN layout /\ Unfolded \subseteq DOMAIN layout BY DEF Folded, Unfolded
  <2>4. ReadOf(c, i)' = ReadOf(c, i) BY <2>2, <2>3, ReadsReleased
  <2>5. \A j \in Unfolded : ReadOf(c, j)' = ReadOf(c, j) BY <2>2, <2>3, ReadsReleased
  <2>6. FoldOf(c)' = FoldOf(c) BY <1>3, <2>5 DEF FoldOf
  <2>7. ReadOf(c, i) = FoldOf(c) BY <1>1, <2>2 DEF FoldedUpToDate
  <2>. QED BY <2>4, <2>6, <2>7
<1>. QED BY <1>9, <1>10, <1>11, <1>12, <1>13, <1>14, <1>15 DEF StoreInv

-----------------------------------------------------------------------------
(* The specification.                                                       *)

\* The constructor establishes the invariant.
LEMMA StoreInvInit ==
    ASSUME StoreInit PROVE StoreInv
PROOF
<1>1. PICK l \in Layouts, included \in BOOLEAN :
        LET S == IF included THEN {i \in DOMAIN l : l[i].kind # "folded"} ELSE {}
        IN /\ layout = l /\ secondary = FALSE /\ readiness = <<"INITIALIZED", "NONE">>
           /\ blobs = <<IF included THEN 1 ELSE Null, Null>>
           /\ cells = [x \in IF included THEN {1} ELSE {} |-> [c \in 0..(BlobSize - 1) |-> <<0>>]]
           /\ tensors = [t \in {1 + i : i \in S} |-> InBlob(1, t - 1)]
           /\ maps = <<[i \in S |-> Entry(1 + i, "container")], <<>>>>
           /\ arrays = <<[i \in DOMAIN l |-> IF i \in S THEN 1 + i ELSE Null], [i \in DOMAIN l |-> Null]>>
           /\ calls = 0 /\ names = Len(l) + 2
  BY DEF StoreInit
<1> DEFINE S == IF included THEN Unfolded ELSE {}
<1>2. layout = l /\ Len(layout) \in Nat /\ DOMAIN layout = 1..Len(layout) /\ layout \in Layouts
  BY <1>1, LayoutFacts
<1>3. S \subseteq Unfolded /\ Unfolded \subseteq 1..Len(layout) BY <1>2 DEF Unfolded
<1>4. /\ secondary = FALSE /\ readiness = <<"INITIALIZED", "NONE">> /\ calls = 0 /\ names = Len(layout) + 2
      /\ tensors = [t \in {1 + i : i \in S} |-> InBlob(1, t - 1)]
      /\ maps = <<[i \in S |-> Entry(1 + i, "container")], <<>>>>
      /\ arrays = <<[i \in DOMAIN layout |-> IF i \in S THEN 1 + i ELSE Null], [i \in DOMAIN layout |-> Null]>>
  BY <1>1, <1>2 DEF Unfolded
<1>5. /\ blobs = <<IF included THEN 1 ELSE Null, Null>>
      /\ cells = [x \in IF included THEN {1} ELSE {} |-> [c \in 0..(BlobSize - 1) |-> <<0>>]]
  BY <1>1
<1>6. ~included => S = {} OBVIOUS
<1> HIDE DEF S
<1>7. /\ DOMAIN maps[1] = S /\ DOMAIN maps[2] = {}
      /\ \A i \in S : maps[1][i].tensor = 1 + i /\ maps[1][i].by = "container"
  BY <1>4 DEF Entry
<1>8. /\ DOMAIN tensors = {1 + i : i \in S}
      /\ \A i \in S : 1 + i \in DOMAIN tensors /\ tensors[1 + i].blob = 1 /\ tensors[1 + i].of = i
  <2>1. \A i \in S : (1 + i) - 1 = i BY <1>3
  <2>. QED BY <1>4, <2>1 DEF InBlob
<1>9. /\ arrays[1] = [i \in DOMAIN layout |-> IF i \in S THEN 1 + i ELSE Null]
      /\ arrays[2] = [i \in DOMAIN layout |-> Null]
  BY <1>4
<1>10. StoreTyped
  <2>1. \A i \in S : 1 + i \in Used BY <1>2, <1>3, <1>4 DEF Used
  <2>2. 1 \in Used BY <1>2, <1>4 DEF Used
  <2>3. DOMAIN cells \subseteq Used /\ DOMAIN tensors \subseteq Used BY <1>5, <1>8, <2>1, <2>2
  <2>4. /\ secondary \in BOOLEAN /\ readiness \in [1..2 -> Levels] /\ calls \in Nat /\ names \in Nat \ {0}
        /\ DOMAIN blobs = 1..2 /\ DOMAIN maps = 1..2 /\ DOMAIN arrays = 1..2
    <3>0. secondary \in BOOLEAN BY <1>4
    <3>1. calls \in Nat /\ names \in Nat \ {0} BY <1>2, <1>4
    <3>2. readiness \in [1..2 -> Levels]
      <4>1. DOMAIN readiness = 1..2 /\ readiness[1] \in Levels /\ readiness[2] \in Levels BY <1>4 DEF Levels
      <4>2. \A b \in 1..2 : b = 1 \/ b = 2 OBVIOUS
      <4>3. readiness = [b \in 1..2 |-> readiness[b]] BY <1>4, <4>1
      <4>. QED BY <4>1, <4>2, <4>3
    <3>3. DOMAIN blobs = 1..2 BY <1>5
    <3>4. DOMAIN maps = 1..2 /\ DOMAIN arrays = 1..2 BY <1>4
    <3>. QED BY <3>0, <3>1, <3>2, <3>3, <3>4
  <2>5. \A b \in 1..2 : DOMAIN arrays[b] = DOMAIN layout BY <1>9
  <2>6. ASSUME NEW b \in 1..2 PROVE DOMAIN maps[b] \subseteq DOMAIN layout
    <3>1. b = 1 \/ b = 2 OBVIOUS
    <3>. QED BY <1>2, <1>3, <1>7, <3>1
  <2>7. \A b \in 1..2 : \A i \in DOMAIN maps[b] : maps[b][i].tensor \in Used \cup {Null} BY <1>7, <2>1
  <2>. QED BY <1>2, <2>3, <2>4, <2>5, <2>6, <2>7 DEF StoreTyped
<1>11. BlobsApart BY <1>5 DEF BlobsApart, Null
<1>12. OwnersApart
  <2> SUFFICES ASSUME NEW b \in 1..2, NEW c \in 1..2, NEW i \in DOMAIN maps[b], NEW j \in DOMAIN maps[c],
                      maps[b][i].tensor = maps[c][j].tensor
               PROVE  i = j /\ b = c
    BY DEF OwnersApart
  <2>1. b = 1 /\ c = 1 BY <1>7
  <2>2. i \in S /\ j \in S BY <1>7, <2>1
  <2>3. 1 + i = 1 + j BY <1>7, <2>1, <2>2
  <2>. QED BY <1>3, <2>1, <2>2, <2>3
<1>13. ASSUME NEW b \in 1..2 PROVE Linked(b) /\ Borrowed(b)
  <2>1. b = 1 \/ b = 2 OBVIOUS
  <2>2. readiness[b] # "FOLDED" BY <1>4, <2>1
  <2>3. ASSUME NEW i \in DOMAIN layout
        PROVE  IF i \in DOMAIN maps[b] THEN arrays[b][i] = maps[b][i].tensor ELSE arrays[b][i] = Null
    BY <1>7, <1>9, <2>1
  <2>4. \A i \in DOMAIN maps[b] : maps[b][i].by # "other" BY <1>7, <2>1
  <2>. QED BY <2>2, <2>3, <2>4 DEF Linked, Borrowed
<1>14. ASSUME NEW b \in 1..2 PROVE Seated(b)
  <2> SUFFICES ASSUME NEW i \in DOMAIN maps[b]
               PROVE  LET x == tensors[maps[b][i].tensor]
                      IN x.of = i /\ i \in Unfolded /\ x.blob \in Used /\ x.blob # blobs[3 - b]
    BY DEF Seated
  <2>1. b = 1 /\ i \in S /\ maps[b][i].tensor = 1 + i BY <1>7
  <2>2. tensors[1 + i].blob = 1 /\ tensors[1 + i].of = i BY <1>8, <2>1
  <2>3. blobs[3 - b] = 0 /\ 1 \in Used BY <1>2, <1>4, <1>5, <2>1 DEF Null, Used
  <2>. QED BY <1>3, <2>1, <2>2, <2>3
<1>15. FoldedUpToDate
  <2>1. \A b \in 1..2 : readiness[b] # "FOLDED" BY <1>4
  <2>. QED BY <2>1 DEF FoldedUpToDate
<1>. QED BY <1>10, <1>11, <1>12, <1>13, <1>14, <1>15 DEF StoreInv

\* What a call may do to what models read.
Written == \E b \in 1..2, given \in SUBSET Unfolded : Gives(b, given, Taken(b, given), <<calls + 1>>)
Folds == ReadsKept /\ secondary' = secondary
Swaps == ReadsKept /\ secondary' = ~secondary /\ LoadedSide(3 - ActiveSide)
LetGo ==
    /\ layout' = layout /\ secondary' = secondary
    /\ \A i \in Unfolded : /\ ReadOf(ActiveSide, i)' = ReadOf(ActiveSide, i)
                           /\ ReadOf(3 - ActiveSide, i)' \in {ReadOf(3 - ActiveSide, i), Junk}

\* Every call keeps the invariant, and does one of these.
LEMMA StoreStep ==
    ASSUME StoreInv, StoreNext
    PROVE  StoreInv' /\ (Written \/ Folds \/ Swaps \/ LetGo)
PROOF
<1>1. ASSUME NEW b \in 1..2, NEW given \in SUBSET Unfolded, UpdateCopying(b, given) \/ UpdateManaged(b, given)
      PROVE  StoreInv' /\ Written
  BY <1>1, CopyingGives, ManagedGives DEF Written
<1>2. CASE UpdateFromBlob
  <2>1. Taken(1, Unfolded) = {} BY TakenFacts
  <2>2. StoreInv' /\ Gives(1, Unfolded, {}, <<calls + 1>>) BY <1>2, FromBlobGives
  <2>3. 1 \in 1..2 /\ Unfolded \in SUBSET Unfolded OBVIOUS
  <2>4. Written BY <2>1, <2>2, <2>3 DEF Written
  <2>. QED BY <2>2, <2>4
<1>3. ASSUME NEW b \in 1..2, Fold(b) PROVE StoreInv' /\ Folds
  BY <1>3, FoldKeeps DEF Folds
<1>4. CASE SwapSides
  <2>1. MemoryStays /\ secondary' = ~secondary /\ calls' = calls + 1 /\ LoadedSide(3 - ActiveSide)
    BY <1>4 DEF SwapSides, MemoryStays
  <2>2. secondary' \in BOOLEAN /\ calls' \in Nat BY <2>1 DEF StoreInv, StoreTyped
  <2>. QED BY <2>1, <2>2, MemoryStaysKeeps DEF Swaps
<1>5. CASE ReleaseInactive
  <2> DEFINE b == ReleasedSide
  <2>1. b \in 1..2 /\ b = 3 - ActiveSide /\ ActiveSide \in 1..2 /\ Releases(b) BY <1>5, ReleaseIs
  <2>2. ActiveSide # b BY <2>1
  <2> HIDE DEF b
  <2>3. StoreInv' BY <2>1, ReleaseKeeps
  <2>4. Unfolded \subseteq DOMAIN layout BY DEF Unfolded
  <2> DEFINE a == ActiveSide
  <2>5. ASSUME NEW c \in 1..2, NEW i \in Unfolded
        PROVE  IF c = b THEN ReadOf(c, i)' \in {ReadOf(c, i), Junk} ELSE ReadOf(c, i)' = ReadOf(c, i)
    BY <2>1, <2>4, ReadsReleased
  <2>6. layout' = layout /\ secondary' = secondary BY <2>1 DEF Releases
  <2>7. ActiveSide' = ActiveSide BY <2>6 DEF ActiveSide
  <2>8. LetGo BY <2>1, <2>2, <2>5, <2>6, <2>7 DEF LetGo
  <2>. QED BY <2>3, <2>8
<1>. QED BY <1>1, <1>2, <1>3, <1>4, <1>5 DEF StoreNext

\* A step that is none changes nothing.
LEMMA StoreStutters ==
    ASSUME StoreInv, UNCHANGED storeVars
    PROVE  StoreInv' /\ ReadsKept /\ secondary' = secondary
PROOF
<1>1. MemoryStays /\ secondary' = secondary /\ calls' = calls BY DEF storeVars, MemoryStays
<1>2. secondary' \in BOOLEAN /\ calls' \in Nat BY <1>1 DEF StoreInv, StoreTyped
<1>. QED BY <1>1, <1>2, MemoryStaysKeeps

\* The invariant of the store.
LEMMA StoreIsInvariant == StoreSpec => []StoreInv
PROOF
<1>1. StoreInit => StoreInv BY StoreInvInit
<1>2. StoreInv /\ [StoreNext]_storeVars => StoreInv' BY StoreStep, StoreStutters
<1>. QED BY <1>1, <1>2, PTL DEF StoreSpec

\* The buffers have the types that the code gives them: blobs that exist, maps and arrays over
\* the constants of this library.
THEOREM StoreTyping == StoreSpec => []StoreTypeOK
PROOF
<1>1. StoreInv => StoreTypeOK BY DEF StoreInv, StoreTyped, BlobsApart, StoreTypeOK, Levels
<1>. QED BY <1>1, StoreIsInvariant, PTL

\* A buffer that is marked FOLDED holds the fold of the weights that models read in it, whatever
\* was updated, swapped or released before (model_container.h:106).
THEOREM FoldsAreUpToDate == StoreSpec => []FoldedUpToDate
PROOF
<1>1. StoreInv => FoldedUpToDate BY DEF StoreInv
<1>. QED BY <1>1, StoreIsInvariant, PTL

-----------------------------------------------------------------------------
(* What models read.                                                        *)

\* No call takes from a model what it can read of the buffer in use.
LEMMA WeightsStayReadable ==
    ASSUME StoreInv, [StoreNext]_storeVars, LoadedSide(ActiveSide)
    PROVE  LoadedSide(ActiveSide)'
PROOF
<1>1. \A i \in Unfolded : ReadOf(ActiveSide, i) # Junk BY DEF LoadedSide
<1>2. /\ ActiveSide \in 1..2 /\ 3 - ActiveSide \in 1..2 /\ \A c \in 1..2 : c = ActiveSide \/ c = 3 - ActiveSide
      /\ \A c \in 1..2 : c # ActiveSide => 3 - c = ActiveSide
  BY DEF ActiveSide
<1>3. calls \in Nat /\ secondary \in BOOLEAN BY DEF StoreInv, StoreTyped
<1>4. layout' = layout => Unfolded' = Unfolded BY LayoutStays
<1>5. secondary' = secondary => ActiveSide' = ActiveSide BY DEF ActiveSide
<1>6. ASSUME secondary' = ~secondary PROVE ActiveSide' = 3 - ActiveSide
  <2>1. CASE secondary
    <3>1. ~secondary' BY <1>6, <2>1
    <3>. QED BY <2>1, <3>1 DEF ActiveSide
  <2>2. CASE ~secondary
    <3>1. secondary' BY <1>6, <2>2
    <3>. QED BY <2>2, <3>1 DEF ActiveSide
  <2>. QED BY <2>1, <2>2
<1>7. CASE Written
  <2>1. PICK b \in 1..2, given \in SUBSET Unfolded : Gives(b, given, Taken(b, given), <<calls + 1>>)
    BY <1>7 DEF Written
  <2>2. layout' = layout /\ secondary' = secondary BY <2>1 DEF Gives
  <2>3. ASSUME NEW i \in Unfolded PROVE ReadOf(ActiveSide, i)' # Junk
    <3>1. CASE b = ActiveSide
      <4>1. ReadOf(b, i)' \in {<<calls + 1>>, <<0>>, ReadOf(b, i)}
        <5>1. Taken(b, given) = {} BY <3>1, TakenFacts
        <5>2. layout[i].size \in Nat BY LayoutFacts DEF StoreInv, StoreTyped, Unfolded
        <5>3. CASE layout[i].size > 0 BY <2>1, <5>1, <5>3 DEF Gives
        <5>4. CASE layout[i].size = 0 BY <2>1, <5>1, <5>4 DEF Gives
        <5>. QED BY <5>2, <5>3, <5>4
      <4>2. <<calls + 1>> # Junk /\ <<0>> # Junk BY DEF Junk
      <4>3. ReadOf(b, i) # Junk BY <1>1, <3>1
      <4>4. ReadOf(b, i)' # Junk BY <4>1, <4>2, <4>3
      <4>. QED BY <1>5, <2>2, <3>1, <4>4
    <3>2. CASE b # ActiveSide
      <4>1. 3 - b = ActiveSide BY <1>2, <3>2
      <4>2. ReadOf(3 - b, i)' = ReadOf(3 - b, i) BY <2>1 DEF Gives
      <4>3. ReadOf(3 - b, i)' # Junk BY <1>1, <4>1, <4>2
      <4>. QED BY <1>5, <2>2, <4>1, <4>3
    <3>. QED BY <3>1, <3>2
  <2>. QED BY <1>4, <2>2, <2>3 DEF LoadedSide, Junk
<1>8. CASE ReadsKept /\ secondary' = secondary
  BY <1>1, <1>2, <1>4, <1>5, <1>8 DEF ReadsKept, LoadedSide, Junk
<1>9. CASE Swaps
  <2>1. /\ layout' = layout /\ ActiveSide' = 3 - ActiveSide
        /\ \A i \in Unfolded : ReadOf(3 - ActiveSide, i) # Junk
        /\ \A c \in 1..2, i \in Unfolded : ReadOf(c, i)' = ReadOf(c, i)
    BY <1>6, <1>9 DEF Swaps, ReadsKept, LoadedSide
  <2>. QED BY <1>2, <1>4, <2>1 DEF LoadedSide, Junk
<1>10. CASE LetGo BY <1>1, <1>4, <1>10 DEF LetGo, LoadedSide, Junk
<1>. QED BY <1>7, <1>8, <1>9, <1>10, StoreStep, StoreStutters DEF Folds

\* Once every weight in use can be read this stays so: nothing that models read is freed with
\* another buffer or destroyed with an entry of a map.
THEOREM WeightsInUseStayReadable == StoreSpec => StaysReadable
PROOF
<1>1. StoreInv /\ [StoreNext]_storeVars => (LoadedSide(ActiveSide) => LoadedSide(ActiveSide)')
  BY WeightsStayReadable
<1>2. StoreInv /\ [StoreNext]_storeVars => [LoadedSide(ActiveSide) => LoadedSide(ActiveSide)']_storeVars
  BY <1>1
<1>. QED BY <1>2, StoreIsInvariant, PTL DEF StoreSpec, StaysReadable

\* The weights of both buffers, as the promise sees them.
Shown == [b \in 1..2 |-> [i \in Visible |-> ReadOf(b, i)]]
MayBeLeftOut == Skippable \cap Visible

\* What is shown of a buffer is what is read in it.
LEMMA ShownFacts ==
    /\ DOMAIN Shown[1] = Visible /\ Visible \subseteq Unfolded
    /\ \A b \in 1..2 : Shown[b] = [i \in Visible |-> ReadOf(b, i)]
    /\ layout' = layout => Visible' = Visible /\ MayBeLeftOut' = MayBeLeftOut
    /\ layout' = layout => Shown' = [b \in 1..2 |-> [i \in Visible |-> ReadOf(b, i)']]
    /\ secondary' = secondary => ActiveSide' = ActiveSide
BY DEF Shown, Visible, MayBeLeftOut, Skippable, Unfolded, ActiveSide

\* A write of the promise, in terms of what is shown.
LEMMA WriteIs ==
    ASSUME NEW b \in {1, 2}, NEW given \in SUBSET (DOMAIN Shown[1]), NEW new \in {Shown'[b][i] : i \in DOMAIN Shown[1]},
           Shown' = [Shown EXCEPT ![b] =
              [i \in DOMAIN Shown[1] |-> IF i \in given THEN new
                                         ELSE IF b # ActiveSide /\ i \in MayBeLeftOut THEN Shown[ActiveSide][i]
                                         ELSE Shown[b][i]]],
           ActiveSide' = ActiveSide, MayBeLeftOut' = MayBeLeftOut
    PROVE  Promise!Write
PROOF
<1>1. \E c \in {1, 2}, g \in SUBSET (DOMAIN Shown[1]) : \E n \in {Shown'[c][i] : i \in DOMAIN Shown[1]} :
         Shown' = [Shown EXCEPT ![c] =
            [i \in DOMAIN Shown[1] |-> IF i \in g THEN n
                                       ELSE IF c # ActiveSide /\ i \in MayBeLeftOut THEN Shown[ActiveSide][i]
                                       ELSE Shown[c][i]]]
  BY Zenon
<1>2. UNCHANGED <<ActiveSide, MayBeLeftOut>> OBVIOUS
<1>. QED BY <1>1, <1>2, Zenon DEF Promise!Write, Promise!Sides, Promise!Weights, Shown, MayBeLeftOut

\* Every update is a write of the promise.
LEMMA WritesAsPromised ==
    ASSUME StoreInv, Written
    PROVE  Promise!Write \/ (ActiveSide' = ActiveSide /\ Shown' = Shown /\ MayBeLeftOut' = MayBeLeftOut)
PROOF
<1>1. PICK b \in 1..2, given \in SUBSET Unfolded : Gives(b, given, Taken(b, given), <<calls + 1>>)
  BY DEF Written
<1>2. layout' = layout /\ secondary' = secondary BY <1>1 DEF Gives
<1>3. /\ ActiveSide' = ActiveSide /\ MayBeLeftOut' = MayBeLeftOut /\ DOMAIN Shown[1] = Visible
      /\ Shown' = [c \in 1..2 |-> [i \in Visible |-> ReadOf(c, i)']]
      /\ \A c \in 1..2 : Shown[c] = [i \in Visible |-> ReadOf(c, i)]
  BY <1>2, ShownFacts
<1>4. b # ActiveSide => 3 - b = ActiveSide BY DEF ActiveSide
<1> DEFINE taken == Taken(b, given)
<1> DEFINE v == <<calls + 1>>
<1>5. \A i \in Visible : i \in Unfolded /\ layout[i].size > 0 BY DEF Visible
<1>6. \A i \in Visible :
        ReadOf(b, i)' = IF i \in given THEN v ELSE IF i \in taken THEN ReadOf(3 - b, i) ELSE ReadOf(b, i)
  BY <1>1, <1>5 DEF Gives
<1>7. \A i \in Visible : ReadOf(3 - b, i)' = ReadOf(3 - b, i) BY <1>1, <1>5 DEF Gives
<1>8. \A i \in Visible \ given : i \in taken <=> b # ActiveSide /\ i \in MayBeLeftOut
  BY TakenFacts DEF MayBeLeftOut
<1> DEFINE shared == given \cap Visible
<1> HIDE DEF taken, v
<1>9. \A new : (shared # {} => new = v) =>
        Shown' = [Shown EXCEPT ![b] =
                    [i \in DOMAIN Shown[1] |-> IF i \in shared THEN new
                                               ELSE IF b # ActiveSide /\ i \in MayBeLeftOut THEN Shown[ActiveSide][i]
                                               ELSE Shown[b][i]]]
  <2> SUFFICES ASSUME NEW new, shared # {} => new = v
               PROVE  Shown' = [Shown EXCEPT ![b] =
                    [i \in DOMAIN Shown[1] |-> IF i \in shared THEN new
                                               ELSE IF b # ActiveSide /\ i \in MayBeLeftOut THEN Shown[ActiveSide][i]
                                               ELSE Shown[b][i]]]
    OBVIOUS
  <2> DEFINE w == [i \in Visible |-> IF i \in shared THEN new
                                     ELSE IF b # ActiveSide /\ i \in MayBeLeftOut THEN Shown[ActiveSide][i]
                                     ELSE Shown[b][i]]
  <2>1. ActiveSide \in 1..2 BY DEF ActiveSide
  <2>2. ASSUME NEW i \in Visible PROVE ReadOf(b, i)' = w[i]
    <3>1. Shown[b][i] = ReadOf(b, i) /\ Shown[ActiveSide][i] = ReadOf(ActiveSide, i) BY <1>3, <2>1
    <3>2. CASE i \in given BY <1>6, <3>2
    <3>3. CASE i \notin given /\ b # ActiveSide /\ i \in MayBeLeftOut BY <1>4, <1>6, <1>8, <3>1, <3>3
    <3>4. CASE i \notin given /\ ~(b # ActiveSide /\ i \in MayBeLeftOut) BY <1>6, <1>8, <3>1, <3>4
    <3>. QED BY <3>2, <3>3, <3>4
  <2>3. [i \in Visible |-> ReadOf(b, i)'] = w BY <2>2
  <2>4. [i \in Visible |-> ReadOf(3 - b, i)'] = Shown[3 - b] BY <1>3, <1>7, OtherSide
  <2> HIDE DEF w
  <2>5. Shown'[b] = w /\ Shown'[3 - b] = Shown[3 - b] BY <1>3, <2>3, <2>4, OtherSide
  <2>6. Shown' = [Shown EXCEPT ![b] = w]
    <3>1. DOMAIN Shown = 1..2 BY DEF Shown
    <3>2. \A c \in 1..2 : Shown'[c] = [Shown EXCEPT ![b] = w][c] BY <2>5, <3>1, OtherSide
    <3>3. Shown' = [c \in 1..2 |-> Shown'[c]] BY <1>3
    <3>4. [Shown EXCEPT ![b] = w] = [c \in 1..2 |-> [Shown EXCEPT ![b] = w][c]] BY <3>1
    <3>. QED BY <3>2, <3>3, <3>4
  <2>. QED BY <1>3, <2>6 DEF w
<1>10. CASE Visible = {}
  <2>1. Shown' = Shown BY <1>3, <1>10 DEF Shown
  <2>. QED BY <1>3, <2>1
<1>11. CASE Visible # {}
  <2>1. PICK j \in Visible : shared # {} => j \in shared BY <1>11
  <2> DEFINE new == Shown'[b][j]
  <2>2. new = ReadOf(b, j)' BY <1>3
  <2>3. shared # {} => new = v BY <1>6, <2>1, <2>2
  <2> HIDE DEF new
  <2>4. Shown' = [Shown EXCEPT ![b] =
                    [i \in DOMAIN Shown[1] |-> IF i \in shared THEN new
                                               ELSE IF b # ActiveSide /\ i \in MayBeLeftOut THEN Shown[ActiveSide][i]
                                               ELSE Shown[b][i]]]
    BY <1>9, <2>3
  <2>5. new \in {Shown'[b][i] : i \in DOMAIN Shown[1]} BY <1>3, <2>1 DEF new
  <2>6. shared \in SUBSET (DOMAIN Shown[1]) /\ b \in {1, 2} BY <1>3
  <2> HIDE DEF shared
  <2>. QED BY <1>3, <2>4, <2>5, <2>6, WriteIs
<1>. QED BY <1>10, <1>11

\* Every step is one of the promise, or changes nothing that is shown.
LEMMA StepAsPromised ==
    ASSUME StoreInv, [StoreNext]_storeVars
    PROVE  Promise!Next \/ (ActiveSide' = ActiveSide /\ Shown' = Shown /\ MayBeLeftOut' = MayBeLeftOut)
PROOF
<1>1. CASE Written BY <1>1, WritesAsPromised DEF Promise!Next
<1>2. ASSUME ReadsKept PROVE Shown' = Shown /\ MayBeLeftOut' = MayBeLeftOut
  <2>1. /\ layout' = layout /\ Visible \subseteq Unfolded
        /\ \A c \in 1..2, i \in Unfolded : ReadOf(c, i)' = ReadOf(c, i)
    BY <1>2, ShownFacts DEF ReadsKept
  <2>2. \A c \in 1..2 : [i \in Visible |-> ReadOf(c, i)'] = [i \in Visible |-> ReadOf(c, i)] BY <2>1
  <2>. QED BY <2>1, <2>2, ShownFacts DEF Shown
<1>3. CASE ReadsKept /\ secondary' = secondary BY <1>2, <1>3, ShownFacts
<1>4. CASE Swaps
  <2>1. ActiveSide' = 3 - ActiveSide
    <3>1. secondary' = ~secondary /\ secondary \in BOOLEAN BY <1>4 DEF Swaps, StoreInv, StoreTyped
    <3>2. CASE secondary
      <4>1. ~secondary' BY <3>1, <3>2
      <4>. QED BY <3>2, <4>1 DEF ActiveSide
    <3>3. CASE ~secondary
      <4>1. secondary' BY <3>1, <3>3
      <4>. QED BY <3>3, <4>1 DEF ActiveSide
    <3>. QED BY <3>2, <3>3
  <2>2. Shown' = Shown /\ MayBeLeftOut' = MayBeLeftOut BY <1>2, <1>4 DEF Swaps
  <2>. QED BY <2>1, <2>2 DEF Promise!Next, Promise!Exchange, Promise!Other, Shown, MayBeLeftOut
<1>5. CASE LetGo
  <2>1. layout' = layout /\ secondary' = secondary BY <1>5 DEF LetGo
  <2>2. /\ ActiveSide' = ActiveSide /\ MayBeLeftOut' = MayBeLeftOut /\ Visible \subseteq Unfolded
        /\ Shown' = [c \in 1..2 |-> [i \in Visible |-> ReadOf(c, i)']]
        /\ Shown = [c \in 1..2 |-> [i \in Visible |-> ReadOf(c, i)]]
        /\ DOMAIN Shown[1] = Visible
    BY <2>1, ShownFacts DEF Shown
  <2>3. PICK a \in 1..2 : a = ActiveSide /\ 3 - a \in 1..2 BY DEF ActiveSide
  <2>4. ASSUME NEW i \in Visible
        PROVE  ReadOf(a, i)' = ReadOf(a, i) /\ ReadOf(3 - a, i)' \in {ReadOf(3 - a, i), Junk}
    BY <1>5, <2>2, <2>3 DEF LetGo
  <2>5. Shown'[ActiveSide] = Shown[ActiveSide] BY <2>2, <2>3, <2>4
  <2>6. \A i \in DOMAIN Shown[1] : Shown'[3 - ActiveSide][i] \in {Shown[3 - ActiveSide][i], Junk}
    BY <2>2, <2>3, <2>4
  <2>7. Promise!GiveUp
    BY <2>2, <2>5, <2>6 DEF Promise!GiveUp, Promise!Other, Promise!Weights, Shown, MayBeLeftOut
  <2>. QED BY <2>7 DEF Promise!Next
<1>. QED BY <1>1, <1>3, <1>4, <1>5, StoreStep, StoreStutters DEF Folds

\* The memory of the container, with its blobs, maps, borrowed tensors and arrays, implements
\* the two buffers of weights: a call writes what it names and nothing else.
THEOREM BuffersKeepTheirPromise == StoreSpec => KeepsPromise
PROOF
<1>1. StoreInv /\ [StoreNext]_storeVars =>
        Promise!Next \/ (ActiveSide' = ActiveSide /\ Shown' = Shown /\ MayBeLeftOut' = MayBeLeftOut)
  BY StepAsPromised
<1>2. StoreInv /\ [StoreNext]_storeVars =>
        [Promise!Next]_<<ActiveSide, [b \in 1..2 |-> [i \in Visible |-> ReadOf(b, i)]], Skippable \cap Visible>>
  BY <1>1 DEF Shown, MayBeLeftOut
<1>. QED BY <1>2, StoreIsInvariant, PTL DEF StoreSpec, KeepsPromise, Promise!Spec
=============================================================================
