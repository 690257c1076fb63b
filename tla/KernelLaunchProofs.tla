------------------------- MODULE KernelLaunchProofs -------------------------
(* Every element of every kernel is written once, whatever the sizes of the *)
(* kernels and their blocks, the number of cores and the order of programs. *)
EXTENDS KernelLaunch, WellFoundedInduction, TLAPS

-----------------------------------------------------------------------------
(* Numbers.                                                                 *)

\* Every set of numbers has a least one: induction, in the form it is used here.
LEMMA LeastElement ==
    ASSUME NEW T, T \subseteq Nat, T # {}
    PROVE  \E x \in T : \A y \in T : x <= y
PROOF
<1> DEFINE R == {p \in Nat \X Nat : p[1] < p[2]}
<1>1. IsWellFoundedOn(R, Nat)
  BY NatLessThanWellFounded DEF OpToRel
<1>2. PICK x \in T : \A y \in T : ~(<<y, x>> \in R)
  <2> HIDE DEF R
  <2>. QED BY <1>1, WFMin
<1>3. \A y \in T : ~(y < x)
  BY <1>2
<1>. QED BY <1>3

\* Quotient and remainder, and that nothing else is.
LEMMA DivMod ==
    ASSUME NEW a \in Nat, NEW b \in Nat \ {0}
    PROVE  /\ a \div b \in Nat /\ a % b \in Nat /\ a % b < b
           /\ a = b * (a \div b) + (a % b)
PROOF OBVIOUS

LEMMA DivModUnique ==
    ASSUME NEW b \in Nat \ {0}, NEW q \in Nat, NEW r \in Nat, r < b
    PROVE  (b * q + r) \div b = q /\ (b * q + r) % b = r
PROOF OBVIOUS

\* Dividing twice.
LEMMA DivDiv ==
    ASSUME NEW a \in Nat, NEW b \in Nat \ {0}, NEW c \in Nat \ {0}
    PROVE  a \div (c * b) = (a \div b) \div c
PROOF
<1> DEFINE q == a \div b
<1> DEFINE r == a % b
<1> DEFINE p == q \div c
<1> DEFINE s == q % c
<1>1. q \in Nat /\ r \in Nat /\ r < b /\ a = b * q + r BY DivMod
<1>2. p \in Nat /\ s \in Nat /\ s < c /\ q = c * p + s BY <1>1, DivMod
<1> HIDE DEF q, r, p, s
<1>3. a = (c * b) * p + (b * s + r) BY <1>1, <1>2
<1>4. b * s + r \in Nat /\ c * b \in Nat \ {0} BY <1>1, <1>2
<1>5. b * s + r < c * b
  <2>1. s <= c - 1 /\ c - 1 \in Nat BY <1>2
  <2>2. b * s <= b * (c - 1) BY <2>1, <1>2
  <2>3. b * (c - 1) = b * c - b OBVIOUS
  <2>. QED BY <1>1, <1>2, <2>2, <2>3
<1>6. a \div (c * b) = p BY <1>2, <1>3, <1>4, <1>5, DivModUnique
<1>. QED BY <1>6 DEF p, q

\* Numbers with the same remainder are a whole step apart.
LEMMA NextInStep ==
    ASSUME NEW a \in Nat, NEW b \in Nat, NEW s \in Nat \ {0}, a % s = b % s, a < b
    PROVE  a + s <= b
PROOF
<1> DEFINE p == a \div s
<1> DEFINE q == b \div s
<1>1. p \in Nat /\ q \in Nat /\ a = s * p + (a % s) /\ b = s * q + (a % s) /\ a % s \in Nat BY DivMod
<1> HIDE DEF p, q
<1>2. s * p < s * q BY <1>1
<1>3. p + 1 <= q
  <2>1. SUFFICES ASSUME q <= p PROVE FALSE BY <1>1
  <2>2. s * q <= s * p BY <2>1, <1>1
  <2>. QED BY <1>1, <1>2, <2>2
<1>4. s * (p + 1) <= s * q BY <1>1, <1>3
<1>5. s * (p + 1) = s * p + s BY <1>1
<1>. QED BY <1>1, <1>4, <1>5

LEMMA StepKeepsRemainder ==
    ASSUME NEW a \in Nat, NEW s \in Nat \ {0}
    PROVE  (a + s) % s = a % s
PROOF
<1> DEFINE p == a \div s
<1> DEFINE r == a % s
<1>1. p \in Nat /\ r \in Nat /\ r < s /\ a = s * p + r BY DivMod
<1> HIDE DEF p, r
<1>2. a + s = s * (p + 1) + r BY <1>1
<1>3. (s * (p + 1) + r) % s = r BY <1>1, DivModUnique
<1>. QED BY <1>2, <1>3 DEF r
-----------------------------------------------------------------------------
(* The blocks of a kernel.                                                  *)

LEMMA LaunchFacts ==
    ASSUME launch \in Launches
    PROVE  /\ Len(launch.kernels) \in Nat \ {0} /\ Kernels = 1..Len(launch.kernels)
           /\ launch.cores \in Nat \ {0} /\ launch.minBlocks \in Nat
           /\ launch.minBlocks % Len(launch.kernels) = 0
           /\ \A k \in Kernels, d \in 1..3 :
                 /\ launch.kernels[k].numel[d] \in Nat
                 /\ launch.kernels[k].block[d] \in Nat \ {0}
PROOF
<1> DEFINE K == [numel : [1..3 -> Nat], block : [1..3 -> Nat \ {0}]]
<1>1. /\ launch.kernels \in Seq(K) /\ launch.kernels # <<>>
      /\ launch.cores \in Nat \ {0} /\ launch.minBlocks \in Nat
      /\ launch.minBlocks % Len(launch.kernels) = 0
  BY LaunchesAssumption
<1>2. \A c \in K, d \in 1..3 : c.numel[d] \in Nat /\ c.block[d] \in Nat \ {0}
  OBVIOUS
<1> HIDE DEF K
<1>3. Len(launch.kernels) \in Nat \ {0} /\ Kernels = 1..Len(launch.kernels)
  BY <1>1 DEF Kernels
<1>4. \A k \in Kernels : launch.kernels[k] \in K
  BY <1>1, <1>3
<1>. QED BY <1>1, <1>2, <1>3, <1>4

LEMMA CeilDivFacts ==
    ASSUME NEW a \in Nat, NEW b \in Nat \ {0}
    PROVE  CeilDiv(a, b) \in Nat /\ a <= b * CeilDiv(a, b)
PROOF
<1> DEFINE c == a + b - 1
<1>1. c \in Nat /\ a <= c - (b - 1) OBVIOUS
<1> DEFINE q == c \div b
<1>2. q \in Nat /\ c % b \in Nat /\ c % b < b /\ c = b * q + (c % b) BY <1>1, DivMod
<1>. QED BY <1>1, <1>2 DEF CeilDiv

LEMMA OffsetNumFacts ==
    ASSUME launch \in Launches, NEW k \in Kernels
    PROVE  /\ \A d \in 1..3 :
                 /\ OffsetNum(k, d) \in Nat
                 /\ launch.kernels[k].numel[d] <= launch.kernels[k].block[d] * OffsetNum(k, d)
           /\ BlocksOf(k) \in Nat
PROOF
<1>1. \A d \in 1..3 :
         /\ OffsetNum(k, d) \in Nat
         /\ launch.kernels[k].numel[d] <= launch.kernels[k].block[d] * OffsetNum(k, d)
  BY LaunchFacts, CeilDivFacts DEF OffsetNum
<1>2. BlocksOf(k) \in Nat BY <1>1 DEF BlocksOf
<1>. QED BY <1>1, <1>2

\* The elements, one by one.
LEMMA ElementParts ==
    ASSUME NEW e \in Elements
    PROVE  /\ e[1] \in Kernels /\ e[2] \in Nat /\ e[3] \in Nat /\ e[4] \in Nat
           /\ e = <<e[1], e[2], e[3], e[4]>>
           /\ e[2] \in 0..(launch.kernels[e[1]].numel[1] - 1)
           /\ e[3] \in 0..(launch.kernels[e[1]].numel[2] - 1)
           /\ e[4] \in 0..(launch.kernels[e[1]].numel[3] - 1)
PROOF
<1>1. PICK k \in Kernels : e \in {k} \X (0..(launch.kernels[k].numel[1] - 1))
                                  \X (0..(launch.kernels[k].numel[2] - 1))
                                  \X (0..(launch.kernels[k].numel[3] - 1))
  BY DEF Elements
<1>2. e[1] = k BY <1>1
<1>. QED BY <1>1, <1>2

\* The block an element belongs to along one dimension, and the number of its block.
Along(e, d) == e[d + 1] \div launch.kernels[e[1]].block[d]
Home(e) == OffsetNum(e[1], 1) * (OffsetNum(e[1], 2) * Along(e, 3) + Along(e, 2)) + Along(e, 1)

LEMMA AlongFacts ==
    ASSUME launch \in Launches, NEW e \in Elements, NEW d \in 1..3
    PROVE  /\ Along(e, d) \in Nat /\ Along(e, d) < OffsetNum(e[1], d)
           /\ e[1] \in Kernels /\ e[d + 1] \in Nat /\ e[d + 1] < launch.kernels[e[1]].numel[d]
PROOF
<1> DEFINE n == launch.kernels[e[1]].numel[d]
<1> DEFINE b == launch.kernels[e[1]].block[d]
<1> DEFINE o == OffsetNum(e[1], d)
<1>1. e[1] \in Kernels BY ElementParts
<1>2. n \in Nat /\ b \in Nat \ {0} /\ o \in Nat /\ n <= b * o
  BY <1>1, LaunchFacts, OffsetNumFacts
<1>3. e[d + 1] \in Nat /\ e[d + 1] < n
  <2>1. CASE d = 1 BY <2>1, <1>1, <1>2, ElementParts
  <2>2. CASE d = 2 BY <2>2, <1>1, <1>2, ElementParts
  <2>3. CASE d = 3 BY <2>3, <1>1, <1>2, ElementParts
  <2>. QED BY <2>1, <2>2, <2>3
<1> DEFINE x == e[d + 1]
<1> DEFINE q == x \div b
<1> HIDE DEF n, b, o, x
<1>4. x \in Nat /\ x < n BY <1>3 DEF x
<1>5. q \in Nat /\ x % b \in Nat /\ x = b * q + (x % b) BY <1>2, <1>4, DivMod
<1> HIDE DEF q
<1>6. q < o
  <2> SUFFICES ASSUME o <= q PROVE FALSE BY <1>2, <1>5
  <2>1. b * o <= b * q BY <1>2, <1>5
  <2>. QED BY <2>1, <1>2, <1>4, <1>5
<1>7. Along(e, d) = q BY DEF Along, q, x, b
<1>. QED BY <1>1, <1>3, <1>5, <1>6, <1>7 DEF o, n, x

\* An element is under the masks of one block, its home, and of no other.
LEMMA OneBlock ==
    ASSUME launch \in Launches, NEW e \in Elements, NEW id \in 0..(BlocksOf(e[1]) - 1)
    PROVE  e \in ElementsAt(e[1], id) <=> id = Home(e)
PROOF
<1> DEFINE k == e[1]
<1> DEFINE A == OffsetNum(k, 1)
<1> DEFINE B == OffsetNum(k, 2)
<1> DEFINE C == OffsetNum(k, 3)
<1> DEFINE x == Along(e, 1)
<1> DEFINE y == Along(e, 2)
<1> DEFINE z == Along(e, 3)
<1> DEFINE q == id \div A
<1> DEFINE X == id % A
<1> DEFINE Y == q % B
<1> DEFINE Z == q \div B
<1>1. /\ x \in Nat /\ x < A /\ A \in Nat
      /\ y \in Nat /\ y < B /\ B \in Nat
      /\ z \in Nat /\ z < C /\ C \in Nat /\ k \in Kernels
  BY AlongFacts, OffsetNumFacts
<1>2. BlocksOf(k) \in Nat /\ id \in Nat BY <1>1, OffsetNumFacts
<1> HIDE DEF A, B, C, x, y, z
<1>3. /\ q \in Nat /\ X \in Nat /\ X < A /\ id = A * q + X
  BY <1>1, <1>2, DivMod
<1>4. /\ Y \in Nat /\ Z \in Nat /\ Y < B /\ q = B * Z + Y
  BY <1>1, <1>3, DivMod
<1>5. id \div (B * A) = Z
  <2>1. A \in Nat \ {0} /\ B \in Nat \ {0} /\ id \in Nat BY <1>1, <1>2
  <2>2. id \div (B * A) = (id \div A) \div B BY <2>1, DivDiv
  <2>. QED BY <2>2
<1> HIDE DEF q, X, Y, Z
<1>6. id = Home(e) <=> X = x /\ Y = y /\ Z = z
  <2>1. Home(e) = A * (B * z + y) + x BY DEF Home, A, B, x, y, z, k
  <2>2. ASSUME id = Home(e) PROVE X = x /\ Y = y /\ Z = z
    <3>1. B * z + y \in Nat /\ B * Z + Y \in Nat BY <1>1, <1>4
    <3>2. X = x /\ B * Z + Y = B * z + y
      <4> DEFINE u == B * Z + Y
      <4> DEFINE v == B * z + y
      <4>1. A * u + X = A * v + x BY <2>1, <2>2, <1>3, <1>4
      <4>3. u \in Nat /\ v \in Nat BY <3>1
      <4>4. A \in Nat \ {0} /\ X \in Nat /\ X < A /\ x \in Nat /\ x < A BY <1>1, <1>3
      <4> HIDE DEF u, v
      <4>2. /\ (A * u + X) \div A = u /\ (A * u + X) % A = X
            /\ (A * v + x) \div A = v /\ (A * v + x) % A = x
        BY <4>3, <4>4, DivModUnique
      <4>. QED BY <4>1, <4>2 DEF u, v
    <3>3. Y = y /\ Z = z
      <4>1. /\ (B * Z + Y) \div B = Z /\ (B * Z + Y) % B = Y
            /\ (B * z + y) \div B = z /\ (B * z + y) % B = y
        BY <1>1, <1>4, DivModUnique
      <4>. QED BY <3>2, <4>1
    <3>. QED BY <3>2, <3>3
  <2>3. X = x /\ Y = y /\ Z = z => id = Home(e) BY <2>1, <1>3, <1>4
  <2>. QED BY <2>2, <2>3
<1>7. ASSUME NEW d \in 1..3, NEW w \in Nat
      PROVE  e[d + 1] \in Span(k, d, w * launch.kernels[k].block[d]) <=> w = Along(e, d)
  <2> DEFINE b == launch.kernels[k].block[d]
  <2> DEFINE n == launch.kernels[k].numel[d]
  <2> DEFINE i == e[d + 1]
  <2>1. i \in Nat /\ i < n /\ n \in Nat /\ b \in Nat \ {0}
    BY <1>1, AlongFacts, LaunchFacts
  <2> HIDE DEF b, n, i
  <2>2. i \in Span(k, d, w * b) <=> w * b <= i /\ i < w * b + b
    BY <2>1 DEF Span, b, n
  <2> DEFINE p == i \div b
  <2> DEFINE r == i % b
  <2>3. p \in Nat /\ r \in Nat /\ r < b /\ i = b * p + r BY <2>1, DivMod
  <2>4. Along(e, d) = p BY DEF Along, p, i, b, k
  <2> HIDE DEF p, r
  <2>5. ASSUME w * b <= i, i < w * b + b PROVE w = p
    <3> DEFINE s == i - w * b
    <3>1. s \in Nat /\ s < b /\ i = b * w + s BY <2>1, <2>5
    <3> HIDE DEF s
    <3>2. i \div b = w BY <2>1, <3>1, DivModUnique
    <3>. QED BY <3>2 DEF p
  <2>6. w = p => w * b <= i /\ i < w * b + b BY <2>1, <2>3
  <2>7. i \in Span(k, d, w * b) <=> w = p BY <2>2, <2>5, <2>6
  <2>. QED BY <2>4, <2>7 DEF b, i
<1>8. /\ e[2] \in Span(k, 1, XOffset(k, id)) <=> X = x
      /\ e[3] \in Span(k, 2, YOffset(k, id)) <=> Y = y
      /\ e[4] \in Span(k, 3, ZOffset(k, id)) <=> Z = z
  <2>1. XOffset(k, id) = X * launch.kernels[k].block[1] BY DEF XOffset, X, A
  <2>2. YOffset(k, id) = Y * launch.kernels[k].block[2] BY DEF YOffset, Y, q, A, B
  <2>3. ZOffset(k, id) = Z * launch.kernels[k].block[3] BY <1>5 DEF ZOffset, A, B
  <2>4. e[1 + 1] \in Span(k, 1, X * launch.kernels[k].block[1]) <=> X = Along(e, 1)
    BY <1>3, <1>7
  <2>5. e[2 + 1] \in Span(k, 2, Y * launch.kernels[k].block[2]) <=> Y = Along(e, 2)
    BY <1>4, <1>7
  <2>6. e[3 + 1] \in Span(k, 3, Z * launch.kernels[k].block[3]) <=> Z = Along(e, 3)
    BY <1>4, <1>7
  <2>. QED BY <2>1, <2>2, <2>3, <2>4, <2>5, <2>6 DEF x, y, z
<1>9. e = <<k, e[2], e[3], e[4]>> BY ElementParts
<1>10. e \in ElementsAt(k, id) <=>
          /\ e[2] \in Span(k, 1, XOffset(k, id))
          /\ e[3] \in Span(k, 2, YOffset(k, id))
          /\ e[4] \in Span(k, 3, ZOffset(k, id))
  BY <1>9 DEF ElementsAt
<1>. QED BY <1>6, <1>8, <1>10 DEF k

LEMMA HomeInRange ==
    ASSUME launch \in Launches, NEW e \in Elements
    PROVE  Home(e) \in 0..(BlocksOf(e[1]) - 1)
PROOF
<1> DEFINE A == OffsetNum(e[1], 1)
<1> DEFINE B == OffsetNum(e[1], 2)
<1> DEFINE C == OffsetNum(e[1], 3)
<1> DEFINE x == Along(e, 1)
<1> DEFINE y == Along(e, 2)
<1> DEFINE z == Along(e, 3)
<1>1. /\ x \in Nat /\ x < A /\ A \in Nat
      /\ y \in Nat /\ y < B /\ B \in Nat
      /\ z \in Nat /\ z < C /\ C \in Nat
  BY AlongFacts, OffsetNumFacts
<1>2. Home(e) = A * (B * z + y) + x /\ BlocksOf(e[1]) = A * B * C BY DEF Home, BlocksOf
<1> HIDE DEF A, B, C, x, y, z
<1>3. B * z + y + 1 <= B * C
  <2>1. B * (z + 1) <= B * C BY <1>1
  <2>2. B * (z + 1) = B * z + B BY <1>1
  <2>. QED BY <1>1, <2>1, <2>2
<1> DEFINE u == B * z + y
<1>4. u \in Nat /\ u + 1 <= B * C /\ B * C \in Nat BY <1>1, <1>3
<1> HIDE DEF u
<1>5. A * (u + 1) <= A * (B * C) BY <1>1, <1>4
<1>6. A * (u + 1) = A * u + A /\ A * (B * C) = A * B * C BY <1>1, <1>4
<1>7. A * u \in Nat /\ A * B * C \in Nat BY <1>1, <1>4
<1>8. Home(e) = A * u + x BY <1>2 DEF u
<1>. QED BY <1>1, <1>2, <1>5, <1>6, <1>7, <1>8

-----------------------------------------------------------------------------
(* The programs.                                                            *)

\* A largest number of blocks exists.
LEMMA MaxOfImage ==
    ASSUME NEW n \in Nat \ {0}, NEW f \in [1..n -> Nat]
    PROVE  Max({f[k] : k \in 1..n}) \in Nat
PROOF
<1> DEFINE Bounded(m) == \E b \in Nat : \A k \in 1..m : k \in 1..n => f[k] <= b
<1> DEFINE Bad == {m \in Nat : ~Bounded(m)}
<1>1. Bad = {}
  <2> SUFFICES ASSUME Bad # {} PROVE FALSE OBVIOUS
  <2>1. PICK m \in Bad : \A l \in Bad : m <= l
    <3>1. Bad \subseteq Nat OBVIOUS
    <3> HIDE DEF Bad
    <3>. QED BY <3>1, LeastElement
  <2>2. m \in Nat /\ ~Bounded(m) BY <2>1
  <2>3. m # 0 BY <2>2
  <2>4. m - 1 \in Nat /\ m - 1 \notin Bad
    <3> HIDE DEF Bad
    <3>. QED BY <2>1, <2>2, <2>3
  <2>5. PICK b \in Nat : \A k \in 1..(m - 1) : k \in 1..n => f[k] <= b BY <2>4
  <2>6. CASE m \in 1..n
    <3>1. f[m] \in Nat BY <2>6
    <3> DEFINE c == f[m]
    <3> HIDE DEF Bad, Bounded
    <3>2. \A k \in 1..m : k \in 1..n => f[k] <= b + f[m]
      <4> SUFFICES ASSUME NEW k \in 1..m, k \in 1..n PROVE f[k] <= b + f[m] OBVIOUS
      <4>1. f[k] \in Nat OBVIOUS
      <4>2. k = m \/ k \in 1..(m - 1) BY <2>2
      <4>3. f[k] <= b \/ f[k] = c BY <2>5, <4>2
      <4> HIDE DEF c
      <4>4. c \in Nat BY <3>1 DEF c
      <4>5. f[k] <= b + c BY <4>1, <4>3, <4>4
      <4>. QED BY <4>5 DEF c
    <3> HIDE DEF c
    <3>3. c \in Nat BY <3>1 DEF c
    <3>4. b + c \in Nat BY <3>3
    <3>5. Bounded(m) BY <3>2, <3>4 DEF Bounded, c
    <3>. QED BY <3>5, <2>2
  <2>7. CASE m \notin 1..n
    <3>1. \A k \in 1..m : k \in 1..n => f[k] <= b BY <2>2, <2>5, <2>7
    <3>. QED BY <3>1, <2>2
  <2>. QED BY <2>6, <2>7
<1>2. Bounded(n) BY <1>1
<1> DEFINE Bounds == {b \in Nat : \A k \in 1..n : f[k] <= b}
<1>3. PICK b \in Bounds : \A c \in Bounds : b <= c
  <2>1. Bounds # {} BY <1>2
  <2>2. Bounds \subseteq Nat OBVIOUS
  <2> HIDE DEF Bounds
  <2>. QED BY <2>1, <2>2, LeastElement
<1>4. b \in Nat /\ \A k \in 1..n : f[k] <= b BY <1>3
<1>5. \E k \in 1..n : f[k] = b
  <2> SUFFICES ASSUME \A k \in 1..n : f[k] # b PROVE FALSE OBVIOUS
  <2>1. \A k \in 1..n : f[k] \in Nat /\ f[k] <= b - 1 BY <1>4
  <2>2. b - 1 \in Nat BY <2>1, <1>4
  <2>3. b - 1 \in Bounds BY <2>1, <2>2
  <2>. QED BY <2>3, <1>3, <1>4
<1> DEFINE S == {f[k] : k \in 1..n}
<1>6. \E x \in S : \A y \in S : x >= y BY <1>4, <1>5
<1>7. Max(S) \in S BY <1>6 DEF Max
<1>. QED BY <1>7

\* The grid has a whole number of programs for each kernel.
LEMMA GridFacts ==
    ASSUME launch \in Launches
    PROVE  \E s \in Nat : Grid = Len(launch.kernels) * s
PROOF
<1> DEFINE n == Len(launch.kernels)
<1>1. n \in Nat \ {0} /\ Kernels = 1..n /\ launch.cores \in Nat BY LaunchFacts
<1>2. CASE n > 1
  <2> DEFINE f == [k \in 1..n |-> OffsetNum(k, 1)]
             widest == Max({f[k] : k \in 1..n})
             b == launch.minBlocks
             s == b \div n
  <2>1. f \in [1..n -> Nat] BY <1>1, OffsetNumFacts
  <2>2. {OffsetNum(k, 1) : k \in Kernels} = {f[k] : k \in 1..n} BY <1>1
  <2>3. widest \in Nat
    <3> HIDE DEF f, n
    <3>. QED BY <1>1, <2>1, MaxOfImage
  <2>4. ComboXGrid = n * widest BY <2>2 DEF ComboXGrid
  <2>5. b \in Nat /\ b % n = 0 BY LaunchFacts
  <2>6. s \in Nat /\ b = n * s
    <3> HIDE DEF n, b
    <3>1. s \in Nat /\ b = n * s + (b % n) BY <1>1, <2>5, DivMod
    <3> HIDE DEF s
    <3>. QED BY <1>1, <2>5, <3>1
  <2>7. Grid = ComboXGrid \/ Grid = b BY <1>2 DEF Grid, ComboGrid, Greatest
  <2>. QED BY <2>3, <2>4, <2>6, <2>7
<1>3. CASE n = 1
  <2>1. BlocksOf(1) \in Nat BY <1>1, <1>3, OffsetNumFacts
  <2>2. Grid \in Nat BY <1>1, <1>3, <2>1 DEF Grid, SingleGrid, Least
  <2>3. Grid = n * Grid BY <1>3, <2>2
  <2>. QED BY <2>2, <2>3
<1>4. n = 1 \/ n > 1
  <2> HIDE DEF n
  <2>. QED BY <1>1
<1> HIDE DEF n
<1>. QED BY <1>2, <1>3, <1>4 DEF n

\* The program that gets to the home of an element, by the step of the programs.
Owner(e, s) == Len(launch.kernels) * (Home(e) % s) + (e[1] - 1)

LEMMA OwnerFacts ==
    ASSUME launch \in Launches, NEW s \in Nat \ {0}, NEW g, g = Len(launch.kernels) * s
    PROVE  /\ g \in Nat \ {0} /\ g \div Len(launch.kernels) = s
           /\ \A pid \in 0..(g - 1) :
                 KernelOf(pid) \in Kernels /\ PidOffset(pid) \in 0..(s - 1)
           /\ \A e \in Elements :
                 /\ Owner(e, s) \in 0..(g - 1)
                 /\ \A pid \in 0..(g - 1) :
                       pid = Owner(e, s) <=> KernelOf(pid) = e[1] /\ PidOffset(pid) = Home(e) % s
PROOF
<1> DEFINE n == Len(launch.kernels)
<1>1. n \in Nat \ {0} /\ Kernels = 1..n BY LaunchFacts
<1> HIDE DEF n
<1>2. g = n * s /\ g \in Nat \ {0}
  <2>1. g = n * s BY DEF n
  <2>2. n * s \in Nat /\ n * 1 <= n * s BY <1>1
  <2>. QED BY <1>1, <2>1, <2>2
<1>3. g \div Len(launch.kernels) = s
  <2>1. (n * s + 0) \div n = s BY <1>1, DivModUnique
  <2>2. n * s + 0 = n * s BY <1>1
  <2>. QED BY <1>2, <2>1, <2>2 DEF n
<1>4. ASSUME NEW pid \in 0..(g - 1)
      PROVE  /\ KernelOf(pid) = (pid % n) + 1 /\ PidOffset(pid) = pid \div n
             /\ pid \div n \in 0..(s - 1) /\ pid % n \in 0..(n - 1)
             /\ pid = n * (pid \div n) + (pid % n)
  <2> DEFINE q == pid \div n
  <2> DEFINE r == pid % n
  <2>0. pid \in Nat BY <1>2
  <2>1. q \in Nat /\ r \in Nat /\ r < n /\ pid = n * q + r BY <1>1, <2>0, DivMod
  <2> HIDE DEF q, r
  <2>2. q < s
    <3> SUFFICES ASSUME s <= q PROVE FALSE BY <2>1
    <3>1. n * s <= n * q BY <1>1, <2>1
    <3>. QED BY <3>1, <1>1, <1>2, <2>1
  <2>3. KernelOf(pid) = r + 1 /\ PidOffset(pid) = q BY DEF q, r, KernelOf, PidOffset, n
  <2>4. q \in 0..(s - 1) /\ r \in 0..(n - 1) BY <1>1, <2>1, <2>2
  <2>. QED BY <2>1, <2>3, <2>4 DEF q, r
<1>5. ASSUME NEW e \in Elements
      PROVE  /\ Owner(e, s) \in 0..(g - 1)
             /\ \A pid \in 0..(g - 1) :
                   pid = Owner(e, s) <=> KernelOf(pid) = e[1] /\ PidOffset(pid) = Home(e) % s
  <2> DEFINE h == Home(e) % s
  <2> DEFINE k == e[1]
  <2>1. Home(e) \in Nat BY HomeInRange, OffsetNumFacts, ElementParts
  <2>2. h \in Nat /\ h < s BY <2>1, DivMod
  <2>3. k \in 1..n BY <1>1, ElementParts
  <2>4. Owner(e, s) = n * h + (k - 1) BY DEF Owner, n
  <2> HIDE DEF h, k
  <2>5. k - 1 \in Nat /\ k - 1 < n BY <1>1, <2>3
  <2>6. n * h + (k - 1) \in Nat /\ n * h + (k - 1) < n * s
    <3>1. n * (h + 1) <= n * s BY <1>1, <2>2
    <3>2. n * (h + 1) = n * h + n /\ n * h \in Nat /\ n * s \in Nat BY <1>1, <2>2
    <3>. QED BY <1>1, <2>5, <3>1, <3>2
  <2>7. (n * h + (k - 1)) \div n = h /\ (n * h + (k - 1)) % n = k - 1
    BY <1>1, <2>2, <2>5, DivModUnique
  <2>8. ASSUME NEW pid \in 0..(g - 1)
        PROVE  pid = Owner(e, s) <=> KernelOf(pid) = k /\ PidOffset(pid) = h
    <3>1. /\ KernelOf(pid) = (pid % n) + 1 /\ PidOffset(pid) = pid \div n
          /\ pid \div n \in 0..(s - 1) /\ pid % n \in 0..(n - 1)
          /\ pid = n * (pid \div n) + (pid % n)
      BY <1>4
    <3>2. pid = Owner(e, s) => KernelOf(pid) = k /\ PidOffset(pid) = h
      BY <2>3, <2>4, <2>7, <3>1
    <3>3. ASSUME KernelOf(pid) = k, PidOffset(pid) = h PROVE pid = Owner(e, s)
      <4>1. pid % n = k - 1 BY <2>3, <3>1, <3>3
      <4>2. pid \div n = h BY <3>1, <3>3
      <4>. QED BY <2>4, <3>1, <4>1, <4>2
    <3>. QED BY <3>2, <3>3
  <2>9. Owner(e, s) \in 0..(g - 1) BY <1>2, <2>4, <2>6
  <2>. QED BY <2>8, <2>9 DEF h, k
<1>6. ASSUME NEW pid \in 0..(g - 1)
      PROVE  KernelOf(pid) \in Kernels /\ PidOffset(pid) \in 0..(s - 1)
  <2> DEFINE r == pid % n
  <2>1. KernelOf(pid) = r + 1 /\ r \in 0..(n - 1) /\ PidOffset(pid) \in 0..(s - 1) BY <1>4
  <2> HIDE DEF r
  <2>. QED BY <1>1, <2>1
<1>. QED BY <1>2, <1>3, <1>5, <1>6

-----------------------------------------------------------------------------
(* The invariant: an element was written once as soon as its owner is past  *)
(* its home, and not before.                                                *)

Dealt(s) ==
    /\ grid = Len(launch.kernels) * s
    /\ DOMAIN cursor = 0..(grid - 1)
    /\ \A pid \in 0..(grid - 1) : cursor[pid] \in Nat /\ cursor[pid] % s = PidOffset(pid)
    /\ \A e \in Elements : counts[e] = IF Home(e) < cursor[Owner(e, s)] THEN 1 ELSE 0

LaunchInv ==
    /\ launch \in Launches
    /\ DOMAIN counts = Elements
    /\ \/ /\ grid = 0 /\ cursor = <<>>
          /\ \A e \in Elements : counts[e] = 0
       \/ \E s \in Nat \ {0} : Dealt(s)

\* The launch gives every program its first block.
LEMMA LaunchDeals == ASSUME LaunchInv, Launch PROVE LaunchInv'
PROOF
<1>1. /\ launch \in Launches /\ launch' = launch /\ counts' = counts /\ DOMAIN counts = Elements
      /\ grid' = Grid /\ grid = 0
      /\ cursor' = [pid \in 0..(Grid - 1) |-> PidOffset(pid)]
  BY DEF LaunchInv, Launch
<1>2. PICK s \in Nat : Grid = Len(launch.kernels) * s BY <1>1, GridFacts
<1>3. Elements' = Elements BY <1>1 DEF Elements, Kernels
<1>4. Len(launch.kernels) \in Nat \ {0} BY <1>1, LaunchFacts
<1>5. grid' = Len(launch.kernels) * s /\ grid' \in Nat BY <1>1, <1>2, <1>4
<1>6. \A e \in Elements : counts[e] = 0
  <2>1. ASSUME NEW s1 \in Nat \ {0}, Dealt(s1) PROVE FALSE
    BY <1>1, <2>1, OwnerFacts DEF Dealt
  <2>. QED BY <2>1 DEF LaunchInv
<1>7. CASE s = 0
  <2>1. grid' = 0 BY <1>4, <1>5, <1>7
  <2>2. cursor' = <<>> BY <1>1, <2>1
  <2>. QED BY <1>1, <1>3, <1>6, <2>1, <2>2 DEF LaunchInv
<1>8. CASE s # 0
  <2> DEFINE g == grid'
  <2>1. s \in Nat \ {0} /\ g = Len(launch.kernels) * s BY <1>5, <1>8
  <2> HIDE DEF g
  <2>2. /\ \A pid \in 0..(g - 1) : PidOffset(pid) \in 0..(s - 1)
        /\ \A e \in Elements : Owner(e, s) \in 0..(g - 1) /\ PidOffset(Owner(e, s)) = Home(e) % s
    BY <1>1, <2>1, OwnerFacts
  <2>3. /\ \A pid : PidOffset(pid)' = PidOffset(pid)
        /\ \A e : Home(e)' = Home(e) /\ Owner(e, s)' = Owner(e, s)
    BY <1>1 DEF PidOffset, Home, Owner, Along, OffsetNum, CeilDiv
  <2>4. \A pid \in 0..(g - 1) : cursor'[pid] = PidOffset(pid)
    BY <1>1 DEF g
  <2>5. \A pid \in 0..(g - 1) : cursor'[pid] \in Nat /\ cursor'[pid] % s = PidOffset(pid)'
    <3> SUFFICES ASSUME NEW pid \in 0..(g - 1)
                 PROVE  cursor'[pid] \in Nat /\ cursor'[pid] % s = PidOffset(pid)
      BY <2>3
    <3> DEFINE c == PidOffset(pid)
    <3>1. c \in 0..(s - 1) /\ cursor'[pid] = c BY <2>2, <2>4
    <3> HIDE DEF c
    <3>2. c % s = c BY <2>1, <3>1
    <3>. QED BY <3>1, <3>2 DEF c
  <2>6. \A e \in Elements : ~(Home(e) < cursor'[Owner(e, s)])
    <3> SUFFICES ASSUME NEW e \in Elements PROVE ~(Home(e) < cursor'[Owner(e, s)])
      OBVIOUS
    <3> DEFINE h == Home(e)
    <3>1. cursor'[Owner(e, s)] = h % s BY <2>2, <2>4
    <3>2. h \in Nat BY <1>1, HomeInRange, OffsetNumFacts, ElementParts
    <3> HIDE DEF h
    <3>3. h % s <= h /\ h % s \in Nat BY <2>1, <3>2
    <3>. QED BY <3>1, <3>2, <3>3 DEF h
  <2>7. Dealt(s)'
    <3>1. \A e \in Elements : counts'[e] = IF Home(e)' < cursor'[Owner(e, s)'] THEN 1 ELSE 0
      BY <1>1, <1>6, <2>3, <2>6
    <3>2. DOMAIN cursor' = 0..(g - 1) BY <1>1 DEF g
    <3>. QED BY <1>1, <1>3, <1>5, <2>5, <3>1, <3>2 DEF Dealt, g
  <2>. QED BY <1>1, <1>3, <2>1, <2>7 DEF LaunchInv
<1>. QED BY <1>7, <1>8

\* A block is written by the program it was dealt to.
LEMMA WriteBlockDeals ==
    ASSUME LaunchInv, NEW pid \in DOMAIN cursor, WriteBlock(pid)
    PROVE  LaunchInv'
PROOF
<1>1. /\ launch \in Launches /\ launch' = launch /\ grid' = grid
      /\ cursor' = [cursor EXCEPT ![pid] = @ + BlockStep]
      /\ counts' = [e \in Elements |->
                      counts[e] + (IF e \in ElementsAt(KernelOf(pid), cursor[pid]) THEN 1 ELSE 0)]
      /\ cursor[pid] < BlocksOf(KernelOf(pid))
  BY DEF LaunchInv, WriteBlock, Working
<1>2. cursor # <<>> OBVIOUS
<1>3. PICK s \in Nat \ {0} : Dealt(s) BY <1>2 DEF LaunchInv
<1>5. /\ grid = Len(launch.kernels) * s /\ DOMAIN cursor = 0..(grid - 1)
      /\ \A p \in 0..(grid - 1) : cursor[p] \in Nat /\ cursor[p] % s = PidOffset(p)
      /\ \A e \in Elements : counts[e] = IF Home(e) < cursor[Owner(e, s)] THEN 1 ELSE 0
  BY <1>3 DEF Dealt
<1> DEFINE c == cursor[pid]
<1>6. /\ BlockStep = s /\ KernelOf(pid) \in Kernels
      /\ \A e \in Elements :
            /\ Owner(e, s) \in 0..(grid - 1)
            /\ pid = Owner(e, s) <=> KernelOf(pid) = e[1] /\ PidOffset(pid) = Home(e) % s
  BY <1>1, <1>5, OwnerFacts DEF BlockStep
<1>7. c \in Nat /\ c % s = PidOffset(pid) /\ cursor' = [cursor EXCEPT ![pid] = c + s]
  BY <1>1, <1>5, <1>6
<1>8. c \in 0..(BlocksOf(KernelOf(pid)) - 1)
  BY <1>1, <1>6, <1>7, OffsetNumFacts
<1>9. Elements' = Elements BY <1>1 DEF Elements, Kernels
<1>10. /\ \A p : PidOffset(p)' = PidOffset(p)
       /\ \A e : Home(e)' = Home(e) /\ Owner(e, s)' = Owner(e, s)
  BY <1>1 DEF PidOffset, Home, Owner, Along, OffsetNum, CeilDiv
<1> HIDE DEF c
<1>11. ASSUME NEW p \in 0..(grid - 1)
       PROVE  cursor'[p] \in Nat /\ cursor'[p] % s = PidOffset(p)
  <2>1. CASE p = pid
    <3>1. cursor'[p] = c + s BY <1>5, <1>7, <2>1
    <3>2. (c + s) % s = c % s /\ c + s \in Nat BY <1>7, StepKeepsRemainder
    <3>. QED BY <1>7, <2>1, <3>1, <3>2
  <2>2. CASE p # pid
    <3>1. cursor'[p] = cursor[p] BY <1>5, <1>7, <2>2
    <3>. QED BY <1>5, <3>1
  <2>. QED BY <2>1, <2>2
<1>12. ASSUME NEW e \in Elements
       PROVE  counts'[e] = IF Home(e) < cursor'[Owner(e, s)] THEN 1 ELSE 0
  <2> DEFINE h == Home(e)
  <2> DEFINE o == Owner(e, s)
  <2>1. h \in Nat /\ e[1] \in Kernels BY <1>1, HomeInRange, OffsetNumFacts, ElementParts
  <2>2. /\ o \in 0..(grid - 1)
        /\ pid = o <=> KernelOf(pid) = e[1] /\ PidOffset(pid) = h % s
        /\ counts[e] = IF h < cursor[o] THEN 1 ELSE 0
    BY <1>5, <1>6
  <2>3. KernelOf(pid) = e[1] => (e \in ElementsAt(KernelOf(pid), c) <=> c = h)
    BY <1>1, <1>8, OneBlock DEF h
  <2>4. counts'[e] = counts[e] + (IF e \in ElementsAt(KernelOf(pid), c) THEN 1 ELSE 0)
    BY <1>1 DEF c
  <2>5. CASE pid = o
    <3>1. cursor[o] = c /\ cursor'[o] = c + s BY <1>5, <1>7, <2>2, <2>5 DEF c
    <3>2. c % s = h % s /\ KernelOf(pid) = e[1] BY <1>7, <2>2, <2>5
    <3> DEFINE C == ElementsAt(KernelOf(pid), c)
    <3>3. e \in C <=> c = h BY <2>3, <3>2
    <3> HIDE DEF C, h, o
    <3>4. CASE h < c
      <4>1. counts[e] = 1 BY <2>2, <3>1, <3>4
      <4>2. e \notin C BY <1>7, <2>1, <3>3, <3>4
      <4>3. h < c + s BY <1>7, <2>1, <3>4
      <4>. QED BY <2>4, <3>1, <4>1, <4>2, <4>3 DEF C, h, o
    <3>5. CASE h = c
      <4>1. counts[e] = 0 BY <1>7, <2>2, <3>1, <3>5
      <4>2. e \in C BY <3>3, <3>5
      <4>3. h < c + s BY <1>7, <2>1, <3>5
      <4>. QED BY <2>4, <3>1, <4>1, <4>2, <4>3 DEF C, h, o
    <3>6. CASE c < h
      <4>1. counts[e] = 0 BY <1>7, <2>1, <2>2, <3>1, <3>6
      <4>2. e \notin C BY <1>7, <2>1, <3>3, <3>6
      <4>3. c + s <= h BY <1>7, <2>1, <3>2, <3>6, NextInStep
      <4>4. ~(h < c + s) BY <1>7, <2>1, <4>3
      <4>. QED BY <2>4, <3>1, <4>1, <4>2, <4>4 DEF C, h, o
    <3>7. h < c \/ h = c \/ c < h BY <1>7, <2>1
    <3>. QED BY <3>4, <3>5, <3>6, <3>7
  <2>6. CASE pid # o
    <3>1. cursor'[o] = cursor[o] BY <1>5, <1>7, <2>2, <2>6
    <3>2. e \notin ElementsAt(KernelOf(pid), c)
      <4>1. CASE KernelOf(pid) = e[1]
        <5>1. c % s # h % s BY <1>7, <2>2, <2>6, <4>1
        <5>. QED BY <2>3, <4>1, <5>1
      <4>2. CASE KernelOf(pid) # e[1]
        BY <4>2 DEF ElementsAt
      <4>. QED BY <4>1, <4>2
    <3>3. counts'[e] = counts[e] BY <2>2, <2>4, <3>2
    <3>. QED BY <2>2, <3>1, <3>3
  <2>. QED BY <2>5, <2>6
<1>13. Dealt(s)'
  <2>1. DOMAIN cursor' = 0..(grid' - 1) BY <1>1, <1>5
  <2>. QED BY <1>1, <1>5, <1>9, <1>10, <1>11, <1>12, <2>1 DEF Dealt
<1>14. DOMAIN counts' = Elements' BY <1>1, <1>9
<1>. QED BY <1>1, <1>13, <1>14 DEF LaunchInv

\* When every program has ended, every owner is past every home.
LEMMA AllPast == ASSUME LaunchInv PROVE EachElementOnce
PROOF
<1>1. CASE grid = 0 /\ \A e \in Elements : counts[e] = 0
  BY <1>1 DEF EachElementOnce
<1>2. ASSUME NEW s \in Nat \ {0}, Dealt(s) PROVE EachElementOnce
  <2>1. \A e \in Elements : counts[e] = IF Home(e) < cursor[Owner(e, s)] THEN 1 ELSE 0
    BY <1>2 DEF Dealt
  <2>2. ASSUME \A pid \in DOMAIN cursor : ~Working(pid), NEW e \in Elements PROVE counts[e] = 1
    <3> DEFINE o == Owner(e, s)
    <3> DEFINE b == BlocksOf(e[1])
    <3>1. launch \in Launches BY DEF LaunchInv
    <3>2. /\ o \in DOMAIN cursor /\ KernelOf(o) = e[1] /\ cursor[o] \in Nat
      BY <1>2, <3>1, OwnerFacts DEF Dealt
    <3>3. ~(cursor[o] < b) BY <2>2, <3>2 DEF Working
    <3>4. Home(e) \in 0..(b - 1) /\ b \in Nat
      BY <3>1, HomeInRange, OffsetNumFacts, ElementParts
    <3> HIDE DEF b
    <3>5. Home(e) < cursor[o] BY <3>2, <3>3, <3>4
    <3>. QED BY <2>1, <3>5
  <2>. QED BY <2>1, <2>2 DEF EachElementOnce
<1>. QED BY <1>1, <1>2 DEF LaunchInv

LEMMA LaunchInvInit == LaunchInit => LaunchInv
PROOF BY DEF LaunchInit, LaunchInv

LEMMA LaunchInvNext == LaunchInv /\ [LaunchNext]_launchVars => LaunchInv'
PROOF
<1> SUFFICES ASSUME LaunchInv, [LaunchNext]_launchVars PROVE LaunchInv' OBVIOUS
<1>1. CASE Launch BY <1>1, LaunchDeals
<1>2. CASE \E pid \in DOMAIN cursor : WriteBlock(pid) BY <1>2, WriteBlockDeals
<1>3. CASE UNCHANGED launchVars
  <2>1. launch' = launch /\ grid' = grid /\ cursor' = cursor /\ counts' = counts
    BY <1>3 DEF launchVars
  <2>2. Elements' = Elements BY <2>1 DEF Elements, Kernels
  <2>3. /\ \A p : PidOffset(p)' = PidOffset(p)
        /\ \A e : Home(e)' = Home(e)
        /\ \A s, e : Owner(e, s)' = Owner(e, s)
    BY <2>1 DEF PidOffset, Home, Owner, Along, OffsetNum, CeilDiv
  <2>4. \A s \in Nat \ {0} : Dealt(s) => Dealt(s)' BY <2>1, <2>2, <2>3 DEF Dealt
  <2>. QED BY <2>1, <2>2, <2>4 DEF LaunchInv
<1>. QED BY <1>1, <1>2, <1>3 DEF LaunchNext

\* Every program of the grid has a cursor, and every element a count (the launch).
THEOREM LaunchTyping == LaunchSpec => []LaunchTypeOK
PROOF
<1>1. LaunchInv => LaunchTypeOK
  <2> SUFFICES ASSUME LaunchInv PROVE LaunchTypeOK OBVIOUS
  <2>1. ASSUME NEW s \in Nat \ {0}, Dealt(s) PROVE LaunchTypeOK
    <3>1. launch \in Launches /\ DOMAIN counts = Elements BY DEF LaunchInv
    <3>2. grid = Len(launch.kernels) * s /\ DOMAIN cursor = 0..(grid - 1) BY <2>1 DEF Dealt
    <3>3. grid \in Nat BY <3>1, <3>2, OwnerFacts
    <3>. QED BY <2>1, <3>1, <3>2, <3>3 DEF LaunchTypeOK
  <2>2. grid = 0 /\ cursor = <<>> => LaunchTypeOK BY DEF LaunchInv, LaunchTypeOK
  <2>. QED BY <2>1, <2>2 DEF LaunchInv
<1>. QED BY <1>1, LaunchInvInit, LaunchInvNext, PTL DEF LaunchSpec

\* Whatever the kernels of a launch, the sizes of their blocks, the number of cores and
\* min_blocks, whether there are fewer programs than blocks or more,
\* and in whatever order the programs run: no element is written twice, and none is left
\* out once every program has ended.
THEOREM BlocksAreDealtOut == LaunchSpec => []EachElementOnce
PROOF BY AllPast, LaunchInvInit, LaunchInvNext, PTL DEF LaunchSpec
=============================================================================
