------------------------ MODULE BFCAllocatorProofs ------------------------
(* For any callers, sizes and bound: blocks stay well formed and the figure *)
(* the allocator reports is a peak, with or without the discipline; under   *)
(* the discipline that nobody frees the block at the end of the pool, the   *)
(* blocks tile the pool and free blocks never touch.                        *)
EXTENDS BFCAllocator, TLAPS

\* What a request takes is positive.
LEMMA NeedPositive == ASSUME NEW size \in Sizes PROVE Need(size) \in Nat \ {0}
PROOF BY SizesAssumption DEF Need

\* What is left of a block that is large enough is a free block or nothing.
LEMMA RestType ==
    ASSUME NEW b \in Block, NEW n \in Nat, b.size >= n
    PROVE  Rest(b, n) \subseteq Piece
PROOF
<1>1. CASE b.size > n
  <2> DEFINE r == [offset |-> b.offset + n, size |-> b.size - n]
  <2>1. r \in Piece BY <1>1 DEF Block, Piece
  <2>2. Rest(b, n) = {r} BY <1>1 DEF Rest
  <2>3. QED BY <2>1, <2>2
<1>2. CASE ~(b.size > n) BY <1>2 DEF Rest
<1>3. QED BY <1>1, <1>2

\* Merging a free block with its neighbours gives free blocks.
LEMMA MergeType ==
    ASSUME NEW blocks \in SUBSET Piece, NEW b \in blocks
    PROVE  Merge(b, blocks) \subseteq Piece
PROOF
<1> DEFINE left == {c \in Previous(b, blocks) : End(c) = b.offset}
           right == {c \in Following(b, blocks) : End(b) = c.offset}
           start == IF left = {} THEN b.offset ELSE (CHOOSE c \in left : TRUE).offset
           stop == IF right = {} THEN End(b) ELSE End(CHOOSE c \in right : TRUE)
<1>1. left \subseteq blocks /\ right \subseteq blocks BY DEF Previous, Following
<1>2. b.offset \in Nat /\ b.size \in Nat /\ b.size > 0 BY DEF Piece, Block
<1>3. start \in Nat /\ start <= b.offset
  <2>1. CASE left = {} BY <1>2, <2>1
  <2>2. CASE left # {}
    <3>1. PICK c \in left : c = CHOOSE d \in left : TRUE BY <2>2
    <3>2. c \in Block /\ End(c) = b.offset BY <1>1 DEF Piece
    <3>3. start = c.offset BY <3>1, <2>2
    <3> HIDE DEF start, left
    <3>4. QED BY <1>2, <3>2, <3>3 DEF Block, End
  <2>3. QED BY <2>1, <2>2
<1>4. stop \in Nat /\ stop > b.offset
  <2>1. CASE right = {} BY <1>2, <2>1 DEF End
  <2>2. CASE right # {}
    <3>1. PICK c \in right : c = CHOOSE d \in right : TRUE BY <2>2
    <3>2. c \in Piece /\ End(b) = c.offset BY <1>1
    <3>3. stop = End(c) BY <3>1, <2>2
    <3> HIDE DEF stop, right
    <3>4. QED BY <1>2, <3>2, <3>3 DEF Piece, Block, End
  <2>3. QED BY <2>1, <2>2
<1>5. Merge(b, blocks) = (blocks \ (left \cup right \cup {b}))
                             \cup {[offset |-> start, size |-> stop - start]}
  BY DEF Merge
<1> HIDE DEF left, right, start, stop
<1>6. [offset |-> start, size |-> stop - start] \in Piece
  BY <1>2, <1>3, <1>4 DEF Piece, Block
<1>7. QED BY <1>5, <1>6

\* A request is served from a free block, by enlarging the last one, or by
\* enlarging the pool: the blocks stay well formed and the pool never shrinks.
LEMMA AllocKeeps ==
    ASSUME TypeOK, NEW o \in Owners, NEW size \in Sizes,
           AllocBestFit(o, size) \/ AllocExtend(o, size) \/ AllocGrow(o, size)
    PROVE  TypeOK' /\ poolSize' >= poolSize
PROOF
<1> DEFINE n == Need(size)
<1>1. n \in Nat \ {0} BY NeedPositive
<1>2. ASSUME NEW offset \in Nat, Give(o, offset, n) PROVE live' \in [Owners -> Piece \cup {Nothing}]
  <2>1. [offset |-> offset, size |-> n] \in Piece BY <1>1 DEF Block, Piece
  <2>2. QED BY <1>2, <2>1 DEF TypeOK, Give
<1>3. free \subseteq Piece BY DEF TypeOK, Piece
<1>4. CASE AllocBestFit(o, size)
  <2>1. PICK b \in BestFits(n) : Give(o, b.offset, n) /\ free' = (free \ {b}) \cup Rest(b, n)
    BY <1>4 DEF AllocBestFit
  <2>2. b \in Block /\ b.size >= n BY <1>3, <2>1 DEF BestFits, Fits, Piece
  <2>3. Rest(b, n) \subseteq Piece BY <1>1, <2>2, RestType
  <2>4. live' \in [Owners -> Piece \cup {Nothing}] BY <1>2, <2>1, <2>2 DEF Block
  <2>5. free' \subseteq Piece BY <1>3, <2>1, <2>3
  <2>6. poolSize' = poolSize /\ keepLast' = keepLast BY <1>4 DEF AllocBestFit
  <2>7. QED BY <2>4, <2>5, <2>6 DEF TypeOK, Piece
<1>5. CASE AllocExtend(o, size)
  <2>1. PICK b \in free :
            /\ End(b) = poolSize
            /\ Give(o, b.offset, n)
            /\ free' = (free \ {b}) \cup Rest([b EXCEPT !.size = @ + n], n)
            /\ poolSize' = b.offset + n
    BY <1>5 DEF AllocExtend
  <2>2. b \in Block BY <1>3, <2>1 DEF Piece
  <2>3. b.size < n BY <1>1, <1>5, <2>2 DEF AllocExtend, Fits, Block
  <2> DEFINE e == [b EXCEPT !.size = @ + n]
  <2>4. e \in Block /\ e.size >= n BY <1>1, <2>2 DEF Block
  <2>5. Rest(e, n) \subseteq Piece BY <1>1, <2>4, RestType
  <2>6. live' \in [Owners -> Piece \cup {Nothing}] BY <1>2, <2>1, <2>2 DEF Block
  <2>7. free' \subseteq Piece BY <1>3, <2>1, <2>5
  <2>8. poolSize' \in Nat /\ poolSize' >= poolSize BY <1>1, <2>1, <2>2, <2>3 DEF Block, End
  <2>9. keepLast' = keepLast BY <1>5 DEF AllocExtend
  <2>10. QED BY <2>6, <2>7, <2>8, <2>9 DEF TypeOK, Piece
<1>6. CASE AllocGrow(o, size)
  <2>1. live' \in [Owners -> Piece \cup {Nothing}] BY <1>2, <1>6 DEF AllocGrow, TypeOK
  <2>2. poolSize' \in Nat /\ poolSize' >= poolSize BY <1>1, <1>6 DEF AllocGrow, TypeOK
  <2>3. QED BY <1>6, <2>1, <2>2 DEF AllocGrow, TypeOK
<1>7. QED BY <1>4, <1>5, <1>6

\* So do the free blocks when a block is given back and merged.
LEMMA FreeKeeps ==
    ASSUME TypeOK, NEW o \in Owners, Free(o) PROVE TypeOK' /\ poolSize' = poolSize
PROOF
<1>1. PICK p \in Owners :
          /\ Holds(p)
          /\ live' = [live EXCEPT ![p] = live[o], ![o] = Nothing]
          /\ \E f \in FirstAt(live[p].offset, free \cup {live[p]}) :
                free' = Merge(f, free \cup {live[p]})
  BY DEF Free
<1>2. UNCHANGED <<poolSize, keepLast>> BY DEF Free
<1>3. live[p] \in Piece /\ live[o] \in Piece \cup {Nothing}
  BY <1>1 DEF TypeOK, Holds
<1>4. live' \in [Owners -> Piece \cup {Nothing}] BY <1>1, <1>3 DEF TypeOK
<1>5. free' \subseteq Piece
  <2>1. free \cup {live[p]} \in SUBSET Piece BY <1>3 DEF TypeOK
  <2>2. PICK f \in FirstAt(live[p].offset, free \cup {live[p]}) :
            free' = Merge(f, free \cup {live[p]})
    BY <1>1
  <2>3. f \in free \cup {live[p]} BY <2>2 DEF FirstAt
  <2>4. QED BY <2>1, <2>2, <2>3, MergeType
<1>6. QED BY <1>2, <1>4, <1>5 DEF TypeOK

\* The empty pool is well formed, and every step keeps it so.
LEMMA StepKeeps == TypeOK /\ [Next]_vars => TypeOK' /\ poolSize' >= poolSize
PROOF
<1> SUFFICES ASSUME TypeOK, [Next]_vars PROVE TypeOK' /\ poolSize' >= poolSize OBVIOUS
<1>1. poolSize >= poolSize BY DEF TypeOK
<1>2. ASSUME NEW o \in Owners, Free(o) PROVE TypeOK' /\ poolSize' >= poolSize
  BY <1>1, <1>2, FreeKeeps
<1>3. CASE UNCHANGED vars BY <1>1, <1>3 DEF TypeOK, vars
<1>4. QED BY <1>2, <1>3, AllocKeeps DEF Next

\* No live or free block is ever empty or placed before the pool, whatever the
\* callers free (alloc, free).
THEOREM AllocatorTypeCorrect == Spec => []TypeOK
PROOF
<1>1. Init => TypeOK BY DEF Init, TypeOK
<1>2. QED BY <1>1, StepKeeps, PTL DEF Spec

\* total_size never falls: even the defective extension of the last block
\* leaves the figure larger than it was.
THEOREM TotalSizeIsMonotone == Spec => PeakNeverFalls
PROOF
<1>1. TypeOK /\ [Next]_vars => [poolSize' >= poolSize]_vars BY StepKeeps
<1>2. QED BY <1>1, AllocatorTypeCorrect, PTL DEF Spec, PeakNeverFalls

-----------------------------------------------------------------------------
(* The tiling of the pool, under the discipline.                            *)

Covers(b, u) == b.offset <= u /\ u < End(b)

\* Tiling and Coalesced without their condition; the pool is covered unit by unit.
AllApart ==
    /\ \A o, p \in Owners : o # p /\ Holds(o) /\ Holds(p) => Apart(live[o], live[p])
    /\ \A b \in free : \A o \in Owners : Holds(o) => Apart(b, live[o])
    /\ \A b, c \in free : b # c => Apart(b, c)
Covered ==
    \A u \in Nat : u < poolSize <=> \/ \E b \in free : Covers(b, u)
                                    \/ \E o \in Owners : Holds(o) /\ Covers(live[o], u)
NoneTouch == \A b, c \in free : End(b) # c.offset

\* The block at the end of the pool is in use, so that AllocExtend is never taken.
EndInUse == poolSize # 0 => \E o \in Owners : Holds(o) /\ End(live[o]) = poolSize

TileInv == TypeOK /\ (keepLast => AllApart /\ Covered /\ NoneTouch /\ EndInUse)

\* Blocks have a place and a size.
LEMMA PieceFacts ==
    ASSUME NEW b \in Piece
    PROVE  /\ b.offset \in Nat /\ b.size \in Nat /\ b.size > 0
           /\ End(b) \in Nat /\ End(b) = b.offset + b.size /\ End(b) > b.offset
PROOF BY DEF Piece, Block, End

LEMMA LivePiece == ASSUME TypeOK, NEW o \in Owners, Holds(o) PROVE live[o] \in Piece
PROOF BY DEF TypeOK, Holds

\* The two ways to say that the blocks make up the pool agree.
LEMMA CoveredTiles ==
    ASSUME TypeOK, Covered
    PROVE  UNION {Units(b) : b \in Used \cup free} = 0 .. poolSize - 1
PROOF
<1>1. poolSize \in Nat BY DEF TypeOK
<1>2. ASSUME NEW b \in Used \cup free
      PROVE  /\ \A u : u \in Units(b) <=> u \in Nat /\ Covers(b, u)
             /\ b \in free \/ \E o \in Owners : Holds(o) /\ b = live[o]
  <2>1. b \in free \/ \E o \in Owners : Holds(o) /\ b = live[o] BY DEF Used, Holds
  <2>2. b \in Piece BY <2>1, LivePiece DEF TypeOK
  <2>3. QED BY <2>1, <2>2, PieceFacts DEF Units, Covers
<1>3. ASSUME NEW o \in Owners, Holds(o) PROVE live[o] \in Used BY <1>3 DEF Used, Holds
<1>4. ASSUME NEW u \in UNION {Units(b) : b \in Used \cup free} PROVE u \in 0 .. poolSize - 1
  <2>1. PICK b \in Used \cup free : u \in Units(b) OBVIOUS
  <2>2. u \in Nat /\ Covers(b, u) BY <1>2, <2>1
  <2>3. u < poolSize BY <1>2, <2>2 DEF Covered
  <2>4. QED BY <1>1, <2>2, <2>3
<1>5. ASSUME NEW u \in 0 .. poolSize - 1 PROVE u \in UNION {Units(b) : b \in Used \cup free}
  <2>1. u \in Nat /\ u < poolSize BY <1>1
  <2>2. PICK b \in Used \cup free : Covers(b, u) BY <1>3, <2>1 DEF Covered
  <2>3. QED BY <1>2, <2>1, <2>2
<1>6. QED BY <1>4, <1>5

LEMMA TileInvInit == Init => TileInv
PROOF
<1> SUFFICES ASSUME Init PROVE TileInv OBVIOUS
<1>1. TypeOK BY DEF Init, TypeOK
<1>2. free = {} /\ poolSize = 0 /\ \A o \in Owners : ~Holds(o) BY DEF Init, Holds
<1>3. QED BY <1>1, <1>2 DEF TileInv, AllApart, Covered, NoneTouch, EndInUse

-----------------------------------------------------------------------------
\* A request is served from the front of a free block.
LEMMA BestFitKeeps ==
    ASSUME TileInv, NEW o \in Owners, NEW size \in Sizes, AllocBestFit(o, size) PROVE TileInv'
PROOF
<1> DEFINE n == Need(size)
<1>1. TypeOK /\ TypeOK' BY AllocKeeps DEF TileInv
<1>2. SUFFICES ASSUME keepLast PROVE (AllApart /\ Covered /\ NoneTouch /\ EndInUse)'
  BY <1>1 DEF TileInv, AllocBestFit
<1>3. AllApart /\ Covered /\ NoneTouch /\ EndInUse BY <1>2 DEF TileInv
<1>4. n \in Nat /\ n > 0 BY NeedPositive
<1>5. PICK b \in BestFits(n) : Give(o, b.offset, n) /\ free' = (free \ {b}) \cup Rest(b, n)
  BY DEF AllocBestFit
<1> DEFINE g == [offset |-> b.offset, size |-> n]
           r == [offset |-> b.offset + n, size |-> b.size - n]
<1>6. b \in free /\ b.size >= n BY <1>5 DEF BestFits, Fits
<1>7. /\ ~Holds(o) /\ Holds(o)' /\ live'[o] = g /\ poolSize' = poolSize
      /\ \A p \in Owners \ {o} : live'[p] = live[p] /\ (Holds(p)' <=> Holds(p))
  <2>1. g # Nothing BY <1>4 DEF Nothing
  <2>2. QED BY <1>1, <1>5, <2>1 DEF AllocBestFit, Give, Holds, TypeOK
<1>8. b.offset \in Nat /\ b.size \in Nat /\ End(b) = b.offset + b.size
  BY <1>1, <1>6, PieceFacts DEF TypeOK
<1>9. End(g) = b.offset + n /\ g.offset = b.offset BY DEF End
<1>10. /\ b.size > n => Rest(b, n) = {r}
       /\ b.size = n => Rest(b, n) = {}
       /\ r.offset = b.offset + n /\ End(r) = End(b)
  BY <1>4, <1>6, <1>8 DEF Rest, End
<1>11. \A c \in free' : \/ c \in free /\ c # b
                        \/ c = r /\ b.size > n
  BY <1>4, <1>5, <1>6, <1>8, <1>10
<1>12. \A c \in free : /\ c.offset \in Nat /\ End(c) \in Nat /\ End(c) > c.offset
                       /\ c # b => Apart(b, c)
  BY <1>1, <1>3, <1>6, PieceFacts DEF TypeOK, AllApart
<1>13. \A p \in Owners : Holds(p) => /\ live[p].offset \in Nat /\ End(live[p]) \in Nat
                                     /\ Apart(b, live[p])
  BY <1>1, <1>3, <1>6, LivePiece, PieceFacts DEF AllApart
<1> HIDE DEF n, g, r
<1>14. AllApart'
  <2>1. ASSUME NEW p \in Owners, NEW q \in Owners, p # q, Holds(p)', Holds(q)'
        PROVE  Apart(live'[p], live'[q])
    <3>1. CASE p # o /\ q # o BY <1>3, <1>7, <2>1, <3>1 DEF AllApart
    <3>2. CASE p = o BY <1>4, <1>6, <1>7, <1>8, <1>9, <1>13, <2>1, <3>2 DEF Apart
    <3>3. CASE q = o BY <1>4, <1>6, <1>7, <1>8, <1>9, <1>13, <2>1, <3>3 DEF Apart
    <3>4. QED BY <3>1, <3>2, <3>3
  <2>2. ASSUME NEW c \in free', NEW p \in Owners, Holds(p)' PROVE Apart(c, live'[p])
    <3>1. CASE c \in free /\ c # b /\ p = o
      BY <1>4, <1>6, <1>7, <1>8, <1>9, <1>12, <3>1 DEF Apart
    <3>2. CASE c \in free /\ c # b /\ p # o BY <1>3, <1>7, <2>2, <3>2 DEF AllApart
    <3>3. CASE c = r /\ b.size > n /\ p = o
      BY <1>4, <1>7, <1>8, <1>9, <1>10, <3>3 DEF Apart
    <3>4. CASE c = r /\ b.size > n /\ p # o
      BY <1>4, <1>6, <1>7, <1>8, <1>10, <1>13, <2>2, <3>4 DEF Apart
    <3>5. QED BY <1>11, <3>1, <3>2, <3>3, <3>4
  <2>3. ASSUME NEW c \in free', NEW d \in free', c # d PROVE Apart(c, d)
    <3>1. CASE c \in free /\ d \in free BY <1>3, <2>3, <3>1 DEF AllApart
    <3>2. CASE c \in free /\ c # b /\ d = r /\ b.size > n
      BY <1>4, <1>8, <1>10, <1>12, <3>2 DEF Apart
    <3>3. CASE d \in free /\ d # b /\ c = r /\ b.size > n
      BY <1>4, <1>8, <1>10, <1>12, <3>3 DEF Apart
    <3>4. QED BY <1>11, <2>3, <3>1, <3>2, <3>3
  <2>4. QED BY <2>1, <2>2, <2>3 DEF AllApart, Holds, Apart
<1>15. Covered'
  <2> SUFFICES ASSUME NEW u \in Nat
               PROVE  u < poolSize <=> \/ \E c \in free' : Covers(c, u)
                                       \/ \E p \in Owners : Holds(p)' /\ Covers(live'[p], u)
    BY <1>7 DEF Covered, Covers, End, Holds
  <2>1. Covers(b, u) <=> Covers(g, u) \/ (b.size > n /\ Covers(r, u))
    BY <1>4, <1>6, <1>8, <1>9, <1>10 DEF Covers
  <2>2. b.size > n => r \in free' BY <1>5, <1>10
  <2>3. \A c \in free : c # b => c \in free' BY <1>5
  <2>4. (\E p \in Owners : Holds(p)' /\ Covers(live'[p], u))
           <=> Covers(g, u) \/ \E p \in Owners : Holds(p) /\ Covers(live[p], u)
    BY <1>7
  <2>5. (\E c \in free' : Covers(c, u)) \/ Covers(g, u) <=> \E c \in free : Covers(c, u)
    BY <1>6, <1>11, <2>1, <2>2, <2>3
  <2>6. QED BY <1>3, <2>4, <2>5 DEF Covered
<1>16. NoneTouch'
  <2> SUFFICES ASSUME NEW c \in free', NEW d \in free' PROVE End(c) # d.offset
    BY DEF NoneTouch, End
  <2>1. CASE c \in free /\ d \in free BY <1>3, <2>1 DEF NoneTouch
  <2>2. CASE c \in free /\ c # b /\ d = r /\ b.size > n
    BY <1>4, <1>8, <1>10, <1>12, <2>2 DEF Apart
  <2>3. CASE d \in free /\ c = r /\ b.size > n
    BY <1>3, <1>6, <1>10, <2>3 DEF NoneTouch
  <2>4. CASE c = r /\ d = r /\ b.size > n BY <1>4, <1>8, <1>10, <2>4
  <2>5. QED BY <1>11, <2>1, <2>2, <2>3, <2>4
<1>17. EndInUse' BY <1>3, <1>7 DEF EndInUse, End, Holds
<1>18. QED BY <1>14, <1>15, <1>16, <1>17

\* No free block reaches the end of the pool: the block there is in use.
LEMMA ExtendNever ==
    ASSUME TileInv, keepLast, NEW o \in Owners, NEW size \in Sizes
    PROVE  ~AllocExtend(o, size)
PROOF
<1> SUFFICES ASSUME AllocExtend(o, size) PROVE FALSE OBVIOUS
<1>1. PICK b \in free : End(b) = poolSize BY DEF AllocExtend
<1>2. b \in Piece /\ poolSize \in Nat BY <1>1 DEF TileInv, TypeOK
<1>3. poolSize # 0 BY <1>1, <1>2, PieceFacts
<1>4. PICK p \in Owners : Holds(p) /\ End(live[p]) = poolSize BY <1>3 DEF TileInv, EndInUse
<1>5. Apart(b, live[p]) BY <1>1, <1>4 DEF TileInv, AllApart
<1>6. live[p] \in Piece BY <1>4, LivePiece DEF TileInv
<1>7. QED BY <1>1, <1>2, <1>4, <1>5, <1>6, PieceFacts DEF Apart

\* A request for which no block is large enough is put behind the pool.
LEMMA GrowKeeps ==
    ASSUME TileInv, NEW o \in Owners, NEW size \in Sizes, AllocGrow(o, size) PROVE TileInv'
PROOF
<1> DEFINE n == Need(size)
           g == [offset |-> poolSize, size |-> n]
<1>1. TypeOK /\ TypeOK' BY AllocKeeps DEF TileInv
<1>2. SUFFICES ASSUME keepLast PROVE (AllApart /\ Covered /\ NoneTouch /\ EndInUse)'
  BY <1>1 DEF TileInv, AllocGrow
<1>3. AllApart /\ Covered /\ NoneTouch /\ EndInUse BY <1>2 DEF TileInv
<1>4. n \in Nat /\ n > 0 /\ poolSize \in Nat BY <1>1, NeedPositive DEF TypeOK
<1>5. /\ ~Holds(o) /\ Holds(o)' /\ live'[o] = g /\ poolSize' = poolSize + n /\ free' = free
      /\ \A p \in Owners \ {o} : live'[p] = live[p] /\ (Holds(p)' <=> Holds(p))
  <2>1. g # Nothing BY <1>4 DEF Nothing
  <2>2. QED BY <1>1, <2>1 DEF AllocGrow, MayGrow, Give, Holds, TypeOK
<1>6. g.offset = poolSize /\ End(g) = poolSize + n BY DEF End
<1> HIDE DEF n, g
<1>7. ASSUME NEW b \in Piece, \A u \in Nat : Covers(b, u) => u < poolSize
      PROVE  Apart(b, g) /\ Apart(g, b)
  <2>1. /\ b.offset \in Nat /\ End(b) \in Nat /\ End(b) > b.offset
    BY PieceFacts
  <2>2. End(b) - 1 \in Nat /\ Covers(b, End(b) - 1) BY <2>1 DEF Covers
  <2>3. End(b) - 1 < poolSize BY <1>7, <2>2
  <2>4. QED BY <1>4, <1>6, <2>1, <2>3 DEF Apart
<1>8. \A b \in free : Apart(b, g)
  <2> SUFFICES ASSUME NEW b \in free PROVE Apart(b, g) OBVIOUS
  <2>1. b \in Piece /\ \A u \in Nat : Covers(b, u) => u < poolSize
    BY <1>1, <1>3 DEF TypeOK, Covered
  <2>2. QED BY <1>7, <2>1
<1>9. \A p \in Owners : Holds(p) => Apart(live[p], g) /\ Apart(g, live[p])
  <2> SUFFICES ASSUME NEW p \in Owners, Holds(p) PROVE Apart(live[p], g) /\ Apart(g, live[p])
    OBVIOUS
  <2>1. live[p] \in Piece /\ \A u \in Nat : Covers(live[p], u) => u < poolSize
    BY <1>1, <1>3, LivePiece DEF Covered
  <2>2. QED BY <1>7, <2>1
<1>10. AllApart'
  <2>1. ASSUME NEW p \in Owners, NEW q \in Owners, p # q, Holds(p)', Holds(q)'
        PROVE  Apart(live'[p], live'[q])
    BY <1>3, <1>5, <1>9, <2>1 DEF AllApart
  <2>2. ASSUME NEW c \in free', NEW p \in Owners, Holds(p)' PROVE Apart(c, live'[p])
    BY <1>3, <1>5, <1>8, <2>2 DEF AllApart
  <2>3. QED BY <1>3, <1>5, <2>1, <2>2 DEF AllApart, Holds, Apart, End
<1>11. Covered'
  <2> SUFFICES ASSUME NEW u \in Nat
               PROVE  u < poolSize + n <=> \/ \E c \in free : Covers(c, u)
                                           \/ \E p \in Owners : Holds(p)' /\ Covers(live'[p], u)
    BY <1>5 DEF Covered, Covers, End, Holds
  <2>1. u < poolSize + n <=> u < poolSize \/ Covers(g, u) BY <1>4, <1>6 DEF Covers
  <2>2. (\E p \in Owners : Holds(p)' /\ Covers(live'[p], u))
           <=> Covers(g, u) \/ \E p \in Owners : Holds(p) /\ Covers(live[p], u)
    BY <1>5
  <2>3. QED BY <1>3, <2>1, <2>2 DEF Covered
<1>12. NoneTouch' BY <1>3, <1>5 DEF NoneTouch, End
<1>13. EndInUse' BY <1>5, <1>6 DEF EndInUse, End, Holds
<1>14. QED BY <1>10, <1>11, <1>12, <1>13

-----------------------------------------------------------------------------
\* The free blocks gone and b become one block m, which touches no other.
Joined(b, m, gone) ==
    /\ Merge(b, free \cup {b}) = (free \ gone) \cup {m}
    /\ \A c \in gone : End(c) = b.offset \/ End(b) = c.offset
    /\ \A u \in Nat : Covers(m, u) <=> Covers(b, u) \/ \E c \in gone : Covers(c, u)
    /\ \A c \in free \ gone : End(c) # m.offset /\ End(m) # c.offset

\* Where blocks are apart and do not touch, Merge joins b to the free blocks that
\* touch it, and they are at most one on either side.
LEMMA MergeJoins ==
    ASSUME TileInv, keepLast, NEW b \in Piece, \A c \in free : Apart(c, b)
    PROVE  \E m \in Piece, gone \in SUBSET free : Joined(b, m, gone)
PROOF
<1> DEFINE blocks == free \cup {b}
           left == {c \in Previous(b, blocks) : End(c) = b.offset}
           right == {c \in Following(b, blocks) : End(b) = c.offset}
           start == IF left = {} THEN b.offset ELSE (CHOOSE c \in left : TRUE).offset
           stop == IF right = {} THEN End(b) ELSE End(CHOOSE c \in right : TRUE)
           m == [offset |-> start, size |-> stop - start]
<1>1. /\ \A c \in blocks : c.offset \in Nat /\ End(c) \in Nat /\ End(c) > c.offset
      /\ \A c, d \in blocks : c # d => End(c) <= d.offset \/ End(d) <= c.offset
      /\ \A c, d \in free : End(c) # d.offset
  <2>1. \A c \in blocks : c.offset \in Nat /\ End(c) \in Nat /\ End(c) > c.offset
    BY PieceFacts DEF TileInv, TypeOK
  <2>2. QED BY <2>1 DEF TileInv, AllApart, NoneTouch, Apart
<1>2. \A c, d \in blocks : c # d => (Before(c, d) <=> End(c) <= d.offset)
  BY <1>1 DEF Before
<1>3. \A c \in blocks : ~Before(c, c)
  <2>1. blocks \subseteq Piece BY DEF TileInv, TypeOK
  <2>2. QED BY <2>1, PieceFacts DEF Before
<1>4. left = {c \in free : End(c) = b.offset}
  <2>1. ASSUME NEW c \in left PROVE c \in free /\ End(c) = b.offset
    BY <1>1, <2>1 DEF Previous
  <2>2. ASSUME NEW c \in free, End(c) = b.offset PROVE c \in left
    <3>1. c # b /\ Before(c, b) BY <1>1, <1>2, <2>2
    <3>2. ASSUME NEW d \in blocks, Before(d, b), d # c PROVE Before(d, c)
      <4>1. d # b BY <1>3, <3>2
      <4>2. End(d) <= b.offset BY <1>2, <3>2, <4>1
      <4>3. End(d) <= c.offset BY <1>1, <2>2, <3>2, <4>2
      <4>4. QED BY <1>2, <3>2, <4>3
    <3>3. QED BY <2>2, <3>1, <3>2 DEF Previous
  <2>3. QED BY <2>1, <2>2
<1>5. right = {c \in free : End(b) = c.offset}
  <2>1. ASSUME NEW c \in right PROVE c \in free /\ End(b) = c.offset
    BY <1>1, <2>1 DEF Following
  <2>2. ASSUME NEW c \in free, End(b) = c.offset PROVE c \in right
    <3>1. c # b /\ Before(b, c) BY <1>1, <1>2, <2>2
    <3>2. ASSUME NEW d \in blocks, Before(b, d), d # c PROVE Before(c, d)
      <4>1. d # b BY <1>3, <3>2
      <4>2. End(b) <= d.offset BY <1>2, <3>2, <4>1
      <4>3. End(c) <= d.offset BY <1>1, <2>2, <3>2, <4>2
      <4>4. QED BY <1>2, <3>2, <4>3
    <3>3. QED BY <2>2, <3>1, <3>2 DEF Following
  <2>3. QED BY <2>1, <2>2
<1>6. Merge(b, blocks) = (blocks \ (left \cup right \cup {b})) \cup {m} BY DEF Merge
<1> HIDE DEF left, right, m
<1>7. \/ left = {} /\ start = b.offset
      \/ \E l \in free : left = {l} /\ End(l) = b.offset /\ start = l.offset
  <2>1. CASE left = {} BY <2>1
  <2>2. CASE left # {}
    <3>1. PICK l \in left : l = CHOOSE c \in left : TRUE BY <2>2
    <3>2. l \in free /\ End(l) = b.offset
      <4> HIDE DEF start, stop, blocks
      <4>1. l \in left OBVIOUS
      <4>2. QED BY <1>4, <4>1
    <3>3. left = {l}
      <4> SUFFICES ASSUME NEW c \in left PROVE c = l BY <3>1
      <4>1. c \in free /\ End(c) = b.offset BY <1>4
      <4>2. c \in blocks /\ l \in blocks /\ End(c) = End(l) BY <3>2, <4>1
      <4> HIDE DEF start, stop, blocks
      <4>3. QED BY <1>1, <4>2
    <3>4. QED BY <2>2, <3>1, <3>2, <3>3
  <2>3. QED BY <2>1, <2>2
<1>8. \/ right = {} /\ stop = End(b)
      \/ \E r \in free : right = {r} /\ End(b) = r.offset /\ stop = End(r)
  <2>1. CASE right = {} BY <2>1
  <2>2. CASE right # {}
    <3>1. PICK r \in right : r = CHOOSE c \in right : TRUE BY <2>2
    <3>2. r \in free /\ End(b) = r.offset
      <4> HIDE DEF start, stop, blocks
      <4>1. r \in right OBVIOUS
      <4>2. QED BY <1>5, <4>1
    <3>3. right = {r}
      <4> SUFFICES ASSUME NEW c \in right PROVE c = r BY <3>1
      <4>1. c \in free /\ End(b) = c.offset BY <1>5
      <4>2. c \in blocks /\ r \in blocks /\ c.offset = r.offset BY <3>2, <4>1
      <4> HIDE DEF start, stop, blocks
      <4>3. QED BY <1>1, <4>2
    <3>4. QED BY <2>2, <3>1, <3>2, <3>3
  <2>3. QED BY <2>1, <2>2
<1>9. b.offset \in Nat /\ End(b) \in Nat /\ End(b) > b.offset /\ free \subseteq blocks
  BY PieceFacts
<1> HIDE DEF start, stop
<1>10. start \in Nat /\ stop \in Nat /\ start <= b.offset /\ End(b) <= stop
  BY <1>1, <1>7, <1>8, <1>9
<1>11. m \in Piece /\ m.offset = start /\ End(m) = stop
  BY <1>9, <1>10 DEF m, Piece, Block, End
<1> DEFINE gone == left \cup right
<1>12. gone \in SUBSET free BY <1>4, <1>5
<1>13. Merge(b, free \cup {b}) = (free \ gone) \cup {m}
  <2>1. b \notin free
    <3> SUFFICES ASSUME b \in free PROVE FALSE OBVIOUS
    <3>1. Apart(b, b) OBVIOUS
    <3>2. QED BY <1>9, <3>1 DEF Apart
  <2>2. QED BY <1>6, <2>1
<1>14. \A c \in gone : End(c) = b.offset \/ End(b) = c.offset BY <1>4, <1>5
<1>15. \A u \in Nat : Covers(m, u) <=> Covers(b, u) \/ \E c \in gone : Covers(c, u)
  <2> SUFFICES ASSUME NEW u \in Nat
               PROVE  Covers(m, u) <=> Covers(b, u) \/ \E c \in gone : Covers(c, u)
    OBVIOUS
  <2>1. start <= u /\ u < b.offset <=> \E c \in left : Covers(c, u)
    <3>1. CASE left = {} /\ start = b.offset BY <1>9, <3>1
    <3>2. CASE \E l \in free : left = {l} /\ End(l) = b.offset /\ start = l.offset
      BY <3>2 DEF Covers
    <3>3. QED BY <1>7, <3>1, <3>2
  <2>2. End(b) <= u /\ u < stop <=> \E c \in right : Covers(c, u)
    <3>1. CASE right = {} /\ stop = End(b) BY <1>9, <3>1
    <3>2. CASE \E r \in free : right = {r} /\ End(b) = r.offset /\ stop = End(r)
      BY <3>2 DEF Covers
    <3>3. QED BY <1>8, <3>1, <3>2
  <2>3. Covers(m, u) <=> start <= u /\ u < stop BY <1>11 DEF Covers
  <2>4. Covers(b, u) <=> b.offset <= u /\ u < End(b) BY DEF Covers
  <2>5. start <= u /\ u < stop <=> \/ start <= u /\ u < b.offset
                                   \/ b.offset <= u /\ u < End(b)
                                   \/ End(b) <= u /\ u < stop
    BY <1>9, <1>10
  <2>6. QED BY <2>1, <2>2, <2>3, <2>4, <2>5
<1>16. \A c \in free \ gone : End(c) # m.offset /\ End(m) # c.offset
  <2> SUFFICES ASSUME NEW c \in free \ gone PROVE End(c) # start /\ stop # c.offset
    BY <1>11
  <2>1. c \in free /\ End(c) # b.offset /\ End(b) # c.offset BY <1>4, <1>5
  <2>2. End(c) # start BY <1>1, <1>7, <2>1
  <2>3. stop # c.offset BY <1>1, <1>8, <2>1
  <2>4. QED BY <2>2, <2>3
<1> HIDE DEF gone
<1>17. Joined(b, m, gone) BY <1>13, <1>14, <1>15, <1>16 DEF Joined
<1>18. QED BY <1>11, <1>12, <1>17

\* What is freed is what its owner holds, and nobody else's block is found first.
LEMMA FreeFinds ==
    ASSUME TileInv, keepLast, NEW o \in Owners, Free(o)
    PROVE  /\ Holds(o) /\ live[o] \in Piece /\ End(live[o]) # poolSize
           /\ live' = [live EXCEPT ![o] = Nothing]
           /\ free' = Merge(live[o], free \cup {live[o]})
PROOF
<1>1. TypeOK /\ AllApart BY DEF TileInv
<1>2. PICK p \in Owners :
          /\ Holds(p) /\ live[p].offset = live[o].offset
          /\ live' = [live EXCEPT ![p] = live[o], ![o] = Nothing]
          /\ \E f \in FirstAt(live[p].offset, free \cup {live[p]}) :
                free' = Merge(f, free \cup {live[p]})
  BY DEF Free
<1>3. Holds(o) /\ End(live[o]) # poolSize BY DEF Free, MayFree
<1>4. live[o] \in Piece /\ live[p] \in Piece BY <1>1, <1>2, <1>3, LivePiece
<1>5. p = o
  <2>1. p # o => Apart(live[o], live[p]) BY <1>1, <1>2, <1>3 DEF AllApart
  <2>2. QED BY <1>2, <1>4, <2>1, PieceFacts DEF Apart
<1>6. live' = [live EXCEPT ![o] = Nothing] BY <1>1, <1>2, <1>5 DEF TypeOK
<1>7. FirstAt(live[o].offset, free \cup {live[o]}) \subseteq {live[o]}
  <2> SUFFICES ASSUME NEW b \in free, b.offset = live[o].offset PROVE FALSE BY DEF FirstAt
  <2>1. b \in Piece /\ Apart(b, live[o]) BY <1>1, <1>3 DEF TypeOK, AllApart
  <2>2. QED BY <1>4, <2>1, PieceFacts DEF Apart
<1>8. QED BY <1>2, <1>3, <1>4, <1>5, <1>6, <1>7

\* The block given back and its neighbours become one free block.
LEMMA ReleaseKeeps ==
    ASSUME TileInv, NEW o \in Owners, Free(o) PROVE TileInv'
PROOF
<1>1. TypeOK /\ TypeOK' BY FreeKeeps DEF TileInv
<1>2. SUFFICES ASSUME keepLast PROVE (AllApart /\ Covered /\ NoneTouch /\ EndInUse)'
  BY <1>1 DEF TileInv, Free
<1>3. AllApart /\ Covered /\ NoneTouch /\ EndInUse BY <1>2 DEF TileInv
<1> DEFINE b == live[o]
<1>4. /\ Holds(o) /\ b \in Piece /\ End(b) # poolSize
      /\ live' = [live EXCEPT ![o] = Nothing]
      /\ free' = Merge(b, free \cup {b}) /\ poolSize' = poolSize
  BY <1>2, FreeFinds DEF Free
<1>5. \A c \in free : Apart(c, b) BY <1>3, <1>4 DEF AllApart
<1>6. PICK m \in Piece, gone \in SUBSET free :
          /\ free' = (free \ gone) \cup {m}
          /\ \A c \in gone : End(c) = b.offset \/ End(b) = c.offset
          /\ \A u \in Nat : Covers(m, u) <=> Covers(b, u) \/ \E c \in gone : Covers(c, u)
          /\ \A c \in free \ gone : End(c) # m.offset /\ End(m) # c.offset
  BY <1>2, <1>4, <1>5, MergeJoins DEF Joined
<1>7. /\ ~Holds(o)'
      /\ \A p \in Owners \ {o} : live'[p] = live[p] /\ (Holds(p)' <=> Holds(p))
  BY <1>1, <1>4 DEF Holds, TypeOK
\* Whatever is apart from b and from all that joins it is apart from the whole.
<1>8. ASSUME NEW x \in Piece, Apart(x, b), \A c \in gone : Apart(x, c)
      PROVE  Apart(x, m)
  <2>1. /\ x.offset \in Nat /\ End(x) \in Nat /\ End(x) > x.offset
        /\ m.offset \in Nat /\ End(m) \in Nat /\ End(m) > m.offset
    BY PieceFacts
  <2>2. ASSUME NEW u \in Nat, Covers(x, u), Covers(m, u) PROVE FALSE
    <3>1. ASSUME NEW c \in Piece, Apart(x, c), Covers(c, u) PROVE FALSE
      BY <2>1, <2>2, <3>1, PieceFacts DEF Apart, Covers
    <3>2. gone \subseteq Piece BY <1>1 DEF TypeOK
    <3>3. QED BY <1>4, <1>6, <1>8, <2>2, <3>1, <3>2
  <2>3. CASE m.offset <= x.offset
    <3>1. ~Covers(m, x.offset) BY <2>1, <2>2 DEF Covers
    <3>2. QED BY <2>1, <2>3, <3>1 DEF Covers, Apart
  <2>4. CASE ~(m.offset <= x.offset)
    <3>1. ~Covers(x, m.offset) BY <2>1, <2>2 DEF Covers
    <3>2. QED BY <2>1, <2>4, <3>1 DEF Covers, Apart
  <2>5. QED BY <2>3, <2>4
<1>9. \A c \in free \ gone : Apart(c, m) /\ Apart(m, c)
  <2> SUFFICES ASSUME NEW c \in free \ gone PROVE Apart(c, m) /\ Apart(m, c) OBVIOUS
  <2>1. c \in Piece BY <1>1 DEF TypeOK
  <2>2. \A d \in gone : Apart(c, d) BY <1>3 DEF AllApart
  <2>3. Apart(c, m) BY <1>5, <1>8, <2>1, <2>2
  <2>4. QED BY <2>3 DEF Apart
<1>10. \A p \in Owners : Holds(p) /\ p # o => Apart(m, live[p])
  <2> SUFFICES ASSUME NEW p \in Owners, Holds(p), p # o PROVE Apart(m, live[p]) OBVIOUS
  <2>1. live[p] \in Piece BY <1>1, LivePiece
  <2>2. Apart(live[p], b) /\ \A d \in gone : Apart(live[p], d) BY <1>3, <1>4 DEF AllApart, Apart
  <2>3. Apart(live[p], m) BY <1>8, <2>1, <2>2
  <2>4. QED BY <2>3 DEF Apart
<1> HIDE DEF b
<1>11. AllApart'
  <2>1. ASSUME NEW p \in Owners, NEW q \in Owners, p # q, Holds(p)', Holds(q)'
        PROVE  Apart(live'[p], live'[q])
    BY <1>3, <1>7, <2>1 DEF AllApart
  <2>2. ASSUME NEW c \in free', NEW p \in Owners, Holds(p)' PROVE Apart(c, live'[p])
    <3>1. p # o /\ Holds(p) /\ live'[p] = live[p] BY <1>7, <2>2
    <3>2. CASE c = m BY <1>10, <3>1, <3>2
    <3>3. CASE c \in free BY <1>3, <3>1, <3>3 DEF AllApart
    <3>4. QED BY <1>6, <3>2, <3>3
  <2>3. ASSUME NEW c \in free', NEW d \in free', c # d PROVE Apart(c, d)
    <3>1. CASE c \in free /\ d \in free BY <1>3, <2>3, <3>1 DEF AllApart
    <3>2. CASE c = m /\ d \in free \ gone BY <1>9, <3>2
    <3>3. CASE d = m /\ c \in free \ gone BY <1>9, <3>3
    <3>4. QED BY <1>6, <2>3, <3>1, <3>2, <3>3
  <2>4. QED BY <2>1, <2>2, <2>3 DEF AllApart, Holds, Apart, End
<1>12. Covered'
  <2> SUFFICES ASSUME NEW u \in Nat
               PROVE  u < poolSize <=> \/ \E c \in free' : Covers(c, u)
                                       \/ \E p \in Owners : Holds(p)' /\ Covers(live'[p], u)
    BY <1>4 DEF Covered, Covers, End, Holds
  <2>1. (\E c \in free' : Covers(c, u)) <=> Covers(b, u) \/ \E c \in free : Covers(c, u)
    BY <1>6
  <2>2. (\E p \in Owners : Holds(p) /\ Covers(live[p], u))
           <=> Covers(b, u) \/ \E p \in Owners : Holds(p)' /\ Covers(live'[p], u)
    BY <1>4, <1>7 DEF b
  <2>3. QED BY <1>3, <2>1, <2>2 DEF Covered
<1>13. NoneTouch'
  <2> SUFFICES ASSUME NEW c \in free', NEW d \in free' PROVE End(c) # d.offset
    BY DEF NoneTouch, End
  <2>1. CASE c \in free /\ d \in free BY <1>3, <2>1 DEF NoneTouch
  <2>2. CASE c = m /\ d = m BY <2>2, PieceFacts
  <2>3. CASE c = m /\ d \in free \ gone BY <1>6, <2>3
  <2>4. CASE d = m /\ c \in free \ gone BY <1>6, <2>4
  <2>5. QED BY <1>6, <2>1, <2>2, <2>3, <2>4
<1>14. EndInUse'
  <2> SUFFICES ASSUME poolSize # 0 PROVE \E p \in Owners : Holds(p)' /\ End(live'[p]) = poolSize
    BY <1>4 DEF EndInUse, End, Holds
  <2>1. PICK p \in Owners : Holds(p) /\ End(live[p]) = poolSize BY <1>3 DEF EndInUse
  <2>2. p # o BY <1>4, <2>1 DEF b
  <2>3. QED BY <1>7, <2>1, <2>2
<1>15. QED BY <1>11, <1>12, <1>13, <1>14

-----------------------------------------------------------------------------
LEMMA TileInvStep == TileInv /\ [Next]_vars => TileInv'
PROOF
<1> SUFFICES ASSUME TileInv, [Next]_vars PROVE TileInv' OBVIOUS
<1>1. ASSUME NEW o \in Owners, NEW size \in Sizes, AllocBestFit(o, size) PROVE TileInv'
  BY <1>1, BestFitKeeps
<1>2. ASSUME NEW o \in Owners, NEW size \in Sizes, AllocExtend(o, size) PROVE TileInv'
  <2>1. ~keepLast BY <1>2, ExtendNever
  <2>2. TypeOK' /\ ~keepLast' BY <1>2, <2>1, AllocKeeps DEF TileInv, AllocExtend
  <2>3. QED BY <2>2 DEF TileInv
<1>3. ASSUME NEW o \in Owners, NEW size \in Sizes, AllocGrow(o, size) PROVE TileInv'
  BY <1>3, GrowKeeps
<1>4. ASSUME NEW o \in Owners, Free(o) PROVE TileInv' BY <1>4, ReleaseKeeps
<1>5. CASE UNCHANGED vars
  BY <1>5 DEF TileInv, TypeOK, AllApart, Covered, NoneTouch, EndInUse, Holds, Apart, Covers, End, vars
<1>6. QED BY <1>1, <1>2, <1>3, <1>4, <1>5 DEF Next

THEOREM TileInvHolds == Spec => []TileInv
PROOF BY TileInvInit, TileInvStep, PTL DEF Spec

\* As long as nobody frees the block at the end of the pool, no unit is given twice
\* and none is lost, after any sequence of requests and releases (alloc, free).
THEOREM BlocksTileThePool == Spec => []Tiling
PROOF
<1>1. TileInv => Tiling
  <2> SUFFICES ASSUME TileInv, keepLast
               PROVE  AllApart /\ UNION {Units(b) : b \in Used \cup free} = 0 .. poolSize - 1
    BY DEF Tiling, AllApart
  <2>1. TypeOK /\ AllApart /\ Covered BY DEF TileInv
  <2>2. QED BY <2>1, CoveredTiles
<1>2. QED BY <1>1, TileInvHolds, PTL

\* Under the same discipline free blocks that touch are always merged.
THEOREM FreeBlocksNeverTouch == Spec => []Coalesced
PROOF
<1>1. TileInv => Coalesced BY DEF TileInv, NoneTouch, Coalesced
<1>2. QED BY <1>1, TileInvHolds, PTL

=============================================================================
