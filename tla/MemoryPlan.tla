---------------------------- MODULE MemoryPlan ----------------------------
(* How much on-chip memory a candidate subgraph needs: its nodes are played *)
(* in order on three simulated pools (BFCAllocator), the space of an        *)
(* operand is returned after its last reader, and the sizes the pools have  *)
(* reached are compared with the chip.                                      *)
EXTENDS TileDims

CONSTANTS
    Names,      \* the nodes a graph may hold
    MaxOutputs, \* outputs or requests of one node, those of a second play included
    CoAlign,    \* the filter of a product is padded to these multiples
    CiAlign,
    PoolLimit   \* bound of the exploration, which no pool reaches

ASSUME SlotsAssumption == MaxOutputs \in Nat /\ MaxOutputs >= 2

VARIABLES
    orders,     \* order in which a set of inputs is listed: any, but always the same
    todo,       \* what is left to play: requests, reads and returns
    count,      \* node_du_counter: readers an output still waits for
    given,      \* slots that have been given memory
    pinned,     \* slots that are never returned (INVARIANT)
    nramLive, nramFree, nramSize,
    wramLive, wramFree, wramSize,
    smLive, smFree, smSize,
    keepLast    \* the discipline BFCAllocator knows of, which is not kept here

poolVars == <<nramLive, nramFree, nramSize, wramLive, wramFree, wramSize, smLive, smFree, smSize, keepLast>>
planVars == <<orders, todo, count, given, pinned, poolVars>>

Slots == Names \X (1 .. MaxOutputs)

Nram == INSTANCE BFCAllocator WITH
    Owners <- Slots, Sizes <- {}, PoolBound <- PoolLimit,
    live <- nramLive, free <- nramFree, poolSize <- nramSize
Wram == INSTANCE BFCAllocator WITH
    Owners <- Slots, Sizes <- {}, PoolBound <- PoolLimit,
    live <- wramLive, free <- wramFree, poolSize <- wramSize
Sm == INSTANCE BFCAllocator WITH
    Owners <- Slots, Sizes <- {}, PoolBound <- PoolLimit,
    live <- smLive, free <- smFree, poolSize <- smSize

EmptyPool == [s \in Slots |-> Nram!Nothing]

-----------------------------------------------------------------------------
\* The shape one tile of an output has: a tiled dimension counts once.
TileShape(s, dims) == [i \in DOMAIN s |-> IF \E d \in dims : d % Len(s) = i - 1 THEN 1 ELSE s[i]]
OutputTile(T, n, i) == IF Tiled(T, n) /\ i \in DOMAIN T[n] THEN T[n][i] ELSE {}
TileSize(G, T, n, i) == Product(TileShape(Shapes(G, n)[i], OutputTile(T, n, i)))

Ask(n, i, nram, wram, sm, pin) ==
    [do |-> "give", slot |-> <<n, i>>, nram |-> nram, wram |-> wram, sm |-> sm, pin |-> pin]
Read(n, x) == [do |-> "read", node |-> n, operand |-> x]
Return(s) == [do |-> "return", slot |-> s]

IsFilter(G, x, nodes) == \E u \in FamilyUsers(G, x) \cap nodes : Op(G, u) \in Matmul /\ Filter(G, u) = x

\* An input that is a filter goes to shared memory, once per core, when the chip
\* promotes; one that no tile changes keeps its place.
InputRequests(G, T, x, nodes, chip) ==
    LET shared == chip.promote /\ IsFilter(G, x, nodes)
        Size(i) == TileSize(G, T, x, i)
    IN [i \in DOMAIN Shapes(G, x) |->
           Ask(x, i, IF shared THEN 0 ELSE Size(i), 0, IF shared THEN Size(i) * chip.cores ELSE 0,
               OutputTile(T, x, i) = {})]

PadTo(v, a) == ((v + a - 1) \div a) * a

\* The filter of a product also takes padded space of its own.
FilterRequest(G, T, n) ==
    LET f == Filter(G, n)
        s == TileShape(Shape(G, f), OutputTile(T, f, 1))
        r == Len(s)
        padded == [s EXCEPT ![r] = PadTo(@, CoAlign), ![r - 1] = PadTo(@, CiAlign)]
    IN Ask(n, 1, 0, Product(padded), 0, OutputTile(T, f, 1) = {})

\* get_require_mem
NodeRequests(G, T, n) ==
    CASE Op(G, n) \in Matmul -> <<FilterRequest(G, T, n), Ask(n, 2, TileSize(G, T, n, 1), 0, 0, FALSE)>>
      [] Op(G, n) = "getitem" -> <<Ask(n, 1, 0, 0, 0, FALSE)>>
      [] OTHER -> [i \in DOMAIN Shapes(G, n) |-> Ask(n, i, TileSize(G, T, n, i), 0, 0, FALSE)]

\* Faulty form: only the first reader of an output is waited for.
FirstReader(G, nodes, x) == {u \in UserSet(G, x) \cap nodes : Op(G, u) # "cat" /\
                                \A v \in UserSet(G, x) \cap nodes : Op(G, v) # "cat" => ~Earlier(G, v, u)}

\* The readers that hold the space of x: a cat has its own, made in advance, and the
\* readers of an input outside the subgraph are not its concern.
Readers(G, nodes, x) ==
    {u \in UserSet(G, x) : Op(G, u) # "cat" /\ (x \in nodes \/ u \in nodes)}

\* The members of S in the order of the graph, each as often as it is listed.
Sorted(G, listed, S) ==
    LET order == InGraphOrder(G, S)
        Copies(n) == [j \in 1 .. Cardinality({i \in DOMAIN listed : listed[i] = n}) |-> n]
    IN FlattenSeq([i \in DOMAIN order |-> Copies(order[i])])

\* The cats first, then every other node: its own requests, unless nobody but cats
\* reads it, and then its reads.  A node listed twice is played twice, with slots of
\* its own.
Script(G, T, nodes, cats, others) ==
    LET Slot(k, i) == IF k > 1 /\ others[k - 1] = others[k] THEN i + 2 ELSE i
        Own(k) == LET asked == NodeRequests(G, T, others[k])
                  IN [i \in DOMAIN asked |-> [asked[i] EXCEPT !.slot[2] = Slot(k, @)]]
        Play(k) == (IF Readers(G, nodes, others[k]) = {} THEN <<>> ELSE Own(k))
                      \o [i \in DOMAIN Inputs(G, others[k]) |-> Read(others[k], Inputs(G, others[k])[i])]
    IN FlattenSeq([i \in DOMAIN cats |-> NodeRequests(G, T, cats[i])])
          \o FlattenSeq([k \in DOMAIN others |-> Play(k)])

Measure(G, T, listed, chip) ==
    LET nodes == ToSet(listed)
        ins == (UNION {InputSet(G, n) : n \in nodes}) \ nodes
    IN /\ \E order \in IF ins \in DOMAIN orders THEN {orders[ins]} ELSE SetToSeqs(ins),
             cats \in {Sorted(G, listed, {n \in nodes : Op(G, n) = "cat"})},
             others \in {Sorted(G, listed, {n \in nodes : Op(G, n) # "cat"})} :
             /\ orders' = Over(Only(ins, order), orders)
             /\ todo' = FlattenSeq([i \in DOMAIN order |-> InputRequests(G, T, order[i], nodes, chip)])
                           \o Script(G, T, nodes, cats, others)
       /\ count' = [x \in nodes \cup ins |-> Cardinality(Readers(G, nodes, x))]
       /\ given' = {} /\ pinned' = {}
       /\ nramLive' = EmptyPool /\ nramFree' = {} /\ nramSize' = 0
       /\ wramLive' = EmptyPool /\ wramFree' = {} /\ wramSize' = 0
       /\ smLive' = EmptyPool /\ smFree' = {} /\ smSize' = 0
       /\ UNCHANGED keepLast

PlanInit ==
    /\ orders = Nobody /\ todo = <<>> /\ count = Nobody /\ given = {} /\ pinned = {}
    /\ nramLive = EmptyPool /\ nramFree = {} /\ nramSize = 0
    /\ wramLive = EmptyPool /\ wramFree = {} /\ wramSize = 0
    /\ smLive = EmptyPool /\ smFree = {} /\ smSize = 0
    /\ keepLast = FALSE

-----------------------------------------------------------------------------
Up(kind) == todo # <<>> /\ Head(todo).do = kind

NramAlloc(s, n) == Nram!AllocBestFit(s, n) \/ Nram!AllocExtend(s, n) \/ Nram!AllocGrow(s, n)
WramAlloc(s, n) == Wram!AllocBestFit(s, n) \/ Wram!AllocExtend(s, n) \/ Wram!AllocGrow(s, n)
SmAlloc(s, n) == Sm!AllocBestFit(s, n) \/ Sm!AllocExtend(s, n) \/ Sm!AllocGrow(s, n)

Give ==
    /\ Up("give")
    /\ LET r == Head(todo) IN
          /\ NramAlloc(r.slot, r.nram) /\ WramAlloc(r.slot, r.wram) /\ SmAlloc(r.slot, r.sm)
          /\ given' = given \cup {r.slot}
          /\ pinned' = IF r.pin THEN pinned \cup {r.slot} ELSE pinned
    /\ todo' = Tail(todo)
    /\ UNCHANGED <<orders, count>>

\* The last read returns what its operand was given, unless it is pinned.
ReadOperand ==
    /\ Up("read")
    /\ LET x == Head(todo).operand
           mine == Part([i \in 1 .. MaxOutputs |-> <<x, i>>], given \ pinned)
       IN /\ count[x] > 0
          /\ count' = [count EXCEPT ![x] = @ - 1]
          /\ todo' = (IF count[x] = 1 THEN [i \in DOMAIN mine |-> Return(mine[i])] ELSE <<>>) \o Tail(todo)
    /\ UNCHANGED <<orders, given, pinned, poolVars>>

ReturnSlot ==
    /\ Up("return")
    /\ LET s == Head(todo).slot IN Nram!Free(s) /\ Wram!Free(s) /\ Sm!Free(s)
    /\ todo' = Tail(todo)
    /\ UNCHANGED <<orders, count, given, pinned>>

PlanStep == Give \/ ReadOperand \/ ReturnSlot

Measured == todo = <<>>

\* The assertions of get_memory_total_size.
PlanFails ==
    \/ Up("read") /\ count[Head(todo).operand] = 0
    \/ Up("return") /\ ~Nram!Holds(Head(todo).slot)

\* check_memory_size: one memory for both on arch 6xx, two on 5xx.
Affordable(chip) ==
    /\ IF chip.arch = 6 THEN nramSize + wramSize <= chip.nram + chip.wram
       ELSE nramSize <= chip.nram /\ wramSize <= chip.wram
    /\ smSize <= chip.sm
=============================================================================
