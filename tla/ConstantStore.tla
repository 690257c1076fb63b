--------------------------- MODULE ConstantStore ---------------------------
(***************************************************************************)
(* The constants of an AOTInductorModelContainer: two buffers, each with a  *)
(* blob, a map from names to tensors that it owns or borrows, and an array  *)
(* of handles that the models read; their layout in the blob; and who frees *)
(* what.  ModelContainer is about threads and keeps one version per buffer: *)
(* here calls come one at a time, and memory is explicit.                   *)
(*                                                                         *)
(* A tensor lies at an offset of an incarnation of a blob, or has memory of *)
(* its own.  Sizes are in cells, of which AOTI_CONST_ALIGNMENT make a line. *)
(* The contents of a constant are a sequence: the number of the call that   *)
(* provided them, or, folded, those of everything it was folded from.       *)
(*                                                                         *)
(* Callers swap to, fold, and release only a buffer that was loaded, and    *)
(* hand over tensors whose storage has the size of the constant; tensors    *)
(* that stay theirs they keep as long as they are in use.  Three uses that  *)
(* the code mishandles are left out by conditions of their own: FoldedLast, *)
(* Lent and TensorConstantsAgree.                                          *)
(***************************************************************************)
EXTENDS Integers, Sequences

CONSTANTS
    Layouts,       \* constants_info_: sequences of [kind, size]
    Alignment,     \* AOTI_CONST_ALIGNMENT
    MaxCalls       \* bound: calls of the user

ASSUME LayoutsAssumption ==
    Layouts \subseteq Seq([kind : {"parameter", "buffer", "tensor", "folded"}, size : Nat])
ASSUME AlignmentAssumption == Alignment \in Nat \ {0}
ASSUME CallsAssumption == MaxCalls \in Nat

VARIABLES
    layout,        \* constants_info_ of this library
    secondary,     \* use_secondary_
    readiness,     \* constant_folded_ and constant_folded_secondary_
    blobs,         \* constant_blob_ and constant_blob_secondary_, 0 when null
    cells,         \* the blobs that are allocated, and what they hold
    tensors,       \* the tensors that exist
    maps,          \* constants_map_ and constants_map_secondary_
    arrays,        \* constants_array_ and constants_array_secondary_
    calls,         \* calls made so far
    names          \* last name given to a blob or a tensor

storeVars == <<layout, secondary, readiness, blobs, cells, tensors, maps, arrays, calls, names>>

Junk == <<>>
Null == 0
Unfolded == {i \in DOMAIN layout : layout[i].kind # "folded"}
Folded == DOMAIN layout \ Unfolded
FoldedLast(l) == \A i, j \in DOMAIN l : i < j /\ l[i].kind = "folded" => l[j].kind = "folded"

ActiveSide == IF secondary THEN 2 ELSE 1
Side(useInactive) == IF useInactive THEN 3 - ActiveSide ELSE ActiveSide

-----------------------------------------------------------------------------
(* Layout.                                                                  *)

RoundUp(n) == IF n % Alignment # 0 THEN Alignment + (n \div Alignment) * Alignment ELSE n

\* The size of a blob with the constants of l up to k; the folded ones are not in it.
BlobUpTo(l, k) ==
    LET upTo[n \in 0..Len(l)] ==
            IF n = 0 THEN 0
            ELSE upTo[n - 1] + (IF l[n].kind = "folded" THEN 0 ELSE RoundUp(l[n].size))
    IN upTo[k]

\* constants_internal_offset_, for constants that come before the folded ones:
\* update_constant_buffer looks it up by the index among all constants.
Offset(i) == BlobUpTo(layout, i - 1)
BlobSize == BlobUpTo(layout, Len(layout))

Extent(i) == Offset(i)..(Offset(i) + layout[i].size - 1)

\* What cells say of a constant: nothing if they were not written together.
Whole(held) ==
    IF held = {} THEN <<0>>
    ELSE IF \E v \in held : held = {v} THEN CHOOSE v \in held : TRUE ELSE Junk

\* What is read through a handle.
Contents(t) ==
    IF t \notin DOMAIN tensors THEN Junk
    ELSE LET x == tensors[t]
         IN IF x.blob = Null THEN x.value
            ELSE IF x.blob \notin DOMAIN cells THEN Junk
            ELSE Whole({cells[x.blob][c] : c \in Extent(x.of)})

ReadOf(b, i) == Contents(arrays[b][i])
LoadedSide(b) == \A i \in Unfolded : ReadOf(b, i) # Junk

\* What the constant fold of a model computes from the array it is attached to.
FoldOf(b) == [i \in Unfolded |-> ReadOf(b, i)]

-----------------------------------------------------------------------------
(* Updates.                                                                 *)

\* What new gives, and what old gives elsewhere.
Overlaid(new, old) ==
    [x \in DOMAIN new \cup DOMAIN old |-> IF x \in DOMAIN new THEN new[x] ELSE old[x]]

NewName(i) == names + i
NewTensors(made) == [t \in {NewName(i) : i \in DOMAIN made} |-> made[t - names]]
OnItsOwn(v) == [blob |-> Null, of |-> 0, value |-> v]
InBlob(id, i) == [blob |-> id, of |-> i, value |-> Junk]
Entry(t, whose) == [tensor |-> t, by |-> whose]

\* insert_or_assign of entries in a map, and update_array_from_map: what the map held
\* under these names goes, with the tensors that were the container's or the user's
\* for this purpose, and every name of the map is put in the array.
Insert(b, entries, made) ==
    LET gone == {maps[b][i].tensor : i \in {j \in DOMAIN entries \cap DOMAIN maps[b] : maps[b][j].by # "other"}}
    IN /\ maps' = [maps EXCEPT ![b] = Overlaid(entries, @)]
       /\ arrays' = [arrays EXCEPT ![b] =
                        [i \in DOMAIN layout |-> IF i \in DOMAIN maps'[b] THEN maps'[b][i].tensor ELSE @[i]]]
       /\ tensors' = Overlaid(made, [t \in DOMAIN tensors \ gone |-> tensors[t]])
       /\ names' = names + Len(layout) + 1

Skippable == {i \in Unfolded : layout[i].kind \in {"tensor", "buffer"} \/ layout[i].size = 0}

\* What an update of buffer b writes: what is given, and what may be left out of a
\* buffer that is not in use, from the other one.
TakenAlways(b, given) == Skippable \ given
Taken(b, given) == IF b # ActiveSide THEN Skippable \ given ELSE {}

\* Names under which the other map borrows what this one holds.
Lent(b) == {i \in DOMAIN maps[b] \cap DOMAIN maps[3 - b] :
               maps[3 - b][i].by = "other" /\ maps[3 - b][i].tensor = maps[b][i].tensor}

Begin(b, replaced) ==
    /\ calls < MaxCalls
    /\ calls' = calls + 1
    /\ replaced \cap Lent(b) = {}
    /\ UNCHANGED <<layout, secondary>>

\* get_constant_blob_ptr, and the copies into the blob.
WriteBlob(b, id, contents) ==
    LET old == IF blobs[b] = Null THEN [c \in 0..(BlobSize - 1) |-> Junk] ELSE cells[id]
        at == [c \in UNION {Extent(i) : i \in DOMAIN contents} |->
                  contents[CHOOSE i \in DOMAIN contents : c \in Extent(i)]]
    IN /\ blobs' = [blobs EXCEPT ![b] = id]
       /\ cells' = Overlaid([x \in {id} |-> Overlaid(at, old)], cells)

MarkOtherUpdated(b) == readiness' = [readiness EXCEPT ![3 - b] = "INITIALIZED"]
MarkUpdated(b) == readiness' = [readiness EXCEPT ![b] = "INITIALIZED"]

\* update_constant_buffer with a copy of what the user gives.
UpdateCopying(b, given) ==
    LET S == given \cup Taken(b, given)
        id == IF blobs[b] = Null THEN names ELSE blobs[b]
    IN /\ Begin(b, S)
       /\ Taken(b, given) \subseteq DOMAIN maps[3 - b]
       /\ MarkUpdated(b)
       /\ WriteBlob(b, id, [i \in S |-> IF i \in given THEN <<calls + 1>> ELSE Contents(maps[3 - b][i].tensor)])
       /\ Insert(b, [i \in S |-> Entry(NewName(i), "container")], NewTensors([i \in S |-> InBlob(id, i)]))

\* The same, user_managed: the tensors go into the map as they are.
UpdateManaged(b, given) ==
    LET taken == Taken(b, given)
    IN /\ Begin(b, given \cup taken)
       /\ taken \subseteq DOMAIN maps[3 - b]
       /\ MarkUpdated(b)
       /\ Insert(b, [i \in given \cup taken |-> IF i \in given THEN Entry(NewName(i), "user")
                                               ELSE Entry(maps[3 - b][i].tensor, "other")],
                 NewTensors([i \in given |-> OnItsOwn(<<calls + 1>>)]))
       /\ UNCHANGED <<blobs, cells>>

\* load_constants of the first model: a library without weights is given them later.
UpdateFromBlob ==
    /\ maps[1] = <<>>
    /\ ~secondary
    /\ Begin(1, {})
    /\ cells' = Overlaid([x \in {names} |-> [c \in 0..(BlobSize - 1) |-> <<calls + 1>>]], cells)
    /\ Insert(1, [i \in Unfolded |-> Entry(NewName(i), "container")],
              NewTensors([i \in Unfolded |-> InBlob(names, i)]))
    /\ UNCHANGED <<readiness, blobs>>

-----------------------------------------------------------------------------
(* Folding, swapping, releasing.                                            *)

Tensors == {i \in Unfolded : layout[i].kind = "tensor"}
TensorConstantsAgree == \A i \in Tensors : ReadOf(1, i) = ReadOf(2, i)

\* run_const_fold and run install what the model computed by the form of
\* update_constant_buffer that takes ownership; into a buffer that is not in use
\* it also puts a clone of each tensor constant of the other.
Fold(b) ==
    LET cloned == IF b # ActiveSide THEN Tensors ELSE {}
    IN /\ LoadedSide(b)
       /\ b # ActiveSide => TensorConstantsAgree
       /\ Begin(b, cloned)
       /\ readiness' = [readiness EXCEPT ![b] = "FOLDED"]
       /\ Insert(b, [i \in Folded \cup cloned |-> Entry(NewName(i), "container")],
                 NewTensors([i \in Folded \cup cloned |->
                               OnItsOwn(IF i \in Folded THEN FoldOf(b) ELSE Contents(maps[3 - b][i].tensor))]))
       /\ UNCHANGED <<blobs, cells>>

\* swap_constant_buffer
SwapSides ==
    /\ LoadedSide(3 - ActiveSide)
    /\ calls < MaxCalls
    /\ calls' = calls + 1
    /\ secondary' = ~secondary
    /\ UNCHANGED <<layout, readiness, blobs, cells, tensors, maps, arrays, names>>

\* free_inactive_constant_buffer
ReleasedInUse == ActiveSide
ReleasedSide == 3 - ActiveSide
BlobsKept(b) == blobs
BlobsWithout(b) == [blobs EXCEPT ![b] = Null]

ReleaseInactive ==
    LET b == ReleasedSide
        dropped == Folded \cap DOMAIN maps[b]
    IN /\ maps[b] # <<>>
       /\ Begin(b, DOMAIN maps[b])
       /\ readiness' = [readiness EXCEPT ![b] = "NONE"]
       /\ blobs' = BlobsWithout(b)
       /\ cells' = [id \in DOMAIN cells \ {blobs[b]} |-> cells[id]]
       /\ tensors' = [t \in DOMAIN tensors \ {maps[b][i].tensor : i \in dropped} |-> tensors[t]]
       /\ maps' = [maps EXCEPT ![b] = [i \in DOMAIN @ |-> IF i \in dropped THEN Entry(Null, "container") ELSE @[i]]]
       /\ UNCHANGED <<arrays, names>>

-----------------------------------------------------------------------------
\* The constructor, for a library with its weights or without.
StoreInit ==
    \E l \in Layouts, included \in BOOLEAN :
        LET S == IF included THEN {i \in DOMAIN l : l[i].kind # "folded"} ELSE {}
        IN /\ layout = l
           /\ FoldedLast(l)
           /\ secondary = FALSE
           /\ readiness = <<"INITIALIZED", "NONE">>
           /\ blobs = <<IF included THEN 1 ELSE Null, Null>>
           /\ cells = [x \in IF included THEN {1} ELSE {} |-> [c \in 0..(BlobSize - 1) |-> <<0>>]]
           /\ tensors = [t \in {1 + i : i \in S} |-> InBlob(1, t - 1)]
           /\ maps = <<[i \in S |-> Entry(1 + i, "container")], <<>>>>
           /\ arrays = <<[i \in DOMAIN l |-> IF i \in S THEN 1 + i ELSE Null], [i \in DOMAIN l |-> Null]>>
           /\ calls = 0
           /\ names = Len(l) + 2

StoreNext ==
    \/ \E b \in 1..2, given \in SUBSET Unfolded \ {{}} : UpdateCopying(b, given) \/ UpdateManaged(b, given)
    \/ UpdateFromBlob
    \/ \E b \in 1..2 : Fold(b)
    \/ SwapSides
    \/ ReleaseInactive

StoreSpec == StoreInit /\ [][StoreNext]_storeVars

-----------------------------------------------------------------------------
(* Properties.                                                              *)

StoreTypeOK ==
    /\ secondary \in BOOLEAN
    /\ readiness \in [1..2 -> {"NONE", "INITIALIZED", "FOLDED"}]
    /\ \A b \in 1..2 : blobs[b] = Null \/ blobs[b] \in DOMAIN cells
    /\ \A b \in 1..2 : DOMAIN maps[b] \subseteq DOMAIN layout
    /\ \A b \in 1..2 : DOMAIN arrays[b] = DOMAIN layout

\* A buffer marked FOLDED holds the fold of the very weights a model reads in it:
\* run trusts the mark and folds no more (model_container.h:106).
FoldedUpToDate ==
    \A b \in 1..2, i \in Folded : readiness[b] = "FOLDED" => ReadOf(b, i) = FoldOf(b)

\* Once every weight in use can be read this stays so, whatever is updated, swapped
\* or released: no call frees or leaves half written what models are reading.
StaysReadable == [][LoadedSide(ActiveSide) => LoadedSide(ActiveSide)']_storeVars

\* What models read in either buffer changes as the promise of the two buffers says:
\* a call writes the buffer it names and nothing else, a fold writes no weight.
Visible == {i \in Unfolded : layout[i].size > 0}
Promise == INSTANCE WeightBuffers WITH
    Lost <- Junk, optional <- Skippable \cap Visible,
    inUse <- ActiveSide, weights <- [b \in 1..2 |-> [i \in Visible |-> ReadOf(b, i)]]
KeepsPromise == Promise!Spec
=============================================================================
