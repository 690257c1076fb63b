--------------------------- MODULE SharedStorage ---------------------------
(***************************************************************************)
(* Tensors sent from a producer process to a consumer (mlu/reductions.py).  *)
(* Every send carries a reference of its own, without which the producer    *)
(* may free the memory and hand it out again.  The consumer keeps one       *)
(* storage for each place it was sent, in a cache of weak references; the   *)
(* storage holds the reference of the send it was made for, and the         *)
(* references of later sends are released when they arrive.                 *)
(*                                                                         *)
(* The producer and the allocator are external: memory is given up when the *)
(* producer's own reference and all that were sent are gone, and may then   *)
(* be the place of another storage.  Empty storages carry no reference and  *)
(* are left out.  Threads of the consumer rebuild tensors together.         *)
(***************************************************************************)
EXTENDS Naturals, FiniteSets

CONSTANTS
    Places,       \* pairs of a handle and an offset
    Receivers,    \* threads of the consumer
    MaxSends,     \* bound: sends
    MaxUses       \* bound: storages that a place is used for in turn

\* Every place is used at least once.
ASSUME UsesAssumption == MaxUses \in Nat \ {0}

VARIABLES
    memory,       \* the use of each place, and whether the producer refers to it
    transit,      \* sends that were not received
    references,   \* sends whose reference was not released
    storages,     \* storages of the consumer, each named by the send it was made for
    cached,       \* shared_cache
    rebuilding,   \* where each thread is in rebuild_mlu_tensor
    rebuilt,      \* tensors of the consumer
    lost,         \* sends that were received in vain
    sends         \* sends so far

shareVars == <<memory, transit, references, storages, cached, rebuilding, rebuilt, lost, sends>>

Resting == [at |-> "rest"]
AtStep(label) == {r \in Receivers : rebuilding[r].at = label}

-----------------------------------------------------------------------------
(* The producer.                                                            *)

Send(p) ==
    /\ memory[p].held
    /\ sends < MaxSends
    /\ sends' = sends + 1
    /\ LET m == [place |-> p, use |-> memory[p].use, number |-> sends']
       IN transit' = transit \cup {m} /\ references' = references \cup {m}
    /\ UNCHANGED <<memory, storages, cached, rebuilding, rebuilt, lost>>

Forget(p) ==
    /\ memory[p].held
    /\ memory' = [memory EXCEPT ![p].held = FALSE]
    /\ UNCHANGED <<transit, references, storages, cached, rebuilding, rebuilt, lost, sends>>

UseAgain(p) ==
    /\ ~memory[p].held
    /\ \A m \in references : m.place # p
    /\ memory[p].use < MaxUses
    /\ memory' = [memory EXCEPT ![p] = [use |-> @.use + 1, held |-> TRUE]]
    /\ UNCHANGED <<transit, references, storages, cached, rebuilding, rebuilt, lost, sends>>

-----------------------------------------------------------------------------
(* rebuild_mlu_tensor, by a thread of the consumer.                         *)

KeyWithoutOffset(m) == m.place[1]
Key(m) == m.place

Go(r, state) == rebuilding' = [rebuilding EXCEPT ![r] = state]

Receive(r, m) ==
    /\ rebuilding[r].at = "rest"
    /\ m \in transit
    /\ transit' = transit \ {m}
    /\ Go(r, [at |-> "lookup", sent |-> m])
    /\ UNCHANGED <<memory, references, storages, cached, rebuilt, lost, sends>>

\* storage_from_cache: a storage that is alive, or none.
LookUp(r) ==
    LET m == rebuilding[r].sent
        found == {s \in storages : Key(m) \in DOMAIN cached /\ cached[Key(m)] = s}
    IN /\ rebuilding[r].at = "lookup"
       /\ \/ found = {} /\ Go(r, [at |-> "missed", sent |-> m])
          \/ \E s \in found : Go(r, [at |-> "found", sent |-> m, storage |-> s])
       /\ UNCHANGED <<memory, transit, references, storages, cached, rebuilt, lost, sends>>

\* _release_ipc_counter_mlu
ReleaseNothing(r) == references' = references
ReleaseSent(r) == references' = references \ {rebuilding[r].sent}

Found(r) ==
    /\ rebuilding[r].at = "found"
    /\ ReleaseSent(r)
    /\ Go(r, [rebuilding[r] EXCEPT !.at = "wrap"])
    /\ UNCHANGED <<memory, transit, storages, cached, rebuilt, lost, sends>>

\* _lazy_init and _new_shared_mlu: the storage takes over the reference.
MakeStorage(r) ==
    LET m == rebuilding[r].sent
    IN /\ rebuilding[r].at = "missed"
       /\ storages' = storages \cup {m}
       /\ Go(r, [at |-> "made", sent |-> m, storage |-> m])
       /\ UNCHANGED <<memory, transit, references, cached, rebuilt, lost, sends>>

MakingFails(r) ==
    /\ rebuilding[r].at = "missed"
    /\ lost' = lost \cup {rebuilding[r].sent}
    /\ Go(r, Resting)
    /\ UNCHANGED <<memory, transit, references, storages, cached, rebuilt, sends>>

PutInCache(r) ==
    /\ rebuilding[r].at = "made"
    /\ cached' = [k \in DOMAIN cached \cup {Key(rebuilding[r].sent)} |->
                     IF k = Key(rebuilding[r].sent) THEN rebuilding[r].storage ELSE cached[k]]
    /\ Go(r, [rebuilding[r] EXCEPT !.at = "wrap"])
    /\ UNCHANGED <<memory, transit, references, storages, rebuilt, lost, sends>>

Wrap(r) ==
    /\ rebuilding[r].at = "wrap"
    /\ rebuilt' = rebuilt \cup {[sent |-> rebuilding[r].sent, storage |-> rebuilding[r].storage]}
    /\ Go(r, Resting)
    /\ UNCHANGED <<memory, transit, references, storages, cached, lost, sends>>

\* A tensor of the consumer dies, and with its last user the storage, which releases
\* its reference.
InUse(s) == (\E x \in rebuilt' : x.storage = s)
            \/ \E r \in AtStep("found") \cup AtStep("made") \cup AtStep("wrap") : rebuilding[r].storage = s
Drop(x) ==
    /\ rebuilt' = rebuilt \ {x}
    /\ storages' = {s \in storages : InUse(s)}
    /\ references' = references \ (storages \ storages')
    /\ UNCHANGED <<memory, transit, cached, rebuilding, lost, sends>>

-----------------------------------------------------------------------------
ShareInit ==
    /\ memory = [p \in Places |-> [use |-> 1, held |-> TRUE]]
    /\ transit = {}
    /\ references = {}
    /\ storages = {}
    /\ cached = <<>>
    /\ rebuilding = [r \in Receivers |-> Resting]
    /\ rebuilt = {}
    /\ lost = {}
    /\ sends = 0

ShareNext ==
    \/ \E p \in Places : Send(p) \/ Forget(p) \/ UseAgain(p)
    \/ \E r \in Receivers, m \in transit : Receive(r, m)
    \/ \E r \in Receivers :
          LookUp(r) \/ Found(r) \/ MakeStorage(r) \/ MakingFails(r) \/ PutInCache(r) \/ Wrap(r)
    \/ \E x \in rebuilt : Drop(x)

ShareSpec == ShareInit /\ [][ShareNext]_shareVars

-----------------------------------------------------------------------------
(* Properties.                                                              *)

ShareTypeOK ==
    /\ \A p \in Places : memory[p].use \in 1..MaxUses /\ memory[p].held \in BOOLEAN
    /\ \A m \in transit \cup references \cup storages \cup lost : m.place \in Places /\ m.number \in 1..sends
    /\ DOMAIN rebuilding = Receivers
    /\ \A x \in rebuilt : x.sent.number \in 1..sends

\* A tensor is rebuilt over the memory it was sent in, as long as that is what it
\* holds: a storage of the consumer is never left over memory that the producer has
\* given to another one, and a cached one is never taken for another place or use.
OverItsMemory ==
    /\ \A s \in storages : memory[s.place].use = s.use
    /\ \A x \in rebuilt : x.storage.place = x.sent.place /\ x.storage.use = x.sent.use

\* Each reference that was sent is released once and in time: until then it is under
\* way, in the hands of a thread, held by a storage, or was lost with an error.  So
\* what the consumer no longer uses the producer can free (reductions.py:96).
ReferencesAccounted ==
    LET hands == {rebuilding[r].sent : r \in AtStep("lookup") \cup AtStep("missed") \cup AtStep("found")}
    IN references = transit \cup hands \cup storages \cup lost
=============================================================================
