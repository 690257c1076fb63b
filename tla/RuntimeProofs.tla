---------------------------- MODULE RuntimeProofs ----------------------------
(* Two parts of the runtime on which Python code runs, each for itself.     *)
(*                                                                         *)
(* Storages shared between processes, for any places, any threads of the    *)
(* consumer and any number of sends: every reference that was sent is       *)
(* released once and in time, and every rebuilt tensor lies over the memory *)
(* it was sent in.                                                         *)
(*                                                                         *)
(* Contexts of devices, streams and captures, for any devices and managers, *)
(* nested to any depth: a context puts back what it found, and a capture    *)
(* ends on the stream it began on.                                         *)
EXTENDS SharedStorage, StreamContexts, TLAPS

-----------------------------------------------------------------------------
(* Storages shared between processes.                                       *)

Holding == {"found", "made", "wrap"}   \* a thread that has a storage
Owing == {"lookup", "missed", "found"} \* a thread that has a reference
Labels == {"rest"} \cup Holding \cup Owing

Owes(r) == rebuilding[r].at \in Owing
Sent(r) == rebuilding[r].sent
Hands == {Sent(r) : r \in {q \in Receivers : Owes(q)}}

\* The part of the type invariant the argument needs.
Typed ==
    /\ memory \in [Places -> [use : Nat, held : BOOLEAN]]
    /\ sends \in Nat
    /\ DOMAIN rebuilding = Receivers
    /\ \A r \in Receivers : rebuilding[r].at \in Labels

\* Sends are numbered, those of references in use before the next one ...
Numbered ==
    \A m \in transit \cup Hands \cup storages \cup lost : m.number \in 1..sends

\* ... and each reference is in one place: under way, with one thread, in a
\* storage, or lost ...
Apart ==
    /\ transit \cap storages = {} /\ transit \cap lost = {} /\ storages \cap lost = {}
    /\ \A r \in Receivers : Owes(r) =>
          /\ Sent(r) \notin transit \cup storages \cup lost
          /\ \A q \in Receivers : Owes(q) /\ Sent(q) = Sent(r) => q = r

\* ... it keeps its place from being used again ...
Kept == \A m \in references : m.place \in Places /\ memory[m.place].use = m.use

\* ... the cache has storages under their own places ...
CachedByPlace == \A k \in DOMAIN cached : cached[k].place = k

\* ... and what a thread or a tensor holds is a storage over the memory it was sent in.
Over(s, m) == s \in storages /\ s.place = m.place /\ s.use = m.use
Backed ==
    /\ \A r \in Receivers : rebuilding[r].at \in Holding => Over(rebuilding[r].storage, Sent(r))
    /\ \A x \in rebuilt : Over(x.storage, x.sent)

Accounted == references = transit \cup Hands \cup storages \cup lost

ShareInv == Typed /\ Numbered /\ Apart /\ Accounted /\ Kept /\ CachedByPlace /\ Backed

\* At the beginning nothing was sent.
LEMMA ShareInvInit == ShareInit => ShareInv
PROOF
<1> SUFFICES ASSUME ShareInit PROVE ShareInv OBVIOUS
<1> USE DEF ShareInit
<1>1. \A r \in Receivers : rebuilding[r].at = "rest" BY DEF Resting
<1>2. Hands = {} BY <1>1 DEF Hands, Owes, Owing
<1>3. Typed BY <1>1 DEF Typed, Labels
<1>4. Numbered /\ Apart /\ Accounted
  BY <1>1, <1>2 DEF Numbered, Apart, Accounted, Owes, Owing
<1>5. Kept /\ CachedByPlace /\ Backed
  BY <1>1 DEF Kept, CachedByPlace, Backed, Holding
<1>6. QED BY <1>3, <1>4, <1>5 DEF ShareInv

\* A send gets a number of its own, and the memory it is about is in use.
LEMMA SendKeeps == ASSUME ShareInv, NEW p \in Places, Send(p) PROVE ShareInv'
PROOF
<1> USE DEF ShareInv
<1> DEFINE m == [place |-> p, use |-> memory[p].use, number |-> sends']
<1>1. /\ transit' = transit \cup {m} /\ references' = references \cup {m}
      /\ sends' = sends + 1
      /\ UNCHANGED <<memory, storages, cached, rebuilding, rebuilt, lost>>
  BY DEF Send
<1>2. m.number = sends + 1 /\ m.place = p /\ m.use = memory[p].use BY <1>1
<1> HIDE DEF m
<1>3. Hands' = Hands BY <1>1 DEF Hands, Owes, Sent
<1>4. m \notin transit \cup Hands \cup storages \cup lost
  BY <1>2 DEF Numbered, Typed
<1>5. Typed' BY <1>1 DEF Typed
<1>6. Numbered' BY <1>1, <1>2, <1>3 DEF Numbered, Typed
<1>7. Apart'
  <2>1. \A r \in Receivers : Owes(r) => Sent(r) # m BY <1>4 DEF Hands
  <2>2. QED BY <1>1, <1>4, <2>1 DEF Apart, Owes, Sent
<1>8. Accounted' BY <1>1, <1>3 DEF Accounted
<1>9. Kept' BY <1>1, <1>2 DEF Kept
<1>10. CachedByPlace' /\ Backed' BY <1>1 DEF CachedByPlace, Backed, Over, Sent
<1>11. QED BY <1>5, <1>6, <1>7, <1>8, <1>9, <1>10

\* The producer gives up its reference, or uses a place again to which no reference is left.
LEMMA ProducerKeeps ==
    ASSUME ShareInv, NEW p \in Places, Forget(p) \/ UseAgain(p) PROVE ShareInv'
PROOF
<1> USE DEF ShareInv
<1>1. UNCHANGED <<transit, references, storages, cached, rebuilding, rebuilt, lost, sends>>
  BY DEF Forget, UseAgain
<1>2. Hands' = Hands BY <1>1 DEF Hands, Owes, Sent
<1>3. Typed'
  <2>1. memory' \in [Places -> [use : Nat, held : BOOLEAN]]
    <3>1. CASE Forget(p) BY <3>1 DEF Forget, Typed
    <3>2. CASE UseAgain(p)
      <4>1. [use |-> memory[p].use + 1, held |-> TRUE] \in [use : Nat, held : BOOLEAN] BY DEF Typed
      <4>2. QED BY <3>2, <4>1 DEF UseAgain, Typed
    <3>3. QED BY <3>1, <3>2
  <2>2. QED BY <1>1, <2>1 DEF Typed
<1>4. Numbered' /\ Apart' /\ Accounted' /\ CachedByPlace' /\ Backed'
  BY <1>1, <1>2 DEF Numbered, Apart, Accounted, CachedByPlace, Backed, Over, Owes, Sent
<1>5. Kept'
  <2> SUFFICES ASSUME NEW m \in references PROVE m.place \in Places /\ memory'[m.place].use = m.use
    BY <1>1 DEF Kept
  <2>1. m.place \in Places /\ memory[m.place].use = m.use BY DEF Kept
  <2>2. memory'[m.place].use = memory[m.place].use
    BY <2>1 DEF Forget, UseAgain, Typed
  <2>3. QED BY <2>1, <2>2
<1>6. QED BY <1>3, <1>4, <1>5

\* What a step of a thread does to the others: nothing.
LEMMA Others ==
    ASSUME Typed, NEW r \in Receivers, NEW state, Go(r, state)
    PROVE  /\ rebuilding'[r] = state
           /\ \A q \in Receivers \ {r} : rebuilding'[q] = rebuilding[q]
           /\ DOMAIN rebuilding' = Receivers
PROOF BY DEF Typed, Go

\* A send that is received is with one thread.
LEMMA ReceiveKeeps ==
    ASSUME ShareInv, NEW r \in Receivers, NEW m \in transit, Receive(r, m) PROVE ShareInv'
PROOF
<1> USE DEF ShareInv
<1> DEFINE state == [at |-> "lookup", sent |-> m]
<1>1. /\ transit' = transit \ {m} /\ Go(r, state) /\ rebuilding[r].at = "rest"
      /\ UNCHANGED <<memory, references, storages, cached, rebuilt, lost, sends>>
  BY DEF Receive
<1>2. state.at = "lookup" /\ state.sent = m OBVIOUS
<1> HIDE DEF state
<1>3. /\ rebuilding'[r] = state /\ DOMAIN rebuilding' = Receivers
      /\ \A q \in Receivers \ {r} : rebuilding'[q] = rebuilding[q]
  BY <1>1, Others
<1>4. ~Owes(r) /\ Owes(r)' /\ Sent(r)' = m BY <1>1, <1>2, <1>3 DEF Owes, Owing, Sent
<1>5. \A q \in Receivers \ {r} : (Owes(q)' <=> Owes(q)) /\ Sent(q)' = Sent(q)
  BY <1>3 DEF Owes, Sent
<1>6. Hands' = Hands \cup {m} BY <1>4, <1>5 DEF Hands
<1>7. Typed' BY <1>1, <1>2, <1>3 DEF Typed, Labels, Owing
<1>8. Numbered' BY <1>1, <1>6 DEF Numbered
<1>9. Apart' BY <1>1, <1>4, <1>5 DEF Apart
<1>10. Accounted' BY <1>1, <1>6 DEF Accounted
<1>11. Kept' /\ CachedByPlace' BY <1>1 DEF Kept, CachedByPlace
<1>12. Backed' BY <1>1, <1>2, <1>3, <1>5 DEF Backed, Over, Sent, Holding
<1>13. QED BY <1>7, <1>8, <1>9, <1>10, <1>11, <1>12

\* A storage that is found is over the memory that was sent: both have a reference.
LEMMA LookUpKeeps == ASSUME ShareInv, NEW r \in Receivers, LookUp(r) PROVE ShareInv'
PROOF
<1> USE DEF ShareInv
<1>1. /\ rebuilding[r].at = "lookup"
      /\ UNCHANGED <<memory, transit, references, storages, cached, rebuilt, lost, sends>>
  BY DEF LookUp
<1>2. PICK state :
        /\ Go(r, state) /\ state.sent = Sent(r)
        /\ \/ state.at = "missed"
           \/ state.at = "found" /\ state.storage \in storages
              /\ \E k \in DOMAIN cached : k = Sent(r).place /\ cached[k] = state.storage
  <2>1. CASE Go(r, [at |-> "missed", sent |-> Sent(r)]) BY <2>1
  <2>2. CASE \E s \in storages : /\ Sent(r).place \in DOMAIN cached /\ cached[Sent(r).place] = s
                                 /\ Go(r, [at |-> "found", sent |-> Sent(r), storage |-> s])
    <3>1. PICK s \in storages : /\ Sent(r).place \in DOMAIN cached /\ cached[Sent(r).place] = s
                                /\ Go(r, [at |-> "found", sent |-> Sent(r), storage |-> s])
      BY <2>2
    <3> DEFINE state == [at |-> "found", sent |-> Sent(r), storage |-> s]
    <3>2. state.at = "found" /\ state.sent = Sent(r) /\ state.storage = s OBVIOUS
    <3> HIDE DEF state
    <3>3. Go(r, state) BY <3>1 DEF state
    <3>4. QED BY <3>1, <3>2, <3>3
  <2>3. QED BY <2>1, <2>2 DEF LookUp, Sent, Key
<1>3. /\ rebuilding'[r] = state /\ DOMAIN rebuilding' = Receivers
      /\ \A q \in Receivers \ {r} : rebuilding'[q] = rebuilding[q]
  BY <1>2, Others
<1>4. Owes(r) /\ Owes(r)' /\ Sent(r)' = Sent(r) BY <1>1, <1>2, <1>3 DEF Owes, Owing, Sent
<1>5. \A q \in Receivers : (Owes(q)' <=> Owes(q)) /\ Sent(q)' = Sent(q)
  BY <1>3, <1>4 DEF Owes, Sent
<1>6. Hands' = Hands BY <1>5 DEF Hands
<1>7. Typed' BY <1>1, <1>2, <1>3 DEF Typed, Labels, Owing
<1>8. Numbered' BY <1>1, <1>6 DEF Numbered
<1>9. Apart' BY <1>1, <1>5 DEF Apart
<1>10. Accounted' BY <1>1, <1>6 DEF Accounted
<1>11. Kept' /\ CachedByPlace' BY <1>1 DEF Kept, CachedByPlace
<1>12. Backed'
  <2>1. ASSUME state.at = "found" PROVE Over(state.storage, Sent(r))
    <3>1. state.storage \in storages /\ state.storage.place = Sent(r).place
      BY <1>2, <2>1 DEF CachedByPlace
    <3>2. state.storage \in references /\ Sent(r) \in references
      BY <1>4, <3>1 DEF Accounted, Hands
    <3>3. QED BY <3>1, <3>2 DEF Over, Kept
  <2>2. QED BY <1>1, <1>2, <1>3, <1>5, <2>1 DEF Backed, Over, Sent, Holding
<1>13. QED BY <1>7, <1>8, <1>9, <1>10, <1>11, <1>12

\* A reference that is given back was with this thread only.
LEMMA FoundKeeps == ASSUME ShareInv, NEW r \in Receivers, Found(r) PROVE ShareInv'
PROOF
<1> USE DEF ShareInv
<1> DEFINE state == [rebuilding[r] EXCEPT !.at = "wrap"]
<1>1. /\ rebuilding[r].at = "found" /\ Go(r, state) /\ references' = references \ {Sent(r)}
      /\ UNCHANGED <<memory, transit, storages, cached, rebuilt, lost, sends>>
  BY DEF Found, ReleaseSent, Sent
<1>2. state.at = "wrap" /\ state.sent = Sent(r) /\ state.storage = rebuilding[r].storage
  BY DEF Sent
<1> HIDE DEF state
<1>3. /\ rebuilding'[r] = state /\ DOMAIN rebuilding' = Receivers
      /\ \A q \in Receivers \ {r} : rebuilding'[q] = rebuilding[q]
  BY <1>1, Others
<1>4. Owes(r) /\ ~Owes(r)' BY <1>1, <1>2, <1>3 DEF Owes, Owing
<1>5. \A q \in Receivers \ {r} : (Owes(q)' <=> Owes(q)) /\ Sent(q)' = Sent(q)
  BY <1>3 DEF Owes, Sent
<1>6. Hands' = Hands \ {Sent(r)} BY <1>4, <1>5 DEF Hands, Apart
<1>7. Typed' BY <1>1, <1>2, <1>3 DEF Typed, Labels, Holding
<1>8. Numbered' BY <1>1, <1>6 DEF Numbered
<1>9. Apart' BY <1>1, <1>4, <1>5 DEF Apart
<1>10. Accounted' BY <1>1, <1>4, <1>6 DEF Accounted, Apart
<1>11. Kept' /\ CachedByPlace' BY <1>1 DEF Kept, CachedByPlace
<1>12. Backed' BY <1>1, <1>2, <1>3, <1>5 DEF Backed, Over, Sent, Holding
<1>13. QED BY <1>7, <1>8, <1>9, <1>10, <1>11, <1>12

\* A new storage takes the reference over, or it is lost.
LEMMA MakeKeeps ==
    ASSUME ShareInv, NEW r \in Receivers, MakeStorage(r) \/ MakingFails(r) PROVE ShareInv'
PROOF
<1> USE DEF ShareInv
<1>1. /\ rebuilding[r].at = "missed"
      /\ UNCHANGED <<memory, transit, references, cached, rebuilt, sends>>
  BY DEF MakeStorage, MakingFails
<1>2. PICK state :
        /\ Go(r, state)
        /\ \/ /\ state.at = "made" /\ state.sent = Sent(r) /\ state.storage = Sent(r)
              /\ storages' = storages \cup {Sent(r)} /\ lost' = lost
           \/ /\ state.at = "rest"
              /\ lost' = lost \cup {Sent(r)} /\ storages' = storages
  <2>1. CASE MakeStorage(r)
    <3> DEFINE state == [at |-> "made", sent |-> Sent(r), storage |-> Sent(r)]
    <3>1. Go(r, state) /\ storages' = storages \cup {Sent(r)} /\ lost' = lost
      BY <2>1 DEF MakeStorage, Sent
    <3>2. state.at = "made" /\ state.sent = Sent(r) /\ state.storage = Sent(r) OBVIOUS
    <3>3. QED BY <3>1, <3>2
  <2>2. CASE MakingFails(r) BY <2>2 DEF MakingFails, Resting, Sent
  <2>3. QED BY <2>1, <2>2
<1>3. /\ rebuilding'[r] = state /\ DOMAIN rebuilding' = Receivers
      /\ \A q \in Receivers \ {r} : rebuilding'[q] = rebuilding[q]
  BY <1>2, Others
<1>4. Owes(r) /\ ~Owes(r)' BY <1>1, <1>2, <1>3 DEF Owes, Owing
<1>5. \A q \in Receivers \ {r} : (Owes(q)' <=> Owes(q)) /\ Sent(q)' = Sent(q)
  BY <1>3 DEF Owes, Sent
<1>6. Hands' = Hands \ {Sent(r)} /\ Sent(r) \in Hands BY <1>4, <1>5 DEF Hands, Apart
<1>7. Typed' BY <1>1, <1>2, <1>3 DEF Typed, Labels, Holding
<1>8. Numbered' BY <1>1, <1>2, <1>6 DEF Numbered
<1>9. Apart' BY <1>1, <1>2, <1>4, <1>5 DEF Apart
<1>10. Accounted' BY <1>1, <1>2, <1>6 DEF Accounted
<1>11. Kept' /\ CachedByPlace' BY <1>1 DEF Kept, CachedByPlace
<1>12. Backed' BY <1>1, <1>2, <1>3, <1>5 DEF Backed, Over, Sent, Holding
<1>13. QED BY <1>7, <1>8, <1>9, <1>10, <1>11, <1>12

\* The cache and the tensor that is made change no reference.
LEMMA CacheAndWrapKeep ==
    ASSUME ShareInv, NEW r \in Receivers, PutInCache(r) \/ Wrap(r) PROVE ShareInv'
PROOF
<1> USE DEF ShareInv
<1>1. /\ rebuilding[r].at \in {"made", "wrap"}
      /\ UNCHANGED <<memory, transit, references, storages, lost, sends>>
  BY DEF PutInCache, Wrap
<1>2. PICK state :
        /\ Go(r, state)
        /\ \/ state.at = "wrap" /\ state.sent = Sent(r) /\ state.storage = rebuilding[r].storage
           \/ state.at = "rest"
  <2>1. CASE PutInCache(r)
    <3> DEFINE state == [rebuilding[r] EXCEPT !.at = "wrap"]
    <3>1. Go(r, state) BY <2>1 DEF PutInCache
    <3>2. state.at = "wrap" /\ state.sent = Sent(r) /\ state.storage = rebuilding[r].storage
      BY DEF Sent
    <3> HIDE DEF state
    <3>3. QED BY <3>1, <3>2
  <2>2. CASE Wrap(r) BY <2>2 DEF Wrap, Resting
  <2>3. QED BY <2>1, <2>2
<1>3. /\ rebuilding'[r] = state /\ DOMAIN rebuilding' = Receivers
      /\ \A q \in Receivers \ {r} : rebuilding'[q] = rebuilding[q]
  BY <1>2, Others
<1>4. ~Owes(r) /\ ~Owes(r)' BY <1>1, <1>2, <1>3 DEF Owes, Owing
<1>5. \A q \in Receivers : Owes(q)' <=> Owes(q) BY <1>3, <1>4 DEF Owes
<1>6. \A q \in Receivers : Owes(q) => Sent(q)' = Sent(q) BY <1>3, <1>4 DEF Sent
<1>7. Hands' = Hands BY <1>5, <1>6 DEF Hands
<1>8. Typed' BY <1>1, <1>2, <1>3 DEF Typed, Labels, Holding
<1>9. Numbered' BY <1>1, <1>7 DEF Numbered
<1>10. Apart' BY <1>1, <1>5, <1>6 DEF Apart
<1>11. Accounted' BY <1>1, <1>7 DEF Accounted
<1>12. Over(rebuilding[r].storage, Sent(r)) BY <1>1 DEF Backed, Holding
<1>13. Kept' BY <1>1 DEF Kept
<1>14. CachedByPlace'
  <2>1. CASE PutInCache(r) BY <2>1, <1>12 DEF PutInCache, CachedByPlace, Over, Sent, Key
  <2>2. CASE Wrap(r) BY <2>2 DEF Wrap, CachedByPlace
  <2>3. QED BY <2>1, <2>2
<1>15. \A x \in rebuilt' : Over(x.storage, x.sent)
  <2>1. CASE PutInCache(r) BY <2>1 DEF PutInCache, Backed
  <2>2. CASE Wrap(r) BY <2>2, <1>12 DEF Wrap, Backed, Sent
  <2>3. QED BY <2>1, <2>2
<1>16. Backed' BY <1>1, <1>2, <1>3, <1>12, <1>15 DEF Backed, Over, Sent, Holding
<1>17. QED BY <1>8, <1>9, <1>10, <1>11, <1>13, <1>14, <1>16

\* A storage dies with its last user, and its reference with it.
LEMMA DropKeeps == ASSUME ShareInv, NEW x \in rebuilt, Drop(x) PROVE ShareInv'
PROOF
<1> USE DEF ShareInv
<1>1. /\ rebuilt' = rebuilt \ {x} /\ storages' = {s \in storages : InUse(s)}
      /\ references' = references \ (storages \ storages')
      /\ UNCHANGED <<memory, transit, cached, rebuilding, lost, sends>>
  BY DEF Drop
<1>2. Hands' = Hands BY <1>1 DEF Hands, Owes, Sent
<1>3. storages' \subseteq storages BY <1>1
<1>4. Hands \cap storages = {} BY DEF Hands, Apart
<1>5. Typed' BY <1>1 DEF Typed
<1>6. Numbered' BY <1>1, <1>2, <1>3 DEF Numbered
<1>7. Apart' BY <1>1, <1>3 DEF Apart, Owes, Sent
<1>8. Accounted' BY <1>1, <1>2, <1>3, <1>4 DEF Accounted, Apart
<1>9. Kept' /\ CachedByPlace' BY <1>1 DEF Kept, CachedByPlace
<1>10. Backed'
  <2>1. ASSUME NEW r \in Receivers, rebuilding[r].at \in Holding
        PROVE  rebuilding[r].storage \in storages'
    BY <1>1, <2>1 DEF InUse, AtStep, Holding, Backed, Over
  <2>2. ASSUME NEW y \in rebuilt' PROVE y.storage \in storages'
    BY <1>1 DEF InUse, Backed, Over
  <2>3. QED BY <1>1, <2>1, <2>2 DEF Backed, Over, Sent
<1>11. QED BY <1>5, <1>6, <1>7, <1>8, <1>9, <1>10

\* Every step keeps the invariant.
LEMMA ShareInvNext == ShareInv /\ [ShareNext]_shareVars => ShareInv'
PROOF
<1> SUFFICES ASSUME ShareInv, [ShareNext]_shareVars PROVE ShareInv' OBVIOUS
<1>1. CASE UNCHANGED shareVars
  BY <1>1 DEF shareVars, ShareInv, Typed, Numbered, Apart, Accounted, Kept, CachedByPlace, Backed,
              Over, Hands, Owes, Sent
<1>2. CASE \E p \in Places : Send(p) \/ Forget(p) \/ UseAgain(p)
  BY <1>2, SendKeeps, ProducerKeeps
<1>3. CASE \E r \in Receivers, m \in transit : Receive(r, m) BY <1>3, ReceiveKeeps
<1>4. CASE \E r \in Receivers :
          LookUp(r) \/ Found(r) \/ MakeStorage(r) \/ MakingFails(r) \/ PutInCache(r) \/ Wrap(r)
  BY <1>4, LookUpKeeps, FoundKeeps, MakeKeeps, CacheAndWrapKeep
<1>5. CASE \E x \in rebuilt : Drop(x) BY <1>5, DropKeeps
<1>6. QED BY <1>1, <1>2, <1>3, <1>4, <1>5 DEF ShareNext

LEMMA ShareInvariant == ShareSpec => []ShareInv
PROOF BY ShareInvInit, ShareInvNext, PTL DEF ShareSpec

\* Every reference that was sent is released once and in time (reductions.py:96).
THEOREM ReferencesAreAccounted == ShareSpec => []ReferencesAccounted
PROOF
<1>1. ShareInv => ReferencesAccounted
  <2> SUFFICES ASSUME ShareInv PROVE ReferencesAccounted OBVIOUS
  <2>1. Hands = {rebuilding[r].sent : r \in AtStep("lookup") \cup AtStep("missed") \cup AtStep("found")}
    BY DEF Hands, Sent, Owes, Owing, AtStep
  <2>2. QED BY <2>1 DEF ShareInv, Accounted, ReferencesAccounted
<1>2. QED BY <1>1, ShareInvariant, PTL

\* A storage is never left over memory that serves something else, nor taken from the
\* cache for another place or use (reductions.py:78).
THEOREM TensorsLieOverTheirMemory == ShareSpec => []OverItsMemory
PROOF
<1>1. ShareInv => OverItsMemory
  BY DEF ShareInv, OverItsMemory, Accounted, Kept, Backed, Over
<1>2. QED BY <1>1, ShareInvariant, PTL

\* What a thread rebuilds, and what it has rebuilt, was sent; and no place is used
\* more often than the bound says.
Rebuilding(r) == rebuilding[r].at # "rest" => Sent(r).number \in 1..sends
Sends ==
    /\ \A p \in Places : memory[p].use \in 1..MaxUses
    /\ \A r \in Receivers : Rebuilding(r)
    /\ \A x \in rebuilt : x.sent.number \in 1..sends

LEMMA SendsInit == ShareInit => Sends
BY UsesAssumption DEF ShareInit, Sends, Rebuilding, Resting

LEMMA ProducerSends ==
    ASSUME ShareInv, Sends, NEW p \in Places, Send(p) \/ Forget(p) \/ UseAgain(p) PROVE Sends'
PROOF
<1>1. memory \in [Places -> [use : Nat, held : BOOLEAN]] /\ sends \in Nat BY DEF ShareInv, Typed
<1>2. UNCHANGED <<rebuilding, rebuilt>> /\ sends' \in {sends, sends + 1} BY DEF Send, Forget, UseAgain
<1>3. (\A r \in Receivers : Rebuilding(r))' /\ (\A x \in rebuilt : x.sent.number \in 1..sends)'
  <2>1. \A i \in 1..sends : i \in 1..sends' BY <1>1, <1>2
  <2>. QED BY <1>2, <2>1 DEF Sends, Rebuilding, Sent
<1>4. ASSUME NEW q \in Places PROVE memory'[q].use \in 1..MaxUses
  <2>1. memory[q].use \in 1..MaxUses /\ memory[q].use \in Nat BY <1>1 DEF Sends
  <2>2. CASE Send(p) BY <2>1, <2>2 DEF Send
  <2>3. CASE Forget(p) BY <1>1, <2>1, <2>3 DEF Forget
  <2>4. CASE UseAgain(p) /\ q = p
    <3>1. memory'[q].use = memory[q].use + 1 /\ memory[q].use < MaxUses BY <1>1, <2>4 DEF UseAgain
    <3>. QED BY <2>1, <3>1, UsesAssumption
  <2>5. CASE UseAgain(p) /\ q # p BY <1>1, <2>1, <2>5 DEF UseAgain
  <2>. QED BY <2>2, <2>3, <2>4, <2>5
<1>. QED BY <1>3, <1>4 DEF Sends

\* A thread goes on with what it has received, or rests.
LEMMA ThreadSends ==
    ASSUME ShareInv, Sends, NEW r \in Receivers, NEW state, Go(r, state), UNCHANGED <<memory, sends>>,
           state.at # "rest" => state.sent.number \in 1..sends,
           \A x \in rebuilt' : x \in rebuilt \/ x.sent.number \in 1..sends
    PROVE  Sends'
PROOF
<1>1. rebuilding'[r] = state /\ \A q \in Receivers \ {r} : rebuilding'[q] = rebuilding[q]
  BY Others DEF ShareInv
<1>2. \A q \in Receivers : Rebuilding(q)' BY <1>1 DEF Sends, Rebuilding, Sent
<1>. QED BY <1>2 DEF Sends

LEMMA SendsNext == ShareInv /\ Sends /\ [ShareNext]_shareVars => Sends'
PROOF
<1> SUFFICES ASSUME ShareInv, Sends, [ShareNext]_shareVars PROVE Sends' OBVIOUS
<1>1. CASE UNCHANGED shareVars BY <1>1 DEF shareVars, Sends, Rebuilding, Sent
<1>2. CASE \E p \in Places : Send(p) \/ Forget(p) \/ UseAgain(p) BY <1>2, ProducerSends
<1>3. ASSUME NEW r \in Receivers, NEW m \in transit, Receive(r, m) PROVE Sends'
  <2> DEFINE state == [at |-> "lookup", sent |-> m]
  <2>1. Go(r, state) /\ UNCHANGED <<memory, sends, rebuilt>> BY <1>3 DEF Receive
  <2>2. state.sent.number \in 1..sends BY DEF ShareInv, Numbered
  <2> HIDE DEF state
  <2>. QED BY <2>1, <2>2, ThreadSends
<1>4. ASSUME NEW r \in Receivers,
             LookUp(r) \/ Found(r) \/ MakeStorage(r) \/ MakingFails(r) \/ PutInCache(r) \/ Wrap(r)
      PROVE  Sends'
  <2> DEFINE m == rebuilding[r].sent
  <2>1. m.number \in 1..sends
    BY <1>4 DEF Sends, Rebuilding, Sent, LookUp, Found, MakeStorage, MakingFails, PutInCache, Wrap
  <2>2. UNCHANGED <<memory, sends>> BY <1>4 DEF LookUp, Found, MakeStorage, MakingFails, PutInCache, Wrap
  <2>3. CASE LookUp(r)
    <3>1. PICK s : Go(r, [at |-> "missed", sent |-> m]) \/ Go(r, [at |-> "found", sent |-> m, storage |-> s])
      BY <2>3 DEF LookUp
    <3>2. rebuilt' = rebuilt BY <2>3 DEF LookUp
    <3>. QED BY <2>1, <2>2, <3>1, <3>2, ThreadSends
  <2>4. CASE Found(r) \/ PutInCache(r)
    <3> DEFINE state == [rebuilding[r] EXCEPT !.at = "wrap"]
    <3>1. Go(r, state) /\ rebuilt' = rebuilt BY <2>4 DEF Found, PutInCache
    <3>2. state.sent.number \in 1..sends BY <2>1
    <3> HIDE DEF state
    <3>. QED BY <2>2, <3>1, <3>2, ThreadSends
  <2>5. CASE MakeStorage(r)
    <3>1. Go(r, [at |-> "made", sent |-> m, storage |-> m]) /\ rebuilt' = rebuilt BY <2>5 DEF MakeStorage
    <3>. QED BY <2>1, <2>2, <3>1, ThreadSends
  <2>6. CASE MakingFails(r)
    <3>1. Go(r, Resting) /\ rebuilt' = rebuilt /\ Resting.at = "rest" BY <2>6 DEF MakingFails, Resting
    <3>. QED BY <2>2, <3>1, ThreadSends
  <2>7. CASE Wrap(r)
    <3>1. Go(r, Resting) /\ Resting.at = "rest" BY <2>7 DEF Wrap, Resting
    <3>2. \A x \in rebuilt' : x \in rebuilt \/ x.sent = m BY <2>7 DEF Wrap
    <3>. QED BY <2>1, <2>2, <3>1, <3>2, ThreadSends
  <2>. QED BY <1>4, <2>3, <2>4, <2>5, <2>6, <2>7
<1>5. CASE \E x \in rebuilt : Drop(x)
  <2>1. UNCHANGED <<memory, sends, rebuilding>> /\ rebuilt' \subseteq rebuilt BY <1>5 DEF Drop
  <2>. QED BY <2>1 DEF Sends, Rebuilding, Sent
<1>. QED BY <1>1, <1>2, <1>3, <1>4, <1>5 DEF ShareNext

\* Sends are numbered in order, every reference is about a place there is, and what a
\* thread has rebuilt was sent (reduce_tensor, rebuild_mlu_tensor).
THEOREM ShareTyping == ShareSpec => []ShareTypeOK
PROOF
<1>1. ShareSpec => []Sends
  <2>1. Sends /\ ShareInv /\ [ShareNext]_shareVars => Sends' BY SendsNext
  <2>. QED BY <2>1, SendsInit, ShareInvariant, PTL DEF ShareSpec
<1>2. ShareInv /\ Sends => ShareTypeOK
  <2> SUFFICES ASSUME ShareInv, Sends PROVE ShareTypeOK OBVIOUS
  <2>1. \A p \in Places : memory[p].use \in 1..MaxUses /\ memory[p].held \in BOOLEAN
    BY DEF ShareInv, Sends, Typed
  <2>2. \A m \in transit \cup references \cup storages \cup lost : m.place \in Places /\ m.number \in 1..sends
    BY DEF ShareInv, Accounted, Kept, Numbered
  <2>. QED BY <2>1, <2>2 DEF ShareInv, Typed, Sends, ShareTypeOK
<1>. QED BY <1>1, <1>2, ShareInvariant, PTL

-----------------------------------------------------------------------------
(* Contexts.                                                                *)

Streams == Devices \X Nat
Situation == [device : Devices, streams : [Devices -> Streams]]

\* Each device has a current stream of its own.
Own(at) == \A d \in Devices : DeviceOf(at.streams[d]) = d
Sound(at) == at \in Situation /\ Own(at)

\* The fields of a manager, by its kind.
FieldsTyped ==
    /\ DOMAIN fields = Managers
    /\ \A m \in Managers :
          /\ m.kind = "device" => fields[m] \in [index : Devices, previous : Devices]
          /\ m.kind # "device" => fields[m] \in [source : Streams, destination : Streams]

Context == [manager : Managers, before : Situation]
StackTyped ==
    /\ entered \in Seq(Context)
    /\ \A k \in DOMAIN entered : Own(entered[k].before)
    /\ \A j, k \in DOMAIN entered : entered[j].manager = entered[k].manager => j = k

\* What is current in the body of context k, within which nothing else is entered:
\* now for the last context, and what the next one found for the others.
Body(k) == IF k = 1 THEN here ELSE entered[k - 1].before

\* The fields of an entered manager say what it found, and its body has only selected
\* devices: the streams are those it set.
Faithful(m, kept, before, body) ==
    /\ m.kind = "device" =>
          /\ kept.previous = before.device
          /\ body.streams = before.streams
    /\ m.kind # "device" =>
          /\ kept.source = before.streams[before.device]
          /\ before.device # DeviceOf(m.on) =>
                kept.destination = before.streams[DeviceOf(m.on)]
          /\ body.streams = [before.streams EXCEPT ![DeviceOf(m.on)] = m.on]
    /\ m.kind = "capture" => body.device = DeviceOf(m.on)

StackFaithful ==
    \A k \in DOMAIN entered : Faithful(entered[k].manager, fields[entered[k].manager], entered[k].before, Body(k))

ContextInv ==
    /\ Sound(here) /\ FieldsTyped /\ StackTyped
    /\ leaked \in BOOLEAN
    /\ ~leaked => StackFaithful

-----------------------------------------------------------------------------
(* Setting a device or a stream.                                            *)

LEMMA StreamFacts == ASSUME NEW s \in Streams PROVE DeviceOf(s) \in Devices
PROOF BY DEF Streams, DeviceOf

LEMMA ManagerFacts ==
    ASSUME NEW m \in Managers
    PROVE  /\ m.kind \in {"device", "stream", "capture"}
           /\ m.kind = "device" => m.on \in Devices
           /\ m.kind # "device" => m.on \in Streams
PROOF BY ManagersAssumption DEF Streams

LEMMA SelectFacts ==
    ASSUME NEW at, Sound(at), NEW d \in Devices
    PROVE  /\ Sound(Select(at, d))
           /\ Select(at, d).device = d /\ Select(at, d).streams = at.streams
PROOF BY DEF Sound, Situation, Own, Select

LEMMA SetStreamFacts ==
    ASSUME NEW at, Sound(at), NEW s \in Streams
    PROVE  /\ Sound(SetStream(at, s))
           /\ SetStream(at, s).device = DeviceOf(s)
           /\ SetStream(at, s).streams = [at.streams EXCEPT ![DeviceOf(s)] = s]
PROOF
<1>1. DeviceOf(s) \in Devices BY StreamFacts
<1>2. at \in Situation /\ Own(at) BY DEF Sound
<1> DEFINE new == [at.streams EXCEPT ![DeviceOf(s)] = s]
<1>3. SetStream(at, s) = [device |-> DeviceOf(s), streams |-> new]
  BY DEF SetStream
<1>4. new \in [Devices -> Streams] BY <1>1, <1>2 DEF Situation
<1>5. \A d \in Devices : DeviceOf(new[d]) = d BY <1>1, <1>2 DEF Own, Situation
<1>6. QED BY <1>1, <1>3, <1>4, <1>5 DEF Sound, Situation, Own

\* A situation is its device and its streams.
LEMMA SituationEqual ==
    ASSUME NEW a \in Situation, NEW b \in Situation, a.device = b.device,
           \A d \in Devices : a.streams[d] = b.streams[d]
    PROVE  a = b
PROOF
<1>1. a.streams = b.streams BY DEF Situation
<1>2. QED BY <1>1 DEF Situation

-----------------------------------------------------------------------------
(* Leaving a context restores what it found.                                *)

LEMMA LeaveDeviceRestores ==
    ASSUME NEW m \in Managers, m.kind = "device", Sound(here),
           NEW before, Sound(before), Faithful(m, fields[m], before, here)
    PROVE  Select(here, fields[m].previous) = before
PROOF
<1>1. before.device \in Devices /\ before \in Situation BY DEF Sound, Situation
<1>2. fields[m].previous = before.device /\ here.streams = before.streams BY DEF Faithful
<1>3. /\ Sound(Select(here, before.device))
      /\ Select(here, before.device).device = before.device
      /\ Select(here, before.device).streams = before.streams
  BY <1>1, <1>2, SelectFacts
<1>4. Select(here, before.device) \in Situation BY <1>3 DEF Sound
<1>5. QED BY <1>1, <1>2, <1>3, <1>4, SituationEqual

LEMMA BackRestores ==
    ASSUME NEW m \in Managers, m.kind # "device", Sound(here),
           NEW before, Sound(before), Faithful(m, fields[m], before, here)
    PROVE  Back(m) = before
PROOF
<1> DEFINE on == DeviceOf(m.on)
           d == before.device
           source == before.streams[d]
<1>1. on \in Devices /\ m.on \in Streams BY ManagerFacts, StreamFacts
<1>2. /\ before \in Situation /\ d \in Devices
      /\ before.streams \in [Devices -> Streams] /\ source \in Streams
      /\ \A e \in Devices : DeviceOf(before.streams[e]) = e
  BY DEF Sound, Situation, Own
<1>3. /\ fields[m].source = source
      /\ d # on => fields[m].destination = before.streams[on]
      /\ here.streams = [before.streams EXCEPT ![on] = m.on]
  BY DEF Faithful
<1>4. DeviceOf(source) = d BY <1>2
<1>5. CASE d = on
  <2>1. Back(m) = SetStream(here, source) BY <1>3, <1>4, <1>5 DEF Back
  <2> DEFINE a == SetStream(here, source)
  <2>2. /\ Sound(a) /\ a.device = d
        /\ a.streams = [here.streams EXCEPT ![d] = source]
    <3> HIDE DEF source, d
    <3>1. source \in Streams BY <1>2
    <3>2. QED BY <1>4, <3>1, SetStreamFacts
  <2>3. a \in Situation BY <2>2 DEF Sound
  <2> HIDE DEF a
  <2>4. \A e \in Devices : a.streams[e] = before.streams[e]
    <3> HIDE DEF on, d
    <3>1. a.streams = [[before.streams EXCEPT ![on] = m.on] EXCEPT ![on] = before.streams[on]]
      BY <1>3, <1>5, <2>2
    <3>2. QED BY <1>1, <1>2, <3>1
  <2>5. a = before BY <1>2, <2>2, <2>3, <2>4, SituationEqual
  <2>6. QED BY <2>1, <2>5 DEF a
<1>6. CASE d # on
  <2> DEFINE dest == before.streams[on]
             a == SetStream(here, dest)
             b == SetStream(a, source)
  <2>1. Back(m) = b BY <1>3, <1>4, <1>6 DEF Back
  <2>2. dest \in Streams /\ DeviceOf(dest) = on BY <1>1, <1>2
  <2>3. /\ Sound(a)
        /\ a.streams = [here.streams EXCEPT ![on] = dest]
    BY <2>2, SetStreamFacts
  <2>4. /\ Sound(b) /\ b.device = d
        /\ b.streams = [a.streams EXCEPT ![d] = source]
    <3> HIDE DEF a, source, d
    <3>1. source \in Streams BY <1>2
    <3>2. QED BY <1>4, <2>3, <3>1, SetStreamFacts
  <2>5. b \in Situation BY <2>4 DEF Sound
  <2> HIDE DEF a, b
  <2>6. \A e \in Devices : b.streams[e] = before.streams[e]
    <3> HIDE DEF on, d
    <3>1. b.streams = [[[before.streams EXCEPT ![on] = m.on]
                          EXCEPT ![on] = before.streams[on]] EXCEPT ![d] = before.streams[d]]
      BY <1>3, <2>3, <2>4
    <3>2. QED BY <1>1, <1>2, <1>6, <3>1
  <2>7. b = before BY <1>2, <2>4, <2>5, <2>6, SituationEqual
  <2>8. QED BY <2>1, <2>7
<1>7. QED BY <1>5, <1>6

-----------------------------------------------------------------------------
(* The stack of contexts.                                                   *)

LEMMA PushFacts ==
    ASSUME NEW S, NEW s \in Seq(S), NEW x \in S
    PROVE  /\ <<x>> \o s \in Seq(S) /\ Len(<<x>> \o s) = Len(s) + 1
           /\ (<<x>> \o s)[1] = x
           /\ \A k \in 2..(Len(s) + 1) : (<<x>> \o s)[k] = s[k - 1]
PROOF OBVIOUS

LEMMA PopFacts ==
    ASSUME NEW S, NEW s \in Seq(S), s # <<>>
    PROVE  /\ Len(s) \in Nat \ {0} /\ Head(s) = s[1] /\ s[1] \in S
           /\ Tail(s) \in Seq(S) /\ Len(Tail(s)) = Len(s) - 1
           /\ \A k \in 1..(Len(s) - 1) : Tail(s)[k] = s[k + 1]
PROOF OBVIOUS

\* What a manager does when it is entered.
Begins(m) ==
    /\ m.kind = "device" => EnterDevice(m)
    /\ m.kind # "device" => EnterStream(m)

\* It keeps what it found, and leaves the fields of the others alone.
LEMMA BeginFacts ==
    ASSUME ContextInv, NEW m \in Managers, Begins(m)
    PROVE  /\ Sound(here') /\ FieldsTyped' /\ Faithful(m, fields'[m], here, here')
           /\ \A n \in Managers \ {m} : fields'[n] = fields[n]
PROOF
<1>1. /\ Sound(here) /\ FieldsTyped /\ here \in Situation /\ Own(here)
      /\ here.device \in Devices /\ here.streams \in [Devices -> Streams]
  BY DEF ContextInv, Sound, Situation
<1>2. CASE m.kind = "device"
  <2>1. /\ fields' = [fields EXCEPT ![m].previous = here.device]
        /\ here' = Select(here, fields[m].index) /\ fields[m].index \in Devices
    BY <1>1, <1>2 DEF Begins, EnterDevice, FieldsTyped
  <2>2. Sound(here') /\ here'.streams = here.streams BY <1>1, <2>1, SelectFacts
  <2>3. fields[m] \in [index : Devices, previous : Devices] BY <1>1, <1>2 DEF FieldsTyped
  <2>4. fields'[m] = [fields[m] EXCEPT !.previous = here.device]
    BY <1>1, <2>1 DEF FieldsTyped
  <2>5. /\ fields'[m] \in [index : Devices, previous : Devices]
        /\ fields'[m].previous = here.device
    BY <1>1, <2>3, <2>4
  <2>6. /\ DOMAIN fields' = Managers
        /\ \A n \in Managers \ {m} : fields'[n] = fields[n]
    BY <1>1, <2>1 DEF FieldsTyped
  <2>7. FieldsTyped' BY <1>1, <1>2, <2>5, <2>6 DEF FieldsTyped
  <2>8. Faithful(m, fields'[m], here, here') BY <1>2, <2>2, <2>5 DEF Faithful
  <2>9. QED BY <2>2, <2>6, <2>7, <2>8
<1>3. CASE m.kind # "device"
  <2> DEFINE on == DeviceOf(m.on)
             source == here.streams[here.device]
             dest == IF DeviceOf(source) # on THEN here.streams[on] ELSE fields[m].destination
  <2>1. m.on \in Streams /\ on \in Devices BY <1>3, ManagerFacts, StreamFacts
  <2>2. /\ fields' = [fields EXCEPT ![m].source = source, ![m].destination =
                         IF DeviceOf(source) # on THEN here.streams[on] ELSE @]
        /\ here' = SetStream(here, m.on)
    BY <1>3 DEF Begins, EnterStream, CurrentStream
  <2>3. /\ Sound(here') /\ here'.device = on
        /\ here'.streams = [here.streams EXCEPT ![on] = m.on]
    BY <1>1, <2>1, <2>2, SetStreamFacts
  <2>4. fields[m] \in [source : Streams, destination : Streams] BY <1>1, <1>3 DEF FieldsTyped
  <2>5. source \in Streams /\ DeviceOf(source) = here.device /\ dest \in Streams
    BY <1>1, <2>1, <2>4 DEF Own
  <2>6. /\ DOMAIN fields' = Managers
        /\ \A n \in Managers \ {m} : fields'[n] = fields[n]
        /\ fields'[m] = [source |-> source, destination |-> dest]
    BY <1>1, <2>2, <2>4 DEF FieldsTyped
  <2>7. FieldsTyped'
    <3> HIDE DEF source, dest
    <3>1. fields'[m] \in [source : Streams, destination : Streams] BY <2>5, <2>6
    <3>2. QED BY <1>1, <1>3, <2>6, <3>1 DEF FieldsTyped
  <2>8. Faithful(m, fields'[m], here, here')
    <3>1. fields'[m].source = source /\ fields'[m].destination = dest BY <2>6
    <3>2. here.device # on => dest = here.streams[on] BY <2>5
    <3> HIDE DEF dest
    <3>3. QED BY <1>3, <2>3, <3>1, <3>2 DEF Faithful
  <2>9. QED BY <2>3, <2>6, <2>7, <2>8
<1>4. QED BY <1>2, <1>3

LEMMA EnterKeeps ==
    ASSUME ContextInv, NEW m \in Managers, Enter(m) PROVE ContextInv'
PROOF
<1> DEFINE new == [manager |-> m, before |-> here]
<1>1. /\ Begins(m) /\ leaked' = leaked /\ entered' = <<new>> \o entered
      /\ \A k \in DOMAIN entered : entered[k].manager # m
  BY DEF Enter, Begins, Push
<1>2. /\ Sound(here') /\ FieldsTyped' /\ Faithful(m, fields'[m], here, here')
      /\ \A n \in Managers \ {m} : fields'[n] = fields[n]
  BY <1>1, BeginFacts
<1>3. /\ entered \in Seq(Context) /\ DOMAIN entered = 1..Len(entered) /\ Len(entered) \in Nat
      /\ new \in Context /\ Own(here)
  BY DEF ContextInv, StackTyped, Context, Sound
<1> HIDE DEF new
<1>4. /\ entered' \in Seq(Context) /\ Len(entered') = Len(entered) + 1 /\ entered'[1] = new
      /\ \A k \in 2..Len(entered') : entered'[k] = entered[k - 1] /\ k - 1 \in DOMAIN entered
      /\ DOMAIN entered' = 1..Len(entered')
  BY <1>1, <1>3, PushFacts
<1>5. new.manager = m /\ new.before = here BY DEF new
<1>6. StackTyped'
  <2>1. ASSUME NEW k \in DOMAIN entered' PROVE Own(entered'[k].before)
    <3>1. CASE k = 1 BY <1>3, <1>4, <1>5, <3>1
    <3>2. CASE k # 1
      <4>1. k - 1 \in DOMAIN entered /\ entered'[k] = entered[k - 1] BY <1>3, <1>4, <3>2
      <4>2. QED BY <4>1 DEF ContextInv, StackTyped
    <3>3. QED BY <3>1, <3>2
  <2>2. ASSUME NEW j \in DOMAIN entered', NEW k \in DOMAIN entered',
               entered'[j].manager = entered'[k].manager
        PROVE  j = k
    <3>1. j # 1 => j - 1 \in DOMAIN entered /\ entered'[j] = entered[j - 1] BY <1>3, <1>4
    <3>2. k # 1 => k - 1 \in DOMAIN entered /\ entered'[k] = entered[k - 1] BY <1>3, <1>4
    <3>3. j # 1 /\ k # 1 => j - 1 = k - 1 BY <2>2, <3>1, <3>2 DEF ContextInv, StackTyped
    <3>4. j = 1 <=> k = 1 BY <1>1, <1>4, <1>5, <2>2, <3>1, <3>2
    <3>5. QED BY <1>3, <1>4, <3>3, <3>4
  <2>3. QED BY <1>4, <2>1, <2>2 DEF StackTyped, Own
<1>7. ASSUME ~leaked, NEW k \in DOMAIN entered'
      PROVE  Faithful(entered'[k].manager, fields'[entered'[k].manager], entered'[k].before, Body(k)')
  <2>1. CASE k = 1
    <3>1. Body(k)' = here' BY <2>1 DEF Body
    <3>2. QED BY <1>2, <1>4, <1>5, <2>1, <3>1
  <2>2. CASE k # 1
    <3>1. k - 1 \in DOMAIN entered /\ entered'[k] = entered[k - 1] BY <1>3, <1>4, <2>2
    <3>2. entered[k - 1].manager \in Managers \ {m}
      <4>1. entered[k - 1] \in Context BY <1>3, <3>1
      <4>2. entered[k - 1].manager # m BY <1>1, <3>1
      <4>3. QED BY <4>1, <4>2 DEF Context
    <3>3. Body(k)' = Body(k - 1)
      <4>1. Body(k)' = entered'[k - 1].before BY <2>2 DEF Body
      <4>2. CASE k - 1 = 1 BY <1>4, <1>5, <4>1, <4>2 DEF Body
      <4>3. CASE k - 1 # 1
        <5>1. k - 1 \in 2..Len(entered') BY <1>3, <1>4, <3>1, <4>3
        <5>2. entered'[k - 1] = entered[k - 1 - 1] BY <1>4, <5>1
        <5>3. QED BY <4>1, <4>3, <5>2 DEF Body
      <4>4. QED BY <4>2, <4>3
    <3>4. Faithful(entered[k - 1].manager, fields[entered[k - 1].manager],
                   entered[k - 1].before, Body(k - 1))
      BY <1>7, <3>1 DEF ContextInv, StackFaithful
    <3>5. fields'[entered[k - 1].manager] = fields[entered[k - 1].manager] BY <1>2, <3>2
    <3>6. QED BY <3>1, <3>3, <3>4, <3>5
  <2>3. QED BY <2>1, <2>2
<1>8. QED BY <1>1, <1>2, <1>6, <1>7 DEF ContextInv, StackFaithful, Sound, Faithful

\* Leaving the last context, as the code does it when nothing leaks.
LEMMA LeaveKeeps ==
    ASSUME ContextInv, Leave
    PROVE  ContextInv' /\ (~leaked => here' = Head(entered).before)
PROOF
<1> DEFINE m == Head(entered).manager
           before == Head(entered).before
<1>1. /\ entered # <<>> /\ entered' = Tail(entered) /\ leaked' = leaked
      /\ IF m.kind = "device" THEN LeaveDevice(m) ELSE LeaveStream(m)
  BY DEF Leave, Pop
<1>2. /\ entered \in Seq(Context) /\ Sound(here) /\ FieldsTyped /\ leaked \in BOOLEAN
      /\ DOMAIN entered = 1..Len(entered)
  BY DEF ContextInv, StackTyped
<1>3. /\ Len(entered) \in Nat \ {0} /\ Head(entered) = entered[1] /\ entered[1] \in Context
      /\ entered' \in Seq(Context) /\ Len(entered') = Len(entered) - 1
      /\ DOMAIN entered' = 1..Len(entered')
      /\ \A k \in DOMAIN entered' : entered'[k] = entered[k + 1] /\ k + 1 \in DOMAIN entered
  BY <1>1, <1>2, PopFacts
<1>4. m \in Managers /\ before \in Situation /\ Sound(before) /\ 1 \in DOMAIN entered
  <2>1. 1 \in DOMAIN entered BY <1>2, <1>3
  <2>2. QED BY <1>3, <2>1 DEF ContextInv, StackTyped, Context, Sound
<1>5. ~leaked => Faithful(m, fields[m], before, here)
  BY <1>3, <1>4 DEF ContextInv, StackFaithful, Body
<1> HIDE DEF m, before
<1>6. /\ Sound(here') /\ FieldsTyped' /\ (~leaked => here' = before)
      /\ \A n \in Managers \ {m} : fields'[n] = fields[n]
  <2>1. CASE m.kind = "device"
    <3>1. /\ fields' = [fields EXCEPT ![m].index = here.device]
          /\ here' = Select(here, fields[m].previous)
      BY <1>1, <2>1 DEF LeaveDevice
    <3>2. fields[m] \in [index : Devices, previous : Devices] /\ here.device \in Devices
      BY <1>2, <1>4, <2>1 DEF FieldsTyped, Sound, Situation
    <3>3. fields[m].previous \in Devices BY <3>2
    <3>4. Sound(here') BY <1>2, <3>1, <3>3, SelectFacts
    <3>5. /\ DOMAIN fields' = Managers
          /\ fields'[m] = [fields[m] EXCEPT !.index = here.device]
          /\ \A n \in Managers \ {m} : fields'[n] = fields[n]
      BY <1>2, <1>4, <3>1 DEF FieldsTyped
    <3>6. fields'[m] \in [index : Devices, previous : Devices] BY <3>2, <3>5
    <3>7. FieldsTyped' BY <1>2, <2>1, <3>5, <3>6 DEF FieldsTyped
    <3>8. ~leaked => here' = before BY <1>2, <1>4, <1>5, <2>1, <3>1, LeaveDeviceRestores
    <3>9. QED BY <3>4, <3>5, <3>7, <3>8
  <2>2. CASE m.kind # "device"
    <3>1. here' = Back(m) /\ fields' = fields BY <1>1, <2>2 DEF LeaveStream
    <3>2. ~leaked => here' = before BY <1>2, <1>4, <1>5, <2>2, <3>1, BackRestores
    <3>3. fields[m] \in [source : Streams, destination : Streams]
      BY <1>2, <1>4, <2>2 DEF FieldsTyped
    <3>4. Sound(SetStream(here, fields[m].destination)) /\ fields[m].source \in Streams
      BY <1>2, <3>3, SetStreamFacts
    <3>5. /\ Sound(SetStream(SetStream(here, fields[m].destination), fields[m].source))
          /\ Sound(SetStream(here, fields[m].source))
      BY <1>2, <3>4, SetStreamFacts
    <3>6. Sound(here') BY <3>1, <3>5 DEF Back
    <3>7. FieldsTyped' BY <1>2, <3>1 DEF FieldsTyped
    <3>8. QED BY <3>1, <3>2, <3>6, <3>7
  <2>3. QED BY <2>1, <2>2
<1>7. StackTyped'
  <2>1. ASSUME NEW k \in DOMAIN entered' PROVE Own(entered'[k].before)
    BY <1>3 DEF ContextInv, StackTyped
  <2>2. ASSUME NEW j \in DOMAIN entered', NEW k \in DOMAIN entered',
               entered'[j].manager = entered'[k].manager
        PROVE  j = k
    <3>1. j + 1 = k + 1 BY <1>3, <2>2 DEF ContextInv, StackTyped
    <3>2. QED BY <1>3, <3>1
  <2>3. QED BY <1>3, <2>1, <2>2 DEF StackTyped, Own
<1>8. ASSUME ~leaked, NEW k \in DOMAIN entered'
      PROVE  Faithful(entered'[k].manager, fields'[entered'[k].manager], entered'[k].before, Body(k)')
  <2>1. /\ k + 1 \in DOMAIN entered /\ entered'[k] = entered[k + 1] /\ k \in Nat /\ k >= 1
    BY <1>3
  <2>2. entered[k + 1].manager \in Managers
    <3>1. entered[k + 1] \in Context BY <1>2, <2>1
    <3>2. QED BY <3>1 DEF Context
  <2>3. entered[k + 1].manager # m
    <3>1. k + 1 # 1 BY <2>1
    <3>2. QED BY <1>3, <1>4, <2>1, <3>1 DEF ContextInv, StackTyped, m
  <2>4. Body(k)' = Body(k + 1)
    <3>1. CASE k = 1
      <4>1. Body(k)' = here' BY <3>1 DEF Body
      <4>2. Body(k + 1) = entered[1].before BY <3>1 DEF Body
      <4>3. QED BY <1>3, <1>6, <1>8, <4>1, <4>2 DEF before
    <3>2. CASE k # 1
      <4>1. Body(k)' = entered'[k - 1].before BY <3>2 DEF Body
      <4>2. k - 1 \in DOMAIN entered' BY <1>3, <2>1, <3>2
      <4>3. entered'[k - 1] = entered[k - 1 + 1] /\ k - 1 + 1 = k BY <1>3, <2>1, <4>2
      <4>4. Body(k + 1) = entered[k].before
        <5>1. k + 1 # 1 /\ k + 1 - 1 = k BY <2>1
        <5>2. QED BY <2>1, <5>1 DEF Body
      <4>5. QED BY <4>1, <4>3, <4>4
    <3>3. QED BY <3>1, <3>2
  <2>5. Faithful(entered[k + 1].manager, fields[entered[k + 1].manager],
                 entered[k + 1].before, Body(k + 1))
    BY <1>8, <2>1 DEF ContextInv, StackFaithful
  <2>6. fields'[entered[k + 1].manager] = fields[entered[k + 1].manager] BY <1>6, <2>2, <2>3
  <2>7. QED BY <2>1, <2>4, <2>5, <2>6
<1>9. ContextInv' BY <1>1, <1>2, <1>6, <1>7, <1>8 DEF ContextInv, StackFaithful, Sound, Faithful
<1>10. QED BY <1>6, <1>9 DEF before

\* Errors of a capture leave a sound situation, and are remembered.
LEMMA LeakKeeps ==
    ASSUME ContextInv, EndFails \/ \E m \in Managers : BeginFails(m)
    PROVE  ContextInv' /\ leaked'
PROOF
<1>1. ASSUME NEW m \in Managers, BeginFails(m) PROVE ContextInv' /\ leaked'
  <2>1. Begins(m) /\ leaked' = TRUE /\ entered' = entered
    BY <1>1 DEF BeginFails, Begins
  <2>2. Sound(here') /\ FieldsTyped' BY <2>1, BeginFacts
  <2>3. StackTyped' BY <2>1 DEF ContextInv, StackTyped, Own
  <2>4. QED BY <2>1, <2>2, <2>3 DEF ContextInv, Sound
<1>2. ASSUME EndFails PROVE ContextInv' /\ leaked'
  <2>1. entered # <<>> /\ entered' = Tail(entered) /\ leaked' = TRUE /\ UNCHANGED <<here, fields>>
    BY <1>2 DEF EndFails, Pop
  <2>2. entered \in Seq(Context) /\ DOMAIN entered = 1..Len(entered)
    BY DEF ContextInv, StackTyped
  <2>3. /\ Len(entered) \in Nat \ {0} /\ entered' \in Seq(Context)
        /\ Len(entered') = Len(entered) - 1 /\ DOMAIN entered' = 1..Len(entered')
        /\ \A k \in DOMAIN entered' : entered'[k] = entered[k + 1] /\ k + 1 \in DOMAIN entered
    BY <2>1, <2>2, PopFacts
  <2>4. \A k \in DOMAIN entered' : Own(entered'[k].before)
    BY <2>3 DEF ContextInv, StackTyped
  <2>5. ASSUME NEW j \in DOMAIN entered', NEW k \in DOMAIN entered',
               entered'[j].manager = entered'[k].manager
        PROVE  j = k
    <3>1. j + 1 = k + 1 BY <2>3, <2>5 DEF ContextInv, StackTyped
    <3>2. QED BY <2>3, <3>1
  <2>6. StackTyped' BY <2>3, <2>4, <2>5 DEF StackTyped, Own
  <2>7. QED BY <2>1, <2>6 DEF ContextInv, Sound, Situation, Own, FieldsTyped
<1>3. QED BY <1>1, <1>2

\* A body that selects a device changes no stream.
LEMMA SelectKeeps ==
    ASSUME ContextInv, NEW d \in Devices, SelectDevice(d) PROVE ContextInv'
PROOF
<1>1. /\ here' = Select(here, d) /\ UNCHANGED <<fields, entered, leaked>>
      /\ entered # <<>> => Head(entered).manager.kind # "capture"
  BY DEF SelectDevice
<1>2. Sound(here') /\ here'.streams = here.streams
  BY <1>1, SelectFacts DEF ContextInv
<1>3. ASSUME ~leaked, NEW k \in DOMAIN entered
      PROVE  Faithful(entered[k].manager, fields[entered[k].manager], entered[k].before, Body(k)')
  <2>1. Faithful(entered[k].manager, fields[entered[k].manager], entered[k].before, Body(k))
    BY <1>3 DEF ContextInv, StackFaithful
  <2>2. CASE k = 1
    <3>1. entered # <<>> /\ Head(entered) = entered[1]
      BY <1>3, <2>2 DEF ContextInv, StackTyped
    <3>2. Body(k) = here /\ Body(k)' = here' BY <2>2 DEF Body
    <3>3. QED BY <1>1, <1>2, <2>1, <2>2, <3>1, <3>2 DEF Faithful
  <2>3. CASE k # 1
    <3>1. Body(k)' = Body(k) BY <1>1, <2>3 DEF Body
    <3>2. QED BY <2>1, <3>1
  <2>4. QED BY <2>2, <2>3
<1>4. StackTyped' /\ FieldsTyped' BY <1>1 DEF ContextInv, StackTyped, FieldsTyped, Own
<1>5. QED BY <1>1, <1>2, <1>3, <1>4 DEF ContextInv, StackFaithful, Sound, Faithful

LEMMA ContextInvInit == ContextInit => ContextInv
PROOF
<1> SUFFICES ASSUME ContextInit PROVE ContextInv OBVIOUS
<1>1. here = [device |-> 0, streams |-> [d \in Devices |-> <<d, 0>>]] /\ entered = <<>> /\ leaked = FALSE
  BY DEF ContextInit
<1>2. Sound(here) BY <1>1, DevicesAssumption DEF Sound, Situation, Own, Streams, DeviceOf
<1>3. FieldsTyped
  <2>1. DOMAIN fields = Managers BY DEF ContextInit
  <2>2. <<0, 0>> \in Streams BY DevicesAssumption DEF Streams
  <2>3. ASSUME NEW m \in Managers, m.kind = "device"
        PROVE  fields[m] \in [index : Devices, previous : Devices]
    BY <2>3, ManagerFacts, DevicesAssumption DEF ContextInit
  <2>4. ASSUME NEW m \in Managers, m.kind # "device"
        PROVE  fields[m] \in [source : Streams, destination : Streams]
    BY <2>2, <2>4 DEF ContextInit
  <2>5. QED BY <2>1, <2>3, <2>4 DEF FieldsTyped
<1>4. StackTyped /\ StackFaithful BY <1>1 DEF StackTyped, StackFaithful
<1>5. QED BY <1>1, <1>2, <1>3, <1>4 DEF ContextInv

LEMMA ContextInvStep == ContextInv /\ [ContextNext]_contextVars => ContextInv'
PROOF
<1> SUFFICES ASSUME ContextInv, [ContextNext]_contextVars PROVE ContextInv' OBVIOUS
<1>1. ASSUME NEW m \in Managers, Enter(m) PROVE ContextInv' BY <1>1, EnterKeeps
<1>2. ASSUME NEW d \in Devices, SelectDevice(d) PROVE ContextInv' BY <1>2, SelectKeeps
<1>3. CASE UNCHANGED contextVars
  <2>1. UNCHANGED <<here, fields, entered, leaked>> BY <1>3 DEF contextVars
  <2>2. Sound(here)' /\ FieldsTyped' BY <2>1 DEF ContextInv, Sound, Situation, Own, FieldsTyped
  <2>3. StackTyped' BY <2>1 DEF ContextInv, StackTyped, Own
  <2>4. ~leaked' => StackFaithful' BY <2>1 DEF ContextInv, StackFaithful, Faithful, Body
  <2>5. QED BY <2>1, <2>2, <2>3, <2>4 DEF ContextInv
<1>4. QED BY <1>1, <1>2, <1>3, LeaveKeeps, LeakKeeps DEF ContextNext

THEOREM ContextInvHolds == ContextSpec => []ContextInv
PROOF BY ContextInvInit, ContextInvStep, PTL DEF ContextSpec

\* A context puts back the current device and every current stream, whatever was
\* entered in its body, unless an error of a capture kept a stream from being left
\* (device, StreamContext and graph, __exit__).
THEOREM ContextsAlwaysRestore == ContextSpec => ContextsRestore
PROOF
<1>1. ContextInv /\ [ContextNext]_contextVars
        => [Len(entered') < Len(entered) /\ ~leaked' => here' = Head(entered).before]_contextVars
  <2> SUFFICES ASSUME ContextInv, ContextNext, Len(entered') < Len(entered), ~leaked'
               PROVE  here' = Head(entered).before
    OBVIOUS
  <2>1. entered \in Seq(Context) /\ leaked \in BOOLEAN BY DEF ContextInv, StackTyped
  <2>2. Len(entered) \in Nat BY <2>1
  <2>3. CASE Leave
    <3>1. leaked' = leaked BY <2>3 DEF Leave
    <3>2. QED BY <2>3, <3>1, LeaveKeeps
  <2>4. ASSUME NEW m \in Managers, Enter(m) PROVE FALSE
    <3>1. [manager |-> m, before |-> here] \in Context
      BY DEF ContextInv, Context, Sound
    <3>2. Len(entered') = Len(entered) + 1 BY <2>1, <2>4, <3>1, PushFacts DEF Enter, Push
    <3>3. QED BY <2>2, <3>2
  <2>5. ASSUME NEW d \in Devices, SelectDevice(d) PROVE FALSE
    BY <2>2, <2>5 DEF SelectDevice
  <2>6. QED BY <2>3, <2>4, <2>5, LeakKeeps DEF ContextNext
<1>2. QED BY <1>1, ContextInvHolds, PTL DEF ContextSpec, ContextsRestore

\* A capture ends on the stream it began on (graph.__exit__).
THEOREM CapturesKeepTheirStream == ContextSpec => []CapturesEndOnTheirStream
PROOF
<1>1. ContextInv => CapturesEndOnTheirStream
  <2> SUFFICES ASSUME ContextInv, entered # <<>>, Head(entered).manager.kind = "capture", ~leaked
               PROVE  CurrentStream = Head(entered).manager.on
    BY DEF CapturesEndOnTheirStream
  <2> DEFINE m == Head(entered).manager
             before == Head(entered).before
  <2>1. entered \in Seq(Context) /\ DOMAIN entered = 1..Len(entered) BY DEF ContextInv, StackTyped
  <2>2. Head(entered) = entered[1] /\ entered[1] \in Context /\ 1 \in DOMAIN entered
    BY <2>1, PopFacts
  <2>3. Faithful(m, fields[m], before, here) BY <2>2 DEF ContextInv, StackFaithful, Body
  <2>4. m \in Managers /\ before \in Situation BY <2>2 DEF Context
  <2> HIDE DEF m, before
  <2>5. m.kind = "capture" BY DEF m
  <2>6. DeviceOf(m.on) \in Devices BY <2>4, <2>5, ManagerFacts, StreamFacts
  <2>7. /\ here.device = DeviceOf(m.on)
        /\ here.streams = [before.streams EXCEPT ![DeviceOf(m.on)] = m.on]
    BY <2>3, <2>5 DEF Faithful
  <2>8. QED BY <2>4, <2>6, <2>7 DEF CurrentStream, Situation, m
<1>2. QED BY <1>1, ContextInvHolds, PTL

\* No more contexts are entered than the bound allows.
InDepth == Len(entered) <= MaxDepth

LEMMA DepthKept ==
    ContextInv /\ InDepth /\ [ContextNext]_contextVars => InDepth'
PROOF
<1> SUFFICES ASSUME ContextInv, Len(entered) <= MaxDepth, [ContextNext]_contextVars PROVE Len(entered') <= MaxDepth
  BY DEF InDepth
<1>1. entered \in Seq(Context) BY DEF ContextInv, StackTyped
<1>2. Len(entered) \in Nat BY <1>1
<1>3. ASSUME NEW m \in Managers, Enter(m) PROVE Len(entered') <= MaxDepth
  <2>1. [manager |-> m, before |-> here] \in Context BY DEF ContextInv, Context, Sound
  <2>2. Len(entered') = Len(entered) + 1 BY <1>1, <1>3, <2>1, PushFacts DEF Enter, Push
  <2>. QED BY <1>2, <1>3, <2>2, DepthAssumption DEF Enter
<1>4. ASSUME entered # <<>>, Pop PROVE Len(entered') <= MaxDepth
  <2>1. Len(Tail(entered)) = Len(entered) - 1 BY <1>1, <1>4
  <2>. QED BY <1>2, <1>4, <2>1, DepthAssumption DEF Pop
<1>5. CASE Leave \/ EndFails BY <1>4, <1>5 DEF Leave, EndFails
<1>6. ASSUME entered' = entered PROVE Len(entered') <= MaxDepth BY <1>6
<1>. QED BY <1>3, <1>5, <1>6 DEF ContextNext, BeginFails, SelectDevice, contextVars

\* The current device is a device, and the current stream of each device is one of its
\* own, whatever managers put back (mlu/__init__.py, mlu/graphs.py).
THEOREM ContextTyping == ContextSpec => []ContextTypeOK
PROOF
<1>1. ContextInit => InDepth BY DepthAssumption DEF ContextInit, InDepth
<1>2. ContextSpec => []InDepth
  BY <1>1, DepthKept, ContextInvHolds, PTL DEF ContextSpec
<1>3. ContextInv /\ InDepth => ContextTypeOK
  <2> SUFFICES ASSUME ContextInv, InDepth PROVE ContextTypeOK OBVIOUS
  <2>1. here.device \in Devices /\ leaked \in BOOLEAN BY DEF ContextInv, Sound, Situation
  <2>2. \A d \in Devices : DeviceOf(here.streams[d]) = d BY DEF ContextInv, Sound, Own
  <2>. QED BY <2>1, <2>2 DEF ContextTypeOK, InDepth
<1>. QED BY <1>2, <1>3, ContextInvHolds, PTL
=============================================================================
