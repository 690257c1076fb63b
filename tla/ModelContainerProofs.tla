----------------------- MODULE ModelContainerProofs -----------------------
(* Proofs about ModelContainer, for every set of threads and models, every  *)
(* program, with and without failures: the pool of models and its lists,    *)
(* and what a call may rely on while it has a model: nobody points the      *)
(* model to other constants, and its earlier work is finished.  The last    *)
(* section is a rollout of new weights while threads run models.            *)
EXTENDS ModelContainer, TLAPS

-----------------------------------------------------------------------------
(* Type correctness, which rests on the labels at which a call has a model. *)

HoldingLabels == {"completing", "check", "runUnique", "folding", "install",
                  "relock", "exec", "push"}
Holding == \A t \in Threads : held[t] # NoModel <=> pc[t] \in HoldingLabels

\* Every way to designate a buffer designates one.
LEMMA BufferTypes == Active \in Buffers /\ Inactive \in Buffers
                     /\ \A t : Target(t) \in Buffers
BY DEF Active, Inactive, Target, Buffers

\* What a model reads is a version or garbage.
LEMMA LoadedType == ASSUME TypeOK, NEW b \in Buffers PROVE Loaded(b) \in Contents
<1>1. array[b] \in Entries
  BY DEF TypeOK
<1>2. array[b].home \in Buffers \cup {NoBuffer}
  BY <1>1 DEF Entries
<1>. QED
  BY <1>2 DEF TypeOK, Loaded, Contents

\* At a label that needs a model the call has one.
LEMMA HeldType == ASSUME TypeOK, Holding, NEW t \in Threads, pc[t] \in HoldingLabels
                  PROVE held[t] \in Models
BY DEF TypeOK, Holding

\* The constructor leaves every variable in its type.
LEMMA InitType == Init => TypeOK
<1>. SUFFICES ASSUME Init PROVE TypeOK
  OBVIOUS
<1>. USE VersionsAssumption, FlagsAssumption
<1>1. map \in [Buffers -> Entries] /\ array \in [Buffers -> Entries]
  BY DEF Init, Entries, Contents, Buffers, Primary
<1>2. state \in [Buffers -> States] /\ blob \in [Buffers -> Contents]
  BY DEF Init, States, Contents, Primary
<1>3. available \subseteq Models /\ pending \subseteq Models /\ executing \subseteq Models
  BY DEF Init
<1>4. useSecondary \in BOOLEAN /\ attached \in [Models -> Buffers]
  <2>1. useSecondary = FALSE /\ attached = [n \in Models |-> Primary]
    BY DEF Init
  <2>. QED
    BY <2>1 DEF Primary, Buffers
<1>5. writer \in Threads \cup {NoThread} /\ readers \subseteq Threads
  BY DEF Init
<1>6. pc \in [Threads -> Labels] /\ next \in [Threads -> Nat \ {0}]
  BY DEF Init, Labels
<1>7. /\ held \in [Threads -> Models \cup {NoModel}]
      /\ ref \in [Threads -> Buffers]
      /\ result \in [Threads -> Contents]
  BY DEF Init, Primary, Buffers, Contents
<1>. QED
  BY <1>1, <1>2, <1>3, <1>4, <1>5, <1>6, <1>7 DEF TypeOK

\* Taking model_exec_mutex_ preserves the types.
LEMMA AcquireType == ASSUME TypeOK, Holding, NEW t \in Threads, Acquire(t) PROVE TypeOK'
<1>. USE BufferTypes DEF TypeOK, constants, pool, lock, locals, Goto, Hold, Advance, Return, Labels
<1>1. CASE LockShared(t)
  BY <1>1 DEF LockShared
<1>2. CASE LockUniqueToFold(t)
  BY <1>2 DEF LockUniqueToFold
<1>3. CASE LockUniqueToRun(t)
  BY <1>3 DEF LockUniqueToRun
<1>4. CASE Swap(t)
  BY <1>4 DEF Swap
<1>. QED
  BY <1>1, <1>2, <1>3, <1>4 DEF Acquire

\* get_available_model preserves the types.
LEMMA GetModelType == ASSUME TypeOK, Holding, NEW t \in Threads, GetModel(t) PROVE TypeOK'
<1>. USE DEF TypeOK, constants, pool, lock, locals, Goto, Hold, Advance, Return,
             Labels, AfterModel
<1>1. CASE TakeAvailable(t)
  BY <1>1 DEF TakeAvailable
<1>2. CASE Reclaim(t)
  BY <1>2 DEF Reclaim
<1>3. CASE AwaitPending(t)
  BY <1>3 DEF AwaitPending
<1>4. CASE Sleep(t)
  BY <1>4 DEF Sleep
<1>5. CASE Completed(t)
  BY <1>5 DEF Completed
<1>6. CASE WaitFails(t)
  BY <1>6, HeldType DEF WaitFails, HoldingLabels, ThrowReturningModel, Unlock
<1>7. CASE QueryFails(t)
  BY <1>7 DEF QueryFails, Unlock
<1>. QED
  BY <1>1, <1>2, <1>3, <1>4, <1>5, <1>6, <1>7 DEF GetModel

\* So do the other steps of run and run_single_threaded,
LEMMA ServeType == ASSUME TypeOK, Holding, NEW t \in Threads, Serve(t) PROVE TypeOK'
<1>. USE BufferTypes DEF TypeOK, constants, pool, lock, locals, Goto, Hold, Advance,
             Return, Labels, Unlock
<1>1. CASE CallRun(t)
  BY <1>1 DEF CallRun, Calls
<1>2. CASE CheckFolded(t)
  BY <1>2 DEF CheckFolded
<1>3. CASE CheckInitialized(t)
  BY <1>3 DEF CheckInitialized
<1>4. CASE CheckThrows(t)
  BY <1>4 DEF CheckThrows
<1>5. CASE Execute(t)
  BY <1>5, HeldType DEF Execute, HoldingLabels
<1>6. CASE ExecuteFails(t)
  BY <1>6, HeldType DEF ExecuteFails, HoldingLabels, ThrowReturningModel
<1>7. CASE Push(t)
  BY <1>7, HeldType DEF Push, HoldingLabels
<1>8. CASE Notify(t)
  BY <1>8 DEF Notify
<1>9. CASE RunSingleFolding(t)
  <2>1. PICK m \in available :
            /\ map' = [map EXCEPT ![Active].folded = Loaded(attached[m])]
            /\ array' = [array EXCEPT ![Active] = map'[Active]]
            /\ executing' = executing \cup {m}
    BY <1>9 DEF RunSingleFolding
  <2>2. m \in Models /\ Loaded(attached[m]) \in Contents
    BY LoadedType
  <2>3. map' \in [Buffers -> Entries] /\ state' \in [Buffers -> States]
    BY <1>9, <2>1, <2>2 DEF RunSingleFolding, Entries, States
  <2>4. array' \in [Buffers -> Entries] /\ executing' \subseteq Models
    BY <2>1, <2>2, <2>3
  <2>. QED
    BY <1>9, <2>3, <2>4 DEF RunSingleFolding
<1>10. CASE RunSingle(t)
  BY <1>10 DEF RunSingle
<1>. QED
  BY <1>1, <1>2, <1>3, <1>4, <1>5, <1>6, <1>7, <1>8, <1>9, <1>10 DEF Serve

\* ... and the operations on the constants.
LEMMA ManageType == ASSUME TypeOK, Holding, NEW t \in Threads, Manage(t) PROVE TypeOK'
<1>. USE BufferTypes DEF TypeOK, constants, pool, lock, locals, Goto, Hold, Advance,
             Return, Labels, Unlock
<1>1. CASE CallFold(t)
  BY <1>1 DEF CallFold, Calls
<1>2. CASE Fold(t)
  <2>1. held[t] \in Models /\ FoldSource(t) \in Buffers
    BY <1>2, HeldType DEF Fold, FoldSource, HoldingLabels
  <2>2. Loaded(FoldSource(t)) \in Contents
    BY <2>1, LoadedType
  <2>. QED
    BY <1>2, <2>1, <2>2 DEF Fold
<1>3. CASE FoldFails(t)
  <2>1. held[t] \in Models /\ FoldSource(t) \in Buffers
    BY <1>3, HeldType DEF FoldFails, FoldSource, HoldingLabels
  <2>. QED
    BY <1>3, <2>1 DEF FoldFails, ThrowReturningModel
<1>4. CASE Install(t)
  <2>1. map' \in [Buffers -> Entries] /\ state' \in [Buffers -> States]
    BY <1>4 DEF Install, Entries, States
  <2>2. array' \in [Buffers -> Entries]
    BY <1>4, <2>1 DEF Install
  <2>. QED
    BY <1>4, <2>1, <2>2 DEF Install
<1>5. CASE CallSwap(t)
  BY <1>5 DEF CallSwap, Calls
<1>6. CASE CallUpdate(t)
  BY <1>6 DEF CallUpdate, States
<1>7. CASE UpdateMap(t)
  BY <1>7 DEF UpdateMap
<1>8. CASE UpdateCopy(t)
  <2>1. map' \in [Buffers -> Entries]
    BY <1>8 DEF UpdateCopy, Entries
  <2>2. blob' \in [Buffers -> Contents]
    BY <1>8 DEF UpdateCopy, Contents
  <2>. QED
    BY <1>8, <2>1, <2>2 DEF UpdateCopy
<1>9. CASE UpdateFails(t)
  BY <1>9 DEF UpdateFails, Contents
<1>10. CASE UpdateArray(t)
  BY <1>10 DEF UpdateArray
<1>11. CASE CallFree(t)
  BY <1>11 DEF CallFree, States, Contents
<1>12. CASE FreeFolded(t)
  <2>1. map' \in [Buffers -> Entries]
    BY <1>12 DEF FreeFolded, Entries, Contents
  <2>. QED
    BY <1>12, <2>1 DEF FreeFolded
<1>. QED
  BY <1>1, <1>2, <1>3, <1>4, <1>5, <1>6, <1>7, <1>8, <1>9, <1>10, <1>11, <1>12 DEF Manage

\* Every step preserves the types, given Holding.
LEMMA NextType == TypeOK /\ Holding /\ [Next]_vars => TypeOK'
<1>. SUFFICES ASSUME TypeOK, Holding, [Next]_vars PROVE TypeOK'
  OBVIOUS
<1>1. ASSUME NEW t \in Threads, Step(t) PROVE TypeOK'
  BY <1>1, AcquireType, GetModelType, ServeType, ManageType DEF Step
<1>2. ASSUME NEW t \in Threads, SpuriousWakeup(t) PROVE TypeOK'
  BY <1>2 DEF SpuriousWakeup, TypeOK, constants, pool, lock, locals, Goto, Labels
<1>3. ASSUME NEW m \in Models, Finish(m) PROVE TypeOK'
  BY <1>3 DEF Finish, TypeOK, constants, lock, locals
<1>4. CASE UNCHANGED vars
  BY <1>4 DEF vars, TypeOK, constants, pool, lock, locals
<1>. QED
  BY <1>1, <1>2, <1>3, <1>4 DEF Next, AllDone

-----------------------------------------------------------------------------
(* Who has a model.  Every step leases one, gives one back, loses one, or   *)
(* leaves the pool as a caller sees it unchanged.                           *)

PoolInv == TypeOK /\ Holding /\ ExclusiveLease

KeepsPool == available' \cup pending' = available \cup pending /\ held' = held
Leases(t) == \E m \in Models : Pool!Lease(t, m)
Loses(t) == Pool!Lose(t) /\ (CheckThrows(t) \/ FoldFails(t))

USE DEF Pool!Lease, Pool!GiveBack, Pool!Lose

\* Taking the exec mutex does not touch the pool.
LEMMA AcquirePool ==
  ASSUME PoolInv, NEW t \in Threads, Acquire(t)
  PROVE  KeepsPool \/ Leases(t) \/ Pool!GiveBack(t) \/ Loses(t)
<1>. USE DEF PoolInv, TypeOK, Holding, HoldingLabels, KeepsPool, pool, constants, lock, locals
<1>1. CASE LockShared(t)
  BY <1>1 DEF LockShared
<1>2. CASE LockUniqueToFold(t)
  BY <1>2 DEF LockUniqueToFold
<1>3. CASE LockUniqueToRun(t)
  BY <1>3 DEF LockUniqueToRun
<1>4. CASE Swap(t)
  BY <1>4 DEF Swap
<1>. QED
  BY <1>1, <1>2, <1>3, <1>4 DEF Acquire

\* Each step of get_available_model leases one model or none.
LEMMA GetModelPool ==
  ASSUME PoolInv, NEW t \in Threads, GetModel(t)
  PROVE  KeepsPool \/ Leases(t) \/ Pool!GiveBack(t) \/ Loses(t)
<1>. USE DEF PoolInv, TypeOK, Holding, HoldingLabels, KeepsPool, pool, constants, lock, locals
<1>1. CASE TakeAvailable(t)
  <2>1. PICK m \in available : available' = available \ {m} /\ Hold(t, m)
    BY <1>1 DEF TakeAvailable
  <2>2. pending' = pending /\ m \in Models /\ held[t] = NoModel
    BY <1>1 DEF TakeAvailable
  <2>3. (available \cup pending)' = (available \cup pending) \ {m}
    BY <2>1, <2>2 DEF ExclusiveLease
  <2>. QED
    BY <2>1, <2>2, <2>3 DEF Leases, Hold
<1>2. CASE Reclaim(t)
  <2>. DEFINE finished == pending \ executing
  <2>1. PICK m \in finished : /\ available' = finished \ {m}
                              /\ pending' = pending \ finished
                              /\ Hold(t, m)
    BY <1>2 DEF Reclaim
  <2>2. available = {} /\ m \in Models /\ held[t] = NoModel
    BY <1>2 DEF Reclaim
  <2>3. (available \cup pending)' = (available \cup pending) \ {m}
    BY <2>1, <2>2
  <2>. QED
    BY <2>1, <2>2, <2>3 DEF Leases, Hold
<1>3. CASE AwaitPending(t)
  <2>1. PICK m \in pending : pending' = pending \ {m} /\ Hold(t, m)
    BY <1>3 DEF AwaitPending
  <2>2. available' = available /\ m \in Models /\ held[t] = NoModel
    BY <1>3 DEF AwaitPending
  <2>3. (available \cup pending)' = (available \cup pending) \ {m}
    BY <2>1, <2>2 DEF ExclusiveLease
  <2>. QED
    BY <2>1, <2>2, <2>3 DEF Leases, Hold
<1>4. CASE Sleep(t)
  BY <1>4 DEF Sleep
<1>5. CASE Completed(t)
  BY <1>5 DEF Completed
<1>6. CASE WaitFails(t)
  BY <1>6 DEF WaitFails, ThrowReturningModel, Hold
<1>7. CASE QueryFails(t)
  BY <1>7 DEF QueryFails, Unlock
<1>. QED
  BY <1>1, <1>2, <1>3, <1>4, <1>5, <1>6, <1>7 DEF GetModel

\* Each step of run gives its model back, loses it or leaves the pool alone.
LEMMA ServePool ==
  ASSUME PoolInv, NEW t \in Threads, Serve(t)
  PROVE  KeepsPool \/ Leases(t) \/ Pool!GiveBack(t) \/ Loses(t)
<1>. USE DEF PoolInv, TypeOK, Holding, HoldingLabels, KeepsPool, pool, constants, lock, locals
<1>1. CASE CallRun(t)
  BY <1>1 DEF CallRun, Calls
<1>2. CASE CheckFolded(t)
  BY <1>2 DEF CheckFolded
<1>3. CASE CheckInitialized(t)
  BY <1>3 DEF CheckInitialized
<1>4. CASE CheckThrows(t)
  BY <1>4 DEF CheckThrows, Hold, Loses
<1>5. CASE Execute(t)
  BY <1>5 DEF Execute
<1>6. CASE ExecuteFails(t)
  BY <1>6 DEF ExecuteFails, ThrowReturningModel, Hold
<1>7. CASE Push(t)
  BY <1>7 DEF Push, ThrowReturningModel, Hold
<1>8. CASE Notify(t)
  BY <1>8 DEF Notify
<1>9. CASE RunSingleFolding(t)
  BY <1>9 DEF RunSingleFolding
<1>10. CASE RunSingle(t)
  BY <1>10 DEF RunSingle
<1>. QED
  BY <1>1, <1>2, <1>3, <1>4, <1>5, <1>6, <1>7, <1>8, <1>9, <1>10 DEF Serve

\* So does each step of a fold; the other operations leave the pool alone.
LEMMA ManagePool ==
  ASSUME PoolInv, NEW t \in Threads, Manage(t)
  PROVE  KeepsPool \/ Leases(t) \/ Pool!GiveBack(t) \/ Loses(t)
<1>. USE DEF PoolInv, TypeOK, Holding, HoldingLabels, KeepsPool, pool, constants, lock, locals
<1>1. CASE CallFold(t)
  BY <1>1 DEF CallFold, Calls
<1>2. CASE Fold(t)
  BY <1>2 DEF Fold
<1>3. CASE FoldFails(t)
  BY <1>3 DEF FoldFails, ThrowReturningModel, Hold, Loses
<1>4. CASE Install(t)
  BY <1>4 DEF Install
<1>5. CASE CallSwap(t)
  BY <1>5 DEF CallSwap, Calls
<1>6. CASE CallUpdate(t)
  BY <1>6 DEF CallUpdate, Calls
<1>7. CASE UpdateMap(t)
  BY <1>7 DEF UpdateMap
<1>8. CASE UpdateCopy(t)
  BY <1>8 DEF UpdateCopy
<1>9. CASE UpdateFails(t)
  BY <1>9 DEF UpdateFails
<1>10. CASE UpdateArray(t)
  BY <1>10 DEF UpdateArray
<1>11. CASE CallFree(t)
  BY <1>11 DEF CallFree, Calls
<1>12. CASE FreeFolded(t)
  BY <1>12 DEF FreeFolded
<1>. QED
  BY <1>1, <1>2, <1>3, <1>4, <1>5, <1>6, <1>7, <1>8, <1>9, <1>10, <1>11, <1>12 DEF Manage

-----------------------------------------------------------------------------
(* The inductive invariant: the two lists stay disjoint, and a call has a   *)
(* model exactly between get_available_model and the push_back.             *)

Disjoint == available \cap pending = {}

\* The labels at which a call has a model: one lemma for each group of steps.
LEMMA AcquireHolding ==
  ASSUME PoolInv, NEW t \in Threads, Acquire(t)
  PROVE  Holding' /\ Disjoint'
<1>. USE ModelsAssumption DEF PoolInv, TypeOK, Holding, HoldingLabels, Disjoint, ExclusiveLease,
             pool, constants, lock, locals, Goto, Hold, Return, Labels
<1>1. CASE LockShared(t)
  BY <1>1 DEF LockShared
<1>2. CASE LockUniqueToFold(t)
  BY <1>2 DEF LockUniqueToFold
<1>3. CASE LockUniqueToRun(t)
  BY <1>3 DEF LockUniqueToRun
<1>4. CASE Swap(t)
  BY <1>4 DEF Swap
<1>. QED
  BY <1>1, <1>2, <1>3, <1>4 DEF Acquire

\* The same for get_available_model.
LEMMA GetModelHolding ==
  ASSUME PoolInv, NEW t \in Threads, GetModel(t)
  PROVE  Holding' /\ Disjoint'
<1>. USE ModelsAssumption DEF PoolInv, TypeOK, Holding, HoldingLabels, Disjoint, ExclusiveLease,
             pool, constants, lock, locals, Goto, Hold, Return, Labels
<1>1. CASE TakeAvailable(t)
  BY <1>1 DEF TakeAvailable, AfterModel
<1>2. CASE Reclaim(t)
  BY <1>2 DEF Reclaim, AfterModel
<1>3. CASE AwaitPending(t)
  BY <1>3 DEF AwaitPending
<1>4. CASE Sleep(t)
  BY <1>4 DEF Sleep
<1>5. CASE Completed(t)
  BY <1>5 DEF Completed, AfterModel
<1>6. CASE WaitFails(t)
  BY <1>6 DEF WaitFails, ThrowReturningModel
<1>7. CASE QueryFails(t)
  BY <1>7 DEF QueryFails, Unlock
<1>. QED
  BY <1>1, <1>2, <1>3, <1>4, <1>5, <1>6, <1>7 DEF GetModel

\* The same for run.
LEMMA ServeHolding ==
  ASSUME PoolInv, NEW t \in Threads, Serve(t)
  PROVE  Holding' /\ Disjoint'
<1>. USE ModelsAssumption DEF PoolInv, TypeOK, Holding, HoldingLabels, Disjoint, ExclusiveLease,
             pool, constants, lock, locals, Goto, Hold, Return, Labels
<1>1. CASE CallRun(t)
  BY <1>1 DEF CallRun, Calls
<1>2. CASE CheckFolded(t)
  BY <1>2 DEF CheckFolded
<1>3. CASE CheckInitialized(t)
  BY <1>3 DEF CheckInitialized
<1>4. CASE CheckThrows(t)
  BY <1>4 DEF CheckThrows
<1>5. CASE Execute(t)
  BY <1>5 DEF Execute
<1>6. CASE ExecuteFails(t)
  BY <1>6 DEF ExecuteFails, ThrowReturningModel
<1>7. CASE Push(t)
  BY <1>7 DEF Push
<1>8. CASE Notify(t)
  BY <1>8 DEF Notify
<1>9. CASE RunSingleFolding(t)
  BY <1>9 DEF RunSingleFolding
<1>10. CASE RunSingle(t)
  BY <1>10 DEF RunSingle
<1>. QED
  BY <1>1, <1>2, <1>3, <1>4, <1>5, <1>6, <1>7, <1>8, <1>9, <1>10 DEF Serve

\* The same for the operations on the constants.
LEMMA ManageHolding ==
  ASSUME PoolInv, NEW t \in Threads, Manage(t)
  PROVE  Holding' /\ Disjoint'
<1>. USE ModelsAssumption DEF PoolInv, TypeOK, Holding, HoldingLabels, Disjoint, ExclusiveLease,
             pool, constants, lock, locals, Goto, Hold, Return, Labels
<1>1. CASE CallFold(t)
  BY <1>1 DEF CallFold, Calls
<1>2. CASE Fold(t)
  BY <1>2 DEF Fold
<1>3. CASE FoldFails(t)
  BY <1>3 DEF FoldFails, ThrowReturningModel
<1>4. CASE Install(t)
  BY <1>4 DEF Install
<1>5. CASE CallSwap(t)
  BY <1>5 DEF CallSwap, Calls
<1>6. CASE CallUpdate(t)
  BY <1>6 DEF CallUpdate, Calls
<1>7. CASE UpdateMap(t)
  BY <1>7 DEF UpdateMap
<1>8. CASE UpdateCopy(t)
  BY <1>8 DEF UpdateCopy
<1>9. CASE UpdateFails(t)
  BY <1>9 DEF UpdateFails
<1>10. CASE UpdateArray(t)
  BY <1>10 DEF UpdateArray
<1>11. CASE CallFree(t)
  BY <1>11 DEF CallFree, Calls
<1>12. CASE FreeFolded(t)
  BY <1>12 DEF FreeFolded
<1>. QED
  BY <1>1, <1>2, <1>3, <1>4, <1>5, <1>6, <1>7, <1>8, <1>9, <1>10, <1>11, <1>12 DEF Manage

\* A step of the abstract pool preserves the exclusion of the leases.
LEMMA LeasesStayExclusive ==
  ASSUME PoolInv, Disjoint', NEW t \in Threads,
         KeepsPool \/ Leases(t) \/ Pool!GiveBack(t) \/ Loses(t)
  PROVE  ExclusiveLease'
<1>. USE ModelsAssumption DEF PoolInv, TypeOK, Disjoint, ExclusiveLease
<1>1. CASE KeepsPool
  BY <1>1 DEF KeepsPool
<1>2. CASE Leases(t)
  BY <1>2 DEF Leases
<1>3. CASE Pool!GiveBack(t)
  BY <1>3
<1>4. CASE Loses(t)
  BY <1>4 DEF Loses
<1>. QED
  BY <1>1, <1>2, <1>3, <1>4

\* Hence every step of a thread maps to a step of the abstract pool or a stutter.
LEMMA StepPool ==
  ASSUME PoolInv, NEW t \in Threads, Step(t)
  PROVE  /\ KeepsPool \/ Leases(t) \/ Pool!GiveBack(t) \/ Loses(t)
         /\ Holding' /\ Disjoint'
BY AcquirePool, GetModelPool, ServePool, ManagePool,
   AcquireHolding, GetModelHolding, ServeHolding, ManageHolding DEF Step

\* Steps of the device, of the condition variable, and stuttering.
LEMMA OtherStepPool ==
  ASSUME PoolInv,
         \/ \E t \in Threads : SpuriousWakeup(t)
         \/ \E m \in Models : Finish(m)
         \/ UNCHANGED vars
  PROVE  KeepsPool /\ Holding' /\ ExclusiveLease'
<1>. USE DEF PoolInv, KeepsPool, ExclusiveLease
<1>1. CASE \E t \in Threads : SpuriousWakeup(t)
  BY <1>1 DEF SpuriousWakeup, Goto, pool, locals, TypeOK, Holding, HoldingLabels
<1>2. CASE \E m \in Models : Finish(m)
  BY <1>2 DEF Finish, locals, Holding
<1>3. CASE UNCHANGED vars
  BY <1>3 DEF vars, pool, locals, Holding
<1>. QED
  BY <1>1, <1>2, <1>3

\* The constructor establishes the invariant of the pool.
LEMMA InitPool == Init => PoolInv
<1>. SUFFICES ASSUME Init PROVE PoolInv
  OBVIOUS
<1>1. Holding
  BY DEF Init, Holding, HoldingLabels
<1>2. ExclusiveLease
  BY ModelsAssumption DEF Init, ExclusiveLease
<1>. QED
  BY <1>1, <1>2, InitType DEF PoolInv

\* Every step preserves the invariant of the pool.
LEMMA NextPool == PoolInv /\ [Next]_vars => PoolInv'
<1>. SUFFICES ASSUME PoolInv, [Next]_vars PROVE PoolInv'
  OBVIOUS
<1>1. TypeOK'
  BY NextType DEF PoolInv
<1>2. ASSUME NEW t \in Threads, Step(t) PROVE Holding' /\ ExclusiveLease'
  BY <1>2, StepPool, LeasesStayExclusive
<1>. QED
  BY <1>1, <1>2, OtherStepPool DEF PoolInv, Next, AllDone

\* Whatever the threads call and whatever fails, every variable keeps its
\* type; in particular a call that uses its local variable model has one.
THEOREM TypeCorrect == Spec => []TypeOK
<1>. QED
  BY InitPool, NextPool, PTL DEF Spec, PoolInv

\* No model is ever in two places: two calls never share one, and a model in
\* use is never offered to another call (get_available_model,
\* reclaim_finished_models and every push_back).
THEOREM LeasesAreExclusive == Spec => []ExclusiveLease
<1>. QED
  BY InitPool, NextPool, PTL DEF Spec, PoolInv

\* The container implements the abstract pool of models.
THEOREM ContainerImplementsPool == Spec => ImplementsPool
<1>1. Init => Pool!Init
  BY DEF Init, Pool!Init
<1>2. PoolInv /\ [Next]_vars => [Pool!Next]_(Pool!vars)
  <2>. SUFFICES ASSUME PoolInv, [Next]_vars PROVE Pool!Next \/ UNCHANGED Pool!vars
    OBVIOUS
  <2>1. ASSUME NEW t \in Threads, Step(t) PROVE Pool!Next \/ UNCHANGED Pool!vars
    BY <2>1, StepPool DEF Leases, Loses, KeepsPool, Pool!Next, Pool!vars
  <2>. QED
    BY <2>1, OtherStepPool DEF Next, AllDone, KeepsPool, Pool!vars
<1>. QED
  BY <1>1, <1>2, InitPool, NextPool, PTL DEF Spec, Pool!Spec, ImplementsPool

-----------------------------------------------------------------------------
(* Threads that only call run, on any number of models.                    *)

RunsOnly == \A t \in Threads : \A i \in 1..Len(Program[t]) : Program[t][i] = "run"

RunLabels == {"idle", "wantShared", "wantModel", "asleep", "woken", "completing",
              "check", "runUnique", "folding", "install", "relock", "exec",
              "push", "notify"}

\* The primary buffer stays active and loaded; its state says truly whether
\* its constants are folded.
PrimaryServes ==
    /\ useSecondary = FALSE
    /\ \A m \in Models : attached[m] = Primary
    /\ blob[Primary] = FirstVersion
    /\ map[Primary].home = Primary /\ array[Primary].home = Primary
    /\ \/ state[Primary] = "FOLDED" /\ array[Primary].folded = FirstVersion
       \/ state[Primary] = "INITIALIZED" /\ array[Primary].folded = Garbage

\* Where a call of run is tells what it may rely on; only the holder of the
\* unique lock folds.
RunFacts(t) ==
    /\ pc[t] \in RunLabels
    /\ pc[t] # "idle" => Op(t) = "run"
    /\ pc[t] \in {"runUnique", "folding", "install"} => ref[t] = Primary
    /\ pc[t] \in {"folding", "install"} =>
           writer = t /\ state[Primary] = "INITIALIZED"
    /\ pc[t] = "install" => result[t] = FirstVersion
    /\ pc[t] \in {"relock", "exec"} => state[Primary] = "FOLDED"

ServeInv == PoolInv /\ PrimaryServes /\ \A t \in Threads : RunFacts(t)

\* With clients that only call run, no step of another operation is enabled.
LEMMA OnlyRunIsCalled ==
  ASSUME RunsOnly, TypeOK, NEW t \in Threads, NEW op, Calls(t, op)
  PROVE  op = "run"
<1>1. next[t] \in 1..Len(Program[t])
  <2>1. Len(Program[t]) \in Nat
    BY ProgramAssumption
  <2>. QED
    BY <2>1 DEF Calls, TypeOK
<1>. QED
  BY <1>1 DEF RunsOnly, Calls, Op

\* Taking the exec mutex preserves the invariant of run.
LEMMA AcquireServes ==
  ASSUME RunsOnly, ServeInv, NEW t \in Threads, Acquire(t)
  PROVE  PrimaryServes' /\ \A u \in Threads : RunFacts(u)'
<1>. USE OnlyRunIsCalled, ThreadsAssumption, VersionsAssumption
       DEF ServeInv, PoolInv, TypeOK, PrimaryServes, RunFacts, RunLabels, Primary, Active,
           constants, pool, lock, locals, Goto, Return, Advance, Op, Unlock, UniqueFree
<1>1. CASE LockShared(t)
  BY <1>1 DEF LockShared
<1>2. CASE LockUniqueToFold(t)
  BY <1>2 DEF LockUniqueToFold
<1>3. CASE LockUniqueToRun(t)
  BY <1>3 DEF LockUniqueToRun
<1>4. CASE Swap(t)
  BY <1>4 DEF Swap
<1>. QED
  BY <1>1, <1>2, <1>3, <1>4 DEF Acquire

\* get_available_model preserves the invariant of run.
LEMMA GetModelServes ==
  ASSUME RunsOnly, ServeInv, NEW t \in Threads, GetModel(t)
  PROVE  PrimaryServes' /\ \A u \in Threads : RunFacts(u)'
<1>. USE OnlyRunIsCalled, ThreadsAssumption, VersionsAssumption
       DEF ServeInv, PoolInv, TypeOK, PrimaryServes, RunFacts, RunLabels, Primary, Active,
           constants, pool, lock, locals, Goto, Return, Advance, Op, Unlock, UniqueFree
<1>1. CASE TakeAvailable(t)
  BY <1>1 DEF TakeAvailable, AfterModel
<1>2. CASE Reclaim(t)
  BY <1>2 DEF Reclaim, AfterModel
<1>3. CASE AwaitPending(t)
  BY <1>3 DEF AwaitPending
<1>4. CASE Sleep(t)
  BY <1>4 DEF Sleep
<1>5. CASE Completed(t)
  BY <1>5 DEF Completed, AfterModel
<1>6. CASE WaitFails(t)
  BY <1>6 DEF WaitFails, ThrowReturningModel
<1>7. CASE QueryFails(t)
  BY <1>7 DEF QueryFails, Unlock
<1>. QED
  BY <1>1, <1>2, <1>3, <1>4, <1>5, <1>6, <1>7 DEF GetModel

\* The steps of run preserve it, the check of the state included.
LEMMA ServeServes ==
  ASSUME RunsOnly, ServeInv, NEW t \in Threads, Serve(t)
  PROVE  PrimaryServes' /\ \A u \in Threads : RunFacts(u)'
<1>. USE OnlyRunIsCalled, ThreadsAssumption, VersionsAssumption
       DEF ServeInv, PoolInv, TypeOK, PrimaryServes, RunFacts, RunLabels, Primary, Active,
           constants, pool, lock, locals, Goto, Return, Advance, Op, Unlock, UniqueFree
<1>1. CASE CallRun(t)
  BY <1>1 DEF CallRun, Calls
<1>2. CASE CheckFolded(t)
  BY <1>2 DEF CheckFolded
<1>3. CASE CheckInitialized(t)
  BY <1>3 DEF CheckInitialized
<1>4. CASE CheckThrows(t)
  BY <1>4 DEF CheckThrows
<1>5. CASE Execute(t)
  BY <1>5 DEF Execute
<1>6. CASE ExecuteFails(t)
  BY <1>6 DEF ExecuteFails, ThrowReturningModel
<1>7. CASE Push(t)
  BY <1>7 DEF Push
<1>8. CASE Notify(t)
  BY <1>8 DEF Notify
<1>9. CASE RunSingleFolding(t)
  BY <1>9 DEF RunSingleFolding
<1>10. CASE RunSingle(t)
  BY <1>10 DEF RunSingle
<1>. QED
  BY <1>1, <1>2, <1>3, <1>4, <1>5, <1>6, <1>7, <1>8, <1>9, <1>10 DEF Serve

\* The fold of run preserves it: this is where the constants become ready.
LEMMA ManageServes ==
  ASSUME RunsOnly, ServeInv, NEW t \in Threads, Manage(t)
  PROVE  PrimaryServes' /\ \A u \in Threads : RunFacts(u)'
<1>. USE OnlyRunIsCalled, ThreadsAssumption, VersionsAssumption
       DEF ServeInv, PoolInv, TypeOK, PrimaryServes, RunFacts, RunLabels, Primary, Active,
           constants, pool, lock, locals, Goto, Return, Advance, Op, Unlock, UniqueFree
<1>1. CASE CallFold(t)
  BY <1>1 DEF CallFold
<1>2. CASE Fold(t)
  <2>1. held[t] \in Models /\ Op(t) = "run"
    BY <1>2, HeldType DEF Fold, HoldingLabels
  <2>2. FoldSource(t) = Primary
    BY <2>1 DEF FoldSource
  <2>3. Loaded(FoldSource(t)) = FirstVersion
    BY <2>2 DEF Loaded, NoBuffer
  <2>. QED
    BY <1>2, <2>2, <2>3 DEF Fold
<1>3. CASE FoldFails(t)
  BY <1>3 DEF FoldFails, ThrowReturningModel, FoldSource, Loaded, NoBuffer, Buffers
<1>4. CASE Install(t)
  BY <1>4 DEF Install, Target, Buffers
<1>5. CASE CallSwap(t)
  BY <1>5 DEF CallSwap
<1>6. CASE CallUpdate(t)
  BY <1>6 DEF CallUpdate
<1>7. CASE UpdateMap(t)
  BY <1>7 DEF UpdateMap
<1>8. CASE UpdateCopy(t)
  BY <1>8 DEF UpdateCopy
<1>9. CASE UpdateFails(t)
  BY <1>9 DEF UpdateFails
<1>10. CASE UpdateArray(t)
  BY <1>10 DEF UpdateArray
<1>11. CASE CallFree(t)
  BY <1>11 DEF CallFree
<1>12. CASE FreeFolded(t)
  BY <1>12 DEF FreeFolded
<1>. QED
  BY <1>1, <1>2, <1>3, <1>4, <1>5, <1>6, <1>7, <1>8, <1>9, <1>10, <1>11, <1>12 DEF Manage

\* Every step preserves the invariant of run.
LEMMA NextServes ==
  ASSUME RunsOnly PROVE ServeInv /\ [Next]_vars => ServeInv'
<1>. SUFFICES ASSUME ServeInv, [Next]_vars PROVE ServeInv'
  OBVIOUS
<1>1. PoolInv'
  BY NextPool DEF ServeInv
<1>2. ASSUME NEW t \in Threads, Step(t)
      PROVE  PrimaryServes' /\ \A u \in Threads : RunFacts(u)'
  BY <1>2, AcquireServes, GetModelServes, ServeServes, ManageServes DEF Step
<1>. USE DEF ServeInv, PrimaryServes, RunFacts, RunLabels, Op
<1>3. ASSUME NEW t \in Threads, SpuriousWakeup(t)
      PROVE  PrimaryServes' /\ \A u \in Threads : RunFacts(u)'
  BY <1>3 DEF SpuriousWakeup, Goto, constants, lock, locals, PoolInv, TypeOK
<1>4. ASSUME NEW m \in Models, Finish(m)
      PROVE  PrimaryServes' /\ \A u \in Threads : RunFacts(u)'
  BY <1>4 DEF Finish, constants, lock, locals
<1>5. CASE UNCHANGED vars
  BY <1>1, <1>5 DEF vars, constants, lock, locals
<1>. QED
  BY <1>1, <1>2, <1>3, <1>4, <1>5 DEF Next, AllDone

\* The constructor establishes the invariant of run, cold or warm.
LEMMA InitServes == Init => ServeInv
<1>. SUFFICES ASSUME Init PROVE ServeInv
  OBVIOUS
<1>1. PrimaryServes
  BY VersionsAssumption DEF Init, PrimaryServes, Primary, Buffers
<1>2. \A t \in Threads : RunFacts(t)
  BY DEF Init, RunFacts, RunLabels
<1>. QED
  BY <1>1, <1>2, InitPool DEF ServeInv

\* Threads that only run models launch them on loaded and folded constants,
\* however many they are, however many models there are, and whatever fails
\* (the double-checked fold of run).
THEOREM RunsAreReady == ASSUME RunsOnly PROVE Spec => []ReadyForAll
<1>1. ServeInv => ReadyForAll
  <2>. SUFFICES ASSUME ServeInv, NEW t \in Threads, pc[t] = "exec"
                PROVE  Ready(attached[held[t]])
    BY DEF ReadyForAll
  <2>1. held[t] \in Models
    BY HeldType DEF HoldingLabels, ServeInv, PoolInv
  <2>2. attached[held[t]] = Primary
    BY <2>1 DEF ServeInv, PrimaryServes
  <2>. QED
    BY <2>2, VersionsAssumption
       DEF ServeInv, PrimaryServes, RunFacts, Ready, Loaded, NoBuffer, Primary
<1>. QED
  BY <1>1, InitServes, NextServes, PTL DEF Spec

\* Such threads fold the constants at most once ("make sure constant folding
\* is only ran once", run).
THEOREM RunsFoldOnce == ASSUME RunsOnly PROVE Spec => []FoldedOnce
<1>1. ServeInv => FoldedOnce
  BY VersionsAssumption
     DEF ServeInv, PrimaryServes, RunFacts, FoldedOnce, Ready, Loaded, NoBuffer,
         Primary, Active
<1>. QED
  BY <1>1, InitServes, NextServes, PTL DEF Spec

\* A step that loses no model keeps the pool complete.
LEMMA StepKeepsModels ==
  ASSUME PoolInv, NoLostModel, NEW t \in Threads, Step(t), ~CheckThrows(t), ~FoldFails(t)
  PROVE  NoLostModel'
<1>. USE DEF NoLostModel, Leased, PoolInv, TypeOK
<1>1. CASE KeepsPool
  BY <1>1 DEF KeepsPool
<1>2. CASE Leases(t)
  <2>1. PICK m \in Models : Pool!Lease(t, m)
    BY <1>2 DEF Leases
  <2>2. m \in Leased'
    BY <2>1, ModelsAssumption
  <2>3. \A n \in Models : n \in Leased => n \in Leased'
    BY <2>1
  <2>. QED
    BY <2>1, <2>2, <2>3
<1>3. CASE Pool!GiveBack(t)
  BY <1>3
<1>. QED
  BY <1>1, <1>2, <1>3, StepPool DEF Loses

\* Such threads lose no model unless a device call fails: the pool keeps its
\* size for ever.
THEOREM RunsLoseNoModel == ASSUME RunsOnly, ~MayFail PROVE Spec => []NoLostModel
<1>1. Init => NoLostModel
  BY DEF Init, NoLostModel, Leased
<1>2. ServeInv /\ NoLostModel /\ [Next]_vars => NoLostModel'
  <2>. SUFFICES ASSUME ServeInv, NoLostModel, [Next]_vars PROVE NoLostModel'
    OBVIOUS
  <2>1. ASSUME NEW t \in Threads, Step(t) PROVE NoLostModel'
    <3>1. ~CheckThrows(t) /\ ~FoldFails(t)
      BY DEF CheckThrows, FoldFails, ServeInv, PrimaryServes, Active, Primary
    <3>. QED
      BY <2>1, <3>1, StepKeepsModels DEF ServeInv
  <2>. QED
    BY <2>1, OtherStepPool DEF Next, AllDone, KeepsPool, NoLostModel, Leased, ServeInv
<1>. QED
  BY <1>1, <1>2, InitServes, NextServes, PTL DEF Spec

-----------------------------------------------------------------------------
(* model_exec_mutex_ and the call that holds it.                            *)

\* Labels at which a call holds the exec mutex, in one mode or the other.
LockedLabels == {"wantModel", "asleep", "woken", "completing", "check", "folding", "install", "exec"}
Locked == \A t \in Threads : pc[t] \in LockedLabels => t \in readers \/ writer = t

\* Only run looks at the state of the constants, and only run launches.
RunsCheck ==
    \A t \in Threads : pc[t] \in {"check", "runUnique", "relock", "exec"} => Op(t) = "run"

UseInv == PoolInv /\ Locked /\ RunsCheck

\* Taking model_exec_mutex_ keeps the two facts.
LEMMA AcquireLocks ==
  ASSUME UseInv, NEW t \in Threads, Acquire(t)
  PROVE  Locked' /\ RunsCheck'
<1>. USE ThreadsAssumption
       DEF UseInv, PoolInv, TypeOK, Locked, RunsCheck, LockedLabels, Op, Goto, Return, Advance,
           Unlock, UniqueFree, constants, pool, lock, locals, Labels
<1>1. CASE LockShared(t)
  BY <1>1 DEF LockShared
<1>2. CASE LockUniqueToFold(t)
  BY <1>2 DEF LockUniqueToFold
<1>3. CASE LockUniqueToRun(t)
  BY <1>3 DEF LockUniqueToRun
<1>4. CASE Swap(t)
  BY <1>4 DEF Swap
<1>. QED
  BY <1>1, <1>2, <1>3, <1>4 DEF Acquire

\* So does get_available_model,
LEMMA GetModelLocks ==
  ASSUME UseInv, NEW t \in Threads, GetModel(t)
  PROVE  Locked' /\ RunsCheck'
<1>. USE ThreadsAssumption
       DEF UseInv, PoolInv, TypeOK, Locked, RunsCheck, LockedLabels, Op, Goto, Return, Advance,
           Unlock, UniqueFree, constants, pool, lock, locals, Labels
<1>1. CASE TakeAvailable(t)
  BY <1>1 DEF TakeAvailable, AfterModel
<1>2. CASE Reclaim(t)
  BY <1>2 DEF Reclaim, AfterModel
<1>3. CASE AwaitPending(t)
  BY <1>3 DEF AwaitPending
<1>4. CASE Sleep(t)
  BY <1>4 DEF Sleep
<1>5. CASE Completed(t)
  BY <1>5 DEF Completed, AfterModel
<1>6. CASE WaitFails(t)
  BY <1>6 DEF WaitFails, ThrowReturningModel
<1>7. CASE QueryFails(t)
  BY <1>7 DEF QueryFails
<1>. QED
  BY <1>1, <1>2, <1>3, <1>4, <1>5, <1>6, <1>7 DEF GetModel

\* ... run and run_single_threaded,
LEMMA ServeLocks ==
  ASSUME UseInv, NEW t \in Threads, Serve(t)
  PROVE  Locked' /\ RunsCheck'
<1>. USE ThreadsAssumption
       DEF UseInv, PoolInv, TypeOK, Locked, RunsCheck, LockedLabels, Op, Goto, Return, Advance,
           Unlock, UniqueFree, constants, pool, lock, locals, Labels
<1>1. CASE CallRun(t)
  BY <1>1 DEF CallRun, Calls
<1>2. CASE CheckFolded(t)
  BY <1>2 DEF CheckFolded
<1>3. CASE CheckInitialized(t)
  BY <1>3 DEF CheckInitialized
<1>4. CASE CheckThrows(t)
  BY <1>4 DEF CheckThrows
<1>5. CASE Execute(t)
  BY <1>5 DEF Execute
<1>6. CASE ExecuteFails(t)
  BY <1>6 DEF ExecuteFails, ThrowReturningModel
<1>7. CASE Push(t)
  BY <1>7 DEF Push
<1>8. CASE Notify(t)
  BY <1>8 DEF Notify
<1>9. CASE RunSingleFolding(t)
  BY <1>9 DEF RunSingleFolding, Calls
<1>10. CASE RunSingle(t)
  BY <1>10 DEF RunSingle, Calls
<1>. QED
  BY <1>1, <1>2, <1>3, <1>4, <1>5, <1>6, <1>7, <1>8, <1>9, <1>10 DEF Serve

\* ... and the operations on the constants.
LEMMA ManageLocks ==
  ASSUME UseInv, NEW t \in Threads, Manage(t)
  PROVE  Locked' /\ RunsCheck'
<1>. USE ThreadsAssumption
       DEF UseInv, PoolInv, TypeOK, Locked, RunsCheck, LockedLabels, Op, Goto, Return, Advance,
           Unlock, UniqueFree, constants, pool, lock, locals, Labels
<1>1. CASE CallFold(t)
  BY <1>1 DEF CallFold, Calls
<1>2. CASE Fold(t)
  BY <1>2 DEF Fold, FoldSource
<1>3. CASE FoldFails(t)
  BY <1>3 DEF FoldFails, ThrowReturningModel, FoldSource
<1>4. CASE Install(t)
  BY <1>4 DEF Install, FoldSource
<1>5. CASE CallSwap(t)
  BY <1>5 DEF CallSwap, Calls
<1>6. CASE CallUpdate(t)
  BY <1>6 DEF CallUpdate, Calls
<1>7. CASE UpdateMap(t)
  BY <1>7 DEF UpdateMap
<1>8. CASE UpdateCopy(t)
  BY <1>8 DEF UpdateCopy
<1>9. CASE UpdateFails(t)
  BY <1>9 DEF UpdateFails
<1>10. CASE UpdateArray(t)
  BY <1>10 DEF UpdateArray
<1>11. CASE CallFree(t)
  BY <1>11 DEF CallFree, Calls
<1>12. CASE FreeFolded(t)
  BY <1>12 DEF FreeFolded
<1>. QED
  BY <1>1, <1>2, <1>3, <1>4, <1>5, <1>6, <1>7, <1>8, <1>9, <1>10, <1>11, <1>12 DEF Manage

\* Every step preserves both, and the constructor establishes them.
LEMMA NextUse == UseInv /\ [Next]_vars => UseInv'
<1>. SUFFICES ASSUME UseInv, [Next]_vars PROVE UseInv'
  OBVIOUS
<1>1. PoolInv'
  BY NextPool DEF UseInv
<1>2. ASSUME NEW t \in Threads, Step(t) PROVE Locked' /\ RunsCheck'
  BY <1>2, AcquireLocks, GetModelLocks, ServeLocks, ManageLocks DEF Step
<1>. USE DEF UseInv, Locked, RunsCheck, LockedLabels, Op
<1>3. ASSUME NEW t \in Threads, SpuriousWakeup(t) PROVE Locked' /\ RunsCheck'
  BY <1>3 DEF SpuriousWakeup, Goto, lock, PoolInv, TypeOK
<1>4. ASSUME NEW m \in Models, Finish(m) PROVE Locked' /\ RunsCheck'
  BY <1>4 DEF Finish, lock
<1>5. CASE UNCHANGED vars
  BY <1>1, <1>5 DEF vars, lock
<1>. QED
  BY <1>1, <1>2, <1>3, <1>4, <1>5 DEF Next, AllDone

LEMMA InitUse == Init => UseInv
BY InitPool DEF Init, UseInv, Locked, RunsCheck, LockedLabels

THEOREM UseInvHolds == Spec => []UseInv
<1>. QED
  BY InitUse, NextUse, PTL DEF Spec

-----------------------------------------------------------------------------
(* Which steps point a model to other constants, and what a step leaves to  *)
(* the other threads.                                                       *)

Moves(u) ==
    /\ attached' = attached \/ Swap(u) \/ Fold(u) \/ FoldFails(u) \/ Install(u)
    /\ useSecondary' = useSecondary \/ Swap(u)
    /\ \A t \in Threads \ {u} :
          /\ held'[t] = held[t] /\ next'[t] = next[t]
          /\ pc'[t] = pc[t] \/ pc[t] = "asleep"
    /\ pc'[u] = pc[u] => pc[u] = "idle"
    /\ pc[u] = "install" => Install(u)

\* Taking model_exec_mutex_ moves nothing else.
LEMMA AcquireMoves ==
  ASSUME UseInv, NEW t \in Threads, Acquire(t)
  PROVE  Moves(t)
<1>. USE DEF UseInv, PoolInv, TypeOK, Moves, Goto, Hold, Return, Advance,
           Unlock, constants, pool, lock, locals
<1>1. CASE LockShared(t)
  BY <1>1 DEF LockShared
<1>2. CASE LockUniqueToFold(t)
  BY <1>2 DEF LockUniqueToFold
<1>3. CASE LockUniqueToRun(t)
  BY <1>3 DEF LockUniqueToRun
<1>4. CASE Swap(t)
  BY <1>4 DEF Swap
<1>. QED
  BY <1>1, <1>2, <1>3, <1>4 DEF Acquire

\* So does get_available_model,
LEMMA GetModelMoves ==
  ASSUME UseInv, NEW t \in Threads, GetModel(t)
  PROVE  Moves(t)
<1>. USE DEF UseInv, PoolInv, TypeOK, Moves, Goto, Hold, Return, Advance,
           Unlock, constants, pool, lock, locals
<1>1. CASE TakeAvailable(t)
  BY <1>1 DEF TakeAvailable, AfterModel
<1>2. CASE Reclaim(t)
  BY <1>2 DEF Reclaim, AfterModel
<1>3. CASE AwaitPending(t)
  BY <1>3 DEF AwaitPending
<1>4. CASE Sleep(t)
  BY <1>4 DEF Sleep
<1>5. CASE Completed(t)
  BY <1>5 DEF Completed, AfterModel
<1>6. CASE WaitFails(t)
  BY <1>6 DEF WaitFails, ThrowReturningModel
<1>7. CASE QueryFails(t)
  BY <1>7 DEF QueryFails
<1>. QED
  BY <1>1, <1>2, <1>3, <1>4, <1>5, <1>6, <1>7 DEF GetModel

\* ... run and run_single_threaded,
LEMMA ServeMoves ==
  ASSUME UseInv, NEW t \in Threads, Serve(t)
  PROVE  Moves(t)
<1>. USE DEF UseInv, PoolInv, TypeOK, Moves, Goto, Hold, Return, Advance,
           Unlock, constants, pool, lock, locals
<1>1. CASE CallRun(t)
  BY <1>1 DEF CallRun, Calls
<1>2. CASE CheckFolded(t)
  BY <1>2 DEF CheckFolded
<1>3. CASE CheckInitialized(t)
  BY <1>3 DEF CheckInitialized
<1>4. CASE CheckThrows(t)
  BY <1>4 DEF CheckThrows
<1>5. CASE Execute(t)
  BY <1>5 DEF Execute
<1>6. CASE ExecuteFails(t)
  BY <1>6 DEF ExecuteFails, ThrowReturningModel
<1>7. CASE Push(t)
  BY <1>7 DEF Push
<1>8. CASE Notify(t)
  BY <1>8 DEF Notify
<1>9. CASE RunSingleFolding(t)
  BY <1>9 DEF RunSingleFolding, Calls
<1>10. CASE RunSingle(t)
  BY <1>10 DEF RunSingle, Calls
<1>. QED
  BY <1>1, <1>2, <1>3, <1>4, <1>5, <1>6, <1>7, <1>8, <1>9, <1>10 DEF Serve

\* ... and the operations on the constants.
LEMMA ManageMoves ==
  ASSUME UseInv, NEW t \in Threads, Manage(t)
  PROVE  Moves(t)
<1>. USE DEF UseInv, PoolInv, TypeOK, Moves, Goto, Hold, Return, Advance,
           Unlock, constants, pool, lock, locals
<1>1. CASE CallFold(t)
  BY <1>1 DEF CallFold, Calls
<1>2. CASE Fold(t)
  BY <1>2 DEF Fold, FoldSource
<1>3. CASE FoldFails(t)
  BY <1>3 DEF FoldFails, ThrowReturningModel, FoldSource
<1>4. CASE Install(t)
  BY <1>4 DEF Install, FoldSource
<1>5. CASE CallSwap(t)
  BY <1>5 DEF CallSwap, Calls
<1>6. CASE CallUpdate(t)
  BY <1>6 DEF CallUpdate, Calls
<1>7. CASE UpdateMap(t)
  BY <1>7 DEF UpdateMap
<1>8. CASE UpdateCopy(t)
  BY <1>8 DEF UpdateCopy
<1>9. CASE UpdateFails(t)
  BY <1>9 DEF UpdateFails
<1>10. CASE UpdateArray(t)
  BY <1>10 DEF UpdateArray
<1>11. CASE CallFree(t)
  BY <1>11 DEF CallFree, Calls
<1>12. CASE FreeFolded(t)
  BY <1>12 DEF FreeFolded
<1>. QED
  BY <1>1, <1>2, <1>3, <1>4, <1>5, <1>6, <1>7, <1>8, <1>9, <1>10, <1>11, <1>12 DEF Manage

\* Nobody else moves anything.
LEMMA OtherMoves ==
  ASSUME UseInv,
         \/ \E t \in Threads : SpuriousWakeup(t)
         \/ \E m \in Models : Finish(m)
         \/ UNCHANGED vars
  PROVE  /\ UNCHANGED <<attached, useSecondary, held, next>>
         /\ \A t \in Threads : pc'[t] = pc[t] \/ pc[t] = "asleep"
<1>1. CASE \E t \in Threads : SpuriousWakeup(t)
  BY <1>1 DEF SpuriousWakeup, Goto, constants, locals, UseInv, PoolInv, TypeOK
<1>2. CASE \E m \in Models : Finish(m)
  BY <1>2 DEF Finish, constants, locals
<1>3. CASE UNCHANGED vars
  BY <1>3 DEF vars, constants, locals
<1>. QED
  BY <1>1, <1>2, <1>3

\* The model of a call that folds with it, or is about to launch it, is pointed to
\* other constants by no other thread: a swap waits for the lock of the call, and a
\* fold has a model of its own.
LEMMA StepStable ==
  ASSUME UseInv, [Next]_vars, NEW t \in Threads,
         pc[t] \in {"exec", "folding", "install"}, pc'[t] = pc[t]
  PROVE  attached'[held[t]] = attached[held[t]]
<1>1. CASE \E u \in Threads : Step(u)
  <2>1. PICK u \in Threads : Step(u)
    BY <1>1
  <2>2. Moves(u)
    BY <2>1, AcquireMoves, GetModelMoves, ServeMoves, ManageMoves DEF Step
  <2>3. u # t
    BY <2>2 DEF Moves
  <2>4. ~Swap(u)
    BY ThreadsAssumption DEF Swap, UniqueFree, UseInv, Locked, LockedLabels
  <2>5. held[t] \in Models
    BY HeldType DEF UseInv, PoolInv, HoldingLabels
  <2>6. held[u] # held[t]
    BY <2>3, <2>5, ModelsAssumption DEF UseInv, PoolInv, ExclusiveLease
  <2>7. CASE Fold(u)
    BY <2>5, <2>6, <2>7 DEF Fold, UseInv, PoolInv, TypeOK
  <2>8. CASE FoldFails(u)
    BY <2>5, <2>6, <2>8 DEF FoldFails, UseInv, PoolInv, TypeOK
  <2>9. CASE Install(u)
    BY <2>5, <2>6, <2>9 DEF Install, UseInv, PoolInv, TypeOK
  <2>. QED
    BY <2>2, <2>4, <2>7, <2>8, <2>9 DEF Moves
<1>2. CASE ~\E u \in Threads : Step(u)
  BY <1>2, OtherMoves DEF Next, AllDone
<1>. QED
  BY <1>1, <1>2

\* Whatever the threads call and whatever fails, a model in use is not pointed to
\* other constants by another thread (swap_constant_buffer, run_const_fold).
THEOREM ModelsAreStableInUse == Spec => StableWhileInUse
<1>1. UseInv /\ [Next]_vars
        => [\A t \in Threads :
              pc[t] \in {"exec", "folding", "install"} /\ pc'[t] = pc[t]
                  => attached'[held[t]] = attached[held[t]]]_vars
  BY StepStable
<1>. QED
  BY <1>1, UseInvHolds, PTL DEF Spec, StableWhileInUse

-----------------------------------------------------------------------------
(* Without failures, every model reads the active buffer, but for the one   *)
(* that folds the other.                                                    *)

Borrowed(m) == \E t \in Threads : held[t] = m /\ pc[t] = "install" /\ Op(t) = "foldInactive"

\* A step of a thread changes what a model reads only as AttachedToActive allows.
LEMMA StepAttached ==
  ASSUME UseInv, AttachedToActive, ~MayFail, NEW u \in Threads, Step(u)
  PROVE  AttachedToActive'
<1>. SUFFICES ASSUME NEW m \in Models PROVE attached'[m] = Active' \/ Borrowed(m)'
  BY DEF AttachedToActive, Borrowed
<1>1. Moves(u)
  BY AcquireMoves, GetModelMoves, ServeMoves, ManageMoves DEF Step
<1>2. attached[m] = Active \/ Borrowed(m)
  BY DEF AttachedToActive, Borrowed
<1>3. TypeOK
  BY DEF UseInv, PoolInv
<1>4. CASE Swap(u)
  <2>1. attached'[m] = Inactive /\ useSecondary' = ~useSecondary
    BY <1>4 DEF Swap
  <2>. QED
    BY <1>3, <2>1 DEF Active, Inactive, TypeOK
<1>5. CASE ~Swap(u)
  <2>1. useSecondary' = useSecondary /\ Active' = Active
    BY <1>1, <1>5 DEF Moves, Active
  \* Another thread keeps the model it borrowed.
  <2>2. ASSUME NEW t \in Threads \ {u}, held[t] = m, pc[t] = "install", Op(t) = "foldInactive"
        PROVE  Borrowed(m)'
    <3>1. held'[t] = m /\ pc'[t] = "install" /\ next'[t] = next[t]
      BY <1>1, <2>2 DEF Moves
    <3>. QED
      BY <2>2, <3>1 DEF Borrowed, Op
  <2>3. CASE Fold(u)
    <3>1. held[u] \in Models
      BY <2>3, HeldType DEF Fold, HoldingLabels, UseInv, PoolInv
    <3>2. CASE m # held[u]
      <4>1. attached'[m] = attached[m]
        BY <1>3, <2>3, <3>2 DEF Fold, TypeOK
      <4>2. pc[u] # "install"
        BY <2>3 DEF Fold
      <4>. QED
        BY <1>2, <2>1, <2>2, <4>1, <4>2 DEF Borrowed
    <3>3. CASE m = held[u] /\ Op(u) = "foldInactive"
      <4>1. held' = held /\ next' = next /\ pc'[u] = "install"
        BY <1>3, <2>3 DEF Fold, Goto, TypeOK
      <4>. QED
        BY <3>3, <4>1 DEF Borrowed, Op
    <3>4. CASE m = held[u] /\ Op(u) # "foldInactive"
      <4>1. attached'[m] = attached[m]
        BY <1>3, <2>3, <3>1, <3>4 DEF Fold, FoldSource, TypeOK
      <4>2. \A t \in Threads \ {u} : held[t] # m
        BY <3>1, <3>4, ModelsAssumption DEF UseInv, PoolInv, ExclusiveLease
      <4>3. pc[u] # "install"
        BY <2>3 DEF Fold
      <4>. QED
        BY <1>2, <2>1, <4>1, <4>2, <4>3 DEF Borrowed
    <3>. QED
      BY <3>2, <3>3, <3>4
  <2>4. CASE Install(u)
    <3>1. held[u] \in Models
      BY <2>4, HeldType DEF Install, HoldingLabels, UseInv, PoolInv
    <3>2. CASE m = held[u] /\ Op(u) = "foldInactive"
      BY <1>3, <2>1, <2>4, <3>1, <3>2 DEF Install, TypeOK
    <3>3. CASE ~(m = held[u] /\ Op(u) = "foldInactive")
      <4>1. attached'[m] = attached[m]
        BY <1>3, <2>4, <3>3 DEF Install, TypeOK
      <4>. QED
        BY <1>2, <2>1, <2>2, <3>3, <4>1 DEF Borrowed
    <3>. QED
      BY <3>2, <3>3
  <2>5. CASE attached' = attached /\ ~Install(u)
    <3>1. pc[u] # "install"
      BY <1>1, <2>5 DEF Moves
    <3>. QED
      BY <1>2, <2>1, <2>2, <2>5, <3>1 DEF Borrowed
  <2>6. ~FoldFails(u)
    BY DEF FoldFails
  <2>. QED
    BY <1>1, <1>5, <2>3, <2>4, <2>5, <2>6 DEF Moves
<1>. QED
  BY <1>4, <1>5

\* Unless a device call fails, every model reads the active buffer whenever nobody
\* folds the other with it (get_available_model, run_const_fold, swap_constant_buffer).
THEOREM ModelsReadTheActiveBuffer == ASSUME ~MayFail PROVE Spec => []AttachedToActive
<1>1. Init => AttachedToActive
  BY DEF Init, AttachedToActive, Active, Primary
<1>2. UseInv /\ AttachedToActive /\ [Next]_vars => AttachedToActive'
  <2>. SUFFICES ASSUME UseInv, AttachedToActive, [Next]_vars PROVE AttachedToActive'
    OBVIOUS
  <2>1. ASSUME NEW t \in Threads, Step(t) PROVE AttachedToActive'
    BY <2>1, StepAttached
  <2>2. ASSUME UNCHANGED <<attached, useSecondary, held, next>>,
               \A t \in Threads : pc'[t] = pc[t] \/ pc[t] = "asleep"
        PROVE  AttachedToActive'
    BY <2>2 DEF AttachedToActive, Active, Op
  <2>. QED
    BY <2>1, <2>2, OtherMoves DEF Next, AllDone
<1>. QED
  BY <1>1, <1>2, UseInvHolds, PTL DEF Spec

-----------------------------------------------------------------------------
(* Without failures, and without run_single_threaded, which leaves its model *)
(* available while the device still works, a call gets a model at rest.      *)

NoSingle == \A t \in Threads : \A i \in 1..Len(Program[t]) : Program[t][i] # "runSingle"

\* A model that is offered is at rest.
OfferedRest == available \cap executing = {}

RestInv == UseInv /\ FreshLease /\ OfferedRest

\* With such programs no step of run_single_threaded is enabled.
LEMMA NoSingleIsCalled ==
  ASSUME NoSingle, TypeOK, NEW t \in Threads PROVE ~Calls(t, "runSingle")
<1>. SUFFICES ASSUME Calls(t, "runSingle") PROVE FALSE
  OBVIOUS
<1>1. next[t] \in 1..Len(Program[t])
  <2>1. Len(Program[t]) \in Nat
    BY ProgramAssumption
  <2>. QED
    BY <2>1 DEF Calls, TypeOK
<1>. QED
  BY <1>1 DEF NoSingle, Calls, Op

\* Taking model_exec_mutex_ keeps models at rest.
LEMMA AcquireRests ==
  ASSUME RestInv, NoSingle, ~MayFail, NEW t \in Threads, Acquire(t)
  PROVE  FreshLease' /\ OfferedRest'
<1>. USE ModelsAssumption, NoSingleIsCalled
       DEF RestInv, UseInv, PoolInv, TypeOK, Holding, HoldingLabels, ExclusiveLease, RunsCheck,
           FreshLease, OfferedRest, Op, Goto, Hold, Return, Advance, Unlock,
           constants, pool, lock, locals
<1>1. CASE LockShared(t)
  BY <1>1 DEF LockShared
<1>2. CASE LockUniqueToFold(t)
  BY <1>2 DEF LockUniqueToFold
<1>3. CASE LockUniqueToRun(t)
  BY <1>3 DEF LockUniqueToRun
<1>4. CASE Swap(t)
  BY <1>4 DEF Swap
<1>. QED
  BY <1>1, <1>2, <1>3, <1>4 DEF Acquire

\* So does get_available_model,
LEMMA GetModelRests ==
  ASSUME RestInv, NoSingle, ~MayFail, NEW t \in Threads, GetModel(t)
  PROVE  FreshLease' /\ OfferedRest'
<1>. USE ModelsAssumption, NoSingleIsCalled
       DEF RestInv, UseInv, PoolInv, TypeOK, Holding, HoldingLabels, ExclusiveLease, RunsCheck,
           FreshLease, OfferedRest, Op, Goto, Hold, Return, Advance, Unlock,
           constants, pool, lock, locals
<1>1. CASE TakeAvailable(t)
  BY <1>1 DEF TakeAvailable, AfterModel
<1>2. CASE Reclaim(t)
  BY <1>2 DEF Reclaim, AfterModel
<1>3. CASE AwaitPending(t)
  BY <1>3 DEF AwaitPending
<1>4. CASE Sleep(t)
  BY <1>4 DEF Sleep
<1>5. CASE Completed(t)
  BY <1>5 DEF Completed, AfterModel
<1>6. CASE WaitFails(t)
  BY <1>6 DEF WaitFails, ThrowReturningModel
<1>7. CASE QueryFails(t)
  BY <1>7 DEF QueryFails
<1>. QED
  BY <1>1, <1>2, <1>3, <1>4, <1>5, <1>6, <1>7 DEF GetModel

\* ... run and run_single_threaded,
LEMMA ServeRests ==
  ASSUME RestInv, NoSingle, ~MayFail, NEW t \in Threads, Serve(t)
  PROVE  FreshLease' /\ OfferedRest'
<1>. USE ModelsAssumption, NoSingleIsCalled
       DEF RestInv, UseInv, PoolInv, TypeOK, Holding, HoldingLabels, ExclusiveLease, RunsCheck,
           FreshLease, OfferedRest, Op, Goto, Hold, Return, Advance, Unlock,
           constants, pool, lock, locals
<1>1. CASE CallRun(t)
  BY <1>1 DEF CallRun, Calls
<1>2. CASE CheckFolded(t)
  BY <1>2 DEF CheckFolded
<1>3. CASE CheckInitialized(t)
  BY <1>3 DEF CheckInitialized
<1>4. CASE CheckThrows(t)
  BY <1>4 DEF CheckThrows
<1>5. CASE Execute(t)
  BY <1>5 DEF Execute
<1>6. CASE ExecuteFails(t)
  BY <1>6 DEF ExecuteFails, ThrowReturningModel
<1>7. CASE Push(t)
  BY <1>7 DEF Push
<1>8. CASE Notify(t)
  BY <1>8 DEF Notify
<1>9. CASE RunSingleFolding(t)
  BY <1>9 DEF RunSingleFolding
<1>10. CASE RunSingle(t)
  BY <1>10 DEF RunSingle
<1>. QED
  BY <1>1, <1>2, <1>3, <1>4, <1>5, <1>6, <1>7, <1>8, <1>9, <1>10 DEF Serve

\* ... and the operations on the constants.
LEMMA ManageRests ==
  ASSUME RestInv, NoSingle, ~MayFail, NEW t \in Threads, Manage(t)
  PROVE  FreshLease' /\ OfferedRest'
<1>. USE ModelsAssumption, NoSingleIsCalled
       DEF RestInv, UseInv, PoolInv, TypeOK, Holding, HoldingLabels, ExclusiveLease, RunsCheck,
           FreshLease, OfferedRest, Op, Goto, Hold, Return, Advance, Unlock,
           constants, pool, lock, locals
<1>1. CASE CallFold(t)
  BY <1>1 DEF CallFold, Calls
<1>2. CASE Fold(t)
  BY <1>2 DEF Fold, FoldSource
<1>3. CASE FoldFails(t)
  BY <1>3 DEF FoldFails, ThrowReturningModel, FoldSource
<1>4. CASE Install(t)
  BY <1>4 DEF Install, FoldSource
<1>5. CASE CallSwap(t)
  BY <1>5 DEF CallSwap, Calls
<1>6. CASE CallUpdate(t)
  BY <1>6 DEF CallUpdate, Calls
<1>7. CASE UpdateMap(t)
  BY <1>7 DEF UpdateMap
<1>8. CASE UpdateCopy(t)
  BY <1>8 DEF UpdateCopy
<1>9. CASE UpdateFails(t)
  BY <1>9 DEF UpdateFails
<1>10. CASE UpdateArray(t)
  BY <1>10 DEF UpdateArray
<1>11. CASE CallFree(t)
  BY <1>11 DEF CallFree, Calls
<1>12. CASE FreeFolded(t)
  BY <1>12 DEF FreeFolded
<1>. QED
  BY <1>1, <1>2, <1>3, <1>4, <1>5, <1>6, <1>7, <1>8, <1>9, <1>10, <1>11, <1>12 DEF Manage

\* Unless a device call fails or a thread calls run_single_threaded, a call gets a
\* model whose earlier work the device has finished (reclaim_finished_models,
\* wait_for_completion).
THEOREM LeasesAreFresh == ASSUME NoSingle, ~MayFail PROVE Spec => []FreshLease
<1>1. Init => RestInv
  BY InitUse DEF Init, RestInv, FreshLease, OfferedRest
<1>2. RestInv /\ [Next]_vars => RestInv'
  <2>. SUFFICES ASSUME RestInv, [Next]_vars PROVE RestInv'
    OBVIOUS
  <2>1. UseInv'
    BY NextUse DEF RestInv
  <2>2. ASSUME NEW t \in Threads, Step(t) PROVE FreshLease' /\ OfferedRest'
    BY <2>2, AcquireRests, GetModelRests, ServeRests, ManageRests DEF Step
  <2>. USE DEF RestInv, FreshLease, OfferedRest, Op
  <2>3. ASSUME NEW t \in Threads, SpuriousWakeup(t) PROVE FreshLease' /\ OfferedRest'
    BY <2>3 DEF SpuriousWakeup, Goto, pool, locals, UseInv, PoolInv, TypeOK
  <2>4. ASSUME NEW m \in Models, Finish(m) PROVE FreshLease' /\ OfferedRest'
    BY <2>4 DEF Finish, locals
  <2>5. CASE UNCHANGED vars
    BY <2>1, <2>5 DEF vars, pool, locals
  <2>. QED
    BY <2>1, <2>2, <2>3, <2>4, <2>5 DEF Next, AllDone
<1>. QED
  BY <1>1, <1>2, PTL DEF Spec, RestInv

-----------------------------------------------------------------------------
(* Rolling out new weights while threads run models: one thread may update,  *)
(* fold and release the buffer that is not in use, and swap the buffers.    *)

\* Thread a manages the weights, all others only call run.  It folds a buffer right
\* after it has loaded it, and swaps right after it has folded.
Rollouts(a) ==
    /\ \A t \in Threads \ {a} : \A i \in 1..Len(Program[t]) : Program[t][i] = "run"
    /\ \A i \in 1..Len(Program[a]) :
          /\ Program[a][i] \in {"run", "updateInactive", "foldInactive", "swap", "freeInactive"}
          /\ Program[a][i] = "foldInactive" => i > 1 /\ Program[a][i - 1] = "updateInactive"
          /\ Program[a][i] = "swap" => i > 1 /\ Program[a][i - 1] = "foldInactive"

\* Where a call of each operation may be.
FoldLabels == {"wantShared", "wantModel", "asleep", "woken", "completing",
               "folding", "install", "push", "notify"}
InCall(t) ==
    /\ next[t] \in 1..Len(Program[t])
    /\ \/ Op(t) = "run" /\ pc[t] \in RunLabels
       \/ Op(t) = "foldInactive" /\ pc[t] \in FoldLabels
       \/ Op(t) = "updateInactive" /\ pc[t] \in {"updateMap", "updateCopy", "updateArray"}
       \/ Op(t) = "swap" /\ pc[t] = "swapUnique"
       \/ Op(t) = "freeInactive" /\ pc[t] = "freeFolded"

\* The constants of a buffer are in a blob of its own, loaded, and folded.
LoadedIn(b) == map[b].home = b /\ array[b].home = b /\ blob[b] # Garbage
ReadyIn(b) == LoadedIn(b) /\ array[b].folded = blob[b]

\* The active buffer is loaded, and ready if its state says so.  The converse may fail:
\* a call that waited for the lock while the buffers were swapped marks the wrong one.
ActiveServes ==
    /\ LoadedIn(Active)
    /\ state[Active] # "NONE"
    /\ state[Active] = "FOLDED" => ReadyIn(Active)

\* What a call of run may rely on: either the buffer it saw is still the active one,
\* or the active one was made ready before the swap.
RunRelies(t) ==
    /\ pc[t] \in {"runUnique", "folding", "install"} => ref[t] = Active \/ ReadyIn(Active)
    /\ pc[t] = "install" => result[t] = blob[Active]
    /\ pc[t] \in {"relock", "exec"} => ReadyIn(Active)

CallFacts(t) == pc[t] # "idle" => InCall(t) /\ (Op(t) = "run" => RunRelies(t))

\* How far the manager is with the inactive buffer.
Staged(a) ==
    next[a] \in 1..Len(Program[a]) =>
        /\ pc[a] \in {"updateCopy", "updateArray"} => ref[a] = Inactive
        /\ pc[a] = "updateArray" => map[Inactive].home = Inactive /\ blob[Inactive] # Garbage
        /\ Op(a) = "foldInactive" => LoadedIn(Inactive) /\ (pc[a] # "idle" => ref[a] = Inactive)
        /\ Op(a) = "foldInactive" /\ pc[a] = "install" => result[a] = blob[Inactive]
        /\ Op(a) = "swap" \/ (Op(a) = "foldInactive" /\ pc[a] \in {"push", "notify"}) =>
              ReadyIn(Inactive) /\ state[Inactive] = "FOLDED"

RollFacts(a) == ActiveServes /\ (\A t \in Threads : CallFacts(t)) /\ Staged(a)
RollInv(a) == UseInv /\ AttachedToActive /\ RollFacts(a)

\* The two buffers are the active and the inactive one.
LEMMA TwoBuffers ==
  ASSUME TypeOK
  PROVE  /\ Active \in Buffers /\ Inactive \in Buffers /\ Active # Inactive
         /\ \A b \in Buffers : b = Active \/ b = Inactive
BY DEF TypeOK, Active, Inactive, Buffers

\* A thread that begins a call begins one its program allows.
LEMMA RollCalls ==
  ASSUME NEW a \in Threads, Rollouts(a), TypeOK, NEW t \in Threads, NEW op, Calls(t, op)
  PROVE  /\ next[t] \in 1..Len(Program[t])
         /\ op = "run" \/ (t = a /\ op \in {"updateInactive", "foldInactive", "swap", "freeInactive"})
<1>1. next[t] \in 1..Len(Program[t])
  <2>1. Len(Program[t]) \in Nat
    BY ProgramAssumption
  <2>. QED
    BY <2>1 DEF Calls, TypeOK
<1>. QED
  BY <1>1 DEF Rollouts, Calls, Op

\* In a call, only the manager does something else than run.
LEMMA RollOps ==
  ASSUME NEW a \in Threads, Rollouts(a), TypeOK, NEW t \in Threads, InCall(t)
  PROVE  Op(t) = "run" \/ t = a
BY DEF InCall, Rollouts, Op

\* When a call of the manager ends, what its next call relies on is what this one has
\* done.
LEMMA NextCall ==
  ASSUME NEW a \in Threads, Rollouts(a), TypeOK, InCall(a), next' = [next EXCEPT ![a] = @ + 1],
         next'[a] \in 1..Len(Program[a])
  PROVE  /\ Op(a)' = "foldInactive" => Op(a) = "updateInactive"
         /\ Op(a)' = "swap" => Op(a) = "foldInactive"
<1>1. next'[a] = next[a] + 1 /\ next[a] \in Nat
  BY DEF TypeOK
<1>. QED
  BY <1>1 DEF Rollouts, Op

\* A step of t that leaves the active buffer alone, and the inactive one if t is not the
\* manager, changes nothing another thread relies on: what is left to show is that t
\* has its own facts afterwards.
RollQuiet(a, t) ==
    /\ useSecondary' = useSecondary
    /\ \A b \in Buffers : b = Active \/ t # a =>
          state'[b] = state[b] /\ blob'[b] = blob[b] /\ map'[b] = map[b] /\ array'[b] = array[b]
    /\ \A u \in Threads \ {t} :
          /\ next'[u] = next[u] /\ ref'[u] = ref[u] /\ result'[u] = result[u]
          /\ pc'[u] = pc[u] \/ (pc[u] = "asleep" /\ pc'[u] = "woken")
    /\ CallFacts(t)'
    /\ t = a => Staged(a)'

LEMMA RollKept ==
  ASSUME NEW a \in Threads, Rollouts(a), RollInv(a), NEW t \in Threads, RollQuiet(a, t)
  PROVE  RollFacts(a)'
<1>. USE DEF RollQuiet
<1>1. /\ Active' = Active /\ Inactive' = Inactive
      /\ Active \in Buffers /\ Inactive \in Buffers
  BY BufferTypes DEF Active, Inactive
<1>2. /\ state'[Active] = state[Active] /\ blob'[Active] = blob[Active]
      /\ map'[Active] = map[Active] /\ array'[Active] = array[Active]
  BY <1>1
<1>3. ActiveServes' /\ (ReadyIn(Active)' <=> ReadyIn(Active))
  BY <1>1, <1>2 DEF RollInv, RollFacts, ActiveServes, LoadedIn, ReadyIn
<1>4. ASSUME NEW u \in Threads \ {t} PROVE CallFacts(u)'
  <2>1. /\ CallFacts(u) /\ Op(u)' = Op(u) /\ ref'[u] = ref[u] /\ result'[u] = result[u]
        /\ next'[u] = next[u] /\ (pc'[u] = pc[u] \/ (pc[u] = "asleep" /\ pc'[u] = "woken"))
    BY <1>4 DEF RollInv, RollFacts, Op
  <2>2. CASE pc'[u] = pc[u]
    BY <1>1, <1>2, <1>3, <2>1, <2>2 DEF CallFacts, InCall, RunRelies
  <2>3. CASE pc[u] = "asleep" /\ pc'[u] = "woken"
    BY <1>1, <2>1, <2>3 DEF CallFacts, InCall, RunRelies, RunLabels, FoldLabels
  <2>. QED
    BY <2>1, <2>2, <2>3
<1>5. Staged(a)'
  <2>1. CASE t = a
    BY <2>1
  <2>2. CASE t # a
    <3>1. /\ Staged(a) /\ Op(a)' = Op(a) /\ next'[a] = next[a] /\ ref'[a] = ref[a]
          /\ result'[a] = result[a]
      BY <2>2 DEF RollInv, RollFacts, Op
    <3>2. pc'[a] = pc[a] \/ (pc[a] = "asleep" /\ pc'[a] = "woken")
      BY <2>2
    <3>3. /\ state'[Inactive] = state[Inactive] /\ blob'[Inactive] = blob[Inactive]
          /\ map'[Inactive] = map[Inactive] /\ array'[Inactive] = array[Inactive]
      BY <1>1, <2>2
    <3>. QED
      BY <1>1, <3>1, <3>2, <3>3 DEF Staged, LoadedIn, ReadyIn
  <2>. QED
    BY <2>1, <2>2
<1>. QED
  BY <1>3, <1>4, <1>5 DEF RollFacts

\* Taking model_exec_mutex_, but for a swap.
LEMMA AcquireRolls ==
  ASSUME NEW a \in Threads, Rollouts(a), RollInv(a), ~MayFail, NEW t \in Threads, Acquire(t)
  PROVE  Swap(t) \/ RollQuiet(a, t)
<1>1. TypeOK /\ CallFacts(t) /\ ActiveServes /\ Staged(a)
  BY DEF RollInv, RollFacts, UseInv, PoolInv
<1>2. Active \in Buffers /\ Inactive \in Buffers
  BY BufferTypes
<1>. USE <1>1, <1>2, RollOps
     DEF TypeOK, RollQuiet, constants, pool, lock, locals, Goto, CallFacts, InCall, RunRelies, Op,
         RunLabels, FoldLabels, Staged, ActiveServes, LoadedIn, ReadyIn, Active, Inactive
<1>3. CASE LockShared(t)
  BY <1>3 DEF LockShared
<1>4. CASE LockUniqueToFold(t)
  BY <1>4 DEF LockUniqueToFold
<1>5. CASE LockUniqueToRun(t)
  <2>1. pc[t] = "runUnique" /\ Op(t) = "run" /\ ref[t] \in Buffers
    BY <1>5 DEF LockUniqueToRun
  <2>2. state[ref[t]] # "INITIALIZED" => ReadyIn(Active)
    <3>1. state[Active] \in {"INITIALIZED", "FOLDED"}
      BY DEF States
    <3>. QED
      BY <2>1, <3>1
  <2>3. Active' = Active /\ Inactive' = Inactive
    BY <1>5 DEF LockUniqueToRun
  <2>4. pc'[t] \in {"folding", "relock"} /\ (pc'[t] = "relock" => state[ref[t]] # "INITIALIZED")
    BY <1>5 DEF LockUniqueToRun
  <2>5. /\ pc' = [pc EXCEPT ![t] = pc'[t]]
        /\ UNCHANGED <<useSecondary, state, blob, map, array, result, ref, next>>
    BY <1>5 DEF LockUniqueToRun
  <2>. QED
    BY <2>1, <2>2, <2>3, <2>4, <2>5
<1>. QED
  BY <1>3, <1>4, <1>5 DEF Acquire

\* get_available_model.
LEMMA GetModelRolls ==
  ASSUME NEW a \in Threads, Rollouts(a), RollInv(a), ~MayFail, NEW t \in Threads, GetModel(t)
  PROVE  RollQuiet(a, t)
<1>1. TypeOK /\ CallFacts(t) /\ ActiveServes /\ Staged(a)
  BY DEF RollInv, RollFacts, UseInv, PoolInv
<1>2. RunsCheck
  BY DEF RollInv, UseInv
<1>. USE <1>1, RollOps
     DEF TypeOK, RollQuiet, constants, pool, lock, locals, Goto, CallFacts, InCall, RunRelies, Op,
         RunLabels, FoldLabels, Staged, ActiveServes, LoadedIn, ReadyIn, Active, Inactive
<1>3. CASE TakeAvailable(t)
  BY <1>3 DEF TakeAvailable, AfterModel
<1>4. CASE Reclaim(t)
  BY <1>4 DEF Reclaim, AfterModel
<1>5. CASE AwaitPending(t)
  BY <1>5 DEF AwaitPending
<1>6. CASE Sleep(t)
  BY <1>6 DEF Sleep
<1>7. CASE Completed(t)
  BY <1>7 DEF Completed, AfterModel
<1>8. CASE WaitFails(t)
  BY <1>8 DEF WaitFails
<1>9. CASE QueryFails(t)
  BY <1>9 DEF QueryFails
<1>. QED
  BY <1>3, <1>4, <1>5, <1>6, <1>7, <1>8, <1>9 DEF GetModel

\* run, which never finds the active buffer in an unknown state.
LEMMA ServeRolls ==
  ASSUME NEW a \in Threads, Rollouts(a), RollInv(a), ~MayFail, NEW t \in Threads, Serve(t)
  PROVE  RollQuiet(a, t) /\ ~CheckThrows(t)
<1>1. TypeOK /\ CallFacts(t) /\ ActiveServes /\ Staged(a)
  BY DEF RollInv, RollFacts, UseInv, PoolInv
<1>2. RunsCheck
  BY DEF RollInv, UseInv
<1>3. Active \in Buffers /\ Inactive \in Buffers
  BY BufferTypes
<1>4. ~CheckThrows(t)
  BY <1>1 DEF CheckThrows, ActiveServes
<1>5. CASE Notify(t)
  <2>1. pc[t] = "notify" /\ InCall(t) /\ pc'[t] = "idle" /\ next' = [next EXCEPT ![t] = @ + 1]
    BY <1>1, <1>5 DEF Notify, Goto, Advance, CallFacts, TypeOK
  <2>2. /\ UNCHANGED <<useSecondary, state, blob, map, array, result, ref>>
        /\ Active' = Active /\ Inactive' = Inactive
    BY <1>5 DEF Notify, constants, locals, Active, Inactive
  <2>3. \A u \in Threads \ {t} :
           /\ next'[u] = next[u] /\ ref'[u] = ref[u]
           /\ pc'[u] = pc[u] \/ (pc[u] = "asleep" /\ pc'[u] = "woken")
    BY <1>1, <1>5, <2>1 DEF Notify, Goto, TypeOK, locals
  <2>4. ASSUME t = a, next'[a] \in 1..Len(Program[a]) PROVE Staged(a)'
    <3>1. /\ Op(a)' = "foldInactive" => Op(a) = "updateInactive"
          /\ Op(a)' = "swap" => Op(a) = "foldInactive"
      BY <1>1, <2>1, <2>4, NextCall
    <3>2. Op(a) # "updateInactive" /\ (Op(a) = "foldInactive" => ReadyIn(Inactive) /\ state[Inactive] = "FOLDED")
      BY <1>1, <2>1, <2>4 DEF InCall, Staged
    <3>. QED
      BY <2>1, <2>2, <2>4, <3>1, <3>2 DEF Staged, ReadyIn, LoadedIn
  <2>5. CallFacts(t)'
    BY <2>1 DEF CallFacts
  <2>. QED
    BY <1>4, <2>2, <2>3, <2>4, <2>5 DEF RollQuiet, Staged
<1>. USE <1>1, <1>2, <1>3, <1>4, RollOps, RollCalls
     DEF TypeOK, RollQuiet, constants, pool, lock, locals, Goto, Return, CallFacts, InCall, RunRelies, Op,
         RunLabels, FoldLabels, Staged, ActiveServes, LoadedIn, ReadyIn, Active, Inactive, RunsCheck
<1>6. CASE CallRun(t)
  <2>1. Op(t) = "run" /\ pc[t] = "idle" /\ next[t] \in 1..Len(Program[t])
    BY <1>6 DEF CallRun, Calls
  <2>2. /\ pc' = [pc EXCEPT ![t] = "wantShared"]
        /\ UNCHANGED <<useSecondary, state, blob, map, array, result, ref, next>>
    BY <1>6 DEF CallRun
  <2>. QED
    BY <2>1, <2>2
<1>7. CASE CheckFolded(t)
  BY <1>7 DEF CheckFolded
<1>8. CASE CheckInitialized(t)
  BY <1>8 DEF CheckInitialized
<1>9. CASE Execute(t)
  BY <1>9 DEF Execute
<1>10. CASE ExecuteFails(t)
  BY <1>10 DEF ExecuteFails
<1>11. CASE Push(t)
  BY <1>11 DEF Push
<1>12. CASE RunSingleFolding(t) \/ RunSingle(t)
  <2>1. Calls(t, "runSingle")
    BY <1>12 DEF RunSingleFolding, RunSingle
  <2>. QED
    BY <2>1, RollCalls
<1>. QED
  BY <1>4, <1>5, <1>6, <1>7, <1>8, <1>9, <1>10, <1>11, <1>12 DEF Serve

\* The operations on the constants, but for the end of a fold of run.
LEMMA ManageRolls ==
  ASSUME NEW a \in Threads, Rollouts(a), RollInv(a), ~MayFail, NEW t \in Threads, Manage(t)
  PROVE  /\ RollQuiet(a, t) \/ (Install(t) /\ Op(t) = "run")
         /\ ~FoldFails(t)
<1>1. TypeOK /\ Holding /\ CallFacts(t) /\ ActiveServes /\ Staged(a)
  BY DEF RollInv, RollFacts, UseInv, PoolInv
<1>2. /\ Active \in Buffers /\ Inactive \in Buffers /\ Active # Inactive
      /\ \A b \in Buffers : b = Active \/ b = Inactive
  BY <1>1, TwoBuffers
<1>3. ~FoldFails(t) /\ ~UpdateFails(t)
  BY DEF FoldFails, UpdateFails
<1>4. CASE CallFold(t)
  <2>1. t = a /\ Op(a) = "foldInactive" /\ pc[a] = "idle" /\ next[a] \in 1..Len(Program[a])
    BY <1>1, <1>4, RollCalls DEF CallFold, Calls
  <2>2. /\ ref' = [ref EXCEPT ![a] = Inactive] /\ pc' = [pc EXCEPT ![a] = "wantShared"]
        /\ UNCHANGED <<constants, result, next>>
    BY <1>4, <2>1 DEF CallFold, Target, Goto
  <2>3. Staged(a)'
    BY <1>1, <2>1, <2>2 DEF Staged, LoadedIn, ReadyIn, TypeOK, constants, Inactive, Active, Op
  <2>4. CallFacts(a)'
    BY <1>1, <2>1, <2>2 DEF CallFacts, InCall, FoldLabels, TypeOK, Op
  <2>. QED
    BY <1>1, <1>3, <2>1, <2>2, <2>3, <2>4 DEF RollQuiet, TypeOK, constants
<1>5. CASE Fold(t)
  <2>1. InCall(t) /\ pc[t] = "folding" /\ held[t] \in Models
    BY <1>1, <1>5, HeldType DEF Fold, HoldingLabels, CallFacts
  <2>2. Op(t) = "run" \/ (Op(t) = "foldInactive" /\ t = a)
    BY <1>1, <2>1, RollOps DEF InCall
  <2>3. FoldSource(t) = IF Op(t) = "run" THEN Active ELSE Inactive
    <3>1. ASSUME Op(t) = "run" PROVE attached[held[t]] = Active
      <4>1. attached[held[t]] = Active \/ Borrowed(held[t])
        BY <2>1 DEF RollInv, AttachedToActive, Borrowed
      <4>2. ~Borrowed(held[t])
        BY <2>1, <3>1, ModelsAssumption DEF RollInv, UseInv, PoolInv, ExclusiveLease, Borrowed
      <4>. QED
        BY <4>1, <4>2
    <3>. QED
      BY <2>2, <3>1 DEF FoldSource
  <2>4. LoadedIn(FoldSource(t))
    BY <1>1, <2>1, <2>2, <2>3 DEF ActiveServes, Staged, InCall
  <2>5. Loaded(FoldSource(t)) = blob[FoldSource(t)]
    BY <1>2, <2>3, <2>4 DEF Loaded, LoadedIn, NoBuffer, Buffers
  <2>6. /\ result' = [result EXCEPT ![t] = blob[FoldSource(t)]] /\ pc' = [pc EXCEPT ![t] = "install"]
        /\ UNCHANGED <<useSecondary, state, blob, map, array, ref, next>>
    BY <1>5, <2>5 DEF Fold, Goto
  <2>7. Active' = Active /\ Inactive' = Inactive /\ Op(t)' = Op(t)
    BY <2>6 DEF Active, Inactive, Op
  <2>8. CallFacts(t)'
    BY <1>1, <2>1, <2>2, <2>3, <2>6, <2>7
       DEF CallFacts, InCall, RunRelies, RunLabels, FoldLabels, ReadyIn, LoadedIn, TypeOK
  <2>9. ASSUME t = a PROVE Staged(a)'
    BY <1>1, <2>1, <2>2, <2>3, <2>6, <2>7, <2>9 DEF Staged, ReadyIn, LoadedIn, TypeOK
  <2>. QED
    BY <1>1, <1>3, <2>6, <2>8, <2>9 DEF RollQuiet, TypeOK
<1>6. CASE Install(t) /\ Op(t) # "run"
  <2>1. InCall(t) /\ pc[t] = "install" /\ Op(a) = "foldInactive" /\ t = a
    BY <1>1, <1>6, RollOps DEF Install, CallFacts, InCall
  <2>2. LoadedIn(Inactive) /\ ref[a] = Inactive /\ result[a] = blob[Inactive]
    BY <1>1, <2>1 DEF Staged, InCall
  <2>3. /\ state' = [state EXCEPT ![Inactive] = "FOLDED"]
        /\ map' = [map EXCEPT ![Inactive].folded = result[a]]
        /\ array' = [array EXCEPT ![Inactive] = map'[Inactive]]
        /\ pc' = [pc EXCEPT ![a] = "push"]
        /\ UNCHANGED <<useSecondary, blob, ref, result, next>>
    BY <1>1, <1>6, <2>1, <2>2 DEF Install, Target, Goto, locals, TypeOK
  <2>4. Active' = Active /\ Inactive' = Inactive /\ Op(a)' = Op(a)
    BY <2>3 DEF Active, Inactive, Op
  <2>5. map'[Inactive] = [map[Inactive] EXCEPT !.folded = result[a]] /\ array'[Inactive] = map'[Inactive]
    BY <1>1, <1>2, <2>3 DEF TypeOK
  <2>6. map'[Inactive].home = Inactive /\ map'[Inactive].folded = result[a]
    BY <1>1, <1>2, <2>2, <2>5 DEF TypeOK, Entries, LoadedIn
  <2>7. Staged(a)'
    BY <1>1, <1>2, <2>1, <2>2, <2>3, <2>4, <2>5, <2>6 DEF Staged, ReadyIn, LoadedIn, TypeOK
  <2>8. CallFacts(a)'
    BY <1>1, <2>1, <2>3, <2>4 DEF CallFacts, InCall, FoldLabels, TypeOK
  <2>. QED
    BY <1>1, <1>2, <1>3, <2>1, <2>3, <2>7, <2>8 DEF RollQuiet, TypeOK
<1>7. CASE CallSwap(t)
  <2>1. t = a /\ Op(a) = "swap" /\ pc[a] = "idle" /\ next[a] \in 1..Len(Program[a])
    BY <1>1, <1>7, RollCalls DEF CallSwap, Calls
  <2>2. pc' = [pc EXCEPT ![a] = "swapUnique"] /\ UNCHANGED <<constants, ref, result, next>>
    BY <1>7, <2>1 DEF CallSwap, Goto, locals
  <2>3. Staged(a)'
    BY <1>1, <2>1, <2>2 DEF Staged, LoadedIn, ReadyIn, TypeOK, constants, Inactive, Active, Op
  <2>4. CallFacts(a)'
    BY <1>1, <2>1, <2>2 DEF CallFacts, InCall, TypeOK, Op
  <2>. QED
    BY <1>1, <1>3, <2>1, <2>2, <2>3, <2>4 DEF RollQuiet, TypeOK, constants
<1>8. CASE CallUpdate(t)
  <2>1. t = a /\ Op(a) = "updateInactive" /\ pc[a] = "idle" /\ next[a] \in 1..Len(Program[a])
    BY <1>1, <1>8, RollCalls DEF CallUpdate, Calls
  <2>2. /\ state' = [state EXCEPT ![Inactive] = "INITIALIZED"]
        /\ pc' = [pc EXCEPT ![a] = "updateMap"]
        /\ UNCHANGED <<useSecondary, blob, map, array, ref, result, next>>
    BY <1>8, <2>1 DEF CallUpdate, Target, Goto, locals
  <2>3. Staged(a)'
    BY <1>1, <2>1, <2>2 DEF Staged, TypeOK, Inactive, Active, Op
  <2>4. CallFacts(a)'
    BY <1>1, <2>1, <2>2 DEF CallFacts, InCall, TypeOK, Op
  <2>. QED
    BY <1>1, <1>2, <1>3, <2>1, <2>2, <2>3, <2>4 DEF RollQuiet, TypeOK
<1>9. CASE UpdateMap(t)
  <2>1. InCall(t) /\ pc[a] = "updateMap" /\ Op(a) = "updateInactive" /\ t = a
    BY <1>1, <1>9, RollOps DEF UpdateMap, CallFacts, InCall, RunLabels, FoldLabels
  <2>2. /\ ref' = [ref EXCEPT ![a] = Inactive] /\ pc' = [pc EXCEPT ![a] = "updateCopy"]
        /\ UNCHANGED <<constants, result, next>>
    BY <1>9, <2>1 DEF UpdateMap, Target, Goto
  <2>3. Staged(a)'
    BY <1>1, <2>1, <2>2 DEF Staged, TypeOK, constants, Inactive, Active, Op
  <2>4. CallFacts(a)'
    BY <1>1, <2>1, <2>2 DEF CallFacts, InCall, TypeOK, Op
  <2>. QED
    BY <1>1, <1>3, <2>1, <2>2, <2>3, <2>4 DEF RollQuiet, TypeOK, constants
<1>10. CASE UpdateCopy(t)
  <2>1. InCall(t) /\ pc[a] = "updateCopy" /\ Op(a) = "updateInactive" /\ t = a
    BY <1>1, <1>10, RollOps DEF UpdateCopy, CallFacts, InCall, RunLabels, FoldLabels
  <2>2. ref[a] = Inactive
    BY <1>1, <2>1 DEF Staged, InCall
  <2>3. PICK v \in Versions : blob' = [blob EXCEPT ![Inactive] = v]
    BY <1>10, <2>1 DEF UpdateCopy, Target
  <2>4. /\ map' = [map EXCEPT ![Inactive].home = Inactive] /\ pc' = [pc EXCEPT ![a] = "updateArray"]
        /\ UNCHANGED <<useSecondary, state, array, ref, result, next>>
    BY <1>10, <2>1, <2>2 DEF UpdateCopy, Target, Goto, locals
  <2>5. map'[Inactive].home = Inactive /\ blob'[Inactive] = v
    BY <1>1, <1>2, <2>3, <2>4 DEF TypeOK, Entries
  <2>6. v # Garbage
    BY VersionsAssumption
  <2>7. Active' = Active /\ Inactive' = Inactive /\ Op(a)' = Op(a)
    BY <2>4 DEF Active, Inactive, Op
  <2>8. Staged(a)'
    BY <1>1, <2>1, <2>2, <2>4, <2>5, <2>6, <2>7 DEF Staged, TypeOK
  <2>9. CallFacts(a)'
    BY <1>1, <2>1, <2>4, <2>7 DEF CallFacts, InCall, TypeOK
  <2>. QED
    BY <1>1, <1>2, <1>3, <2>1, <2>3, <2>4, <2>8, <2>9 DEF RollQuiet, TypeOK
<1>11. CASE UpdateArray(t)
  <2>1. InCall(t) /\ pc[a] = "updateArray" /\ Op(a) = "updateInactive" /\ t = a
    BY <1>1, <1>11, RollOps DEF UpdateArray, CallFacts, InCall, RunLabels, FoldLabels
  <2>2. ref[a] = Inactive /\ map[Inactive].home = Inactive /\ blob[Inactive] # Garbage
    BY <1>1, <2>1 DEF Staged, InCall
  <2>3. /\ array' = [array EXCEPT ![Inactive] = map[Inactive]] /\ pc' = [pc EXCEPT ![a] = "idle"]
        /\ next' = [next EXCEPT ![a] = @ + 1]
        /\ UNCHANGED <<useSecondary, state, blob, map, ref, result>>
    BY <1>11, <2>1, <2>2 DEF UpdateArray, Target, Return, Goto, Advance, locals
  <2>4. Active' = Active /\ Inactive' = Inactive /\ LoadedIn(Inactive)'
    <3>1. Active' = Active /\ Inactive' = Inactive
      BY <2>3 DEF Active, Inactive
    <3>2. array'[Inactive] = map[Inactive]
      BY <1>1, <1>2, <2>3 DEF TypeOK
    <3>. QED
      BY <2>2, <2>3, <3>1, <3>2 DEF LoadedIn
  <2>5. ASSUME next'[a] \in 1..Len(Program[a]) PROVE Op(a)' # "swap"
    BY <1>1, <2>1, <2>3, <2>5, NextCall
  <2>6. Staged(a)'
    BY <1>1, <2>1, <2>3, <2>4, <2>5 DEF Staged, TypeOK
  <2>7. CallFacts(a)'
    BY <1>1, <2>3 DEF CallFacts, TypeOK
  <2>. QED
    BY <1>1, <1>2, <1>3, <2>1, <2>3, <2>6, <2>7 DEF RollQuiet, TypeOK
<1>12. CASE CallFree(t)
  <2>1. t = a /\ Op(a) = "freeInactive" /\ pc[a] = "idle" /\ next[a] \in 1..Len(Program[a])
    BY <1>1, <1>12, RollCalls DEF CallFree, Calls
  <2>2. /\ state' = [state EXCEPT ![Inactive] = "NONE"] /\ blob' = [blob EXCEPT ![Inactive] = Garbage]
        /\ pc' = [pc EXCEPT ![a] = "freeFolded"]
        /\ UNCHANGED <<useSecondary, map, array, ref, result, next>>
    BY <1>12, <2>1 DEF CallFree, Goto, locals
  <2>3. Staged(a)'
    BY <1>1, <2>1, <2>2 DEF Staged, TypeOK, Op
  <2>4. CallFacts(a)'
    BY <1>1, <2>1, <2>2 DEF CallFacts, InCall, TypeOK, Op
  <2>. QED
    BY <1>1, <1>2, <1>3, <2>1, <2>2, <2>3, <2>4 DEF RollQuiet, TypeOK
<1>13. CASE FreeFolded(t)
  <2>1. InCall(t) /\ pc[a] = "freeFolded" /\ Op(a) = "freeInactive" /\ t = a
    BY <1>1, <1>13, RollOps DEF FreeFolded, CallFacts, InCall, RunLabels, FoldLabels
  <2>2. /\ map' = [map EXCEPT ![Inactive].folded = Garbage] /\ pc' = [pc EXCEPT ![a] = "idle"]
        /\ next' = [next EXCEPT ![a] = @ + 1]
        /\ UNCHANGED <<useSecondary, state, blob, array, ref, result>>
    BY <1>13, <2>1 DEF FreeFolded, Return, Goto, Advance, locals
  <2>3. ASSUME next'[a] \in 1..Len(Program[a]) PROVE Op(a)' # "swap" /\ Op(a)' # "foldInactive"
    BY <1>1, <2>1, <2>2, <2>3, NextCall
  <2>4. Staged(a)'
    BY <1>1, <2>1, <2>2, <2>3 DEF Staged, TypeOK
  <2>5. CallFacts(a)'
    BY <1>1, <2>2 DEF CallFacts, TypeOK
  <2>. QED
    BY <1>1, <1>2, <1>3, <2>1, <2>2, <2>4, <2>5 DEF RollQuiet, TypeOK
<1>. QED
  BY <1>3, <1>4, <1>5, <1>6, <1>7, <1>8, <1>9, <1>10, <1>11, <1>12, <1>13 DEF Manage

\* The end of a fold of run: the active buffer is ready, whichever buffer the call saw
\* when it looked.
LEMMA InstallRolls ==
  ASSUME NEW a \in Threads, Rollouts(a), RollInv(a), NEW t \in Threads, Install(t), Op(t) = "run"
  PROVE  RollFacts(a)'
<1>1. TypeOK /\ CallFacts(t) /\ ActiveServes /\ Staged(a) /\ pc[t] = "install"
  BY DEF RollInv, RollFacts, UseInv, PoolInv, Install
<1>2. /\ Active \in Buffers /\ Inactive \in Buffers /\ Active # Inactive
      /\ \A b \in Buffers : b = Active \/ b = Inactive
  BY <1>1, TwoBuffers
<1>3. InCall(t) /\ result[t] = blob[Active] /\ (ref[t] = Active \/ ReadyIn(Active)) /\ ref[t] \in Buffers
  BY <1>1 DEF CallFacts, RunRelies, TypeOK
<1>4. /\ state' = [state EXCEPT ![Active] = "INITIALIZED", ![ref[t]] = "FOLDED"]
      /\ map' = [map EXCEPT ![Active].folded = result[t]]
      /\ array' = [array EXCEPT ![Active] = map'[Active]]
      /\ pc' = [pc EXCEPT ![t] = "relock"]
      /\ UNCHANGED <<useSecondary, blob, ref, result, next>>
  BY <1>1 DEF Install, Target, Goto, locals
<1>5. Active' = Active /\ Inactive' = Inactive /\ \A u \in Threads : Op(u)' = Op(u)
  BY <1>4 DEF Active, Inactive, Op
<1>6. map'[Active] = [map[Active] EXCEPT !.folded = result[t]] /\ array'[Active] = map'[Active]
  BY <1>1, <1>2, <1>4 DEF TypeOK
<1>7. map'[Active].home = Active /\ map'[Active].folded = blob[Active]
  BY <1>1, <1>2, <1>3, <1>6 DEF TypeOK, Entries, ActiveServes, LoadedIn
<1>8. ReadyIn(Active)'
  BY <1>1, <1>4, <1>5, <1>6, <1>7 DEF ReadyIn, LoadedIn, ActiveServes
<1>9. state'[Active] # "NONE"
  BY <1>1, <1>2, <1>4 DEF TypeOK
<1>10. ActiveServes'
  BY <1>5, <1>8, <1>9 DEF ActiveServes, ReadyIn
<1>11. ASSUME NEW u \in Threads PROVE CallFacts(u)'
  <2>1. CASE u = t
    BY <1>1, <1>3, <1>4, <1>5, <1>8, <2>1 DEF CallFacts, InCall, RunRelies, RunLabels, TypeOK
  <2>2. CASE u # t
    <3>1. CallFacts(u) /\ pc'[u] = pc[u]
      BY <1>1, <1>4, <2>2 DEF RollInv, RollFacts, TypeOK
    <3>. QED
      BY <1>4, <1>5, <1>8, <3>1 DEF CallFacts, InCall, RunRelies
  <2>. QED
    BY <2>1, <2>2
<1>12. Staged(a)'
  <2>1. /\ blob'[Inactive] = blob[Inactive] /\ map'[Inactive] = map[Inactive]
        /\ array'[Inactive] = array[Inactive]
        /\ state[Inactive] = "FOLDED" => state'[Inactive] = "FOLDED"
    BY <1>1, <1>2, <1>3, <1>4 DEF TypeOK
  <2>2. CASE a # t
    <3>1. pc'[a] = pc[a]
      BY <1>4, <2>2
    <3>. QED
      BY <1>1, <1>4, <1>5, <2>1, <3>1 DEF Staged, ReadyIn, LoadedIn
  <2>3. CASE a = t
    <3>1. pc'[a] = "relock" /\ Op(a) = "run"
      BY <1>1, <1>4, <2>3 DEF TypeOK
    <3>. QED
      BY <1>1, <1>4, <1>5, <3>1 DEF Staged
  <2>. QED
    BY <2>2, <2>3
<1>. QED
  BY <1>10, <1>11, <1>12 DEF RollFacts

\* A swap: the buffer that becomes the active one has been made ready.  No call of run is
\* between its fold and the installation of what it has folded.
LEMMA SwapRolls ==
  ASSUME NEW a \in Threads, Rollouts(a), RollInv(a), NEW t \in Threads, Swap(t)
  PROVE  RollFacts(a)'
<1>1. TypeOK /\ CallFacts(t) /\ ActiveServes /\ Staged(a) /\ pc[t] = "swapUnique" /\ Locked
  BY DEF RollInv, RollFacts, UseInv, PoolInv, Swap
<1>2. InCall(t) /\ Op(a) = "swap" /\ t = a
  BY <1>1, RollOps DEF CallFacts, InCall, RunLabels, FoldLabels
<1>3. ReadyIn(Inactive) /\ state[Inactive] = "FOLDED"
  BY <1>1, <1>2 DEF Staged, InCall
<1>4. /\ pc' = [pc EXCEPT ![a] = "idle"] /\ next' = [next EXCEPT ![a] = @ + 1]
      /\ useSecondary' = ~useSecondary
      /\ UNCHANGED <<state, blob, map, array, ref, result>>
  BY <1>2 DEF Swap, Return, Goto, Advance, locals
<1>5. Active' = Inactive /\ Inactive' = Active
  BY <1>1, <1>4 DEF Active, Inactive, TypeOK
<1>6. ReadyIn(Active)' /\ ActiveServes'
  BY <1>3, <1>4, <1>5 DEF ReadyIn, LoadedIn, ActiveServes
<1>7. ASSUME NEW u \in Threads PROVE CallFacts(u)'
  <2>1. CASE u = a
    BY <1>1, <1>4, <2>1 DEF CallFacts, TypeOK
  <2>2. CASE u # a
    <3>1. CallFacts(u) /\ pc'[u] = pc[u] /\ next'[u] = next[u] /\ Op(u)' = Op(u)
      BY <1>1, <1>4, <2>2 DEF RollInv, RollFacts, TypeOK, Op
    <3>2. pc[u] # "install"
      BY <1>1, ThreadsAssumption DEF Locked, LockedLabels, Swap, UniqueFree
    <3>. QED
      BY <1>4, <1>6, <3>1, <3>2 DEF CallFacts, InCall, RunRelies
  <2>. QED
    BY <2>1, <2>2
<1>8. Staged(a)'
  <2>1. ASSUME next'[a] \in 1..Len(Program[a]) PROVE Op(a)' # "swap" /\ Op(a)' # "foldInactive"
    BY <1>1, <1>2, <1>4, <2>1, NextCall
  <2>. QED
    BY <1>1, <1>4, <2>1 DEF Staged, TypeOK
<1>. QED
  BY <1>6, <1>7, <1>8 DEF RollFacts

\* Every step of a thread keeps the facts, and loses no model.
LEMMA StepRolls ==
  ASSUME NEW a \in Threads, Rollouts(a), RollInv(a), ~MayFail, NEW t \in Threads, Step(t)
  PROVE  RollFacts(a)' /\ ~CheckThrows(t) /\ ~FoldFails(t)
<1>1. ~CheckThrows(t) /\ ~FoldFails(t)
  BY DEF CheckThrows, FoldFails, RollInv, RollFacts, ActiveServes
<1>2. RollQuiet(a, t) \/ Swap(t) \/ (Install(t) /\ Op(t) = "run")
  BY AcquireRolls, GetModelRolls, ServeRolls, ManageRolls DEF Step
<1>. QED
  BY <1>1, <1>2, RollKept, SwapRolls, InstallRolls

\* The invariant of a rollout is inductive.
LEMMA NextRolls ==
  ASSUME NEW a \in Threads, Rollouts(a), ~MayFail
  PROVE  RollInv(a) /\ [Next]_vars => RollInv(a)'
<1>. SUFFICES ASSUME RollInv(a), [Next]_vars PROVE RollInv(a)'
  OBVIOUS
<1>1. UseInv'
  BY NextUse DEF RollInv
<1>2. AttachedToActive'
  <2>1. ASSUME NEW t \in Threads, Step(t) PROVE AttachedToActive'
    BY <2>1, StepAttached DEF RollInv
  <2>2. ASSUME UNCHANGED <<attached, useSecondary, held, next>>,
               \A t \in Threads : pc'[t] = pc[t] \/ pc[t] = "asleep"
        PROVE  AttachedToActive'
    BY <2>2 DEF RollInv, AttachedToActive, Active, Op
  <2>. QED
    BY <2>1, <2>2, OtherMoves DEF RollInv, Next, AllDone
<1>3. RollFacts(a)'
  <2>1. ASSUME NEW t \in Threads, Step(t) PROVE RollFacts(a)'
    BY <2>1, StepRolls
  <2>2. ASSUME UNCHANGED <<useSecondary, state, blob, map, array, ref, result, next>>,
               \A t \in Threads : pc'[t] = pc[t] \/ (pc[t] = "asleep" /\ pc'[t] = "woken")
        PROVE  RollFacts(a)'
    <3>1. CallFacts(a)'
      BY <2>2 DEF RollInv, RollFacts, CallFacts, InCall, RunRelies, RunLabels, FoldLabels, Op,
                  Active, ReadyIn, LoadedIn
    <3>2. Staged(a)'
      BY <2>2 DEF RollInv, RollFacts, Staged, Op, Inactive, ReadyIn, LoadedIn
    <3>. QED
      BY <2>2, <3>1, <3>2, RollKept DEF RollQuiet
  <2>3. ASSUME NEW t \in Threads, SpuriousWakeup(t) PROVE RollFacts(a)'
    <3>1. \A u \in Threads : pc'[u] = pc[u] \/ (pc[u] = "asleep" /\ pc'[u] = "woken")
      BY <2>3 DEF SpuriousWakeup, Goto, RollInv, UseInv, PoolInv, TypeOK
    <3>. QED
      BY <2>2, <2>3, <3>1 DEF SpuriousWakeup, constants, locals
  <2>4. ASSUME NEW m \in Models, Finish(m) PROVE RollFacts(a)'
    BY <2>2, <2>4 DEF Finish, constants, locals
  <2>5. CASE UNCHANGED vars
    BY <2>2, <2>5 DEF vars, constants, locals
  <2>. QED
    BY <2>1, <2>3, <2>4, <2>5 DEF Next, AllDone
<1>. QED
  BY <1>1, <1>2, <1>3 DEF RollInv

\* The constructor establishes it: the manager begins with nothing prepared.
LEMMA InitRolls ==
  ASSUME NEW a \in Threads, Rollouts(a)
  PROVE  Init => RollInv(a)
<1>. SUFFICES ASSUME Init PROVE RollInv(a)
  OBVIOUS
<1>1. UseInv /\ AttachedToActive
  BY InitUse DEF Init, AttachedToActive, Active, Primary
<1>2. ActiveServes
  BY VersionsAssumption DEF Init, ActiveServes, LoadedIn, ReadyIn, Active, Primary, Buffers
<1>3. \A t \in Threads : CallFacts(t)
  BY DEF Init, CallFacts
<1>4. Staged(a)
  BY DEF Init, Staged, Rollouts, Op
<1>. QED
  BY <1>1, <1>2, <1>3, <1>4 DEF RollInv, RollFacts

\* While one thread rolls out new weights, again and again, and any number of others run
\* models, every launch is on constants that are loaded and folded, of one version or the
\* other (update_constant_buffer, run_const_fold, swap_constant_buffer and run).  Hypothesis:
\* nothing fails, and the manager folds what it has loaded before it swaps.
THEOREM RolloutsAreReady ==
  ASSUME NEW a \in Threads, Rollouts(a), ~MayFail PROVE Spec => []ReadyForAll
<1>1. RollInv(a) => ReadyForAll
  <2>. SUFFICES ASSUME RollInv(a), NEW t \in Threads, pc[t] = "exec"
                PROVE  Ready(attached[held[t]])
    BY DEF ReadyForAll
  <2>1. CallFacts(t) /\ Op(t) = "run" /\ held[t] \in Models
    BY HeldType DEF RollInv, RollFacts, UseInv, PoolInv, RunsCheck, HoldingLabels
  <2>2. ~Borrowed(held[t])
    BY <2>1, ModelsAssumption DEF Borrowed, RollInv, UseInv, PoolInv, ExclusiveLease
  <2>3. attached[held[t]] = Active
    BY <2>1, <2>2 DEF RollInv, AttachedToActive, Borrowed
  <2>4. ReadyIn(Active)
    BY <2>1 DEF CallFacts, RunRelies
  <2>. QED
    BY <2>3, <2>4, BufferTypes DEF ReadyIn, LoadedIn, Ready, Loaded, NoBuffer, Buffers
<1>. QED
  BY <1>1, InitRolls, NextRolls, PTL DEF Spec

\* Nor is a model lost in any number of rollouts: run never finds the active buffer in an
\* unknown state.
THEOREM RolloutsLoseNoModel ==
  ASSUME NEW a \in Threads, Rollouts(a), ~MayFail PROVE Spec => []NoLostModel
<1>1. Init => NoLostModel
  BY DEF Init, NoLostModel, Leased
<1>2. RollInv(a) /\ NoLostModel /\ [Next]_vars => NoLostModel'
  <2>. SUFFICES ASSUME RollInv(a), NoLostModel, [Next]_vars PROVE NoLostModel'
    OBVIOUS
  <2>1. ASSUME NEW t \in Threads, Step(t) PROVE NoLostModel'
    BY <2>1, StepRolls, StepKeepsModels DEF RollInv, UseInv
  <2>. QED
    BY <2>1, OtherStepPool DEF Next, AllDone, KeepsPool, NoLostModel, Leased, RollInv, UseInv
<1>. QED
  BY <1>1, <1>2, InitRolls, NextRolls, PTL DEF Spec

=============================================================================
