-------------------------- MODULE ModelContainer --------------------------
(***************************************************************************)
(* AOTInductorModelContainer: the pool of compiled models that serves      *)
(* inference calls from several host threads, together with the two        *)
(* constant buffers ("double buffering" of the weights) that the models    *)
(* read.                                                                   *)
(*                                                                         *)
(* Every public operation is a sequence of atomic steps cut where the code *)
(* takes or drops model_exec_mutex_ or models_mutex_, waits, or touches    *)
(* shared state with no lock at all.  A thread runs Program[t], a finite   *)
(* sequence of calls, which bounds the workload.                           *)
(*                                                                         *)
(* Abstractions.  Constants are represented by the version of the weights  *)
(* they were loaded or folded from.  available_models_ and pending_models_ *)
(* are sets: the order in which the code visits them (std::partition on    *)
(* aarch64 leaves it unspecified) only resolves a choice between models.   *)
(* When is_finished throws inside the partition, pending_models_ keeps its *)
(* models: so does std::partition; std::stable_partition, used elsewhere,  *)
(* promises nothing in that case, and what it may do is not modelled.      *)
(***************************************************************************)
EXTENDS Naturals, Sequences, FiniteSets

CONSTANTS
    Threads,     \* host threads that call into the container
    Models,      \* model instances owned by the container
    NoModel,     \* "no model"
    NoThread,    \* "no thread": the exec mutex is not held in unique mode
    Versions,    \* versions of the weights a caller may load
    Garbage,     \* contents of a blob that is not, or not entirely, loaded
    FirstVersion,\* the version embedded in the model library
    Program,     \* the calls each thread makes, in order
    Warm,        \* TRUE: a first run already completed before the threads start
    MayFail,     \* TRUE: device calls may fail
    Gated        \* TRUE: callers admit no more calls than models while cold

Buffers == {"primary", "secondary"}
NoBuffer == "none"
States == {"NONE", "INITIALIZED", "FOLDED"}
Ops == {"run", "runSingle", "foldActive", "foldInactive",
        "updateActive", "updateInactive", "swap", "freeInactive"}

ASSUME ModelsAssumption == Models # {} /\ NoModel \notin Models
ASSUME ThreadsAssumption == NoThread \notin Threads
ASSUME VersionsAssumption == FirstVersion \in Versions /\ Garbage \notin Versions
ASSUME ProgramAssumption == Program \in [Threads -> Seq(Ops)]
ASSUME FlagsAssumption == {Warm, MayFail, Gated} \subseteq BOOLEAN

VARIABLES
    useSecondary,  \* use_secondary_
    state,         \* constant_folded_ and constant_folded_secondary_
    blob,          \* version held by each constant blob
    map,           \* constants_map_*: where the loaded constants live, what the folded ones are
    array,         \* constants_array_*: the same, as the models read it
    attached,      \* buffer whose map and array a model points to
    available,     \* available_models_
    pending,       \* pending_models_
    executing,     \* models with unfinished work on the device
    writer,        \* holder of model_exec_mutex_ in unique mode
    readers,       \* holders of model_exec_mutex_ in shared mode
    pc,            \* where each thread is in its current call
    held,          \* local variable model
    ref,           \* local reference const_folded, or the map an update writes
    result,        \* local folded_const_map
    next           \* index in Program[t] of the current or next call

constants == <<useSecondary, state, blob, map, array, attached>>
pool == <<available, pending, executing>>
lock == <<writer, readers>>
locals == <<held, ref, result>>
vars == <<constants, pool, lock, pc, locals, next>>

Contents == Versions \cup {Garbage}
Entries == [home : Buffers \cup {NoBuffer}, folded : Contents]

Labels == {"idle", "wantShared", "wantModel", "asleep", "woken", "completing",
           "check", "runUnique", "foldUnique", "swapUnique", "folding",
           "install", "relock", "exec", "push", "notify",
           "updateMap", "updateCopy", "updateArray", "freeFolded"}

\* Every variable has its type: in particular the lists of the pool hold models
\* only, never the empty local variable of a call that has ended.
TypeOK ==
    /\ useSecondary \in BOOLEAN
    /\ state \in [Buffers -> States]
    /\ blob \in [Buffers -> Contents]
    /\ map \in [Buffers -> Entries]
    /\ array \in [Buffers -> Entries]
    /\ attached \in [Models -> Buffers]
    /\ available \subseteq Models
    /\ pending \subseteq Models
    /\ executing \subseteq Models
    /\ writer \in Threads \cup {NoThread}
    /\ readers \subseteq Threads
    /\ pc \in [Threads -> Labels]
    /\ held \in [Threads -> Models \cup {NoModel}]
    /\ ref \in [Threads -> Buffers]
    /\ result \in [Threads -> Contents]
    /\ next \in [Threads -> Nat \ {0}]

-----------------------------------------------------------------------------
(* Helpers.                                                                *)

Op(t) == Program[t][next[t]]
Done(t) == pc[t] = "idle" /\ next[t] > Len(Program[t])
Calls(t, op) == pc[t] = "idle" /\ next[t] <= Len(Program[t]) /\ Op(t) = op

Primary == "primary"
Active == IF useSecondary THEN "secondary" ELSE "primary"
Inactive == IF useSecondary THEN "primary" ELSE "secondary"

\* The buffer that a use_inactive argument designates at this moment.
Target(t) == IF Op(t) \in {"foldInactive", "updateInactive"} THEN Inactive ELSE Active

\* What a model attached to buffer b reads through its array.
Loaded(b) == IF array[b].home = NoBuffer THEN Garbage ELSE blob[array[b].home]
Ready(b) == Loaded(b) # Garbage /\ array[b].folded = Loaded(b)

Goto(t, label) == pc' = [pc EXCEPT ![t] = label]
Hold(t, m) == held' = [held EXCEPT ![t] = m]
Advance(t) == next' = [next EXCEPT ![t] = @ + 1]

\* The call of t ends, by returning or by throwing.
Return(t) == Goto(t, "idle") /\ Advance(t)

UniqueFree == writer = NoThread /\ readers = {}

\* The destructors of the lock guards of t run.
Unlock(t) ==
    /\ readers' = readers \ {t}
    /\ writer' = IF writer = t THEN NoThread ELSE writer

Init ==
    \E m \in Models :
        /\ useSecondary = FALSE
        /\ state = [b \in Buffers |-> IF b # Primary THEN "NONE"
                                      ELSE IF Warm THEN "FOLDED" ELSE "INITIALIZED"]
        /\ blob = [b \in Buffers |-> IF b = Primary THEN FirstVersion ELSE Garbage]
        /\ map = [b \in Buffers |->
                    [home |-> IF b = Primary THEN b ELSE NoBuffer,
                     folded |-> IF b = Primary /\ Warm THEN FirstVersion ELSE Garbage]]
        /\ array = map
        /\ attached = [n \in Models |-> Primary]
        /\ pending = IF Warm THEN {m} ELSE {}
        /\ available = Models \ pending
        /\ executing = {}
        /\ writer = NoThread
        /\ readers = {}
        /\ pc = [t \in Threads |-> "idle"]
        /\ held = [t \in Threads |-> NoModel]
        /\ ref = [t \in Threads |-> Primary]
        /\ result = [t \in Threads |-> Garbage]
        /\ next = [t \in Threads |-> 1]

-----------------------------------------------------------------------------
(* Entering a call and taking model_exec_mutex_.                           *)

\* The callers' discipline that keeps a cold container out of a deadlock.
Admitted ==
    Gated /\ state[Active] # "FOLDED" =>
        Cardinality({u \in Threads : pc[u] # "idle"}) < Cardinality(Models)

CallRun(t) ==
    /\ Calls(t, "run")
    /\ Admitted
    /\ Goto(t, "wantShared")
    /\ UNCHANGED <<constants, pool, lock, locals, next>>

\* run_const_fold binds its reference to the state before taking any lock.
CallFold(t) ==
    /\ Calls(t, "foldActive") \/ Calls(t, "foldInactive")
    /\ ref' = [ref EXCEPT ![t] = Target(t)]
    /\ Goto(t, IF Op(t) = "foldActive" THEN "foldUnique" ELSE "wantShared")
    /\ UNCHANGED <<constants, pool, lock, held, result, next>>

CallSwap(t) ==
    /\ Calls(t, "swap")
    /\ Goto(t, "swapUnique")
    /\ UNCHANGED <<constants, pool, lock, locals, next>>

LockShared(t) ==
    /\ pc[t] \in {"wantShared", "relock"}
    /\ writer = NoThread
    /\ readers' = readers \cup {t}
    /\ Goto(t, IF pc[t] = "relock" THEN "exec" ELSE "wantModel")
    /\ UNCHANGED <<constants, pool, writer, locals, next>>

LockUniqueToFold(t) ==
    /\ pc[t] = "foldUnique"
    /\ UniqueFree
    /\ writer' = t
    /\ Goto(t, "wantModel")
    /\ UNCHANGED <<constants, pool, readers, locals, next>>

-----------------------------------------------------------------------------
(* get_available_model and reclaim_finished_models, under models_mutex_.   *)

AfterModel(t) == IF Op(t) = "run" THEN "check" ELSE "folding"

\* Faulty form: back() without pop_back().
TakeWithoutPop(t) ==
    /\ pc[t] = "wantModel"
    /\ \E m \in available : Hold(t, m)
    /\ Goto(t, AfterModel(t))
    /\ UNCHANGED <<constants, pool, lock, ref, result, next>>

TakeAvailable(t) ==
    /\ pc[t] = "wantModel"
    /\ \E m \in available :
          /\ available' = available \ {m}
          /\ Hold(t, m)
    /\ Goto(t, AfterModel(t))
    /\ UNCHANGED <<constants, pending, executing, lock, ref, result, next>>

\* Faulty forms: the finished models are erased from pending_models_ but
\* not inserted into available_models_; or they are inserted and not erased.
ReclaimDropping(t) ==
    /\ pc[t] = "wantModel"
    /\ available = {}
    /\ \E m \in pending \ executing : Hold(t, m)
    /\ pending' = pending \cap executing
    /\ Goto(t, AfterModel(t))
    /\ UNCHANGED <<constants, available, executing, lock, ref, result, next>>

ReclaimDuplicating(t) ==
    /\ pc[t] = "wantModel"
    /\ available = {}
    /\ \E m \in pending \ executing :
          /\ available' = (pending \ executing) \ {m}
          /\ Hold(t, m)
    /\ Goto(t, AfterModel(t))
    /\ UNCHANGED <<constants, pending, executing, lock, ref, result, next>>

\* The finished models all become available; one of them is taken.
Reclaim(t) ==
    /\ pc[t] = "wantModel"
    /\ available = {}
    /\ LET finished == pending \ executing IN
          \E m \in finished :
              /\ available' = finished \ {m}
              /\ pending' = pending \ finished
              /\ Hold(t, m)
    /\ Goto(t, AfterModel(t))
    /\ UNCHANGED <<constants, executing, lock, ref, result, next>>

\* Nothing is finished and something is pending: wait for one pending model,
\* with models_mutex_ released.
AwaitPending(t) ==
    /\ \/ pc[t] = "wantModel" /\ available = {} /\ pending \subseteq executing
       \/ pc[t] = "woken"
    /\ \E m \in pending :
          /\ pending' = pending \ {m}
          /\ Hold(t, m)
    /\ Goto(t, "completing")
    /\ UNCHANGED <<constants, available, executing, lock, ref, result, next>>

\* Nothing is pending: sleep on pending_models_available_.  A woken thread
\* evaluates the predicate again, and only that predicate.
Sleep(t) ==
    /\ \/ pc[t] = "wantModel" /\ available = {}
       \/ pc[t] = "woken"
    /\ pending = {}
    /\ Goto(t, "asleep")
    /\ UNCHANGED <<constants, pool, lock, locals, next>>

SpuriousWakeup(t) ==
    /\ pc[t] = "asleep"
    /\ Goto(t, "woken")
    /\ UNCHANGED <<constants, pool, lock, locals, next>>

\* Faulty form: no wait for the notifier of the model.
CompletedEarly(t) ==
    /\ pc[t] = "completing"
    /\ Goto(t, AfterModel(t))
    /\ UNCHANGED <<constants, pool, lock, locals, next>>

\* The model waited for is pushed to available_models_ and popped again in
\* the same critical section.
Completed(t) ==
    /\ pc[t] = "completing"
    /\ held[t] \notin executing
    /\ Goto(t, AfterModel(t))
    /\ UNCHANGED <<constants, pool, lock, locals, next>>

\* is_finished throws for a model whose work failed on the device.  It stays
\* pending, so that every later call that looks may throw again.
QueryFails(t) ==
    /\ MayFail
    /\ pc[t] = "wantModel"
    /\ available = {} /\ pending # {}
    /\ Unlock(t)
    /\ Return(t)
    /\ UNCHANGED <<constants, pool, locals>>

\* The exception of a call that gives its model back to available_models_
\* (which no condition variable announces).
ThrowReturningModel(t) ==
    /\ available' = available \cup {held[t]}
    /\ Hold(t, NoModel)
    /\ Unlock(t)
    /\ Return(t)
    /\ UNCHANGED pending

WaitFails(t) ==
    /\ MayFail
    /\ pc[t] = "completing"
    /\ ThrowReturningModel(t)
    /\ UNCHANGED <<constants, executing, ref, result>>

-----------------------------------------------------------------------------
(* run.                                                                    *)

\* The state is looked at once, through a reference that is kept.
CheckFolded(t) ==
    /\ pc[t] = "check"
    /\ state[Active] = "FOLDED"
    /\ ref' = [ref EXCEPT ![t] = Active]
    /\ Goto(t, "exec")
    /\ UNCHANGED <<constants, pool, lock, held, result, next>>

CheckInitialized(t) ==
    /\ pc[t] = "check"
    /\ state[Active] = "INITIALIZED"
    /\ ref' = [ref EXCEPT ![t] = Active]
    /\ readers' = readers \ {t}
    /\ Goto(t, "runUnique")
    /\ UNCHANGED <<constants, pool, writer, held, result, next>>

\* "Unknown constant state" is thrown outside the try block: the model is
\* not given back.
CheckThrows(t) ==
    /\ pc[t] = "check"
    /\ state[Active] = "NONE"
    /\ ref' = [ref EXCEPT ![t] = Active]
    /\ Hold(t, NoModel)
    /\ Unlock(t)
    /\ Return(t)
    /\ UNCHANGED <<constants, pool, result>>

\* Faulty form: the state is not checked again under the unique lock.
LockUniqueUnchecked(t) ==
    /\ pc[t] = "runUnique"
    /\ UniqueFree
    /\ writer' = t
    /\ Goto(t, "folding")
    /\ UNCHANGED <<constants, pool, readers, locals, next>>

\* Double-checked: a thread that finds the constants folded drops the lock.
LockUniqueToRun(t) ==
    /\ pc[t] = "runUnique"
    /\ UniqueFree
    /\ \/ /\ state[ref[t]] = "INITIALIZED"
          /\ writer' = t
          /\ Goto(t, "folding")
       \/ /\ state[ref[t]] # "INITIALIZED"
          /\ Goto(t, "relock")
          /\ UNCHANGED writer
    /\ UNCHANGED <<constants, pool, readers, locals, next>>

Execute(t) ==
    /\ pc[t] = "exec"
    /\ executing' = executing \cup {held[t]}
    /\ Goto(t, "push")
    /\ UNCHANGED <<constants, available, pending, lock, locals, next>>

\* A failing launch may leave work on the device.
ExecuteFails(t) ==
    /\ MayFail
    /\ pc[t] = "exec"
    /\ executing' \in {executing, executing \cup {held[t]}}
    /\ ThrowReturningModel(t)
    /\ UNCHANGED <<constants, ref, result>>

\* Faulty form: the local variable is cleared before it is pushed.
PushCleared(t) ==
    /\ pc[t] = "push"
    /\ Hold(t, NoModel)
    /\ pending' = pending \cup {held'[t]}
    /\ Goto(t, "notify")
    /\ UNCHANGED <<constants, available, executing, lock, ref, result, next>>

Push(t) ==
    /\ pc[t] = "push"
    /\ pending' = pending \cup {held[t]}
    /\ Hold(t, NoModel)
    /\ Goto(t, "notify")
    /\ UNCHANGED <<constants, available, executing, lock, ref, result, next>>

\* Faulty form: nobody is notified.
NotifyNobody(t) ==
    /\ pc[t] = "notify"
    /\ Return(t)
    /\ Unlock(t)
    /\ UNCHANGED <<constants, pool, locals>>

\* notify_one, and the end of the call.
Notify(t) ==
    /\ pc[t] = "notify"
    /\ LET sleeping == {w \in Threads : pc[w] = "asleep"} IN
          \/ /\ sleeping = {}
             /\ Goto(t, "idle")
          \/ \E w \in sleeping : pc' = [pc EXCEPT ![t] = "idle", ![w] = "woken"]
    /\ Advance(t)
    /\ Unlock(t)
    /\ UNCHANGED <<constants, pool, locals>>

-----------------------------------------------------------------------------
(* Constant folding, in run and in run_const_fold.                         *)

\* foldInactive first points its model to the inactive map and array.
FoldSource(t) == IF Op(t) = "foldInactive" THEN Inactive ELSE attached[held[t]]

Fold(t) ==
    /\ pc[t] = "folding"
    /\ attached' = [attached EXCEPT ![held[t]] = FoldSource(t)]
    /\ result' = [result EXCEPT ![t] = Loaded(FoldSource(t))]
    /\ executing' = executing \cup {held[t]}
    /\ Goto(t, "install")
    /\ UNCHANGED <<useSecondary, state, blob, map, array, available, pending,
                   lock, held, ref, next>>

\* In run the exception loses the model; in run_const_fold it gives it back,
\* as it is attached at that moment.
FoldFails(t) ==
    /\ MayFail
    /\ pc[t] = "folding"
    /\ attached' = [attached EXCEPT ![held[t]] = FoldSource(t)]
    /\ executing' \in {executing, executing \cup {held[t]}}
    /\ \/ /\ Op(t) # "run"
          /\ ThrowReturningModel(t)
       \/ /\ Op(t) = "run"
          /\ Hold(t, NoModel)
          /\ Unlock(t)
          /\ Return(t)
          /\ UNCHANGED <<available, pending>>
    /\ UNCHANGED <<useSecondary, state, blob, map, array, ref, result>>

\* Faulty form: the model borrowed for the inactive buffer keeps reading it.
InstallWithoutRestore(t) ==
    /\ pc[t] = "install"
    /\ state' = [state EXCEPT ![Target(t)] = "INITIALIZED", ![ref[t]] = "FOLDED"]
    /\ map' = [map EXCEPT ![Target(t)].folded = result[t]]
    /\ array' = [array EXCEPT ![Target(t)] = map'[Target(t)]]
    /\ Unlock(t)
    /\ Goto(t, IF Op(t) = "run" THEN "relock" ELSE "push")
    /\ UNCHANGED <<useSecondary, blob, attached, pool, locals, next>>

\* update_constant_buffer (moved handles) marks the targeted buffer
\* INITIALIZED and installs the folded constants; the caller then marks the
\* buffer its own reference designates as FOLDED and drops the lock.
Install(t) ==
    /\ pc[t] = "install"
    /\ state' = [state EXCEPT ![Target(t)] = "INITIALIZED", ![ref[t]] = "FOLDED"]
    /\ map' = [map EXCEPT ![Target(t)].folded = result[t]]
    /\ array' = [array EXCEPT ![Target(t)] = map'[Target(t)]]
    /\ attached' = IF Op(t) = "foldInactive"
                   THEN [attached EXCEPT ![held[t]] = Active] ELSE attached
    /\ Unlock(t)
    /\ Goto(t, IF Op(t) = "run" THEN "relock" ELSE "push")
    /\ UNCHANGED <<useSecondary, blob, pool, locals, next>>

-----------------------------------------------------------------------------
(* Operations on the buffers.                                              *)

\* Faulty form: the buffers are swapped without the lock.
SwapUnlocked(t) ==
    /\ pc[t] = "swapUnique"
    /\ attached' = [m \in Models |-> Inactive]
    /\ useSecondary' = ~useSecondary
    /\ Return(t)
    /\ UNCHANGED <<state, blob, map, array, pool, lock, locals>>

\* Every model is pointed to the inactive buffer, which becomes active.
Swap(t) ==
    /\ pc[t] = "swapUnique"
    /\ UniqueFree
    /\ attached' = [m \in Models |-> Inactive]
    /\ useSecondary' = ~useSecondary
    /\ Return(t)
    /\ UNCHANGED <<state, blob, map, array, pool, lock, locals>>

\* update_constant_buffer (copied data) takes no lock: the state it marks, the
\* map, the blob and the array are each chosen by use_secondary_ at their time.
CallUpdate(t) ==
    /\ Calls(t, "updateActive") \/ Calls(t, "updateInactive")
    /\ state' = [state EXCEPT ![Target(t)] = "INITIALIZED"]
    /\ Goto(t, "updateMap")
    /\ UNCHANGED <<useSecondary, blob, map, array, attached, pool, lock, locals, next>>

UpdateMap(t) ==
    /\ pc[t] = "updateMap"
    /\ ref' = [ref EXCEPT ![t] = Target(t)]
    /\ Goto(t, "updateCopy")
    /\ UNCHANGED <<constants, pool, lock, held, result, next>>

UpdateCopy(t) ==
    /\ pc[t] = "updateCopy"
    /\ \E v \in Versions : blob' = [blob EXCEPT ![Target(t)] = v]
    /\ map' = [map EXCEPT ![ref[t]].home = Target(t)]
    /\ Goto(t, "updateArray")
    /\ UNCHANGED <<useSecondary, state, array, attached, pool, lock, locals, next>>

\* A copy fails after some constants have been overwritten.
UpdateFails(t) ==
    /\ MayFail
    /\ pc[t] = "updateCopy"
    /\ blob' = [blob EXCEPT ![Target(t)] = Garbage]
    /\ Return(t)
    /\ UNCHANGED <<useSecondary, state, map, array, attached, pool, lock, locals>>

UpdateArray(t) ==
    /\ pc[t] = "updateArray"
    /\ array' = [array EXCEPT ![Target(t)] = map[ref[t]]]
    /\ Return(t)
    /\ UNCHANGED <<useSecondary, state, blob, map, attached, pool, lock, locals>>

\* free_inactive_constant_buffer takes no lock either, and looks at
\* use_secondary_ again before it resets the folded constants.  The caller
\* frees a buffer that was loaded: one that never was has no map.
CallFree(t) ==
    /\ Calls(t, "freeInactive")
    /\ state' = [state EXCEPT ![Inactive] = "NONE"]
    /\ blob' = [blob EXCEPT ![Inactive] = Garbage]
    /\ Goto(t, "freeFolded")
    /\ UNCHANGED <<useSecondary, map, array, attached, pool, lock, locals, next>>

FreeFolded(t) ==
    /\ pc[t] = "freeFolded"
    /\ map' = [map EXCEPT ![Inactive].folded = Garbage]
    /\ Return(t)
    /\ UNCHANGED <<useSecondary, state, blob, array, attached, pool, lock, locals>>

-----------------------------------------------------------------------------
(* run_single_threaded.  The model stays in available_models_.  Its callers *)
(* are alone and find a model there: the code takes the first element of    *)
(* available_models_ without a lock and without looking whether there is    *)
(* one, which is undefined when there is none, and waits for nothing.       *)

Alone(t) == available # {} /\ \A u \in Threads \ {t} : pc[u] = "idle"

RunSingleFolding(t) ==
    /\ Calls(t, "runSingle") /\ Alone(t)
    /\ state[Active] = "INITIALIZED"
    /\ \E m \in available :
          LET folded == Loaded(attached[m]) IN
          /\ map' = [map EXCEPT ![Active].folded = folded]
          /\ array' = [array EXCEPT ![Active] = map'[Active]]
          /\ executing' = executing \cup {m}
    /\ state' = [state EXCEPT ![Active] = "FOLDED"]
    /\ Advance(t)
    /\ UNCHANGED <<useSecondary, blob, attached, available, pending, lock, pc, locals>>

\* The branch that accepts a folded buffer tests the primary state.
RunSingle(t) ==
    /\ Calls(t, "runSingle") /\ Alone(t)
    /\ state[Active] # "INITIALIZED"
    /\ \/ /\ state[Primary] = "FOLDED"
          /\ \E m \in available : executing' = executing \cup {m}
       \/ /\ state[Primary] # "FOLDED"
          /\ UNCHANGED executing
    /\ Advance(t)
    /\ UNCHANGED <<constants, available, pending, lock, pc, locals>>

-----------------------------------------------------------------------------
\* The device finishes the work of a model.
Finish(m) ==
    /\ m \in executing
    /\ executing' = executing \ {m}
    /\ UNCHANGED <<constants, available, pending, lock, pc, locals, next>>

AllDone == (\A t \in Threads : Done(t)) /\ UNCHANGED vars

Acquire(t) ==
    LockShared(t) \/ LockUniqueToFold(t) \/ LockUniqueToRun(t) \/ Swap(t)

GetModel(t) ==
    \/ TakeAvailable(t) \/ Reclaim(t) \/ AwaitPending(t) \/ Sleep(t)
    \/ QueryFails(t) \/ Completed(t) \/ WaitFails(t)

Serve(t) ==
    \/ CallRun(t) \/ CheckFolded(t) \/ CheckInitialized(t) \/ CheckThrows(t)
    \/ Execute(t) \/ ExecuteFails(t) \/ Push(t) \/ Notify(t)
    \/ RunSingleFolding(t) \/ RunSingle(t)

Manage(t) ==
    \/ CallFold(t) \/ Fold(t) \/ FoldFails(t) \/ Install(t)
    \/ CallSwap(t) \/ CallUpdate(t) \/ UpdateMap(t) \/ UpdateCopy(t)
    \/ UpdateFails(t) \/ UpdateArray(t) \/ CallFree(t) \/ FreeFolded(t)

Step(t) == Acquire(t) \/ GetModel(t) \/ Serve(t) \/ Manage(t)

Next ==
    \/ \E t \in Threads : Step(t) \/ SpuriousWakeup(t)
    \/ \E m \in Models : Finish(m)
    \/ AllDone

Spec == Init /\ [][Next]_vars

\* Threads are scheduled and the device finishes what it was given.  Nothing
\* is assumed of spurious wakeups or of the fairness of the locks.
Fairness ==
    /\ \A t \in Threads : WF_vars(Step(t))
    /\ \A m \in Models : WF_vars(Finish(m))

FairSpec == Spec /\ Fairness

-----------------------------------------------------------------------------
(* Properties.                                                             *)

Leased == {held[t] : t \in Threads} \ {NoModel}

\* A model is in one place only: no two calls use it at the same time, and
\* none is offered to a new call while another still has it
\* (available_models_, pending_models_ and the local variables model).
ExclusiveLease ==
    /\ available \cap pending = {}
    /\ \A t \in Threads : held[t] \notin available \cup pending
    /\ \A t, u \in Threads : t # u /\ held[t] = held[u] => held[t] = NoModel

\* No model is lost: each is available, pending or in use by a call, so that
\* the container can serve as many calls at once as it was built for.
NoLostModel == Models = available \cup pending \cup Leased

\* A call gets a model whose previous work the device has finished: its
\* notifier is not placed again while somebody may still wait on it
\* (reclaim_finished_models, wait_for_completion).
FreshLease ==
    \A t \in Threads :
        pc[t] = "check" \/ (pc[t] = "folding" /\ Op(t) # "run")
            => held[t] \notin executing

\* "make sure constant is ready for all": a model is launched only on loaded
\* constants, with the folded constants computed from those very constants
\* (run, under model_exec_mutex_).
ReadyForAll ==
    \A t \in Threads : pc[t] = "exec" => Ready(attached[held[t]])

\* "constant folding is only ran once": no call of run folds the active
\* buffer when its folded constants are up to date (run, double locking).
FoldedOnce ==
    \A t \in Threads : pc[t] = "folding" /\ Op(t) = "run" => ~Ready(Active)

\* Every model reads the buffer use_secondary_ designates, except the one
\* run_const_fold borrows to fold the inactive buffer.
AttachedToActive ==
    \A m \in Models :
        \/ attached[m] = Active
        \/ \E t \in Threads :
              held[t] = m /\ pc[t] = "install" /\ Op(t) = "foldInactive"

\* A model is never pointed to another buffer by one thread while another
\* thread folds with it or is about to launch it (swap_constant_buffer takes
\* model_exec_mutex_ in unique mode).
StableWhileInUse ==
    [][\A t \in Threads :
          pc[t] \in {"exec", "folding", "install"} /\ pc'[t] = pc[t]
              => attached'[held[t]] = attached[held[t]]]_vars

\* A sleeping call can still be woken: it is never the case that every model
\* is in the hands of calls that wait for the sleeper's own shared lock.
SleepersCanWake ==
    \A t \in Threads :
        pc[t] = "asleep" /\ t \in readers =>
            \/ available \cup pending # {}
            \/ \E u \in Threads \ {t} :
                  held[u] # NoModel /\ pc[u] # "runUnique"

\* Every call of every thread returns (no lost wakeup, no circular wait
\* between model_exec_mutex_ and the pool).
Termination == <>(\A t \in Threads : Done(t))

\* The container implements the abstract pool: each step leases one model,
\* gives one back, loses one, or changes nothing a caller can see of the pool
\* (get_available_model, and the push_back of every path that ends a call).
Pool == INSTANCE ModelPool
            WITH Clients <- Threads, free <- available \cup pending, lease <- held
ImplementsPool == Pool!Spec

\* run_single_threaded is a variant of run: it runs a model whenever the
\* active constants are folded.
SingleRunsFolded ==
    [][\A t \in Threads :
          Calls(t, "runSingle") /\ next'[t] # next[t] /\ state[Active] = "FOLDED"
              => \E m \in Models : executing' = executing \cup {m}]_vars
=============================================================================
