----------------------------- MODULE LazyInit -----------------------------
(* Lazy initialisation of the device runtime (torch_mlu.mlu): calls made    *)
(* before initialisation are queued by _lazy_call and run by the thread     *)
(* that wins _lazy_init, behind a double-checked lock.  The queued calls    *)
(* modelled are the ones that write the state of the random number          *)
(* generator, so that their order can be seen.                              *)
(*                                                                         *)
(* Threads are preempted between any two steps (the GIL makes each queue    *)
(* operation atomic, not their sequence).  A call is identified by the      *)
(* thread that makes it and its index in the program of that thread.        *)
EXTENDS Naturals, Sequences, FiniteSets

CONSTANTS
    Threads,  \* threads of the process
    Nobody,   \* "no thread": the lock is free
    Program,  \* what each thread calls: "init", "set", "seed" or "seedAll"
    MayFail   \* TRUE: the device may refuse to initialise

Ops == {"init", "set", "seed", "seedAll"}

ASSUME ThreadsAssumption == Nobody \notin Threads
ASSUME ProgramAssumption == Program \in [Threads -> Seq(Ops)]
ASSUME FailAssumption == MayFail \in BOOLEAN

NoCall == <<>>
Calls == UNION {{t} \X DOMAIN Program[t] : t \in Threads}

VARIABLES
    initialized, \* _initialized
    lock,        \* holder of _initialization_lock
    initializing,\* threads whose _tls.is_initializing is set
    queue,       \* _queued_calls
    order,       \* call_order of _lazy_seed_tracker: the latest of each kind
    drained,     \* how far the initialising thread is in the queue
    starts,      \* number of successful calls of _mlu_init
    ran,         \* callbacks that ran, in order (history)
    early,       \* calls queued before any thread took the lock (history)
    pc,
    next         \* index in Program[t] of the current or next call

tracker == <<queue, order>>
history == <<ran, early>>
vars == <<initialized, lock, initializing, tracker, drained, starts, history, pc, next>>

Labels == {"idle", "register", "wantLock", "start", "seeds", "drain", "publish"}

\* The queue holds calls only, never the empty entry of a kind of seed nobody
\* asked for (_lazy_init, "if calls").
TypeOK ==
    /\ initialized \in BOOLEAN
    /\ lock \in Threads \cup {Nobody}
    /\ initializing \subseteq Threads
    /\ queue \in Seq(Calls)
    /\ order \in [{1, 2} -> Calls \cup {NoCall}]
    /\ drained \in Nat
    /\ starts \in Nat
    /\ ran \in Seq(Calls)
    /\ early \subseteq Calls
    /\ pc \in [Threads -> Labels]
    /\ next \in [Threads -> Nat \ {0}]

-----------------------------------------------------------------------------
Done(t) == pc[t] = "idle" /\ next[t] > Len(Program[t])
Op(t) == Program[t][next[t]]
OpOf(c) == Program[c[1]][c[2]]
Call(t) == <<t, next[t]>>
Ready(t) == pc[t] = "idle" /\ next[t] <= Len(Program[t])

Goto(t, label) == pc' = [pc EXCEPT ![t] = label]
Return(t) ==
    /\ Goto(t, "idle")
    /\ next' = [next EXCEPT ![t] = @ + 1]

Init ==
    /\ initialized = FALSE
    /\ lock = Nobody
    /\ initializing = {}
    /\ queue = <<>>
    /\ order = <<NoCall, NoCall>>
    /\ drained = 0
    /\ starts = 0
    /\ ran = <<>>
    /\ early = {}
    /\ pc = [t \in Threads |-> "idle"]
    /\ next = [t \in Threads |-> 1]

-----------------------------------------------------------------------------
(* _lazy_call.                                                             *)

\* A callback runs; what it raises once initialised goes to the caller.
CallNow(t) ==
    /\ Ready(t) /\ Op(t) # "init"
    /\ initialized
    /\ ran' = Append(ran, Call(t))
    /\ Return(t)
    /\ UNCHANGED <<initialized, lock, initializing, tracker, drained, starts, early>>

\* is_initialized() said no; the queue is written later.
CallLater(t) ==
    /\ Ready(t) /\ Op(t) # "init"
    /\ ~initialized
    /\ Goto(t, "register")
    /\ UNCHANGED <<initialized, lock, initializing, tracker, drained, starts, history, next>>

\* Of the seeds only the latest of each kind is kept, the older kind first.
QueueSeed(c) ==
    LET other == {i \in {1, 2} : order[i] # NoCall /\ OpOf(order[i]) # OpOf(c)} IN
    order' = <<IF other = {} THEN NoCall ELSE order[CHOOSE i \in other : TRUE], c>>

Register(t) ==
    /\ pc[t] = "register"
    /\ \/ /\ Op(t) = "set"
          /\ queue' = Append(queue, Call(t))
          /\ UNCHANGED order
       \/ /\ Op(t) \in {"seed", "seedAll"}
          /\ QueueSeed(Call(t))
          /\ UNCHANGED queue
    /\ early' = IF lock = Nobody /\ ~initialized THEN early \cup {Call(t)} ELSE early
    /\ Return(t)
    /\ UNCHANGED <<initialized, lock, initializing, drained, starts, ran>>

-----------------------------------------------------------------------------
(* _lazy_init.                                                             *)

InitReturns(t) ==
    /\ Ready(t) /\ Op(t) = "init"
    /\ initialized \/ t \in initializing
    /\ Return(t)
    /\ UNCHANGED <<initialized, lock, initializing, tracker, drained, starts, history>>

InitBegins(t) ==
    /\ Ready(t) /\ Op(t) = "init"
    /\ ~initialized /\ t \notin initializing
    /\ Goto(t, "wantLock")
    /\ UNCHANGED <<initialized, lock, initializing, tracker, drained, starts, history, next>>

\* Faulty form: no second look at _initialized under the lock.
InitLockUnchecked(t) ==
    /\ pc[t] = "wantLock"
    /\ lock = Nobody
    /\ lock' = t
    /\ Goto(t, "start")
    /\ UNCHANGED <<initialized, initializing, tracker, drained, starts, history, next>>

\* Under the lock: a thread that waited for another one finds nothing to do.
InitLock(t) ==
    /\ pc[t] = "wantLock"
    /\ lock = Nobody
    /\ \/ initialized /\ Return(t) /\ UNCHANGED lock
       \/ ~initialized /\ lock' = t /\ Goto(t, "start") /\ UNCHANGED next
    /\ UNCHANGED <<initialized, initializing, tracker, drained, starts, history>>

\* Faulty form: the thread forgets that it is initialising.
StartUnmarked(t) ==
    /\ pc[t] = "start"
    /\ starts' = starts + 1
    /\ Goto(t, "seeds")
    /\ UNCHANGED <<initialized, lock, initializing, tracker, drained, history, next>>

Start(t) ==
    /\ pc[t] = "start"
    /\ starts' = starts + 1
    /\ initializing' = initializing \cup {t}
    /\ Goto(t, "seeds")
    /\ UNCHANGED <<initialized, lock, tracker, drained, history, next>>

\* _mlu_init raises: the lock is released and nothing else has changed.
StartFails(t) ==
    /\ MayFail
    /\ pc[t] = "start"
    /\ lock' = Nobody
    /\ Return(t)
    /\ UNCHANGED <<initialized, initializing, tracker, drained, starts, history>>

\* Faulty form: the seeds are left in the tracker.
SkipSeeds(t) ==
    /\ pc[t] = "seeds"
    /\ drained' = 0
    /\ Goto(t, "drain")
    /\ UNCHANGED <<initialized, lock, initializing, tracker, starts, history, next>>

\* Faulty form: the kinds that were never queued are appended as well.
QueueSeedsUnfiltered(t) ==
    /\ pc[t] = "seeds"
    /\ queue' = queue \o order
    /\ drained' = 0
    /\ Goto(t, "drain")
    /\ UNCHANGED <<initialized, lock, initializing, order, starts, history, next>>

\* get_calls of the tracker, without the kinds of seed nobody asked for.
Seeds ==
    CASE order[1] # NoCall -> <<order[1], order[2]>>
      [] order[1] = NoCall /\ order[2] # NoCall -> <<order[2]>>
      [] OTHER -> <<>>

\* Faulty form: the queued calls are run newest first.
QueueSeedsReversed(t) ==
    /\ pc[t] = "seeds"
    /\ queue' = [i \in DOMAIN queue |-> queue[Len(queue) + 1 - i]] \o Seeds
    /\ drained' = 0
    /\ Goto(t, "drain")
    /\ UNCHANGED <<initialized, lock, initializing, order, starts, history, next>>

\* The seeds the tracker holds now go to the end of the queue.
QueueSeeds(t) ==
    /\ pc[t] = "seeds"
    /\ queue' = queue \o Seeds
    /\ drained' = 0
    /\ Goto(t, "drain")
    /\ UNCHANGED <<initialized, lock, initializing, order, starts, history, next>>

\* The next queued callback is run.  It calls _lazy_init itself (through
\* current_device), which returns at once in a thread that is initialising and
\* waits for the lock in any other.  What it raises is caught and forgotten.
Drain(t) ==
    /\ pc[t] = "drain"
    /\ drained < Len(queue)
    /\ drained' = drained + 1
    /\ ran' = Append(ran, queue[drained + 1])
    /\ Goto(t, IF t \in initializing THEN "drain" ELSE "wantLock")
    /\ UNCHANGED <<initialized, lock, initializing, tracker, starts, early, next>>

\* The loop over the queue ends, and the finally clause runs ...
DrainEnds(t) ==
    /\ pc[t] = "drain"
    /\ drained = Len(queue)
    /\ initializing' = initializing \ {t}
    /\ Goto(t, "publish")
    /\ UNCHANGED <<initialized, lock, tracker, drained, starts, history, next>>

\* ... before _initialized is set and the lock released.
Publish(t) ==
    /\ pc[t] = "publish"
    /\ initialized' = TRUE
    /\ lock' = Nobody
    /\ Return(t)
    /\ UNCHANGED <<initializing, tracker, drained, starts, history>>

-----------------------------------------------------------------------------
LazyCall(t) == CallNow(t) \/ CallLater(t) \/ Register(t)

Initialise(t) ==
    \/ InitReturns(t) \/ InitBegins(t) \/ InitLock(t) \/ Start(t) \/ StartFails(t)
    \/ QueueSeeds(t) \/ Drain(t) \/ DrainEnds(t) \/ Publish(t)

AllDone == (\A t \in Threads : Done(t)) /\ UNCHANGED vars

Next == (\E t \in Threads : LazyCall(t) \/ Initialise(t)) \/ AllDone

Spec == Init /\ [][Next]_vars

-----------------------------------------------------------------------------
(* Properties.                                                             *)

\* The device runtime is initialised once, however many threads ask for it at
\* the same time (double-checked locking).
StartedOnce == starts <= 1

\* The thread that initialises never waits for its own lock when a queued
\* callback calls _lazy_init again.
NoSelfWait == \A t \in Threads : pc[t] = "wantLock" => lock # t

Index(c) == {i \in 1..Len(ran) : ran[i] = c}

\* A seed a later call of the same kind replaced need not run.
Superseded(c) == OpOf(c) # "set" /\ \A i \in {1, 2} : order[i] # c

\* Once initialised, no call queued before the initialisation began is
\* forgotten, and none ran twice.
EarlyCallsRun ==
    /\ \A c \in Calls : Cardinality(Index(c)) <= 1
    /\ initialized => \A c \in early : Superseded(c) \/ Index(c) # {}

\* The calls of one thread that set the state of the generator take effect in
\* the order in which the thread made them.
InOrder(kinds) ==
    \A i, j \in 1..Len(ran) :
        (i < j /\ ran[i][1] = ran[j][1] /\ {OpOf(ran[i]), OpOf(ran[j])} \subseteq kinds)
        => ran[i][2] < ran[j][2]

StatesInOrder == InOrder({"set"})

\* Seeding and setting the state are calls on the same generator: the last one
\* a thread makes before initialisation decides its state (manual_seed,
\* set_rng_state: "Set the random number generator state").
GeneratorInOrder == InOrder({"set", "seed", "seedAll"})
=============================================================================
