-------------------------- MODULE LazyInitProofs --------------------------
(* For any number of threads and any programs: the lock of _lazy_init is    *)
(* held by one thread at a time, the runtime is initialised once, the       *)
(* thread that initialises it never waits for itself, every call queued     *)
(* before the initialisation began is run and none twice, and the calls of  *)
(* one thread that set the state of the generator run in order.             *)
EXTENDS LazyInit, FiniteSetTheorems, TLAPS

InLock == {"start", "seeds", "drain", "publish"}
Started == initialized \/ \E t \in Threads : pc[t] \in InLock \ {"start"}

\* The thread in the critical section is the holder of the lock ...
Holding ==
    /\ \A t \in Threads : pc[t] \in InLock <=> lock = t
    /\ lock # Nobody => lock \in Threads /\ ~initialized

\* ... it is marked as initialising while it runs the queued calls ...
Marked == \A t \in Threads : t \in initializing <=> pc[t] \in {"seeds", "drain"}

\* ... and the number of starts tells whether it is past _mlu_init.
Counted == starts = IF Started THEN 1 ELSE 0

\* The part of the type invariant the argument needs.
Typed ==
    /\ pc \in [Threads -> Labels]
    /\ initialized \in BOOLEAN
    /\ initializing \subseteq Threads

LockInv == Typed /\ Holding /\ Marked /\ Counted

\* The invariant holds before any call.
LEMMA LockInvInit == Init => LockInv
PROOF
<1> SUFFICES ASSUME Init PROVE LockInv OBVIOUS
<1> USE DEF Init
<1>1. Typed BY DEF Typed, Labels
<1>2. Holding BY ThreadsAssumption DEF Holding, InLock
<1>3. Marked BY DEF Marked
<1>4. Counted BY DEF Counted, Started, InLock
<1>5. QED BY <1>1, <1>2, <1>3, <1>4 DEF LockInv

\* Calls outside the critical section, and the taking of the lock.
LEMMA OutsideKeeps ==
    ASSUME LockInv, NEW t \in Threads, LazyCall(t) \/ InitReturns(t) \/ InitBegins(t)
    PROVE  LockInv'
PROOF
<1>1. /\ pc[t] \in {"idle", "register"}
      /\ \E l \in {"idle", "register", "wantLock"} : pc' = [pc EXCEPT ![t] = l]
      /\ UNCHANGED <<initialized, lock, initializing, starts>>
  BY DEF LazyCall, CallNow, CallLater, Register, InitReturns, InitBegins, Ready,
         Goto, Return
<1> USE <1>1 DEF LockInv, Typed, InLock, Labels
<1>2. Typed' OBVIOUS
<1>3. Holding' BY DEF Holding
<1>4. Marked' BY DEF Marked
<1>5. Started' <=> Started BY DEF Started
<1>6. Counted' BY <1>5 DEF Counted
<1>7. QED BY <1>2, <1>3, <1>4, <1>6

\* InitLock is mutual exclusion: it needs the lock to be free.
LEMMA LockKeeps ==
    ASSUME LockInv, NEW t \in Threads, InitLock(t) PROVE LockInv'
PROOF
<1> USE ThreadsAssumption DEF LockInv, Typed, InLock, Labels, InitLock, Goto, Return
<1>1. Typed' OBVIOUS
<1>2. Holding' BY DEF Holding
<1>3. Marked' BY DEF Marked
<1>4. Started' <=> Started BY DEF Started
<1>5. Counted' BY <1>4 DEF Counted
<1>6. QED BY <1>1, <1>2, <1>3, <1>5

\* The steps of the thread inside the critical section.
LEMMA StartKeeps ==
    ASSUME LockInv, NEW t \in Threads, Start(t) PROVE LockInv'
PROOF
<1> USE DEF LockInv, Typed, InLock, Labels, Start, Goto
<1>1. Typed' OBVIOUS
<1>2. Holding' BY DEF Holding
<1>3. Marked' BY DEF Marked
<1>4. ~Started
  <2>1. lock = t BY DEF Holding
  <2>2. \A u \in Threads : u # t => pc[u] \notin InLock BY <2>1 DEF Holding
  <2>3. QED BY ThreadsAssumption, <2>1, <2>2 DEF Started, Holding
<1>5. Started' BY DEF Started
<1>6. Counted' BY <1>4, <1>5 DEF Counted
<1>7. QED BY <1>1, <1>2, <1>3, <1>6

\* A failing start releases the lock and leaves no mark.
LEMMA StartFailsKeeps ==
    ASSUME LockInv, NEW t \in Threads, StartFails(t) PROVE LockInv'
PROOF
<1> USE ThreadsAssumption DEF LockInv, Typed, InLock, Labels, StartFails, Goto, Return
<1>1. Typed' OBVIOUS
<1>2. Holding' BY DEF Holding
<1>3. Marked' BY DEF Marked
<1>4. Started' <=> Started BY DEF Started
<1>5. Counted' BY <1>4 DEF Counted
<1>6. QED BY <1>1, <1>2, <1>3, <1>5

\* The thread stays marked until the loop over the queue ends.
LEMMA RunQueueKeeps ==
    ASSUME LockInv, NEW t \in Threads, QueueSeeds(t) \/ Drain(t) \/ DrainEnds(t)
    PROVE  LockInv'
PROOF
<1>1. /\ pc[t] \in {"seeds", "drain"}
      /\ \/ initializing' = initializing /\ pc' = [pc EXCEPT ![t] = "drain"]
         \/ initializing' = initializing \ {t} /\ pc' = [pc EXCEPT ![t] = "publish"]
      /\ UNCHANGED <<initialized, lock, starts>>
  BY DEF LockInv, Marked, QueueSeeds, Drain, DrainEnds, Goto
<1> USE <1>1 DEF LockInv, Typed, InLock, Labels
<1>2. Typed' OBVIOUS
<1>3. Holding' BY DEF Holding
<1>4. Marked' BY DEF Marked
<1>5. Started' <=> Started BY DEF Started
<1>6. Counted' BY <1>5 DEF Counted
<1>7. QED BY <1>2, <1>3, <1>4, <1>6

\* _initialized is set before the lock is released.
LEMMA PublishKeeps ==
    ASSUME LockInv, NEW t \in Threads, Publish(t) PROVE LockInv'
PROOF
<1> USE ThreadsAssumption DEF LockInv, Typed, InLock, Labels, Publish, Goto, Return
<1>1. Typed' OBVIOUS
<1>2. Holding' BY DEF Holding
<1>3. Marked' BY DEF Marked
<1>4. Started /\ Started' BY DEF Started
<1>5. Counted' BY <1>4 DEF Counted
<1>6. QED BY <1>1, <1>2, <1>3, <1>5

\* Mutual exclusion in _lazy_init, with the facts that make it inductive.
THEOREM LockInvHolds == Spec => []LockInv
PROOF
<1>1. Init => LockInv BY LockInvInit
<1>2. LockInv /\ [Next]_vars => LockInv'
  <2> SUFFICES ASSUME LockInv, [Next]_vars PROVE LockInv' OBVIOUS
  <2>1. ASSUME NEW t \in Threads, LazyCall(t) PROVE LockInv'
    BY <2>1, OutsideKeeps
  <2>2. ASSUME NEW t \in Threads, Initialise(t) PROVE LockInv'
    BY <2>2, OutsideKeeps, LockKeeps, StartKeeps, StartFailsKeeps, RunQueueKeeps,
       PublishKeeps DEF Initialise
  <2>3. CASE UNCHANGED vars
    BY <2>3 DEF LockInv, Typed, Holding, Marked, Counted, Started, vars
  <2>4. QED BY <2>1, <2>2, <2>3 DEF Next, AllDone
<1>3. QED BY <1>1, <1>2, PTL DEF Spec

\* However many threads race into _lazy_init, _mlu_init succeeds at most once:
\* the second look at _initialized under the lock suffices.
THEOREM RuntimeStartsOnce == Spec => []StartedOnce
PROOF
<1>1. LockInv => StartedOnce BY DEF LockInv, Counted, StartedOnce
<1>2. QED BY <1>1, LockInvHolds, PTL

\* A queued callback that calls _lazy_init again never makes its thread wait
\* for the lock it holds: is_initializing covers the whole loop.
THEOREM InitialiserNeverBlocksItself == Spec => []NoSelfWait
PROOF
<1>1. LockInv => NoSelfWait
  BY DEF LockInv, Holding, InLock, NoSelfWait
<1>2. QED BY <1>1, LockInvHolds, PTL

-----------------------------------------------------------------------------
(* The queue of calls.                                                      *)

\* A thread in the middle of a call is within its program ...
Busy == \A t \in Threads :
    /\ pc[t] # "idle" => next[t] <= Len(Program[t])
    /\ pc[t] = "register" => Op(t) # "init"

\* ... a kind of seed is only listed after another one, and seeds are no states ...
Tracked ==
    /\ order[1] # NoCall => order[2] # NoCall
    /\ \A i \in {1, 2} : order[i] # NoCall => OpOf(order[i]) # "set"
    /\ order[1] = order[2] => order[1] = NoCall

TypeInv == LockInv /\ TypeOK /\ Busy /\ Tracked

\* A call is not the mark for none.
LEMMA CallIsCall == ASSUME NEW c \in Calls PROVE c # NoCall
PROOF
<1>1. PICK t \in Threads : c \in {t} \X DOMAIN Program[t] BY DEF Calls
<1>2. PICK i \in DOMAIN Program[t] : c = <<t, i>> BY <1>1
<1>3. <<t, i>> # <<>> OBVIOUS
<1>4. QED BY <1>2, <1>3 DEF NoCall

\* A thread within its program has a call.
LEMMA CallTyped ==
    ASSUME TypeOK, NEW t \in Threads, next[t] <= Len(Program[t])
    PROVE  /\ Call(t) \in Calls /\ Call(t)[1] = t /\ Call(t)[2] = next[t]
           /\ OpOf(Call(t)) = Op(t) /\ Op(t) \in Ops
PROOF
<1>1. next[t] \in DOMAIN Program[t] BY ProgramAssumption DEF TypeOK
<1>2. <<t, next[t]>> \in {t} \X DOMAIN Program[t] BY <1>1
<1>3. Program[t][next[t]] \in Ops BY <1>1, ProgramAssumption
<1>4. QED BY <1>2, <1>3 DEF Calls, Call, OpOf, Op

\* What the tracker gives are its entries, in order, each once.
LEMMA SeedsTyped ==
    ASSUME TypeOK, Tracked
    PROVE  /\ Seeds \in Seq(Calls)
           /\ \A i \in 1..Len(Seeds) : Seeds[i] \in {order[1], order[2]} /\ Seeds[i] # NoCall
           /\ \A c \in Calls \cap {order[1], order[2]} :
                  c # NoCall => \E i \in 1..Len(Seeds) : Seeds[i] = c
           /\ \A i, j \in 1..Len(Seeds) : Seeds[i] = Seeds[j] => i = j
PROOF
<1> order \in [{1, 2} -> Calls \cup {NoCall}] BY DEF TypeOK
<1>1. CASE order[1] # NoCall
  <2>1. Seeds = <<order[1], order[2]>> BY <1>1 DEF Seeds
  <2>2. order[1] # order[2] /\ order[2] # NoCall BY <1>1 DEF Tracked
  <2>3. Len(Seeds) = 2 /\ Seeds[1] = order[1] /\ Seeds[2] = order[2] BY <2>1
  <2>4. Seeds \in Seq(Calls) BY <1>1, <2>1, <2>2
  <2>5. QED BY <1>1, <2>2, <2>3, <2>4
<1>2. CASE order[1] = NoCall /\ order[2] # NoCall
  <2>1. Seeds = <<order[2]>> BY <1>2 DEF Seeds
  <2>2. QED BY <1>2, <2>1
<1>3. CASE order[1] = NoCall /\ order[2] = NoCall
  <2>1. Seeds = <<>> BY <1>3 DEF Seeds
  <2>2. QED BY <1>3, <2>1
<1>4. QED BY <1>1, <1>2, <1>3

LEMMA TypeInvInit == Init => TypeInv
PROOF
<1> SUFFICES ASSUME Init PROVE TypeInv OBVIOUS
<1>1. LockInv BY LockInvInit
<1>2. order[1] = NoCall /\ order[2] = NoCall /\ order \in [{1, 2} -> Calls \cup {NoCall}]
  <2>1. <<NoCall, NoCall>> \in [1..2 -> Calls \cup {NoCall}] OBVIOUS
  <2>2. 1..2 = {1, 2} OBVIOUS
  <2>3. QED BY <2>1, <2>2 DEF Init
<1>3. TypeOK
  <2>1. queue \in Seq(Calls) /\ ran \in Seq(Calls) BY DEF Init
  <2>2. pc \in [Threads -> Labels] /\ next \in [Threads -> Nat \ {0}] BY DEF Init, Labels
  <2>3. QED BY <1>2, <2>1, <2>2 DEF Init, TypeOK
<1>4. Busy BY DEF Init, Busy
<1>5. Tracked BY <1>2 DEF Tracked
<1>6. QED BY <1>1, <1>3, <1>4, <1>5 DEF TypeInv

\* A call that registers a seed.
LEMMA QueueSeedTyped ==
    ASSUME TypeOK, Tracked, NEW c \in Calls, OpOf(c) # "set", QueueSeed(c)
    PROVE  /\ order' \in [{1, 2} -> Calls \cup {NoCall}]
           /\ order'[2] = c /\ (order'[1] \in {NoCall, order[1], order[2]}) /\ Tracked'
PROOF
<1> DEFINE other == {i \in {1, 2} : order[i] # NoCall /\ OpOf(order[i]) # OpOf(c)}
           x == IF other = {} THEN NoCall ELSE order[CHOOSE i \in other : TRUE]
<1>1. order' = <<x, c>> BY DEF QueueSeed
<1>2. x = NoCall \/ \E i \in {1, 2} : x = order[i] /\ order[i] # NoCall /\ OpOf(order[i]) # OpOf(c)
  <2>1. CASE other = {} BY <2>1
  <2>2. CASE other # {}
    <3>1. (CHOOSE i \in other : TRUE) \in other BY <2>2
    <3>2. QED BY <2>2, <3>1
  <2>3. QED BY <2>1, <2>2
<1> HIDE DEF x, other
<1>3. x \in Calls \cup {NoCall} BY <1>2 DEF TypeOK
<1>4. order' \in [{1, 2} -> Calls \cup {NoCall}] /\ order'[1] = x /\ order'[2] = c
  BY <1>1, <1>3
<1>5. c # NoCall BY CallIsCall
<1>6. Tracked' BY <1>2, <1>4, <1>5 DEF Tracked, OpOf
<1>7. QED BY <1>2, <1>4, <1>6

\* A thread goes on to another label, or to its next call.
LEMMA ControlTyped ==
    ASSUME TypeOK, Busy, NEW t \in Threads, NEW l \in Labels,
           pc' = [pc EXCEPT ![t] = l],
           \/ l = "idle" /\ next' = [next EXCEPT ![t] = @ + 1]
           \/ next' = next /\ next[t] <= Len(Program[t]) /\ (l = "register" => Op(t) # "init")
    PROVE  pc' \in [Threads -> Labels] /\ next' \in [Threads -> Nat \ {0}] /\ Busy'
PROOF
<1>1. pc \in [Threads -> Labels] /\ next \in [Threads -> Nat \ {0}] BY DEF TypeOK
<1>2. pc' \in [Threads -> Labels] /\ next' \in [Threads -> Nat \ {0}] BY <1>1
<1>3. \A u \in Threads : u # t => pc'[u] = pc[u] /\ next'[u] = next[u] BY <1>1
<1>4. pc'[t] = l /\ (l # "idle" => next'[t] = next[t]) BY <1>1
<1>5. Busy' BY <1>3, <1>4 DEF Busy, Op
<1>6. QED BY <1>2, <1>5

\* Steps that touch neither the queue, nor the tracker, nor the history.
Quiet(t) ==
    \/ CallLater(t) \/ InitReturns(t) \/ InitBegins(t) \/ InitLock(t) \/ Start(t) \/ StartFails(t)
    \/ DrainEnds(t) \/ Publish(t)

LEMMA QuietTyped ==
    ASSUME TypeInv, NEW t \in Threads, Quiet(t), LockInv' PROVE TypeInv'
PROOF
<1> USE DEF TypeInv
<1>1. UNCHANGED <<tracker, drained, history>>
  BY DEF Quiet, CallLater, InitReturns, InitBegins, InitLock, Start, StartFails, DrainEnds, Publish
<1>2. \E l \in Labels :
         /\ pc' = [pc EXCEPT ![t] = l]
         /\ \/ l = "idle" /\ next' = [next EXCEPT ![t] = @ + 1]
            \/ next' = next /\ next[t] <= Len(Program[t]) /\ (l = "register" => Op(t) # "init")
  BY DEF Quiet, CallLater, InitReturns, InitBegins, InitLock, Start, StartFails, DrainEnds, Publish,
         Goto, Return, Ready, Busy, Labels
<1>3. pc' \in [Threads -> Labels] /\ next' \in [Threads -> Nat \ {0}] /\ Busy'
  BY <1>2, ControlTyped
<1>4. /\ initialized' \in BOOLEAN /\ lock' \in Threads \cup {Nobody}
      /\ initializing' \subseteq Threads /\ starts' \in Nat
  <2>1. CASE CallLater(t) \/ InitReturns(t) \/ InitBegins(t)
    BY <2>1 DEF TypeOK, CallLater, InitReturns, InitBegins
  <2>2. CASE InitLock(t) BY <2>2 DEF TypeOK, InitLock
  <2>3. CASE Start(t) BY <2>3 DEF TypeOK, Start
  <2>4. CASE StartFails(t) BY <2>4 DEF TypeOK, StartFails
  <2>5. CASE DrainEnds(t) BY <2>5 DEF TypeOK, DrainEnds
  <2>6. CASE Publish(t) BY <2>6 DEF TypeOK, Publish
  <2>7. QED BY <2>1, <2>2, <2>3, <2>4, <2>5, <2>6 DEF Quiet
<1>5. TypeOK' BY <1>1, <1>3, <1>4 DEF TypeOK, tracker, history
<1>6. Tracked' BY <1>1 DEF Tracked, tracker, OpOf
<1>7. QED BY <1>3, <1>5, <1>6

\* A call that is run at once.
LEMMA CallNowTyped ==
    ASSUME TypeInv, NEW t \in Threads, CallNow(t), LockInv' PROVE TypeInv'
PROOF
<1> USE DEF TypeInv
<1>1. /\ UNCHANGED <<initialized, lock, initializing, queue, order, drained, starts, early>>
      /\ ran' = Append(ran, Call(t)) /\ next[t] <= Len(Program[t])
      /\ pc' = [pc EXCEPT ![t] = "idle"] /\ next' = [next EXCEPT ![t] = @ + 1]
  BY DEF CallNow, Return, Goto, Ready, tracker
<1>2. pc' \in [Threads -> Labels] /\ next' \in [Threads -> Nat \ {0}] /\ Busy'
  BY <1>1, ControlTyped DEF Labels
<1>3. ran' \in Seq(Calls) BY <1>1, CallTyped DEF TypeOK
<1>4. TypeOK' BY <1>1, <1>2, <1>3 DEF TypeOK
<1>5. Tracked' BY <1>1 DEF Tracked, OpOf
<1>6. QED BY <1>2, <1>4, <1>5

\* A call that is queued.
LEMMA RegisterTyped ==
    ASSUME TypeInv, NEW t \in Threads, Register(t), LockInv' PROVE TypeInv'
PROOF
<1> USE DEF TypeInv
<1>1. /\ UNCHANGED <<initialized, lock, initializing, drained, starts, ran>>
      /\ next[t] <= Len(Program[t])
      /\ pc' = [pc EXCEPT ![t] = "idle"] /\ next' = [next EXCEPT ![t] = @ + 1]
      /\ early' \in {early, early \cup {Call(t)}}
  BY DEF Register, Return, Goto, Busy
<1>2. pc' \in [Threads -> Labels] /\ next' \in [Threads -> Nat \ {0}] /\ Busy'
  BY <1>1, ControlTyped DEF Labels
<1>3. Call(t) \in Calls /\ OpOf(Call(t)) = Op(t) BY <1>1, CallTyped
<1>4. queue' \in Seq(Calls) /\ order' \in [{1, 2} -> Calls \cup {NoCall}] /\ Tracked'
  <2>1. CASE queue' = Append(queue, Call(t)) /\ order' = order
    BY <2>1, <1>3 DEF TypeOK, Tracked, OpOf
  <2>2. CASE Op(t) \in {"seed", "seedAll"} /\ QueueSeed(Call(t)) /\ queue' = queue
    BY <2>2, <1>3, QueueSeedTyped DEF TypeOK
  <2>3. QED BY <2>1, <2>2 DEF Register
<1>5. early' \subseteq Calls BY <1>1, <1>3 DEF TypeOK
<1>6. TypeOK' BY <1>1, <1>2, <1>4, <1>5 DEF TypeOK
<1>7. QED BY <1>2, <1>4, <1>6

\* The seeds are queued, and the queue is run.
LEMMA RunQueueTyped ==
    ASSUME TypeInv, NEW t \in Threads, QueueSeeds(t) \/ Drain(t), LockInv' PROVE TypeInv'
PROOF
<1> USE DEF TypeInv
<1>1. /\ UNCHANGED <<initialized, lock, initializing, order, starts, early, next>>
      /\ next[t] <= Len(Program[t]) /\ pc' = [pc EXCEPT ![t] = "drain"]
  BY DEF QueueSeeds, Drain, Goto, Busy, LockInv, Marked, tracker, history
<1>2. pc' \in [Threads -> Labels] /\ next' \in [Threads -> Nat \ {0}] /\ Busy'
  BY <1>1, ControlTyped DEF Labels
<1>3. queue' \in Seq(Calls) /\ ran' \in Seq(Calls) /\ drained' \in Nat
  <2>1. CASE QueueSeeds(t)
    BY <2>1, SeedsTyped DEF QueueSeeds, TypeOK, history
  <2>2. CASE Drain(t)
    <3>1. queue[drained + 1] \in Calls BY <2>2 DEF Drain, TypeOK
    <3>2. QED BY <2>2, <3>1 DEF Drain, TypeOK, tracker
  <2>3. QED BY <2>1, <2>2
<1>4. TypeOK' BY <1>1, <1>2, <1>3 DEF TypeOK
<1>5. Tracked' BY <1>1 DEF Tracked, OpOf
<1>6. QED BY <1>2, <1>4, <1>5

LEMMA TypeInvStep ==
    ASSUME TypeInv, NEW t \in Threads, LazyCall(t) \/ Initialise(t), LockInv' PROVE TypeInv'
PROOF BY QuietTyped, CallNowTyped, RegisterTyped, RunQueueTyped DEF LazyCall, Initialise, Quiet

LEMMA TypeInvStutters == ASSUME TypeInv, UNCHANGED vars, LockInv' PROVE TypeInv'
PROOF BY DEF TypeInv, TypeOK, Busy, Tracked, Op, OpOf, vars, tracker, history

\* Every variable has its type, in particular: the queue holds calls only.
THEOREM QueueTypeCorrect == Spec => []TypeOK
PROOF
<1>1. TypeInv /\ [Next]_vars /\ LockInv' => TypeInv'
  BY TypeInvStep, TypeInvStutters DEF Next, AllDone
<1>2. TypeInv => TypeOK BY DEF TypeInv
<1>3. QED BY <1>1, <1>2, TypeInvInit, LockInvHolds, PTL DEF Spec

-----------------------------------------------------------------------------
\* Whether a call was made before what next says of its thread.
MadeBefore(n, c) == c[2] < n[c[1]]

In(c, s) == \E i \in 1..Len(s) : s[i] = c

\* No call is listed twice, and the states of one thread are in its order.
Sorted(s) ==
    \A i, j \in 1..Len(s) :
        /\ s[i] = s[j] => i = j
        /\ i < j /\ s[i][1] = s[j][1] /\ OpOf(s[i]) = "set" /\ OpOf(s[j]) = "set" => s[i][2] < s[j][2]

SeedsQueued == initialized \/ \E t \in Threads : pc[t] \in {"drain", "publish"}
QueueRun == initialized \/ \E t \in Threads : pc[t] = "publish"

\* Everything that is kept is a call that was made: the next one is new.
AllMade ==
    /\ \A i \in 1..Len(queue) : MadeBefore(next, queue[i])
    /\ \A i \in 1..Len(ran) : MadeBefore(next, ran[i])
    /\ \A i \in {1, 2} : order[i] # NoCall => MadeBefore(next, order[i])
    /\ \A c \in early : MadeBefore(next, c)

\* Until the seeds are appended the queue holds states only, and nothing ran ...
StatesFirst == ~SeedsQueued => Len(ran) = 0 /\ \A i \in 1..Len(queue) : OpOf(queue[i]) = "set"

\* ... until the initialisation ends what ran is the beginning of the queue ...
RanPrefix ==
    /\ ~initialized => \A i \in 1..Len(ran) : i <= Len(queue) /\ ran[i] = queue[i]
    /\ \A t \in Threads : pc[t] = "drain" => drained = Len(ran)

\* ... and a call that was queued early waits for its turn or has run.
Due(c) == OpOf(c) = "set" \/ \E i \in {1, 2} : order[i] = c
EarlyKept ==
    \A c \in early : Due(c) =>
        /\ OpOf(c) = "set" \/ SeedsQueued => In(c, queue)
        /\ QueueRun => In(c, ran)

QueueFacts == AllMade /\ Sorted(queue) /\ Sorted(ran) /\ StatesFirst /\ RanPrefix /\ EarlyKept
QueueInv == TypeInv /\ QueueFacts

\* A call has a thread and an index.
LEMMA CallParts == ASSUME NEW c \in Calls PROVE c[1] \in Threads /\ c[2] \in Nat
PROOF BY ProgramAssumption DEF Calls

\* Calls that were made stay so, and the call of a thread is new until it returns.
LEMMA MadeStays ==
    ASSUME TypeOK, NEW t \in Threads, next' = next \/ next' = [next EXCEPT ![t] = @ + 1],
           NEW c \in Calls, MadeBefore(next, c)
    PROVE  MadeBefore(next', c)
PROOF
<1>1. c[1] \in Threads /\ c[2] \in Nat BY CallParts
<1>2. next \in [Threads -> Nat \ {0}] BY DEF TypeOK
<1>3. QED BY <1>1, <1>2 DEF MadeBefore

LEMMA AllMadeStays ==
    ASSUME TypeOK, NEW t \in Threads, next' = next \/ next' = [next EXCEPT ![t] = @ + 1], AllMade
    PROVE  /\ \A i \in 1..Len(queue) : MadeBefore(next', queue[i])
           /\ \A i \in 1..Len(ran) : MadeBefore(next', ran[i])
           /\ \A i \in {1, 2} : order[i] # NoCall => MadeBefore(next', order[i])
           /\ \A c \in early : MadeBefore(next', c)
PROOF
<1>1. \A i \in 1..Len(queue) : queue[i] \in Calls BY DEF TypeOK
<1>2. \A i \in 1..Len(ran) : ran[i] \in Calls BY DEF TypeOK
<1>3. \A i \in {1, 2} : order[i] # NoCall => order[i] \in Calls BY DEF TypeOK
<1>4. \A c \in early : c \in Calls BY DEF TypeOK
<1>5. \A c \in Calls : MadeBefore(next, c) => MadeBefore(next', c) BY MadeStays
<1>6. QED BY <1>1, <1>2, <1>3, <1>4, <1>5 DEF AllMade

\* A call that is appended comes after all calls of its thread.
LEMMA AppendSorted ==
    ASSUME NEW s \in Seq(Calls), Sorted(s), NEW c \in Calls,
           \A i \in 1..Len(s) : s[i][1] = c[1] => s[i][2] < c[2]
    PROVE  Sorted(Append(s, c))
PROOF
<1> DEFINE r == Append(s, c)
<1>1. /\ Len(r) = Len(s) + 1 /\ r[Len(s) + 1] = c
      /\ \A i \in 1..Len(s) : r[i] = s[i] /\ s[i] \in Calls
  OBVIOUS
<1> HIDE DEF r
<1>2. SUFFICES ASSUME NEW i \in 1..Len(r), NEW j \in 1..Len(r)
               PROVE  /\ r[i] = r[j] => i = j
                      /\ i < j /\ r[i][1] = r[j][1] /\ OpOf(r[i]) = "set" /\ OpOf(r[j]) = "set"
                           => r[i][2] < r[j][2]
  BY DEF Sorted, r
<1>3. c[2] \in Nat BY CallParts
<1>4. Len(s) \in Nat OBVIOUS
<1>5. CASE i \in 1..Len(s) /\ j \in 1..Len(s) BY <1>1, <1>5 DEF Sorted
<1>6. CASE i \in 1..Len(s) /\ j = Len(s) + 1
  <2>1. r[i] # r[j] BY <1>1, <1>3, <1>6
  <2>2. QED BY <2>1, <1>1, <1>6
<1>7. CASE i = Len(s) + 1 /\ j \in 1..Len(s)
  <2>1. r[i] # r[j] BY <1>1, <1>3, <1>7
  <2>2. i > j BY <1>4, <1>7
  <2>3. QED BY <2>1, <2>2
<1>8. CASE i = Len(s) + 1 /\ j = Len(s) + 1 BY <1>8, <1>4
<1>9. QED BY <1>1, <1>4, <1>5, <1>6, <1>7, <1>8

\* The call of a thread follows every call it has made.
LEMMA NewCall ==
    ASSUME TypeOK, NEW t \in Threads, next[t] <= Len(Program[t]), NEW c \in Calls, MadeBefore(next, c)
    PROVE  /\ c # Call(t)
           /\ c[1] = Call(t)[1] => c[2] < Call(t)[2]
PROOF BY CallTyped, CallParts DEF MadeBefore, TypeOK

\* At the beginning nothing was called.
LEMMA QueueInvInit == Init => QueueInv
PROOF
<1> SUFFICES ASSUME Init PROVE QueueInv OBVIOUS
<1>1. TypeInv BY TypeInvInit
<1>2. queue = <<>> /\ ran = <<>> /\ early = {} /\ order[1] = NoCall /\ order[2] = NoCall BY DEF Init
<1>3. \A t \in Threads : pc[t] = "idle" BY DEF Init
<1>4. AllMade /\ Sorted(queue) /\ Sorted(ran) BY <1>2 DEF AllMade, Sorted
<1>5. StatesFirst /\ RanPrefix /\ EarlyKept BY <1>2, <1>3 DEF StatesFirst, RanPrefix, EarlyKept
<1>6. QED BY <1>1, <1>4, <1>5 DEF QueueInv, QueueFacts

\* The thread that runs the queue is the only one in the critical section.
LEMMA AloneInside ==
    ASSUME LockInv, NEW t \in Threads, pc[t] \in InLock
    PROVE  ~initialized /\ lock = t /\ \A u \in Threads : pc[u] \in InLock => u = t
PROOF BY ThreadsAssumption DEF LockInv, Holding

\* Steps outside the loop over the queue.
LEMMA QuietKeeps ==
    ASSUME QueueInv, NEW t \in Threads, Quiet(t), TypeInv' PROVE QueueInv'
PROOF
<1> USE DEF QueueInv, QueueFacts
<1>1. UNCHANGED <<queue, order, drained, ran, early>>
  BY DEF Quiet, CallLater, InitReturns, InitBegins, InitLock, Start, StartFails, DrainEnds, Publish,
         tracker, history
<1>2. next' = next \/ next' = [next EXCEPT ![t] = @ + 1]
  BY DEF Quiet, CallLater, InitReturns, InitBegins, InitLock, Start, StartFails, DrainEnds, Publish, Return
<1>3. AllMade'
  <2>1. AllMade BY DEF QueueFacts
  <2>2. QED BY <1>1, <1>2, <2>1, AllMadeStays DEF AllMade, TypeInv
<1>4. Sorted(queue)' /\ Sorted(ran)' BY <1>1
<1>5. pc \in [Threads -> Labels] BY DEF TypeInv, TypeOK
<1>6. CASE CallLater(t) \/ InitReturns(t) \/ InitBegins(t) \/ InitLock(t) \/ Start(t) \/ StartFails(t)
  <2>1. /\ initialized' = initialized
        /\ pc[t] \in {"idle", "wantLock", "start"}
        /\ \E l \in {"idle", "register", "wantLock", "start", "seeds"} : pc' = [pc EXCEPT ![t] = l]
    BY <1>6 DEF CallLater, InitReturns, InitBegins, InitLock, Start, StartFails, Goto, Return, Ready
  <2>2. \A u \in Threads : \A l \in {"drain", "publish"} : pc'[u] = l <=> pc[u] = l BY <1>5, <2>1
  <2>3. (SeedsQueued' <=> SeedsQueued) /\ (QueueRun' <=> QueueRun)
    BY <2>1, <2>2 DEF SeedsQueued, QueueRun
  <2>4. StatesFirst' BY <1>1, <2>3 DEF StatesFirst
  <2>5. RanPrefix' BY <1>1, <2>1, <2>2 DEF RanPrefix
  <2>6. EarlyKept' BY <1>1, <2>3 DEF EarlyKept, Due
  <2>7. QED BY <1>3, <1>4, <2>4, <2>5, <2>6
<1>7. CASE DrainEnds(t)
  <2>1. /\ initialized' = initialized /\ pc[t] = "drain" /\ pc' = [pc EXCEPT ![t] = "publish"]
        /\ drained = Len(queue) /\ drained = Len(ran)
    BY <1>7 DEF DrainEnds, Goto, RanPrefix
  <2>2. ~initialized BY <2>1, AloneInside DEF TypeInv, InLock
  <2>3. SeedsQueued /\ SeedsQueued' BY <1>5, <2>1 DEF SeedsQueued
  <2>4. StatesFirst' BY <2>3 DEF StatesFirst
  <2>5. RanPrefix' BY <1>1, <1>5, <2>1 DEF RanPrefix
  <2>6. \A c \in Calls : In(c, queue) => In(c, ran) BY <2>1, <2>2 DEF In, RanPrefix
  <2>7. \A c \in early : c \in Calls BY DEF TypeInv, TypeOK
  <2>8. EarlyKept' BY <1>1, <2>3, <2>6, <2>7 DEF EarlyKept, Due
  <2>9. QED BY <1>3, <1>4, <2>4, <2>5, <2>8
<1>8. CASE Publish(t)
  <2>1. initialized' = TRUE /\ pc[t] = "publish" /\ pc' = [pc EXCEPT ![t] = "idle"]
    BY <1>8 DEF Publish, Return, Goto
  <2>2. SeedsQueued /\ SeedsQueued' /\ QueueRun /\ QueueRun' BY <2>1 DEF SeedsQueued, QueueRun
  <2>3. StatesFirst' BY <2>2 DEF StatesFirst
  <2>4. RanPrefix' BY <1>1, <1>5, <2>1 DEF RanPrefix
  <2>5. EarlyKept' BY <1>1, <2>2 DEF EarlyKept, Due
  <2>6. QED BY <1>3, <1>4, <2>3, <2>4, <2>5
<1>9. QED BY <1>6, <1>7, <1>8 DEF Quiet

\* A call that is run at once is after all others of its thread.
LEMMA CallNowKeeps ==
    ASSUME QueueInv, NEW t \in Threads, CallNow(t), TypeInv' PROVE QueueInv'
PROOF
<1> USE DEF QueueInv, QueueFacts
<1>1. /\ UNCHANGED <<initialized, queue, order, drained, early>>
      /\ initialized /\ ran' = Append(ran, Call(t)) /\ next[t] <= Len(Program[t])
      /\ pc[t] = "idle"
      /\ pc' = [pc EXCEPT ![t] = "idle"] /\ next' = [next EXCEPT ![t] = @ + 1]
  BY DEF CallNow, Return, Goto, Ready, tracker
<1>2. TypeOK BY DEF TypeInv
<1>3. Call(t) \in Calls /\ ran \in Seq(Calls) BY <1>1, <1>2, CallTyped DEF TypeOK
<1>4. AllMade'
  <2>1. AllMade OBVIOUS
  <2>2. MadeBefore(next', Call(t)) BY <1>1, <1>2, CallTyped DEF MadeBefore, TypeOK
  <2>3. \A i \in 1..Len(ran') : MadeBefore(next', ran'[i])
    <3>1. \A i \in 1..Len(ran) : MadeBefore(next', ran[i]) BY <1>1, <1>2, <2>1, AllMadeStays
    <3>2. /\ Len(ran') = Len(ran) + 1 /\ Len(ran) \in Nat /\ ran'[Len(ran) + 1] = Call(t)
          /\ \A i \in 1..Len(ran) : ran'[i] = ran[i]
      BY <1>1, <1>3
    <3>3. QED BY <2>2, <3>1, <3>2
  <2>4. QED BY <1>1, <1>2, <2>1, <2>3, AllMadeStays DEF AllMade
<1>5. Sorted(ran')
  <2>1. \A i \in 1..Len(ran) : ran[i] \in Calls /\ MadeBefore(next, ran[i]) BY <1>3 DEF AllMade
  <2>2. \A i \in 1..Len(ran) : ran[i][1] = Call(t)[1] => ran[i][2] < Call(t)[2]
    BY <1>1, <1>2, <2>1, NewCall
  <2>3. Sorted(ran) OBVIOUS
  <2>4. QED BY <1>1, <1>3, <2>2, <2>3, AppendSorted
<1>6. Sorted(queue') BY <1>1
<1>7. SeedsQueued /\ SeedsQueued' /\ QueueRun /\ QueueRun' BY <1>1 DEF SeedsQueued, QueueRun
<1>8. StatesFirst' BY <1>7 DEF StatesFirst
<1>9. RanPrefix'
  <2>1. \A u \in Threads : pc'[u] # "drain"
    BY <1>1, AloneInside DEF TypeInv, TypeOK, InLock
  <2>2. QED BY <1>1, <2>1 DEF RanPrefix
<1>10. EarlyKept'
  <2>1. \A c \in early : In(c, ran) => In(c, ran') BY <1>1, <1>3 DEF In
  <2>2. QED BY <1>1, <1>7, <2>1 DEF EarlyKept, Due
<1>11. QED BY <1>4, <1>5, <1>6, <1>8, <1>9, <1>10

\* A call that is queued is new, too; it counts as early only if the initialisation did
\* not begin.
LEMMA RegisterKeeps ==
    ASSUME QueueInv, NEW t \in Threads, Register(t), TypeInv' PROVE QueueInv'
PROOF
<1> USE DEF QueueInv, QueueFacts
<1>1. /\ UNCHANGED <<initialized, lock, drained, ran>>
      /\ pc[t] = "register" /\ next[t] <= Len(Program[t])
      /\ pc' = [pc EXCEPT ![t] = "idle"] /\ next' = [next EXCEPT ![t] = @ + 1]
      /\ early' = IF lock = Nobody /\ ~initialized THEN early \cup {Call(t)} ELSE early
  BY DEF Register, Return, Goto, TypeInv, Busy
<1>2. TypeOK /\ Tracked BY DEF TypeInv
<1>3. /\ Call(t) \in Calls /\ OpOf(Call(t)) = Op(t) /\ queue \in Seq(Calls)
      /\ early \subseteq Calls
  BY <1>1, <1>2, CallTyped DEF TypeOK
<1>4. \/ Op(t) = "set" /\ queue' = Append(queue, Call(t)) /\ order' = order
      \/ /\ Op(t) # "set" /\ queue' = queue
         /\ order'[2] = Call(t) /\ order'[1] \in {NoCall, order[1], order[2]}
  BY <1>2, <1>3, QueueSeedTyped DEF Register
<1>5. MadeBefore(next', Call(t)) BY <1>1, <1>2, CallTyped DEF MadeBefore, TypeOK
<1>6. AllMade'
  <2> AllMade OBVIOUS
  <2>1. /\ \A i \in 1..Len(queue) : MadeBefore(next', queue[i])
        /\ \A i \in 1..Len(ran) : MadeBefore(next', ran[i])
        /\ \A i \in {1, 2} : order[i] # NoCall => MadeBefore(next', order[i])
        /\ \A c \in early : MadeBefore(next', c)
    BY <1>1, <1>2, AllMadeStays
  <2>2. \A i \in 1..Len(queue') : MadeBefore(next', queue'[i]) BY <1>3, <1>4, <1>5, <2>1
  <2>3. \A i \in {1, 2} : order'[i] # NoCall => MadeBefore(next', order'[i])
    BY <1>4, <1>5, <2>1
  <2>4. \A c \in early' : MadeBefore(next', c) BY <1>1, <1>5, <2>1
  <2>5. QED BY <1>1, <2>1, <2>2, <2>3, <2>4 DEF AllMade
<1>7. Sorted(queue')
  <2>1. \A i \in 1..Len(queue) : queue[i] \in Calls /\ MadeBefore(next, queue[i])
    BY <1>3 DEF AllMade
  <2>2. \A i \in 1..Len(queue) : queue[i][1] = Call(t)[1] => queue[i][2] < Call(t)[2]
    BY <1>1, <1>2, <2>1, NewCall
  <2>3. Sorted(queue) OBVIOUS
  <2>4. QED BY <1>3, <1>4, <2>2, <2>3, AppendSorted
<1>8. Sorted(ran') BY <1>1
<1>9. \A u \in Threads : \A l \in {"drain", "publish"} : pc'[u] = l <=> pc[u] = l
  BY <1>1, <1>2 DEF TypeOK
<1>10. (SeedsQueued' <=> SeedsQueued) /\ (QueueRun' <=> QueueRun)
  BY <1>1, <1>9 DEF SeedsQueued, QueueRun
<1>11. StatesFirst' BY <1>1, <1>3, <1>4, <1>10 DEF StatesFirst
<1>12. RanPrefix'
  <2>1. \A i \in 1..Len(queue) : i <= Len(queue') /\ queue'[i] = queue[i] BY <1>3, <1>4
  <2>2. Len(queue) \in Nat /\ Len(ran) \in Nat BY <1>2 DEF TypeOK
  <2>3. ASSUME ~initialized, NEW i \in 1..Len(ran)
        PROVE  i <= Len(queue') /\ ran[i] = queue'[i]
    <3>1. i <= Len(queue) /\ ran[i] = queue[i] BY <2>3 DEF RanPrefix
    <3>2. i \in 1..Len(queue) BY <2>2, <3>1
    <3>3. QED BY <2>1, <3>1, <3>2
  <2>4. QED BY <1>1, <1>9, <2>3 DEF RanPrefix
<1>13. EarlyKept'
  <2>1. \A c \in Calls : In(c, queue) => In(c, queue') BY <1>3, <1>4 DEF In
  <2>2. ASSUME NEW c \in early, Due(c)'
        PROVE  (OpOf(c) = "set" \/ SeedsQueued => In(c, queue')) /\ (QueueRun => In(c, ran))
    <3>1. c \in Calls /\ c # Call(t) BY <1>1, <1>2, <1>3, NewCall DEF AllMade
    <3>2. c # NoCall BY <3>1, CallIsCall
    <3>3. Due(c) BY <1>4, <2>2, <3>1, <3>2 DEF Due
    <3>4. QED BY <2>1, <3>1, <3>3 DEF EarlyKept
  <2>3. ASSUME lock = Nobody, ~initialized
        PROVE  /\ ~SeedsQueued /\ ~QueueRun
               /\ OpOf(Call(t)) = "set" => In(Call(t), queue')
    <3>1. ~SeedsQueued /\ ~QueueRun
      BY <2>3, ThreadsAssumption DEF SeedsQueued, QueueRun, TypeInv, LockInv, Holding, InLock
    <3>2. ASSUME OpOf(Call(t)) = "set" PROVE In(Call(t), queue')
      <4>1. queue' = Append(queue, Call(t)) BY <1>3, <1>4, <3>2
      <4>2. Len(queue') = Len(queue) + 1 /\ queue'[Len(queue) + 1] = Call(t) /\ Len(queue) \in Nat
        BY <1>3, <4>1
      <4>3. QED BY <4>2 DEF In
    <3>3. QED BY <3>1, <3>2
  <2>4. ASSUME NEW c \in early', Due(c)'
        PROVE  (OpOf(c) = "set" \/ SeedsQueued => In(c, queue')) /\ (QueueRun => In(c, ran))
    <3>1. CASE c \in early BY <2>2, <2>4, <3>1
    <3>2. CASE c = Call(t) /\ lock = Nobody /\ ~initialized BY <2>3, <3>2
    <3>3. QED BY <1>1, <2>4, <3>1, <3>2
  <2>5. QED BY <1>1, <1>10, <2>4 DEF EarlyKept
<1>14. QED BY <1>6, <1>7, <1>8, <1>11, <1>12, <1>13

\* The seeds are appended: they were not in the queue, which held states only.
LEMMA QueueSeedsKeeps ==
    ASSUME QueueInv, NEW t \in Threads, QueueSeeds(t), TypeInv' PROVE QueueInv'
PROOF
<1> USE DEF QueueInv, QueueFacts
<1>1. /\ UNCHANGED <<initialized, order, ran, early, next>>
      /\ pc[t] = "seeds" /\ pc' = [pc EXCEPT ![t] = "drain"]
      /\ queue' = queue \o Seeds /\ drained' = 0
  BY DEF QueueSeeds, Goto, history
<1>2. TypeOK /\ Tracked /\ queue \in Seq(Calls) /\ pc \in [Threads -> Labels] /\ early \subseteq Calls
  BY DEF TypeInv, TypeOK
<1>3. /\ Seeds \in Seq(Calls)
      /\ \A i \in 1..Len(Seeds) : Seeds[i] \in {order[1], order[2]} /\ Seeds[i] # NoCall
      /\ \A c \in Calls \cap {order[1], order[2]} :
             c # NoCall => \E i \in 1..Len(Seeds) : Seeds[i] = c
      /\ \A i, j \in 1..Len(Seeds) : Seeds[i] = Seeds[j] => i = j
  BY <1>2, SeedsTyped
<1>4. ~initialized /\ \A u \in Threads : pc[u] \in InLock => u = t
  BY <1>1, AloneInside DEF TypeInv, InLock
<1>5. ~SeedsQueued /\ SeedsQueued' /\ ~QueueRun /\ ~QueueRun'
  BY <1>1, <1>2, <1>4 DEF SeedsQueued, QueueRun, InLock
<1>6. Len(ran) = 0 /\ \A i \in 1..Len(queue) : OpOf(queue[i]) = "set" BY <1>5 DEF StatesFirst
<1>7. \A i \in 1..Len(Seeds) : OpOf(Seeds[i]) # "set" /\ MadeBefore(next, Seeds[i])
  BY <1>2, <1>3 DEF Tracked, AllMade
<1> DEFINE n == Len(queue)
<1>8. /\ n \in Nat /\ Len(Seeds) \in Nat /\ Len(queue') = n + Len(Seeds)
      /\ \A i \in 1..n : queue'[i] = queue[i]
      /\ \A i \in 1..Len(Seeds) : queue'[n + i] = Seeds[i]
      /\ \A i \in 1..Len(queue') : i \notin 1..n => i - n \in 1..Len(Seeds) /\ queue'[i] = Seeds[i - n]
  BY <1>1, <1>2, <1>3
<1>9. \A i \in 1..Len(queue') : OpOf(queue'[i]) = "set" <=> i \in 1..n BY <1>6, <1>7, <1>8
<1>10. AllMade' BY <1>1, <1>7, <1>8 DEF AllMade
<1>11. Sorted(queue')
  <2> SUFFICES ASSUME NEW i \in 1..Len(queue'), NEW j \in 1..Len(queue')
               PROVE  /\ queue'[i] = queue'[j] => i = j
                      /\ i < j /\ queue'[i][1] = queue'[j][1] /\ OpOf(queue'[i]) = "set" /\ OpOf(queue'[j]) = "set"
                           => queue'[i][2] < queue'[j][2]
    BY DEF Sorted
  <2>1. CASE i \in 1..n /\ j \in 1..n BY <1>8, <2>1 DEF Sorted
  <2>2. CASE i \in 1..n /\ j \notin 1..n BY <1>9, <2>2
  <2>3. CASE i \notin 1..n /\ j \in 1..n BY <1>9, <2>3
  <2>4. CASE i \notin 1..n /\ j \notin 1..n
    <3>1. queue'[i] = queue'[j] => i - n = j - n BY <1>3, <1>8, <2>4
    <3>2. QED BY <1>8, <1>9, <2>4, <3>1
  <2>5. QED BY <2>1, <2>2, <2>3, <2>4
<1>12. Sorted(ran') BY <1>1
<1>13. StatesFirst' BY <1>5 DEF StatesFirst
<1>14. RanPrefix'
  <2>1. \A u \in Threads : pc'[u] = "drain" => u = t BY <1>1, <1>2, <1>4 DEF InLock
  <2>2. QED BY <1>1, <1>6, <2>1 DEF RanPrefix
<1>15. EarlyKept'
  <2>1. ASSUME NEW c \in early, Due(c) PROVE In(c, queue')
    <3>0. c \in Calls /\ c # NoCall
      <4>1. c \in Calls BY <1>2
      <4>2. QED BY <4>1, CallIsCall
    <3>1. CASE OpOf(c) = "set"
      <4>1. In(c, queue) BY <2>1, <3>1 DEF EarlyKept
      <4>2. PICK i \in 1..n : queue[i] = c BY <4>1 DEF In
      <4>3. i \in 1..Len(queue') /\ queue'[i] = c BY <1>8, <4>2
      <4>4. QED BY <4>3 DEF In
    <3>2. CASE \E i \in {1, 2} : order[i] = c
      <4>1. PICK i \in 1..Len(Seeds) : Seeds[i] = c BY <1>3, <3>0, <3>2
      <4>2. n + i \in 1..Len(queue') /\ queue'[n + i] = c BY <1>8, <4>1
      <4>3. QED BY <4>2 DEF In
    <3>3. QED BY <2>1, <3>1, <3>2 DEF Due
  <2>2. QED BY <1>1, <1>5, <2>1 DEF EarlyKept, Due
<1>16. QED BY <1>10, <1>11, <1>12, <1>13, <1>14, <1>15

\* The next queued call runs: it was not run before, as the queue is sorted.
LEMMA DrainKeeps ==
    ASSUME QueueInv, NEW t \in Threads, Drain(t), TypeInv' PROVE QueueInv'
PROOF
<1> USE DEF QueueInv, QueueFacts
<1>1. /\ UNCHANGED <<initialized, queue, order, early, next>>
      /\ pc[t] = "drain" /\ pc' = [pc EXCEPT ![t] = "drain"]
      /\ drained < Len(queue) /\ drained' = drained + 1 /\ ran' = Append(ran, queue[drained + 1])
  BY DEF Drain, Goto, tracker, TypeInv, LockInv, Marked
<1>2. /\ TypeOK /\ queue \in Seq(Calls) /\ ran \in Seq(Calls) /\ pc \in [Threads -> Labels]
      /\ drained \in Nat
  BY DEF TypeInv, TypeOK
<1>3. ~initialized /\ drained = Len(ran) BY <1>1, AloneInside DEF TypeInv, InLock, RanPrefix
<1>4. drained + 1 \in 1..Len(queue) /\ queue[drained + 1] \in Calls BY <1>1, <1>2
<1>5. /\ Len(ran') = drained + 1 /\ ran'[drained + 1] = queue[drained + 1]
      /\ \A i \in 1..Len(ran) : ran'[i] = ran[i]
  BY <1>1, <1>2, <1>3, <1>4
<1>6. \A i \in 1..Len(ran') : i \in 1..Len(queue) /\ ran'[i] = queue[i]
  <2> SUFFICES ASSUME NEW i \in 1..Len(ran') PROVE i \in 1..Len(queue) /\ ran'[i] = queue[i]
    OBVIOUS
  <2>1. CASE i = drained + 1 BY <1>4, <1>5, <2>1
  <2>2. CASE i \in 1..Len(ran)
    <3>1. i <= Len(queue) /\ ran[i] = queue[i] BY <1>3, <2>2 DEF RanPrefix
    <3>2. QED BY <1>2, <1>5, <2>2, <3>1
  <2>3. QED BY <1>2, <1>3, <1>5, <2>1, <2>2
<1>7. AllMade' BY <1>1, <1>6 DEF AllMade
<1>8. Sorted(queue') BY <1>1
<1>9. Sorted(ran') BY <1>6 DEF Sorted
<1>10. /\ SeedsQueued /\ SeedsQueued' /\ (QueueRun' <=> QueueRun)
  BY <1>1, <1>2 DEF SeedsQueued, QueueRun
<1>11. StatesFirst' BY <1>10 DEF StatesFirst
<1>12. RanPrefix' BY <1>1, <1>2, <1>5, <1>6 DEF RanPrefix
<1>13. \A c \in early : In(c, ran) => In(c, ran') BY <1>2, <1>3, <1>5 DEF In
<1>14. EarlyKept' BY <1>1, <1>10, <1>13 DEF EarlyKept, Due
<1>15. QED BY <1>7, <1>8, <1>9, <1>11, <1>12, <1>14

LEMMA QueueInvStutters == ASSUME QueueInv, UNCHANGED vars, TypeInv' PROVE QueueInv'
PROOF
<1>1. UNCHANGED <<initialized, queue, order, drained, ran, early, next, pc>>
  BY DEF vars, tracker, history
<1>2. AllMade' /\ Sorted(queue)' /\ Sorted(ran)' BY <1>1 DEF QueueInv, QueueFacts, AllMade
<1>3. (SeedsQueued' <=> SeedsQueued) /\ (QueueRun' <=> QueueRun) BY <1>1 DEF SeedsQueued, QueueRun
<1>4. StatesFirst' /\ RanPrefix' /\ EarlyKept'
  BY <1>1, <1>3 DEF QueueInv, QueueFacts, StatesFirst, RanPrefix, EarlyKept, Due
<1>5. QED BY <1>2, <1>4 DEF QueueInv, QueueFacts

\* What is known of the queue at every moment.
THEOREM QueueInvHolds == Spec => []QueueInv
PROOF
<1>1. ASSUME QueueInv, [Next]_vars, LockInv' PROVE QueueInv'
  <2>1. TypeInv' BY <1>1, TypeInvStep, TypeInvStutters DEF QueueInv, Next, AllDone
  <2>2. ASSUME NEW t \in Threads, LazyCall(t) \/ Initialise(t) PROVE QueueInv'
    BY <1>1, <2>1, <2>2, QuietKeeps, CallNowKeeps, RegisterKeeps, QueueSeedsKeeps, DrainKeeps
       DEF LazyCall, Initialise, Quiet
  <2>3. QED BY <1>1, <2>1, <2>2, QueueInvStutters DEF Next, AllDone
<1>2. QED BY <1>1, QueueInvInit, LockInvHolds, PTL DEF Spec

\* The calls of one thread that set the state of the generator take effect in its order.
THEOREM StatesTakeEffectInOrder == Spec => []StatesInOrder
PROOF
<1>1. QueueInv => StatesInOrder
  <2> SUFFICES ASSUME QueueInv, NEW i \in 1..Len(ran), NEW j \in 1..Len(ran),
                      i < j, ran[i][1] = ran[j][1], {OpOf(ran[i]), OpOf(ran[j])} \subseteq {"set"}
               PROVE  ran[i][2] < ran[j][2]
    BY DEF StatesInOrder, InOrder
  <2>1. OpOf(ran[i]) = "set" /\ OpOf(ran[j]) = "set" OBVIOUS
  <2>2. QED BY <2>1 DEF QueueInv, QueueFacts, Sorted
<1>2. QED BY <1>1, QueueInvHolds, PTL

\* Every call that was queued before the initialisation began has run when it is over,
\* unless a later seed replaced it, and no call ever runs twice.
THEOREM EveryEarlyCallRuns == Spec => []EarlyCallsRun
PROOF
<1>1. QueueInv => EarlyCallsRun
  <2> SUFFICES ASSUME QueueInv PROVE EarlyCallsRun OBVIOUS
  <2>1. ASSUME NEW c \in Calls PROVE Cardinality(Index(c)) <= 1
    <3>1. \A i, j \in Index(c) : i = j BY DEF QueueInv, QueueFacts, Sorted, Index
    <3>2. CASE Index(c) = {} BY <3>2, FS_EmptySet
    <3>3. CASE Index(c) # {}
      <4>1. PICK i \in Index(c) : TRUE BY <3>3
      <4>2. Index(c) = {i} BY <3>1, <4>1
      <4>3. QED BY <4>2, FS_Singleton
    <3>4. QED BY <3>2, <3>3
  <2>2. ASSUME initialized, NEW c \in early PROVE Superseded(c) \/ Index(c) # {}
    <3>1. Superseded(c) \/ Due(c) BY DEF Superseded, Due
    <3>2. QueueRun BY <2>2 DEF QueueRun
    <3>3. ASSUME Due(c) PROVE Index(c) # {}
      <4>1. In(c, ran) BY <3>2, <3>3 DEF QueueInv, QueueFacts, EarlyKept
      <4>2. QED BY <4>1 DEF In, Index
    <3>4. QED BY <3>1, <3>3
  <2>3. QED BY <2>1, <2>2 DEF EarlyCallsRun
<1>2. QED BY <1>1, QueueInvHolds, PTL

=============================================================================
