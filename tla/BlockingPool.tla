---------------------------- MODULE BlockingPool ----------------------------
(***************************************************************************)
(* zephyr/src/blocking.rs: a fixed pool of worker threads runs blocking    *)
(* closures for async tasks.                                               *)
(*                                                                         *)
(* A future f is one call of run(op); it stands for its BlockingFuture,    *)
(* the Shared<F, R> inside it, and the closure itself.  A task may hold    *)
(* several futures (join, select) and its waker wakes all of them.  An     *)
(* actor is a future (the code its task runs in poll or drop) or a worker  *)
(* thread, and an action is one step that another actor can observe: an    *)
(* access to the atomic state, a lock taken, a section under a lock, a     *)
(* queue operation.                                                        *)
(***************************************************************************)
EXTENDS SequencesExt

CONSTANTS Futures,   \* the calls of blocking::run
          Tasks,     \* the async tasks that make them
          TaskOf,    \* the task that polls each future
          Workers,   \* CONFIG_RUST_BLOCKING_POOL_THREADS threads
          Slots,     \* CONFIG_RUST_BLOCKING_POOL_SLOTS slots
          WAITERS,   \* CONFIG_RUST_BLOCKING_POOL_WAITERS
          None       \* the null pointer, an empty Option, a free lock

ASSUME PoolAssumption ==
    /\ TaskOf \in [Futures -> Tasks]
    /\ WAITERS \in Nat \ {0}
    /\ Futures \cap Workers = {}
    /\ None \notin Futures \cup Workers \cup Slots \cup Tasks
    /\ Workers # {}

ASSUME FiniteAssumption == IsFiniteSet(Workers) /\ IsFiniteSet(Slots)

VARIABLES
    pc,       \* what each actor does next
    slot,     \* a future's `slot` field, a worker's local `slot`
    state,    \* Slot::state, the AtomicU8
    lock,     \* Slot::lock: the actor inside, or None
    shared,   \* Slot::shared: the future whose Shared it points at
    runner,   \* Slot::runner: run_op::<F, R> of the future that set it
    waker,    \* Slot::waker: the task registered in the AtomicWaker
    op,       \* the closure: in its cell, moved out and running, returned
    result,   \* Shared::result: the future whose closure computed it
    queue,    \* QUEUE
    waiters,  \* SlotPool::waiters
    started,  \* STARTED
    job,      \* the closure type, then the closure, a worker works on
    woken,    \* the futures whose task the executor will poll
    outcome   \* how each call of run ended

vars == <<pc, slot, state, lock, shared, runner, waker, op, result, queue,
          waiters, started, job, woken, outcome>>

Actors == Futures \cup Workers

SlotState == {"Free", "Claimed", "Queued", "Done", "Orphaned"}

\* A future exists (its memory is valid) from its creation to the end of drop.
Alive(f) == pc[f] \notin {"unborn", "gone"}

\* Inside a poll or a drop, which one task never runs two of at once.
Busy(f) == pc[f] \notin {"unborn", "pending", "gone"}

TaskFree(t) == \A f \in Futures : TaskOf[f] = t => ~Busy(f)

\* What waking the tasks in T makes the executor poll again.
FuturesOf(T) == {f \in Futures : TaskOf[f] \in T /\ Alive(f)}

Goto(a, label) == pc' = [pc EXCEPT ![a] = label]

Init ==
    /\ pc = [a \in Actors |-> IF a \in Futures THEN "unborn" ELSE "off"]
    /\ slot = [a \in Actors |-> None]
    /\ state = [s \in Slots |-> "Free"]
    /\ lock = [s \in Slots |-> None]
    /\ shared = [s \in Slots |-> None]
    /\ runner = [s \in Slots |-> None]
    /\ waker = [s \in Slots |-> None]
    /\ op = [f \in Futures |-> "ready"]
    /\ result = [f \in Futures |-> None]
    /\ queue = <<>>
    /\ waiters = {}
    /\ started = FALSE
    /\ job = [w \in Workers |-> None]
    /\ woken = {}
    /\ outcome = [f \in Futures |-> "none"]

-----------------------------------------------------------------------------
(* The future: run and poll.                                               *)

\* run(op): the task creates the future and polls it at once.
Run(f) ==
    /\ pc[f] = "unborn"
    /\ TaskFree(TaskOf[f])
    /\ Goto(f, "poll")
    /\ UNCHANGED <<slot, state, lock, shared, runner, waker, op, result,
                   queue, waiters, started, job, woken, outcome>>

\* The executor polls a live future: because its task was woken, or for a
\* reason of the task's own (another future of a join was woken).
PollAgain(f) ==
    /\ pc[f] = "pending"
    /\ TaskFree(TaskOf[f])
    /\ Goto(f, "poll")
    /\ woken' = woken \ {f}
    /\ UNCHANGED <<slot, state, lock, shared, runner, waker, op, result,
                   queue, waiters, started, job, outcome>>

\* SlotPool::claim finds a free slot under the waiters lock.  The scan runs in
\* index order, but release stores Free without the lock, so a slot behind the
\* scan may become free too: any free slot may be the one found.
Claim(f) ==
    /\ pc[f] = "poll"
    /\ slot[f] = None
    /\ \E s \in Slots :
          /\ state[s] = "Free"
          /\ state' = [state EXCEPT ![s] = "Claimed"]
          /\ slot' = [slot EXCEPT ![f] = s]
    /\ Goto(f, "wire")
    /\ UNCHANGED <<lock, shared, runner, waker, op, result, queue, waiters,
                   started, job, woken, outcome>>

\* MultiWakerRegistration::register: a task already there is left alone, and
\* a full registration wakes everybody in it first.
Overflows(t) == t \notin waiters /\ Cardinality(waiters) >= WAITERS

\* Mutant: a full registration is overwritten and the evicted tasks forgotten.
ClaimFailsEvicting(f) ==
    /\ pc[f] = "poll"
    /\ slot[f] = None
    /\ \A s \in Slots : state[s] # "Free"
    /\ waiters' = {TaskOf[f]}
    /\ Goto(f, "pending")
    /\ UNCHANGED <<slot, state, lock, shared, runner, waker, op, result,
                   queue, started, job, woken, outcome>>

\* SlotPool::claim finds none: the task registers and the poll is Pending.
ClaimFails(f) ==
    LET t == TaskOf[f] IN
    /\ pc[f] = "poll"
    /\ slot[f] = None
    /\ \A s \in Slots : state[s] # "Free"
    /\ waiters' = IF Overflows(t) THEN {t} ELSE waiters \cup {t}
    /\ woken' = IF Overflows(t) THEN woken \cup FuturesOf(waiters) ELSE woken
    /\ Goto(f, "pending")
    /\ UNCHANGED <<slot, state, lock, shared, runner, waker, op, result,
                   queue, started, job, outcome>>

\* The claimed slot gets the task's waker, the pointer and the runner.
Wire(f) ==
    LET s == slot[f] IN
    /\ pc[f] = "wire"
    /\ waker' = [waker EXCEPT ![s] = TaskOf[f]]
    /\ shared' = [shared EXCEPT ![s] = f]
    /\ runner' = [runner EXCEPT ![s] = f]
    /\ Goto(f, "start")
    /\ UNCHANGED <<slot, state, lock, op, result, queue, waiters, started,
                   job, woken, outcome>>

\* start_workers_once: the compare_exchange on STARTED.
StartWorkersOnce(f) ==
    /\ pc[f] = "start"
    /\ started' = TRUE
    /\ Goto(f, IF started THEN "arm" ELSE "spawn")
    /\ UNCHANGED <<slot, state, lock, shared, runner, waker, op, result,
                   queue, waiters, job, woken, outcome>>

\* start_workers_once: one turn of the loop that spawns the workers; the last
\* turn falls through to the rest of poll.
SpawnWorker(f, w) ==
    /\ pc[f] = "spawn"
    /\ pc[w] = "off"
    /\ pc' = [pc EXCEPT ![w] = "recv",
                        ![f] = IF \E v \in Workers \ {w} : pc[v] = "off"
                               THEN "spawn" ELSE "arm"]
    /\ UNCHANGED <<slot, state, lock, shared, runner, waker, op, result,
                   queue, waiters, started, job, woken, outcome>>

MarkQueued(f) ==
    /\ pc[f] = "arm"
    /\ state' = [state EXCEPT ![slot[f]] = "Queued"]
    /\ Goto(f, "send")
    /\ UNCHANGED <<slot, lock, shared, runner, waker, op, result, queue,
                   waiters, started, job, woken, outcome>>

Send(f) ==
    /\ pc[f] = "send"
    /\ queue' = Append(queue, slot[f])
    /\ Goto(f, "pending")
    /\ UNCHANGED <<slot, state, lock, shared, runner, waker, op, result,
                   waiters, started, job, woken, outcome>>

\* Mutant: later polls rely on the waker of the first one.
RegisterOnce(f) ==
    /\ pc[f] = "poll"
    /\ slot[f] # None
    /\ Goto(f, "check")
    /\ UNCHANGED <<slot, state, lock, shared, runner, waker, op, result,
                   queue, waiters, started, job, woken, outcome>>

\* A later poll registers the waker first ...
Register(f) ==
    /\ pc[f] = "poll"
    /\ slot[f] # None
    /\ waker' = [waker EXCEPT ![slot[f]] = TaskOf[f]]
    /\ Goto(f, "check")
    /\ UNCHANGED <<slot, state, lock, shared, runner, op, result, queue,
                   waiters, started, job, woken, outcome>>

\* Mutant: anything but Orphaned is taken for Done.
CheckNotOrphaned(f) ==
    /\ pc[f] = "check"
    /\ Goto(f, IF state[slot[f]] # "Orphaned" THEN "take" ELSE "pending")
    /\ UNCHANGED <<slot, state, lock, shared, runner, waker, op, result,
                   queue, waiters, started, job, woken, outcome>>

\* ... and then looks at the state.
CheckDone(f) ==
    /\ pc[f] = "check"
    /\ Goto(f, IF state[slot[f]] = "Done" THEN "take" ELSE "pending")
    /\ UNCHANGED <<slot, state, lock, shared, runner, waker, op, result,
                   queue, waiters, started, job, woken, outcome>>

\* result.take(); the slot is given back before poll returns Ready.
TakeResult(f) ==
    /\ pc[f] = "take"
    /\ result' = [result EXCEPT ![f] = None]
    /\ outcome' = [outcome EXCEPT ![f] = "ready"]
    /\ Goto(f, "free")
    /\ UNCHANGED <<slot, state, lock, shared, runner, waker, op, queue,
                   waiters, started, job, woken>>

-----------------------------------------------------------------------------
(* SlotPool::release, called by a future or by a worker.                   *)

\* The state is stored first, without a lock.
ReleaseStore(a) ==
    /\ pc[a] = "free"
    /\ state' = [state EXCEPT ![slot[a]] = "Free"]
    /\ slot' = [slot EXCEPT ![a] = None]
    /\ Goto(a, "wakeall")
    /\ UNCHANGED <<lock, shared, runner, waker, op, result, queue, waiters,
                   started, job, woken, outcome>>

\* Then every waiting task is woken under the waiters lock.
ReleaseWake(a) ==
    /\ pc[a] = "wakeall"
    /\ waiters' = {}
    /\ woken' = woken \cup FuturesOf(waiters)
    /\ Goto(a, IF a \in Workers THEN "recv" ELSE "gone")
    /\ UNCHANGED <<slot, state, lock, shared, runner, waker, op, result,
                   queue, started, job, outcome>>

-----------------------------------------------------------------------------
(* Dropping a future that is not ready: cancel.  The call counts as        *)
(* cancelled once its fate is settled: the closure was removed from the    *)
(* queue, the slot was orphaned, or the worker had finished already.       *)

Cancelled(f) == [outcome EXCEPT ![f] = "cancelled"]

Drop(f) ==
    /\ pc[f] = "pending"
    /\ TaskFree(TaskOf[f])
    /\ outcome' = IF slot[f] = None THEN Cancelled(f) ELSE outcome
    /\ Goto(f, IF slot[f] = None THEN "gone" ELSE "remove")
    /\ woken' = woken \ {f}
    /\ UNCHANGED <<slot, state, lock, shared, runner, waker, op, result,
                   queue, waiters, started, job>>

\* QUEUE.remove takes the slot out if no worker has received it.
CancelRemove(f) ==
    /\ pc[f] = "remove"
    /\ \/ \E i \in DOMAIN queue :
             /\ queue[i] = slot[f]
             /\ queue' = RemoveAt(queue, i)
             /\ Goto(f, "free")
             /\ outcome' = Cancelled(f)
       \/ /\ \A i \in DOMAIN queue : queue[i] # slot[f]
          /\ Goto(f, "cancel_lock")
          /\ UNCHANGED <<queue, outcome>>
    /\ UNCHANGED <<slot, state, lock, shared, runner, waker, op, result,
                   waiters, started, job, woken>>

\* Mutant: cancel does not take the slot lock.
CancelUnlocked(f) ==
    /\ pc[f] = "cancel_lock"
    /\ Goto(f, "cancel")
    /\ UNCHANGED <<slot, state, lock, shared, runner, waker, op, result,
                   queue, waiters, started, job, woken, outcome>>

CancelLock(f) ==
    /\ pc[f] = "cancel_lock"
    /\ lock[slot[f]] = None
    /\ lock' = [lock EXCEPT ![slot[f]] = f]
    /\ Goto(f, "cancel")
    /\ UNCHANGED <<slot, state, shared, runner, waker, op, result, queue,
                   waiters, started, job, woken, outcome>>

\* Mutant: a cancel that finds the operation done forgets the slot.
CancelLeaks(f) ==
    /\ pc[f] = "cancel"
    /\ state[slot[f]] = "Done"
    /\ lock' = [lock EXCEPT ![slot[f]] = None]
    /\ slot' = [slot EXCEPT ![f] = None]
    /\ outcome' = Cancelled(f)
    /\ Goto(f, "gone")
    /\ UNCHANGED <<state, shared, runner, waker, op, result, queue,
                   waiters, started, job, woken>>

\* Under the lock: a finished slot is released by the future; any other is
\* left to the worker as Orphaned, with its pointer cleared.
CancelFinished(f) ==
    /\ pc[f] = "cancel"
    /\ state[slot[f]] = "Done"
    /\ lock' = [lock EXCEPT ![slot[f]] = None]
    /\ outcome' = Cancelled(f)
    /\ Goto(f, "free")
    /\ UNCHANGED <<slot, state, shared, runner, waker, op, result, queue,
                   waiters, started, job, woken>>

CancelOrphan(f) ==
    LET s == slot[f] IN
    /\ pc[f] = "cancel"
    /\ state[s] # "Done"
    /\ shared' = [shared EXCEPT ![s] = None]
    /\ state' = [state EXCEPT ![s] = "Orphaned"]
    /\ lock' = [lock EXCEPT ![s] = None]
    /\ slot' = [slot EXCEPT ![f] = None]
    /\ outcome' = Cancelled(f)
    /\ Goto(f, "gone")
    /\ UNCHANGED <<runner, waker, op, result, queue, waiters, started, job,
                   woken>>

-----------------------------------------------------------------------------
(* The worker thread: worker and run_op.                                   *)

Recv(w) ==
    /\ pc[w] = "recv"
    /\ queue # <<>>
    /\ slot' = [slot EXCEPT ![w] = Head(queue)]
    /\ queue' = Tail(queue)
    /\ Goto(w, "runner")
    /\ UNCHANGED <<state, lock, shared, runner, waker, op, result, waiters,
                   started, job, woken, outcome>>

ReadRunner(w) ==
    /\ pc[w] = "runner"
    /\ job' = [job EXCEPT ![w] = runner[slot[w]]]
    /\ Goto(w, "take_lock")
    /\ UNCHANGED <<slot, state, lock, shared, runner, waker, op, result,
                   queue, waiters, started, woken, outcome>>

LockSlot(w, from, to) ==
    /\ pc[w] = from
    /\ lock[slot[w]] = None
    /\ lock' = [lock EXCEPT ![slot[w]] = w]
    /\ Goto(w, to)
    /\ UNCHANGED <<slot, state, shared, runner, waker, op, result, queue,
                   waiters, started, job, woken, outcome>>

\* Mutant: run_op does not look for Orphaned before it takes the closure.
TakeOpOrphaned(w) ==
    LET s == slot[w]
        f == job[w]
        taken == op[f] = "ready"
    IN
    /\ pc[w] = "take_op"
    /\ op' = IF taken THEN [op EXCEPT ![f] = "running"] ELSE op
    /\ lock' = [lock EXCEPT ![s] = None]
    /\ Goto(w, IF taken THEN "exec" ELSE "free")
    /\ UNCHANGED <<slot, state, shared, runner, waker, result, queue,
                   waiters, started, job, woken, outcome>>

\* The first section under the lock moves the closure out of its cell, unless
\* the future is gone.
TakeOp(w) ==
    LET s == slot[w]
        f == shared[s]
        taken == state[s] # "Orphaned" /\ op[f] = "ready"
    IN
    /\ pc[w] = "take_op"
    /\ op' = IF taken THEN [op EXCEPT ![f] = "running"] ELSE op
    /\ job' = [job EXCEPT ![w] = IF taken THEN f ELSE None]
    /\ lock' = [lock EXCEPT ![s] = None]
    /\ Goto(w, IF taken THEN "exec" ELSE "free")
    /\ UNCHANGED <<slot, state, shared, runner, waker, result, queue,
                   waiters, started, woken, outcome>>

\* op(): the blocking call returns.
ExecOp(w) ==
    /\ pc[w] = "exec"
    /\ op' = [op EXCEPT ![job[w]] = "returned"]
    /\ Goto(w, "finish_lock")
    /\ UNCHANGED <<slot, state, lock, shared, runner, waker, result, queue,
                   waiters, started, job, woken, outcome>>

\* Mutant: run_op returns without releasing an orphaned slot.
DiscardLeaks(w) ==
    LET s == slot[w] IN
    /\ pc[w] = "finish"
    /\ state[s] = "Orphaned"
    /\ lock' = [lock EXCEPT ![s] = None]
    /\ job' = [job EXCEPT ![w] = None]
    /\ slot' = [slot EXCEPT ![w] = None]
    /\ Goto(w, "recv")
    /\ UNCHANGED <<state, shared, runner, waker, op, result, queue,
                   waiters, started, woken, outcome>>

\* The second section under the lock: an orphaned slot is released, otherwise
\* the result is written through the pointer and then published.
DiscardResult(w) ==
    LET s == slot[w] IN
    /\ pc[w] = "finish"
    /\ state[s] = "Orphaned"
    /\ lock' = [lock EXCEPT ![s] = None]
    /\ job' = [job EXCEPT ![w] = None]
    /\ Goto(w, "free")
    /\ UNCHANGED <<slot, state, shared, runner, waker, op, result, queue,
                   waiters, started, woken, outcome>>

WriteResult(w) ==
    LET s == slot[w] IN
    /\ pc[w] = "finish"
    /\ state[s] # "Orphaned"
    /\ result' = [result EXCEPT ![shared[s]] = job[w]]
    /\ job' = [job EXCEPT ![w] = None]
    /\ Goto(w, "publish")
    /\ UNCHANGED <<slot, state, lock, shared, runner, waker, op, queue,
                   waiters, started, woken, outcome>>

PublishDone(w) ==
    LET s == slot[w] IN
    /\ pc[w] = "publish"
    /\ state' = [state EXCEPT ![s] = "Done"]
    /\ Goto(w, "unlock")
    /\ UNCHANGED <<slot, lock, shared, runner, waker, op, result, queue,
                   waiters, started, job, woken, outcome>>

Unlock(w) ==
    /\ pc[w] = "unlock"
    /\ lock' = [lock EXCEPT ![slot[w]] = None]
    /\ Goto(w, "wake")
    /\ UNCHANGED <<slot, state, shared, runner, waker, op, result, queue,
                   waiters, started, job, woken, outcome>>

\* AtomicWaker::wake.  The slot may have been released, and even claimed by
\* another future, since Done was published.  Whether the waker stays
\* registered is the library's business.
WakeSlot(w) ==
    LET s == slot[w] IN
    /\ pc[w] = "wake"
    /\ woken' = woken \cup FuturesOf({waker[s]})
    /\ \E left \in {waker[s], None} : waker' = [waker EXCEPT ![s] = left]
    /\ slot' = [slot EXCEPT ![w] = None]
    /\ Goto(w, "recv")
    /\ UNCHANGED <<state, lock, shared, runner, op, result, queue, waiters,
                   started, job, outcome>>

-----------------------------------------------------------------------------
FutureStep(f) ==
    \/ Claim(f) \/ ClaimFails(f) \/ Wire(f) \/ StartWorkersOnce(f)
    \/ \E w \in Workers : SpawnWorker(f, w)
    \/ MarkQueued(f) \/ Send(f)
    \/ Register(f) \/ CheckDone(f) \/ TakeResult(f)
    \/ CancelRemove(f) \/ CancelLock(f) \/ CancelFinished(f) \/ CancelOrphan(f)
    \/ ReleaseStore(f) \/ ReleaseWake(f)

WorkerStep(w) ==
    \/ Recv(w) \/ ReadRunner(w)
    \/ LockSlot(w, "take_lock", "take_op") \/ TakeOp(w) \/ ExecOp(w)
    \/ LockSlot(w, "finish_lock", "finish") \/ DiscardResult(w)
    \/ WriteResult(w) \/ PublishDone(w) \/ Unlock(w) \/ WakeSlot(w)
    \/ ReleaseStore(w) \/ ReleaseWake(w)

\* Every call is over and the workers wait on the queue for ever.
Quiescent ==
    /\ \A f \in Futures : pc[f] = "gone"
    /\ \A w \in Workers : pc[w] \in {"off", "recv"}
    /\ queue = <<>>

Idle == Quiescent /\ UNCHANGED vars

Next ==
    \/ \E f \in Futures : Run(f) \/ PollAgain(f) \/ Drop(f) \/ FutureStep(f)
    \/ \E w \in Workers : WorkerStep(w)
    \/ Idle

Spec == Init /\ [][Next]_vars

\* A thread that can run does, the executor polls what was woken, and the
\* blocking calls return.  Nobody has to cancel, to poll without a wake-up, or
\* to make a call.
Fairness ==
    /\ \A f \in Futures :
          /\ WF_vars(FutureStep(f))
          /\ WF_vars(f \in woken /\ PollAgain(f))
    /\ \A w \in Workers : WF_vars(WorkerStep(w))

FairSpec == Spec /\ Fairness
-----------------------------------------------------------------------------
(* Properties.                                                             *)

FuturePC == {"unborn", "pending", "poll", "wire", "start", "spawn", "arm",
             "send", "check", "take", "remove", "cancel_lock", "cancel",
             "free", "wakeall", "gone"}

WorkerPC == {"off", "recv", "runner", "take_lock", "take_op", "exec",
             "finish_lock", "finish", "publish", "unlock", "wake", "free",
             "wakeall"}

\* Every variable keeps its type; the slot an actor works on is a slot.
TypeOK ==
    /\ pc \in [Actors -> FuturePC \cup WorkerPC]
    /\ \A f \in Futures : pc[f] \in FuturePC
    /\ \A w \in Workers : pc[w] \in WorkerPC
    /\ slot \in [Actors -> Slots \cup {None}]
    /\ state \in [Slots -> SlotState]
    /\ lock \in [Slots -> Actors \cup {None}]
    /\ shared \in [Slots -> Futures \cup {None}]
    /\ runner \in [Slots -> Futures \cup {None}]
    /\ waker \in [Slots -> Tasks \cup {None}]
    /\ op \in [Futures -> {"ready", "running", "returned"}]
    /\ result \in [Futures -> Futures \cup {None}]
    /\ queue \in Seq(Slots)
    /\ waiters \in SUBSET Tasks
    /\ started \in BOOLEAN
    /\ job \in [Workers -> Futures \cup {None}]
    /\ woken \in SUBSET Futures
    /\ outcome \in [Futures -> {"none", "ready", "cancelled"}]

InQueue(s) == \E i \in DOMAIN queue : queue[i] = s

\* The pcs at which a worker owns the slot it received.
Owning == {"runner", "take_lock", "take_op", "exec", "finish_lock", "finish",
           "publish", "free"}

WorksOn(w, s) == slot[w] = s /\ pc[w] \in Owning

One(S) == \E x \in S : S = {x}

\* run_op never follows a pointer into a dropped future: whenever a worker is
\* inside the slot lock and the slot is not Orphaned, and from the moment it
\* found that until it publishes Done, the pointer leads to the
\* live future that owns this slot, and that future's types are the ones the
\* runner it read was made for.
MemorySafe ==
    \A w \in Workers :
        \/ pc[w] \in {"take_op", "finish"} /\ state[slot[w]] # "Orphaned"
        \/ pc[w] = "publish"
            => \E f \in Futures :
                  /\ shared[slot[w]] = f
                  /\ Alive(f)
                  /\ slot[f] = slot[w]
                  /\ runner[slot[w]] = f
                  /\ pc[w] # "publish" => job[w] = f

\* Every slot is accounted for, through claim, send, recv, cancel and release:
\* a Free slot has no owner and is not in the queue, an Orphaned one has one
\* worker and no future, any other has exactly one future, and a Queued one is
\* in the queue, or with one worker, or still with its future (before send or
\* after remove), never in two of these places.
SlotAccounted ==
    \A s \in Slots :
        LET Fs == {f \in Futures : slot[f] = s}
            Ws == {w \in Workers : WorksOn(w, s)}
            Qs == {i \in DOMAIN queue : queue[i] = s}
            Kept == {f \in Fs : pc[f] \in {"send", "free"}}
        IN  /\ state[s] = "Free" => Fs = {} /\ Ws = {} /\ Qs = {}
            /\ state[s] \in {"Claimed", "Done"} => One(Fs) /\ Ws = {} /\ Qs = {}
            /\ state[s] = "Orphaned" => Fs = {} /\ One(Ws) /\ Qs = {}
            /\ state[s] = "Queued" =>
                  /\ One(Fs)
                  /\ \/ One(Qs) /\ Ws = {} /\ Kept = {}
                     \/ Qs = {} /\ One(Ws) /\ Kept = {}
                     \/ Qs = {} /\ Ws = {} /\ Kept = Fs

\* A future that sees Done finds a result, and it is what its own closure
\* returned, however often the slot was used before: the expect in poll
\* ("reported Done without a result") never panics.
OwnResult ==
    \A f \in Futures : pc[f] = "take" => result[f] = f /\ op[f] = "returned"

\* A future that awaits a finished slot is about to be polled, or the worker
\* is about to wake its task.  The late wake-up of an earlier user of the slot
\* may have consumed the waker: the poll it causes registers a new one.
NoLostCompletion ==
    \A f \in Futures :
        pc[f] = "pending" /\ slot[f] # None /\ state[slot[f]] = "Done"
            => \/ f \in woken
               \/ \E w \in Workers : /\ pc[w] \in {"unlock", "wake"}
                                     /\ slot[w] = slot[f]
                                     /\ waker[slot[f]] = TaskOf[f]

\* A future that awaits a slot is registered or about to be polled, and while
\* a slot is free and tasks are registered, a release is about to wake them.
NoLostSlot ==
    /\ \A f \in Futures : pc[f] = "pending" /\ slot[f] = None
          => f \in woken \/ TaskOf[f] \in waiters
    /\ (\E s \in Slots : state[s] = "Free") /\ waiters # {}
          => \E a \in Actors : pc[a] = "wakeall"

\* Whatever poll left a future to wait for, no wake-up of it is lost: not that
\* of run_op for its result, not that of release for a slot.
NoLostWake == NoLostCompletion /\ NoLostSlot

\* A caller sees a call as pending until poll returns Ready or a cancel is
\* settled.  A running closure holds a worker and a slot.
callView == [f \in Futures |->
    IF pc[f] = "unborn" THEN "unborn"
    ELSE IF outcome[f] = "none" THEN "pending" ELSE outcome[f]]

Promise == INSTANCE BlockingRun
    WITH Calls <- Futures, call <- callView,
         Limit <- Min({Cardinality(Workers), Cardinality(Slots)})

\* The pool implements what the documentation of run promises its callers
\* (module BlockingRun): the closure of a call runs at most once, never after
\* the call was cancelled, the answer comes after it returned, and no more
\* closures run at once than there are workers, or slots.
KeepsPromise == Promise!Spec

\* Every call of run is answered or dropped, even when more tasks wait for a
\* slot than WAITERS registrations hold.
EveryCallEnds == \A f \in Futures : Alive(f) ~> ~Alive(f)

\* No slot is lost for good, whoever cancels and whenever.
SlotsComeBack == \A s \in Slots : state[s] # "Free" ~> state[s] = "Free"

=============================================================================
