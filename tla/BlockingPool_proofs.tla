------------------------- MODULE BlockingPool_proofs -------------------------
(***************************************************************************)
(* Proofs about BlockingPool, for any sets of futures, tasks, workers and  *)
(* slots.  The inductive invariant IInv says who may touch a slot in each  *)
(* of its states: the future that holds it, the queue, or one worker.      *)
(***************************************************************************)
EXTENDS BlockingPool, SequenceTheorems, FiniteSetTheorems, TLAPS

\* The pcs at which a future is sure to hold a slot.
Holding == {"wire", "start", "spawn", "arm", "send", "check", "take",
            "remove", "cancel_lock", "cancel", "free"}

\* The pcs at which a future waits for its closure, queued or with a worker.
Awaiting == {"pending", "poll", "check", "remove", "cancel_lock", "cancel"}

FutureInv ==
    \A f \in Futures :
        /\ pc[f] \in {"unborn", "wakeall", "gone"} => slot[f] = None
        /\ pc[f] \in Holding => slot[f] # None
        /\ slot[f] # None =>
              /\ state[slot[f]] \in {"Claimed", "Queued", "Done"}
              /\ state[slot[f]] = "Claimed" <=> pc[f] \in {"wire", "start", "spawn", "arm"}
              /\ pc[f] = "take" => state[slot[f]] = "Done"
              /\ pc[f] = "send" => state[slot[f]] = "Queued"
              /\ pc[f] # "wire" => shared[slot[f]] = f /\ runner[slot[f]] = f
              /\ \A g \in Futures : slot[g] = slot[f] => g = f

QueueInv ==
    \A i \in 1..Len(queue) :
        /\ state[queue[i]] = "Queued"
        /\ \A j \in 1..Len(queue) : queue[i] = queue[j] => i = j
        /\ \A w \in Workers : ~WorksOn(w, queue[i])
        /\ \A f \in Futures : slot[f] = queue[i] =>
              pc[f] \in {"pending", "poll", "check", "remove"}

WorkerInv ==
    \A w \in Workers :
        /\ pc[w] \in {"off", "recv", "wakeall"} => slot[w] = None
        /\ pc[w] \in Owning \cup {"unlock", "wake"} => slot[w] # None
        /\ pc[w] \in Owning =>
              /\ state[slot[w]] \in {"Queued", "Orphaned"}
              /\ pc[w] = "publish" => state[slot[w]] = "Queued"
              /\ pc[w] = "free" => state[slot[w]] = "Orphaned"
              /\ \A f \in Futures : slot[f] = slot[w] => pc[f] \in Awaiting
              /\ \A v \in Workers : WorksOn(v, slot[w]) => v = w

\* Nothing is lost: a slot that is not Free has someone who will release it.
SlotHeld ==
    \A s \in Slots : state[s] \in {"Claimed", "Queued", "Done"}
        => \E f \in Futures : slot[f] = s

OrphanHeld ==
    \A s \in Slots : state[s] = "Orphaned" => \E w \in Workers : WorksOn(w, s)

\* A queued closure is in the queue or with a worker, except before send and
\* after its removal.
QueuedHeld ==
    \A f \in Futures :
        /\ slot[f] # None
        /\ state[slot[f]] = "Queued"
        /\ pc[f] \notin {"send", "free"}
        => \/ \E i \in 1..Len(queue) : queue[i] = slot[f]
           \/ \E w \in Workers : WorksOn(w, slot[f])

\* Past QUEUE.remove a cancelled slot is not in the queue.
OffQueue ==
    \A f \in Futures : pc[f] \in {"cancel_lock", "cancel"} =>
        \A i \in 1..Len(queue) : queue[i] # slot[f]

\* Where the closure of a call is.
OpInv ==
    /\ \A f \in Futures :
          \/ pc[f] = "unborn"
          \/ pc[f] \in {"pending", "poll"} /\ slot[f] = None
          \/ slot[f] # None /\ state[slot[f]] = "Claimed"
          \/ pc[f] = "send"
          \/ slot[f] # None /\ \E i \in 1..Len(queue) : queue[i] = slot[f]
          => op[f] = "ready"
    /\ \A w \in Workers :
          /\ pc[w] \in {"runner", "take_lock", "take_op"} =>
                \A f \in Futures : slot[f] = slot[w] => op[f] = "ready"
          /\ pc[w] = "exec" => job[w] \in Futures /\ op[job[w]] = "running"
          /\ pc[w] \in {"finish_lock", "finish"} =>
                job[w] \in Futures /\ op[job[w]] = "returned"
          /\ pc[w] \in {"take_lock", "take_op", "exec", "finish_lock", "finish"} =>
                \A f \in Futures : slot[f] = slot[w] => job[w] = f
          /\ pc[w] = "publish" =>
                \A f \in Futures : slot[f] = slot[w] =>
                    result[f] = f /\ op[f] = "returned"
          /\ \A v \in Workers :
                /\ pc[v] \in {"exec", "finish_lock", "finish"}
                /\ pc[w] \in {"exec", "finish_lock", "finish"}
                /\ job[v] = job[w]
                => v = w
    /\ \A f \in Futures :
          slot[f] # None /\ state[slot[f]] = "Done" /\ pc[f] # "free"
              => result[f] = f /\ op[f] = "returned"

LockInv ==
    /\ \A w \in Workers : pc[w] \in {"take_op", "finish", "publish", "unlock"}
          => lock[slot[w]] = w
    /\ \A f \in Futures : pc[f] = "cancel" => lock[slot[f]] = f

IInv == TypeOK /\ FutureInv /\ QueueInv /\ WorkerInv /\ SlotHeld /\ OrphanHeld
        /\ QueuedHeld /\ OffQueue /\ OpInv /\ LockInv

-----------------------------------------------------------------------------
(* Queue operations.                                                       *)

\* k_queue_remove takes exactly the given element out and keeps the order.
LEMMA RemoveAtElements ==
    ASSUME NEW S, NEW q \in Seq(S), NEW i \in 1..Len(q)
    PROVE  /\ RemoveAt(q, i) \in Seq(S)
           /\ Len(RemoveAt(q, i)) = Len(q) - 1
           /\ \A j \in 1..(Len(q) - 1) :
                 RemoveAt(q, i)[j] = IF j < i THEN q[j] ELSE q[j + 1]
<1> DEFINE a == SubSeq(q, 1, i - 1)
           b == SubSeq(q, i + 1, Len(q))
<1>1. /\ a \in Seq(S) /\ Len(a) = i - 1
      /\ \A j \in 1..(i - 1) : a[j] = q[j]
  BY SubSeqProperties
<1>2. /\ b \in Seq(S) /\ Len(b) = Len(q) - i
      /\ \A j \in 1..(Len(q) - i) : b[j] = q[i + j]
  BY SubSeqProperties
<1>q. Len(q) \in Nat /\ i \in Nat /\ i <= Len(q)
  OBVIOUS
<1> HIDE DEF a, b
<1>3. /\ a \o b \in Seq(S)
      /\ Len(a \o b) = Len(q) - 1
      /\ \A j \in 1..(Len(q) - 1) :
            (a \o b)[j] = IF j < i THEN q[j] ELSE q[j + 1]
  <2>1. Len(a \o b) = Len(a) + Len(b) /\ a \o b \in Seq(S)
    BY <1>1, <1>2, ConcatProperties
  <2>2. ASSUME NEW j \in 1..(Len(q) - 1)
        PROVE  (a \o b)[j] = IF j < i THEN q[j] ELSE q[j + 1]
    BY <1>1, <1>2, ConcatProperties
  <2>3. Len(a \o b) = Len(q) - 1
    BY <1>1, <1>2, <1>q, <2>1
  <2> QED BY <2>1, <2>2, <2>3
<1> QED BY <1>3 DEF RemoveAt, a, b

\* Initially IInv holds.
LEMMA InitIInv == Init => IInv
<1> SUFFICES ASSUME Init PROVE IInv
  OBVIOUS
<1> USE PoolAssumption DEF Init, Actors
<1>1. TypeOK
  <2>1. started \in BOOLEAN
    BY Zenon
  <2>2. queue \in Seq(Slots)
    OBVIOUS
  <2>3. pc \in [Actors -> FuturePC \cup WorkerPC]
    BY DEF FuturePC, WorkerPC
  <2>4. /\ \A f \in Futures : pc[f] \in FuturePC
        /\ \A w \in Workers : pc[w] \in WorkerPC
    BY DEF FuturePC, WorkerPC
  <2>5. slot \in [Actors -> Slots \cup {None}] /\ lock \in [Slots -> Actors \cup {None}]
    OBVIOUS
  <2>6. state \in [Slots -> SlotState]
    BY DEF SlotState
  <2> QED BY <2>1, <2>2, <2>3, <2>4, <2>5, <2>6 DEF TypeOK
<1>2. FutureInv
  BY DEF FutureInv, Holding
<1>3. QueueInv
  BY DEF QueueInv
<1>4. WorkerInv
  BY DEF WorkerInv, Owning
<1>5. SlotHeld /\ OrphanHeld /\ QueuedHeld /\ OffQueue
  BY DEF SlotHeld, OrphanHeld, QueuedHeld, OffQueue
<1>6. OpInv
  BY DEF OpInv
<1>7. LockInv
  BY DEF LockInv
<1> QED BY <1>1, <1>2, <1>3, <1>4, <1>5, <1>6, <1>7 DEF IInv

-----------------------------------------------------------------------------
(* Each step preserves IInv: one lemma per action.                         *)

\* Creating a future gives it no slot.
LEMMA RunStep ==
    ASSUME IInv, NEW f \in Futures, Run(f)
    PROVE  IInv'
<1> USE PoolAssumption DEF IInv, Actors, TypeOK, WorksOn, Owning, Run, Goto
<1>1. TypeOK'
  BY DEF SlotState, FuturePC, WorkerPC, FutureInv, WorkerInv, Holding, Awaiting
<1>2. FutureInv' /\ WorkerInv'
  BY DEF FutureInv, Holding, WorkerInv, Awaiting
<1>3. QueueInv' /\ OffQueue'
  BY DEF QueueInv, OffQueue, FutureInv, WorkerInv, Holding, Awaiting
<1>4. SlotHeld' /\ OrphanHeld' /\ QueuedHeld'
  BY DEF SlotHeld, OrphanHeld, QueuedHeld, FutureInv, WorkerInv, Holding,
      Awaiting
<1>5. OpInv' /\ LockInv'
  BY DEF OpInv, LockInv, FutureInv, WorkerInv, Holding, Awaiting
<1> QED BY <1>1, <1>2, <1>3, <1>4, <1>5

\* A poll begins: nothing but the pc changes hands.
LEMMA PollAgainStep ==
    ASSUME IInv, NEW f \in Futures, PollAgain(f)
    PROVE  IInv'
<1> USE PoolAssumption DEF IInv, Actors, TypeOK, WorksOn, Owning, PollAgain,
    Goto
<1>1. TypeOK'
  BY DEF SlotState, FuturePC, WorkerPC, FutureInv, WorkerInv, Holding, Awaiting
<1>2. FutureInv' /\ WorkerInv'
  BY DEF FutureInv, Holding, WorkerInv, Awaiting
<1>3. QueueInv' /\ OffQueue'
  BY DEF QueueInv, OffQueue, FutureInv, WorkerInv, Holding, Awaiting
<1>4. SlotHeld' /\ OrphanHeld' /\ QueuedHeld'
  BY DEF SlotHeld, OrphanHeld, QueuedHeld, FutureInv, WorkerInv, Holding,
      Awaiting
<1>5. OpInv' /\ LockInv'
  BY DEF OpInv, LockInv, FutureInv, WorkerInv, Holding, Awaiting
<1> QED BY <1>1, <1>2, <1>3, <1>4, <1>5

\* claim gives a Free slot, which nobody holds, to one future.
LEMMA ClaimStep ==
    ASSUME IInv, NEW f \in Futures, Claim(f)
    PROVE  IInv'
<1> USE PoolAssumption DEF IInv, Actors, TypeOK, WorksOn, Owning, Claim, Goto
<1>1. TypeOK'
  BY DEF SlotState, FuturePC, WorkerPC, FutureInv, WorkerInv, Holding, Awaiting
<1>2. FutureInv' /\ WorkerInv'
  BY DEF FutureInv, Holding, WorkerInv, Awaiting
<1>3. QueueInv' /\ OffQueue'
  BY DEF QueueInv, OffQueue, FutureInv, WorkerInv, Holding, Awaiting
<1>4. SlotHeld'
  BY DEF SlotHeld, FutureInv, WorkerInv, Holding, Awaiting
<1>5. OrphanHeld'
  BY DEF OrphanHeld, FutureInv, WorkerInv, Holding, Awaiting
<1>6. QueuedHeld'
  <2>1. /\ queue' = queue
        /\ \A w \in Workers : slot'[w] = slot[w] /\ pc'[w] = pc[w]
    OBVIOUS
  <2>2. ASSUME NEW g \in Futures, slot'[g] # None, state'[slot'[g]] = "Queued"
        PROVE  slot'[g] = slot[g] /\ pc'[g] = pc[g] /\ state[slot[g]] = "Queued"
    BY <2>2
  <2>3. QueuedHeld
    OBVIOUS
  <2> HIDE DEF IInv, TypeOK, Claim
  <2> QED BY <2>1, <2>2, <2>3 DEF QueuedHeld
<1>7. OpInv'
  BY DEF OpInv, FutureInv, WorkerInv, Holding, Awaiting
<1>8. LockInv'
  BY DEF LockInv, FutureInv, WorkerInv, Holding, Awaiting
<1> QED BY <1>1, <1>2, <1>3, <1>4, <1>5, <1>6, <1>7, <1>8

\* A failed claim only registers the task.
LEMMA ClaimFailsStep ==
    ASSUME IInv, NEW f \in Futures, ClaimFails(f)
    PROVE  IInv'
<1> USE PoolAssumption DEF IInv, Actors, TypeOK, WorksOn, Owning, ClaimFails,
    Goto, FuturesOf
<1>1. TypeOK'
  BY DEF SlotState, FuturePC, WorkerPC, FutureInv, WorkerInv, Holding, Awaiting
<1>2. FutureInv' /\ WorkerInv'
  BY DEF FutureInv, Holding, WorkerInv, Awaiting
<1>3. QueueInv' /\ OffQueue'
  BY DEF QueueInv, OffQueue, FutureInv, WorkerInv, Holding, Awaiting
<1>4. SlotHeld' /\ OrphanHeld' /\ QueuedHeld'
  BY DEF SlotHeld, OrphanHeld, QueuedHeld, FutureInv, WorkerInv, Holding,
      Awaiting
<1>5. OpInv' /\ LockInv'
  BY DEF OpInv, LockInv, FutureInv, WorkerInv, Holding, Awaiting
<1> QED BY <1>1, <1>2, <1>3, <1>4, <1>5

\* poll writes the pointer and the runner of a slot it holds alone.
LEMMA WireStep ==
    ASSUME IInv, NEW f \in Futures, Wire(f)
    PROVE  IInv'
<1> USE PoolAssumption DEF IInv, Actors, TypeOK, WorksOn, Owning, Wire, Goto
<1>1. TypeOK'
  BY DEF SlotState, FuturePC, WorkerPC, FutureInv, WorkerInv, Holding, Awaiting
<1>2. FutureInv' /\ WorkerInv'
  BY DEF FutureInv, Holding, WorkerInv, Awaiting
<1>3. QueueInv' /\ OffQueue'
  BY DEF QueueInv, OffQueue, FutureInv, WorkerInv, Holding, Awaiting
<1>4. SlotHeld' /\ OrphanHeld' /\ QueuedHeld'
  BY DEF SlotHeld, OrphanHeld, QueuedHeld, FutureInv, WorkerInv, Holding,
      Awaiting
<1>5. OpInv' /\ LockInv'
  BY DEF OpInv, LockInv, FutureInv, WorkerInv, Holding, Awaiting
<1> QED BY <1>1, <1>2, <1>3, <1>4, <1>5

\* The start flag is nobody's slot.
LEMMA StartWorkersOnceStep ==
    ASSUME IInv, NEW f \in Futures, StartWorkersOnce(f)
    PROVE  IInv'
<1> USE PoolAssumption DEF IInv, Actors, TypeOK, WorksOn, Owning,
    StartWorkersOnce, Goto
<1>1. TypeOK'
  BY DEF SlotState, FuturePC, WorkerPC, FutureInv, WorkerInv, Holding, Awaiting
<1>2. FutureInv' /\ WorkerInv'
  BY DEF FutureInv, Holding, WorkerInv, Awaiting
<1>3. QueueInv' /\ OffQueue'
  BY DEF QueueInv, OffQueue, FutureInv, WorkerInv, Holding, Awaiting
<1>4. SlotHeld' /\ OrphanHeld' /\ QueuedHeld'
  BY DEF SlotHeld, OrphanHeld, QueuedHeld, FutureInv, WorkerInv, Holding,
      Awaiting
<1>5. OpInv' /\ LockInv'
  BY DEF OpInv, LockInv, FutureInv, WorkerInv, Holding, Awaiting
<1> QED BY <1>1, <1>2, <1>3, <1>4, <1>5

\* A new worker holds no slot.
LEMMA SpawnWorkerStep ==
    ASSUME IInv, NEW f \in Futures, NEW w \in Workers, SpawnWorker(f, w)
    PROVE  IInv'
<1> USE PoolAssumption DEF IInv, Actors, TypeOK, WorksOn, Owning,
    SpawnWorker, Goto
<1>a. /\ f # w /\ pc'[w] = "recv" /\ pc'[f] \in {"spawn", "arm"}
      /\ \A x \in Actors \ {f, w} : pc'[x] = pc[x]
  OBVIOUS
<1>1. TypeOK'
  BY DEF SlotState, FuturePC, WorkerPC, FutureInv, WorkerInv, Holding, Awaiting
<1>2. FutureInv' /\ WorkerInv'
  BY DEF FutureInv, Holding, WorkerInv, Awaiting
<1>3. QueueInv'
  <2>1. \A v \in Workers : v # w => pc'[v] = pc[v]
    BY <1>a
  <2>2. \A g \in Futures : g # f => pc'[g] = pc[g]
    BY <1>a
  <2>3. ASSUME NEW i \in 1..Len(queue), NEW v \in Workers
        PROVE  ~(slot[v] = queue[i] /\ pc'[v] \in Owning)
    BY <1>a, <2>1 DEF QueueInv
  <2>4. ASSUME NEW i \in 1..Len(queue), NEW g \in Futures, slot[g] = queue[i]
        PROVE  pc'[g] \in {"pending", "poll", "check", "remove"}
    BY <2>2, <2>4 DEF QueueInv
  <2>5. UNCHANGED <<queue, slot, state>>
    OBVIOUS
  <2>6. QueueInv
    OBVIOUS
  <2> HIDE DEF IInv, TypeOK, SpawnWorker
  <2> QED BY <2>3, <2>4, <2>5, <2>6 DEF QueueInv
<1>4. OffQueue'
  <2>1. /\ UNCHANGED <<queue, slot>>
        /\ \A g \in Futures : pc'[g] \in {"cancel_lock", "cancel"} => pc'[g] = pc[g]
    OBVIOUS
  <2>2. OffQueue
    OBVIOUS
  <2> HIDE DEF IInv, TypeOK, SpawnWorker
  <2> QED BY <2>1, <2>2 DEF OffQueue
<1>5. SlotHeld'
  BY DEF SlotHeld, FutureInv, WorkerInv, Holding, Awaiting
<1>6. OrphanHeld'
  BY DEF OrphanHeld, FutureInv, WorkerInv, Holding, Awaiting
<1>7. QueuedHeld'
  BY DEF QueuedHeld, FutureInv, WorkerInv, Holding, Awaiting
<1>8. OpInv' /\ LockInv'
  BY DEF OpInv, LockInv, FutureInv, WorkerInv, Holding, Awaiting
<1> QED BY <1>1, <1>2, <1>3, <1>4, <1>5, <1>6, <1>7, <1>8

\* The Claimed slot becomes Queued before it is in the queue.
LEMMA MarkQueuedStep ==
    ASSUME IInv, NEW f \in Futures, MarkQueued(f)
    PROVE  IInv'
<1> USE PoolAssumption DEF IInv, Actors, TypeOK, WorksOn, Owning, MarkQueued,
    Goto
<1>1. TypeOK'
  BY DEF SlotState, FuturePC, WorkerPC, FutureInv, WorkerInv, Holding, Awaiting
<1>2. FutureInv' /\ WorkerInv'
  BY DEF FutureInv, Holding, WorkerInv, Awaiting
<1>3. QueueInv' /\ OffQueue'
  BY DEF QueueInv, OffQueue, FutureInv, WorkerInv, Holding, Awaiting
<1>4. SlotHeld' /\ OrphanHeld' /\ QueuedHeld'
  BY DEF SlotHeld, OrphanHeld, QueuedHeld, FutureInv, WorkerInv, Holding,
      Awaiting
<1>5. OpInv' /\ LockInv'
  BY DEF OpInv, LockInv, FutureInv, WorkerInv, Holding, Awaiting
<1> QED BY <1>1, <1>2, <1>3, <1>4, <1>5

\* send puts a slot into the queue that was not in it.
LEMMA SendStep ==
    ASSUME IInv, NEW f \in Futures, Send(f)
    PROVE  IInv'
<1> USE PoolAssumption DEF IInv, Actors, TypeOK, WorksOn, Owning, Send, Goto
<1>1. TypeOK'
  BY DEF SlotState, FuturePC, WorkerPC, FutureInv, WorkerInv, Holding, Awaiting
<1>2. FutureInv' /\ WorkerInv'
  BY DEF FutureInv, Holding, WorkerInv, Awaiting
<1>3. QueueInv'
  BY DEF QueueInv, FutureInv, WorkerInv, Holding, Awaiting
<1>4. OffQueue'
  <2>1. slot[f] \in Slots /\ \A g \in Futures \ {f} : slot[g] # slot[f]
    BY DEF FutureInv, Holding
  <2>2. /\ Len(queue) \in Nat /\ Len(queue') = Len(queue) + 1
        /\ \A i \in 1..Len(queue') : \/ i \in 1..Len(queue) /\ queue'[i] = queue[i]
                                     \/ queue'[i] = slot[f]
    BY <2>1, AppendProperties
  <2>3. pc'[f] = "pending" /\ \A g \in Futures \ {f} : pc'[g] = pc[g]
    OBVIOUS
  <2> QED BY <2>1, <2>2, <2>3 DEF OffQueue
<1>5. SlotHeld'
  BY DEF SlotHeld, FutureInv, WorkerInv, Holding, Awaiting
<1>6. OrphanHeld'
  BY DEF OrphanHeld, FutureInv, WorkerInv, Holding, Awaiting
<1>7. QueuedHeld'
  BY DEF QueuedHeld, FutureInv, WorkerInv, Holding, Awaiting
<1>8. OpInv' /\ LockInv'
  BY DEF OpInv, LockInv, FutureInv, WorkerInv, Holding, Awaiting
<1> QED BY <1>1, <1>2, <1>3, <1>4, <1>5, <1>6, <1>7, <1>8

\* Registering a waker touches no slot state.
LEMMA RegisterStep ==
    ASSUME IInv, NEW f \in Futures, Register(f)
    PROVE  IInv'
<1> USE PoolAssumption DEF IInv, Actors, TypeOK, WorksOn, Owning, Register,
    Goto
<1>1. TypeOK'
  BY DEF SlotState, FuturePC, WorkerPC, FutureInv, WorkerInv, Holding, Awaiting
<1>2. FutureInv' /\ WorkerInv'
  BY DEF FutureInv, Holding, WorkerInv, Awaiting
<1>3. QueueInv' /\ OffQueue'
  BY DEF QueueInv, OffQueue, FutureInv, WorkerInv, Holding, Awaiting
<1>4. SlotHeld'
  BY DEF SlotHeld, FutureInv, WorkerInv, Holding, Awaiting
<1>5. OrphanHeld'
  BY DEF OrphanHeld, FutureInv, WorkerInv, Holding, Awaiting
<1>6. QueuedHeld'
  BY DEF QueuedHeld, FutureInv, WorkerInv, Holding, Awaiting
<1>7. OpInv' /\ LockInv'
  BY DEF OpInv, LockInv, FutureInv, WorkerInv, Holding, Awaiting
<1> QED BY <1>1, <1>2, <1>3, <1>4, <1>5, <1>6, <1>7

\* poll goes on to the result only when the slot is Done.
LEMMA CheckDoneStep ==
    ASSUME IInv, NEW f \in Futures, CheckDone(f)
    PROVE  IInv'
<1> USE PoolAssumption DEF IInv, Actors, TypeOK, WorksOn, Owning, CheckDone,
    Goto
<1>1. TypeOK'
  BY DEF SlotState, FuturePC, WorkerPC, FutureInv, WorkerInv, Holding, Awaiting
<1>2. FutureInv' /\ WorkerInv'
  BY DEF FutureInv, Holding, WorkerInv, Awaiting
<1>3. QueueInv' /\ OffQueue'
  BY DEF QueueInv, OffQueue, FutureInv, WorkerInv, Holding, Awaiting
<1>4. SlotHeld' /\ OrphanHeld' /\ QueuedHeld'
  BY DEF SlotHeld, OrphanHeld, QueuedHeld, FutureInv, WorkerInv, Holding,
      Awaiting
<1>5. OpInv' /\ LockInv'
  BY DEF OpInv, LockInv, FutureInv, WorkerInv, Holding, Awaiting
<1> QED BY <1>1, <1>2, <1>3, <1>4, <1>5

\* poll takes its own result and keeps the slot until release.
LEMMA TakeResultStep ==
    ASSUME IInv, NEW f \in Futures, TakeResult(f)
    PROVE  IInv'
<1> USE PoolAssumption DEF IInv, Actors, TypeOK, WorksOn, Owning, TakeResult,
    Goto
<1>1. TypeOK'
  BY DEF SlotState, FuturePC, WorkerPC, FutureInv, WorkerInv, Holding, Awaiting
<1>2. FutureInv' /\ WorkerInv'
  BY DEF FutureInv, Holding, WorkerInv, Awaiting
<1>3. QueueInv' /\ OffQueue'
  BY DEF QueueInv, OffQueue, FutureInv, WorkerInv, Holding, Awaiting
<1>4. SlotHeld' /\ OrphanHeld' /\ QueuedHeld'
  BY DEF SlotHeld, OrphanHeld, QueuedHeld, FutureInv, WorkerInv, Holding,
      Awaiting
<1>5. OpInv' /\ LockInv'
  BY DEF OpInv, LockInv, FutureInv, WorkerInv, Holding, Awaiting
<1> QED BY <1>1, <1>2, <1>3, <1>4, <1>5

\* A future releases a slot that no worker and no queue holds.
LEMMA ReleaseStoreFStep ==
    ASSUME IInv, NEW f \in Futures, ReleaseStore(f)
    PROVE  IInv'
<1> USE PoolAssumption DEF IInv, Actors, TypeOK, WorksOn, Owning,
    ReleaseStore, Goto
<1>1. TypeOK'
  BY DEF SlotState, FuturePC, WorkerPC, FutureInv, WorkerInv, Holding, Awaiting
<1>2. FutureInv'
  BY DEF FutureInv, Holding, WorkerInv, Awaiting
<1>3. WorkerInv'
  BY DEF WorkerInv, Awaiting, FutureInv, Holding
<1>4. QueueInv'
  BY DEF QueueInv, FutureInv, WorkerInv, Holding, Awaiting
<1>5. OffQueue'
  BY DEF OffQueue, FutureInv
<1>6. SlotHeld' /\ OrphanHeld' /\ QueuedHeld'
  BY DEF SlotHeld, OrphanHeld, QueuedHeld, FutureInv, WorkerInv, Holding,
      Awaiting
<1>7. OpInv' /\ LockInv'
  BY DEF OpInv, LockInv, FutureInv, WorkerInv, Holding, Awaiting
<1> QED BY <1>1, <1>2, <1>3, <1>4, <1>5, <1>6, <1>7

\* A worker releases an Orphaned slot, which no future holds.
LEMMA ReleaseStoreWStep ==
    ASSUME IInv, NEW w \in Workers, ReleaseStore(w)
    PROVE  IInv'
<1> USE PoolAssumption DEF IInv, Actors, TypeOK, WorksOn, Owning,
    ReleaseStore, Goto
<1>1. TypeOK'
  BY DEF SlotState, FuturePC, WorkerPC, FutureInv, WorkerInv, Holding, Awaiting
<1>2. FutureInv' /\ WorkerInv'
  BY DEF FutureInv, Holding, WorkerInv, Awaiting
<1>3. QueueInv' /\ OffQueue'
  BY DEF QueueInv, OffQueue, FutureInv, WorkerInv, Holding, Awaiting
<1>4. SlotHeld'
  BY DEF SlotHeld, FutureInv, WorkerInv, Holding, Awaiting
<1>5. OrphanHeld'
  BY DEF OrphanHeld, FutureInv, WorkerInv, Holding, Awaiting
<1>6. QueuedHeld'
  <2> SUFFICES ASSUME NEW g \in Futures, slot'[g] # None, state'[slot'[g]] = "Queued",
                      pc'[g] \notin {"send", "free"}
               PROVE  \/ \E i \in 1..Len(queue) : queue[i] = slot[g]
                      \/ \E v \in Workers : WorksOn(v, slot[g])'
    BY DEF QueuedHeld
  <2>1. g # w /\ slot'[g] = slot[g] /\ pc'[g] = pc[g] /\ slot[g] # slot[w]
    BY DEF WorkerInv
  <2>2. state[slot[g]] = "Queued"
    BY <2>1
  <2>3. CASE \E i \in 1..Len(queue) : queue[i] = slot[g]
    BY <2>3
  <2>4. ASSUME NEW v \in Workers, WorksOn(v, slot[g])
        PROVE  WorksOn(v, slot[g])'
    BY <2>1, <2>4
  <2> QED BY <2>1, <2>2, <2>3, <2>4 DEF QueuedHeld
<1>7. OpInv' /\ LockInv'
  BY DEF OpInv, LockInv, FutureInv, WorkerInv, Holding, Awaiting
<1> QED BY <1>1, <1>2, <1>3, <1>4, <1>5, <1>6, <1>7

\* Waking the waiters ends the release of a future.
LEMMA ReleaseWakeFStep ==
    ASSUME IInv, NEW f \in Futures, ReleaseWake(f)
    PROVE  IInv'
<1> USE PoolAssumption DEF IInv, Actors, TypeOK, WorksOn, Owning,
    ReleaseWake, Goto, FuturesOf
<1>1. TypeOK'
  BY DEF SlotState, FuturePC, WorkerPC, FutureInv, WorkerInv, Holding, Awaiting
<1>2. FutureInv' /\ WorkerInv'
  BY DEF FutureInv, Holding, WorkerInv, Awaiting
<1>3. QueueInv' /\ OffQueue'
  BY DEF QueueInv, OffQueue, FutureInv, WorkerInv, Holding, Awaiting
<1>4. SlotHeld' /\ OrphanHeld' /\ QueuedHeld'
  BY DEF SlotHeld, OrphanHeld, QueuedHeld, FutureInv, WorkerInv, Holding,
      Awaiting
<1>5. OpInv' /\ LockInv'
  BY DEF OpInv, LockInv, FutureInv, WorkerInv, Holding, Awaiting
<1> QED BY <1>1, <1>2, <1>3, <1>4, <1>5

\* Waking the waiters ends the release of a worker.
LEMMA ReleaseWakeWStep ==
    ASSUME IInv, NEW w \in Workers, ReleaseWake(w)
    PROVE  IInv'
<1> USE PoolAssumption DEF IInv, Actors, TypeOK, WorksOn, Owning,
    ReleaseWake, Goto, FuturesOf
<1>1. TypeOK'
  BY DEF SlotState, FuturePC, WorkerPC, FutureInv, WorkerInv, Holding, Awaiting
<1>2. FutureInv' /\ WorkerInv'
  BY DEF FutureInv, Holding, WorkerInv, Awaiting
<1>3. QueueInv' /\ OffQueue'
  BY DEF QueueInv, OffQueue, FutureInv, WorkerInv, Holding, Awaiting
<1>4. SlotHeld' /\ OrphanHeld' /\ QueuedHeld'
  BY DEF SlotHeld, OrphanHeld, QueuedHeld, FutureInv, WorkerInv, Holding,
      Awaiting
<1>5. OpInv' /\ LockInv'
  BY DEF OpInv, LockInv, FutureInv, WorkerInv, Holding, Awaiting
<1> QED BY <1>1, <1>2, <1>3, <1>4, <1>5

\* drop begins: the slot stays with the future.
LEMMA DropStep ==
    ASSUME IInv, NEW f \in Futures, Drop(f)
    PROVE  IInv'
<1> USE PoolAssumption DEF IInv, Actors, TypeOK, WorksOn, Owning, Drop, Goto,
    Cancelled
<1>1. TypeOK'
  BY DEF SlotState, FuturePC, WorkerPC, FutureInv, WorkerInv, Holding, Awaiting
<1>2. FutureInv' /\ WorkerInv'
  BY DEF FutureInv, Holding, WorkerInv, Awaiting
<1>3. QueueInv' /\ OffQueue'
  BY DEF QueueInv, OffQueue, FutureInv, WorkerInv, Holding, Awaiting
<1>4. SlotHeld' /\ OrphanHeld' /\ QueuedHeld'
  BY DEF SlotHeld, OrphanHeld, QueuedHeld, FutureInv, WorkerInv, Holding,
      Awaiting
<1>5. OpInv' /\ LockInv'
  BY DEF OpInv, LockInv, FutureInv, WorkerInv, Holding, Awaiting
<1> QED BY <1>1, <1>2, <1>3, <1>4, <1>5

\* QUEUE.remove returns the slot to the future, or proves that it left the queue.
LEMMA CancelRemoveStep ==
    ASSUME IInv, NEW f \in Futures, CancelRemove(f)
    PROVE  IInv'
<1> USE PoolAssumption DEF IInv, Actors, TypeOK, WorksOn, Owning,
    CancelRemove, Goto, Cancelled
<1>a. slot[f] \in Slots /\ state[slot[f]] \in {"Queued", "Done"}
  <2>1. slot[f] # None /\ state[slot[f]] \in {"Claimed", "Queued", "Done"}
    BY DEF FutureInv, Holding
  <2>2. slot[f] \in Slots
    BY <2>1
  <2>3. state[slot[f]] # "Claimed"
    BY <2>1 DEF FutureInv
  <2> QED BY <2>1, <2>2, <2>3
<1>b. \A x \in Actors \ {f} : pc'[x] = pc[x]
  OBVIOUS
<1>c. \A w \in Workers : pc'[w] = pc[w] /\ w # f
  OBVIOUS
<1>d. /\ queue' \in Seq(Slots)
      /\ Len(queue) \in Nat /\ Len(queue') \in Nat
      /\ \A j \in 1..Len(queue') : \E i \in 1..Len(queue) : queue'[j] = queue[i]
      /\ \A j, k \in 1..Len(queue') : queue'[j] = queue'[k] => j = k
      /\ \A i \in 1..Len(queue) : queue[i] # slot[f] =>
            \E j \in 1..Len(queue') : queue'[j] = queue[i]
      /\ \A j \in 1..Len(queue') : queue'[j] # slot[f]
      /\ \/ pc'[f] = "free" /\ \E i \in 1..Len(queue) : queue[i] = slot[f]
         \/ pc'[f] = "cancel_lock"
  <2>1. CASE \E i \in 1..Len(queue) : queue[i] = slot[f]
    <3>1. PICK i \in 1..Len(queue) : queue[i] = slot[f] /\ queue' = RemoveAt(queue, i)
                                     /\ pc'[f] = "free"
      BY <2>1
    <3>2. /\ queue' \in Seq(Slots) /\ Len(queue') = Len(queue) - 1
          /\ \A j \in 1..(Len(queue) - 1) :
                queue'[j] = IF j < i THEN queue[j] ELSE queue[j + 1]
      <4>1. queue \in Seq(Slots)
        OBVIOUS
      <4> HIDE DEF IInv, CancelRemove
      <4> QED BY <3>1, <4>1, RemoveAtElements
    <3>3. Len(queue) \in Nat /\ Len(queue') \in Nat
      BY <3>2
    <3>4. \A j, k \in 1..Len(queue) : queue[j] = queue[k] => j = k
      BY DEF QueueInv
    <3>5. ASSUME NEW j \in 1..Len(queue')
          PROVE  \E k \in 1..Len(queue) : k # i /\ queue'[j] = queue[k]
      <4>1. CASE j < i
        BY <3>2, <3>3, <4>1
      <4>2. CASE ~(j < i)
        <5>1. j + 1 \in 1..Len(queue) /\ j + 1 # i /\ queue'[j] = queue[j + 1]
          BY <3>2, <3>3, <4>2
        <5> QED BY <5>1
      <4> QED BY <4>1, <4>2
    <3>6. ASSUME NEW j \in 1..Len(queue'), NEW k \in 1..Len(queue'), queue'[j] = queue'[k]
          PROVE  j = k
      BY <3>2, <3>3, <3>4, <3>6
    <3>7. ASSUME NEW k \in 1..Len(queue), queue[k] # slot[f]
          PROVE  \E j \in 1..Len(queue') : queue'[j] = queue[k]
      <4>1. CASE k < i
        BY <3>2, <3>3, <4>1
      <4>2. CASE k > i
        <5>1. k - 1 \in 1..Len(queue') /\ queue'[k - 1] = queue[k]
          BY <3>2, <3>3, <4>2
        <5> QED BY <5>1
      <4> QED BY <3>1, <3>7, <4>1, <4>2
    <3>8. \A j \in 1..Len(queue') : queue'[j] # slot[f]
      BY <3>1, <3>4, <3>5
    <3> QED BY <3>1, <3>2, <3>3, <3>5, <3>6, <3>7, <3>8
  <2>2. CASE \A i \in 1..Len(queue) : queue[i] # slot[f]
    <3>1. queue' = queue /\ pc'[f] = "cancel_lock"
      BY <2>2
    <3> QED BY <2>2, <3>1 DEF QueueInv
  <2> QED BY <2>1, <2>2
<1>e. UNCHANGED <<slot, state, lock, shared, runner, waker, op, result,
                  waiters, started, job, woken>>
  OBVIOUS
<1>f. pc[f] = "remove"
  OBVIOUS
<1> HIDE DEF CancelRemove
<1>1. TypeOK'
  <2>1. pc'[f] \in FuturePC /\ pc' \in [Actors -> FuturePC \cup WorkerPC]
        /\ outcome' \in [Futures -> {"none", "ready", "cancelled"}]
    BY DEF CancelRemove, FuturePC
  <2> QED BY <1>b, <1>c, <1>d, <1>e, <2>1
<1>2. FutureInv'
  BY <1>a, <1>b, <1>d, <1>e DEF FutureInv, Holding
<1>3. WorkerInv'
  <2>1. \A w \in Workers : pc[w] \in Owning /\ slot[f] = slot[w] => pc'[f] \in Awaiting
    BY <1>d DEF QueueInv, Awaiting
  <2>2. \A g \in Futures : g # f => pc'[g] = pc[g]
    BY <1>b
  <2>3. WorkerInv
    OBVIOUS
  <2> HIDE DEF IInv, TypeOK
  <2> QED BY <1>c, <1>e, <2>1, <2>2, <2>3 DEF WorkerInv, Awaiting
<1>4. QueueInv'
  <2> SUFFICES ASSUME NEW j \in 1..Len(queue')
               PROVE  /\ state[queue'[j]] = "Queued"
                      /\ \A w \in Workers : ~WorksOn(w, queue'[j])
                      /\ \A g \in Futures : slot[g] = queue'[j] =>
                            pc'[g] \in {"pending", "poll", "check", "remove"}
    BY <1>c, <1>d, <1>e DEF QueueInv
  <2>1. PICK i \in 1..Len(queue) : queue'[j] = queue[i]
    BY <1>d
  <2>2. \A g \in Futures : slot[g] = queue'[j] => g # f
    BY <1>d
  <2>3. QueueInv
    OBVIOUS
  <2>4. \A g \in Futures \ {f} : pc'[g] = pc[g]
    BY <1>b
  <2> HIDE DEF IInv, TypeOK, Owning
  <2> QED BY <2>1, <2>2, <2>3, <2>4 DEF QueueInv
<1>5. OffQueue'
  <2> SUFFICES ASSUME NEW g \in Futures, pc'[g] \in {"cancel_lock", "cancel"},
                      NEW j \in 1..Len(queue')
               PROVE  queue'[j] # slot[g]
    BY <1>e DEF OffQueue
  <2>1. PICK i \in 1..Len(queue) : queue'[j] = queue[i]
    BY <1>d
  <2>2. CASE g = f
    BY <1>d, <2>2
  <2>3. CASE g # f
    BY <1>b, <2>1, <2>3 DEF OffQueue
  <2> QED BY <2>2, <2>3
<1>6. SlotHeld'
  BY <1>b, <1>c, <1>e DEF SlotHeld
<1>7. OrphanHeld'
  BY <1>b, <1>c, <1>e DEF OrphanHeld
<1>8. QueuedHeld'
  <2> SUFFICES ASSUME NEW g \in Futures, slot[g] # None, state[slot[g]] = "Queued",
                      pc'[g] \notin {"send", "free"}
               PROVE  \/ \E i \in 1..Len(queue') : queue'[i] = slot[g]
                      \/ \E w \in Workers : WorksOn(w, slot[g])
    <3> HIDE DEF IInv, TypeOK, Owning
    <3> QED BY <1>c, <1>e DEF QueuedHeld
  <2>1. pc[g] \notin {"send", "free"}
    BY <1>b, <1>f
  <2>2. \/ \E i \in 1..Len(queue) : queue[i] = slot[g]
        \/ \E w \in Workers : WorksOn(w, slot[g])
    BY <2>1 DEF QueuedHeld
  <2>3. CASE g = f
    <3>1. \A i \in 1..Len(queue) : queue[i] # slot[f]
      BY <1>d, <2>3 DEF CancelRemove
    <3> QED BY <2>2, <2>3, <3>1
  <2>4. CASE g # f
    <3>1. slot[g] # slot[f]
      BY <2>4 DEF FutureInv
    <3> QED BY <1>d, <2>2, <3>1
  <2> QED BY <2>3, <2>4
<1>9. OpInv'
  <2>1. \A g \in Futures : (\E i \in 1..Len(queue') : queue'[i] = slot[g])
                              => \E i \in 1..Len(queue) : queue[i] = slot[g]
    BY <1>d
  <2>2. pc'[f] \notin {"unborn", "pending", "poll", "send"} /\ pc[f] # "free"
    BY <1>d, <1>f
  <2>3. ASSUME NEW g \in Futures
        PROVE  \/ pc'[g] = "unborn"
               \/ pc'[g] \in {"pending", "poll"} /\ slot[g] = None
               \/ slot[g] # None /\ state[slot[g]] = "Claimed"
               \/ pc'[g] = "send"
               \/ slot[g] # None /\ \E i \in 1..Len(queue') : queue'[i] = slot[g]
               => op[g] = "ready"
    BY <1>b, <2>1, <2>2 DEF OpInv
  <2>4. \A g \in Futures : slot[g] # None /\ state[slot[g]] = "Done" /\ pc'[g] # "free"
           => result[g] = g /\ op[g] = "returned"
    BY <1>b, <2>2 DEF OpInv
  <2> QED BY <1>c, <1>e, <2>3, <2>4 DEF OpInv
<1>10. LockInv'
  BY <1>b, <1>c, <1>d, <1>e DEF LockInv
<1> QED BY <1>1, <1>2, <1>3, <1>4, <1>5, <1>6, <1>7, <1>8, <1>9, <1>10

\* cancel enters the slot lock.
LEMMA CancelLockStep ==
    ASSUME IInv, NEW f \in Futures, CancelLock(f)
    PROVE  IInv'
<1> USE PoolAssumption DEF IInv, Actors, TypeOK, WorksOn, Owning, CancelLock,
    Goto
<1>1. TypeOK'
  BY DEF SlotState, FuturePC, WorkerPC, FutureInv, WorkerInv, Holding, Awaiting
<1>2. FutureInv' /\ WorkerInv'
  BY DEF FutureInv, Holding, WorkerInv, Awaiting
<1>3. QueueInv' /\ OffQueue'
  BY DEF QueueInv, OffQueue, FutureInv, WorkerInv, Holding, Awaiting
<1>4. SlotHeld' /\ OrphanHeld' /\ QueuedHeld'
  BY DEF SlotHeld, OrphanHeld, QueuedHeld, FutureInv, WorkerInv, Holding,
      Awaiting
<1>5. OpInv' /\ LockInv'
  BY DEF OpInv, LockInv, FutureInv, WorkerInv, Holding, Awaiting
<1> QED BY <1>1, <1>2, <1>3, <1>4, <1>5

\* cancel keeps a Done slot to release it.
LEMMA CancelFinishedStep ==
    ASSUME IInv, NEW f \in Futures, CancelFinished(f)
    PROVE  IInv'
<1> USE PoolAssumption DEF IInv, Actors, TypeOK, WorksOn, Owning,
    CancelFinished, Goto, Cancelled
<1>1. TypeOK'
  BY DEF SlotState, FuturePC, WorkerPC, FutureInv, WorkerInv, Holding, Awaiting
<1>2. FutureInv' /\ WorkerInv'
  BY DEF FutureInv, Holding, WorkerInv, Awaiting
<1>3. QueueInv' /\ OffQueue'
  BY DEF QueueInv, OffQueue, FutureInv, WorkerInv, Holding, Awaiting
<1>4. SlotHeld'
  BY DEF SlotHeld, FutureInv, WorkerInv, Holding, Awaiting
<1>5. OrphanHeld'
  BY DEF OrphanHeld, FutureInv, WorkerInv, Holding, Awaiting
<1>6. QueuedHeld'
  BY DEF QueuedHeld, FutureInv, WorkerInv, Holding, Awaiting
<1>7. OpInv' /\ LockInv'
  BY DEF OpInv, LockInv, FutureInv, WorkerInv, Holding, Awaiting
<1> QED BY <1>1, <1>2, <1>3, <1>4, <1>5, <1>6, <1>7

\* cancel hands the slot to the worker that has it.
LEMMA CancelOrphanStep ==
    ASSUME IInv, NEW f \in Futures, CancelOrphan(f)
    PROVE  IInv'
<1> USE PoolAssumption DEF IInv, Actors, TypeOK, WorksOn, Owning,
    CancelOrphan, Goto, Cancelled
<1>a. slot[f] \in Slots /\ state[slot[f]] = "Queued"
  <2>1. slot[f] # None /\ state[slot[f]] \in {"Claimed", "Queued", "Done"}
    BY DEF FutureInv, Holding
  <2>2. slot[f] \in Slots
    BY <2>1
  <2>3. state[slot[f]] # "Claimed"
    BY <2>1 DEF FutureInv
  <2> QED BY <2>1, <2>2, <2>3
<1>b. PICK w \in Workers : WorksOn(w, slot[f])
  BY <1>a DEF QueuedHeld, OffQueue
<1>c. pc'[w] = pc[w] /\ slot'[w] = slot[w]
  OBVIOUS
<1>1. TypeOK'
  BY DEF SlotState, FuturePC, WorkerPC, FutureInv, WorkerInv, Holding, Awaiting
<1>2. FutureInv'
  BY DEF FutureInv, Holding, WorkerInv, Awaiting
<1>3. WorkerInv'
  BY DEF WorkerInv, Awaiting, FutureInv, Holding, LockInv
<1>4. QueueInv' /\ OffQueue'
  BY DEF QueueInv, OffQueue, FutureInv, WorkerInv, Holding, Awaiting
<1>5. SlotHeld'
  BY DEF SlotHeld, FutureInv, WorkerInv, Holding, Awaiting
<1>6. OrphanHeld'
  <2> SUFFICES ASSUME NEW s \in Slots, state'[s] = "Orphaned"
               PROVE  (\E v \in Workers : WorksOn(v, s))'
    BY DEF OrphanHeld
  <2>1. CASE s = slot[f]
    BY <2>1, <1>b, <1>c
  <2>2. CASE s # slot[f]
    <3>1. PICK v \in Workers : WorksOn(v, s)
      BY <2>2 DEF OrphanHeld
    <3>2. WorksOn(v, s)'
      BY <3>1
    <3> QED BY <3>2
  <2> QED BY <2>1, <2>2
<1>7. QueuedHeld'
  <2> SUFFICES ASSUME NEW g \in Futures, slot'[g] # None, state'[slot'[g]] = "Queued",
                      pc'[g] \notin {"send", "free"}
               PROVE  \/ \E i \in 1..Len(queue') : queue'[i] = slot'[g]
                      \/ \E v \in Workers : slot'[v] = slot'[g] /\ pc'[v] \in Owning
    BY DEF QueuedHeld
  <2>1. g # f /\ slot'[g] = slot[g] /\ pc[g] \notin {"send", "free"} /\ slot[g] # slot[f]
    BY DEF FutureInv
  <2>2. state[slot[g]] = "Queued"
    BY <2>1
  <2>3. \A v \in Workers : pc'[v] = pc[v] /\ slot'[v] = slot[v]
    OBVIOUS
  <2> QED BY <2>1, <2>2, <2>3 DEF QueuedHeld
<1>8. OpInv' /\ LockInv'
  BY DEF OpInv, LockInv, FutureInv, WorkerInv, Holding, Awaiting
<1> QED BY <1>1, <1>2, <1>3, <1>4, <1>5, <1>6, <1>7, <1>8

\* recv moves a slot from the queue to one worker.
LEMMA RecvStep ==
    ASSUME IInv, NEW w \in Workers, Recv(w)
    PROVE  IInv'
<1> USE PoolAssumption DEF IInv, Actors, TypeOK, WorksOn, Owning, Recv, Goto
<1>a. /\ queue'  = Tail(queue) /\ Len(queue) \in Nat /\ Len(queue) >= 1
      /\ queue[1] \in Slots
      /\ Len(queue') = Len(queue) - 1
      /\ \A i \in 1..Len(queue') : queue'[i] = queue[i + 1]
  BY HeadTailProperties
<1>b. slot'[w] = queue[1] /\ pc'[w] = "runner"
  OBVIOUS
<1>c. \A x \in Actors \ {w} : slot'[x] = slot[x] /\ pc'[x] = pc[x]
  OBVIOUS
<1>d. \A g \in Futures : g # w
  OBVIOUS
<1>1. TypeOK'
  BY DEF SlotState, FuturePC, WorkerPC, FutureInv, WorkerInv, Holding, Awaiting
<1>2. FutureInv'
  BY DEF FutureInv, Holding, WorkerInv, Awaiting
<1>3. WorkerInv'
  <2>1. /\ state[queue[1]] = "Queued"
        /\ \A v \in Workers : ~WorksOn(v, queue[1])
        /\ \A g \in Futures : slot[g] = queue[1] => pc[g] \in Awaiting
    BY <1>a DEF QueueInv, Awaiting
  <2> QED BY <1>a, <1>b, <1>c, <1>d, <2>1 DEF WorkerInv
<1>4. QueueInv'
  BY DEF QueueInv, FutureInv, WorkerInv, Holding, Awaiting
<1>5. OffQueue'
  <2>1. \A i \in 1..Len(queue') : i + 1 \in 1..Len(queue)
    BY <1>a
  <2> QED BY <1>a, <1>c, <1>d, <2>1 DEF OffQueue
<1>6. SlotHeld'
  BY DEF SlotHeld, FutureInv, WorkerInv, Holding, Awaiting
<1>7. OrphanHeld'
  BY DEF OrphanHeld, FutureInv, WorkerInv, Holding, Awaiting
<1>8. QueuedHeld'
  <2> SUFFICES ASSUME NEW g \in Futures, slot[g] # None, state[slot[g]] = "Queued",
                      pc[g] \notin {"send", "free"}
               PROVE  \/ \E i \in 1..Len(queue') : queue'[i] = slot[g]
                      \/ \E v \in Workers : WorksOn(v, slot[g])'
    BY <1>c, <1>d DEF QueuedHeld
  <2>0. slot'[g] = slot[g]
    BY <1>c, <1>d
  <2>1. ASSUME NEW i \in 1..Len(queue), queue[i] = slot[g], i # 1
        PROVE  \E j \in 1..Len(queue') : queue'[j] = slot[g]
    <3>1. i - 1 \in 1..Len(queue') /\ queue'[i - 1] = queue[i]
      BY <1>a, <2>1
    <3> QED BY <3>1, <2>1
  <2>2. ASSUME queue[1] = slot[g]
        PROVE  WorksOn(w, slot[g])'
    BY <1>b, <2>0, <2>2
  <2>3. ASSUME NEW v \in Workers, WorksOn(v, slot[g])
        PROVE  WorksOn(v, slot[g])'
    <3>1. v # w
      BY <2>3
    <3> QED BY <3>1, <1>c, <2>0, <2>3
  <2> QED BY <2>1, <2>2, <2>3 DEF QueuedHeld
<1>9. OpInv' /\ LockInv'
  BY DEF OpInv, LockInv, FutureInv, WorkerInv, Holding, Awaiting
<1> QED BY <1>1, <1>2, <1>3, <1>4, <1>5, <1>6, <1>7, <1>8, <1>9

\* The runner a worker reads belongs to the slot's future.
LEMMA ReadRunnerStep ==
    ASSUME IInv, NEW w \in Workers, ReadRunner(w)
    PROVE  IInv'
<1> USE PoolAssumption DEF IInv, Actors, TypeOK, WorksOn, Owning, ReadRunner,
    Goto
<1>1. TypeOK'
  BY DEF SlotState, FuturePC, WorkerPC, FutureInv, WorkerInv, Holding, Awaiting
<1>2. FutureInv' /\ WorkerInv'
  BY DEF FutureInv, Holding, WorkerInv, Awaiting
<1>3. QueueInv' /\ OffQueue'
  BY DEF QueueInv, OffQueue, FutureInv, WorkerInv, Holding, Awaiting
<1>4. SlotHeld' /\ OrphanHeld' /\ QueuedHeld'
  BY DEF SlotHeld, OrphanHeld, QueuedHeld, FutureInv, WorkerInv, Holding,
      Awaiting
<1>5. OpInv' /\ LockInv'
  BY DEF OpInv, LockInv, FutureInv, WorkerInv, Holding, Awaiting
<1> QED BY <1>1, <1>2, <1>3, <1>4, <1>5

\* The worker enters the lock to take the closure.
LEMMA LockTakeStep ==
    ASSUME IInv, NEW w \in Workers, LockSlot(w, "take_lock", "take_op")
    PROVE  IInv'
<1> USE PoolAssumption DEF IInv, Actors, TypeOK, WorksOn, Owning, LockSlot,
    Goto
<1>1. TypeOK'
  BY DEF SlotState, FuturePC, WorkerPC, FutureInv, WorkerInv, Holding, Awaiting
<1>2. FutureInv' /\ WorkerInv'
  BY DEF FutureInv, Holding, WorkerInv, Awaiting
<1>3. QueueInv' /\ OffQueue'
  BY DEF QueueInv, OffQueue, FutureInv, WorkerInv, Holding, Awaiting
<1>4. SlotHeld' /\ OrphanHeld' /\ QueuedHeld'
  BY DEF SlotHeld, OrphanHeld, QueuedHeld, FutureInv, WorkerInv, Holding,
      Awaiting
<1>5. OpInv' /\ LockInv'
  BY DEF OpInv, LockInv, FutureInv, WorkerInv, Holding, Awaiting
<1> QED BY <1>1, <1>2, <1>3, <1>4, <1>5

\* The closure taken is the one of the live future, and nobody took it before.
LEMMA TakeOpStep ==
    ASSUME IInv, NEW w \in Workers, TakeOp(w)
    PROVE  IInv'
<1> USE PoolAssumption DEF IInv, Actors, TypeOK, WorksOn, Owning, TakeOp, Goto
<1> DEFINE s == slot[w]
<1>a. /\ s \in Slots /\ WorksOn(w, s)
      /\ state[s] \in {"Queued", "Orphaned"}
  BY DEF WorkerInv
<1>b. \A x \in Actors \ {w} : pc'[x] = pc[x]
  OBVIOUS
<1>c. /\ pc'[w] \in {"exec", "free"}
      /\ state[s] = "Orphaned" <=> pc'[w] = "free"
  <2>1. CASE state[s] = "Queued"
    <3>1. PICK f \in Futures : slot[f] = s
      BY <1>a, <2>1 DEF SlotHeld
    <3>2. f = shared[s] /\ op[f] = "ready"
      BY <1>a, <2>1, <3>1 DEF OpInv, FutureInv
    <3> QED BY <2>1, <3>2
  <2> QED BY <2>1, <1>a
<1>d. ASSUME state[s] # "Orphaned"
      PROVE  /\ shared[s] \in Futures /\ slot[shared[s]] = s
             /\ op[shared[s]] = "ready"
             /\ op' = [op EXCEPT ![shared[s]] = "running"]
             /\ job' = [job EXCEPT ![w] = shared[s]]
  <2>1. PICK f \in Futures : slot[f] = s
    BY <1>a, <1>d DEF SlotHeld
  <2>2. f = shared[s] /\ op[f] = "ready"
    BY <1>a, <1>d, <2>1 DEF OpInv, FutureInv
  <2> QED BY <2>1, <2>2, <1>d
<1>e. ASSUME state[s] = "Orphaned"
      PROVE  op' = op /\ job' = [job EXCEPT ![w] = None]
  BY <1>e
<1>1. TypeOK'
  BY <1>a, <1>c, <1>d, <1>e DEF FuturePC, WorkerPC
<1>2. FutureInv'
  BY DEF FutureInv, Holding, WorkerInv, Awaiting
<1>3. WorkerInv'
  BY <1>a, <1>b, <1>c DEF WorkerInv
<1>4. QueueInv'
  BY DEF QueueInv, FutureInv, WorkerInv, Holding, Awaiting
<1>5. OffQueue'
  <2>1. \A g \in Futures : pc'[g] = pc[g]
    BY <1>b
  <2> QED BY <2>1 DEF OffQueue
<1>6. SlotHeld'
  BY DEF SlotHeld, FutureInv, WorkerInv, Holding, Awaiting
<1>7. OrphanHeld'
  BY DEF OrphanHeld, FutureInv, WorkerInv, Holding, Awaiting
<1>8. QueuedHeld'
  <2>1. \A v \in Workers, x \in Slots : WorksOn(v, x) => WorksOn(v, x)'
    BY <1>a, <1>b, <1>c
  <2>2. \A g \in Futures : pc'[g] = pc[g]
    BY <1>b
  <2> QED BY <2>1, <2>2 DEF QueuedHeld
<1>9. OpInv'
  <2>1. CASE state[s] = "Orphaned"
    <3>1. \A g \in Futures : slot[g] # s
      BY <1>a, <2>1 DEF FutureInv
    <3>2. op' = op /\ pc'[w] = "free" /\ \A v \in Workers \ {w} : job'[v] = job[v]
      BY <1>c, <1>e, <2>1
    <3> QED BY <1>a, <1>b, <3>1, <3>2 DEF OpInv
  <2>2. CASE state[s] # "Orphaned"
    <3> DEFINE f == shared[s]
    <3>1. /\ f \in Futures /\ slot[f] = s /\ op[f] = "ready"
          /\ op'[f] = "running"
          /\ \A g \in Futures \ {f} : op'[g] = op[g] /\ slot[g] # s
          /\ job'[w] = f /\ \A v \in Workers \ {w} : job'[v] = job[v]
          /\ pc'[w] = "exec"
      BY <1>a, <1>c, <1>d, <2>2 DEF FutureInv
    <3>2. /\ state[s] = "Queued" /\ pc[f] \in Awaiting
          /\ \A v \in Workers \ {w} : ~WorksOn(v, s)
          /\ \A i \in 1..Len(queue) : queue[i] # s
      BY <1>a, <2>2, <3>1 DEF WorkerInv, QueueInv
    <3> HIDE DEF f
    <3>3. ASSUME NEW g \in Futures
          PROVE  \/ pc[g] = "unborn"
                 \/ pc[g] \in {"pending", "poll"} /\ slot[g] = None
                 \/ slot[g] # None /\ state[slot[g]] = "Claimed"
                 \/ pc[g] = "send"
                 \/ slot[g] # None /\ \E i \in 1..Len(queue) : queue[i] = slot[g]
                 => op'[g] = "ready"
      BY <1>a, <3>1, <3>2 DEF OpInv, Awaiting
    <3>4. ASSUME NEW v \in Workers \ {w}
          PROVE  /\ pc[v] \in {"runner", "take_lock", "take_op"} =>
                       \A g \in Futures : slot[g] = slot[v] => op'[g] = "ready"
                 /\ pc[v] = "exec" => job[v] \in Futures /\ op'[job[v]] = "running"
                 /\ pc[v] \in {"finish_lock", "finish"} =>
                       job[v] \in Futures /\ op'[job[v]] = "returned"
                 /\ pc[v] = "publish" =>
                       \A g \in Futures : slot[g] = slot[v] =>
                           result[g] = g /\ op'[g] = "returned"
                 /\ pc[v] \in {"exec", "finish_lock", "finish"} => job[v] # f
      BY <3>1, <3>2 DEF OpInv
    <3>5. ASSUME NEW g \in Futures, slot[g] # None, state[slot[g]] = "Done", pc[g] # "free"
          PROVE  result[g] = g /\ op'[g] = "returned"
      BY <3>1, <3>2, <3>5 DEF OpInv
    <3> QED BY <1>a, <1>b, <3>1, <3>3, <3>4, <3>5 DEF OpInv
  <2> QED BY <2>1, <2>2
<1>10. LockInv'
  BY DEF LockInv, FutureInv, WorkerInv, Holding, Awaiting
<1> QED BY <1>1, <1>2, <1>3, <1>4, <1>5, <1>6, <1>7, <1>8, <1>9, <1>10

\* The closure returns on the worker's own stack.
LEMMA ExecOpStep ==
    ASSUME IInv, NEW w \in Workers, ExecOp(w)
    PROVE  IInv'
<1> USE PoolAssumption DEF IInv, Actors, TypeOK, WorksOn, Owning, ExecOp, Goto
<1>1. TypeOK'
  BY DEF SlotState, FuturePC, WorkerPC, FutureInv, WorkerInv, Holding, Awaiting
<1>2. FutureInv' /\ WorkerInv'
  BY DEF FutureInv, Holding, WorkerInv, Awaiting
<1>3. QueueInv' /\ OffQueue'
  BY DEF QueueInv, OffQueue, FutureInv, WorkerInv, Holding, Awaiting
<1>4. SlotHeld' /\ OrphanHeld' /\ QueuedHeld'
  BY DEF SlotHeld, OrphanHeld, QueuedHeld, FutureInv, WorkerInv, Holding,
      Awaiting
<1>5. OpInv' /\ LockInv'
  BY DEF OpInv, LockInv, FutureInv, WorkerInv, Holding, Awaiting
<1> QED BY <1>1, <1>2, <1>3, <1>4, <1>5

\* The worker enters the lock to hand over the result.
LEMMA LockFinishStep ==
    ASSUME IInv, NEW w \in Workers, LockSlot(w, "finish_lock", "finish")
    PROVE  IInv'
<1> USE PoolAssumption DEF IInv, Actors, TypeOK, WorksOn, Owning, LockSlot,
    Goto
<1>1. TypeOK'
  BY DEF SlotState, FuturePC, WorkerPC, FutureInv, WorkerInv, Holding, Awaiting
<1>2. FutureInv' /\ WorkerInv'
  BY DEF FutureInv, Holding, WorkerInv, Awaiting
<1>3. QueueInv' /\ OffQueue'
  BY DEF QueueInv, OffQueue, FutureInv, WorkerInv, Holding, Awaiting
<1>4. SlotHeld' /\ OrphanHeld' /\ QueuedHeld'
  BY DEF SlotHeld, OrphanHeld, QueuedHeld, FutureInv, WorkerInv, Holding,
      Awaiting
<1>5. OpInv' /\ LockInv'
  BY DEF OpInv, LockInv, FutureInv, WorkerInv, Holding, Awaiting
<1> QED BY <1>1, <1>2, <1>3, <1>4, <1>5

\* An orphaned slot stays with the worker that will release it.
LEMMA DiscardResultStep ==
    ASSUME IInv, NEW w \in Workers, DiscardResult(w)
    PROVE  IInv'
<1> USE PoolAssumption DEF IInv, Actors, TypeOK, WorksOn, Owning,
    DiscardResult, Goto
<1>1. TypeOK'
  BY DEF SlotState, FuturePC, WorkerPC, FutureInv, WorkerInv, Holding, Awaiting
<1>2. FutureInv' /\ WorkerInv'
  BY DEF FutureInv, Holding, WorkerInv, Awaiting
<1>3. QueueInv' /\ OffQueue'
  BY DEF QueueInv, OffQueue, FutureInv, WorkerInv, Holding, Awaiting
<1>4. SlotHeld' /\ OrphanHeld' /\ QueuedHeld'
  BY DEF SlotHeld, OrphanHeld, QueuedHeld, FutureInv, WorkerInv, Holding,
      Awaiting
<1>5. OpInv' /\ LockInv'
  BY DEF OpInv, LockInv, FutureInv, WorkerInv, Holding, Awaiting
<1> QED BY <1>1, <1>2, <1>3, <1>4, <1>5

\* The result is written into the future whose closure computed it.
LEMMA WriteResultStep ==
    ASSUME IInv, NEW w \in Workers, WriteResult(w)
    PROVE  IInv'
<1> USE PoolAssumption DEF IInv, Actors, TypeOK, WorksOn, Owning,
    WriteResult, Goto
<1>1. TypeOK'
  BY DEF SlotState, FuturePC, WorkerPC, FutureInv, WorkerInv, Holding, Awaiting
<1>2. FutureInv' /\ WorkerInv'
  BY DEF FutureInv, Holding, WorkerInv, Awaiting
<1>3. QueueInv' /\ OffQueue'
  BY DEF QueueInv, OffQueue, FutureInv, WorkerInv, Holding, Awaiting
<1>4. SlotHeld' /\ OrphanHeld' /\ QueuedHeld'
  BY DEF SlotHeld, OrphanHeld, QueuedHeld, FutureInv, WorkerInv, Holding,
      Awaiting
<1>5. OpInv'
  <2> DEFINE s == slot[w]
  <2>1. s \in Slots /\ WorksOn(w, s) /\ state[s] = "Queued"
    BY DEF WorkerInv
  <2>2. PICK f \in Futures : slot[f] = s
    BY <2>1 DEF SlotHeld
  <2>3. /\ shared[s] = f /\ job[w] = f /\ op[f] = "returned" /\ pc[f] \in Awaiting
        /\ \A g \in Futures \ {f} : slot[g] # s
        /\ \A v \in Workers \ {w} : ~WorksOn(v, s)
    BY <2>1, <2>2 DEF OpInv, FutureInv, WorkerInv, Awaiting
  <2>4. /\ result'[f] = f /\ pc'[w] = "publish"
        /\ \A g \in Futures \ {f} : result'[g] = result[g]
        /\ \A v \in Workers \ {w} : job'[v] = job[v] /\ pc'[v] = pc[v]
        /\ \A g \in Futures : pc'[g] = pc[g]
    BY <2>3
  <2> HIDE DEF s
  <2> QED BY <2>1, <2>2, <2>3, <2>4 DEF OpInv, s
<1>6. LockInv'
  BY DEF LockInv, FutureInv, WorkerInv, Holding, Awaiting
<1> QED BY <1>1, <1>2, <1>3, <1>4, <1>5, <1>6

\* Done moves the slot from the worker back to its future.
LEMMA PublishDoneStep ==
    ASSUME IInv, NEW w \in Workers, PublishDone(w)
    PROVE  IInv'
<1> USE PoolAssumption DEF IInv, Actors, TypeOK, WorksOn, Owning,
    PublishDone, Goto
<1>1. TypeOK'
  BY DEF SlotState, FuturePC, WorkerPC, FutureInv, WorkerInv, Holding, Awaiting
<1>2. FutureInv' /\ WorkerInv'
  BY DEF FutureInv, Holding, WorkerInv, Awaiting
<1>3. QueueInv' /\ OffQueue'
  BY DEF QueueInv, OffQueue, FutureInv, WorkerInv, Holding, Awaiting
<1>4. SlotHeld' /\ OrphanHeld' /\ QueuedHeld'
  BY DEF SlotHeld, OrphanHeld, QueuedHeld, FutureInv, WorkerInv, Holding,
      Awaiting
<1>5. OpInv' /\ LockInv'
  BY DEF OpInv, LockInv, FutureInv, WorkerInv, Holding, Awaiting
<1> QED BY <1>1, <1>2, <1>3, <1>4, <1>5

\* The worker leaves the lock after Done.
LEMMA UnlockStep ==
    ASSUME IInv, NEW w \in Workers, Unlock(w)
    PROVE  IInv'
<1> USE PoolAssumption DEF IInv, Actors, TypeOK, WorksOn, Owning, Unlock, Goto
<1>1. TypeOK'
  BY DEF SlotState, FuturePC, WorkerPC, FutureInv, WorkerInv, Holding, Awaiting
<1>2. FutureInv' /\ WorkerInv'
  BY DEF FutureInv, Holding, WorkerInv, Awaiting
<1>3. QueueInv' /\ OffQueue'
  BY DEF QueueInv, OffQueue, FutureInv, WorkerInv, Holding, Awaiting
<1>4. SlotHeld' /\ OrphanHeld' /\ QueuedHeld'
  <2>1. /\ UNCHANGED <<slot, state, queue>>
        /\ \A f \in Futures : pc'[f] = pc[f]
        /\ \A v \in Workers : pc[v] \in Owning <=> pc'[v] \in Owning
    OBVIOUS
  <2>2. SlotHeld /\ OrphanHeld /\ QueuedHeld
    OBVIOUS
  <2> HIDE DEF IInv, TypeOK, Owning, Unlock
  <2>3. SlotHeld' /\ OrphanHeld'
    BY <2>1, <2>2 DEF SlotHeld, OrphanHeld
  <2>4. QueuedHeld'
    BY <2>1, <2>2 DEF QueuedHeld
  <2> QED BY <2>3, <2>4
<1>5. OpInv' /\ LockInv'
  BY DEF OpInv, LockInv, FutureInv, WorkerInv, Holding, Awaiting
<1> QED BY <1>1, <1>2, <1>3, <1>4, <1>5

\* A late wake-up may find the slot reused and changes nothing but wakers.
LEMMA WakeSlotStep ==
    ASSUME IInv, NEW w \in Workers, WakeSlot(w)
    PROVE  IInv'
<1> USE PoolAssumption DEF IInv, Actors, TypeOK, WorksOn, Owning, WakeSlot,
    Goto, FuturesOf
<1>1. TypeOK'
  BY DEF SlotState, FuturePC, WorkerPC, FutureInv, WorkerInv, Holding, Awaiting
<1>2. FutureInv' /\ WorkerInv'
  BY DEF FutureInv, Holding, WorkerInv, Awaiting
<1>3. QueueInv' /\ OffQueue'
  BY DEF QueueInv, OffQueue, FutureInv, WorkerInv, Holding, Awaiting
<1>4. SlotHeld'
  BY DEF SlotHeld, FutureInv, WorkerInv, Holding, Awaiting
<1>5. OrphanHeld'
  BY DEF OrphanHeld, FutureInv, WorkerInv, Holding, Awaiting
<1>6. QueuedHeld'
  <2>1. \A v \in Workers, x \in Slots : WorksOn(v, x) => WorksOn(v, x)'
    OBVIOUS
  <2>2. \A g \in Futures : pc'[g] = pc[g] /\ slot'[g] = slot[g]
    OBVIOUS
  <2> QED BY <2>1, <2>2 DEF QueuedHeld
<1>7. OpInv' /\ LockInv'
  BY DEF OpInv, LockInv, FutureInv, WorkerInv, Holding, Awaiting
<1> QED BY <1>1, <1>2, <1>3, <1>4, <1>5, <1>6, <1>7

-----------------------------------------------------------------------------
\* Every step of the pool preserves the inductive invariant.
LEMMA NextIInv == IInv /\ [Next]_vars => IInv'
<1> SUFFICES ASSUME IInv, [Next]_vars PROVE IInv'
  OBVIOUS
<1>1. ASSUME NEW f \in Futures, Run(f) \/ PollAgain(f) \/ Drop(f) \/ FutureStep(f)
      PROVE  IInv'
  BY <1>1, RunStep, PollAgainStep, ClaimStep, ClaimFailsStep, WireStep,
     StartWorkersOnceStep, MarkQueuedStep, SendStep, RegisterStep,
     CheckDoneStep, TakeResultStep, ReleaseStoreFStep, ReleaseWakeFStep,
     DropStep, CancelRemoveStep, CancelLockStep, CancelFinishedStep,
     CancelOrphanStep, SpawnWorkerStep
     DEF FutureStep
<1>2. ASSUME NEW w \in Workers, WorkerStep(w)
      PROVE  IInv'
  BY <1>2, ReleaseStoreWStep, ReleaseWakeWStep, RecvStep, ReadRunnerStep,
     LockTakeStep, TakeOpStep, ExecOpStep, LockFinishStep, DiscardResultStep,
     WriteResultStep, PublishDoneStep, UnlockStep, WakeSlotStep
     DEF WorkerStep
<1>3. CASE UNCHANGED vars
  BY <1>3 DEF vars, IInv, TypeOK, FutureInv, QueueInv, WorkerInv, SlotHeld,
     OrphanHeld, QueuedHeld, OffQueue, OpInv, LockInv, WorksOn
<1> QED BY <1>1, <1>2, <1>3 DEF Next, Idle

\* The inductive invariant holds throughout.
THEOREM InductiveInvariant == Spec => []IInv
BY InitIInv, NextIInv, PTL DEF Spec

\* Type correctness of the pool, for any number of futures, workers and slots.
THEOREM TypeCorrect == Spec => []TypeOK
<1>1. IInv => TypeOK
  BY DEF IInv
<1> QED BY <1>1, InductiveInvariant, PTL

\* No worker ever follows Slot::shared into a future that was dropped or that
\* owns another slot, and the runner it calls fits the future it finds.
THEOREM MemorySafety == Spec => []MemorySafe
<1>1. IInv => MemorySafe
  <2> SUFFICES ASSUME IInv, NEW w \in Workers,
                      \/ pc[w] \in {"take_op", "finish"} /\ state[slot[w]] # "Orphaned"
                      \/ pc[w] = "publish"
               PROVE  \E f \in Futures :
                         /\ shared[slot[w]] = f
                         /\ Alive(f)
                         /\ slot[f] = slot[w]
                         /\ runner[slot[w]] = f
                         /\ pc[w] # "publish" => job[w] = f
    BY DEF MemorySafe
  <2>1. slot[w] \in Slots /\ slot[w] # None /\ state[slot[w]] = "Queued"
    BY PoolAssumption DEF IInv, TypeOK, Actors, WorkerInv, Owning
  <2>2. PICK f \in Futures : slot[f] = slot[w]
    BY <2>1 DEF IInv, SlotHeld
  <2>3. pc[f] \in Awaiting
    BY <2>1, <2>2 DEF IInv, WorkerInv, Owning
  <2>4. Alive(f) /\ shared[slot[w]] = f /\ runner[slot[w]] = f
    BY <2>1, <2>2, <2>3 DEF IInv, FutureInv, Alive, Awaiting
  <2>5. pc[w] # "publish" => job[w] = f
    BY <2>2 DEF IInv, OpInv
  <2> QED BY <2>2, <2>4, <2>5
<1> QED BY <1>1, InductiveInvariant, PTL

\* A future that sees Done takes the result of its own closure: the expect in
\* poll never panics, however slots are reused.
THEOREM ResultIntegrity == Spec => []OwnResult
<1>1. IInv => OwnResult
  BY DEF IInv, OwnResult, OpInv, FutureInv, Holding
<1> QED BY <1>1, InductiveInvariant, PTL

\* Every slot has exactly one owner in every state, and none is ever lost.
THEOREM SlotAccounting == Spec => []SlotAccounted
<1>1. IInv => SlotAccounted
  <2> SUFFICES ASSUME IInv, NEW s \in Slots
               PROVE  LET Fs == {f \in Futures : slot[f] = s}
                          Ws == {w \in Workers : WorksOn(w, s)}
                          Qs == {i \in DOMAIN queue : queue[i] = s}
                          Kept == {f \in Fs : pc[f] \in {"send", "free"}}
                      IN  /\ state[s] = "Free" => Fs = {} /\ Ws = {} /\ Qs = {}
                          /\ state[s] \in {"Claimed", "Done"} =>
                                One(Fs) /\ Ws = {} /\ Qs = {}
                          /\ state[s] = "Orphaned" => Fs = {} /\ One(Ws) /\ Qs = {}
                          /\ state[s] = "Queued" =>
                                /\ One(Fs)
                                /\ \/ One(Qs) /\ Ws = {} /\ Kept = {}
                                   \/ Qs = {} /\ One(Ws) /\ Kept = {}
                                   \/ Qs = {} /\ Ws = {} /\ Kept = Fs
    BY DEF SlotAccounted
  <2> DEFINE Fs == {f \in Futures : slot[f] = s}
             Ws == {w \in Workers : WorksOn(w, s)}
             Qs == {i \in DOMAIN queue : queue[i] = s}
             Kept == {f \in Fs : pc[f] \in {"send", "free"}}
  <2>0. s # None /\ DOMAIN queue = 1..Len(queue)
    BY PoolAssumption DEF IInv, TypeOK
  <2>1. \A f \in Fs : Fs = {f} /\ state[s] \in {"Claimed", "Queued", "Done"}
    BY <2>0 DEF IInv, FutureInv
  <2>2. \A w \in Ws : Ws = {w} /\ state[s] \in {"Queued", "Orphaned"}
    BY DEF IInv, WorkerInv, WorksOn
  <2>3. \A i \in Qs : Qs = {i} /\ state[s] = "Queued"
    BY <2>0 DEF IInv, QueueInv
  <2>4. state[s] \in {"Claimed", "Queued", "Done"} => Fs # {}
    BY DEF IInv, SlotHeld
  <2>5. state[s] = "Orphaned" => Ws # {}
    BY DEF IInv, OrphanHeld
  <2>6. state[s] = "Queued" /\ Qs = {} /\ Ws = {} => Kept = Fs
    BY <2>0 DEF IInv, QueuedHeld
  <2>7. Qs # {} => Ws = {} /\ Kept = {}
    BY <2>0 DEF IInv, QueueInv
  <2>8. Ws # {} => Qs = {} /\ Kept = {}
    BY <2>0 DEF IInv, QueueInv, WorkerInv, WorksOn, Awaiting
  <2> HIDE DEF Fs, Ws, Qs, Kept
  <2>9. /\ state[s] \in SlotState
        /\ Fs # {} => One(Fs)
        /\ Ws # {} => One(Ws)
        /\ Qs # {} => One(Qs)
    BY <2>1, <2>2, <2>3 DEF IInv, TypeOK, One
  <2>10. /\ state[s] = "Free" => Fs = {} /\ Ws = {} /\ Qs = {}
         /\ state[s] \in {"Claimed", "Done"} => One(Fs) /\ Ws = {} /\ Qs = {}
         /\ state[s] = "Orphaned" => Fs = {} /\ One(Ws) /\ Qs = {}
    BY <2>1, <2>2, <2>3, <2>4, <2>5, <2>9
  <2>11. state[s] = "Queued" =>
            /\ One(Fs)
            /\ \/ One(Qs) /\ Ws = {} /\ Kept = {}
               \/ Qs = {} /\ One(Ws) /\ Kept = {}
               \/ Qs = {} /\ Ws = {} /\ Kept = Fs
    BY <2>4, <2>6, <2>7, <2>8, <2>9
  <2> QED BY <2>10, <2>11 DEF Fs, Ws, Qs, Kept
<1> QED BY <1>1, InductiveInvariant, PTL
-----------------------------------------------------------------------------
(* No wake-up is lost.                                                     *)

\* A future that holds a slot, and is not about to register, has its task's
\* waker in the slot, or the wake-up of the slot's earlier user took the waker
\* and woke it.
Registered ==
    \A f \in Futures :
        slot[f] # None /\ pc[f] \in {"start", "spawn", "arm", "send", "check", "pending"}
            => f \in woken \/ waker[slot[f]] = TaskOf[f]

\* The strengthening of NoLostWake.
WakeInv == Registered /\ NoLostCompletion /\ NoLostSlot

\* Only the future itself leaves woken, and a waker is only taken with a wake-up.
LEMMA RegisteredStep ==
    ASSUME IInv, Registered, Next
    PROVE  Registered'
<1> USE PoolAssumption DEF IInv, TypeOK, Actors, Goto, FutureInv, Holding, Registered,
    FuturesOf, Alive
<1>1. ASSUME NEW f \in Futures, Run(f) PROVE Registered'
  BY <1>1 DEF Run
<1>2. ASSUME NEW f \in Futures, PollAgain(f) PROVE Registered'
  BY <1>2 DEF PollAgain
<1>3. ASSUME NEW f \in Futures, Drop(f) PROVE Registered'
  BY <1>3 DEF Drop
<1>4. ASSUME NEW f \in Futures, Claim(f) PROVE Registered'
  BY <1>4 DEF Claim
<1>5. ASSUME NEW f \in Futures, ClaimFails(f) PROVE Registered'
  BY <1>5 DEF ClaimFails
<1>6. ASSUME NEW f \in Futures, Wire(f) PROVE Registered'
  BY <1>6 DEF Wire
<1>7. ASSUME NEW f \in Futures, StartWorkersOnce(f) PROVE Registered'
  BY <1>7 DEF StartWorkersOnce
<1>8. ASSUME NEW f \in Futures, MarkQueued(f) PROVE Registered'
  BY <1>8 DEF MarkQueued
<1>9. ASSUME NEW f \in Futures, Send(f) PROVE Registered'
  BY <1>9 DEF Send
<1>10. ASSUME NEW f \in Futures, Register(f) PROVE Registered'
  BY <1>10 DEF Register
<1>11. ASSUME NEW f \in Futures, CheckDone(f) PROVE Registered'
  BY <1>11 DEF CheckDone
<1>12. ASSUME NEW f \in Futures, TakeResult(f) PROVE Registered'
  BY <1>12 DEF TakeResult
<1>13. ASSUME NEW f \in Futures, CancelRemove(f) PROVE Registered'
  BY <1>13 DEF CancelRemove
<1>14. ASSUME NEW f \in Futures, CancelLock(f) PROVE Registered'
  BY <1>14 DEF CancelLock
<1>15. ASSUME NEW f \in Futures, CancelFinished(f) PROVE Registered'
  BY <1>15 DEF CancelFinished
<1>16. ASSUME NEW f \in Futures, CancelOrphan(f) PROVE Registered'
  BY <1>16 DEF CancelOrphan
<1>17. ASSUME NEW f \in Futures, ReleaseStore(f) PROVE Registered'
  BY <1>17 DEF ReleaseStore
<1>18. ASSUME NEW f \in Futures, ReleaseWake(f) PROVE Registered'
  BY <1>18 DEF ReleaseWake
<1>19. ASSUME NEW f \in Futures, NEW w \in Workers, SpawnWorker(f, w) PROVE Registered'
  BY <1>19 DEF SpawnWorker
<1>20. ASSUME NEW w \in Workers, Recv(w) PROVE Registered'
  BY <1>20 DEF Recv
<1>21. ASSUME NEW w \in Workers, ReadRunner(w) PROVE Registered'
  BY <1>21 DEF ReadRunner
<1>22. ASSUME NEW w \in Workers, LockSlot(w, "take_lock", "take_op") PROVE Registered'
  BY <1>22 DEF LockSlot
<1>23. ASSUME NEW w \in Workers, TakeOp(w) PROVE Registered'
  BY <1>23 DEF TakeOp
<1>24. ASSUME NEW w \in Workers, ExecOp(w) PROVE Registered'
  BY <1>24 DEF ExecOp
<1>25. ASSUME NEW w \in Workers, LockSlot(w, "finish_lock", "finish") PROVE Registered'
  BY <1>25 DEF LockSlot
<1>26. ASSUME NEW w \in Workers, DiscardResult(w) PROVE Registered'
  BY <1>26 DEF DiscardResult
<1>27. ASSUME NEW w \in Workers, WriteResult(w) PROVE Registered'
  BY <1>27 DEF WriteResult
<1>28. ASSUME NEW w \in Workers, PublishDone(w) PROVE Registered'
  BY <1>28 DEF PublishDone
<1>29. ASSUME NEW w \in Workers, Unlock(w) PROVE Registered'
  BY <1>29 DEF Unlock
<1>30. ASSUME NEW w \in Workers, WakeSlot(w) PROVE Registered'
  BY <1>30 DEF WakeSlot
<1>31. ASSUME NEW w \in Workers, ReleaseStore(w) PROVE Registered'
  BY <1>31 DEF ReleaseStore
<1>32. ASSUME NEW w \in Workers, ReleaseWake(w) PROVE Registered'
  BY <1>32 DEF ReleaseWake
<1>33. CASE Idle
  BY <1>33 DEF Idle, vars
<1> QED BY <1>1, <1>2, <1>3, <1>4, <1>5, <1>6, <1>7, <1>8, <1>9, <1>10,
     <1>11, <1>12, <1>13, <1>14, <1>15, <1>16, <1>17, <1>18, <1>19, <1>20,
     <1>21, <1>22, <1>23, <1>24, <1>25, <1>26, <1>27, <1>28, <1>29, <1>30,
     <1>31, <1>32, <1>33
     DEF Next, FutureStep, WorkerStep

\* Done is published by a worker that wakes the slot next.
LEMMA CompletionStep ==
    ASSUME IInv, Registered, NoLostCompletion, Next
    PROVE  NoLostCompletion'
<1> USE PoolAssumption DEF IInv, TypeOK, Actors, Goto, FutureInv, WorkerInv, Holding,
    Owning, FuturesOf, Alive,
    Registered, NoLostCompletion
<1>1. ASSUME NEW f \in Futures, Run(f) PROVE NoLostCompletion'
  BY <1>1 DEF Run
<1>2. ASSUME NEW f \in Futures, PollAgain(f) PROVE NoLostCompletion'
  BY <1>2 DEF PollAgain
<1>3. ASSUME NEW f \in Futures, Drop(f) PROVE NoLostCompletion'
  BY <1>3 DEF Drop
<1>4. ASSUME NEW f \in Futures, Claim(f) PROVE NoLostCompletion'
  BY <1>4 DEF Claim
<1>5. ASSUME NEW f \in Futures, ClaimFails(f) PROVE NoLostCompletion'
  BY <1>5 DEF ClaimFails
<1>6. ASSUME NEW f \in Futures, Wire(f) PROVE NoLostCompletion'
  BY <1>6 DEF Wire
<1>7. ASSUME NEW f \in Futures, StartWorkersOnce(f) PROVE NoLostCompletion'
  BY <1>7 DEF StartWorkersOnce
<1>8. ASSUME NEW f \in Futures, MarkQueued(f) PROVE NoLostCompletion'
  BY <1>8 DEF MarkQueued
<1>9. ASSUME NEW f \in Futures, Send(f) PROVE NoLostCompletion'
  BY <1>9 DEF Send
<1>10. ASSUME NEW f \in Futures, Register(f) PROVE NoLostCompletion'
  BY <1>10 DEF Register
<1>11. ASSUME NEW f \in Futures, CheckDone(f) PROVE NoLostCompletion'
  BY <1>11 DEF CheckDone
<1>12. ASSUME NEW f \in Futures, TakeResult(f) PROVE NoLostCompletion'
  BY <1>12 DEF TakeResult
<1>13. ASSUME NEW f \in Futures, CancelRemove(f) PROVE NoLostCompletion'
  BY <1>13 DEF CancelRemove
<1>14. ASSUME NEW f \in Futures, CancelLock(f) PROVE NoLostCompletion'
  BY <1>14 DEF CancelLock
<1>15. ASSUME NEW f \in Futures, CancelFinished(f) PROVE NoLostCompletion'
  BY <1>15 DEF CancelFinished
<1>16. ASSUME NEW f \in Futures, CancelOrphan(f) PROVE NoLostCompletion'
  BY <1>16 DEF CancelOrphan
<1>17. ASSUME NEW f \in Futures, ReleaseStore(f) PROVE NoLostCompletion'
  BY <1>17 DEF ReleaseStore
<1>18. ASSUME NEW f \in Futures, ReleaseWake(f) PROVE NoLostCompletion'
  BY <1>18 DEF ReleaseWake
<1>19. ASSUME NEW f \in Futures, NEW w \in Workers, SpawnWorker(f, w) PROVE NoLostCompletion'
  <2>1. /\ \A g \in Futures : pc'[g] = "pending" => pc[g] = "pending"
        /\ \A v \in Workers : pc[v] \in {"unlock", "wake"} => pc'[v] = pc[v]
    BY <1>19 DEF SpawnWorker
  <2>2. UNCHANGED <<slot, state, waker, woken>>
    BY <1>19 DEF SpawnWorker
  <2> HIDE DEF IInv, TypeOK, Registered
  <2> QED BY <2>1, <2>2
<1>20. ASSUME NEW w \in Workers, Recv(w) PROVE NoLostCompletion'
  BY <1>20 DEF Recv
<1>21. ASSUME NEW w \in Workers, ReadRunner(w) PROVE NoLostCompletion'
  BY <1>21 DEF ReadRunner
<1>22. ASSUME NEW w \in Workers, LockSlot(w, "take_lock", "take_op") PROVE NoLostCompletion'
  BY <1>22 DEF LockSlot
<1>23. ASSUME NEW w \in Workers, TakeOp(w) PROVE NoLostCompletion'
  BY <1>23 DEF TakeOp
<1>24. ASSUME NEW w \in Workers, ExecOp(w) PROVE NoLostCompletion'
  BY <1>24 DEF ExecOp
<1>25. ASSUME NEW w \in Workers, LockSlot(w, "finish_lock", "finish") PROVE NoLostCompletion'
  BY <1>25 DEF LockSlot
<1>26. ASSUME NEW w \in Workers, DiscardResult(w) PROVE NoLostCompletion'
  BY <1>26 DEF DiscardResult
<1>27. ASSUME NEW w \in Workers, WriteResult(w) PROVE NoLostCompletion'
  BY <1>27 DEF WriteResult
<1>28. ASSUME NEW w \in Workers, PublishDone(w) PROVE NoLostCompletion'
  BY <1>28 DEF PublishDone
<1>29. ASSUME NEW w \in Workers, Unlock(w) PROVE NoLostCompletion'
  BY <1>29 DEF Unlock
<1>30. ASSUME NEW w \in Workers, WakeSlot(w) PROVE NoLostCompletion'
  BY <1>30 DEF WakeSlot
<1>31. ASSUME NEW w \in Workers, ReleaseStore(w) PROVE NoLostCompletion'
  BY <1>31 DEF ReleaseStore
<1>32. ASSUME NEW w \in Workers, ReleaseWake(w) PROVE NoLostCompletion'
  BY <1>32 DEF ReleaseWake
<1>33. CASE Idle
  BY <1>33 DEF Idle, vars
<1> QED BY <1>1, <1>2, <1>3, <1>4, <1>5, <1>6, <1>7, <1>8, <1>9, <1>10,
     <1>11, <1>12, <1>13, <1>14, <1>15, <1>16, <1>17, <1>18, <1>19, <1>20,
     <1>21, <1>22, <1>23, <1>24, <1>25, <1>26, <1>27, <1>28, <1>29, <1>30,
     <1>31, <1>32, <1>33
     DEF Next, FutureStep, WorkerStep

\* A future waits for a slot only when none is Free, and every release wakes.
LEMMA WaitingStep ==
    ASSUME IInv, NoLostSlot, Next
    PROVE  NoLostSlot'
<1> USE PoolAssumption DEF IInv, TypeOK, Actors, Goto, NoLostSlot, FuturesOf, Alive, Overflows
<1>1. ASSUME NEW f \in Futures, Run(f) PROVE NoLostSlot'
  BY <1>1 DEF Run
<1>2. ASSUME NEW f \in Futures, PollAgain(f) PROVE NoLostSlot'
  BY <1>2 DEF PollAgain
<1>3. ASSUME NEW f \in Futures, Drop(f) PROVE NoLostSlot'
  BY <1>3 DEF Drop
<1>4. ASSUME NEW f \in Futures, Claim(f) PROVE NoLostSlot'
  BY <1>4 DEF Claim
<1>5. ASSUME NEW f \in Futures, ClaimFails(f) PROVE NoLostSlot'
  BY <1>5 DEF ClaimFails
<1>6. ASSUME NEW f \in Futures, Wire(f) PROVE NoLostSlot'
  BY <1>6 DEF Wire
<1>7. ASSUME NEW f \in Futures, StartWorkersOnce(f) PROVE NoLostSlot'
  BY <1>7 DEF StartWorkersOnce
<1>8. ASSUME NEW f \in Futures, MarkQueued(f) PROVE NoLostSlot'
  BY <1>8 DEF MarkQueued
<1>9. ASSUME NEW f \in Futures, Send(f) PROVE NoLostSlot'
  BY <1>9 DEF Send, FutureInv, Holding
<1>10. ASSUME NEW f \in Futures, Register(f) PROVE NoLostSlot'
  BY <1>10 DEF Register
<1>11. ASSUME NEW f \in Futures, CheckDone(f) PROVE NoLostSlot'
  BY <1>11 DEF CheckDone, FutureInv, Holding
<1>12. ASSUME NEW f \in Futures, TakeResult(f) PROVE NoLostSlot'
  BY <1>12 DEF TakeResult
<1>13. ASSUME NEW f \in Futures, CancelRemove(f) PROVE NoLostSlot'
  BY <1>13 DEF CancelRemove
<1>14. ASSUME NEW f \in Futures, CancelLock(f) PROVE NoLostSlot'
  BY <1>14 DEF CancelLock
<1>15. ASSUME NEW f \in Futures, CancelFinished(f) PROVE NoLostSlot'
  BY <1>15 DEF CancelFinished
<1>16. ASSUME NEW f \in Futures, CancelOrphan(f) PROVE NoLostSlot'
  BY <1>16 DEF CancelOrphan
<1>17. ASSUME NEW f \in Futures, ReleaseStore(f) PROVE NoLostSlot'
  BY <1>17 DEF ReleaseStore
<1>18. ASSUME NEW f \in Futures, ReleaseWake(f) PROVE NoLostSlot'
  BY <1>18 DEF ReleaseWake
<1>19. ASSUME NEW f \in Futures, NEW w \in Workers, SpawnWorker(f, w) PROVE NoLostSlot'
  BY <1>19 DEF SpawnWorker
<1>20. ASSUME NEW w \in Workers, Recv(w) PROVE NoLostSlot'
  BY <1>20 DEF Recv
<1>21. ASSUME NEW w \in Workers, ReadRunner(w) PROVE NoLostSlot'
  BY <1>21 DEF ReadRunner
<1>22. ASSUME NEW w \in Workers, LockSlot(w, "take_lock", "take_op") PROVE NoLostSlot'
  BY <1>22 DEF LockSlot
<1>23. ASSUME NEW w \in Workers, TakeOp(w) PROVE NoLostSlot'
  BY <1>23 DEF TakeOp
<1>24. ASSUME NEW w \in Workers, ExecOp(w) PROVE NoLostSlot'
  BY <1>24 DEF ExecOp
<1>25. ASSUME NEW w \in Workers, LockSlot(w, "finish_lock", "finish") PROVE NoLostSlot'
  BY <1>25 DEF LockSlot
<1>26. ASSUME NEW w \in Workers, DiscardResult(w) PROVE NoLostSlot'
  BY <1>26 DEF DiscardResult
<1>27. ASSUME NEW w \in Workers, WriteResult(w) PROVE NoLostSlot'
  BY <1>27 DEF WriteResult
<1>28. ASSUME NEW w \in Workers, PublishDone(w) PROVE NoLostSlot'
  BY <1>28 DEF PublishDone
<1>29. ASSUME NEW w \in Workers, Unlock(w) PROVE NoLostSlot'
  BY <1>29 DEF Unlock
<1>30. ASSUME NEW w \in Workers, WakeSlot(w) PROVE NoLostSlot'
  BY <1>30 DEF WakeSlot
<1>31. ASSUME NEW w \in Workers, ReleaseStore(w) PROVE NoLostSlot'
  BY <1>31 DEF ReleaseStore
<1>32. ASSUME NEW w \in Workers, ReleaseWake(w) PROVE NoLostSlot'
  BY <1>32 DEF ReleaseWake
<1>33. CASE Idle
  BY <1>33 DEF Idle, vars
<1> QED BY <1>1, <1>2, <1>3, <1>4, <1>5, <1>6, <1>7, <1>8, <1>9, <1>10,
     <1>11, <1>12, <1>13, <1>14, <1>15, <1>16, <1>17, <1>18, <1>19, <1>20,
     <1>21, <1>22, <1>23, <1>24, <1>25, <1>26, <1>27, <1>28, <1>29, <1>30,
     <1>31, <1>32, <1>33
     DEF Next, FutureStep, WorkerStep

\* No wake-up of a pending future is lost: neither the one for its result, also
\* when an earlier user's late wake-up took the waker, nor the one for a slot,
\* also when the registration overflows.
THEOREM WakesNotLost == Spec => []NoLostWake
<1>1. Init => WakeInv
  BY PoolAssumption DEF Init, Actors, WakeInv, Registered, NoLostCompletion, NoLostSlot
<1>2. IInv /\ WakeInv /\ [Next]_vars => WakeInv'
  <2>1. CASE UNCHANGED vars
    BY <2>1 DEF vars, WakeInv, Registered, NoLostCompletion, NoLostSlot
  <2> QED BY <2>1, RegisteredStep, CompletionStep, WaitingStep DEF WakeInv
<1>3. WakeInv => NoLostWake
  BY DEF WakeInv, NoLostWake
<1> QED BY <1>1, <1>2, <1>3, InductiveInvariant, PTL DEF Spec

-----------------------------------------------------------------------------
(* The pool implements BlockingRun.                                        *)

\* A call is settled when poll has returned its result or a cancel is decided.
Settled == {"free", "wakeall", "gone"}

OutcomeInv == \A f \in Futures : outcome[f] = "none" <=> pc[f] \notin Settled

\* A running closure is the one a worker executes.
RunningInv ==
    \A f \in Futures : op[f] = "running"
        => \E w \in Workers : pc[w] = "exec" /\ job[w] = f

\* The outcome of a call is written in the step that settles it.
LEMMA OutcomeStep ==
    ASSUME IInv, OutcomeInv, Next
    PROVE  OutcomeInv'
<1> USE PoolAssumption DEF IInv, TypeOK, Actors, Goto, OutcomeInv, Settled, Cancelled
<1>1. ASSUME NEW f \in Futures, Run(f) PROVE OutcomeInv'
  BY <1>1 DEF Run
<1>2. ASSUME NEW f \in Futures, PollAgain(f) PROVE OutcomeInv'
  BY <1>2 DEF PollAgain
<1>3. ASSUME NEW f \in Futures, Drop(f) PROVE OutcomeInv'
  BY <1>3 DEF Drop, FutureInv
<1>4. ASSUME NEW f \in Futures, Claim(f) PROVE OutcomeInv'
  BY <1>4 DEF Claim
<1>5. ASSUME NEW f \in Futures, ClaimFails(f) PROVE OutcomeInv'
  BY <1>5 DEF ClaimFails
<1>6. ASSUME NEW f \in Futures, Wire(f) PROVE OutcomeInv'
  BY <1>6 DEF Wire
<1>7. ASSUME NEW f \in Futures, StartWorkersOnce(f) PROVE OutcomeInv'
  BY <1>7 DEF StartWorkersOnce
<1>8. ASSUME NEW f \in Futures, MarkQueued(f) PROVE OutcomeInv'
  BY <1>8 DEF MarkQueued
<1>9. ASSUME NEW f \in Futures, Send(f) PROVE OutcomeInv'
  BY <1>9 DEF Send
<1>10. ASSUME NEW f \in Futures, Register(f) PROVE OutcomeInv'
  BY <1>10 DEF Register
<1>11. ASSUME NEW f \in Futures, CheckDone(f) PROVE OutcomeInv'
  BY <1>11 DEF CheckDone
<1>12. ASSUME NEW f \in Futures, TakeResult(f) PROVE OutcomeInv'
  BY <1>12 DEF TakeResult
<1>13. ASSUME NEW f \in Futures, CancelRemove(f) PROVE OutcomeInv'
  BY <1>13 DEF CancelRemove
<1>14. ASSUME NEW f \in Futures, CancelLock(f) PROVE OutcomeInv'
  BY <1>14 DEF CancelLock
<1>15. ASSUME NEW f \in Futures, CancelFinished(f) PROVE OutcomeInv'
  BY <1>15 DEF CancelFinished
<1>16. ASSUME NEW f \in Futures, CancelOrphan(f) PROVE OutcomeInv'
  BY <1>16 DEF CancelOrphan
<1>17. ASSUME NEW f \in Futures, ReleaseStore(f) PROVE OutcomeInv'
  BY <1>17 DEF ReleaseStore
<1>18. ASSUME NEW f \in Futures, ReleaseWake(f) PROVE OutcomeInv'
  BY <1>18 DEF ReleaseWake, FutureInv
<1>19. ASSUME NEW f \in Futures, NEW w \in Workers, SpawnWorker(f, w) PROVE OutcomeInv'
  BY <1>19 DEF SpawnWorker
<1>20. ASSUME NEW w \in Workers, Recv(w) PROVE OutcomeInv'
  BY <1>20 DEF Recv
<1>21. ASSUME NEW w \in Workers, ReadRunner(w) PROVE OutcomeInv'
  BY <1>21 DEF ReadRunner
<1>22. ASSUME NEW w \in Workers, LockSlot(w, "take_lock", "take_op") PROVE OutcomeInv'
  BY <1>22 DEF LockSlot
<1>23. ASSUME NEW w \in Workers, TakeOp(w) PROVE OutcomeInv'
  BY <1>23 DEF TakeOp
<1>24. ASSUME NEW w \in Workers, ExecOp(w) PROVE OutcomeInv'
  BY <1>24 DEF ExecOp
<1>25. ASSUME NEW w \in Workers, LockSlot(w, "finish_lock", "finish") PROVE OutcomeInv'
  BY <1>25 DEF LockSlot
<1>26. ASSUME NEW w \in Workers, DiscardResult(w) PROVE OutcomeInv'
  BY <1>26 DEF DiscardResult
<1>27. ASSUME NEW w \in Workers, WriteResult(w) PROVE OutcomeInv'
  BY <1>27 DEF WriteResult
<1>28. ASSUME NEW w \in Workers, PublishDone(w) PROVE OutcomeInv'
  BY <1>28 DEF PublishDone
<1>29. ASSUME NEW w \in Workers, Unlock(w) PROVE OutcomeInv'
  BY <1>29 DEF Unlock
<1>30. ASSUME NEW w \in Workers, WakeSlot(w) PROVE OutcomeInv'
  BY <1>30 DEF WakeSlot
<1>31. ASSUME NEW w \in Workers, ReleaseStore(w) PROVE OutcomeInv'
  BY <1>31 DEF ReleaseStore
<1>32. ASSUME NEW w \in Workers, ReleaseWake(w) PROVE OutcomeInv'
  BY <1>32 DEF ReleaseWake, FutureInv
<1>33. CASE Idle
  BY <1>33 DEF Idle, vars
<1> QED BY <1>1, <1>2, <1>3, <1>4, <1>5, <1>6, <1>7, <1>8, <1>9, <1>10,
     <1>11, <1>12, <1>13, <1>14, <1>15, <1>16, <1>17, <1>18, <1>19, <1>20,
     <1>21, <1>22, <1>23, <1>24, <1>25, <1>26, <1>27, <1>28, <1>29, <1>30,
     <1>31, <1>32, <1>33
     DEF Next, FutureStep, WorkerStep

\* Only the worker that moved a closure out of its cell runs it.
LEMMA RunningStep ==
    ASSUME IInv, RunningInv, Next
    PROVE  RunningInv'
<1> USE PoolAssumption DEF IInv, TypeOK, Actors, Goto, RunningInv
<1>1. ASSUME NEW f \in Futures, Run(f) PROVE RunningInv'
  BY <1>1 DEF Run
<1>2. ASSUME NEW f \in Futures, PollAgain(f) PROVE RunningInv'
  BY <1>2 DEF PollAgain
<1>3. ASSUME NEW f \in Futures, Drop(f) PROVE RunningInv'
  BY <1>3 DEF Drop
<1>4. ASSUME NEW f \in Futures, Claim(f) PROVE RunningInv'
  BY <1>4 DEF Claim
<1>5. ASSUME NEW f \in Futures, ClaimFails(f) PROVE RunningInv'
  BY <1>5 DEF ClaimFails
<1>6. ASSUME NEW f \in Futures, Wire(f) PROVE RunningInv'
  BY <1>6 DEF Wire
<1>7. ASSUME NEW f \in Futures, StartWorkersOnce(f) PROVE RunningInv'
  BY <1>7 DEF StartWorkersOnce
<1>8. ASSUME NEW f \in Futures, MarkQueued(f) PROVE RunningInv'
  BY <1>8 DEF MarkQueued
<1>9. ASSUME NEW f \in Futures, Send(f) PROVE RunningInv'
  BY <1>9 DEF Send
<1>10. ASSUME NEW f \in Futures, Register(f) PROVE RunningInv'
  BY <1>10 DEF Register
<1>11. ASSUME NEW f \in Futures, CheckDone(f) PROVE RunningInv'
  BY <1>11 DEF CheckDone
<1>12. ASSUME NEW f \in Futures, TakeResult(f) PROVE RunningInv'
  BY <1>12 DEF TakeResult
<1>13. ASSUME NEW f \in Futures, CancelRemove(f) PROVE RunningInv'
  BY <1>13 DEF CancelRemove
<1>14. ASSUME NEW f \in Futures, CancelLock(f) PROVE RunningInv'
  BY <1>14 DEF CancelLock
<1>15. ASSUME NEW f \in Futures, CancelFinished(f) PROVE RunningInv'
  BY <1>15 DEF CancelFinished
<1>16. ASSUME NEW f \in Futures, CancelOrphan(f) PROVE RunningInv'
  BY <1>16 DEF CancelOrphan
<1>17. ASSUME NEW f \in Futures, ReleaseStore(f) PROVE RunningInv'
  BY <1>17 DEF ReleaseStore
<1>18. ASSUME NEW f \in Futures, ReleaseWake(f) PROVE RunningInv'
  BY <1>18 DEF ReleaseWake
<1>19. ASSUME NEW f \in Futures, NEW w \in Workers, SpawnWorker(f, w) PROVE RunningInv'
  BY <1>19 DEF SpawnWorker
<1>20. ASSUME NEW w \in Workers, Recv(w) PROVE RunningInv'
  BY <1>20 DEF Recv
<1>21. ASSUME NEW w \in Workers, ReadRunner(w) PROVE RunningInv'
  BY <1>21 DEF ReadRunner
<1>22. ASSUME NEW w \in Workers, LockSlot(w, "take_lock", "take_op") PROVE RunningInv'
  BY <1>22 DEF LockSlot
<1>23. ASSUME NEW w \in Workers, TakeOp(w) PROVE RunningInv'
  BY <1>23 DEF TakeOp
<1>24. ASSUME NEW w \in Workers, ExecOp(w) PROVE RunningInv'
  BY <1>24 DEF ExecOp, OpInv
<1>25. ASSUME NEW w \in Workers, LockSlot(w, "finish_lock", "finish") PROVE RunningInv'
  BY <1>25 DEF LockSlot
<1>26. ASSUME NEW w \in Workers, DiscardResult(w) PROVE RunningInv'
  BY <1>26 DEF DiscardResult
<1>27. ASSUME NEW w \in Workers, WriteResult(w) PROVE RunningInv'
  BY <1>27 DEF WriteResult
<1>28. ASSUME NEW w \in Workers, PublishDone(w) PROVE RunningInv'
  BY <1>28 DEF PublishDone
<1>29. ASSUME NEW w \in Workers, Unlock(w) PROVE RunningInv'
  BY <1>29 DEF Unlock
<1>30. ASSUME NEW w \in Workers, WakeSlot(w) PROVE RunningInv'
  BY <1>30 DEF WakeSlot
<1>31. ASSUME NEW w \in Workers, ReleaseStore(w) PROVE RunningInv'
  BY <1>31 DEF ReleaseStore
<1>32. ASSUME NEW w \in Workers, ReleaseWake(w) PROVE RunningInv'
  BY <1>32 DEF ReleaseWake
<1>33. CASE Idle
  BY <1>33 DEF Idle, vars
<1> QED BY <1>1, <1>2, <1>3, <1>4, <1>5, <1>6, <1>7, <1>8, <1>9, <1>10,
     <1>11, <1>12, <1>13, <1>14, <1>15, <1>16, <1>17, <1>18, <1>19, <1>20,
     <1>21, <1>22, <1>23, <1>24, <1>25, <1>26, <1>27, <1>28, <1>29, <1>30,
     <1>31, <1>32, <1>33
     DEF Next, FutureStep, WorkerStep

\* The closures that run do so in different workers, on different slots.
LEMMA RunnersDistinct ==
    ASSUME IInv, RunningInv
    PROVE  \E r \in Injection({f \in Futures : op[f] = "running"}, Workers) :
              /\ \A f \in DOMAIN r : pc[r[f]] = "exec" /\ job[r[f]] = f
              /\ \A f, g \in DOMAIN r : slot[r[f]] = slot[r[g]] => f = g
<1> DEFINE R == {f \in Futures : op[f] = "running"}
           r == [f \in R |-> CHOOSE w \in Workers : pc[w] = "exec" /\ job[w] = f]
<1>1. \A f \in R : r[f] \in Workers /\ pc[r[f]] = "exec" /\ job[r[f]] = f
  BY DEF RunningInv
<1>2. r \in [R -> Workers] /\ DOMAIN r = R
  BY <1>1
<1> HIDE DEF r
<1>3. \A f, g \in R : r[f] = r[g] => f = g
  BY <1>1
<1>4. \A f, g \in R : slot[r[f]] = slot[r[g]] => f = g
  BY <1>1, <1>3 DEF IInv, WorkerInv, WorksOn, Owning
<1>5. r \in Injection(R, Workers)
  BY <1>2, <1>3 DEF Injection, IsInjective
<1> QED BY <1>1, <1>2, <1>4, <1>5

\* A worker that is about to take a closure leaves room for it: it runs none
\* itself, and its slot is no other worker's.
LEMMA RoomForOne ==
    ASSUME IInv, RunningInv, NEW w \in Workers, pc[w] = "take_op"
    PROVE  Cardinality({f \in Futures : op[f] = "running"})
              < Min({Cardinality(Workers), Cardinality(Slots)})
<1> DEFINE R == {f \in Futures : op[f] = "running"}
<1>1. PICK r \in Injection(R, Workers) :
           /\ \A f \in DOMAIN r : pc[r[f]] = "exec" /\ job[r[f]] = f
           /\ \A f, g \in DOMAIN r : slot[r[f]] = slot[r[g]] => f = g
  BY RunnersDistinct
<1>2. r \in [R -> Workers] /\ DOMAIN r = R
  BY DEF Injection
<1> DEFINE q == [f \in R |-> slot[r[f]]]
<1>3. q \in [R -> Slots]
  BY <1>1, <1>2, PoolAssumption DEF IInv, TypeOK, Actors, WorkerInv, Owning
<1>4. q \in Injection(R, Slots)
  BY <1>1, <1>2, <1>3 DEF Injection, IsInjective
<1>5. r \notin Surjection(R, Workers)
  BY <1>1, <1>2 DEF Surjection
<1>6. q \notin Surjection(R, Slots)
  <2>1. slot[w] \in Slots
    BY PoolAssumption DEF IInv, TypeOK, Actors, WorkerInv, Owning
  <2>2. \A f \in R : q[f] # slot[w]
    BY <1>1, <1>2 DEF IInv, WorkerInv, WorksOn, Owning
  <2> QED BY <2>1, <2>2, <1>3 DEF Surjection
<1> HIDE DEF R, q
<1>7. /\ Cardinality(R) <= Cardinality(Workers)
      /\ Cardinality(R) # Cardinality(Workers)
  BY <1>1, <1>5, FiniteAssumption, FS_Injection
<1>8. /\ Cardinality(R) <= Cardinality(Slots)
      /\ Cardinality(R) # Cardinality(Slots)
  BY <1>4, <1>6, FiniteAssumption, FS_Injection
<1>9. Cardinality(Workers) \in Nat /\ Cardinality(Slots) \in Nat /\ Cardinality(R) \in Nat
  BY <1>1, FiniteAssumption, FS_Injection, FS_CardinalityType
<1>10. \A m, n \in Nat : Min({m, n}) \in {m, n}
  BY DEF Min
<1>11. Min({Cardinality(Workers), Cardinality(Slots)})
          \in {Cardinality(Workers), Cardinality(Slots)}
  BY <1>9, <1>10
<1> QED BY <1>7, <1>8, <1>9, <1>11 DEF R

\* A step that neither creates nor settles a call and runs no closure is not
\* seen by the callers.
LEMMA UnseenStep ==
    ASSUME op' = op, outcome' = outcome,
           \A f \in Futures : pc'[f] = "unborn" <=> pc[f] = "unborn"
    PROVE  UNCHANGED <<callView, op>>
BY DEF callView

\* What the callers see of a step that settles a call.
LEMMA SettlingStep ==
    ASSUME IInv, OutcomeInv, NEW f \in Futures, NEW x \in {"ready", "cancelled"},
           pc[f] \notin Settled \cup {"unborn"},
           op' = op, outcome' = [outcome EXCEPT ![f] = x],
           \A g \in Futures : pc'[g] = "unborn" <=> pc[g] = "unborn"
    PROVE  callView[f] = "pending" /\ callView' = [callView EXCEPT ![f] = x]
<1>1. callView[f] = "pending"
  BY DEF callView, OutcomeInv
<1>2. outcome \in [Futures -> {"none", "ready", "cancelled"}]
  BY DEF IInv, TypeOK
<1> QED BY <1>1, <1>2 DEF callView

\* run(op) makes a call.
LEMMA RunMakes ==
    ASSUME IInv, OutcomeInv, NEW f \in Futures, Run(f)
    PROVE  Promise!Make(f)
<1>1. pc' = [pc EXCEPT ![f] = "poll"] /\ pc[f] = "unborn" /\ f \in DOMAIN pc
  BY DEF Run, Goto, IInv, TypeOK, Actors
<1>2. outcome' = outcome /\ op' = op /\ outcome[f] = "none"
  BY DEF Run, OutcomeInv, Settled
<1>3. callView[f] = "unborn"
  BY <1>1 DEF callView
<1>4. \A g \in Futures : g # f => pc'[g] = pc[g]
  BY <1>1 DEF IInv, TypeOK, Actors
<1>5. pc'[f] = "poll"
  BY <1>1
<1>6. callView' = [callView EXCEPT ![f] = "pending"]
  BY <1>2, <1>4, <1>5 DEF callView
<1> QED BY <1>2, <1>3, <1>6 DEF Promise!Make

\* BlockingRun counts closures as this module does.
LEMMA SameCardinality == \A S : Promise!Cardinality(S) = Cardinality(S)
BY DEF Promise!Cardinality, Cardinality

\* Taking the closure out of its cell starts it, for a call that is pending.
LEMMA TakeOpBegins ==
    ASSUME IInv, OutcomeInv, RunningInv, NEW w \in Workers, TakeOp(w)
    PROVE  (\E f \in Futures : Promise!Begin(f)) \/ UNCHANGED <<callView, op>>
<1>1. outcome' = outcome /\ \A f \in Futures : pc'[f] = pc[f]
  BY PoolAssumption DEF TakeOp, Goto, IInv, TypeOK, Actors
<1>2. CASE op' = op
  BY <1>1, <1>2, UnseenStep
<1>3. CASE op' # op
  <2> DEFINE f == shared[slot[w]]
  <2>1. /\ pc[w] = "take_op" /\ state[slot[w]] # "Orphaned"
        /\ op[f] = "ready" /\ op' = [op EXCEPT ![f] = "running"]
    BY <1>3 DEF TakeOp
  <2>2. slot[w] \in Slots /\ slot[w] # None /\ state[slot[w]] = "Queued"
    BY <2>1, PoolAssumption DEF IInv, TypeOK, Actors, WorkerInv, Owning
  <2>3. PICK g \in Futures : slot[g] = slot[w]
    BY <2>2 DEF IInv, SlotHeld
  <2>4. pc[g] \in Awaiting /\ f = g
    BY <2>1, <2>2, <2>3 DEF IInv, WorkerInv, FutureInv, Owning, Awaiting
  <2>5. callView[g] = "pending" /\ callView' = callView
    BY <2>4, <1>1 DEF callView, OutcomeInv, Settled, Awaiting
  <2>6. Cardinality({d \in Futures : op[d] = "running"})
           < Min({Cardinality(Workers), Cardinality(Slots)})
    BY <2>1, RoomForOne
  <2> QED BY <2>1, <2>4, <2>5, <2>6, SameCardinality DEF Promise!Begin
<1> QED BY <1>2, <1>3

\* Every other step of a future creates or settles its call, or is not seen.
LEMMA FutureSteps ==
    ASSUME IInv, OutcomeInv, NEW f \in Futures,
           PollAgain(f) \/ Drop(f) \/ FutureStep(f)
    PROVE  Promise!Answer(f) \/ Promise!Cancel(f) \/ UNCHANGED <<callView, op>>
<1> USE PoolAssumption DEF Goto, IInv, TypeOK, Actors
<1>1. CASE TakeResult(f)
  <2>1. callView[f] = "pending" /\ callView' = [callView EXCEPT ![f] = "ready"]
    <3>1. \A g \in Futures : pc'[g] = "unborn" <=> pc[g] = "unborn"
      BY <1>1 DEF TakeResult
    <3> QED BY <1>1, <3>1, SettlingStep DEF TakeResult, Settled
  <2>2. op[f] = "returned"
    BY <1>1 DEF TakeResult, OpInv, FutureInv, Holding
  <2> QED BY <1>1, <2>1, <2>2 DEF TakeResult, Promise!Answer
<1>2. ASSUME outcome' = Cancelled(f), op' = op,
             pc[f] \notin Settled \cup {"unborn"},
             \A g \in Futures : pc'[g] = "unborn" <=> pc[g] = "unborn"
      PROVE  Promise!Cancel(f)
  BY <1>2, SettlingStep DEF Cancelled, Promise!Cancel
<1>3. CASE Drop(f)
  <2>1. \A g \in Futures : pc'[g] = "unborn" <=> pc[g] = "unborn"
    BY <1>3 DEF Drop
  <2> QED BY <1>2, <1>3, <2>1, UnseenStep DEF Drop, Settled
<1>4. CASE CancelRemove(f)
  <2>1. \A g \in Futures : pc'[g] = "unborn" <=> pc[g] = "unborn"
    BY <1>4 DEF CancelRemove
  <2> QED BY <1>2, <1>4, <2>1, UnseenStep DEF CancelRemove, Settled
<1>5. CASE CancelFinished(f) \/ CancelOrphan(f)
  <2>1. \A g \in Futures : pc'[g] = "unborn" <=> pc[g] = "unborn"
    BY <1>5 DEF CancelFinished, CancelOrphan
  <2> QED BY <1>2, <1>5, <2>1 DEF CancelFinished, CancelOrphan, Settled
<1>6. CASE \/ PollAgain(f) \/ Claim(f) \/ ClaimFails(f) \/ Wire(f)
           \/ StartWorkersOnce(f) \/ \E w \in Workers : SpawnWorker(f, w)
  <2>1. \A g \in Futures : pc'[g] = "unborn" <=> pc[g] = "unborn"
    BY <1>6 DEF PollAgain, Claim, ClaimFails, Wire, StartWorkersOnce, SpawnWorker
  <2>2. op' = op /\ outcome' = outcome
    BY <1>6 DEF PollAgain, Claim, ClaimFails, Wire, StartWorkersOnce, SpawnWorker
  <2> QED BY <2>1, <2>2, UnseenStep
<1>7. CASE \/ MarkQueued(f) \/ Send(f) \/ Register(f) \/ CheckDone(f)
           \/ CancelLock(f) \/ ReleaseStore(f) \/ ReleaseWake(f)
  <2>1. \A g \in Futures : pc'[g] = "unborn" <=> pc[g] = "unborn"
    BY <1>7 DEF MarkQueued, Send, Register, CheckDone, CancelLock, ReleaseStore,
       ReleaseWake
  <2>2. op' = op /\ outcome' = outcome
    BY <1>7 DEF MarkQueued, Send, Register, CheckDone, CancelLock, ReleaseStore,
       ReleaseWake
  <2> QED BY <2>1, <2>2, UnseenStep
<1> QED BY <1>1, <1>3, <1>4, <1>5, <1>6, <1>7 DEF FutureStep

\* A worker's step starts or ends a closure, or is not seen.
LEMMA WorkerSteps ==
    ASSUME IInv, OutcomeInv, RunningInv, NEW w \in Workers, WorkerStep(w)
    PROVE  (\E f \in Futures : Promise!Begin(f) \/ Promise!Return(f))
              \/ UNCHANGED <<callView, op>>
<1>1. \A f \in Futures : pc'[f] = pc[f]
  BY PoolAssumption DEF WorkerStep, Recv, ReadRunner, LockSlot, TakeOp, ExecOp,
     DiscardResult, WriteResult, PublishDone, Unlock, WakeSlot, ReleaseStore,
     ReleaseWake, Goto, IInv, TypeOK, Actors
<1>2. outcome' = outcome
  BY DEF WorkerStep, Recv, ReadRunner, LockSlot, TakeOp, ExecOp, DiscardResult,
     WriteResult, PublishDone, Unlock, WakeSlot, ReleaseStore, ReleaseWake
<1>3. CASE TakeOp(w)
  BY <1>3, TakeOpBegins
<1>4. CASE ExecOp(w)
  <2>1. job[w] \in Futures /\ op[job[w]] = "running"
    BY <1>4 DEF ExecOp, IInv, OpInv
  <2>2. callView' = callView
    BY <1>1, <1>2 DEF callView
  <2> QED BY <1>4, <2>1, <2>2 DEF ExecOp, Promise!Return
<1>5. CASE op' = op
  BY <1>1, <1>2, <1>5, UnseenStep
<1> QED BY <1>3, <1>4, <1>5 DEF WorkerStep, Recv, ReadRunner, LockSlot,
     DiscardResult, WriteResult, PublishDone, Unlock, WakeSlot, ReleaseStore,
     ReleaseWake

\* The pool implements what the documentation of run promises its callers, for
\* any numbers of calls, workers, slots and registrations: no closure runs
\* twice, after a settled cancel or beyond the limit, and the answer follows it.
THEOREM PromiseKept == Spec => KeepsPromise
<1>1. Init => OutcomeInv /\ RunningInv /\ Promise!Init
  BY PoolAssumption DEF Init, Actors, OutcomeInv, RunningInv, Settled, callView,
     Promise!Init
<1>2. IInv /\ OutcomeInv /\ RunningInv /\ [Next]_vars => OutcomeInv' /\ RunningInv'
  <2>1. CASE UNCHANGED vars
    BY <2>1 DEF vars, OutcomeInv, RunningInv
  <2> QED BY <2>1, OutcomeStep, RunningStep
<1>3. IInv /\ OutcomeInv /\ RunningInv /\ [Next]_vars
         => [Promise!Next]_<<callView, op>>
  <2> SUFFICES ASSUME IInv, OutcomeInv, RunningInv, [Next]_vars
               PROVE  Promise!Next \/ UNCHANGED <<callView, op>>
    OBVIOUS
  <2>1. ASSUME NEW f \in Futures, Run(f) \/ PollAgain(f) \/ Drop(f) \/ FutureStep(f)
        PROVE  Promise!Next \/ UNCHANGED <<callView, op>>
    BY <2>1, RunMakes, FutureSteps DEF Promise!Next
  <2>2. ASSUME NEW w \in Workers, WorkerStep(w)
        PROVE  Promise!Next \/ UNCHANGED <<callView, op>>
    BY <2>2, WorkerSteps DEF Promise!Next
  <2>3. CASE UNCHANGED vars
    BY <2>3 DEF vars, callView
  <2> QED BY <2>1, <2>2, <2>3 DEF Next, Idle
<1> QED BY <1>1, <1>2, <1>3, InductiveInvariant, PTL
    DEF Spec, KeepsPromise, Promise!Spec
=============================================================================
