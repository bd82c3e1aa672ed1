----------------------------- MODULE WorkQueues -----------------------------
(***************************************************************************)
(* zephyr/src/work.rs and simpletls.rs: work items shared with Zephyr's    *)
(* work queues through leaked Arcs, and the table that maps the threads of *)
(* the work queues to the queues.                                          *)
(*                                                                         *)
(* A queue is named by the address of the k_thread inside it.  The system  *)
(* work queue runs from boot; every other one is started by the program.   *)
(***************************************************************************)
EXTENDS SequencesExt, Integers

CONSTANTS Works,      \* the Work items
          Clients,    \* the threads that submit them
          Queues,     \* the work queues
          SysQueue,   \* the system work queue
          MaxArcs,    \* bound on the references to one item at any time
          Nothing

ASSUME WorkAssumption ==
    /\ Queues \subseteq Nat
    /\ SysQueue \in Queues
    /\ IsFiniteSet(Queues) /\ IsFiniteSet(Clients)
    /\ Nothing \notin Works \cup Queues \cup (Works \X Queues)
    /\ MaxArcs \in Nat \ {0}

VARIABLES
    arcs,     \* the Arcs of each item that clients have
    strong,   \* the strong count of the item's Arc; at 0 it is freed
    raw,      \* its raw references: Arcs leaked and not yet recovered
    leaked,   \* the submission each client is in: item and queue, or Nothing
    queue,    \* the k_work_q's: sequences of items
    running,  \* the item whose handler each queue runs, or Nothing
    worker,   \* where each queue's thread is
    wanted,   \* the items submitted since their action last began
    tls,      \* WORK_QUEUES: pairs of thread and queue
    started,  \* how far each queue's start is
    current   \* what get_current_workq returned to the running action

workVars == <<arcs, strong, raw, leaked, queue, running, worker, wanted, tls,
              started, current>>

WorkInit ==
    /\ arcs = [w \in Works |-> 1]
    /\ strong = [w \in Works |-> 1]
    /\ raw = [w \in Works |-> 0]
    /\ leaked = [c \in Clients |-> Nothing]
    /\ queue = [q \in Queues |-> <<>>]
    /\ running = [q \in Queues |-> Nothing]
    /\ worker = [q \in Queues |-> "idle"]
    /\ wanted = {}
    /\ tls = <<>>
    /\ started = [q \in Queues |-> IF q = SysQueue THEN "started" ELSE "new"]
    /\ current = [q \in Queues |-> Nothing]

-----------------------------------------------------------------------------
(* SimpleTls: a vector searched by bisection.                              *)

\* Where bisection finds the thread, or where it belongs.
TlsPos(thread) == 1 + Cardinality({i \in DOMAIN tls : tls[i][1] < thread})

TlsHas(thread) == TlsPos(thread) <= Len(tls) /\ tls[TlsPos(thread)][1] = thread

TlsInsert(thread, data) ==
    IF TlsHas(thread)
    THEN ReplaceAt(tls, TlsPos(thread), <<thread, data>>)
    ELSE InsertAt(tls, TlsPos(thread), <<thread, data>>)

TlsGet(thread) == IF TlsHas(thread) THEN tls[TlsPos(thread)][2] ELSE Nothing

-----------------------------------------------------------------------------
(* WorkQueueBuilder::start.                                                *)

\* Mutant: the queue's thread runs before the table knows it.
RegisterQueueLate(q) ==
    /\ started[q] = "new"
    /\ started' = [started EXCEPT ![q] = "started"]
    /\ UNCHANGED <<arcs, strong, raw, leaked, queue, running, worker, wanted,
                   tls, current>>

\* k_work_queue_init, and the insert under the lock of WORK_QUEUES.
RegisterQueue(q) ==
    /\ started[q] = "new"
    /\ tls' = TlsInsert(q, q)
    /\ started' = [started EXCEPT ![q] = "registered"]
    /\ UNCHANGED <<arcs, strong, raw, leaked, queue, running, worker, wanted,
                   current>>

\* k_work_queue_start, and the WorkQueue is returned.
StartQueue(q) ==
    /\ started[q] = "registered"
    /\ started' = [started EXCEPT ![q] = "started"]
    /\ UNCHANGED <<arcs, strong, raw, leaked, queue, running, worker, wanted,
                   tls, current>>

-----------------------------------------------------------------------------
(* Arcs in the hands of clients.                                           *)

Clone(w) ==
    /\ arcs[w] > 0
    /\ strong[w] < MaxArcs
    /\ arcs' = [arcs EXCEPT ![w] = @ + 1]
    /\ strong' = [strong EXCEPT ![w] = @ + 1]
    /\ UNCHANGED <<raw, leaked, queue, running, worker, wanted, tls, started,
                   current>>

DropArc(w) ==
    /\ arcs[w] > 0
    /\ arcs' = [arcs EXCEPT ![w] = @ - 1]
    /\ strong' = [strong EXCEPT ![w] = @ - 1]
    /\ UNCHANGED <<raw, leaked, queue, running, worker, wanted, tls, started,
                   current>>

-----------------------------------------------------------------------------
(* Work::submit and Work::submit_to_queue.                                 *)

\* Arc::into_raw: the client's Arc becomes a raw reference.
Leak(c, w, q) ==
    /\ leaked[c] = Nothing
    /\ arcs[w] > 0
    /\ started[q] = "started"
    /\ arcs' = [arcs EXCEPT ![w] = @ - 1]
    /\ raw' = [raw EXCEPT ![w] = @ + 1]
    /\ leaked' = [leaked EXCEPT ![c] = <<w, q>>]
    /\ UNCHANGED <<strong, queue, running, worker, wanted, tls, started, current>>

Queued(w) == \E q \in Queues : w \in ToSet(queue[q])

\* An item that is running is queued where it runs.
Target(w, q) ==
    IF \E r \in Queues : running[r] = w
    THEN CHOOSE r \in Queues : running[r] = w
    ELSE q

\* Mutant: an error for an item that is not idle frees the Arc again.
KWorkSubmitRecovers(c) ==
    LET w == leaked[c][1]
        q == leaked[c][2]
        busy == Queued(w) \/ \E r \in Queues : running[r] = w
    IN  /\ leaked[c] # Nothing
        /\ leaked' = [leaked EXCEPT ![c] = Nothing]
        /\ wanted' = wanted \cup {w}
        /\ queue' = IF Queued(w) THEN queue
                    ELSE [queue EXCEPT ![Target(w, q)] = Append(@, w)]
        /\ raw' = [raw EXCEPT ![w] = IF busy THEN @ - 1 ELSE @]
        /\ strong' = [strong EXCEPT ![w] = IF busy THEN @ - 1 ELSE @]
        /\ UNCHANGED <<arcs, running, worker, tls, started, current>>

\* Mutant: an item that is running is not queued again.
KWorkSubmitOnce(c) ==
    LET w == leaked[c][1]
        q == leaked[c][2]
    IN  /\ leaked[c] # Nothing
        /\ leaked' = [leaked EXCEPT ![c] = Nothing]
        /\ wanted' = wanted \cup {w}
        /\ queue' = IF Queued(w) \/ \E r \in Queues : running[r] = w THEN queue
                    ELSE [queue EXCEPT ![q] = Append(@, w)]
        /\ UNCHANGED <<arcs, strong, raw, running, worker, tls, started, current>>

\* k_work_submit: AlreadySubmitted, or Enqueued or WasRunning.
KWorkSubmit(c) ==
    LET w == leaked[c][1]
        q == leaked[c][2]
    IN  /\ leaked[c] # Nothing
        /\ leaked' = [leaked EXCEPT ![c] = Nothing]
        /\ wanted' = wanted \cup {w}
        /\ queue' = IF Queued(w) THEN queue
                    ELSE [queue EXCEPT ![Target(w, q)] = Append(@, w)]
        /\ UNCHANGED <<arcs, strong, raw, running, worker, tls, started, current>>

-----------------------------------------------------------------------------
(* The work queue's thread and Work::handler.                              *)

KWorkRun(q) ==
    /\ worker[q] = "idle"
    /\ queue[q] # <<>>
    /\ running' = [running EXCEPT ![q] = Head(queue[q])]
    /\ queue' = [queue EXCEPT ![q] = Tail(@)]
    /\ worker' = [worker EXCEPT ![q] = "from_raw"]
    /\ UNCHANGED <<arcs, strong, raw, leaked, wanted, tls, started, current>>

\* from_raw takes the raw reference back, and act begins.
FromRaw(q) ==
    /\ worker[q] = "from_raw"
    /\ raw' = [raw EXCEPT ![running[q]] = @ - 1]
    /\ wanted' = wanted \ {running[q]}
    /\ worker' = [worker EXCEPT ![q] = "act"]
    /\ UNCHANGED <<arcs, strong, leaked, queue, running, tls, started, current>>

\* The action asks for its queue.
GetCurrentWorkq(q) ==
    /\ worker[q] = "act"
    /\ current' = [current EXCEPT ![q] = TlsGet(q)]
    /\ worker' = [worker EXCEPT ![q] = "acted"]
    /\ UNCHANGED <<arcs, strong, raw, leaked, queue, running, wanted, tls, started>>

\* The handler returns, and drops the Arc.
HandlerReturns(q) ==
    /\ worker[q] \in {"act", "acted"}
    /\ strong' = [strong EXCEPT ![running[q]] = @ - 1]
    /\ running' = [running EXCEPT ![q] = Nothing]
    /\ current' = [current EXCEPT ![q] = Nothing]
    /\ worker' = [worker EXCEPT ![q] = "idle"]
    /\ UNCHANGED <<arcs, raw, leaked, queue, wanted, tls, started>>

-----------------------------------------------------------------------------
WorkerStep(q) ==
    KWorkRun(q) \/ FromRaw(q) \/ GetCurrentWorkq(q) \/ HandlerReturns(q)

WorkNext ==
    \/ \E q \in Queues : RegisterQueue(q) \/ StartQueue(q) \/ WorkerStep(q)
    \/ \E w \in Works : Clone(w) \/ DropArc(w)
    \/ \E c \in Clients :
          \/ KWorkSubmit(c)
          \/ \E w \in Works, q \in Queues : Leak(c, w, q)

WorkSpec == WorkInit /\ [][WorkNext]_workVars

\* The threads of started queues are scheduled, actions return, and a call of
\* submit goes on to k_work_submit.
WorkFairness ==
    /\ \A q \in Queues : WF_workVars(WorkerStep(q))
    /\ \A c \in Clients : WF_workVars(KWorkSubmit(c))

-----------------------------------------------------------------------------
(* Properties.                                                             *)

Count(b) == IF b THEN 1 ELSE 0

\* How many raw references to w the kernel will turn into an Arc, or is about
\* to be given.
RawUses(w) ==
    Count(Queued(w))
    + Cardinality({q \in Queues : running[q] = w /\ worker[q] = "from_raw"})
    + Cardinality({c \in Clients : leaked[c] # Nothing /\ leaked[c][1] = w})

\* The safety comments of submit and from_raw: an item that is in a queue, on
\* its way to one, or about to be handled has a reference of its own for each
\* of these, so its memory is not freed whatever the clients drop.  The strong
\* count is what the clients have, what was leaked and what the running
\* handlers have: the item is freed exactly when the last of them goes.
RawRefsCover ==
    \A w \in Works :
        /\ raw[w] >= RawUses(w)
        /\ strong[w] = arcs[w] + raw[w]
                    + Cardinality({q \in Queues : running[q] = w
                                       /\ worker[q] \in {"act", "acted"}})

\* get_current_workq answers an action on a queue that WorkQueueBuilder
\* started with this queue, from the first action on.
CurrentQueueKnown ==
    \A q \in Queues \ {SysQueue} : worker[q] = "acted" => current[q] = q

\* The action of an item begins after every submission of it, also of those
\* that found it queued or running.
EventuallyActs ==
    \A w \in Works : w \in wanted ~> w \notin wanted

\* "We "leak" the arc, so that when the handler runs, it can be safely turned
\* back into an Arc, and the drop on the arc will then run": no raw reference
\* is left without a use that recovers it.
NothingLeaks == \A w \in Works : raw[w] <= RawUses(w)
=============================================================================
