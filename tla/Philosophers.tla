---------------------------- MODULE Philosophers ----------------------------
(***************************************************************************)
(* samples/philosophers: the phil_thread of src/lib.rs over each of its    *)
(* implementations of ForkSync, one of which is configured:                *)
(*   condvar    condsync.rs, the forks in a Mutex, waits with a Condvar;   *)
(*              a client that uses SyncMutex from many threads             *)
(*   semaphore  semsync.rs and dynsemsync.rs, a k_sem per fork             *)
(*   sysmutex   sysmutex.rs, a k_mutex per fork                            *)
(*   async      samples/async-philosophers, a fair semaphore per fork, and  *)
(*              tasks that eat EatCount times and end                      *)
(*   bounded, unbounded   channel.rs, a server thread that owns the forks, *)
(*              over channels that do what ChannelFifo promises; the       *)
(*              bounded ones hold one message                              *)
(* The statistics are left out: a Mutex that nobody holds across a call.   *)
(* In the last configuration, clients, there are no philosophers and the   *)
(* threads call anything that SyncMutex lets them call.                    *)
(***************************************************************************)
EXTENDS SyncMutex, Sequences

CONSTANTS NumPhil,
          EatCount  \* EAT_COUNT

ASSUME PhilAssumption ==
    /\ NumPhil \in Nat /\ NumPhil > 1 /\ Threads = 0..NumPhil-1
    /\ EatCount \in Nat \ {0}

VARIABLES
    config,   \* which get_syncer is compiled in
    fork,     \* each fork: whether it is in use and, for the server, who waits
    at,       \* where the philosopher is in take, in release or between them
    side,     \* which of its two forks it is about
    meals,    \* async: how often it has eaten
    command,  \* the messages in the server's command channel
    reply,    \* how many messages are in each philosopher's reply channel
    server,   \* what the server does: recv, reply or panic
    to        \* whom it replies to

philVars == <<at, side, meals>>
serverVars == <<command, reply, server, to>>
vars == <<mutexVars, config, fork, philVars, serverVars>>

Configs == {"condvar", "semaphore", "sysmutex", "async", "bounded", "unbounded",
            "clients"}

Free == [in_use |-> FALSE, waiter |-> {}]
InUse == [in_use |-> TRUE, waiter |-> {}]
InUseWait(n) == [in_use |-> TRUE, waiter |-> {n}]

Init ==
    /\ MutexInit
    /\ config \in Configs
    /\ fork = [i \in Threads |-> Free]
    /\ at = [n \in Threads |-> IF config = "clients" THEN "client" ELSE "take"]
    /\ meals = [n \in Threads |-> 0]
    /\ side = [n \in Threads |-> 1]
    /\ command = <<>>
    /\ reply = [n \in Threads |-> 0]
    /\ server = "recv"
    /\ to = 0

-----------------------------------------------------------------------------
(* phil_thread.                                                            *)

\* Mutant: every philosopher takes its own fork first.
ForksSame(n) == <<n, (n + 1) % NumPhil>>

\* The two forks of philosopher n; the last one reverses them.
Forks(n) == IF n = NumPhil - 1 THEN <<0, n>> ELSE <<n, n + 1>>

TheFork(n) == Forks(n)[side[n]]

\* A call of take returns: the second fork is next, or eating.
Taken(n) ==
    /\ at' = [at EXCEPT ![n] = IF side[n] = 1 THEN "take" ELSE "eat"]
    /\ side' = [side EXCEPT ![n] = 2]
    /\ UNCHANGED meals

\* sleep(delay) ends, after eating or after thinking.
SleepEnds(n) ==
    /\ at[n] \in {"eat", "think"}
    /\ pc[n] = "out"
    /\ config # "async"
    /\ at' = [at EXCEPT ![n] = IF @ = "eat" THEN "release" ELSE "take"]
    /\ UNCHANGED <<mutexVars, config, fork, side, meals, serverVars>>

\* The same in one_phil, whose loop ends: done is after DONE_SEM.release.
AsyncSleepEnds(n) ==
    /\ at[n] \in {"eat", "think"}
    /\ config = "async"
    /\ at' = [at EXCEPT ![n] = IF @ = "eat" THEN "release"
                               ELSE IF meals[n] = EatCount THEN "done" ELSE "take"]
    /\ meals' = [meals EXCEPT ![n] = IF at[n] = "eat" THEN @ + 1 ELSE @]
    /\ UNCHANGED <<mutexVars, config, fork, side, serverVars>>

\* A call of release returns: forks.1 is released first, then forks.0.
Released(n) ==
    /\ at' = [at EXCEPT ![n] = IF side[n] = 2 THEN "release" ELSE "think"]
    /\ side' = [side EXCEPT ![n] = 1]
    /\ UNCHANGED meals

Goes(n, label) ==
    /\ at' = [at EXCEPT ![n] = label]
    /\ UNCHANGED <<side, meals>>

-----------------------------------------------------------------------------
(* CondSync.                                                               *)

\* Both calls begin with lock.
LockForks(n) ==
    /\ config = "condvar"
    /\ at[n] \in {"take", "release"}
    /\ pc[n] = "out"
    /\ Lock(n) \/ LockBlocks(n)
    /\ UNCHANGED <<config, fork, philVars, serverVars>>

\* take: while lock[index] { wait }.
TakeWaits(n) ==
    /\ at[n] = "take"
    /\ fork[TheFork(n)].in_use
    /\ Wait(n)
    /\ UNCHANGED <<config, fork, philVars, serverVars>>

\* Mutant: the predicate is not checked again after a wait.
TakeOnceWoken(n) ==
    /\ at[n] = "take"
    /\ pc[n] = "held"
    /\ ~fork[TheFork(n)].in_use \/ \E m \in Threads : pc[m] = "woken"
    /\ fork' = [fork EXCEPT ![TheFork(n)] = InUse]
    /\ Goes(n, "took")
    /\ UNCHANGED <<mutexVars, config, serverVars>>

Take(n) ==
    /\ at[n] = "take"
    /\ pc[n] = "held"
    /\ ~fork[TheFork(n)].in_use
    /\ fork' = [fork EXCEPT ![TheFork(n)] = InUse]
    /\ Goes(n, "took")
    /\ UNCHANGED <<mutexVars, config, serverVars>>

\* take returns: the guard is dropped.
TakeReturns(n) ==
    /\ at[n] = "took"
    /\ DropGuard(n)
    /\ Taken(n)
    /\ UNCHANGED <<config, fork, serverVars>>

Release(n) ==
    /\ at[n] = "release"
    /\ pc[n] = "held"
    /\ fork' = [fork EXCEPT ![TheFork(n)] = Free]
    /\ Goes(n, "cleared")
    /\ UNCHANGED <<mutexVars, config, serverVars>>

\* Mutant: only one thread is woken.
ReleaseNotifiesOne(n) ==
    /\ at[n] = "cleared"
    /\ pc[n] = "held"
    /\ NotifyOne(n) \/ (Waiting = {} /\ UNCHANGED mutexVars)
    /\ Goes(n, "notified")
    /\ UNCHANGED <<config, fork, serverVars>>

\* No predictable waiter, so everyone is woken.
ReleaseNotifies(n) ==
    /\ at[n] = "cleared"
    /\ pc[n] = "held"
    /\ NotifyAll(n)
    /\ Goes(n, "notified")
    /\ UNCHANGED <<config, fork, serverVars>>

ReleaseReturns(n) ==
    /\ at[n] = "notified"
    /\ DropGuard(n)
    /\ Released(n)
    /\ UNCHANGED <<config, fork, serverVars>>

CondStep(n) ==
    \/ (InCall(n) /\ UNCHANGED <<config, fork, philVars, serverVars>>)
    \/ LockForks(n) \/ TakeWaits(n) \/ Take(n) \/ TakeReturns(n)
    \/ Release(n) \/ ReleaseNotifies(n) \/ ReleaseReturns(n)

-----------------------------------------------------------------------------
(* SemSync and SysMutexSync: a kernel object per fork.  The semaphores of  *)
(* async are handed on in the same way: they are fair.                     *)

InKernel == config \in {"semaphore", "sysmutex", "async"}

\* take(Forever) or lock(Forever): the object is free, or the thread pends.
KTake(n) ==
    /\ InKernel
    /\ at[n] = "take"
    /\ \/ /\ ~fork[TheFork(n)].in_use
          /\ fork' = [fork EXCEPT ![TheFork(n)] = InUse]
          /\ Taken(n)
       \/ /\ fork[TheFork(n)].in_use
          /\ Goes(n, "pended")
          /\ UNCHANGED fork
    /\ UNCHANGED <<mutexVars, config, serverVars>>

\* give or unlock: a thread that pends is handed the object and returns from
\* its take; with none the object is free.
KRelease(n) ==
    /\ InKernel
    /\ at[n] = "release"
    /\ LET f == TheFork(n)
           pended == {m \in Threads : at[m] = "pended" /\ TheFork(m) = f}
       IN  \/ /\ pended = {}
              /\ fork' = [fork EXCEPT ![f] = Free]
              /\ Released(n)
           \/ \E m \in pended :
              /\ at' = [at EXCEPT
                    ![n] = IF side[n] = 2 THEN "release" ELSE "think",
                    ![m] = IF side[m] = 1 THEN "take" ELSE "eat"]
              /\ side' = [side EXCEPT ![n] = 1, ![m] = 2]
              /\ UNCHANGED <<fork, meals>>
    /\ UNCHANGED <<mutexVars, config, serverVars>>

-----------------------------------------------------------------------------
(* ChannelSync and the server, channel_thread.                             *)

\* bounded(1); the other capacity is never reached.
Capacity == IF config = "bounded" THEN 1 ELSE 2 * NumPhil

InChannel == config \in {"bounded", "unbounded"}

\* command.send waits for room.
Send(n, op) ==
    /\ InChannel
    /\ Len(command) < Capacity
    /\ command' = Append(command, [op |-> op, fork |-> TheFork(n), reply |-> n])
    /\ UNCHANGED <<mutexVars, config, fork, reply, server, to>>

SendAcquire(n) == at[n] = "take" /\ Send(n, "acquire") /\ Goes(n, "await")

\* The reply to Acquire came: reply_recv.recv.
RecvReply(n) ==
    /\ at[n] = "await"
    /\ reply[n] > 0
    /\ reply' = [reply EXCEPT ![n] = @ - 1]
    /\ Taken(n)
    /\ UNCHANGED <<mutexVars, config, fork, command, server, to>>

\* Release has no reply.
SendRelease(n) == at[n] = "release" /\ Send(n, "release") /\ Released(n)

\* ChannelFork::acquire.  InUseWait becomes a panic.
AcquireFork(f, n) ==
    /\ fork' = [fork EXCEPT ![f] = CASE @ = Free -> InUse
                                     [] @ = InUse -> InUseWait(n)
                                     [] OTHER -> @]
    /\ server' = CASE fork[f] = Free -> "reply"
                   [] fork[f] = InUse -> "recv"
                   [] OTHER -> "panic"
    /\ to' = n

\* ChannelFork::release.  Free becomes a panic.
ReleaseFork(f) ==
    /\ fork' = [fork EXCEPT ![f] = IF @.waiter = {} THEN Free ELSE InUse]
    /\ server' = CASE fork[f] = Free -> "panic"
                   [] fork[f] = InUse -> "recv"
                   [] OTHER -> "reply"
    /\ to' = IF fork[f].waiter = {} THEN to
             ELSE CHOOSE n \in fork[f].waiter : TRUE

\* cq_recv.recv, and the match.
Recv ==
    /\ server = "recv"
    /\ command # <<>>
    /\ command' = Tail(command)
    /\ LET c == Head(command)
       IN  \/ c.op = "acquire" /\ AcquireFork(c.fork, c.reply)
           \/ c.op = "release" /\ ReleaseFork(c.fork)
    /\ UNCHANGED <<mutexVars, config, philVars, reply>>

\* reply.send, of acquire or of release.
Reply ==
    /\ server = "reply"
    /\ reply[to] < Capacity
    /\ reply' = [reply EXCEPT ![to] = @ + 1]
    /\ server' = "recv"
    /\ UNCHANGED <<mutexVars, config, fork, philVars, command, to>>

Server == Recv \/ Reply
SendStep(n) == SendAcquire(n) \/ SendRelease(n)

-----------------------------------------------------------------------------
\* A client that is no philosopher.
ClientStep(n) ==
    /\ config = "clients"
    /\ Call(n)
    /\ UNCHANGED <<config, fork, philVars, serverVars>>

PhilStep(n) ==
    \/ SleepEnds(n) \/ AsyncSleepEnds(n) \/ CondStep(n) \/ KTake(n) \/ KRelease(n)
    \/ SendStep(n) \/ RecvReply(n)

Next == Server \/ \E n \in Threads : PhilStep(n) \/ ClientStep(n)

Spec == Init /\ [][Next]_vars

\* Every thread that can run is scheduled: the threads have equal priorities
\* and both sleeps end.  Senders that wait for a full channel have equal
\* priorities too and are served in turn.
Fairness ==
    /\ WF_vars(Server)
    /\ \A n \in Threads : WF_vars(PhilStep(n)) /\ SF_vars(SendStep(n))

FairSpec == Spec /\ Fairness

-----------------------------------------------------------------------------
(* Properties.                                                             *)

\* Whether a call has taken the fork it is about, or not yet given it back.
Having == {"took", "eat", "release"}

\* The forks philosopher n has.
Has(n) ==
    (IF at[n] \in Having THEN {TheFork(n)} ELSE {})
        \cup (IF side[n] = 2 THEN {Forks(n)[1]} ELSE {})

\* No two philosophers have the same fork, and every fork that somebody has is
\* in use for the implementation as well; only the server may know of more,
\* while a reply or a release is on its way.  The server never panics.
ForksExclusive ==
    /\ \A m, n \in Threads : m # n => Has(m) \cap Has(n) = {}
    /\ \A n \in Threads : \A f \in Has(n) : fork[f].in_use
    /\ ~InChannel => \A f \in Threads :
          fork[f].in_use => \E n \in Threads : f \in Has(n)
    /\ server # "panic"

\* phil's acquire of DONE_SEM returns.
AllDone == \A n \in Threads : at[n] = "done" /\ meals[n] = EatCount

\* No wakeup is lost: a philosopher that waits on the condition variable, or
\* is about to, waits for a taken fork, unless its releaser still has the
\* mutex and has yet to notify.
NoLostWakeup ==
    \A n \in Threads :
        config = "condvar" /\ pc[n] \in {"pend", "waiting"} =>
            fork[TheFork(n)].in_use \/ \E m \in Threads : at[m] = "cleared"

\* "Per Dijkstra, the last philosopher needs to reverse forks, or we
\* deadlock": with the reversal, somebody eats again and again.  With every
\* implementation but the condition variable, whose waiters race for a
\* released fork, everybody who wants to eat eats: the fork goes to the one who
\* waits for it, never back to the one who had it, and server and philosophers
\* never wait for each other's channel.  The tasks of async, each of which eats
\* EatCount times, are all done at last: "Deadlock will result in the primary
\* thread not completing".
EatsAgain ==
    /\ []<>(\/ \E n \in Threads : at[n] \in {"eat", "client"}
            \/ AllDone)
    /\ \A n \in Threads :
          (at[n] = "take" /\ config # "condvar") ~> (at[n] = "eat")
=============================================================================
