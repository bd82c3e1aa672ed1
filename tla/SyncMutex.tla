------------------------------ MODULE SyncMutex ------------------------------
(***************************************************************************)
(* zephyr/src/sync/mutex.rs over zephyr/src/sys/sync/mutex.rs: Mutex with  *)
(* its guard, and Condvar.                                                 *)
(*                                                                         *)
(* A k_mutex may be locked again by its owner and counts how often; the    *)
(* flag `locked` is what keeps a thread from getting a second guard.  One  *)
(* label of pc per atomic step: a kernel call, or an access to the flag.   *)
(* k_mutex_unlock hands the mutex to one of the threads that wait for it.  *)
(***************************************************************************)
EXTENDS Integers

CONSTANTS Threads, None

ASSUME NoneAssumption == None \notin Threads

VARIABLES
    owner,   \* k_mutex: the thread that owns it, or None
    depth,   \* k_mutex: its lock count
    locked,  \* Mutex::locked
    guards,  \* how many usable MutexGuards each thread has
    pc       \* where each thread is in a call of Mutex or Condvar

mutexVars == <<owner, depth, locked, guards, pc>>

\* Mutex::new.
MutexInit ==
    /\ owner = None
    /\ depth = 0
    /\ locked = FALSE
    /\ guards = [t \in Threads |-> 0]
    /\ pc = [t \in Threads |-> "out"]

-----------------------------------------------------------------------------
(* The kernel: k_mutex_lock, k_mutex_unlock.                               *)

\* The threads pended on the k_mutex, and where each goes on with it.
Pended == {t \in Threads : pc[t] \in {"blocked", "relock"}}

Granted(label) == IF label = "blocked" THEN "swap" ELSE "store"

KMutexFree(t) == owner \in {None, t}

KMutexTake(t, label) ==
    /\ KMutexFree(t)
    /\ owner' = t
    /\ depth' = depth + 1
    /\ pc' = [pc EXCEPT ![t] = label]
    /\ UNCHANGED <<locked, guards>>

KMutexUnlock(t, label) ==
    /\ owner = t
    /\ \/ /\ depth > 1
          /\ depth' = depth - 1
          /\ pc' = [pc EXCEPT ![t] = label]
          /\ UNCHANGED owner
       \/ /\ depth = 1 /\ Pended = {}
          /\ owner' = None
          /\ depth' = 0
          /\ pc' = [pc EXCEPT ![t] = label]
       \/ /\ depth = 1
          /\ \E w \in Pended :
                /\ owner' = w
                /\ pc' = [pc EXCEPT ![t] = label, ![w] = Granted(@)]
          /\ UNCHANGED depth
    /\ UNCHANGED <<locked, guards>>

-----------------------------------------------------------------------------
(* Mutex::lock and Mutex::try_lock, by a thread with or without a guard.   *)

InCode(t) == pc[t] \in {"out", "held"}

Lock(t) ==
    /\ InCode(t)
    /\ KMutexTake(t, "swap")

LockBlocks(t) ==
    /\ InCode(t)
    /\ ~KMutexFree(t)
    /\ pc' = [pc EXCEPT ![t] = "blocked"]
    /\ UNCHANGED <<owner, depth, locked, guards>>

\* Mutant: the error of k_mutex_lock is ignored once the flag is set.
TryLockIgnoresError(t) ==
    /\ InCode(t)
    /\ \/ KMutexTake(t, "try_swap")
       \/ /\ ~KMutexFree(t) /\ locked
          /\ guards' = [guards EXCEPT ![t] = 1]
          /\ pc' = [pc EXCEPT ![t] = "held"]
          /\ UNCHANGED <<owner, depth, locked>>

\* try_lock of a mutex another thread owns returns WouldBlock at once.
TryLock(t) ==
    /\ InCode(t)
    /\ KMutexTake(t, "try_swap")

\* Mutant: a weak compare and exchange, which may fail for no reason.
SwapWeak(t, from, again) ==
    /\ pc[t] = from
    /\ \/ /\ pc' = [pc EXCEPT ![t] = again]
          /\ UNCHANGED <<locked, guards>>
       \/ /\ ~locked
          /\ locked' = TRUE
          /\ pc' = [pc EXCEPT ![t] = "held"]
          /\ guards' = [guards EXCEPT ![t] = @ + 1]
    /\ UNCHANGED <<owner, depth>>

\* locked.swap(true).
Swap(t, from, again) ==
    /\ pc[t] = from
    /\ locked' = TRUE
    /\ \/ /\ locked
          /\ pc' = [pc EXCEPT ![t] = again]
          /\ UNCHANGED guards
       \/ /\ ~locked
          /\ pc' = [pc EXCEPT ![t] = "held"]
          /\ guards' = [guards EXCEPT ![t] = @ + 1]
    /\ UNCHANGED <<owner, depth>>

\* lock unlocks the inner mutex again and panics.
LockPanics(t) ==
    /\ pc[t] = "undo"
    /\ KMutexUnlock(t, "panicked")

\* try_lock unlocks it and returns WouldBlock; the thread has its guard still.
TryLockFails(t) ==
    /\ pc[t] = "try_undo"
    /\ KMutexUnlock(t, "held")

\* MutexGuard::drop: the flag first, then the k_mutex.
DropGuard(t) ==
    /\ pc[t] = "held"
    /\ locked' = FALSE
    /\ guards' = [guards EXCEPT ![t] = @ - 1]
    /\ pc' = [pc EXCEPT ![t] = "unlock"]
    /\ UNCHANGED <<owner, depth>>

DropUnlock(t) ==
    /\ pc[t] = "unlock"
    /\ KMutexUnlock(t, "out")

-----------------------------------------------------------------------------
(* Condvar.  wait takes the guard, and gives it back when it returns.      *)

Waiting == {t \in Threads : pc[t] = "waiting"}

Wait(t) ==
    /\ pc[t] = "held"
    /\ locked' = FALSE
    /\ guards' = [guards EXCEPT ![t] = @ - 1]
    /\ pc' = [pc EXCEPT ![t] = "pend"]
    /\ UNCHANGED <<owner, depth>>

\* k_condvar_wait: the mutex is released and the thread pended in one step, as
\* both happen under the kernel's condition variable lock.
KCondvarWait(t) ==
    /\ pc[t] = "pend"
    /\ KMutexUnlock(t, "waiting")

\* k_condvar_wait locks the mutex again before it returns.
KCondvarRelock(t) ==
    /\ pc[t] = "woken"
    /\ KMutexTake(t, "store")

KCondvarRelockBlocks(t) ==
    /\ pc[t] = "woken"
    /\ ~KMutexFree(t)
    /\ pc' = [pc EXCEPT ![t] = "relock"]
    /\ UNCHANGED <<owner, depth, locked, guards>>

\* Mutant: wait does not set the flag again.
WaitReturnsUnflagged(t) ==
    /\ pc[t] = "store"
    /\ guards' = [guards EXCEPT ![t] = @ + 1]
    /\ pc' = [pc EXCEPT ![t] = "held"]
    /\ UNCHANGED <<owner, depth, locked>>

WaitReturns(t) ==
    /\ pc[t] = "store"
    /\ locked' = TRUE
    /\ guards' = [guards EXCEPT ![t] = @ + 1]
    /\ pc' = [pc EXCEPT ![t] = "held"]
    /\ UNCHANGED <<owner, depth>>

\* k_condvar_signal; without a waiting thread it does nothing.
NotifyOne(t) ==
    /\ InCode(t)
    /\ \E w \in Waiting : pc' = [pc EXCEPT ![w] = "woken"]
    /\ UNCHANGED <<owner, depth, locked, guards>>

\* k_condvar_broadcast.
NotifyAll(t) ==
    /\ InCode(t)
    /\ pc' = [w \in Threads |-> IF w \in Waiting THEN "woken" ELSE pc[w]]
    /\ UNCHANGED <<owner, depth, locked, guards>>

-----------------------------------------------------------------------------
\* What a thread inside a call does next.
InCall(t) ==
    \/ Swap(t, "swap", "undo") \/ Swap(t, "try_swap", "try_undo")
    \/ LockPanics(t) \/ TryLockFails(t) \/ DropUnlock(t)
    \/ KCondvarWait(t) \/ KCondvarRelock(t) \/ KCondvarRelockBlocks(t)
    \/ WaitReturns(t)

\* What a client may call.
Call(t) ==
    \/ Lock(t) \/ LockBlocks(t) \/ TryLock(t) \/ DropGuard(t) \/ Wait(t)
    \/ NotifyOne(t) \/ NotifyAll(t)

MutexNext == \E t \in Threads : InCall(t) \/ Call(t)

\* Any number of threads, each calling anything its guards allow.
MutexSpec == MutexInit /\ [][MutexNext]_mutexVars

-----------------------------------------------------------------------------
(* Properties.                                                             *)

ThreadPC == {"out", "blocked", "swap", "try_swap", "undo", "try_undo", "held",
             "unlock", "pend", "waiting", "woken", "relock",
             "store", "panicked"}

\* Every variable keeps its type.
MutexTypeOK ==
    /\ owner \in Threads \cup {None}
    /\ depth \in 0..2
    /\ locked \in BOOLEAN
    /\ guards \in [Threads -> {0, 1}]
    /\ pc \in [Threads -> ThreadPC]

\* "Upon returning, the thread is the only thread with the lock held", and
\* never are there two MutexGuards, not even of one thread: each gives
\* mutable access to the data.
OneGuard ==
    \A t, u \in Threads :
        guards[t] > 0 /\ guards[u] > 0 => t = u /\ guards[t] = 1

\* The flag is set exactly while there is a guard.  So neither a guard's drop
\* nor a wait ever clears the flag of a later owner, and none leaves it set.
FlagMeansGuard == locked <=> \E t \in Threads : guards[t] > 0

\* lock panics and try_lock gives up on the flag only in a thread that has
\* the guard itself, never because of what another thread is doing.
OnlyReentryFails ==
    \A t \in Threads :
        pc[t] \in {"undo", "try_undo", "panicked"} => guards[t] = 1

\* The labels where the thread has the k_mutex once more than its guard needs.
Nested == {"swap", "try_swap", "undo", "try_undo"}

\* Where a thread without a guard owns the k_mutex all the same.
OwnsUnguarded == {"swap", "try_swap", "unlock", "pend", "store"}

\* Every k_mutex_lock is matched by one k_mutex_unlock: the unwrap and the
\* panic on the result of unlock never fire, a refused lock gives its count
\* back, and the mutex is free when no thread is about to release it.
UnlocksBalance ==
    /\ \A t \in Threads :
          owner = t <=> guards[t] = 1 \/ pc[t] \in OwnsUnguarded
    /\ \A t \in Threads :
          owner = t => depth = IF guards[t] = 1 /\ pc[t] \in Nested
                               THEN 2 ELSE 1
    /\ owner = None => depth = 0 /\ Pended = {}
=============================================================================
