--------------------------- MODULE Samples_proofs ---------------------------
(***************************************************************************)
(* Proofs about SyncMutex, for any set of threads, about Philosophers, its *)
(* client, for any number of philosophers, and about Bench, the other      *)
(* sample that has its threads wait for each other, for any number of      *)
(* workers and iterations.                                                 *)
(*                                                                         *)
(* The flag and the k_mutex are changed in different steps; what ties them *)
(* together is where each thread is in its call, which is what GuardInv    *)
(* adds.  A fork's owner is told from where the philosophers are and, with *)
(* the channel server, from the messages under way: see Owns.  In Bench    *)
(* what a semaphore holds is told from how far each member of the group    *)
(* is in its program: see SemInv.                                          *)
(***************************************************************************)
EXTENDS Philosophers, Bench, SequenceTheorems, FunctionTheorems,
        FiniteSetTheorems, TLAPS

\* What a thread's pc says about its guard.
GuardInv ==
    \A t \in Threads :
        /\ pc[t] \in {"out", "blocked", "unlock", "pend", "waiting", "woken",
                     "relock", "store"} => guards[t] = 0
        /\ pc[t] \in {"held", "undo", "try_undo", "panicked"} => guards[t] = 1

IInv == MutexTypeOK /\ GuardInv /\ FlagMeansGuard /\ UnlocksBalance

\* The invariant holds for a new mutex.
LEMMA InitIInv == MutexInit => IInv
<1> SUFFICES ASSUME MutexInit PROVE IInv
  OBVIOUS
<1>1. MutexTypeOK
  <2>1. locked \in BOOLEAN
    BY DEF MutexInit
  <2>2. owner \in Threads \cup {None} /\ depth \in 0..2
    BY DEF MutexInit
  <2>3. guards \in [Threads -> {0, 1}] /\ pc \in [Threads -> ThreadPC]
    BY DEF MutexInit, ThreadPC
  <2>4. QED
    BY <2>1, <2>2, <2>3 DEF MutexTypeOK
<1>2. GuardInv /\ FlagMeansGuard
  BY DEF MutexInit, GuardInv, FlagMeansGuard
<1>3. UnlocksBalance
  BY NoneAssumption
     DEF MutexInit, UnlocksBalance, Nested, OwnsUnguarded, Pended
<1>4. QED
  BY <1>1, <1>2, <1>3 DEF IInv

-----------------------------------------------------------------------------
(* k_mutex_unlock, from a label where the thread owns the mutex.           *)

\* How an unlock moves the k_mutex: back to its owner's outer lock, to one of
\* the waiting threads, or to nobody.
LEMMA UnlockMoves ==
    ASSUME IInv, NEW t \in Threads, NEW label \in ThreadPC,
           KMutexUnlock(t, label), pc[t] \notin {"blocked", "relock"}
    PROVE  /\ owner = t
           /\ UNCHANGED <<locked, guards>>
           /\ \/ /\ depth = 2 /\ depth' = 1 /\ owner' = t
                 /\ pc' = [pc EXCEPT ![t] = label]
              \/ /\ depth = 1 /\ depth' = 0 /\ owner' = None /\ Pended = {}
                 /\ pc' = [pc EXCEPT ![t] = label]
              \/ /\ depth = 1 /\ depth' = 1
                 /\ \E w \in Threads :
                       /\ w # t
                       /\ owner' = w
                       /\ \/ /\ pc[w] = "blocked"
                             /\ pc' = [pc EXCEPT ![t] = label, ![w] = "swap"]
                          \/ /\ pc[w] = "relock"
                             /\ pc' = [pc EXCEPT ![t] = label, ![w] = "store"]
BY DEF IInv, MutexTypeOK, ThreadPC, KMutexUnlock, Pended, Granted

-----------------------------------------------------------------------------
(* One lemma per action.                                                   *)

\* lock or a re-entrant lock gets the k_mutex.
LEMMA LockStep ==
    ASSUME IInv, NEW t \in Threads, Lock(t)
    PROVE  IInv'
<1>1. MutexTypeOK'
  BY DEF Lock, KMutexTake, KMutexFree, InCode, IInv, MutexTypeOK, ThreadPC,
     GuardInv, UnlocksBalance, Nested
<1>2. GuardInv'
  BY DEF Lock, KMutexTake, KMutexFree, InCode, IInv, MutexTypeOK, GuardInv
<1>3. FlagMeansGuard'
  BY DEF Lock, KMutexTake, KMutexFree, InCode, IInv, MutexTypeOK, GuardInv,
     FlagMeansGuard
<1>4. UnlocksBalance'
  BY NoneAssumption
     DEF Lock, KMutexTake, KMutexFree, InCode, IInv, MutexTypeOK, GuardInv,
     UnlocksBalance, Nested, OwnsUnguarded, Pended
<1>5. QED
  BY <1>1, <1>2, <1>3, <1>4 DEF IInv

\* lock of a mutex another thread owns.
LEMMA LockBlocksStep ==
    ASSUME IInv, NEW t \in Threads, LockBlocks(t)
    PROVE  IInv'
<1>1. MutexTypeOK'
  BY DEF LockBlocks, KMutexFree, InCode, IInv, MutexTypeOK, ThreadPC,
     GuardInv, UnlocksBalance, Nested
<1>2. GuardInv'
  BY DEF LockBlocks, KMutexFree, InCode, IInv, MutexTypeOK, GuardInv,
     UnlocksBalance
<1>3. FlagMeansGuard'
  BY DEF LockBlocks, KMutexFree, InCode, IInv, MutexTypeOK, GuardInv,
     FlagMeansGuard
<1>4. UnlocksBalance'
  BY NoneAssumption
     DEF LockBlocks, KMutexFree, InCode, IInv, MutexTypeOK, GuardInv,
     UnlocksBalance, Nested, OwnsUnguarded, Pended
<1>5. QED
  BY <1>1, <1>2, <1>3, <1>4 DEF IInv

\* try_lock gets the k_mutex.
LEMMA TryLockStep ==
    ASSUME IInv, NEW t \in Threads, TryLock(t)
    PROVE  IInv'
<1>1. MutexTypeOK'
  BY DEF TryLock, KMutexTake, KMutexFree, InCode, IInv, MutexTypeOK,
     ThreadPC, GuardInv, UnlocksBalance, Nested
<1>2. GuardInv'
  BY DEF TryLock, KMutexTake, KMutexFree, InCode, IInv, MutexTypeOK, GuardInv
<1>3. FlagMeansGuard'
  BY DEF TryLock, KMutexTake, KMutexFree, InCode, IInv, MutexTypeOK,
     GuardInv, FlagMeansGuard
<1>4. UnlocksBalance'
  BY NoneAssumption
     DEF TryLock, KMutexTake, KMutexFree, InCode, IInv, MutexTypeOK,
     GuardInv, UnlocksBalance, Nested, OwnsUnguarded, Pended
<1>5. QED
  BY <1>1, <1>2, <1>3, <1>4 DEF IInv

\* The flag is cleared while the k_mutex is still owned.
LEMMA DropGuardStep ==
    ASSUME IInv, NEW t \in Threads, DropGuard(t)
    PROVE  IInv'
<1>1. MutexTypeOK'
  <2>1. locked' \in BOOLEAN
    BY DEF DropGuard
  <2>2. owner' \in Threads \cup {None} /\ depth' \in 0..2
    BY DEF DropGuard, IInv, MutexTypeOK
  <2>3. guards' \in [Threads -> {0, 1}] /\ pc' \in [Threads -> ThreadPC]
    BY DEF DropGuard, IInv, MutexTypeOK, ThreadPC, GuardInv, UnlocksBalance,
       Nested
  <2>4. QED
    BY <2>1, <2>2, <2>3 DEF MutexTypeOK
<1>2. GuardInv'
  BY DEF DropGuard, IInv, MutexTypeOK, GuardInv
<1>3. FlagMeansGuard'
  BY DEF DropGuard, IInv, MutexTypeOK, GuardInv, FlagMeansGuard,
     UnlocksBalance
<1>4. UnlocksBalance'
  BY NoneAssumption
     DEF DropGuard, IInv, MutexTypeOK, GuardInv, UnlocksBalance, Nested,
     OwnsUnguarded, Pended
<1>5. QED
  BY <1>1, <1>2, <1>3, <1>4 DEF IInv

\* wait clears the flag as a guard's drop does.
LEMMA WaitStep ==
    ASSUME IInv, NEW t \in Threads, Wait(t)
    PROVE  IInv'
<1>1. MutexTypeOK'
  <2>1. locked' \in BOOLEAN
    BY DEF Wait
  <2>2. owner' \in Threads \cup {None} /\ depth' \in 0..2
    BY DEF Wait, IInv, MutexTypeOK
  <2>3. guards' \in [Threads -> {0, 1}] /\ pc' \in [Threads -> ThreadPC]
    BY DEF Wait, IInv, MutexTypeOK, ThreadPC, GuardInv, UnlocksBalance, Nested
  <2>4. QED
    BY <2>1, <2>2, <2>3 DEF MutexTypeOK
<1>2. GuardInv'
  BY DEF Wait, IInv, MutexTypeOK, GuardInv
<1>3. FlagMeansGuard'
  BY DEF Wait, IInv, MutexTypeOK, GuardInv, FlagMeansGuard, UnlocksBalance
<1>4. UnlocksBalance'
  BY NoneAssumption
     DEF Wait, IInv, MutexTypeOK, GuardInv, UnlocksBalance, Nested,
     OwnsUnguarded, Pended
<1>5. QED
  BY <1>1, <1>2, <1>3, <1>4 DEF IInv

\* Waking a thread gives it nothing yet.
LEMMA NotifyOneStep ==
    ASSUME IInv, NEW t \in Threads, NotifyOne(t)
    PROVE  IInv'
<1>1. MutexTypeOK'
  BY DEF NotifyOne, Waiting, InCode, IInv, MutexTypeOK, ThreadPC, GuardInv,
     UnlocksBalance, Nested
<1>2. GuardInv'
  BY DEF NotifyOne, Waiting, InCode, IInv, MutexTypeOK, GuardInv
<1>3. FlagMeansGuard'
  BY DEF NotifyOne, Waiting, InCode, IInv, MutexTypeOK, GuardInv,
     FlagMeansGuard
<1>4. UnlocksBalance'
  BY NoneAssumption
     DEF NotifyOne, Waiting, InCode, IInv, MutexTypeOK, GuardInv,
     UnlocksBalance, Nested, OwnsUnguarded, Pended
<1>5. QED
  BY <1>1, <1>2, <1>3, <1>4 DEF IInv

\* Nor does waking all of them.
LEMMA NotifyAllStep ==
    ASSUME IInv, NEW t \in Threads, NotifyAll(t)
    PROVE  IInv'
<1>1. MutexTypeOK'
  BY DEF NotifyAll, Waiting, InCode, IInv, MutexTypeOK, ThreadPC, GuardInv,
     UnlocksBalance, Nested
<1>2. GuardInv'
  BY DEF NotifyAll, Waiting, InCode, IInv, MutexTypeOK, GuardInv
<1>3. FlagMeansGuard'
  BY DEF NotifyAll, Waiting, InCode, IInv, MutexTypeOK, GuardInv,
     FlagMeansGuard
<1>4. UnlocksBalance'
  BY NoneAssumption
     DEF NotifyAll, Waiting, InCode, IInv, MutexTypeOK, GuardInv,
     UnlocksBalance, Nested, OwnsUnguarded, Pended
<1>5. QED
  BY <1>1, <1>2, <1>3, <1>4 DEF IInv

\* A refused lock gives back its count, and only that.
LEMMA LockPanicsStep ==
    ASSUME IInv, NEW t \in Threads, LockPanics(t)
    PROVE  IInv'
<1>1. /\ KMutexUnlock(t, "panicked") /\ "panicked" \in ThreadPC
      /\ pc[t] \notin {"blocked", "relock"}
  BY DEF LockPanics, ThreadPC
<1>2. MutexTypeOK'
  BY <1>1, UnlockMoves
     DEF LockPanics, IInv, MutexTypeOK, ThreadPC, GuardInv, UnlocksBalance,
     Nested
<1>3. GuardInv'
  BY <1>1, UnlockMoves DEF LockPanics, IInv, MutexTypeOK, GuardInv
<1>4. FlagMeansGuard'
  BY <1>1, UnlockMoves
     DEF LockPanics, IInv, MutexTypeOK, GuardInv, FlagMeansGuard
<1>5. UnlocksBalance'
  BY <1>1, UnlockMoves, NoneAssumption
     DEF LockPanics, IInv, MutexTypeOK, GuardInv, UnlocksBalance, Nested,
     OwnsUnguarded, Pended
<1>6. QED
  BY <1>2, <1>3, <1>4, <1>5 DEF IInv

\* So does a refused try_lock.
LEMMA TryLockFailsStep ==
    ASSUME IInv, NEW t \in Threads, TryLockFails(t)
    PROVE  IInv'
<1>1. /\ KMutexUnlock(t, "held") /\ "held" \in ThreadPC
      /\ pc[t] \notin {"blocked", "relock"}
  BY DEF TryLockFails, ThreadPC
<1>2. MutexTypeOK'
  BY <1>1, UnlockMoves
     DEF TryLockFails, IInv, MutexTypeOK, ThreadPC, GuardInv,
     UnlocksBalance, Nested
<1>3. GuardInv'
  BY <1>1, UnlockMoves DEF TryLockFails, IInv, MutexTypeOK, GuardInv
<1>4. FlagMeansGuard'
  BY <1>1, UnlockMoves
     DEF TryLockFails, IInv, MutexTypeOK, GuardInv, FlagMeansGuard
<1>5. UnlocksBalance'
  BY <1>1, UnlockMoves, NoneAssumption
     DEF TryLockFails, IInv, MutexTypeOK, GuardInv, UnlocksBalance, Nested,
     OwnsUnguarded, Pended
<1>6. QED
  BY <1>2, <1>3, <1>4, <1>5 DEF IInv

\* The k_mutex goes to a waiting thread, or is free.
LEMMA DropUnlockStep ==
    ASSUME IInv, NEW t \in Threads, DropUnlock(t)
    PROVE  IInv'
<1>1. /\ KMutexUnlock(t, "out") /\ "out" \in ThreadPC
      /\ pc[t] \notin {"blocked", "relock"}
  BY DEF DropUnlock, ThreadPC
<1>2. MutexTypeOK'
  BY <1>1, UnlockMoves
     DEF DropUnlock, IInv, MutexTypeOK, ThreadPC, GuardInv, UnlocksBalance,
     Nested
<1>3. GuardInv'
  BY <1>1, UnlockMoves DEF DropUnlock, IInv, MutexTypeOK, GuardInv
<1>4. FlagMeansGuard'
  BY <1>1, UnlockMoves
     DEF DropUnlock, IInv, MutexTypeOK, GuardInv, FlagMeansGuard
<1>5. UnlocksBalance'
  BY <1>1, UnlockMoves, NoneAssumption
     DEF DropUnlock, IInv, MutexTypeOK, GuardInv, UnlocksBalance, Nested,
     OwnsUnguarded, Pended
<1>6. QED
  BY <1>2, <1>3, <1>4, <1>5 DEF IInv

\* So it does in k_condvar_wait.
LEMMA KCondvarWaitStep ==
    ASSUME IInv, NEW t \in Threads, KCondvarWait(t)
    PROVE  IInv'
<1>1. /\ KMutexUnlock(t, "waiting") /\ "waiting" \in ThreadPC
      /\ pc[t] \notin {"blocked", "relock"}
  BY DEF KCondvarWait, ThreadPC
<1>2. MutexTypeOK'
  BY <1>1, UnlockMoves
     DEF KCondvarWait, IInv, MutexTypeOK, ThreadPC, GuardInv,
     UnlocksBalance, Nested
<1>3. GuardInv'
  BY <1>1, UnlockMoves DEF KCondvarWait, IInv, MutexTypeOK, GuardInv
<1>4. FlagMeansGuard'
  BY <1>1, UnlockMoves
     DEF KCondvarWait, IInv, MutexTypeOK, GuardInv, FlagMeansGuard
<1>5. UnlocksBalance'
  BY <1>1, UnlockMoves, NoneAssumption
     DEF KCondvarWait, IInv, MutexTypeOK, GuardInv, UnlocksBalance, Nested,
     OwnsUnguarded, Pended
<1>6. QED
  BY <1>2, <1>3, <1>4, <1>5 DEF IInv

\* A woken thread gets the k_mutex.
LEMMA KCondvarRelockStep ==
    ASSUME IInv, NEW t \in Threads, KCondvarRelock(t)
    PROVE  IInv'
<1>1. MutexTypeOK'
  BY DEF KCondvarRelock, KMutexTake, KMutexFree, IInv, MutexTypeOK,
     ThreadPC, GuardInv, UnlocksBalance, Nested
<1>2. GuardInv'
  BY DEF KCondvarRelock, KMutexTake, KMutexFree, IInv, MutexTypeOK, GuardInv
<1>3. FlagMeansGuard'
  BY DEF KCondvarRelock, KMutexTake, KMutexFree, IInv, MutexTypeOK,
     GuardInv, FlagMeansGuard
<1>4. UnlocksBalance'
  BY NoneAssumption
     DEF KCondvarRelock, KMutexTake, KMutexFree, IInv, MutexTypeOK,
     GuardInv, UnlocksBalance, Nested, OwnsUnguarded, Pended
<1>5. QED
  BY <1>1, <1>2, <1>3, <1>4 DEF IInv

\* A woken thread that has to wait for the k_mutex.
LEMMA KCondvarRelockBlocksStep ==
    ASSUME IInv, NEW t \in Threads, KCondvarRelockBlocks(t)
    PROVE  IInv'
<1>1. MutexTypeOK'
  BY DEF KCondvarRelockBlocks, KMutexFree, IInv, MutexTypeOK, ThreadPC,
     GuardInv, UnlocksBalance, Nested
<1>2. GuardInv'
  BY DEF KCondvarRelockBlocks, KMutexFree, IInv, MutexTypeOK, GuardInv
<1>3. FlagMeansGuard'
  BY DEF KCondvarRelockBlocks, KMutexFree, IInv, MutexTypeOK, GuardInv,
     FlagMeansGuard
<1>4. UnlocksBalance'
  BY NoneAssumption
     DEF KCondvarRelockBlocks, KMutexFree, IInv, MutexTypeOK, GuardInv,
     UnlocksBalance, Nested, OwnsUnguarded, Pended
<1>5. QED
  BY <1>1, <1>2, <1>3, <1>4 DEF IInv

\* The flag is set again by the thread that owns the k_mutex.
LEMMA WaitReturnsStep ==
    ASSUME IInv, NEW t \in Threads, WaitReturns(t)
    PROVE  IInv'
<1>1. MutexTypeOK'
  <2>1. locked' \in BOOLEAN
    BY DEF WaitReturns
  <2>2. owner' \in Threads \cup {None} /\ depth' \in 0..2
    BY DEF WaitReturns, IInv, MutexTypeOK
  <2>3. guards' \in [Threads -> {0, 1}] /\ pc' \in [Threads -> ThreadPC]
    BY DEF WaitReturns, IInv, MutexTypeOK, ThreadPC, GuardInv,
       UnlocksBalance, Nested
  <2>4. QED
    BY <2>1, <2>2, <2>3 DEF MutexTypeOK
<1>2. GuardInv'
  BY DEF WaitReturns, IInv, MutexTypeOK, GuardInv
<1>3. FlagMeansGuard'
  BY DEF WaitReturns, IInv, MutexTypeOK, GuardInv, FlagMeansGuard
<1>4. UnlocksBalance'
  BY NoneAssumption
     DEF WaitReturns, IInv, MutexTypeOK, GuardInv, UnlocksBalance, Nested,
     OwnsUnguarded, Pended
<1>5. QED
  BY <1>1, <1>2, <1>3, <1>4 DEF IInv

\* The flag decides: set, it is this thread's own guard; clear, nobody has one.
LEMMA SwapStep ==
    ASSUME IInv, NEW t \in Threads,
           \/ Swap(t, "swap", "undo")
           \/ Swap(t, "try_swap", "try_undo")
    PROVE  IInv'
<1>1. MutexTypeOK'
  <2>1. locked' \in BOOLEAN
    BY DEF Swap
  <2>2. owner' \in Threads \cup {None} /\ depth' \in 0..2
    BY DEF Swap, IInv, MutexTypeOK
  <2>3. guards' \in [Threads -> {0, 1}] /\ pc' \in [Threads -> ThreadPC]
    BY DEF Swap, IInv, MutexTypeOK, ThreadPC, GuardInv, UnlocksBalance,
       Nested, FlagMeansGuard, OwnsUnguarded
  <2>4. QED
    BY <2>1, <2>2, <2>3 DEF MutexTypeOK
<1>2. GuardInv'
  BY DEF Swap, IInv, MutexTypeOK, GuardInv, FlagMeansGuard, UnlocksBalance,
     OwnsUnguarded
<1>3. FlagMeansGuard'
  BY DEF Swap, IInv, MutexTypeOK, GuardInv, FlagMeansGuard, UnlocksBalance
<1>4. UnlocksBalance'
  BY NoneAssumption
     DEF Swap, IInv, MutexTypeOK, GuardInv, UnlocksBalance, Nested,
     OwnsUnguarded, Pended, FlagMeansGuard
<1>5. QED
  BY <1>1, <1>2, <1>3, <1>4 DEF IInv

-----------------------------------------------------------------------------
\* Every step of the mutex preserves its invariant.
LEMMA NextIInv == IInv /\ [MutexNext]_mutexVars => IInv'
<1> SUFFICES ASSUME IInv, [MutexNext]_mutexVars PROVE IInv'
  OBVIOUS
<1>1. CASE UNCHANGED mutexVars
  BY <1>1
     DEF mutexVars, IInv, GuardInv, MutexTypeOK, ThreadPC, FlagMeansGuard,
     UnlocksBalance, Nested, OwnsUnguarded, Pended
<1>2. ASSUME NEW t \in Threads, Call(t) PROVE IInv'
  BY <1>2, LockStep, LockBlocksStep, TryLockStep, DropGuardStep, WaitStep,
     NotifyOneStep, NotifyAllStep DEF Call
<1>3. ASSUME NEW t \in Threads, InCall(t) PROVE IInv'
  BY <1>3, SwapStep, LockPanicsStep, TryLockFailsStep, DropUnlockStep,
     KCondvarWaitStep, KCondvarRelockStep, KCondvarRelockBlocksStep,
     WaitReturnsStep DEF InCall
<1>4. QED
  BY <1>1, <1>2, <1>3 DEF MutexNext

\* The inductive invariant holds in every behaviour of the mutex's clients.
THEOREM InductiveInvariant == MutexSpec => []IInv
BY InitIInv, NextIInv, PTL DEF MutexSpec

\* Type correctness: the lock count of the k_mutex never exceeds two, and no
\* thread has more than one guard.
THEOREM TypeCorrect == MutexSpec => []MutexTypeOK
<1>1. IInv => MutexTypeOK
  BY DEF IInv
<1>2. QED
  BY <1>1, InductiveInvariant, PTL

\* lock, try_lock and wait never give out a second guard while one exists.
THEOREM MutualExclusion == MutexSpec => []OneGuard
<1>1. IInv => OneGuard
  BY DEF IInv, MutexTypeOK, UnlocksBalance, OneGuard
<1>2. QED
  BY <1>1, InductiveInvariant, PTL

\* The flag beside the k_mutex is set exactly while there is a guard.
THEOREM FlagCorrect == MutexSpec => []FlagMeansGuard
<1>1. IInv => FlagMeansGuard
  BY DEF IInv
<1>2. QED
  BY <1>1, InductiveInvariant, PTL

\* lock panics, and try_lock is refused by the flag, only on re-entry.
THEOREM NoSpuriousFailure == MutexSpec => []OnlyReentryFails
<1>1. IInv => OnlyReentryFails
  BY DEF IInv, GuardInv, OnlyReentryFails
<1>2. QED
  BY <1>1, InductiveInvariant, PTL

\* Every k_mutex_lock of the wrappers is matched by one k_mutex_unlock.
THEOREM BalancedLocks == MutexSpec => []UnlocksBalance
<1>1. IInv => UnlocksBalance
  BY DEF IInv
<1>2. QED
  BY <1>1, InductiveInvariant, PTL

-----------------------------------------------------------------------------
(* Philosophers: the inductive invariant.                                  *)

PhilPC == {"take", "took", "eat", "release", "cleared", "notified", "think",
           "pended", "await", "done", "client"}

\* Where a philosopher is in its loop, and in which configuration.
PhilInv ==
    /\ config \in Configs
    /\ at \in [Threads -> PhilPC]
    /\ side \in [Threads -> {1, 2}]
    /\ \A n \in Threads :
          /\ at[n] = "client" <=> config = "clients"
          /\ at[n] = "pended" => InKernel
          /\ at[n] = "await" => InChannel
          /\ at[n] = "eat" => side[n] = 2
          /\ at[n] \in {"think", "done", "client"} => side[n] = 1

\* Where it is in a call of the mutex or the condition variable.
CondInv ==
    \A n \in Threads :
        /\ pc[n] # "out" => config \in {"condvar", "clients"}
        /\ at[n] \in {"took", "cleared", "notified"} =>
              config = "condvar" /\ pc[n] = "held"
        /\ config = "condvar"
           /\ pc[n] \in {"pend", "waiting", "woken", "relock", "store"}
              => at[n] = "take"

ForkState == {Free, InUse} \cup {InUseWait(n) : n \in Threads}

Command == [op : {"acquire", "release"}, fork : Threads, reply : Threads]

ServerInv ==
    /\ fork \in [Threads -> ForkState]
    /\ command \in Seq(Command)
    /\ reply \in [Threads -> {0, 1}]
    /\ server \in {"recv", "reply"}
    /\ to \in Threads
    /\ ~InChannel => /\ command = <<>>
                     /\ server = "recv"
                     /\ \A n \in Threads : reply[n] = 0
                     /\ \A f \in Threads : fork[f] \in {Free, InUse}

\* The answer to philosopher n's Acquire is in its channel or being sent.
Answered(n) == reply[n] = 1 \/ (server = "reply" /\ to = n)

\* Philosopher n has nothing in the command channel.
Silent(n) == \A i \in 1..Len(command) : command[i].reply # n

Releasing(n, f) ==
    \E i \in 1..Len(command) : command[i] = [op |-> "release", fork |-> f, reply |-> n]

\* An Acquire is the last message of its philosopher, and nobody has dealt with
\* it.  A Release is of a fork its sender has no more, and is the only one.
AcquireInv(i, n, f) ==
    /\ at[n] = "await" /\ f = TheFork(n)
    /\ ~Answered(n) /\ fork[f] # InUseWait(n)
    /\ \A j \in 1..Len(command) : command[j].reply = n => j <= i

ReleaseInv(i, n, f) ==
    /\ f \in {Forks(n)[1], Forks(n)[2]} \ Has(n)
    /\ \A j \in 1..Len(command) :
          command[j].op = "release" /\ command[j].fork = f => j = i

CommandInv ==
    \A i \in 1..Len(command), n, f \in Threads :
        command[i].reply = n /\ command[i].fork = f
            => /\ command[i].op = "acquire" => AcquireInv(i, n, f)
               /\ command[i].op = "release" => ReleaseInv(i, n, f)

\* What became of an Acquire that the server has read.
AnswerInv ==
    \A n \in Threads :
        /\ Answered(n) => at[n] = "await" /\ Silent(n)
        /\ reply[n] = 1 => ~(server = "reply" /\ to = n)
        /\ \A f \in Threads : fork[f] = InUseWait(n)
              => at[n] = "await" /\ f = TheFork(n) /\ Silent(n) /\ ~Answered(n)

\* A fork belongs to a philosopher from the server's answer to the server's
\* reading of the release.
Owns(n, f) ==
    \/ f \in Has(n)
    \/ at[n] = "await" /\ Answered(n) /\ TheFork(n) = f
    \/ Releasing(n, f)

OwnInv ==
    \A f \in Threads :
        /\ \A m, n \in Threads : Owns(m, f) /\ Owns(n, f) => m = n
        /\ fork[f] # Free <=> \E n \in Threads : Owns(n, f)

ForksInv == PhilInv /\ CondInv /\ ServerInv /\ CommandInv /\ AnswerInv /\ OwnInv

\* The two forks of a philosopher are different.
LEMMA TwoForks ==
    ASSUME NEW n \in Threads
    PROVE  /\ Forks(n)[1] \in Threads /\ Forks(n)[2] \in Threads
           /\ Forks(n)[1] # Forks(n)[2]
BY PhilAssumption DEF Forks

\* No fork has three users.
LEMMA TwoUsers ==
    ASSUME NEW f \in Threads, NEW a \in Threads, NEW b \in Threads, NEW c \in Threads,
           \A n \in {a, b, c} : f \in {Forks(n)[1], Forks(n)[2]}
    PROVE  a = b \/ b = c \/ a = c
<1>1. \A n \in {a, b, c} : f = n \/ f = n + 1 \/ (n = NumPhil - 1 /\ f = 0)
  BY PhilAssumption DEF Forks
<1>2. \A n \in {a, b, c} : n = NumPhil - 1 => f \in {0, n}
  BY PhilAssumption DEF Forks
<1> QED BY <1>1, <1>2, PhilAssumption

\* The states of a fork are different, and tell whether it is in use.
LEMMA ForkStates ==
    /\ Free # InUse
    /\ \A n : InUseWait(n) # Free /\ InUseWait(n) # InUse
    /\ \A m, n : InUseWait(m) = InUseWait(n) => m = n
    /\ Free.waiter = {} /\ InUse.waiter = {} /\ \A n : InUseWait(n).waiter = {n}
    /\ \A s \in ForkState : s.in_use <=> s # Free
<1>1. Free.waiter = {} /\ InUse.waiter = {} /\ \A n : InUseWait(n).waiter = {n}
  BY DEF Free, InUse, InUseWait
<1>2. Free.in_use = FALSE /\ InUse.in_use = TRUE /\ \A n : InUseWait(n).in_use = TRUE
  BY DEF Free, InUse, InUseWait
<1>3. Free # InUse /\ \A n : InUseWait(n) # Free
  BY <1>2
<1>4. /\ \A n : InUseWait(n) # InUse
      /\ \A m, n : InUseWait(m) = InUseWait(n) => m = n
  BY <1>1
<1>5. \A s \in ForkState : s.in_use <=> s # Free
  BY <1>2, <1>3, Zenon DEF ForkState
<1> QED BY <1>1, <1>3, <1>4, <1>5

\* The fields of a message in the command channel.
LEMMA ForkCommands ==
    ASSUME ServerInv, NEW i \in 1..Len(command)
    PROVE  /\ command[i] \in Command
           /\ command[i].op \in {"acquire", "release"}
           /\ command[i].fork \in Threads
           /\ command[i].reply \in Threads
<1>1. command[i] \in Command
  BY ElementOfSeq DEF ServerInv
<1> QED BY <1>1 DEF Command

\* When a philosopher has a fork.
LEMMA HasFork ==
    ASSUME NEW n \in Threads
    PROVE  \A f : f \in Has(n) <=> \/ at[n] \in Having /\ f = TheFork(n)
                                   \/ side[n] = 2 /\ f = Forks(n)[1]
BY DEF Has

\* Away from the server a philosopher owns the forks it has.
LEMMA OwnsLocally ==
    ASSUME ServerInv, PhilInv, ~InChannel
    PROVE  \A n \in Threads : \A f : Owns(n, f) <=> f \in Has(n)
<1>1. Len(command) = 0
  BY DEF ServerInv
<1>2. \A n \in Threads : at[n] # "await"
  BY DEF PhilInv
<1> QED BY <1>1, <1>2 DEF Owns, Releasing

\* Without the server nothing but the forks and who has them matters.
LEMMA LocalStep ==
    ASSUME ForksInv, PhilInv', CondInv', ~InChannel, config' = config,
           UNCHANGED serverVars,
           fork' \in [Threads -> {Free, InUse}],
           \A f \in Threads :
              /\ \A m, n \in Threads : f \in Has(m)' /\ f \in Has(n)' => m = n
              /\ fork'[f] # Free <=> \E n \in Threads : f \in Has(n)'
    PROVE  ForksInv'
<1>1. ~InChannel'
  BY DEF InChannel
<1>2. ServerInv'
  BY <1>1 DEF ForksInv, ServerInv, serverVars, ForkState
<1>3. Len(command') = 0
  BY <1>1, <1>2 DEF ServerInv
<1>4. \A n \in Threads : at'[n] # "await"
  BY <1>1 DEF PhilInv
<1>5. \A n \in Threads : \A f : Owns(n, f)' <=> f \in Has(n)'
  BY <1>3, <1>4 DEF Owns, Releasing
<1>6. OwnInv'
  BY <1>5 DEF OwnInv
<1>7. CommandInv'
  BY <1>3 DEF CommandInv
<1>8. AnswerInv'
  BY <1>1, <1>2, ForkStates DEF AnswerInv, ServerInv, Answered
<1> QED BY <1>2, <1>6, <1>7, <1>8 DEF ForksInv

\* A step that changes no fork and gives none to anybody.
LEMMA SameForks ==
    ASSUME ForksInv, PhilInv', CondInv', config' = config,
           UNCHANGED <<fork, serverVars>>,
           \A n \in Threads : Has(n)' = Has(n),
           \/ ~InChannel
           \/ \A n \in Threads : /\ at'[n] = "await" <=> at[n] = "await"
                                 /\ side'[n] = side[n]
    PROVE  ForksInv'
<1>1. CASE ~InChannel
  <2>1. fork' \in [Threads -> {Free, InUse}]
    BY <1>1 DEF ForksInv, ServerInv
  <2>2. \A n \in Threads : \A f : Owns(n, f) <=> f \in Has(n)
    BY <1>1, OwnsLocally DEF ForksInv
  <2>3. UNCHANGED serverVars /\ fork' = fork
    OBVIOUS
  <2>4. \A f \in Threads :
           /\ \A m, n \in Threads : f \in Has(m)' /\ f \in Has(n)' => m = n
           /\ fork'[f] # Free <=> \E n \in Threads : f \in Has(n)'
    BY <2>2, <2>3 DEF ForksInv, OwnInv
  <2> QED BY <1>1, <2>1, <2>3, <2>4, LocalStep
<1>2. CASE \A n \in Threads : /\ at'[n] = "await" <=> at[n] = "await"
                              /\ side'[n] = side[n]
  <2>1. \A n \in Threads : TheFork(n)' = TheFork(n)
    BY <1>2 DEF TheFork
  <2>2. \A n \in Threads : /\ Answered(n)' <=> Answered(n)
                           /\ Silent(n)' <=> Silent(n)
    BY DEF serverVars, Answered, Silent
  <2>3. \A n, f \in Threads : Owns(n, f)' <=> Owns(n, f)
    BY <1>2, <2>1, <2>2 DEF serverVars, Owns, Releasing
  <2>4. ServerInv'
    BY DEF ForksInv, ServerInv, serverVars, InChannel
  <2>5. OwnInv'
    BY <2>3 DEF ForksInv, OwnInv
  <2>6. AnswerInv'
    BY <1>2, <2>1, <2>2 DEF ForksInv, AnswerInv, serverVars
  <2>7. CommandInv'
    <3>1. \A i \in 1..Len(command) : command[i].reply \in Threads
      BY ForkCommands DEF ForksInv
    <3> QED BY <1>2, <2>1, <2>2, <3>1
            DEF ForksInv, CommandInv, AcquireInv, ReleaseInv, serverVars
  <2> QED BY <2>4, <2>5, <2>6, <2>7 DEF ForksInv
<1> QED BY <1>1, <1>2

\* A philosopher takes a free fork.
LEMMA TakeFork ==
    ASSUME ForksInv, PhilInv', CondInv', ~InChannel, config' = config,
           UNCHANGED serverVars, NEW n \in Threads, NEW f \in Threads,
           fork[f] = Free, fork' = [fork EXCEPT ![f] = InUse],
           Has(n)' = Has(n) \cup {f},
           \A m \in Threads : m # n => Has(m)' = Has(m)
    PROVE  ForksInv'
<1>1. fork \in [Threads -> {Free, InUse}]
  BY DEF ForksInv, ServerInv
<1>2. \A m \in Threads : \A g : Owns(m, g) <=> g \in Has(m)
  BY OwnsLocally DEF ForksInv
<1>3. fork' \in [Threads -> {Free, InUse}]
  BY <1>1
<1>4. \A m \in Threads : f \notin Has(m)
  BY <1>2 DEF ForksInv, OwnInv
<1>5. \A g \in Threads :
         /\ \A k, m \in Threads : g \in Has(k)' /\ g \in Has(m)' => k = m
         /\ fork'[g] # Free <=> \E m \in Threads : g \in Has(m)'
  BY <1>1, <1>2, <1>4, ForkStates DEF ForksInv, OwnInv
<1> QED BY <1>3, <1>5, LocalStep

\* A philosopher gives a fork back.
LEMMA FreeFork ==
    ASSUME ForksInv, PhilInv', CondInv', ~InChannel, config' = config,
           UNCHANGED serverVars, NEW n \in Threads, NEW f \in Threads,
           f \in Has(n), fork' = [fork EXCEPT ![f] = Free],
           Has(n)' = Has(n) \ {f},
           \A m \in Threads : m # n => Has(m)' = Has(m)
    PROVE  ForksInv'
<1>1. fork \in [Threads -> {Free, InUse}]
  BY DEF ForksInv, ServerInv
<1>2. \A m \in Threads : \A g : Owns(m, g) <=> g \in Has(m)
  BY OwnsLocally DEF ForksInv
<1>3. fork' \in [Threads -> {Free, InUse}]
  BY <1>1
<1>4. \A m \in Threads : f \notin Has(m)'
  BY <1>2 DEF ForksInv, OwnInv
<1>5. \A g \in Threads :
         /\ \A k, m \in Threads : g \in Has(k)' /\ g \in Has(m)' => k = m
         /\ fork'[g] # Free <=> \E m \in Threads : g \in Has(m)'
  BY <1>1, <1>2, <1>4 DEF ForksInv, OwnInv
<1> QED BY <1>3, <1>5, LocalStep

\* The kernel hands a fork from one philosopher to another.
LEMMA HandFork ==
    ASSUME ForksInv, PhilInv', CondInv', ~InChannel, config' = config,
           UNCHANGED <<fork, serverVars>>,
           NEW n \in Threads, NEW m \in Threads, NEW f \in Threads,
           m # n, f \in Has(n),
           Has(n)' = Has(n) \ {f}, Has(m)' = Has(m) \cup {f},
           \A k \in Threads : k \notin {m, n} => Has(k)' = Has(k)
    PROVE  ForksInv'
<1>1. fork' \in [Threads -> {Free, InUse}]
  BY DEF ForksInv, ServerInv
<1>2. \A k \in Threads : \A g : Owns(k, g) <=> g \in Has(k)
  BY OwnsLocally DEF ForksInv
<1>3. \A k \in Threads : f \in Has(k) => k = n
  BY <1>2 DEF ForksInv, OwnInv
<1>4. \A k \in Threads : f \in Has(k)' <=> k = m
  BY <1>3
<1>5. \A g \in Threads : g # f => \A k \in Threads : g \in Has(k)' <=> g \in Has(k)
  OBVIOUS
<1>6. fork' = fork /\ fork[f] # Free
  BY <1>2 DEF ForksInv, OwnInv
<1>7. \A g \in Threads :
         /\ \A j, k \in Threads : g \in Has(k)' /\ g \in Has(j)' => j = k
         /\ fork'[g] # Free <=> \E k \in Threads : g \in Has(k)'
  BY <1>2, <1>4, <1>5, <1>6 DEF ForksInv, OwnInv
<1> QED BY <1>1, <1>7, LocalStep

-----------------------------------------------------------------------------
(* Philosophers: the mutex.                                                *)

\* Every step of the samples makes a call of the mutex or leaves it alone.
LEMMA CallsMutex == [Next]_vars => [MutexNext]_mutexVars
<1> SUFFICES ASSUME [Next]_vars PROVE MutexNext \/ UNCHANGED mutexVars
  OBVIOUS
<1>1. CASE UNCHANGED vars
  BY <1>1 DEF vars
<1>2. CASE Server
  BY <1>2 DEF Server, Recv, Reply
<1>3. ASSUME NEW n \in Threads, ClientStep(n) PROVE MutexNext
  BY <1>3 DEF ClientStep, MutexNext
<1>4. ASSUME NEW n \in Threads, CondStep(n) PROVE MutexNext \/ UNCHANGED mutexVars
  BY <1>4 DEF CondStep, LockForks, TakeWaits, Take, TakeReturns, Release,
     ReleaseNotifies, ReleaseReturns, MutexNext, Call
<1>5. ASSUME NEW n \in Threads, PhilStep(n), ~CondStep(n) PROVE UNCHANGED mutexVars
  BY <1>5 DEF PhilStep, SleepEnds, AsyncSleepEnds, KTake, KRelease, SendStep,
     SendAcquire, SendRelease, Send, RecvReply
<1> QED BY <1>1, <1>2, <1>3, <1>4, <1>5 DEF Next

\* A call that the mutex goes on with moves threads on, none to where it waits
\* for the condition variable unless it was about to.
LEMMA CallMoves ==
    ASSUME IInv, NEW n \in Threads, InCall(n)
    PROVE  /\ pc[n] \notin {"out", "held"}
           /\ \A m \in Threads :
                 \/ pc'[m] = pc[m]
                 \/ /\ pc[m] \notin {"out", "held"}
                    /\ pc'[m] \notin {"pend", "waiting", "woken", "relock", "store"}
                 \/ /\ pc[m] \in {"pend", "woken", "relock"}
                    /\ pc'[m] # "pend"
                    /\ pc'[m] = "waiting" => pc[m] = "pend"
<1>1. CASE Swap(n, "swap", "undo") \/ Swap(n, "try_swap", "try_undo")
  BY <1>1 DEF Swap, IInv, MutexTypeOK
<1>2. CASE LockPanics(n)
  <2>1. pc[n] = "undo" /\ KMutexUnlock(n, "panicked")
    BY <1>2 DEF LockPanics
  <2> QED BY <2>1, UnlockMoves DEF ThreadPC, IInv, MutexTypeOK
<1>3. CASE TryLockFails(n)
  <2>1. pc[n] = "try_undo" /\ KMutexUnlock(n, "held")
    BY <1>3 DEF TryLockFails
  <2> QED BY <2>1, UnlockMoves DEF ThreadPC, IInv, MutexTypeOK
<1>4. CASE DropUnlock(n)
  <2>1. pc[n] = "unlock" /\ KMutexUnlock(n, "out")
    BY <1>4 DEF DropUnlock
  <2> QED BY <2>1, UnlockMoves DEF ThreadPC, IInv, MutexTypeOK
<1>5. CASE KCondvarWait(n)
  <2>1. pc[n] = "pend" /\ KMutexUnlock(n, "waiting")
    BY <1>5 DEF KCondvarWait
  <2> QED BY <2>1, UnlockMoves DEF ThreadPC, IInv, MutexTypeOK
<1>6. CASE KCondvarRelock(n) \/ KCondvarRelockBlocks(n) \/ WaitReturns(n)
  BY <1>6 DEF KCondvarRelock, KCondvarRelockBlocks, KMutexTake, WaitReturns,
     IInv, MutexTypeOK
<1> QED BY <1>1, <1>2, <1>3, <1>4, <1>5, <1>6 DEF InCall

-----------------------------------------------------------------------------
(* Philosophers: one lemma per kind of step.                               *)

\* Eating and thinking end.
LEMMA SleepStep ==
    ASSUME IInv, ForksInv, NEW n \in Threads, SleepEnds(n) \/ AsyncSleepEnds(n)
    PROVE  ForksInv'
<1>1. at[n] \in {"eat", "think"} /\ UNCHANGED <<mutexVars, config, fork, side, serverVars>>
  BY DEF SleepEnds, AsyncSleepEnds
<1>a. PICK x \in IF at[n] = "eat" THEN {"release"} ELSE {"take", "done"} :
           at' = [at EXCEPT ![n] = x]
  BY <1>1 DEF SleepEnds, AsyncSleepEnds
<1>2. PhilInv'
  BY <1>1, <1>a DEF ForksInv, PhilInv, PhilPC, InKernel, InChannel
<1>3. CondInv'
  BY <1>1, <1>a DEF ForksInv, PhilInv, CondInv, mutexVars, SleepEnds, AsyncSleepEnds
<1>4. \A m \in Threads : /\ at'[m] = "await" <=> at[m] = "await"
                         /\ side'[m] = side[m]
  BY <1>1, <1>a DEF ForksInv, PhilInv
<1>5. \A m \in Threads : Has(m)' = Has(m)
  BY <1>1, <1>a DEF Has, Having, TheFork, ForksInv, PhilInv
<1> QED BY <1>1, <1>2, <1>3, <1>4, <1>5, SameForks

\* The calls of the mutex that touch no fork.
LEMMA MutexStep ==
    ASSUME IInv, ForksInv, NEW n \in Threads,
           \/ InCall(n) /\ UNCHANGED <<config, fork, philVars, serverVars>>
           \/ LockForks(n) \/ TakeWaits(n) \/ ClientStep(n)
    PROVE  ForksInv'
<1>1. UNCHANGED <<config, fork, at, side, serverVars>>
  BY DEF LockForks, TakeWaits, ClientStep, philVars
<1>2. PhilInv'
  BY <1>1 DEF ForksInv, PhilInv, InKernel, InChannel
<1>3. CondInv'
  <2>1. CASE InCall(n)
    BY <1>1, <2>1, CallMoves DEF ForksInv, CondInv
  <2>2. CASE LockForks(n)
    BY <1>1, <2>2 DEF LockForks, Lock, LockBlocks, KMutexTake, ForksInv, CondInv,
         IInv, MutexTypeOK
  <2>3. CASE TakeWaits(n)
    BY <1>1, <2>3 DEF TakeWaits, Wait, ForksInv, CondInv, IInv, MutexTypeOK
  <2>4. CASE ClientStep(n)
    BY <1>1, <2>4 DEF ClientStep, ForksInv, CondInv, PhilInv
  <2> QED BY <2>1, <2>2, <2>3, <2>4
<1>4. \A m \in Threads : Has(m)' = Has(m)
  BY <1>1 DEF Has, TheFork
<1> QED BY <1>1, <1>2, <1>3, <1>4, SameForks

\* take and release of CondSync.
LEMMA CondSyncStep ==
    ASSUME IInv, ForksInv, NEW n \in Threads,
           \/ Take(n) \/ TakeReturns(n) \/ Release(n) \/ ReleaseNotifies(n)
           \/ ReleaseReturns(n)
    PROVE  ForksInv'
<1> USE DEF Goes, Taken, Released
<1>1. config' = config /\ UNCHANGED serverVars
  BY DEF Take, TakeReturns, Release, ReleaseNotifies, ReleaseReturns
<1>2. pc[n] = "held" /\ config = "condvar" /\ ~InChannel /\ ~InKernel
  BY DEF Take, TakeReturns, Release, ReleaseNotifies, ReleaseReturns, DropGuard,
     ForksInv, CondInv, PhilInv, InChannel, InKernel
<1>3. PhilInv'
  BY <1>1, <1>2 DEF Take, TakeReturns, Release, ReleaseNotifies, ReleaseReturns,
     ForksInv, PhilInv, PhilPC, InKernel, InChannel
<1>4. CondInv'
  <2>1. CASE Take(n) \/ Release(n)
    BY <1>1, <1>2, <2>1 DEF Take, Release, mutexVars, ForksInv, PhilInv, CondInv
  <2>2. CASE TakeReturns(n) \/ ReleaseReturns(n)
    BY <1>1, <1>2, <2>2 DEF TakeReturns, ReleaseReturns, DropGuard, ForksInv,
       PhilInv, CondInv, IInv, MutexTypeOK
  <2>3. CASE ReleaseNotifies(n)
    BY <1>1, <1>2, <2>3 DEF ReleaseNotifies, NotifyAll, Waiting, ForksInv,
       PhilInv, CondInv, IInv, MutexTypeOK
  <2> QED BY <2>1, <2>2, <2>3
<1>f. TheFork(n) \in Threads /\ Forks(n)[1] # Forks(n)[2]
  BY TwoForks DEF TheFork, ForksInv, PhilInv
<1>o. \A m \in Threads : m # n => at'[m] = at[m] /\ side'[m] = side[m]
  BY DEF Take, TakeReturns, Release, ReleaseNotifies, ReleaseReturns, ForksInv, PhilInv
<1>p. \A m \in Threads : m # n => Has(m)' = Has(m)
  BY <1>o DEF Has, TheFork
<1>s. side[n] \in {1, 2} /\ at \in [Threads -> PhilPC] /\ side \in [Threads -> {1, 2}]
  BY DEF ForksInv, PhilInv
<1>5. CASE Take(n)
  <2>1. fork[TheFork(n)] = Free /\ fork' = [fork EXCEPT ![TheFork(n)] = InUse]
    BY <1>5, <1>f, ForkStates DEF Take, ForksInv, ServerInv
  <2>2. Has(n)' = Has(n) \cup {TheFork(n)}
    BY <1>5, <1>s DEF Take, Has, TheFork, Having
  <2> QED BY <1>1, <1>2, <1>3, <1>4, <1>f, <1>p, <2>1, <2>2, TakeFork
<1>6. CASE Release(n)
  <2>1. TheFork(n) \in Has(n) /\ fork' = [fork EXCEPT ![TheFork(n)] = Free]
    BY <1>6 DEF Release, Has, Having
  <2>2. Has(n)' = Has(n) \ {TheFork(n)}
    BY <1>6, <1>s, <1>f DEF Release, Has, TheFork, Having
  <2> QED BY <1>1, <1>2, <1>3, <1>4, <1>f, <1>p, <2>1, <2>2, FreeFork
<1>7. CASE TakeReturns(n) \/ ReleaseNotifies(n) \/ ReleaseReturns(n)
  <2>1. Has(n)' = Has(n)
    BY <1>7, <1>s DEF TakeReturns, ReleaseNotifies, ReleaseReturns, Has, TheFork,
       Having
  <2>2. fork' = fork
    BY <1>7 DEF TakeReturns, ReleaseNotifies, ReleaseReturns
  <2> QED BY <1>1, <1>2, <1>3, <1>4, <1>p, <2>1, <2>2, SameForks
<1> QED BY <1>5, <1>6, <1>7

\* A fork that is a kernel object.
LEMMA KTakeStep ==
    ASSUME ForksInv, NEW n \in Threads, KTake(n)
    PROVE  ForksInv'
<1> USE DEF Goes, Taken
<1>1. config' = config /\ UNCHANGED serverVars /\ UNCHANGED mutexVars
  BY DEF KTake
<1>2. ~InChannel /\ InKernel
  BY DEF KTake, InKernel, InChannel
<1>3. PhilInv'
  BY <1>1, <1>2 DEF KTake, ForksInv, PhilInv, PhilPC, InKernel, InChannel
<1>4. CondInv'
  BY <1>1, <1>2 DEF KTake, mutexVars, ForksInv, PhilInv, CondInv, InKernel
<1>f. TheFork(n) \in Threads
  BY TwoForks DEF TheFork, ForksInv, PhilInv
<1>s. side[n] \in {1, 2} /\ at \in [Threads -> PhilPC] /\ side \in [Threads -> {1, 2}]
  BY DEF ForksInv, PhilInv
<1>o. \A m \in Threads : m # n => at'[m] = at[m] /\ side'[m] = side[m]
  BY DEF KTake, ForksInv, PhilInv
<1>p. \A m \in Threads : m # n => Has(m)' = Has(m)
  BY <1>o DEF Has, TheFork
<1>5. CASE ~fork[TheFork(n)].in_use /\ Taken(n)
              /\ fork' = [fork EXCEPT ![TheFork(n)] = InUse]
  <2>1. fork[TheFork(n)] = Free
    BY <1>5, <1>f, ForkStates DEF ForksInv, ServerInv
  <2>2. Has(n)' = Has(n) \cup {TheFork(n)}
    BY <1>5, <1>s DEF KTake, Has, TheFork, Having
  <2> QED BY <1>1, <1>2, <1>3, <1>4, <1>5, <1>f, <1>p, <2>1, <2>2, TakeFork
<1>6. CASE Goes(n, "pended") /\ fork' = fork
  <2>1. Has(n)' = Has(n)
    BY <1>6, <1>s DEF KTake, Has, TheFork, Having
  <2> QED BY <1>1, <1>2, <1>3, <1>4, <1>6, <1>p, <2>1, SameForks
<1> QED BY <1>5, <1>6 DEF KTake

\* give or unlock frees the fork, or hands it to the next philosopher.
LEMMA KReleaseStep ==
    ASSUME ForksInv, NEW n \in Threads, KRelease(n)
    PROVE  ForksInv'
<1> DEFINE pended == {m \in Threads : at[m] = "pended" /\ TheFork(m) = TheFork(n)}
<1>1. config' = config /\ UNCHANGED serverVars /\ UNCHANGED mutexVars
  BY DEF KRelease
<1>2. ~InChannel /\ InKernel /\ at[n] = "release"
  BY DEF KRelease, InKernel, InChannel
<1>f. TheFork(n) \in Threads /\ Forks(n)[1] # Forks(n)[2]
  BY TwoForks DEF TheFork, ForksInv, PhilInv
<1>s. side[n] \in {1, 2} /\ at \in [Threads -> PhilPC] /\ side \in [Threads -> {1, 2}]
  BY DEF ForksInv, PhilInv
<1>h. TheFork(n) \in Has(n)
  BY <1>2 DEF Has, Having
<1>3. CASE Released(n) /\ fork' = [fork EXCEPT ![TheFork(n)] = Free]
  <2>1. PhilInv'
    BY <1>1, <1>2, <1>3 DEF Released, ForksInv, PhilInv, PhilPC, InKernel, InChannel
  <2>2. CondInv'
    BY <1>1, <1>2, <1>3 DEF Released, mutexVars, ForksInv, PhilInv, CondInv, InKernel
  <2>3. Has(n)' = Has(n) \ {TheFork(n)}
    BY <1>2, <1>3, <1>s, <1>f DEF Released, Has, TheFork, Having
  <2>4. \A m \in Threads : m # n => at'[m] = at[m] /\ side'[m] = side[m]
    BY <1>3, <1>s DEF Released
  <2>5. \A m \in Threads : m # n => Has(m)' = Has(m)
    BY <2>4 DEF Has, TheFork
  <2> QED BY <1>1, <1>2, <1>3, <1>f, <1>h, <2>1, <2>2, <2>3, <2>5, FreeFork
<1>4. ASSUME NEW m \in pended, fork' = fork,
             at' = [at EXCEPT ![n] = IF side[n] = 2 THEN "release" ELSE "think",
                              ![m] = IF side[m] = 1 THEN "take" ELSE "eat"],
             side' = [side EXCEPT ![n] = 1, ![m] = 2]
      PROVE  ForksInv'
  <2>1. m # n /\ m \in Threads /\ at[m] = "pended" /\ TheFork(m) = TheFork(n)
    BY <1>2
  <2>2. /\ at'[n] = IF side[n] = 2 THEN "release" ELSE "think"
        /\ at'[m] = IF side[m] = 1 THEN "take" ELSE "eat"
        /\ side'[n] = 1 /\ side'[m] = 2
    BY <1>4, <1>s, <2>1
  <2>3. PhilInv'
    BY <1>1, <1>2, <1>4, <2>1 DEF ForksInv, PhilInv, PhilPC, InKernel, InChannel
  <2>4. CondInv'
    BY <1>1, <1>2, <1>4, <2>1 DEF mutexVars, ForksInv, PhilInv, CondInv, InKernel
  <2>5. Has(n)' = Has(n) \ {TheFork(n)}
    BY <1>2, <2>2, <1>s, <1>f DEF Has, TheFork, Having
  <2>6. Has(m)' = Has(m) \cup {TheFork(n)}
    <3>1. Has(m)' = Has(m) \cup {TheFork(m)}
      BY <2>1, <2>2, <1>s DEF Has, TheFork, Having
    <3> QED BY <3>1, <2>1
  <2>7. \A k \in Threads : k \notin {m, n} => at'[k] = at[k] /\ side'[k] = side[k]
    BY <1>4, <1>s, <2>1
  <2>8. \A k \in Threads : k \notin {m, n} => Has(k)' = Has(k)
    BY <2>7 DEF Has, TheFork
  <2> QED BY <1>1, <1>2, <1>4, <1>f, <1>h, <2>1, <2>3, <2>4, <2>5, <2>6, <2>8, HandFork
<1> QED BY <1>3, <1>4 DEF KRelease

\* A philosopher who waits for a fork does not have it.
LEMMA AwaitsOther ==
    ASSUME PhilInv, NEW n \in Threads, at[n] = "await"
    PROVE  TheFork(n) \in Threads /\ TheFork(n) \notin Has(n)
BY TwoForks DEF PhilInv, TheFork, Has, Having

\* What is appended to the command channel, and what stays.
LEMMA SendFacts ==
    ASSUME ServerInv, NEW c \in Command, command' = Append(command, c)
    PROVE  /\ command' \in Seq(Command)
           /\ Len(command) \in Nat /\ Len(command') = Len(command) + 1
           /\ \A i \in 1..Len(command) : command'[i] = command[i]
           /\ command'[Len(command) + 1] = c
BY AppendProperties DEF ServerInv

\* ChannelSync::take sends its request.
LEMMA SendAcquireStep ==
    ASSUME ForksInv, NEW n \in Threads, SendAcquire(n)
    PROVE  ForksInv'
<1> USE DEF ForksInv
<1> DEFINE c == [op |-> "acquire", fork |-> TheFork(n), reply |-> n]
<1>1. /\ at[n] = "take" /\ InChannel
      /\ at' = [at EXCEPT ![n] = "await"] /\ side' = side
      /\ UNCHANGED <<pc, config, fork, reply, server, to>>
      /\ command' = Append(command, c)
  BY DEF SendAcquire, Send, Goes, mutexVars
<1>2. TheFork(n) \in Threads
  BY TwoForks DEF TheFork, PhilInv
<1>3. c \in Command /\ c.op = "acquire" /\ c.reply = n /\ c.fork = TheFork(n)
  BY <1>2 DEF Command
<1> HIDE DEF c
<1>4. /\ command' \in Seq(Command)
      /\ Len(command) \in Nat /\ Len(command') = Len(command) + 1
      /\ \A i \in 1..Len(command) : command'[i] = command[i]
      /\ command'[Len(command) + 1] = c
  BY <1>1, <1>3, SendFacts
<1>5. PhilInv'
  BY <1>1 DEF PhilInv, PhilPC, InKernel, InChannel
<1>6. CondInv'
  BY <1>1 DEF PhilInv, CondInv, InChannel
<1>7. ServerInv'
  BY <1>1, <1>4 DEF ServerInv, InChannel
<1>8. /\ \A m \in Threads : at'[m] = IF m = n THEN "await" ELSE at[m]
      /\ \A m \in Threads : TheFork(m)' = TheFork(m) /\ Has(m)' = Has(m)
  BY <1>1 DEF PhilInv, TheFork, Has, Having
<1>9. \A m \in Threads : /\ Answered(m)' <=> Answered(m)
                         /\ m # n => Silent(m)' = Silent(m)
  BY <1>1, <1>3, <1>4 DEF Answered, Silent
<1>10. \A m, f \in Threads : Releasing(m, f)' <=> Releasing(m, f)
  <2>1. \A m, f \in Threads : c # [op |-> "release", fork |-> f, reply |-> m]
    BY <1>3
  <2> QED BY <1>4, <2>1 DEF Releasing
<1>11. ~Answered(n) /\ \A f \in Threads : fork[f] # InUseWait(n)
  BY <1>1 DEF AnswerInv
<1>12. AnswerInv'
  BY <1>1, <1>8, <1>9, <1>11 DEF AnswerInv
<1>13. OwnInv'
  BY <1>1, <1>8, <1>9, <1>10, <1>11 DEF OwnInv, Owns
<1>14. CommandInv'
  <2>1. ASSUME NEW i \in 1..Len(command)
        PROVE  /\ command[i].op \in {"acquire", "release"}
               /\ command[i].fork \in Threads /\ command[i].reply \in Threads
               /\ command[i].op = "acquire" => command[i].reply # n
    BY <1>1, ForkCommands DEF CommandInv, AcquireInv
  <2>2. ASSUME NEW i \in 1..Len(command'), NEW m \in Threads, NEW f \in Threads,
               command'[i].reply = m, command'[i].fork = f
        PROVE  /\ command'[i].op = "acquire" => AcquireInv(i, m, f)'
               /\ command'[i].op = "release" => ReleaseInv(i, m, f)'
    <3>1. CASE i = Len(command) + 1
      BY <1>1, <1>2, <1>3, <1>4, <1>8, <1>9, <1>11, <2>2, <3>1 DEF AcquireInv, ReleaseInv
    <3>2. CASE i \in 1..Len(command)
      <4>1. /\ command[i].op = "acquire" => AcquireInv(i, m, f)
            /\ command[i].op = "release" => ReleaseInv(i, m, f)
        BY <1>4, <2>2, <3>2 DEF CommandInv
      <4> QED
        BY <1>1, <1>3, <1>4, <1>8, <1>9, <2>1, <2>2, <3>2, <4>1 DEF AcquireInv, ReleaseInv
    <3> QED BY <1>4, <3>1, <3>2
  <2> QED BY <2>2 DEF CommandInv
<1> QED BY <1>5, <1>6, <1>7, <1>12, <1>13, <1>14

\* ChannelSync::release sends a fork back.
LEMMA SendReleaseStep ==
    ASSUME ForksInv, NEW n \in Threads, SendRelease(n)
    PROVE  ForksInv'
<1> USE DEF ForksInv
<1> DEFINE F == TheFork(n)
           c == [op |-> "release", fork |-> F, reply |-> n]
<1>1. /\ at[n] = "release" /\ InChannel
      /\ at' = [at EXCEPT ![n] = IF side[n] = 2 THEN "release" ELSE "think"]
      /\ side' = [side EXCEPT ![n] = 1]
      /\ UNCHANGED <<pc, config, fork, reply, server, to>>
      /\ command' = Append(command, c)
  BY DEF SendRelease, Send, Released, mutexVars
<1>2. F \in Threads /\ F \in {Forks(n)[1], Forks(n)[2]} /\ Forks(n)[1] # Forks(n)[2]
  BY TwoForks DEF TheFork, PhilInv
<1>3. c \in Command /\ c.op = "release" /\ c.reply = n /\ c.fork = F
  BY <1>2 DEF Command
<1>s. side[n] \in {1, 2} /\ at \in [Threads -> PhilPC] /\ side \in [Threads -> {1, 2}]
  BY DEF PhilInv
<1>h. F \in Has(n) /\ Has(n)' = Has(n) \ {F}
  BY <1>1, <1>2, <1>s DEF Has, TheFork, Having
<1>r. \A m, f \in Threads :
         c = [op |-> "release", fork |-> f, reply |-> m] <=> m = n /\ f = F
  BY <1>2
<1> HIDE DEF c, F
<1>4. /\ command' \in Seq(Command)
      /\ Len(command) \in Nat /\ Len(command') = Len(command) + 1
      /\ \A i \in 1..Len(command) : command'[i] = command[i]
      /\ command'[Len(command) + 1] = c
  BY <1>1, <1>3, SendFacts
<1>5. PhilInv'
  BY <1>1, <1>s DEF PhilInv, PhilPC, InKernel, InChannel
<1>6. CondInv'
  BY <1>1, <1>s DEF PhilInv, CondInv, InChannel
<1>7. ServerInv'
  BY <1>1, <1>4 DEF ServerInv, InChannel
<1>8. /\ at'[n] # "await"
      /\ \A m \in Threads : m # n => at'[m] = at[m] /\ side'[m] = side[m]
  BY <1>1, <1>s
<1>m. \A m \in Threads : m # n => TheFork(m)' = TheFork(m) /\ Has(m)' = Has(m)
  BY <1>8 DEF TheFork, Has
<1>9. \A m \in Threads : /\ Answered(m)' <=> Answered(m)
                         /\ m # n => Silent(m)' = Silent(m)
  BY <1>1, <1>3, <1>4 DEF Answered, Silent
<1>10. \A m, f \in Threads :
          Releasing(m, f)' <=> Releasing(m, f) \/ (m = n /\ f = F)
  BY <1>4, <1>r DEF Releasing
<1>11. ~Answered(n) /\ \A f \in Threads : fork[f] # InUseWait(n)
  BY <1>1 DEF AnswerInv
<1>12. AnswerInv'
  BY <1>1, <1>8, <1>m, <1>9, <1>11 DEF AnswerInv
<1>13. \A m, f \in Threads : Owns(m, f)' <=> Owns(m, f)
  BY <1>1, <1>2, <1>h, <1>8, <1>m, <1>9, <1>10 DEF Owns
<1>14. OwnInv'
  BY <1>1, <1>13 DEF OwnInv
<1>15. ASSUME NEW i \in 1..Len(command)
       PROVE  /\ command[i].op \in {"acquire", "release"}
              /\ command[i].fork \in Threads /\ command[i].reply \in Threads
              /\ command[i].op = "acquire" => command[i].reply # n
              /\ command[i].op = "release" => command[i].fork # F
  <2>1. /\ command[i] \in Command /\ command[i].op \in {"acquire", "release"}
        /\ command[i].fork \in Threads /\ command[i].reply \in Threads
    BY ForkCommands
  <2>2. command[i].op = "acquire" => command[i].reply # n
    BY <1>1, <2>1 DEF CommandInv, AcquireInv
  <2>3. ASSUME command[i].op = "release", command[i].fork = F PROVE FALSE
    <3>1. command[i] = [op |-> "release", fork |-> F, reply |-> command[i].reply]
      BY <2>1, <2>3 DEF Command
    <3>2. Owns(command[i].reply, F)
      BY <3>1 DEF Owns, Releasing
    <3>3. Owns(n, F)
      BY <1>h DEF Owns
    <3>4. command[i].reply = n
      BY <1>2, <2>1, <3>2, <3>3 DEF OwnInv
    <3> QED BY <1>h, <1>2, <2>3, <3>4 DEF CommandInv, ReleaseInv
  <2> QED BY <2>1, <2>2, <2>3
<1>16. CommandInv'
  <2>2. ASSUME NEW i \in 1..Len(command'), NEW m \in Threads, NEW f \in Threads,
               command'[i].reply = m, command'[i].fork = f
        PROVE  /\ command'[i].op = "acquire" => AcquireInv(i, m, f)'
               /\ command'[i].op = "release" => ReleaseInv(i, m, f)'
    <3>1. CASE i = Len(command) + 1
      BY <1>1, <1>2, <1>3, <1>4, <1>h, <1>15, <2>2, <3>1 DEF AcquireInv, ReleaseInv
    <3>2. CASE i \in 1..Len(command)
      <4>1. /\ command[i].op = "acquire" => AcquireInv(i, m, f)
            /\ command[i].op = "release" => ReleaseInv(i, m, f)
        BY <1>4, <2>2, <3>2 DEF CommandInv
      <4>2. command'[i] = command[i] /\ fork' = fork
        BY <1>1, <1>4, <3>2
      <4>3. ASSUME command[i].op = "acquire" PROVE AcquireInv(i, m, f)'
        <5>1. m # n /\ AcquireInv(i, m, f)
          BY <1>15, <2>2, <3>2, <4>1, <4>2, <4>3
        <5>2. at'[m] = at[m] /\ TheFork(m)' = TheFork(m) /\ (Answered(m)' <=> Answered(m))
          BY <1>8, <1>m, <1>9, <5>1
        <5>3. \A j \in 1..Len(command') : command'[j].reply = m => j <= i
          BY <1>3, <1>4, <5>1 DEF AcquireInv
        <5> QED BY <4>2, <5>1, <5>2, <5>3 DEF AcquireInv
      <4>4. ASSUME command[i].op = "release" PROVE ReleaseInv(i, m, f)'
        <5>1. f # F /\ ReleaseInv(i, m, f)
          BY <1>15, <2>2, <3>2, <4>1, <4>2, <4>4
        <5>2. f \notin Has(m)'
          BY <1>h, <1>m, <5>1 DEF ReleaseInv
        <5>3. \A j \in 1..Len(command') :
                 command'[j].op = "release" /\ command'[j].fork = f => j = i
          BY <1>3, <1>4, <5>1 DEF ReleaseInv
        <5> QED BY <5>1, <5>2, <5>3 DEF ReleaseInv
      <4> QED BY <4>2, <4>3, <4>4
    <3> QED BY <1>4, <3>1, <3>2
  <2> QED BY <2>2 DEF CommandInv
<1> QED BY <1>5, <1>6, <1>7, <1>12, <1>14, <1>16

\* take returns with the server's answer.
LEMMA RecvReplyStep ==
    ASSUME ForksInv, NEW n \in Threads, RecvReply(n)
    PROVE  ForksInv'
<1> USE DEF ForksInv
<1>1. /\ at[n] = "await" /\ reply[n] > 0
      /\ at' = [at EXCEPT ![n] = IF side[n] = 1 THEN "take" ELSE "eat"]
      /\ side' = [side EXCEPT ![n] = 2]
      /\ reply' = [reply EXCEPT ![n] = reply[n] - 1]
      /\ UNCHANGED <<pc, config, fork, command, server, to>>
  BY DEF RecvReply, Taken, mutexVars
<1>2. /\ reply \in [Threads -> {0, 1}] /\ reply[n] = 1 /\ reply'[n] = 0
      /\ reply' \in [Threads -> {0, 1}] /\ InChannel
  BY <1>1 DEF ServerInv, PhilInv
<1>s. side[n] \in {1, 2} /\ at \in [Threads -> PhilPC] /\ side \in [Threads -> {1, 2}]
  BY DEF PhilInv
<1>h. Has(n)' = Has(n) \cup {TheFork(n)}
  BY <1>1, <1>s DEF Has, TheFork, Having
<1>3. PhilInv'
  BY <1>1, <1>s DEF PhilInv, PhilPC, InKernel, InChannel
<1>4. CondInv'
  BY <1>1, <1>2, <1>s DEF PhilInv, CondInv, InChannel
<1>5. ServerInv'
  BY <1>1, <1>2 DEF ServerInv, InChannel
<1>6. /\ at'[n] # "await"
      /\ \A m \in Threads : m # n => /\ at'[m] = at[m] /\ side'[m] = side[m]
                                     /\ reply'[m] = reply[m]
  BY <1>1, <1>2, <1>s
<1>7. \A m \in Threads : m # n => /\ TheFork(m)' = TheFork(m) /\ Has(m)' = Has(m)
                                  /\ Answered(m)' <=> Answered(m)
  BY <1>1, <1>6 DEF TheFork, Has, Answered
<1>8. Answered(n) /\ Silent(n) /\ ~Answered(n)'
  BY <1>1, <1>2 DEF AnswerInv, Answered
<1>9. \A m \in Threads : Silent(m)' = Silent(m)
  BY <1>1 DEF Silent
<1>10. AnswerInv'
  BY <1>1, <1>2, <1>6, <1>7, <1>8, <1>9 DEF AnswerInv
<1>11. \A m, f \in Threads : Releasing(m, f)' <=> Releasing(m, f)
  BY <1>1 DEF Releasing
<1>12. \A f \in Threads : ~Releasing(n, f)
  BY <1>8 DEF Releasing, Silent
<1>13. \A m, f \in Threads : Owns(m, f)' <=> Owns(m, f)
  BY <1>1, <1>h, <1>6, <1>7, <1>8, <1>11, <1>12 DEF Owns
<1>14. OwnInv'
  BY <1>1, <1>13 DEF OwnInv
<1>15. \A i \in 1..Len(command) : command[i].reply \in Threads /\ command[i].reply # n
  BY <1>8, ForkCommands DEF Silent
<1>16. CommandInv'
  BY <1>1, <1>6, <1>7, <1>15 DEF CommandInv, AcquireInv, ReleaseInv
<1> QED BY <1>3, <1>4, <1>5, <1>10, <1>14, <1>16

\* The server's reply arrives.
LEMMA ReplyStep ==
    ASSUME ForksInv, Reply
    PROVE  ForksInv'
<1> USE DEF ForksInv
<1>1. /\ server = "reply" /\ server' = "recv"
      /\ reply' = [reply EXCEPT ![to] = reply[to] + 1]
      /\ UNCHANGED <<pc, config, fork, at, side, command, to>>
  BY DEF Reply, mutexVars, philVars
<1>2. /\ to \in Threads /\ reply[to] = 0 /\ reply'[to] = 1
      /\ reply \in [Threads -> {0, 1}] /\ reply' \in [Threads -> {0, 1}]
  BY <1>1 DEF ServerInv, AnswerInv
<1>3. PhilInv' /\ CondInv'
  BY <1>1 DEF PhilInv, CondInv, InKernel, InChannel
<1>4. ServerInv'
  BY <1>1, <1>2 DEF ServerInv, InChannel
<1>5. \A m \in Threads : /\ TheFork(m)' = TheFork(m) /\ Has(m)' = Has(m)
                         /\ Answered(m)' <=> Answered(m)
                         /\ Silent(m)' <=> Silent(m)
  BY <1>1, <1>2 DEF TheFork, Has, Answered, Silent
<1>6. \A m, f \in Threads : Owns(m, f)' <=> Owns(m, f)
  BY <1>1, <1>5 DEF Owns, Releasing
<1>7. OwnInv'
  BY <1>1, <1>6 DEF OwnInv
<1>8. AnswerInv'
  BY <1>1, <1>5 DEF AnswerInv
<1>9. CommandInv'
  <2>1. \A i \in 1..Len(command) : command[i].reply \in Threads
    BY ForkCommands
  <2> QED BY <1>1, <1>5, <2>1 DEF CommandInv, AcquireInv, ReleaseInv
<1> QED BY <1>3, <1>4, <1>7, <1>8, <1>9

\* A CASE on the state of a fork, for the provers that do not know CASE.
LEMMA CaseOf ==
    ASSUME NEW a, NEW b, a # b, NEW c, NEW x, NEW y, NEW z
    PROVE  (CASE c = a -> x [] c = b -> y [] OTHER -> z)
              = IF c = a THEN x ELSE IF c = b THEN y ELSE z
BY Zenon

\* What is left in the command channel when the server has read a message.
LEMMA RecvFacts ==
    ASSUME ServerInv, command # <<>>, command' = Tail(command)
    PROVE  /\ command' \in Seq(Command)
           /\ Len(command) \in Nat \ {0} /\ Len(command') = Len(command) - 1
           /\ \A i \in 1..Len(command') : command'[i] = command[i + 1]
           /\ Head(command) = command[1]
BY EmptySeq, HeadTailProperties DEF ServerInv

\* Nobody has dealt with the message the server is about to read.
LEMMA HeadAcquire ==
    ASSUME ForksInv, Len(command) \in Nat \ {0}, NEW n \in Threads, NEW f \in Threads,
           command[1].op = "acquire", command[1].reply = n, command[1].fork = f
    PROVE  /\ at[n] = "await" /\ f = TheFork(n) /\ ~Answered(n) /\ f \notin Has(n)
           /\ \A i \in 1..Len(command) : command[i].reply = n => i = 1
           /\ \A g : ~Releasing(n, g)
           /\ ~Owns(n, f)
           /\ fork[f] \in {Free, InUse}
<1>1. AcquireInv(1, n, f)
  BY DEF ForksInv, CommandInv
<1>2. /\ at[n] = "await" /\ f = TheFork(n) /\ ~Answered(n)
      /\ \A i \in 1..Len(command) : command[i].reply = n => i = 1
      /\ fork[f] # InUseWait(n)
  BY <1>1 DEF AcquireInv
<1>3. f \notin Has(n)
  BY <1>2, AwaitsOther DEF ForksInv
<1>4. \A g : ~Releasing(n, g)
  BY <1>2 DEF Releasing
<1>5. ~Owns(n, f)
  BY <1>2, <1>3, <1>4 DEF Owns
<1>6. ASSUME NEW m \in Threads, fork[f] = InUseWait(m) PROVE FALSE
  <2>1. /\ at[m] = "await" /\ f = TheFork(m) /\ Silent(m) /\ ~Answered(m) /\ m # n
    BY <1>2, <1>6 DEF ForksInv, AnswerInv
  <2>2. f \notin Has(m) /\ ~Owns(m, f)
    BY <2>1, AwaitsOther DEF ForksInv, Owns, Releasing, Silent
  <2>3. PICK k \in Threads : Owns(k, f)
    BY <1>6, ForkStates DEF ForksInv, OwnInv
  <2>4. k # m /\ k # n
    BY <1>5, <2>2, <2>3
  <2>5. \A l \in Threads : TheFork(l) \in {Forks(l)[1], Forks(l)[2]}
    BY DEF TheFork, ForksInv, PhilInv
  <2>6. f \in {Forks(k)[1], Forks(k)[2]}
    <3>1. CASE f \in Has(k)
      BY <3>1, <2>5 DEF Has
    <3>2. CASE at[k] = "await" /\ Answered(k) /\ TheFork(k) = f
      BY <3>2, <2>5
    <3>3. CASE Releasing(k, f)
      <4>1. PICK i \in 1..Len(command) :
                 command[i] = [op |-> "release", fork |-> f, reply |-> k]
        BY <3>3 DEF Releasing
      <4>2. command[i].op = "release" /\ command[i].fork = f /\ command[i].reply = k
        BY <4>1
      <4> QED BY <4>2 DEF ForksInv, CommandInv, ReleaseInv
    <3> QED BY <2>3, <3>1, <3>2, <3>3 DEF Owns
  <2>7. \A l \in {m, n, k} : f \in {Forks(l)[1], Forks(l)[2]}
    BY <1>2, <2>1, <2>5, <2>6
  <2> QED BY <2>1, <2>4, <2>7, TwoUsers
<1>7. fork[f] \in {Free, InUse}
  BY <1>6 DEF ForksInv, ServerInv, ForkState
<1> QED BY <1>2, <1>3, <1>4, <1>5, <1>7

\* The sender of the release the server is about to read has nothing else to do
\* with the fork.
LEMMA HeadRelease ==
    ASSUME ForksInv, Len(command) \in Nat \ {0}, NEW n \in Threads, NEW f \in Threads,
           command[1].op = "release", command[1].reply = n, command[1].fork = f
    PROVE  /\ f \notin Has(n) /\ ~Answered(n)
           /\ \A i \in 1..Len(command) :
                 command[i].op = "release" /\ command[i].fork = f => i = 1
           /\ \A m \in Threads : Owns(m, f) <=> m = n
           /\ fork[f] # Free /\ fork[f] # InUseWait(n)
<1>1. ReleaseInv(1, n, f)
  BY DEF ForksInv, CommandInv
<1>2. command[1] = [op |-> "release", fork |-> f, reply |-> n]
  BY ForkCommands DEF Command, ForksInv
<1>3. ~Silent(n) /\ Owns(n, f)
  BY <1>2 DEF Silent, Owns, Releasing
<1>4. ~Answered(n) /\ fork[f] # InUseWait(n)
  BY <1>3 DEF ForksInv, AnswerInv
<1>5. fork[f] # Free /\ \A m \in Threads : Owns(m, f) <=> m = n
  BY <1>3 DEF ForksInv, OwnInv
<1> QED BY <1>1, <1>4, <1>5 DEF ReleaseInv

\* The message the server has read is gone; those behind it stay as they are.
\* This lemma is about a philosopher the server's step does not answer.
LEMMA StillThere ==
    ASSUME ForksInv, command # <<>>, command' = Tail(command),
           UNCHANGED <<at, side>>,
           NEW n \in Threads, NEW f \in Threads, NEW i \in 1..Len(command'),
           command'[i].reply = n, command'[i].fork = f,
           command'[i].op = "acquire" =>
              (Answered(n)' <=> Answered(n)) /\ fork'[f] # InUseWait(n)
    PROVE  /\ command'[i].op = "acquire" => AcquireInv(i, n, f)'
           /\ command'[i].op = "release" => ReleaseInv(i, n, f)'
<1>1. /\ Len(command) \in Nat \ {0} /\ Len(command') = Len(command) - 1
      /\ \A j \in 1..Len(command') : command'[j] = command[j + 1]
  BY RecvFacts DEF ForksInv
<1>2. /\ command[i + 1].reply = n /\ command[i + 1].fork = f
      /\ command[i + 1].op = command'[i].op /\ i + 1 \in 1..Len(command)
  BY <1>1
<1>3. Has(n)' = Has(n) /\ TheFork(n)' = TheFork(n)
  BY DEF Has, TheFork
<1>4. ASSUME command'[i].op = "acquire" PROVE AcquireInv(i, n, f)'
  <2>1. AcquireInv(i + 1, n, f)
    BY <1>2, <1>4 DEF ForksInv, CommandInv
  <2>2. \A j \in 1..Len(command') : command'[j].reply = n => j <= i
    BY <1>1, <2>1 DEF AcquireInv
  <2> QED BY <1>3, <1>4, <2>1, <2>2 DEF AcquireInv
<1>5. ASSUME command'[i].op = "release" PROVE ReleaseInv(i, n, f)'
  <2>1. ReleaseInv(i + 1, n, f)
    BY <1>2, <1>5 DEF ForksInv, CommandInv
  <2>2. \A j \in 1..Len(command') :
           command'[j].op = "release" /\ command'[j].fork = f => j = i
    BY <1>1, <2>1 DEF ReleaseInv
  <2> QED BY <1>3, <2>1, <2>2 DEF ReleaseInv
<1> QED BY <1>4, <1>5

\* The server reads a message.
LEMMA RecvStep ==
    ASSUME ForksInv, Recv
    PROVE  ForksInv'
<1> USE DEF ForksInv
<1> DEFINE c == Head(command)
<1>1. /\ server = "recv" /\ command # <<>> /\ command' = Tail(command)
      /\ UNCHANGED <<pc, config, at, side, reply>>
  BY DEF Recv, mutexVars, philVars
<1>2. /\ command' \in Seq(Command)
      /\ Len(command) \in Nat \ {0} /\ Len(command') = Len(command) - 1
      /\ \A i \in 1..Len(command') : command'[i] = command[i + 1]
      /\ c = command[1]
  BY <1>1, RecvFacts
<1>3. PICK n \in Threads, f \in Threads :
           /\ command[1].reply = n /\ command[1].fork = f
           /\ command[1].op \in {"acquire", "release"}
  BY <1>2, ForkCommands
<1>i. InChannel
  BY <1>1 DEF ServerInv
<1>4. PhilInv' /\ CondInv'
  BY <1>1 DEF PhilInv, CondInv, InKernel, InChannel
<1>5. \A m \in Threads : TheFork(m)' = TheFork(m) /\ Has(m)' = Has(m)
  BY <1>1 DEF TheFork, Has
<1>6. \A m \in Threads : Silent(m) => Silent(m)'
  BY <1>2 DEF Silent
<1>7. \A m \in Threads : Answered(m) <=> reply[m] = 1
  BY <1>1 DEF Answered
<1>t. fork \in [Threads -> ForkState] /\ reply \in [Threads -> {0, 1}]
  BY DEF ServerInv
<1>8. CASE command[1].op = "acquire"
  <2>1. /\ at[n] = "await" /\ f = TheFork(n) /\ ~Answered(n) /\ f \notin Has(n)
        /\ \A i \in 1..Len(command) : command[i].reply = n => i = 1
        /\ \A g : ~Releasing(n, g)
        /\ ~Owns(n, f)
        /\ fork[f] \in {Free, InUse}
    BY <1>2, <1>3, <1>8, HeadAcquire
  <2>2. Silent(n)'
    BY <1>2, <2>1 DEF Silent
  <2>3. \A m, g \in Threads : Releasing(m, g)' <=> Releasing(m, g)
    <3>1. \A m, g \in Threads : command[1] # [op |-> "release", fork |-> g, reply |-> m]
      BY <1>8
    <3>2. \A i \in 1..Len(command) : i # 1 => i - 1 \in 1..Len(command')
                                             /\ command'[i - 1] = command[i]
      BY <1>2
    <3>3. ASSUME NEW m \in Threads, NEW g \in Threads, Releasing(m, g) PROVE Releasing(m, g)'
      <4>1. PICK i \in 1..Len(command) :
                 command[i] = [op |-> "release", fork |-> g, reply |-> m]
        BY <3>3 DEF Releasing
      <4> QED BY <3>1, <3>2, <4>1 DEF Releasing
    <3>4. ASSUME NEW m \in Threads, NEW g \in Threads, Releasing(m, g)' PROVE Releasing(m, g)
      <4>1. PICK i \in 1..Len(command') :
                 command'[i] = [op |-> "release", fork |-> g, reply |-> m]
        BY <3>4 DEF Releasing
      <4>2. i + 1 \in 1..Len(command) /\ command[i + 1] = command'[i]
        BY <1>2
      <4> QED BY <4>1, <4>2 DEF Releasing
    <3> QED BY <3>3, <3>4
  <2>4. AcquireFork(f, n)
    BY <1>2, <1>3, <1>8 DEF Recv
  <2>5. CASE fork[f] = Free
    <3>1. /\ fork' = [fork EXCEPT ![f] = InUse] /\ server' = "reply" /\ to' = n
      <4>1. (CASE fork[f] = Free -> InUse [] fork[f] = InUse -> InUseWait(n)
               [] OTHER -> fork[f]) = InUse
        BY <2>5, ForkStates, CaseOf, Zenon
      <4>2. (CASE fork[f] = Free -> "reply" [] fork[f] = InUse -> "recv"
               [] OTHER -> "panic") = "reply"
        BY <2>5, ForkStates, CaseOf, Zenon
      <4> QED BY <2>4, <4>1, <4>2, Zenon DEF AcquireFork
    <3>2. ServerInv'
      BY <1>1, <1>2, <1>i, <1>t, <3>1 DEF ServerInv, ForkState, InChannel
    <3>3. \A m \in Threads : Answered(m)' <=> Answered(m) \/ m = n
      BY <1>1, <1>7, <3>1 DEF Answered
    <3>4. \A m \in Threads, g \in Threads : fork'[g] = InUseWait(m) => fork[g] = InUseWait(m)
      BY <1>t, <3>1, ForkStates
    <3>5. AnswerInv'
      <4>1. \A m \in Threads : m # n => (Answered(m)' <=> Answered(m))
        BY <3>3
      <4>2. reply'[n] # 1
        BY <1>1, <1>7, <2>1
      <4>3. \A g \in Threads : fork[g] # InUseWait(n)
        BY <1>2, <1>3 DEF AnswerInv, Silent
      <4>4. to' = n
        BY <3>1
      <4> QED BY <1>1, <1>5, <1>6, <2>1, <2>2, <3>4, <4>1, <4>2, <4>3, <4>4 DEF AnswerInv
    <3>6. \A m, g \in Threads : Owns(m, g)' <=> Owns(m, g) \/ (m = n /\ g = f)
      BY <1>1, <1>5, <2>1, <2>3, <3>3 DEF Owns
    <3>7. \A m \in Threads : ~Owns(m, f)
      BY <2>5 DEF OwnInv
    <3>8. OwnInv'
      BY <1>t, <3>1, <3>6, <3>7, ForkStates DEF OwnInv
    <3>9. CommandInv'
      <4>1. ASSUME NEW i \in 1..Len(command'), NEW m \in Threads, NEW g \in Threads,
                   command'[i].reply = m, command'[i].fork = g
            PROVE  /\ command'[i].op = "acquire" => AcquireInv(i, m, g)'
                   /\ command'[i].op = "release" => ReleaseInv(i, m, g)'
        <5>1. m # n
          BY <2>2, <4>1 DEF Silent
        <5>2. command'[i].op = "acquire" => fork[g] # InUseWait(m)
          BY <1>2, <4>1 DEF CommandInv, AcquireInv
        <5> QED BY <1>1, <3>3, <3>4, <4>1, <5>1, <5>2, StillThere
      <4> QED BY <4>1 DEF CommandInv
    <3> QED BY <1>4, <3>2, <3>5, <3>8, <3>9
  <2>6. CASE fork[f] = InUse
    <3>1. /\ fork' = [fork EXCEPT ![f] = InUseWait(n)] /\ server' = "recv" /\ to' = n
      <4>1. (CASE fork[f] = Free -> InUse [] fork[f] = InUse -> InUseWait(n)
               [] OTHER -> fork[f]) = InUseWait(n)
        BY <2>6, ForkStates, CaseOf, Zenon
      <4>2. (CASE fork[f] = Free -> "reply" [] fork[f] = InUse -> "recv"
               [] OTHER -> "panic") = "recv"
        BY <2>6, ForkStates, CaseOf, Zenon
      <4> QED BY <2>4, <4>1, <4>2, Zenon DEF AcquireFork
    <3>2. ServerInv'
      BY <1>1, <1>2, <1>i, <1>t, <3>1 DEF ServerInv, ForkState, InChannel
    <3>3. \A m \in Threads : Answered(m)' <=> Answered(m)
      BY <1>1, <1>7, <3>1 DEF Answered
    <3>4. \A m \in Threads, g \in Threads : fork'[g] = InUseWait(m) =>
             fork[g] = InUseWait(m) \/ (m = n /\ g = f)
      BY <1>t, <3>1, ForkStates
    <3>5. AnswerInv'
      BY <1>1, <1>5, <1>6, <2>1, <2>2, <3>1, <3>3, <3>4 DEF AnswerInv
    <3>6. \A m, g \in Threads : Owns(m, g)' <=> Owns(m, g)
      BY <1>1, <1>5, <2>3, <3>3 DEF Owns
    <3>7. \A g \in Threads : fork'[g] = Free <=> fork[g] = Free
      BY <1>t, <2>6, <3>1, ForkStates
    <3>8. OwnInv'
      BY <3>6, <3>7 DEF OwnInv
    <3>9. CommandInv'
      <4>1. ASSUME NEW i \in 1..Len(command'), NEW m \in Threads, NEW g \in Threads,
                   command'[i].reply = m, command'[i].fork = g
            PROVE  /\ command'[i].op = "acquire" => AcquireInv(i, m, g)'
                   /\ command'[i].op = "release" => ReleaseInv(i, m, g)'
        <5>1. m # n
          BY <2>2, <4>1 DEF Silent
        <5>2. command'[i].op = "acquire" => fork[g] # InUseWait(m)
          BY <1>2, <4>1 DEF CommandInv, AcquireInv
        <5> QED BY <1>1, <3>3, <3>4, <4>1, <5>1, <5>2, StillThere
      <4> QED BY <4>1 DEF CommandInv
    <3> QED BY <1>4, <3>2, <3>5, <3>8, <3>9
  <2> QED BY <2>1, <2>5, <2>6
<1>9. CASE command[1].op = "release"
  <2>1. /\ f \notin Has(n) /\ ~Answered(n)
        /\ \A i \in 1..Len(command) :
              command[i].op = "release" /\ command[i].fork = f => i = 1
        /\ \A m \in Threads : Owns(m, f) <=> m = n
        /\ fork[f] # Free /\ fork[f] # InUseWait(n)
    BY <1>2, <1>3, <1>9, HeadRelease
  <2>2. /\ \A m, g \in Threads : g # f => (Releasing(m, g)' <=> Releasing(m, g))
        /\ \A m \in Threads : ~Releasing(m, f)'
    <3>1. \A m, g \in Threads : command[1] = [op |-> "release", fork |-> g, reply |-> m]
                                   => g = f
      BY <1>3
    <3>2. \A i \in 1..Len(command) : i # 1 => i - 1 \in 1..Len(command')
                                             /\ command'[i - 1] = command[i]
      BY <1>2
    <3>3. \A i \in 1..Len(command') : i + 1 \in 1..Len(command) /\ i + 1 # 1
      BY <1>2
    <3>4. \A i \in 1..Len(command') : ~(command'[i].op = "release" /\ command'[i].fork = f)
      BY <1>2, <2>1, <3>3
    <3>5. ASSUME NEW m \in Threads, NEW g \in Threads, g # f, Releasing(m, g)
          PROVE  Releasing(m, g)'
      <4>1. PICK i \in 1..Len(command) :
                 command[i] = [op |-> "release", fork |-> g, reply |-> m]
        BY <3>5 DEF Releasing
      <4>2. i # 1
        BY <3>1, <3>5, <4>1
      <4> QED BY <3>2, <4>1, <4>2 DEF Releasing
    <3>6. ASSUME NEW m \in Threads, NEW g \in Threads, Releasing(m, g)'
          PROVE  Releasing(m, g) /\ g # f
      <4>1. PICK i \in 1..Len(command') :
                 command'[i] = [op |-> "release", fork |-> g, reply |-> m]
        BY <3>6 DEF Releasing
      <4>2. i + 1 \in 1..Len(command) /\ command[i + 1] = command'[i]
        BY <1>2
      <4>3. command'[i].op = "release" /\ command'[i].fork = g
        BY <4>1
      <4> QED BY <3>4, <4>1, <4>2, <4>3 DEF Releasing
    <3> QED BY <3>5, <3>6
  <2>3. \A m \in Threads : m # n => f \notin Has(m) /\ ~(at[m] = "await" /\ Answered(m) /\ TheFork(m) = f)
    BY <2>1 DEF Owns
  <2>4. ReleaseFork(f)
    BY <1>2, <1>3, <1>9 DEF Recv
  <2>5. CASE fork[f] = InUse
    <3>1. fork' = [fork EXCEPT ![f] = Free] /\ server' = "recv" /\ to' = to
      <4>1. (CASE fork[f] = Free -> "panic" [] fork[f] = InUse -> "recv"
               [] OTHER -> "reply") = "recv"
        BY <2>5, ForkStates, CaseOf, Zenon
      <4>2. fork[f].waiter = {}
        BY <2>5, ForkStates
      <4> QED BY <2>4, <4>1, <4>2, Zenon DEF ReleaseFork
    <3>2. ServerInv'
      BY <1>1, <1>2, <1>i, <1>t, <3>1 DEF ServerInv, ForkState, InChannel
    <3>3. \A m \in Threads : Answered(m)' <=> Answered(m)
      BY <1>1, <1>7, <3>1 DEF Answered
    <3>4. \A m \in Threads, g \in Threads : fork'[g] = InUseWait(m) => fork[g] = InUseWait(m)
      BY <1>t, <3>1, ForkStates
    <3>5. AnswerInv'
      BY <1>1, <1>5, <1>6, <3>1, <3>3, <3>4 DEF AnswerInv
    <3>6. \A m, g \in Threads : g # f => (Owns(m, g)' <=> Owns(m, g))
      BY <1>1, <1>5, <2>2, <3>3 DEF Owns
    <3>7. \A m \in Threads : ~Owns(m, f)'
      BY <1>1, <1>5, <2>1, <2>2, <2>3, <3>3 DEF Owns
    <3>8. OwnInv'
      BY <1>t, <3>1, <3>6, <3>7 DEF OwnInv
    <3>9. CommandInv'
      <4>1. ASSUME NEW i \in 1..Len(command'), NEW m \in Threads, NEW g \in Threads,
                   command'[i].reply = m, command'[i].fork = g
            PROVE  /\ command'[i].op = "acquire" => AcquireInv(i, m, g)'
                   /\ command'[i].op = "release" => ReleaseInv(i, m, g)'
        <5>1. command'[i].op = "acquire" => fork[g] # InUseWait(m)
          BY <1>2, <4>1 DEF CommandInv, AcquireInv
        <5> QED BY <1>1, <3>3, <3>4, <4>1, <5>1, StillThere
      <4> QED BY <4>1 DEF CommandInv
    <3> QED BY <1>4, <3>2, <3>5, <3>8, <3>9
  <2>6. ASSUME NEW w \in Threads, fork[f] = InUseWait(w) PROVE ForksInv'
    <3>0. /\ at[w] = "await" /\ f = TheFork(w) /\ Silent(w) /\ ~Answered(w) /\ w # n
      BY <2>1, <2>6 DEF AnswerInv
    <3>1. fork' = [fork EXCEPT ![f] = InUse] /\ server' = "reply" /\ to' = w
      <4>1. (CASE fork[f] = Free -> "panic" [] fork[f] = InUse -> "recv"
               [] OTHER -> "reply") = "reply"
        BY <2>6, ForkStates, CaseOf, Zenon
      <4>2. fork[f].waiter = {w}
        BY <2>6, ForkStates
      <4>3. (CHOOSE x \in {w} : TRUE) = w
        OBVIOUS
      <4> QED BY <2>4, <4>1, <4>2, <4>3, Zenon DEF ReleaseFork
    <3>2. ServerInv'
      BY <1>1, <1>2, <1>i, <1>t, <3>1 DEF ServerInv, ForkState, InChannel
    <3>3. \A m \in Threads : Answered(m)' <=> Answered(m) \/ m = w
      BY <1>1, <1>7, <3>1 DEF Answered
    <3>4. \A m \in Threads, g \in Threads : fork'[g] = InUseWait(m) =>
             fork[g] = InUseWait(m) /\ g # f
      BY <1>t, <3>1, ForkStates
    <3>5. AnswerInv'
      <4>1. \A m \in Threads : m # w => (Answered(m)' <=> Answered(m))
        BY <3>3
      <4>2. reply'[w] # 1
        BY <1>1, <1>7, <3>0
      <4>3. \A g \in Threads : g # f => fork[g] # InUseWait(w)
        BY <3>0 DEF AnswerInv
      <4>4. to' = w
        BY <3>1
      <4> QED BY <1>1, <1>5, <1>6, <3>0, <3>4, <4>1, <4>2, <4>3, <4>4 DEF AnswerInv
    <3>6. \A m, g \in Threads : g # f => (Owns(m, g)' <=> Owns(m, g))
      BY <1>1, <1>5, <2>2, <3>0, <3>3 DEF Owns
    <3>7. \A m \in Threads : Owns(m, f)' <=> m = w
      BY <1>1, <1>5, <2>1, <2>2, <2>3, <3>0, <3>3 DEF Owns
    <3>8. OwnInv'
      BY <1>t, <3>1, <3>6, <3>7, ForkStates DEF OwnInv
    <3>9. CommandInv'
      <4>1. ASSUME NEW i \in 1..Len(command'), NEW m \in Threads, NEW g \in Threads,
                   command'[i].reply = m, command'[i].fork = g
            PROVE  /\ command'[i].op = "acquire" => AcquireInv(i, m, g)'
                   /\ command'[i].op = "release" => ReleaseInv(i, m, g)'
        <5>1. command'[i].op = "acquire" => fork[g] # InUseWait(m)
          BY <1>2, <4>1 DEF CommandInv, AcquireInv
        <5>2. m # w
          BY <1>6, <3>0, <4>1 DEF Silent
        <5> QED BY <1>1, <3>3, <3>4, <4>1, <5>1, <5>2, StillThere
      <4> QED BY <4>1 DEF CommandInv
    <3> QED BY <1>4, <3>2, <3>5, <3>8, <3>9
  <2> QED BY <1>t, <2>1, <2>5, <2>6 DEF ForkState
<1> QED BY <1>3, <1>8, <1>9

-----------------------------------------------------------------------------
(* Philosophers: the theorems.                                             *)

\* All forks are free at first.
LEMMA InitForks == Init => ForksInv
<1> SUFFICES ASSUME Init PROVE ForksInv
  OBVIOUS
<1>1. PhilInv
  BY DEF Init, PhilInv, PhilPC, InKernel, InChannel
<1>2. CondInv
  BY DEF Init, MutexInit, CondInv
<1>3. /\ fork = [i \in Threads |-> Free] /\ reply = [n \in Threads |-> 0]
      /\ Len(command) = 0 /\ server = "recv" /\ to \in Threads
  BY PhilAssumption DEF Init
<1>4. ServerInv
  BY <1>3 DEF Init, ServerInv, ForkState
<1>5. CommandInv
  BY <1>3 DEF CommandInv
<1>6. AnswerInv
  <2>q. reply = [n \in Threads |-> 0]
    BY <1>3, Zenon
  <2>r. \A n \in Threads : reply[n] # 1
    <3>1. \A n \in Threads : reply[n] = 0
      BY <2>q
    <3>2. 0 # 1
      OBVIOUS
    <3> QED BY <3>1, <3>2, Zenon
  <2>s. server # "reply"
    BY <1>3
  <2>1. \A n \in Threads : reply[n] # 1 /\ ~Answered(n)
    BY <2>r, <2>s, Zenon DEF Answered
  <2>2. \A n, f \in Threads : fork[f] # InUseWait(n)
    BY <1>3, ForkStates
  <2> QED BY <2>1, <2>2, Zenon DEF AnswerInv
<1>7. \A n, f \in Threads : ~Owns(n, f)
  BY <1>3 DEF Init, Owns, Releasing, Answered, Has, Having
<1>8. OwnInv
  BY <1>3, <1>7 DEF OwnInv
<1> QED BY <1>1, <1>2, <1>4, <1>5, <1>6, <1>8 DEF ForksInv

\* Every step of the samples preserves the invariant.
LEMMA NextForks == IInv /\ ForksInv /\ [Next]_vars => ForksInv'
<1> SUFFICES ASSUME IInv, ForksInv, [Next]_vars PROVE ForksInv'
  OBVIOUS
<1>1. CASE UNCHANGED vars
  <2>1. UNCHANGED <<config, fork, at, side, pc, command, reply, server, to>>
    BY <1>1 DEF vars, philVars, serverVars, mutexVars
  <2>2. PhilInv' /\ CondInv'
    BY <2>1 DEF ForksInv, PhilInv, CondInv, InKernel, InChannel
  <2>3. \A n \in Threads : Has(n)' = Has(n)
    BY <2>1 DEF Has, TheFork
  <2> QED BY <2>1, <2>2, <2>3, SameForks DEF serverVars
<1>2. CASE Server
  BY <1>2, RecvStep, ReplyStep DEF Server
<1>3. ASSUME NEW n \in Threads, PhilStep(n) \/ ClientStep(n) PROVE ForksInv'
  BY <1>3, SleepStep, MutexStep, CondSyncStep, KTakeStep, KReleaseStep,
     SendAcquireStep, SendReleaseStep, RecvReplyStep
     DEF PhilStep, CondStep, SendStep
<1> QED BY <1>1, <1>2, <1>3 DEF Next

\* The samples use the mutex as its specification allows, so what is proved of
\* MutexSpec holds in them: the forks of CondSync are never touched by two.
THEOREM SamplesUseMutex == Spec => MutexSpec
<1>1. Init => MutexInit
  BY DEF Init
<1> QED BY <1>1, CallsMutex, PTL DEF Spec, MutexSpec

\* The invariants of the mutex and of the forks hold throughout the samples.
THEOREM ForksInvariant == Spec => [](IInv /\ ForksInv)
<1>1. Spec => []IInv
  BY SamplesUseMutex, InductiveInvariant, PTL
<1> QED BY <1>1, InitForks, NextForks, PTL DEF Spec

\* For any number of philosophers and with every implementation of ForkSync, no
\* two of them have the same fork, the implementation agrees on which forks are
\* in use, and the server never meets a state it panics on.
THEOREM ForksNeverShared == Spec => []ForksExclusive
<1>1. ForksInv => ForksExclusive
  <2> SUFFICES ASSUME ForksInv PROVE ForksExclusive
    OBVIOUS
  <2>1. \A n \in Threads : \A f : f \in Has(n) => f \in Threads /\ Owns(n, f)
    BY TwoForks DEF ForksInv, PhilInv, Has, TheFork, Owns
  <2>2. \A m, n \in Threads : m # n => Has(m) \cap Has(n) = {}
    BY <2>1 DEF ForksInv, OwnInv
  <2>3. \A f \in Threads : fork[f].in_use <=> fork[f] # Free
    BY ForkStates DEF ForksInv, ServerInv
  <2>4. \A n \in Threads : \A f \in Has(n) : fork[f].in_use
    BY <2>1, <2>3 DEF ForksInv, OwnInv
  <2>5. ~InChannel => \A f \in Threads : fork[f].in_use => \E n \in Threads : f \in Has(n)
    BY <2>3, OwnsLocally DEF ForksInv, OwnInv
  <2>6. server # "panic"
    BY DEF ForksInv, ServerInv
  <2> QED BY <2>2, <2>4, <2>5, <2>6 DEF ForksExclusive
<1> QED BY <1>1, ForksInvariant, PTL

\* A philosopher never waits on the condition variable for a fork that is free
\* and about which everybody has been told.
THEOREM NoWakeupLost == Spec => []NoLostWakeup
<1> DEFINE J == IInv /\ ForksInv
<1>1. Init => NoLostWakeup
  BY DEF Init, MutexInit, NoLostWakeup
<1>2. J /\ J' /\ NoLostWakeup /\ [Next]_vars => NoLostWakeup'
  <2> SUFFICES ASSUME IInv, ForksInv, ForksInv', NoLostWakeup, [Next]_vars,
                      NEW n \in Threads, config' = "condvar",
                      pc'[n] \in {"pend", "waiting"}
               PROVE  fork'[TheFork(n)'].in_use \/ \E m \in Threads : at'[m] = "cleared"
    BY DEF NoLostWakeup
  <2>1. config = "condvar" /\ ~InChannel /\ ~InKernel
    BY DEF Next, Server, Recv, Reply, PhilStep, SleepEnds, AsyncSleepEnds, CondStep,
       LockForks, TakeWaits, Take, TakeReturns, Release, ReleaseNotifies,
       ReleaseReturns, KTake, KRelease, SendStep, SendAcquire, SendRelease, Send,
       RecvReply, ClientStep, vars, InChannel, InKernel
  <2>2. at'[n] = "take"
    BY DEF ForksInv, CondInv
  <2>3. \A m \in Threads : pc[m] = "pend" => owner = m
    BY DEF IInv, GuardInv, UnlocksBalance, OwnsUnguarded
  <2>4. \A m \in Threads : pc[m] = "held" => owner = m
    BY DEF IInv, GuardInv, UnlocksBalance
  <2>5. TheFork(n) \in Threads /\ \A f \in Threads : fork[f].in_use <=> fork[f] # Free
    BY TwoForks, ForkStates DEF ForksInv, PhilInv, ServerInv, TheFork
  <2>6. ASSUME UNCHANGED <<fork, at, side>>, pc[n] \in {"pend", "waiting"}
        PROVE  fork'[TheFork(n)'].in_use \/ \E m \in Threads : at'[m] = "cleared"
    BY <2>1, <2>6 DEF NoLostWakeup, TheFork
  <2>7. CASE UNCHANGED vars
    BY <2>6, <2>7 DEF vars, mutexVars, philVars
  <2>8. CASE Server
    BY <2>1, <2>8 DEF Server, Recv, Reply, ForksInv, ServerInv
  <2>9. ASSUME NEW m \in Threads, PhilStep(m) \/ ClientStep(m)
        PROVE  fork'[TheFork(n)'].in_use \/ \E k \in Threads : at'[k] = "cleared"
    <3> USE DEF Goes, Taken, Released
    <3>1. CASE SleepEnds(m)
      <4>1. m # n
        BY <3>1 DEF SleepEnds, mutexVars, IInv, MutexTypeOK
      <4>2. /\ UNCHANGED <<fork, side, pc>>
            /\ \A k \in Threads : at[k] = "cleared" => at'[k] = "cleared"
        BY <3>1 DEF SleepEnds, mutexVars, ForksInv, PhilInv
      <4> QED BY <2>1, <4>2 DEF NoLostWakeup, TheFork
    <3>2. CASE AsyncSleepEnds(m) \/ KTake(m) \/ KRelease(m) \/ SendStep(m) \/ RecvReply(m)
                  \/ ClientStep(m)
      BY <2>1, <3>2 DEF AsyncSleepEnds, KTake, KRelease, SendStep, SendAcquire,
         SendRelease, Send, RecvReply, ClientStep, ForksInv, PhilInv
    <3>3. CASE InCall(m) /\ UNCHANGED <<config, fork, philVars, serverVars>>
      <4>1. pc[n] \in {"pend", "waiting"}
        BY <3>3, CallMoves
      <4> QED BY <2>6, <3>3, <4>1 DEF philVars
    <3>4. CASE LockForks(m)
      <4>1. pc[n] \in {"pend", "waiting"}
        BY <3>4 DEF LockForks, Lock, LockBlocks, KMutexTake, IInv, MutexTypeOK
      <4> QED BY <2>6, <3>4, <4>1 DEF LockForks, philVars
    <3>5. CASE TakeWaits(m)
      <4>1. CASE m = n
        BY <3>5, <4>1 DEF TakeWaits, philVars, TheFork
      <4>2. CASE m # n
        <5>1. pc[n] \in {"pend", "waiting"}
          BY <3>5, <4>2 DEF TakeWaits, Wait, IInv, MutexTypeOK
        <5> QED BY <2>6, <3>5, <5>1 DEF TakeWaits, philVars
      <4> QED BY <4>1, <4>2
    <3>6. CASE Take(m)
      <4>1. /\ UNCHANGED <<pc, side>>
            /\ \A k \in Threads : at[k] = "cleared" => at'[k] = "cleared"
            /\ fork' = [fork EXCEPT ![TheFork(m)] = InUse]
        BY <3>6 DEF Take, mutexVars, ForksInv, PhilInv
      <4>2. TheFork(n)' = TheFork(n)
        BY <4>1 DEF TheFork
      <4>3. fork[TheFork(n)] # Free => fork'[TheFork(n)] # Free
        BY <2>5, <4>1, ForkStates DEF ForksInv, ServerInv
      <4>4. fork'[TheFork(n)].in_use <=> fork'[TheFork(n)] # Free
        BY <2>5, <4>2, ForkStates DEF ForksInv, ServerInv
      <4> QED BY <2>1, <2>5, <4>1, <4>2, <4>3, <4>4 DEF NoLostWakeup
    <3>7. CASE Release(m)
      BY <3>7 DEF Release, ForksInv, PhilInv
    <3>8. CASE ReleaseNotifies(m)
      <4>1. pc[m] = "held" /\ pc[n] = "pend"
        BY <3>8 DEF ReleaseNotifies, NotifyAll, Waiting, IInv, MutexTypeOK
      <4> QED BY <2>3, <2>4, <4>1
    <3>9. CASE TakeReturns(m) \/ ReleaseReturns(m)
      <4>1. /\ pc[n] \in {"pend", "waiting"} /\ m # n /\ fork' = fork
            /\ \A k \in Threads : at[k] = "cleared" => at'[k] = "cleared"
        BY <3>9 DEF TakeReturns, ReleaseReturns, DropGuard, IInv, MutexTypeOK,
           ForksInv, PhilInv
      <4>2. TheFork(n)' = TheFork(n)
        BY <3>9, <4>1 DEF TakeReturns, ReleaseReturns, TheFork, ForksInv, PhilInv
      <4> QED BY <2>1, <4>1, <4>2 DEF NoLostWakeup
    <3> QED BY <2>9, <3>1, <3>2, <3>3, <3>4, <3>5, <3>6, <3>7, <3>8, <3>9
            DEF PhilStep, CondStep
  <2> QED BY <2>7, <2>8, <2>9 DEF Next
<1> QED BY <1>1, <1>2, ForksInvariant, PTL DEF Spec

-----------------------------------------------------------------------------
(* Bench: the inductive invariant.                                         *)

Members == {Group[i] : i \in 1..Len(Group)}

Job == [op : Ops \cup {"none", "returning"}, round : {0, 1}, done : Nat]

BenchTypeOK ==
    /\ harness \in {"threads", "executors", "embassy", "simple"}
    /\ caller \in {"calls", "waits"}
    /\ end_wait \in {0, 1}
    /\ main \in {"command", "start", "collect", "spawn failed"}
    /\ doing \in Ops
    /\ round \in {0, 1}
    /\ started \in Nat
    /\ answered \in SUBSET Everyone
    /\ inbox \in [Everyone -> Seq(Job)]
    /\ job \in [Everyone -> Job]
    /\ sem \in [Sems -> Nat]
    /\ results \in Seq([from : Everyone, round : {0, 1}])

\* A run is called for, under way, or about to return, and never two of these.
CallInv ==
    IF caller = "calls" THEN commands = <<>> /\ end_wait = 0 /\ main = "command"
    ELSE \/ (\E c \in Commands : commands = <<c>>) /\ end_wait = 0 /\ main = "command"
         \/ commands = <<>> /\ (end_wait = 1 <=> main = "command")

\* The member's result is with main or in the channel.
Sent(m) == \E i \in 1..Len(results) : results[i].from = m
Replied(m) == m \in answered \/ Sent(m)

Total(m) == Iters * Len(Program(doing, m))

\* How many operations of this run a member has done.
Progress(m) ==
    IF Works(m) THEN job[m].done ELSE IF Replied(m) THEN Total(m) ELSE 0

\* Between two runs nobody works, and nothing is left.
RestInv ==
    /\ \A m \in Everyone : ~Busy(m)
    /\ results = <<>>
    /\ sem = [s \in Sems |-> 0]

\* During a run the command of a member, its work, its result in the channel
\* and its answer at main are four things of which there is one at most.
PlaceInv ==
    /\ doing \in Commands
    /\ \A m \in Everyone :
          /\ inbox[m] # <<>> => inbox[m] = <<NextJob>> /\ ~Works(m) /\ ~Replied(m)
          /\ Works(m) => /\ job[m].op = doing /\ job[m].round = round
                         /\ job[m].done <= Total(m) /\ ~Replied(m)
          /\ m \in answered => ~Sent(m)
          /\ Busy(m) \/ Replied(m) => m \in Members
    /\ \A i, j \in 1..Len(results) :
          /\ results[i].round = round
          /\ results[i].from = results[j].from => i = j

\* Who has been given the command, and how many answers are missing.
StartInv ==
    /\ main = "start" =>
          /\ started < Len(Group)
          /\ \A i \in 1..Len(Group) :
                IF i <= started THEN Busy(Group[i]) \/ Replied(Group[i])
                ELSE ~Busy(Group[i]) /\ ~Replied(Group[i])
    /\ main = "collect" => \A m \in Members : Busy(m) \/ Replied(m)
    /\ main \in {"start", "collect"} => msg_count = Cardinality(Members \ answered)

Zero == [s \in Sems |-> 0]

\* How often the giver of d semaphores, in turn, has given that of worker w.
Gave(d, w) == d \div NumThreads + (IF w < d % NumThreads THEN 1 ELSE 0)

Giver == IF doing = "SemHigh" THEN High ELSE Low

\* A worker between its ping and its pong.
Odd(w) == Progress(w) % 2 = 1

\* One ping is under way at most: it is in the semaphore, or answered, or with
\* a worker, while low waits for the answer of worker id.
PingOut(id) ==
    \/ /\ \A w \in Workers : ~Odd(w)
       /\ \/ sem = [Zero EXCEPT ![<<"sem", Ping(doing, id)>>] = 1]
          \/ sem = [Zero EXCEPT ![<<"back", Pong(doing, id)>>] = 1]
    \/ /\ sem = Zero
       /\ \E w \in Workers : /\ Odd(w) /\ \A v \in Workers : Odd(v) => v = w
                             /\ Pong(doing, w) = Pong(doing, id)

\* The next operation of low, in its iteration.
LowAt == Progress(Low) % (2 * NumThreads)

PingPongInv ==
    IF LowAt % 2 = 0 THEN sem = Zero /\ \A w \in Workers : ~Odd(w)
    ELSE \E id \in Workers : id = LowAt \div 2 /\ PingOut(id)

\* What the operations done so far leave in the semaphores.
SemInv ==
    CASE doing = "Empty" -> sem = Zero
      [] doing \in {"SimpleSem", "SimpleSemYield"} ->
            \A w \in Workers :
                sem[<<"sem", w>>] = Progress(w) % 2 /\ sem[<<"back", w>>] = 0
      [] doing \in {"SemWait", "SemWaitSame", "SemHigh"} ->
            \A w \in Workers :
                /\ sem[<<"sem", w>>] + Progress(w) = Gave(Progress(Giver), w)
                /\ sem[<<"back", w>>] = 0
      [] OTHER -> PingPongInv

GroupInv ==
    /\ CallInv
    /\ main = "command" => RestInv
    /\ main # "command" => PlaceInv /\ StartInv /\ SemInv

-----------------------------------------------------------------------------
(* Simple.                                                                 *)

\* The worker items in turn, k of them moved to the end.
Turned(k) ==
    [i \in 1..NumThreads |-> IF k + i - 1 < NumThreads THEN k + i - 1
                                                       ELSE k + i - 1 - NumThreads]

\* q rounds and r more worker items have acted; main is to act next, or the
\* item that it has submitted.
SimpleAt(q, r) ==
    /\ acted = [w \in Workers |-> IF w < r THEN q + 1 ELSE q]
    /\ \/ /\ workq = <<MainItem>> /\ works = Turned(r)
          /\ count \in Nat /\ count + q * NumThreads + r = NumThreads * Iters
       \/ /\ workq = <<r>> /\ works = Turned(r + 1)
          /\ count \in Nat /\ count + 1 + q * NumThreads + r = NumThreads * Iters

SimpleInv ==
    /\ commands = <<>> /\ main = "command" /\ RestInv
    /\ \/ caller = "calls" /\ end_wait = 0 /\ workq = <<>>
       \/ /\ caller = "waits" /\ end_wait = 1 /\ workq = <<>>
          /\ acted = [w \in Workers |-> Iters]
       \/ /\ caller = "waits" /\ end_wait = 0
          /\ \E q \in Nat, r \in 0..NumThreads-1 : SimpleAt(q, r)

BenchInv ==
    /\ BenchTypeOK
    /\ IF harness = "simple" THEN SimpleInv ELSE workq = <<>> /\ GroupInv
-----------------------------------------------------------------------------
(* Arithmetic.                                                             *)

\* Quotient and remainder are what they are known by.
LEMMA DivMod ==
    ASSUME NEW n \in Nat \ {0}, NEW q \in Nat, NEW r \in 0..n-1
    PROVE  (q * n + r) % n = r /\ (q * n + r) \div n = q
<1>1. (q * n + r) % n = r
  OBVIOUS
<1>2. (q * n + r) \div n = q
  OBVIOUS
<1> QED BY <1>1, <1>2

\* A multiple leaves nothing.
LEMMA DivMultiple ==
    ASSUME NEW i \in Nat, NEW n \in Nat \ {0}
    PROVE  i * n \in Nat /\ (i * n) % n = 0 /\ (i * n) \div n = i
<1>1. i * n \in Nat
  OBVIOUS
<1>2. (i * n) % n = 0
  OBVIOUS
<1>3. (i * n) \div n = i
  OBVIOUS
<1> QED BY <1>1, <1>2, <1>3

\* The remainder and the quotient of a number that is one more.
LEMMA DivStep ==
    ASSUME NEW d \in Nat, NEW n \in Nat \ {0}
    PROVE  /\ d % n \in 0..n-1 /\ d \div n \in Nat
           /\ (d + 1) % n = IF (d % n) + 1 = n THEN 0 ELSE (d % n) + 1
           /\ (d + 1) \div n = IF (d % n) + 1 = n THEN d \div n + 1 ELSE d \div n
<1>1. d % n \in 0..n-1
  OBVIOUS
<1>2. d \div n \in Nat
  OBVIOUS
<1>3. d = (d \div n) * n + (d % n)
  OBVIOUS
<1>4. PICK q \in Nat, r \in 0..n-1 : q = d \div n /\ r = d % n /\ d = q * n + r
  BY <1>1, <1>2, <1>3
<1>5. CASE r + 1 = n
  <2>1. d + 1 = (q + 1) * n
    BY <1>4, <1>5
  <2>2. PICK p \in Nat : p = q + 1
    OBVIOUS
  <2>3. (p * n) % n = 0 /\ (p * n) \div n = p
    BY DivMultiple
  <2>4. (d + 1) % n = 0 /\ (d + 1) \div n = q + 1
    BY <2>1, <2>2, <2>3
  <2> QED BY <1>1, <1>2, <1>4, <1>5, <2>4
<1>6. CASE r + 1 # n
  <2>1. d + 1 = q * n + (r + 1) /\ r + 1 \in 0..n-1
    BY <1>4, <1>6
  <2>2. (d + 1) % n = r + 1 /\ (d + 1) \div n = q
    BY <2>1, DivMod
  <2> QED BY <1>1, <1>2, <1>4, <1>6, <2>2
<1> QED BY <1>5, <1>6

LEMMA Parity ==
    ASSUME NEW d \in Nat
    PROVE  d % 2 \in {0, 1} /\ (d + 1) % 2 = 1 - (d % 2)
<1>1. d % 2 \in 0..1
  OBVIOUS
<1>2. (d + 1) % 2 = IF (d % 2) + 1 = 2 THEN 0 ELSE (d % 2) + 1
  BY DivStep
<1> QED BY <1>1, <1>2

\* Quotient and remainder are unique.
LEMMA DivUnique ==
    ASSUME NEW n \in Nat \ {0}, NEW q \in Nat, NEW i \in Nat, NEW r \in 0..n-1,
           q * n + r = n * i
    PROVE  q = i /\ r = 0
OBVIOUS

-----------------------------------------------------------------------------
(* The group and its programs.                                             *)

Harnesses == {"threads", "executors", "embassy"}

\* Everyone in the group is given the command once.
LEMMA GroupFacts ==
    ASSUME harness \in Harnesses
    PROVE  /\ Len(Group) \in Nat \ {0}
           /\ \A i \in 1..Len(Group) : Group[i] \in Everyone
           /\ \A i, j \in 1..Len(Group) : Group[i] = Group[j] => i = j
           /\ Workers \cup {Low} \subseteq Members
           /\ harness = "threads" => High \in Members
<1> USE BenchAssumption DEF Workers, Low, High, Everyone
<1> DEFINE ws == [i \in 1..NumThreads |-> i - 1]
<1>1. ws \in Seq(Everyone) /\ Len(ws) = NumThreads /\ \A i \in 1..NumThreads : ws[i] = i - 1
  OBVIOUS
<1>2. CASE harness = "threads"
  <2>1. Group = <<High>> \o ws \o <<Low>>
    BY <1>2 DEF Group
  <2> HIDE DEF ws
  <2>2. Len(Group) = NumThreads + 2
    BY <1>1, <2>1
  <2>3. \A i \in 1..Len(Group) :
            Group[i] = IF i = 1 THEN High ELSE IF i = NumThreads + 2 THEN Low ELSE i - 2
    BY <1>1, <2>1, <2>2
  <2>4. \A i \in 1..Len(Group) : Group[i] \in Everyone
    BY <2>2, <2>3
  <2>5. \A i, j \in 1..Len(Group) : Group[i] = Group[j] => i = j
    BY <2>2, <2>3
  <2>6. Group[1] = High /\ Group[NumThreads + 2] = Low
    BY <2>2, <2>3
  <2>7. \A w \in Workers : w + 2 \in 1..Len(Group) /\ Group[w + 2] = w
    BY <2>2, <2>3
  <2> QED BY <2>2, <2>4, <2>5, <2>6, <2>7 DEF Members
<1>3. CASE harness = "executors"
  <2>1. Group = <<High, Low>> \o ws
    BY <1>3 DEF Group
  <2> HIDE DEF ws
  <2>2. Len(Group) = NumThreads + 2
    BY <1>1, <2>1
  <2>3. \A i \in 1..Len(Group) :
            Group[i] = IF i = 1 THEN High ELSE IF i = 2 THEN Low ELSE i - 3
    BY <1>1, <2>1, <2>2
  <2>4. \A i \in 1..Len(Group) : Group[i] \in Everyone
    BY <2>2, <2>3
  <2>5. \A i, j \in 1..Len(Group) : Group[i] = Group[j] => i = j
    BY <2>2, <2>3
  <2>6. Group[2] = Low
    BY <2>2, <2>3
  <2>7. \A w \in Workers : w + 3 \in 1..Len(Group) /\ Group[w + 3] = w
    BY <2>2, <2>3
  <2>8. 2 \in 1..Len(Group)
    BY <2>2
  <2> QED BY <1>3, <2>2, <2>4, <2>5, <2>6, <2>7, <2>8 DEF Members
<1>4. CASE harness = "embassy"
  <2>1. Group = ws \o <<Low>>
    BY <1>4 DEF Group
  <2> HIDE DEF ws
  <2>2. Len(Group) = NumThreads + 1
    BY <1>1, <2>1
  <2>3. \A i \in 1..Len(Group) :
            Group[i] = IF i = NumThreads + 1 THEN Low ELSE i - 1
    BY <1>1, <2>1, <2>2
  <2>4. \A i \in 1..Len(Group) : Group[i] \in Everyone
    BY <2>2, <2>3
  <2>5. \A i, j \in 1..Len(Group) : Group[i] = Group[j] => i = j
    BY <2>2, <2>3
  <2>6. Group[NumThreads + 1] = Low
    BY <2>2, <2>3
  <2>7. \A w \in Workers : w + 1 \in 1..Len(Group) /\ Group[w + 1] = w
    BY <2>2, <2>3
  <2> QED BY <1>4, <2>2, <2>4, <2>5, <2>6, <2>7 DEF Members
<1> QED BY <1>2, <1>3, <1>4 DEF Harnesses

\* The number of results that a run waits for is that of the group.
LEMMA GroupSize ==
    ASSUME harness \in Harnesses
    PROVE  IsFiniteSet(Members) /\ Cardinality(Members) = Len(Group)
<1> DEFINE f == [i \in 1..Len(Group) |-> Group[i]]
<1>1. Len(Group) \in Nat
  BY GroupFacts
<1>2. f \in Bijection(1..Len(Group), Members)
  <2>1. f \in [1..Len(Group) -> Members]
    BY DEF Members
  <2>2. \A i, j \in 1..Len(Group) : f[i] = f[j] => i = j
    BY GroupFacts
  <2>3. \A m \in Members : \E i \in 1..Len(Group) : f[i] = m
    BY DEF Members
  <2> HIDE DEF f
  <2> QED BY <2>1, <2>2, <2>3, Fun_IsBij
<1>3. IsFiniteSet(1..Len(Group)) /\ Cardinality(1..Len(Group)) = Len(Group)
  <2> HIDE DEF f
  <2>1. 1 \in Int /\ Len(Group) \in Int /\ ~(1 > Len(Group)) /\ Len(Group) - 1 + 1 = Len(Group)
    BY <1>1, GroupFacts
  <2> QED BY <2>1, FS_Interval
<1>4. ExistsBijection(1..Len(Group), Members)
  BY <1>2 DEF ExistsBijection
<1> QED BY <1>3, <1>4, FS_Bijection

\* The group changes with the harness only, which never changes.
LEMMA SameGroup ==
    ASSUME harness' = harness
    PROVE  Group' = Group /\ Members' = Members /\ Commands' = Commands
<1>1. Group' = Group
  BY DEF Group
<1>2. Commands' = Commands
  BY DEF Commands
<1> QED BY <1>1, <1>2 DEF Members

Simple == {"SimpleSem", "SimpleSemYield"}
Waits == {"SemWait", "SemWaitSame", "SemHigh"}
PingPongs == {"SemPingPong", "SemOnePingPong"}

\* Those who have nothing to do for a command.
LEMMA NothingToDo ==
    ASSUME NEW op \in Ops, NEW m \in Everyone,
           \/ op = "Empty"
           \/ op \in Simple /\ m \notin Workers
           \/ op \in Waits /\ m \notin Workers /\ m # (IF op = "SemHigh" THEN High ELSE Low)
           \/ op \in PingPongs /\ m = High
    PROVE  Len(Program(op, m)) = 0
<1> USE BenchAssumption DEF Everyone, Workers, Low, High
<1>1. CASE m \in Workers
  <2>1. op = "Empty" /\ Program(op, m) = WorkerProgram(op, m)
    BY <1>1 DEF Program, PingPongs
  <2> QED BY <2>1 DEF WorkerProgram
<1>2. CASE m = Low
  <2>1. op \notin {"SemWait", "SemWaitSame"} \cup PingPongs
    BY <1>2 DEF Ops, Simple, Waits, PingPongs
  <2>2. Program(op, m) = LowProgram(op)
    BY <1>2 DEF Program
  <2> QED BY <2>1, <2>2 DEF LowProgram, PingPongs
<1>3. CASE m = High
  <2>1. op # "SemHigh"
    BY <1>3 DEF Ops, Simple, Waits, PingPongs
  <2>2. Program(op, m) = HighProgram(op)
    BY <1>3 DEF Program
  <2> QED BY <2>1, <2>2 DEF HighProgram
<1> QED BY <1>1, <1>2, <1>3

\* A worker gives its semaphore and takes it again.
LEMMA SimpleProgram ==
    ASSUME NEW op \in Simple, NEW w \in Workers
    PROVE  /\ Len(Program(op, w)) = 2
           /\ Program(op, w)[1] = GiveTo("sem", w)
           /\ Program(op, w)[2] \in {TakeFrom("sem", w), TryTakeFrom("sem", w)}
<1>1. Program(op, w) = WorkerProgram(op, w)
  BY BenchAssumption DEF Program, Workers, Low, High
<1>2. WorkerProgram(op, w) =
        <<GiveTo("sem", w), IF harness = "threads" THEN TryTakeFrom("sem", w)
                                                   ELSE TakeFrom("sem", w)>>
  BY DEF WorkerProgram, Simple
<1> QED BY <1>1, <1>2

\* A worker takes what the giver of all gives.
LEMMA WaitProgram ==
    ASSUME NEW op \in Waits, NEW w \in Workers
    PROVE  Program(op, w) = <<TakeFrom("sem", w)>>
<1>1. Program(op, w) = WorkerProgram(op, w)
  BY BenchAssumption DEF Program, Workers, Low, High
<1> QED BY <1>1 DEF WorkerProgram, Waits

LEMMA GiveProgram ==
    ASSUME NEW op \in Waits
    PROVE  LET all == Program(op, IF op = "SemHigh" THEN High ELSE Low)
           IN  /\ Len(all) = NumThreads
               /\ \A i \in 1..NumThreads : all[i] = GiveTo("sem", i - 1)
<1> DEFINE all == Program(op, IF op = "SemHigh" THEN High ELSE Low)
<1>1. all = GiveAll
  BY BenchAssumption DEF Program, Waits, Low, High, LowProgram, HighProgram
<1>2. /\ Len(GiveAll) = NumThreads
      /\ \A i \in 1..NumThreads : GiveAll[i] = GiveTo("sem", i - 1)
  BY BenchAssumption DEF GiveAll
<1> QED BY <1>1, <1>2

\* A worker takes a ping and gives a pong.
LEMMA PongProgram ==
    ASSUME NEW op \in PingPongs, NEW w \in Workers
    PROVE  Program(op, w) = <<TakeFrom("sem", Ping(op, w)), GiveTo("back", Pong(op, w))>>
<1>1. Program(op, w) = WorkerProgram(op, w)
  BY BenchAssumption DEF Program, Workers, Low, High
<1> QED BY <1>1 DEF WorkerProgram, PingPongs

\* low gives a ping for each worker in turn, and takes its pong.
LEMMA PingProgram ==
    ASSUME NEW op \in PingPongs
    PROVE  /\ Len(Program(op, Low)) = 2 * NumThreads
           /\ \A ix \in 0..2*NumThreads-1 :
                 Program(op, Low)[ix + 1] =
                    IF ix % 2 = 0 THEN GiveTo("sem", Ping(op, ix \div 2))
                                  ELSE TakeFrom("back", Pong(op, ix \div 2))
<1> DEFINE P == [k \in 1..2*NumThreads |->
                    LET id == (k - 1) \div 2
                    IN  IF k % 2 = 1 THEN GiveTo("sem", Ping(op, id))
                                     ELSE TakeFrom("back", Pong(op, id))]
<1>1. Program(op, Low) = P
  <2>1. Program(op, Low) = LowProgram(op)
    BY BenchAssumption DEF Program, Low, High
  <2> QED BY <2>1 DEF LowProgram, PingPongs
<1>2. 2 * NumThreads \in Nat /\ Len(P) = 2 * NumThreads
  BY BenchAssumption
<1>3. ASSUME NEW ix \in 0..2*NumThreads-1
      PROVE  P[ix + 1] = IF ix % 2 = 0 THEN GiveTo("sem", Ping(op, ix \div 2))
                                       ELSE TakeFrom("back", Pong(op, ix \div 2))
  <2>1. ix + 1 \in 1..2*NumThreads /\ (ix + 1) - 1 = ix
    BY BenchAssumption
  <2>2. (ix + 1) % 2 = 1 <=> ix % 2 = 0
    BY DivStep
  <2> QED BY <2>1, <2>2
<1> QED BY <1>1, <1>2, <1>3

\* Where a ping goes decides where its pong does.
LEMMA PingDecidesPong ==
    ASSUME NEW op, NEW v, NEW w, Ping(op, v) = Ping(op, w)
    PROVE  Pong(op, v) = Pong(op, w)
BY DEF Ping, Pong

LEMMA PingWorker ==
    ASSUME NEW op, NEW w \in Workers
    PROVE  Ping(op, w) \in Workers /\ Pong(op, w) \in Workers
BY BenchAssumption DEF Ping, Pong, Workers

\* The programs change with the harness only.
LEMMA SameProgram ==
    ASSUME harness' = harness, NEW op, NEW m
    PROVE  Program(op, m)' = Program(op, m)
<1>1. \A id : Ping(op, id)' = Ping(op, id) /\ Pong(op, id)' = Pong(op, id)
  BY DEF Ping, Pong
<1>2. WorkerProgram(op, m)' = WorkerProgram(op, m)
  BY <1>1 DEF WorkerProgram
<1>3. LowProgram(op)' = LowProgram(op)
  BY <1>1 DEF LowProgram
<1>4. HighProgram(op)' = HighProgram(op)
  BY DEF HighProgram
<1> QED BY <1>2, <1>3, <1>4 DEF Program

-----------------------------------------------------------------------------
(* The steps of a run.                                                     *)

\* What the semaphores hold is a matter of the progress of the group.
LEMMA SemKept ==
    ASSUME SemInv, UNCHANGED <<harness, doing, sem>>,
           \A m \in Everyone : Progress(m)' = Progress(m)
    PROVE  SemInv'
<1>1. /\ \A w \in Workers : Progress(w)' = Progress(w)
      /\ Progress(Low)' = Progress(Low) /\ Progress(High)' = Progress(High)
  BY DEF Everyone
<1>2. CASE doing = "Empty"
  BY <1>2 DEF SemInv
<1>3. CASE doing \in Simple
  BY <1>1, <1>3 DEF SemInv, Simple
<1>4. CASE doing \in Waits
  <2>1. Progress(Giver)' = Progress(Giver)
    BY <1>1 DEF Giver
  <2> QED BY <1>1, <1>4, <2>1 DEF SemInv, Waits, Gave
<1>5. CASE doing \notin {"Empty"} \cup Simple \cup Waits
  <2>1. PingPongInv
    BY <1>5 DEF SemInv, Simple, Waits
  <2>2. \A id : Ping(doing, id)' = Ping(doing, id) /\ Pong(doing, id)' = Pong(doing, id)
    BY DEF Ping, Pong
  <2>3. \A w \in Workers : Odd(w)' <=> Odd(w)
    BY <1>1 DEF Odd
  <2>4. \A id \in Workers : PingOut(id) => PingOut(id)'
    BY <2>2, <2>3 DEF PingOut
  <2>5. LowAt' = LowAt
    BY <1>1 DEF LowAt
  <2>6. PingPongInv'
    BY <2>1, <2>3, <2>4, <2>5 DEF PingPongInv
  <2> QED BY <1>5, <2>6 DEF SemInv, Simple, Waits
<1> QED BY <1>2, <1>3, <1>4, <1>5

\* During a run, when and how main goes on with the caller does not change.
GroupRun == BenchInv /\ harness \in Harnesses /\ main # "command"

LEMMA GroupRunFacts ==
    ASSUME GroupRun
    PROVE  /\ BenchTypeOK /\ workq = <<>> /\ CallInv /\ PlaceInv /\ StartInv /\ SemInv
           /\ caller = "waits" /\ commands = <<>> /\ end_wait = 0
<1>1. BenchTypeOK /\ workq = <<>> /\ CallInv /\ PlaceInv /\ StartInv /\ SemInv
  BY DEF GroupRun, BenchInv, GroupInv, Harnesses
<1>2. caller = "waits" /\ commands = <<>> /\ end_wait = 0
  BY <1>1 DEF GroupRun, CallInv, BenchTypeOK
<1> QED BY <1>1, <1>2

\* A step of the group, which leaves main alone, is in order when everyone is
\* as busy as before or has answered instead.
LEMMA GroupStep ==
    ASSUME GroupRun, UNCHANGED <<harness, callVars, mainVars, workq>>,
           BenchTypeOK', PlaceInv', SemInv',
           \A m \in Everyone : /\ Busy(m) \/ Replied(m) <=> (Busy(m) \/ Replied(m))'
    PROVE  BenchInv'
<1>1. /\ workq = <<>> /\ CallInv /\ StartInv /\ harness \in Harnesses
      /\ main # "command"
  BY GroupRunFacts DEF GroupRun
<1>2. /\ UNCHANGED <<harness, caller, commands, end_wait, main, doing, round,
                     started, answered, msg_count, workq>>
      /\ Group' = Group /\ Members' = Members /\ Commands' = Commands
  BY SameGroup DEF callVars, mainVars
<1>3. CallInv'
  BY <1>1, <1>2 DEF CallInv
<1>4. StartInv'
  <2>1. \A i \in 1..Len(Group) : Group[i] \in Everyone
    BY <1>1, GroupFacts
  <2>2. \A m \in Members : m \in Everyone
    BY <2>1 DEF Members
  <2> QED BY <1>1, <1>2, <2>1, <2>2 DEF StartInv
<1> QED BY <1>1, <1>2, <1>3, <1>4 DEF BenchInv, GroupInv, Harnesses

\* What a member has to do in all is a number.
LEMMA TotalNat ==
    ASSUME doing \in Ops, NEW m \in Everyone
    PROVE  Total(m) \in Nat
<1>1. Len(Program(doing, m)) \in Nat
  <2>1. CASE doing \in Simple /\ m \in Workers
    BY <2>1, SimpleProgram
  <2>2. CASE doing \in Waits /\ m \in Workers
    BY <2>2, WaitProgram
  <2>3. CASE doing \in Waits /\ m = (IF doing = "SemHigh" THEN High ELSE Low)
    BY <2>3, GiveProgram, BenchAssumption
  <2>4. CASE doing \in PingPongs /\ m \in Workers
    BY <2>4, PongProgram
  <2>5. CASE doing \in PingPongs /\ m = Low
    BY <2>5, PingProgram, BenchAssumption
  <2>6. doing = "Empty" \/ doing \in Simple \/ doing \in Waits \/ doing \in PingPongs
    BY DEF Ops, Simple, Waits, PingPongs
  <2>7. m \in Workers \/ m = Low \/ m = High
    BY DEF Everyone
  <2> QED BY <2>1, <2>2, <2>3, <2>4, <2>5, <2>6, <2>7, NothingToDo
<1> QED BY <1>1, BenchAssumption DEF Total

LEMMA JobFacts ==
    /\ Idle \in Job /\ Idle.op \notin Ops
    /\ Returning \in Job /\ Returning.op \notin Ops /\ Returning # Idle
    /\ BenchTypeOK => NextJob \in Job /\ NextJob.op = doing /\ NextJob.round = round
                      /\ NextJob.done = 0 /\ NextJob.op \in Ops
<1>1. Idle \in Job /\ Idle.op \notin Ops
  BY DEF Idle, Job, Ops
<1>2. Returning = [op |-> "returning", round |-> 0, done |-> 0]
  BY DEF Returning, Idle
<1>3. Returning \in Job /\ Returning.op \notin Ops /\ Returning # Idle
  BY <1>2 DEF Idle, Job, Ops
<1>4. BenchTypeOK => NextJob \in Job /\ NextJob.op = doing /\ NextJob.round = round
                     /\ NextJob.done = 0 /\ NextJob.op \in Ops
  BY DEF BenchTypeOK, NextJob, Job
<1> QED BY <1>1, <1>3, <1>4

\* A thread takes its command out of the channel and has done nothing of it.
LEMMA RecvCommandStep ==
    ASSUME GroupRun, NEW m \in Everyone, RecvCommand(m), UNCHANGED simpleVars
    PROVE  BenchInv'
<1>0. /\ BenchTypeOK /\ PlaceInv /\ SemInv /\ harness \in Harnesses
      /\ UNCHANGED <<harness, callVars, mainVars, workq, doing, round, answered, results, sem>>
  BY GroupRunFacts DEF GroupRun, RecvCommand, mainVars, simpleVars
<1>1. /\ inbox[m] = <<NextJob>> /\ ~Works(m) /\ ~Replied(m) /\ Busy(m) /\ m \in Members
  BY <1>0 DEF RecvCommand, PlaceInv, Busy
<1>2. /\ job' = [job EXCEPT ![m] = NextJob]
      /\ inbox' = [inbox EXCEPT ![m] = <<>>]
  BY <1>1 DEF RecvCommand
<1>3. /\ job'[m] = NextJob /\ inbox'[m] = <<>>
      /\ \A n \in Everyone \ {m} : job'[n] = job[n] /\ inbox'[n] = inbox[n]
  BY <1>0, <1>2 DEF BenchTypeOK
<1>4. BenchTypeOK'
  <2>1. job' \in [Everyone -> Job]
    BY <1>0, <1>2, JobFacts DEF BenchTypeOK
  <2>2. inbox' \in [Everyone -> Seq(Job)]
    <3>1. <<>> \in Seq(Job)
      OBVIOUS
    <3>2. inbox \in [Everyone -> Seq(Job)]
      BY <1>0 DEF BenchTypeOK
    <3> QED BY <1>2, <3>1, <3>2
  <2> QED BY <1>0, <2>1, <2>2 DEF BenchTypeOK, mainVars, callVars
<1>5. /\ \A n \in Everyone : Sent(n)' = Sent(n) /\ Replied(n)' = Replied(n)
      /\ \A n \in Everyone : Total(n)' = Total(n)
      /\ NextJob' = NextJob /\ Members' = Members /\ Commands' = Commands
  <2>1. \A n \in Everyone : Sent(n)' = Sent(n) /\ Replied(n)' = Replied(n)
    BY <1>0 DEF Sent, Replied
  <2>2. \A n \in Everyone : Total(n)' = Total(n)
    BY <1>0, SameProgram DEF Total
  <2> QED BY <1>0, <2>1, <2>2, SameGroup DEF NextJob
<1>6. /\ Works(m)' /\ Busy(m)' /\ ~Replied(m)'
      /\ \A n \in Everyone \ {m} : (Works(n)' <=> Works(n)) /\ (Busy(n)' <=> Busy(n))
  BY <1>0, <1>1, <1>3, <1>5, JobFacts DEF Works, Busy
<1>7. \A n \in Everyone : Progress(n)' = Progress(n)
  BY <1>0, <1>1, <1>3, <1>5, <1>6, JobFacts DEF Progress
<1>8. SemInv'
  BY <1>0, <1>7, SemKept
<1>9. PlaceInv'
  <2>0. doing \in Ops
    BY <1>0 DEF BenchTypeOK
  <2>1. 0 <= Total(m)
    BY <2>0, TotalNat
  <2>2. /\ Works(m)' => /\ job'[m].op = doing' /\ job'[m].round = round'
                        /\ job'[m].done <= Total(m)' /\ ~Replied(m)'
        /\ inbox'[m] = <<>> /\ m \notin answered' /\ m \in Members'
    BY <1>0, <1>1, <1>3, <1>5, <1>6, <2>1, JobFacts DEF Replied
  <2> QED BY <1>0, <1>3, <1>5, <1>6, <2>2 DEF PlaceInv
<1> QED BY <1>0, <1>1, <1>4, <1>5, <1>6, <1>8, <1>9, GroupStep

\* The storage of a task is released, which is no part of its run.
LEMMA TaskReturnsStep ==
    ASSUME BenchInv, NEW m \in Everyone, TaskReturns(m), UNCHANGED simpleVars
    PROVE  BenchInv'
<1>0. /\ BenchTypeOK
      /\ UNCHANGED <<harness, callVars, mainVars, inbox, sem, results, workq, works, count, acted>>
      /\ UNCHANGED <<caller, commands, end_wait, main, doing, round, started,
                     answered, msg_count>>
  BY DEF BenchInv, TaskReturns, simpleVars, callVars, mainVars
<1>1. job' = [job EXCEPT ![m] = Idle] /\ job[m] = Returning
  BY DEF TaskReturns
<1>2. BenchTypeOK'
  <2>1. job' \in [Everyone -> Job]
    BY <1>0, <1>1, JobFacts DEF BenchTypeOK
  <2> QED BY <1>0, <2>1 DEF BenchTypeOK
<1>3. /\ ~Works(m) /\ ~Works(m)'
      /\ \A n \in Everyone \ {m} : job'[n] = job[n]
  BY <1>0, <1>1, JobFacts DEF BenchTypeOK, Works
<1>4. \A n \in Everyone : (Works(n)' <=> Works(n)) /\ (Busy(n)' <=> Busy(n))
  BY <1>0, <1>3 DEF Works, Busy
<1>5. CASE harness = "simple"
  <2>1. SimpleInv
    BY <1>5 DEF BenchInv
  <2>2. RestInv'
    BY <1>0, <1>4, <2>1 DEF SimpleInv, RestInv
  <2>3. SimpleInv'
    BY <1>0, <2>1, <2>2 DEF SimpleInv, SimpleAt
  <2> QED BY <1>0, <1>2, <1>5, <2>3 DEF BenchInv
<1>6. CASE harness # "simple" /\ main = "command"
  <2>1. workq = <<>> /\ CallInv /\ RestInv
    BY <1>6 DEF BenchInv, GroupInv
  <2>2. RestInv'
    BY <1>0, <1>4, <2>1 DEF RestInv
  <2>3. CallInv'
    BY <1>0, <2>1, SameGroup DEF CallInv
  <2> QED BY <1>0, <1>2, <1>6, <2>1, <2>2, <2>3 DEF BenchInv, GroupInv
<1>7. CASE harness # "simple" /\ main # "command"
  <2>1. GroupRun /\ PlaceInv /\ SemInv
    <3>1. harness \in Harnesses
      BY <1>0, <1>7 DEF BenchTypeOK, Harnesses
    <3> QED BY <1>7, <3>1, GroupRunFacts DEF GroupRun
  <2>2. /\ \A n \in Everyone : Sent(n)' = Sent(n) /\ Replied(n)' = Replied(n)
        /\ \A n \in Everyone : Total(n)' = Total(n)
        /\ NextJob' = NextJob /\ Members' = Members /\ Commands' = Commands
    <3>1. \A n \in Everyone : Sent(n)' = Sent(n) /\ Replied(n)' = Replied(n)
      BY <1>0 DEF Sent, Replied
    <3>2. \A n \in Everyone : Total(n)' = Total(n)
      BY <1>0, SameProgram DEF Total
    <3> QED BY <1>0, <3>1, <3>2, SameGroup DEF NextJob
  <2>3. \A n \in Everyone : Progress(n)' = Progress(n)
    BY <1>3, <1>4, <2>2 DEF Progress
  <2>4. SemInv'
    BY <1>0, <2>1, <2>3, SemKept
  <2>5. PlaceInv'
    BY <1>0, <1>3, <1>4, <2>1, <2>2 DEF PlaceInv
  <2> QED BY <1>0, <1>2, <1>4, <2>1, <2>2, <2>4, <2>5, GroupStep
<1> QED BY <1>5, <1>6, <1>7

\* Whoever has done everything sends its result, the only one of this run.
LEMMA SendResultStep ==
    ASSUME GroupRun, NEW m \in Everyone, SendResult(m), UNCHANGED simpleVars
    PROVE  BenchInv'
<1>0. /\ BenchTypeOK /\ PlaceInv /\ SemInv /\ harness \in Harnesses
      /\ UNCHANGED <<harness, callVars, mainVars, workq, doing, round, answered, inbox, sem>>
  BY GroupRunFacts DEF GroupRun, SendResult, mainVars, simpleVars
<1>1. /\ Works(m) /\ job[m].op = doing /\ job[m].round = round /\ ~Replied(m)
      /\ inbox[m] = <<>> /\ Busy(m) /\ m \in Members /\ job[m].done = Total(m)
  BY <1>0 DEF SendResult, Finished, PlaceInv, Busy, Total
<1> DEFINE result == [from |-> m, round |-> round]
<1>2. results' = Append(results, result) /\ result.from = m /\ result.round = round
  BY <1>1 DEF SendResult
<1>3. \E j \in {Idle, Returning} : job' = [job EXCEPT ![m] = j]
  BY DEF SendResult
<1>4. BenchTypeOK'
  <2>1. job' \in [Everyone -> Job]
    BY <1>0, <1>3, JobFacts DEF BenchTypeOK
  <2>2. results' \in Seq([from : Everyone, round : {0, 1}])
    <3> DEFINE S == [from : Everyone, round : {0, 1}]
    <3>1. result \in S /\ results \in Seq(S)
      BY <1>0 DEF BenchTypeOK
    <3> HIDE DEF S, result
    <3>2. results' \in Seq(S)
      BY <1>2, <3>1
    <3> QED BY <3>2 DEF S
  <2> QED BY <1>0, <2>1, <2>2 DEF BenchTypeOK, mainVars, callVars
<1>5. /\ ~Works(m)'
      /\ \A n \in Everyone \ {m} : job'[n] = job[n]
  BY <1>0, <1>3, JobFacts DEF BenchTypeOK, Works
<1>6. /\ Len(results) \in Nat /\ Len(results') = Len(results) + 1
      /\ results'[Len(results) + 1].from = m /\ results'[Len(results) + 1].round = round
      /\ \A i \in 1..Len(results) : results'[i] = results[i]
  <2>1. results \in Seq([from : Everyone, round : {0, 1}])
    BY <1>0 DEF BenchTypeOK
  <2> HIDE DEF result
  <2> QED BY <1>2, <2>1
<1>7. /\ Sent(m)' /\ ~Sent(m)
      /\ \A n \in Everyone \ {m} : Sent(n)' <=> Sent(n)
  BY <1>1, <1>6 DEF Sent, Replied
<1>8. /\ Replied(m)' /\ m \notin answered
      /\ \A n \in Everyone \ {m} : Replied(n)' <=> Replied(n)
  BY <1>0, <1>1, <1>7 DEF Replied
<1>9. /\ \A n \in Everyone \ {m} : (Works(n)' <=> Works(n)) /\ (Busy(n)' <=> Busy(n))
      /\ ~Busy(m)'
  BY <1>0, <1>1, <1>5 DEF Works, Busy
<1>10. /\ \A n \in Everyone : Total(n)' = Total(n)
       /\ NextJob' = NextJob /\ Members' = Members /\ Commands' = Commands
  <2>1. \A n \in Everyone : Total(n)' = Total(n)
    BY <1>0, SameProgram DEF Total
  <2> QED BY <1>0, <2>1, SameGroup DEF NextJob
<1>11. SemInv'
  <2>1. Progress(m)' = Progress(m)
    BY <1>1, <1>5, <1>8, <1>10 DEF Progress
  <2>2. \A n \in Everyone \ {m} : Progress(n)' = Progress(n)
    BY <1>5, <1>8, <1>9, <1>10 DEF Progress
  <2> QED BY <1>0, <2>1, <2>2, SemKept
<1>12. PlaceInv'
  <2>1. \A i, j \in 1..Len(results') :
          /\ results'[i].round = round'
          /\ results'[i].from = results'[j].from => i = j
    <3>1. \A i \in 1..Len(results) : results[i].from # m
      BY <1>7 DEF Sent
    <3>2. \A i \in 1..Len(results') : i \in 1..Len(results) \/ i = Len(results) + 1
      BY <1>6
    <3> QED BY <1>0, <1>6, <3>1, <3>2 DEF PlaceInv
  <2>2. /\ inbox'[m] = <<>> /\ ~Works(m)' /\ m \notin answered' /\ m \in Members'
    BY <1>0, <1>1, <1>5, <1>8, <1>10
  <2>3. \A n \in Everyone \ {m} :
          /\ inbox'[n] # <<>> => inbox'[n] = <<NextJob>>' /\ ~Works(n)' /\ ~Replied(n)'
          /\ Works(n)' => /\ job'[n].op = doing' /\ job'[n].round = round'
                          /\ job'[n].done <= Total(n)' /\ ~Replied(n)'
          /\ n \in answered' => ~Sent(n)'
          /\ Busy(n)' \/ Replied(n)' => n \in Members'
    BY <1>0, <1>5, <1>7, <1>8, <1>9, <1>10 DEF PlaceInv
  <2> QED BY <1>0, <1>10, <2>1, <2>2, <2>3 DEF PlaceInv
<1> QED BY <1>0, <1>1, <1>4, <1>8, <1>9, <1>11, <1>12, GroupStep

-----------------------------------------------------------------------------
(* One operation on a semaphore.                                           *)

Advanced(m) == job' = [job EXCEPT ![m].done = @ + 1]

\* The next operation of a member that has not finished.
Do(m) ==
    LET program == Program(doing, m)
    IN  program[(Progress(m) % Len(program)) + 1]

LEMMA OperateFacts ==
    ASSUME GroupRun, NEW m \in Everyone, Operate(m)
    PROVE  /\ doing \in Ops /\ sem \in [Sems -> Nat] /\ SemInv
           /\ UNCHANGED <<harness, doing>>
           /\ \A n \in Everyone : Progress(n) \in Nat
           /\ Progress(m) < Total(m)
           /\ Advanced(m) => /\ Progress(m)' = Progress(m) + 1
                             /\ \A n \in Everyone \ {m} : Progress(n)' = Progress(n)
           /\ \/ /\ Do(m).act = "give"
                 /\ sem' = [sem EXCEPT ![Do(m).on] = @ + 1]
                 /\ Advanced(m)
              \/ /\ Do(m).act = "take" \/ (Do(m).act = "try" /\ sem[Do(m).on] > 0)
                 /\ sem[Do(m).on] > 0
                 /\ sem' = [sem EXCEPT ![Do(m).on] = @ - 1]
                 /\ Advanced(m)
              \/ Do(m).act = "try" /\ ~(sem[Do(m).on] > 0)
<1>0. /\ BenchTypeOK /\ PlaceInv /\ SemInv /\ doing \in Ops /\ sem \in [Sems -> Nat]
      /\ UNCHANGED <<harness, callVars, mainVars, doing, round, answered, inbox, results>>
  BY GroupRunFacts DEF Operate, mainVars, BenchTypeOK
<1>1. /\ Works(m) /\ job[m].op = doing /\ job[m].done <= Total(m) /\ job[m].done # Total(m)
  BY <1>0 DEF Operate, PlaceInv, Finished, Total
<1>2. \A n \in Everyone : Total(n) \in Nat /\ job[n].done \in Nat
  BY <1>0, TotalNat DEF BenchTypeOK, Job
<1>3. /\ \A n \in Everyone : Progress(n) \in Nat
      /\ Progress(m) = job[m].done /\ Progress(m) < Total(m)
  <2>1. \A n \in Everyone : Progress(n) \in Nat
    BY <1>2 DEF Progress
  <2>2. Progress(m) = job[m].done
    BY <1>1 DEF Progress
  <2> QED BY <1>1, <1>2, <2>1, <2>2
<1>4. ASSUME Advanced(m)
      PROVE  /\ Progress(m)' = Progress(m) + 1
             /\ \A n \in Everyone \ {m} : Progress(n)' = Progress(n)
  <2>1. /\ job'[m].op = job[m].op /\ job'[m].done = job[m].done + 1
        /\ \A n \in Everyone \ {m} : job'[n] = job[n]
    BY <1>0, <1>4 DEF Advanced, BenchTypeOK, Job
  <2>2. \A n \in Everyone : Replied(n)' = Replied(n) /\ Total(n)' = Total(n)
    BY <1>0, SameProgram DEF Replied, Sent, Total
  <2>3. Works(m)' /\ \A n \in Everyone \ {m} : Works(n)' <=> Works(n)
    BY <1>1, <2>1 DEF Works
  <2>4. Progress(m)' = Progress(m) + 1
    BY <1>3, <2>1, <2>3 DEF Progress
  <2>5. \A n \in Everyone \ {m} : Progress(n)' = Progress(n)
    BY <2>1, <2>2, <2>3 DEF Progress
  <2> QED BY <2>4, <2>5
<1>5. Do(m) = Program(job[m].op, m)[(job[m].done % Len(Program(job[m].op, m))) + 1]
  BY <1>1, <1>3 DEF Do
<1>6. \/ /\ Do(m).act = "give"
         /\ sem' = [sem EXCEPT ![Do(m).on] = @ + 1]
         /\ Advanced(m)
      \/ /\ Do(m).act = "take" \/ (Do(m).act = "try" /\ sem[Do(m).on] > 0)
         /\ sem[Do(m).on] > 0
         /\ sem' = [sem EXCEPT ![Do(m).on] = @ - 1]
         /\ Advanced(m)
      \/ Do(m).act = "try" /\ ~(sem[Do(m).on] > 0)
  BY <1>5 DEF Operate, Advanced
<1> QED BY <1>0, <1>3, <1>4, <1>6

\* A member that can go on is in the middle of its run.
LEMMA OperateKeeps ==
    ASSUME GroupRun, NEW m \in Everyone, Operate(m), UNCHANGED simpleVars,
           Advanced(m), sem' \in [Sems -> Nat], SemInv'
    PROVE  BenchInv'
<1>0. /\ BenchTypeOK /\ PlaceInv
      /\ UNCHANGED <<harness, callVars, mainVars, workq, doing, round, answered, inbox, results>>
  BY GroupRunFacts DEF Operate, mainVars, simpleVars
<1>1. /\ Works(m) /\ job[m].op = doing /\ job[m].round = round /\ ~Replied(m)
      /\ job[m].done <= Total(m) /\ job[m].done # Total(m)
  BY <1>0 DEF Operate, PlaceInv, Finished, Total
<1>2. /\ job'[m].op = job[m].op /\ job'[m].round = job[m].round
      /\ job'[m].done = job[m].done + 1 /\ job'[m] \in Job
      /\ \A n \in Everyone \ {m} : job'[n] = job[n]
      /\ job' \in [Everyone -> Job]
  <2>1. job'[m] = [job[m] EXCEPT !.done = @ + 1] /\ job[m] \in Job
        /\ \A n \in Everyone \ {m} : job'[n] = job[n] /\ job[n] \in Job
    BY <1>0 DEF Advanced, BenchTypeOK
  <2>2. job'[m].op = job[m].op /\ job'[m].round = job[m].round
        /\ job'[m].done = job[m].done + 1 /\ job'[m] \in Job
    BY <2>1 DEF Job
  <2>3. \E f \in [Everyone -> Job] : job' = f
    <3>1. job' = [n \in Everyone |-> job'[n]]
      BY <1>0 DEF Advanced, BenchTypeOK
    <3> QED BY <2>1, <2>2, <3>1
  <2> QED BY <2>1, <2>2, <2>3
<1>3. \A n \in Everyone : (Works(n)' <=> Works(n)) /\ (Busy(n)' <=> Busy(n))
  BY <1>0, <1>1, <1>2 DEF Works, Busy
<1>4. /\ \A n \in Everyone : Sent(n)' = Sent(n) /\ Replied(n)' = Replied(n)
      /\ \A n \in Everyone : Total(n)' = Total(n)
      /\ NextJob' = NextJob /\ Members' = Members /\ Commands' = Commands
  <2>1. \A n \in Everyone : Sent(n)' = Sent(n) /\ Replied(n)' = Replied(n)
    BY <1>0 DEF Sent, Replied
  <2>2. \A n \in Everyone : Total(n)' = Total(n)
    BY <1>0, SameProgram DEF Total
  <2> QED BY <1>0, <2>1, <2>2, SameGroup DEF NextJob
<1>5. BenchTypeOK'
  BY <1>0, <1>2 DEF BenchTypeOK, mainVars, callVars
<1>6. PlaceInv'
  <2>0. doing \in Ops /\ job[m].done \in Nat
    BY <1>0 DEF BenchTypeOK, Job
  <2>1. job[m].done + 1 <= Total(m)
    BY <1>1, <2>0, TotalNat
  <2> QED BY <1>0, <1>1, <1>2, <1>3, <1>4, <2>1 DEF PlaceInv
<1> QED BY <1>0, <1>3, <1>4, <1>5, <1>6, GroupStep

\* A semaphore's name, and what an operation on it leaves of the others.
LEMMA SemNames ==
    ASSUME NEW w \in Workers
    PROVE  <<"sem", w>> \in Sems /\ <<"back", w>> \in Sems
BY DEF Sems

LEMMA OperateSimple ==
    ASSUME GroupRun, NEW m \in Everyone, Operate(m), doing \in Simple
    PROVE  Advanced(m) /\ sem' \in [Sems -> Nat] /\ SemInv'
<1> DEFINE p == Progress(m)
           s == <<"sem", m>>
<1>0. /\ doing \in Ops /\ sem \in [Sems -> Nat] /\ UNCHANGED <<harness, doing>>
      /\ p \in Nat /\ p < Total(m)
  BY OperateFacts
<1>1. \A w \in Workers : sem[<<"sem", w>>] = Progress(w) % 2 /\ sem[<<"back", w>>] = 0
  BY OperateFacts DEF SemInv, Simple
<1>2. m \in Workers
  <2>1. CASE m \notin Workers
    BY <1>0, <2>1, NothingToDo, BenchAssumption DEF Total
  <2> QED BY <2>1
<1>3. /\ Do(m) = Program(doing, m)[(p % 2) + 1]
      /\ Program(doing, m)[1] = GiveTo("sem", m)
      /\ Program(doing, m)[2] \in {TakeFrom("sem", m), TryTakeFrom("sem", m)}
  BY <1>2, SimpleProgram DEF Do
<1>4. p % 2 \in {0, 1} /\ (p + 1) % 2 = 1 - (p % 2)
  <2> HIDE DEF p
  <2> QED BY <1>0, Parity
<1>5. s \in Sems /\ sem[s] = p % 2
  BY <1>1, <1>2, SemNames
<1>6. Advanced(m) /\ sem' = [sem EXCEPT ![s] = (p + 1) % 2]
  <2>1. CASE p % 2 = 0
    <3>1. Do(m).act = "give" /\ Do(m).on = s
      BY <1>3, <2>1 DEF GiveTo
    <3> HIDE DEF p, s
    <3>2. Advanced(m) /\ sem' = [sem EXCEPT ![s] = @ + 1]
      BY <3>1, OperateFacts
    <3>3. sem[s] + 1 = (p + 1) % 2
      BY <1>4, <1>5, <2>1
    <3> QED BY <3>2, <3>3
  <2>2. CASE p % 2 = 1
    <3>1. Do(m).act \in {"take", "try"} /\ Do(m).on = s
      BY <1>3, <2>2 DEF TakeFrom, TryTakeFrom
    <3>2. sem[s] > 0
      BY <1>5, <2>2
    <3> HIDE DEF p, s
    <3>3. Advanced(m) /\ sem' = [sem EXCEPT ![s] = @ - 1]
      BY <3>1, <3>2, OperateFacts
    <3>4. sem[s] - 1 = (p + 1) % 2
      BY <1>4, <1>5, <2>2
    <3> QED BY <3>3, <3>4
  <2> QED BY <1>4, <2>1, <2>2
<1>7. /\ Progress(m)' = p + 1
      /\ \A w \in Workers \ {m} : Progress(w)' = Progress(w)
  BY <1>6, OperateFacts DEF Everyone
<1>8. sem' \in [Sems -> Nat]
  BY <1>0, <1>4, <1>5, <1>6
<1>9. \A w \in Workers : sem'[<<"sem", w>>] = Progress(w)' % 2 /\ sem'[<<"back", w>>] = 0
  <2> SUFFICES ASSUME NEW w \in Workers
               PROVE  sem'[<<"sem", w>>] = Progress(w)' % 2 /\ sem'[<<"back", w>>] = 0
    OBVIOUS
  <2>1. sem'[<<"back", w>>] = 0
    BY <1>0, <1>1, <1>6, SemNames
  <2>2. CASE w = m
    BY <1>0, <1>5, <1>6, <1>7, <2>1, <2>2
  <2>3. CASE w # m
    <3>1. sem'[<<"sem", w>>] = sem[<<"sem", w>>]
      BY <1>0, <1>6, <2>3, SemNames
    <3> QED BY <1>1, <1>7, <2>1, <2>3, <3>1
  <2> QED BY <2>2, <2>3
<1>10. SemInv'
  BY <1>0, <1>9 DEF SemInv, Simple
<1> QED BY <1>6, <1>8, <1>10

\* The giver of all has given one more to the worker whose turn it is.
LEMMA GaveStep ==
    ASSUME NEW d \in Nat, NEW w \in Workers
    PROVE  /\ Gave(d, w) \in Nat /\ Gave(0, w) = 0
           /\ Gave(d + 1, w) = Gave(d, w) + (IF w = d % NumThreads THEN 1 ELSE 0)
<1> DEFINE n == NumThreads
           r == d % n
           q == d \div n
<1>0. n \in Nat \ {0} /\ w \in 0..n-1
  BY BenchAssumption DEF Workers
<1>1. /\ r \in 0..n-1 /\ q \in Nat
      /\ (d + 1) % n = IF r + 1 = n THEN 0 ELSE r + 1
      /\ (d + 1) \div n = IF r + 1 = n THEN q + 1 ELSE q
  BY <1>0, DivStep
<1>2. /\ Gave(d, w) = q + (IF w < r THEN 1 ELSE 0)
      /\ Gave(d + 1, w) = (d + 1) \div n + (IF w < (d + 1) % n THEN 1 ELSE 0)
  BY DEF Gave
<1>3. Gave(0, w) = 0
  BY <1>0, DivMultiple DEF Gave
<1> HIDE DEF n, r, q
<1>4. Gave(d + 1, w) = Gave(d, w) + (IF w = r THEN 1 ELSE 0)
  <2>1. CASE r + 1 = n
    BY <1>0, <1>1, <1>2, <2>1
  <2>2. CASE r + 1 # n
    BY <1>0, <1>1, <1>2, <2>2
  <2> QED BY <2>1, <2>2
<1>5. Gave(d, w) \in Nat
  BY <1>1, <1>2
<1> QED BY <1>3, <1>4, <1>5 DEF r, n

LEMMA OperateWait ==
    ASSUME GroupRun, NEW m \in Everyone, Operate(m), doing \in Waits
    PROVE  Advanced(m) /\ sem' \in [Sems -> Nat] /\ SemInv'
<1> DEFINE p == Progress(m)
<1>0. /\ doing \in Ops /\ sem \in [Sems -> Nat] /\ UNCHANGED <<harness, doing>>
      /\ p \in Nat /\ p < Total(m) /\ \A n \in Everyone : Progress(n) \in Nat
  BY OperateFacts
<1>1. \A w \in Workers : /\ sem[<<"sem", w>>] + Progress(w) = Gave(Progress(Giver), w)
                         /\ sem[<<"back", w>>] = 0
  BY OperateFacts DEF SemInv, Waits, Simple
<1>g. /\ Giver \in Everyone \ Workers /\ Giver' = Giver
      /\ Giver = (IF doing = "SemHigh" THEN High ELSE Low)
  BY <1>0, BenchAssumption DEF Giver, Everyone, Workers, Low, High
<1>2. m \in Workers \/ m = Giver
  <2>1. CASE m \notin Workers /\ m # Giver
    BY <1>0, <1>g, <2>1, NothingToDo, BenchAssumption DEF Total
  <2> QED BY <2>1
<1>3. CASE m \in Workers
  <2> DEFINE s == <<"sem", m>>
  <2>1. Do(m) = TakeFrom("sem", m)
    <3>1. Program(doing, m) = <<TakeFrom("sem", m)>>
      BY <1>3, WaitProgram
    <3>2. p % 1 = 0
      BY <1>0
    <3> QED BY <3>1, <3>2 DEF Do
  <2>2. s \in Sems /\ Do(m).act = "take" /\ Do(m).on = s
    <3>1. s \in Sems
      BY <1>3, SemNames
    <3> QED BY <2>1, <3>1 DEF TakeFrom
  <2> HIDE DEF s
  <2>3. Advanced(m) /\ sem[s] > 0 /\ sem' = [sem EXCEPT ![s] = @ - 1]
    BY <2>2, OperateFacts
  <2>4. sem' \in [Sems -> Nat]
    BY <1>0, <2>2, <2>3
  <2>5. /\ Progress(m)' = p + 1
        /\ \A n \in Everyone \ {m} : Progress(n)' = Progress(n)
    BY <2>3, OperateFacts
  <2>6. Progress(Giver)' = Progress(Giver)
    BY <1>3, <1>g, <2>5
  <2>7. ASSUME NEW w \in Workers
        PROVE  /\ sem'[<<"sem", w>>] + Progress(w)' = Gave(Progress(Giver), w)
               /\ sem'[<<"back", w>>] = 0
    <3>1. sem'[<<"back", w>>] = 0
      BY <1>0, <1>1, <2>3, SemNames DEF s
    <3>2. CASE w = m
      <4>1. sem'[<<"sem", m>>] = sem[<<"sem", m>>] - 1 /\ sem[<<"sem", m>>] \in Nat
        BY <1>0, <2>2, <2>3 DEF s
      <4> QED BY <1>0, <1>1, <1>3, <2>5, <3>1, <3>2, <4>1
    <3>3. CASE w # m
      <4>1. sem'[<<"sem", w>>] = sem[<<"sem", w>>]
        BY <1>0, <2>3, <3>3, SemNames DEF s
      <4> QED BY <1>1, <2>5, <3>1, <3>3, <4>1 DEF Everyone
    <3> QED BY <3>2, <3>3
  <2>8. SemInv'
    BY <1>0, <2>6, <2>7 DEF SemInv, Waits, Gave
  <2> QED BY <2>3, <2>4, <2>8
<1>4. CASE m = Giver
  <2> DEFINE k == p % NumThreads
             s == <<"sem", k>>
  <2>1. k \in Workers /\ k + 1 \in 1..NumThreads /\ (k + 1) - 1 = k
    <3> HIDE DEF p
    <3>1. k \in 0..NumThreads-1
      BY <1>0, BenchAssumption, DivStep
    <3> HIDE DEF k
    <3> QED BY <3>1, BenchAssumption DEF Workers
  <2>2. Do(m) = GiveTo("sem", k)
    <3>1. /\ Len(Program(doing, m)) = NumThreads
          /\ \A i \in 1..NumThreads : Program(doing, m)[i] = GiveTo("sem", i - 1)
      BY <1>4, <1>g, GiveProgram
    <3> QED BY <2>1, <3>1 DEF Do
  <2> HIDE DEF k
  <2>3. s \in Sems /\ Do(m).act = "give" /\ Do(m).on = s
    <3>1. s \in Sems
      BY <2>1, SemNames
    <3> QED BY <2>2, <3>1 DEF GiveTo
  <2> HIDE DEF s
  <2>4. Advanced(m) /\ sem' = [sem EXCEPT ![s] = @ + 1]
    BY <2>3, OperateFacts
  <2>5. sem' \in [Sems -> Nat]
    BY <1>0, <2>3, <2>4
  <2>6. /\ Progress(Giver)' = p + 1
        /\ \A w \in Workers : Progress(w)' = Progress(w)
    BY <1>4, <1>g, <2>4, OperateFacts DEF Everyone
  <2>7. ASSUME NEW w \in Workers
        PROVE  /\ sem'[<<"sem", w>>] + Progress(w)' = Gave(p + 1, w)
               /\ sem'[<<"back", w>>] = 0
    <3>1. sem'[<<"back", w>>] = 0
      BY <1>0, <1>1, <2>4, SemNames DEF s
    <3>2. Gave(p + 1, w) = Gave(p, w) + (IF w = k THEN 1 ELSE 0)
      BY <1>0, GaveStep DEF k
    <3>3. sem'[<<"sem", w>>] = sem[<<"sem", w>>] + (IF w = k THEN 1 ELSE 0)
      <4>1. <<"sem", w>> \in Sems /\ (<<"sem", w>> = s <=> w = k)
        BY SemNames DEF s
      <4>2. sem[<<"sem", w>>] \in Nat
        BY <1>0, <4>1
      <4> QED BY <1>0, <2>4, <4>1, <4>2
    <3>4. sem[<<"sem", w>>] + Progress(w) = Gave(p, w)
      BY <1>1, <1>4
    <3>5. sem[<<"sem", w>>] \in Nat /\ Progress(w) \in Nat
      BY <1>0, SemNames DEF Everyone
    <3> QED BY <2>6, <3>1, <3>2, <3>3, <3>4, <3>5
  <2>8. SemInv'
    BY <1>0, <2>6, <2>7 DEF SemInv, Waits, Gave
  <2> QED BY <2>4, <2>5, <2>8
<1> QED BY <1>2, <1>3, <1>4

\* Where low is in its program, before and after an operation.
LEMMA PingAt ==
    ASSUME NEW d \in Nat
    PROVE  LET ix == d % (2 * NumThreads)
               next == (d + 1) % (2 * NumThreads)
           IN  /\ ix \in 0..2*NumThreads-1 /\ ix \div 2 \in Workers
               /\ ix % 2 \in {0, 1}
               /\ ix % 2 = 0 => next % 2 = 1 /\ next \div 2 = ix \div 2
               /\ ix % 2 = 1 => next % 2 = 0
<1> DEFINE n == 2 * NumThreads
           ix == d % n
           next == (d + 1) % n
<1>0. n \in Nat \ {0} /\ n = NumThreads * 2 /\ NumThreads \in Nat
  BY BenchAssumption
<1>1. ix \in 0..n-1 /\ next = IF ix + 1 = n THEN 0 ELSE ix + 1
  BY <1>0, DivStep
<1>2. n % 2 = 0
  <2>1. (NumThreads * 2) % 2 = 0
    BY <1>0, DivMultiple
  <2> QED BY <1>0, <2>1
<1> HIDE DEF n, ix, next
<1>3. ix \in Nat /\ ix % 2 \in {0, 1} /\ (ix + 1) % 2 = 1 - (ix % 2)
  <2>1. ix \in Nat
    BY <1>0, <1>1
  <2> QED BY <2>1, Parity
<1>4. ix \div 2 \in Workers
  <2>1. ix = (ix \div 2) * 2 + (ix % 2)
    BY <1>3
  <2>2. ix \div 2 \in Nat
    BY <1>3, DivStep
  <2> QED BY <1>0, <1>1, <1>3, <2>1, <2>2 DEF Workers
<1>5. ASSUME ix % 2 = 0 PROVE next % 2 = 1 /\ next \div 2 = ix \div 2
  <2>1. ix + 1 # n
    BY <1>2, <1>3, <1>5
  <2>2. (ix + 1) \div 2 = ix \div 2
    BY <1>3, <1>5, DivStep
  <2> QED BY <1>1, <1>3, <1>5, <2>1, <2>2
<1>6. ASSUME ix % 2 = 1 PROVE next % 2 = 0
  <2>1. 0 % 2 = 0
    OBVIOUS
  <2> QED BY <1>1, <1>3, <1>6, <2>1
<1> QED BY <1>1, <1>3, <1>4, <1>5, <1>6 DEF ix, next, n

\* A ping and a pong, there and back, in order.
LEMMA OperatePingPong ==
    ASSUME GroupRun, NEW m \in Everyone, Operate(m), doing \in PingPongs
    PROVE  Advanced(m) /\ sem' \in [Sems -> Nat] /\ SemInv'
<1> DEFINE p == Progress(m)
<1>0. /\ doing \in Ops /\ sem \in [Sems -> Nat] /\ UNCHANGED <<harness, doing>>
      /\ p \in Nat /\ p < Total(m)
  BY OperateFacts
<1>1. /\ Low \in Everyone \ Workers /\ Workers \subseteq Everyone /\ Progress(Low) \in Nat
      /\ \A w \in Workers : Progress(w) \in Nat
  <2>1. Low \in Everyone \ Workers /\ Workers \subseteq Everyone
    BY BenchAssumption DEF Everyone, Workers, Low
  <2> QED BY <2>1, OperateFacts
<1>2. PingPongInv
  BY OperateFacts DEF SemInv, PingPongs
<1>3. PingPongInv' => SemInv'
  BY <1>0 DEF SemInv, PingPongs
<1>4. m = Low \/ m \in Workers
  <2>1. CASE m = High
    BY <1>0, <2>1, NothingToDo, BenchAssumption DEF Total
  <2> QED BY <2>1 DEF Everyone
<1>5. /\ LowAt \in 0..2*NumThreads-1 /\ LowAt \div 2 \in Workers /\ LowAt % 2 \in {0, 1}
      /\ Progress(Low)' = Progress(Low) + 1 =>
            /\ LowAt % 2 = 0 => LowAt' % 2 = 1 /\ LowAt' \div 2 = LowAt \div 2
            /\ LowAt % 2 = 1 => LowAt' % 2 = 0
      /\ Progress(Low)' = Progress(Low) => LowAt' = LowAt
  BY <1>1, PingAt DEF LowAt
<1>i. PICK id \in Workers : id = LowAt \div 2
  BY <1>5
<1> DEFINE ping == <<"sem", Ping(doing, id)>>
           pong == <<"back", Pong(doing, id)>>
<1>6. ping \in Sems /\ pong \in Sems /\ ping # pong
  <2>1. Ping(doing, id) \in Workers /\ Pong(doing, id) \in Workers
    BY PingWorker
  <2> QED BY <2>1 DEF Sems
<1>7. \A i : Ping(doing, i)' = Ping(doing, i) /\ Pong(doing, i)' = Pong(doing, i)
  BY <1>0 DEF Ping, Pong
<1>8. Zero \in [Sems -> Nat] /\ \A x \in Sems : Zero[x] = 0
  BY DEF Zero
<1>9. LowAt % 2 = 1 => PingOut(id)
  BY <1>2, <1>i DEF PingPongInv
<1>10. LowAt' % 2 = 1 /\ LowAt' \div 2 = id /\ PingOut(id)' => PingPongInv'
  BY DEF PingPongInv
<1>11. CASE m = Low /\ LowAt % 2 = 0
  <2>1. sem = Zero /\ \A w \in Workers : ~Odd(w)
    BY <1>2, <1>11 DEF PingPongInv
  <2>2. Do(m).act = "give" /\ Do(m).on = ping
    <3>1. Do(m) = Program(doing, Low)[LowAt + 1]
      BY <1>11, PingProgram DEF Do, LowAt
    <3>2. Do(m) = GiveTo("sem", Ping(doing, id))
      BY <1>5, <1>i, <1>11, <3>1, PingProgram
    <3> QED BY <3>2 DEF GiveTo
  <2> HIDE DEF p, ping, pong
  <2>3. Advanced(m) /\ sem' = [sem EXCEPT ![ping] = @ + 1]
    BY <2>2, OperateFacts
  <2>4. sem' = [Zero EXCEPT ![ping] = 1] /\ sem' \in [Sems -> Nat]
    <3>1. Zero[ping] + 1 = 1
      BY <1>6, <1>8
    <3>2. sem' = [Zero EXCEPT ![ping] = 1]
      BY <2>1, <2>3, <3>1
    <3> QED BY <1>6, <1>8, <3>2
  <2>5. /\ Progress(Low)' = Progress(Low) + 1
        /\ \A w \in Workers : Odd(w)' = Odd(w)
    BY <1>1, <1>11, <2>3, OperateFacts DEF Odd
  <2>6. PingOut(id)'
    <3>1. sem' = [Zero EXCEPT ![<<"sem", Ping(doing, id)'>>] = 1]
      BY <1>7, <2>4 DEF ping
    <3> QED BY <2>1, <2>5, <3>1 DEF PingOut
  <2>7. PingPongInv'
    BY <1>5, <1>i, <1>10, <1>11, <2>5, <2>6
  <2> QED BY <1>3, <2>3, <2>4, <2>7
<1>12. CASE m = Low /\ LowAt % 2 = 1
  <2>1. Do(m).act = "take" /\ Do(m).on = pong
    <3>1. Do(m) = Program(doing, Low)[LowAt + 1]
      BY <1>12, PingProgram DEF Do, LowAt
    <3>2. Do(m) = TakeFrom("back", Pong(doing, id))
      BY <1>5, <1>i, <1>12, <3>1, PingProgram
    <3> QED BY <3>2 DEF TakeFrom
  <2>2. \/ sem = Zero
        \/ /\ \A w \in Workers : ~Odd(w)
           /\ sem = [Zero EXCEPT ![ping] = 1] \/ sem = [Zero EXCEPT ![pong] = 1]
    BY <1>9, <1>12 DEF PingOut
  <2> HIDE DEF p, ping, pong
  <2>3. Advanced(m) /\ sem[pong] > 0 /\ sem' = [sem EXCEPT ![pong] = @ - 1]
    BY <2>1, OperateFacts
  <2>4. sem = [Zero EXCEPT ![pong] = 1] /\ \A w \in Workers : ~Odd(w)
    BY <1>6, <1>8, <2>2, <2>3
  <2>5. sem' = Zero
    BY <1>6, <2>3, <2>4 DEF Zero
  <2>6. /\ Progress(Low)' = Progress(Low) + 1
        /\ \A w \in Workers : Odd(w)' = Odd(w)
    BY <1>1, <1>12, <2>3, OperateFacts DEF Odd
  <2>7. PingPongInv'
    BY <1>5, <1>12, <2>4, <2>5, <2>6 DEF PingPongInv
  <2> QED BY <1>3, <1>8, <2>3, <2>5, <2>7
<1>13. CASE m \in Workers
  <2>1. /\ Program(doing, m) = <<TakeFrom("sem", Ping(doing, m)), GiveTo("back", Pong(doing, m))>>
        /\ Do(m) = Program(doing, m)[(p % 2) + 1]
    <3>1. Program(doing, m) = <<TakeFrom("sem", Ping(doing, m)), GiveTo("back", Pong(doing, m))>>
      BY <1>13, PongProgram
    <3>2. Len(Program(doing, m)) = 2
      BY <3>1
    <3> QED BY <3>1, <3>2 DEF Do
  <2>2. p % 2 \in {0, 1} /\ (p + 1) % 2 = 1 - (p % 2)
    <3> HIDE DEF p
    <3> QED BY <1>0, Parity
  <2>3. Odd(m) <=> p % 2 = 1
    BY DEF Odd
  <2>4. Ping(doing, m) \in Workers /\ Pong(doing, m) \in Workers
    BY <1>13, PingWorker
  <2>5. Advanced(m) =>
          /\ Progress(Low)' = Progress(Low) /\ LowAt' = LowAt
          /\ Odd(m)' <=> ~Odd(m)
          /\ \A w \in Workers \ {m} : Odd(w)' <=> Odd(w)
    <3>1. SUFFICES ASSUME Advanced(m)
                   PROVE  /\ Progress(Low)' = Progress(Low) /\ LowAt' = LowAt
                          /\ Odd(m)' <=> ~Odd(m)
                          /\ \A w \in Workers \ {m} : Odd(w)' <=> Odd(w)
      OBVIOUS
    <3>2. /\ Progress(m)' = p + 1
          /\ \A n \in Everyone \ {m} : Progress(n)' = Progress(n)
      BY <3>1, OperateFacts
    <3>3. Odd(m)' <=> ~Odd(m)
      BY <2>2, <3>2 DEF Odd
    <3>4. \A w \in Workers \ {m} : Odd(w)' <=> Odd(w)
      BY <1>1, <3>2 DEF Odd
    <3> QED BY <1>1, <1>5, <1>13, <3>2, <3>3, <3>4
  <2> HIDE DEF p
  <2>6. CASE p % 2 = 0
    <3> DEFINE s == <<"sem", Ping(doing, m)>>
    <3>1. s \in Sems /\ s # pong
      BY <2>4 DEF Sems
    <3>2. Do(m).act = "take" /\ Do(m).on = s
      BY <2>1, <2>6 DEF TakeFrom
    <3>3. Advanced(m) /\ sem[s] > 0 /\ sem' = [sem EXCEPT ![s] = @ - 1]
      <4> HIDE DEF s, ping, pong
      <4> QED BY <3>2, OperateFacts
    <3>4. sem # Zero
      BY <1>8, <3>1, <3>3
    <3>5. /\ LowAt % 2 = 1 /\ \A w \in Workers : ~Odd(w)
          /\ sem = [Zero EXCEPT ![ping] = 1] \/ sem = [Zero EXCEPT ![pong] = 1]
      <4>1. LowAt % 2 = 1
        BY <1>2, <1>5, <3>4 DEF PingPongInv
      <4> QED BY <1>9, <3>4, <4>1 DEF PingOut
    <3> HIDE DEF s, ping, pong
    <3>6. sem = [Zero EXCEPT ![ping] = 1] /\ s = ping
      BY <1>6, <1>8, <3>1, <3>3, <3>5
    <3>7. sem' = Zero
      BY <1>6, <3>3, <3>6 DEF Zero
    <3>8. Pong(doing, m) = Pong(doing, id)
      <4>1. Ping(doing, m) = Ping(doing, id)
        BY <3>6 DEF s, ping
      <4> QED BY <4>1, PingDecidesPong
    <3>9. Odd(m)' /\ \A v \in Workers : Odd(v)' => v = m
      BY <2>3, <2>5, <2>6, <3>3, <3>5
    <3>10. PingOut(id)'
      <4>1. Pong(doing, m)' = Pong(doing, id)'
        BY <1>7, <3>8
      <4> QED BY <1>13, <3>7, <3>9, <4>1 DEF PingOut
    <3>11. PingPongInv'
      BY <1>i, <1>10, <2>5, <3>3, <3>5, <3>10
    <3> QED BY <1>3, <1>8, <3>3, <3>7, <3>11
  <2>7. CASE p % 2 = 1
    <3> DEFINE s == <<"back", Pong(doing, m)>>
    <3>1. s \in Sems
      BY <2>4 DEF Sems
    <3>2. Do(m).act = "give" /\ Do(m).on = s
      BY <2>1, <2>7 DEF GiveTo
    <3> HIDE DEF s, ping, pong
    <3>3. Advanced(m) /\ sem' = [sem EXCEPT ![s] = @ + 1]
      BY <3>2, OperateFacts
    <3>4. /\ LowAt % 2 = 1 /\ sem = Zero /\ Pong(doing, m) = Pong(doing, id)
          /\ \A v \in Workers : Odd(v) => v = m
      <4>1. LowAt % 2 = 1
        BY <1>2, <1>5, <1>13, <2>3, <2>7 DEF PingPongInv
      <4> QED BY <1>9, <1>13, <2>3, <2>7, <4>1 DEF PingOut
    <3>5. s = pong
      BY <3>4 DEF s, pong
    <3>6. sem' = [Zero EXCEPT ![pong] = 1] /\ sem' \in [Sems -> Nat]
      <4>1. Zero[pong] + 1 = 1
        BY <1>6, <1>8
      <4>2. sem' = [Zero EXCEPT ![pong] = 1]
        BY <3>3, <3>4, <3>5, <4>1
      <4> QED BY <1>6, <1>8, <4>2
    <3>7. \A v \in Workers : ~Odd(v)'
      BY <2>3, <2>5, <2>7, <3>3, <3>4
    <3>8. PingOut(id)'
      <4>1. sem' = [Zero EXCEPT ![<<"back", Pong(doing, id)'>>] = 1]
        BY <1>7, <3>6 DEF pong
      <4> QED BY <3>7, <4>1 DEF PingOut
    <3>9. PingPongInv'
      BY <1>i, <1>10, <2>5, <3>3, <3>4, <3>8
    <3> QED BY <1>3, <3>3, <3>6, <3>9
  <2> QED BY <2>2, <2>6, <2>7
<1> QED BY <1>4, <1>5, <1>11, <1>12, <1>13

\* The operations of a run keep the semaphores in step with the progress.
LEMMA OperateStep ==
    ASSUME GroupRun, NEW m \in Everyone, Operate(m), UNCHANGED simpleVars
    PROVE  BenchInv'
<1>1. doing \in Simple \cup Waits \cup PingPongs
  <2>1. doing \in Ops /\ Progress(m) \in Nat /\ Progress(m) < Total(m)
    BY OperateFacts
  <2>2. CASE doing = "Empty"
    BY <2>1, <2>2, NothingToDo, BenchAssumption DEF Total
  <2> QED BY <2>1, <2>2 DEF Ops, Simple, Waits, PingPongs
<1> QED BY <1>1, OperateSimple, OperateWait, OperatePingPong, OperateKeeps

-----------------------------------------------------------------------------
(* run and main_run.                                                       *)

\* Between two runs.
GroupRest == BenchInv /\ harness \in Harnesses /\ main = "command"

LEMMA GroupRestFacts ==
    ASSUME GroupRest
    PROVE  BenchTypeOK /\ workq = <<>> /\ CallInv /\ RestInv
BY DEF GroupRest, BenchInv, GroupInv, Harnesses

LEMMA RestKept ==
    ASSUME RestInv, UNCHANGED groupVars
    PROVE  RestInv'
BY DEF RestInv, groupVars, Busy, Works

\* run is called when the run before it has returned, so that MAIN_CMD is empty.
LEMMA CallRunStep ==
    ASSUME BenchInv, harness \in Harnesses, NEW c \in Commands, CallRun(c), UNCHANGED simpleVars
    PROVE  BenchInv'
<1>1. GroupRest /\ commands = <<>> /\ end_wait = 0
  BY DEF BenchInv, GroupInv, GroupRest, Harnesses, CallRun, CallInv
<1>2. BenchTypeOK /\ workq = <<>> /\ RestInv
  BY <1>1, GroupRestFacts
<1>3. /\ UNCHANGED <<harness, end_wait, mainVars, groupVars, simpleVars>>
      /\ UNCHANGED <<main, doing, round, started, answered, msg_count>>
      /\ UNCHANGED <<inbox, job, sem, results, workq>>
      /\ caller' = "waits" /\ commands' = <<c>>
  BY <1>1 DEF CallRun, mainVars, groupVars, simpleVars
<1>4. RestInv'
  BY <1>2, <1>3, RestKept
<1>5. CallInv'
  <2>1. c \in Commands'
    BY <1>3, SameGroup
  <2> QED BY <1>1, <1>3, <2>1 DEF CallInv, GroupRest
<1>6. BenchTypeOK'
  BY <1>2, <1>3 DEF BenchTypeOK
<1> QED BY <1>1, <1>2, <1>3, <1>4, <1>5, <1>6 DEF BenchInv, GroupInv, GroupRest, Harnesses

\* run returns when everything of it is over.
LEMMA RunReturnsStep ==
    ASSUME BenchInv, harness \in Harnesses, RunReturns, UNCHANGED simpleVars
    PROVE  BenchInv'
<1>1. GroupRest /\ commands = <<>>
  BY DEF BenchInv, GroupInv, GroupRest, Harnesses, RunReturns, CallInv
<1>2. BenchTypeOK /\ workq = <<>> /\ RestInv
  BY <1>1, GroupRestFacts
<1>3. /\ UNCHANGED <<harness, commands, mainVars, groupVars, simpleVars>>
      /\ UNCHANGED <<main, doing, round, started, answered, msg_count>>
      /\ UNCHANGED <<inbox, job, sem, results, workq>>
      /\ caller' = "calls" /\ end_wait' = 0
  BY DEF RunReturns, mainVars, groupVars, simpleVars
<1>4. RestInv'
  BY <1>2, <1>3, RestKept
<1>5. CallInv'
  BY <1>1, <1>3 DEF CallInv, GroupRest
<1>6. BenchTypeOK'
  BY <1>2, <1>3 DEF BenchTypeOK
<1> QED BY <1>1, <1>2, <1>3, <1>4, <1>5, <1>6 DEF BenchInv, GroupInv, GroupRest, Harnesses

\* Before the first operation all semaphores are zero.
LEMMA SemStart ==
    ASSUME sem' = Zero, \A m \in Everyone : Progress(m)' = 0, doing' \in Ops
    PROVE  SemInv'
<1>1. /\ \A w \in Workers : Progress(w)' = 0
      /\ Progress(Low)' = 0 /\ Progress(High)' = 0 /\ Progress(Giver)' = 0
  BY DEF Everyone, Giver
<1>2. \A w \in Workers : sem'[<<"sem", w>>] = 0 /\ sem'[<<"back", w>>] = 0
  BY SemNames DEF Zero
<1>3. \A w \in Workers : Gave(0, w) = 0
  BY GaveStep
<1>4. 0 % 2 = 0
  OBVIOUS
<1>5. \A w \in Workers : ~Odd(w)'
  BY <1>1, <1>4 DEF Odd
<1>6. LowAt' % 2 = 0
  <2>1. 2 * NumThreads \in Nat \ {0}
    BY BenchAssumption
  <2>2. 0 % (2 * NumThreads) = 0
    BY <2>1
  <2> QED BY <1>1, <1>4, <2>2 DEF LowAt
<1>7. PingPongInv'
  BY <1>5, <1>6 DEF PingPongInv
<1>8. CASE doing' = "Empty"
  BY <1>8 DEF SemInv
<1>9. CASE doing' \in Simple
  BY <1>1, <1>2, <1>4, <1>9 DEF SemInv, Simple
<1>10. CASE doing' \in Waits
  BY <1>1, <1>2, <1>3, <1>10 DEF SemInv, Waits, Simple
<1>11. CASE doing' \in PingPongs
  BY <1>7, <1>11 DEF SemInv, PingPongs
<1> QED BY <1>8, <1>9, <1>10, <1>11 DEF Ops, Simple, Waits, PingPongs

\* A run begins with nothing left of the one before it.
LEMMA BeginStep ==
    ASSUME GroupRest, Begin, UNCHANGED simpleVars
    PROVE  BenchInv'
<1>0. BenchTypeOK /\ workq = <<>> /\ CallInv /\ RestInv /\ harness \in Harnesses
  BY GroupRestFacts DEF GroupRest
<1>1. PICK c \in Commands : commands = <<c>> /\ end_wait = 0 /\ caller = "waits"
  BY <1>0 DEF Begin, CallInv, BenchTypeOK
<1>2. /\ doing' = c /\ commands' = <<>> /\ main' = "start" /\ round' = 1 - round
      /\ started' = 0 /\ answered' = {} /\ msg_count' = Len(Group)
      /\ UNCHANGED <<harness, caller, end_wait, inbox, job, results, workq>>
  BY <1>1 DEF Begin, simpleVars
<1>3. sem' = Zero /\ Zero \in [Sems -> Nat]
  BY <1>0 DEF Begin, RestInv, Zero
<1>4. c \in Ops /\ c \in Commands'
  <2>1. Commands \subseteq Ops
    BY DEF Commands, Ops
  <2> QED BY <1>2, <2>1, SameGroup
<1>5. BenchTypeOK'
  <2>0. round \in {0, 1}
    BY <1>0 DEF BenchTypeOK
  <2>1. round' \in {0, 1}
    BY <1>2, <2>0
  <2> QED BY <1>0, <1>2, <1>3, <1>4, <2>1 DEF BenchTypeOK
<1>6. /\ results' = <<>>
      /\ \A m \in Everyone : ~Busy(m)' /\ ~Works(m)' /\ inbox'[m] = <<>>
  BY <1>0, <1>2 DEF RestInv, Busy, Works
<1>7. \A m \in Everyone : ~Sent(m)' /\ ~Replied(m)'
  BY <1>2, <1>6 DEF Sent, Replied
<1>8. SemInv'
  <2>1. \A m \in Everyone : Progress(m)' = 0
    BY <1>6, <1>7 DEF Progress
  <2> QED BY <1>2, <1>3, <1>4, <2>1, SemStart
<1>9. PlaceInv'
  BY <1>2, <1>4, <1>6, <1>7 DEF PlaceInv
<1>10. StartInv'
  <2>1. Group' = Group /\ Members' = Members
    BY <1>2, SameGroup
  <2>2. /\ Len(Group) \in Nat \ {0} /\ \A i \in 1..Len(Group) : Group[i] \in Everyone
        /\ Cardinality(Members) = Len(Group)
    BY <1>0, GroupFacts, GroupSize
  <2>3. Members' \ answered' = Members
    BY <1>2, <2>1
  <2>4. \A i \in 1..Len(Group) : ~(i <= 0)
    BY <2>2
  <2> QED BY <1>2, <1>6, <1>7, <2>1, <2>2, <2>3, <2>4 DEF StartInv
<1>11. CallInv'
  BY <1>1, <1>2 DEF CallInv
<1> QED BY <1>0, <1>2, <1>5, <1>8, <1>9, <1>10, <1>11 DEF BenchInv, GroupInv, Harnesses

\* The member whose turn it is has nothing of this run yet.
LEMMA NextMember ==
    ASSUME GroupRun, main = "start"
    PROVE  LET m == Group[started + 1]
           IN  /\ started \in Nat /\ started + 1 \in 1..Len(Group) /\ Len(Group) \in Nat
               /\ m \in Everyone /\ m \in Members /\ ~Busy(m) /\ ~Replied(m)
               /\ \A i \in 1..Len(Group) : Group[i] = m => i = started + 1
               /\ \A i \in 1..Len(Group) : i <= started => Busy(Group[i]) \/ Replied(Group[i])
               /\ \A i \in 1..Len(Group) : i > started + 1 => ~Busy(Group[i]) /\ ~Replied(Group[i])
<1> DEFINE m == Group[started + 1]
<1>1. BenchTypeOK /\ StartInv /\ harness \in Harnesses
  BY GroupRunFacts DEF GroupRun
<1>2. started \in Nat /\ started < Len(Group)
  BY <1>1 DEF BenchTypeOK, StartInv
<1>3. /\ Len(Group) \in Nat /\ \A i \in 1..Len(Group) : Group[i] \in Everyone
      /\ \A i, j \in 1..Len(Group) : Group[i] = Group[j] => i = j
  BY <1>1, GroupFacts
<1>4. started + 1 \in 1..Len(Group)
  BY <1>2, <1>3
<1>5. m \in Everyone /\ m \in Members
  BY <1>3, <1>4 DEF Members
<1>6. \A i \in 1..Len(Group) :
          IF i <= started THEN Busy(Group[i]) \/ Replied(Group[i])
          ELSE ~Busy(Group[i]) /\ ~Replied(Group[i])
  BY <1>1 DEF StartInv
<1>7. ~Busy(m) /\ ~Replied(m)
  BY <1>2, <1>4, <1>6
<1>8. \A i \in 1..Len(Group) : i > started + 1 => ~Busy(Group[i]) /\ ~Replied(Group[i])
  BY <1>2, <1>6
<1> QED BY <1>2, <1>3, <1>4, <1>5, <1>6, <1>7, <1>8

\* Main goes on to the next one, or to the results.
LEMMA StartedOne ==
    ASSUME GroupRun, main = "start", NEW m, m = Group[started + 1],
           UNCHANGED <<harness, answered, msg_count>>,
           started' = started + 1, main' = Following,
           (Busy(m) \/ Replied(m))',
           \A n \in Everyone \ {m} : (Busy(n)' <=> Busy(n)) /\ (Replied(n)' <=> Replied(n))
    PROVE  StartInv' /\ main' \in {"start", "collect"}
<1>1. /\ started \in Nat /\ started + 1 \in 1..Len(Group) /\ Len(Group) \in Nat
      /\ \A i \in 1..Len(Group) : Group[i] = m => i = started + 1
      /\ \A i \in 1..Len(Group) : i <= started => Busy(Group[i]) \/ Replied(Group[i])
      /\ \A i \in 1..Len(Group) : i > started + 1 => ~Busy(Group[i]) /\ ~Replied(Group[i])
  BY NextMember
<1>2. \A i \in 1..Len(Group) : Group[i] \in Everyone
  BY GroupFacts DEF GroupRun
<1>3. Group' = Group /\ Members' = Members
  BY SameGroup
<1>4. \A i \in 1..Len(Group) : i <= started + 1 => (Busy(Group[i]) \/ Replied(Group[i]))'
  <2> SUFFICES ASSUME NEW i \in 1..Len(Group), i <= started + 1
               PROVE  (Busy(Group[i]) \/ Replied(Group[i]))'
    OBVIOUS
  <2>0. PICK n \in Everyone : n = Group[i]
    BY <1>2
  <2>1. CASE i = started + 1
    BY <1>3, <2>1, <2>0
  <2>2. CASE i # started + 1
    <3>1. n # m /\ (Busy(n) \/ Replied(n))
      BY <1>1, <2>0, <2>2
    <3>2. (Busy(n) \/ Replied(n))'
      BY <3>1
    <3> QED BY <1>3, <2>0, <3>2
  <2> QED BY <2>1, <2>2
<1>5. \A i \in 1..Len(Group) : i > started + 1 => ~Busy(Group[i])' /\ ~Replied(Group[i])'
  <2> SUFFICES ASSUME NEW i \in 1..Len(Group), i > started + 1
               PROVE  ~Busy(Group[i])' /\ ~Replied(Group[i])'
    OBVIOUS
  <2>0. PICK n \in Everyone : n = Group[i]
    BY <1>2
  <2>1. n # m /\ ~Busy(n) /\ ~Replied(n)
    BY <1>1, <2>0
  <2>2. ~Busy(n)' /\ ~Replied(n)'
    BY <2>1
  <2> QED BY <1>3, <2>0, <2>2
<1>6. CASE started + 1 = Len(Group)
  <2>1. main' = "collect"
    BY <1>6 DEF Following
  <2>2. \A n \in Members : (Busy(n) \/ Replied(n))'
    <3> SUFFICES ASSUME NEW n \in Members PROVE (Busy(n) \/ Replied(n))'
      OBVIOUS
    <3>1. PICK i \in 1..Len(Group) : n = Group[i]
      BY DEF Members
    <3>2. i <= started + 1
      BY <1>1, <1>6
    <3> QED BY <1>3, <1>4, <3>1, <3>2
  <2>3. msg_count' = Cardinality(Members' \ answered')
    BY <1>3, GroupRunFacts DEF StartInv
  <2> QED BY <1>3, <2>1, <2>2, <2>3 DEF StartInv
<1>7. CASE started + 1 # Len(Group)
  <2>1. main' = "start" /\ started' < Len(Group')
    BY <1>1, <1>3, <1>7 DEF Following
  <2>2. msg_count' = Cardinality(Members' \ answered')
    BY <1>3, GroupRunFacts DEF StartInv
  <2>3. \A i \in 1..Len(Group') :
           IF i <= started' THEN (Busy(Group[i]) \/ Replied(Group[i]))'
           ELSE ~Busy(Group[i])' /\ ~Replied(Group[i])'
    BY <1>1, <1>3, <1>4, <1>5
  <2> QED BY <2>1, <2>2, <2>3 DEF StartInv
<1> QED BY <1>6, <1>7

\* The command is in the channel of the next thread.
LEMMA SendCommandStep ==
    ASSUME GroupRun, SendCommand, UNCHANGED simpleVars
    PROVE  BenchInv'
<1>0. /\ BenchTypeOK /\ workq = <<>> /\ CallInv /\ PlaceInv /\ SemInv /\ harness \in Harnesses
      /\ caller = "waits" /\ commands = <<>> /\ end_wait = 0
      /\ UNCHANGED <<harness, callVars, caller, commands, end_wait, doing, round, answered,
                     msg_count, job, sem, results, workq>>
  BY GroupRunFacts DEF GroupRun, SendCommand, simpleVars, callVars
<1>1. PICK m \in Everyone : m = Group[started + 1] /\ m \in Members /\ ~Busy(m) /\ ~Replied(m)
  BY NextMember DEF SendCommand
<1>2. /\ inbox' = [inbox EXCEPT ![m] = <<NextJob>>]
      /\ started' = started + 1 /\ main' = Following /\ main = "start"
  BY <1>1 DEF SendCommand
<1>3. /\ inbox'[m] = <<NextJob>> /\ inbox'[m] # <<>>
      /\ \A n \in Everyone \ {m} : inbox'[n] = inbox[n]
  BY <1>0, <1>2 DEF BenchTypeOK
<1>4. /\ \A n \in Everyone : Sent(n)' = Sent(n) /\ Replied(n)' = Replied(n)
      /\ \A n \in Everyone : Works(n)' = Works(n)
      /\ \A n \in Everyone : Total(n)' = Total(n)
      /\ NextJob' = NextJob /\ Members' = Members /\ Commands' = Commands
  <2>1. \A n \in Everyone : Sent(n)' = Sent(n) /\ Replied(n)' = Replied(n) /\ Works(n)' = Works(n)
    BY <1>0 DEF Sent, Replied, Works
  <2>2. \A n \in Everyone : Total(n)' = Total(n)
    BY <1>0, SameProgram DEF Total
  <2> QED BY <1>0, <2>1, <2>2, SameGroup DEF NextJob
<1>5. Busy(m)' /\ \A n \in Everyone \ {m} : Busy(n)' <=> Busy(n)
  BY <1>3, <1>4 DEF Busy
<1>6. SemInv'
  <2>1. \A n \in Everyone : Progress(n)' = Progress(n)
    BY <1>0, <1>4 DEF Progress
  <2> QED BY <1>0, <2>1, SemKept
<1>7. PlaceInv'
  <2>1. ~Works(m) /\ ~Replied(m) /\ m \notin answered
    BY <1>1 DEF Busy, Replied
  <2>2. /\ inbox'[m] = <<NextJob>>' /\ ~Works(m)' /\ ~Replied(m)' /\ m \notin answered'
        /\ m \in Members'
    BY <1>0, <1>1, <1>3, <1>4, <2>1
  <2> QED BY <1>0, <1>3, <1>4, <1>5, <2>2 DEF PlaceInv
<1>8. StartInv' /\ main' \in {"start", "collect"}
  BY <1>0, <1>1, <1>2, <1>4, <1>5, StartedOne
<1>9. BenchTypeOK'
  <2>1. inbox' \in [Everyone -> Seq(Job)]
    <3>1. NextJob \in Job
      BY <1>0, JobFacts
    <3>2. <<NextJob>> \in Seq(Job)
      BY <3>1
    <3>3. inbox \in [Everyone -> Seq(Job)]
      BY <1>0 DEF BenchTypeOK
    <3> QED BY <1>2, <3>2, <3>3
  <2>2. started' \in Nat
    BY <1>0, <1>2 DEF BenchTypeOK
  <2> QED BY <1>0, <1>8, <2>1, <2>2 DEF BenchTypeOK
<1>10. CallInv'
  BY <1>0, <1>8 DEF CallInv
<1> QED BY <1>0, <1>6, <1>7, <1>8, <1>9, <1>10 DEF BenchInv, GroupInv, Harnesses

\* The next task is spawned, or cannot be.
LEMMA SpawnStep ==
    ASSUME GroupRun, Spawn, UNCHANGED simpleVars
    PROVE  BenchInv'
<1>0. /\ BenchTypeOK /\ workq = <<>> /\ CallInv /\ PlaceInv /\ SemInv /\ harness \in Harnesses
      /\ caller = "waits" /\ commands = <<>> /\ end_wait = 0
      /\ UNCHANGED <<harness, callVars, caller, commands, end_wait, doing, round, answered,
                     msg_count, inbox, sem, results, workq>>
      /\ started' = started + 1 /\ main = "start"
  BY GroupRunFacts DEF GroupRun, Spawn, simpleVars, callVars
<1>1. PICK m \in Everyone : m = Group[started + 1] /\ m \in Members /\ ~Busy(m) /\ ~Replied(m)
  BY NextMember DEF Spawn
<1>2. /\ \A n \in Everyone : Sent(n)' = Sent(n) /\ Replied(n)' = Replied(n)
      /\ \A n \in Everyone : Total(n)' = Total(n)
      /\ NextJob' = NextJob /\ Members' = Members /\ Commands' = Commands
  <2>1. \A n \in Everyone : Sent(n)' = Sent(n) /\ Replied(n)' = Replied(n)
    BY <1>0 DEF Sent, Replied
  <2>2. \A n \in Everyone : Total(n)' = Total(n)
    BY <1>0, SameProgram DEF Total
  <2> QED BY <1>0, <2>1, <2>2, SameGroup DEF NextJob
<1>3. started' \in Nat
  BY <1>0 DEF BenchTypeOK
<1>4. CASE job' = [job EXCEPT ![m] = NextJob] /\ main' = Following
  <2>1. job'[m] = NextJob /\ \A n \in Everyone \ {m} : job'[n] = job[n]
    BY <1>0, <1>4 DEF BenchTypeOK
  <2>2. ~Works(m) /\ ~Replied(m) /\ m \notin answered /\ inbox[m] = <<>> /\ ~Sent(m)
    BY <1>1 DEF Busy, Replied
  <2>3. /\ Works(m)' /\ Busy(m)' /\ ~Replied(m)'
        /\ \A n \in Everyone \ {m} : (Works(n)' <=> Works(n)) /\ (Busy(n)' <=> Busy(n))
    BY <1>0, <1>2, <2>1, <2>2, JobFacts DEF Works, Busy
  <2>4. SemInv'
    <3>1. Progress(m)' = 0 /\ Progress(m) = 0
      BY <1>0, <2>1, <2>2, <2>3, JobFacts DEF Progress
    <3>2. \A n \in Everyone \ {m} : Progress(n)' = Progress(n)
      BY <1>2, <2>1, <2>3 DEF Progress
    <3> QED BY <1>0, <3>1, <3>2, SemKept
  <2>5. PlaceInv'
    <3>0. doing \in Ops
      BY <1>0 DEF BenchTypeOK
    <3>1. 0 <= Total(m)
      BY <3>0, TotalNat
    <3>2. /\ job'[m].op = doing' /\ job'[m].round = round'
          /\ job'[m].done <= Total(m)' /\ ~Replied(m)'
          /\ inbox'[m] = <<>> /\ m \notin answered' /\ m \in Members'
      BY <1>0, <1>1, <1>2, <2>1, <2>2, <3>1, JobFacts
    <3> QED BY <1>0, <1>2, <2>1, <2>3, <3>2 DEF PlaceInv
  <2>6. StartInv' /\ main' \in {"start", "collect"}
    BY <1>0, <1>1, <1>2, <1>4, <2>3, StartedOne
  <2>7. BenchTypeOK'
    <3>1. job' \in [Everyone -> Job]
      BY <1>0, <1>4, JobFacts DEF BenchTypeOK
    <3> QED BY <1>0, <1>3, <2>6, <3>1 DEF BenchTypeOK
  <2>8. CallInv'
    BY <1>0, <2>6 DEF CallInv
  <2> QED BY <1>0, <2>4, <2>5, <2>6, <2>7, <2>8 DEF BenchInv, GroupInv, Harnesses
<1>5. CASE job' = job /\ main' = "spawn failed"
  <2>1. \A n \in Everyone : (Works(n)' <=> Works(n)) /\ (Busy(n)' <=> Busy(n))
    BY <1>0, <1>5 DEF Works, Busy
  <2>2. SemInv'
    <3>1. \A n \in Everyone : Progress(n)' = Progress(n)
      BY <1>2, <1>5, <2>1 DEF Progress
    <3> QED BY <1>0, <3>1, SemKept
  <2>3. PlaceInv'
    BY <1>0, <1>2, <1>5, <2>1 DEF PlaceInv
  <2>4. StartInv'
    BY <1>5 DEF StartInv
  <2>5. BenchTypeOK'
    BY <1>0, <1>3, <1>5 DEF BenchTypeOK
  <2>6. CallInv'
    BY <1>0, <1>5 DEF CallInv
  <2> QED BY <1>0, <1>5, <2>2, <2>3, <2>4, <2>5, <2>6 DEF BenchInv, GroupInv, Harnesses
<1> QED BY <1>1, <1>4, <1>5 DEF Spawn

\* When everyone has done everything, all that was given has been taken.
LEMMA SemEnd ==
    ASSUME SemInv, sem \in [Sems -> Nat], harness \in Harnesses, doing \in Commands,
           \A m \in Members : Progress(m) = Total(m)
    PROVE  sem = Zero
<1>0. Iters \in Nat \ {0} /\ NumThreads \in Nat \ {0}
  BY BenchAssumption
<1>1. /\ doing \in Ops
      /\ \A w \in Workers : Progress(w) = Iters * Len(Program(doing, w))
      /\ Progress(Low) = Iters * Len(Program(doing, Low))
      /\ harness = "threads" => Progress(High) = Iters * Len(Program(doing, High))
  <2>1. Workers \cup {Low} \subseteq Members /\ (harness = "threads" => High \in Members)
    BY GroupFacts
  <2>2. doing \in Ops
    BY DEF Commands, Ops
  <2> QED BY <2>1, <2>2 DEF Total
<1>2. ASSUME \A w \in Workers : sem[<<"sem", w>>] = 0 /\ sem[<<"back", w>>] = 0
      PROVE  sem = Zero
  <2>1. ASSUME NEW s \in Sems PROVE sem[s] = 0
    <3>1. PICK name \in {"sem", "back"}, w \in Workers : s = <<name, w>>
      BY DEF Sems
    <3> QED BY <1>2, <3>1
  <2> QED BY <2>1 DEF Zero
<1>3. CASE doing = "Empty"
  BY <1>3 DEF SemInv
<1>4. CASE doing \in Simple
  <2>1. \A w \in Workers : sem[<<"sem", w>>] = Progress(w) % 2 /\ sem[<<"back", w>>] = 0
    BY <1>4 DEF SemInv, Simple
  <2>2. ASSUME NEW w \in Workers PROVE Progress(w) % 2 = 0
    <3>1. Progress(w) = Iters * 2
      BY <1>1, <1>4, SimpleProgram
    <3>2. (Iters * 2) % 2 = 0
      BY <1>0, DivMultiple
    <3> QED BY <3>1, <3>2
  <2> QED BY <1>2, <2>1, <2>2
<1>5. CASE doing \in Waits
  <2>1. \A w \in Workers : /\ sem[<<"sem", w>>] + Progress(w) = Gave(Progress(Giver), w)
                           /\ sem[<<"back", w>>] = 0
    BY <1>5 DEF SemInv, Waits, Simple
  <2>2. Progress(Giver) = Iters * NumThreads
    <3>1. doing = "SemHigh" => harness = "threads"
      BY DEF Commands, Harnesses
    <3>2. Len(Program(doing, Giver)) = NumThreads
      BY <1>5, GiveProgram DEF Giver
    <3> QED BY <1>1, <3>1, <3>2 DEF Giver
  <2>3. ASSUME NEW w \in Workers PROVE sem[<<"sem", w>>] = 0
    <3>1. Progress(w) = Iters
      <4>1. Len(Program(doing, w)) = 1
        BY <1>5, WaitProgram
      <4>2. Progress(w) = Iters * 1
        BY <1>1, <4>1
      <4> QED BY <1>0, <4>2
    <3>2. Gave(Iters * NumThreads, w) = Iters
      <4>1. /\ (Iters * NumThreads) % NumThreads = 0
            /\ (Iters * NumThreads) \div NumThreads = Iters
        BY <1>0, DivMultiple
      <4>2. ~(w < 0)
        BY <1>0 DEF Workers
      <4> QED BY <1>0, <4>1, <4>2 DEF Gave
    <3>3. sem[<<"sem", w>>] \in Nat
      BY SemNames
    <3>4. sem[<<"sem", w>>] + Iters = Iters
      BY <2>1, <2>2, <3>1, <3>2
    <3> QED BY <1>0, <3>3, <3>4
  <2> QED BY <1>2, <2>1, <2>3
<1>6. CASE doing \in PingPongs
  <2>1. PingPongInv
    BY <1>6 DEF SemInv, PingPongs
  <2>2. LowAt = 0
    <3> DEFINE n == 2 * NumThreads
    <3>1. n \in Nat \ {0}
      BY <1>0
    <3>2. Progress(Low) = Iters * n
      BY <1>1, <1>6, PingProgram
    <3> HIDE DEF n
    <3>3. (Iters * n) % n = 0
      BY <1>0, <3>1, DivMultiple
    <3> QED BY <3>2, <3>3 DEF LowAt, n
  <2>3. 0 % 2 = 0
    OBVIOUS
  <2> QED BY <2>1, <2>2, <2>3 DEF PingPongInv
<1> QED BY <1>1, <1>3, <1>4, <1>5, <1>6 DEF Ops, Simple, Waits, PingPongs

\* Main takes a result.  After the last one nothing of the run is left.
LEMMA CollectStep ==
    ASSUME GroupRun, Collect, UNCHANGED simpleVars
    PROVE  BenchInv'
<1>0. /\ BenchTypeOK /\ workq = <<>> /\ CallInv /\ PlaceInv /\ SemInv /\ StartInv
      /\ harness \in Harnesses
      /\ caller = "waits" /\ commands = <<>> /\ end_wait = 0 /\ main = "collect"
      /\ UNCHANGED <<harness, caller, commands, doing, round, started, inbox, job, sem, workq>>
  BY GroupRunFacts DEF GroupRun, Collect, simpleVars
<1>1. /\ Len(results) \in Nat /\ Len(results) # 0 /\ results' = Tail(results)
      /\ Len(results') = Len(results) - 1
      /\ \A i \in 1..Len(results') : i + 1 \in 1..Len(results) /\ results'[i] = results[i + 1]
      /\ results[1].from \in Everyone /\ Head(results) = results[1]
      /\ \A i \in 1..Len(results') : results'[i].from \in Everyone
      /\ results' \in Seq([from : Everyone, round : {0, 1}])
  <2> DEFINE S == [from : Everyone, round : {0, 1}]
  <2>1. results \in Seq(S) /\ results # <<>> /\ results' = Tail(results)
    BY <1>0 DEF BenchTypeOK, Collect
  <2>2. \A r \in S : r.from \in Everyone
    OBVIOUS
  <2> HIDE DEF S
  <2>3. /\ Len(results) \in Nat /\ Len(results) # 0
        /\ Len(results') = Len(results) - 1 /\ results' \in Seq(S)
    BY <2>1
  <2>4. \A i \in 1..Len(results') : i + 1 \in 1..Len(results) /\ results'[i] = results[i + 1]
    BY <2>1, <2>3
  <2>5. results[1] \in S /\ Head(results) = results[1]
    BY <2>1, <2>3
  <2>6. \A i \in 1..Len(results') : results'[i] \in S
    BY <2>3
  <2> QED BY <2>1, <2>2, <2>3, <2>4, <2>5, <2>6 DEF S
<1>2. PICK m \in Everyone : m = results[1].from
  BY <1>1
<1>3. /\ Sent(m) /\ m \notin answered /\ m \in Members
  BY <1>0, <1>1, <1>2 DEF Sent, Replied, PlaceInv
<1>4. /\ answered' = answered \cup {m} /\ msg_count' = msg_count - 1
      /\ main' = IF msg_count - 1 <= 0 THEN "command" ELSE "collect"
      /\ end_wait' = IF msg_count - 1 <= 0 THEN 1 ELSE 0
  BY <1>0, <1>1, <1>2, <1>3 DEF Collect
<1>5. ~Sent(m)' /\ \A n \in Everyone \ {m} : Sent(n)' <=> Sent(n)
  <2>1. \A i \in 1..Len(results') : results'[i].from # m
    <3> SUFFICES ASSUME NEW i \in 1..Len(results'), results'[i].from = m PROVE FALSE
      OBVIOUS
    <3>1. i + 1 \in 1..Len(results) /\ results[i + 1].from = results[1].from /\ 1 \in 1..Len(results)
      BY <1>1, <1>2
    <3>2. i + 1 = 1
      BY <1>0, <3>1 DEF PlaceInv
    <3> QED BY <1>1, <3>2
  <2>2. ASSUME NEW n \in Everyone, n # m, Sent(n) PROVE Sent(n)'
    <3>1. PICK i \in 1..Len(results) : results[i].from = n
      BY <2>2 DEF Sent
    <3>2. i # 1
      BY <1>2, <2>2, <3>1
    <3>3. i - 1 \in 1..Len(results') /\ (i - 1) + 1 = i
      BY <1>1, <3>1, <3>2
    <3>4. results'[i - 1].from = n
      BY <1>1, <3>1, <3>3
    <3> QED BY <3>3, <3>4 DEF Sent
  <2>3. ASSUME NEW n \in Everyone, Sent(n)' PROVE Sent(n)
    BY <1>1, <2>3 DEF Sent
  <2> QED BY <2>1, <2>2, <2>3 DEF Sent
<1>6. /\ \A n \in Everyone : Replied(n)' <=> Replied(n)
      /\ \A n \in Everyone : n \in answered' => ~Sent(n)'
  <2>1. \A n \in Everyone : n \in answered => ~Sent(n)
    BY <1>0 DEF PlaceInv
  <2> QED BY <1>3, <1>4, <1>5, <2>1 DEF Replied
<1>7. /\ \A n \in Everyone : (Works(n)' <=> Works(n)) /\ (Busy(n)' <=> Busy(n))
      /\ \A n \in Everyone : Total(n)' = Total(n)
      /\ NextJob' = NextJob /\ Members' = Members /\ Commands' = Commands /\ Group' = Group
  <2>1. \A n \in Everyone : (Works(n)' <=> Works(n)) /\ (Busy(n)' <=> Busy(n))
    BY <1>0 DEF Works, Busy
  <2>2. \A n \in Everyone : Total(n)' = Total(n)
    BY <1>0, SameProgram DEF Total
  <2> QED BY <1>0, <2>1, <2>2, SameGroup DEF NextJob
<1>8. SemInv'
  <2>1. \A n \in Everyone : Progress(n)' = Progress(n)
    BY <1>0, <1>6, <1>7 DEF Progress
  <2> QED BY <1>0, <2>1, SemKept
<1>9. PlaceInv'
  <2>1. \A i, j \in 1..Len(results') :
          /\ results'[i].round = round'
          /\ results'[i].from = results'[j].from => i = j
    <3> SUFFICES ASSUME NEW i \in 1..Len(results'), NEW j \in 1..Len(results')
                 PROVE  /\ results'[i].round = round'
                        /\ results'[i].from = results'[j].from => i = j
      OBVIOUS
    <3>1. /\ i + 1 \in 1..Len(results) /\ results'[i] = results[i + 1]
          /\ j + 1 \in 1..Len(results) /\ results'[j] = results[j + 1]
      BY <1>1
    <3>2. /\ results[i + 1].round = round
          /\ results[i + 1].from = results[j + 1].from => i + 1 = j + 1
      BY <1>0, <3>1 DEF PlaceInv
    <3> QED BY <1>0, <3>1, <3>2
  <2> QED BY <1>0, <1>6, <1>7, <2>1 DEF PlaceInv
<1>10. /\ msg_count = Cardinality(Members \ answered) /\ msg_count \in Nat
       /\ Cardinality(Members \ answered') = msg_count - 1
       /\ msg_count - 1 = 0 => Members \subseteq answered'
       /\ msg_count - 1 \in Nat
  <2> DEFINE S == Members \ answered
  <2>1. IsFiniteSet(S)
    BY <1>0, GroupSize, FS_Subset
  <2>2. msg_count = Cardinality(S) /\ m \in S /\ Members \ answered' = S \ {m}
    BY <1>0, <1>3, <1>4 DEF StartInv
  <2>3. IsFiniteSet(S \ {m}) /\ Cardinality(S \ {m}) = Cardinality(S) - 1
    BY <2>1, <2>2, FS_RemoveElement
  <2>4. Cardinality(S) \in Nat /\ Cardinality(S \ {m}) \in Nat
    BY <2>1, <2>3, FS_CardinalityType
  <2>5. Cardinality(S \ {m}) = 0 => S \ {m} = {}
    BY <2>3, FS_EmptySet
  <2> QED BY <2>2, <2>3, <2>4, <2>5
<1>11. BenchTypeOK'
  BY <1>0, <1>1, <1>4 DEF BenchTypeOK
<1>12. CASE msg_count - 1 = 0
  <2>1. main' = "command" /\ end_wait' = 1 /\ Members \subseteq answered'
    BY <1>4, <1>10, <1>12
  <2>2. \A n \in Everyone : n \in answered' => Replied(n)
    BY <1>3, <1>4 DEF Replied
  <2>3. \A n \in Everyone : ~Busy(n)
    BY <1>0, <2>1, <2>2 DEF PlaceInv, Busy
  <2>4. results' = <<>>
    <3>1. ASSUME NEW i \in 1..Len(results') PROVE FALSE
      <4>1. PICK n \in Everyone : n = results'[i].from
        BY <1>1, <3>1
      <4>2. Sent(n)' /\ Sent(n)
        BY <1>5, <4>1 DEF Sent
      <4>3. n \in Members
        BY <1>0, <4>2 DEF PlaceInv, Replied
      <4> QED BY <1>6, <2>1, <4>2, <4>3
    <3>2. Len(results') = 0
      <4>1. Len(results') \in Nat
        BY <1>1
      <4>2. ~(1 \in 1..Len(results'))
        BY <3>1
      <4> QED BY <4>1, <4>2
    <3> QED BY <1>1, <3>2
  <2>5. sem = Zero
    <3>1. \A n \in Members : n \in Everyone
      BY <1>0, GroupFacts DEF Members
    <3>2. \A n \in Members : Progress(n) = Total(n)
      BY <2>1, <2>2, <2>3, <3>1 DEF Progress, Busy
    <3> QED BY <1>0, <3>2, SemEnd DEF BenchTypeOK, PlaceInv
  <2>6. RestInv'
    BY <1>0, <1>7, <2>3, <2>4, <2>5 DEF RestInv, Zero
  <2>7. CallInv'
    BY <1>0, <2>1 DEF CallInv
  <2> QED BY <1>0, <1>11, <2>1, <2>6, <2>7 DEF BenchInv, GroupInv, Harnesses
<1>13. CASE msg_count - 1 # 0
  <2>1. main' = "collect" /\ end_wait' = 0
    BY <1>4, <1>10, <1>13
  <2>2. StartInv'
    <3>1. \A n \in Members : n \in Everyone
      BY <1>0, GroupFacts DEF Members
    <3>2. \A n \in Members : (Busy(n) \/ Replied(n))'
      BY <1>0, <1>6, <1>7, <3>1 DEF StartInv
    <3>3. msg_count' = Cardinality(Members' \ answered')
      BY <1>4, <1>7, <1>10
    <3> QED BY <1>7, <2>1, <3>2, <3>3 DEF StartInv
  <2>3. CallInv'
    BY <1>0, <2>1 DEF CallInv
  <2> QED BY <1>0, <1>8, <1>9, <1>11, <2>1, <2>2, <2>3 DEF BenchInv, GroupInv, Harnesses
<1> QED BY <1>12, <1>13

-----------------------------------------------------------------------------
(* Simple.                                                                 *)

\* Passing the first of the worker items to the end.
LEMMA TurnStep ==
    ASSUME NEW r \in 0..NumThreads-1
    PROVE  /\ Head(Turned(r)) = r
           /\ Append(Tail(Turned(r)), Head(Turned(r))) = Turned(r + 1)
           /\ Turned(0) = [i \in 1..NumThreads |-> i - 1]
           /\ Turned(NumThreads) = Turned(0)
<1> DEFINE n == NumThreads
           a == Turned(r)
           b == Append(Tail(a), Head(a))
<1>0. n \in Nat \ {0} /\ r \in Nat /\ r < n
  BY BenchAssumption
<1>1. /\ a \in Seq(Nat) /\ Len(a) = n
      /\ \A i \in 1..n : a[i] = IF r + i - 1 < n THEN r + i - 1 ELSE r + i - 1 - n
  BY <1>0 DEF Turned
<1>2. Head(a) = r
  <2>1. Head(a) = a[1] /\ 1 \in 1..n
    BY <1>0, <1>1
  <2> QED BY <1>0, <1>1, <2>1
<1> HIDE DEF a
<1>3. /\ Tail(a) \in Seq(Nat) /\ Len(Tail(a)) = n - 1
      /\ \A i \in 1..n-1 : Tail(a)[i] = a[i + 1]
  BY <1>0, <1>1
<1>4. /\ b \in Seq(Nat) /\ Len(b) = n
      /\ \A i \in 1..n : b[i] = IF i = n THEN r ELSE a[i + 1]
  BY <1>0, <1>2, <1>3
<1>5. ASSUME NEW i \in 1..n
      PROVE  b[i] = IF (r + 1) + i - 1 < n THEN (r + 1) + i - 1 ELSE (r + 1) + i - 1 - n
  <2>1. CASE i = n
    BY <1>0, <1>4, <2>1
  <2>2. CASE i # n
    <3>1. i + 1 \in 1..n /\ b[i] = a[i + 1]
      BY <1>0, <1>4, <2>2
    <3> QED BY <1>0, <1>1, <3>1
  <2> QED BY <2>1, <2>2
<1>6. b = Turned(r + 1)
  <2> HIDE DEF b
  <2>1. b = [i \in 1..n |-> b[i]]
    BY <1>4
  <2> QED BY <1>5, <2>1 DEF Turned
<1>7. Turned(0) = [i \in 1..n |-> i - 1]
  BY <1>0 DEF Turned
<1>8. Turned(n) = [i \in 1..n |-> i - 1]
  BY <1>0 DEF Turned
<1> QED BY <1>2, <1>6, <1>7, <1>8 DEF a, b

\* The states of Simple, with what all of them share.
LEMMA SimpleFacts ==
    ASSUME BenchInv, harness = "simple"
    PROVE  /\ BenchTypeOK /\ SimpleInv /\ RestInv /\ commands = <<>> /\ main = "command"
           /\ NumThreads \in Nat \ {0} /\ Iters \in Nat \ {0}
BY BenchAssumption DEF BenchInv, SimpleInv

LEMMA SimpleKept ==
    ASSUME BenchInv, harness = "simple",
           UNCHANGED <<harness, commands, mainVars, groupVars>>,
           caller' \in {"calls", "waits"}, end_wait' \in {0, 1},
           \/ caller' = "calls" /\ end_wait' = 0 /\ workq' = <<>>
           \/ /\ caller' = "waits" /\ end_wait' = 1 /\ workq' = <<>>
              /\ acted' = [w \in Workers |-> Iters]
           \/ /\ caller' = "waits" /\ end_wait' = 0
              /\ \E q \in Nat, r \in 0..NumThreads-1 : SimpleAt(q, r)'
    PROVE  BenchInv'
<1>1. BenchTypeOK /\ RestInv /\ commands = <<>> /\ main = "command"
  BY SimpleFacts
<1>2. /\ UNCHANGED <<main, doing, round, started, answered, msg_count>>
      /\ UNCHANGED <<inbox, job, sem, results>>
  BY DEF mainVars, groupVars
<1>3. BenchTypeOK'
  BY <1>1, <1>2 DEF BenchTypeOK
<1>4. RestInv'
  BY <1>1, RestKept
<1>5. SimpleInv'
  BY <1>1, <1>2, <1>4 DEF SimpleInv
<1> QED BY <1>3, <1>5 DEF BenchInv

LEMMA SimpleRunStep ==
    ASSUME BenchInv, SimpleRun
    PROVE  BenchInv'
<1>0. harness = "simple" /\ caller = "calls"
  BY DEF SimpleRun
<1>1. /\ NumThreads \in Nat \ {0} /\ Iters \in Nat \ {0}
      /\ end_wait = 0 /\ workq = <<>>
  BY <1>0, SimpleFacts DEF SimpleInv
<1>2. /\ caller' = "waits" /\ end_wait' = 0
      /\ works' = [i \in 1..NumThreads |-> i - 1] /\ count' = NumThreads * Iters
      /\ acted' = [w \in Workers |-> 0] /\ workq' = <<MainItem>>
      /\ UNCHANGED <<harness, commands, mainVars, groupVars>>
  BY <1>1 DEF SimpleRun
<1>3. works' = Turned(0)
  <2>1. 0 \in 0..NumThreads-1
    BY <1>1
  <2> QED BY <1>2, <2>1, TurnStep
<1>4. /\ acted' = [w \in Workers |-> IF w < 0 THEN 0 + 1 ELSE 0]
      /\ count' \in Nat /\ count' + 0 * NumThreads + 0 = NumThreads * Iters
  <2>1. count' \in Nat /\ count' + 0 * NumThreads + 0 = NumThreads * Iters
    BY <1>1, <1>2
  <2>2. \A w \in Workers : ~(w < 0)
    BY <1>1 DEF Workers
  <2> QED BY <1>2, <2>1, <2>2
<1>5. SimpleAt(0, 0)'
  BY <1>2, <1>3, <1>4 DEF SimpleAt
<1>6. 0 \in 0..NumThreads-1 /\ 0 \in Nat
  BY <1>1
<1> QED BY <1>0, <1>2, <1>5, <1>6, SimpleKept

\* A step of the work queue is one of Simple, between two calls of done.
LEMMA SimpleQueue ==
    ASSUME BenchInv, workq # <<>>
    PROVE  /\ harness = "simple" /\ caller = "waits" /\ end_wait = 0
           /\ \E q \in Nat, r \in 0..NumThreads-1 : SimpleAt(q, r)
BY DEF BenchInv, SimpleInv

LEMMA SimpleMainActsStep ==
    ASSUME BenchInv, SimpleMainActs
    PROVE  BenchInv'
<1>0. /\ harness = "simple" /\ caller = "waits" /\ end_wait = 0
      /\ NumThreads \in Nat \ {0} /\ Iters \in Nat \ {0}
  BY SimpleQueue, SimpleFacts DEF SimpleMainActs
<1>1. PICK q \in Nat, r \in 0..NumThreads-1 : SimpleAt(q, r)
  BY SimpleQueue DEF SimpleMainActs
<1>2. /\ acted = [w \in Workers |-> IF w < r THEN q + 1 ELSE q]
      /\ workq = <<MainItem>> /\ works = Turned(r) /\ count \in Nat
      /\ count + q * NumThreads + r = NumThreads * Iters
  <2>1. Head(workq) = MainItem
    BY DEF SimpleMainActs
  <2>2. workq # <<r>>
    BY <1>0, <2>1 DEF MainItem
  <2> QED BY <1>1, <2>2 DEF SimpleAt
<1>3. /\ UNCHANGED <<harness, caller, commands, mainVars, groupVars, acted>>
      /\ Tail(workq) = <<>>
  BY <1>2 DEF SimpleMainActs
<1>4. CASE count = 0
  <2>1. end_wait' = 1 /\ workq' = <<>>
    <3>1. ~(count > 0)
      BY <1>4
    <3>2. end_wait' = 1 /\ workq' = Tail(workq)
      BY <3>1 DEF SimpleMainActs
    <3> QED BY <1>3, <3>2
  <2>2. q * NumThreads + r = NumThreads * Iters
    BY <1>0, <1>2, <1>4
  <2>3. q = Iters /\ r = 0
    BY <1>0, <2>2, DivUnique
  <2>4. acted' = [w \in Workers |-> Iters]
    <3>1. \A w \in Workers : ~(w < 0)
      BY <1>0 DEF Workers
    <3> QED BY <1>2, <1>3, <2>3, <3>1
  <2> QED BY <1>0, <1>3, <2>1, <2>4, SimpleKept
<1>5. CASE count > 0
  <2>1. /\ works' = Append(Tail(works), Head(works)) /\ count' = count - 1
        /\ workq' = Append(Tail(workq), Head(works)) /\ end_wait' = 0
    BY <1>0, <1>2, <1>5 DEF SimpleMainActs
  <2>2. works' = Turned(r + 1) /\ workq' = <<r>>
    <3>1. Head(works) = r /\ works' = Turned(r + 1)
      BY <1>2, <2>1, TurnStep
    <3>2. workq' = Append(<<>>, r)
      BY <1>3, <2>1, <3>1
    <3> QED BY <3>1, <3>2
  <2>3. count' \in Nat /\ count' + 1 + q * NumThreads + r = NumThreads * Iters
    <3>1. q * NumThreads \in Nat /\ r \in Nat
      BY <1>0
    <3> QED BY <1>2, <1>5, <2>1, <3>1
  <2>4. SimpleAt(q, r)'
    BY <1>2, <1>3, <2>2, <2>3 DEF SimpleAt
  <2> QED BY <1>0, <1>3, <2>1, <2>4, SimpleKept
<1> QED BY <1>2, <1>4, <1>5

LEMMA SimpleWorkerActsStep ==
    ASSUME BenchInv, SimpleWorkerActs
    PROVE  BenchInv'
<1>0. /\ harness = "simple" /\ caller = "waits" /\ end_wait = 0
      /\ NumThreads \in Nat \ {0} /\ Iters \in Nat \ {0}
  BY SimpleQueue, SimpleFacts DEF SimpleWorkerActs
<1>1. PICK q \in Nat, r \in 0..NumThreads-1 : SimpleAt(q, r)
  BY SimpleQueue DEF SimpleWorkerActs
<1>2. /\ acted = [w \in Workers |-> IF w < r THEN q + 1 ELSE q]
      /\ workq = <<r>> /\ works = Turned(r + 1) /\ count \in Nat
      /\ count + 1 + q * NumThreads + r = NumThreads * Iters
  <2>1. Head(workq) # MainItem
    BY DEF SimpleWorkerActs
  <2>2. workq # <<MainItem>>
    BY <2>1
  <2> QED BY <1>1, <2>2 DEF SimpleAt
<1>3. r \in Workers /\ r \in Nat /\ q * NumThreads \in Nat
  BY <1>0 DEF Workers
<1>4. /\ UNCHANGED <<harness, caller, commands, end_wait, mainVars, groupVars, works, count>>
      /\ acted' = [acted EXCEPT ![r] = @ + 1] /\ workq' = <<MainItem>>
  BY <1>0, <1>2 DEF SimpleWorkerActs
<1>5. acted' = [w \in Workers |-> IF w < r + 1 THEN q + 1 ELSE q]
  <2>1. \A w \in Workers : w \in Nat
    BY <1>0 DEF Workers
  <2>2. acted' = [w \in Workers |-> IF w = r THEN acted[r] + 1 ELSE acted[w]]
    BY <1>2, <1>4
  <2>3. acted[r] = q /\ \A w \in Workers : acted[w] = IF w < r THEN q + 1 ELSE q
    BY <1>2, <1>3
  <2>4. \A w \in Workers : (IF w = r THEN acted[r] + 1 ELSE acted[w]) = IF w < r + 1 THEN q + 1 ELSE q
    BY <1>3, <2>1, <2>3
  <2> QED BY <2>2, <2>4
<1>6. CASE r + 1 < NumThreads
  <2>1. count' \in Nat /\ count' + q * NumThreads + (r + 1) = NumThreads * Iters
    BY <1>2, <1>3, <1>4
  <2>2. SimpleAt(q, r + 1)'
    BY <1>2, <1>4, <1>5, <2>1 DEF SimpleAt
  <2>3. r + 1 \in 0..NumThreads-1
    BY <1>0, <1>3, <1>6
  <2> QED BY <1>0, <1>4, <2>2, <2>3, SimpleKept
<1>7. CASE r + 1 = NumThreads
  <2>1. (q + 1) * NumThreads = q * NumThreads + NumThreads
    BY <1>0
  <2>2. count' \in Nat /\ count' + (q + 1) * NumThreads + 0 = NumThreads * Iters
    BY <1>0, <1>2, <1>3, <1>4, <1>7, <2>1
  <2>3. works' = Turned(0)
    BY <1>2, <1>4, <1>7, TurnStep
  <2>4. acted' = [w \in Workers |-> IF w < 0 THEN (q + 1) + 1 ELSE q + 1]
    <3>1. \A w \in Workers : w < r + 1 /\ ~(w < 0)
      BY <1>0, <1>7 DEF Workers
    <3> QED BY <1>5, <3>1
  <2>5. PICK k \in Nat : k = q + 1
    OBVIOUS
  <2>6. SimpleAt(k, 0)'
    BY <1>4, <2>2, <2>3, <2>4, <2>5 DEF SimpleAt
  <2>7. 0 \in 0..NumThreads-1
    BY <1>0
  <2> QED BY <1>0, <1>4, <2>6, <2>7, SimpleKept
<1> QED BY <1>0, <1>3, <1>6, <1>7

-----------------------------------------------------------------------------
(* The theorems.                                                           *)

LEMMA BenchInitInv == BenchInit => BenchInv
<1> SUFFICES ASSUME BenchInit PROVE BenchInv
  OBVIOUS
<1>1. RestInv
  <2>1. \A m \in Everyone : job[m] = Idle /\ inbox[m] = <<>>
    BY DEF BenchInit
  <2>2. \A m \in Everyone : ~Busy(m)
    BY <2>1, JobFacts DEF Busy, Works
  <2> QED BY <2>2 DEF RestInv, BenchInit
<1>2. BenchTypeOK
  <2>1. job \in [Everyone -> Job]
    BY JobFacts DEF BenchInit
  <2>2. inbox \in [Everyone -> Seq(Job)] /\ sem \in [Sems -> Nat]
    <3>1. <<>> \in Seq(Job)
      OBVIOUS
    <3> QED BY <3>1 DEF BenchInit
  <2>3. results \in Seq([from : Everyone, round : {0, 1}])
    BY DEF BenchInit
  <2>4. doing \in Ops
    BY DEF BenchInit, Ops
  <2> QED BY <2>1, <2>2, <2>3, <2>4 DEF BenchTypeOK, BenchInit
<1>3. CASE harness = "simple"
  BY <1>1, <1>2, <1>3 DEF BenchInv, SimpleInv, BenchInit
<1>4. CASE harness # "simple"
  <2>1. CallInv
    BY DEF CallInv, BenchInit
  <2> QED BY <1>1, <1>2, <1>4, <2>1 DEF BenchInv, GroupInv, BenchInit
<1> QED BY <1>3, <1>4

\* A member's step: at rest, only a task that returns late has one left.
LEMMA MemberStep ==
    ASSUME BenchInv, NEW m \in Everyone, Member(m), UNCHANGED simpleVars
    PROVE  BenchInv'
<1>1. CASE TaskReturns(m)
  BY <1>1, TaskReturnsStep
<1>2. CASE ~TaskReturns(m)
  <2>1. Busy(m)
    BY <1>2 DEF Member, RecvCommand, Operate, SendResult, Finished, Busy
  <2>2. ~RestInv
    BY <2>1 DEF RestInv
  <2>3. GroupRun
    BY <2>2 DEF BenchInv, SimpleInv, GroupInv, BenchTypeOK, GroupRun, Harnesses
  <2> QED BY <1>2, <2>3, RecvCommandStep, OperateStep, SendResultStep DEF Member
<1> QED BY <1>1, <1>2

LEMMA MainStep ==
    ASSUME BenchInv, Main, UNCHANGED simpleVars
    PROVE  BenchInv'
<1>1. harness \in Harnesses
  <2>1. harness # "simple"
    BY SimpleFacts DEF Main, Begin, SendCommand, Spawn, Collect
  <2> QED BY <2>1 DEF BenchInv, BenchTypeOK, Harnesses
<1>2. CASE Begin
  BY <1>1, <1>2, BeginStep DEF GroupRest, Begin
<1>3. CASE SendCommand
  BY <1>1, <1>3, SendCommandStep DEF GroupRun, SendCommand
<1>4. CASE Spawn
  BY <1>1, <1>4, SpawnStep DEF GroupRun, Spawn
<1>5. CASE Collect
  BY <1>1, <1>5, CollectStep DEF GroupRun, Collect
<1> QED BY <1>2, <1>3, <1>4, <1>5 DEF Main

LEMMA CallerStep ==
    ASSUME BenchInv, Caller, UNCHANGED simpleVars
    PROVE  BenchInv'
<1>1. CASE harness \in Harnesses
  BY <1>1, RunReturnsStep, CallRunStep DEF Caller
<1>2. CASE harness = "simple"
  <2>1. Commands = {}
    BY <1>2 DEF Commands
  <2>2. RunReturns
    BY <2>1 DEF Caller
  <2>3. workq = <<>>
    <3>1. SimpleInv /\ end_wait = 1
      BY <1>2, <2>2 DEF BenchInv, RunReturns
    <3> QED BY <3>1 DEF SimpleInv
  <2>4. /\ UNCHANGED <<harness, commands, mainVars, groupVars, workq>>
        /\ caller' = "calls" /\ end_wait' = 0
    BY <2>2 DEF RunReturns, simpleVars
  <2> QED BY <1>2, <2>3, <2>4, SimpleKept
<1> QED BY <1>1, <1>2 DEF BenchInv, BenchTypeOK, Harnesses

LEMMA BenchNextInv == BenchInv /\ [BenchNext]_benchVars => BenchInv'
<1> SUFFICES ASSUME BenchInv, [BenchNext]_benchVars PROVE BenchInv'
  OBVIOUS
<1>1. CASE Caller /\ UNCHANGED simpleVars
  BY <1>1, CallerStep
<1>2. CASE Main /\ UNCHANGED simpleVars
  BY <1>2, MainStep
<1>3. ASSUME NEW m \in Everyone, Member(m), UNCHANGED simpleVars PROVE BenchInv'
  BY <1>3, MemberStep
<1>4. CASE SimpleRun
  BY <1>4, SimpleRunStep
<1>5. CASE WorkQueue
  BY <1>5, SimpleMainActsStep, SimpleWorkerActsStep DEF WorkQueue
<1>6. CASE UNCHANGED benchVars
  <2>1. CASE harness = "simple"
    <3>1. UNCHANGED <<harness, commands, mainVars, groupVars, caller, end_wait, workq, works,
                      count, acted>>
      BY <1>6 DEF benchVars, harnessVars, callVars, simpleVars
    <3>2. SimpleInv /\ caller \in {"calls", "waits"} /\ end_wait \in {0, 1}
      BY <2>1 DEF BenchInv, BenchTypeOK
    <3>3. \A q \in Nat, r \in 0..NumThreads-1 : SimpleAt(q, r) => SimpleAt(q, r)'
      BY <3>1 DEF SimpleAt
    <3> QED BY <2>1, <3>1, <3>2, <3>3, SimpleKept DEF SimpleInv
  <2>2. CASE harness # "simple" /\ main = "command"
    <3>1. /\ UNCHANGED <<harness, caller, commands, end_wait, mainVars, groupVars, workq>>
          /\ UNCHANGED <<main, doing, round, started, answered, msg_count, inbox, job, sem, results>>
      BY <1>6 DEF benchVars, harnessVars, callVars, simpleVars, mainVars, groupVars
    <3>2. BenchTypeOK /\ workq = <<>> /\ CallInv /\ RestInv
      BY <2>2 DEF BenchInv, GroupInv
    <3>3. BenchTypeOK' /\ RestInv'
      BY <3>1, <3>2, RestKept DEF BenchTypeOK
    <3>4. CallInv'
      BY <3>1, <3>2, SameGroup DEF CallInv
    <3> QED BY <2>2, <3>1, <3>2, <3>3, <3>4 DEF BenchInv, GroupInv
  <2>3. CASE harness # "simple" /\ main # "command"
    <3>1. /\ UNCHANGED <<harness, callVars, mainVars, workq, caller, commands, end_wait>>
          /\ UNCHANGED <<main, doing, round, started, answered, msg_count, inbox, job, sem, results>>
      BY <1>6 DEF benchVars, harnessVars, callVars, simpleVars, mainVars, groupVars
    <3>2. GroupRun
      BY <2>3 DEF GroupRun, BenchInv, BenchTypeOK, Harnesses
    <3>3. BenchTypeOK /\ PlaceInv /\ SemInv
      BY <3>2, GroupRunFacts
    <3>4. /\ \A n \in Everyone : Sent(n)' = Sent(n) /\ Replied(n)' = Replied(n)
          /\ \A n \in Everyone : (Works(n)' <=> Works(n)) /\ (Busy(n)' <=> Busy(n))
      BY <3>1 DEF Sent, Replied, Works, Busy
    <3>5. /\ \A n \in Everyone : Total(n)' = Total(n)
          /\ NextJob' = NextJob /\ Members' = Members /\ Commands' = Commands
      <4>1. \A n \in Everyone : Total(n)' = Total(n)
        BY <3>1, SameProgram DEF Total
      <4> QED BY <3>1, <4>1, SameGroup DEF NextJob
    <3>6. \A n \in Everyone : Progress(n)' = Progress(n)
      BY <3>1, <3>4, <3>5 DEF Progress
    <3>7. SemInv'
      BY <3>1, <3>3, <3>6, SemKept
    <3>8. PlaceInv'
      BY <3>1, <3>3, <3>4, <3>5 DEF PlaceInv
    <3>9. BenchTypeOK'
      BY <3>1, <3>3 DEF BenchTypeOK
    <3> QED BY <3>1, <3>2, <3>4, <3>7, <3>8, <3>9, GroupStep
  <2> QED BY <2>1, <2>2, <2>3
<1> QED BY <1>1, <1>2, <1>3, <1>4, <1>5, <1>6 DEF BenchNext

\* The inductive invariant holds, for any number of workers and iterations: a
\* run is somewhere between run and its return, its commands and results are
\* each in one place, and the semaphores hold what the group's progress left.
THEOREM BenchInvariant == BenchSpec => []BenchInv
<1>1. BenchInit => BenchInv
  BY BenchInitInv
<1>2. BenchInv /\ [BenchNext]_benchVars => BenchInv'
  BY BenchNextInv
<1> QED BY <1>1, <1>2, PTL DEF BenchSpec

\* Nothing of a run outlives it, whichever harness and whichever command.
THEOREM RunsNeverMix == BenchSpec => []RunsSeparate
<1>1. BenchInv => RunsSeparate
  <2> SUFFICES ASSUME BenchInv PROVE RunsSeparate
    OBVIOUS
  <2>1. BenchTypeOK
    BY DEF BenchInv
  <2>2. main = "command" => RestInv
    BY DEF BenchInv, SimpleInv, GroupInv
  <2>3. main # "command" => PlaceInv
    BY DEF BenchInv, SimpleInv, GroupInv
  <2>4. main = "command" =>
          /\ \A m \in Everyone : ~Busy(m)
          /\ results = <<>>
          /\ \A s \in Sems : sem[s] = 0
    BY <2>2 DEF RestInv
  <2>5. harness = "simple" /\ end_wait = 1 =>
          workq = <<>> /\ \A w \in Workers : acted[w] = Iters
    BY DEF BenchInv, SimpleInv
  <2>6. ASSUME NEW m \in Everyone
        PROVE  LET mine == {i \in DOMAIN results : results[i].from = m}
               IN  /\ Works(m) => job[m].round = round
                   /\ \A i \in mine : results[i].round = round
                   /\ Cardinality(mine) + (IF Busy(m) THEN 1 ELSE 0)
                        + (IF main # "command" /\ m \in answered THEN 1 ELSE 0) <= 1
    <3> DEFINE mine == {i \in DOMAIN results : results[i].from = m}
    <3>1. DOMAIN results = 1..Len(results)
      <4>1. results \in Seq([from : Everyone, round : {0, 1}])
        BY <2>1 DEF BenchTypeOK
      <4> QED BY <4>1, LenProperties
    <3>2. CASE main = "command"
      <4>1. mine = {} /\ ~Busy(m) /\ ~Works(m)
        BY <2>4, <3>2 DEF Busy
      <4>2. Cardinality(mine) = 0
        BY <4>1, FS_EmptySet
      <4> QED BY <3>2, <4>1, <4>2
    <3>3. CASE main # "command" /\ ~Sent(m)
      <4>1. mine = {}
        BY <3>1, <3>3 DEF Sent
      <4>2. Cardinality(mine) = 0
        BY <4>1, FS_EmptySet
      <4>3. Works(m) => job[m].round = round
        BY <2>3, <3>3 DEF PlaceInv
      <4>4. Busy(m) => m \notin answered
        BY <2>3, <3>3 DEF PlaceInv, Busy, Replied
      <4> QED BY <3>3, <4>1, <4>2, <4>3, <4>4
    <3>4. CASE main # "command" /\ Sent(m)
      <4>1. PICK j \in 1..Len(results) : results[j].from = m
        BY <3>4 DEF Sent
      <4>2. mine = {j}
        BY <2>3, <3>1, <3>4, <4>1 DEF PlaceInv
      <4>3. Cardinality(mine) = 1
        BY <4>2, FS_Singleton
      <4>4. ~Busy(m) /\ ~Works(m) /\ m \notin answered
        BY <2>3, <3>4 DEF PlaceInv, Busy, Replied
      <4>5. results[j].round = round
        BY <2>3, <3>4 DEF PlaceInv
      <4> QED BY <4>2, <4>3, <4>4, <4>5
    <3> QED BY <3>2, <3>3, <3>4
  <2> QED BY <2>4, <2>5, <2>6 DEF RunsSeparate
<1> QED BY <1>1, BenchInvariant, PTL

\* No unwrap or panic on the way of a run is reached, but for that of spawn.
THEOREM RunNeverPanics == BenchSpec => []NeverPanics
<1>1. BenchInv => NeverPanics
  <2> SUFFICES ASSUME BenchInv PROVE NeverPanics
    OBVIOUS
  <2>1. \A m \in Everyone : job[m].op \in Ops \cup {"none", "returning"}
    BY DEF BenchInv, BenchTypeOK, Job
  <2>2. "panicked" \notin Ops
    BY DEF Ops
  <2> QED BY <2>1, <2>2 DEF BenchInv, BenchTypeOK, NeverPanics
<1> QED BY <1>1, BenchInvariant, PTL
=============================================================================
