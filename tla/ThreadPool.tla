----------------------------- MODULE ThreadPool -----------------------------
(***************************************************************************)
(* zephyr/src/thread.rs with the code that #[zephyr::thread] generates     *)
(* (zephyr-macros/src/task.rs): a static pool of threads, each with a cell *)
(* for the arguments of the thread that is started in it.                  *)
(*                                                                         *)
(* A spawner is a thread that calls the generated function.  The arguments *)
(* of its n-th call are the pair <<spawner, n>>.                           *)
(***************************************************************************)
EXTENDS FiniteSetsExt, Integers

CONSTANTS Spawners,
          PoolSize,   \* the pool_size of the attribute
          MaxSpawns,  \* bound on the calls of one spawner
          Vacant

ASSUME PoolAssumption ==
    /\ PoolSize \in Nat \ {0}
    /\ MaxSpawns \in Nat
    /\ Vacant \notin Nat \cup (Spawners \X Nat)

Pool == 1..PoolSize

Args == Spawners \X (1..MaxSpawns)

VARIABLES
    state,    \* ThreadData::state
    init,     \* ThreadData::init: the arguments, or Vacant
    kthread,  \* the k_thread: none, suspended, started, body, exited, panic
    body,     \* the arguments its function was called with
    created,  \* the arguments of the call that created it
    label,    \* where each spawner is
    id,       \* the pool entry its call is about
    calls,    \* how many calls it has made
    running,  \* the RunningThreads it has, with the arguments they stand for
    joined    \* the arguments of the threads join reported as finished

poolVars == <<state, init, kthread, body, created, label, id, calls, running,
              joined>>

PoolInit ==
    /\ state = [i \in Pool |-> "Init"]
    /\ init = [i \in Pool |-> Vacant]
    /\ kthread = [i \in Pool |-> "none"]
    /\ body = [i \in Pool |-> Vacant]
    /\ created = [i \in Pool |-> Vacant]
    /\ label = [s \in Spawners |-> "idle"]
    /\ id = [s \in Spawners |-> Vacant]
    /\ calls = [s \in Spawners |-> 0]
    /\ running = [s \in Spawners |-> {}]
    /\ joined = {}

MyArgs(s) == <<s, calls[s]>>

-----------------------------------------------------------------------------
(* ThreadData::acquire, called by the generated function.                  *)

\* What find_thread takes: a free entry, or a running thread that terminated.
Available(i) ==
    \/ state[i] = "Init"
    \/ state[i] = "Running" /\ kthread[i] = "exited"

Calls(s) ==
    /\ label[s] = "idle" /\ calls[s] < MaxSpawns
    /\ calls' = [calls EXCEPT ![s] = @ + 1]

\* Mutant: the entry is found in one critical section, marked in the next.
FindThreadUnmarked(s) ==
    /\ Calls(s)
    /\ \E i \in Pool : Available(i)
    /\ id' = [id EXCEPT ![s] = Min({i \in Pool : Available(i)})]
    /\ label' = [label EXCEPT ![s] = "write"]
    /\ UNCHANGED <<state, init, kthread, body, created, running, joined>>

\* One critical section: the first available entry is marked Allocated.
FindThread(s) ==
    /\ Calls(s)
    /\ \E i \in Pool : Available(i)
    /\ LET i == Min({j \in Pool : Available(j)}) IN
          /\ id' = [id EXCEPT ![s] = i]
          /\ state' = [state EXCEPT ![i] = "Allocated"]
    /\ label' = [label EXCEPT ![s] = "write"]
    /\ UNCHANGED <<init, kthread, body, created, running, joined>>

\* "Attempt to use more threads than declared pool size".
FindThreadPanics(s) ==
    /\ Calls(s)
    /\ \A i \in Pool : ~Available(i)
    /\ label' = [label EXCEPT ![s] = "exhausted"]
    /\ UNCHANGED <<state, init, kthread, body, created, id, running, joined>>

WriteInit(s) ==
    /\ label[s] = "write"
    /\ init' = [init EXCEPT ![id[s]] = MyArgs(s)]
    /\ label' = [label EXCEPT ![s] = "create"]
    /\ UNCHANGED <<state, kthread, body, created, id, calls, running, joined>>

\* k_thread_create with K_FOREVER: the thread is not started.
Create(s) ==
    /\ label[s] = "create"
    /\ kthread' = [kthread EXCEPT ![id[s]] = "suspended"]
    /\ body' = [body EXCEPT ![id[s]] = Vacant]
    /\ created' = [created EXCEPT ![id[s]] = MyArgs(s)]
    /\ label' = [label EXCEPT ![s] = "ready"]
    /\ UNCHANGED <<state, init, id, calls, running, joined>>

\* ThreadData::acquire_old takes the entry it is told to.
AcquireOld(s, i) ==
    /\ Calls(s)
    /\ id' = [id EXCEPT ![s] = i]
    /\ \/ /\ state[i] = "Init"
          /\ state' = [state EXCEPT ![i] = "Allocated"]
          /\ init' = [init EXCEPT ![i] = <<s, calls[s] + 1>>]
          /\ label' = [label EXCEPT ![s] = "create_old"]
       \/ /\ state[i] # "Init"
          /\ label' = [label EXCEPT ![s] = "in_use"]
          /\ UNCHANGED <<state, init>>
    /\ UNCHANGED <<kthread, body, created, running, joined>>

\* k_thread_create with K_NO_WAIT, and no handle is returned.
CreateOld(s) ==
    /\ label[s] = "create_old"
    /\ kthread' = [kthread EXCEPT ![id[s]] = "started"]
    /\ body' = [body EXCEPT ![id[s]] = Vacant]
    /\ created' = [created EXCEPT ![id[s]] = MyArgs(s)]
    /\ label' = [label EXCEPT ![s] = "idle"]
    /\ UNCHANGED <<state, init, id, calls, running, joined>>

-----------------------------------------------------------------------------
(* ReadyThread and RunningThread.                                          *)

\* Mutant: start returns a RunningThread without waking the thread up.
StartForgets(s) ==
    /\ label[s] = "ready"
    /\ running' = [running EXCEPT ![s] = @ \cup {<<id[s], MyArgs(s)>>}]
    /\ label' = [label EXCEPT ![s] = "idle"]
    /\ UNCHANGED <<state, init, kthread, body, created, id, calls, joined>>

Start(s) ==
    /\ label[s] = "ready"
    /\ kthread' = [kthread EXCEPT ![id[s]] = "started"]
    /\ running' = [running EXCEPT ![s] = @ \cup {<<id[s], MyArgs(s)>>}]
    /\ label' = [label EXCEPT ![s] = "idle"]
    /\ UNCHANGED <<state, init, body, created, id, calls, joined>>

\* A ReadyThread has no Drop: the thread stays suspended.
DropReady(s) ==
    /\ label[s] = "ready"
    /\ label' = [label EXCEPT ![s] = "idle"]
    /\ UNCHANGED <<state, init, kthread, body, created, id, calls, running,
                   joined>>

\* join, or join_timeout of a thread that finishes in time.  One that times
\* out returns an error and changes nothing.
Join(s, h) ==
    /\ label[s] = "idle"
    /\ h \in running[s]
    /\ kthread[h[1]] = "exited"
    /\ joined' = joined \cup {h[2]}
    /\ UNCHANGED <<state, init, kthread, body, created, label, id, calls, running>>

-----------------------------------------------------------------------------
(* The new thread: startup, then the user's function.                      *)

\* Mutant: the arguments come from the first entry of the pool.
StartupFirst(i) ==
    /\ kthread[i] = "started"
    /\ body' = [body EXCEPT ![i] = init[1]]
    /\ init' = [init EXCEPT ![1] = Vacant]
    /\ kthread' = [kthread EXCEPT ![i] = IF init[1] = Vacant THEN "panic" ELSE "body"]
    /\ UNCHANGED <<state, created, label, id, calls, running, joined>>

\* init.replace(None); Vacant is "Incorrect thread initialization".
Startup(i) ==
    /\ kthread[i] = "started"
    /\ body' = [body EXCEPT ![i] = init[i]]
    /\ init' = [init EXCEPT ![i] = Vacant]
    /\ kthread' = [kthread EXCEPT ![i] = IF init[i] = Vacant THEN "panic" ELSE "body"]
    /\ UNCHANGED <<state, created, label, id, calls, running, joined>>

Exit(i) ==
    /\ kthread[i] = "body"
    /\ kthread' = [kthread EXCEPT ![i] = "exited"]
    /\ UNCHANGED <<state, init, body, created, label, id, calls, running, joined>>

-----------------------------------------------------------------------------
SpawnerStep(s) ==
    \/ FindThread(s) \/ FindThreadPanics(s) \/ WriteInit(s) \/ Create(s)
    \/ \E i \in Pool : AcquireOld(s, i)
    \/ CreateOld(s) \/ Start(s) \/ DropReady(s)
    \/ \E h \in running[s] : Join(s, h)

PoolNext ==
    \/ \E s \in Spawners : SpawnerStep(s)
    \/ \E i \in Pool : Startup(i) \/ Exit(i)

PoolSpec == PoolInit /\ [][PoolNext]_poolVars

\* A started thread is scheduled, and its function returns; spawners join
\* the threads they started.
PoolFairness ==
    /\ \A i \in Pool : WF_poolVars(Startup(i)) /\ WF_poolVars(Exit(i))
    /\ \A s \in Spawners :
          WF_poolVars(WriteInit(s) \/ Create(s) \/ CreateOld(s) \/ Start(s)
                  \/ \E h \in running[s] : Join(s, h))

-----------------------------------------------------------------------------
(* Properties.                                                             *)

\* The labels where a call has an entry to itself.
Owning == {"write", "create", "create_old", "ready"}

\* The safety comment on InitData: two calls never work on the same entry, and
\* never on one whose thread may still run.
EntryExclusive ==
    \A s \in Spawners :
        label[s] \in Owning =>
            /\ \A r \in Spawners : label[r] \in Owning /\ id[r] = id[s] => r = s
            /\ kthread[id[s]] \in {"none", "suspended", "exited"}
            /\ state[id[s]] = "Allocated"

\* Every thread runs with the arguments of the call that created it, none
\* panics because it finds no arguments, and no two get the same ones.
ArgsDelivered ==
    /\ \A i \in Pool :
          kthread[i] \in {"body", "exited", "panic"} => body[i] = created[i]
    /\ \A i, j \in Pool : body[i] # Vacant /\ body[i] = body[j] => i = j

\* Every thread that was started finishes and can be joined, as long as its
\* spawner goes on.
EventuallyJoined ==
    \A s \in Spawners : \A n \in 1..MaxSpawns :
        (\E i \in Pool : <<i, <<s, n>>>> \in running[s])
            ~> <<s, n>> \in joined \/ label[s] \in {"exhausted", "in_use"}
=============================================================================
