--------------------------- MODULE Threads_proofs ---------------------------
(***************************************************************************)
(* Proofs about the two ways to make threads, ThreadPool and StaticThread, *)
(* for any numbers of callers, pool entries, calls, stacks and threads.    *)
(***************************************************************************)
EXTENDS ThreadPool, StaticThread, FiniteSetTheorems, WellFoundedInduction,
        TLAPS

\* A nonempty set of natural numbers has a least element.
LEMMA MinOfNat ==
    ASSUME NEW S \in SUBSET Nat, S # {}
    PROVE  Min(S) \in S
<1> DEFINE R == OpToRel(<, Nat)
<1>1. IsWellFoundedOn(R, Nat)
  BY NatLessThanWellFounded
<1>2. \A x, y \in Nat : y < x => <<y, x>> \in R
  BY DEF OpToRel
<1> HIDE DEF R
<1>3. PICK x \in S : \A y \in S : ~(<<y, x>> \in R)
  BY <1>1, WFMin
<1>4. ASSUME NEW y \in S PROVE x =< y
  <2>1. x \in Nat /\ y \in Nat
    OBVIOUS
  <2>2. ~(y < x)
    BY <1>2, <1>3, <2>1, Zenon
  <2> QED BY <2>1, <2>2
<1> QED BY <1>4 DEF Min

-----------------------------------------------------------------------------
(* ThreadPool.                                                             *)

SpawnerPC == Owning \cup {"idle", "exhausted", "in_use"}

ThreadState == {"none", "suspended", "started", "body", "exited", "panic"}

PoolTypeOK ==
    /\ state \in [Pool -> {"Init", "Allocated"}]
    /\ init \in [Pool -> Args \cup {Vacant}]
    /\ kthread \in [Pool -> ThreadState]
    /\ body \in [Pool -> Args \cup {Vacant}]
    /\ created \in [Pool -> Args \cup {Vacant}]
    /\ label \in [Spawners -> SpawnerPC]
    /\ id \in [Spawners -> Pool \cup {Vacant}]
    /\ calls \in [Spawners -> 0..MaxSpawns]
    /\ running \in [Spawners -> SUBSET (Pool \X Args)]
    /\ joined \in SUBSET Args

\* The call at a label of Owning, and the entry it has found.
CallInv ==
    \A s \in Spawners :
        label[s] \in Owning =>
            /\ id[s] \in Pool
            /\ calls[s] >= 1
            /\ state[id[s]] = "Allocated"
            /\ \A r \in Spawners : label[r] \in Owning /\ id[r] = id[s] => r = s
            /\ label[s] # "ready" => kthread[id[s]] = "none"
            /\ label[s] = "ready" => /\ kthread[id[s]] = "suspended"
                                  /\ created[id[s]] = MyArgs(s)
            /\ label[s] \in {"create", "create_old"} => init[id[s]] = MyArgs(s)

\* What an entry holds, from its first use to the end of its thread.
EntryInv ==
    \A i \in Pool :
        /\ state[i] = "Init" => kthread[i] = "none"
        /\ kthread[i] = "none" => body[i] = Vacant /\ created[i] = Vacant
        /\ kthread[i] \in {"suspended", "started"} =>
              body[i] = Vacant /\ created[i] # Vacant /\ init[i] = created[i]
        /\ kthread[i] \in {"body", "exited"} =>
              created[i] # Vacant /\ body[i] = created[i]
        /\ kthread[i] # "panic"

\* The arguments of a call go to one thread: those of earlier calls are older.
FreshInv ==
    /\ \A i \in Pool : created[i] # Vacant =>
          LET s == created[i][1] IN
          /\ created[i][2] <= calls[s]
          /\ label[s] \in {"write", "create", "create_old"} => created[i][2] < calls[s]
    /\ \A i, j \in Pool : created[i] # Vacant /\ created[i] = created[j] => i = j

\* A RunningThread stands for the thread that was created in its entry.
HandleInv ==
    /\ \A s \in Spawners : \A h \in running[s] :
          /\ kthread[h[1]] \in {"started", "body", "exited"}
          /\ created[h[1]] = h[2]
    /\ \A a \in joined : \E i \in Pool : created[i] = a /\ kthread[i] = "exited"

PoolInv == PoolTypeOK /\ CallInv /\ EntryInv /\ FreshInv /\ HandleInv

\* Pool entries and arguments are not Vacant, and what arguments are made of.
LEMMA ArgsFacts ==
    /\ Vacant \notin Args /\ Vacant \notin Pool
    /\ \A a \in Args : a[1] \in Spawners /\ a[2] \in 1..MaxSpawns /\ a = <<a[1], a[2]>>
    /\ \A s \in Spawners : \A n \in 1..MaxSpawns : <<s, n>> \in Args
    /\ Pool \subseteq Nat
BY PoolAssumption DEF Args, Pool

\* The invariant holds for an empty pool.
LEMMA PoolInitInv == PoolInit => PoolInv
<1> SUFFICES ASSUME PoolInit PROVE PoolInv
  OBVIOUS
<1>1. PoolTypeOK
  BY PoolAssumption DEF PoolInit, PoolTypeOK, SpawnerPC, Owning, ThreadState
<1>2. CallInv
  BY DEF PoolInit, CallInv, Owning
<1>3. EntryInv /\ FreshInv /\ HandleInv
  BY DEF PoolInit, EntryInv, FreshInv, HandleInv
<1> QED BY <1>1, <1>2, <1>3 DEF PoolInv

\* The entry that find_thread marks was never used: no state but Init and
\* Allocated is ever stored.
LEMMA FindThreadInv ==
    ASSUME PoolInv, NEW s \in Spawners, FindThread(s)
    PROVE  PoolInv'
<1> DEFINE i == Min({j \in Pool : Available(j)})
<1>1. i \in Pool /\ state[i] = "Init"
  <2>1. {j \in Pool : Available(j)} # {}
    BY DEF FindThread
  <2>2. i \in {j \in Pool : Available(j)}
    BY <2>1, ArgsFacts, MinOfNat
  <2> QED BY <2>2 DEF Available, PoolInv, PoolTypeOK
<1>2. /\ id' = [id EXCEPT ![s] = i]
      /\ state' = [state EXCEPT ![i] = "Allocated"]
      /\ label[s] = "idle" /\ calls[s] < MaxSpawns
      /\ calls' = [calls EXCEPT ![s] = @ + 1]
      /\ label' = [label EXCEPT ![s] = "write"]
      /\ UNCHANGED <<init, kthread, body, created, running, joined>>
  BY DEF FindThread, Calls
<1> HIDE DEF i
<1>3. PoolTypeOK'
  BY <1>1, <1>2, PoolAssumption DEF PoolInv, PoolTypeOK, SpawnerPC, Owning
<1>4. CallInv'
  BY <1>1, <1>2, PoolAssumption
     DEF PoolInv, PoolTypeOK, CallInv, EntryInv, Owning, MyArgs
<1>5. EntryInv'
  BY <1>1, <1>2 DEF PoolInv, PoolTypeOK, EntryInv
<1>6. FreshInv'
  BY <1>1, <1>2, PoolAssumption, ArgsFacts DEF PoolInv, PoolTypeOK, FreshInv
<1>7. HandleInv'
  BY <1>1, <1>2 DEF PoolInv, PoolTypeOK, HandleInv
<1> QED BY <1>3, <1>4, <1>5, <1>6, <1>7 DEF PoolInv

\* A full pool refuses the spawner.
LEMMA FindThreadPanicsInv ==
    ASSUME PoolInv, NEW s \in Spawners, FindThreadPanics(s)
    PROVE  PoolInv'
<1> USE DEF FindThreadPanics, Calls
<1>1. PoolTypeOK'
  BY PoolAssumption DEF PoolInv, PoolTypeOK, SpawnerPC, Owning
<1>2. CallInv'
  BY PoolAssumption DEF PoolInv, PoolTypeOK, CallInv, Owning, MyArgs
<1>3. EntryInv' /\ HandleInv'
  BY DEF PoolInv, PoolTypeOK, EntryInv, HandleInv
<1>4. FreshInv'
  BY PoolAssumption, ArgsFacts DEF PoolInv, PoolTypeOK, FreshInv
<1> QED BY <1>1, <1>2, <1>3, <1>4 DEF PoolInv

\* The generated function, from its init cell to the ReadyThread.
LEMMA WriteInitInv ==
    ASSUME PoolInv, NEW s \in Spawners, WriteInit(s)
    PROVE  PoolInv'
<1> USE DEF WriteInit
<1>0. MyArgs(s) \in Args /\ id[s] \in Pool
  BY ArgsFacts DEF PoolInv, PoolTypeOK, CallInv, MyArgs, Owning
<1>1. PoolTypeOK'
  BY <1>0 DEF PoolInv, PoolTypeOK, SpawnerPC, Owning
<1>2. CallInv'
  BY <1>0 DEF PoolInv, PoolTypeOK, CallInv, Owning, MyArgs
<1>3. EntryInv'
  BY <1>0 DEF PoolInv, PoolTypeOK, CallInv, EntryInv, Owning
<1>4. FreshInv'
  BY ArgsFacts DEF PoolInv, PoolTypeOK, FreshInv
<1>5. HandleInv'
  BY DEF PoolInv, PoolTypeOK, HandleInv
<1> QED BY <1>1, <1>2, <1>3, <1>4, <1>5 DEF PoolInv

\* k_thread_create starts the thread of an entry its spawner alone has.
LEMMA CreateInv ==
    ASSUME PoolInv, NEW s \in Spawners, NEW next \in {"suspended", "started"},
           \/ Create(s) /\ next = "suspended"
           \/ CreateOld(s) /\ next = "started"
    PROVE  PoolInv'
<1>0. /\ label[s] = IF next = "suspended" THEN "create" ELSE "create_old"
      /\ kthread' = [kthread EXCEPT ![id[s]] = next]
      /\ body' = [body EXCEPT ![id[s]] = Vacant]
      /\ created' = [created EXCEPT ![id[s]] = MyArgs(s)]
      /\ label' = [label EXCEPT ![s] = IF next = "suspended" THEN "ready" ELSE "idle"]
      /\ UNCHANGED <<state, init, id, calls, running, joined>>
  BY DEF Create, CreateOld
<1>1. /\ MyArgs(s) \in Args /\ id[s] \in Pool
      /\ MyArgs(s) = <<s, calls[s]>> /\ MyArgs(s)[1] = s /\ MyArgs(s)[2] = calls[s]
      /\ kthread[id[s]] = "none" /\ init[id[s]] = MyArgs(s)
      /\ state[id[s]] = "Allocated" /\ created[id[s]] = Vacant
  BY <1>0, ArgsFacts DEF PoolInv, PoolTypeOK, CallInv, EntryInv, MyArgs, Owning
<1>2. \A i \in Pool : created[i] # MyArgs(s)
  BY <1>0, <1>1, ArgsFacts DEF PoolInv, PoolTypeOK, FreshInv
<1>3. PoolTypeOK'
  BY <1>0, <1>1 DEF PoolInv, PoolTypeOK, SpawnerPC, Owning, ThreadState
<1>4. CallInv'
  BY <1>0, <1>1 DEF PoolInv, PoolTypeOK, CallInv, Owning, MyArgs
<1>5. EntryInv'
  BY <1>0, <1>1, ArgsFacts DEF PoolInv, PoolTypeOK, EntryInv
<1>6. FreshInv'
  <2>1. ASSUME NEW i \in Pool, created'[i] # Vacant
        PROVE  LET r == created'[i][1] IN
               /\ created'[i][2] <= calls'[r]
               /\ label'[r] \in {"write", "create", "create_old"} =>
                     created'[i][2] < calls'[r]
    BY <1>0, <1>1, <2>1, ArgsFacts DEF PoolInv, PoolTypeOK, FreshInv
  <2>2. \A i, j \in Pool : created'[i] # Vacant /\ created'[i] = created'[j] => i = j
    BY <1>0, <1>1, <1>2 DEF PoolInv, PoolTypeOK, FreshInv
  <2> QED BY <2>1, <2>2 DEF FreshInv
<1>7. HandleInv'
  BY <1>0, <1>1 DEF PoolInv, PoolTypeOK, HandleInv
<1> QED BY <1>3, <1>4, <1>5, <1>6, <1>7 DEF PoolInv

\* acquire_old takes its own entry if nobody has it, and refuses it otherwise.
LEMMA AcquireOldInv ==
    ASSUME PoolInv, NEW s \in Spawners, NEW i \in Pool, AcquireOld(s, i)
    PROVE  PoolInv'
<1>0. /\ label[s] = "idle" /\ calls[s] < MaxSpawns
      /\ calls' = [calls EXCEPT ![s] = @ + 1]
      /\ id' = [id EXCEPT ![s] = i]
      /\ UNCHANGED <<kthread, body, created, running, joined>>
      /\ <<s, calls[s] + 1>> \in Args
      /\ MyArgs(s)' = <<s, calls[s] + 1>>
  BY PoolAssumption, ArgsFacts DEF AcquireOld, Calls, PoolInv, PoolTypeOK, MyArgs
<1>1. CASE /\ state[i] = "Init"
           /\ state' = [state EXCEPT ![i] = "Allocated"]
           /\ init' = [init EXCEPT ![i] = <<s, calls[s] + 1>>]
           /\ label' = [label EXCEPT ![s] = "create_old"]
  <2>1. PoolTypeOK'
    BY <1>0, <1>1, PoolAssumption DEF PoolInv, PoolTypeOK, SpawnerPC, Owning
  <2>2. CallInv'
    BY <1>0, <1>1, PoolAssumption
       DEF PoolInv, PoolTypeOK, CallInv, EntryInv, Owning, MyArgs
  <2>3. EntryInv'
    BY <1>0, <1>1 DEF PoolInv, PoolTypeOK, EntryInv
  <2>4. FreshInv'
    BY <1>0, <1>1, PoolAssumption, ArgsFacts DEF PoolInv, PoolTypeOK, FreshInv
  <2>5. HandleInv'
    BY <1>0 DEF PoolInv, PoolTypeOK, HandleInv
  <2> QED BY <2>1, <2>2, <2>3, <2>4, <2>5 DEF PoolInv
<1>2. CASE label' = [label EXCEPT ![s] = "in_use"] /\ UNCHANGED <<state, init>>
  <2>1. PoolTypeOK'
    BY <1>0, <1>2, PoolAssumption DEF PoolInv, PoolTypeOK, SpawnerPC, Owning
  <2>2. CallInv'
    BY <1>0, <1>2, PoolAssumption DEF PoolInv, PoolTypeOK, CallInv, Owning, MyArgs
  <2>3. EntryInv'
    BY <1>0, <1>2 DEF PoolInv, PoolTypeOK, EntryInv
  <2>4. FreshInv'
    BY <1>0, <1>2, PoolAssumption, ArgsFacts DEF PoolInv, PoolTypeOK, FreshInv
  <2>5. HandleInv'
    BY <1>0 DEF PoolInv, PoolTypeOK, HandleInv
  <2> QED BY <2>1, <2>2, <2>3, <2>4, <2>5 DEF PoolInv
<1> QED BY <1>1, <1>2 DEF AcquireOld

\* ReadyThread::start, or a ReadyThread that is dropped.
LEMMA ReadyInv ==
    ASSUME PoolInv, NEW s \in Spawners, Start(s) \/ DropReady(s)
    PROVE  PoolInv'
<1>0. /\ label[s] = "ready" /\ id[s] \in Pool /\ MyArgs(s) \in Args
      /\ kthread[id[s]] = "suspended" /\ created[id[s]] = MyArgs(s)
  BY ArgsFacts DEF Start, DropReady, PoolInv, PoolTypeOK, CallInv, Owning, MyArgs
<1>1. PoolTypeOK'
  BY <1>0 DEF Start, DropReady, PoolInv, PoolTypeOK, SpawnerPC, Owning,
     ThreadState
<1>2. CallInv'
  BY <1>0 DEF Start, DropReady, PoolInv, PoolTypeOK, CallInv, Owning, MyArgs
<1>3. EntryInv'
  BY <1>0 DEF Start, DropReady, PoolInv, PoolTypeOK, EntryInv
<1>4. FreshInv'
  BY ArgsFacts DEF Start, DropReady, PoolInv, PoolTypeOK, FreshInv
<1>5. HandleInv'
  BY <1>0 DEF Start, DropReady, PoolInv, PoolTypeOK, HandleInv
<1> QED BY <1>1, <1>2, <1>3, <1>4, <1>5 DEF PoolInv

\* join returns when the thread has ended.
LEMMA JoinInv ==
    ASSUME PoolInv, NEW s \in Spawners, NEW h \in running[s], Join(s, h)
    PROVE  PoolInv'
<1>0. h \in Pool \X Args
  BY DEF PoolInv, PoolTypeOK
<1>1. PoolTypeOK'
  BY <1>0 DEF Join, PoolInv, PoolTypeOK
<1>2. CallInv' /\ EntryInv' /\ FreshInv'
  BY DEF Join, PoolInv, CallInv, EntryInv, FreshInv, MyArgs
<1>3. HandleInv'
  BY <1>0 DEF Join, PoolInv, HandleInv
<1> QED BY <1>1, <1>2, <1>3 DEF PoolInv

\* The thread takes its arguments, and later returns.
LEMMA ThreadInv ==
    ASSUME PoolInv, NEW i \in Pool, Startup(i) \/ Exit(i)
    PROVE  PoolInv'
<1>0. kthread[i] \in {"started", "body"}
  BY DEF Startup, Exit
<1>1. PoolTypeOK'
  BY DEF Startup, Exit, PoolInv, PoolTypeOK, ThreadState
<1>2. CallInv'
  BY <1>0 DEF Startup, Exit, PoolInv, PoolTypeOK, CallInv, Owning, MyArgs
<1>3. EntryInv'
  BY <1>0 DEF Startup, Exit, PoolInv, PoolTypeOK, EntryInv
<1>4. FreshInv'
  BY DEF Startup, Exit, PoolInv, FreshInv
<1>5. HandleInv'
  BY <1>0 DEF Startup, Exit, PoolInv, PoolTypeOK, EntryInv, HandleInv
<1> QED BY <1>1, <1>2, <1>3, <1>4, <1>5 DEF PoolInv

\* The invariant of the pool holds throughout.
LEMMA PoolInvariant == PoolSpec => []PoolInv
<1>1. PoolInv /\ [PoolNext]_poolVars => PoolInv'
  <2> SUFFICES ASSUME PoolInv, [PoolNext]_poolVars PROVE PoolInv'
    OBVIOUS
  <2>1. ASSUME NEW s \in Spawners, SpawnerStep(s) PROVE PoolInv'
    BY <2>1, FindThreadInv, FindThreadPanicsInv, WriteInitInv, CreateInv,
       AcquireOldInv, ReadyInv, JoinInv DEF SpawnerStep
  <2>2. ASSUME NEW i \in Pool, Startup(i) \/ Exit(i) PROVE PoolInv'
    BY <2>2, ThreadInv
  <2>3. CASE UNCHANGED poolVars
    BY <2>3 DEF poolVars, PoolInv, PoolTypeOK, CallInv, EntryInv, FreshInv,
       HandleInv, MyArgs
  <2> QED BY <2>1, <2>2, <2>3 DEF PoolNext
<1> QED BY <1>1, PoolInitInv, PTL DEF PoolSpec

\* No two calls work on the same entry of the pool, nor on one whose thread
\* may still run, however many callers race for the pool.
THEOREM EntriesExclusive == PoolSpec => []EntryExclusive
<1>1. PoolInv => EntryExclusive
  BY DEF PoolInv, CallInv, EntryExclusive, Owning
<1> QED BY <1>1, PoolInvariant, PTL

\* Every thread gets the arguments of the call that created it, and no other
\* thread gets them; init.replace never finds Vacant.
THEOREM ArgumentsDelivered == PoolSpec => []ArgsDelivered
<1>1. PoolInv => ArgsDelivered
  BY DEF PoolInv, PoolTypeOK, ThreadState, EntryInv, FreshInv, ArgsDelivered
<1> QED BY <1>1, PoolInvariant, PTL

\* When join returns Ok, the function has returned that was called with the
\* arguments of the handle.
JoinMeansDone ==
    \A a \in joined : \E i \in Pool : body[i] = a /\ kthread[i] = "exited"

\* A join that returns Ok speaks of the thread that its handle was made for.
THEOREM JoinSound == PoolSpec => []JoinMeansDone
<1>1. PoolInv => JoinMeansDone
  BY DEF PoolInv, EntryInv, HandleInv, JoinMeansDone
<1> QED BY <1>1, PoolInvariant, PTL

-----------------------------------------------------------------------------
(* StaticThread.                                                           *)

KThread == [state : {"none", "ready", "running", "ended"},
            stack : Stacks \cup {Nothing}, p1 : Boxes \cup {Nothing},
            creator : Callers \cup {Nothing}, ran : Callers \cup {Nothing}]

StaticTypeOK ==
    /\ at \in [Callers -> {"out", "stack", "thread", "create", "name"}]
    /\ stack \in [Callers -> Stacks \cup {Nothing}]
    /\ raw \in [Callers -> StaticThreads \cup {Nothing}]
    /\ child \in [Callers -> Boxes \cup {Nothing}]
    /\ heap \in [Boxes -> Callers \cup {Nothing}]
    /\ kt \in [StaticThreads -> KThread]

\* What init_once handed to a caller is the caller's alone until its thread is
\* created, and the two share it until the caller is done.
OnceOwned ==
    /\ \A c \in Callers :
          /\ at[c] = "out" <=> stack[c] = Nothing
          /\ at[c] \in {"out", "stack"} <=> raw[c] = Nothing
          /\ stack[c] # Nothing => stack[c] \in inited
          /\ raw[c] # Nothing => raw[c] \in inited
          /\ at[c] = "name" => raw[c] \in Created
    /\ \A c, d \in Callers :
          c # d => /\ stack[c] = Nothing \/ stack[c] # stack[d]
                   /\ raw[c] = Nothing \/ raw[c] # raw[d]
    /\ \A t \in Created :
          /\ t \in inited
          /\ kt[t].stack \in Stacks /\ kt[t].stack \in inited
          /\ kt[t].creator \in Callers
          /\ \A c \in Callers :
                raw[c] = t => at[c] = "name" /\ kt[t].creator = c
          /\ \A c \in Callers :
                stack[c] = kt[t].stack => at[c] = "name" /\ raw[c] = t
    /\ \A t, u \in Created : t # u => kt[t].stack # kt[u].stack

Active == {t \in StaticThreads : kt[t].state \in {"ready", "running"}}

\* A box belongs to the call that made it, then to the thread it was given to.
BoxOwned ==
    /\ \A c \in Callers :
          /\ at[c] \in {"out", "stack", "thread"} => child[c] = Nothing
          /\ at[c] = "create" /\ child[c] # Nothing => heap[child[c]] = c
    /\ \A t \in Active : kt[t].p1 # Nothing =>
          /\ heap[kt[t].p1] = kt[t].creator
          /\ \A c \in Callers : at[c] = "create" => child[c] # kt[t].p1
          /\ \A u \in Active : u # t => kt[u].p1 # kt[t].p1
    /\ \A t \in Created : kt[t].state # "ready" /\ kt[t].p1 # Nothing =>
          kt[t].ran = kt[t].creator

StaticInv == StaticTypeOK /\ OnceOwned /\ BoxOwned

\* Boxes are numbered, and Nothing is no number.
LEMMA BoxesAreNumbers == Boxes \subseteq Nat /\ Nothing \notin Boxes
<1>1. Cardinality(StaticThreads) \in Nat
  BY StaticAssumption, FS_CardinalityType
<1> QED BY <1>1, StaticAssumption DEF Boxes

\* The invariant holds before any thread is initialised.
LEMMA StaticInitInv == StaticInit => StaticInv
<1> SUFFICES ASSUME StaticInit PROVE StaticInv
  OBVIOUS
<1>1. NoThread \in KThread
  BY DEF NoThread, KThread
<1>2. StaticTypeOK
  BY <1>1 DEF StaticInit, StaticTypeOK
<1>3. Created = {} /\ Active = {}
  BY DEF StaticInit, NoThread, Created, Active
<1>4. OnceOwned /\ BoxOwned
  BY <1>3 DEF StaticInit, OnceOwned, BoxOwned
<1> QED BY <1>2, <1>4 DEF StaticInv

\* A caller's step before its thread is created, or after: no k_thread changes.
LEMMA CallerInv ==
    ASSUME StaticInv, NEW c \in Callers,
           \/ \E k \in Stacks : StackInitOnce(c, k)
           \/ \E t \in StaticThreads : ThreadInitOnce(c, t) \/ ThreadRefused(c, t)
           \/ \E from \in {"stack", "thread"} : DropUnused(c, from)
           \/ BoxClosure(c) \/ SimpleSpawn(c) \/ SetThreadName(c)
    PROVE  StaticInv'
<1>0. UNCHANGED kt /\ Created' = Created /\ Active' = Active
  BY DEF StackInitOnce, ThreadInitOnce, ThreadRefused, DropUnused, BoxClosure,
     SimpleSpawn, SetThreadName, Created, Active
<1>1. ASSUME NEW k \in Stacks, StackInitOnce(c, k) PROVE StaticInv'
  BY <1>0, <1>1, StaticAssumption
     DEF StackInitOnce, Goes, StaticInv, StaticTypeOK, OnceOwned, BoxOwned
<1>2. ASSUME NEW t \in StaticThreads, ThreadInitOnce(c, t) PROVE StaticInv'
  BY <1>0, <1>2, StaticAssumption
     DEF ThreadInitOnce, Goes, StaticInv, StaticTypeOK, OnceOwned, BoxOwned
<1>3. ASSUME NEW t \in StaticThreads, ThreadRefused(c, t) PROVE StaticInv'
  BY <1>0, <1>3, StaticAssumption
     DEF ThreadRefused, Goes, StaticInv, StaticTypeOK, OnceOwned, BoxOwned
<1>4. ASSUME NEW from \in {"stack", "thread"}, DropUnused(c, from) PROVE StaticInv'
  <2>1. StaticTypeOK'
    BY <1>0, <1>4 DEF DropUnused, Goes, StaticInv, StaticTypeOK
  <2>2. OnceOwned'
    BY <1>0, <1>4, StaticAssumption
       DEF DropUnused, Goes, StaticInv, StaticTypeOK, OnceOwned, Created
  <2>3. BoxOwned'
    BY <1>0, <1>4, StaticAssumption
       DEF DropUnused, Goes, StaticInv, StaticTypeOK, BoxOwned, Active, Created
  <2> QED BY <2>1, <2>2, <2>3 DEF StaticInv
<1>5. CASE BoxClosure(c)
  <2>1. StaticTypeOK'
    BY <1>0, <1>5 DEF BoxClosure, Goes, StaticInv, StaticTypeOK
  <2>2. OnceOwned'
    BY <1>0, <1>5 DEF BoxClosure, Goes, StaticInv, StaticTypeOK, OnceOwned
  <2>3. BoxOwned'
    BY <1>0, <1>5, StaticAssumption, BoxesAreNumbers
       DEF BoxClosure, Goes, StaticInv, StaticTypeOK, OnceOwned, BoxOwned,
           KThread, Created, Active
  <2> QED BY <2>1, <2>2, <2>3 DEF StaticInv
<1>6. CASE SimpleSpawn(c)
  BY <1>0, <1>6
     DEF SimpleSpawn, Goes, StaticInv, StaticTypeOK, OnceOwned, BoxOwned
<1>7. CASE SetThreadName(c)
  <2>1. StaticTypeOK'
    BY <1>0, <1>7 DEF SetThreadName, Goes, StaticInv, StaticTypeOK
  <2>2. OnceOwned'
    BY <1>0, <1>7, StaticAssumption
       DEF SetThreadName, Goes, StaticInv, StaticTypeOK, OnceOwned, Created
  <2>3. BoxOwned'
    BY <1>0, <1>7, StaticAssumption
       DEF SetThreadName, Goes, StaticInv, StaticTypeOK, BoxOwned, Active, Created
  <2> QED BY <2>1, <2>2, <2>3 DEF StaticInv
<1> QED BY <1>1, <1>2, <1>3, <1>4, <1>5, <1>6, <1>7

\* k_thread_create is given the closure boxed by the one who spawns.
LEMMA CreateThreadInv ==
    ASSUME StaticInv, NEW c \in Callers, CreateThread(c)
    PROVE  StaticInv'
<1> DEFINE new == [state |-> "ready", stack |-> stack[c], p1 |-> child[c],
                   creator |-> c, ran |-> Nothing]
<1>0. /\ at[c] = "create" /\ at' = [at EXCEPT ![c] = "name"]
      /\ kt' = [kt EXCEPT ![raw[c]] = new]
      /\ UNCHANGED <<inited, stack, raw, child, heap>>
  BY DEF CreateThread, Goes
<1>1. /\ raw[c] \in StaticThreads /\ raw[c] \notin Created
      /\ stack[c] \in Stacks /\ raw[c] \in inited /\ stack[c] \in inited
  BY <1>0, StaticAssumption DEF StaticInv, StaticTypeOK, OnceOwned
<1>2. new \in KThread
  BY DEF KThread, StaticInv, StaticTypeOK
<1>3. /\ Created' = Created \cup {raw[c]} /\ Active' = Active \cup {raw[c]}
      /\ kt'[raw[c]].stack = stack[c] /\ kt'[raw[c]].p1 = child[c]
      /\ kt'[raw[c]].creator = c /\ kt'[raw[c]].state = "ready"
      /\ \A t \in StaticThreads : t # raw[c] => kt'[t] = kt[t]
  BY <1>0, <1>1 DEF Created, Active, StaticInv, StaticTypeOK
<1>4. StaticTypeOK'
  BY <1>0, <1>1, <1>2 DEF StaticInv, StaticTypeOK
<1> HIDE DEF new
<1>5. OnceOwned'
  BY <1>0, <1>1, <1>3, StaticAssumption
     DEF StaticInv, StaticTypeOK, OnceOwned, Created
<1>6. BoxOwned'
  BY <1>0, <1>1, <1>3, StaticAssumption
     DEF StaticInv, StaticTypeOK, BoxOwned, Created, Active
<1> QED BY <1>4, <1>5, <1>6 DEF StaticInv

\* The new thread runs its closure out of its own box, and frees that box.
LEMMA ChildInv ==
    ASSUME StaticInv, NEW t \in StaticThreads, RunChild(t) \/ ChildReturns(t)
    PROVE  StaticInv'
<1>1. CASE RunChild(t)
  <2>1. /\ \A u \in StaticThreads : u # t => kt'[u] = kt[u]
        /\ kt[t].state = "ready" /\ kt'[t].state = "running"
        /\ kt'[t].stack = kt[t].stack /\ kt'[t].p1 = kt[t].p1
        /\ kt'[t].creator = kt[t].creator
        /\ kt'[t].ran = IF kt[t].p1 = Nothing THEN Nothing ELSE heap[kt[t].p1]
        /\ UNCHANGED <<inited, at, stack, raw, child, heap>>
    BY <1>1 DEF RunChild, StaticInv, StaticTypeOK, KThread
  <2>2. Created' = Created /\ Active' = Active
    BY <2>1 DEF Created, Active
  <2>3. StaticTypeOK'
    <3>1. kt[t] \in KThread
      BY DEF StaticInv, StaticTypeOK
    <3>2. (IF kt[t].p1 = Nothing THEN Nothing ELSE heap[kt[t].p1])
             \in Callers \cup {Nothing}
      BY <3>1 DEF StaticInv, StaticTypeOK, KThread
    <3>3. [kt[t] EXCEPT !.state = "running",
                        !.ran = IF kt[t].p1 = Nothing THEN Nothing
                                ELSE heap[kt[t].p1]] \in KThread
      BY <3>1, <3>2 DEF KThread
    <3> QED BY <1>1, <3>3 DEF RunChild, StaticInv, StaticTypeOK
  <2>4. OnceOwned'
    BY <2>1, <2>2 DEF StaticInv, OnceOwned, Created
  <2>5. BoxOwned'
    BY <2>1, <2>2 DEF StaticInv, BoxOwned, Created, Active
  <2> QED BY <2>3, <2>4, <2>5 DEF StaticInv
<1>2. CASE ChildReturns(t)
  <2>1. /\ \A u \in StaticThreads : u # t => kt'[u] = kt[u]
        /\ kt[t].state = "running" /\ kt'[t].state = "ended"
        /\ kt'[t].stack = kt[t].stack /\ kt'[t].p1 = kt[t].p1
        /\ kt'[t].creator = kt[t].creator /\ kt'[t].ran = kt[t].ran
        /\ heap' = [b \in Boxes |-> IF b = kt[t].p1 THEN Nothing ELSE heap[b]]
        /\ UNCHANGED <<inited, at, stack, raw, child>>
    BY <1>2 DEF ChildReturns, StaticInv, StaticTypeOK, KThread
  <2>2. Created' = Created /\ Active' = Active \ {t} /\ t \in Active
    BY <2>1 DEF Created, Active
  <2>3. StaticTypeOK'
    BY <1>2 DEF ChildReturns, StaticInv, StaticTypeOK, KThread
  <2>4. OnceOwned'
    BY <2>1, <2>2 DEF StaticInv, OnceOwned, Created
  <2>5. BoxOwned'
    BY <2>1, <2>2, BoxesAreNumbers
       DEF StaticInv, StaticTypeOK, KThread, BoxOwned, Created, Active
  <2> QED BY <2>3, <2>4, <2>5 DEF StaticInv
<1> QED BY <1>1, <1>2

\* The invariant of static threads holds throughout.
LEMMA StaticInvariant == StaticSpec => []StaticInv
<1>1. StaticInv /\ [StaticNext]_staticVars => StaticInv'
  <2> SUFFICES ASSUME StaticInv, [StaticNext]_staticVars PROVE StaticInv'
    OBVIOUS
  <2>1. CASE StaticNext
    BY <2>1, CallerInv, CreateThreadInv, ChildInv DEF StaticNext
  <2>2. CASE UNCHANGED staticVars
    BY <2>2 DEF staticVars, StaticInv, StaticTypeOK, OnceOwned, BoxOwned,
       Created, Active
  <2> QED BY <2>1, <2>2
<1> QED BY <1>1, StaticInitInv, PTL DEF StaticSpec

\* spawn creates a k_thread once, gives every thread a stack and a closure of
\* its own, and names the thread it created, whoever else spawns meanwhile.
THEOREM SpawnSound == StaticSpec => []SpawnOwnership
<1>1. StaticInv => SpawnOwnership
  <2> SUFFICES ASSUME StaticInv PROVE SpawnOwnership
    OBVIOUS
  <2>1. ASSUME NEW c \in Callers
        PROVE  /\ at[c] = "create" => raw[c] \notin Created
               /\ at[c] = "name" => kt[raw[c]].creator = c
    BY DEF StaticInv, OnceOwned
  <2>2. ASSUME NEW t \in Created, NEW u \in Created, t # u
        PROVE  /\ kt[t].stack # kt[u].stack
               /\ kt[t].state # "ended" /\ kt[u].state # "ended" =>
                     kt[t].p1 # kt[u].p1 \/ kt[t].p1 = Nothing
    BY <2>2 DEF StaticInv, StaticTypeOK, KThread, OnceOwned, BoxOwned, Created,
       Active
  <2>3. ASSUME NEW t \in Created, kt[t].p1 # Nothing
        PROVE  /\ kt[t].state = "ready" => heap[kt[t].p1] = kt[t].creator
               /\ kt[t].state # "ready" => kt[t].ran = kt[t].creator
    BY <2>3 DEF StaticInv, BoxOwned, Created, Active
  <2> QED BY <2>1, <2>2, <2>3 DEF SpawnOwnership
<1> QED BY <1>1, StaticInvariant, PTL
=============================================================================
