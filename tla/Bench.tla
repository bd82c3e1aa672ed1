-------------------------------- MODULE Bench --------------------------------
(***************************************************************************)
(* The benchmark harnesses of the samples, three of which have one shape:  *)
(*   threads    samples/bench/src/lib.rs, ThreadTests                      *)
(*   executors  samples/bench/src/executor.rs, AsyncTests                  *)
(*   embassy    samples/embassy/src/lib.rs, ThreadTests                    *)
(* A run gives one command to a group of workers and to one or two         *)
(* helpers, low and high; they give and take semaphores and each sends one *)
(* result, and the run ends when main has them all.  The group are threads *)
(* that receive commands, or tasks spawned for the command.  The fourth,   *)
(*   simple     samples/bench/src/lib.rs, Simple                           *)
(* passes work items of one work queue around.                             *)
(*                                                                         *)
(* A semaphore is a number, and a take of zero waits.  Times, counts and   *)
(* messages, which are only printed, are left out.                         *)
(***************************************************************************)
EXTENDS Integers, Sequences, FiniteSets

CONSTANTS
    NumThreads,  \* NUM_THREADS
    Iters        \* the count of every command

ASSUME BenchAssumption == NumThreads \in Nat \ {0} /\ Iters \in Nat \ {0}

VARIABLES
    harness,    \* which harness the program is
    caller,     \* the code that calls run: it calls, waits or has panicked
    commands,   \* MAIN_CMD, or the argument of run
    end_wait,   \* end_wait, or the return of run
    main,       \* what run or main_run does: command, start or collect
    doing,      \* the command of this run
    round,      \* a bit to tell a run from the one before it
    started,    \* how many of the group have been given the command
    answered,   \* those whose result main has
    msg_count,  \* how many results main still expects
    inbox,      \* the command channel of each thread
    job,        \* what each of the group works at
    sem,        \* sems and back_sems, or forward and back
    results,    \* the channel of results
    workq,      \* simple: the items submitted to the work queue
    works,      \* simple: Locked::works
    count,      \* simple: Locked::count
    acted       \* simple: how often each worker item has run

callVars == <<caller, commands, end_wait>>
mainVars == <<main, doing, round, started, answered, msg_count>>
groupVars == <<inbox, job, sem, results>>
simpleVars == <<workq, works, count, acted>>
harnessVars == <<harness, callVars, mainVars, groupVars>>
benchVars == <<harnessVars, simpleVars>>

Workers == 0..NumThreads-1
Low == NumThreads
High == NumThreads + 1
Everyone == Workers \cup {Low, High}

\* In the order in which they are given the command.
Group ==
    LET workers == [i \in 1..NumThreads |-> i - 1]
    IN  CASE harness = "threads" -> <<High>> \o workers \o <<Low>>
          [] harness = "executors" -> <<High, Low>> \o workers
          [] OTHER -> workers \o <<Low>>

Ops == {"Empty", "SimpleSem", "SimpleSemYield", "SemWait", "SemWaitSame",
        "SemHigh", "SemPingPong", "SemOnePingPong"}

\* The commands a harness implements; embassy's PingPong is SemPingPong here.
Commands ==
    CASE harness = "threads" -> Ops
      [] harness = "executors" -> Ops \ {"SemHigh"}
      [] harness = "embassy" -> {"Empty", "SemPingPong"}
      [] OTHER -> {}

\* Nobody's job, and the job of one who has sent its result and has yet to
\* return to its executor.
Idle == [op |-> "none", round |-> 0, done |-> 0]
Returning == [Idle EXCEPT !.op = "returning"]

Sems == {"sem", "back"} \X Workers

\* ThreadTests::new, AsyncTests::new: the threads and the executors run.
BenchInit ==
    /\ harness \in {"threads", "executors", "embassy", "simple"}
    /\ caller = "calls"
    /\ commands = <<>>
    /\ end_wait = 0
    /\ main = "command"
    /\ doing = "Empty"
    /\ round = 0
    /\ started = 0
    /\ answered = {}
    /\ msg_count = 0
    /\ inbox = [m \in Everyone |-> <<>>]
    /\ job = [m \in Everyone |-> Idle]
    /\ sem = [s \in Sems |-> 0]
    /\ results = <<>>
    /\ workq = <<>>
    /\ works = <<>>
    /\ count = 0
    /\ acted = [w \in Workers |-> 0]

-----------------------------------------------------------------------------
(* What a command makes each of the group do.                              *)

GiveTo(name, i) == [act |-> "give", on |-> <<name, i>>]
TakeFrom(name, i) == [act |-> "take", on |-> <<name, i>>]
TryTakeFrom(name, i) == [act |-> "try", on |-> <<name, i>>]

\* The semaphores a ping pong of worker id uses, there and back.
Ping(op, id) ==
    IF harness = "executors" \/ op = "SemOnePingPong" THEN 0 ELSE id
Pong(op, id) ==
    IF harness = "threads" /\ op = "SemPingPong" THEN id ELSE 0

\* One iteration of worker: simple_sem, simple_sem_yield, sem_take and
\* ping_pong_worker, and their async forms.
WorkerProgram(op, id) ==
    CASE op \in {"SimpleSem", "SimpleSemYield"} ->
            <<GiveTo("sem", id), IF harness = "threads" THEN TryTakeFrom("sem", id)
                                                      ELSE TakeFrom("sem", id)>>
      [] op \in {"SemWait", "SemWaitSame", "SemHigh"} -> <<TakeFrom("sem", id)>>
      [] op \in {"SemPingPong", "SemOnePingPong"} ->
            <<TakeFrom("sem", Ping(op, id)), GiveTo("back", Pong(op, id))>>
      [] OTHER -> <<>>

GiveAll == [i \in 1..NumThreads |-> GiveTo("sem", i - 1)]

\* Mutant: one ping pong per iteration, not one for every worker.
LowOnePing(op) ==
    CASE op \in {"SemWait", "SemWaitSame"} -> GiveAll
      [] op \in {"SemPingPong", "SemOnePingPong"} ->
            <<GiveTo("sem", 0), TakeFrom("back", 0)>>
      [] OTHER -> <<>>

\* One iteration of low_runner, low_worker, low_task.
LowProgram(op) ==
    CASE op \in {"SemWait", "SemWaitSame"} -> GiveAll
      [] op \in {"SemPingPong", "SemOnePingPong"} ->
            [k \in 1..2*NumThreads |->
                LET id == (k - 1) \div 2
                IN  IF k % 2 = 1 THEN GiveTo("sem", Ping(op, id))
                                 ELSE TakeFrom("back", Pong(op, id))]
      [] OTHER -> <<>>

\* One iteration of high_runner, high_worker.
HighProgram(op) == IF op = "SemHigh" THEN GiveAll ELSE <<>>

Program(op, m) ==
    CASE m = Low -> LowProgram(op)
      [] m = High -> HighProgram(op)
      [] OTHER -> WorkerProgram(op, m)

Works(m) == job[m].op \in Ops
Finished(m) ==
    Works(m) /\ job[m].done = Iters * Len(Program(job[m].op, m))

-----------------------------------------------------------------------------
(* The group.                                                              *)

\* A thread's command.recv.
RecvCommand(m) ==
    /\ job[m] = Idle
    /\ inbox[m] # <<>>
    /\ job' = [job EXCEPT ![m] = Head(inbox[m])]
    /\ inbox' = [inbox EXCEPT ![m] = Tail(@)]
    /\ UNCHANGED <<harness, callVars, mainVars, sem, results>>

\* The channels that embassy's sample uses as semaphores hold one message.
Full(s) == harness = "embassy" /\ sem[s] = 1

\* The next operation of the program.  A take waits, take(NoWait) does not and
\* its unwrap may panic.
Operate(m) ==
    /\ Works(m)
    /\ ~Finished(m)
    /\ LET program == Program(job[m].op, m)
           do == program[(job[m].done % Len(program)) + 1]
       IN  \/ /\ do.act = "give"
              /\ ~Full(do.on)
              /\ sem' = [sem EXCEPT ![do.on] = @ + 1]
              /\ job' = [job EXCEPT ![m].done = @ + 1]
           \/ /\ do.act = "take"
              /\ sem[do.on] > 0
              /\ sem' = [sem EXCEPT ![do.on] = @ - 1]
              /\ job' = [job EXCEPT ![m].done = @ + 1]
           \/ /\ do.act = "try"
              /\ sem' = [sem EXCEPT ![do.on] = IF @ > 0 THEN @ - 1 ELSE 0]
              /\ job' = IF sem[do.on] > 0
                        THEN [job EXCEPT ![m].done = @ + 1]
                        ELSE [job EXCEPT ![m].op = "panicked"]
    /\ UNCHANGED <<harness, callVars, mainVars, inbox, results>>

\* Command::is_same_priority.
IsSamePriority(op) == op \in {"SemWaitSame", "SemOnePingPong"}

\* Whether main's executor polls the task too: then no step of main comes
\* between the end of the task and the release of its storage.
WithMain(op, m) ==
    CASE harness = "executors" ->
            m \in Workers \/ (m = Low /\ IsSamePriority(op))
      [] OTHER -> m \in Workers

\* results.send: the channel of the threads is unbounded, the other holds one.
SendResult(m) ==
    /\ Finished(m)
    /\ harness # "threads" => results = <<>>
    /\ results' = Append(results, [from |-> m, round |-> job[m].round])
    /\ job' = [job EXCEPT ![m] =
                 IF harness = "threads" \/ WithMain(@.op, m)
                 THEN Idle ELSE Returning]
    /\ UNCHANGED <<harness, callVars, mainVars, inbox, sem>>

\* The poll of a finished task returns and its place in the task's pool is free.
TaskReturns(m) ==
    /\ job[m] = Returning
    /\ job' = [job EXCEPT ![m] = Idle]
    /\ UNCHANGED <<harness, callVars, mainVars, inbox, sem, results>>

Member(m) == RecvCommand(m) \/ Operate(m) \/ SendResult(m) \/ TaskReturns(m)

-----------------------------------------------------------------------------
(* run, and main_run.                                                      *)

\* run is called.  AsyncTests::run starts main_run the first time, which is
\* running from the beginning here, and panics when MAIN_CMD is full.
CallRun(c) ==
    /\ caller = "calls"
    /\ caller' = IF commands = <<>> THEN "waits" ELSE "panicked"
    /\ commands' = IF commands = <<>> THEN <<c>> ELSE commands
    /\ UNCHANGED <<harness, end_wait, mainVars, groupVars>>

\* Mutant: run does not wait for end_wait.
RunReturnsEarly ==
    /\ caller = "waits"
    /\ caller' = "calls"
    /\ end_wait' = 0
    /\ UNCHANGED <<harness, commands, mainVars, groupVars>>

RunReturns ==
    /\ caller = "waits"
    /\ end_wait = 1
    /\ caller' = "calls"
    /\ end_wait' = 0
    /\ UNCHANGED <<harness, commands, mainVars, groupVars>>

\* Mutant: the results of low and high are forgotten in the number.
BeginForgets ==
    /\ main = "command"
    /\ commands # <<>>
    /\ doing' = Head(commands)
    /\ commands' = Tail(commands)
    /\ sem' = IF harness = "embassy" THEN sem ELSE [s \in Sems |-> 0]
    /\ main' = "start"
    /\ round' = 1 - round
    /\ started' = 0
    /\ answered' = {}
    /\ msg_count' = NumThreads
    /\ UNCHANGED <<harness, caller, end_wait, inbox, job, results>>

\* The semaphores are reset, embassy's channels are not.
Begin ==
    /\ main = "command"
    /\ commands # <<>>
    /\ doing' = Head(commands)
    /\ commands' = Tail(commands)
    /\ sem' = IF harness = "embassy" THEN sem ELSE [s \in Sems |-> 0]
    /\ main' = "start"
    /\ round' = 1 - round
    /\ started' = 0
    /\ answered' = {}
    /\ msg_count' = Len(Group)
    /\ UNCHANGED <<harness, caller, end_wait, inbox, job, results>>

NextJob == [op |-> doing, round |-> round, done |-> 0]
Following == IF started + 1 = Len(Group) THEN "collect" ELSE "start"

\* The next of the threads is sent the command, when its channel has room.
SendCommand ==
    /\ main = "start" /\ harness = "threads"
    /\ LET m == Group[started + 1]
       IN  /\ inbox[m] = <<>>
           /\ inbox' = [inbox EXCEPT ![m] = <<NextJob>>]
    /\ started' = started + 1
    /\ main' = Following
    /\ UNCHANGED <<harness, callVars, doing, round, answered, msg_count,
                   job, sem, results>>

\* The next of the tasks is spawned.  A task whose storage is still in use is
\* not spawned, and the unwrap panics.
Spawn ==
    /\ main = "start" /\ harness \in {"executors", "embassy"}
    /\ LET m == Group[started + 1]
       IN  \/ /\ job[m] = Idle
              /\ job' = [job EXCEPT ![m] = NextJob]
              /\ main' = Following
           \/ /\ job[m] # Idle
              /\ main' = "spawn failed"
              /\ UNCHANGED job
    /\ started' = started + 1
    /\ UNCHANGED <<harness, callVars, doing, round, answered, msg_count,
                   inbox, sem, results>>

\* A result is received.  A second one from the same sender is a panic; after
\* the last one the run has ended.
Collect ==
    /\ main = "collect"
    /\ results # <<>>
    /\ LET from == Head(results).from
           last == msg_count - 1 <= 0
       IN  /\ answered' = answered \cup {from}
           /\ main' = CASE from \in answered -> "panicked"
                        [] last -> "command"
                        [] OTHER -> "collect"
           /\ end_wait' = IF last /\ from \notin answered THEN 1 ELSE end_wait
    /\ msg_count' = msg_count - 1
    /\ results' = Tail(results)
    /\ UNCHANGED <<harness, caller, commands, doing, round, started,
                   inbox, job, sem>>

Main == Begin \/ SendCommand \/ Spawn \/ Collect

-----------------------------------------------------------------------------
(* Simple: the main item submits the next worker item, which submits main. *)

MainItem == NumThreads

\* Simple::run, up to done.take.  end_wait is the semaphore done.
SimpleRun ==
    /\ harness = "simple"
    /\ caller = "calls"
    /\ caller' = "waits"
    /\ works' = [i \in 1..NumThreads |-> i - 1]
    /\ count' = NumThreads * Iters
    /\ acted' = [w \in Workers |-> 0]
    /\ workq' = Append(workq, MainItem)
    /\ UNCHANGED <<harness, commands, end_wait, mainVars, groupVars>>

\* SimpleMain::act.
SimpleMainActs ==
    /\ workq # <<>> /\ Head(workq) = MainItem
    /\ \/ /\ count = 0
          /\ end_wait' = 1
          /\ workq' = Tail(workq)
          /\ UNCHANGED <<works, count>>
       \/ /\ count > 0
          /\ works' = Append(Tail(works), Head(works))
          /\ count' = count - 1
          /\ workq' = Append(Tail(workq), Head(works))
          /\ UNCHANGED end_wait
    /\ UNCHANGED <<harness, caller, commands, mainVars, groupVars, acted>>

\* SimpleWorker::act: the weak reference to main can be upgraded only while
\* run has not returned and dropped main.
SimpleWorkerActs ==
    /\ workq # <<>> /\ Head(workq) # MainItem
    /\ acted' = [acted EXCEPT ![Head(workq)] = @ + 1]
    /\ caller' = IF caller = "waits" THEN caller ELSE "panicked"
    /\ workq' = Append(Tail(workq), MainItem)
    /\ UNCHANGED <<harness, commands, end_wait, mainVars, groupVars, works,
                   count>>

WorkQueue == SimpleMainActs \/ SimpleWorkerActs

-----------------------------------------------------------------------------
\* Any sequence of commands; rust_main's is one of them.
Caller == RunReturns \/ \E c \in Commands : CallRun(c)

BenchNext ==
    \/ /\ Caller \/ Main \/ \E m \in Everyone : Member(m)
       /\ UNCHANGED simpleVars
    \/ SimpleRun \/ WorkQueue

\* Every thread and every task that can go on does: none of them spins, so
\* each of them, whatever its priority, leaves the processor to the others.
BenchFairness ==
    /\ WF_benchVars(Main /\ UNCHANGED simpleVars)
    /\ WF_benchVars(WorkQueue)
    /\ \A m \in Everyone : WF_benchVars(Member(m) /\ UNCHANGED simpleVars)

BenchSpec == BenchInit /\ [][BenchNext]_benchVars /\ BenchFairness

-----------------------------------------------------------------------------
(* Properties.                                                             *)

\* Whether m has yet to receive, perform or answer a command.
Busy(m) == Works(m) \/ inbox[m] # <<>>

\* "This is safe due to nothing using the semaphores right now": when a run has
\* ended nobody works at its command any longer, no result of it is left for
\* the next run to take for its own, and no semaphore is above zero, so the
\* warning about a count left by the previous test is never printed.  While
\* it lasts, each one's answer and work are of this run, and once only.  For
\* Simple: every item has run as often as any other and none is queued.
RunsSeparate ==
    /\ main = "command" =>
          /\ \A m \in Everyone : ~Busy(m)
          /\ results = <<>>
          /\ \A s \in Sems : sem[s] = 0
    /\ \A m \in Everyone :
          LET mine == {i \in DOMAIN results : results[i].from = m}
          IN  /\ Works(m) => job[m].round = round
              /\ \A i \in mine : results[i].round = round
              /\ Cardinality(mine) + (IF Busy(m) THEN 1 ELSE 0)
                    + (IF main # "command" /\ m \in answered THEN 1 ELSE 0) <= 1
    /\ harness = "simple" /\ end_wait = 1 =>
          workq = <<>> /\ \A w \in Workers : acted[w] = Iters

\* None of the panics and unwraps on the way of a run is reached, but for the
\* one of spawn: a semaphore that was just given can be taken at once, MAIN_CMD
\* has room, nobody answers twice, main outlives its workers.
NeverPanics ==
    /\ caller # "panicked"
    /\ main # "panicked"
    /\ \A m \in Everyone : job[m].op # "panicked"

\* Every command that was handed out is finished by everyone, and run returns:
\* no ping waits for a pong that does not come, and nobody waits for room in
\* a channel that main would have to empty first.
RunEnds ==
    /\ main = "collect" ~> main = "command"
    /\ harness = "simple" /\ caller = "waits" ~> end_wait = 1

\* "the results are then collected, waiting for everything to finish"
\* (executor.rs): when a run of AsyncTests has ended, high_worker, low_worker
\* and the workers have too, so that the next run can spawn them.
EverythingFinished ==
    harness = "executors" /\ main = "command" =>
        \A m \in Everyone : job[m] # Returning
=============================================================================
