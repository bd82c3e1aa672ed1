------------------------------ MODULE Embassy ------------------------------
(***************************************************************************)
(* zephyr/src/embassy: the Executor, which sleeps on a semaphore until     *)
(* __pender says that a task is ready, and the time driver, which wakes    *)
(* sleeping tasks from a k_timer.                                          *)
(*                                                                         *)
(* embassy's run queue and timer queue are external: poll runs what was    *)
(* queued before it, a wake of an empty run queue calls __pender, and      *)
(* next_expiration wakes and removes what has expired.  Time passes at any *)
(* moment, also inside the critical sections of the driver.                *)
(***************************************************************************)
EXTENDS FiniteSetsExt, Integers

CONSTANTS Tasks,
          SignBit,  \* the weight of the sign bit of an i64: 2^63
          MaxNow,   \* bound on the time, and on the times slept until
          MaxNaps,  \* bound on the times one task goes to sleep
          None

ASSUME EmbassyAssumption ==
    /\ SignBit \in Nat /\ MaxNow \in Nat /\ MaxNow + 1 < SignBit
    /\ MaxNaps \in Nat
    /\ None \notin Tasks \cup Int \cup {"task", "isr"}

VARIABLES
    now,       \* k_uptime_ticks
    sem,       \* Executor::poll_needed
    pc,        \* where the executor's loop is
    runq,      \* the tasks in the run queue
    batch,     \* the tasks the current poll has still to run
    cur,       \* the task that calls schedule_wake
    until,     \* what each task sleeps until, or None
    naps,      \* how often each task went to sleep
    tq,        \* the timer queue: an expiration time for some tasks
    driver,    \* who is in the driver's critical section: None, "task", "isr"
    step,      \* the next step there: expire or arm
    next,      \* its local variable
    alarm,     \* when the k_timer fires, or None
    armedFor,  \* the `next` it was set for
    pending    \* wakers between queueing a task and calling __pender

vars == <<now, sem, pc, runq, batch, cur, until, naps, tq, driver, step, next,
          alarm, armedFor, pending>>

\* The values of a u64 are those below Modulus.
Modulus == 2 * SignBit

UMax == Modulus - 1

\* The tasks are spawned by the closure given to run, which calls __pender.
Init ==
    /\ now = 0
    /\ sem = 1
    /\ pc = "take"
    /\ runq = Tasks
    /\ batch = {}
    /\ cur = None
    /\ until = [t \in Tasks |-> None]
    /\ naps = [t \in Tasks |-> 0]
    /\ tq = [t \in {} |-> 0]
    /\ driver = None
    /\ step = "expire"
    /\ next = UMax
    /\ alarm = None
    /\ armedFor = UMax
    /\ pending = 0

Tick ==
    /\ now < MaxNow
    /\ now' = now + 1
    /\ UNCHANGED <<sem, pc, runq, batch, cur, until, naps, tq, driver, step,
                   next, alarm, armedFor, pending>>

-----------------------------------------------------------------------------
(* The run queue and __pender.                                             *)

\* A task whose run bit is set already is not queued again.
NewlyQueued(ts) == ts \ (runq \cup batch)

\* Whether waking ts makes the run queue nonempty, which calls __pender.
CallsPender(ts) == runq = {} /\ NewlyQueued(ts) # {}

\* Semaphore::give: at its limit of 1 nothing changes.
Give == sem' = 1

\* Mutant: the semaphore is given only to a thread that waits for it.
PenderOnlyIfWaiting ==
    /\ pending > 0
    /\ pending' = pending - 1
    /\ sem' = IF pc = "take" THEN 1 ELSE sem
    /\ UNCHANGED <<now, pc, runq, batch, cur, until, naps, tq, driver, step,
                   next, alarm, armedFor>>

Pender ==
    /\ pending > 0
    /\ pending' = pending - 1
    /\ Give
    /\ UNCHANGED <<now, pc, runq, batch, cur, until, naps, tq, driver, step,
                   next, alarm, armedFor>>

\* Another thread or an interrupt wakes a task.
Wake(t) ==
    /\ runq' = runq \cup NewlyQueued({t})
    /\ pending' = IF CallsPender({t}) THEN pending + 1 ELSE pending
    /\ UNCHANGED <<now, sem, pc, batch, cur, until, naps, tq, driver, step,
                   next, alarm, armedFor>>

-----------------------------------------------------------------------------
(* Executor::run.                                                          *)

Take ==
    /\ pc = "take"
    /\ sem = 1
    /\ sem' = 0
    /\ pc' = "dequeue"
    /\ UNCHANGED <<now, runq, batch, cur, until, naps, tq, driver, step, next,
                   alarm, armedFor, pending>>

\* inner.poll takes the whole run queue at once.
Dequeue ==
    /\ pc = "dequeue"
    /\ batch' = runq
    /\ runq' = {}
    /\ pc' = "run"
    /\ UNCHANGED <<now, sem, cur, until, naps, tq, driver, step, next, alarm,
                   armedFor, pending>>

\* A task that does not sleep starts to, for an event only or until some time;
\* Timer::poll schedules itself once also when that time has come.
Nap(t) ==
    /\ pc = "run"
    /\ t \in batch
    /\ until[t] = None
    /\ batch' = batch \ {t}
    /\ \/ \E at \in now..MaxNow :
             /\ naps[t] < MaxNaps
             /\ until' = [until EXCEPT ![t] = at]
             /\ naps' = [naps EXCEPT ![t] = @ + 1]
             /\ cur' = t
             /\ pc' = "schedule"
       \/ UNCHANGED <<until, naps, cur, pc>>
    /\ UNCHANGED <<now, sem, runq, tq, driver, step, next, alarm, armedFor, pending>>

\* A sleeping task is polled: its time has come, or it schedules itself again.
Resume(t) ==
    /\ pc = "run"
    /\ t \in batch
    /\ until[t] # None
    /\ batch' = batch \ {t}
    /\ \/ /\ until[t] <= now
          /\ until' = [until EXCEPT ![t] = None]
          /\ UNCHANGED <<cur, pc>>
       \/ /\ until[t] > now
          /\ cur' = t
          /\ pc' = "schedule"
          /\ UNCHANGED until
    /\ UNCHANGED <<now, sem, runq, naps, tq, driver, step, next, alarm,
                   armedFor, pending>>

PollReturns ==
    /\ pc = "run"
    /\ batch = {}
    /\ pc' = "take"
    /\ UNCHANGED <<now, sem, runq, batch, cur, until, naps, tq, driver, step,
                   next, alarm, armedFor, pending>>

-----------------------------------------------------------------------------
(* ZephyrTimeDriver.                                                       *)

Put(f, t, at) == [u \in DOMAIN f \cup {t} |-> IF u = t THEN at ELSE f[u]]

\* Queue::schedule_wake is true for a new entry or an earlier time.
Sooner(t, at) == t \in DOMAIN tq => at <= tq[t]

ScheduleWake ==
    /\ pc = "schedule"
    /\ driver = None
    /\ LET at == until[cur] IN
       \/ /\ Sooner(cur, at)
          /\ tq' = Put(tq, cur, at)
          /\ driver' = "task"
          /\ step' = "expire"
          /\ pc' = "scheduling"
       \/ /\ ~Sooner(cur, at)
          /\ pc' = "run"
          /\ UNCHANGED <<tq, driver, step>>
    /\ UNCHANGED <<now, sem, runq, batch, cur, until, naps, next, alarm,
                   armedFor, pending>>

\* The k_timer fires and calls timer_tick, which calls check_alarm.  Its period
\* is K_FOREVER: it fires once.
TimerTick ==
    /\ alarm # None /\ alarm <= now
    /\ driver = None
    /\ alarm' = None
    /\ driver' = "isr"
    /\ step' = "expire"
    /\ UNCHANGED <<now, sem, pc, runq, batch, cur, until, naps, tq, next,
                   armedFor, pending>>

\* next_expiration(self.now()).
Expire ==
    LET due == {t \in DOMAIN tq : tq[t] <= now}
        left == DOMAIN tq \ due
    IN  /\ driver # None
        /\ step = "expire"
        /\ tq' = [t \in left |-> tq[t]]
        /\ next' = Min({UMax} \cup {tq[t] : t \in left})
        /\ runq' = runq \cup NewlyQueued(due)
        /\ IF CallsPender(due) THEN Give ELSE UNCHANGED sem
        /\ step' = "arm"
        /\ UNCHANGED <<now, pc, batch, cur, until, naps, driver, alarm,
                       armedFor, pending>>

\* (x as i64) for an unsigned x.
AsSigned(x) == IF x >= SignBit THEN x - Modulus ELSE x

\* The ticks given to k_timer_start.  The sum wraps at tick 0 if the queue is
\* empty, in a build without overflow checks, which is the one modelled.
Delta(n) == AsSigned((n - now + 1) % Modulus)

\* When k_timer_start makes the timer fire: it subtracts one from a relative
\* time, -1 is K_FOREVER, and what is below is a point in time, which is
\* reached with the next tick if it has passed.
FiresAt(ticks) ==
    CASE ticks > 0 -> now + ticks - 1
      [] ticks = 0 -> now
      [] ticks = -1 -> None
      [] OTHER -> Max({now + 1, -2 - ticks})

Leave ==
    /\ driver' = None
    /\ pc' = IF driver = "task" THEN "run" ELSE pc

\* Mutant: set_alarm is called once, not until it succeeds.
ArmOnce ==
    /\ driver # None
    /\ step = "arm"
    /\ IF next <= now THEN UNCHANGED <<alarm, armedFor>>
       ELSE alarm' = FiresAt(Delta(next)) /\ armedFor' = next
    /\ Leave
    /\ UNCHANGED <<now, sem, runq, batch, cur, until, naps, tq, step, next, pending>>

\* Mutant: the loop goes on when set_alarm has succeeded.
ArmLoops ==
    /\ driver # None
    /\ step = "arm"
    /\ step' = "expire"
    /\ IF next <= now THEN UNCHANGED <<alarm, armedFor>>
       ELSE alarm' = FiresAt(Delta(next)) /\ armedFor' = next
    /\ UNCHANGED <<now, sem, pc, runq, batch, cur, until, naps, tq, driver,
                   next, pending>>

\* set_alarm(next, self.now()): false when next has passed meanwhile.
Arm ==
    /\ driver # None
    /\ step = "arm"
    /\ \/ /\ next <= now
          /\ step' = "expire"
          /\ UNCHANGED <<alarm, armedFor, driver, pc>>
       \/ /\ next > now
          /\ alarm' = FiresAt(Delta(next))
          /\ armedFor' = next
          /\ Leave
          /\ UNCHANGED step
    /\ UNCHANGED <<now, sem, runq, batch, cur, until, naps, tq, next, pending>>

-----------------------------------------------------------------------------
ExecutorStep ==
    \/ Take \/ Dequeue \/ PollReturns \/ ScheduleWake
    \/ \E t \in Tasks : Nap(t) \/ Resume(t)

DriverStep == Expire \/ Arm

Next ==
    \/ ExecutorStep \/ DriverStep \/ TimerTick \/ Tick \/ Pender
    \/ \E t \in Tasks : Wake(t)

Spec == Init /\ [][Next]_vars

-----------------------------------------------------------------------------
(* Properties.                                                             *)

\* No wake is lost between the executor's take and its poll: while a task is in
\* the run queue, the semaphore is up, or the executor is about to look, or
\* the waker has yet to call __pender.
NoLostPoll == runq # {} => sem = 1 \/ pc = "dequeue" \/ pending > 0

\* Every time in the timer queue is covered: the k_timer fires by then, unless
\* the driver is about to set it.  And an alarm that was set for a time does
\* not come before it, whatever the conversion to a tick count did.
AlarmRight ==
    /\ driver = None => \A t \in DOMAIN tq : alarm # None /\ alarm <= tq[t]
    /\ alarm # None /\ armedFor # UMax => alarm >= armedFor

\* Every sleep ends.
SleepEnds == \A t \in Tasks : until[t] # None ~> until[t] = None
=============================================================================
