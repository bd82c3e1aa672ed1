--------------------------- MODULE Embassy_proofs ---------------------------
(***************************************************************************)
(* Proofs about Embassy, for any set of tasks, any time, any number of     *)
(* sleeps and any width of the tick counter.                               *)
(***************************************************************************)
EXTENDS Embassy, WellFoundedInduction, TLAPS

\* A nonempty set of natural numbers has a least element.
LEMMA LeastOf ==
    ASSUME NEW S \in SUBSET Nat, S # {}
    PROVE  Min(S) \in S /\ \A y \in S : Min(S) <= y
<1> DEFINE R == OpToRel(<, Nat)
<1>1. IsWellFoundedOn(R, Nat)
  BY NatLessThanWellFounded
<1>2. \A x, y \in Nat : y < x => <<y, x>> \in R
  BY DEF OpToRel
<1> HIDE DEF R
<1>3. PICK x \in S : \A y \in S : ~(<<y, x>> \in R)
  BY <1>1, WFMin
<1>4. ASSUME NEW y \in S PROVE x =< y
  <2>1. x \in Nat /\ y \in Nat
    OBVIOUS
  <2>2. ~(y < x)
    BY <1>2, <1>3, <2>1, Zenon
  <2> QED BY <2>1, <2>2
<1> QED BY <1>4 DEF Min

\* What a u64 holds is not changed by the reduction to 64 bits.
LEMMA NoWrap ==
    ASSUME NEW x \in Int, NEW m \in Int, 0 <= x, x < m
    PROVE  x % m = x
OBVIOUS

\* For a time that is still to come, the conversion of set_alarm and what
\* k_timer_start does with it cancel out: the timer fires at that time.
LEMMA FiresThen ==
    ASSUME now \in 0..MaxNow, NEW n \in 0..MaxNow, now < n
    PROVE  FiresAt(Delta(n)) = n
<1>1. /\ now \in Nat /\ n \in Nat /\ SignBit \in Nat /\ MaxNow \in Nat /\ n <= MaxNow
      /\ MaxNow + 1 < SignBit /\ Modulus \in Nat /\ Modulus = 2 * SignBit
  BY EmbassyAssumption DEF Modulus
<1>2. n - now + 1 \in Int /\ n - now + 1 > 0 /\ n - now + 1 < SignBit /\ SignBit < Modulus
  BY <1>1
<1>3. (n - now + 1) % Modulus = n - now + 1
  BY <1>1, <1>2, NoWrap
<1>4. Delta(n) = n - now + 1
  BY <1>1, <1>2, <1>3 DEF Delta, AsSigned
<1> QED BY <1>1, <1>2, <1>4 DEF FiresAt

-----------------------------------------------------------------------------
(* The inductive invariant.                                                *)

Times == 0..MaxNow

\* The type invariant, as far as the properties need it.
TypeOK ==
    /\ now \in Times
    /\ pending \in Nat
    /\ cur \in Tasks \cup {None}
    /\ until \in [Tasks -> Times \cup {None}]
    /\ DOMAIN tq \subseteq Tasks
    /\ \A t \in DOMAIN tq : tq[t] \in Times
    /\ driver \in {None, "task", "isr"}
    /\ step \in {"expire", "arm"}

\* The task that schedules itself sleeps until some time, and the executor's
\* thread waits while it is in the driver.
Scheduling ==
    /\ pc = "schedule" => cur \in Tasks /\ until[cur] \in Times
    /\ driver = "task" => pc = "scheduling"

\* Between next_expiration and set_alarm, `next` is the first time in the timer
\* queue, or UMax: nobody changes the queue inside the critical section.
NextFirst ==
    driver # None /\ step = "arm" =>
        /\ next \in Times \cup {UMax}
        /\ \A t \in DOMAIN tq : next <= tq[t]

EmbassyInv == TypeOK /\ Scheduling /\ NextFirst /\ NoLostPoll /\ AlarmRight

\* What the assumption says about times and None.
LEMMA Facts ==
    /\ MaxNow \in Nat /\ SignBit \in Nat /\ 0 <= MaxNow /\ MaxNow < UMax /\ UMax \in Nat
    /\ None \notin {"task", "isr"} /\ None \notin Int
BY EmbassyAssumption DEF UMax, Modulus

\* The invariant holds initially.
LEMMA InitInv == Init => EmbassyInv
<1> SUFFICES ASSUME Init PROVE EmbassyInv
  OBVIOUS
<1> USE Facts DEF Init
<1>1. DOMAIN tq = {}
  OBVIOUS
<1>2. TypeOK
  BY <1>1 DEF TypeOK, Times
<1>3. Scheduling /\ NextFirst /\ NoLostPoll /\ AlarmRight
  BY <1>1 DEF Scheduling, NextFirst, NoLostPoll, AlarmRight
<1> QED BY <1>2, <1>3 DEF EmbassyInv

\* Time, wakers and the executor's own steps leave the timer queue, the driver
\* and the alarm alone.
driverVars == <<tq, driver, step, next, alarm, armedFor>>

\* What keeps the driver invariant when the queue and the alarm stay.
LEMMA DriverKept ==
    ASSUME NextFirst, AlarmRight, UNCHANGED driverVars
    PROVE  NextFirst' /\ AlarmRight'
BY DEF NextFirst, AlarmRight, driverVars

\* Time passes.
LEMMA TickInv == EmbassyInv /\ Tick => EmbassyInv'
<1> SUFFICES ASSUME EmbassyInv, Tick PROVE EmbassyInv'
  OBVIOUS
<1>1. NextFirst' /\ AlarmRight'
  BY DriverKept DEF EmbassyInv, Tick, driverVars
<1>2. TypeOK'
  BY Facts DEF EmbassyInv, Tick, TypeOK, Times
<1>3. Scheduling' /\ NoLostPoll'
  BY DEF EmbassyInv, Tick, Scheduling, NoLostPoll
<1> QED BY <1>1, <1>2, <1>3 DEF EmbassyInv

\* __pender, and a waker that queues a task before it calls __pender.
LEMMA WakersInv ==
    ASSUME EmbassyInv, Pender \/ \E t \in Tasks : Wake(t)
    PROVE  EmbassyInv'
<1>1. NextFirst' /\ AlarmRight'
  BY DriverKept DEF EmbassyInv, Pender, Wake, driverVars
<1>2. Scheduling'
  BY DEF EmbassyInv, Pender, Wake, Scheduling
<1>3. CASE Pender
  <2>1. TypeOK'
    BY <1>3 DEF EmbassyInv, Pender, TypeOK
  <2>2. NoLostPoll'
    BY <1>3 DEF Pender, Give, NoLostPoll
  <2> QED BY <1>1, <1>2, <2>1, <2>2 DEF EmbassyInv
<1>4. ASSUME NEW t \in Tasks, Wake(t) PROVE EmbassyInv'
  <2>1. /\ runq' = runq \cup NewlyQueued({t}) /\ pending \in Nat
        /\ pending' = IF CallsPender({t}) THEN pending + 1 ELSE pending
        /\ UNCHANGED <<now, sem, pc, cur, until, tq, driver, step>>
    BY <1>4 DEF EmbassyInv, TypeOK, Wake
  <2>2. TypeOK'
    BY <2>1 DEF EmbassyInv, TypeOK
  <2>3. NoLostPoll'
    <3>1. CASE CallsPender({t})
      BY <2>1, <3>1 DEF NoLostPoll
    <3>2. CASE ~CallsPender({t})
      BY <2>1, <3>2 DEF EmbassyInv, NoLostPoll, CallsPender
    <3> QED BY <3>1, <3>2
  <2> QED BY <1>1, <1>2, <2>2, <2>3 DEF EmbassyInv
<1> QED BY <1>3, <1>4

\* Executor::run, outside the driver.
LEMMA ExecutorInv ==
    ASSUME EmbassyInv,
           Take \/ Dequeue \/ PollReturns \/ \E t \in Tasks : Nap(t) \/ Resume(t)
    PROVE  EmbassyInv'
<1>1. NextFirst' /\ AlarmRight'
  BY DriverKept DEF EmbassyInv, Take, Dequeue, PollReturns, Nap, Resume, driverVars
<1>2. CASE Take
  BY <1>1, <1>2 DEF EmbassyInv, Take, TypeOK, Scheduling, NoLostPoll
<1>3. CASE Dequeue
  BY <1>1, <1>3 DEF EmbassyInv, Dequeue, TypeOK, Scheduling, NoLostPoll
<1>4. CASE PollReturns
  BY <1>1, <1>4 DEF EmbassyInv, PollReturns, TypeOK, Scheduling, NoLostPoll
<1>5. ASSUME NEW t \in Tasks, Nap(t) PROVE EmbassyInv'
  <2>1. \A at \in now..MaxNow : at \in Times
    BY Facts DEF EmbassyInv, TypeOK, Times
  <2>2. TypeOK' /\ Scheduling'
    BY <1>5, <2>1 DEF EmbassyInv, Nap, TypeOK, Scheduling
  <2>3. NoLostPoll'
    BY <1>5 DEF EmbassyInv, Nap, NoLostPoll
  <2> QED BY <1>1, <2>2, <2>3 DEF EmbassyInv
<1>6. ASSUME NEW t \in Tasks, Resume(t) PROVE EmbassyInv'
  <2>1. TypeOK' /\ Scheduling'
    BY <1>6 DEF EmbassyInv, Resume, TypeOK, Scheduling
  <2>2. NoLostPoll'
    BY <1>6 DEF EmbassyInv, Resume, NoLostPoll
  <2> QED BY <1>1, <2>1, <2>2 DEF EmbassyInv
<1> QED BY <1>2, <1>3, <1>4, <1>5, <1>6

\* The driver's critical section is entered: schedule_wake and timer_tick.
LEMMA ScheduleWakeInv == EmbassyInv /\ ScheduleWake => EmbassyInv'
<1> SUFFICES ASSUME EmbassyInv, ScheduleWake PROVE EmbassyInv'
  OBVIOUS
<1>1. /\ pc = "schedule" /\ driver = None
      /\ cur \in Tasks /\ until[cur] \in Times
  BY DEF ScheduleWake, EmbassyInv, Scheduling
<1>2. CASE Sooner(cur, until[cur])
  <2>1. /\ tq' = Put(tq, cur, until[cur]) /\ driver' = "task" /\ step' = "expire"
        /\ pc' = "scheduling"
        /\ UNCHANGED <<now, sem, runq, batch, cur, until, naps, next, alarm,
                       armedFor, pending>>
    BY <1>2 DEF ScheduleWake
  <2>2. DOMAIN tq' = DOMAIN tq \cup {cur} /\ \A t \in DOMAIN tq' : tq'[t] \in Times
    BY <1>1, <2>1 DEF Put, EmbassyInv, TypeOK
  <2>3. TypeOK'
    BY <1>1, <2>1, <2>2 DEF EmbassyInv, TypeOK
  <2>4. Scheduling' /\ NextFirst' /\ NoLostPoll' /\ AlarmRight'
    BY <1>1, <2>1, Facts
       DEF EmbassyInv, Scheduling, NextFirst, NoLostPoll, AlarmRight
  <2> QED BY <2>3, <2>4 DEF EmbassyInv
<1>3. CASE ~Sooner(cur, until[cur])
  <2>1. pc' = "run" /\ UNCHANGED driverVars
        /\ UNCHANGED <<now, sem, runq, cur, until, pending>>
    BY <1>3 DEF ScheduleWake, driverVars
  <2>2. TypeOK' /\ Scheduling'
    BY <1>1, <2>1, Facts DEF EmbassyInv, TypeOK, Scheduling, driverVars
  <2>3. NoLostPoll'
    BY <1>1, <2>1 DEF EmbassyInv, NoLostPoll
  <2> QED BY <2>1, <2>2, <2>3, DriverKept DEF EmbassyInv
<1> QED BY <1>2, <1>3

\* The alarm fires and its interrupt begins.
LEMMA TimerTickInv == EmbassyInv /\ TimerTick => EmbassyInv'
BY Facts DEF EmbassyInv, TimerTick, TypeOK, Scheduling, NextFirst, NoLostPoll, AlarmRight

\* next_expiration leaves the times that are still to come, and wakes the rest.
LEMMA ExpireInv == EmbassyInv /\ Expire => EmbassyInv'
<1> SUFFICES ASSUME EmbassyInv, Expire PROVE EmbassyInv'
  OBVIOUS
<1> DEFINE due == {t \in DOMAIN tq : tq[t] <= now}
           left == DOMAIN tq \ due
           S == {UMax} \cup {tq[t] : t \in left}
<1>1. /\ driver # None /\ tq' = [t \in left |-> tq[t]] /\ next' = Min(S)
      /\ runq' = runq \cup NewlyQueued(due)
      /\ IF CallsPender(due) THEN Give ELSE UNCHANGED sem
      /\ step' = "arm"
      /\ UNCHANGED <<now, pc, cur, until, driver, alarm, armedFor, pending>>
  BY DEF Expire
<1>2. S \in SUBSET Nat /\ S # {}
  BY Facts DEF EmbassyInv, TypeOK, Times
<1>3. Min(S) \in S /\ \A y \in S : Min(S) <= y
  BY <1>2, LeastOf
<1>4. TypeOK'
  BY <1>1 DEF EmbassyInv, TypeOK
<1>5. NextFirst'
  BY <1>1, <1>3 DEF EmbassyInv, TypeOK, NextFirst
<1>6. NoLostPoll'
  BY <1>1 DEF EmbassyInv, NoLostPoll, CallsPender, Give
<1>7. Scheduling' /\ AlarmRight'
  BY <1>1 DEF EmbassyInv, Scheduling, AlarmRight
<1> QED BY <1>4, <1>5, <1>6, <1>7 DEF EmbassyInv

\* set_alarm: the first time in the queue is the one the timer fires at.
LEMMA ArmInv == EmbassyInv /\ Arm => EmbassyInv'
<1> SUFFICES ASSUME EmbassyInv, Arm PROVE EmbassyInv'
  OBVIOUS
<1>1. /\ driver # None /\ step = "arm"
      /\ UNCHANGED <<now, sem, runq, cur, until, tq, next, pending>>
  BY DEF Arm
<1>2. /\ next \in Times \cup {UMax} /\ now \in Times
      /\ \A t \in DOMAIN tq : tq[t] \in Times /\ next <= tq[t]
  BY <1>1 DEF EmbassyInv, NextFirst, TypeOK
<1>3. CASE next <= now
  <2>1. step' = "expire" /\ UNCHANGED <<alarm, armedFor, driver, pc>>
    BY <1>2, <1>3, Facts DEF Arm, Times
  <2> QED BY <1>1, <2>1
          DEF EmbassyInv, TypeOK, Scheduling, NextFirst, NoLostPoll, AlarmRight
<1>4. CASE next > now
  <2>1. /\ alarm' = FiresAt(Delta(next)) /\ armedFor' = next /\ driver' = None
        /\ pc' = IF driver = "task" THEN "run" ELSE pc
        /\ step' = step
    BY <1>2, <1>4, Facts DEF Arm, Leave, Times
  <2>2. TypeOK'
    BY <1>1, <2>1 DEF EmbassyInv, TypeOK
  <2>3. Scheduling' /\ NextFirst'
    BY <1>1, <2>1, Facts DEF EmbassyInv, Scheduling, NextFirst
  <2>4. NoLostPoll'
    BY <1>1, <2>1 DEF EmbassyInv, NoLostPoll, Scheduling
  <2>5. CASE next = UMax
    <3>1. DOMAIN tq = {}
      <4> SUFFICES ASSUME NEW t \in DOMAIN tq PROVE FALSE
        OBVIOUS
      <4>1. tq[t] \in Times /\ UMax <= tq[t]
        BY <1>2, <2>5
      <4> QED BY <4>1, Facts DEF Times
    <3> QED BY <1>1, <2>1, <2>2, <2>3, <2>4, <2>5, <3>1 DEF EmbassyInv, AlarmRight
  <2>6. CASE next \in Times
    <3>1. alarm' = next
      BY <1>2, <1>4, <2>1, <2>6, FiresThen DEF Times
    <3>2. AlarmRight'
      BY <1>1, <1>2, <2>1, <2>6, <3>1, Facts DEF AlarmRight, Times
    <3> QED BY <2>2, <2>3, <2>4, <3>2 DEF EmbassyInv
  <2> QED BY <1>2, <2>5, <2>6
<1> QED BY <1>2, <1>3, <1>4, Facts DEF Times

\* Every step preserves the invariant.
LEMMA NextInv == EmbassyInv /\ [Next]_vars => EmbassyInv'
<1> SUFFICES ASSUME EmbassyInv, [Next]_vars PROVE EmbassyInv'
  OBVIOUS
<1>1. CASE ExecutorStep
  BY <1>1, ExecutorInv, ScheduleWakeInv DEF ExecutorStep
<1>2. CASE DriverStep
  BY <1>2, ExpireInv, ArmInv DEF DriverStep
<1>3. CASE TimerTick \/ Tick \/ Pender \/ \E t \in Tasks : Wake(t)
  BY <1>3, TimerTickInv, TickInv, WakersInv
<1>4. CASE UNCHANGED vars
  BY <1>4 DEF vars, EmbassyInv, TypeOK, Scheduling, NextFirst, NoLostPoll, AlarmRight
<1> QED BY <1>1, <1>2, <1>3, <1>4 DEF Next

-----------------------------------------------------------------------------
\* No wake is lost between the executor's take and its poll, whoever wakes and
\* whenever: the executor does not sleep on a nonempty run queue.
THEOREM PollNotLost == Spec => []NoLostPoll
<1>1. EmbassyInv => NoLostPoll
  BY DEF EmbassyInv
<1> QED BY <1>1, InitInv, NextInv, PTL DEF Spec

\* The timer fires by the first time in the timer queue and not before the time
\* it was set for, though time passes between the steps of the driver and the
\* ticks are converted modulo the width of the counter.
THEOREM AlarmsRight == Spec => []AlarmRight
<1>1. EmbassyInv => AlarmRight
  BY DEF EmbassyInv
<1> QED BY <1>1, InitInv, NextInv, PTL DEF Spec
=============================================================================
