------------------------------- MODULE Timer -------------------------------
(***************************************************************************)
(* zephyr/src/timer.rs: the three types a k_timer goes through             *)
(* (StoppedTimer, SimpleTimer, CallbackTimer), against the expiry that the *)
(* kernel reports from the timer interrupt.  The timer Static is declared  *)
(* with kobj_define! and handed out by StaticKernelObject::init_once of    *)
(* KernelObject; the others are made by StoppedTimer::new.                 *)
(*                                                                         *)
(* A timer has one owner at a time, so its state says where its owner is.  *)
(* CallbackTimer::stop takes self out of its Pin and so needs unsafe code  *)
(* in the caller; it is modelled like the rest.                            *)
(***************************************************************************)
EXTENDS KernelObject

CONSTANTS
    Static,     \* the k_timer of the StaticStoppedTimer
    Heap,       \* the others
    MaxStatus,  \* bound on the expiry count
    TimerSmp         \* whether the interrupt may run beside a thread

ASSUME TimerAssumption ==
    /\ Static \notin Heap
    /\ Unset \notin Heap \cup {Static}
    /\ MaxStatus \in Nat \ {0}
    /\ TimerSmp \in BOOLEAN

VARIABLES
    held,      \* the Rust type that has the timer, or where its owner is
    ktimer,    \* the k_timer: queued, status, expiry_fn, user_data
    box,       \* the Callback of the live CallbackTimer, or 0
    expiring   \* the timer whose expiry_fn the interrupt is about to call

timerVars == <<held, ktimer, box, expiring>>
allVars == <<objectVars, timerVars>>

Timers == Heap \cup {Static}

\* Addresses of a Callback; two are enough for one that differs from the last.
Boxes == {1, 2}
NULL == 0

\* k_timer_init(item, None, None).
Fresh == [queued |-> "no", status |-> 0, expiry_fn |-> FALSE,
          user_data |-> NULL]

TimerInit ==
    /\ ObjectInit
    /\ held = [t \in Timers |-> "none"]
    /\ ktimer = [t \in Timers |-> Fresh]
    /\ box = [t \in Timers |-> NULL]
    /\ expiring = Unset

\* An owner's step: on one processor, not while the interrupt runs.
At(t, label) == held[t] = label /\ (TimerSmp \/ expiring = Unset)

Goes(t, label) == held' = [held EXCEPT ![t] = label]

\* k_timer_start, with a period or without; the count starts again at 0.
KTimerStart(t) ==
    \E q \in {"once", "periodic"} :
        ktimer' = [ktimer EXCEPT ![t].queued = q, ![t].status = 0]

-----------------------------------------------------------------------------
(* StoppedTimer.                                                           *)

New(t) ==
    /\ t \in Heap
    /\ At(t, "none")
    /\ ktimer' = [ktimer EXCEPT ![t] = Fresh]
    /\ Goes(t, "StoppedTimer")
    /\ UNCHANGED <<box, expiring, objectVars>>

\* init_once of the static timer: get_wrapped initialises the k_timer.
GetWrapped(u) ==
    /\ Wrap(u)
    /\ ktimer' = [ktimer EXCEPT ![Static] = Fresh]
    /\ Goes(Static, "StoppedTimer")
    /\ UNCHANGED <<box, expiring>>

\* Where a timer goes whose Fixed is dropped: an Owned one is freed, and the
\* memory may be used again; a Static one is not given out a second time.
Dropped(t) == IF t = Static THEN "lost" ELSE "none"

DropStopped(t) ==
    /\ At(t, "StoppedTimer")
    /\ Goes(t, Dropped(t))
    /\ UNCHANGED <<ktimer, box, expiring, objectVars>>

StartSimple(t) ==
    /\ At(t, "StoppedTimer")
    /\ KTimerStart(t)
    /\ Goes(t, "SimpleTimer")
    /\ UNCHANGED <<box, expiring, objectVars>>

-----------------------------------------------------------------------------
(* SimpleTimer.                                                            *)

\* k_timer_status_get: the count is read and reset.
ReadCount(t) ==
    /\ At(t, "SimpleTimer")
    /\ ktimer' = [ktimer EXCEPT ![t].status = 0]
    /\ UNCHANGED <<held, box, expiring, objectVars>>

\* k_timer_status_sync blocks while the count is 0 and the timer runs.
ReadCountWait(t) ==
    /\ At(t, "SimpleTimer")
    /\ ktimer[t].status = 0
    /\ ktimer[t].queued # "no"
    /\ Goes(t, "read_count_wait")
    /\ UNCHANGED <<ktimer, box, expiring, objectVars>>

WaitReturns(t) ==
    /\ At(t, "read_count_wait")
    /\ ktimer[t].status > 0
    /\ ktimer' = [ktimer EXCEPT ![t].status = 0]
    /\ Goes(t, "SimpleTimer")
    /\ UNCHANGED <<box, expiring, objectVars>>

Restart(t) ==
    /\ At(t, "SimpleTimer")
    /\ KTimerStart(t)
    /\ UNCHANGED <<held, box, expiring, objectVars>>

\* Mutant: the timer is given back without k_timer_stop.
SimpleRawStopForgets(t, next) ==
    /\ At(t, "SimpleTimer")
    /\ Goes(t, next)
    /\ UNCHANGED <<ktimer, box, expiring, objectVars>>

\* raw_stop, of stop (which gives the StoppedTimer back) and of drop.
SimpleRawStop(t, next) ==
    /\ At(t, "SimpleTimer")
    /\ ktimer' = [ktimer EXCEPT ![t].queued = "no"]
    /\ Goes(t, next)
    /\ UNCHANGED <<box, expiring, objectVars>>

-----------------------------------------------------------------------------
(* CallbackTimer.                                                          *)

\* Box::pin, and the store of the expiry function.
CallbackNew(t) ==
    /\ At(t, "StoppedTimer")
    /\ \E b \in Boxes \ {ktimer[t].user_data} : box' = [box EXCEPT ![t] = b]
    /\ ktimer' = [ktimer EXCEPT ![t].expiry_fn = TRUE]
    /\ Goes(t, "user_data_set")
    /\ UNCHANGED <<expiring, objectVars>>

UserDataSet(t) ==
    /\ At(t, "user_data_set")
    /\ ktimer' = [ktimer EXCEPT ![t].user_data = box[t]]
    /\ Goes(t, "start")
    /\ UNCHANGED <<box, expiring, objectVars>>

StartCallback(t) ==
    /\ At(t, "start")
    /\ KTimerStart(t)
    /\ Goes(t, "CallbackTimer")
    /\ UNCHANGED <<box, expiring, objectVars>>

\* raw_stop of stop or of drop: k_timer_stop.
CallbackStop(t) ==
    /\ At(t, "CallbackTimer")
    /\ ktimer' = [ktimer EXCEPT ![t].queued = "no"]
    /\ Goes(t, "unhook")
    /\ UNCHANGED <<box, expiring, objectVars>>

\* Mutant: the expiry function stays.
UnhookForgets(t, next) ==
    /\ At(t, "unhook")
    /\ box' = [box EXCEPT ![t] = NULL]
    /\ Goes(t, next)
    /\ UNCHANGED <<ktimer, expiring, objectVars>>

\* The expiry function is removed, then the CallbackTimer is gone: the
\* StoppedTimer is returned, or dropped with it.  user_data is left.
Unhook(t, next) ==
    /\ At(t, "unhook")
    /\ ktimer' = [ktimer EXCEPT ![t].expiry_fn = FALSE]
    /\ box' = [box EXCEPT ![t] = NULL]
    /\ Goes(t, next)
    /\ UNCHANGED <<expiring, objectVars>>

-----------------------------------------------------------------------------
(* The timer interrupt.                                                    *)

\* The kernel counts the expiry, queues a periodic timer again and calls
\* expiry_fn if there is one.
Expire(t) ==
    /\ expiring = Unset
    /\ ktimer[t].queued # "no"
    /\ ktimer[t].status < MaxStatus
    /\ ktimer' = [ktimer EXCEPT ![t].status = @ + 1,
                                ![t].queued = IF @ = "once" THEN "no" ELSE @]
    /\ expiring' = IF ktimer[t].expiry_fn THEN t ELSE Unset
    /\ UNCHANGED <<held, box, objectVars>>

\* timer_expiry reads user_data and calls the Callback, unless it is null.
TimerExpiry ==
    /\ expiring # Unset
    /\ expiring' = Unset
    /\ UNCHANGED <<held, ktimer, box, objectVars>>

-----------------------------------------------------------------------------
TimerStep(t) ==
    \/ New(t) \/ DropStopped(t) \/ StartSimple(t)
    \/ ReadCount(t) \/ ReadCountWait(t) \/ WaitReturns(t) \/ Restart(t)
    \/ CallbackNew(t) \/ UserDataSet(t) \/ StartCallback(t) \/ CallbackStop(t)
    \/ \E next \in {"StoppedTimer", Dropped(t)} :
          SimpleRawStop(t, next) \/ Unhook(t, next)
    \/ Expire(t)

TimerNext ==
    \/ \E u \in Getters : /\ GetStep(u) \/ ClaimOnce(u)
                          /\ UNCHANGED timerVars
    \/ \E a \in Addrs : Move(a) /\ UNCHANGED timerVars
    \/ \E u \in Getters : GetWrapped(u)
    \/ \E t \in Timers : TimerStep(t)
    \/ TimerExpiry

TimerSpec == TimerInit /\ [][TimerNext]_allVars

-----------------------------------------------------------------------------
(* Properties.                                                             *)

\* Whenever the interrupt calls timer_expiry, user_data is the Callback of the
\* live CallbackTimer that was started, never null and never the one an
\* earlier CallbackTimer on the same k_timer left behind.
OwnCallback ==
    expiring # Unset => /\ held[expiring] = "CallbackTimer"
                  /\ ktimer[expiring].user_data = box[expiring]
                  /\ box[expiring] # NULL

\* "Drop will call stop to ensure that the timer is unregistered before the
\* memory is returned": the kernel's queue holds only timers that a
\* SimpleTimer or a CallbackTimer has, never a freed or a stopped one.
OnlyRunningQueued ==
    \A t \in Timers :
        ktimer[t].queued # "no" =>
            held[t] \in {"SimpleTimer", "read_count_wait", "CallbackTimer"}
=============================================================================
