---------------------------- MODULE Timer_proofs ----------------------------
(***************************************************************************)
(* Proofs about KernelObject and about Timer, which takes its static timer *)
(* from it, for any sets of threads, addresses and timers.                 *)
(***************************************************************************)
EXTENDS Timer, TLAPS

-----------------------------------------------------------------------------
(* ZephyrObject::get.                                                      *)

GetPC == {"out", "slow", "reload", "init", "store", "use", "moved"}

GetTypeOK ==
    /\ state \in Addrs \cup {Unset}
    /\ addr \in Addrs
    /\ inits \in Nat
    /\ ready \in BOOLEAN
    /\ cs \in Getters \cup {Unset}
    /\ place \in [Getters -> GetPC]

\* The labels inside the critical section.
InCS == {"reload", "init", "store"}

\* One thread is in the critical section; the object is uninitialised until
\* its first visitor stores the address, and used nowhere but there.
GetInv ==
    /\ \A t \in Getters : place[t] \in InCS <=> cs = t
    /\ state = Unset /\ (\A t \in Getters : place[t] # "store") => inits = 0
    /\ \A t \in Getters : place[t] \in {"init", "store"} => state = Unset
    /\ \A t \in Getters : place[t] = "store" => inits = 1
    /\ state # Unset => inits = 1 /\ ready
    /\ \A t \in Getters : place[t] = "use" => state = addr

-----------------------------------------------------------------------------
(* StaticKernelObject::init_once.                                          *)

Given == {"wrap", "Some"}

OnceInv ==
    /\ once \in [Getters -> {"out", "wrap", "Some", "None"}]
    /\ init = "UNINITIALIZED" => \A t \in Getters : once[t] = "out"
    /\ init # "UNINITIALIZED" => \E t \in Getters : once[t] \in Given
    /\ \A t, u \in Getters : once[t] \in Given /\ once[u] \in Given => t = u

ObjectInv == GetTypeOK /\ GetInv /\ OnceInv

\* The invariant of kernel objects holds initially.
LEMMA ObjectInitInv == ObjectInit => ObjectInv
<1> SUFFICES ASSUME ObjectInit PROVE ObjectInv
  OBVIOUS
<1>1. GetTypeOK
  BY DEF ObjectInit, GetTypeOK, GetPC
<1>2. GetInv
  BY ObjectAssumption DEF ObjectInit, GetInv, InCS
<1>3. OnceInv
  BY DEF ObjectInit, OnceInv, Given
<1> QED BY <1>1, <1>2, <1>3 DEF ObjectInv

\* A step of get leaves init_once alone, and the other way round.
LEMMA GetStepInv ==
    ASSUME GetTypeOK, GetInv, NEW t \in Getters, GetStep(t)
    PROVE  GetTypeOK' /\ GetInv'
<1> USE ObjectAssumption DEF GetTypeOK, GetInv, GetPC, InCS
<1>1. CASE Load(t)
  BY <1>1 DEF Load, Decide
<1>2. CASE EnterCS(t)
  BY <1>2 DEF EnterCS
<1>3. CASE Reload(t)
  BY <1>3 DEF Reload, Decide
<1>4. CASE InitObject(t)
  BY <1>4 DEF InitObject
<1>5. CASE StoreState(t)
  BY <1>5 DEF StoreState
<1>6. CASE Return(t)
  BY <1>6 DEF Return
<1> QED BY <1>1, <1>2, <1>3, <1>4, <1>5, <1>6 DEF GetStep

\* The object moves while nobody borrows it.
LEMMA MoveInv ==
    ASSUME GetTypeOK, GetInv, NEW a \in Addrs, Move(a)
    PROVE  GetTypeOK' /\ GetInv'
BY ObjectAssumption DEF Move, GetTypeOK, GetInv, GetPC, InCS

\* The exchange on the state word is won by one caller.
LEMMA ClaimInv ==
    ASSUME OnceInv, NEW t \in Getters, ClaimOnce(t)
    PROVE  OnceInv'
BY DEF ClaimOnce, OnceInv, Given

\* The winner has its handle.
LEMMA WrapInv ==
    ASSUME OnceInv, NEW t \in Getters, Wrap(t)
    PROVE  OnceInv'
BY DEF Wrap, OnceInv, Given

\* Every step preserves the invariant of kernel objects.
LEMMA ObjectNextInv == ObjectInv /\ [ObjectNext]_objectVars => ObjectInv'
<1> SUFFICES ASSUME ObjectInv, [ObjectNext]_objectVars PROVE ObjectInv'
  OBVIOUS
<1>1. ASSUME NEW t \in Getters, GetStep(t) PROVE ObjectInv'
  <2>1. GetTypeOK' /\ GetInv'
    BY <1>1, GetStepInv DEF ObjectInv
  <2>2. UNCHANGED onceVars
    BY <1>1 DEF GetStep, Load, EnterCS, Reload, InitObject, StoreState, Return
  <2> QED BY <2>1, <2>2 DEF ObjectInv, OnceInv, onceVars
<1>2. ASSUME NEW t \in Getters, ClaimOnce(t) \/ Wrap(t) PROVE ObjectInv'
  <2>1. OnceInv'
    BY <1>2, ClaimInv, WrapInv DEF ObjectInv
  <2>2. UNCHANGED getVars
    BY <1>2 DEF ClaimOnce, Wrap
  <2> QED BY <2>1, <2>2 DEF ObjectInv, GetTypeOK, GetInv, getVars
<1>3. ASSUME NEW a \in Addrs, Move(a) PROVE ObjectInv'
  <2>1. GetTypeOK' /\ GetInv'
    BY <1>3, MoveInv DEF ObjectInv
  <2>2. UNCHANGED onceVars
    BY <1>3 DEF Move
  <2> QED BY <2>1, <2>2 DEF ObjectInv, OnceInv, onceVars
<1>4. CASE UNCHANGED objectVars
  BY <1>4 DEF objectVars, ObjectInv, GetTypeOK, GetInv, OnceInv
<1> QED BY <1>1, <1>2, <1>3, <1>4 DEF ObjectNext

\* The invariant of kernel objects holds throughout.
LEMMA ObjectInvariant == ObjectSpec => []ObjectInv
BY ObjectInitInv, ObjectNextInv, PTL DEF ObjectSpec

\* The invariant says that no object is initialised twice.
LEMMA OnlyOnceHolds == ObjectInv => OnlyOnce
<1> SUFFICES ASSUME ObjectInv PROVE OnlyOnce
  OBVIOUS
<1>1. inits <= 1
  BY ObjectAssumption DEF ObjectInv, GetTypeOK, GetInv
<1>2. \A t \in Getters : place[t] = "use" => ready /\ state = addr
  BY ObjectAssumption DEF ObjectInv, GetTypeOK, GetInv
<1>3. \A t, u \in Getters :
        once[t] \in {"wrap", "Some"} /\ once[u] \in {"wrap", "Some"} => t = u
  BY DEF ObjectInv, OnceInv, Given
<1>4. \A t \in Getters :
        once[t] = "None" => \E u \in Getters : once[u] \in {"wrap", "Some"}
  BY DEF ObjectInv, OnceInv, Given
<1> QED BY <1>1, <1>2, <1>3, <1>4 DEF OnlyOnce

\* init runs once, get returns an initialised object that has not moved, and
\* init_once hands out one instance, for any number of racing threads.
THEOREM InitializedOnce == ObjectSpec => []OnlyOnce
BY OnlyOnceHolds, ObjectInvariant, PTL

-----------------------------------------------------------------------------
(* The timers.                                                             *)

\* Every step of the timers uses the object it comes from through its own
\* operations, or leaves it alone.
LEMMA TimerUsesObject == TimerNext => [ObjectNext]_objectVars
<1> SUFFICES ASSUME TimerNext PROVE [ObjectNext]_objectVars
  OBVIOUS
<1>1. ASSUME NEW u \in Getters, GetStep(u) \/ ClaimOnce(u) PROVE [ObjectNext]_objectVars
  BY <1>1 DEF ObjectNext
<1>2. ASSUME NEW a \in Addrs, Move(a) PROVE [ObjectNext]_objectVars
  BY <1>2 DEF ObjectNext
<1>3. ASSUME NEW u \in Getters, GetWrapped(u) PROVE [ObjectNext]_objectVars
  BY <1>3 DEF ObjectNext, GetWrapped
<1>4. ASSUME NEW t \in Timers, TimerStep(t) PROVE UNCHANGED objectVars
  BY <1>4 DEF TimerStep, New, DropStopped, StartSimple, ReadCount,
     ReadCountWait, WaitReturns, Restart, CallbackNew, UserDataSet,
     StartCallback, CallbackStop, SimpleRawStop, Unhook, Expire
<1>5. CASE TimerExpiry
  BY <1>5 DEF TimerExpiry
<1> QED BY <1>1, <1>2, <1>3, <1>4, <1>5 DEF TimerNext

\* With the timers in the system the object keeps its promises.
LEMMA TimerObject == TimerSpec => []ObjectInv
<1>1. TimerInit => ObjectInv
  BY ObjectInitInv DEF TimerInit
<1>2. ObjectInv /\ [TimerNext]_allVars => ObjectInv'
  BY ObjectNextInv, TimerUsesObject DEF allVars
<1> QED BY <1>1, <1>2, PTL DEF TimerSpec

\* init_once hands the static timer out once, whatever happens to it later.
THEOREM TimerInitializedOnce == TimerSpec => []OnlyOnce
<1>1. ObjectInv => OnlyOnce
  BY OnlyOnceHolds
<1> QED BY <1>1, TimerObject, PTL

Running == {"SimpleTimer", "read_count_wait", "CallbackTimer"}

TimerAt == {"none", "lost", "StoppedTimer", "user_data_set", "start", "unhook"}
               \cup Running

KTimer == [queued : {"no", "once", "periodic"}, status : Nat,
           expiry_fn : BOOLEAN, user_data : Boxes \cup {NULL}]

TimerTypeOK ==
    /\ held \in [Timers -> TimerAt]
    /\ ktimer \in [Timers -> KTimer]
    /\ box \in [Timers -> Boxes \cup {NULL}]
    /\ expiring \in Timers \cup {Unset}

\* Where the owner of a timer is says what the kernel has of it.
OwnerInv ==
    \A t \in Timers :
        /\ ktimer[t].queued # "no" => held[t] \in Running
        /\ held[t] \in {"user_data_set", "start", "CallbackTimer"} => box[t] \in Boxes
        /\ held[t] \in {"start", "CallbackTimer"} => ktimer[t].user_data = box[t]
        /\ ktimer[t].expiry_fn =>
              held[t] \in {"user_data_set", "start", "CallbackTimer", "unhook"}

\* Nobody has the static timer before init_once gives it out.
StaticInv ==
    held[Static] # "none" =>
        init # "UNINITIALIZED" /\ \A u \in Getters : once[u] # "wrap"

IrqInv == expiring # Unset => held[expiring] = "CallbackTimer"

TimerInv == TimerTypeOK /\ OwnerInv /\ StaticInv

\* The invariants of timers hold initially.
LEMMA TimerInitInv == TimerInit => TimerInv /\ IrqInv
<1> SUFFICES ASSUME TimerInit PROVE TimerInv /\ IrqInv
  OBVIOUS
<1>1. Fresh \in KTimer
  BY DEF Fresh, KTimer, NULL
<1>2. TimerTypeOK
  BY <1>1 DEF TimerInit, TimerTypeOK, TimerAt
<1>3. OwnerInv
  BY DEF TimerInit, OwnerInv, Fresh
<1>4. StaticInv /\ IrqInv
  BY DEF TimerInit, StaticInv, IrqInv, Timers
<1> QED BY <1>2, <1>3, <1>4 DEF TimerInv

\* The static timer is handed out.
LEMMA GetWrappedInv ==
    ASSUME TimerInv, OnceInv, NEW u \in Getters, GetWrapped(u)
    PROVE  /\ TimerInv'
           /\ IrqInv => IrqInv'
<1> USE DEF GetWrapped, Wrap, Goes
<1>0. Static \in Timers /\ held[Static] = "none"
  BY DEF Timers, TimerInv, StaticInv
<1>1. Fresh \in KTimer
  BY DEF Fresh, KTimer, NULL
<1>2. TimerTypeOK'
  BY <1>0, <1>1 DEF TimerInv, TimerTypeOK, TimerAt
<1>3. OwnerInv'
  BY <1>0 DEF TimerInv, TimerTypeOK, OwnerInv, Fresh
<1>4. StaticInv'
  BY <1>0 DEF TimerInv, TimerTypeOK, StaticInv, OnceInv, Given
<1>5. IrqInv => IrqInv'
  BY <1>0 DEF TimerInv, TimerTypeOK, IrqInv
<1> QED BY <1>2, <1>3, <1>4, <1>5 DEF TimerInv

\* k_timer_start queues the timer and leaves its expiry function and data.
LEMMA KTimerStarts ==
    ASSUME TimerTypeOK, NEW t \in Timers, KTimerStart(t)
    PROVE  /\ ktimer' \in [Timers -> KTimer]
           /\ \A u \in Timers :
                 /\ u # t => ktimer'[u] = ktimer[u]
                 /\ ktimer'[u].user_data = ktimer[u].user_data
                 /\ ktimer'[u].expiry_fn = ktimer[u].expiry_fn
<1>1. PICK q \in {"once", "periodic"} :
        ktimer' = [ktimer EXCEPT ![t].queued = q, ![t].status = 0]
  BY DEF KTimerStart
<1>2. ktimer' = [ktimer EXCEPT ![t] = [ktimer[t] EXCEPT !.queued = q, !.status = 0]]
  BY <1>1 DEF TimerTypeOK, KTimer
<1>3. ktimer[t] \in KTimer
  BY DEF TimerTypeOK
<1>4. /\ [ktimer[t] EXCEPT !.queued = q, !.status = 0] \in KTimer
      /\ [ktimer[t] EXCEPT !.queued = q, !.status = 0].user_data = ktimer[t].user_data
      /\ [ktimer[t] EXCEPT !.queued = q, !.status = 0].expiry_fn = ktimer[t].expiry_fn
  BY <1>3 DEF KTimer
<1> QED BY <1>2, <1>4 DEF TimerTypeOK

\* One step of a timer's owner, or its expiry.
LEMMA TimerStepInv ==
    ASSUME TimerInv, NEW t \in Timers, TimerStep(t)
    PROVE  TimerInv'
<1>1. TimerTypeOK' /\ OwnerInv'
  <2> USE DEF TimerInv, TimerTypeOK, OwnerInv, TimerAt, Running, KTimer, Boxes,
              NULL, At, Goes
  <2>1. CASE New(t)
    BY <2>1 DEF New, Fresh
  <2>2. CASE DropStopped(t)
    BY <2>2 DEF DropStopped, Dropped
  <2>3. CASE StartSimple(t)
    BY <2>3, KTimerStarts DEF StartSimple
  <2>4. CASE ReadCount(t)
    BY <2>4 DEF ReadCount
  <2>5. CASE ReadCountWait(t)
    BY <2>5 DEF ReadCountWait
  <2>6. CASE WaitReturns(t)
    BY <2>6 DEF WaitReturns
  <2>7. CASE Restart(t)
    BY <2>7, KTimerStarts DEF Restart
  <2>8. CASE CallbackNew(t)
    <3>1. PICK b \in Boxes : box' = [box EXCEPT ![t] = b]
      BY <2>8 DEF CallbackNew
    <3>2. TimerTypeOK'
      <4>1. held' \in [Timers -> TimerAt] /\ expiring' \in Timers \cup {Unset}
        BY <2>8 DEF CallbackNew
      <4>2. box' \in [Timers -> Boxes \cup {NULL}]
        BY <3>1
      <4>3. [ktimer[t] EXCEPT !.expiry_fn = TRUE] \in KTimer
        <5>1. ktimer[t] \in KTimer
          OBVIOUS
        <5> QED BY ONLY <5>1 DEF KTimer
      <4>4. ktimer' \in [Timers -> KTimer]
        BY <2>8, <4>3 DEF CallbackNew
      <4> QED BY <4>1, <4>2, <4>4
    <3>3. OwnerInv'
      BY <2>8, <3>1 DEF CallbackNew
    <3> QED BY <3>2, <3>3
  <2>9. CASE UserDataSet(t)
    BY <2>9 DEF UserDataSet
  <2>10. CASE StartCallback(t)
    BY <2>10, KTimerStarts DEF StartCallback
  <2>11. CASE CallbackStop(t)
    BY <2>11 DEF CallbackStop
  <2>12. ASSUME NEW next \in {"StoppedTimer", Dropped(t)}, SimpleRawStop(t, next)
         PROVE  TimerTypeOK' /\ OwnerInv'
    BY <2>12 DEF SimpleRawStop, Dropped
  <2>13. ASSUME NEW next \in {"StoppedTimer", Dropped(t)}, Unhook(t, next)
         PROVE  TimerTypeOK' /\ OwnerInv'
    <3>1. TimerTypeOK'
      <4>1. held' \in [Timers -> TimerAt] /\ expiring' \in Timers \cup {Unset}
        BY <2>13 DEF Unhook, Dropped
      <4>2. box' \in [Timers -> Boxes \cup {NULL}]
        BY <2>13 DEF Unhook
      <4>3. [ktimer[t] EXCEPT !.expiry_fn = FALSE] \in KTimer
        <5>1. ktimer[t] \in KTimer
          OBVIOUS
        <5> QED BY ONLY <5>1 DEF KTimer
      <4>4. ktimer' \in [Timers -> KTimer]
        BY <2>13, <4>3 DEF Unhook
      <4> QED BY <4>1, <4>2, <4>4
    <3>2. OwnerInv'
      BY <2>13 DEF Unhook, Dropped
    <3> QED BY <3>1, <3>2
  <2>14. CASE Expire(t)
    <3>1. TimerTypeOK'
      <4>1. expiring' \in Timers \cup {Unset}
        BY <2>14 DEF Expire
      <4>2. [ktimer[t] EXCEPT !.status = @ + 1,
                              !.queued = IF @ = "once" THEN "no" ELSE @] \in KTimer
        <5>1. ktimer[t] \in KTimer
          OBVIOUS
        <5>2. ktimer[t].queued \in {"no", "once", "periodic"}
          BY <5>1
        <5>3. ktimer[t].status + 1 \in Nat
          BY <5>1
        <5> QED BY <5>1, <5>2, <5>3
      <4>3. ktimer' \in [Timers -> KTimer]
        BY <2>14, <4>2 DEF Expire
      <4> QED BY <2>14, <4>1, <4>3 DEF Expire
    <3>2. OwnerInv'
      BY <2>14 DEF Expire
    <3> QED BY <3>1, <3>2
  <2> QED BY <2>1, <2>2, <2>3, <2>4, <2>5, <2>6, <2>7, <2>8, <2>9, <2>10,
             <2>11, <2>12, <2>13, <2>14 DEF TimerStep
<1>2. UNCHANGED objectVars
  BY DEF TimerStep, New, DropStopped, StartSimple, ReadCount,
     ReadCountWait, WaitReturns, Restart, CallbackNew, UserDataSet,
     StartCallback, CallbackStop, SimpleRawStop, Unhook, Expire
<1>3. held[Static] = "none" => held'[Static] = "none"
  <2> SUFFICES ASSUME held[Static] = "none" PROVE held'[Static] = "none"
    OBVIOUS
  <2>1. CASE t = Static
    BY <2>1, TimerAssumption DEF TimerStep, New, DropStopped, StartSimple,
       ReadCount, ReadCountWait, WaitReturns, Restart, CallbackNew, UserDataSet,
       StartCallback, CallbackStop, SimpleRawStop, Unhook, Expire, At
  <2>2. CASE t # Static
    <3>1. held' = held \/ \E label : held' = [held EXCEPT ![t] = label]
      BY DEF TimerStep, New, DropStopped, StartSimple, ReadCount,
         ReadCountWait, WaitReturns, Restart, CallbackNew, UserDataSet,
         StartCallback, CallbackStop, SimpleRawStop, Unhook, Expire, Goes
    <3> QED BY <2>2, <3>1 DEF TimerInv, TimerTypeOK, Timers
  <2> QED BY <2>1, <2>2
<1> QED BY <1>1, <1>2, <1>3 DEF TimerInv, StaticInv, objectVars

\* Every step preserves the invariant of timers.
LEMMA TimerNextInv == TimerInv /\ ObjectInv /\ [TimerNext]_allVars => TimerInv'
<1> SUFFICES ASSUME TimerInv, ObjectInv, [TimerNext]_allVars PROVE TimerInv'
  OBVIOUS
<1>1. ASSUME NEW u \in Getters, GetStep(u), UNCHANGED timerVars PROVE TimerInv'
  <2>1. UNCHANGED onceVars
    BY <1>1 DEF GetStep, Load, EnterCS, Reload, InitObject, StoreState, Return
  <2> QED BY <1>1, <2>1 DEF timerVars, onceVars, TimerInv, TimerTypeOK,
             OwnerInv, StaticInv
<1>2. ASSUME NEW u \in Getters, ClaimOnce(u), UNCHANGED timerVars PROVE TimerInv'
  <2>1. StaticInv'
    BY <1>2 DEF timerVars, ClaimOnce, TimerInv, StaticInv, ObjectInv, OnceInv
  <2> QED BY <1>2, <2>1 DEF timerVars, TimerInv, TimerTypeOK, OwnerInv
<1>3. ASSUME NEW a \in Addrs, Move(a), UNCHANGED timerVars PROVE TimerInv'
  BY <1>3 DEF Move, timerVars, onceVars, TimerInv, TimerTypeOK, OwnerInv,
     StaticInv
<1>4. ASSUME NEW u \in Getters, GetWrapped(u) PROVE TimerInv'
  BY <1>4, GetWrappedInv DEF ObjectInv
<1>5. ASSUME NEW t \in Timers, TimerStep(t) PROVE TimerInv'
  BY <1>5, TimerStepInv
<1>6. CASE TimerExpiry
  BY <1>6 DEF TimerExpiry, objectVars, TimerInv, TimerTypeOK, OwnerInv, StaticInv
<1>7. CASE UNCHANGED allVars
  BY <1>7 DEF allVars, objectVars, timerVars, TimerInv, TimerTypeOK, OwnerInv,
     StaticInv
<1> QED BY <1>1, <1>2, <1>3, <1>4, <1>5, <1>6, <1>7 DEF TimerNext

\* The invariant of timers holds throughout.
LEMMA TimerInvariant == TimerSpec => []TimerInv
<1>1. TimerInit => TimerInv
  BY TimerInitInv
<1> QED BY <1>1, TimerNextInv, TimerObject, PTL DEF TimerSpec

\* The kernel's queue holds no stopped, dropped or freed timer: raw_stop comes
\* before the type changes on every path, on one processor and on several.
THEOREM QueueHoldsRunning == TimerSpec => []OnlyRunningQueued
<1>1. TimerInv => OnlyRunningQueued
  BY DEF TimerInv, OwnerInv, Running, OnlyRunningQueued
<1> QED BY <1>1, TimerInvariant, PTL

-----------------------------------------------------------------------------
(* The callback, on one processor.  With Smp the interrupt may be about to *)
(* call timer_expiry while stop runs beside it, and OwnCallback is false.  *)

\* On one processor every step preserves what the interrupt relies on.
LEMMA IrqNext ==
    ASSUME ~TimerSmp
    PROVE  IrqInv /\ TimerInv /\ ObjectInv /\ [TimerNext]_allVars => IrqInv'
<1> SUFFICES ASSUME IrqInv, TimerInv, ObjectInv, [TimerNext]_allVars
             PROVE  IrqInv'
  OBVIOUS
<1>1. ASSUME NEW u \in Getters, GetWrapped(u) PROVE IrqInv'
  BY <1>1, GetWrappedInv DEF ObjectInv
<1>2. ASSUME NEW t \in Timers, Expire(t) PROVE IrqInv'
  BY <1>2 DEF Expire, IrqInv, TimerInv, TimerTypeOK, OwnerInv, Running
<1>3. ASSUME NEW t \in Timers, TimerStep(t), ~Expire(t) PROVE IrqInv'
  <2>1. expiring = Unset /\ expiring' = expiring
    BY <1>3 DEF TimerStep, New, DropStopped, StartSimple, ReadCount,
       ReadCountWait, WaitReturns, Restart, CallbackNew, UserDataSet,
       StartCallback, CallbackStop, SimpleRawStop, Unhook, At
  <2> QED BY <2>1 DEF IrqInv
<1>4. CASE TimerExpiry
  BY <1>4 DEF TimerExpiry, IrqInv
<1>5. CASE UNCHANGED timerVars
  BY <1>5 DEF timerVars, IrqInv
<1> QED BY <1>1, <1>2, <1>3, <1>4, <1>5 DEF TimerNext, allVars

\* On one processor timer_expiry is always called with the Callback of the
\* CallbackTimer that has the timer, through any reuse of the k_timer.
THEOREM CallbackOwnership ==
    ASSUME ~TimerSmp
    PROVE  TimerSpec => []OwnCallback
<1>1. TimerInit => IrqInv
  BY TimerInitInv
<1>2. TimerSpec => []IrqInv
  BY <1>1, IrqNext, TimerInvariant, TimerObject, PTL DEF TimerSpec
<1>3. IrqInv /\ TimerInv => OwnCallback
  BY DEF IrqInv, TimerInv, TimerTypeOK, OwnerInv, OwnCallback, Boxes, NULL
<1> QED BY <1>2, <1>3, TimerInvariant, PTL
=============================================================================
