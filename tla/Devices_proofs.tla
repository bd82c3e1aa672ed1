--------------------------- MODULE Devices_proofs ---------------------------
(***************************************************************************)
(* Proofs about Gpio, for any pins, waits, repolls and drops under one     *)
(* executor on one processor, about I2cTarget with its SpinMutex, for any  *)
(* threads, busses and processors, and about Devicetree, for trees of any  *)
(* size and shape and properties of any length.                            *)
(*                                                                         *)
(* Devicetree has recursive functions.  That they exist, so that their     *)
(* equations may be used, is RecursionExists; what is proved by induction  *)
(* over the nodes is proved from the least node that it fails for, which   *)
(* LeastNat provides.                                                      *)
(***************************************************************************)
EXTENDS Gpio, I2cTarget, Devicetree, SequenceTheorems, FiniteSetTheorems,
        WellFoundedInduction, TLAPS

\* A nonempty set of natural numbers has a least element.
LEMMA LeastNat ==
    ASSUME NEW S \in SUBSET Nat, S # {}
    PROVE  \E x \in S : \A y \in S : x =< y
<1> DEFINE R == OpToRel(<, Nat)
<1>1. IsWellFoundedOn(R, Nat)
  BY NatLessThanWellFounded
<1>2. \A x, y \in Nat : y < x => <<y, x>> \in R
  BY DEF OpToRel
<1> HIDE DEF R
<1>3. PICK x \in S : \A y \in S : ~(<<y, x>> \in R)
  BY <1>1, WFMin
<1>4. ASSUME NEW y \in S PROVE x =< y
  <2>1. x \in Nat /\ y \in Nat
    OBVIOUS
  <2>2. ~(y < x)
    BY <1>2, <1>3, <2>1, Zenon
  <2> QED BY <2>1, <2>2
<1> QED BY <1>4

\* So Min is defined for every such set.
LEMMA MinOfNat ==
    ASSUME NEW S \in SUBSET Nat, S # {}
    PROVE  Min(S) \in S
BY LeastNat DEF Min

-----------------------------------------------------------------------------
(* Gpio.                                                                   *)

Resting == {"idle", "pending"}

FuturePC == Resting \cup {"fast_install", "install", "check", "register",
                          "read_mask", "write_mask", "configure", "recheck"}

GpioTypeOK ==
    /\ level \in [Pins -> {0, 1}]
    /\ interrupt \in [Pins -> {0, 1, None}]
    /\ installed \in BOOLEAN
    /\ pin_mask \in SUBSET Pins
    /\ fired \in SUBSET Pins
    /\ wakers \in SUBSET Pins
    /\ pc \in [Pins -> FuturePC]
    /\ wants \in [Pins -> {0, 1}]
    /\ mask \in [Pins -> SUBSET Pins]
    /\ woken \in SUBSET Pins
    /\ pins \in SUBSET Pins
    /\ isr \in {None, "disable", "unmask", "fired", "wake"}
    /\ isrMask \in SUBSET Pins

\* One poll at a time, and the handler's halves are not torn apart.
Serial ==
    /\ \A p, q \in Pins : pc[p] \notin Resting /\ pc[q] \notin Resting => p = q
    /\ isr = None <=> pins = {}
    /\ isr = "unmask" => isrMask = pin_mask
    /\ isr = "wake" => Lowest \in fired

\* The handler is at the pin, or has left its bit.
Caught(p) == p \in fired \/ p \in pins

\* What a poll has achieved for its pin, unless the pin is caught; the mask it
\* read still has every pin that is in pin_mask.
PollInv ==
    /\ installed \/ pin_mask = {}
    /\ \A p \in Pins :
          /\ pc[p] \in {"read_mask", "write_mask"} => p \in wakers \/ Caught(p)
          /\ pc[p] \in {"check", "register", "read_mask", "write_mask"} => installed
          /\ pc[p] = "write_mask" => pin_mask \subseteq mask[p]
          /\ pc[p] = "configure" => Caught(p) \/ (p \in wakers /\ p \in pin_mask)
          /\ pc[p] = "recheck" =>
                \/ interrupt[p] = wants[p] /\ p \in pin_mask /\ p \in wakers
                \/ Caught(p)

\* A sleeping task has a waker for the handler to find, or was woken.
SleepInv ==
    \A p \in Waiting : p \in wakers \/ (p \in woken /\ p \in fired)

GpioInv == GpioTypeOK /\ Serial /\ PollInv /\ NoMissedWake

\* The invariants of the port hold initially.
LEMMA GpioInitInv == Init => GpioInv /\ SleepInv
<1> SUFFICES ASSUME Init PROVE GpioInv /\ SleepInv
  OBVIOUS
<1>1. GpioTypeOK
  BY GpioAssumption DEF Init, GpioTypeOK, FuturePC, Resting
<1>2. Serial /\ PollInv
  BY GpioAssumption DEF Init, Serial, PollInv, Resting
<1>3. NoMissedWake /\ SleepInv
  BY DEF Init, NoMissedWake, SleepInv, Waiting
<1> QED BY <1>1, <1>2, <1>3 DEF GpioInv

\* The pin that fire looks at next is one of those that fired.
LEMMA LowestIn ==
    ASSUME GpioTypeOK, pins # {}
    PROVE  Lowest \in pins
BY GpioAssumption, MinOfNat DEF Lowest, GpioTypeOK

\* A step of a task: the handler does not run, and no other poll is under way.
LEMMA TaskInv ==
    ASSUME ~Threads, ~Smp, GpioInv, SleepInv, NEW p \in Pins,
           \/ Toggle(p) \/ Poll(p) \/ DropWait(p) \/ TaskStep(p)
           \/ \E l \in {0, 1} : Wait(p, l)
    PROVE  GpioInv' /\ SleepInv'
<1> USE GpioAssumption
    DEF GpioInv, GpioTypeOK, Serial, PollInv, SleepInv, NoMissedWake, Waiting,
        Caught, InHandler, Lowest, Resting, FuturePC, TaskRuns, controller, handler,
        future
<1>1. CASE Toggle(p)
  BY <1>1 DEF Toggle
<1>2. CASE Poll(p)
  BY <1>2 DEF Poll
<1>3. CASE DropWait(p)
  BY <1>3 DEF DropWait
<1>4. ASSUME NEW l \in {0, 1}, Wait(p, l) PROVE GpioInv' /\ SleepInv'
  BY <1>4 DEF Wait
<1>5. CASE FastInstall(p)
  BY <1>5 DEF FastInstall
<1>6. CASE Install(p)
  BY <1>6 DEF Install
<1>7. CASE HasFired(p, "check", "register")
  BY <1>7 DEF HasFired
<1>8. CASE Register(p)
  BY <1>8 DEF Register
<1>9. CASE ReadMask(p)
  BY <1>9 DEF ReadMask
<1>10. CASE WriteMask(p)
  BY <1>10 DEF WriteMask
<1>11. CASE Configure(p)
  BY <1>11 DEF Configure
<1>12. CASE HasFired(p, "recheck", "pending")
  BY <1>12 DEF HasFired
<1> QED BY <1>1, <1>2, <1>3, <1>4, <1>5, <1>6, <1>7, <1>8, <1>9, <1>10, <1>11,
           <1>12 DEF TaskStep

\* A step of callback_handler.
LEMMA HandlerInv ==
    ASSUME GpioInv, SleepInv, Handler
    PROVE  GpioInv' /\ SleepInv'
<1>0. pins # {} => Lowest \in pins
  BY LowestIn DEF GpioInv
<1> USE <1>0, GpioAssumption
    DEF GpioInv, GpioTypeOK, Serial, PollInv, SleepInv, NoMissedWake, Waiting,
        Caught, InHandler, Resting, FuturePC, controller, future
<1>1. CASE Fire
  BY <1>1 DEF Fire, Asserted
<1>2. CASE DisableInterrupt
  <2>1. GpioTypeOK'
    BY <1>2 DEF DisableInterrupt
  <2>2. Serial'
    BY <1>2 DEF DisableInterrupt, Lowest
  <2>3. PollInv'
    BY <1>2 DEF DisableInterrupt
  <2>4. NoMissedWake' /\ SleepInv'
    BY <1>2 DEF DisableInterrupt
  <2> QED BY <2>1, <2>2, <2>3, <2>4
<1>3. CASE Unmask
  <2>0. Lowest \in pins /\ pin_mask' = pin_mask \ {Lowest}
    BY <1>3 DEF Unmask
  <2>1. GpioTypeOK'
    BY <1>3 DEF Unmask
  <2>2. Serial'
    BY <1>3 DEF Unmask, Lowest
  <2>3. PollInv'
    BY <1>3, <2>0 DEF Unmask
  <2>4. NoMissedWake' /\ SleepInv'
    BY <1>3 DEF Unmask
  <2> QED BY <2>1, <2>2, <2>3, <2>4
<1>4. CASE SetFired
  <2>0. Lowest \in Pins
    BY <1>4 DEF SetFired
  <2>1. GpioTypeOK'
    BY <1>4, <2>0 DEF SetFired
  <2>2. Serial'
    BY <1>4 DEF SetFired, Lowest
  <2>3. PollInv'
    BY <1>4 DEF SetFired
  <2>4. NoMissedWake' /\ SleepInv'
    BY <1>4 DEF SetFired
  <2> QED BY <2>1, <2>2, <2>3, <2>4
<1>5. CASE WakeTask
  <2>0. Lowest \in Pins /\ pins' \in SUBSET Pins /\ wakers' \in SUBSET Pins
    BY <1>5 DEF WakeTask
  <2>t. woken' \in SUBSET Pins /\ isr' \in {None, "disable"}
    BY <1>5, <2>0 DEF WakeTask
  <2>1. GpioTypeOK'
    BY <1>5, <2>0, <2>t DEF WakeTask
  <2>2. Serial'
    BY <1>5 DEF WakeTask, Lowest
  <2>3. PollInv'
    <3>1. Lowest \in fired /\ fired' = fired /\ pins' = pins \ {Lowest}
      BY <1>5 DEF WakeTask
    <3>2. \A p \in Pins : /\ Caught(p) => Caught(p)'
                          /\ p \in wakers => p \in wakers' \/ Caught(p)'
      BY <1>5, <3>1 DEF WakeTask
    <3>3. UNCHANGED <<installed, interrupt, pin_mask, pc, wants, mask>>
      BY <1>5 DEF WakeTask, controller, future
    <3> HIDE DEF Caught
    <3> QED BY <3>2, <3>3
  <2>4. NoMissedWake' /\ SleepInv'
    BY <1>5 DEF WakeTask
  <2> QED BY <2>1, <2>2, <2>3, <2>4
<1> QED BY <1>1, <1>2, <1>3, <1>4, <1>5 DEF Handler

\* Under one executor on one processor no wake is missed, whatever the pins do,
\* whenever the interrupt comes and however futures are repolled and dropped.
THEOREM WakesNotMissed ==
    ASSUME ~Threads, ~Smp
    PROVE  Spec => []NoMissedWake
<1>1. GpioInv /\ SleepInv /\ [Next]_vars => GpioInv' /\ SleepInv'
  <2> SUFFICES ASSUME GpioInv, SleepInv, [Next]_vars PROVE GpioInv' /\ SleepInv'
    OBVIOUS
  <2>1. CASE Next
    BY <2>1, TaskInv, HandlerInv DEF Next
  <2>2. CASE UNCHANGED vars
    BY <2>2 DEF vars, GpioInv, GpioTypeOK, Serial, PollInv, SleepInv,
       NoMissedWake, Waiting, Caught, InHandler, Lowest
  <2> QED BY <2>1, <2>2
<1>2. GpioInv => NoMissedWake
  BY DEF GpioInv
<1> QED BY <1>1, <1>2, GpioInitInv, PTL DEF Spec

-----------------------------------------------------------------------------
(* I2cTarget.                                                              *)

\* A set without two different elements has one element at most.
LEMMA AtMostOne ==
    ASSUME NEW S, \A x, y \in S : x = y
    PROVE  Cardinality(S) <= 1
<1>1. CASE S = {}
  BY <1>1, FS_EmptySet
<1>2. CASE S # {}
  <2>1. PICK x \in S : S = {x}
    BY <1>2
  <2> QED BY <2>1, FS_Singleton
<1> QED BY <1>1, <1>2

I2cTypeOK ==
    /\ registered \in BOOLEAN
    /\ onBus \in SUBSET Users
    /\ at \in [Users -> {"out", "write", "link", "register", "handle", "restore",
                         "unregister", "clear"}]
    /\ spin \in [Users -> {"out", "enabled", "disabled"}]
    /\ masked \in SUBSET Users
    /\ irq \in [Users -> {"idle", "callback", "guard", "return"}]
    /\ cpu \in [Users -> Users \cup {Nobody}]

\* Who has claimed the flag, alone, and whether a bus has the target.
FlagInv ==
    /\ \A u, v \in Users : at[u] # "out" /\ at[v] # "out" => u = v
    /\ ~registered => onBus = {} /\ \A u \in Users : at[u] = "out"
    /\ registered => onBus # {} \/ \E u \in Users : at[u] # "out"
    /\ \A u \in Users :
          /\ at[u] \in {"write", "link", "register", "restore", "clear"} => onBus = {}
          /\ at[u] \in {"handle", "unregister"} => onBus = {u}
          /\ at[u] = "register" => cbs = "set"
    /\ \A a, b \in onBus : a = b
    /\ onBus # {} => cbs = "set"
    /\ \A b \in Users : irq[b] # "idle" => b \in onBus

\* Interrupts are disabled below a thread that spins or has a guard of its own,
\* and where an interrupt has come they were not.
SpinInv ==
    /\ \A u \in Users : spin[u] # "out" => u \in masked
    /\ \A u \in Users : holder = <<"thread", u>> => sent \/ u \in masked
    /\ \A b, u \in Users : cpu[b] = u => u \notin masked
    /\ \A b \in Users : irq[b] = "guard" => holder = <<"irq", b>>

I2cInv == I2cTypeOK /\ FlagInv /\ SpinInv

\* The invariant of the target holds initially.
LEMMA I2cInitInv == I2cInit => I2cInv
<1> SUFFICES ASSUME I2cInit PROVE I2cInv
  OBVIOUS
<1>1. I2cTypeOK
  BY DEF I2cInit, I2cTypeOK
<1>2. FlagInv
  BY DEF I2cInit, FlagInv
<1>3. SpinInv
  BY I2cAssumption DEF I2cInit, SpinInv
<1> QED BY <1>1, <1>2, <1>3 DEF I2cInv

\* register and unregister.
LEMMA RegisterInv ==
    ASSUME I2cInv, NEW u \in Users, RegisterStep(u)
    PROVE  I2cInv'
<1>0. UNCHANGED <<spinVars, irqVars>>
  BY DEF RegisterStep, Claim, WriteCallbacks, LinkCallbacks, DriverRegisters,
     DriverRefuses, RestoreFlag, Unregister, DriverUnregisters, UnregisterFails,
     ClearFlag, DropHandle, Moves
<1>1. SpinInv'
  BY <1>0 DEF I2cInv, SpinInv, spinVars, guardVars, irqVars
<1> USE <1>0 DEF I2cInv, I2cTypeOK, FlagInv, Moves, spinVars,
       guardVars, irqVars
<1>2. CASE Claim(u)
  BY <1>1, <1>2 DEF Claim
<1>3. CASE WriteCallbacks(u)
  BY <1>1, <1>3 DEF WriteCallbacks
<1>4. CASE LinkCallbacks(u)
  BY <1>1, <1>4 DEF LinkCallbacks
<1>5. CASE DriverRegisters(u)
  BY <1>1, <1>5 DEF DriverRegisters
<1>6. CASE DriverRefuses(u)
  BY <1>1, <1>6 DEF DriverRefuses
<1>7. CASE RestoreFlag(u)
  <2>1. at[u] = "restore" /\ at' = [at EXCEPT ![u] = "out"] /\ onBus = {}
    BY <1>7 DEF RestoreFlag
  <2>2. registered' = FALSE /\ UNCHANGED <<cbs, onBus>>
    BY <1>7 DEF RestoreFlag
  <2>3. \A v \in Users : at'[v] = "out"
    BY <2>1
  <2>4. I2cTypeOK'
    <3> HIDE DEF FlagInv
    <3> QED BY <2>1, <2>2
  <2>5. \A b \in Users : irq'[b] = "idle"
    BY <2>1
  <2>6. FlagInv'
    <3> HIDE DEF I2cInv
    <3> QED BY <2>1, <2>2, <2>3, <2>5
  <2> QED BY <1>1, <2>4, <2>6
<1>8. CASE Unregister(u)
  BY <1>1, <1>8 DEF Unregister
<1>9. CASE DriverUnregisters(u)
  BY <1>1, <1>9 DEF DriverUnregisters
<1>10. CASE UnregisterFails(u)
  BY <1>1, <1>10 DEF UnregisterFails
<1>11. CASE ClearFlag(u)
  BY <1>1, <1>11 DEF ClearFlag
<1>12. CASE DropHandle(u)
  BY <1>1, <1>12 DEF DropHandle
<1> QED BY <1>2, <1>3, <1>4, <1>5, <1>6, <1>7, <1>8, <1>9, <1>10, <1>11,
           <1>12 DEF RegisterStep

\* The lock, taken, sent and given back by threads.
LEMMA ThreadSpinInv ==
    ASSUME I2cInv, NEW u \in Users, GuardStep(u)
    PROVE  I2cInv'
<1>0. UNCHANGED <<flagVars, irqVars>>
  BY DEF GuardStep, SpinLock, SpinTryLock, SpinAcquire, SpinUnlock, SendGuard
<1>1. FlagInv'
  BY <1>0 DEF I2cInv, FlagInv, flagVars, irqVars
<1> USE <1>0, I2cAssumption DEF I2cInv, I2cTypeOK, SpinInv, Calls, Free, Runs,
        flagVars, guardVars, irqVars
<1>2. CASE SpinLock(u)
  BY <1>1, <1>2 DEF SpinLock, IrqKey
<1>3. CASE SpinTryLock(u)
  BY <1>1, <1>3 DEF SpinTryLock
<1>4. CASE SpinAcquire(u)
  BY <1>1, <1>4 DEF SpinAcquire
<1>5. CASE SpinUnlock(u)
  BY <1>1, <1>5 DEF SpinUnlock
<1>6. ASSUME NEW v \in Users, SendGuard(u, v) PROVE I2cInv'
  BY <1>1, <1>6 DEF SendGuard
<1> QED BY <1>2, <1>3, <1>4, <1>5, <1>6 DEF GuardStep

\* A callback begins on a processor whose interrupts are not disabled, and goes
\* on.
LEMMA CallbackInv ==
    ASSUME I2cInv, NEW b \in Users,
           CallbackStep(b) \/ \E u \in Users : Trampoline(b, u)
    PROVE  I2cInv'
<1>0. UNCHANGED <<flagVars, spin, masked, sent>>
  BY DEF CallbackStep, CallbackLock, CallbackUnlock, TrampolineReturns,
     Trampoline, spinVars, guardVars
<1> USE <1>0, I2cAssumption DEF I2cInv, I2cTypeOK, FlagInv, SpinInv, flagVars
<1>1. ASSUME NEW u \in Users, Trampoline(b, u) PROVE I2cInv'
  BY <1>1 DEF Trampoline, spinVars, guardVars
<1>2. CASE CallbackLock(b)
  BY <1>2 DEF CallbackLock
<1>3. CASE CallbackUnlock(b)
  BY <1>3 DEF CallbackUnlock
<1>4. CASE TrampolineReturns(b)
  BY <1>4 DEF TrampolineReturns, spinVars, guardVars
<1> QED BY <1>1, <1>2, <1>3, <1>4 DEF CallbackStep

\* The invariant of the target holds throughout.
LEMMA I2cInvariant == I2cSpec => []I2cInv
<1>1. I2cInv /\ [I2cNext]_i2cVars => I2cInv'
  <2> SUFFICES ASSUME I2cInv, [I2cNext]_i2cVars PROVE I2cInv'
    OBVIOUS
  <2>1. CASE I2cNext
    BY <2>1, RegisterInv, ThreadSpinInv, CallbackInv DEF I2cNext
  <2>2. CASE UNCHANGED i2cVars
    BY <2>2 DEF i2cVars, flagVars, spinVars, guardVars, irqVars, I2cInv, I2cTypeOK, FlagInv, SpinInv
  <2> QED BY <2>1, <2>2
<1> QED BY <1>1, I2cInitInv, PTL DEF I2cSpec

\* The claim of `registered` makes its owner the sole writer of the callbacks,
\* one bus at most has the target and then with all its callbacks, and the flag
\* says so: for any number of threads that race to register it anywhere.
THEOREM RegistrationSafe == I2cSpec => []RegistrationSound
<1>1. I2cInv => RegistrationSound
  <2> SUFFICES ASSUME I2cInv PROVE RegistrationSound
    OBVIOUS
  <2>1. Cardinality(Writers) <= 1
    <3>1. \A x, y \in Writers : x = y
      BY DEF I2cInv, FlagInv, Writers
    <3> QED BY <3>1, AtMostOne
  <2>2. Writers # {} => onBus = {} /\ \A b \in Users : irq[b] = "idle"
    BY DEF I2cInv, FlagInv, Writers
  <2>3. Cardinality(onBus) <= 1
    <3>1. \A x, y \in onBus : x = y
      BY DEF I2cInv, FlagInv
    <3> QED BY <3>1, AtMostOne
  <2>4. /\ onBus # {} => registered /\ cbs = "set"
        /\ registered => onBus # {} \/ \E u \in Users : at[u] # "out"
    BY DEF I2cInv, FlagInv
  <2> QED BY <2>1, <2>2, <2>3, <2>4 DEF RegistrationSound
<1> QED BY <1>1, I2cInvariant, PTL

\* No interrupt stops a thread with the guard of a SpinMutex that was not sent,
\* however threads lock, lock again, try, send and drop guards: what remains to
\* make it uninterruptible is that the guard is not Send.
THEOREM UnsentGuardMasks == I2cSpec => []UninterruptibleUnsent
<1>1. I2cInv => UninterruptibleUnsent
  BY DEF I2cInv, SpinInv, UninterruptibleUnsent, Uninterruptible, Runs
<1> QED BY <1>1, I2cInvariant, PTL

-----------------------------------------------------------------------------
(* Devicetree: the words of a property.                                    *)

WordsOK == words \in Seq(Word)

Complete(j) ==
    /\ j # 0 /\ words[j].gpio /\ words[j].cells >= 0
    /\ Cardinality(After(j)) >= words[j].cells
Argument(k) ==
    /\ words[k].number /\ Complete(Before(k))
    /\ k <= Before(k) + words[Before(k)].cells

\* The words up to the iterator that begin a token.
Heads == {k \in 1..iter : ~Argument(k)}
Args(k) == IF HasCells(k) THEN words[k].cells ELSE 0

\* What a word is.
LEMMA WordFacts ==
    ASSUME WordsOK, NEW k \in 1..Len(words)
    PROVE  /\ words[k].number \in BOOLEAN /\ words[k].gpio \in BOOLEAN
           /\ words[k].cells \in Int
           /\ words[k].gpio => ~words[k].number
<1>1. words[k] \in Word
  BY DEF WordsOK
<1>2. MaxCells \in Int
  BY DevicetreeAssumption
<1> DEFINE number == [number : {TRUE}, gpio : {FALSE}, cells : {-1}]
           node == [number : {FALSE}, gpio : {FALSE}, cells : {1}]
           port == [number : {FALSE}, gpio : {TRUE}, cells : -1..MaxCells]
<1>3. CASE words[k] \in number
  <2>1. words[k].number = TRUE /\ words[k].gpio = FALSE /\ words[k].cells = -1
    BY <1>3
  <2>2. words[k].cells \in Int
    BY <2>1
  <2> QED BY <2>1, <2>2, Zenon
<1>4. CASE words[k] \in node
  <2>1. words[k].number = FALSE /\ words[k].gpio = FALSE /\ words[k].cells = 1
    BY <1>4
  <2>2. words[k].cells \in Int
    BY <2>1
  <2> QED BY <2>1, <2>2, Zenon
<1>5. CASE words[k] \in port
  <2>1. words[k].cells \in -1..MaxCells
    BY <1>5
  <2>2. words[k].cells \in Int
    BY <1>2, <2>1
  <2> QED BY <1>5, <2>2
<1> QED BY <1>1, <1>3, <1>4, <1>5 DEF Word

\* The phandle before a number is the nearest one.
LEMMA BeforeFacts ==
    ASSUME WordsOK, NEW k \in 1..Len(words)
    PROVE  \/ Before(k) = 0 /\ \A j \in 1..k-1 : words[j].number
           \/ /\ Before(k) \in 1..k-1 /\ ~words[Before(k)].number
              /\ \A j \in Before(k)+1..k-1 : words[j].number
<1> DEFINE S == {j \in 1..k-1 : ~words[j].number}
<1>1. CASE S = {}
  BY <1>1 DEF Before
<1>2. CASE S # {}
  <2> DEFINE T == {k - j : j \in S}
  <2>1. T \in SUBSET Nat /\ T # {}
    BY <1>2
  <2>2. PICK t \in T : \A u \in T : t =< u
    BY <2>1, LeastNat
  <2>3. PICK j \in S : t = k - j
    BY <2>2
  <2>4. \A i \in S : i <= j
    <3> SUFFICES ASSUME NEW i \in S PROVE i <= j
      OBVIOUS
    <3>1. k - i \in T
      OBVIOUS
    <3>2. k - j =< k - i
      BY <2>2, <2>3, <3>1
    <3>3. k \in Int /\ i \in Int /\ j \in Int
      OBVIOUS
    <3> HIDE DEF S, T
    <3> QED BY <3>2, <3>3
  <2>5. Before(k) = CHOOSE x \in S : \A i \in S : i <= x
    BY <1>2 DEF Before
  <2>6. Before(k) \in S /\ \A i \in S : i <= Before(k)
    BY <2>4, <2>5
  <2> QED BY <2>6
<1> QED BY <1>1, <1>2

\* The nearest phandle is the only one with numbers alone between.
LEMMA BeforeIs ==
    ASSUME WordsOK, NEW k \in 1..Len(words), NEW j \in 1..k-1,
           ~words[j].number, \A i \in j+1..k-1 : words[i].number
    PROVE  Before(k) = j
<1>1. Before(k) # 0
  BY BeforeFacts
<1>2. /\ Before(k) \in 1..k-1 /\ ~words[Before(k)].number
      /\ \A i \in Before(k)+1..k-1 : words[i].number
  BY <1>1, BeforeFacts
<1>3. ~(Before(k) < j)
  BY <1>2
<1>4. ~(j < Before(k))
  BY <1>2
<1> QED BY <1>2, <1>3, <1>4

\* The numbers after a phandle follow it, with nothing between.
LEMMA AfterFacts ==
    ASSUME WordsOK, NEW j \in 1..Len(words)
    PROVE  /\ After(j) \subseteq j+1..Len(words)
           /\ \A k \in After(j) : ~words[j].number /\ \A i \in j+1..k : words[i].number
           /\ IsFiniteSet(After(j))
<1>1. DOMAIN words = 1..Len(words)
  BY LenProperties DEF WordsOK
<1>2. ASSUME NEW k \in After(j)
      PROVE  /\ k \in j+1..Len(words) /\ ~words[j].number
             /\ \A i \in j+1..k : words[i].number
  <2>1. k \in 1..Len(words) /\ words[k].number /\ Before(k) = j
    BY <1>1 DEF After
  <2>2. /\ j \in 1..k-1 /\ ~words[j].number
        /\ \A i \in j+1..k-1 : words[i].number
    BY <2>1, BeforeFacts
  <2> QED BY <2>1, <2>2
<1>3. Len(words) \in Nat
  BY LenProperties DEF WordsOK
<1>4. IsFiniteSet(j+1..Len(words))
  BY <1>3, FS_Interval
<1>5. After(j) \subseteq j+1..Len(words)
  BY <1>2
<1>6. IsFiniteSet(After(j))
  BY <1>4, <1>5, FS_Subset
<1> QED BY <1>2, <1>5, <1>6

\* The lookahead finds what a controller's cells need.
LEMMA LookaheadRight ==
    ASSUME WordsOK, NEW j \in 1..Len(words)
    PROVE  HasCells(j) <=> Complete(j)
<1>1. words[j].cells \in Int /\ words[j].gpio \in BOOLEAN
  BY WordFacts
<1>2. Len(words) \in Nat /\ DOMAIN words = 1..Len(words)
  BY LenProperties DEF WordsOK
<1> DEFINE c == words[j].cells
<1>3. ASSUME HasCells(j) PROVE Complete(j)
  <2>1. c \in Nat /\ j + c <= Len(words) /\ \A i \in j+1..j+c : words[i].number
    BY <1>1, <1>3 DEF HasCells
  <2>2. ~words[j].number
    BY <1>3, WordFacts DEF HasCells
  <2>3. j+1..j+c \subseteq After(j)
    <3> SUFFICES ASSUME NEW k \in j+1..j+c PROVE k \in After(j)
      OBVIOUS
    <3>1. k \in 1..Len(words) /\ j \in 1..k-1
      BY <1>2, <2>1
    <3>2. Before(k) = j
      BY <2>1, <2>2, <3>1, BeforeIs
    <3> QED BY <1>2, <2>1, <3>1, <3>2 DEF After
  <2>4. Cardinality(j+1..j+c) = c
    <3>1. j + 1 \in Int /\ j + c \in Int
      BY <2>1
    <3>2. Cardinality(j+1..j+c) = IF j + 1 > j + c THEN 0 ELSE (j + c) - (j + 1) + 1
      BY <3>1, FS_Interval
    <3> HIDE DEF c
    <3> QED BY <2>1, <3>2
  <2>5. Cardinality(j+1..j+c) <= Cardinality(After(j))
    BY <2>3, AfterFacts, FS_Subset
  <2>6. Cardinality(After(j)) \in Nat
    BY AfterFacts, FS_CardinalityType
  <2> QED BY <1>3, <2>1, <2>4, <2>5, <2>6 DEF HasCells, Complete
<1>4. ASSUME Complete(j), ~HasCells(j) PROVE FALSE
  <2>1. c \in Nat /\ words[j].gpio /\ Cardinality(After(j)) >= c
    BY <1>1, <1>4 DEF Complete
  <2>2. PICK m \in j+1..j+c : m > Len(words) \/ ~words[m].number
    <3>1. ~(j + c <= Len(words)) => j + c \in j+1..j+c /\ j + c > Len(words)
      BY <1>2, <2>1
    <3> QED BY <1>4, <2>1, <3>1 DEF HasCells
  <2>3. After(j) \subseteq j+1..m-1
    <3> SUFFICES ASSUME NEW k \in After(j), ~(k <= m - 1) PROVE FALSE
      BY AfterFacts
    <3>1. k \in j+1..Len(words) /\ \A i \in j+1..k : words[i].number
      BY AfterFacts
    <3>2. m \in j+1..k
      BY <2>2, <3>1, <1>2
    <3> QED BY <1>2, <2>2, <3>1, <3>2
  <2>4. IsFiniteSet(j+1..m-1) /\ Cardinality(j+1..m-1) = m - 1 - j
    <3>1. m \in Int /\ j + 1 <= m
      BY <2>1, <2>2
    <3>2. j + 1 \in Int /\ m - 1 \in Int
      BY <3>1
    <3>3. /\ IsFiniteSet(j+1..m-1)
          /\ Cardinality(j+1..m-1) = IF j + 1 > m - 1 THEN 0 ELSE (m - 1) - (j + 1) + 1
      BY <3>2, FS_Interval
    <3> QED BY <3>1, <3>3
  <2>5. Cardinality(After(j)) <= m - 1 - j
    BY <2>3, <2>4, FS_Subset
  <2>6. Cardinality(After(j)) \in Nat
    BY AfterFacts, FS_CardinalityType
  <2> QED BY <2>1, <2>2, <2>5, <2>6
<1> QED BY <1>3, <1>4

\* The words that the lookahead finds are the arguments of their controller.
LEMMA CellsAreArguments ==
    ASSUME WordsOK, NEW j \in 1..Len(words), HasCells(j)
    PROVE  /\ words[j].cells \in Nat /\ j + words[j].cells <= Len(words)
           /\ \A k \in j+1..j+words[j].cells :
                 k \in 1..Len(words) /\ k \in After(j) /\ Argument(k)
<1> DEFINE c == words[j].cells
<1>1. c \in Nat /\ j + c <= Len(words) /\ \A i \in j+1..j+c : words[i].number
  BY WordFacts DEF HasCells
<1>2. Len(words) \in Nat /\ DOMAIN words = 1..Len(words)
  BY LenProperties DEF WordsOK
<1>3. ~words[j].number /\ Complete(j)
  BY LookaheadRight, WordFacts DEF HasCells
<1>4. ASSUME NEW k \in j+1..j+c
      PROVE  k \in 1..Len(words) /\ k \in After(j) /\ Argument(k)
  <2>1. k \in 1..Len(words) /\ j \in 1..k-1 /\ words[k].number /\ k <= j + c
    BY <1>1, <1>2
  <2>2. Before(k) = j
    BY <1>1, <1>3, <2>1, BeforeIs
  <2>3. k \in After(j)
    BY <1>2, <2>1, <2>2 DEF After
  <2>4. Argument(k)
    BY <1>3, <2>1, <2>2 DEF Argument
  <2> QED BY <2>1, <2>3, <2>4
<1> QED BY <1>1, <1>4

\* A word has as many arguments as its token takes.
LEMMA ArgumentCount ==
    ASSUME WordsOK, NEW j \in 1..Len(words)
    PROVE  Cardinality({a \in After(j) : Argument(a)}) = Args(j)
<1> DEFINE A == {a \in After(j) : Argument(a)}
<1>1. ASSUME NEW a \in A PROVE HasCells(j) /\ a \in j+1..j+words[j].cells
  <2>1. Before(a) = j /\ Complete(j) /\ a <= j + words[j].cells
    BY DEF After, Argument
  <2>2. a \in j+1..Len(words)
    BY AfterFacts
  <2>3. HasCells(j) /\ words[j].cells \in Int
    BY <2>1, LookaheadRight, WordFacts
  <2> QED BY <2>1, <2>2, <2>3
<1>2. CASE HasCells(j)
  <2>1. /\ words[j].cells \in Nat
        /\ \A k \in j+1..j+words[j].cells : k \in A
    BY <1>2, CellsAreArguments
  <2>2. A = j+1..j+words[j].cells
    BY <1>1, <2>1
  <2>3. Cardinality(j+1..j+words[j].cells) = words[j].cells
    <3>1. j + 1 \in Int /\ j + words[j].cells \in Int
      BY <2>1
    <3>2. Cardinality(j+1..j+words[j].cells) =
             IF j + 1 > j + words[j].cells THEN 0
             ELSE (j + words[j].cells) - (j + 1) + 1
      BY <3>1, FS_Interval
    <3> QED BY <2>1, <3>2
  <2> QED BY <1>2, <2>2, <2>3 DEF Args
<1>3. CASE ~HasCells(j)
  <2>1. A = {}
    BY <1>1, <1>3
  <2> QED BY <1>3, <2>1, FS_EmptySet DEF Args
<1> QED BY <1>2, <1>3

Token == Nat \X {"Gpio", "other"} \X Nat

TokenInv ==
    /\ WordsOK
    /\ pass = "to_tokens" => words # <<>> /\ iter < Len(words)
    /\ words # <<>> =>
         /\ pass \in {"to_tokens", "done"}
         /\ pass = "done" => iter = Len(words)
         /\ iter \in 0..Len(words)
         /\ twords \in Seq(Token)
         /\ Len(twords) = Cardinality(Heads)
         /\ \A k \in Heads : \E i \in 1..Len(twords) : twords[i][1] = k
         /\ \A i \in 1..Len(twords) :
               LET k == twords[i][1]
               IN  /\ k \in Heads
                   /\ twords[i][2] = "Gpio" <=> HasCells(k)
                   /\ twords[i][3] = Args(k)
                   /\ k + Args(k) <= iter

\* The invariant of the tokens holds before the first one.
LEMMA TokenInitInv == DtInit => TokenInv
<1> SUFFICES ASSUME DtInit PROVE TokenInv
  OBVIOUS
<1>1. CASE words = <<>> /\ pass = "write"
  BY <1>1 DEF TokenInv, WordsOK
<1>2. CASE pass = "to_tokens" /\ words \in UNION {[1..k -> Word] : k \in 1..MaxWords}
  <2>1. PICK k \in 1..MaxWords : words \in [1..k -> Word]
    BY <1>2
  <2>2. k \in Nat /\ k >= 1
    BY DevicetreeAssumption
  <2>3. words \in Seq(Word) /\ Len(words) = k
    BY <2>1, <2>2
  <2>4. iter = 0 /\ twords = <<>> /\ Heads = {}
    BY DEF DtInit, Heads
  <2>5. Cardinality(Heads) = 0 /\ twords \in Seq(Token) /\ Len(twords) = 0
    BY <2>4, FS_EmptySet
  <2> QED BY <1>2, <2>2, <2>3, <2>4, <2>5 DEF TokenInv, WordsOK
<1> QED BY <1>1, <1>2 DEF DtInit

\* A word that comes next begins a token: the cells of every controller before
\* it were taken with their controller.
LEMMA NextIsHead ==
    ASSUME TokenInv, pass = "to_tokens"
    PROVE  iter + 1 \in 1..Len(words) /\ ~Argument(iter + 1)
<1> DEFINE k == iter + 1
<1>1. k \in 1..Len(words) /\ Len(words) \in Nat /\ WordsOK /\ words # <<>> /\ iter \in Nat
  <2>1. words # <<>> /\ WordsOK /\ iter < Len(words) /\ iter \in 0..Len(words)
    BY DEF TokenInv
  <2>2. Len(words) \in Nat
    BY <2>1, LenProperties DEF WordsOK
  <2> QED BY <2>1, <2>2
<1>2. ASSUME Argument(k) PROVE FALSE
  <2> DEFINE j == Before(k)
  <2>1. Complete(j) /\ j # 0 /\ k <= j + words[j].cells
    BY <1>2 DEF Argument, Complete
  <2>2. j \in 1..k-1 /\ ~words[j].number
    BY <1>1, <2>1, BeforeFacts
  <2>3. j \in 1..Len(words) /\ j \in 1..iter
    BY <1>1, <2>2
  <2>4. HasCells(j)
    BY <1>1, <2>1, <2>3, LookaheadRight
  <2>5. ~Argument(j)
    BY <2>2 DEF Argument
  <2>6. j + Args(j) <= iter
    <3>1. j \in Heads
      BY <2>3, <2>5 DEF Heads
    <3>2. PICK i \in 1..Len(twords) : twords[i][1] = j
      BY <1>1, <3>1 DEF TokenInv
    <3> QED BY <1>1, <3>2 DEF TokenInv
  <2>7. words[j].cells \in Nat
    BY <1>1, <2>3, <2>4, CellsAreArguments
  <2> QED BY <1>1, <2>1, <2>2, <2>4, <2>6, <2>7 DEF Args
<1> QED BY <1>1, <1>2

\* A step of to_tokens takes a word that begins a token with its arguments.
LEMMA ToTokensInv ==
    ASSUME TokenInv, ToTokens
    PROVE  TokenInv'
<1> DEFINE k == iter + 1
           token == <<k, IF HasCells(k) THEN "Gpio" ELSE "other", Args(k)>>
           n == Len(twords)
<1>1. pass = "to_tokens" /\ words # <<>> /\ words' = words /\ WordsOK
  BY DEF TokenInv, ToTokens
<1>2. /\ iter' = k + Args(k) /\ twords' = Append(twords, token)
      /\ pass' = IF iter' = Len(words) THEN "done" ELSE pass
  BY DEF ToTokens, Args
<1>3. k \in 1..Len(words) /\ ~Argument(k)
  BY <1>1, NextIsHead
<1>4. /\ iter \in 0..Len(words) /\ twords \in Seq(Token)
      /\ Len(twords) = Cardinality(Heads)
  BY <1>1 DEF TokenInv
<1>5. Len(words) \in Nat /\ iter \in Nat
  BY <1>1, <1>4, LenProperties DEF WordsOK
<1>6. Args(k) \in Nat /\ k + Args(k) <= Len(words) /\ \A i \in k+1..k+Args(k) : Argument(i)
  <2>1. CASE HasCells(k)
    BY <1>1, <1>3, <2>1, CellsAreArguments DEF Args
  <2>2. CASE ~HasCells(k)
    BY <1>3, <1>5, <2>2 DEF Args
  <2> QED BY <2>1, <2>2
<1>7. \A j \in Nat : (HasCells(j)' <=> HasCells(j)) /\ (Argument(j)' <=> Argument(j)) /\ Args(j)' = Args(j)
  BY <1>1 DEF HasCells, Argument, Args, Complete, Before, After
<1>8. Heads' = Heads \cup {k}
  <2>1. Heads' = {i \in 1..iter' : ~Argument(i)}
    <3>1. \A i \in 1..iter' : i \in Nat
      BY <1>2, <1>5, <1>6
    <3>2. Heads' = {i \in 1..iter' : ~Argument(i)'}
      BY DEF Heads
    <3> QED BY <1>7, <3>1, <3>2
  <2>2. ASSUME NEW i \in Heads' PROVE i \in Heads \cup {k}
    <3>1. i \in 1..k+Args(k) /\ ~Argument(i)
      BY <1>2, <2>1
    <3>2. i \notin k+1..k+Args(k)
      BY <1>6, <3>1
    <3>3. i \in 1..iter \/ i = k
      BY <1>5, <1>6, <3>1, <3>2
    <3> QED BY <3>1, <3>3 DEF Heads
  <2>3. ASSUME NEW i \in Heads \cup {k} PROVE i \in Heads'
    <3>1. ~Argument(i) /\ i \in 1..k
      BY <1>3, <1>5 DEF Heads
    <3>2. i \in 1..iter'
      BY <1>2, <1>5, <1>6, <3>1
    <3> QED BY <2>1, <3>1, <3>2
  <2> QED BY <2>2, <2>3
<1>9. Cardinality(Heads') = Cardinality(Heads) + 1
  <2>1. IsFiniteSet(1..iter)
    BY <1>5, FS_Interval
  <2>2. IsFiniteSet(Heads)
    BY <2>1, FS_Subset DEF Heads
  <2>3. k \notin Heads
    BY <1>5 DEF Heads
  <2> QED BY <1>8, <2>2, <2>3, FS_AddElement
<1>10. token \in Token
  <2>1. k \in Nat
    BY <1>5
  <2>2. (IF HasCells(k) THEN "Gpio" ELSE "other") \in {"Gpio", "other"}
    OBVIOUS
  <2> QED BY <1>6, <2>1, <2>2 DEF Token
<1>11. /\ twords' \in Seq(Token) /\ Len(twords') = n + 1 /\ n \in Nat
       /\ twords'[n + 1] = token /\ \A i \in 1..n : twords'[i] = twords[i]
  <2> HIDE DEF token
  <2> QED BY <1>2, <1>4, <1>10
<1>12. Len(twords') = Cardinality(Heads')
  BY <1>4, <1>9, <1>11
<1>13. ASSUME NEW h \in Heads' PROVE \E i \in 1..Len(twords') : twords'[i][1] = h
  <2>1. CASE h \in Heads
    <3>1. PICK i \in 1..n : twords[i][1] = h
      BY <1>1, <2>1 DEF TokenInv
    <3>2. i \in 1..n+1 /\ twords'[i][1] = h
      BY <1>11, <3>1
    <3> QED BY <1>11, <3>2
  <2>2. CASE h = k
    <3>1. n + 1 \in 1..Len(twords') /\ twords'[n + 1][1] = k
      BY <1>11
    <3> QED BY <2>2, <3>1
  <2> QED BY <1>8, <2>1, <2>2
<1>14. ASSUME NEW i \in 1..Len(twords')
       PROVE  LET h == twords'[i][1]
              IN  /\ h \in Nat /\ h \in Heads'
                  /\ twords'[i][2] = "Gpio" <=> HasCells(h)
                  /\ twords'[i][3] = Args(h)
                  /\ h + Args(h) <= iter'
  <2>1. CASE i \in 1..n
    <3> DEFINE h == twords[i][1]
    <3>1. /\ h \in Heads /\ (twords[i][2] = "Gpio" <=> HasCells(h))
          /\ twords[i][3] = Args(h) /\ h + Args(h) <= iter
      BY <1>1, <2>1 DEF TokenInv
    <3>2. h \in Nat /\ h \in 1..Len(words) /\ twords'[i] = twords[i] /\ iter <= iter'
      BY <1>2, <1>4, <1>5, <1>6, <1>11, <2>1, <3>1 DEF Heads
    <3>3. Args(h) \in Nat
      BY <1>1, <3>2, CellsAreArguments DEF Args
    <3>4. h + Args(h) <= iter'
      BY <1>2, <1>5, <1>6, <3>1, <3>2, <3>3
    <3> QED BY <1>8, <3>1, <3>2, <3>4
  <2>2. CASE i = n + 1
    <3>1. twords'[i] = token
      BY <1>11, <2>2
    <3>2. k \in Nat /\ k \in Heads' /\ k + Args(k) <= iter'
      BY <1>2, <1>5, <1>6, <1>8
    <3>3. token[1] = k /\ (token[2] = "Gpio" <=> HasCells(k)) /\ token[3] = Args(k)
      OBVIOUS
    <3> HIDE DEF token, k
    <3> QED BY <3>1, <3>2, <3>3
  <2> QED BY <1>11, <2>1, <2>2
<1>15. /\ iter' \in 0..Len(words) /\ (pass' = "done" <=> iter' = Len(words))
       /\ pass' \in {"to_tokens", "done"}
  BY <1>1, <1>2, <1>5, <1>6
<1>16. WordsOK'
  BY <1>1 DEF WordsOK
<1>17. pass' = "to_tokens" => words' # <<>> /\ iter' < Len(words')
  BY <1>1, <1>5, <1>15
<1>18. ASSUME NEW i \in 1..Len(twords')
       PROVE  (/\ twords[i][1] \in Heads
               /\ twords[i][2] = "Gpio" <=> HasCells(twords[i][1])
               /\ twords[i][3] = Args(twords[i][1])
               /\ twords[i][1] + Args(twords[i][1]) <= iter)'
  <2>1. (HasCells(twords[i][1]))' <=> HasCells(twords'[i][1])
    BY <1>1 DEF HasCells
  <2>2. Args(twords[i][1])' = Args(twords'[i][1])
    BY <1>1, <2>1 DEF Args
  <2> QED BY <1>14, <2>1, <2>2
<1> HIDE DEF token, k, n
<1> QED BY <1>1, <1>11, <1>12, <1>13, <1>15, <1>16, <1>17, <1>18 DEF TokenInv

\* The other steps are of the tree, and leave the words alone.
LEMMA TokenNextInv == TokenInv /\ [DtNext]_dtVars => TokenInv'
<1> SUFFICES ASSUME TokenInv, [DtNext]_dtVars PROVE TokenInv'
  OBVIOUS
<1>1. CASE ToTokens
  BY <1>1, ToTokensInv
<1>2. CASE UNCHANGED dtVars
  <2>1. UNCHANGED <<pass, words, iter, twords>>
    BY <1>2 DEF dtVars, wordVars
  <2>2. /\ \A k : (HasCells(k)' <=> HasCells(k)) /\ Args(k)' = Args(k)
        /\ Heads' = Heads
    BY <2>1 DEF Heads, Argument, Args, HasCells, Complete, Before, After
  <2> QED BY <2>1, <2>2 DEF TokenInv, WordsOK
<1>3. CASE /\ pass \in {"write", "ords", "parse", "phandles", "parents", "generate"}
           /\ pass' # "to_tokens" /\ UNCHANGED wordVars
  <2>1. words' = <<>> /\ words = <<>>
    BY <1>3 DEF TokenInv, wordVars
  <2> QED BY <1>3, <2>1 DEF TokenInv, WordsOK
<1>4. CASE Write
  BY <1>3, <1>4 DEF Write, WriteNode
<1>5. CASE Compiled \/ PathLine \/ OrdLine
  BY <1>3, <1>5 DEF Compiled, PathLine, OrdLine
<1>6. CASE WalkNode
  BY <1>3, <1>6 DEF WalkNode
<1>7. CASE PhandleWalk \/ ParentWalk
  BY <1>3, <1>7 DEF PhandleWalk, ParentWalk
<1>8. CASE NodeWalk
  BY <1>3, <1>8 DEF NodeWalk
<1> QED BY <1>1, <1>2, <1>4, <1>5, <1>6, <1>7, <1>8 DEF DtNext

\* The tokens of a property are right, however many words and cells it has.
THEOREM WordsBecomeTokens == DtSpec => []TokensRight
<1>1. TokenInv => TokensRight
  <2> SUFFICES ASSUME TokenInv, pass = "done", words # <<>> PROVE TokensRight
    BY DEF TokensRight
  <2>1. WordsOK /\ iter = Len(words) /\ twords \in Seq(Token)
    BY DEF TokenInv
  <2>2. DOMAIN words = 1..Len(words) /\ DOMAIN twords = 1..Len(twords)
    BY <2>1, LenProperties DEF WordsOK
  <2>3. {k \in DOMAIN words : ~Argument(k)} = Heads
    BY <2>1, <2>2 DEF Heads
  <2>4. {twords[i][1] : i \in DOMAIN twords} = Heads /\ Len(twords) = Cardinality(Heads)
    BY <2>2 DEF TokenInv
  <2>5. ASSUME NEW i \in DOMAIN twords
        PROVE  LET k == twords[i][1]
               IN  /\ twords[i][2] = "Gpio" <=> Complete(k)
                   /\ twords[i][3] = Cardinality({a \in After(k) : Argument(a)})
    <3> DEFINE k == twords[i][1]
    <3>1. /\ k \in Heads /\ (twords[i][2] = "Gpio" <=> HasCells(k))
          /\ twords[i][3] = Args(k)
      BY <2>2 DEF TokenInv
    <3>2. k \in 1..Len(words)
      BY <2>1, <3>1 DEF Heads
    <3>3. (HasCells(k) <=> Complete(k)) /\ Cardinality({a \in After(k) : Argument(a)}) = Args(k)
      BY <2>1, <3>2, LookaheadRight, ArgumentCount
    <3> QED BY <3>1, <3>3
  <2> QED BY <2>3, <2>4, <2>5 DEF TokensRight, Complete, Argument
<1>2. DtInit => TokenInv
  BY TokenInitInv
<1>3. TokenInv /\ [DtNext]_dtVars => TokenInv'
  BY TokenNextInv
<1> QED BY <1>1, <1>2, <1>3, PTL DEF DtSpec

-----------------------------------------------------------------------------
(* Devicetree: the tree and the routes in it.                              *)

\* Some function to V meets the equation of a recursion along up.
Recursive(V, D, up, base, step) ==
    \E r \in [Nat -> V] :
        \A n \in Nat : r[n] = IF n \in D THEN step[n][r[up[n]]] ELSE base[n]

\* A function that is defined by recursion along up exists.
LEMMA RecursionExists ==
    ASSUME NEW V, NEW D \in SUBSET Nat, NEW up \in [D -> Nat],
           \A n \in D : up[n] < n,
           NEW base \in [Nat -> V], NEW step \in [Nat -> [V -> V]]
    PROVE  Recursive(V, D, up, base, step)
<1> DEFINE Eq(r, m) == r[m] = IF m \in D THEN step[m][r[up[m]]] ELSE base[m]
           Good(r, n) == r \in [Nat -> V] /\ \A m \in Nat : m =< n => Eq(r, m)
<1>1. ASSUME NEW n \in Nat PROVE \E r : Good(r, n)
  <2> DEFINE S == {k \in Nat : ~\E r : Good(r, k)}
  <2> SUFFICES ASSUME ~\E r : Good(r, n) PROVE FALSE
    BY Zenon
  <2>1. S \in SUBSET Nat /\ S # {}
    <3> HIDE DEF Good
    <3> QED OBVIOUS
  <2> HIDE DEF S
  <2>2. PICK k \in S : \A y \in S : k =< y
    BY <2>1, LeastNat
  <2>3. k \in Nat /\ ~\E r : Good(r, k)
    BY DEF S
  <2>4. PICK q \in [Nat -> V] : \A m \in Nat : m < k => Eq(q, m)
    <3>1. CASE k = 0
      <4>1. \A m \in Nat : ~(m < 0)
        OBVIOUS
      <4> QED BY <3>1, <4>1
    <3>2. CASE k # 0
      <4>1. k - 1 \in Nat /\ ~(k =< k - 1)
        BY <2>3, <3>2
      <4>2. k - 1 \notin S
        BY <2>2, <4>1
      <4>3. PICK q : Good(q, k - 1)
        BY <4>1, <4>2 DEF S
      <4>4. \A m \in Nat : m < k => m =< k - 1
        BY <2>3
      <4> QED BY <4>3, <4>4
    <3> QED BY <3>1, <3>2
  <2> DEFINE v == IF k \in D THEN step[k][q[up[k]]] ELSE base[k]
             r == [q EXCEPT ![k] = v]
  <2>5. v \in V
    BY <2>3, <2>4
  <2>6. r \in [Nat -> V] /\ r[k] = v /\ \A m \in Nat : m # k => r[m] = q[m]
    BY <2>3, <2>4, <2>5
  <2>7. ASSUME NEW m \in Nat, m =< k PROVE Eq(r, m)
    <3>1. m \in D => up[m] \in Nat /\ up[m] < m
      OBVIOUS
    <3>2. m \in D => up[m] # k
      BY <2>3, <2>7, <3>1
    <3>3. m \in D => r[up[m]] = q[up[m]]
      BY <2>6, <3>1, <3>2
    <3>4. CASE m = k
      BY <2>6, <3>3, <3>4
    <3>5. CASE m # k
      <4>1. m < k
        BY <2>3, <2>7, <3>5
      <4>2. Eq(q, m) /\ r[m] = q[m]
        BY <2>4, <2>6, <3>5, <4>1
      <4> QED BY <3>3, <4>2
    <3> QED BY <3>4, <3>5
  <2>8. Good(r, k)
    BY <2>6, <2>7
  <2> HIDE DEF Good, r
  <2> QED BY <2>3, <2>8
<1>2. ASSUME NEW n \in Nat, NEW r, NEW q, Good(r, n), Good(q, n) PROVE r[n] = q[n]
  <2> DEFINE S == {m \in Nat : m =< n /\ r[m] # q[m]}
  <2> SUFFICES ASSUME S # {} PROVE FALSE
    OBVIOUS
  <2>1. S \in SUBSET Nat
    OBVIOUS
  <2> HIDE DEF S
  <2>2. PICK m \in S : \A y \in S : m =< y
    BY <2>1, LeastNat
  <2>3. m \in Nat /\ m =< n /\ r[m] # q[m] /\ Eq(r, m) /\ Eq(q, m)
    BY <1>2 DEF S
  <2>4. m \in D
    BY <2>3
  <2>5. up[m] \in Nat /\ up[m] < m
    BY <2>4
  <2>6. up[m] \notin S
    BY <2>2, <2>3, <2>5
  <2>7. up[m] =< n
    BY <2>3, <2>5
  <2>8. r[up[m]] = q[up[m]]
    BY <2>5, <2>6, <2>7 DEF S
  <2> QED BY <2>3, <2>4, <2>8
<1> DEFINE G(n) == CHOOSE r : Good(r, n)
           R == [n \in Nat |-> G(n)[n]]
<1>3. ASSUME NEW n \in Nat PROVE Good(G(n), n)
  BY <1>1
<1> HIDE DEF G
<1>4. R \in [Nat -> V]
  BY <1>3
<1>5. ASSUME NEW n \in Nat PROVE Eq(R, n)
  <2>1. Eq(G(n), n) /\ R[n] = G(n)[n]
    BY <1>3
  <2>2. CASE n \in D
    <3> DEFINE m == up[n]
    <3>1. m \in Nat /\ m < n
      BY <2>2
    <3>2. Good(G(n), m)
      <4>1. \A k \in Nat : k =< m => k =< n
        BY <3>1
      <4> QED BY <1>3, <4>1
    <3>3. G(n)[m] = G(m)[m]
      <4>1. Good(G(m), m)
        BY <1>3, <3>1
      <4> HIDE DEF Good, m
      <4> QED BY <1>2, <3>1, <3>2, <4>1
    <3>4. R[m] = G(m)[m]
      BY <3>1
    <3> QED BY <2>1, <2>2, <3>3, <3>4
  <2>3. CASE n \notin D
    BY <2>1, <2>3
  <2> QED BY <2>2, <2>3
<1> QED BY <1>4, <1>5 DEF Recursive

Kinds == DOMAIN ParentKind

Node == [kind : Kinds \cup {"root"}, parent : Nat,
         status : {"okay", "disabled", "absent"}, label : Labels \cup {NoLabel},
         prop : Seq(Labels \cup {Number})]

\* The tree as the device tree compiler has it: parents come first and are of
\* the kind that their children need, and a label is that of one controller.
TreeOK ==
    /\ dts \in Seq(Node) /\ Len(dts) >= 1
    /\ dts[Root].kind = "root" /\ dts[Root].parent = NoNode
    /\ dts[Root].label = NoLabel /\ dts[Root].prop = <<>>
    /\ \A n \in 2..Len(dts) :
          /\ dts[n].kind \in Kinds
          /\ dts[n].parent \in 1..n-1
          /\ dts[dts[n].parent].kind \in ParentKind[dts[n].kind]
          /\ dts[n].prop \in Prop(dts[n].kind)
          /\ dts[n].label # NoLabel => dts[n].kind = "gpio"
    /\ \A n, m \in 1..Len(dts) :
          dts[n].label = dts[m].label => dts[n].label = NoLabel \/ n = m

\* The nodes are numbered from the root on.
LEMMA NodesFacts ==
    ASSUME TreeOK
    PROVE  /\ Len(dts) \in Nat /\ Nodes = 1..Len(dts) /\ Root \in Nodes
           /\ IsFiniteSet(Nodes) /\ Cardinality(Nodes) = Len(dts)
           /\ \A n \in Nodes : n = Root \/ n \in 2..Len(dts)
           /\ \A n \in Nodes : n # Root => dts[n].parent \in Nodes /\ dts[n].parent < n
<1>1. Len(dts) \in Nat /\ Len(dts) >= 1 /\ DOMAIN dts = 1..Len(dts)
  BY LenProperties DEF TreeOK
<1>2. Nodes = 1..Len(dts) /\ Root \in Nodes
  BY <1>1 DEF Nodes, Root
<1>3. /\ IsFiniteSet(1..Len(dts))
      /\ Cardinality(1..Len(dts)) = IF 1 > Len(dts) THEN 0 ELSE Len(dts) - 1 + 1
  BY <1>1, FS_Interval
<1>4. Cardinality(1..Len(dts)) = Len(dts)
  BY <1>1, <1>3
<1>5. \A n \in Nodes : n = Root \/ n \in 2..Len(dts)
  BY <1>1, <1>2 DEF Root
<1>6. \A n \in Nodes : n # Root => dts[n].parent \in Nodes /\ dts[n].parent < n
  <2> SUFFICES ASSUME NEW n \in Nodes, n # Root
               PROVE  dts[n].parent \in Nodes /\ dts[n].parent < n
    OBVIOUS
  <2>1. n \in 2..Len(dts)
    BY <1>5
  <2>2. dts[n].parent \in 1..n-1
    BY <2>1 DEF TreeOK
  <2> QED BY <1>1, <1>2, <2>1, <2>2
<1> QED BY <1>1, <1>2, <1>3, <1>4, <1>5, <1>6

\* A node's name is a number.
LEMMA NameType ==
    ASSUME TreeOK, NEW n \in Nodes
    PROVE  Name(n) \in Nat /\ IsFiniteSet(Siblings(n))
<1>1. IsFiniteSet(Siblings(n))
  BY NodesFacts, FS_Subset DEF Siblings
<1>2. Cardinality(Siblings(n)) \in Nat
  BY <1>1, FS_CardinalityType
<1> QED BY <1>1, <1>2 DEF Name

\* The equation of Route.
LEMMA RouteEquation ==
    ASSUME TreeOK
    PROVE  Route = [n \in Nat |-> IF n \in Nodes \ {Root}
                                  THEN Append(Route[dts[n].parent], Name(n))
                                  ELSE <<>>]
<1> DEFINE V == Seq(Nat)
           D == Nodes \ {Root}
           up == [n \in D |-> dts[n].parent]
           base == [n \in Nat |-> <<>>]
           name == [n \in Nat |-> IF n \in D THEN Name(n) ELSE 0]
           step == [n \in Nat |-> [s \in V |-> Append(s, name[n])]]
<1>1. D \in SUBSET Nat /\ D \subseteq Nodes /\ Root \in Nat
  BY NodesFacts DEF Root
<1>2. up \in [D -> Nat] /\ \A n \in D : up[n] < n
  BY NodesFacts
<1>3. base \in [Nat -> V]
  OBVIOUS
<1>4. name \in [Nat -> Nat]
  BY <1>1, NameType
<1>5. step \in [Nat -> [V -> V]]
  <2> HIDE DEF name
  <2>1. ASSUME NEW n \in Nat, NEW s \in V PROVE Append(s, name[n]) \in V
    BY <1>4
  <2> QED BY <2>1
<1>6. Recursive(V, D, up, base, step)
  <2> HIDE DEF V, D, up, base, step
  <2> QED BY <1>1, <1>2, <1>3, <1>5, RecursionExists
<1>7. PICK r \in [Nat -> V] :
        \A n \in Nat : r[n] = IF n \in D THEN step[n][r[up[n]]] ELSE base[n]
  BY <1>6 DEF Recursive
<1>8. \A n \in D : up[n] = dts[n].parent /\ up[n] \in Nat /\ name[n] = Name(n)
  BY <1>1, <1>2
<1>9. \A n \in Nat : r[n] = IF n \in D THEN Append(r[dts[n].parent], Name(n)) ELSE <<>>
  <2> SUFFICES ASSUME NEW n \in Nat
               PROVE  r[n] = IF n \in D THEN Append(r[dts[n].parent], Name(n)) ELSE <<>>
    OBVIOUS
  <2>1. CASE n \in D
    <3>1. r[up[n]] \in V
      BY <1>7, <1>8, <2>1
    <3> HIDE DEF D, up, name, V
    <3>2. step[n][r[up[n]]] = Append(r[up[n]], name[n])
      BY <3>1
    <3> QED BY <1>7, <1>8, <2>1, <3>2
  <2>2. CASE n \notin D
    <3>1. base[n] = <<>>
      OBVIOUS
    <3> HIDE DEF D, up, name, V, base, step
    <3> QED BY <1>7, <2>2, <3>1
  <2> QED BY <2>1, <2>2
<1>10. r = [n \in Nat |-> IF n \notin Nodes \/ n = Root THEN <<>>
                          ELSE Append(r[dts[n].parent], Name(n))]
  BY <1>7, <1>9
<1>11. Route = [n \in Nat |-> IF n \notin Nodes \/ n = Root THEN <<>>
                              ELSE Append(Route[dts[n].parent], Name(n))]
  BY <1>10, Zenon DEF Route
<1> QED BY <1>11

\* A route is a sequence of names, that of the root the empty one.
LEMMA RouteIs ==
    ASSUME TreeOK
    PROVE  /\ \A n \in Nodes : Route[n] \in Seq(Nat)
           /\ Route[Root] = <<>>
           /\ \A n \in Nodes : n # Root => Route[n] = Append(Route[dts[n].parent], Name(n))
<1>1. Root \in Nodes /\ \A n \in Nodes : n \in Nat
  BY NodesFacts
<1>2. /\ Route[Root] = <<>>
      /\ \A n \in Nodes : n # Root => Route[n] = Append(Route[dts[n].parent], Name(n))
  <2> DEFINE D == Nodes \ {Root}
  <2>1. \A n \in Nat : Route[n] = IF n \in D THEN Append(Route[dts[n].parent], Name(n))
                                             ELSE <<>>
    BY RouteEquation
  <2>2. Root \notin D /\ \A n \in Nodes : n # Root => n \in D
    OBVIOUS
  <2> HIDE DEF D
  <2> QED BY <1>1, <2>1, <2>2
<1> DEFINE S == {k \in Nodes : Route[k] \notin Seq(Nat)}
<1>3. ASSUME S # {} PROVE FALSE
  <2>1. S \in SUBSET Nat
    BY <1>1
  <2>2. \A k \in S : k \in Nodes /\ Route[k] \notin Seq(Nat)
    OBVIOUS
  <2>3. \A k \in Nodes : k \notin S => Route[k] \in Seq(Nat)
    OBVIOUS
  <2> HIDE DEF S
  <2>4. PICK k \in S : \A y \in S : k =< y
    BY <1>3, <2>1, LeastNat
  <2>5. k \in Nodes /\ k \in Nat
    BY <1>1, <2>2
  <2>6. k # Root
    <3>1. <<>> \in Seq(Nat)
      OBVIOUS
    <3> QED BY <1>2, <2>2, <3>1
  <2>7. dts[k].parent \in Nodes /\ dts[k].parent < k
    BY <2>5, <2>6, NodesFacts
  <2>8. dts[k].parent \notin S
    <3> DEFINE p == dts[k].parent
    <3>1. p \in Nat /\ p < k
      BY <1>1, <2>7
    <3> HIDE DEF p
    <3>2. p \notin S
      BY <2>4, <2>5, <3>1
    <3> QED BY <3>2 DEF p
  <2>9. Route[dts[k].parent] \in Seq(Nat)
    BY <2>3, <2>7, <2>8
  <2>10. Name(k) \in Nat
    BY <2>5, NameType
  <2>11. Append(Route[dts[k].parent], Name(k)) \in Seq(Nat)
    BY <2>9, <2>10, AppendProperties
  <2> QED BY <1>2, <2>2, <2>5, <2>6, <2>11
<1> QED BY <1>2, <1>3

\* Siblings have different names.
LEMMA NamesDiffer ==
    ASSUME TreeOK, NEW n \in Nodes, NEW m \in Nodes, n < m, dts[n].parent = dts[m].parent
    PROVE  Name(n) # Name(m)
<1>1. n \in Nat /\ m \in Nat /\ \A k \in Nodes : k \in Nat
  BY NodesFacts
<1>2. Siblings(n) \cup {n} \in SUBSET Siblings(m) /\ n \notin Siblings(n)
  <2>1. n \in Siblings(m) /\ n \notin Siblings(n)
    BY <1>1 DEF Siblings
  <2>2. ASSUME NEW k \in Siblings(n) PROVE k \in Siblings(m)
    <3>1. k \in Nodes /\ k < n /\ dts[k].parent = dts[n].parent
      BY DEF Siblings
    <3>2. k < m
      BY <1>1, <3>1
    <3> QED BY <3>1, <3>2 DEF Siblings
  <2> QED BY <2>1, <2>2
<1>3. IsFiniteSet(Siblings(n)) /\ IsFiniteSet(Siblings(m))
  BY NameType
<1>4. Cardinality(Siblings(n) \cup {n}) = Cardinality(Siblings(n)) + 1
  BY <1>2, <1>3, FS_AddElement
<1>5. Cardinality(Siblings(n) \cup {n}) <= Cardinality(Siblings(m))
  BY <1>2, <1>3, FS_Subset
<1>6. Cardinality(Siblings(n)) \in Nat /\ Cardinality(Siblings(m)) \in Nat
  BY <1>3, FS_CardinalityType
<1> QED BY <1>4, <1>5, <1>6 DEF Name

\* A route leads to one node.
LEMMA RouteInjective ==
    ASSUME TreeOK, NEW n \in Nodes, NEW m \in Nodes, Route[n] = Route[m]
    PROVE  n = m
<1> DEFINE S == {k \in Nodes : \E l \in Nodes : k # l /\ Route[k] = Route[l]}
<1> SUFFICES ASSUME S # {} PROVE FALSE
  OBVIOUS
<1>1. S \in SUBSET Nat /\ \A k \in Nodes : k \in Nat
  BY NodesFacts
<1> HIDE DEF S
<1>2. PICK k \in S : \A y \in S : k =< y
  BY <1>1, LeastNat
<1>3. PICK l \in Nodes : k # l /\ Route[k] = Route[l]
  BY DEF S
<1>4. k \in Nodes
  BY DEF S
<1>5. \A i \in Nodes : i # Root =>
        /\ dts[i].parent \in Nodes /\ dts[i].parent < i /\ Name(i) \in Nat
        /\ Route[dts[i].parent] \in Seq(Nat)
        /\ Route[i] = Append(Route[dts[i].parent], Name(i))
  BY <1>1, NodesFacts, NameType, RouteIs
<1>6. \A i \in Nodes : i # Root => Route[i] # <<>>
  <2> SUFFICES ASSUME NEW i \in Nodes, i # Root PROVE Route[i] # <<>>
    OBVIOUS
  <2>1. /\ Route[dts[i].parent] \in Seq(Nat) /\ Name(i) \in Nat
        /\ Route[i] = Append(Route[dts[i].parent], Name(i))
    BY <1>5
  <2>2. Append(Route[dts[i].parent], Name(i)) # <<>>
    BY <2>1, AppendProperties
  <2> QED BY <2>1, <2>2
<1>7. k # Root /\ l # Root
  BY <1>3, <1>4, <1>6, RouteIs
<1> DEFINE p == dts[k].parent
           q == dts[l].parent
<1>8. Route[p] = Route[q] /\ Name(k) = Name(l)
  <2>1. /\ Route[p] \in Seq(Nat) /\ Route[q] \in Seq(Nat)
        /\ Name(k) \in Nat /\ Name(l) \in Nat
        /\ Append(Route[p], Name(k)) = Append(Route[q], Name(l))
    BY <1>3, <1>4, <1>5, <1>7
  <2> DEFINE s == Route[p]
             t == Route[q]
             e == Name(k)
             f == Name(l)
  <2>2. s \in Seq(Nat) /\ t \in Seq(Nat) /\ e \in Nat /\ f \in Nat
    BY <2>1
  <2>3. Append(s, e) = Append(t, f)
    BY <2>1
  <2> HIDE DEF s, t, e, f
  <2>4. Append(s, e) = Append(t, f) <=> s = t /\ e = f
    BY <2>2, AppendInjective
  <2>5. s = t /\ e = f
    BY <2>3, <2>4
  <2> QED BY <2>5 DEF s, t, e, f
<1>9. p = q
  <2>1. p \in Nodes /\ q \in Nodes /\ p < k
    BY <1>3, <1>4, <1>5, <1>7
  <2>2. p \in Nat /\ k \in Nat
    BY <1>1, <1>4, <2>1
  <2>3. p \notin S
    BY <1>2, <2>1, <2>2
  <2> QED BY <1>8, <2>1, <2>3 DEF S
<1>10. k < l \/ l < k
  BY <1>1, <1>3, <1>4
<1> QED BY <1>3, <1>4, <1>8, <1>9, <1>10, NamesDiffer

\* What ParentKind says of a node and its parent.
LEMMA KindOfParent ==
    ASSUME TreeOK, NEW n \in Nodes, n # Root
    PROVE  LET kind == dts[n].kind
               above == dts[dts[n].parent].kind
           IN  /\ above \in {"root", "bus"} \/ kind \in {"led", "key", "pwm_led",
                                "nv_flash", "partitions", "partition"}
               /\ kind \in {"led", "key", "pwm_led", "nv_flash", "partitions", "partition"}
                     => above \notin {"root", "bus"}
               /\ kind = "led" <=> above = "leds"
               /\ kind = "key" <=> above = "keys"
               /\ kind = "pwm_led" <=> above = "pwm_leds"
               /\ kind = "nv_flash" <=> above \in {"flash", "other_flash"}
               /\ kind = "partitions" <=> above = "nv_flash"
               /\ kind = "partition" <=> above = "partitions"
               /\ ~Refers(above)
               /\ kind # "root"
<1> DEFINE kind == dts[n].kind
           above == dts[dts[n].parent].kind
<1>1. n \in 2..Len(dts)
  BY NodesFacts
<1>2. kind \in Kinds /\ above \in ParentKind[kind]
  BY <1>1 DEF TreeOK
<1> HIDE DEF kind, above
<1>3. kind \in {"bus", "gpio", "leds", "keys", "pwm_leds", "flash", "other_flash", "led",
                "key", "pwm_led", "nv_flash", "partitions", "partition"}
  BY <1>2 DEF Kinds, ParentKind
<1>4. CASE kind \in {"bus", "gpio", "leds", "keys", "pwm_leds", "flash", "other_flash"}
  <2>1. ParentKind[kind] = {"root", "bus"}
    BY <1>4 DEF ParentKind, Top
  <2>2. above \in {"root", "bus"}
    BY <1>2, <2>1
  <2> QED BY <1>4, <2>2 DEF Refers, kind, above
<1>5. CASE kind \in {"led", "key", "pwm_led"}
  <2>1. /\ ParentKind["led"] = {"leds"} /\ ParentKind["key"] = {"keys"}
        /\ ParentKind["pwm_led"] = {"pwm_leds"}
    BY DEF ParentKind
  <2>2. /\ kind = "led" => above = "leds"
        /\ kind = "key" => above = "keys"
        /\ kind = "pwm_led" => above = "pwm_leds"
    BY <1>2, <2>1
  <2> QED BY <1>5, <2>2 DEF Refers, kind, above
<1>6. CASE kind \in {"nv_flash", "partitions", "partition"}
  <2>1. /\ ParentKind["nv_flash"] = {"flash", "other_flash"}
        /\ ParentKind["partitions"] = {"nv_flash"}
        /\ ParentKind["partition"] = {"partitions"}
    BY DEF ParentKind
  <2>2. /\ kind = "nv_flash" => above \in {"flash", "other_flash"}
        /\ kind = "partitions" => above = "nv_flash"
        /\ kind = "partition" => above = "partitions"
    BY <1>2, <2>1
  <2> QED BY <1>6, <2>2 DEF Refers, kind, above
<1> QED BY <1>3, <1>4, <1>5, <1>6

\* The words that gpios and reg may have.
LEMMA PropFacts ==
    ASSUME TreeOK, NEW n \in Nodes
    PROVE  LET prop == dts[n].prop
           IN  /\ prop \in Prop(dts[n].kind)
               /\ prop \in Seq(Labels \cup {Number})
               /\ Len(prop) \in Nat /\ DOMAIN prop = 1..Len(prop)
               /\ \A i \in DOMAIN prop : prop[i] \in Labels \/ prop[i] = Number
               /\ ~Refers(dts[n].kind) => \A i \in DOMAIN prop : prop[i] = Number
<1> DEFINE prop == dts[n].prop
<1>1. dts[n] \in Node
  BY NodesFacts, ElementOfSeq DEF TreeOK
<1>2. prop \in Seq(Labels \cup {Number})
  BY <1>1 DEF Node
<1>3. prop \in Prop(dts[n].kind)
  <2>1. CASE n = Root
    BY <2>1 DEF TreeOK, Prop, Refers
  <2>2. CASE n \in 2..Len(dts)
    BY <2>2 DEF TreeOK
  <2> QED BY <2>1, <2>2, NodesFacts
<1>4. Len(prop) \in Nat /\ DOMAIN prop = 1..Len(prop)
  BY <1>2, LenProperties
<1>5. \A i \in DOMAIN prop : prop[i] \in Labels \/ prop[i] = Number
  BY <1>2, <1>4, ElementOfSeq
<1>6. ASSUME ~Refers(dts[n].kind), NEW i \in DOMAIN prop PROVE prop[i] = Number
  <2>1. prop = <<>> \/ prop = <<Number, Number>>
    BY <1>3, <1>6 DEF Prop, Reg
  <2> QED BY <2>1
<1> QED BY <1>2, <1>3, <1>4, <1>5, <1>6

\* Phandles name controllers, and only leds and keys have phandles.
LEMMA ReferredFacts ==
    ASSUME TreeOK, NEW n \in Nodes
    PROVE  /\ \A m \in Referred(n) : m \in Nodes /\ dts[m].kind = "gpio"
           /\ ~Refers(dts[n].kind) => Referred(n) = {}
<1>1. ASSUME NEW m \in Referred(n)
      PROVE  m \in Nodes /\ dts[m].kind = "gpio" /\ Refers(dts[n].kind)
  <2>1. PICK i \in DOMAIN dts[n].prop : dts[n].prop[i] = dts[m].label
    BY DEF Referred
  <2>2. m \in Nodes
    BY DEF Referred
  <2>3. dts[m].label \in Labels \cup {NoLabel}
    <3>1. dts[m] \in Node
      BY <2>2, NodesFacts, ElementOfSeq DEF TreeOK
    <3> QED BY <3>1 DEF Node
  <2>4. Number # NoLabel /\ Number \notin Labels /\ NoLabel \notin Labels
    BY DevicetreeAssumption DEF Number, NoLabel
  <2>5. dts[n].prop[i] \in Labels \/ dts[n].prop[i] = Number
    BY PropFacts
  <2>6. dts[n].prop[i] \in Labels /\ dts[n].prop[i] # Number /\ dts[m].label # NoLabel
    BY <2>1, <2>3, <2>4, <2>5
  <2>7. Refers(dts[n].kind)
    BY <2>6, PropFacts
  <2>8. m # Root
    BY <2>6 DEF TreeOK
  <2>9. m \in 2..Len(dts)
    BY <2>2, <2>8, NodesFacts
  <2> QED BY <2>2, <2>6, <2>7, <2>9 DEF TreeOK
<1> QED BY <1>1

\* The node that a label leads to.
LEMMA LabelIs ==
    ASSUME TreeOK, NEW n \in Nodes, Refers(dts[n].kind), ~Malformed(n),
           NEW m \in Nodes, dts[m].label = dts[n].prop[1]
    PROVE  About(n) = m
<1>1. About(n) = CHOOSE k \in Nodes : dts[k].label = dts[n].prop[1]
  BY DEF About, Refers
<1>2. dts[n].prop[1] \in Labels
  <2>1. {i \in DOMAIN dts[n].prop : dts[n].prop[i] \in Labels} = {1}
    BY DEF Malformed
  <2>2. 1 \in {i \in DOMAIN dts[n].prop : dts[n].prop[i] \in Labels}
    BY <2>1
  <2> QED BY <2>2
<1>3. dts[n].prop[1] # NoLabel
  BY <1>2, DevicetreeAssumption
<1>4. ASSUME NEW k \in Nodes, dts[k].label = dts[n].prop[1]
      PROVE  k = m
  <2>1. \A i, j \in 1..Len(dts) :
            dts[i].label = dts[j].label => dts[i].label = NoLabel \/ i = j
    BY DEF TreeOK
  <2>2. k \in 1..Len(dts) /\ m \in 1..Len(dts)
    BY NodesFacts
  <2> QED BY <1>3, <1>4, <2>1, <2>2, Zenon
<1> QED BY <1>1, <1>4

-----------------------------------------------------------------------------
(* Devicetree: the passes.                                                 *)

\* What is generated for a node, told from its kind.
AugOf(kind) ==
    CASE kind = "gpio" -> Aug({<<"gpio", 0>>}, "GPIO", "Myself", 0, "none")
      [] kind = "led" -> Aug({<<"leds", 1>>}, "GPIO", "Phandle", 0, "none")
      [] kind = "key" -> Aug({<<"keys", 1>>}, "none", "Phandle", 0, "none")
      [] kind = "pwm_leds" -> Aug({<<"pwm_leds", 0>>}, "LED_PWM", "Myself", 0, "none")
      [] kind = "pwm_led" -> Aug({<<"pwm_leds", 1>>}, "LED_PWM", "Parent", 1, "ChildIdx")
      [] kind = "flash" -> Aug({<<"flash", 0>>}, "FLASH", "Myself", 0, "none")
      [] OTHER -> Aug({<<"partitions", 1>>, <<"nv_flash", 2>>}, "FLASH", "Parent", 3, "Reg")

Index(n) == IF dts[n].kind = "pwm_led" THEN Name(n) - 1 ELSE 0

Expected(n) ==
    LET kind == dts[n].kind
        raw == {"get_instance_raw", "get_static_raw"}
    IN  CASE kind \in Devices /\ Enabled(n) ->
               {Item(AugOf(kind), raw \cup {"get_instance"}, {}, nodes[n].ord, 0)}
          [] Refers(kind) ->
               {Item(AugOf(kind), {"get_instance"},
                     {nodes[About(n)].route} \X raw, NoNode, 0)}
          [] kind \in {"pwm_led", "partition"} /\ Enabled(About(n)) ->
               {Item(AugOf(kind), {"get_instance"},
                     {<<nodes[About(n)].route, "get_instance_raw">>}, NoNode,
                     Index(n))}
          [] OTHER -> {}

RefsOK ==
    \A n \in Nodes : \A i \in DOMAIN dts[n].prop : dts[n].prop[i] \in Labels =>
        \E m \in Nodes : dts[m].kind = "gpio" /\ dts[m].label = dts[n].prop[i]

OrdInv ==
    /\ lines \in Seq(Nodes) /\ Cardinality(Numbered) = Len(lines)
    /\ dt_path \in Nodes \cup {NoNode}
    /\ dt_path \notin Numbered \cup {NoNode} => dt_path = NextNode
    /\ \A i \in 1..Len(lines) :
          Route[lines[i]] \in DOMAIN ords /\ ords[Route[lines[i]]] = i - 1
    /\ IF pass = "ords" THEN Len(lines) < Len(dts) ELSE Len(lines) = Len(dts)

ParseInv ==
    /\ nodes \in Seq([route : Seq(Nat), ord : Nat])
    /\ \A n \in 1..Len(nodes) :
          /\ nodes[n].route = Route[n]
          /\ nodes[n].ord + 1 \in 1..Len(lines) /\ lines[nodes[n].ord + 1] = n
    /\ CASE pass = "ords" -> nodes = <<>>
         [] pass = "parse" -> Len(nodes) < Len(dts)
         [] OTHER -> Len(nodes) = Len(dts)

LabelInv ==
    /\ \A l \in DOMAIN labels : l # NoLabel /\ labels[l] \in Nodes /\ dts[labels[l]].label = l
    /\ \A n \in 1..Len(nodes) : dts[n].label # NoLabel => dts[n].label \in DOMAIN labels

LinkInv ==
    /\ pass \in {"parents", "generate", "done"} =>
         \A n \in Nodes : \A i \in DOMAIN dts[n].prop : dts[n].prop[i] # Number =>
             target[n][i] \in Nodes /\ dts[target[n][i]].label = dts[n].prop[i]
    /\ pass \in {"generate", "done"} => parent = [n \in Nodes |-> dts[n].parent]

OutInv ==
    /\ out \in Seq({Expected(n) : n \in Nodes})
    /\ \A n \in 1..Len(out) : out[n] = Expected(n) /\ ~Malformed(n)
    /\ CASE pass = "generate" -> Len(out) < Len(dts)
         [] pass = "done" -> Len(out) = Len(dts)
         [] OTHER -> out = <<>>

\* The tree is being compiled, or has been.
Compiles == \/ pass \in {"ords", "parse", "phandles", "parents", "generate"}
            \/ pass = "done" /\ out # <<>>

TreeInv ==
    /\ TreeOK
    /\ Compiles => RefsOK /\ OrdInv /\ ParseInv /\ LabelInv /\ LinkInv /\ OutInv
    /\ ~Compiles => /\ pass \in {"write", "to_tokens", "done", "panicked"}
                    /\ pass # "panicked" => out = <<>>
                    /\ pass = "panicked" => \E n \in Nodes : Malformed(n)
                    /\ pass = "write" => /\ lines = <<>> /\ nodes = <<>>
                                         /\ DOMAIN labels = {} /\ dt_path = NoNode

\* What is told from the tree alone stays as long as the tree does.
LEMMA SameTree ==
    ASSUME dts' = dts
    PROVE  /\ TreeOK' = TreeOK /\ Nodes' = Nodes /\ Route' = Route /\ RefsOK' = RefsOK
           /\ \A n : /\ Name(n)' = Name(n) /\ About(n)' = About(n)
                     /\ Enabled(n)' = Enabled(n) /\ Malformed(n)' = Malformed(n)
                     /\ Referred(n)' = Referred(n)
<1>1. Nodes' = Nodes /\ Route' = Route
  BY DEF Route, Nodes, Name, Siblings
<1>2. TreeOK' = TreeOK
  BY DEF TreeOK
<1>3. RefsOK' = RefsOK
  BY DEF RefsOK, Nodes
<1>4. \A n : Name(n)' = Name(n) /\ About(n)' = About(n) /\ Enabled(n)' = Enabled(n)
  BY DEF Name, Siblings, Nodes, About, Enabled
<1>5. \A n : Malformed(n)' = Malformed(n) /\ Referred(n)' = Referred(n)
  BY DEF Malformed, Referred, Nodes, About, Enabled
<1> QED BY <1>1, <1>2, <1>3, <1>4, <1>5

\* The invariant holds before anything is written.
LEMMA TreeInitInv == DtInit => TreeInv
<1> SUFFICES ASSUME DtInit PROVE TreeInv
  OBVIOUS
<1> DEFINE root == [kind |-> "root", parent |-> NoNode, status |-> "absent",
                   label |-> NoLabel, prop |-> <<>>]
<1>1. dts = <<root>> /\ root \in Node
  BY DEF DtInit, Node, NoNode
<1>2. dts \in Seq(Node) /\ Len(dts) = 1 /\ dts[1] = root
  <2> HIDE DEF root
  <2> QED BY <1>1
<1>3. TreeOK
  <2>1. /\ root.kind = "root" /\ root.parent = NoNode
        /\ root.label = NoLabel /\ root.prop = <<>>
    OBVIOUS
  <2> HIDE DEF root
  <2> QED BY <1>2, <2>1 DEF TreeOK, Root
<1>4. /\ pass \in {"write", "to_tokens"} /\ out = <<>>
      /\ lines = <<>> /\ nodes = <<>> /\ DOMAIN labels = {} /\ dt_path = NoNode
  BY DEF DtInit
<1> QED BY <1>3, <1>4 DEF TreeInv, Compiles

\* WriteNode keeps the tree one that the compiler would accept.
LEMMA WriteInv ==
    ASSUME TreeInv, Write
    PROVE  TreeInv'
<1>1. PICK kind \in DOMAIN ParentKind :
        \E p \in Nodes, status \in Status(kind), prop \in Prop(kind),
           label \in IF kind = "gpio" THEN Labels \cup {NoLabel} ELSE {NoLabel} :
              WriteNode(kind, p, status, label, prop)
  BY DEF Write
<1>2. PICK p \in Nodes, status \in Status(kind), prop \in Prop(kind),
           label \in IF kind = "gpio" THEN Labels \cup {NoLabel} ELSE {NoLabel} :
              WriteNode(kind, p, status, label, prop)
  BY <1>1
<1> DEFINE node == [kind |-> kind, parent |-> p, status |-> status,
                   label |-> label, prop |-> prop]
           n == Len(dts) + 1
<1>3. TreeOK /\ Len(dts) \in Nat /\ Nodes = 1..Len(dts) /\ p \in Nat
  BY NodesFacts DEF TreeInv
<1>4. /\ dts' = Append(dts, node) /\ UNCHANGED <<pass, lines, nodes, labels, dt_path, out>>
      /\ pass = "write" /\ dts[p].kind \in ParentKind[kind]
      /\ label = NoLabel \/ \A m \in Nodes : dts[m].label # label
  BY <1>2 DEF WriteNode
<1>5. /\ node \in Node /\ node.kind = kind /\ node.parent = p /\ node.label = label
      /\ node.prop = prop /\ (label # NoLabel => kind = "gpio")
  <2>1. status \in {"okay", "disabled", "absent"}
    BY DEF Status
  <2>2. prop \in Seq(Labels \cup {Number})
    <3> DEFINE W == Labels \cup {Number}
    <3>1. Number \in W /\ \A l \in Labels : l \in W
      OBVIOUS
    <3> HIDE DEF W
    <3>2. <<>> \in Seq(W) /\ <<Number>> \in Seq(W) /\ <<Number, Number>> \in Seq(W)
      BY <3>1
    <3>3. ASSUME NEW l \in Labels PROVE <<l, Number>> \in Seq(W) /\ <<l, Number, l, Number>> \in Seq(W)
      BY <3>1
    <3>4. \A x \in Gpios : x \in Seq(W)
      BY <3>2, <3>3 DEF Gpios
    <3>5. prop \in Seq(W)
      BY <3>2, <3>4 DEF Prop, Reg
    <3> QED BY <3>5 DEF W
  <2> QED BY <1>3, <2>1, <2>2 DEF Node, Kinds
<1>6. /\ dts' \in Seq(Node) /\ Len(dts') = n /\ dts'[n] = node
      /\ \A i \in 1..Len(dts) : dts'[i] = dts[i]
  <2> HIDE DEF node
  <2>1. dts \in Seq(Node)
    BY <1>3 DEF TreeOK
  <2> QED BY <1>4, <1>5, <2>1, AppendProperties
<1> HIDE DEF node
<1>7. Len(dts) >= 1 /\ Root \in 1..Len(dts)
  BY <1>3 DEF TreeOK, Root
<1>8. ASSUME NEW i \in 2..n
      PROVE  /\ dts'[i].kind \in Kinds
             /\ dts'[i].parent \in 1..i-1
             /\ dts'[dts'[i].parent].kind \in ParentKind[dts'[i].kind]
             /\ dts'[i].prop \in Prop(dts'[i].kind)
             /\ dts'[i].label # NoLabel => dts'[i].kind = "gpio"
  <2>1. CASE i = n
    <3>1. p \in 1..n-1 /\ dts'[p] = dts[p] /\ dts'[i] = node
      BY <1>3, <1>6, <2>1
    <3> QED BY <1>4, <1>5, <2>1, <3>1 DEF Kinds
  <2>2. CASE i # n
    <3>1. i \in 2..Len(dts)
      BY <1>3, <2>2
    <3>2. dts[i].parent \in 1..i-1 /\ dts'[i] = dts[i]
      <4>1. i \in 1..Len(dts)
        BY <1>3, <3>1
      <4>2. dts[i].parent \in 1..i-1
        BY <1>3, <3>1 DEF TreeOK
      <4> QED BY <1>6, <4>1, <4>2
    <3>3. dts[i].parent \in 1..Len(dts)
      BY <1>3, <3>1, <3>2
    <3>4. dts'[dts'[i].parent] = dts[dts[i].parent]
      BY <1>6, <3>2, <3>3
    <3> QED BY <1>3, <3>1, <3>2, <3>4 DEF TreeOK
  <2> QED BY <2>1, <2>2
<1>9. ASSUME NEW i \in 1..n, NEW j \in 1..n, dts'[i].label = dts'[j].label
      PROVE  dts'[i].label = NoLabel \/ i = j
  <2>1. \A k \in 1..n : k = n \/ k \in 1..Len(dts)
    BY <1>3
  <2>2. CASE i \in 1..Len(dts) /\ j \in 1..Len(dts)
    BY <1>3, <1>6, <1>9, <2>2 DEF TreeOK
  <2>3. CASE i = n /\ j \in 1..Len(dts)
    BY <1>3, <1>4, <1>5, <1>6, <1>9, <2>3
  <2>4. CASE j = n /\ i \in 1..Len(dts)
    BY <1>3, <1>4, <1>5, <1>6, <1>9, <2>4
  <2> QED BY <2>1, <2>2, <2>3, <2>4
<1>10. TreeOK'
  <2>1. Len(dts') >= 1 /\ dts'[Root] = dts[Root]
    BY <1>3, <1>6, <1>7
  <2> QED BY <1>3, <1>6, <1>8, <1>9, <2>1 DEF TreeOK
<1>11. ~Compiles /\ ~Compiles'
  BY <1>4 DEF Compiles
<1> QED BY <1>4, <1>10, <1>11 DEF TreeInv

\* The compiler has accepted the tree, and nothing is numbered yet.
LEMMA CompiledInv ==
    ASSUME TreeInv, Compiled
    PROVE  TreeInv'
<1>1. /\ TreeOK /\ lines = <<>> /\ nodes = <<>> /\ DOMAIN labels = {} /\ out = <<>>
      /\ dt_path = NoNode
  BY DEF TreeInv, Compiled, Compiles
<1>2. /\ pass' = "ords" /\ UNCHANGED <<dts, lines, nodes, labels, out, dt_path>> /\ RefsOK
  BY DEF Compiled, treeVars, RefsOK
<1>3. TreeOK' /\ RefsOK'
  BY <1>1, <1>2, SameTree
<1>4. lines' = <<>> /\ nodes' = <<>> /\ out' = <<>> /\ dt_path' = NoNode
  BY <1>1, <1>2
<1>5. OrdInv'
  <2>1. lines' \in Seq(Nodes') /\ Len(lines') = 0 /\ DOMAIN lines' = {}
    BY <1>4
  <2>2. Numbered' = {}
    BY <2>1 DEF Numbered
  <2>3. Cardinality(Numbered') = 0
    BY <2>2, FS_EmptySet
  <2>4. Len(dts') >= 1
    BY <1>3 DEF TreeOK
  <2> QED BY <1>2, <1>4, <2>1, <2>3, <2>4 DEF OrdInv
<1>6. ParseInv'
  BY <1>2, <1>4 DEF ParseInv
<1>7. LinkInv'
  BY <1>2 DEF LinkInv
<1>8. OutInv'
  BY <1>2, <1>4 DEF OutInv
<1>9. Compiles' /\ LabelInv'
  BY <1>1, <1>2, <1>4 DEF Compiles, LabelInv
<1> QED BY <1>3, <1>5, <1>6, <1>7, <1>8, <1>9 DEF TreeInv

\* As long as a node has no number, one of them may get its own: a node refers
\* only to a controller, which refers to none, and is below none that refers.
LEMMA ReadyExists ==
    ASSUME TreeOK, Nodes \ Numbered # {}
    PROVE  Ready # {}
<1> DEFINE U == Nodes \ Numbered
           V == {n \in U : ~Refers(dts[n].kind)}
<1>1. \A n \in Nodes : n \in Nat
  BY NodesFacts
<1>2. ~Refers(dts[Root].kind) /\ dts[Root].parent = NoNode
  BY DEF TreeOK, Refers
<1>3. ASSUME NEW n \in Nodes, n # Root
      PROVE  /\ dts[n].parent \in Nodes /\ dts[n].parent < n
             /\ ~Refers(dts[dts[n].parent].kind)
  <2>1. dts[n].parent \in Nodes /\ dts[n].parent < n
    BY <1>3, NodesFacts
  <2>2. ~Refers(dts[dts[n].parent].kind)
    BY <1>3, KindOfParent
  <2> QED BY <2>1, <2>2
<1>4. ASSUME NEW n \in Nodes
      PROVE  /\ ~Refers(dts[n].kind) => Referred(n) = {}
             /\ \A m \in Referred(n) : m \in Nodes /\ ~Refers(dts[m].kind)
  BY ReferredFacts DEF Refers
<1>5. CASE V # {}
  <2>1. V \in SUBSET Nat
    BY <1>1
  <2>2. PICK v \in V : \A y \in V : v =< y
    BY <1>5, <2>1, LeastNat
  <2>3. v \in U /\ v \in Nodes /\ v \in Nat /\ Referred(v) = {}
    BY <1>1, <1>4
  <2>4. dts[v].parent \in Numbered \cup {NoNode}
    <3>1. CASE v = Root
      BY <1>2, <3>1
    <3>2. CASE v # Root
      <4> DEFINE p == dts[v].parent
      <4>1. p \in Nodes /\ p < v /\ ~Refers(dts[p].kind)
        BY <1>3, <2>3, <3>2
      <4>2. p \in Nat
        BY <1>1, <4>1
      <4> HIDE DEF p
      <4>3. p \notin V
        <5> HIDE DEF V
        <5> QED BY <2>2, <2>3, <4>1, <4>2
      <4>4. p \in Numbered
        BY <4>1, <4>3
      <4> QED BY <4>4 DEF p
    <3> QED BY <3>1, <3>2
  <2>5. v \in Ready
    BY <2>3, <2>4 DEF Ready
  <2> QED BY <2>5
<1>6. CASE V = {}
  <2>1. PICK u \in U : TRUE
    OBVIOUS
  <2>2. u \in Nodes /\ Refers(dts[u].kind) /\ u # Root
    BY <1>2, <1>6
  <2>3. \A m \in Referred(u) : m \in Numbered
    BY <1>4, <1>6, <2>2
  <2>4. dts[u].parent \in Nodes /\ ~Refers(dts[dts[u].parent].kind)
    BY <1>3, <2>2
  <2>5. dts[u].parent \in Numbered
    BY <1>6, <2>4
  <2>6. u \in Ready
    BY <2>1, <2>3, <2>5 DEF Ready
  <2> QED BY <2>6
<1> QED BY <1>5, <1>6

\* Some node is left as long as there are fewer lines than nodes.
LEMMA NumberedFacts ==
    ASSUME TreeOK, OrdInv
    PROVE  /\ Numbered \subseteq Nodes /\ IsFiniteSet(Numbered)
           /\ Len(lines) < Len(dts) => Nodes \ Numbered # {}
           /\ Len(lines) = Len(dts) => Numbered = Nodes
<1>1. lines \in Seq(Nodes) /\ DOMAIN lines = 1..Len(lines)
  BY LenProperties DEF OrdInv
<1>2. Numbered \in SUBSET Nodes
  <2>1. \A i \in 1..Len(lines) : lines[i] \in Nodes
    BY <1>1, ElementOfSeq
  <2> QED BY <1>1, <2>1 DEF Numbered
<1>3. IsFiniteSet(Nodes) /\ Cardinality(Nodes) = Len(dts) /\ Len(dts) \in Nat
  BY NodesFacts
<1>4. IsFiniteSet(Numbered) /\ (Cardinality(Nodes) = Cardinality(Numbered) => Nodes = Numbered)
  BY <1>2, <1>3, FS_Subset
<1>5. Cardinality(Numbered) = Len(lines)
  BY DEF OrdInv
<1>6. Nodes \ Numbered = {} => Nodes = Numbered
  BY <1>2
<1>7. Len(lines) < Len(dts) => Len(lines) # Len(dts)
  BY <1>1, <1>3, LenProperties
<1> QED BY <1>2, <1>3, <1>4, <1>5, <1>6, <1>7

\* A PATH line remembers a node that has no number.
LEMMA PathLineInv ==
    ASSUME TreeInv, PathLine
    PROVE  TreeInv'
<1>1. Compiles /\ pass = "ords"
  BY DEF PathLine, Compiles
<1>2. TreeOK /\ RefsOK /\ OrdInv /\ ParseInv /\ LabelInv /\ LinkInv /\ OutInv
  BY <1>1 DEF TreeInv
<1>3. /\ UNCHANGED <<pass, dts, lines, ords, nodes, labels, target, parent, out>>
      /\ dt_path' = NextNode
  BY DEF PathLine
<1>4. Ready # {} /\ Ready \in SUBSET Nat
  <2>1. Nodes \ Numbered # {}
    BY <1>1, <1>2, NumberedFacts DEF OrdInv
  <2>2. Ready \subseteq Nodes
    BY DEF Ready
  <2> QED BY <1>2, <2>1, <2>2, ReadyExists, NodesFacts
<1>5. dt_path' \in Nodes
  <2>1. \E n \in Ready : \A m \in Ready : n <= m
    BY <1>4, LeastNat
  <2>2. dt_path' \in Ready
    BY <1>3, <2>1 DEF NextNode
  <2> QED BY <2>2 DEF Ready
<1>6. TreeOK' /\ RefsOK' /\ Nodes' = Nodes /\ Route' = Route /\ Compiles'
  BY <1>1, <1>2, <1>3, SameTree DEF Compiles
<1>7. OrdInv'
  <2>1. Numbered' = Numbered
    BY <1>3 DEF Numbered
  <2>2. NextNode' = NextNode
    <3>1. Ready' = Ready
      BY <1>3, <1>6, <2>1, SameTree DEF Ready
    <3> QED BY <3>1 DEF NextNode
  <2> QED BY <1>2, <1>3, <1>5, <1>6, <2>1, <2>2 DEF OrdInv
<1>8. ParseInv' /\ LinkInv' /\ LabelInv'
  BY <1>1, <1>2, <1>3, <1>6 DEF ParseInv, LinkInv, LabelInv
<1>9. OutInv'
  <2>1. out = <<>> /\ out' = <<>>
    BY <1>1, <1>2, <1>3 DEF OutInv
  <2> QED BY <1>1, <1>3, <2>1 DEF OutInv
<1> QED BY <1>6, <1>7, <1>8, <1>9 DEF TreeInv

\* An ORD line gives the node its number: nobody else has its path.
LEMMA OrdLineInv ==
    ASSUME TreeInv, OrdLine
    PROVE  TreeInv'
<1>1. Compiles /\ pass = "ords"
  BY DEF OrdLine, Compiles
<1>2. TreeOK /\ RefsOK /\ OrdInv /\ ParseInv /\ LabelInv /\ LinkInv /\ OutInv
  BY <1>1 DEF TreeInv
<1> DEFINE path == Route[dt_path]
           n == Len(lines)
<1>3. /\ UNCHANGED <<dts, dt_path, nodes, labels, target, parent, out>>
      /\ dt_path \notin Numbered \cup {NoNode}
      /\ ords' = [p \in DOMAIN ords \cup {path} |-> IF p = path THEN n ELSE ords[p]]
      /\ lines' = Append(lines, dt_path)
      /\ pass' = IF n + 1 = Len(dts) THEN "parse" ELSE "ords"
  <2>1. dt_path = NextNode
    BY <1>2 DEF OrdLine, OrdInv
  <2> QED BY <2>1 DEF OrdLine
<1>4. /\ TreeOK' /\ RefsOK' /\ Nodes' = Nodes /\ Route' = Route /\ Compiles'
      /\ Len(dts) \in Nat
  BY <1>2, <1>3, SameTree, NodesFacts DEF Compiles
<1>5. dt_path \in Nodes /\ lines \in Seq(Nodes) /\ n < Len(dts) /\ n \in Nat
  BY <1>1, <1>2, <1>3, LenProperties DEF OrdInv
<1>6. /\ lines' \in Seq(Nodes) /\ Len(lines') = n + 1 /\ lines'[n + 1] = dt_path
      /\ \A i \in 1..n : lines'[i] = lines[i]
  BY <1>3, <1>5, AppendProperties
<1>7. Numbered' = Numbered \cup {dt_path}
  <2>1. DOMAIN lines' = 1..n+1 /\ DOMAIN lines = 1..n
    BY <1>5, <1>6, LenProperties
  <2>2. Numbered' = {lines'[i] : i \in 1..n+1} /\ Numbered = {lines[i] : i \in 1..n}
    BY <2>1 DEF Numbered
  <2>3. \A i \in 1..n+1 : i \in 1..n \/ i = n + 1
    BY <1>5
  <2>4. \A i \in 1..n : i \in 1..n+1
    BY <1>5
  <2>5. n + 1 \in 1..n+1
    BY <1>5
  <2> HIDE DEF n
  <2> QED BY <1>6, <2>2, <2>3, <2>4, <2>5
<1>8. Cardinality(Numbered') = n + 1
  <2>1. IsFiniteSet(Numbered) /\ Cardinality(Numbered) = n
    BY <1>2, NumberedFacts DEF OrdInv
  <2> QED BY <1>3, <1>7, <2>1, FS_AddElement
<1>9. ASSUME NEW i \in 1..n+1
      PROVE  Route[lines'[i]] \in DOMAIN ords' /\ ords'[Route[lines'[i]]] = i - 1
  <2>1. CASE i = n + 1
    <3>1. Route[lines'[i]] = path
      BY <1>6, <2>1
    <3>2. path \in DOMAIN ords' /\ ords'[path] = n
      BY <1>3
    <3> QED BY <1>5, <2>1, <3>1, <3>2
  <2>2. CASE i \in 1..n
    <3>1. lines'[i] = lines[i] /\ lines[i] \in Nodes /\ lines[i] # dt_path
      <4>1. lines'[i] = lines[i] /\ lines[i] \in Nodes
        BY <1>5, <1>6, <2>2, ElementOfSeq
      <4>2. lines[i] \in Numbered
        BY <1>5, <2>2, LenProperties DEF Numbered
      <4> QED BY <1>3, <4>1, <4>2
    <3>2. Route[lines[i]] # path
      BY <1>2, <1>5, <3>1, RouteInjective
    <3>3. Route[lines[i]] \in DOMAIN ords /\ ords[Route[lines[i]]] = i - 1
      BY <1>2, <2>2 DEF OrdInv
    <3> HIDE DEF path
    <3> QED BY <1>3, <3>1, <3>2, <3>3
  <2> QED BY <1>5, <2>1, <2>2
<1>10. OrdInv'
  <2>1. IF pass' = "ords" THEN n + 1 < Len(dts) ELSE n + 1 = Len(dts)
    BY <1>3, <1>4, <1>5
  <2>2. dt_path' \in Numbered'
    BY <1>3, <1>7
  <2> HIDE DEF path, n
  <2> QED BY <1>3, <1>4, <1>5, <1>6, <1>8, <1>9, <2>1, <2>2 DEF OrdInv
<1>11. nodes = <<>> /\ out = <<>>
  BY <1>1, <1>2 DEF ParseInv, OutInv
<1>12. pass' \in {"ords", "parse"} /\ Len(dts') >= 1
  BY <1>3, <1>4 DEF TreeOK
<1>13. ParseInv'
  BY <1>3, <1>11, <1>12 DEF ParseInv
<1>14. LinkInv' /\ OutInv' /\ LabelInv'
  BY <1>2, <1>3, <1>4, <1>11, <1>12 DEF LinkInv, OutInv, LabelInv
<1> QED BY <1>4, <1>10, <1>13, <1>14 DEF TreeInv

\* Walking the tree, a node's route is its parent's with its name, and the path
\* of every node has got a number.
LEMMA WalkNodeInv ==
    ASSUME TreeInv, WalkNode
    PROVE  TreeInv'
<1>1. Compiles /\ pass = "parse"
  BY DEF WalkNode, Compiles
<1>2. TreeOK /\ RefsOK /\ OrdInv /\ ParseInv /\ LabelInv /\ LinkInv /\ OutInv
  BY <1>1 DEF TreeInv
<1> DEFINE n == Len(nodes) + 1
           route == IF n = Root THEN <<>> ELSE NodeRoute(n)
           label == {dts[n].label} \ {NoLabel}
           node == [route |-> route, ord |-> IF route \in DOMAIN ords THEN ords[route] ELSE 0]
<1>3. /\ nodes' = Append(nodes, node)
      /\ labels' = [l \in DOMAIN labels \cup label |->
                      IF l \in label THEN n ELSE labels[l]]
      /\ pass' = CASE route \notin DOMAIN ords -> "panicked"
                   [] n = Len(dts) -> "phandles"
                   [] OTHER -> "parse"
      /\ UNCHANGED <<dts, dt_path, lines, ords, target, parent, out>>
  BY DEF WalkNode
<1>4. /\ nodes \in Seq([route : Seq(Nat), ord : Nat]) /\ Len(nodes) \in Nat
      /\ Len(nodes) < Len(dts) /\ Len(dts) \in Nat /\ Nodes = 1..Len(dts)
  BY <1>1, <1>2, LenProperties, NodesFacts DEF ParseInv
<1>5. n \in Nodes /\ n \in Nat
  BY <1>4
<1>6. route = Route[n]
  <2>1. CASE n = Root
    BY <1>2, <2>1, RouteIs
  <2>2. CASE n # Root
    <3> DEFINE p == dts[n].parent
    <3>1. p \in Nodes /\ p < n
      BY <1>2, <1>5, <2>2, NodesFacts
    <3>2. p \in 1..Len(nodes)
      <4> HIDE DEF p
      <4> QED BY <1>4, <3>1
    <3>3. nodes[p].route = Route[p]
      BY <1>2, <3>2 DEF ParseInv
    <3>4. Route[n] = Append(Route[p], Name(n))
      BY <1>2, <1>5, <2>2, RouteIs
    <3> QED BY <2>2, <3>3, <3>4 DEF NodeRoute
  <2> QED BY <2>1, <2>2
<1>7. Route[n] \in Seq(Nat)
  BY <1>2, <1>5, RouteIs
<1>8. PICK i \in 1..Len(lines) : lines[i] = n
  <2>1. Numbered = Nodes
    BY <1>1, <1>2, NumberedFacts DEF OrdInv
  <2>2. DOMAIN lines = 1..Len(lines)
    BY <1>2, LenProperties DEF OrdInv
  <2> QED BY <1>5, <2>1, <2>2 DEF Numbered
<1>9. route \in DOMAIN ords /\ ords[route] = i - 1
  BY <1>2, <1>6, <1>8 DEF OrdInv
<1>10. i - 1 \in Nat /\ (i - 1) + 1 = i
  BY <1>8
<1>11. /\ node \in [route : Seq(Nat), ord : Nat]
       /\ node.route = Route[n] /\ node.ord = i - 1
  <2> HIDE DEF n, route
  <2>1. node = [route |-> Route[n], ord |-> i - 1]
    BY <1>6, <1>9
  <2> QED BY <1>7, <1>10, <2>1
<1> HIDE DEF node, route
<1>12. /\ nodes' \in Seq([route : Seq(Nat), ord : Nat]) /\ Len(nodes') = n
       /\ nodes'[n] = node /\ \A m \in 1..Len(nodes) : nodes'[m] = nodes[m]
  BY <1>3, <1>4, <1>11, AppendProperties
<1>13. /\ TreeOK' /\ RefsOK' /\ Nodes' = Nodes /\ Route' = Route
  BY <1>2, <1>3, SameTree
<1>14. pass' = IF n = Len(dts) THEN "phandles" ELSE "parse"
  BY <1>3, <1>9
<1>15. Compiles'
  BY <1>14 DEF Compiles
<1>16. OrdInv'
  <2>1. Numbered' = Numbered /\ pass' # "ords"
    BY <1>3, <1>14 DEF Numbered
  <2>2. dt_path' \in Numbered' \cup {NoNode}
    BY <1>1, <1>2, <1>3, <2>1, NumberedFacts DEF OrdInv
  <2> QED BY <1>1, <1>2, <1>3, <1>13, <2>1, <2>2 DEF OrdInv
<1>17. ParseInv'
  <2>1. ASSUME NEW m \in 1..n
        PROVE  /\ nodes'[m].route = Route[m]
               /\ nodes'[m].ord + 1 \in 1..Len(lines) /\ lines[nodes'[m].ord + 1] = m
    <3>1. CASE m = n
      <4>1. nodes'[m].route = Route[m] /\ nodes'[m].ord = i - 1
        BY <1>11, <1>12, <3>1
      <4> QED BY <1>8, <1>10, <3>1, <4>1
    <3>2. CASE m # n
      <4>1. m \in 1..Len(nodes)
        BY <1>4, <3>2
      <4>2. nodes'[m] = nodes[m]
        BY <1>12, <4>1
      <4> QED BY <1>2, <4>1, <4>2 DEF ParseInv
    <3> QED BY <3>1, <3>2
  <2>2. IF pass' = "parse" THEN n < Len(dts) ELSE n = Len(dts)
    BY <1>4, <1>14
  <2>3. pass' \in {"parse", "phandles"}
    BY <1>14
  <2> HIDE DEF n
  <2> QED BY <1>3, <1>12, <1>13, <2>1, <2>2, <2>3 DEF ParseInv
<1>18. LinkInv' /\ OutInv'
  <2>1. pass' \in {"parse", "phandles"} /\ out' = <<>>
    BY <1>1, <1>2, <1>3, <1>14 DEF OutInv
  <2> QED BY <2>1 DEF LinkInv, OutInv
<1>19. LabelInv'
  <2>1. ASSUME NEW l \in DOMAIN labels'
        PROVE  l # NoLabel /\ labels'[l] \in Nodes /\ dts[labels'[l]].label = l
    <3>1. CASE l \in label
      <4>1. l = dts[n].label /\ l # NoLabel /\ labels'[l] = n
        <5> HIDE DEF n
        <5> QED BY <1>3, <3>1
      <4> QED BY <1>5, <4>1
    <3>2. CASE l \notin label
      <4>1. l \in DOMAIN labels /\ labels'[l] = labels[l]
        <5> HIDE DEF label
        <5> QED BY <1>3, <3>2
      <4> QED BY <1>2, <4>1 DEF LabelInv
    <3> QED BY <3>1, <3>2
  <2>2. ASSUME NEW m \in 1..n, dts[m].label # NoLabel PROVE dts[m].label \in DOMAIN labels'
    <3>1. DOMAIN labels' = DOMAIN labels \cup label
      <4> HIDE DEF label
      <4> QED BY <1>3
    <3>2. CASE m = n
      BY <2>2, <3>1, <3>2
    <3>3. CASE m # n
      <4>1. m \in 1..Len(nodes)
        BY <1>4, <3>3
      <4> QED BY <1>2, <2>2, <3>1, <4>1 DEF LabelInv
    <3> QED BY <3>2, <3>3
  <2> HIDE DEF n, label
  <2> QED BY <1>3, <1>12, <1>13, <2>1, <2>2 DEF LabelInv
<1> QED BY <1>13, <1>15, <1>16, <1>17, <1>18, <1>19 DEF TreeInv

\* Every phandle is that of a labelled node.
LEMMA PhandleWalkInv ==
    ASSUME TreeInv, PhandleWalk
    PROVE  TreeInv'
<1>1. Compiles /\ pass = "phandles"
  BY DEF PhandleWalk, Compiles
<1>2. TreeOK /\ RefsOK /\ OrdInv /\ ParseInv /\ LabelInv /\ OutInv
  BY <1>1 DEF TreeInv
<1> DEFINE phandles(n) == {i \in DOMAIN dts[n].prop : dts[n].prop[i] # Number}
<1>3. ASSUME NEW n \in Nodes, NEW i \in phandles(n)
      PROVE  /\ dts[n].prop[i] \in DOMAIN labels
             /\ labels[dts[n].prop[i]] \in Nodes
             /\ dts[labels[dts[n].prop[i]]].label = dts[n].prop[i]
  <2> DEFINE l == dts[n].prop[i]
  <2>1. l \in Labels
    BY <1>2, PropFacts
  <2>2. PICK m \in Nodes : dts[m].label = l
    BY <1>2, <2>1 DEF RefsOK
  <2>3. l # NoLabel
    BY <2>1, DevicetreeAssumption
  <2>4. m \in 1..Len(nodes)
    BY <1>1, <1>2, NodesFacts DEF ParseInv
  <2>5. l \in DOMAIN labels
    BY <1>2, <2>2, <2>3, <2>4 DEF LabelInv
  <2> HIDE DEF l
  <2>6. labels[l] \in Nodes /\ dts[labels[l]].label = l
    BY <1>2, <2>5 DEF LabelInv
  <2> QED BY <2>5, <2>6 DEF l
<1>4. /\ target' = [n \in Nodes |-> [i \in phandles(n) |-> labels[dts[n].prop[i]]]]
      /\ pass' = "parents"
      /\ UNCHANGED <<dts, dt_path, lines, ords, nodes, labels, parent, out>>
  <2>1. \A n \in Nodes : \A i \in phandles(n) : dts[n].prop[i] \in DOMAIN labels
    BY <1>3
  <2> QED BY <2>1 DEF PhandleWalk
<1>5. \A n \in Nodes : \A i \in DOMAIN dts[n].prop : dts[n].prop[i] # Number =>
        target'[n][i] \in Nodes /\ dts[target'[n][i]].label = dts[n].prop[i]
  <2> SUFFICES ASSUME NEW n \in Nodes, NEW i \in DOMAIN dts[n].prop, dts[n].prop[i] # Number
               PROVE  target'[n][i] \in Nodes /\ dts[target'[n][i]].label = dts[n].prop[i]
    OBVIOUS
  <2>1. i \in phandles(n)
    OBVIOUS
  <2> HIDE DEF phandles
  <2>2. target'[n][i] = labels[dts[n].prop[i]]
    BY <1>4, <2>1
  <2> QED BY <1>3, <2>1, <2>2
<1>6. TreeOK' /\ RefsOK' /\ Nodes' = Nodes /\ Route' = Route /\ Compiles'
  BY <1>2, <1>4, SameTree DEF Compiles
<1>7. OrdInv' /\ ParseInv' /\ LabelInv'
  <2>1. Numbered' = Numbered
    BY <1>4 DEF Numbered
  <2>2. OrdInv'
    <3>1. dt_path' \in Numbered' \cup {NoNode}
      BY <1>1, <1>2, <1>4, <2>1, NumberedFacts DEF OrdInv
    <3> QED BY <1>1, <1>2, <1>4, <1>6, <2>1, <3>1 DEF OrdInv
  <2>3. ParseInv'
    BY <1>1, <1>2, <1>4, <1>6 DEF ParseInv
  <2>4. LabelInv'
    BY <1>2, <1>4, <1>6 DEF LabelInv
  <2> QED BY <2>2, <2>3, <2>4
<1>8. LinkInv'
  BY <1>4, <1>5, <1>6 DEF LinkInv
<1>9. OutInv'
  <2>1. out' = <<>>
    BY <1>1, <1>2, <1>4 DEF OutInv
  <2> QED BY <1>4, <2>1 DEF OutInv
<1> QED BY <1>6, <1>7, <1>8, <1>9 DEF TreeInv

\* parent_walk sets the parent of every node.
LEMMA ParentWalkInv ==
    ASSUME TreeInv, ParentWalk
    PROVE  TreeInv'
<1>1. Compiles /\ pass = "parents"
  BY DEF ParentWalk, Compiles
<1>2. TreeOK /\ RefsOK /\ OrdInv /\ ParseInv /\ LabelInv /\ LinkInv /\ OutInv
  BY <1>1 DEF TreeInv
<1>3. /\ parent' = [n \in Nodes |-> dts[n].parent] /\ pass' = "generate"
      /\ UNCHANGED <<dts, dt_path, lines, ords, nodes, labels, target, out>>
  BY DEF ParentWalk
<1>4. TreeOK' /\ RefsOK' /\ Nodes' = Nodes /\ Route' = Route /\ Compiles'
  BY <1>2, <1>3, SameTree DEF Compiles
<1>5. OrdInv' /\ ParseInv' /\ LabelInv'
  <2>1. Numbered' = Numbered
    BY <1>3 DEF Numbered
  <2>2. OrdInv'
    <3>1. dt_path' \in Numbered' \cup {NoNode}
      BY <1>1, <1>2, <1>3, <2>1, NumberedFacts DEF OrdInv
    <3> QED BY <1>1, <1>2, <1>3, <1>4, <2>1, <3>1 DEF OrdInv
  <2>3. ParseInv'
    BY <1>1, <1>2, <1>3, <1>4 DEF ParseInv
  <2>4. LabelInv'
    BY <1>2, <1>3, <1>4 DEF LabelInv
  <2> QED BY <2>2, <2>3, <2>4
<1>6. LinkInv'
  BY <1>1, <1>2, <1>3, <1>4 DEF LinkInv
<1>7. OutInv'
  <2>1. out' = <<>> /\ Len(dts') >= 1
    BY <1>1, <1>2, <1>3, <1>4 DEF OutInv, TreeOK
  <2> QED BY <1>3, <2>1 DEF OutInv
<1> QED BY <1>4, <1>5, <1>6, <1>7 DEF TreeInv

-----------------------------------------------------------------------------
(* Devicetree: what NodeWalk generates.                                    *)

ParentSet == parent = [n \in Nodes |-> dts[n].parent]

\* The nodes above a node, level by level.
LEMMA AncestorIs ==
    ASSUME TreeOK, ParentSet
    PROVE  /\ \A n \in Nodes \cup {NoNode} : Ancestor[0][n] = n
           /\ \A steps \in Nat : \A n \in Nodes :
                 Ancestor[steps + 1][n] = Ancestor[steps][dts[n].parent]
           /\ \A steps \in Nat : Ancestor[steps][NoNode] = NoNode
<1> DEFINE N == Nodes \cup {NoNode}
           V == [N -> N]
           D == Nat \ {0}
           up == [k \in D |-> k - 1]
           base == [k \in Nat |-> [n \in N |-> n]]
           step == [k \in Nat |-> [f \in V |->
                      [n \in N |-> IF n = NoNode THEN n ELSE f[parent[n]]]]]
<1>1. \A n \in N : n # NoNode => n \in Nodes /\ parent[n] \in N /\ parent[n] = dts[n].parent
  <2> SUFFICES ASSUME NEW n \in Nodes PROVE parent[n] \in N /\ parent[n] = dts[n].parent
    OBVIOUS
  <2>1. parent[n] = dts[n].parent
    BY DEF ParentSet
  <2>2. n = Root => dts[n].parent = NoNode
    BY DEF TreeOK
  <2>3. n # Root => dts[n].parent \in Nodes
    BY NodesFacts
  <2> QED BY <2>1, <2>2, <2>3
<1>2. D \in SUBSET Nat /\ up \in [D -> Nat] /\ \A k \in D : up[k] < k
  OBVIOUS
<1>3. base \in [Nat -> V]
  OBVIOUS
<1>4. step \in [Nat -> [V -> V]]
  <2>1. ASSUME NEW f \in V PROVE [n \in N |-> IF n = NoNode THEN n ELSE f[parent[n]]] \in V
    <3> HIDE DEF N
    <3> QED BY <1>1
  <2>2. \A f \in V : [n \in N |-> IF n = NoNode THEN n ELSE f[parent[n]]] \in V
    BY <2>1
  <2> HIDE DEF V, N
  <2> QED BY <2>2
<1>5. Recursive(V, D, up, base, step)
  <2> HIDE DEF V, D, up, base, step
  <2> QED BY <1>2, <1>3, <1>4, RecursionExists
<1>6. PICK r \in [Nat -> V] :
        \A k \in Nat : r[k] = IF k \in D THEN step[k][r[up[k]]] ELSE base[k]
  BY <1>5 DEF Recursive
<1>7. ASSUME NEW k \in Nat
      PROVE  r[k] = [n \in N |-> IF k = 0 \/ n = NoNode THEN n ELSE r[k - 1][parent[n]]]
  <2>1. CASE k = 0
    <3>1. r[k] = base[k]
      BY <1>6, <2>1
    <3>2. base[k] = [n \in N |-> n]
      OBVIOUS
    <3> HIDE DEF N, base
    <3> QED BY <2>1, <3>1, <3>2
  <2>2. CASE k # 0
    <3>1. k \in D /\ up[k] = k - 1 /\ k - 1 \in Nat
      BY <2>2
    <3>2. r[k - 1] \in V
      BY <1>6, <3>1
    <3>3. r[k] = step[k][r[k - 1]]
      <4> HIDE DEF V, D, up, step, base
      <4> QED BY <1>6, <3>1
    <3>4. step[k][r[k - 1]] = [n \in N |-> IF n = NoNode THEN n ELSE r[k - 1][parent[n]]]
      <4> HIDE DEF V, N
      <4> QED BY <3>2
    <3> HIDE DEF N, step
    <3> QED BY <2>2, <3>3, <3>4
  <2> QED BY <2>1, <2>2
<1>8. r = [k \in Nat |-> [n \in N |-> IF k = 0 \/ n = NoNode THEN n ELSE r[k - 1][parent[n]]]]
  BY <1>6, <1>7
<1>9. Ancestor = [k \in Nat |-> [n \in N |-> IF k = 0 \/ n = NoNode THEN n
                                            ELSE Ancestor[k - 1][parent[n]]]]
  BY <1>8, Zenon DEF Ancestor
<1>10. \A k \in Nat : \A n \in N :
         Ancestor[k][n] = IF k = 0 \/ n = NoNode THEN n ELSE Ancestor[k - 1][parent[n]]
  <2>1. PICK b : b = Ancestor
    OBVIOUS
  <2>2. Ancestor = [k \in Nat |-> [n \in N |-> IF k = 0 \/ n = NoNode THEN n
                                              ELSE b[k - 1][parent[n]]]]
    BY <1>9, <2>1, Zenon
  <2> HIDE DEF N
  <2>3. \A k \in Nat : \A n \in N :
          Ancestor[k][n] = IF k = 0 \/ n = NoNode THEN n ELSE b[k - 1][parent[n]]
    BY <2>2
  <2> QED BY <2>1, <2>3
<1>11. \A k \in Nat : k + 1 \in Nat /\ k + 1 # 0 /\ (k + 1) - 1 = k
  OBVIOUS
<1>12. NoNode \in N /\ \A n \in Nodes : n \in N /\ n # NoNode
  BY NodesFacts DEF NoNode
<1> HIDE DEF N
<1>13. \A n \in N : Ancestor[0][n] = n
  BY <1>10
<1>14. \A k \in Nat : Ancestor[k][NoNode] = NoNode
  BY <1>10, <1>12
<1>15. \A k \in Nat : \A n \in Nodes : Ancestor[k + 1][n] = Ancestor[k][dts[n].parent]
  <2> SUFFICES ASSUME NEW k \in Nat, NEW n \in Nodes
               PROVE  Ancestor[k + 1][n] = Ancestor[k][dts[n].parent]
    OBVIOUS
  <2>1. Ancestor[k + 1][n] = Ancestor[(k + 1) - 1][parent[n]]
    BY <1>10, <1>11, <1>12
  <2> QED BY <1>1, <1>11, <1>12, <2>1
<1> QED BY <1>13, <1>14, <1>15 DEF N

\* The ancestors that rules and instances ask for.
LEMMA Levels ==
    ASSUME TreeOK, ParentSet, NEW n \in Nodes
    PROVE  /\ Ancestor[0][n] = n
           /\ Ancestor[1][n] = dts[n].parent
           /\ n # Root => Ancestor[2][n] = dts[dts[n].parent].parent
           /\ n # Root /\ dts[n].parent # Root =>
                 Ancestor[3][n] = dts[dts[dts[n].parent].parent].parent
<1>1. dts[n].parent \in Nodes \cup {NoNode}
  <2>1. n = Root => dts[n].parent = NoNode
    BY DEF TreeOK
  <2> QED BY <2>1, NodesFacts
<1>2. ASSUME NEW m \in Nodes
      PROVE  Ancestor[1][m] = dts[m].parent
  <2>1. dts[m].parent \in Nodes \cup {NoNode}
    <3>1. m = Root => dts[m].parent = NoNode
      BY DEF TreeOK
    <3> QED BY <3>1, NodesFacts
  <2>2. Ancestor[0 + 1][m] = Ancestor[0][dts[m].parent]
    BY AncestorIs
  <2> QED BY <2>1, <2>2, AncestorIs
<1>3. ASSUME NEW m \in Nodes, m # Root
      PROVE  Ancestor[2][m] = dts[dts[m].parent].parent
  <2>1. dts[m].parent \in Nodes
    BY <1>3, NodesFacts
  <2>2. Ancestor[1 + 1][m] = Ancestor[1][dts[m].parent]
    BY AncestorIs
  <2> QED BY <1>2, <2>1, <2>2
<1>4. ASSUME n # Root, dts[n].parent # Root
      PROVE  Ancestor[3][n] = dts[dts[dts[n].parent].parent].parent
  <2>1. dts[n].parent \in Nodes
    BY <1>4, NodesFacts
  <2>2. Ancestor[2 + 1][n] = Ancestor[2][dts[n].parent]
    BY AncestorIs
  <2>3. Ancestor[2][dts[n].parent] = dts[dts[dts[n].parent].parent].parent
    BY <1>3, <1>4, <2>1
  <2> QED BY <2>2, <2>3
<1>5. Ancestor[0][n] = n
  BY AncestorIs
<1> QED BY <1>2, <1>3, <1>4, <1>5

\* A rule of level 0 is about the node, and one of level 1 about its parent.
LEMMA RuleFacts ==
    ASSUME TreeOK, ParentSet, NEW n \in Nodes, NEW kind, NEW cfg, NEW raw, NEW steps, NEW args
    PROVE  /\ IsCompatible(Aug({<<kind, 0>>}, cfg, raw, steps, args), n) <=> dts[n].kind = kind
           /\ IsCompatible(Aug({<<kind, 1>>}, cfg, raw, steps, args), n) <=>
                 n # Root /\ dts[dts[n].parent].kind = kind
<1>1. Ancestor[0][n] = n /\ Ancestor[1][n] = dts[n].parent
  BY Levels
<1>2. n # NoNode /\ (dts[n].parent = NoNode <=> n = Root)
  <2>1. \A m \in Nodes : m # NoNode
    BY NodesFacts DEF NoNode
  <2>2. dts[Root].parent = NoNode
    BY DEF TreeOK
  <2> QED BY <2>1, <2>2, NodesFacts
<1>3. ASSUME NEW k
      PROVE  IsCompatible(Aug({<<kind, k>>}, cfg, raw, steps, args), n) <=>
               Ancestor[k][n] # NoNode /\ dts[Ancestor[k][n]].kind = kind
  <2>1. Aug({<<kind, k>>}, cfg, raw, steps, args).rules = {<<kind, k>>}
    BY DEF Aug
  <2>2. <<kind, k>>[1] = kind /\ <<kind, k>>[2] = k
    OBVIOUS
  <2> QED BY <2>1, <2>2 DEF IsCompatible
<1> QED BY <1>1, <1>2, <1>3

\* The augmentation that is compatible with a node is told from its kind.
LEMMA CompatibleIs ==
    ASSUME TreeOK, ParentSet, NEW n \in Nodes
    PROVE  {a \in Augmentations : IsCompatible(a, n)} =
              IF dts[n].kind \in HasInstance THEN {AugOf(dts[n].kind)} ELSE {}
<1> DEFINE kind == dts[n].kind
           A1 == Aug({<<"gpio", 0>>}, "GPIO", "Myself", 0, "none")
           A2 == Aug({<<"leds", 1>>}, "GPIO", "Phandle", 0, "none")
           A3 == Aug({<<"keys", 1>>}, "none", "Phandle", 0, "none")
           A4 == Aug({<<"pwm_leds", 0>>}, "LED_PWM", "Myself", 0, "none")
           A5 == Aug({<<"pwm_leds", 1>>}, "LED_PWM", "Parent", 1, "ChildIdx")
           A6 == Aug({<<"flash", 0>>}, "FLASH", "Myself", 0, "none")
           A7 == Aug({<<"partitions", 1>>, <<"nv_flash", 2>>}, "FLASH", "Parent", 3, "Reg")
<1>1. Augmentations = {A1, A2, A3, A4, A5, A6, A7}
  BY DEF Augmentations, GpioAugmentations, PwmAugmentations, FlashAugmentations
<1>2. n = Root => kind = "root"
  BY DEF TreeOK
<1>3. /\ n # Root /\ dts[dts[n].parent].kind = "leds" <=> kind = "led"
      /\ n # Root /\ dts[dts[n].parent].kind = "keys" <=> kind = "key"
      /\ n # Root /\ dts[dts[n].parent].kind = "pwm_leds" <=> kind = "pwm_led"
      /\ n # Root /\ dts[dts[n].parent].kind = "partitions" <=> kind = "partition"
  <2>1. CASE n = Root
    BY <1>2, <2>1
  <2>2. CASE n # Root
    BY <2>2, KindOfParent
  <2> QED BY <2>1, <2>2
<1>4. /\ IsCompatible(A1, n) <=> kind = "gpio"
      /\ IsCompatible(A4, n) <=> kind = "pwm_leds"
      /\ IsCompatible(A6, n) <=> kind = "flash"
  BY RuleFacts
<1>5. /\ IsCompatible(A2, n) <=> kind = "led"
      /\ IsCompatible(A3, n) <=> kind = "key"
      /\ IsCompatible(A5, n) <=> kind = "pwm_led"
  <2>1. /\ IsCompatible(A2, n) <=> n # Root /\ dts[dts[n].parent].kind = "leds"
        /\ IsCompatible(A3, n) <=> n # Root /\ dts[dts[n].parent].kind = "keys"
        /\ IsCompatible(A5, n) <=> n # Root /\ dts[dts[n].parent].kind = "pwm_leds"
    BY RuleFacts
  <2> HIDE DEF A2, A3, A5, kind
  <2> QED BY <1>3, <2>1
<1>6. IsCompatible(A7, n) <=> kind = "partition"
  <2> DEFINE p == dts[n].parent
  <2>1. IsCompatible(A7, n) <=>
          /\ Ancestor[1][n] # NoNode /\ dts[Ancestor[1][n]].kind = "partitions"
          /\ Ancestor[2][n] # NoNode /\ dts[Ancestor[2][n]].kind = "nv_flash"
    <3>1. A7.rules = {<<"partitions", 1>>, <<"nv_flash", 2>>}
      BY DEF Aug
    <3>2. /\ <<"partitions", 1>>[1] = "partitions" /\ <<"partitions", 1>>[2] = 1
          /\ <<"nv_flash", 2>>[1] = "nv_flash" /\ <<"nv_flash", 2>>[2] = 2
      OBVIOUS
    <3> HIDE DEF A7
    <3> QED BY <3>1, <3>2 DEF IsCompatible
  <2>2. Ancestor[1][n] = p
    BY Levels
  <2>3. \A m \in Nodes : m # NoNode
    BY NodesFacts DEF NoNode
  <2>4. CASE kind = "partition"
    <3>1. n # Root /\ dts[p].kind = "partitions"
      BY <1>3, <2>4
    <3>2. p \in Nodes /\ p # Root /\ Ancestor[2][n] = dts[p].parent
      <4>1. p \in Nodes /\ Ancestor[2][n] = dts[p].parent
        BY <3>1, NodesFacts, Levels
      <4>2. p # Root
        BY <3>1 DEF TreeOK
      <4> QED BY <4>1, <4>2
    <3>3. dts[p].parent \in Nodes
      BY <3>2, NodesFacts
    <3>4. dts[dts[p].parent].kind = "nv_flash"
      BY <3>1, <3>2, KindOfParent
    <3> HIDE DEF p, A7
    <3> QED BY <2>1, <2>2, <2>3, <2>4, <3>1, <3>2, <3>3, <3>4
  <2>5. CASE kind # "partition"
    <3>1. n = Root => dts[n].parent = NoNode
      BY DEF TreeOK
    <3> HIDE DEF A7
    <3> QED BY <1>3, <2>1, <2>2, <2>5, <3>1
  <2> QED BY <2>4, <2>5
<1>7. /\ AugOf("gpio") = A1 /\ AugOf("led") = A2 /\ AugOf("key") = A3 /\ AugOf("pwm_leds") = A4
      /\ AugOf("pwm_led") = A5 /\ AugOf("flash") = A6 /\ AugOf("partition") = A7
  BY DEF AugOf
<1> DEFINE C == {a \in Augmentations : IsCompatible(a, n)}
<1> HIDE DEF A1, A2, A3, A4, A5, A6, A7, kind
<1>8. CASE kind \in {"gpio", "pwm_leds", "flash"}
  <2>1. C = {AugOf(kind)}
    BY <1>1, <1>4, <1>5, <1>6, <1>7, <1>8
  <2> QED BY <1>8, <2>1 DEF HasInstance, Devices, kind
<1>9. CASE kind \in {"led", "key", "pwm_led", "partition"}
  <2>1. C = {AugOf(kind)}
    BY <1>1, <1>4, <1>5, <1>6, <1>7, <1>9
  <2> QED BY <1>9, <2>1 DEF HasInstance, Devices, kind
<1>10. CASE kind \notin {"gpio", "pwm_leds", "flash", "led", "key", "pwm_led", "partition"}
  <2>1. C = {}
    BY <1>1, <1>4, <1>5, <1>6, <1>10
  <2> QED BY <1>10, <2>1 DEF HasInstance, Devices, kind
<1> QED BY <1>8, <1>9, <1>10

\* The prefix of a sequence.
LEMMA PrefixIs ==
    ASSUME NEW s \in Seq(Nat), NEW t, \A i \in 1..Len(s) : t[i] = s[i]
    PROVE  SubSeq(t, 1, Len(s)) = s
<1>1. Len(s) \in Nat /\ \A i \in 1..Len(s) : t[i] \in Nat
  BY LenProperties, ElementOfSeq
<1>2. /\ SubSeq(t, 1, Len(s)) \in Seq(Nat)
      /\ Len(SubSeq(t, 1, Len(s))) = IF 1 <= Len(s) THEN Len(s) - 1 + 1 ELSE 0
      /\ \A i \in 1..Len(s)-1+1 : SubSeq(t, 1, Len(s))[i] = t[1 + i - 1]
  BY <1>1, SubSeqProperties
<1>3. Len(SubSeq(t, 1, Len(s))) = Len(s)
  BY <1>1, <1>2
<1>4. \A i \in 1..Len(s) : SubSeq(t, 1, Len(s))[i] = s[i]
  <2> SUFFICES ASSUME NEW i \in 1..Len(s) PROVE SubSeq(t, 1, Len(s))[i] = s[i]
    OBVIOUS
  <2>1. i \in 1..Len(s)-1+1 /\ 1 + i - 1 = i
    BY <1>1
  <2> QED BY <1>2, <2>1
<1> QED BY <1>2, <1>3, <1>4, SeqEqual

\* A node's route begins with that of its parent.
LEMMA RouteBelow ==
    ASSUME TreeOK, NEW n \in Nodes, n # Root
    PROVE  LET s == Route[dts[n].parent]
           IN  /\ s \in Seq(Nat) /\ Len(s) \in Nat
               /\ Len(Route[n]) = Len(s) + 1
               /\ \A i \in 1..Len(s) : Route[n][i] = s[i]
<1> DEFINE s == Route[dts[n].parent]
           e == Name(n)
<1>1. s \in Seq(Nat) /\ e \in Nat /\ Route[n] = Append(s, e)
  <2>1. dts[n].parent \in Nodes
    BY NodesFacts
  <2> QED BY <2>1, NameType, RouteIs
<1> HIDE DEF s, e
<1>2. /\ Len(s) \in Nat /\ Len(Append(s, e)) = Len(s) + 1
      /\ \A i \in 1..Len(s) : Append(s, e)[i] = s[i]
  BY <1>1, LenProperties, AppendProperties
<1> QED BY <1>1, <1>2 DEF s

\* The device that a part of it is about is one or three levels up, and the
\* routes through super lead there.
LEMMA PartOfDevice ==
    ASSUME TreeOK, ParentSet, NEW n \in Nodes, dts[n].kind \in {"pwm_led", "partition"}
    PROVE  LET steps == AugOf(dts[n].kind).level
           IN  /\ steps = IF dts[n].kind = "pwm_led" THEN 1 ELSE 3
               /\ Ancestor[steps][n] = About(n) /\ About(n) \in Nodes
               /\ dts[n].kind = "pwm_led" => dts[About(n)].kind = "pwm_leds"
               /\ dts[n].kind = "partition" => dts[About(n)].kind \in {"flash", "other_flash"}
               /\ SubSeq(Route[n], 1, Len(Route[n]) - steps) = Route[About(n)]
<1> DEFINE p == dts[n].parent
           q == dts[p].parent
           g == dts[q].parent
<1>1. n # Root /\ dts[Root].kind = "root"
  BY DEF TreeOK
<1>2. p \in Nodes
  BY <1>1, NodesFacts
<1>3. /\ Route[p] \in Seq(Nat) /\ Len(Route[p]) \in Nat /\ Len(Route[n]) = Len(Route[p]) + 1
      /\ \A i \in 1..Len(Route[p]) : Route[n][i] = Route[p][i]
  BY <1>1, RouteBelow
<1>4. CASE dts[n].kind = "pwm_led"
  <2>1. AugOf(dts[n].kind).level = 1 /\ About(n) = p
    BY <1>4 DEF AugOf, Aug, About, Refers
  <2>2. dts[p].kind = "pwm_leds"
    BY <1>1, <1>4, KindOfParent
  <2>3. Ancestor[1][n] = p
    BY Levels
  <2>4. SubSeq(Route[n], 1, Len(Route[n]) - 1) = Route[p]
    <3> DEFINE s == Route[p]
               t == Route[n]
    <3>1. s \in Seq(Nat) /\ Len(s) \in Nat
      BY <1>3
    <3>2. Len(t) = Len(s) + 1 /\ \A i \in 1..Len(s) : t[i] = s[i]
      BY <1>3
    <3> HIDE DEF s, t
    <3>3. Len(t) - 1 = Len(s)
      BY <3>1, <3>2
    <3>4. SubSeq(t, 1, Len(s)) = s
      BY <3>1, <3>2, PrefixIs
    <3> QED BY <3>3, <3>4 DEF s, t
  <2> QED BY <1>2, <1>4, <2>1, <2>2, <2>3, <2>4
<1>5. CASE dts[n].kind = "partition"
  <2>1. AugOf(dts[n].kind).level = 3 /\ About(n) = g
    BY <1>5 DEF AugOf, Aug, About, Refers
  <2>2. dts[p].kind = "partitions" /\ p # Root
    BY <1>1, <1>5, KindOfParent
  <2>3. q \in Nodes /\ dts[q].kind = "nv_flash" /\ q # Root
    <3>1. q \in Nodes
      BY <1>2, <2>2, NodesFacts
    <3>2. dts[q].kind = "nv_flash"
      BY <1>2, <2>2, KindOfParent
    <3> QED BY <1>1, <3>1, <3>2
  <2>4. g \in Nodes /\ dts[g].kind \in {"flash", "other_flash"}
    <3>1. g \in Nodes
      BY <2>3, NodesFacts
    <3>2. dts[g].kind \in {"flash", "other_flash"}
      BY <2>3, KindOfParent
    <3> QED BY <3>1, <3>2
  <2>5. Ancestor[3][n] = g
    BY <1>1, <2>2, Levels
  <2>6. SubSeq(Route[n], 1, Len(Route[n]) - 3) = Route[g]
    <3> DEFINE s == Route[g]
               a == Route[q]
               b == Route[p]
               t == Route[n]
    <3>1. s \in Seq(Nat) /\ Len(s) \in Nat
      BY <2>3, RouteBelow
    <3>2. Len(a) = Len(s) + 1 /\ \A i \in 1..Len(s) : a[i] = s[i]
      BY <2>3, RouteBelow
    <3>3. Len(b) = Len(a) + 1 /\ \A i \in 1..Len(a) : b[i] = a[i]
      BY <1>2, <2>2, RouteBelow
    <3>4. Len(t) = Len(b) + 1 /\ \A i \in 1..Len(b) : t[i] = b[i]
      BY <1>3
    <3> HIDE DEF s, a, b, t
    <3>5. Len(t) - 3 = Len(s)
      BY <3>1, <3>2, <3>3, <3>4
    <3>6. \A i \in 1..Len(s) : t[i] = s[i]
      <4> SUFFICES ASSUME NEW i \in 1..Len(s) PROVE t[i] = s[i]
        OBVIOUS
      <4>1. i \in 1..Len(a) /\ i \in 1..Len(b)
        BY <3>1, <3>2, <3>3
      <4> QED BY <3>2, <3>3, <3>4, <4>1
    <3>7. SubSeq(t, 1, Len(s)) = s
      BY <3>1, <3>6, PrefixIs
    <3> QED BY <3>5, <3>7 DEF s, t
  <2> QED BY <1>5, <2>1, <2>4, <2>5, <2>6
<1> QED BY <1>4, <1>5

\* The generator panics on the nodes that are malformed.
LEMMA PanicsIs ==
    ASSUME TreeInv, pass = "generate", NEW n \in Nodes
    PROVE  (\E aug \in {a \in Augmentations : IsCompatible(a, n)} : Panics(aug, n))
              <=> Malformed(n)
<1> DEFINE kind == dts[n].kind
           aug == AugOf(kind)
           prop == dts[n].prop
<1>1. TreeOK /\ ParentSet
  BY DEF TreeInv, Compiles, LinkInv, ParentSet
<1>2. {a \in Augmentations : IsCompatible(a, n)} = IF kind \in HasInstance THEN {aug} ELSE {}
  BY <1>1, CompatibleIs
<1>3. CASE kind \notin HasInstance
  BY <1>2, <1>3 DEF Malformed, HasInstance, Refers
<1>4. ASSUME kind \in HasInstance
      PROVE  (\E a \in {b \in Augmentations : IsCompatible(b, n)} : Panics(a, n)) <=> Panics(aug, n)
  <2> HIDE DEF aug, kind
  <2> QED BY <1>2, <1>4
<1>5. CASE kind \in Devices
  <2>1. kind \in HasInstance /\ kind \in {"gpio", "pwm_leds", "flash"} /\ ~Refers(kind)
    BY <1>5 DEF HasInstance, Devices, Refers
  <2>2. aug.raw = "Myself"
    BY <2>1 DEF AugOf, Aug
  <2> QED BY <1>4, <2>1, <2>2 DEF Panics, Malformed
<1>6. CASE Refers(kind)
  <2>1. kind \in HasInstance /\ kind \in {"led", "key"} /\ kind # "partition"
    BY <1>6 DEF HasInstance, Refers
  <2>2. aug.raw = "Phandle"
    BY <2>1 DEF AugOf, Aug
  <2>3. /\ Len(prop) \in Nat /\ DOMAIN prop = 1..Len(prop)
        /\ \A i \in DOMAIN prop : prop[i] \in Labels \/ prop[i] = Number
        /\ prop \in Seq(Labels \cup {Number})
    BY <1>1, PropFacts
  <2>4. Number \notin Labels
    BY DevicetreeAssumption
  <2>5. Panics(aug, n) <=> PhandlePanics(n)
    BY <2>2 DEF Panics
  <2>6. Malformed(n) <=> prop = <<>> \/ {i \in DOMAIN prop : prop[i] \in Labels} # {1}
    BY <1>6, <2>1 DEF Malformed
  <2>7. PhandlePanics(n) <=> prop = <<>> \/ prop[1] = Number
                             \/ \E i \in 2..Len(prop) : prop[i] # Number
    BY DEF PhandlePanics
  <2> HIDE DEF prop
  <2>8. ASSUME prop # <<>>
        PROVE  {i \in DOMAIN prop : prop[i] \in Labels} # {1} <=>
                 prop[1] = Number \/ \E i \in 2..Len(prop) : prop[i] # Number
    <3>1. Len(prop) >= 1
      BY <2>3, <2>8, EmptySeq
    <3>2. 1 \in DOMAIN prop /\ \A i \in DOMAIN prop : i = 1 \/ i \in 2..Len(prop)
      BY <2>3, <3>1
    <3>3. \A i \in 2..Len(prop) : i \in DOMAIN prop /\ i # 1
      BY <2>3
    <3>4. \A i \in DOMAIN prop : prop[i] \in Labels <=> prop[i] # Number
      BY <2>3, <2>4
    <3> DEFINE L == {i \in DOMAIN prop : prop[i] \in Labels}
    <3>5. \A i \in DOMAIN prop : i \in L <=> prop[i] # Number
      BY <3>4
    <3>6. L \subseteq DOMAIN prop
      OBVIOUS
    <3> HIDE DEF L
    <3>7. L = {1} <=> 1 \in L /\ \A i \in 2..Len(prop) : i \notin L
      BY <3>2, <3>3, <3>6
    <3> QED BY <3>2, <3>3, <3>5, <3>7 DEF L
  <2> QED BY <1>4, <2>1, <2>5, <2>6, <2>7, <2>8
<1>7. CASE kind \in {"pwm_led", "partition"}
  <2>1. kind \in HasInstance /\ ~Refers(kind)
    BY <1>7 DEF HasInstance, Refers
  <2>2. aug.raw = "Parent" /\ (aug.args = "Reg" <=> kind = "partition")
    BY <1>7 DEF AugOf, Aug
  <2>3. Ancestor[aug.level][n] = About(n) /\ About(n) \in Nodes
    BY <1>1, <1>7, PartOfDevice
  <2>4. About(n) # NoNode
    BY <1>1, <2>3, NodesFacts DEF NoNode
  <2>5. AncestorDisabled(aug, n) <=> ~Enabled(About(n))
    BY <2>3, <2>4 DEF AncestorDisabled
  <2>6. Panics(aug, n) <=> Enabled(About(n)) /\ kind = "partition" /\ prop = <<>>
    <3> HIDE DEF aug, kind
    <3> QED BY <2>2, <2>5 DEF Panics, ParentPanics
  <2>7. Malformed(n) <=> Enabled(About(n)) /\ kind = "partition" /\ prop = <<>>
    BY <2>1 DEF Malformed
  <2> QED BY <1>4, <2>1, <2>6, <2>7
<1> QED BY <1>3, <1>5, <1>6, <1>7 DEF HasInstance, Refers

\* Each node gets what its kind calls for.
LEMMA GenerateIs ==
    ASSUME TreeInv, pass = "generate", NEW n \in Nodes, ~Malformed(n)
    PROVE  UNION {Generate(aug, n) : aug \in {a \in Augmentations : IsCompatible(a, n)}}
              = Expected(n)
<1> DEFINE kind == dts[n].kind
           aug == AugOf(kind)
           raw == {"get_instance_raw", "get_static_raw"}
<1>1. TreeOK /\ RefsOK /\ ParseInv /\ LinkInv
  BY DEF TreeInv, Compiles
<1>2. /\ ParentSet
      /\ \A i \in DOMAIN dts[n].prop : dts[n].prop[i] # Number =>
            target[n][i] \in Nodes /\ dts[target[n][i]].label = dts[n].prop[i]
  BY <1>1 DEF LinkInv, ParentSet
<1>3. \A m \in Nodes : nodes[m].route = Route[m]
  BY <1>1, NodesFacts DEF ParseInv
<1>4. {a \in Augmentations : IsCompatible(a, n)} = IF kind \in HasInstance THEN {aug} ELSE {}
  BY <1>1, <1>2, CompatibleIs
<1>5. CASE kind \notin HasInstance
  <2>1. Expected(n) = {}
    BY <1>5 DEF Expected, HasInstance, Devices, Refers
  <2> QED BY <1>4, <1>5, <2>1
<1>6. ASSUME kind \in HasInstance
      PROVE  UNION {Generate(a, n) : a \in {b \in Augmentations : IsCompatible(b, n)}} = Generate(aug, n)
  <2> HIDE DEF aug, kind
  <2> QED BY <1>4, <1>6
<1>7. CASE kind \in Devices
  <2>1. kind \in HasInstance /\ kind \in {"gpio", "pwm_leds", "flash"} /\ ~Refers(kind)
    BY <1>7 DEF HasInstance, Devices, Refers
  <2>2. aug.raw = "Myself"
    BY <2>1 DEF AugOf, Aug
  <2>3. Generate(aug, n) = Myself(aug, n)
    BY <2>2 DEF Generate
  <2>4. raw \cup {"get_instance"} = {"get_instance_raw", "get_static_raw", "get_instance"}
    OBVIOUS
  <2>5. Expected(n) = IF Enabled(n) THEN {Item(aug, raw \cup {"get_instance"}, {}, nodes[n].ord, 0)}
                      ELSE {}
    <3> HIDE DEF raw
    <3> QED BY <1>7, <2>1 DEF Expected, raw
  <2>6. Myself(aug, n) = Expected(n)
    <3> HIDE DEF aug, raw
    <3> QED BY <2>4, <2>5 DEF Myself
  <2> QED BY <1>6, <2>1, <2>3, <2>6
<1>8. CASE Refers(kind)
  <2>1. kind \in HasInstance /\ kind \in {"led", "key"} /\ kind \notin Devices
    BY <1>8 DEF HasInstance, Devices, Refers
  <2>2. aug.raw = "Phandle"
    BY <2>1 DEF AugOf, Aug
  <2>3. Generate(aug, n) = Phandle(aug, n)
    BY <2>2 DEF Generate
  <2>4. target[n][1] = About(n)
    <3>1. 1 \in DOMAIN dts[n].prop /\ dts[n].prop[1] \in Labels
      <4>1. {i \in DOMAIN dts[n].prop : dts[n].prop[i] \in Labels} = {1}
        BY <1>8 DEF Malformed
      <4>2. 1 \in {i \in DOMAIN dts[n].prop : dts[n].prop[i] \in Labels}
        BY <4>1
      <4> QED BY <4>2
    <3>2. dts[n].prop[1] # Number
      BY <3>1, DevicetreeAssumption
    <3>3. target[n][1] \in Nodes /\ dts[target[n][1]].label = dts[n].prop[1]
      BY <1>2, <3>1, <3>2
    <3> QED BY <1>1, <1>8, <3>3, LabelIs
  <2>5. Expected(n) = {Item(aug, {"get_instance"},
                           {nodes[About(n)].route} \X raw, NoNode, 0)}
    BY <1>8, <2>1 DEF Expected
  <2>6. Phandle(aug, n) = Expected(n)
    <3> HIDE DEF aug
    <3> QED BY <2>4, <2>5 DEF Phandle
  <2> QED BY <1>6, <2>1, <2>3, <2>6
<1>9. CASE kind \in {"pwm_led", "partition"}
  <2>1. kind \in HasInstance /\ kind \notin Devices /\ ~Refers(kind)
    BY <1>9 DEF HasInstance, Devices, Refers
  <2>2. aug.raw = "Parent"
    BY <1>9 DEF AugOf, Aug
  <2>3. Generate(aug, n) = Parent(aug, n)
    BY <2>2 DEF Generate
  <2>4. /\ Ancestor[aug.level][n] = About(n) /\ About(n) \in Nodes
        /\ SubSeq(Route[n], 1, Len(Route[n]) - aug.level) = Route[About(n)]
    BY <1>1, <1>2, <1>9, PartOfDevice
  <2>5. /\ About(n) # NoNode
        /\ SubSeq(nodes[n].route, 1, Len(nodes[n].route) - aug.level) = nodes[About(n)].route
    <3>1. \A m \in Nodes : m # NoNode
      BY <1>1, NodesFacts DEF NoNode
    <3> QED BY <1>3, <2>4, <3>1
  <2>6. ChildIndex(n) = Name(n) - 1
    <3>1. {m \in Nodes : m < n /\ parent[m] = parent[n]} = Siblings(n)
      <4>1. \A m \in Nodes : parent[m] = dts[m].parent
        BY <1>2 DEF ParentSet
      <4> QED BY <4>1 DEF Siblings
    <3>2. Cardinality(Siblings(n)) \in Nat
      BY <1>1, NameType, FS_CardinalityType
    <3>3. ChildIndex(n) = Cardinality(Siblings(n))
      BY <3>1 DEF ChildIndex
    <3>4. Name(n) = Cardinality(Siblings(n)) + 1
      BY DEF Name
    <3> QED BY <3>2, <3>3, <3>4
  <2>7. Expected(n) = IF Enabled(About(n))
                      THEN {Item(aug, {"get_instance"},
                                 {<<nodes[About(n)].route, "get_instance_raw">>}, NoNode,
                                 Index(n))}
                      ELSE {}
    BY <1>9, <2>1 DEF Expected
  <2>8. AncestorDisabled(aug, n) <=> ~Enabled(About(n))
    BY <2>4, <2>5 DEF AncestorDisabled
  <2>9. (IF aug.args = "ChildIdx" THEN ChildIndex(n) ELSE 0) = Index(n)
    <3>1. aug.args = "ChildIdx" <=> kind = "pwm_led"
      BY <1>9 DEF AugOf, Aug
    <3> HIDE DEF aug
    <3> QED BY <2>6, <3>1 DEF Index
  <2>10. Parent(aug, n) = Expected(n)
    <3> HIDE DEF aug
    <3> QED BY <2>5, <2>7, <2>8, <2>9 DEF Parent, ParentItem
  <2> QED BY <1>6, <2>1, <2>3, <2>10
<1>10. kind \in HasInstance => kind \in Devices \/ Refers(kind) \/ kind \in {"pwm_led", "partition"}
  BY DEF HasInstance, Refers
<1> QED BY <1>5, <1>7, <1>8, <1>9, <1>10

\* What a node gets depends on the tree and the numbers alone.
LEMMA SameExpected ==
    ASSUME dts' = dts, nodes' = nodes, NEW n
    PROVE  Expected(n)' = Expected(n)
<1>1. Name(n)' = Name(n) /\ About(n)' = About(n) /\ Enabled(n)' = Enabled(n)
  BY SameTree
<1>2. Enabled(About(n))' = Enabled(About(n))
  BY <1>1 DEF Enabled
<1> QED BY <1>1, <1>2 DEF Expected, Index

\* node_walk generates what each node gets, node by node.
LEMMA NodeWalkInv ==
    ASSUME TreeInv, NodeWalk
    PROVE  TreeInv'
<1>1. Compiles /\ pass = "generate"
  BY DEF NodeWalk, Compiles
<1>2. TreeOK /\ RefsOK /\ OrdInv /\ ParseInv /\ LabelInv /\ LinkInv /\ OutInv
  BY <1>1 DEF TreeInv
<1> DEFINE n == Len(out) + 1
           augs == {aug \in Augmentations : IsCompatible(aug, n)}
           S == {Expected(m) : m \in Nodes}
<1>3. /\ IF \E aug \in augs : Panics(aug, n)
         THEN pass' = "panicked" /\ UNCHANGED out
         ELSE /\ out' = Append(out, UNION {Generate(aug, n) : aug \in augs})
              /\ pass' = IF n = Len(dts) THEN "done" ELSE "generate"
      /\ UNCHANGED <<dts, dt_path, lines, ords, nodes, labels, target, parent>>
  BY DEF NodeWalk
<1>4. /\ out \in Seq(S) /\ Len(out) \in Nat /\ Len(out) < Len(dts)
      /\ Len(dts) \in Nat /\ Nodes = 1..Len(dts)
  BY <1>1, <1>2, LenProperties, NodesFacts DEF OutInv
<1>5. n \in Nodes /\ n \in Nat
  BY <1>4
<1>6. /\ TreeOK' /\ RefsOK' /\ Nodes' = Nodes /\ Route' = Route
      /\ \A m : Malformed(m)' = Malformed(m)
  BY <1>2, <1>3, SameTree
<1>7. (\E aug \in augs : Panics(aug, n)) <=> Malformed(n)
  BY <1>1, <1>5, PanicsIs
<1>8. CASE Malformed(n)
  <2>1. pass' = "panicked"
    BY <1>3, <1>7, <1>8
  <2>2. ~Compiles'
    BY <2>1 DEF Compiles
  <2>3. \E m \in Nodes' : Malformed(m)'
    <3> HIDE DEF n
    <3> QED BY <1>5, <1>6, <1>8
  <2> QED BY <1>6, <2>1, <2>2, <2>3 DEF TreeInv
<1>9. CASE ~Malformed(n)
  <2>1. pass' = IF n = Len(dts) THEN "done" ELSE "generate"
    BY <1>3, <1>7, <1>9
  <2>2. out' = Append(out, Expected(n))
    BY <1>1, <1>3, <1>5, <1>7, <1>9, GenerateIs
  <2>3. Expected(n) \in S
    BY <1>5
  <2>4. /\ out' \in Seq(S) /\ Len(out') = n /\ out'[n] = Expected(n)
        /\ \A m \in 1..Len(out) : out'[m] = out[m]
    <3> HIDE DEF S
    <3> QED BY <1>4, <2>2, <2>3, AppendProperties
  <2>5. \A m : Expected(m)' = Expected(m)
    BY <1>3, SameExpected
  <2>6. Compiles'
    <3>1. out' # <<>>
      BY <1>4, <2>2, <2>3, AppendProperties
    <3> QED BY <2>1, <3>1 DEF Compiles
  <2>7. OrdInv' /\ ParseInv' /\ LabelInv'
    <3>1. Numbered' = Numbered /\ pass' \in {"generate", "done"}
      BY <1>3, <2>1 DEF Numbered
    <3>2. OrdInv'
      <4>1. dt_path' \in Numbered' \cup {NoNode}
        BY <1>1, <1>2, <1>3, <3>1, NumberedFacts DEF OrdInv
      <4> QED BY <1>1, <1>2, <1>3, <1>6, <3>1, <4>1 DEF OrdInv
    <3>3. ParseInv'
      BY <1>1, <1>2, <1>3, <1>6, <3>1 DEF ParseInv
    <3>4. LabelInv'
      BY <1>2, <1>3, <1>6 DEF LabelInv
    <3> QED BY <3>2, <3>3, <3>4
  <2>8. LinkInv'
    BY <1>1, <1>2, <1>3, <1>6 DEF LinkInv
  <2>9. OutInv'
    <3>1. {Expected(m) : m \in Nodes}' = S
      BY <1>6, <2>5
    <3>2. ASSUME NEW m \in 1..n PROVE out'[m] = Expected(m) /\ ~Malformed(m)
      <4>1. CASE m = n
        BY <1>9, <2>4, <4>1
      <4>2. CASE m # n
        <5>1. m \in 1..Len(out)
          BY <1>4, <4>2
        <5>2. out[m] = Expected(m) /\ ~Malformed(m)
          BY <1>2, <5>1 DEF OutInv
        <5> QED BY <2>4, <5>1, <5>2
      <4> QED BY <4>1, <4>2
    <3>3. \A m \in 1..Len(out') : out'[m] = Expected(m)' /\ ~Malformed(m)'
      BY <1>6, <2>4, <2>5, <3>2
    <3>4. /\ pass' \in {"generate", "done"}
          /\ pass' = "generate" => Len(out') < Len(dts')
          /\ pass' = "done" => Len(out') = Len(dts')
      BY <1>3, <1>4, <2>1, <2>4
    <3> HIDE DEF S, n
    <3> QED BY <2>4, <3>1, <3>3, <3>4 DEF OutInv
  <2> QED BY <1>6, <2>6, <2>7, <2>8, <2>9 DEF TreeInv
<1> QED BY <1>8, <1>9

\* The invariant of the tree is kept by every step.
LEMMA TreeNextInv == TreeInv /\ [DtNext]_dtVars => TreeInv'
<1> SUFFICES ASSUME TreeInv, [DtNext]_dtVars PROVE TreeInv'
  OBVIOUS
<1>1. CASE Write
  BY <1>1, WriteInv
<1>2. CASE Compiled
  BY <1>2, CompiledInv
<1>3. CASE PathLine \/ OrdLine
  BY <1>3, PathLineInv, OrdLineInv
<1>4. CASE WalkNode \/ PhandleWalk \/ ParentWalk
  BY <1>4, WalkNodeInv, PhandleWalkInv, ParentWalkInv
<1>5. CASE NodeWalk
  BY <1>5, NodeWalkInv
<1>6. CASE ToTokens
  <2>1. pass = "to_tokens" /\ pass' \in {"to_tokens", "done"} /\ UNCHANGED treeVars
    BY <1>6 DEF ToTokens
  <2>2. ~Compiles /\ TreeOK /\ out = <<>> /\ out' = <<>> /\ dts' = dts
    BY <2>1 DEF TreeInv, Compiles, treeVars
  <2>3. TreeOK' /\ ~Compiles'
    BY <2>1, <2>2, SameTree DEF Compiles
  <2> QED BY <2>1, <2>2, <2>3 DEF TreeInv
<1>7. CASE UNCHANGED dtVars
  <2>1. UNCHANGED <<pass, dts, dt_path, lines, ords, nodes, labels, target, parent, out>>
    BY <1>7 DEF dtVars, treeVars
  <2>2. /\ TreeOK' = TreeOK /\ Nodes' = Nodes /\ Route' = Route /\ RefsOK' = RefsOK
        /\ \A m : Expected(m)' = Expected(m) /\ Malformed(m)' = Malformed(m)
        /\ Compiles' = Compiles /\ Numbered' = Numbered
    BY <2>1, SameTree, SameExpected DEF Compiles, Numbered
  <2>3. OrdInv => OrdInv'
    <3>1. NextNode' = NextNode
      <4>1. Ready' = Ready
        BY <2>1, <2>2, SameTree DEF Ready
      <4> QED BY <4>1 DEF NextNode
    <3> QED BY <2>1, <2>2, <3>1 DEF OrdInv
  <2>4. (ParseInv => ParseInv') /\ (LabelInv => LabelInv')
    BY <2>1, <2>2 DEF ParseInv, LabelInv
  <2>5. LinkInv => LinkInv'
    BY <2>1, <2>2 DEF LinkInv
  <2>6. OutInv => OutInv'
    <3>1. {Expected(m) : m \in Nodes}' = {Expected(m) : m \in Nodes}
      BY <2>2
    <3> QED BY <2>1, <2>2, <3>1 DEF OutInv
  <2> QED BY <2>1, <2>2, <2>3, <2>4, <2>5, <2>6 DEF TreeInv
<1> QED BY <1>1, <1>2, <1>3, <1>4, <1>5, <1>6, <1>7 DEF DtNext

\* The inductive invariant holds, for trees of any size and shape.
THEOREM TreeInvariant == DtSpec => []TreeInv
<1>1. DtInit => TreeInv
  BY TreeInitInv
<1>2. TreeInv /\ [DtNext]_dtVars => TreeInv'
  BY TreeNextInv
<1> QED BY <1>1, <1>2, PTL DEF DtSpec

-----------------------------------------------------------------------------
(* Devicetree: the generated code.                                         *)

Raw == {"get_instance_raw", "get_static_raw"}

Generated == TreeInv /\ pass = "done" /\ out # <<>>

\* What the passes have left.
LEMMA GeneratedFacts ==
    ASSUME Generated
    PROVE  /\ TreeOK /\ RefsOK /\ ParentSet /\ DOMAIN out = Nodes
           /\ \A n \in Nodes : /\ out[n] = Expected(n) /\ ~Malformed(n)
                               /\ nodes[n].route = Route[n]
                               /\ lines[nodes[n].ord + 1] = n
                               /\ ModulesAt(nodes[n].route) = {n}
<1>1. TreeOK /\ RefsOK /\ ParseInv /\ LinkInv /\ OutInv /\ pass = "done"
  BY DEF Generated, TreeInv, Compiles
<1>2. /\ out \in Seq({Expected(m) : m \in Nodes}) /\ Len(out) = Len(dts)
      /\ Len(nodes) = Len(dts) /\ Nodes = 1..Len(dts)
  BY <1>1, NodesFacts DEF OutInv, ParseInv
<1>3. DOMAIN out = Nodes
  BY <1>2, LenProperties
<1>4. \A n \in Nodes : out[n] = Expected(n) /\ ~Malformed(n)
  BY <1>1, <1>2 DEF OutInv
<1>5. \A n \in Nodes : nodes[n].route = Route[n] /\ lines[nodes[n].ord + 1] = n
  BY <1>1, <1>2 DEF ParseInv
<1>6. \A n \in Nodes : ModulesAt(nodes[n].route) = {n}
  <2> SUFFICES ASSUME NEW n \in Nodes PROVE ModulesAt(nodes[n].route) = {n}
    OBVIOUS
  <2>1. \A m \in Nodes : nodes[m].route = nodes[n].route => m = n
    BY <1>1, <1>5, RouteInjective
  <2> QED BY <2>1 DEF ModulesAt
<1>7. ParentSet
  BY <1>1 DEF LinkInv, ParentSet
<1> QED BY <1>1, <1>3, <1>4, <1>5, <1>6, <1>7

\* A node with an instance is about a device.
LEMMA AboutFacts ==
    ASSUME Generated, NEW n \in Nodes, dts[n].kind \in HasInstance
    PROVE  /\ About(n) \in Nodes /\ dts[About(n)].kind \in Devices \cup {"other_flash"}
           /\ dts[n].kind \in Devices <=> ~Refers(dts[n].kind) /\ dts[n].kind \notin {"pwm_led", "partition"}
           /\ dts[n].kind \in Devices => About(n) = n
           /\ Refers(dts[n].kind) => dts[About(n)].kind = "gpio"
           /\ dts[n].kind = "pwm_led" => dts[About(n)].kind = "pwm_leds"
           /\ dts[n].kind = "partition" => dts[About(n)].kind \in {"flash", "other_flash"}
           /\ AugOf(dts[n].kind).raw =
                 CASE dts[n].kind \in Devices -> "Myself"
                   [] Refers(dts[n].kind) -> "Phandle"
                   [] OTHER -> "Parent"
<1> DEFINE kind == dts[n].kind
<1>1. TreeOK /\ RefsOK /\ ParentSet
  BY GeneratedFacts
<1>2. CASE kind \in {"gpio", "pwm_leds", "flash"}
  <2>1. About(n) = n /\ ~Refers(kind)
    BY <1>2 DEF About, Refers
  <2>2. AugOf(kind).raw = "Myself"
    BY <1>2 DEF AugOf, Aug
  <2> QED BY <1>2, <2>1, <2>2 DEF Devices
<1>3. CASE kind \in {"led", "key"}
  <2>1. Refers(kind) /\ ~Malformed(n)
    BY <1>3, GeneratedFacts DEF Refers
  <2>2. About(n) \in Nodes /\ dts[About(n)].kind = "gpio"
    <3>1. 1 \in DOMAIN dts[n].prop /\ dts[n].prop[1] \in Labels
      BY <2>1 DEF Malformed
    <3>2. PICK m \in Nodes : dts[m].kind = "gpio" /\ dts[m].label = dts[n].prop[1]
      BY <1>1, <3>1 DEF RefsOK
    <3>3. About(n) = m
      BY <1>1, <2>1, <3>2, LabelIs
    <3> QED BY <3>2, <3>3
  <2>3. AugOf(kind).raw = "Phandle"
    BY <1>3 DEF AugOf, Aug
  <2> QED BY <1>3, <2>1, <2>2, <2>3 DEF Devices
<1>4. CASE kind \in {"pwm_led", "partition"}
  <2>1. /\ About(n) \in Nodes
        /\ kind = "pwm_led" => dts[About(n)].kind = "pwm_leds"
        /\ kind = "partition" => dts[About(n)].kind \in {"flash", "other_flash"}
    BY <1>1, <1>4, PartOfDevice
  <2>2. AugOf(kind).raw = "Parent" /\ ~Refers(kind)
    BY <1>4 DEF AugOf, Aug, Refers
  <2> QED BY <1>4, <2>1, <2>2 DEF Devices
<1> QED BY <1>2, <1>3, <1>4 DEF HasInstance, Devices

\* A device that is enabled has its functions, and one that is not has none.
LEMMA DeviceItems ==
    ASSUME Generated, NEW n \in Nodes, dts[n].kind \in Devices
    PROVE  out[n] = IF Enabled(n)
                    THEN {Item(AugOf(dts[n].kind), Raw \cup {"get_instance"}, {}, nodes[n].ord, 0)}
                    ELSE {}
<1>1. out[n] = Expected(n)
  BY GeneratedFacts
<1>2. ~Refers(dts[n].kind) /\ dts[n].kind \notin {"pwm_led", "partition"}
  BY DEF Devices, Refers
<1> QED BY <1>1, <1>2 DEF Expected, Raw

\* The others call those of the device they are about.
LEMMA PartItems ==
    ASSUME Generated, NEW n \in Nodes, dts[n].kind \in HasInstance \ Devices
    PROVE  \E calls, index :
              /\ out[n] = IF Refers(dts[n].kind) \/ Enabled(About(n))
                          THEN {Item(AugOf(dts[n].kind), {"get_instance"}, calls, NoNode, index)}
                          ELSE {}
              /\ calls # {}
              /\ \A c \in calls : c[1] = nodes[About(n)].route /\ c[2] \in Raw
              /\ index = Index(n)
<1> DEFINE kind == dts[n].kind
<1>1. out[n] = Expected(n) /\ kind \notin Devices
  BY GeneratedFacts
<1>2. CASE Refers(kind)
  <2> DEFINE calls == {nodes[About(n)].route} \X Raw
  <2>1. Index(n) = 0
    BY <1>2 DEF Index, Refers
  <2>2. out[n] = {Item(AugOf(kind), {"get_instance"}, calls, NoNode, 0)}
    <3>1. Expected(n) = {Item(AugOf(kind), {"get_instance"},
                              {nodes[About(n)].route} \X
                                 {"get_instance_raw", "get_static_raw"}, NoNode, 0)}
      <4>1. kind \notin Devices /\ kind \in {"led", "key"}
        BY <1>1, <1>2 DEF Refers
      <4> QED BY <1>2, <4>1 DEF Expected
    <3> QED BY <1>1, <3>1 DEF Raw
  <2>3. calls # {}
    <3>1. <<nodes[About(n)].route, "get_instance_raw">> \in calls
      BY DEF Raw
    <3> QED BY <3>1
  <2>4. \A c \in calls : c[1] = nodes[About(n)].route /\ c[2] \in Raw
    OBVIOUS
  <2> HIDE DEF calls
  <2> QED BY <1>2, <2>1, <2>2, <2>3, <2>4
<1>3. CASE ~Refers(kind)
  <2> DEFINE calls == {<<nodes[About(n)].route, "get_instance_raw">>}
  <2>1. kind \in {"pwm_led", "partition"}
    BY <1>1, <1>3, AboutFacts
  <2>2. out[n] = IF Enabled(About(n))
                 THEN {Item(AugOf(kind), {"get_instance"}, calls, NoNode, Index(n))} ELSE {}
    BY <1>1, <1>3, <2>1 DEF Expected
  <2>3. calls # {} /\ \A c \in calls : c[1] = nodes[About(n)].route /\ c[2] \in Raw
    BY DEF Raw
  <2> HIDE DEF calls
  <2> QED BY <1>3, <2>2, <2>3
<1> QED BY <1>2, <1>3

\* A node that gets no instance gets nothing.
LEMMA NoItems ==
    ASSUME Generated, NEW n \in Nodes, dts[n].kind \notin HasInstance
    PROVE  out[n] = {}
<1>1. out[n] = Expected(n)
  BY GeneratedFacts
<1> QED BY <1>1 DEF Expected, HasInstance, Devices, Refers

\* A flash controller that is not listed gets nothing either.
LEMMA OtherItems ==
    ASSUME Generated, NEW n \in Nodes, dts[n].kind = "other_flash"
    PROVE  out[n] = {}
BY NoItems DEF HasInstance, Devices

\* What a call reaches: the device's own number.
LEMMA ReachedFacts ==
    ASSUME Generated, NEW n \in Nodes, dts[n].kind \in HasInstance, NEW i \in out[n]
    PROVE  /\ \A ord \in Reached(i) : lines[ord + 1] = About(n)
           /\ dts[About(n)].kind \in Devices /\ Enabled(About(n)) => Reached(i) # {}
<1> DEFINE kind == dts[n].kind
           d == About(n)
<1>1. /\ d \in Nodes /\ dts[d].kind \in Devices \cup {"other_flash"}
      /\ (kind \in Devices => d = n)
  BY AboutFacts
<1>2. lines[nodes[d].ord + 1] = d /\ ModulesAt(nodes[d].route) = {d}
  BY <1>1, GeneratedFacts
<1>3. out[d] = IF dts[d].kind \in Devices /\ Enabled(d)
               THEN {Item(AugOf(dts[d].kind), Raw \cup {"get_instance"}, {}, nodes[d].ord, 0)}
               ELSE {}
  <2>1. "other_flash" \notin Devices
    BY DEF Devices
  <2> QED BY <1>1, <2>1, DeviceItems, OtherItems
<1>4. CASE kind \in Devices
  <2>1. i.calls = {} /\ i.ord = nodes[d].ord
    BY <1>1, <1>3, <1>4 DEF Item
  <2> QED BY <1>2, <2>1 DEF Reached
<1>5. CASE kind \notin Devices
  <2>1. PICK calls, index :
          /\ out[n] = IF Refers(dts[n].kind) \/ Enabled(About(n))
                      THEN {Item(AugOf(dts[n].kind), {"get_instance"}, calls, NoNode, index)}
                      ELSE {}
          /\ calls # {}
          /\ \A c \in calls : c[1] = nodes[About(n)].route /\ c[2] \in Raw
    BY <1>5, PartItems
  <2>2. i.calls = calls
    BY <2>1 DEF Item
  <2>3. UNION {ModulesAt(c[1]) : c \in calls} = {d}
    BY <1>2, <2>1
  <2>4. UNION {out[m] : m \in {d}} = out[d]
    OBVIOUS
  <2>5. Reached(i) = {j.ord : j \in out[d]}
    <3> HIDE DEF d
    <3> QED BY <2>1, <2>2, <2>3, <2>4 DEF Reached
  <2>6. \A j \in out[d] : j.ord = nodes[d].ord
    <3> HIDE DEF d
    <3> QED BY <1>3 DEF Item
  <2>7. dts[d].kind \in Devices /\ Enabled(d) => out[d] # {}
    <3> HIDE DEF d
    <3> QED BY <1>3
  <2> HIDE DEF d
  <2> QED BY <1>2, <2>5, <2>6, <2>7 DEF d
<1> QED BY <1>4, <1>5

\* get_instance gets the right device, for trees of any size and shape.
THEOREM DeviceIsRight == DtSpec => []RightDevice
<1>1. TreeInv => RightDevice
  <2> SUFFICES ASSUME TreeInv, pass = "done" PROVE RightDevice
    BY DEF RightDevice
  <2>1. CASE out = <<>>
    <3>1. DOMAIN out = {}
      BY <2>1
    <3> QED BY <3>1 DEF RightDevice
  <2>2. CASE Generated
    <3>1. DOMAIN out = Nodes
      BY <2>2, GeneratedFacts
    <3>2. ASSUME NEW n \in Nodes, NEW i \in out[n]
          PROVE  /\ \A ord \in Reached(i) : lines[ord + 1] = About(n)
                 /\ dts[n].kind = "pwm_led" => i.index = Name(n) - 1
      <4>1. dts[n].kind \in HasInstance
        BY <2>2, NoItems
      <4>2. ASSUME dts[n].kind = "pwm_led" PROVE i.index = Name(n) - 1
        <5>1. dts[n].kind \notin Devices /\ Index(n) = Name(n) - 1
          BY <4>2 DEF Devices, Index
        <5>2. PICK calls, index :
                /\ out[n] = IF Refers(dts[n].kind) \/ Enabled(About(n))
                            THEN {Item(AugOf(dts[n].kind), {"get_instance"}, calls, NoNode, index)}
                            ELSE {}
                /\ index = Index(n)
          BY <2>2, <4>1, <5>1, PartItems
        <5>3. i.index = index
          BY <5>2 DEF Item
        <5> QED BY <5>1, <5>2, <5>3
      <4> QED BY <2>2, <4>1, <4>2, ReachedFacts
    <3>3. ASSUME NEW n \in Nodes, dts[n].kind \in HasInstance,
                 dts[About(n)].kind \in Devices, Enabled(About(n))
          PROVE  \E i \in out[n] : "get_instance" \in i.defines /\ Reached(i) # {}
      <4>1. PICK i \in out[n] : "get_instance" \in i.defines
        <5>1. CASE dts[n].kind \in Devices
          <6>1. About(n) = n
            BY <2>2, <3>3, <5>1, AboutFacts
          <6>2. out[n] = {Item(AugOf(dts[n].kind), Raw \cup {"get_instance"}, {}, nodes[n].ord, 0)}
            BY <2>2, <3>3, <5>1, <6>1, DeviceItems
          <6> QED BY <6>2 DEF Item
        <5>2. CASE dts[n].kind \notin Devices
          <6>1. PICK calls, index :
                  out[n] = {Item(AugOf(dts[n].kind), {"get_instance"}, calls, NoNode, index)}
            BY <2>2, <3>3, <5>2, PartItems
          <6> QED BY <6>1 DEF Item
        <5> QED BY <5>1, <5>2
      <4>2. Reached(i) # {}
        BY <2>2, <3>3, ReachedFacts
      <4> QED BY <4>1, <4>2
    <3> QED BY <3>1, <3>2, <3>3 DEF RightDevice
  <2> QED BY <2>1, <2>2 DEF Generated
<1> QED BY <1>1, TreeInvariant, PTL

\* The build panics on malformed trees and on no other, for trees of any size and
\* shape: no number, path, label or parent is ever missed.
THEOREM PanicsRight == DtSpec => []BuildPanics
<1>1. TreeInv => BuildPanics
  <2> SUFFICES ASSUME TreeInv PROVE BuildPanics
    OBVIOUS
  <2>1. pass = "panicked" => \E n \in Nodes : Malformed(n)
    BY DEF TreeInv, Compiles
  <2>2. ASSUME pass = "done", NEW n \in DOMAIN out PROVE ~Malformed(n)
    <3>1. Generated
      BY <2>2 DEF Generated
    <3> QED BY <3>1, GeneratedFacts
  <2> QED BY <2>1, <2>2 DEF BuildPanics
<1> QED BY <1>1, TreeInvariant, PTL

Resolves(c, build) == \E m \in Nodes : ModulesAt(c[1]) = {m} /\ c[2] \in Defines(m, build)

\* What an enabled, listed device defines in the builds with its option, and that
\* others define nothing.
LEMMA DefinesFacts ==
    ASSUME Generated, NEW d \in Nodes, dts[d].kind \in Devices \cup {"other_flash"},
           NEW build \in Builds
    PROVE  Defines(d, build) = IF /\ dts[d].kind \in Devices /\ Enabled(d)
                                  /\ AugOf(dts[d].kind).cfg \in build
                               THEN Raw \cup {"get_instance"} ELSE {}
<1> DEFINE item == Item(AugOf(dts[d].kind), Raw \cup {"get_instance"}, {}, nodes[d].ord, 0)
<1>1. out[d] = IF dts[d].kind \in Devices /\ Enabled(d) THEN {item} ELSE {}
  <2>1. "other_flash" \notin Devices
    BY DEF Devices
  <2> QED BY <2>1, DeviceItems, OtherItems
<1>2. item.aug = AugOf(dts[d].kind) /\ item.defines = Raw \cup {"get_instance"}
  BY DEF Item
<1>3. dts[d].kind \in Devices => AugOf(dts[d].kind).cfg # "none"
  BY DEF Devices, AugOf, Aug
<1> HIDE DEF item
<1>4. CASE ~(dts[d].kind \in Devices /\ Enabled(d))
  <2>1. Live(d, build) = {}
    BY <1>1, <1>4 DEF Live
  <2> QED BY <1>4, <2>1 DEF Defines
<1>5. CASE dts[d].kind \in Devices /\ Enabled(d)
  <2>1. out[d] = {item} /\ (item.aug.cfg \in build \cup {"none"} <=> AugOf(dts[d].kind).cfg \in build)
    BY <1>1, <1>2, <1>3, <1>5
  <2>2. Live(d, build) = IF AugOf(dts[d].kind).cfg \in build THEN {item} ELSE {}
    BY <2>1 DEF Live
  <2> QED BY <1>2, <1>5, <2>2 DEF Defines
<1> QED BY <1>4, <1>5

\* The code of a part or a pin is there if its option is on and its device not
\* found disabled, and its calls then resolve if the device has its functions.
LEMMA PartResolves ==
    ASSUME Generated, NEW n \in Nodes, dts[n].kind \in HasInstance \ Devices,
           NEW build \in Builds
    PROVE  LET d == About(n)
               there == /\ Refers(dts[n].kind) \/ Enabled(d)
                        /\ AugOf(dts[n].kind).cfg \in build \cup {"none"}
               found == dts[d].kind \in Devices /\ Enabled(d) /\ AugOf(dts[d].kind).cfg \in build
           IN  (\A i \in Live(n, build) : \A c \in i.calls : Resolves(c, build))
                  <=> (there => found)
<1> DEFINE d == About(n)
           kind == dts[n].kind
           there == (Refers(kind) \/ Enabled(d)) /\ AugOf(kind).cfg \in build \cup {"none"}
           found == dts[d].kind \in Devices /\ Enabled(d) /\ AugOf(dts[d].kind).cfg \in build
<1>1. d \in Nodes /\ dts[d].kind \in Devices \cup {"other_flash"}
  BY AboutFacts
<1>2. PICK calls, index :
        /\ out[n] = IF Refers(dts[n].kind) \/ Enabled(About(n))
                    THEN {Item(AugOf(dts[n].kind), {"get_instance"}, calls, NoNode, index)}
                    ELSE {}
        /\ calls # {}
        /\ \A c \in calls : c[1] = nodes[About(n)].route /\ c[2] \in Raw
        /\ index = Index(n)
  BY PartItems
<1> DEFINE item == Item(AugOf(kind), {"get_instance"}, calls, NoNode, index)
<1>3. item.aug = AugOf(kind) /\ item.calls = calls
  BY DEF Item
<1>4. ModulesAt(nodes[d].route) = {d}
  BY <1>1, GeneratedFacts
<1>5. Defines(d, build) = IF found THEN Raw \cup {"get_instance"} ELSE {}
  BY <1>1, DefinesFacts
<1> HIDE DEF item, d, kind, found
<1>6. Live(n, build) = IF there THEN {item} ELSE {}
  BY <1>2, <1>3 DEF Live, item, d, kind
<1>7. \A c \in calls : Resolves(c, build) <=> found
  <2> SUFFICES ASSUME NEW c \in calls PROVE Resolves(c, build) <=> found
    OBVIOUS
  <2>1. ModulesAt(c[1]) = {d} /\ c[2] \in Raw
    BY <1>2, <1>4 DEF d
  <2>2. Resolves(c, build) <=> c[2] \in Defines(d, build)
    BY <1>1, <2>1 DEF Resolves
  <2> QED BY <1>5, <2>1, <2>2
<1>8. (\A i \in Live(n, build) : \A c \in i.calls : Resolves(c, build)) <=> (there => found)
  <2> HIDE DEF there
  <2> QED BY <1>2, <1>3, <1>6, <1>7
<1> QED BY <1>8 DEF d, kind, found

\* What a function calls is generated too exactly for the nodes that are
\* supported, for trees of any size and shape and under every choice of options.
THEOREM CodeResolves == DtSpec => []CallsResolve
<1>1. TreeInv => CallsResolve
  <2> SUFFICES ASSUME TreeInv, pass = "done" PROVE CallsResolve
    BY DEF CallsResolve
  <2>1. CASE out = <<>>
    <3>1. DOMAIN out = {}
      BY <2>1
    <3> QED BY <3>1 DEF CallsResolve
  <2>2. CASE out # <<>>
    <3>1. Generated /\ DOMAIN out = Nodes
      BY <2>2, GeneratedFacts DEF Generated
    <3>2. ASSUME NEW n \in Nodes, NEW build \in Builds
          PROVE  Supported(n, build) <=>
                   \A i \in Live(n, build) : \A c \in i.calls : Resolves(c, build)
      <4> DEFINE kind == dts[n].kind
                 d == About(n)
                 there == (Refers(kind) \/ Enabled(d)) /\ AugOf(kind).cfg \in build \cup {"none"}
                 found == dts[d].kind \in Devices /\ Enabled(d) /\ AugOf(dts[d].kind).cfg \in build
      <4>1. "none" \notin build
        BY DEF Builds
      <4>2. CASE kind \notin HasInstance
        <5>1. Live(n, build) = {}
          BY <3>1, <4>2, NoItems DEF Live
        <5>2. Supported(n, build)
          BY <4>2 DEF Supported, HasInstance
        <5> QED BY <5>1, <5>2
      <4>3. CASE kind \in Devices
        <5>1. \A i \in Live(n, build) : i.calls = {}
          BY <3>1, <4>3, DeviceItems DEF Live, Item
        <5>2. Supported(n, build)
          BY <4>3 DEF Supported, Devices
        <5> QED BY <5>1, <5>2
      <4>4. ASSUME kind \in HasInstance \ Devices
            PROVE  (\A i \in Live(n, build) : \A c \in i.calls : Resolves(c, build))
                      <=> (there => found)
        BY <3>1, <4>4, PartResolves
      <4>5. AugOf("gpio").cfg = "GPIO" /\ AugOf("pwm_leds").cfg = "LED_PWM" /\ AugOf("flash").cfg = "FLASH"
        BY DEF AugOf, Aug
      <4>6. CASE kind = "led"
        <5>1. kind \in HasInstance \ Devices /\ Refers(kind) /\ AugOf(kind).cfg = "GPIO"
          BY <4>6 DEF HasInstance, Devices, Refers, AugOf, Aug
        <5>2. dts[d].kind = "gpio" /\ "gpio" \in Devices
          BY <3>1, <5>1, AboutFacts DEF Devices
        <5>3. Supported(n, build) <=> ("GPIO" \in build => Enabled(d))
          BY <4>6 DEF Supported
        <5> HIDE DEF d
        <5>4. (there => found) <=> ("GPIO" \in build => Enabled(d))
          BY <4>5, <5>1, <5>2
        <5> QED BY <4>4, <5>1, <5>3, <5>4
      <4>7. CASE kind = "key"
        <5>1. kind \in HasInstance \ Devices /\ Refers(kind) /\ AugOf(kind).cfg = "none"
          BY <4>7 DEF HasInstance, Devices, Refers, AugOf, Aug
        <5>2. dts[d].kind = "gpio" /\ "gpio" \in Devices
          BY <3>1, <5>1, AboutFacts DEF Devices
        <5>3. Supported(n, build) <=> "GPIO" \in build /\ Enabled(d)
          BY <4>7 DEF Supported
        <5> HIDE DEF d
        <5>4. (there => found) <=> "GPIO" \in build /\ Enabled(d)
          BY <4>5, <5>1, <5>2
        <5> QED BY <4>4, <5>1, <5>3, <5>4
      <4>8. CASE kind = "pwm_led"
        <5>1. kind \in HasInstance \ Devices /\ ~Refers(kind) /\ AugOf(kind).cfg = "LED_PWM"
          BY <4>8 DEF HasInstance, Devices, Refers, AugOf, Aug
        <5>2. dts[d].kind = "pwm_leds" /\ "pwm_leds" \in Devices
          BY <3>1, <4>8, <5>1, AboutFacts DEF Devices
        <5>3. Supported(n, build)
          BY <4>8 DEF Supported
        <5> HIDE DEF d
        <5>4. there => found
          BY <4>5, <5>1, <5>2
        <5> QED BY <4>4, <5>1, <5>3, <5>4
      <4>9. CASE kind = "partition"
        <5>1. kind \in HasInstance \ Devices /\ ~Refers(kind) /\ AugOf(kind).cfg = "FLASH"
          BY <4>9 DEF HasInstance, Devices, Refers, AugOf, Aug
        <5>2. /\ dts[d].kind \in {"flash", "other_flash"}
              /\ "flash" \in Devices /\ "other_flash" \notin Devices
          BY <3>1, <4>9, <5>1, AboutFacts DEF Devices
        <5>3. Supported(n, build) <=>
                ("FLASH" \in build /\ Enabled(d) => dts[d].kind = "flash")
          BY <4>9 DEF Supported
        <5> HIDE DEF d
        <5>4. (there => found) <=> ("FLASH" \in build /\ Enabled(d) => dts[d].kind = "flash")
          BY <4>1, <4>5, <5>1, <5>2
        <5> QED BY <4>4, <5>1, <5>3, <5>4
      <4> QED BY <4>2, <4>3, <4>6, <4>7, <4>8, <4>9 DEF HasInstance
    <3>3. ASSUME NEW n \in Nodes, NEW i \in out[n], NEW j \in out[n] PROVE i = j
      <4>1. dts[n].kind \in HasInstance
        BY <3>1, NoItems
      <4>2. CASE dts[n].kind \in Devices
        BY <3>1, <4>2, DeviceItems
      <4>3. CASE dts[n].kind \notin Devices
        BY <3>1, <4>1, <4>3, PartItems
      <4> QED BY <4>2, <4>3
    <3>4. \A n \in Nodes, build \in Builds : \A i, j \in Live(n, build) : i = j
      BY <3>3 DEF Live
    <3> QED BY <3>1, <3>2, <3>4 DEF CallsResolve, Resolves
  <2> QED BY <2>1, <2>2
<1> QED BY <1>1, TreeInvariant, PTL
=============================================================================
