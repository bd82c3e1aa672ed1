-------------------------------- MODULE Gpio --------------------------------
(***************************************************************************)
(* The asynchronous side of a gpio controller (zephyr/src/device/gpio.rs): *)
(* GpioStatic, shared by all pins of the controller, and the GpioWait      *)
(* futures of the tasks that wait for a level.  Every pin has one task, as *)
(* `&mut GpioPin` demands.                                                 *)
(*                                                                         *)
(* One executor polls the tasks one after the other; with Threads they     *)
(* belong to executors of several threads and preempt each other.  The     *)
(* controller's interrupt handler, callback_handler, interrupts whoever    *)
(* runs; with Smp it runs beside them, on another processor.  `pin_mask`   *)
(* is not atomic: reading and writing it are two steps.  A level is the    *)
(* pin's logical level.                                                    *)
(***************************************************************************)
EXTENDS Integers, FiniteSetsExt

CONSTANTS
    Pins,      \* the pins of the controller
    Threads,   \* the tasks are polled by several threads
    Smp,       \* the interrupt may run beside a task
    Repolls,   \* a future may be polled although nobody woke its task
    Drops,     \* a future may be dropped while it is pending
    MaxWaits,  \* the waits of each task
    None

ASSUME GpioAssumption ==
    /\ Pins \subseteq Nat /\ IsFiniteSet(Pins)
    /\ {Threads, Smp, Repolls, Drops} \subseteq BOOLEAN
    /\ MaxWaits \in Nat
    /\ None \notin Pins \cup {0, 1}
    /\ None \notin {"disable", "unmask", "fired", "wake"}

VARIABLES
    level,      \* the level of each pin
    interrupt,  \* the level at which a pin interrupts, or None
    installed,  \* GpioStatic::installed
    pin_mask,   \* the pins in the callback's mask
    fired,      \* the pins in GpioStatic::fired
    wakers,     \* the pins whose AtomicWaker holds a waker
    pc,         \* where the future of each pin is
    wants,      \* GpioWait::level
    mask,       \* what register read of pin_mask
    woken,      \* the pins whose task was woken
    waits,      \* the futures each pin had
    pins,       \* the pins callback_handler has still to handle
    isr,        \* the next step of callback_handler, or None
    isrMask     \* what callback_handler read of pin_mask

vars == <<level, interrupt, installed, pin_mask, fired, wakers, pc,
          wants, mask, woken, waits, pins, isr, isrMask>>

controller == <<level, interrupt, installed>>
handler == <<pins, isr, isrMask>>
future == <<wants, waits>>

Init ==
    /\ level = [p \in Pins |-> 0]
    /\ interrupt = [p \in Pins |-> None]
    /\ installed = FALSE
    /\ pin_mask = {}
    /\ fired = {}
    /\ wakers = {}
    /\ pc = [p \in Pins |-> "idle"]
    /\ wants = [p \in Pins |-> 1]
    /\ mask = [p \in Pins |-> {}]
    /\ woken = {}
    /\ waits = [p \in Pins |-> 0]
    /\ pins = {}
    /\ isr = None
    /\ isrMask = {}

\* The task of pin p runs: on one processor the handler runs to its end first,
\* and one executor ends a poll before it polls another task.
TaskRuns(p) ==
    /\ Smp \/ isr = None
    /\ Threads \/ \A q \in Pins \ {p} : pc[q] \in {"idle", "pending"}

\* The pin's level changes, from outside.
Toggle(p) ==
    /\ level' = [level EXCEPT ![p] = 1 - @]
    /\ UNCHANGED <<interrupt, installed, pin_mask, fired, wakers, pc,
                   wants, mask, woken, waits, handler>>

-----------------------------------------------------------------------------
(* GpioPin::wait_for_high, wait_for_low and GpioWait.                      *)

\* The future is made and polled for the first time.
Wait(p, l) ==
    /\ TaskRuns(p)
    /\ pc[p] = "idle"
    /\ waits[p] < MaxWaits
    /\ waits' = [waits EXCEPT ![p] = @ + 1]
    /\ wants' = [wants EXCEPT ![p] = l]
    /\ pc' = [pc EXCEPT ![p] = "fast_install"]
    /\ UNCHANGED <<controller, pin_mask, fired, wakers, mask, woken, handler>>

\* The executor polls the task again: woken, or for another of its futures.
Poll(p) ==
    /\ TaskRuns(p)
    /\ pc[p] = "pending"
    /\ p \in woken \/ Repolls
    /\ woken' = woken \ {p}
    /\ pc' = [pc EXCEPT ![p] = "fast_install"]
    /\ UNCHANGED <<controller, pin_mask, fired, wakers, mask, future, handler>>

\* GpioWait has no Drop: the interrupt and the mask stay as they are.
DropWait(p) ==
    /\ TaskRuns(p)
    /\ Drops
    /\ pc[p] = "pending"
    /\ pc' = [pc EXCEPT ![p] = "idle"]
    /\ UNCHANGED <<controller, pin_mask, fired, wakers, mask, woken, future,
                   handler>>

FastInstall(p) ==
    /\ TaskRuns(p)
    /\ pc[p] = "fast_install"
    /\ pc' = [pc EXCEPT ![p] = IF installed THEN "check" ELSE "install"]
    /\ UNCHANGED <<controller, pin_mask, fired, wakers, mask, woken, future,
                   handler>>

\* The critical section of GpioStatic::install.
Install(p) ==
    /\ TaskRuns(p)
    /\ pc[p] = "install"
    /\ installed' = TRUE
    /\ pin_mask' = IF installed THEN pin_mask ELSE {}
    /\ pc' = [pc EXCEPT ![p] = "check"]
    /\ UNCHANGED <<level, interrupt, fired, wakers, mask, woken, future,
                   handler>>

\* has_fired, before the pin is registered and before the task sleeps.
HasFired(p, at, next) ==
    /\ TaskRuns(p)
    /\ pc[p] = at
    /\ fired' = fired \ {p}
    /\ pc' = [pc EXCEPT ![p] = IF p \in fired THEN "idle" ELSE next]
    /\ UNCHANGED <<controller, pin_mask, wakers, mask, woken, future, handler>>

\* GpioStatic::register: the waker, then the two halves of `|=`.
Register(p) ==
    /\ TaskRuns(p)
    /\ pc[p] = "register"
    /\ wakers' = wakers \cup {p}
    /\ pc' = [pc EXCEPT ![p] = "read_mask"]
    /\ UNCHANGED <<controller, pin_mask, fired, mask, woken, future, handler>>

ReadMask(p) ==
    /\ TaskRuns(p)
    /\ pc[p] = "read_mask"
    /\ mask' = [mask EXCEPT ![p] = pin_mask]
    /\ pc' = [pc EXCEPT ![p] = "write_mask"]
    /\ UNCHANGED <<controller, pin_mask, fired, wakers, woken, future, handler>>

\* Mutant: the mask is assigned, the other pins' bits are lost.
WriteMaskAlone(p) ==
    /\ TaskRuns(p)
    /\ pc[p] = "write_mask"
    /\ pin_mask' = {p}
    /\ mask' = [mask EXCEPT ![p] = {}]
    /\ pc' = [pc EXCEPT ![p] = "configure"]
    /\ UNCHANGED <<controller, fired, wakers, woken, future, handler>>

WriteMask(p) ==
    /\ TaskRuns(p)
    /\ pc[p] = "write_mask"
    /\ pin_mask' = mask[p] \cup {p}
    /\ mask' = [mask EXCEPT ![p] = {}]
    /\ pc' = [pc EXCEPT ![p] = "configure"]
    /\ UNCHANGED <<controller, fired, wakers, woken, future, handler>>

\* gpio_pin_interrupt_configure_dt.
Configure(p) ==
    /\ TaskRuns(p)
    /\ pc[p] = "configure"
    /\ interrupt' = [interrupt EXCEPT ![p] = wants[p]]
    /\ pc' = [pc EXCEPT ![p] = "recheck"]
    /\ UNCHANGED <<level, installed, pin_mask, fired, wakers, mask,
                   woken, future, handler>>

-----------------------------------------------------------------------------
(* The interrupt.                                                          *)

\* The pins that interrupt now, and the one handled next.
Asserted == {p \in Pins : interrupt[p] = level[p]}
Lowest == Min(pins)

\* The driver calls the callback with the pins of its mask, if there are any.
Fire ==
    /\ isr = None
    /\ Asserted \cap pin_mask # {}
    /\ pins' = Asserted \cap pin_mask
    /\ isr' = "disable"
    /\ UNCHANGED <<controller, pin_mask, fired, wakers, pc, future, mask, woken,
                   isrMask>>

\* The pin's interrupt is disabled, and half of `pin_mask &= ` is done.
DisableInterrupt ==
    /\ isr = "disable"
    /\ interrupt' = [interrupt EXCEPT ![Lowest] = None]
    /\ isrMask' = pin_mask
    /\ isr' = "unmask"
    /\ UNCHANGED <<level, installed, pin_mask, fired, wakers, pc, future,
                   mask, woken, pins>>

Unmask ==
    /\ isr = "unmask"
    /\ pin_mask' = isrMask \ {Lowest}
    /\ isrMask' = {}
    /\ isr' = "fired"
    /\ UNCHANGED <<controller, fired, wakers, pc, future, mask, woken, pins>>

SetFired ==
    /\ isr = "fired"
    /\ fired' = fired \cup {Lowest}
    /\ isr' = "wake"
    /\ UNCHANGED <<controller, pin_mask, wakers, pc, future, mask, woken, pins,
                   isrMask>>

\* AtomicWaker::wake, and the loop's condition.
WakeTask ==
    /\ isr = "wake"
    /\ woken' = IF Lowest \in wakers THEN woken \cup {Lowest} ELSE woken
    /\ wakers' = wakers \ {Lowest}
    /\ pins' = pins \ {Lowest}
    /\ isr' = IF pins' = {} THEN None ELSE "disable"
    /\ UNCHANGED <<controller, pin_mask, fired, pc, future, mask, isrMask>>

-----------------------------------------------------------------------------
TaskStep(p) ==
    \/ FastInstall(p) \/ Install(p)
    \/ HasFired(p, "check", "register")
    \/ Register(p) \/ ReadMask(p) \/ WriteMask(p) \/ Configure(p)
    \/ HasFired(p, "recheck", "pending")

Handler == Fire \/ DisableInterrupt \/ Unmask \/ SetFired \/ WakeTask

Next ==
    \/ \E p \in Pins :
          \/ Toggle(p) \/ Poll(p) \/ DropWait(p) \/ TaskStep(p)
          \/ \E l \in {0, 1} : Wait(p, l)
    \/ Handler

Spec == Init /\ [][Next]_vars

-----------------------------------------------------------------------------
(* Properties.                                                             *)

Waiting == {p \in Pins : pc[p] = "pending"}

\* callback_handler was called for p, and has yet to end with its wake.
InHandler(p) == p \in pins

\* A task that sleeps on its pin will hear of it: the interrupt is enabled for
\* the level it waits for, the callback is called for the pin, and a waker is
\* registered; or it has been woken with the bit set; or the handler is at it.
NoMissedWake ==
    \A p \in Waiting :
        \/ interrupt[p] = wants[p] /\ p \in pin_mask /\ p \in wakers
        \/ p \in woken /\ p \in fired
        \/ InHandler(p)

\* A pin that interrupts is in the callback's mask, so the handler is called
\* and disables the interrupt; otherwise it would interrupt for as long as the
\* level stays.
NoStorm ==
    \A p \in Pins : interrupt[p] # None => p \in pin_mask \/ InHandler(p)

=============================================================================
