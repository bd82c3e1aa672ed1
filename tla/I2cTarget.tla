----------------------------- MODULE I2cTarget -----------------------------
(***************************************************************************)
(* An I2cTargetData (zephyr/src/device/i2c/target.rs), which threads       *)
(* register on i2c busses and unregister, and whose callbacks run in the   *)
(* busses' interrupts; and the SpinMutex (zephyr/src/sync/spinmutex.rs)    *)
(* that the callbacks share with threads inside it, in a build for several *)
(* processors.                                                             *)
(*                                                                         *)
(* Every thread has the `&mut I2c` of one bus and runs on a processor of   *)
(* its own, both named after it.  The interrupt of a bus may come on any   *)
(* processor, and stops the thread there until it returns.                 *)
(***************************************************************************)
EXTENDS FiniteSets, Naturals

CONSTANTS Users,  \* the threads, their busses and their processors
          Nobody

ASSUME I2cAssumption ==
    Nobody \notin Users \cup ({"thread", "irq"} \X Users)

VARIABLES
    registered,  \* I2cTargetData::registered
    cbs,         \* config and cbs: zeroed, torn (being written) or set
    onBus,       \* the busses whose drivers have the target
    at,          \* where each thread is in register or unregister
    spin,        \* out, or with the key that a thread in k_spin_lock has got
    masked,      \* the processors whose interrupts are disabled
    holder,      \* the guard is in <<"thread", u>> or <<"irq", b>>, or Nobody
    key,         \* SpinMutexGuard::key
    sent,        \* whether the guard has gone to another thread
    irq,         \* where the callback of each bus is
    cpu          \* the processor it runs on, or Nobody

flagVars == <<registered, cbs, onBus, at>>
guardVars == <<holder, key, sent>>
spinVars == <<spin, masked, guardVars>>
irqVars == <<irq, cpu>>
i2cVars == <<flagVars, spinVars, irqVars>>

I2cInit ==
    /\ registered = FALSE
    /\ cbs = "zeroed"
    /\ onBus = {}
    /\ at = [u \in Users |-> "out"]
    /\ spin = [u \in Users |-> "out"]
    /\ masked = {}
    /\ holder = Nobody /\ key = "enabled" /\ sent = FALSE
    /\ irq = [b \in Users |-> "idle"]
    /\ cpu = [b \in Users |-> Nobody]

\* No interrupt has stopped the thread, and it does not spin in k_spin_lock.
Runs(u) == \A b \in Users : cpu[b] # u
Free(u) == Runs(u) /\ spin[u] = "out"

\* Neither is it in register or unregister.
Calls(u) == Free(u) /\ at[u] \in {"out", "handle"}

\* Thread u is at a label of register or unregister and goes to another one.
Moves(u, from, label) ==
    /\ Free(u)
    /\ at[u] = from
    /\ at' = [at EXCEPT ![u] = label]
    /\ UNCHANGED <<spinVars, irqVars>>

-----------------------------------------------------------------------------
(* I2cTargetData::register.                                                *)

\* The flag is claimed with a swap; EBUSY if it was set.
Claim(u) ==
    /\ Moves(u, "out", IF registered THEN "out" ELSE "write")
    /\ registered' = TRUE
    /\ UNCHANGED <<cbs, onBus>>

\* The callback table is written, then linked to the config.
WriteCallbacks(u) ==
    /\ Moves(u, "write", "link")
    /\ cbs' = "torn"
    /\ UNCHANGED <<registered, onBus>>

LinkCallbacks(u) ==
    /\ Moves(u, "link", "register")
    /\ cbs' = "set"
    /\ UNCHANGED <<registered, onBus>>

\* i2c_target_register: the driver takes the target, and callbacks may come
\* before register returns; or it fails.
DriverRegisters(u) ==
    /\ Moves(u, "register", "handle")
    /\ onBus' = onBus \cup {u}
    /\ UNCHANGED <<registered, cbs>>

DriverRefuses(u) ==
    /\ Moves(u, "register", "restore")
    /\ UNCHANGED <<registered, cbs, onBus>>

RestoreFlag(u) ==
    /\ Moves(u, "restore", "out")
    /\ registered' = FALSE
    /\ UNCHANGED <<cbs, onBus>>

-----------------------------------------------------------------------------
(* I2cTarget, the handle.                                                  *)

\* Mutant: the flag is cleared before the driver gives the target up.
UnregisterEarly(u) ==
    /\ Moves(u, "handle", "unregister")
    /\ registered' = FALSE
    /\ UNCHANGED <<cbs, onBus>>

\* unregister consumes the handle.
Unregister(u) ==
    /\ Moves(u, "handle", "unregister")
    /\ UNCHANGED <<registered, cbs, onBus>>

\* i2c_target_unregister returns when no callback of the bus runs any more.
DriverUnregisters(u) ==
    /\ irq[u] = "idle"
    /\ Moves(u, "unregister", "clear")
    /\ onBus' = onBus \ {u}
    /\ UNCHANGED <<registered, cbs>>

\* It fails: `?` returns, the handle is gone, the target stays on the bus.
UnregisterFails(u) ==
    /\ Moves(u, "unregister", "out")
    /\ UNCHANGED <<registered, cbs, onBus>>

ClearFlag(u) ==
    /\ Moves(u, "clear", "out")
    /\ registered' = FALSE
    /\ UNCHANGED <<cbs, onBus>>

\* The handle has no Drop.
DropHandle(u) ==
    /\ Moves(u, "handle", "out")
    /\ UNCHANGED <<registered, cbs, onBus>>

-----------------------------------------------------------------------------
(* SpinMutex, used by a thread through I2cTargetData::data.  A thread that *)
(* has the guard may lock again; and SpinMutexGuard is Send, as its        *)
(* PhantomData<UnsafeCell<()>> is.                                         *)

\* arch_irq_lock: the key says whether the processor's interrupts were enabled.
IrqKey(u) == IF u \in masked THEN "disabled" ELSE "enabled"

\* k_spin_lock disables the processor's interrupts and spins for the lock.
SpinLock(u) ==
    /\ Calls(u)
    /\ spin' = [spin EXCEPT ![u] = IrqKey(u)]
    /\ masked' = masked \cup {u}
    /\ UNCHANGED <<flagVars, guardVars, irqVars>>

SpinAcquire(u) ==
    /\ spin[u] # "out"
    /\ holder = Nobody
    /\ holder' = <<"thread", u>> /\ key' = spin[u] /\ sent' = FALSE
    /\ spin' = [spin EXCEPT ![u] = "out"]
    /\ UNCHANGED <<flagVars, masked, irqVars>>

\* Mutant: the lock is taken without disabling interrupts.
SpinTryLockOpen(u) ==
    /\ Calls(u)
    /\ holder = Nobody
    /\ holder' = <<"thread", u>> /\ key' = IrqKey(u) /\ sent' = FALSE
    /\ UNCHANGED <<flagVars, spin, masked, irqVars>>

\* k_spin_trylock returns 0 with the lock; or it gives the key back, and the
\* call changes nothing.
SpinTryLock(u) ==
    /\ Calls(u)
    /\ holder = Nobody
    /\ holder' = <<"thread", u>> /\ key' = IrqKey(u) /\ sent' = FALSE
    /\ masked' = masked \cup {u}
    /\ UNCHANGED <<flagVars, spin, irqVars>>

\* The guard's key sets the interrupts of the processor that drops it; a key
\* with interrupts disabled does nothing or disables them, by architecture.
SpinUnlock(u) ==
    /\ Calls(u)
    /\ holder = <<"thread", u>>
    /\ holder' = Nobody
    /\ \/ key = "enabled" /\ masked' = masked \ {u}
       \/ key = "disabled" /\ masked' \in {masked, masked \cup {u}}
    /\ UNCHANGED <<flagVars, spin, key, sent, irqVars>>

\* The guard goes to another thread; interrupts stay as they are.
SendGuard(u, v) ==
    /\ u # v /\ Calls(u) /\ Calls(v)
    /\ holder = <<"thread", u>>
    /\ holder' = <<"thread", v>> /\ sent' = TRUE
    /\ UNCHANGED <<flagVars, spin, masked, key, irqVars>>

-----------------------------------------------------------------------------
(* The interrupts.                                                         *)

\* The driver calls a function of cbs: a trampoline, which finds the
\* I2cTargetData and calls its data; a method may lock the SpinMutex, the
\* default ones return.  The bus interrupts a processor whose interrupts are
\* enabled.
Trampoline(b, u) ==
    /\ b \in onBus
    /\ irq[b] = "idle"
    /\ Runs(u) /\ u \notin masked
    /\ \E next \in {"callback", "return"} : irq' = [irq EXCEPT ![b] = next]
    /\ cpu' = [cpu EXCEPT ![b] = u]
    /\ UNCHANGED <<flagVars, spinVars>>

CallbackLock(b) ==
    /\ irq[b] = "callback"
    /\ holder = Nobody
    /\ holder' = <<"irq", b>>
    /\ irq' = [irq EXCEPT ![b] = "guard"]
    /\ UNCHANGED <<flagVars, spin, masked, key, sent, cpu>>

\* Its guard is dropped at its end; a value or an errno is returned.
CallbackUnlock(b) ==
    /\ irq[b] = "guard"
    /\ holder' = Nobody
    /\ irq' = [irq EXCEPT ![b] = "return"]
    /\ UNCHANGED <<flagVars, spin, masked, key, sent, cpu>>

TrampolineReturns(b) ==
    /\ irq[b] = "return"
    /\ irq' = [irq EXCEPT ![b] = "idle"]
    /\ cpu' = [cpu EXCEPT ![b] = Nobody]
    /\ UNCHANGED <<flagVars, spinVars>>

-----------------------------------------------------------------------------
RegisterStep(u) ==
    \/ Claim(u) \/ WriteCallbacks(u) \/ LinkCallbacks(u)
    \/ DriverRegisters(u) \/ DriverRefuses(u) \/ RestoreFlag(u)
    \/ Unregister(u) \/ DriverUnregisters(u) \/ UnregisterFails(u)
    \/ ClearFlag(u) \/ DropHandle(u)

GuardStep(u) ==
    \/ SpinLock(u) \/ SpinAcquire(u) \/ SpinTryLock(u) \/ SpinUnlock(u)
    \/ \E v \in Users : SendGuard(u, v)

CallbackStep(b) == CallbackLock(b) \/ CallbackUnlock(b) \/ TrampolineReturns(b)

I2cNext ==
    \E u \in Users :
        \/ RegisterStep(u) \/ GuardStep(u) \/ CallbackStep(u)
        \/ \E b \in Users : Trampoline(b, u)

I2cSpec == I2cInit /\ [][I2cNext]_i2cVars

-----------------------------------------------------------------------------
(* Properties.                                                             *)

Writers == {u \in Users : at[u] \in {"write", "link"}}

\* "Claiming `registered` above makes us the sole writer, and the target is not
\* registered with any bus, so no callbacks can be reading these fields".  "A
\* target can only be registered on one bus at a time": while a bus has it, it
\* is the only one, the callbacks are complete and the flag is set; and the
\* flag is set for no other reason than that or a call under way, so EBUSY is
\* never returned for a target that nobody has.
RegistrationSound ==
    /\ Cardinality(Writers) <= 1
    /\ Writers # {} => onBus = {} /\ \A b \in Users : irq[b] = "idle"
    /\ Cardinality(onBus) <= 1
    /\ onBus # {} => registered /\ cbs = "set"
    /\ registered => onBus # {} \/ \E u \in Users : at[u] # "out"

\* A SpinMutex "is uninterruptible, and prevents even IRQ handlers from running"
\* (spinmutex.rs): no interrupt stops a thread that has the guard, so that no
\* callback spins for a lock that only the thread below it gives back.
Uninterruptible == \A u \in Users : holder = <<"thread", u>> => Runs(u)

\* It is so as long as the guard stays where it was made ("Mark as not Send"):
\* through try_lock, a lock by the thread that has the guard, and keys that say
\* that interrupts were disabled before, left by guards that were sent.
UninterruptibleUnsent == ~sent => Uninterruptible
=============================================================================
