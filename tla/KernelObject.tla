---------------------------- MODULE KernelObject ----------------------------
(***************************************************************************)
(* zephyr/src/object.rs: ZephyrObject, a kernel object initialised on its  *)
(* first use and never moved after it, and StaticKernelObject, which hands *)
(* out its instance once.                                                  *)
(*                                                                         *)
(* The fast path of ZephyrObject::get reads the state with a relaxed load, *)
(* which may miss the store of another thread.                             *)
(***************************************************************************)
EXTENDS Naturals

CONSTANTS Getters,
          Addrs,     \* the addresses the object may be moved to
          Unset

ASSUME ObjectAssumption == Unset \notin Getters \cup Addrs /\ Addrs # {}

VARIABLES
    state,    \* ZephyrObject::state: Unset (0) or an address
    addr,     \* where the object is
    inits,    \* how often ObjectInit::init was called
    ready,    \* whether init has finished
    cs,       \* the thread in the critical section, or Unset
    place,    \* where each thread is in a call of get
    init,     \* StaticKernelObject::init
    once      \* where each thread is in init_once, and what it returned

objectVars == <<state, addr, inits, ready, cs, place, init, once>>

ObjectInit ==
    /\ state = Unset
    /\ addr \in Addrs
    /\ inits = 0
    /\ ready = FALSE
    /\ cs = Unset
    /\ place = [t \in Getters |-> "out"]
    /\ init = "UNINITIALIZED"
    /\ once = [t \in Getters |-> "out"]

onceVars == <<init, once>>

-----------------------------------------------------------------------------
(* ZephyrObject.                                                           *)

\* Where a value of the state leads.
Decide(s, uninit) ==
    CASE s = Unset -> uninit
      [] s = addr -> "use"
      [] OTHER -> "moved"

\* The relaxed load; it may still read 0 after the store.
Load(t) ==
    /\ place[t] = "out"
    /\ \E s \in {state, Unset} : place' = [place EXCEPT ![t] = Decide(s, "slow")]
    /\ UNCHANGED <<state, addr, inits, ready, cs, onceVars>>

EnterCS(t) ==
    /\ place[t] = "slow"
    /\ cs = Unset
    /\ cs' = t
    /\ place' = [place EXCEPT ![t] = "reload"]
    /\ UNCHANGED <<state, addr, inits, ready, onceVars>>

\* Mutant: the state is not looked at again.
ReloadNot(t) ==
    /\ place[t] = "reload"
    /\ place' = [place EXCEPT ![t] = "init"]
    /\ UNCHANGED <<state, addr, inits, ready, cs, onceVars>>

\* The state is read again: init, return or panic, the latter two leave.
Reload(t) ==
    /\ place[t] = "reload"
    /\ place' = [place EXCEPT ![t] = Decide(state, "init")]
    /\ cs' = IF state = Unset THEN t ELSE Unset
    /\ UNCHANGED <<state, addr, inits, ready, onceVars>>

\* ObjectInit::init begins, and writes to the object.
InitObject(t) ==
    /\ place[t] = "init"
    /\ inits' = inits + 1
    /\ place' = [place EXCEPT ![t] = "store"]
    /\ UNCHANGED <<state, addr, ready, cs, onceVars>>

\* init has returned; the state is stored, and the critical section left.
StoreState(t) ==
    /\ place[t] = "store"
    /\ ready' = TRUE
    /\ state' = addr
    /\ cs' = Unset
    /\ place' = [place EXCEPT ![t] = "use"]
    /\ UNCHANGED <<addr, inits, onceVars>>

\* The kernel call that get was made for returns.
Return(t) ==
    /\ place[t] = "use"
    /\ place' = [place EXCEPT ![t] = "out"]
    /\ UNCHANGED <<state, addr, inits, ready, cs, onceVars>>

\* The owner moves the object; Rust allows that while nobody borrows it.
Move(a) ==
    /\ \A t \in Getters : place[t] \in {"out", "moved"}
    /\ addr' = a
    /\ UNCHANGED <<state, inits, ready, cs, place, onceVars>>

-----------------------------------------------------------------------------
(* StaticKernelObject::init_once.                                          *)

getVars == <<state, addr, inits, ready, cs, place>>

\* compare_exchange.
ClaimOnce(t) ==
    /\ once[t] = "out"
    /\ \/ /\ init = "UNINITIALIZED"
          /\ init' = "INITING"
          /\ once' = [once EXCEPT ![t] = "wrap"]
       \/ /\ init # "UNINITIALIZED"
          /\ once' = [once EXCEPT ![t] = "None"]
          /\ UNCHANGED init
    /\ UNCHANGED getVars

\* get_wrapped, and the store of INITIALIZED.
Wrap(t) ==
    /\ once[t] = "wrap"
    /\ init' = "INITIALIZED"
    /\ once' = [once EXCEPT ![t] = "Some"]
    /\ UNCHANGED getVars

-----------------------------------------------------------------------------
GetStep(t) ==
    \/ Load(t) \/ EnterCS(t) \/ Reload(t) \/ InitObject(t) \/ StoreState(t)
    \/ Return(t)

ObjectNext ==
    \/ \E t \in Getters : GetStep(t) \/ ClaimOnce(t) \/ Wrap(t)
    \/ \E a \in Addrs : Move(a)

ObjectSpec == ObjectInit /\ [][ObjectNext]_objectVars

-----------------------------------------------------------------------------
(* Properties.                                                             *)

\* "a critical section to avoid a race and double initialization": init is
\* called once, however many threads race for the first use and wherever the
\* object is moved afterwards; and get returns the address of an object whose
\* init has run to its end and that is still where it was initialised.  Of
\* init_once: "Will return a single wrapped instance of this object ... If it is
\* called an additional time, it will return None": one caller gets the
\* instance, and nobody is turned away before somebody was given it.
OnlyOnce ==
    /\ inits <= 1
    /\ \A t \in Getters : place[t] = "use" => ready /\ state = addr
    /\ \A t, u \in Getters :
          once[t] \in {"wrap", "Some"} /\ once[u] \in {"wrap", "Some"} => t = u
    /\ \A t \in Getters :
          once[t] = "None" => \E u \in Getters : once[u] \in {"wrap", "Some"}
=============================================================================
