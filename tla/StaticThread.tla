---------------------------- MODULE StaticThread ----------------------------
(***************************************************************************)
(* zephyr/src/sys/thread.rs: threads made from a StaticThread and a        *)
(* StaticThreadStack, each of which init_once hands out one time.  A       *)
(* caller's closure travels to its thread in a box, through a raw pointer. *)
(*                                                                         *)
(* The compare and exchange in init_once decides who gets an object; it is *)
(* one step here (KernelObject has the whole call).  Its None, to a caller *)
(* that asks for a stack, changes nothing.  Priority and options are       *)
(* values given to the kernel.                                             *)
(***************************************************************************)
EXTENDS FiniteSets, Naturals

CONSTANTS Callers,
          Stacks,         \* the StaticThreadStacks
          StaticThreads,  \* the StaticThreads, with their k_thread
          Nothing

ASSUME StaticAssumption ==
    /\ Nothing \notin Callers \cup Stacks \cup StaticThreads \cup Nat
    /\ IsFiniteSet(StaticThreads)

\* Addresses of a ThreadData: one for every thread is enough.
Boxes == 1..Cardinality(StaticThreads)

VARIABLES
    inited,  \* the objects that init_once has handed out
    at,      \* where each caller is
    stack,   \* the ThreadStack it has
    raw,     \* the k_thread of the Thread it has
    child,   \* the box it has made for its closure
    heap,    \* whose closure is in each box; Nothing if it is free
    kt       \* each k_thread: state, stack, p1, its creator and what it ran

staticVars == <<inited, at, stack, raw, child, heap, kt>>

NoThread == [state |-> "none", stack |-> Nothing, p1 |-> Nothing,
             creator |-> Nothing, ran |-> Nothing]

StaticInit ==
    /\ inited = {}
    /\ at = [c \in Callers |-> "out"]
    /\ stack = [c \in Callers |-> Nothing]
    /\ raw = [c \in Callers |-> Nothing]
    /\ child = [c \in Callers |-> Nothing]
    /\ heap = [b \in Boxes |-> Nothing]
    /\ kt = [t \in StaticThreads |-> NoThread]

Goes(c, from, to) ==
    /\ at[c] = from
    /\ at' = [at EXCEPT ![c] = to]

-----------------------------------------------------------------------------
(* init_once of the two objects.                                           *)

StackInitOnce(c, k) ==
    /\ Goes(c, "out", "stack")
    /\ k \notin inited
    /\ inited' = inited \cup {k}
    /\ stack' = [stack EXCEPT ![c] = k]
    /\ UNCHANGED <<raw, child, heap, kt>>

\* Mutant: the flag is read, and nobody sets it.
ThreadInitAgain(c, t) ==
    /\ Goes(c, "stack", "thread")
    /\ t \notin inited
    /\ raw' = [raw EXCEPT ![c] = t]
    /\ UNCHANGED <<inited, stack, child, heap, kt>>

ThreadInitOnce(c, t) ==
    /\ Goes(c, "stack", "thread")
    /\ t \notin inited
    /\ inited' = inited \cup {t}
    /\ raw' = [raw EXCEPT ![c] = t]
    /\ UNCHANGED <<stack, child, heap, kt>>

\* None for a thread; the stack was moved into the call and is lost.
ThreadRefused(c, t) ==
    /\ Goes(c, "stack", "out")
    /\ t \in inited
    /\ stack' = [stack EXCEPT ![c] = Nothing]
    /\ UNCHANGED <<inited, raw, child, heap, kt>>

\* Neither a ThreadStack nor a Thread has a Drop.
DropUnused(c, from) ==
    /\ Goes(c, from, "out")
    /\ stack' = [stack EXCEPT ![c] = Nothing]
    /\ raw' = [raw EXCEPT ![c] = Nothing]
    /\ UNCHANGED <<inited, child, heap, kt>>

-----------------------------------------------------------------------------
(* Thread::spawn and simple_spawn.                                         *)

BoxClosure(c) ==
    /\ Goes(c, "thread", "create")
    /\ \E b \in Boxes :
          /\ heap[b] = Nothing
          /\ heap' = [heap EXCEPT ![b] = c]
          /\ child' = [child EXCEPT ![c] = b]
    /\ UNCHANGED <<inited, stack, raw, kt>>

\* simple_spawn passes its caller's pointers on.
SimpleSpawn(c) ==
    /\ Goes(c, "thread", "create")
    /\ UNCHANGED <<inited, stack, raw, child, heap, kt>>

\* k_thread_create with K_NO_WAIT: the child may run before the call returns.
CreateThread(c) ==
    /\ Goes(c, "create", "name")
    /\ kt' = [kt EXCEPT ![raw[c]] =
                [state |-> "ready", stack |-> stack[c], p1 |-> child[c],
                 creator |-> c, ran |-> Nothing]]
    /\ UNCHANGED <<inited, stack, raw, child, heap>>

\* set_thread_name, and the Thread, which spawn has consumed, is gone.
SetThreadName(c) ==
    /\ Goes(c, "name", "out")
    /\ stack' = [stack EXCEPT ![c] = Nothing]
    /\ raw' = [raw EXCEPT ![c] = Nothing]
    /\ child' = [child EXCEPT ![c] = Nothing]
    /\ UNCHANGED <<inited, heap, kt>>

-----------------------------------------------------------------------------
(* The new thread.                                                         *)

\* closure::child takes the box back and calls the closure in it; the entry
\* of simple_spawn has none.
RunChild(t) ==
    /\ kt[t].state = "ready"
    /\ kt' = [kt EXCEPT ![t].state = "running",
                        ![t].ran = IF kt[t].p1 = Nothing THEN Nothing
                                   ELSE heap[kt[t].p1]]
    /\ UNCHANGED <<inited, at, stack, raw, child, heap>>

\* The closure returns, and the box is freed.
ChildReturns(t) ==
    /\ kt[t].state = "running"
    /\ kt' = [kt EXCEPT ![t].state = "ended"]
    /\ heap' = [b \in Boxes |-> IF b = kt[t].p1 THEN Nothing ELSE heap[b]]
    /\ UNCHANGED <<inited, at, stack, raw, child>>

-----------------------------------------------------------------------------
StaticNext ==
    \/ \E c \in Callers :
          \/ \E k \in Stacks : StackInitOnce(c, k)
          \/ \E t \in StaticThreads : ThreadInitOnce(c, t) \/ ThreadRefused(c, t)
          \/ \E from \in {"stack", "thread"} : DropUnused(c, from)
          \/ BoxClosure(c) \/ SimpleSpawn(c) \/ CreateThread(c)
          \/ SetThreadName(c)
    \/ \E t \in StaticThreads : RunChild(t) \/ ChildReturns(t)

StaticSpec == StaticInit /\ [][StaticNext]_staticVars

-----------------------------------------------------------------------------
(* Properties.                                                             *)

Created == {t \in StaticThreads : kt[t].state # "none"}

\* "Each of these has a init_once method that returns the single usable
\* instance": spawn never creates a k_thread that exists, no two threads have
\* one stack, a thread that has yet to run finds its creator's closure alive in
\* its own box and one that ran has run that closure, and the thread that is
\* named after the creation is the one that was created.
SpawnOwnership ==
    /\ \A c \in Callers :
          /\ at[c] = "create" => raw[c] \notin Created
          /\ at[c] = "name" => kt[raw[c]].creator = c
    /\ \A t, u \in Created :
          t # u => /\ kt[t].stack # kt[u].stack
                   /\ kt[t].state # "ended" /\ kt[u].state # "ended" =>
                         kt[t].p1 # kt[u].p1 \/ kt[t].p1 = Nothing
    /\ \A t \in Created :
          kt[t].p1 # Nothing =>
              CASE kt[t].state = "ready" -> heap[kt[t].p1] = kt[t].creator
                [] OTHER -> kt[t].ran = kt[t].creator
=============================================================================
