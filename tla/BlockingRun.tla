----------------------------- MODULE BlockingRun -----------------------------
(***************************************************************************)
(* What the documentation of zephyr::blocking::run promises its callers,   *)
(* with no slot, queue, lock or worker in sight: a call runs its closure   *)
(* at most once and is answered only after the closure returned; a call    *)
(* cancelled before its closure started never runs it, and one cancelled   *)
(* later lets it run to the end.  At most Limit closures run at a time.    *)
(***************************************************************************)
EXTENDS Naturals, FiniteSets

CONSTANTS Calls, Limit

VARIABLES call,  \* the caller's view of each call
          op     \* what became of its closure

TypeOK ==
    /\ call \in [Calls -> {"unborn", "pending", "ready", "cancelled"}]
    /\ op \in [Calls -> {"ready", "running", "returned"}]

Init ==
    /\ call = [c \in Calls |-> "unborn"]
    /\ op = [c \in Calls |-> "ready"]

Make(c) ==
    /\ call[c] = "unborn"
    /\ call' = [call EXCEPT ![c] = "pending"]
    /\ UNCHANGED op

Begin(c) ==
    /\ call[c] = "pending"
    /\ op[c] = "ready"
    /\ Cardinality({d \in Calls : op[d] = "running"}) < Limit
    /\ op' = [op EXCEPT ![c] = "running"]
    /\ UNCHANGED call

Return(c) ==
    /\ op[c] = "running"
    /\ op' = [op EXCEPT ![c] = "returned"]
    /\ UNCHANGED call

Answer(c) ==
    /\ call[c] = "pending"
    /\ op[c] = "returned"
    /\ call' = [call EXCEPT ![c] = "ready"]
    /\ UNCHANGED op

Cancel(c) ==
    /\ call[c] = "pending"
    /\ call' = [call EXCEPT ![c] = "cancelled"]
    /\ UNCHANGED op

Next == \E c \in Calls :
    Make(c) \/ Begin(c) \/ Return(c) \/ Answer(c) \/ Cancel(c)

Spec == Init /\ [][Next]_<<call, op>>
=============================================================================
