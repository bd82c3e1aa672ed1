---------------------------- MODULE MCExecutors ----------------------------
(***************************************************************************)
(* The two ways to have work done by a thread that waits for it,           *)
(* WorkQueues and the Embassy executor, for TLC.  They share no state, so  *)
(* an initial state chooses the one that is used.                          *)
(***************************************************************************)
EXTENDS WorkQueues, Embassy

VARIABLE executor

ExecutorsInit == WorkInit /\ Init /\ executor \in {"work", "embassy"}

ExecutorsNext ==
    /\ \/ executor = "work" /\ WorkNext /\ UNCHANGED vars
       \/ executor = "embassy" /\ Next /\ UNCHANGED workVars
    /\ UNCHANGED executor

\* What the embassy executor needs: its thread is scheduled, the timer's
\* interrupt is served, time passes, and a waker that queued a task goes on to
\* __pender.  Nobody has to wake a task.
Chosen == executor = "embassy"
EmbassyFairness ==
    /\ WF_vars(Chosen /\ ExecutorStep) /\ WF_vars(Chosen /\ DriverStep)
    /\ WF_vars(Chosen /\ TimerTick) /\ WF_vars(Chosen /\ Tick)
    /\ WF_vars(Chosen /\ Pender)

ExecutorsSpec ==
    /\ ExecutorsInit
    /\ [][ExecutorsNext]_<<workVars, vars, executor>>
    /\ WorkFairness /\ EmbassyFairness
=============================================================================
