----------------------------- MODULE MCThreads -----------------------------
(***************************************************************************)
(* The two ways to make threads, ThreadPool and StaticThread, and the      *)
(* channels between threads, for TLC.  They share no state, so an initial  *)
(* state chooses the one that is used.                                     *)
(***************************************************************************)
EXTENDS ThreadPool, StaticThread, MCChannel

VARIABLE api

ThreadsInit ==
    /\ PoolInit /\ StaticInit /\ Init
    /\ api \in {"thread", "sys::thread", "channel"}

ThreadsNext ==
    /\ \/ api = "thread" /\ PoolNext /\ UNCHANGED <<staticVars, vars>>
       \/ api = "sys::thread" /\ StaticNext /\ UNCHANGED <<poolVars, vars>>
       \/ api = "channel" /\ Next /\ UNCHANGED <<poolVars, staticVars>>
    /\ UNCHANGED api

\* Threads inside a call go on, and a receiver with a handle keeps receiving.
\* Nobody has to send, to time out, to clone or to drop.
ChannelFairness ==
    /\ \A s \in Senders : WF_vars(Write(s) \/ Post(s))
    /\ \A r \in Receivers : WF_vars(api = "channel" /\ ReceiverStep(r))

ThreadsSpec ==
    /\ ThreadsInit
    /\ [][ThreadsNext]_<<poolVars, staticVars, vars, api>>
    /\ PoolFairness /\ ChannelFairness
=============================================================================
