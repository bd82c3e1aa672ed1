----------------------------- MODULE MCSamples -----------------------------
(***************************************************************************)
(* The clients of the library that the samples are, Philosophers and       *)
(* Bench, for TLC.  They share no state, so an initial state chooses the   *)
(* one that runs.                                                          *)
(***************************************************************************)
EXTENDS Philosophers, Bench

VARIABLE sample

Ids == 0..NumPhil-1

SamplesInit ==
    /\ Init /\ BenchInit
    /\ \/ sample = "philosophers" /\ harness = "threads"
       \/ sample = "bench" /\ config = "clients"

SamplesNext ==
    /\ \/ sample = "philosophers" /\ Next /\ UNCHANGED benchVars
       \/ sample = "bench" /\ BenchNext /\ UNCHANGED vars
    /\ UNCHANGED sample

SamplesSpec ==
    /\ SamplesInit
    /\ [][SamplesNext]_<<vars, benchVars, sample>>
    /\ sample = "philosophers" => Fairness
    /\ sample = "bench" => BenchFairness
=============================================================================
