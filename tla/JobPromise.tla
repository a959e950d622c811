----------------------------- MODULE JobPromise -----------------------------
(***************************************************************************)
(* What a background job promises its user, whatever workers, messages and *)
(* beat tasks do: it waits, it is run some number of times, and it ends    *)
(* once, completed, failed or cancelled.  A completed job shows the work   *)
(* of its last run, any other job shows none.                              *)
(***************************************************************************)
EXTENDS Integers

CONSTANT Jobs

VARIABLES
  phase,    \* "waiting", "running", or how the job ended
  runs,     \* how many times the job was started
  author    \* the run whose work is shown, 0 for none

vars == <<phase, runs, author>>

Init ==
  /\ phase = [j \in Jobs |-> "waiting"]
  /\ runs = [j \in Jobs |-> 0]
  /\ author = [j \in Jobs |-> 0]

Run(j) ==
  /\ phase[j] = "waiting"
  /\ phase' = [phase EXCEPT ![j] = "running"]
  /\ runs' = [runs EXCEPT ![j] = @ + 1]
  /\ UNCHANGED author

\* The run is retried or taken for dead.
Release(j) ==
  /\ phase[j] = "running"
  /\ phase' = [phase EXCEPT ![j] = "waiting"]
  /\ UNCHANGED <<runs, author>>

Complete(j) ==
  /\ phase[j] = "running"
  /\ phase' = [phase EXCEPT ![j] = "completed"]
  /\ author' = [author EXCEPT ![j] = runs[j]]
  /\ UNCHANGED runs

GiveUp(j) ==
  /\ phase[j] \in {"waiting", "running"}
  /\ \E end \in {"failed", "cancelled"} : phase' = [phase EXCEPT ![j] = end]
  /\ UNCHANGED <<runs, author>>

Next == \E j \in Jobs : Run(j) \/ Release(j) \/ Complete(j) \/ GiveUp(j)

Spec == Init /\ [][Next]_vars
=============================================================================
