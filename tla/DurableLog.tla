------------------------------ MODULE DurableLog ------------------------------
(***************************************************************************)
(* What nanitics.composition.durability promises the host of one run, with *)
(* nothing said of workers, crashes, requests or checkpoints: the results  *)
(* of completed steps form a log that only grows and is never rewritten,   *)
(* and - with step_checkpoints on - an answer says how long the log is and *)
(* what its last entry is, a cancelled run's answer as well as the final   *)
(* one.  Answers never get shorter and the final one never changes,        *)
(* however often the run is driven.                                        *)
(***************************************************************************)
EXTENDS Integers, Sequences

CONSTANTS N,        \* number of steps of the workflow
          Input,    \* the workflow's input, the output of a run of no step
          NoAnswer  \* "no ResumeResult was returned yet"

VARIABLES stepCheckpoints,  \* the workflow's step_checkpoints flag, never changed
          log,              \* results of the steps recorded as completed
          answer            \* output and number of steps of the last ResumeResult

logVars == <<stepCheckpoints, log, answer>>

LogInit ==
    /\ stepCheckpoints \in {"on", "off"}
    /\ log = <<>>
    /\ answer = NoAnswer

Extend ==
    /\ Len(log) <= Len(log')
    /\ Len(log') <= N
    /\ \A k \in 1..Len(log) : log'[k] = log[k]
    /\ UNCHANGED <<stepCheckpoints, answer>>

LastEntry == IF log = <<>> THEN Input ELSE log[Len(log)]

\* The steps a worker without step checkpoints took since it was last driven are
\* in its answer and not in the log.
Report ==
    /\ answer'.executed \in Len(log)..N
    /\ stepCheckpoints = "on" =>
          /\ answer' = [output |-> LastEntry, executed |-> Len(log)]
          /\ answer # NoAnswer =>
                /\ answer.executed <= answer'.executed
                /\ answer.executed = answer'.executed => answer' = answer
    /\ UNCHANGED <<stepCheckpoints, log>>

LogNext == Extend \/ Report

LogSpec == LogInit /\ [][LogNext]_logVars
=============================================================================
