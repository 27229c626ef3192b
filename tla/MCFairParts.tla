----------------------------- MODULE MCFairParts -----------------------------
(* Two parts that owe something, side by side: a turn through the patterns, *)
(* and the routines. They share no state, so a behavior is a behavior of one*)
(* of them, and the other stays as it began.                                *)
EXTENDS MCHarnessRun, MCRoutines

VARIABLE part

Parts == {"harness", "routines"}
allVars == <<part, harnessVars, routineVars>>

(* Where a part has several initial states, they are its own choice.         *)
MCInit ==
  /\ part \in Parts
  /\ HarnessInit /\ RoutinesInit

Only(p, rest) == part = p /\ UNCHANGED <<part, rest>>

MCNext ==
  \/ Only("harness", routineVars) /\ HarnessNext
  \/ Only("routines", harnessVars) /\ RoutinesNext

(* Of the fair actions only the tick of the scheduler is enabled at the      *)
(* start; it is owed where the routines move.                                *)
MCRoutinesFairness ==
  \A f \in Firers :
    WF_routineVars(part = "routines" /\ (f \in Ticks \/ firers[f].step # "idle") /\ FirerStep(f))

MCSpec == MCInit /\ [][MCNext]_allVars /\ HarnessFairness /\ MCRoutinesFairness
==============================================================================
