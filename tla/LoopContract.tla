---------------------------- MODULE LoopContract ----------------------------
(***************************************************************************)
(* What an agent loop promises whoever runs it, whichever of the two loops *)
(* of app/src/lib/harness-patterns/patterns/ it is: it takes at most a     *)
(* budget of turns, opens the tool calls of one turn at a time and closes  *)
(* all of them before it goes on, and ends once, with an answer or with    *)
(* an error on record, and never with a call left open.                    *)
(***************************************************************************)
EXTENDS Naturals

CONSTANTS Budget, MaxCalls

VARIABLES used, open, end

LoopVars == <<used, open, end>>

LoopInit == used = 0 /\ open = 0 /\ end = "no"

(* A turn is spent; it may open calls.                                       *)
TakeTurn ==
  /\ end = "no" /\ open = 0 /\ used < Budget
  /\ used' = used + 1
  /\ open' \in 0..MaxCalls
  /\ UNCHANGED end

(* All calls of the turn get their results at once, which may end the loop.  *)
CloseCalls ==
  /\ end = "no" /\ open > 0
  /\ open' = 0
  /\ end' \in {"no", "error"}
  /\ UNCHANGED used

(* The loop ends between turns or in the middle of one; an answer takes one. *)
Finish ==
  /\ end = "no" /\ open = 0
  /\ used' \in {used, used + 1} /\ used' <= Budget
  /\ end' \in {"answer", "error"}
  /\ end' = "answer" => used' > 0
  /\ UNCHANGED open

LoopNext == TakeTurn \/ CloseCalls \/ Finish

LoopSpec == LoopInit /\ [][LoopNext]_LoopVars
=============================================================================
