------------------------------ MODULE AgentLoop ------------------------------
(***************************************************************************)
(* One run of an agent loop: simpleLoop, which ends at the first failure,  *)
(* and actorCritic, which tries again and lets a critic judge what         *)
(* succeeded, with the tool calls of a turn run as a batch                 *)
(* (app/src/lib/harness-patterns/patterns/simpleLoop.server.ts,            *)
(* actorCritic.server.ts and parallel-tools.server.ts).                    *)
(***************************************************************************)
EXTENDS Naturals, Sequences, FiniteSets

CONSTANTS
  Budget,        (* maxTurns of simpleLoop, maxRetries of actorCritic          *)
  MaxBatch,      (* bound: calls of one turn                                   *)
  MaxParallel,   (* MAX_PARALLEL_TOOL_CALLS                                    *)
  Cadence        (* criticCadence                                              *)

ASSUME LoopAssumption ==
  /\ Budget \in Nat \ {0} /\ MaxBatch \in Nat \ {0}
  /\ MaxParallel \in Nat \ {0} /\ Cadence \in Nat \ {0}

VARIABLES
  loop,      (* which of the two loops runs                                    *)
  mode,      (* multiToolCalls: parallel or sequential                         *)
  step,      (* what the loop waits for: start, model, calls, critic, ended    *)
  attempts,  (* previousAttempts or turns, oldest first: success and feedback  *)
  calls,     (* the calls of this turn and what became of each                 *)
  cursor,    (* the next call a worker takes is the one after it               *)
  final,     (* action.is_final of this turn                                   *)
  wins,      (* successfulTurns                                                *)
  open,      (* tool_call events without a tool_result                         *)
  outcome    (* none, returned, accepted, or the error event the loop ends on  *)

loopVars == <<loop, mode, step, attempts, calls, cursor, final, wins, open, outcome>>

Attempt    == Len(attempts)
CallsInFlight   == {i \in DOMAIN calls : calls[i] = "running"}
Failures   == {i \in DOMAIN calls : calls[i] \in {"bad", "failed"}}
AnySucceeded == \E i \in DOMAIN calls : calls[i] = "ok"

Ends(o) == step' = "ended" /\ outcome' = o

(* The turn is over: the next one, or the error of a spent budget.           *)
(* Mutant: a loop over 0..Budget.                                            *)
NextTurnLate(entry) ==
  /\ attempts' = Append(attempts, entry)
  /\ calls' = <<>> /\ cursor' = 0
  /\ IF Attempt < Budget THEN step' = "model" /\ UNCHANGED outcome ELSE Ends("budget_exhausted")

NextTurn(entry) ==
  /\ attempts' = Append(attempts, entry)
  /\ calls' = <<>> /\ cursor' = 0
  /\ IF Attempt + 1 < Budget THEN step' = "model" /\ UNCHANGED outcome ELSE Ends("budget_exhausted")

Plain(ok) == [ok |-> ok, judged |-> FALSE]

-----------------------------------------------------------------------------
LoopRunInit ==
  /\ loop \in {"simpleLoop", "actorCritic"} /\ mode \in {"parallel", "sequential"}
  /\ step = "start" /\ attempts = <<>> /\ calls = <<>> /\ cursor = 0
  /\ final = FALSE /\ wins = 0 /\ open = 0 /\ outcome = "none"

(* toolSurfaceOutage: with no tool left the loop does not start.             *)
Start ==
  /\ step = "start"
  /\ \/ step' = "model" /\ UNCHANGED outcome
     \/ Ends("outage")
  /\ UNCHANGED <<loop, mode, attempts, calls, cursor, final, wins, open>>

(* The model rejects, or simpleLoop gets its last action.                    *)
ModelEnds ==
  /\ step = "model"
  /\ Ends("error") \/ (loop = "simpleLoop" /\ Ends("returned"))
  /\ UNCHANGED <<loop, mode, attempts, calls, cursor, final, wins, open>>

(* An expansion of earlier results: call and result without leaving the loop.*)
Expand ==
  /\ step = "model" /\ loop = "simpleLoop"
  /\ \E ok \in BOOLEAN : NextTurn(Plain(ok))
  /\ UNCHANGED <<loop, mode, final, wins, open>>

(* A single call that is not allowed or cannot be parsed is never tracked:   *)
(* it ends simpleLoop and costs actorCritic an attempt.                      *)
Refused ==
  /\ step = "model"
  /\ IF loop = "simpleLoop" THEN Ends("error") /\ UNCHANGED <<attempts, calls, cursor>>
     ELSE NextTurn(Plain(FALSE))
  /\ UNCHANGED <<loop, mode, final, wins, open>>

(* The calls of the turn are tracked before the first of them runs.  Only a  *)
(* batch contains calls that failed their checks.                            *)
IssueCalls ==
  /\ step = "model" /\ step' = "calls"
  /\ \E n \in 1..MaxBatch : \E c \in [1..n -> {"queued", "bad"}] :
       /\ n = 1 => c[1] = "queued"
       /\ calls' = c /\ open' = n
  /\ final' \in (IF loop = "simpleLoop" THEN {FALSE} ELSE BOOLEAN)
  /\ UNCHANGED <<loop, mode, attempts, cursor, wins, outcome>>

(* Mutants: a sequential batch that goes on after a failure.                 *)
WorkersFree == Cardinality(CallsInFlight) < MaxParallel
MayStartAnyway ==
  IF mode = "parallel" THEN WorkersFree ELSE CallsInFlight = {}
MayStart ==
  IF mode = "parallel" THEN WorkersFree
  ELSE CallsInFlight = {} /\ Failures \cap (1..cursor) = {}

(* runBatch: a worker takes the next call; a bad one costs it no await.      *)
TakeCall ==
  /\ step = "calls" /\ cursor < Len(calls) /\ MayStart
  /\ cursor' = cursor + 1
  /\ calls' = [calls EXCEPT ![cursor + 1] = IF @ = "queued" THEN "running" ELSE @]
  /\ UNCHANGED <<loop, mode, step, attempts, final, wins, open, outcome>>

(* callTool answers, with success or without; it does not throw.             *)
CallEnds(i) ==
  /\ step = "calls" /\ calls[i] = "running"
  /\ \E r \in {"ok", "failed"} : calls' = [calls EXCEPT ![i] = r]
  /\ UNCHANGED <<loop, mode, step, attempts, cursor, final, wins, open, outcome>>

(* A sequential batch skips what comes after its first failure.              *)
SkipCalls ==
  /\ step = "calls" /\ mode = "sequential" /\ cursor < Len(calls)
  /\ CallsInFlight = {} /\ Failures \cap (1..cursor) # {}
  /\ cursor' = Len(calls)
  /\ calls' = [i \in DOMAIN calls |-> IF i > cursor THEN "skipped" ELSE calls[i]]
  /\ UNCHANGED <<loop, mode, step, attempts, final, wins, open, outcome>>

(* Mutant: the last attempt is off by one.                                   *)
IsLastAttemptLate == Attempt = Budget
IsLastAttempt == Attempt = Budget - 1
ShouldCritique == final \/ IsLastAttempt \/ (wins + 1) % Cadence = 0

(* The batch has settled: all results are tracked.  Nothing that succeeded   *)
(* ends simpleLoop; actorCritic counts a success and asks the critic when    *)
(* it is final, the last, or on the cadence.                                 *)
BatchDone ==
  /\ step = "calls" /\ cursor = Len(calls) /\ CallsInFlight = {}
  /\ open' = 0
  /\ \/ /\ loop = "simpleLoop" /\ ~AnySucceeded /\ Ends("error")
        /\ UNCHANGED <<attempts, calls, cursor, wins>>
     \/ /\ loop = "simpleLoop" /\ AnySucceeded
        /\ NextTurn(Plain(TRUE)) /\ UNCHANGED wins
     \/ /\ loop = "actorCritic" /\ ~AnySucceeded
        /\ NextTurn(Plain(FALSE)) /\ UNCHANGED wins
     \/ /\ loop = "actorCritic" /\ AnySucceeded
        /\ wins' = wins + 1
        /\ IF ShouldCritique THEN step' = "critic" /\ UNCHANGED <<attempts, calls, cursor, outcome>>
           ELSE NextTurn(Plain(TRUE))
  /\ UNCHANGED <<loop, mode, final>>

(* The critic accepts, which ends the loop; or its feedback goes to the      *)
(* attempt it judged; or it throws.                                          *)
Critic ==
  /\ step = "critic"
  /\ \/ Ends("accepted") /\ UNCHANGED <<attempts, calls, cursor>>
     \/ NextTurn([ok |-> TRUE, judged |-> TRUE])
     \/ Ends("error") /\ UNCHANGED <<attempts, calls, cursor>>
  /\ UNCHANGED <<loop, mode, final, wins, open>>

LoopRunNext ==
  \/ Start \/ ModelEnds \/ Expand \/ Refused \/ IssueCalls \/ TakeCall
  \/ (\E i \in DOMAIN calls : CallEnds(i)) \/ SkipCalls \/ BatchDone \/ Critic

LoopRunSpec == LoopRunInit /\ [][LoopRunNext]_loopVars

-----------------------------------------------------------------------------
LoopTypeOK ==
  /\ loop \in {"simpleLoop", "actorCritic"} /\ mode \in {"parallel", "sequential"}
  /\ step \in {"start", "model", "calls", "critic", "ended"}
  /\ attempts \in Seq([ok : BOOLEAN, judged : BOOLEAN]) /\ wins \in Nat
  /\ calls \in Seq({"queued", "bad", "running", "ok", "failed", "skipped"})
  /\ cursor \in 0..Len(calls) /\ final \in BOOLEAN /\ open \in 0..MaxBatch
  /\ outcome \in {"none", "returned", "accepted", "outage", "error", "budget_exhausted"}

(* A batch keeps its bounds whoever finishes first: at most MaxParallel      *)
(* calls run at a time, a call runs only if every one before it was taken,   *)
(* and a sequential batch runs nothing after a failure.                      *)
BatchBounded ==
  /\ LoopTypeOK
  /\ Cardinality(CallsInFlight) <= (IF mode = "parallel" THEN MaxParallel ELSE 1)
  /\ \A i \in DOMAIN calls : calls[i] \in {"running", "ok", "failed"} => i <= cursor
  /\ mode = "sequential" =>
       \A i, j \in DOMAIN calls : i < j /\ calls[i] \in {"failed", "bad"} =>
         calls[j] \notin {"running", "ok", "failed"}

(* The loop ends honestly: what it spent is within its budget, an accepted   *)
(* answer was judged on a success, and actorCritic gives up on a success     *)
(* only if the critic has seen it; the last attempt is never wasted.         *)
EndsHonestly ==
  /\ Len(attempts) <= Budget
  /\ outcome = "accepted" => AnySucceeded
  /\ outcome = "budget_exhausted" =>
       /\ Len(attempts) = Budget
       /\ loop = "actorCritic" /\ attempts[Budget].ok => attempts[Budget].judged

(* The contract.  A turn is spent when its calls are issued, one that ends   *)
(* without any when it is recorded or the loop returns from it.              *)
Unrecorded == step \in {"calls", "critic"} \/ Len(calls) > 0 \/ outcome = "returned"
TurnsSpent == Len(attempts) + (IF Unrecorded THEN 1 ELSE 0)
EndKind ==
  IF step # "ended" THEN "no"
  ELSE IF outcome \in {"returned", "accepted"} THEN "answer" ELSE "error"

Contract == INSTANCE LoopContract WITH MaxCalls <- MaxBatch, used <- TurnsSpent, end <- EndKind

(* Both loops keep the contract of LoopContract: within the budget, every    *)
(* call of a turn closed before the next turn, one end and no call left open.*)
KeepsContract == Contract!LoopSpec
=============================================================================
