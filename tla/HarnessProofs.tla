----------------------------- MODULE HarnessProofs -----------------------------
(***************************************************************************)
(* Proofs about the harness: the turn of a pattern tree (HarnessRun), for  *)
(* every tree, and the loops that run at its leaves (AgentLoop), for every *)
(* budget, batch size, parallelism and critic cadence.                     *)
(***************************************************************************)
EXTENDS HarnessRun, AgentLoop, FiniteSetTheorems, SequenceTheorems, WellFoundedInduction, TLAPS

-----------------------------------------------------------------------------
(***************************************************************************)
(* The agent loops.  A loop that has not ended has a turn left, and calls  *)
(* are open exactly while their turn is in progress (LoopInv); every step  *)
(* of either loop is then a step of the contract or leaves what the        *)
(* contract sees alone.                                                    *)
(***************************************************************************)
Status   == {"queued", "bad", "running", "ok", "failed", "skipped"}
Attempts == Seq([ok : BOOLEAN, judged : BOOLEAN])

(* What the calls of a turn are while they run.                            *)
TurnShape ==
  /\ step \in {"start", "model"} => Len(calls) = 0
  /\ step = "calls" => Len(calls) > 0 /\ open > 0
  /\ step # "calls" => open = 0
  /\ step = "critic" => loop = "actorCritic" /\ AnySucceeded /\ Len(calls) > 0

(* A loop that goes on has a turn left, one that has ended says why.       *)
BudgetShape ==
  /\ step # "ended" => Len(attempts) < Budget /\ outcome = "none"
  /\ step = "ended" => outcome # "none"

LoopInv == LoopTypeOK /\ TurnShape /\ BudgetShape /\ EndsHonestly

-----------------------------------------------------------------------------
(* What Append does to the attempts.                                       *)
LEMMA Recorded ==
  ASSUME NEW s \in Attempts, NEW e \in [ok : BOOLEAN, judged : BOOLEAN]
  PROVE  /\ Append(s, e) \in Attempts
         /\ Len(s) \in Nat /\ Len(Append(s, e)) = Len(s) + 1
         /\ Append(s, e)[Len(s) + 1] = e
  BY DEF Attempts

(* A turn that ends keeps the invariant, if what the loop records is judged*)
(* whenever it is the last and a success.                                  *)
LEMMA NextTurnKeeps ==
  ASSUME LoopInv, step # "ended", NEW e \in [ok : BOOLEAN, judged : BOOLEAN],
         NextTurn(e), loop' = loop, mode' = mode, final' = final, wins' \in Nat, open' = 0,
         loop = "actorCritic" /\ e.ok /\ Len(attempts) = Budget - 1 => e.judged
  PROVE  LoopInv'
<1>1. /\ attempts' = Append(attempts, e) /\ attempts \in Attempts
      /\ Len(attempts) < Budget /\ Budget \in Nat
  BY LoopAssumption DEF NextTurn, LoopInv, LoopTypeOK, BudgetShape, Attempts
<1>2. /\ attempts' \in Attempts /\ Len(attempts) \in Nat
      /\ Len(attempts') = Len(attempts) + 1 /\ attempts'[Len(attempts) + 1] = e
  BY <1>1, Recorded
<1>3. calls' = <<>> /\ cursor' = 0 /\ Len(calls') = 0 /\ calls' \in Seq(Status)
  BY EmptySeq DEF NextTurn, Status
<1>4. \/ Len(attempts') < Budget /\ step' = "model" /\ outcome' = outcome
      \/ Len(attempts') = Budget /\ step' = "ended" /\ outcome' = "budget_exhausted"
  BY <1>1, <1>2 DEF NextTurn, Ends, Attempt
<1>5. LoopTypeOK'
  BY <1>2, <1>3, <1>4, LoopAssumption DEF LoopInv, LoopTypeOK, Attempts, Status
<1>6. TurnShape' /\ BudgetShape'
  BY <1>3, <1>4 DEF TurnShape, BudgetShape, LoopInv
<1>7. EndsHonestly'
  BY <1>1, <1>2, <1>4 DEF EndsHonestly, LoopInv, BudgetShape
<1> QED
  BY <1>5, <1>6, <1>7 DEF LoopInv

-----------------------------------------------------------------------------
(* A loop has its whole budget at the start, and no call.                  *)
LEMMA InitInv ==
  ASSUME LoopRunInit
  PROVE  LoopInv
<1>1. /\ attempts = <<>> /\ Len(attempts) = 0 /\ attempts \in Attempts
      /\ calls = <<>> /\ Len(calls) = 0 /\ calls \in Seq(Status)
  BY EmptySeq DEF LoopRunInit, Attempts
<1>0. /\ loop \in {"simpleLoop", "actorCritic"} /\ mode \in {"parallel", "sequential"}
      /\ step = "start" /\ cursor = 0 /\ final = FALSE /\ wins = 0 /\ open = 0 /\ outcome = "none"
  BY DEF LoopRunInit
<1> HIDE DEF Attempts, Status
<1>4. Len(calls) = 0 /\ attempts \in Attempts /\ calls \in Seq(Status)
  BY <1>1
<1>6. final \in BOOLEAN
  BY <1>0
<1>5. cursor \in 0..Len(calls) /\ open \in 0..MaxBatch
  BY <1>0, <1>4, LoopAssumption
<1>2. LoopTypeOK
  BY <1>0, <1>4, <1>5, <1>6, LoopAssumption DEF LoopTypeOK, Attempts, Status
<1>3. TurnShape /\ BudgetShape /\ EndsHonestly
  BY <1>1, LoopAssumption DEF LoopRunInit, TurnShape, BudgetShape, EndsHonestly
<1> QED
  BY <1>2, <1>3 DEF LoopInv

(* Every step keeps the budget, the batch and the outcome in line.         *)
LEMMA StepInv ==
  ASSUME LoopInv, [LoopRunNext]_loopVars
  PROVE  LoopInv'
<1> USE LoopAssumption
<1> DEFINE Unjudged == [ok : BOOLEAN, judged : {FALSE}]
<1>0. \A ok \in BOOLEAN : Plain(ok) \in [ok : BOOLEAN, judged : BOOLEAN] /\ Plain(ok).ok = ok
  BY DEF Plain
<1>1. CASE Start
  BY <1>1 DEF Start, Ends, LoopInv, LoopTypeOK, TurnShape, BudgetShape, EndsHonestly
<1>2. CASE ModelEnds
  BY <1>2 DEF ModelEnds, Ends, LoopInv, LoopTypeOK, TurnShape, BudgetShape, EndsHonestly
<1>3. CASE Expand
  <2>1. PICK ok \in BOOLEAN : NextTurn(Plain(ok))
    BY <1>3 DEF Expand
  <2> QED
    BY <1>0, <1>3, <2>1, NextTurnKeeps DEF Expand, LoopInv, LoopTypeOK, TurnShape
<1>4. CASE Refused
  <2>1. CASE loop = "simpleLoop"
    BY <1>4, <2>1 DEF Refused, Ends, LoopInv, LoopTypeOK, TurnShape, BudgetShape, EndsHonestly
  <2>2. CASE loop # "simpleLoop"
    BY <1>0, <1>4, <2>2, NextTurnKeeps DEF Refused, LoopInv, LoopTypeOK, TurnShape
  <2> QED
    BY <2>1, <2>2
<1>5. CASE IssueCalls
  <2>1. PICK n \in 1..MaxBatch : \E c \in [1..n -> {"queued", "bad"}] : calls' = c /\ open' = n
    BY <1>5 DEF IssueCalls
  <2>2. calls' \in Seq(Status) /\ Len(calls') = n
    BY <2>1 DEF Status
  <2>3. /\ step = "model" /\ step' = "calls" /\ open' = n /\ n \in Nat /\ n > 0
        /\ UNCHANGED <<loop, mode, attempts, cursor, wins, outcome>>
    BY <1>5, <2>1 DEF IssueCalls
  <2>7. final' \in BOOLEAN
    BY <1>5, Zenon DEF IssueCalls
  <2>4. cursor = 0
    BY <2>3 DEF LoopInv, LoopTypeOK, TurnShape
  <2>5. LoopTypeOK'
    BY <2>1, <2>2, <2>3, <2>4, <2>7 DEF LoopInv, LoopTypeOK, Status
  <2>6. TurnShape' /\ BudgetShape' /\ EndsHonestly'
    BY <2>2, <2>3 DEF LoopInv, TurnShape, BudgetShape, EndsHonestly
  <2> QED
    BY <2>5, <2>6 DEF LoopInv
<1>6. CASE TakeCall
  BY <1>6 DEF TakeCall, LoopInv, LoopTypeOK, TurnShape, BudgetShape, EndsHonestly
<1>7. CASE \E i \in DOMAIN calls : CallEnds(i)
  BY <1>7 DEF CallEnds, LoopInv, LoopTypeOK, TurnShape, BudgetShape, EndsHonestly
<1>8. CASE SkipCalls
  <2>0. /\ calls \in Seq(Status) /\ Len(calls) \in Nat /\ DOMAIN calls = 1..Len(calls)
        /\ calls' = [i \in 1..Len(calls) |-> IF i > cursor THEN "skipped" ELSE calls[i]]
    BY <1>8, LenProperties DEF SkipCalls, LoopInv, LoopTypeOK, Status
  <2>1. calls' \in Seq(Status) /\ Len(calls') = Len(calls)
    <3>1. \A i \in 1..Len(calls) : calls[i] \in Status
      BY <2>0, ElementOfSeq
    <3>2. calls' \in [1..Len(calls) -> Status]
      BY <2>0, <3>1 DEF Status
    <3> QED
      BY <2>0, <3>2
  <2> QED
    BY <1>8, <2>1 DEF SkipCalls, LoopInv, LoopTypeOK, TurnShape, BudgetShape, EndsHonestly, Status
<1>9. CASE BatchDone
  <2>1. CASE loop = "simpleLoop" /\ ~AnySucceeded /\ Ends("error") /\ UNCHANGED <<attempts, calls, cursor, wins>>
    BY <1>9, <2>1 DEF BatchDone, Ends, LoopInv, LoopTypeOK, TurnShape, BudgetShape, EndsHonestly
  <2>2. CASE loop = "simpleLoop" /\ NextTurn(Plain(TRUE)) /\ wins' = wins
    BY <1>0, <1>9, <2>2, NextTurnKeeps DEF BatchDone, LoopInv, LoopTypeOK
  <2>3. CASE NextTurn(Plain(FALSE)) /\ wins' = wins
    BY <1>0, <1>9, <2>3, NextTurnKeeps DEF BatchDone, LoopInv, LoopTypeOK
  <2>4. CASE loop = "actorCritic" /\ AnySucceeded /\ wins' = wins + 1 /\ ShouldCritique
             /\ step' = "critic" /\ UNCHANGED <<attempts, calls, cursor, outcome>>
    BY <1>9, <2>4 DEF BatchDone, LoopInv, LoopTypeOK, TurnShape, BudgetShape, EndsHonestly, AnySucceeded
  <2>5. CASE ~ShouldCritique /\ NextTurn(Plain(TRUE)) /\ wins' = wins + 1
    <3>1. Len(attempts) # Budget - 1
      BY <2>5 DEF ShouldCritique, IsLastAttempt, Attempt
    <3>2. wins' \in Nat
      BY <2>5 DEF LoopInv, LoopTypeOK
    <3> QED
      BY <1>0, <1>9, <2>5, <3>1, <3>2, NextTurnKeeps DEF BatchDone, LoopInv, LoopTypeOK
  <2> QED
    BY <1>9, <2>1, <2>2, <2>3, <2>4, <2>5 DEF BatchDone
<1>10. CASE Critic
  <2>1. CASE NextTurn([ok |-> TRUE, judged |-> TRUE])
    <3>1. [ok |-> TRUE, judged |-> TRUE] \in [ok : BOOLEAN, judged : BOOLEAN]
      OBVIOUS
    <3> QED
      BY <1>10, <2>1, <3>1, NextTurnKeeps DEF Critic, LoopInv, LoopTypeOK, TurnShape
  <2>2. CASE (Ends("accepted") \/ Ends("error")) /\ UNCHANGED <<attempts, calls, cursor>>
    BY <1>10, <2>2 DEF Critic, Ends, LoopInv, LoopTypeOK, TurnShape, BudgetShape, EndsHonestly, AnySucceeded
  <2> QED
    BY <1>10, <2>1, <2>2 DEF Critic
<1>11. CASE UNCHANGED loopVars
  BY <1>11 DEF loopVars, LoopInv, LoopTypeOK, TurnShape, BudgetShape, EndsHonestly, AnySucceeded
<1> QED
  BY <1>1, <1>2, <1>3, <1>4, <1>5, <1>6, <1>7, <1>8, <1>9, <1>10, <1>11 DEF LoopRunNext

(* The inductive invariant of both loops.                                  *)
THEOREM LoopInvariant == LoopRunSpec => []LoopInv
  BY InitInv, StepInv, PTL DEF LoopRunSpec

(* Both loops end within their budget, accept only a judged success, and   *)
(* never give up on a last success the critic has not seen.                *)
THEOREM LoopEndsHonestly == LoopRunSpec => []EndsHonestly
<1>1. LoopInv => EndsHonestly
  BY DEF LoopInv
<1> QED
  BY <1>1, LoopInvariant, PTL

-----------------------------------------------------------------------------
(* A turn that ends between the calls of two turns is a turn of the        *)
(* contract if it opened none, and nothing new if it did.                  *)
LEMMA NextTurnMaps ==
  ASSUME LoopInv, step # "ended", NEW e \in [ok : BOOLEAN, judged : BOOLEAN], NextTurn(e)
  PROVE  /\ TurnsSpent' = Len(attempts) + 1 /\ TurnsSpent' <= Budget
         /\ EndKind' \in {"no", "error"}
<1>1. /\ Len(attempts') = Len(attempts) + 1 /\ Len(attempts) \in Nat /\ Len(attempts) < Budget
  BY Recorded DEF NextTurn, LoopInv, LoopTypeOK, BudgetShape, Attempts
<1>2. Len(calls') = 0
  BY DEF NextTurn
<1>3. \/ step' = "model" /\ outcome' = outcome
      \/ step' = "ended" /\ outcome' = "budget_exhausted"
  BY DEF NextTurn, Ends
<1>4. outcome = "none"
  BY DEF LoopInv, BudgetShape
<1>5. ~Unrecorded'
  BY <1>2, <1>3, <1>4 DEF Unrecorded
<1> QED
  BY <1>1, <1>3, <1>4, <1>5, LoopAssumption DEF TurnsSpent, EndKind

(* Every step is a step of the contract, or one it does not see.           *)
LEMMA StepMaps ==
  ASSUME LoopInv, [LoopRunNext]_loopVars
  PROVE  [Contract!LoopNext]_(Contract!LoopVars)
<1> USE LoopAssumption
<1> USE DEF Contract!LoopNext, Contract!LoopVars
<1>0. /\ Len(attempts) \in Nat /\ open \in Nat /\ Len(calls) \in Nat
      /\ step # "ended" => Len(attempts) < Budget /\ outcome = "none" /\ EndKind = "no"
      /\ step \in {"start", "model"} => Len(calls) = 0 /\ open = 0 /\ TurnsSpent = Len(attempts)
      /\ step \in {"calls", "critic"} => TurnsSpent = Len(attempts) + 1
      /\ step = "calls" => open > 0
      /\ step # "calls" => open = 0
  BY DEF LoopInv, LoopTypeOK, TurnShape, BudgetShape, TurnsSpent, Unrecorded, EndKind
<1>a. \A ok \in BOOLEAN : Plain(ok) \in [ok : BOOLEAN, judged : BOOLEAN]
  BY DEF Plain
<1>1. CASE Start
  <2>1. CASE step' = "model" /\ UNCHANGED outcome
    BY <1>0, <1>1, <2>1 DEF Start, TurnsSpent, Unrecorded, EndKind
  <2>2. CASE Ends("outage")
    BY <1>0, <1>1, <2>2 DEF Start, Ends, TurnsSpent, Unrecorded, EndKind, Contract!Finish
  <2> QED
    BY <1>1, <2>1, <2>2 DEF Start
<1>2. CASE ModelEnds
  <2>1. CASE Ends("error")
    BY <1>0, <1>2, <2>1 DEF ModelEnds, Ends, TurnsSpent, Unrecorded, EndKind, Contract!Finish
  <2>2. CASE Ends("returned")
    BY <1>0, <1>2, <2>2 DEF ModelEnds, Ends, TurnsSpent, Unrecorded, EndKind, Contract!Finish
  <2> QED
    BY <1>2, <2>1, <2>2 DEF ModelEnds
<1>3. ASSUME step = "model", open' = 0, NEW ok \in BOOLEAN, NextTurn(Plain(ok))
      PROVE  Contract!LoopNext
  <2>1. TurnsSpent' = TurnsSpent + 1 /\ TurnsSpent' <= Budget /\ EndKind' \in {"no", "error"}
    BY <1>0, <1>3, <1>a, NextTurnMaps
  <2> QED
    BY <1>0, <1>3, <2>1 DEF Contract!TakeTurn, Contract!Finish
<1>4. CASE Expand
  BY <1>0, <1>3, <1>4 DEF Expand
<1>5. CASE Refused
  <2>1. CASE loop = "simpleLoop"
    BY <1>0, <1>5, <2>1 DEF Refused, Ends, TurnsSpent, Unrecorded, EndKind, Contract!Finish
  <2>2. CASE loop # "simpleLoop"
    BY <1>0, <1>3, <1>5, <2>2 DEF Refused
  <2> QED
    BY <2>1, <2>2
<1>6. CASE IssueCalls
  <2>1. step' = "calls" /\ open' \in 0..MaxBatch /\ attempts' = attempts /\ step = "model"
    BY <1>6 DEF IssueCalls
  <2>2. TurnsSpent' = TurnsSpent + 1 /\ EndKind' = "no"
    BY <1>0, <2>1 DEF TurnsSpent, Unrecorded, EndKind
  <2> QED
    BY <1>0, <2>1, <2>2 DEF Contract!TakeTurn
<1>7. CASE TakeCall \/ (\E i \in DOMAIN calls : CallEnds(i)) \/ SkipCalls
  <2>1. step = "calls" /\ UNCHANGED <<step, attempts, open, outcome>>
    BY <1>7 DEF TakeCall, CallEnds, SkipCalls
  <2> QED
    BY <1>0, <2>1 DEF TurnsSpent, Unrecorded, EndKind
<1>8. CASE BatchDone
  <2>0. step = "calls" /\ open' = 0
    BY <1>8 DEF BatchDone
  <2>1. ASSUME NEW ok \in BOOLEAN, NextTurn(Plain(ok))
        PROVE  Contract!LoopNext
    <3>1. TurnsSpent' = TurnsSpent /\ EndKind' \in {"no", "error"}
      BY <1>0, <1>a, <2>0, <2>1, NextTurnMaps
    <3> QED
      BY <1>0, <2>0, <3>1 DEF Contract!CloseCalls
  <2>2. CASE Ends("error") /\ UNCHANGED <<attempts, calls>>
    <3>1. Len(calls) > 0
      BY <2>0 DEF LoopInv, TurnShape
    <3> QED
      BY <1>0, <2>0, <2>2, <3>1 DEF Ends, TurnsSpent, Unrecorded, EndKind, Contract!CloseCalls
  <2>3. CASE step' = "critic" /\ UNCHANGED <<attempts, calls, outcome>>
    BY <1>0, <2>0, <2>3 DEF TurnsSpent, Unrecorded, EndKind, Contract!CloseCalls
  <2> QED
    BY <1>8, <2>1, <2>2, <2>3 DEF BatchDone
<1>9. CASE Critic
  <2>0. step = "critic" /\ open' = open /\ Len(calls) > 0
    BY <1>9 DEF Critic, LoopInv, TurnShape
  <2>1. CASE NextTurn([ok |-> TRUE, judged |-> TRUE])
    <3>1. [ok |-> TRUE, judged |-> TRUE] \in [ok : BOOLEAN, judged : BOOLEAN]
      OBVIOUS
    <3>2. TurnsSpent' = TurnsSpent /\ TurnsSpent' <= Budget /\ EndKind' \in {"no", "error"}
      BY <1>0, <2>0, <2>1, <3>1, NextTurnMaps
    <3> QED
      BY <1>0, <2>0, <3>2 DEF Contract!Finish
  <2>2. CASE (Ends("accepted") \/ Ends("error")) /\ UNCHANGED <<attempts, calls>>
    BY <1>0, <2>0, <2>2 DEF Ends, TurnsSpent, Unrecorded, EndKind, Contract!Finish
  <2> QED
    BY <1>9, <2>1, <2>2 DEF Critic
<1>10. CASE UNCHANGED loopVars
  BY <1>10 DEF loopVars, TurnsSpent, Unrecorded, EndKind
<1> QED
  BY <1>1, <1>2, <1>4, <1>5, <1>6, <1>7, <1>8, <1>9, <1>10 DEF LoopRunNext

(* Both loops implement the contract of an agent loop.                     *)
THEOREM LoopsKeepContract == LoopRunSpec => KeepsContract
<1>1. LoopRunInit => Contract!LoopInit
  <2> SUFFICES ASSUME LoopRunInit PROVE Contract!LoopInit
    OBVIOUS
  <2>1. Len(attempts) = 0 /\ Len(calls) = 0 /\ step = "start" /\ outcome = "none" /\ open = 0
    BY DEF LoopRunInit
  <2> QED
    BY <2>1 DEF Contract!LoopInit, TurnsSpent, Unrecorded, EndKind
<1>2. LoopInv /\ [LoopRunNext]_loopVars => [Contract!LoopNext]_(Contract!LoopVars)
  BY StepMaps
<1> QED
  BY <1>1, <1>2, LoopInvariant, PTL DEF LoopRunSpec, KeepsContract, Contract!LoopSpec

-----------------------------------------------------------------------------
(* How the calls of a turn relate to the cursor of its batch.              *)
Ran(i) == calls[i] \in {"running", "ok", "failed"}
BatchShape ==
  /\ \A i \in DOMAIN calls : Ran(i) => i <= cursor
  /\ \A i \in DOMAIN calls : i > cursor => calls[i] \in {"queued", "bad"}
  /\ mode = "sequential" =>
       \A i, j \in DOMAIN calls : i < j /\ calls[i] \in {"failed", "bad"} => ~Ran(j)
  /\ mode = "sequential" =>
       \A i, j \in DOMAIN calls : i < j /\ calls[i] = "running" => ~Ran(j)
  /\ Cardinality(CallsInFlight) <= (IF mode = "parallel" THEN MaxParallel ELSE 1)

BatchInv == LoopInv /\ BatchShape

(* The calls in flight are finitely many.                                  *)
LEMMA FewInFlight ==
  ASSUME LoopTypeOK
  PROVE  IsFiniteSet(CallsInFlight) /\ Cardinality(CallsInFlight) \in Nat
<1>1. IsFiniteSet(1..Len(calls)) /\ DOMAIN calls = 1..Len(calls)
  BY LenProperties, FS_Interval DEF LoopTypeOK
<1>2. CallsInFlight \in SUBSET (1..Len(calls))
  BY <1>1 DEF CallsInFlight
<1> QED
  BY <1>1, <1>2, FS_Subset, FS_CardinalityType

(* With no call left the batch has any shape.                              *)
LEMMA NoCalls ==
  ASSUME LoopTypeOK', Len(calls') = 0
  PROVE  BatchShape'
<1>1. DOMAIN calls' = {}
  <2>1. DOMAIN calls' = 1..0
    BY LenProperties DEF LoopTypeOK
  <2> QED
    BY <2>1
<1>2. CallsInFlight' = {} /\ Cardinality(CallsInFlight') = 0
  BY <1>1, FS_EmptySet DEF CallsInFlight
<1> QED
  BY <1>1, <1>2, LoopAssumption DEF BatchShape

(* Every step keeps the batch in order and within its limit.               *)
LEMMA StepBatch ==
  ASSUME BatchInv, [LoopRunNext]_loopVars
  PROVE  BatchShape'
<1> USE LoopAssumption
<1>0. LoopTypeOK /\ LoopTypeOK' /\ TurnShape
  BY StepInv DEF BatchInv, LoopInv
<1>a. /\ DOMAIN calls = 1..Len(calls) /\ Len(calls) \in Nat /\ cursor \in 0..Len(calls)
      /\ \A i \in DOMAIN calls : calls[i] \in Status
  BY <1>0, LenProperties, ElementOfSeq DEF LoopTypeOK, Status
<1>b. IsFiniteSet(CallsInFlight) /\ Cardinality(CallsInFlight) \in Nat
  BY <1>0, FewInFlight
<1>1. ASSUME UNCHANGED <<calls, cursor, mode>>
      PROVE  BatchShape'
  BY <1>1 DEF BatchInv, BatchShape, Ran, CallsInFlight
<1>2. ASSUME Len(calls') = 0
      PROVE  BatchShape'
  BY <1>0, <1>2, NoCalls
<1>3. ASSUME NEW e, NextTurn(e)
      PROVE  BatchShape'
  <2>1. Len(calls') = 0
    BY <1>3 DEF NextTurn
  <2> QED
    BY <1>2, <2>1
<1>4. CASE IssueCalls
  <2>1. PICK n \in 1..MaxBatch : \E c \in [1..n -> {"queued", "bad"}] : calls' = c
    BY <1>4 DEF IssueCalls
  <2>2. cursor' = 0 /\ mode' = mode
    <3>1. step = "model" /\ cursor' = cursor /\ mode' = mode
      BY <1>4 DEF IssueCalls
    <3> QED
      BY <1>0, <1>a, <3>1 DEF TurnShape
  <2>3. DOMAIN calls' = 1..n /\ \A i \in 1..n : calls'[i] \in {"queued", "bad"}
    BY <2>1
  <2>4. CallsInFlight' = {}
    BY <2>3 DEF CallsInFlight
  <2> QED
    BY <2>2, <2>3, <2>4, FS_EmptySet DEF BatchShape, Ran
<1>5. CASE TakeCall
  <2> DEFINE k == cursor + 1
  <2>1. /\ cursor' = k /\ mode' = mode /\ k \in DOMAIN calls /\ MayStart
        /\ calls' = [calls EXCEPT ![k] = IF @ = "queued" THEN "running" ELSE @]
    BY <1>5, <1>a DEF TakeCall
  <2>2. calls[k] \in {"queued", "bad"}
    BY <1>a, <2>1 DEF BatchInv, BatchShape
  <2>3. /\ DOMAIN calls' = DOMAIN calls
        /\ \A i \in DOMAIN calls : i # k => calls'[i] = calls[i]
        /\ calls'[k] \in {"running", "bad"}
        /\ calls[k] = "bad" => calls'[k] = "bad"
        /\ calls[k] # "bad" => calls'[k] = "running"
    BY <2>1, <2>2
  <2>4. \A i \in DOMAIN calls : calls'[i] = "running" => i = k \/ i \in CallsInFlight
    BY <2>3 DEF CallsInFlight
  <2>5. CallsInFlight' \in SUBSET (CallsInFlight \cup {k})
    BY <2>3, <2>4 DEF CallsInFlight
  <2>6. Cardinality(CallsInFlight') <= Cardinality(CallsInFlight) + 1
    <3>1. /\ IsFiniteSet(CallsInFlight \cup {k})
          /\ Cardinality(CallsInFlight \cup {k}) <= Cardinality(CallsInFlight) + 1
      <4> HIDE DEF k
      <4>1. /\ IsFiniteSet(CallsInFlight \cup {k})
            /\ Cardinality(CallsInFlight \cup {k})
                 = IF k \in CallsInFlight THEN Cardinality(CallsInFlight) ELSE Cardinality(CallsInFlight) + 1
        BY <1>b, FS_AddElement
      <4> QED
        BY <1>b, <4>1
    <3>2. Cardinality(CallsInFlight') <= Cardinality(CallsInFlight \cup {k})
      BY <2>5, <3>1, FS_Subset
    <3>3. Cardinality(CallsInFlight') \in Nat /\ Cardinality(CallsInFlight \cup {k}) \in Nat
      BY <2>5, <3>1, FS_Subset, FS_CardinalityType
    <3> QED
      BY <1>b, <3>1, <3>2, <3>3
  <2>7. Cardinality(CallsInFlight') \in Nat
    <3>1. IsFiniteSet(CallsInFlight \cup {k})
      BY <1>b, FS_AddElement
    <3> QED
      BY <2>5, <3>1, FS_Subset, FS_CardinalityType
  <2>8. Cardinality(CallsInFlight') <= (IF mode = "parallel" THEN MaxParallel ELSE 1)
    <3>1. CASE mode = "parallel"
      BY <1>b, <2>1, <2>6, <2>7, <3>1 DEF MayStart, WorkersFree
    <3>2. CASE mode # "parallel"
      <4>1. CallsInFlight = {}
        BY <2>1, <3>2 DEF MayStart
      <4>2. Cardinality(CallsInFlight) = 0
        BY <4>1, FS_EmptySet
      <4> QED
        BY <2>6, <2>7, <3>2, <4>2
    <3> QED
      BY <3>1, <3>2
  <2>9. mode = "sequential" => /\ CallsInFlight = {}
                               /\ \A i \in 1..cursor : calls[i] \notin {"bad", "failed"}
    BY <1>a, <2>1 DEF MayStart, Failures
  <2>10. \A i, j \in DOMAIN calls : mode = "sequential" /\ i < j /\ calls'[i] \in {"failed", "bad", "running"}
           => calls'[j] \notin {"running", "ok", "failed"}
    <3> SUFFICES ASSUME NEW i \in DOMAIN calls, NEW j \in DOMAIN calls, mode = "sequential", i < j,
                        calls'[i] \in {"failed", "bad", "running"}
                 PROVE  calls'[j] \notin {"running", "ok", "failed"}
      OBVIOUS
    <3>1. i >= k
      BY <1>a, <2>1, <2>3, <2>9 DEF CallsInFlight
    <3>2. j > cursor /\ j # k
      BY <1>a, <2>1, <3>1
    <3> QED
      BY <2>3, <3>2 DEF BatchInv, BatchShape
  <2>11. /\ \A i \in DOMAIN calls : calls'[i] \in {"running", "ok", "failed"} => i <= k
         /\ \A i \in DOMAIN calls : i > k => calls'[i] \in {"queued", "bad"}
    BY <1>a, <2>1, <2>3 DEF BatchInv, BatchShape, Ran
  <2> HIDE DEF k
  <2> QED
    BY <2>1, <2>3, <2>8, <2>10, <2>11 DEF BatchShape, Ran
<1>6. CASE \E i \in DOMAIN calls : CallEnds(i)
  <2>1. PICK k \in DOMAIN calls : CallEnds(k)
    BY <1>6
  <2>2. /\ DOMAIN calls' = DOMAIN calls /\ calls[k] = "running" /\ calls'[k] \in {"ok", "failed"}
        /\ \A i \in DOMAIN calls : i # k => calls'[i] = calls[i]
        /\ mode' = mode /\ cursor' = cursor
    BY <2>1 DEF CallEnds
  <2>3. CallsInFlight' \in SUBSET CallsInFlight
    BY <2>2 DEF CallsInFlight
  <2>4. Cardinality(CallsInFlight') <= Cardinality(CallsInFlight) /\ Cardinality(CallsInFlight') \in Nat
    BY <1>b, <2>3, FS_Subset, FS_CardinalityType
  <2>5. Cardinality(CallsInFlight') <= (IF mode' = "parallel" THEN MaxParallel ELSE 1)
    BY <1>b, <2>2, <2>4 DEF BatchInv, BatchShape
  <2> QED
    BY <1>a, <2>2, <2>5 DEF BatchInv, BatchShape, Ran
<1>7. CASE SkipCalls
  <2>1. /\ DOMAIN calls' = DOMAIN calls /\ CallsInFlight = {} /\ mode' = mode /\ cursor' = Len(calls)
        /\ \A i \in DOMAIN calls : calls'[i] = IF i > cursor THEN "skipped" ELSE calls[i]
    BY <1>7 DEF SkipCalls
  <2>2. CallsInFlight' = {}
    BY <2>1 DEF CallsInFlight
  <2>3. Cardinality(CallsInFlight') = 0
    BY <2>2, FS_EmptySet
  <2> QED
    BY <1>a, <2>1, <2>3 DEF BatchInv, BatchShape, Ran
<1>8. CASE Start \/ ModelEnds
  BY <1>1, <1>8 DEF Start, ModelEnds
<1>9. CASE Expand \/ Refused
  BY <1>1, <1>3, <1>9 DEF Expand, Refused
<1>10. CASE BatchDone
  BY <1>1, <1>3, <1>10 DEF BatchDone
<1>11. CASE Critic
  BY <1>1, <1>3, <1>11 DEF Critic
<1>12. CASE UNCHANGED loopVars
  BY <1>1, <1>12 DEF loopVars
<1> QED
  BY <1>4, <1>5, <1>6, <1>7, <1>8, <1>9, <1>10, <1>11, <1>12 DEF LoopRunNext

(* The tool calls of a turn keep the bounds of their batch.                *)
THEOREM BatchesAreBounded == LoopRunSpec => []BatchBounded
<1>1. LoopRunInit => BatchInv
  <2> SUFFICES ASSUME LoopRunInit PROVE BatchInv
    OBVIOUS
  <2>1. LoopInv /\ Len(calls) = 0 /\ calls = <<>>
    BY InitInv DEF LoopRunInit
  <2>2. CallsInFlight = {} /\ DOMAIN calls = {}
    BY <2>1 DEF CallsInFlight
  <2>3. BatchShape
    BY <2>2, FS_EmptySet, LoopAssumption DEF BatchShape
  <2> QED
    BY <2>1, <2>3 DEF BatchInv
<1>2. BatchInv /\ [LoopRunNext]_loopVars => BatchInv'
  BY StepBatch, StepInv DEF BatchInv
<1>3. BatchInv => BatchBounded
  BY DEF BatchInv, LoopInv, BatchShape, BatchBounded, Ran
<1> QED
  BY <1>1, <1>2, <1>3, PTL DEF LoopRunSpec

-----------------------------------------------------------------------------
(***************************************************************************)
(* The turn of a pattern tree.  What failed below a pattern is known to it *)
(* once it has settled, so a failure climbs to the top, where it is logged *)
(* (FailuresInv); and every pattern works on the route the chain holds,    *)
(* which is of this turn or cleared (RoutesInv).  Every step of a pattern  *)
(* is of one form: it tracks events, moves on and calls some of its own    *)
(* (Moves), and what it may do so is said once for all kinds (Fits).       *)
(***************************************************************************)
EventTypes == {"pattern_enter", "pattern_exit", "content", "error", "user_message"}
Logged     == [type : EventTypes, by : Nodes \cup {"harness"}, sev : Severities]
Handed     == [route : RouteNames \cup {"none", "direct"}, routed : Nat, response : Nat]

ErrorIn(es)    == \E e \in ToSet(es) : e.type = "error"
HasFailed(n)   == phase[n] = "threw" \/ ErrorIn(events[n])
Wraps(n, c)    == c \in ToSet(Children[n])
SameRoute(d, e) == d.route = e.route /\ d.routed = e.routed

ScopesOK ==
  /\ phase \in [Nodes -> {"idle", "running", "returned", "collected", "threw"}]
  /\ events \in [Nodes -> Seq(Logged)] /\ data \in [Nodes -> Handed]
  /\ current \in Handed /\ log \in Seq(Logged) /\ status \in {"running", "error"}
  /\ pos \in 0..Len(Top) + 1 /\ turn \in Nat
  /\ \A n \in Nodes : phase[n] = "idle" => events[n] = <<>>

(* The top is gone through in order, and what failed there is in the log.  *)
TopsInOrder ==
  /\ \A i \in DOMAIN Top :
       /\ pos > 0 /\ i > pos => phase[Top[i]] = "idle"
       /\ pos = 0 \/ i < pos => phase[Top[i]] \in {"idle", "collected", "threw"}
       /\ phase[Top[i]] = "collected" /\ ErrorIn(events[Top[i]]) => ErrorIn(log)
       /\ phase[Top[i]] = "threw" /\ (pos = 0 \/ i < pos) => ErrorIn(log)
  /\ status = "error" /\ pos \in DOMAIN Top => phase[Top[pos]] = "idle"
  /\ pos = 1 => status = "running"

(* What a pattern and one it wraps have to do with one another.  Who has    *)
(* settled has nothing running under him, and has failed if it has.         *)
CallsOK ==
  \A n, c \in Nodes : Wraps(n, c) =>
    /\ phase[c] # "collected"
    /\ phase[c] # "idle" => phase[n] # "idle" /\ Kind[n] \notin {"leaf", "router", "compactExecution"}
    /\ Kind[n] # "hook" /\ phase[n] # "running" =>
         phase[c] # "running" /\ (HasFailed(c) => HasFailed(n))
    /\ Kind[n] = "routes" /\ phase[n] = "running" /\ phase[c] # "idle" => data[n].route = c

(* An exit stands for a pattern that returned, and its errors came with it. *)
ExitsOK ==
  \A m, x \in Nodes : Exit(x) \in ToSet(events[m]) =>
    phase[x] = "returned" /\ x \notin ToSet(Top) /\ (ErrorIn(events[x]) => ErrorIn(events[m]))

(* A chain is gone through in order.                                        *)
ChainsOK ==
  \A n \in Nodes : Kind[n] = "chain" =>
    \A i, j \in DOMAIN Children[n] :
      i < j /\ phase[Children[n][j]] # "idle" => Exit(Children[n][i]) \in ToSet(events[n])

AnswersOK ==
  /\ \A n \in Nodes : Kind[n] = "router" => phase[n] # "threw"
  /\ \A n \in Nodes : Kind[n] = "compactExecution" =>
       /\ phase[n] # "threw"
       /\ phase[n] \in {"returned", "collected"} /\ events[n] = <<>> => data[n].route = "direct"
  /\ pos = 0 /\ status = "running" /\ current.response = 0 => ~ErrorIn(log)

FailuresInv == ScopesOK /\ TopsInOrder /\ CallsOK /\ ExitsOK /\ ChainsOK /\ AnswersOK

(* The router comes first, as in every agent that has one (search,          *)
(* retriever, flavoured-sandbox): routes in front of it would act on the    *)
(* route of the turn before.                                                *)
RouterFirst == \A n \in Nodes : Kind[n] = "router" => Top # <<>> /\ n = Top[1]
Routed      == Top # <<>> /\ Kind[Top[1]] = "router"

RouteHere(d) == d.routed = turn \/ d.route = "none"
RoutesInv ==
  /\ ~Routed => current.route = "none"
  /\ IF Routed /\ pos = 1
     THEN \A n \in Nodes : phase[n] # "idle" => n = Top[1] /\ (phase[n] = "returned" => RouteHere(data[n]))
     ELSE /\ RouteHere(current)
          /\ \A n \in Nodes : phase[n] # "idle" => SameRoute(data[n], current)
          /\ \A n, c \in Nodes : Kind[n] = "routes" /\ Wraps(n, c) /\ phase[c] # "idle" => current.route # "none"

HarnessInv == FailuresInv /\ RoutesInv

-----------------------------------------------------------------------------
(* What a step of a pattern does: n tracks es, moves to phase p with d, and *)
(* calls the patterns cs.                                                   *)
Moves(n, es, p, d, cs) ==
  /\ events' = [x \in Nodes |-> IF x \in cs THEN <<>> ELSE IF x = n THEN events[n] \o es ELSE events[x]]
  /\ phase' = [x \in Nodes |-> IF x \in cs THEN "running" ELSE IF x = n THEN p ELSE phase[x]]
  /\ data' = [x \in Nodes |-> IF x \in cs THEN data[n] ELSE IF x = n THEN d ELSE data[x]]
  /\ UNCHANGED chain

ExitsFit(n, es) ==
  \A x \in Nodes : Exit(x) \in ToSet(es) =>
    /\ phase[x] = "returned" /\ x \notin ToSet(Top)
    /\ ErrorIn(events[x]) => ErrorIn(events[n]) \/ ErrorIn(es)

Calls(n, p, d, cs) ==
  cs # {} =>
    /\ Kind[n] \notin {"leaf", "router", "compactExecution"} /\ (Kind[n] = "hook" \/ p = "running")
    /\ Kind[n] = "routes" => cs = {data[n].route}
    /\ Kind[n] = "chain" => \A i, j \in DOMAIN Children[n] :
         i < j /\ Children[n][j] \in cs => Exit(Children[n][i]) \in ToSet(events[n])

Settles(n, es, p, d) ==
  /\ p # "running" /\ Kind[n] # "hook" => \A c \in ToSet(Children[n]) :
       /\ phase[c] # "running"
       /\ HasFailed(c) => p = "threw" \/ ErrorIn(events[n]) \/ ErrorIn(es)
  /\ p = "running" /\ Kind[n] = "routes" => d = data[n]
  /\ Kind[n] \in {"router", "compactExecution"} => p # "threw"
  /\ Kind[n] = "compactExecution" /\ p = "returned" /\ es = <<>> => d.route = "direct"

Fits(n, es, p, d, cs) ==
  /\ phase[n] = "running" /\ es \in Seq(Logged) /\ p \in {"running", "returned", "threw"} /\ d \in Handed
  /\ cs \subseteq ToSet(Children[n]) /\ \A c \in cs : phase[c] = "idle"
  /\ ExitsFit(n, es)
  /\ Calls(n, p, d, cs) /\ Settles(n, es, p, d)

Hands(n, p, d, cs) ==
  IF Kind[n] = "router" THEN cs = {} /\ (p = "returned" => RouteHere(d))
  ELSE \E m \in Nodes : phase[m] # "idle" /\ SameRoute(d, data[m])

Steps(n) == \E es, p, d, cs : Fits(n, es, p, d, cs) /\ Hands(n, p, d, cs) /\ Moves(n, es, p, d, cs)

LEMMA Joined ==
  ASSUME NEW T, NEW s \in Seq(T), NEW t \in Seq(T)
  PROVE  s \o t \in Seq(T) /\ ToSet(s \o t) = ToSet(s) \cup ToSet(t)
<1>1. s \o t \in Seq(T) /\ Len(s \o t) = Len(s) + Len(t) /\ Len(s) \in Nat /\ Len(t) \in Nat
  BY ConcatProperties, LenProperties
<1>2. DOMAIN s = 1..Len(s) /\ DOMAIN t = 1..Len(t) /\ DOMAIN (s \o t) = 1..Len(s) + Len(t)
  BY <1>1
<1>3. \A i \in 1..Len(s) + Len(t) : (s \o t)[i] = IF i <= Len(s) THEN s[i] ELSE t[i - Len(s)]
  BY ConcatProperties
<1>4. ASSUME NEW e \in ToSet(s \o t) PROVE e \in ToSet(s) \cup ToSet(t)
  BY <1>1, <1>2, <1>3 DEF ToSet
<1>5. ASSUME NEW e \in ToSet(s) PROVE e \in ToSet(s \o t)
  <2>1. PICK i \in 1..Len(s) : e = s[i]
    BY <1>2 DEF ToSet
  <2>2. i \in 1..Len(s) + Len(t) /\ (s \o t)[i] = e
    BY <1>1, <1>3, <2>1
  <2> QED
    BY <1>2, <2>2 DEF ToSet
<1>6. ASSUME NEW e \in ToSet(t) PROVE e \in ToSet(s \o t)
  <2>1. PICK i \in 1..Len(t) : e = t[i]
    BY <1>2 DEF ToSet
  <2>2. Len(s) + i \in 1..Len(s) + Len(t) /\ (s \o t)[Len(s) + i] = e
    BY <1>1, <1>3, <2>1
  <2> QED
    BY <1>2, <2>2 DEF ToSet
<1> QED
  BY <1>1, <1>4, <1>5, <1>6

LEMMA Few ==
  /\ ToSet(<<>>) = {} /\ \A e : ToSet(<<e>>) = {e}
  /\ \A T : <<>> \in Seq(T) /\ \A e \in T : <<e>> \in Seq(T)
BY DEF ToSet

LEMMA Appended ==
  ASSUME NEW T, NEW s \in Seq(T), NEW e \in T
  PROVE  Append(s, e) \in Seq(T) /\ ToSet(Append(s, e)) = ToSet(s) \cup {e}
<1>1. Append(s, e) = s \o <<e>> /\ <<e>> \in Seq(T)
  OBVIOUS
<1>2. ToSet(s \o <<e>>) = ToSet(s) \cup ToSet(<<e>>)
  BY <1>1, Joined, ZenonT(30)
<1>3. ToSet(<<e>>) = {e}
  BY Few, Zenon
<1>4. Append(s, e) \in Seq(T)
  OBVIOUS
<1> QED
  BY <1>1, <1>2, <1>3, <1>4, Zenon

LEMMA EventForms ==
  /\ \A n \in Nodes : Enter(n) \in Logged /\ Exit(n) \in Logged /\ Content(n) \in Logged
  /\ \A n \in Nodes, s \in Severities : Error(n, s) \in Logged /\ Error(n, s).type = "error"
  /\ \A n \in Nodes : Enter(n).type # "error" /\ Exit(n).type # "error" /\ Content(n).type # "error"
  /\ \A m, n \in Nodes : Exit(m) = Exit(n) => m = n
  /\ \A m, n \in Nodes : Exit(m) # Enter(n) /\ Exit(m) # Content(n)
  /\ \A m, n \in Nodes, s \in Severities : Exit(m) # Error(n, s)
  /\ User \in Logged /\ User.type # "error"
BY DEF Enter, Exit, Content, Error, User, Ev, Logged, EventTypes, Severities

LEMMA TreeFacts ==
  /\ \A i \in DOMAIN Top : Top[i] \in Nodes /\ i \in Nat /\ Top[i] \in ToSet(Top)
  /\ \A i, j \in DOMAIN Top : Top[i] = Top[j] => i = j
  /\ DOMAIN Top = 1..Len(Top) /\ Len(Top) \in Nat
  /\ \A n \in Nodes : ~Wraps(n, n) /\ Kind[n] \in PatternKinds
  /\ \A n \in Nodes : \A c \in ToSet(Children[n]) : c \in Nodes /\ Wraps(n, c) /\ c \notin ToSet(Top)
  /\ \A m, n \in Nodes : \A c : Wraps(m, c) /\ Wraps(n, c) => m = n
  /\ \A n \in Nodes : DOMAIN Children[n] = 1..Len(Children[n]) /\ Len(Children[n]) \in Nat
  /\ \A n \in Nodes : \A i \in DOMAIN Children[n] : i \in Nat /\ Wraps(n, Children[n][i])
  /\ \A n \in Nodes : \A i, j \in DOMAIN Children[n] : Children[n][i] = Children[n][j] => i = j
<1>1. Top \in Seq(Nodes) /\ \A n \in Nodes : Children[n] \in Seq(Nodes)
  BY TreesAssumption
<1>2. /\ \A i \in DOMAIN Top : Top[i] \in Nodes /\ i \in Nat /\ Top[i] \in ToSet(Top)
      /\ DOMAIN Top = 1..Len(Top) /\ Len(Top) \in Nat
  BY <1>1 DEF ToSet
<1>3. ASSUME NEW n \in Nodes
      PROVE  /\ DOMAIN Children[n] = 1..Len(Children[n]) /\ Len(Children[n]) \in Nat
             /\ \A i \in DOMAIN Children[n] : i \in Nat /\ Children[n][i] \in ToSet(Children[n])
             /\ \A c \in ToSet(Children[n]) : c \in Nodes
  BY <1>1 DEF ToSet
<1>4. /\ \A i, j \in DOMAIN Top : Top[i] = Top[j] => i = j
      /\ \A n \in Nodes : \A i, j \in DOMAIN Children[n] : Children[n][i] = Children[n][j] => i = j
  BY TreesAssumption DEF IsInjective
<1>5. ASSUME NEW n \in Nodes PROVE ~Wraps(n, n) /\ Kind[n] \in PatternKinds
  <2>1. {n} \in SUBSET Nodes /\ {n} # {}
    OBVIOUS
  <2>2. \E x \in {n} : \A m \in {n} : x \notin ToSet(Children[m])
    BY <2>1, TreesAssumption
  <2> QED
    BY <2>2, TreesAssumption DEF Wraps
<1>6. \A m, n \in Nodes : \A c : Wraps(m, c) /\ Wraps(n, c) => m = n
  BY TreesAssumption DEF Wraps
<1>7. \A n \in Nodes : \A c \in ToSet(Children[n]) : c \in Nodes /\ Wraps(n, c) /\ c \notin ToSet(Top)
  BY <1>3, TreesAssumption DEF Wraps
<1> QED
  BY <1>2, <1>3, <1>4, <1>5, <1>6, <1>7 DEF Wraps

LEMMA MoveKeepsFailures ==
  ASSUME FailuresInv, NEW n \in Nodes, NEW es, NEW p, NEW d, NEW cs,
         Fits(n, es, p, d, cs), Moves(n, es, p, d, cs)
  PROVE  FailuresInv'
<1>1. /\ ScopesOK /\ TopsInOrder /\ CallsOK /\ ExitsOK /\ ChainsOK /\ AnswersOK
      /\ phase[n] = "running" /\ es \in Seq(Logged) /\ p \in {"running", "returned", "threw"} /\ d \in Handed
      /\ cs \subseteq Nodes /\ \A c \in cs : Wraps(n, c) /\ phase[c] = "idle" /\ c # n
      /\ Calls(n, p, d, cs) /\ Settles(n, es, p, d)
  BY TreesAssumption DEF FailuresInv, Fits, Wraps, ToSet
<1>2. \A x \in Nodes : events[x] \in Seq(Logged) /\ data[x] \in Handed /\ events[n] \o es \in Seq(Logged)
  BY <1>1, Joined DEF ScopesOK
<1>3. \A x \in Nodes :
        /\ events'[x] = (IF x \in cs THEN <<>> ELSE IF x = n THEN events[n] \o es ELSE events[x])
        /\ phase'[x] = (IF x \in cs THEN "running" ELSE IF x = n THEN p ELSE phase[x])
        /\ data'[x] = (IF x \in cs THEN data[n] ELSE IF x = n THEN d ELSE data[x])
  BY DEF Moves
<1>4. current' = current /\ log' = log /\ status' = status /\ pos' = pos /\ turn' = turn
  BY DEF Moves, chain
<1>5. ScopesOK'
  <2>1. events' \in [Nodes -> Seq(Logged)] /\ data' \in [Nodes -> Handed]
        /\ phase' \in [Nodes -> {"idle", "running", "returned", "collected", "threw"}]
    BY <1>1, <1>2 DEF Moves, ScopesOK
  <2>2. \A x \in Nodes : phase'[x] = "idle" => events'[x] = <<>>
    BY <1>1, <1>3 DEF ScopesOK
  <2> QED
    BY <1>1, <1>4, <2>1, <2>2 DEF ScopesOK
<1>6. ToSet(events[n] \o es) = ToSet(events[n]) \cup ToSet(es)
  BY <1>1, Joined DEF ScopesOK
<1>7. /\ \A x \in Nodes : x \in cs => ~ErrorIn(events'[x])
      /\ ErrorIn(events'[n]) <=> ErrorIn(events[n]) \/ ErrorIn(es)
      /\ \A x \in Nodes : x \notin cs /\ x # n => (ErrorIn(events'[x]) <=> ErrorIn(events[x]))
  BY <1>1, <1>3, <1>6, Few DEF ErrorIn
<1>8. ErrorIn(log') <=> ErrorIn(log)
  BY <1>4
<1>9. TopsInOrder'
  <2>1. \A i \in DOMAIN Top : Top[i] \in Nodes /\ Top[i] \notin cs /\ i \in Nat
    BY <1>1, TreeFacts DEF Wraps
  <2>2. \A i \in DOMAIN Top : Top[i] = n => pos # 0 /\ ~(i < pos) /\ ~(i > pos)
    BY SMTT(30), <1>1, <2>1 DEF TopsInOrder, ScopesOK
  <2>3. \A i \in DOMAIN Top : Top[i] # n => phase'[Top[i]] = phase[Top[i]] /\ events'[Top[i]] = events[Top[i]]
    BY <1>3, <2>1
  <2>4. \A i \in DOMAIN Top : Top[i] = n => phase'[Top[i]] # "collected"
    BY <1>1, <1>3, <2>1
  <2>5. status = "error" /\ pos \in DOMAIN Top => phase'[Top[pos]] = "idle"
    BY <1>1, <2>3 DEF TopsInOrder
  <2>6. ASSUME NEW i \in DOMAIN Top
        PROVE  /\ pos > 0 /\ i > pos => phase'[Top[i]] = "idle"
               /\ pos = 0 \/ i < pos => phase'[Top[i]] \in {"idle", "collected", "threw"}
               /\ phase'[Top[i]] = "collected" /\ ErrorIn(events'[Top[i]]) => ErrorIn(log)
               /\ phase'[Top[i]] = "threw" /\ (pos = 0 \/ i < pos) => ErrorIn(log)
    BY <1>1, <2>2, <2>3, <2>4 DEF TopsInOrder
  <2> QED
    BY <1>1, <1>4, <2>5, <2>6 DEF TopsInOrder
<1>10. CallsOK'
  <2> SUFFICES ASSUME NEW m \in Nodes, NEW c \in Nodes, Wraps(m, c)
               PROVE  /\ phase'[c] # "collected"
                      /\ phase'[c] # "idle" => phase'[m] # "idle" /\ Kind[m] \notin {"leaf", "router", "compactExecution"}
                      /\ Kind[m] # "hook" /\ phase'[m] # "running" =>
                           phase'[c] # "running" /\ (HasFailed(c)' => HasFailed(m)')
                      /\ Kind[m] = "routes" /\ phase'[m] = "running" /\ phase'[c] # "idle" => data'[m].route = c
    BY DEF CallsOK, Wraps
  <2>1. CASE c \in cs
    <3>1. m = n
      BY <1>1, <2>1, TreesAssumption DEF Wraps
    <3>2. phase'[c] = "running" /\ phase'[m] = p /\ data'[m] = d
      BY <1>1, <1>3, <2>1, <3>1
    <3> QED
      BY <1>1, <2>1, <3>1, <3>2 DEF Calls, Settles
  <2>2. CASE c \notin cs /\ c # n /\ m = n
    <3>1. phase'[c] = phase[c] /\ phase'[m] = p /\ data'[m] = d /\ (HasFailed(c)' <=> HasFailed(c))
      BY <1>1, <1>3, <1>7, <2>2 DEF HasFailed
    <3>2. HasFailed(m)' <=> p = "threw" \/ ErrorIn(events[n]) \/ ErrorIn(es)
      BY <1>7, <2>2, <3>1 DEF HasFailed
    <3> QED
      BY <1>1, <2>2, <3>1, <3>2 DEF Settles, CallsOK, Wraps
  <2>3. CASE c \notin cs /\ c # n /\ m # n
    <3>1. phase'[c] = phase[c] /\ (HasFailed(c)' <=> HasFailed(c))
      BY <1>3, <1>7, <2>3 DEF HasFailed
    <3>2. CASE m \notin cs
      <4>1. phase'[m] = phase[m] /\ data'[m] = data[m] /\ (HasFailed(m)' <=> HasFailed(m))
        BY <1>3, <1>7, <2>3, <3>2 DEF HasFailed
      <4> QED
        BY <1>1, <3>1, <4>1 DEF CallsOK
    <3>3. CASE m \in cs
      <4>1. phase[c] = "idle" /\ phase'[m] = "running"
        BY <1>1, <1>3, <3>3 DEF CallsOK
      <4> QED
        BY <3>1, <4>1
    <3> QED
      BY <3>2, <3>3
  <2>4. CASE c = n
    <3>1. m # n /\ m \notin cs
      <4>1. phase[m] # "idle"
        BY <1>1, <2>4 DEF CallsOK
      <4> QED
        BY <1>1, <2>4, <4>1, TreeFacts
    <3>2. phase'[m] = phase[m] /\ data'[m] = data[m] /\ phase'[c] = p /\ phase[c] = "running"
      BY <1>1, <1>3, <2>4, <3>1
    <3> QED
      BY <1>1, <3>2 DEF CallsOK
  <2> QED
    BY <2>1, <2>2, <2>3, <2>4
<1>11. ExitsOK'
  <2> SUFFICES ASSUME NEW m \in Nodes, NEW x \in Nodes, Exit(x) \in ToSet(events'[m])
               PROVE  phase'[x] = "returned" /\ x \notin ToSet(Top) /\ (ErrorIn(events'[x]) => ErrorIn(events'[m]))
    BY DEF ExitsOK, Exit, Ev
  <2>1. m \notin cs
    BY <1>3, Few
  <2>2. /\ phase[x] = "returned" /\ x \notin ToSet(Top)
        /\ ErrorIn(events[x]) => ErrorIn(events'[m])
    <3>1. CASE m = n
      <4>1. Exit(x) \in ToSet(events[n]) \/ Exit(x) \in ToSet(es)
        BY <1>3, <1>6, <2>1, <3>1
      <4> QED
        BY <1>1, <1>7, <3>1, <4>1 DEF ExitsOK, Fits, ExitsFit
    <3>2. CASE m # n
      BY <1>1, <1>3, <1>7, <2>1, <3>2 DEF ExitsOK
    <3> QED
      BY <3>1, <3>2
  <2>3. x # n /\ x \notin cs
    BY <1>1, <2>2
  <2> QED
    BY <1>3, <1>7, <2>2, <2>3
<1>12. ChainsOK'
  <2> SUFFICES ASSUME NEW m \in Nodes, Kind[m] = "chain", NEW i \in DOMAIN Children[m], NEW j \in DOMAIN Children[m],
                      i < j, phase'[Children[m][j]] # "idle"
               PROVE  Exit(Children[m][i]) \in ToSet(events'[m])
    BY DEF ChainsOK, Exit, Ev
  <2> DEFINE c == Children[m][j]
  <2>1. c \in Nodes /\ Wraps(m, c) /\ Children[m][i] \in Nodes
    BY TreesAssumption DEF Wraps, ToSet
  <2>2. CASE c \in cs
    <3>1. m = n
      BY <1>1, <2>1, <2>2, TreesAssumption DEF Wraps
    <3>2. Exit(Children[n][i]) \in ToSet(events[n])
      BY <1>1, <2>2, <3>1 DEF Calls
    <3> QED
      BY <1>1, <1>3, <1>6, <3>1, <3>2
  <2>3. CASE c \notin cs
    <3>1. phase[c] # "idle"
      BY <1>1, <1>3, <2>1, <2>3
    <3>2. Exit(Children[m][i]) \in ToSet(events[m])
      BY <1>1, <3>1 DEF ChainsOK
    <3>3. m \notin cs
      <4>1. phase[m] # "idle"
        BY <1>1, <2>1, <3>1 DEF CallsOK
      <4> QED
        BY <1>1, <4>1
    <3> QED
      BY <1>1, <1>3, <1>6, <3>2, <3>3
  <2> QED
    BY <2>2, <2>3
<1>13. AnswersOK'
  <2>1. ASSUME NEW x \in Nodes, Kind[x] = "router" PROVE phase'[x] # "threw"
    BY <1>1, <1>3, <2>1 DEF AnswersOK, Settles
  <2>2. ASSUME NEW x \in Nodes, Kind[x] = "compactExecution"
        PROVE  /\ phase'[x] # "threw"
               /\ phase'[x] \in {"returned", "collected"} /\ events'[x] = <<>> => data'[x].route = "direct"
    <3>1. CASE x # n
      BY <1>1, <1>3, <2>2, <3>1 DEF AnswersOK
    <3>2. CASE x = n
      <4>1. events[n] \o es = <<>> => es = <<>>
        BY <1>1, <1>2
      <4> QED
        BY <1>1, <1>3, <2>2, <3>2, <4>1 DEF Settles
    <3> QED
      BY <3>1, <3>2
  <2> QED
    BY <1>1, <1>4, <2>1, <2>2 DEF AnswersOK
<1> QED
  BY <1>5, <1>9, <1>10, <1>11, <1>12, <1>13 DEF FailuresInv

LEMMA MoveKeepsRoutes ==
  ASSUME FailuresInv, RouterFirst, RoutesInv, NEW n \in Nodes, NEW es, NEW p, NEW d, NEW cs,
         Fits(n, es, p, d, cs), Hands(n, p, d, cs), Moves(n, es, p, d, cs)
  PROVE  RoutesInv'
<1>1. /\ phase[n] = "running" /\ cs \subseteq Nodes /\ \A c \in cs : Wraps(n, c) /\ phase[c] = "idle" /\ c # n
      /\ p \in {"running", "returned", "threw"} /\ (cs # {} /\ Kind[n] = "routes" => cs = {data[n].route})
  BY TreeFacts DEF FailuresInv, Fits, Calls, Wraps
<1>2. \A x \in Nodes :
        /\ phase'[x] = (IF x \in cs THEN "running" ELSE IF x = n THEN p ELSE phase[x])
        /\ data'[x] = (IF x \in cs THEN data[n] ELSE IF x = n THEN d ELSE data[x])
  BY DEF Moves
<1>3. current' = current /\ pos' = pos /\ turn' = turn
  BY DEF Moves, chain
<1>4. CASE Routed /\ pos = 1
  <2>1. n = Top[1] /\ Kind[n] = "router" /\ cs = {} /\ (p = "returned" => RouteHere(d))
    BY <1>1, <1>4 DEF RoutesInv, Routed, Hands
  <2>2. \A x \in Nodes : phase'[x] # "idle" => x = n
    BY <1>1, <1>2, <1>4, <2>1 DEF RoutesInv
  <2>3. phase'[n] = "returned" => RouteHere(data'[n])
    BY <1>2, <2>1
  <2>4. turn' = turn
    BY <1>3
  <2> QED
    BY <1>3, <1>4, <2>1, <2>2, <2>3 DEF RoutesInv, Routed, RouteHere
<1>5. CASE ~(Routed /\ pos = 1)
  <2>1. Kind[n] # "router"
    <3>1. ASSUME Kind[n] = "router" PROVE FALSE
      <4>1. Routed /\ n = Top[1] /\ 1 \in DOMAIN Top /\ pos # 1
        BY <1>5, <3>1, TreeFacts, TreesAssumption DEF RouterFirst, Routed
      <4>2. pos = 0 \/ 1 < pos
        BY <4>1 DEF FailuresInv, ScopesOK
      <4> QED
        BY <1>1, <4>1, <4>2 DEF FailuresInv, TopsInOrder
    <3> QED
      BY <3>1
  <2>2. SameRoute(d, current) /\ SameRoute(data[n], current) /\ RouteHere(current)
    BY <1>1, <1>5, <2>1 DEF RoutesInv, Hands, SameRoute
  <2>3. \A x \in Nodes : phase'[x] # "idle" => SameRoute(data'[x], current)
    BY <1>1, <1>2, <1>5, <2>2 DEF RoutesInv
  <2>4. ASSUME NEW m \in Nodes, NEW c \in Nodes, Kind[m] = "routes", Wraps(m, c), phase'[c] # "idle"
        PROVE  current.route # "none"
    <3>1. CASE c \in cs
      <4>1. m = n /\ c = data[n].route
        BY <1>1, <2>4, <3>1, TreeFacts
      <4> QED
        BY <2>2, <4>1, NamesAssumption DEF SameRoute
    <3>2. CASE c \notin cs
      BY <1>1, <1>2, <1>5, <2>4, <3>2 DEF RoutesInv
    <3> QED
      BY <3>1, <3>2
  <2> QED
    BY <1>3, <1>5, <2>2, <2>3, <2>4 DEF RoutesInv, RouteHere, SameRoute, Routed, Wraps
<1> QED
  BY <1>4, <1>5

LEMMA TracksMoves ==
  ASSUME ScopesOK, NEW n \in Nodes, NEW es, NEW loud, NEW p, NEW d, Tracks(n, es, loud, p, d)
  PROVE  Moves(n, es, p, d, {})
BY DEF ScopesOK, Tracks, Moves

LEMMA CallsMove ==
  ASSUME ScopesOK, NEW n \in Nodes, NEW es, NEW loud, NEW cs, n \notin cs, phase[n] = "running",
         CallsOut(n, es, loud, cs)
  PROVE  Moves(n, es, "running", data[n], cs)
BY DEF ScopesOK, CallsOut, Moves

LEMMA IdleClean ==
  ASSUME FailuresInv, NEW c \in Nodes, phase[c] = "idle"
  PROVE  ~HasFailed(c)
BY Few DEF FailuresInv, ScopesOK, HasFailed, ErrorIn

(* Who calls nobody has nobody to wait for.                                 *)
LEMMA Childless ==
  ASSUME FailuresInv, NEW n \in Nodes, Kind[n] \in {"leaf", "router", "compactExecution"},
         NEW c \in ToSet(Children[n])
  PROVE  phase[c] = "idle" /\ ~HasFailed(c)
<1>1. c \in Nodes /\ Wraps(n, c)
  BY TreeFacts
<1>2. phase[c] = "idle"
  BY <1>1 DEF FailuresInv, CallsOK
<1> QED
  BY <1>1, <1>2, IdleClean

NoExit(e) == \A x \in Nodes : e # Exit(x)
CameWith(e, c, es) ==
  /\ phase[c] = "returned" /\ c \notin ToSet(Top) /\ ToSet(events[c]) \subseteq ToSet(es)
  /\ e \in ToSet(events[c]) \/ e = Exit(c)

(* Collecting what returned keeps its exits with its errors.                *)
LEMMA CollectFits ==
  ASSUME FailuresInv, NEW n \in Nodes, NEW es,
         \A e \in ToSet(es) : NoExit(e) \/ \E c \in Nodes : CameWith(e, c, es)
  PROVE  ExitsFit(n, es)
<1> SUFFICES ASSUME NEW x \in Nodes, Exit(x) \in ToSet(es)
             PROVE  /\ phase[x] = "returned" /\ x \notin ToSet(Top)
                    /\ ErrorIn(events[x]) => ErrorIn(events[n]) \/ ErrorIn(es)
  BY DEF ExitsFit
<1>1. PICK c \in Nodes : CameWith(Exit(x), c, es)
  BY DEF NoExit
<1>2. ErrorIn(events[c]) => ErrorIn(es)
  BY <1>1 DEF ErrorIn, CameWith
<1>3. CASE Exit(x) \in ToSet(events[c])
  BY <1>2, <1>3 DEF FailuresInv, ExitsOK
<1>4. CASE Exit(x) = Exit(c)
  BY <1>1, <1>2, <1>4, EventForms DEF CameWith
<1> QED
  BY <1>1, <1>3, <1>4 DEF CameWith

(* A step without calls and without exits.                                  *)
LEMMA QuietStep ==
  ASSUME FailuresInv, NEW n \in Nodes, phase[n] = "running", NEW es \in Seq(Logged), NEW loud,
         NEW p \in {"running", "returned", "threw"}, NEW d \in Handed, Tracks(n, es, loud, p, d),
         \A e \in ToSet(es) : NoExit(e),
         Settles(n, es, p, d), Hands(n, p, d, {})
  PROVE  Steps(n)
<1>1. Moves(n, es, p, d, {})
  BY TracksMoves DEF FailuresInv
<1>2. ExitsFit(n, es)
  BY CollectFits
<1>3. Fits(n, es, p, d, {})
  BY <1>2 DEF Fits, Calls
<1> QED
  BY <1>1, <1>3 DEF Steps

LEMMA LeafSteps ==
  ASSUME FailuresInv, NEW n \in Nodes, Leaf(n)
  PROVE  Steps(n)
<1>1. Kind[n] = "leaf" /\ phase[n] = "running" /\ data[n] \in Handed /\ turn \in Nat /\ ScopesOK
  BY DEF Leaf, Holds, FailuresInv, ScopesOK
<1>2. ASSUME NEW es, NEW p, NEW d PROVE Settles(n, es, p, d)
  BY <1>1, Childless DEF Settles
<1>3. ASSUME NEW p, NEW d, SameRoute(d, data[n]) PROVE Hands(n, p, d, {})
  BY <1>1, <1>3 DEF Hands
<1>4. SameRoute(data[n], data[n])
  BY DEF SameRoute
<1>5. CASE Tracks(n, <<Content(n)>>, <<Content(n)>>, "running", data[n])
  <2>1. <<Content(n)>> \in Seq(Logged) /\ \A e \in ToSet(<<Content(n)>>) : NoExit(e)
    BY EventForms, Few DEF NoExit
  <2> QED
    BY <1>1, <1>2, <1>3, <1>4, <1>5, <2>1, QuietStep
<1>6. ASSUME NEW s \in Stamps[n], Returns(n, <<Error(n, s)>>, data[n]) PROVE Steps(n)
  <2>1. s \in Severities
    BY NamesAssumption
  <2>2. <<Error(n, s)>> \in Seq(Logged) /\ \A e \in ToSet(<<Error(n, s)>>) : NoExit(e)
    BY <2>1, EventForms, Few DEF NoExit
  <2> QED
    BY <1>1, <1>2, <1>3, <1>4, <1>6, <2>2, QuietStep DEF Returns
<1>7. <<>> \in Seq(Logged) /\ \A e \in ToSet(<<>>) : NoExit(e)
  BY Few
<1>8. CASE Returns(n, <<>>, data[n])
  BY <1>1, <1>2, <1>3, <1>4, <1>7, <1>8, QuietStep DEF Returns
<1>9. CASE Returns(n, <<>>, [data[n] EXCEPT !.response = turn])
  <2>1. [data[n] EXCEPT !.response = turn] \in Handed /\ SameRoute([data[n] EXCEPT !.response = turn], data[n])
    BY <1>1 DEF Handed, SameRoute
  <2> QED
    BY <1>1, <1>2, <1>3, <1>7, <1>9, <2>1, QuietStep DEF Returns
<1>10. CASE Tracks(n, <<>>, <<>>, "threw", data[n])
  BY <1>1, <1>2, <1>3, <1>4, <1>7, <1>10, QuietStep
<1> QED
  BY <1>5, <1>6, <1>8, <1>9, <1>10 DEF Leaf

LEMMA RouterSteps ==
  ASSUME FailuresInv, NEW n \in Nodes, Router(n)
  PROVE  Steps(n)
<1>1. Kind[n] = "router" /\ phase[n] = "running" /\ data[n] \in Handed /\ turn \in Nat /\ ScopesOK
  BY DEF Router, Holds, FailuresInv, ScopesOK
<1>2. ASSUME NEW es, NEW d PROVE Settles(n, es, "returned", d)
  BY <1>1, Childless DEF Settles
<1>3. ASSUME NEW es \in {<<>>, <<Content(n)>>, <<Error(n, "none")>>}
      PROVE  es \in Seq(Logged) /\ \A e \in ToSet(es) : NoExit(e)
  <2>1. "none" \in Severities
    BY DEF Severities
  <2>2. Content(n) \in Logged /\ Error(n, "none") \in Logged
    BY <2>1, EventForms
  <2>3. es \in Seq(Logged) /\ \A e \in ToSet(es) : e = Content(n) \/ e = Error(n, "none")
    BY ZenonT(30), <2>2, Few
  <2> QED
    BY <2>1, <2>3, EventForms DEF NoExit
<1>4. ASSUME NEW es \in {<<>>, <<Content(n)>>, <<Error(n, "none")>>}, NEW d \in Handed, Returns(n, es, d),
             RouteHere(d)
      PROVE  Steps(n)
  <2>1. Hands(n, "returned", d, {})
    BY <1>1, <1>4 DEF Hands
  <2> QED
    BY <1>1, <1>2, <1>3, <1>4, <2>1, QuietStep DEF Returns
<1>5. ASSUME NEW a \in {0, turn}, Returns(n, <<Content(n)>>, [route |-> "direct", routed |-> turn, response |-> a])
      PROVE  Steps(n)
  <2>1. [route |-> "direct", routed |-> turn, response |-> a] \in Handed
        /\ RouteHere([route |-> "direct", routed |-> turn, response |-> a])
    BY <1>1 DEF Handed, RouteHere
  <2> QED
    BY <1>4, <1>5, <2>1
<1>6. ASSUME NEW x \in RouteNames, NEW es \in {<<>>, <<Content(n)>>},
             Returns(n, es, [data[n] EXCEPT !.route = x, !.routed = turn])
      PROVE  Steps(n)
  <2>1. [data[n] EXCEPT !.route = x, !.routed = turn] \in Handed
        /\ RouteHere([data[n] EXCEPT !.route = x, !.routed = turn])
    BY <1>1 DEF Handed, RouteHere
  <2> QED
    BY <1>4, <1>6, <2>1
<1>7. CASE Returns(n, <<Error(n, "none")>>, [data[n] EXCEPT !.route = "none"])
  <2>1. [data[n] EXCEPT !.route = "none"] \in Handed /\ RouteHere([data[n] EXCEPT !.route = "none"])
    BY <1>1 DEF Handed, RouteHere
  <2> QED
    BY <1>4, <1>7, <2>1
<1> QED
  BY <1>5, <1>6, <1>7 DEF Router

LEMMA SynthesizeSteps ==
  ASSUME FailuresInv, NEW n \in Nodes, Synthesize(n)
  PROVE  Steps(n)
<1>1. Kind[n] = "compactExecution" /\ phase[n] = "running" /\ data[n] \in Handed /\ turn \in Nat /\ ScopesOK
  BY DEF Synthesize, Holds, FailuresInv, ScopesOK
<1>2. ASSUME NEW es, NEW d, es # <<>> \/ d.route = "direct" PROVE Settles(n, es, "returned", d)
  BY <1>1, <1>2, Childless DEF Settles
<1>3. ASSUME NEW es \in {<<>>, <<Content(n)>>, <<Error(n, "irrecoverable")>>}
      PROVE  es \in Seq(Logged) /\ \A e \in ToSet(es) : NoExit(e)
  <2>1. "irrecoverable" \in Severities
    BY DEF Severities
  <2>2. Content(n) \in Logged /\ Error(n, "irrecoverable") \in Logged
    BY <2>1, EventForms
  <2>3. es \in Seq(Logged) /\ \A e \in ToSet(es) : e = Content(n) \/ e = Error(n, "irrecoverable")
    BY ZenonT(30), <2>2, Few
  <2> QED
    BY <2>1, <2>3, EventForms DEF NoExit
<1>4. ASSUME NEW es \in {<<>>, <<Content(n)>>, <<Error(n, "irrecoverable")>>}, NEW d \in Handed, Returns(n, es, d),
             SameRoute(d, data[n]), es # <<>> \/ d.route = "direct"
      PROVE  Steps(n)
  <2>1. Hands(n, "returned", d, {})
    BY <1>1, <1>4 DEF Hands
  <2> QED
    BY <1>1, <1>2, <1>3, <1>4, <2>1, QuietStep DEF Returns
<1>5. SameRoute(data[n], data[n])
  BY DEF SameRoute
<1>6. CASE data[n].route = "direct" /\ Returns(n, <<>>, data[n])
  BY <1>1, <1>4, <1>5, <1>6
<1>7. ASSUME NEW a \in {0, turn}, Returns(n, <<Content(n)>>, [data[n] EXCEPT !.response = a]) PROVE Steps(n)
  <2>1. [data[n] EXCEPT !.response = a] \in Handed /\ SameRoute([data[n] EXCEPT !.response = a], data[n])
    BY <1>1 DEF Handed, SameRoute
  <2> QED
    BY <1>4, <1>7, <2>1
<1>8. CASE Returns(n, <<Error(n, "irrecoverable")>>, data[n])
  BY <1>1, <1>4, <1>5, <1>8
<1> QED
  BY <1>6, <1>7, <1>8 DEF Synthesize

(* Collecting one child that returned, with its brackets or its exit only.  *)
LEMMA CollectStep ==
  ASSUME FailuresInv, NEW n \in Nodes, phase[n] = "running", NEW es \in Seq(Logged), NEW loud,
         NEW p \in {"running", "returned"}, NEW c \in ToSet(Children[n]), phase[c] = "returned",
         Tracks(n, es, loud, p, data[c]), ToSet(events[c]) \subseteq ToSet(es),
         \A e \in ToSet(es) : e \in ToSet(events[c]) \/ e = Exit(c) \/ NoExit(e),
         Kind[n] # "router", Settles(n, es, p, data[c])
  PROVE  Steps(n)
<1>1. Moves(n, es, p, data[c], {})
  BY TracksMoves DEF FailuresInv
<1>2. c \in Nodes /\ c \notin ToSet(Top) /\ data[c] \in Handed
  BY TreeFacts DEF FailuresInv, ScopesOK
<1>3. ExitsFit(n, es)
  <2>1. \A e \in ToSet(es) : NoExit(e) \/ CameWith(e, c, es)
    BY <1>2 DEF CameWith
  <2> QED
    BY <1>2, <2>1, CollectFits
<1>4. Fits(n, es, p, data[c], {})
  BY <1>2, <1>3 DEF Fits, Calls
<1>5. Hands(n, p, data[c], {})
  BY <1>2 DEF Hands, SameRoute
<1> QED
  BY <1>1, <1>4, <1>5 DEF Steps

LEMMA RoutesSteps ==
  ASSUME FailuresInv, NEW n \in Nodes, Routes(n)
  PROVE  Steps(n)
<1>1. Kind[n] = "routes" /\ phase[n] = "running" /\ data[n] \in Handed /\ ScopesOK
  BY DEF Routes, Holds, FailuresInv, ScopesOK
<1> DEFINE r == data[n].route
<1>2. ASSUME NEW c \in ToSet(Children[n]), c # r PROVE phase[c] = "idle" /\ ~HasFailed(c)
  <2>1. c \in Nodes /\ Wraps(n, c)
    BY TreeFacts
  <2>2. phase[c] = "idle"
    BY <1>1, <1>2, <2>1 DEF FailuresInv, CallsOK
  <2> QED
    BY <2>1, <2>2, IdleClean
<1>3. ASSUME NEW p, SameRoute(data[n], data[n]) PROVE Hands(n, p, data[n], {})
  BY <1>1 DEF Hands, SameRoute
<1>4. Hands(n, "threw", data[n], {}) /\ Hands(n, "returned", data[n], {}) /\ SameRoute(data[n], data[n])
  BY <1>3 DEF SameRoute
<1>5. <<>> \in Seq(Logged) /\ \A e \in ToSet(<<>>) : NoExit(e)
  BY Few
<1>6. CASE r = "none" /\ Tracks(n, <<>>, <<>>, "threw", data[n])
  <2>1. \A c \in ToSet(Children[n]) : c # r
    BY <1>6, TreeFacts, NamesAssumption
  <2>2. Settles(n, <<>>, "threw", data[n])
    BY <1>1, <1>2, <2>1 DEF Settles
  <2> QED
    BY <1>1, <1>4, <1>5, <1>6, <2>2, QuietStep
<1>7. CASE r = "direct" /\ Returns(n, <<>>, data[n])
  <2>1. \A c \in ToSet(Children[n]) : c # r
    BY <1>7, TreeFacts, NamesAssumption
  <2>2. Settles(n, <<>>, "returned", data[n])
    BY <1>1, <1>2, <2>1 DEF Settles
  <2> QED
    BY <1>1, <1>4, <1>5, <1>7, <2>2, QuietStep DEF Returns
<1>8. CASE r \notin ToSet(Children[n]) /\ Returns(n, <<Error(n, "none")>>, data[n])
  <2>1. "none" \in Severities
    BY DEF Severities
  <2>2. <<Error(n, "none")>> \in Seq(Logged) /\ \A e \in ToSet(<<Error(n, "none")>>) : NoExit(e)
    BY <2>1, EventForms, Few DEF NoExit
  <2>3. Settles(n, <<Error(n, "none")>>, "returned", data[n])
    BY <1>1, <1>2, <1>8 DEF Settles
  <2> QED
    BY <1>1, <1>4, <1>8, <2>2, <2>3, QuietStep DEF Returns
<1>9. CASE r \in ToSet(Children[n]) /\ phase[r] = "idle" /\ CallsOut(n, <<Enter(r)>>, <<Enter(r)>>, {r})
  <2>1. r \in Nodes /\ <<Enter(r)>> \in Seq(Logged) /\ \A e \in ToSet(<<Enter(r)>>) : NoExit(e)
    BY <1>9, TreeFacts, EventForms, Few DEF NoExit
  <2>2. Moves(n, <<Enter(r)>>, "running", data[n], {r})
    BY <1>1, <1>9, CallsMove
  <2>3. ExitsFit(n, <<Enter(r)>>)
    BY <2>1, CollectFits
  <2>4. Calls(n, "running", data[n], {r}) /\ Settles(n, <<Enter(r)>>, "running", data[n])
    BY <1>1 DEF Calls, Settles
  <2>5. Fits(n, <<Enter(r)>>, "running", data[n], {r})
    BY <1>1, <1>9, <2>1, <2>3, <2>4 DEF Fits
  <2>6. Hands(n, "running", data[n], {r})
    BY <1>1, <1>4 DEF Hands
  <2> QED
    BY <2>2, <2>5, <2>6 DEF Steps
<1>10. CASE r \in ToSet(Children[n]) /\ phase[r] = "returned"
            /\ Tracks(n, Append(events[r], Exit(r)), <<Exit(r)>>, "returned", data[r])
  <2> DEFINE es == Append(events[r], Exit(r))
  <2>1. r \in Nodes /\ events[r] \in Seq(Logged) /\ Exit(r) \in Logged
    BY <1>1, <1>10, TreeFacts, EventForms DEF ScopesOK
  <2>2. es \in Seq(Logged) /\ ToSet(es) = ToSet(events[r]) \cup {Exit(r)}
    BY <2>1, Appended
  <2>3. Settles(n, es, "returned", data[r])
    <3>1. ErrorIn(events[r]) => ErrorIn(es)
      BY <2>2 DEF ErrorIn
    <3> QED
      BY <1>1, <1>2, <1>10, <3>1 DEF Settles, HasFailed
  <2> HIDE DEF es
  <2>4. Tracks(n, es, <<Exit(r)>>, "returned", data[r])
    BY <1>10 DEF es
  <2> QED
    BY <1>1, <1>10, <2>2, <2>3, <2>4, CollectStep
<1>11. CASE r \in ToSet(Children[n]) /\ phase[r] = "threw" /\ Tracks(n, <<>>, <<>>, "threw", data[n])
  <2>1. Settles(n, <<>>, "threw", data[n])
    BY <1>1, <1>2, <1>11 DEF Settles
  <2> QED
    BY <1>1, <1>4, <1>5, <1>11, <2>1, QuietStep
<1> QED
  BY <1>6, <1>7, <1>8, <1>9, <1>10, <1>11 DEF Routes

LEMMA ChainSteps ==
  ASSUME FailuresInv, NEW n \in Nodes, ChainNode(n)
  PROVE  Steps(n)
<1>1. Kind[n] = "chain" /\ phase[n] = "running" /\ data[n] \in Handed /\ ScopesOK
  BY DEF ChainNode, Holds, FailuresInv, ScopesOK
<1>2. PICK i \in DOMAIN Children[n] :
        /\ \A j \in 1..i - 1 : Exit(Children[n][j]) \in ToSet(events[n])
        /\ \/ phase[Children[n][i]] = "idle" /\ CallsOut(n, <<Enter(Children[n][i])>>, <<>>, {Children[n][i]})
           \/ /\ phase[Children[n][i]] = "returned" /\ Exit(Children[n][i]) \notin ToSet(events[n])
              /\ Tracks(n, Append(events[Children[n][i]], Exit(Children[n][i])), <<>>,
                        IF i = Len(Children[n]) THEN "returned" ELSE "running", data[Children[n][i]])
           \/ phase[Children[n][i]] = "threw" /\ Tracks(n, <<>>, <<>>, "threw", data[n])
  BY DEF ChainNode
<1> DEFINE c == Children[n][i]
<1>3. c \in Nodes /\ c \in ToSet(Children[n]) /\ Wraps(n, c) /\ c # n /\ i \in Nat
  BY TreeFacts, TreesAssumption DEF Wraps, ToSet
<1>4. ASSUME NEW x \in ToSet(Children[n]), x # c
      PROVE  \/ phase[x] = "returned" /\ (ErrorIn(events[x]) => ErrorIn(events[n]))
             \/ Exit(c) \in ToSet(events[n])
             \/ phase[x] = "idle" /\ ~HasFailed(x)
  <2>1. PICK j \in DOMAIN Children[n] : x = Children[n][j]
    BY DEF ToSet
  <2>2. x \in Nodes /\ j \in Nat /\ j # i /\ j \in 1..Len(Children[n]) /\ Len(Children[n]) \in Nat
    BY <1>4, <2>1, TreeFacts
  <2>3. CASE j < i
    <3>1. j \in 1..i - 1
      BY <1>3, <2>2, <2>3
    <3> QED
      BY <1>2, <2>1, <2>2, <3>1 DEF FailuresInv, ExitsOK
  <2>4. CASE i < j
    <3>1. phase[x] # "idle" => Exit(c) \in ToSet(events[n])
      BY <1>1, <2>1, <2>4 DEF FailuresInv, ChainsOK
    <3> QED
      BY <2>2, <3>1, IdleClean
  <2> QED
    BY <1>3, <2>2, <2>3, <2>4
<1>5. Exit(c) \in ToSet(events[n]) => phase[c] = "returned"
  BY <1>3 DEF FailuresInv, ExitsOK
<1>6. CASE phase[c] = "idle" /\ CallsOut(n, <<Enter(c)>>, <<>>, {c})
  <2>1. <<Enter(c)>> \in Seq(Logged) /\ \A e \in ToSet(<<Enter(c)>>) : NoExit(e)
    BY <1>3, EventForms, Few DEF NoExit
  <2>2. Moves(n, <<Enter(c)>>, "running", data[n], {c})
    BY <1>1, <1>3, <1>6, CallsMove
  <2>3. ExitsFit(n, <<Enter(c)>>)
    BY <2>1, CollectFits
  <2>4. Calls(n, "running", data[n], {c})
    <3>1. ASSUME NEW k \in DOMAIN Children[n], NEW j \in DOMAIN Children[n], k < j, Children[n][j] \in {c}
          PROVE  Exit(Children[n][k]) \in ToSet(events[n])
      <4>1. j = i /\ k \in Nat /\ k >= 1
        BY <3>1, TreeFacts
      <4>2. k \in 1..i - 1
        BY <1>3, <3>1, <4>1
      <4> QED
        BY <1>2, <4>2
    <3> QED
      BY <1>1, <3>1 DEF Calls
  <2>5. Settles(n, <<Enter(c)>>, "running", data[n])
    BY <1>1 DEF Settles
  <2>6. Fits(n, <<Enter(c)>>, "running", data[n], {c})
    BY <1>1, <1>3, <1>6, <2>1, <2>3, <2>4, <2>5 DEF Fits
  <2>7. Hands(n, "running", data[n], {c})
    BY <1>1 DEF Hands, SameRoute
  <2> QED
    BY <2>2, <2>6, <2>7 DEF Steps
<1>7. CASE /\ phase[c] = "returned" /\ Exit(c) \notin ToSet(events[n])
           /\ Tracks(n, Append(events[c], Exit(c)), <<>>,
                     IF i = Len(Children[n]) THEN "returned" ELSE "running", data[c])
  <2> DEFINE es == Append(events[c], Exit(c))
             p  == IF i = Len(Children[n]) THEN "returned" ELSE "running"
  <2>1. events[c] \in Seq(Logged) /\ Exit(c) \in Logged
    BY <1>1, <1>3, EventForms DEF ScopesOK
  <2>2. es \in Seq(Logged) /\ ToSet(es) = ToSet(events[c]) \cup {Exit(c)}
    BY <2>1, Appended
  <2>3. p \in {"running", "returned"}
    OBVIOUS
  <2>4. Tracks(n, es, <<>>, p, data[c])
    BY <1>7
  <2> HIDE DEF es, p
  <2>5. ErrorIn(events[c]) => ErrorIn(es)
    BY <2>2 DEF ErrorIn
  <2>6. ASSUME NEW x \in ToSet(Children[n])
        PROVE  phase[x] # "running" /\ (HasFailed(x) => ErrorIn(events[n]) \/ ErrorIn(es))
    BY <1>4, <1>7, <2>5 DEF HasFailed
  <2>7. Settles(n, es, p, data[c])
    BY <1>1, <2>3, <2>6 DEF Settles
  <2>8. ToSet(events[c]) \subseteq ToSet(es) /\ \A e \in ToSet(es) : e \in ToSet(events[c]) \/ e = Exit(c)
    BY <2>2
  <2> HIDE DEF c
  <2> QED
    BY <1>1, <1>3, <1>7, <2>2, <2>3, <2>4, <2>7, <2>8, CollectStep
<1>8. CASE phase[c] = "threw" /\ Tracks(n, <<>>, <<>>, "threw", data[n])
  <2>1. \A x \in ToSet(Children[n]) : phase[x] # "running"
    BY <1>4, <1>5, <1>8
  <2>2. Settles(n, <<>>, "threw", data[n])
    BY <1>1, <2>1 DEF Settles
  <2>3. <<>> \in Seq(Logged) /\ \A e \in ToSet(<<>>) : NoExit(e)
    BY Few
  <2>4. Hands(n, "threw", data[n], {})
    BY <1>1 DEF Hands, SameRoute
  <2> QED
    BY <1>1, <1>8, <2>2, <2>3, <2>4, QuietStep
<1> QED
  BY <1>2, <1>6, <1>7, <1>8

(* A number that follows those before it is in every set they are in.       *)
LEMMA Onwards ==
  ASSUME NEW k \in Nat, NEW S, 0 \in S, \A i \in Nat : i \in S /\ i < k => i + 1 \in S
  PROVE  \A i \in 0..k : i \in S
<1> DEFINE R == OpToRel(<, Nat)
           Bad == {i \in 0..k : i \notin S}
<1>1. IsWellFoundedOn(R, Nat)
  BY NatLessThanWellFounded
<1>2. \A x, y \in Nat : x < y => <<x, y>> \in R
  BY DEF OpToRel
<1> HIDE DEF R
<1>3. ASSUME Bad # {} PROVE FALSE
  <2>1. Bad \subseteq Nat
    OBVIOUS
  <2> HIDE DEF Bad
  <2>2. PICK x \in Bad : \A y \in Bad : <<y, x>> \notin R
    BY <1>1, <1>3, <2>1, WFMin
  <2>3. x \in 0..k /\ x \notin S
    BY <2>2 DEF Bad
  <2>4. x - 1 \in Nat /\ x - 1 < x /\ x - 1 < k /\ x \in Nat
    BY <2>3
  <2>5. x - 1 \in S
    <3>1. <<x - 1, x>> \in R
      BY <1>2, <2>4
    <3>2. x - 1 \notin Bad
      BY <2>2, <3>1
    <3> QED
      BY <2>3, <2>4, <3>2 DEF Bad
  <2>6. x - 1 + 1 \in S
    BY <2>4, <2>5
  <2> QED
    BY <2>3, <2>6
<1> QED
  BY <1>3

(* Of places in a sequence some is the first and some the last.             *)
LEMMA FirstAndLast ==
  ASSUME NEW k \in Nat, NEW I, I \subseteq 1..k, I # {}
  PROVE  /\ \E x \in I : \A y \in I : x <= y
         /\ Max(I) \in I
<1>1. ASSUME \A x \in I : \E y \in I : y < x PROVE FALSE
  <2> DEFINE S == {j \in Nat : \A y \in I : y > j}
  <2>1. 0 \in S
    OBVIOUS
  <2>2. \A i \in Nat : i \in S /\ i < k => i + 1 \in S
    BY <1>1
  <2> HIDE DEF S
  <2>3. k \in S
    <3>1. \A i \in 0..k : i \in S
      BY <2>1, <2>2, Onwards
    <3> QED
      BY <3>1
  <2>4. PICK y \in I : y \in 1..k
    OBVIOUS
  <2> QED
    BY <2>3, <2>4 DEF S
<1>2. ASSUME \A x \in I : \E y \in I : x < y PROVE FALSE
  <2> DEFINE S == {j \in Nat : \A y \in I : y <= k - j}
  <2>1. 0 \in S
    OBVIOUS
  <2>2. \A i \in Nat : i \in S /\ i < k => i + 1 \in S
    BY <1>2
  <2> HIDE DEF S
  <2>3. k \in S
    <3>1. \A i \in 0..k : i \in S
      BY <2>1, <2>2, Onwards
    <3> QED
      BY <3>1
  <2>4. PICK y \in I : y \in 1..k
    OBVIOUS
  <2>5. y <= k - k
    BY <2>3, <2>4 DEF S
  <2> QED
    BY <2>4, <2>5
<1>3. \E x \in I : \A y \in I : x <= y
  BY <1>1
<1>4. \E x \in I : \A y \in I : x >= y
  BY <1>2
<1> QED
  BY <1>3, <1>4 DEF Max

(* FlattenSeq joins its parts one by one.                                   *)
LEMMA FlatSteps ==
  ASSUME NEW T, NEW k \in Nat, NEW f \in [1..k -> Seq(T)]
  PROVE  \E flat : /\ flat[0] = <<>> /\ FlattenSeq(f) = flat[k]
                   /\ \A m \in Nat : m < k => flat[m + 1] = flat[m] \o f[m + 1]
<1>1. f \in Seq(Seq(T)) /\ Len(f) = k /\ DOMAIN f = 1..k /\ \A i \in 1..k : f[i] \in Seq(T)
  OBVIOUS
<1>2. CASE k = 0
  <2> DEFINE nothing == [i \in {0} |-> <<>>]
  <2>1. FlattenSeq(f) = <<>>
    BY <1>1, <1>2 DEF FlattenSeq
  <2>2. nothing[0] = <<>>
    OBVIOUS
  <2> HIDE DEF nothing
  <2>3. nothing[0] = <<>> /\ FlattenSeq(f) = nothing[k]
    BY <1>2, <2>1, <2>2
  <2>4. \A m \in Nat : m < k => nothing[m + 1] = nothing[m] \o f[m + 1]
    BY <1>2
  <2> QED
    BY <2>3, <2>4
<1>3. CASE k # 0
  <2> DEFINE G(g, m) == g = [i \in 1..m |-> IF i = 1 THEN f[i] ELSE g[i - 1] \o f[i]]
             S == {m \in Nat : \E g : G(g, m)}
  <2>1. 0 \in S
    <3> DEFINE g == [i \in 1..0 |-> f[i]]
    <3>1. G(g, 0)
      OBVIOUS
    <3> QED
      BY <3>1
  <2>2. ASSUME NEW m \in Nat, m \in S PROVE m + 1 \in S
    <3>1. PICK g : G(g, m)
      BY <2>2
    <3> DEFINE h == [i \in 1..m + 1 |-> IF i <= m THEN g[i] ELSE IF i = 1 THEN f[i] ELSE g[m] \o f[i]]
    <3>2. ASSUME NEW i \in 1..m + 1 PROVE h[i] = IF i = 1 THEN f[i] ELSE h[i - 1] \o f[i]
      <4>1. CASE i = m + 1
        BY <4>1
      <4>2. CASE i # m + 1 /\ i = 1
        BY <3>1, <4>2
      <4>3. CASE i # m + 1 /\ i # 1
        <5>1. i \in 1..m /\ i - 1 \in 1..m /\ i - 1 \in 1..m + 1 /\ i \in 1..m + 1
          BY <4>3
        <5>2. g[i] = g[i - 1] \o f[i]
          BY <3>1, <4>3, <5>1
        <5>3. h[i] = g[i] /\ h[i - 1] = g[i - 1]
          BY <5>1
        <5> QED
          BY <4>3, <5>2, <5>3
      <4> QED
        BY <4>1, <4>2, <4>3
    <3>3. G(h, m + 1)
      BY <3>2
    <3> HIDE DEF h, G
    <3> QED
      BY <3>3
  <2> HIDE DEF S
  <2>3. k \in S
    <3>1. \A i \in Nat : i \in S /\ i < k => i + 1 \in S
      BY <2>2
    <3>2. \A i \in 0..k : i \in S
      BY <2>1, <3>1, Onwards
    <3> QED
      BY <3>2
  <2> DEFINE part == CHOOSE g : G(g, k)
  <2>4. G(part, k)
    BY <2>3 DEF S
  <2>5. FlattenSeq(f) = part[k]
    BY <1>1, <1>3 DEF FlattenSeq
  <2> HIDE DEF part
  <2>6. \A i \in 1..k : part[i] = IF i = 1 THEN f[i] ELSE part[i - 1] \o f[i]
    BY <2>4
  <2> DEFINE flat == [i \in 0..k |-> IF i = 0 THEN <<>> ELSE part[i]]
  <2>7. flat[0] = <<>> /\ flat[k] = part[k] /\ \A i \in 1..k : flat[i] = part[i]
    BY <1>3
  <2> HIDE DEF flat, G
  <2>8. ASSUME NEW m \in Nat, m < k PROVE flat[m + 1] = flat[m] \o f[m + 1]
    <3>1. m + 1 \in 1..k /\ (m + 1) - 1 = m
      BY <2>8
    <3>2. CASE m = 0
      <4>1. flat[m + 1] = f[m + 1] /\ f[m + 1] \in Seq(T) /\ flat[m] = <<>>
        BY <1>1, <2>6, <2>7, <3>1, <3>2
      <4>2. <<>> \o f[m + 1] = f[m + 1]
        BY <4>1
      <4> QED
        BY <4>1, <4>2
    <3>3. CASE m # 0
      <4>1. m \in 1..k /\ m + 1 # 1
        BY <2>8, <3>3
      <4>2. part[m + 1] = part[m] \o f[m + 1]
        BY <2>6, <3>1, <4>1
      <4> QED
        BY <2>7, <3>1, <4>1, <4>2
    <3> QED
      BY <3>2, <3>3
  <2> QED
    BY <2>5, <2>7, <2>8
<1> QED
  BY <1>2, <1>3

(* So it holds what they hold.                                              *)
LEMMA FlatMembers ==
  ASSUME NEW T, NEW k \in Nat, NEW f \in [1..k -> Seq(T)]
  PROVE  /\ FlattenSeq(f) \in Seq(T)
         /\ \A e : e \in ToSet(FlattenSeq(f)) <=> \E i \in 1..k : e \in ToSet(f[i])
<1>1. PICK flat : /\ flat[0] = <<>> /\ FlattenSeq(f) = flat[k]
                  /\ \A m \in Nat : m < k => flat[m + 1] = flat[m] \o f[m + 1]
  BY ZenonT(30), FlatSteps
<1> DEFINE Good(m) == /\ flat[m] \in Seq(T)
                      /\ \A e : e \in ToSet(flat[m]) <=> \E i \in 1..m : e \in ToSet(f[i])
           S == {m \in Nat : m <= k => Good(m)}
<1>2. 0 \in S
  <2>1. <<>> \in Seq(T) /\ ToSet(<<>>) = {} /\ 1..0 = {}
    BY Few
  <2> QED
    BY <1>1, <2>1
<1>3. ASSUME NEW m \in Nat, m \in S, m < k PROVE m + 1 \in S
  <2>1. m <= k /\ m + 1 \in 1..k /\ f[m + 1] \in Seq(T) /\ \A i : i \in 1..m + 1 <=> i \in 1..m \/ i = m + 1
    BY <1>3
  <2>2. Good(m)
    <3> HIDE DEF Good
    <3> QED
      BY <1>3, <2>1
  <2>3. flat[m + 1] = flat[m] \o f[m + 1]
    BY <1>1, <1>3
  <2>4. flat[m + 1] \in Seq(T) /\ ToSet(flat[m + 1]) = ToSet(flat[m]) \cup ToSet(f[m + 1])
    BY <2>1, <2>2, <2>3, Joined
  <2>5. Good(m + 1)
    BY <2>1, <2>2, <2>4
  <2> HIDE DEF Good
  <2> QED
    BY <2>5
<1>4. Good(k)
  <2>1. \A i \in Nat : i \in S /\ i < k => i + 1 \in S
    BY <1>3
  <2> HIDE DEF S
  <2>2. \A i \in 0..k : i \in S
    BY <1>2, <2>1, Onwards
  <2>3. k \in S
    BY <2>2
  <2> USE DEF S
  <2> HIDE DEF Good
  <2> QED
    BY <2>3
<1> QED
  BY <1>1, <1>4

(* A filter keeps or drops its events one by one.                           *)
LEMMA WithoutSteps ==
  ASSUME NEW T, NEW es \in Seq(T), NEW D
  PROVE  \E kept : /\ kept[0] = <<>> /\ Without(es, D) = kept[Len(es)]
                   /\ \A i \in 1..Len(es) : kept[i] = IF es[i] \in D THEN kept[i - 1] ELSE Append(kept[i - 1], es[i])
<1> DEFINE k == Len(es)
           G(g, m) == g = [i \in 0..m |-> IF i = 0 THEN <<>> ELSE IF es[i] \in D THEN g[i - 1] ELSE Append(g[i - 1], es[i])]
           S == {m \in Nat : \E g : G(g, m)}
<1>1. k \in Nat
  OBVIOUS
<1>2. 0 \in S
  <2> DEFINE g == [i \in 0..0 |-> <<>>]
  <2>1. G(g, 0)
    OBVIOUS
  <2> QED
    BY <2>1
<1>3. ASSUME NEW m \in Nat, m \in S PROVE m + 1 \in S
  <2>1. PICK g : G(g, m)
    BY <1>3
  <2> DEFINE h == [i \in 0..m + 1 |-> IF i <= m THEN g[i] ELSE IF es[i] \in D THEN g[m] ELSE Append(g[m], es[i])]
  <2>2. ASSUME NEW i \in 0..m + 1
        PROVE h[i] = IF i = 0 THEN <<>> ELSE IF es[i] \in D THEN h[i - 1] ELSE Append(h[i - 1], es[i])
    <3>1. CASE i = m + 1
      BY <3>1
    <3>2. CASE i = 0
      BY <2>1, <3>2
    <3>3. CASE i # m + 1 /\ i # 0
      <4>1. i \in 0..m /\ i - 1 \in 0..m /\ i - 1 \in 0..m + 1
        BY <3>3
      <4>2. g[i] = IF es[i] \in D THEN g[i - 1] ELSE Append(g[i - 1], es[i])
        BY <2>1, <3>3, <4>1
      <4>3. h[i] = g[i] /\ h[i - 1] = g[i - 1]
        BY <4>1
      <4> QED
        BY <3>3, <4>2, <4>3
    <3> QED
      BY <3>1, <3>2, <3>3
  <2>3. G(h, m + 1)
    BY <2>2
  <2> HIDE DEF h, G
  <2> QED
    BY <2>3
<1> HIDE DEF S, k
<1>4. k \in S
  <2>1. \A i \in Nat : i \in S /\ i < k => i + 1 \in S
    BY <1>3
  <2>2. \A i \in 0..k : i \in S
    BY <1>1, <1>2, <2>1, Onwards
  <2> QED
    BY <1>1, <2>2
<1> DEFINE kept == CHOOSE g : G(g, k)
<1>5. G(kept, k)
  BY <1>4 DEF S
<1>6. Without(es, D) = kept[k]
  BY DEF Without, k
<1> HIDE DEF kept
<1>7. \A i \in 0..k : kept[i] = IF i = 0 THEN <<>> ELSE IF es[i] \in D THEN kept[i - 1] ELSE Append(kept[i - 1], es[i])
  BY <1>5
<1>8. kept[0] = <<>> /\ \A i \in 1..k : kept[i] = IF es[i] \in D THEN kept[i - 1] ELSE Append(kept[i - 1], es[i])
  BY <1>1, <1>7
<1> QED
  BY <1>6, <1>8 DEF k

(* Without leaves out what it is told to.                                   *)
LEMMA WithoutMembers ==
  ASSUME NEW T, NEW es \in Seq(T), NEW D
  PROVE  Without(es, D) \in Seq(T) /\ ToSet(Without(es, D)) = ToSet(es) \ D
<1> DEFINE k == Len(es)
<1>1. k \in Nat /\ DOMAIN es = 1..k /\ \A i \in 1..k : es[i] \in T
  OBVIOUS
<1>2. PICK kept : /\ kept[0] = <<>> /\ Without(es, D) = kept[k]
                  /\ \A i \in 1..k : kept[i] = IF es[i] \in D THEN kept[i - 1] ELSE Append(kept[i - 1], es[i])
  BY SMTT(30), WithoutSteps
<1> HIDE DEF k
<1> DEFINE Good(m) == /\ kept[m] \in Seq(T)
                      /\ \A e : e \in ToSet(kept[m]) <=> e \notin D /\ \E i \in 1..m : e = es[i]
           Q == {m \in Nat : Good(m)}
<1>3. 0 \in Q
  <2>1. kept[0] = <<>> /\ 1..0 = {}
    BY <1>2
  <2> QED
    BY <2>1, Few
<1>4. ASSUME NEW m \in Nat, m \in Q, m < k PROVE m + 1 \in Q
  <2>1. m + 1 \in 0..k /\ m + 1 \in 1..k /\ m + 1 # 0 /\ (m + 1) - 1 = m
    BY <1>1, <1>4
  <2>2. kept[m + 1] = (IF es[m + 1] \in D THEN kept[m] ELSE Append(kept[m], es[m + 1])) /\ es[m + 1] \in T
    BY <1>1, <1>2, <2>1
  <2>3. \A i : i \in 1..m + 1 <=> i \in 1..m \/ i = m + 1
    BY <1>4
  <2>4. CASE es[m + 1] \in D
    BY <1>4, <2>2, <2>3, <2>4
  <2>5. CASE es[m + 1] \notin D
    <3>1. kept[m + 1] \in Seq(T) /\ ToSet(kept[m + 1]) = ToSet(kept[m]) \cup {es[m + 1]}
      BY <1>4, <2>2, <2>5, Appended
    <3> QED
      BY <1>4, <2>3, <2>5, <3>1
  <2> QED
    BY <2>4, <2>5
<1>5. k \in Q
  <2> HIDE DEF Q
  <2> QED
    BY <1>1, <1>3, <1>4, Onwards
<1>6. \A e : e \in ToSet(es) <=> \E i \in 1..k : e = es[i]
  BY <1>1 DEF ToSet
<1> QED
  BY <1>2, <1>5, <1>6

LEMMA Bracketed ==
  ASSUME ScopesOK, NEW c \in Nodes, NEW es, es = <<Enter(c)>> \o events[c] \o <<Exit(c)>>
  PROVE  es \in Seq(Logged) /\ ToSet(es) = {Enter(c)} \cup ToSet(events[c]) \cup {Exit(c)}
<1> DEFINE s == <<Enter(c)>>
           t == <<Exit(c)>>
           u == s \o events[c]
<1>1. events[c] \in Seq(Logged) /\ Enter(c) \in Logged /\ Exit(c) \in Logged
  BY EventForms DEF ScopesOK
<1>2. s \in Seq(Logged) /\ ToSet(s) = {Enter(c)} /\ t \in Seq(Logged) /\ ToSet(t) = {Exit(c)}
  BY <1>1, Few
<1>3. es = u \o t /\ u = s \o events[c]
  OBVIOUS
<1> HIDE DEF s, t, u
<1>4. u \in Seq(Logged) /\ ToSet(u) = ToSet(s) \cup ToSet(events[c])
  BY <1>1, <1>2, <1>3, Joined
<1>5. es \in Seq(Logged) /\ ToSet(es) = ToSet(u) \cup ToSet(t)
  <2>1. u \o t \in Seq(Logged) /\ ToSet(u \o t) = ToSet(u) \cup ToSet(t)
    BY <1>2, <1>4, Joined
  <2> QED
    BY <1>3, <2>1, Zenon
<1> QED
  BY <1>2, <1>4, <1>5

(* A step that calls and tracks no exit.                                    *)
LEMMA CallStep ==
  ASSUME FailuresInv, NEW n \in Nodes, phase[n] = "running", Kind[n] \in {"parallel", "guardrail", "references"},
         NEW es \in Seq(Logged), NEW loud, \A e \in ToSet(es) : NoExit(e),
         NEW cs \in SUBSET ToSet(Children[n]), \A c \in cs : phase[c] = "idle", CallsOut(n, es, loud, cs)
  PROVE  Steps(n)
<1>1. n \notin cs /\ ScopesOK /\ data[n] \in Handed
  BY DEF FailuresInv, ScopesOK
<1>2. Moves(n, es, "running", data[n], cs)
  BY <1>1, CallsMove
<1>3. ExitsFit(n, es)
  BY CollectFits
<1>4. Fits(n, es, "running", data[n], cs)
  BY <1>1, <1>3 DEF Fits, Calls, Settles
<1>5. Hands(n, "running", data[n], cs)
  BY DEF Hands, SameRoute
<1> QED
  BY <1>2, <1>4, <1>5 DEF Steps

(* What a branch leaves and what its parent makes of all of them.           *)
Told(n, i)    == phase[Children[n][i]] = "threw" /\ \E j \in 1..i - 1 : phase[Children[n][j]] = "threw"
NoneBack(n)   == \A c \in ToSet(Children[n]) : phase[c] = "threw"
Branch(n, i)  == IF Told(n, i) THEN <<>> ELSE BranchEvents(n, Children[n][i], NoneBack(n))
Branches(n)   == FlattenSeq([i \in DOMAIN Children[n] |-> Branch(n, i)])
BranchLoud(n) == FlattenSeq([i \in DOMAIN Children[n] |->
                   IF phase[Children[n][i]] = "returned" THEN <<Enter(Children[n][i]), Exit(Children[n][i])>>
                   ELSE Branch(n, i)])

LEMMA SpreadSameRoute ==
  ASSUME FailuresInv, NEW n \in Nodes, phase[n] = "running"
  PROVE  /\ Spread(n, Children[n]) \in Handed
         /\ \E m \in Nodes : phase[m] # "idle" /\ SameRoute(Spread(n, Children[n]), data[m])
<1> DEFINE k        == Len(Children[n])
           back     == {i \in DOMAIN Children[n] : phase[Children[n][i]] = "returned"}
           answered == {i \in back : data[Children[n][i]].response # 0}
           Of(I)    == IF I = {} THEN data[n] ELSE data[Children[n][Max(I)]]
<1>1. k \in Nat /\ DOMAIN Children[n] = 1..k /\ \A i \in 1..k : Children[n][i] \in Nodes
  BY TreeFacts DEF Wraps
<1>2. back \subseteq 1..k /\ answered \subseteq 1..k /\ answered \subseteq back
  BY <1>1
<1>3. \A i \in back : phase[Children[n][i]] = "returned"
  OBVIOUS
<1>4. Spread(n, Children[n]) = [Of(back) EXCEPT !.response = Of(answered).response]
  BY DEF Spread
<1> HIDE DEF k, back, answered
<1>5. ASSUME NEW I \in SUBSET back PROVE \E m \in Nodes : phase[m] # "idle" /\ Of(I) = data[m]
  <2>1. CASE I = {}
    BY <2>1
  <2>2. CASE I # {}
    <3>1. Max(I) \in I
      BY <1>1, <1>2, <2>2, FirstAndLast
    <3>2. Children[n][Max(I)] \in Nodes /\ phase[Children[n][Max(I)]] = "returned"
      BY <1>1, <1>2, <1>3, <3>1
    <3> QED
      BY <2>2, <3>2
  <2> QED
    BY <2>1, <2>2
<1>6. PICK m \in Nodes : phase[m] # "idle" /\ Of(back) = data[m]
  BY <1>5
<1>7. PICK x \in Nodes : Of(answered) = data[x]
  BY <1>2, <1>5
<1>8. data[m] \in Handed /\ data[x] \in Handed
  BY DEF FailuresInv, ScopesOK
<1>9. Spread(n, Children[n]) = [data[m] EXCEPT !.response = data[x].response]
  BY <1>4, <1>6, <1>7
<1>10. Spread(n, Children[n]) \in Handed /\ SameRoute(Spread(n, Children[n]), data[m])
  BY <1>8, <1>9 DEF Handed, SameRoute
<1> QED
  BY <1>6, <1>10

LEMMA ParallelSteps ==
  ASSUME FailuresInv, NEW n \in Nodes, Parallel(n)
  PROVE  Steps(n)
<1>1. Kind[n] = "parallel" /\ phase[n] = "running" /\ ScopesOK
  BY DEF Parallel, Holds, FailuresInv
<1>2. \/ (\A c \in ToSet(Children[n]) : phase[c] = "idle") /\ CallsOut(n, <<>>, <<>>, ToSet(Children[n]))
      \/ /\ \A c \in ToSet(Children[n]) : Settled(c)
         /\ Tracks(n, Branches(n), BranchLoud(n), "returned", Spread(n, Children[n]))
  BY DEF Parallel, Branches, BranchLoud, Branch, Told, NoneBack, AllSettled
<1>3. CASE (\A c \in ToSet(Children[n]) : phase[c] = "idle") /\ CallsOut(n, <<>>, <<>>, ToSet(Children[n]))
  <2>1. <<>> \in Seq(Logged) /\ \A e \in ToSet(<<>>) : NoExit(e)
    BY Few
  <2> QED
    BY <1>1, <1>3, <2>1, CallStep
<1>4. CASE /\ \A c \in ToSet(Children[n]) : Settled(c)
           /\ Tracks(n, Branches(n), BranchLoud(n), "returned", Spread(n, Children[n]))
  <2> DEFINE k == Len(Children[n])
             f == [i \in DOMAIN Children[n] |-> Branch(n, i)]
  <2>1. k \in Nat /\ DOMAIN Children[n] = 1..k /\ \A i \in 1..k : i \in Nat /\ Children[n][i] \in Nodes
        /\ Children[n][i] \in ToSet(Children[n]) /\ Children[n][i] \notin ToSet(Top)
    BY TreeFacts DEF Wraps
  <2>2. ASSUME NEW i \in 1..k, phase[Children[n][i]] = "returned"
        PROVE  /\ Branch(n, i) \in Seq(Logged)
               /\ ToSet(Branch(n, i)) = {Enter(Children[n][i])} \cup ToSet(events[Children[n][i]]) \cup {Exit(Children[n][i])}
    <3>1. Branch(n, i) = <<Enter(Children[n][i])>> \o events[Children[n][i]] \o <<Exit(Children[n][i])>>
      BY <2>2 DEF Branch, Told, BranchEvents
    <3> QED
      BY <1>1, <2>1, <3>1, Bracketed
  <2>3. ASSUME NEW i \in 1..k, phase[Children[n][i]] # "returned"
        PROVE  /\ Branch(n, i) \in Seq(Logged)
               /\ \A e \in ToSet(Branch(n, i)) : NoExit(e)
               /\ ~Told(n, i) => ErrorIn(Branch(n, i))
    <3>1. PICK v \in Severities : Branch(n, i) = IF Told(n, i) THEN <<>> ELSE <<Error(n, v)>>
      BY <2>3 DEF Branch, BranchEvents, Severities
    <3>2. Error(n, v) \in Logged /\ Error(n, v).type = "error" /\ NoExit(Error(n, v))
      BY EventForms DEF NoExit
    <3> QED
      BY <3>1, <3>2, Few DEF ErrorIn
  <2>4. f \in [1..k -> Seq(Logged)]
    BY <2>1, <2>2, <2>3
  <2>5. \A i \in 1..k : f[i] = Branch(n, i)
    BY <2>1
  <2>6. Branches(n) = FlattenSeq(f)
    BY DEF Branches
  <2> HIDE DEF f, k
  <2>7. /\ Branches(n) \in Seq(Logged)
        /\ \A e : e \in ToSet(Branches(n)) <=> \E i \in 1..k : e \in ToSet(Branch(n, i))
    BY <2>1, <2>4, <2>5, <2>6, FlatMembers
  <2>8. ASSUME NEW i \in 1..k, phase[Children[n][i]] = "returned"
        PROVE  ToSet(events[Children[n][i]]) \subseteq ToSet(Branches(n))
    BY <2>2, <2>7, <2>8
  <2>9. ExitsFit(n, Branches(n))
    <3>1. ASSUME NEW e \in ToSet(Branches(n)) PROVE NoExit(e) \/ \E c \in Nodes : CameWith(e, c, Branches(n))
      <4>1. PICK i \in 1..k : e \in ToSet(Branch(n, i))
        BY <2>7
      <4>2. CASE phase[Children[n][i]] = "returned"
        <5>1. NoExit(Enter(Children[n][i]))
          BY <2>1, EventForms DEF NoExit
        <5> QED
          BY <2>1, <2>2, <2>8, <4>1, <4>2, <5>1 DEF CameWith
      <4>3. CASE phase[Children[n][i]] # "returned"
        BY <2>3, <4>1, <4>3
      <4> QED
        BY <4>2, <4>3
    <3> QED
      BY <3>1, CollectFits
  <2>10. ASSUME NEW c \in ToSet(Children[n]), HasFailed(c) PROVE ErrorIn(Branches(n))
    <3>1. PICK i \in 1..k : c = Children[n][i]
      BY <2>1 DEF ToSet
    <3>2. CASE phase[c] = "returned"
      BY <2>8, <2>10, <3>1, <3>2 DEF HasFailed, ErrorIn
    <3>3. CASE phase[c] = "threw"
      <4> DEFINE I == {j \in 1..k : phase[Children[n][j]] = "threw"}
      <4>1. PICK x \in I : \A y \in I : x <= y
        <5>1. I \subseteq 1..k /\ I # {}
          BY <3>1, <3>3
        <5> HIDE DEF I
        <5> QED
          BY <2>1, <5>1, FirstAndLast
      <4>2. ~Told(n, x)
        BY <2>1, <4>1 DEF Told
      <4>3. ErrorIn(Branch(n, x))
        BY <2>3, <4>1, <4>2
      <4> QED
        BY <2>7, <4>1, <4>3 DEF ErrorIn
    <3> QED
      BY <1>4, <3>2, <3>3 DEF Settled
  <2>11. Settles(n, Branches(n), "returned", Spread(n, Children[n]))
    BY <1>1, <1>4, <2>10 DEF Settles, Settled
  <2>12. /\ Spread(n, Children[n]) \in Handed
         /\ Hands(n, "returned", Spread(n, Children[n]), {})
    BY <1>1, SpreadSameRoute DEF Hands
  <2>13. Fits(n, Branches(n), "returned", Spread(n, Children[n]), {})
    BY <1>1, <2>7, <2>9, <2>11, <2>12 DEF Fits, Calls
  <2>14. Moves(n, Branches(n), "returned", Spread(n, Children[n]), {})
    BY <1>1, <1>4, TracksMoves
  <2> QED
    BY <2>12, <2>13, <2>14 DEF Steps
<1> QED
  BY <1>2, <1>3, <1>4

LEMMA OneChild ==
  ASSUME NEW n \in Nodes, Kind[n] \in {"guardrail", "references", "hook"}
  PROVE  /\ Head(Children[n]) \in Nodes /\ Head(Children[n]) # n /\ Head(Children[n]) \in ToSet(Children[n])
         /\ \A c \in ToSet(Children[n]) : c = Head(Children[n])
<1>1. Children[n] \in Seq(Nodes) /\ Len(Children[n]) = 1
  BY TreesAssumption
<1>2. Head(Children[n]) = Children[n][1] /\ DOMAIN Children[n] = {1}
  BY <1>1
<1> QED
  BY <1>2, TreeFacts DEF ToSet, Wraps

LEMMA BeforeSteps ==
  ASSUME FailuresInv, NEW n \in Nodes, Before(n)
  PROVE  Steps(n)
<1> DEFINE c == Head(Children[n])
<1>1. Kind[n] \in {"guardrail", "references", "hook"} /\ phase[n] = "running" /\ phase[c] = "idle"
      /\ data[n] \in Handed /\ ScopesOK
  BY DEF Before, FailuresInv, ScopesOK
<1>2. c \in Nodes /\ c # n /\ c \in ToSet(Children[n]) /\ \A x \in ToSet(Children[n]) : x = c
  BY <1>1, OneChild
<1> HIDE DEF c
<1>3. ~HasFailed(c) /\ events[c] = <<>>
  BY <1>1, <1>2, IdleClean DEF ScopesOK
<1>4. ASSUME NEW es, NEW d PROVE Settles(n, es, "returned", d)
  BY <1>1, <1>2, <1>3 DEF Settles
<1>5. Hands(n, "returned", data[n], {}) /\ Hands(n, "returned", data[n], {c})
  BY <1>1 DEF Hands, SameRoute
<1>6. ASSUME NEW s \in Severities, Returns(n, <<Error(n, s)>>, data[n]) PROVE Steps(n)
  <2>1. <<Error(n, s)>> \in Seq(Logged) /\ \A e \in ToSet(<<Error(n, s)>>) : NoExit(e)
    BY EventForms, Few DEF NoExit
  <2> QED
    BY <1>1, <1>4, <1>5, <1>6, <2>1, QuietStep DEF Returns
<1>7. "none" \in Severities /\ "irrecoverable" \in Severities
  BY DEF Severities
<1>8. {c} \in SUBSET ToSet(Children[n]) /\ \A x \in {c} : phase[x] = "idle"
  BY <1>1, <1>2
<1>9. CASE Kind[n] = "guardrail" /\ CallsOut(n, <<>>, <<>>, {c})
  <2>1. <<>> \in Seq(Logged) /\ \A e \in ToSet(<<>>) : NoExit(e)
    BY Few
  <2> QED
    BY <1>1, <1>8, <1>9, <2>1, CallStep
<1>10. CASE Kind[n] = "references" /\ CallsOut(n, <<Content(n)>>, <<Content(n)>>, {c})
  <2>1. <<Content(n)>> \in Seq(Logged) /\ \A e \in ToSet(<<Content(n)>>) : NoExit(e)
    BY EventForms, Few DEF NoExit
  <2> QED
    BY <1>1, <1>8, <1>10, <2>1, CallStep
<1>11. CASE /\ Kind[n] = "hook"
            /\ phase' = [phase EXCEPT ![n] = "returned", ![c] = "running"]
            /\ data' = [data EXCEPT ![c] = data[n]]
            /\ UNCHANGED <<events, heard, emitted, chain>>
  <2>1. events[n] \o <<>> = events[n] /\ <<>> \in Seq(Logged)
    BY <1>1, Few DEF ScopesOK
  <2>2. Moves(n, <<>>, "returned", data[n], {c})
    BY <1>1, <1>2, <1>3, <1>11, <2>1 DEF Moves, ScopesOK
  <2>3. ExitsFit(n, <<>>) /\ Calls(n, "returned", data[n], {c})
    BY <1>11, Few DEF ExitsFit, Calls
  <2>4. Fits(n, <<>>, "returned", data[n], {c})
    BY <1>1, <1>4, <1>8, <2>1, <2>3 DEF Fits
  <2> QED
    BY <1>5, <2>2, <2>4 DEF Steps
<1> QED
  BY <1>6, <1>7, <1>9, <1>10, <1>11 DEF Before, c

LEMMA AfterSteps ==
  ASSUME FailuresInv, NEW n \in Nodes, After(n)
  PROVE  Steps(n)
<1> DEFINE c    == Head(Children[n])
           mine == <<Enter(c)>> \o events[c] \o <<Exit(c)>>
           warn == <<Error(n, "none")>>
<1>1. Kind[n] \in {"guardrail", "references"} /\ phase[n] = "running" /\ data[n] \in Handed /\ ScopesOK
  BY DEF After, FailuresInv, ScopesOK
<1>2. \/ phase[c] = "returned" /\ Tracks(n, mine, <<>>, "returned", data[c])
      \/ phase[c] = "returned" /\ Tracks(n, mine \o warn, warn, "returned", data[c])
      \/ phase[c] = "threw" /\ Returns(n, warn, data[n])
  BY DEF After
<1>3. c \in Nodes /\ c \in ToSet(Children[n]) /\ \A x \in ToSet(Children[n]) : x = c
  BY <1>1, OneChild
<1> HIDE DEF c
<1>4. warn \in Seq(Logged) /\ ToSet(warn) = {Error(n, "none")} /\ ErrorIn(warn) /\ \A e \in ToSet(warn) : NoExit(e)
  <2>1. "none" \in Severities
    BY DEF Severities
  <2>2. Error(n, "none") \in Logged /\ Error(n, "none").type = "error" /\ NoExit(Error(n, "none"))
    BY <2>1, EventForms DEF NoExit
  <2> QED
    BY <2>2, Few DEF ErrorIn
<1>5. mine \in Seq(Logged) /\ ToSet(mine) = {Enter(c)} \cup ToSet(events[c]) \cup {Exit(c)}
  BY <1>1, <1>3, Bracketed
<1> HIDE DEF mine, warn
<1>6. mine \o warn \in Seq(Logged) /\ ToSet(mine \o warn) = ToSet(mine) \cup ToSet(warn)
  BY <1>4, <1>5, Joined
<1>7. NoExit(Enter(c))
  BY <1>3, EventForms DEF NoExit
<1>8. ASSUME NEW es \in Seq(Logged), NEW loud, phase[c] = "returned", Tracks(n, es, loud, "returned", data[c]),
             ToSet(mine) \subseteq ToSet(es), ToSet(es) \subseteq ToSet(mine) \cup ToSet(warn)
      PROVE  Steps(n)
  <2>1. ToSet(events[c]) \subseteq ToSet(es)
        /\ \A e \in ToSet(es) : e \in ToSet(events[c]) \/ e = Exit(c) \/ NoExit(e)
    BY <1>4, <1>5, <1>7, <1>8
  <2>2. Settles(n, es, "returned", data[c])
    <3>1. ErrorIn(events[c]) => ErrorIn(es)
      BY <2>1 DEF ErrorIn
    <3> QED
      BY <1>1, <1>3, <1>8, <3>1 DEF Settles, HasFailed
  <2> QED
    BY <1>1, <1>3, <1>8, <2>1, <2>2, CollectStep
<1>9. CASE phase[c] = "threw" /\ Returns(n, warn, data[n])
  <2>1. Settles(n, warn, "returned", data[n])
    BY <1>1, <1>3, <1>4, <1>9 DEF Settles
  <2>2. Hands(n, "returned", data[n], {})
    BY <1>1 DEF Hands, SameRoute
  <2> QED
    BY <1>1, <1>4, <1>9, <2>1, <2>2, QuietStep DEF Returns
<1> QED
  BY <1>2, <1>5, <1>6, <1>8, <1>9

LEMMA PatternsStep ==
  ASSUME FailuresInv, PatternStep
  PROVE  \E n \in Nodes : Steps(n)
BY LeafSteps, RouterSteps, RoutesSteps, ChainSteps, ParallelSteps, BeforeSteps, AfterSteps, SynthesizeSteps
   DEF PatternStep


-----------------------------------------------------------------------------
LEMMA HarnessStarts == HarnessInit => HarnessInv
<1> SUFFICES ASSUME HarnessInit PROVE HarnessInv
  OBVIOUS
<1> USE DEF HarnessInit
<1>1. /\ \A n \in Nodes : phase[n] = "idle" /\ events[n] = <<>> /\ data[n] = NoData /\ ~ErrorIn(events[n])
      /\ ~ErrorIn(log) /\ NoData \in Handed /\ NoData.route = "none" /\ <<>> \in Seq(Logged)
  BY Few DEF ErrorIn, NoData, Handed
<1>2. ScopesOK
  BY <1>1, TreeFacts DEF ScopesOK
<1>3. TopsInOrder
  BY <1>1, TreeFacts DEF TopsInOrder
<1>4. CallsOK /\ ExitsOK /\ ChainsOK /\ AnswersOK
  BY <1>1, Few, TreeFacts DEF CallsOK, ExitsOK, ChainsOK, AnswersOK, HasFailed, Wraps
<1>5. RoutesInv
  BY <1>1 DEF RoutesInv, RouteHere
<1> QED
  BY <1>2, <1>3, <1>4, <1>5 DEF HarnessInv, FailuresInv

LEMMA StartKeeps ==
  ASSUME FailuresInv, StartTurn
  PROVE  FailuresInv' /\ (RoutesInv => RoutesInv')
<1> USE DEF StartTurn
<1>1. /\ \A n \in Nodes : phase'[n] = "idle" /\ events'[n] = <<>> /\ ~ErrorIn(events'[n])
      /\ NoData \in Handed /\ <<>> \in Seq(Logged) /\ <<User>> \in Seq(Logged)
  BY Few, EventForms DEF ErrorIn, NoData, Handed
<1>2. turn \in Nat /\ current' \in Handed /\ current'.route = current.route
  BY DEF FailuresInv, ScopesOK, Handed
<1>3. ScopesOK'
  BY <1>1, <1>2, TreeFacts DEF ScopesOK
<1>4. TopsInOrder'
  BY <1>1, TreeFacts DEF TopsInOrder
<1>5. CallsOK' /\ ExitsOK' /\ ChainsOK' /\ AnswersOK'
  <2>1. CallsOK'
    BY <1>1 DEF CallsOK, HasFailed
  <2>2. ExitsOK'
    BY <1>1, Few DEF ExitsOK, Exit, Ev
  <2>3. ChainsOK'
    BY <1>1, TreeFacts DEF ChainsOK, Wraps
  <2>4. AnswersOK'
    BY <1>1 DEF AnswersOK
  <2> QED
    BY <2>1, <2>2, <2>3, <2>4
<1>6. RoutesInv => RoutesInv'
  BY <1>1, <1>2 DEF RoutesInv, RouteHere, Routed, Wraps
<1> QED
  BY <1>3, <1>4, <1>5, <1>6 DEF FailuresInv

LEMMA EnterKeeps ==
  ASSUME FailuresInv, EnterTop
  PROVE  FailuresInv' /\ (RoutesInv => RoutesInv')
<1> DEFINE p == Top[pos]
<1>1. /\ pos \in DOMAIN Top /\ status = "running" /\ phase[p] = "idle" /\ log' = Append(log, Enter(p))
      /\ phase' = [phase EXCEPT ![p] = "running"] /\ data' = [data EXCEPT ![p] = current]
      /\ UNCHANGED <<events, current, status, pos, turn>>
  BY DEF EnterTop
<1>2. /\ p \in Nodes /\ p \in ToSet(Top) /\ ScopesOK /\ TopsInOrder /\ CallsOK /\ ExitsOK /\ ChainsOK /\ AnswersOK
      /\ pos \in Nat /\ pos >= 1
  BY <1>1, TreeFacts DEF FailuresInv
<1>3. \A i \in DOMAIN Top : Top[i] \in Nodes /\ i \in Nat /\ (Top[i] = p => i = pos)
  BY <1>1, TreeFacts
<1> HIDE DEF p
<1>4. \A x \in Nodes : /\ phase'[x] = (IF x = p THEN "running" ELSE phase[x])
                       /\ data'[x] = (IF x = p THEN current ELSE data[x])
                       /\ events'[x] = events[x]
                       /\ x # p => (HasFailed(x)' <=> HasFailed(x))
  BY <1>1, <1>2 DEF ScopesOK, HasFailed, ErrorIn
<1>5. \A m, c \in Nodes : Wraps(m, c) => c # p
  BY <1>2, TreeFacts DEF Wraps
<1>6. log' \in Seq(Logged) /\ (ErrorIn(log) => ErrorIn(log'))
  BY <1>1, <1>2, EventForms, Appended DEF ScopesOK, ErrorIn
<1>7. ScopesOK'
  BY <1>1, <1>2, <1>4, <1>6 DEF ScopesOK
<1>8. TopsInOrder'
  <2>1. ASSUME NEW i \in DOMAIN Top
        PROVE  /\ pos > 0 /\ i > pos => phase'[Top[i]] = "idle"
               /\ pos = 0 \/ i < pos => phase'[Top[i]] \in {"idle", "collected", "threw"}
               /\ phase'[Top[i]] = "collected" /\ ErrorIn(events'[Top[i]]) => ErrorIn(log')
               /\ phase'[Top[i]] = "threw" /\ (pos = 0 \/ i < pos) => ErrorIn(log')
    BY <1>1, <1>2, <1>3, <1>4, <1>6 DEF TopsInOrder
  <2> QED
    BY <1>1, <1>2, <2>1 DEF TopsInOrder
<1>9. CallsOK'
  <2> SUFFICES ASSUME NEW m \in Nodes, NEW c \in Nodes, Wraps(m, c)
               PROVE  /\ phase'[c] # "collected"
                      /\ phase'[c] # "idle" => phase'[m] # "idle" /\ Kind[m] \notin {"leaf", "router", "compactExecution"}
                      /\ Kind[m] # "hook" /\ phase'[m] # "running" =>
                           phase'[c] # "running" /\ (HasFailed(c)' => HasFailed(m)')
                      /\ Kind[m] = "routes" /\ phase'[m] = "running" /\ phase'[c] # "idle" => data'[m].route = c
    BY DEF CallsOK, Wraps
  <2>1. c # p
    BY <1>5
  <2>2. CASE m = p
    <3>1. phase[c] = "idle"
      BY <1>1, <1>2, <2>2 DEF CallsOK, p
    <3> QED
      BY <1>4, <2>1, <2>2, <3>1
  <2>3. CASE m # p
    BY <1>2, <1>4, <2>1, <2>3 DEF CallsOK
  <2> QED
    BY <2>2, <2>3
<1>10. ExitsOK'
  <2> SUFFICES ASSUME NEW m \in Nodes, NEW x \in Nodes, Exit(x) \in ToSet(events'[m])
               PROVE  phase'[x] = "returned" /\ x \notin ToSet(Top) /\ (ErrorIn(events'[x]) => ErrorIn(events'[m]))
    BY DEF ExitsOK, Exit, Ev
  <2> QED
    BY <1>2, <1>4 DEF ExitsOK
<1>11. ChainsOK'
  <2> SUFFICES ASSUME NEW m \in Nodes, Kind[m] = "chain", NEW i \in DOMAIN Children[m], NEW j \in DOMAIN Children[m],
                      i < j, phase'[Children[m][j]] # "idle"
               PROVE  Exit(Children[m][i]) \in ToSet(events'[m])
    BY DEF ChainsOK, Exit, Ev
  <2>1. Children[m][j] \in Nodes /\ Children[m][j] # p
    BY <1>5, TreeFacts DEF Wraps
  <2> QED
    BY <1>2, <1>4, <2>1 DEF ChainsOK
<1>12. AnswersOK'
  BY <1>1, <1>2, <1>4 DEF AnswersOK
<1>13. RoutesInv => RoutesInv'
  <2> SUFFICES ASSUME RoutesInv PROVE RoutesInv'
    OBVIOUS
  <2>1. CASE Routed /\ pos = 1
    BY <1>1, <1>4, <2>1 DEF RoutesInv, p, Routed
  <2>2. CASE ~(Routed /\ pos = 1)
    <3>1. RouteHere(current) /\ (~Routed => current.route = "none")
      BY <2>2 DEF RoutesInv
    <3>2. \A x \in Nodes : phase'[x] # "idle" => SameRoute(data'[x], current)
      BY <1>4, <2>2 DEF RoutesInv, SameRoute
    <3>3. \A m, c \in Nodes : Kind[m] = "routes" /\ Wraps(m, c) /\ phase'[c] # "idle" => current.route # "none"
      BY <1>4, <1>5, <2>2 DEF RoutesInv
    <3> QED
      BY <1>1, <2>2, <3>1, <3>2, <3>3 DEF RoutesInv, RouteHere, SameRoute, Routed, Wraps
  <2> QED
    BY <2>1, <2>2
<1> QED
  BY <1>7, <1>8, <1>9, <1>10, <1>11, <1>12, <1>13 DEF FailuresInv

(* What is dropped at the commit is content.                                *)
LEMMA CommitKeepsErrors ==
  ASSUME ScopesOK, NEW q \in Nodes
  PROVE  Committed(q) \in Seq(Logged) /\ (ErrorIn(events[q]) => ErrorIn(Committed(q)))
<1>1. events[q] \in Seq(Logged)
  BY DEF ScopesOK
<1>2. \A e \in Uncommitted(q) : e.type # "error"
  BY DEF Uncommitted, Always
<1>3. Committed(q) \in Seq(Logged) /\ ToSet(Committed(q)) = ToSet(events[q]) \ Uncommitted(q)
  BY <1>1, WithoutMembers DEF Committed
<1> QED
  BY <1>2, <1>3 DEF ErrorIn

LEMMA LeaveKeeps ==
  ASSUME FailuresInv, LeaveTop
  PROVE  FailuresInv' /\ (RoutesInv => RoutesInv')
<1> DEFINE p  == Top[pos]
           ok == phase[p] = "returned"
           es == IF ok THEN Committed(p) ELSE <<Error(p, "none")>>
<1>1. /\ pos \in DOMAIN Top /\ Settled(p) /\ log' = log \o es \o <<Exit(p)>>
      /\ status' = (IF ok /\ \A e \in ToSet(es) : ~IsFatal(p, e) THEN status ELSE "error")
      /\ current' = (IF ok THEN data[p] ELSE current)
      /\ phase' = [phase EXCEPT ![p] = IF ok THEN "collected" ELSE @]
      /\ pos' = pos + 1 /\ UNCHANGED <<events, data, turn>>
  BY DEF LeaveTop
<1>2. /\ p \in Nodes /\ p \in ToSet(Top) /\ ScopesOK /\ TopsInOrder /\ CallsOK /\ ExitsOK /\ ChainsOK /\ AnswersOK
      /\ pos \in Nat /\ pos >= 1 /\ pos <= Len(Top) /\ Len(Top) \in Nat
  BY <1>1, TreeFacts DEF FailuresInv
<1>3. \A i \in DOMAIN Top : Top[i] \in Nodes /\ i \in Nat /\ (Top[i] = p => i = pos) /\ (i = pos => Top[i] = p)
  BY <1>1, TreeFacts
<1>4. /\ log' \in Seq(Logged) /\ (ErrorIn(log) \/ ErrorIn(es) => ErrorIn(log'))
      /\ (ok /\ ErrorIn(events[p]) => ErrorIn(es)) /\ (~ok => ErrorIn(es))
  <2>1. "none" \in Severities
    BY DEF Severities
  <2>2. /\ es \in Seq(Logged)
        /\ (ok /\ ErrorIn(events[p]) => ErrorIn(es)) /\ (~ok => ErrorIn(es))
    BY <1>2, <2>1, CommitKeepsErrors, EventForms, Few DEF ErrorIn
  <2>3. log \in Seq(Logged) /\ <<Exit(p)>> \in Seq(Logged)
    BY <1>2, EventForms, Few DEF ScopesOK
  <2> HIDE DEF p, ok, es
  <2>4. log \o es \in Seq(Logged) /\ ToSet(log \o es) = ToSet(log) \cup ToSet(es)
    BY <2>2, <2>3, Joined
  <2> DEFINE start == log \o es
             end   == <<Exit(p)>>
  <2>5. start \in Seq(Logged) /\ end \in Seq(Logged) /\ log' = start \o end
    BY <1>1, <2>3, <2>4
  <2> HIDE DEF start, end
  <2>6. start \o end \in Seq(Logged) /\ ToSet(start \o end) = ToSet(start) \cup ToSet(end)
    BY <2>5, Joined
  <2>7. log' \in Seq(Logged) /\ ToSet(log') = ToSet(start) \cup ToSet(end)
    BY <2>5, <2>6, Zenon
  <2> QED
    BY <2>2, <2>4, <2>7 DEF ErrorIn, start
<1> HIDE DEF p, ok, es
<1>5. \A x \in Nodes : /\ phase'[x] = (IF x = p /\ ok THEN "collected" ELSE phase[x])
                       /\ data'[x] = data[x] /\ events'[x] = events[x]
                       /\ (HasFailed(x)' <=> HasFailed(x))
  BY <1>1, <1>2 DEF ScopesOK, HasFailed, ErrorIn, ok
<1>6. \A m, c \in Nodes : Wraps(m, c) => c # p
  BY <1>2, TreeFacts DEF Wraps
<1>7. phase[p] \in {"returned", "threw"} /\ (ok <=> phase[p] = "returned")
  BY <1>1 DEF Settled, ok
<1>8. ScopesOK'
  <2>1. phase' \in [Nodes -> {"idle", "running", "returned", "collected", "threw"}]
    BY <1>1, <1>2 DEF ScopesOK
  <2>2. current' \in Handed /\ status' \in {"running", "error"} /\ pos' \in 0..Len(Top) + 1
    BY <1>1, <1>2 DEF ScopesOK
  <2>3. \A n \in Nodes : phase'[n] = "idle" => events'[n] = <<>>
    BY <1>2, <1>5 DEF ScopesOK
  <2> QED
    BY <1>1, <1>2, <1>4, <2>1, <2>2, <2>3 DEF ScopesOK
<1>9. TopsInOrder'
  <2>1. ASSUME NEW i \in DOMAIN Top
        PROVE  /\ pos' > 0 /\ i > pos' => phase'[Top[i]] = "idle"
               /\ pos' = 0 \/ i < pos' => phase'[Top[i]] \in {"idle", "collected", "threw"}
               /\ phase'[Top[i]] = "collected" /\ ErrorIn(events'[Top[i]]) => ErrorIn(log')
               /\ phase'[Top[i]] = "threw" /\ (pos' = 0 \/ i < pos') => ErrorIn(log')
    <3>1. CASE i = pos
      <4>1. Top[i] = p /\ phase'[p] = (IF ok THEN "collected" ELSE "threw") /\ events'[p] = events[p]
        BY <1>2, <1>3, <1>5, <1>7, <3>1
      <4> QED
        BY <1>1, <1>2, <1>4, <3>1, <4>1
    <3>2. CASE i # pos
      <4>1. phase'[Top[i]] = phase[Top[i]] /\ events'[Top[i]] = events[Top[i]]
        BY <1>3, <1>5, <3>2
      <4>2. i < pos' => i < pos
        BY <1>1, <1>2, <1>3, <3>2
      <4>3. i > pos' => i > pos
        BY <1>1, <1>2, <1>3
      <4> QED
        BY <1>1, <1>2, <1>4, <4>1, <4>2, <4>3 DEF TopsInOrder
    <3> QED
      BY <3>1, <3>2
  <2>2. pos' \in DOMAIN Top => phase'[Top[pos']] = "idle"
    <3>1. ASSUME pos' \in DOMAIN Top PROVE phase[Top[pos']] = "idle" /\ Top[pos'] # p /\ Top[pos'] \in Nodes
      BY <1>1, <1>2, <1>3, <3>1 DEF TopsInOrder
    <3> QED
      BY <1>5, <3>1
  <2> QED
    BY <1>1, <1>2, <2>1, <2>2 DEF TopsInOrder
<1>10. CallsOK'
  <2> SUFFICES ASSUME NEW m \in Nodes, NEW c \in Nodes, Wraps(m, c)
               PROVE  /\ phase'[c] # "collected"
                      /\ phase'[c] # "idle" => phase'[m] # "idle" /\ Kind[m] \notin {"leaf", "router", "compactExecution"}
                      /\ Kind[m] # "hook" /\ phase'[m] # "running" =>
                           phase'[c] # "running" /\ (HasFailed(c)' => HasFailed(m)')
                      /\ Kind[m] = "routes" /\ phase'[m] = "running" /\ phase'[c] # "idle" => data'[m].route = c
    BY DEF CallsOK, Wraps
  <2>1. phase'[c] = phase[c] /\ (phase'[m] = "idle" <=> phase[m] = "idle")
        /\ (phase'[m] = "running" <=> phase[m] = "running")
    BY <1>5, <1>6, <1>7
  <2> QED
    BY <1>2, <1>5, <2>1 DEF CallsOK
<1>11. ExitsOK'
  <2> SUFFICES ASSUME NEW m \in Nodes, NEW x \in Nodes, Exit(x) \in ToSet(events'[m])
               PROVE  phase'[x] = "returned" /\ x \notin ToSet(Top) /\ (ErrorIn(events'[x]) => ErrorIn(events'[m]))
    BY DEF ExitsOK, Exit, Ev
  <2> QED
    BY <1>2, <1>5 DEF ExitsOK
<1>12. ChainsOK'
  <2> SUFFICES ASSUME NEW m \in Nodes, Kind[m] = "chain", NEW i \in DOMAIN Children[m], NEW j \in DOMAIN Children[m],
                      i < j, phase'[Children[m][j]] # "idle"
               PROVE  Exit(Children[m][i]) \in ToSet(events'[m])
    BY DEF ChainsOK, Exit, Ev
  <2>1. Children[m][j] \in Nodes /\ Children[m][j] # p
    BY <1>6, TreeFacts DEF Wraps
  <2> QED
    BY <1>2, <1>5, <2>1 DEF ChainsOK
<1>13. AnswersOK'
  <2>1. \A x \in Nodes : /\ phase'[x] = "threw" => phase[x] = "threw"
                         /\ phase'[x] \in {"returned", "collected"} => phase[x] \in {"returned", "collected"}
    BY <1>5, <1>7
  <2> QED
    BY <1>1, <1>2, <1>5, <2>1 DEF AnswersOK
<1>14. RoutesInv => RoutesInv'
  <2> SUFFICES ASSUME RoutesInv PROVE RoutesInv'
    OBVIOUS
  <2>1. pos' # 1 /\ turn' = turn
    BY <1>1, <1>2
  <2>2. CASE Routed /\ pos = 1
    <3>1. p = Top[1] /\ Kind[p] = "router"
      BY <2>2 DEF p, Routed
    <3>2. ok
      BY <1>2, <1>7, <3>1 DEF AnswersOK
    <3>3. current' = data[p] /\ RouteHere(data[p])
      BY <1>1, <1>2, <1>7, <2>2, <3>1, <3>2 DEF RoutesInv
    <3>4. \A x \in Nodes : phase'[x] # "idle" => x = p
      BY <1>5, <2>2, <3>1 DEF RoutesInv
    <3> QED
      BY <1>5, <1>6, <2>1, <2>2, <3>3, <3>4 DEF RoutesInv, RouteHere, SameRoute, Routed, Wraps
  <2>3. CASE ~(Routed /\ pos = 1)
    <3>1. RouteHere(current) /\ (~Routed => current.route = "none") /\ SameRoute(current', current)
      BY <1>1, <1>2, <1>7, <2>3 DEF RoutesInv, SameRoute
    <3>2. \A x \in Nodes : phase'[x] # "idle" => SameRoute(data'[x], current)
      BY <1>5, <1>7, <2>3 DEF RoutesInv
    <3>3. \A m, c \in Nodes : Kind[m] = "routes" /\ Wraps(m, c) /\ phase'[c] # "idle" => current.route # "none"
      BY <1>5, <1>6, <2>3 DEF RoutesInv
    <3> QED
      BY <2>1, <3>1, <3>2, <3>3 DEF RoutesInv, RouteHere, SameRoute, Routed, Wraps
  <2> QED
    BY <2>2, <2>3
<1> QED
  BY <1>8, <1>9, <1>10, <1>11, <1>12, <1>13, <1>14 DEF FailuresInv

LEMMA SettleKeeps ==
  ASSUME FailuresInv, SettleTurn
  PROVE  FailuresInv' /\ (RoutesInv => RoutesInv')
<1>1. /\ pos > Len(Top) \/ (pos > 0 /\ status = "error")
      /\ pos' = 0
      /\ status' = IF current.response = 0 /\ ErrorIn(log) THEN "error" ELSE status
      /\ UNCHANGED <<log, phase, events, data, current, turn>>
  BY DEF SettleTurn, ErrorIn
<1>2. /\ ScopesOK /\ TopsInOrder /\ CallsOK /\ ExitsOK /\ ChainsOK /\ AnswersOK /\ pos \in Nat /\ Len(Top) \in Nat
      /\ DOMAIN Top = 1..Len(Top) /\ pos > 0
  BY <1>1, TreeFacts DEF FailuresInv, ScopesOK
<1>3. ScopesOK'
  BY <1>1, <1>2 DEF ScopesOK
<1>4. TopsInOrder'
  <2>1. ASSUME NEW i \in DOMAIN Top
        PROVE  /\ phase[Top[i]] \in {"idle", "collected", "threw"}
               /\ phase[Top[i]] = "collected" /\ ErrorIn(events[Top[i]]) => ErrorIn(log)
               /\ phase[Top[i]] = "threw" => ErrorIn(log)
    <3>1. i < pos \/ i > pos \/ (i = pos /\ status = "error")
      BY <1>1, <1>2
    <3> QED
      BY <1>2, <3>1 DEF TopsInOrder
  <2>2. \A i \in DOMAIN Top : ErrorIn(events'[Top[i]]) <=> ErrorIn(events[Top[i]])
    BY <1>1
  <2> QED
    BY <1>1, <1>2, <2>1, <2>2 DEF TopsInOrder
<1>5. CallsOK' /\ ExitsOK' /\ ChainsOK'
  BY <1>1, <1>2 DEF CallsOK, ExitsOK, ChainsOK, HasFailed, ErrorIn, Wraps, Exit, Ev
<1>6. AnswersOK'
  BY <1>1, <1>2 DEF AnswersOK, ErrorIn
<1>7. RoutesInv => RoutesInv'
  <2>1. ~(Routed /\ pos = 1)
    <3>1. Routed => Len(Top) # 0
      BY TreesAssumption DEF Routed
    <3> QED
      BY <1>1, <1>2, <3>1 DEF TopsInOrder
  <2> QED
    BY <1>1, <2>1 DEF RoutesInv, RouteHere, SameRoute, Routed, Wraps
<1> QED
  BY <1>3, <1>4, <1>5, <1>6, <1>7 DEF FailuresInv

LEMMA HarnessStays == UNCHANGED harnessVars => (FailuresInv => FailuresInv') /\ (RoutesInv => RoutesInv')
<1> SUFFICES ASSUME UNCHANGED harnessVars PROVE (FailuresInv => FailuresInv') /\ (RoutesInv => RoutesInv')
  OBVIOUS
<1>1. /\ phase' = phase /\ events' = events /\ data' = data /\ current' = current /\ log' = log
      /\ status' = status /\ pos' = pos /\ turn' = turn
  BY DEF harnessVars
<1>2. FailuresInv => FailuresInv'
  BY <1>1 DEF FailuresInv, ScopesOK, TopsInOrder, CallsOK, ExitsOK, ChainsOK, AnswersOK, HasFailed, ErrorIn, Wraps, Exit, Ev
<1>3. RoutesInv => RoutesInv'
  BY <1>1 DEF RoutesInv, RouteHere, SameRoute, Routed, Wraps
<1> QED
  BY <1>2, <1>3

LEMMA HarnessKeeps ==
  ASSUME FailuresInv, [HarnessNext]_harnessVars
  PROVE  FailuresInv' /\ (RouterFirst /\ RoutesInv => RoutesInv')
<1>1. CASE PatternStep
  <2>1. PICK n \in Nodes : Steps(n)
    BY <1>1, PatternsStep
  <2>2. PICK es, p, d, cs : Fits(n, es, p, d, cs) /\ Hands(n, p, d, cs) /\ Moves(n, es, p, d, cs)
    BY <2>1 DEF Steps
  <2> QED
    BY <2>2, MoveKeepsFailures, MoveKeepsRoutes
<1> QED
  BY <1>1, StartKeeps, EnterKeeps, LeaveKeeps, SettleKeeps, HarnessStays DEF HarnessNext

(* What waits for the background runs in it itself.                         *)
LEMMA Foreground ==
  ASSUME NEW n \in Nodes \ Background, NEW m \in Nodes, Wraps(m, n)
  PROVE  m \notin Background /\ Kind[m] # "hook"
<1>1. \A S \in SUBSET Nodes : Below(S) /\ (Kind[m] = "hook" \/ m \in S) => n \in S
  BY DEF Below, Wraps
<1> QED
  BY <1>1 DEF Background

(* A failure climbs: some pattern it reached has none above it that it did  *)
(* not reach too, and that one is at the top, where it is logged.           *)
LEMMA NoFailureLost == FailuresInv => FailureShows
<1> SUFFICES ASSUME FailuresInv, pos = 0, status = "running", current.response = 0,
                    NEW n \in Nodes \ Background, HasFailed(n)
             PROVE  FALSE
  BY DEF FailureShows, HasFailed, ErrorIn
<1> DEFINE Fore   == Nodes \ Background
           Failed  == {x \in Fore : HasFailed(x)}
           Running == {x \in Fore : phase[x] = "running"}
<1>1. ~ErrorIn(log) /\ \A i \in DOMAIN Top : Top[i] \in Nodes
  BY TreeFacts DEF FailuresInv, AnswersOK
<1>2. ASSUME NEW x \in ToSet(Top) PROVE phase[x] # "running" /\ ~HasFailed(x)
  <2>1. PICK i \in DOMAIN Top : x = Top[i]
    BY DEF ToSet
  <2>2. phase[x] \in {"idle", "collected", "threw"} /\ phase[x] # "threw"
        /\ ~(phase[x] = "collected" /\ ErrorIn(events[x]))
    BY <1>1, <2>1 DEF FailuresInv, TopsInOrder
  <2> QED
    BY <1>1, <2>1, <2>2, IdleClean DEF HasFailed
<1>3. ASSUME NEW S \in SUBSET Fore, S # {} PROVE \E x \in S : \A m \in S : ~Wraps(m, x)
  <2>1. S \in SUBSET Nodes
    OBVIOUS
  <2> HIDE DEF Fore
  <2>2. \E x \in S : \A m \in S : x \notin ToSet(Children[m])
    BY <1>3, <2>1, TreesAssumption
  <2> QED
    BY <2>2 DEF Wraps
<1>4. Running = {}
  <2> SUFFICES ASSUME Running # {} PROVE FALSE
    OBVIOUS
  <2>1. PICK x \in Running : \A m \in Running : ~Wraps(m, x)
    BY <1>3
  <2>2. PICK m \in Nodes : Wraps(m, x)
    BY <1>2, <2>1, TreesAssumption DEF Wraps
  <2>3. m \in Fore /\ Kind[m] # "hook"
    BY <2>1, <2>2, Foreground
  <2>4. phase[m] # "running"
    BY <2>1, <2>2, <2>3
  <2> QED
    BY <2>1, <2>2, <2>3, <2>4 DEF FailuresInv, CallsOK
<1>5. PICK x \in Failed : \A m \in Failed : ~Wraps(m, x)
  <2>1. n \in Failed
    OBVIOUS
  <2> QED
    BY <1>3, <2>1
<1>6. PICK m \in Nodes : Wraps(m, x)
  BY <1>2, <1>5, TreesAssumption DEF Wraps
<1>7. m \in Fore /\ Kind[m] # "hook"
  BY <1>5, <1>6, Foreground
<1>8. phase[m] # "running" /\ ~HasFailed(m)
  BY <1>4, <1>5, <1>6, <1>7
<1> QED
  BY <1>5, <1>6, <1>7, <1>8 DEF FailuresInv, CallsOK

LEMMA NoRouteStale == FailuresInv /\ RoutesInv => RouteFresh
<1> SUFFICES ASSUME FailuresInv, RoutesInv, NEW n \in Nodes,
                    \/ Kind[n] = "routes" /\ ~(\A c \in ToSet(Children[n]) : phase[c] = "idle")
                    \/ /\ Kind[n] = "compactExecution"
                       /\ ~(events[n] # <<>> \/ phase[n] \in {"idle", "running"})
             PROVE  data[n].routed = turn
  BY DEF RouteFresh
<1>1. \A m \in Nodes : phase[m] \in {"idle", "running", "returned", "collected", "threw"}
  BY DEF FailuresInv, ScopesOK
<1>2. ASSUME phase[n] # "idle", Kind[n] # "router"
      PROVE  SameRoute(data[n], current) /\ RouteHere(current) /\ ~(Routed /\ pos = 1)
  BY <1>2 DEF RoutesInv, Routed
<1>3. CASE Kind[n] = "routes"
  <2>1. PICK c \in ToSet(Children[n]) : phase[c] # "idle"
    BY <1>3
  <2>2. c \in Nodes /\ Wraps(n, c)
    BY TreeFacts
  <2>3. phase[n] # "idle"
    BY <2>1, <2>2 DEF FailuresInv, CallsOK
  <2>4. current.route # "none"
    BY <1>2, <1>3, <2>1, <2>2, <2>3 DEF RoutesInv
  <2> QED
    BY <1>2, <1>3, <2>3, <2>4 DEF SameRoute, RouteHere
<1>4. CASE Kind[n] = "compactExecution"
  <2>1. events[n] = <<>> /\ phase[n] \in {"returned", "collected"}
    BY <1>1, <1>4 DEF FailuresInv, AnswersOK
  <2>2. data[n].route = "direct"
    BY <1>4, <2>1 DEF FailuresInv, AnswersOK
  <2> QED
    BY <1>2, <1>4, <2>1, <2>2 DEF SameRoute, RouteHere
<1> QED
  BY <1>3, <1>4

-----------------------------------------------------------------------------
(***************************************************************************)
(* What is told of a turn, to the log and to the listener.  A scope whose  *)
(* pattern did not throw is whole, but for the child it waits for          *)
(* (ScopesWhole); what is in it came through the scopes in between         *)
(* (ScopesOwn), so that two of them have an event in common only if one    *)
(* of their patterns is below the other; and what has been heard is in a   *)
(* scope or was told at the top (HeardOnce).  Every kind of pattern tracks *)
(* only what it may (Telling), and the log stays whole with what the top   *)
(* commits to it (LogWhole).                                               *)
(***************************************************************************)
(* Who is below a pattern, itself included.                                 *)
Under == [n \in Nodes |-> {m \in Nodes : \A S \in SUBSET Nodes :
            n \in S /\ (\A x \in S : ToSet(Children[x]) \subseteq S) => m \in S}]

(* x comes before y in s.                                                   *)
Precedes(s, x, y) == \E i, j \in DOMAIN s : i < j /\ s[i] = x /\ s[j] = y

(* The interval of m in s, two that are apart, and one inside the other.    *)
Spans(s, m)     == Precedes(s, Enter(m), Exit(m))
Within(s, e, m) == e \in {Enter(m), Exit(m)} \/ (Precedes(s, Enter(m), e) /\ Precedes(s, e, Exit(m)))
Apart(s, m, x)  == Precedes(s, Exit(m), Enter(x))
Inside(s, m, x) == Precedes(s, Enter(x), Enter(m)) /\ Precedes(s, Exit(m), Exit(x))
Fitting(s, m, x) == m = x \/ Apart(s, m, x) \/ Apart(s, x, m) \/ Inside(s, m, x) \/ Inside(s, x, m)

(* A sequence of events that is whole: each once, in the interval of the    *)
(* pattern that tracked it unless it is one of own, the intervals nested.   *)
Whole(s, own) ==
  /\ IsInjective(s)
  /\ \A e \in ToSet(s) \ own : Spans(s, e.by) /\ Within(s, e, e.by)
  /\ \A m, x \in Nodes : {Enter(m), Enter(x)} \subseteq ToSet(s) => Fitting(s, m, x)

Own(n) == {e \in Logged : e.by = n /\ e # Enter(n) /\ e # Exit(n)}

(* Of a child that is called and not collected yet only the entry is known. *)
Open(n) == \E c \in ToSet(Children[n]) : \E u \in Seq(Logged) :
  events[n] = u \o <<Enter(c)>> /\ Whole(u, Own(n)) /\ Exit(c) \notin ToSet(events[n]) /\ phase[c] # "idle"
Sequential(n) == Kind[n] \in {"chain", "routes"}

ScopesWhole ==
  \A n \in Nodes : phase[n] # "threw" =>
    Whole(events[n], Own(n)) \/ (Sequential(n) /\ phase[n] = "running" /\ Open(n))

(* What a scope holds is of the pattern and those below it, and came        *)
(* through the scopes in between.                                           *)
ScopesOwn ==
  /\ \A n \in Nodes : \A e \in ToSet(events[n]) :
       e.by \in Under[n] /\ e \notin {Enter(n), Exit(n)} /\ e.type # "user_message"
  /\ \A n, c \in Nodes : Wraps(n, c) => \A e \in ToSet(events[n]) : e.by \in Under[c] =>
       /\ e \in {Enter(c), Exit(c)} \cup ToSet(events[c])
       /\ phase[c] # "idle" /\ (e = Enter(c) \/ Exit(c) \in ToSet(events[n]))

(* What a pattern that runs has tracked so far.                             *)
Untouched(n) == \A c \in Nodes : Wraps(n, c) => phase[c] = "idle"
RunningOwn ==
  \A n \in Nodes : phase[n] = "running" =>
    IF Sequential(n)
    THEN /\ \A e \in ToSet(events[n]) : e.by # n
         /\ \A c \in Nodes : Wraps(n, c) /\ phase[c] # "idle" => Enter(c) \in ToSet(events[n])
         /\ Kind[n] = "routes" => \A c \in Nodes : Exit(c) \notin ToSet(events[n])
    ELSE /\ ToSet(events[n]) \subseteq {Content(n)}
         /\ events[n] = <<>> \/ Kind[n] = "leaf" \/ (Kind[n] = "references" /\ ~Untouched(n))

Passed(i) == pos = 0 \/ i < pos

HeardOnce ==
  /\ heard \in Seq(Logged) /\ IsInjective(heard) /\ emitted \subseteq ToSet(heard)
  /\ \A e \in ToSet(heard) :
       /\ \/ e = User \/ \E m \in Nodes : e \in ToSet(events[m])
          \/ \E i \in DOMAIN Top : (e = Enter(Top[i]) /\ phase[Top[i]] # "idle") \/ (e = Exit(Top[i]) /\ Passed(i))
       /\ e \in emitted \/ e = User \/ \E i \in DOMAIN Top : Passed(i) /\ e.by \in Under[Top[i]]
  /\ IF InTop THEN live = (Top[pos] \in Live) ELSE ~live

LogWhole ==
  /\ \A e \in ToSet(log) : e = User \/ \E i \in DOMAIN Top :
       e.by \in Under[Top[i]] /\ e.type # "user_message" /\ (Passed(i) \/ (InTop /\ i = pos /\ e = Enter(Top[i])))
  /\ IF InTop THEN \E u \in Seq(Logged) : log = u \o <<Enter(Top[pos])>> /\ Whole(u, {User})
              ELSE Whole(log, {User})
  /\ \A e \in ToSet(log) \ ToSet(heard) :
       /\ e.by \in Tops
       /\ \/ e.by \notin Live /\ e.type \in {"pattern_enter", "pattern_exit"}
          \/ phase[e.by] = "threw" /\ e.type = "error"

EventsInv == ScopesWhole /\ ScopesOwn /\ RunningOwn /\ HeardOnce /\ LogWhole

-----------------------------------------------------------------------------
(* Who is below whom.                                                       *)
Closed(S) == \A x \in S : ToSet(Children[x]) \subseteq S

LEMMA UnderFacts ==
  /\ \A n \in Nodes : n \in Under[n] /\ Under[n] \subseteq Nodes
  /\ \A n, x, c \in Nodes : x \in Under[n] /\ Wraps(x, c) => c \in Under[n]
  /\ \A n, c \in Nodes : Wraps(n, c) => Under[c] \subseteq Under[n]
  /\ \A n, x \in Nodes : x \in Under[n] /\ x # n => \E w \in Under[n] : Wraps(w, x)
<1>1. \A n \in Nodes : \A m : m \in Under[n] <=> m \in Nodes /\ \A S \in SUBSET Nodes : n \in S /\ Closed(S) => m \in S
  BY DEF Under, Closed
<1>2. ASSUME NEW n \in Nodes PROVE n \in Under[n] /\ Under[n] \subseteq Nodes
  BY <1>1
<1>3. ASSUME NEW n \in Nodes, NEW x \in Nodes, NEW c \in Nodes, x \in Under[n], Wraps(x, c)
      PROVE  c \in Under[n]
  BY <1>1, <1>3 DEF Closed, Wraps
<1>4. ASSUME NEW n \in Nodes, NEW c \in Nodes, Wraps(n, c), NEW m \in Under[c] PROVE m \in Under[n]
  <2>1. m \in Nodes
    BY <1>2
  <2>2. ASSUME NEW S \in SUBSET Nodes, n \in S, Closed(S) PROVE m \in S
    <3>1. c \in S
      BY <1>4, <2>2 DEF Closed, Wraps
    <3> QED
      BY <1>1, <2>2, <3>1
  <2> QED
    BY <1>1, <2>1, <2>2
<1>5. ASSUME NEW n \in Nodes, NEW x \in Nodes, x \in Under[n], x # n, \A w \in Under[n] : ~Wraps(w, x) PROVE FALSE
  <2> DEFINE S == Under[n] \ {x}
  <2>1. S \in SUBSET Nodes /\ n \in S
    BY <1>2, <1>5
  <2>2. ASSUME NEW w \in S, NEW c \in ToSet(Children[w]) PROVE c \in S
    <3>1. w \in Nodes /\ w \in Under[n] /\ Wraps(w, c)
      BY <2>1 DEF Wraps
    <3>2. c \in Nodes
      BY <3>1, TreeFacts DEF Wraps
    <3> QED
      BY <1>3, <1>5, <3>1, <3>2
  <2>3. Closed(S)
    BY <2>2 DEF Closed
  <2> QED
    BY <1>1, <1>5, <2>1, <2>3
<1> QED
  BY <1>2, <1>3, <1>4, <1>5

(* Nobody is below one that he wraps.                                       *)
LEMMA NotBelowItself ==
  ASSUME NEW n \in Nodes, NEW c \in Nodes, Wraps(n, c)
  PROVE  n \notin Under[c]
<1> SUFFICES ASSUME n \in Under[c] PROVE FALSE
  OBVIOUS
<1>1. Under[c] \in SUBSET Nodes /\ c \in Under[c]
  BY UnderFacts
<1>2. PICK x \in Under[c] : \A m \in Under[c] : x \notin ToSet(Children[m])
  BY <1>1, TreesAssumption
<1>3. x = c
  BY <1>1, <1>2, UnderFacts DEF Wraps
<1> QED
  BY <1>2, <1>3 DEF Wraps

(* Two of whom neither is below the other have nobody below both.           *)
LEMMA UnrelatedApart ==
  ASSUME NEW m \in Nodes, NEW n \in Nodes, m \notin Under[n], n \notin Under[m]
  PROVE  Under[m] \cap Under[n] = {}
<1> DEFINE S == Under[m] \cap Under[n]
<1> SUFFICES ASSUME S # {} PROVE FALSE
  OBVIOUS
<1>1. S \in SUBSET Nodes
  BY UnderFacts
<1>2. PICK x \in S : \A w \in S : x \notin ToSet(Children[w])
  BY <1>1, TreesAssumption
<1>3. x \in Nodes /\ x # m /\ x # n
  BY <1>1
<1>4. PICK v \in Under[m] : Wraps(v, x)
  BY <1>3, UnderFacts
<1>5. PICK w \in Under[n] : Wraps(w, x)
  BY <1>3, UnderFacts
<1>6. v = w
  BY <1>4, <1>5, UnderFacts, TreeFacts
<1> QED
  BY <1>2, <1>4, <1>5, <1>6 DEF Wraps

(* So the trees of two children of one pattern are apart, and those of two  *)
(* patterns at the top; and nobody has one at the top below him.            *)
LEMMA Families ==
  /\ \A n, c, d \in Nodes : Wraps(n, c) /\ Wraps(n, d) /\ c # d => Under[c] \cap Under[d] = {}
  /\ \A i \in DOMAIN Top : \A m \in Nodes : Top[i] \in Under[m] => m = Top[i]
  /\ \A i, j \in DOMAIN Top : i # j => Under[Top[i]] \cap Under[Top[j]] = {}
<1>1. ASSUME NEW n \in Nodes, NEW c \in Nodes, NEW d \in Nodes, Wraps(n, c), Wraps(n, d), c # d
      PROVE  c \notin Under[d]
  <2> SUFFICES ASSUME c \in Under[d] PROVE FALSE
    OBVIOUS
  <2>1. PICK w \in Under[d] : Wraps(w, c)
    BY <1>1, UnderFacts
  <2>2. w = n
    BY <1>1, <2>1, UnderFacts, TreeFacts
  <2> QED
    BY <1>1, <2>1, <2>2, NotBelowItself
<1>2. ASSUME NEW i \in DOMAIN Top, NEW m \in Nodes, Top[i] \in Under[m] PROVE m = Top[i]
  BY <1>2, UnderFacts, TreeFacts DEF Wraps
<1>3. ASSUME NEW i \in DOMAIN Top, NEW j \in DOMAIN Top, i # j
      PROVE  Under[Top[i]] \cap Under[Top[j]] = {}
  BY <1>2, <1>3, UnrelatedApart, TreeFacts
<1> QED
  BY <1>1, <1>2, <1>3, UnrelatedApart

-----------------------------------------------------------------------------
(* The order and the number of the events in a sequence.                    *)
LEMMA Indexed ==
  ASSUME NEW T, NEW s \in Seq(T)
  PROVE  /\ DOMAIN s = 1..Len(s) /\ Len(s) \in Nat /\ \A i \in 1..Len(s) : s[i] \in T
         /\ \A e : e \in ToSet(s) <=> \E i \in 1..Len(s) : s[i] = e
<1>1. DOMAIN s = 1..Len(s) /\ Len(s) \in Nat /\ \A i \in 1..Len(s) : s[i] \in T
  OBVIOUS
<1> QED
  BY <1>1 DEF ToSet

LEMMA JoinedPlaces ==
  ASSUME NEW T, NEW s \in Seq(T), NEW t \in Seq(T)
  PROVE  /\ s \o t \in Seq(T) /\ DOMAIN (s \o t) = 1..Len(s) + Len(t)
         /\ \A i \in 1..Len(s) + Len(t) : (s \o t)[i] = IF i <= Len(s) THEN s[i] ELSE t[i - Len(s)]
         /\ \A i \in 1..Len(s) : i \in DOMAIN (s \o t) /\ (s \o t)[i] = s[i]
         /\ \A i \in 1..Len(t) : Len(s) + i \in DOMAIN (s \o t) /\ (s \o t)[Len(s) + i] = t[i]
<1>1. s \o t \in Seq(T) /\ Len(s \o t) = Len(s) + Len(t) /\ Len(s) \in Nat /\ Len(t) \in Nat
  BY ConcatProperties, LenProperties
<1>2. DOMAIN (s \o t) = 1..Len(s) + Len(t)
  BY <1>1
<1>3. \A i \in 1..Len(s) + Len(t) : (s \o t)[i] = IF i <= Len(s) THEN s[i] ELSE t[i - Len(s)]
  BY ConcatProperties
<1>4. ASSUME NEW i \in 1..Len(s) PROVE i \in DOMAIN (s \o t) /\ (s \o t)[i] = s[i]
  <2>1. i \in 1..Len(s) + Len(t)
    BY <1>1
  <2> QED
    BY <1>2, <1>3, <2>1
<1>5. ASSUME NEW i \in 1..Len(t) PROVE Len(s) + i \in DOMAIN (s \o t) /\ (s \o t)[Len(s) + i] = t[i]
  <2>1. Len(s) + i \in 1..Len(s) + Len(t) /\ ~(Len(s) + i <= Len(s)) /\ (Len(s) + i) - Len(s) = i
    BY <1>1
  <2> QED
    BY <1>2, <1>3, <2>1
<1> QED
  BY <1>1, <1>2, <1>3, <1>4, <1>5

LEMMA JoinedOrder ==
  ASSUME NEW T, NEW s \in Seq(T), NEW t \in Seq(T)
  PROVE  /\ \A x, y : Precedes(s, x, y) => Precedes(s \o t, x, y)
         /\ \A x, y : Precedes(t, x, y) => Precedes(s \o t, x, y)
         /\ \A x, y : x \in ToSet(s) /\ y \in ToSet(t) => Precedes(s \o t, x, y)
<1> DEFINE u == s \o t
<1>1. /\ DOMAIN s = 1..Len(s) /\ Len(s) \in Nat /\ DOMAIN t = 1..Len(t) /\ Len(t) \in Nat
      /\ \A i \in 1..Len(s) : i \in DOMAIN u /\ u[i] = s[i]
      /\ \A i \in 1..Len(t) : Len(s) + i \in DOMAIN u /\ u[Len(s) + i] = t[i]
  BY Indexed, JoinedPlaces
<1> HIDE DEF u
<1>2. ASSUME NEW x, NEW y, Precedes(s, x, y) PROVE Precedes(u, x, y)
  BY <1>1, <1>2 DEF Precedes
<1>3. ASSUME NEW x, NEW y, Precedes(t, x, y) PROVE Precedes(u, x, y)
  <2>1. PICK i, j \in 1..Len(t) : i < j /\ t[i] = x /\ t[j] = y
    BY <1>1, <1>3 DEF Precedes
  <2>2. /\ Len(s) + i < Len(s) + j /\ Len(s) + i \in DOMAIN u /\ Len(s) + j \in DOMAIN u
        /\ u[Len(s) + i] = x /\ u[Len(s) + j] = y
    BY <1>1, <2>1
  <2> QED
    BY <2>2 DEF Precedes
<1>4. ASSUME NEW x \in ToSet(s), NEW y \in ToSet(t) PROVE Precedes(u, x, y)
  <2>1. PICK i \in 1..Len(s) : s[i] = x
    BY Indexed
  <2>2. PICK j \in 1..Len(t) : t[j] = y
    BY Indexed
  <2>3. i < Len(s) + j /\ i \in DOMAIN u /\ Len(s) + j \in DOMAIN u /\ u[i] = x /\ u[Len(s) + j] = y
    BY <1>1, <2>1, <2>2
  <2> QED
    BY <2>3 DEF Precedes
<1> QED
  BY <1>2, <1>3, <1>4 DEF u

LEMMA JoinedOnce ==
  ASSUME NEW T, NEW s \in Seq(T), NEW t \in Seq(T), IsInjective(s), IsInjective(t),
         \A e \in ToSet(s) : e \notin ToSet(t)
  PROVE  IsInjective(s \o t)
<1> DEFINE u == s \o t
<1>1. /\ DOMAIN s = 1..Len(s) /\ Len(s) \in Nat /\ DOMAIN t = 1..Len(t) /\ Len(t) \in Nat
      /\ DOMAIN u = 1..Len(s) + Len(t)
      /\ \A i \in 1..Len(s) + Len(t) : u[i] = IF i <= Len(s) THEN s[i] ELSE t[i - Len(s)]
  BY Indexed, JoinedPlaces
<1>2. \A i \in 1..Len(s), j \in 1..Len(t) : s[i] # t[j]
  BY Indexed
<1> HIDE DEF u
<1>3. ASSUME NEW i \in 1..Len(s) + Len(t), NEW j \in 1..Len(s) + Len(t), u[i] = u[j] PROVE i = j
  <2>1. CASE i <= Len(s) /\ j <= Len(s)
    <3>1. i \in 1..Len(s) /\ j \in 1..Len(s) /\ s[i] = s[j]
      BY <1>1, <1>3, <2>1
    <3> QED
      BY <1>1, <3>1 DEF IsInjective
  <2>2. CASE ~(i <= Len(s)) /\ ~(j <= Len(s))
    <3>1. i - Len(s) \in 1..Len(t) /\ j - Len(s) \in 1..Len(t) /\ t[i - Len(s)] = t[j - Len(s)]
      BY <1>1, <1>3, <2>2
    <3>2. i - Len(s) = j - Len(s)
      BY <1>1, <3>1 DEF IsInjective
    <3> QED
      BY <1>1, <3>2
  <2>3. CASE i <= Len(s) /\ ~(j <= Len(s))
    <3>1. i \in 1..Len(s) /\ j - Len(s) \in 1..Len(t) /\ s[i] = t[j - Len(s)]
      BY <1>1, <1>3, <2>3
    <3> QED
      BY <1>2, <3>1
  <2>4. CASE ~(i <= Len(s)) /\ j <= Len(s)
    <3>1. j \in 1..Len(s) /\ i - Len(s) \in 1..Len(t) /\ s[j] = t[i - Len(s)]
      BY <1>1, <1>3, <2>4
    <3> QED
      BY <1>2, <3>1
  <2> QED
    BY <2>1, <2>2, <2>3, <2>4
<1> QED
  BY <1>1, <1>3 DEF IsInjective, u

LEMMA AtMostOne ==
  /\ IsInjective(<<>>) /\ \A e : IsInjective(<<e>>)
BY DEF IsInjective

(* A part that keeps the order: what a filter leaves is each once if it was,*)
(* and in the order it was in.                                              *)
LEMMA WithoutOrder ==
  ASSUME NEW T, NEW es \in Seq(T), NEW D
  PROVE  /\ \A x, y : Precedes(es, x, y) /\ x \notin D /\ y \notin D => Precedes(Without(es, D), x, y)
         /\ IsInjective(es) => IsInjective(Without(es, D))
<1> DEFINE k == Len(es)
<1>1. /\ k \in Nat /\ DOMAIN es = 1..k /\ \A i \in 1..k : es[i] \in T
  OBVIOUS
<1>2. PICK kept : /\ kept[0] = <<>> /\ Without(es, D) = kept[k]
                  /\ \A i \in 1..k : kept[i] = IF es[i] \in D THEN kept[i - 1] ELSE Append(kept[i - 1], es[i])
  BY SMTT(30), WithoutSteps
<1> HIDE DEF k
<1> DEFINE Good(m) ==
      /\ kept[m] \in Seq(T)
      /\ \A e \in ToSet(kept[m]) : \E i \in 1..m : e = es[i]
      /\ \A i \in 1..m : es[i] \notin D => es[i] \in ToSet(kept[m])
      /\ \A i, j \in 1..m : i < j /\ es[i] \notin D /\ es[j] \notin D => Precedes(kept[m], es[i], es[j])
      /\ IsInjective(es) => IsInjective(kept[m])
    Q == {m \in Nat : Good(m)}
<1>3. 0 \in Q
  <2>1. 1..0 = {}
    OBVIOUS
  <2> QED
    BY <1>2, <2>1, Few, AtMostOne
<1>4. ASSUME NEW m \in Nat, m \in Q, m < k PROVE m + 1 \in Q
  <2>1. m + 1 \in 1..k /\ (m + 1) - 1 = m /\ Good(m) /\ es[m + 1] \in T
    BY <1>1, <1>4
  <2>2. kept[m + 1] = IF es[m + 1] \in D THEN kept[m] ELSE Append(kept[m], es[m + 1])
    BY <1>2, <2>1
  <2>3. \A i : i \in 1..m + 1 <=> i \in 1..m \/ i = m + 1
    BY <1>4
  <2>4. CASE es[m + 1] \in D
    <3>1. kept[m + 1] = kept[m]
      BY <2>2, <2>4
    <3>2. Good(m + 1)
      BY <2>1, <2>3, <2>4, <3>1
    <3> HIDE DEF Good
    <3> QED
      BY <3>2
  <2>5. CASE es[m + 1] \notin D
    <3> DEFINE s == kept[m]
               t == <<es[m + 1]>>
    <3>1. kept[m + 1] = s \o t /\ s \in Seq(T) /\ t \in Seq(T) /\ ToSet(t) = {es[m + 1]} /\ IsInjective(t)
      BY SMTT(30), <2>1, <2>2, <2>5, Few, AtMostOne
    <3>2. /\ \A e \in ToSet(s) : \E i \in 1..m : e = es[i]
          /\ \A i \in 1..m : es[i] \notin D => es[i] \in ToSet(s)
          /\ \A i, j \in 1..m : i < j /\ es[i] \notin D /\ es[j] \notin D => Precedes(s, es[i], es[j])
          /\ IsInjective(es) => IsInjective(s)
      BY <2>1
    <3> HIDE DEF s, t
    <3>3. s \o t \in Seq(T) /\ ToSet(s \o t) = ToSet(s) \cup {es[m + 1]}
      BY <3>1, Joined
    <3>4. ASSUME NEW i \in 1..m + 1, NEW j \in 1..m + 1, i < j, es[i] \notin D, es[j] \notin D
          PROVE  Precedes(s \o t, es[i], es[j])
      <4>1. i \in 1..m
        BY <1>4, <3>4
      <4>2. CASE j \in 1..m
        BY <3>1, <3>2, <3>4, <4>1, <4>2, JoinedOrder
      <4>3. CASE j = m + 1
        BY <3>1, <3>2, <3>4, <4>1, <4>3, JoinedOrder
      <4> QED
        BY <2>3, <4>2, <4>3
    <3>5. ASSUME IsInjective(es) PROVE IsInjective(s \o t)
      <4>1. \A i \in 1..m : es[i] # es[m + 1]
        <5>1. \A i \in 1..m : i \in 1..k /\ i # m + 1
          BY <1>1, <1>4
        <5> QED
          BY <1>1, <2>1, <3>5, <5>1 DEF IsInjective
      <4>2. \A e \in ToSet(s) : e \notin ToSet(t)
        BY <3>1, <3>2, <4>1
      <4> QED
        BY <3>1, <3>2, <3>5, <4>2, JoinedOnce
    <3>6. Good(m + 1)
      BY <2>3, <3>1, <3>2, <3>3, <3>4, <3>5
    <3> HIDE DEF Good
    <3> QED
      BY <3>6
  <2> QED
    BY <2>4, <2>5
<1>5. Good(k)
  <2> HIDE DEF Q
  <2>1. k \in Q
    BY <1>1, <1>3, <1>4, Onwards
  <2> USE DEF Q
  <2> HIDE DEF Good
  <2> QED
    BY <2>1
<1>6. ASSUME NEW x, NEW y, Precedes(es, x, y), x \notin D, y \notin D PROVE Precedes(kept[k], x, y)
  BY <1>1, <1>5, <1>6 DEF Precedes
<1> QED
  BY <1>2, <1>5, <1>6

-----------------------------------------------------------------------------
(* What makes a whole sequence of events.                                   *)
LEMMA Brackets ==
  /\ \A n \in Nodes : Enter(n).by = n /\ Exit(n).by = n /\ Content(n).by = n
  /\ \A n \in Nodes : Enter(n).type = "pattern_enter" /\ Exit(n).type = "pattern_exit" /\ Content(n).type = "content"
  /\ \A n \in Nodes : \A s : Error(n, s).by = n /\ Error(n, s).type = "error" /\ Error(n, s).sev = s
  /\ \A m, n \in Nodes : Enter(m) # Exit(n)
  /\ User.type = "user_message"
  /\ \A n \in Nodes : Enter(n) \notin Own(n) /\ Exit(n) \notin Own(n) /\ Content(n) \in Own(n)
  /\ \A n \in Nodes, s \in Severities : Error(n, s) \in Own(n)
  /\ \A m, n \in Nodes : Enter(m) \notin Own(n) /\ Exit(m) \notin Own(n)
<1>1. /\ \A n \in Nodes : Enter(n).by = n /\ Exit(n).by = n /\ Content(n).by = n
      /\ \A n \in Nodes : Enter(n).type = "pattern_enter" /\ Exit(n).type = "pattern_exit" /\ Content(n).type = "content"
      /\ \A n \in Nodes : \A s : Error(n, s).by = n /\ Error(n, s).type = "error" /\ Error(n, s).sev = s
      /\ User.type = "user_message"
  BY DEF Enter, Exit, Content, Error, User, Ev
<1>2. \A m, n \in Nodes : Enter(m) \notin Own(n) /\ Exit(m) \notin Own(n)
  BY <1>1 DEF Own
<1>3. \A n \in Nodes : Content(n) \in Own(n) /\ \A s \in Severities : Error(n, s) \in Own(n)
  BY <1>1, EventForms DEF Own
<1>4. \A m, n \in Nodes : Enter(m) # Exit(n)
  BY <1>1
<1> QED
  BY <1>1, <1>2, <1>3, <1>4

LEMMA WholeFew ==
  ASSUME NEW own
  PROVE  /\ Whole(<<>>, own)
         /\ \A e \in own : (\A n \in Nodes : e # Enter(n)) => Whole(<<e>>, own)
<1>1. ToSet(<<>>) = {} /\ \A e : ToSet(<<e>>) = {e}
  BY Few
<1>2. Whole(<<>>, own)
  BY <1>1, AtMostOne DEF Whole
<1>3. ASSUME NEW e \in own, \A n \in Nodes : e # Enter(n) PROVE Whole(<<e>>, own)
  <2>1. ToSet(<<e>>) \ own = {} /\ \A n \in Nodes : Enter(n) \notin ToSet(<<e>>)
    BY <1>1, <1>3
  <2> QED
    BY <2>1, AtMostOne DEF Whole
<1> QED
  BY <1>2, <1>3

(* An interval in a part is one in the whole.                               *)
LEMMA SpansGrow ==
  ASSUME NEW s, NEW t, \A x, y : Precedes(s, x, y) => Precedes(t, x, y)
  PROVE  /\ \A m : Spans(s, m) => Spans(t, m)
         /\ \A e, m : Within(s, e, m) => Within(t, e, m)
         /\ \A m, x : Fitting(s, m, x) => Fitting(t, m, x)
BY DEF Spans, Within, Fitting, Apart, Inside

LEMMA PrecedesMembers ==
  ASSUME NEW s, NEW x, NEW y, Precedes(s, x, y)
  PROVE  x \in ToSet(s) /\ y \in ToSet(s)
BY DEF Precedes, ToSet

LEMMA WholeJoined ==
  ASSUME NEW s \in Seq(Logged), NEW t \in Seq(Logged), NEW own, Whole(s, own), Whole(t, own),
         \A e \in ToSet(s) : e \notin ToSet(t), \A n \in Nodes : Enter(n) \notin own
  PROVE  Whole(s \o t, own)
<1> DEFINE u == s \o t
<1>1. ToSet(u) = ToSet(s) \cup ToSet(t)
  BY Joined
<1>2. /\ \A x, y : Precedes(s, x, y) => Precedes(u, x, y)
      /\ \A x, y : Precedes(t, x, y) => Precedes(u, x, y)
      /\ \A x, y : x \in ToSet(s) /\ y \in ToSet(t) => Precedes(u, x, y)
  BY JoinedOrder
<1>3. IsInjective(u)
  BY JoinedOnce DEF Whole
<1> HIDE DEF u
<1>4. /\ \A m : Spans(s, m) => Spans(u, m)
      /\ \A e, m : Within(s, e, m) => Within(u, e, m)
      /\ \A m, x : Fitting(s, m, x) => Fitting(u, m, x)
  BY <1>2, SpansGrow
<1>5. /\ \A m : Spans(t, m) => Spans(u, m)
      /\ \A e, m : Within(t, e, m) => Within(u, e, m)
      /\ \A m, x : Fitting(t, m, x) => Fitting(u, m, x)
  BY <1>2, SpansGrow
<1>6. \A e \in ToSet(u) \ own : Spans(u, e.by) /\ Within(u, e, e.by)
  BY <1>1, <1>4, <1>5 DEF Whole
<1>7. ASSUME NEW m \in Nodes, NEW x \in Nodes, Enter(m) \in ToSet(s), Enter(x) \in ToSet(t)
      PROVE  Apart(u, m, x)
  <2>1. Spans(s, m)
    BY <1>7, Brackets DEF Whole
  <2>2. Exit(m) \in ToSet(s)
    BY <2>1, PrecedesMembers DEF Spans
  <2> QED
    BY <1>2, <1>7, <2>2 DEF Apart
<1>8. ASSUME NEW m \in Nodes, NEW x \in Nodes, {Enter(m), Enter(x)} \subseteq ToSet(u)
      PROVE  Fitting(u, m, x)
  <2>1. CASE Enter(m) \in ToSet(s) /\ Enter(x) \in ToSet(s)
    BY <1>4, <2>1 DEF Whole
  <2>2. CASE Enter(m) \in ToSet(t) /\ Enter(x) \in ToSet(t)
    BY <1>5, <2>2 DEF Whole
  <2>3. CASE Enter(m) \in ToSet(s) /\ Enter(x) \in ToSet(t)
    BY <1>7, <2>3 DEF Fitting
  <2>4. CASE Enter(m) \in ToSet(t) /\ Enter(x) \in ToSet(s)
    BY <1>7, <2>4 DEF Fitting
  <2> QED
    BY <1>1, <1>8, <2>1, <2>2, <2>3, <2>4
<1>9. Whole(u, own)
  BY <1>3, <1>6, <1>8 DEF Whole
<1> QED
  BY <1>9 DEF u

(* What a pattern brackets is whole for everyone.                           *)
LEMMA WholeWrapped ==
  ASSUME NEW c \in Nodes, NEW s \in Seq(Logged), Whole(s, Own(c)), Enter(c) \notin ToSet(s), Exit(c) \notin ToSet(s),
         NEW own
  PROVE  Whole(<<Enter(c)>> \o s \o <<Exit(c)>>, own)
<1> DEFINE a == <<Enter(c)>>
           b == <<Exit(c)>>
           v == a \o s
           w == v \o b
<1>1. /\ a \in Seq(Logged) /\ ToSet(a) = {Enter(c)} /\ IsInjective(a)
      /\ b \in Seq(Logged) /\ ToSet(b) = {Exit(c)} /\ IsInjective(b)
  BY EventForms, Few, AtMostOne
<1> HIDE DEF a, b
<1>2. v \in Seq(Logged) /\ ToSet(v) = {Enter(c)} \cup ToSet(s)
  BY <1>1, Joined
<1>3. /\ \A x, y : Precedes(s, x, y) => Precedes(v, x, y)
      /\ \A x, y : x \in ToSet(a) /\ y \in ToSet(s) => Precedes(v, x, y)
  BY <1>1, JoinedOrder
<1>4. IsInjective(v)
  BY <1>1, JoinedOnce DEF Whole
<1> HIDE DEF v
<1>5. ToSet(w) = {Enter(c)} \cup ToSet(s) \cup {Exit(c)}
  BY <1>1, <1>2, Joined
<1>6. /\ \A x, y : Precedes(v, x, y) => Precedes(w, x, y)
      /\ \A x, y : x \in ToSet(v) /\ y \in ToSet(b) => Precedes(w, x, y)
  BY <1>1, <1>2, JoinedOrder
<1>7. IsInjective(w)
  <2>1. \A e \in ToSet(v) : e \notin ToSet(b)
    BY <1>1, <1>2, Brackets
  <2> QED
    BY <1>1, <1>2, <1>4, <2>1, JoinedOnce
<1> HIDE DEF w
<1>8. Precedes(w, Enter(c), Exit(c)) /\ \A e \in ToSet(s) : Precedes(w, Enter(c), e) /\ Precedes(w, e, Exit(c))
  BY <1>1, <1>2, <1>3, <1>6
<1>9. \A x, y : Precedes(s, x, y) => Precedes(w, x, y)
  BY <1>3, <1>6
<1>10. /\ \A m : Spans(s, m) => Spans(w, m)
       /\ \A e, m : Within(s, e, m) => Within(w, e, m)
       /\ \A m, x : Fitting(s, m, x) => Fitting(w, m, x)
  BY <1>9, SpansGrow
<1>11. ASSUME NEW e \in ToSet(w) PROVE Spans(w, e.by) /\ Within(w, e, e.by)
  <2>1. CASE e \in {Enter(c), Exit(c)}
    BY <1>8, <2>1, Brackets DEF Spans, Within
  <2>2. CASE e \in ToSet(s) /\ e \in Own(c)
    BY <1>8, <2>2 DEF Spans, Within, Own
  <2>3. CASE e \in ToSet(s) /\ e \notin Own(c)
    BY <1>10, <2>3 DEF Whole
  <2> QED
    BY <1>5, <1>11, <2>1, <2>2, <2>3
<1>12. ASSUME NEW x \in Nodes, Enter(x) \in ToSet(s) PROVE Inside(w, x, c)
  <2>1. Spans(s, x)
    BY <1>12, Brackets DEF Whole
  <2>2. Exit(x) \in ToSet(s)
    BY <2>1, PrecedesMembers DEF Spans
  <2> QED
    BY <1>8, <1>12, <2>2 DEF Inside
<1>13. ASSUME NEW x \in Nodes, Enter(x) \in ToSet(w) PROVE x = c \/ Enter(x) \in ToSet(s)
  BY <1>5, <1>13, Brackets
<1>14. ASSUME NEW m \in Nodes, NEW x \in Nodes, {Enter(m), Enter(x)} \subseteq ToSet(w) PROVE Fitting(w, m, x)
  <2>1. CASE m = c \/ x = c
    BY <1>12, <1>13, <1>14, <2>1 DEF Fitting
  <2>2. CASE m # c /\ x # c
    BY <1>10, <1>13, <1>14, <2>2 DEF Whole
  <2> QED
    BY <2>1, <2>2
<1>15. Whole(w, own)
  BY <1>7, <1>11, <1>14 DEF Whole
<1>16. w = <<Enter(c)>> \o s \o <<Exit(c)>>
  BY DEF w, v, a, b
<1> QED
  BY <1>15, <1>16

(* A filter that drops no bracket keeps a sequence whole.                   *)
LEMMA WholeKept ==
  ASSUME NEW s \in Seq(Logged), NEW own, NEW D, Whole(s, own), \A n \in Nodes : Enter(n) \notin D /\ Exit(n) \notin D,
         \A e \in ToSet(s) : e \in own \/ e.by \in Nodes
  PROVE  Whole(Without(s, D), own)
<1> DEFINE t == Without(s, D)
<1>1. t \in Seq(Logged) /\ ToSet(t) = ToSet(s) \ D
  BY WithoutMembers
<1>2. /\ \A x, y : Precedes(s, x, y) /\ x \notin D /\ y \notin D => Precedes(t, x, y)
      /\ IsInjective(t)
  BY WithoutOrder DEF Whole
<1> HIDE DEF t
<1>3. ASSUME NEW e \in ToSet(t) \ own PROVE Spans(t, e.by) /\ Within(t, e, e.by)
  BY <1>1, <1>2 DEF Whole, Spans, Within
<1>4. ASSUME NEW m \in Nodes, NEW x \in Nodes, {Enter(m), Enter(x)} \subseteq ToSet(t) PROVE Fitting(t, m, x)
  <2>1. Fitting(s, m, x)
    BY <1>1, <1>4 DEF Whole
  <2> QED
    BY <1>2, <2>1 DEF Fitting, Apart, Inside
<1>5. Whole(t, own)
  BY <1>2, <1>3, <1>4 DEF Whole
<1> QED
  BY <1>5 DEF t

(* A whole log is well bracketed.                                           *)
LEMMA WholeBracketed ==
  ASSUME NEW s \in Seq(Logged), Whole(s, {User}), \A e \in ToSet(s) : e = User \/ e.by \in Nodes
  PROVE  LET At(e)   == CHOOSE i \in DOMAIN s : s[i] = e
             In      == {n \in Nodes : Enter(n) \in ToSet(s)}
             Span(n) == At(Enter(n))..At(Exit(n))
         IN  /\ IsInjective(s)
             /\ \A e \in ToSet(s) \ {User} : /\ {Enter(e.by), Exit(e.by)} \subseteq ToSet(s)
                                             /\ At(e) \in Span(e.by)
             /\ \A m, n \in In : \/ Span(m) \cap Span(n) = {}
                                 \/ Span(m) \subseteq Span(n) \/ Span(n) \subseteq Span(m)
<1> DEFINE At(e)   == CHOOSE i \in DOMAIN s : s[i] = e
           In      == {n \in Nodes : Enter(n) \in ToSet(s)}
           Span(n) == At(Enter(n))..At(Exit(n))
<1>1. DOMAIN s = 1..Len(s) /\ Len(s) \in Nat /\ IsInjective(s)
  BY Indexed DEF Whole
<1>2. ASSUME NEW i \in DOMAIN s PROVE At(s[i]) = i
  BY <1>1 DEF IsInjective
<1>3. \A e \in ToSet(s) : At(e) \in Nat
  BY <1>1, <1>2, Indexed
<1> HIDE DEF At
<1>4. ASSUME NEW x, NEW y, Precedes(s, x, y) PROVE At(x) < At(y) /\ At(x) \in Nat /\ At(y) \in Nat /\ {x, y} \subseteq ToSet(s)
  <2>1. PICK i, j \in DOMAIN s : i < j /\ s[i] = x /\ s[j] = y
    BY <1>4 DEF Precedes
  <2>2. At(x) = i /\ At(y) = j
    BY <1>2, <2>1
  <2> QED
    BY <1>1, <1>4, <2>1, <2>2, PrecedesMembers
<1>5. ASSUME NEW e \in ToSet(s) \ {User}
      PROVE  {Enter(e.by), Exit(e.by)} \subseteq ToSet(s) /\ At(e) \in Span(e.by)
  <2>1. Spans(s, e.by) /\ Within(s, e, e.by)
    BY <1>5 DEF Whole
  <2>2. At(Enter(e.by)) < At(Exit(e.by)) /\ {Enter(e.by), Exit(e.by)} \subseteq ToSet(s)
        /\ At(Enter(e.by)) \in Nat /\ At(Exit(e.by)) \in Nat
    BY <1>4, <2>1 DEF Spans
  <2>3. CASE e \in {Enter(e.by), Exit(e.by)}
    BY <2>2, <2>3
  <2>4. CASE Precedes(s, Enter(e.by), e) /\ Precedes(s, e, Exit(e.by))
    <3>1. At(Enter(e.by)) < At(e) /\ At(e) < At(Exit(e.by)) /\ At(e) \in Nat
      BY <1>4, <2>4
    <3> QED
      BY <2>2, <3>1
  <2> QED
    BY <2>1, <2>2, <2>3, <2>4 DEF Within
<1>6. ASSUME NEW m \in In, NEW n \in In
      PROVE  Span(m) \cap Span(n) = {} \/ Span(m) \subseteq Span(n) \/ Span(n) \subseteq Span(m)
  <2>1. Fitting(s, m, n)
    BY DEF Whole
  <2>2. /\ At(Enter(m)) \in Nat /\ At(Exit(m)) \in Nat /\ At(Enter(n)) \in Nat /\ At(Exit(n)) \in Nat
        /\ At(Enter(m)) < At(Exit(m)) /\ At(Enter(n)) < At(Exit(n))
    <3>1. \A x \in In : Spans(s, x)
      BY Brackets DEF Whole
    <3> QED
      BY <1>4, <3>1 DEF Spans
  <2>3. CASE m = n
    BY <2>3
  <2>4. CASE Apart(s, m, n) \/ Apart(s, n, m)
    <3>1. At(Exit(m)) < At(Enter(n)) \/ At(Exit(n)) < At(Enter(m))
      BY <1>4, <2>4 DEF Apart
    <3> QED
      BY <2>2, <3>1
  <2>5. CASE Inside(s, m, n)
    <3>1. At(Enter(n)) < At(Enter(m)) /\ At(Exit(m)) < At(Exit(n))
      BY <1>4, <2>5 DEF Inside
    <3> QED
      BY <2>2, <3>1
  <2>6. CASE Inside(s, n, m)
    <3>1. At(Enter(m)) < At(Enter(n)) /\ At(Exit(n)) < At(Exit(m))
      BY <1>4, <2>6 DEF Inside
    <3> QED
      BY <2>2, <3>1
  <2> QED
    BY <2>1, <2>3, <2>4, <2>5, <2>6 DEF Fitting
<1> QED
  BY <1>1, <1>5, <1>6 DEF At

-----------------------------------------------------------------------------
(* An event in a scope is in the scope of the pattern that tracked it, or a *)
(* bracket of it in the scope of the one that wraps it.                     *)
LEMMA Through ==
  ASSUME ScopesOwn, NEW m \in Nodes, NEW e \in ToSet(events[m]), NEW n \in Nodes, e.by = n
  PROVE  \/ e \in ToSet(events[n])
         \/ e \in {Enter(n), Exit(n)} /\ \E w \in Nodes : Wraps(w, n) /\ e \in ToSet(events[w])
<1> DEFINE Found(x) == \/ e \in ToSet(events[x])
                       \/ x = n /\ e \in {Enter(n), Exit(n)} /\ \E w \in Nodes : Wraps(w, n) /\ e \in ToSet(events[w])
           S == {x \in Under[m] : n \in Under[x] => Found(x)}
<1>1. n \in Under[m]
  BY DEF ScopesOwn
<1>2. m \in S /\ S \in SUBSET Nodes
  BY UnderFacts
<1>3. ASSUME NEW x \in S, NEW c \in ToSet(Children[x]) PROVE c \in S
  <2>1. x \in Nodes /\ c \in Nodes /\ Wraps(x, c) /\ c \in Under[m]
    BY <1>2, TreeFacts, UnderFacts DEF Wraps
  <2>2. ASSUME n \in Under[c] PROVE Found(c)
    <3>1. n \in Under[x] /\ x # n
      BY <2>1, <2>2, UnderFacts, NotBelowItself
    <3>2. e \in ToSet(events[x])
      BY <3>1
    <3>3. e \in {Enter(c), Exit(c)} \cup ToSet(events[c])
      BY <2>1, <2>2, <3>2 DEF ScopesOwn
    <3>4. e \in {Enter(c), Exit(c)} => c = n
      BY <2>1, Brackets
    <3> QED
      BY <2>1, <3>2, <3>3, <3>4
  <2> QED
    BY <2>1, <2>2
<1>4. Closed(S)
  BY <1>3 DEF Closed
<1> HIDE DEF Found
<1>5. n \in S
  <2> HIDE DEF S
  <2> QED
    BY <1>1, <1>2, <1>4 DEF Under, Closed
<1>6. Found(n)
  BY <1>5, UnderFacts
<1> QED
  BY <1>6 DEF Found

(* What is a pattern's own to track: its events but for its brackets, and   *)
(* the brackets of whom it wraps.                                           *)
ItsOwn(e, n) == e \in Own(n) \/ \E c \in ToSet(Children[n]) : e \in {Enter(c), Exit(c)}

(* It is first in his own scope, and before that in nobody's.               *)
LEMMA Fresh ==
  ASSUME ScopesOwn, NEW n \in Nodes, NEW e, ItsOwn(e, n), e \notin ToSet(events[n]), NEW m \in Nodes
  PROVE  e \notin ToSet(events[m])
<1> SUFFICES ASSUME e \in ToSet(events[m]) PROVE FALSE
  OBVIOUS
<1>1. CASE e \in Own(n)
  <2>1. e.by = n /\ e \notin {Enter(n), Exit(n)}
    BY <1>1 DEF Own
  <2> QED
    BY <2>1, Through
<1>2. ASSUME NEW c \in ToSet(Children[n]), e \in {Enter(c), Exit(c)} PROVE FALSE
  <2>1. c \in Nodes /\ Wraps(n, c) /\ e.by = c
    BY <1>2, TreeFacts, Brackets
  <2>2. e \notin ToSet(events[c])
    BY <1>2, <2>1 DEF ScopesOwn
  <2>3. PICK w \in Nodes : Wraps(w, c) /\ e \in ToSet(events[w])
    BY <2>1, <2>2, Through
  <2>4. w = n
    BY <2>1, <2>3, TreeFacts
  <2> QED
    BY <2>3, <2>4
<1> QED
  BY <1>1, <1>2 DEF ItsOwn

(* So nobody has heard of it either.                                        *)
LEMMA NobodyHeard ==
  ASSUME ScopesOwn, HeardOnce, NEW n \in Nodes, NEW e, ItsOwn(e, n), e.type # "user_message",
         e \notin ToSet(events[n])
  PROVE  e \notin ToSet(heard)
<1> SUFFICES ASSUME e \in ToSet(heard) PROVE FALSE
  OBVIOUS
<1>1. \A m \in Nodes : e \notin ToSet(events[m])
  BY Fresh
<1>2. PICK i \in DOMAIN Top : e = Enter(Top[i]) \/ e = Exit(Top[i])
  BY <1>1, Brackets DEF HeardOnce
<1>3. Top[i] \in Nodes /\ Top[i] \in ToSet(Top)
  BY TreeFacts
<1>4. e \notin Own(n)
  BY <1>2, <1>3, Brackets
<1>5. ASSUME NEW c \in ToSet(Children[n]), e \in {Enter(c), Exit(c)} PROVE FALSE
  <2>1. c \in Nodes /\ c \notin ToSet(Top)
    BY TreeFacts
  <2>2. c = Top[i]
    BY <1>2, <1>3, <1>5, <2>1, Brackets
  <2> QED
    BY <1>3, <2>1, <2>2
<1> QED
  BY <1>4, <1>5 DEF ItsOwn

-----------------------------------------------------------------------------
(* What a step of a pattern tracks: events of its own, the entry of whom it *)
(* calls and the whole of whom it collects; a part of its own is heard.     *)
Taken(e, c, es, cs) ==
  \/ e = Enter(c) /\ c \in cs
  \/ e \in {Enter(c), Exit(c)} \cup ToSet(events[c]) /\ phase[c] = "returned" /\ Exit(c) \in ToSet(es)

Sources(n, es, cs) ==
  \A e \in ToSet(es) :
    /\ e \notin ToSet(events[n])
    /\ (e \in Own(n) /\ e.type # "user_message") \/ \E c \in ToSet(Children[n]) : Taken(e, c, es, cs)

Results(n, es, p, cs) ==
  \/ p = "threw" \/ Whole(events[n] \o es, Own(n))
  \/ /\ Sequential(n) /\ p = "running" /\ Whole(events[n], Own(n))
     /\ \E c \in ToSet(Children[n]) : c \in cs /\ es = <<Enter(c)>>

GoesOn(n, es, p, cs) ==
  p = "running" =>
    IF Sequential(n)
    THEN /\ \A e \in ToSet(es) : e.by # n /\ (Kind[n] = "routes" => NoExit(e))
         /\ \A c \in cs : Enter(c) \in ToSet(es)
    ELSE /\ events[n] = <<>> /\ ToSet(es) \subseteq {Content(n)}
         /\ es = <<>> \/ Kind[n] = "leaf" \/ (Kind[n] = "references" /\ cs # {})

Loud(n, es, loud) ==
  /\ loud \in Seq(Logged) /\ IsInjective(loud) /\ ToSet(loud) \subseteq ToSet(es)
  /\ \A e \in ToSet(loud) : ItsOwn(e, n) /\ e.type # "user_message"

Tells(n, es, loud, p, cs) ==
  /\ phase[n] = "running" /\ es \in Seq(Logged) /\ p \in {"running", "returned", "threw"}
  /\ cs \subseteq ToSet(Children[n]) /\ \A c \in cs : phase[c] = "idle"
  /\ Sources(n, es, cs) /\ Results(n, es, p, cs) /\ GoesOn(n, es, p, cs) /\ Loud(n, es, loud)

Telling(n) == \E es, loud, p, d, cs : Tells(n, es, loud, p, cs) /\ Moves(n, es, p, d, cs) /\ EmitLive(loud)

-----------------------------------------------------------------------------
(* The scopes after a step: n has grown, everybody else is as he was.       *)
Grown(n, es, p, cs) ==
  /\ n \notin cs /\ cs \subseteq Nodes /\ events[n] \in Seq(Logged)
  /\ events'[n] = events[n] \o es /\ ToSet(events'[n]) = ToSet(events[n]) \cup ToSet(es)
  /\ \A x \in Nodes : x # n => events'[x] = events[x]
  /\ \A x \in Nodes : ToSet(events[x]) \subseteq ToSet(events'[x])
  /\ phase'[n] = p /\ \A c \in cs : phase'[c] = "running" /\ events[c] = <<>>
  /\ \A x \in Nodes : x # n /\ x \notin cs => phase'[x] = phase[x]
  /\ \A x \in Nodes : phase[x] # "idle" => phase'[x] # "idle"
  /\ \A x \in Nodes : phase[x] \in {"returned", "threw", "collected"} => phase'[x] = phase[x]

LEMMA MoveScopes ==
  ASSUME FailuresInv, NEW n \in Nodes, NEW es, NEW loud, NEW p, NEW d, NEW cs,
         Tells(n, es, loud, p, cs), Moves(n, es, p, d, cs)
  PROVE  Grown(n, es, p, cs)
<1>1. /\ phase[n] = "running" /\ es \in Seq(Logged) /\ p # "idle" /\ \A c \in cs : phase[c] = "idle"
      /\ cs \subseteq ToSet(Children[n])
  BY DEF Tells
<1>2. n \notin cs /\ cs \subseteq Nodes
  BY <1>1, TreeFacts
<1>3. events[n] \in Seq(Logged) /\ \A x \in Nodes : phase[x] = "idle" => events[x] = <<>>
  BY DEF FailuresInv, ScopesOK
<1>4. /\ events'[n] = events[n] \o es
      /\ \A x \in Nodes : x # n => events'[x] = events[x]
  BY <1>1, <1>2, <1>3 DEF Moves
<1>5. ToSet(events[n] \o es) = ToSet(events[n]) \cup ToSet(es)
  BY <1>1, <1>3, Joined
<1>6. ToSet(events'[n]) = ToSet(events[n]) \cup ToSet(es)
  BY <1>4, <1>5
<1>7. \A x \in Nodes : ToSet(events[x]) \subseteq ToSet(events'[x])
  BY <1>4, <1>6
<1>8. /\ phase'[n] = p /\ \A c \in cs : phase'[c] = "running" /\ events[c] = <<>>
      /\ \A x \in Nodes : x # n /\ x \notin cs => phase'[x] = phase[x]
  BY <1>1, <1>2, <1>3 DEF Moves
<1> QED
  BY <1>1, <1>2, <1>3, <1>4, <1>6, <1>7, <1>8 DEF Grown

LEMMA MoveKeepsWhole ==
  ASSUME FailuresInv, ScopesWhole, NEW n \in Nodes, NEW es, NEW loud, NEW p, NEW d, NEW cs,
         Tells(n, es, loud, p, cs), Moves(n, es, p, d, cs)
  PROVE  ScopesWhole'
<1>0. Grown(n, es, p, cs)
  BY MoveScopes
<1>1. /\ n \notin cs /\ cs \subseteq Nodes
      /\ events'[n] = events[n] \o es /\ ToSet(events'[n]) = ToSet(events[n]) \cup ToSet(es)
      /\ \A x \in Nodes : x # n => events'[x] = events[x]
      /\ phase'[n] = p /\ \A c \in cs : phase'[c] = "running" /\ events[c] = <<>>
      /\ \A x \in Nodes : x # n /\ x \notin cs => phase'[x] = phase[x]
      /\ \A x \in Nodes : phase[x] # "idle" => phase'[x] # "idle"
  BY <1>0 DEF Grown
<1>2. ASSUME NEW x \in Nodes, phase'[x] # "threw"
      PROVE  Whole(events'[x], Own(x)) \/ (Sequential(x) /\ phase'[x] = "running" /\ Open(x)')
  <2>1. CASE x \in cs
    BY <1>1, <2>1, WholeFew
  <2>2. CASE x # n /\ x \notin cs
    <3>1. phase'[x] = phase[x] /\ events'[x] = events[x] /\ phase[x] # "threw"
      BY <1>1, <1>2, <2>2
    <3>2. Open(x) => Open(x)'
      BY <1>1, <3>1, TreeFacts DEF Open
    <3> QED
      BY <3>1, <3>2 DEF ScopesWhole
  <2>3. CASE x = n
    <3>1. p # "threw" /\ Results(n, es, p, cs)
      BY <1>1, <1>2, <2>3 DEF Tells
    <3>2. CASE Whole(events[n] \o es, Own(n))
      BY <1>1, <2>3, <3>2
    <3>3. ASSUME Sequential(n), p = "running", Whole(events[n], Own(n)),
                 NEW c \in ToSet(Children[n]), c \in cs, es = <<Enter(c)>>
          PROVE  Open(n)'
      <4>1. events[n] \in Seq(Logged) /\ c \in Nodes /\ phase[c] = "idle"
        BY <3>3, TreeFacts DEF FailuresInv, ScopesOK, Tells
      <4>2. Exit(c) \notin ToSet(events[n])
        BY <4>1 DEF FailuresInv, ExitsOK
      <4>3. Exit(c) \notin ToSet(events'[n])
        BY <1>1, <3>3, <4>1, <4>2, Few, Brackets
      <4>4. events'[n] = events[n] \o <<Enter(c)>> /\ phase'[c] # "idle"
        BY <1>1, <3>3
      <4> QED
        BY <3>3, <4>1, <4>3, <4>4 DEF Open
    <3> QED
      BY <1>1, <2>3, <3>1, <3>2, <3>3 DEF Results
  <2> QED
    BY <2>1, <2>2, <2>3
<1> QED
  BY <1>2 DEF ScopesWhole, Sequential

(* What is taken from a child is of it or of those below it.                *)
LEMMA TakenBelow ==
  ASSUME ScopesOwn, NEW n \in Nodes, NEW c \in ToSet(Children[n]), NEW es, NEW cs, NEW e, Taken(e, c, es, cs)
  PROVE  /\ c \in Nodes /\ Wraps(n, c) /\ e.by \in Under[c] /\ e.by \in Under[n] /\ e.by # n
         /\ e.type # "user_message"
<1>1. c \in Nodes /\ Wraps(n, c)
  BY TreeFacts
<1>2. e \in {Enter(c), Exit(c)} \cup ToSet(events[c])
  BY DEF Taken
<1>3. e.by \in Under[c] /\ e.type # "user_message"
  BY <1>1, <1>2, Brackets, UnderFacts DEF ScopesOwn
<1> QED
  BY <1>1, <1>3, UnderFacts, NotBelowItself

LEMMA MoveKeepsOwn ==
  ASSUME FailuresInv, ScopesOwn, NEW n \in Nodes, NEW es, NEW loud, NEW p, NEW d, NEW cs,
         Tells(n, es, loud, p, cs), Moves(n, es, p, d, cs)
  PROVE  ScopesOwn'
<1>0. Grown(n, es, p, cs)
  BY MoveScopes
<1>1. /\ n \notin cs /\ cs \subseteq Nodes
      /\ ToSet(events'[n]) = ToSet(events[n]) \cup ToSet(es)
      /\ \A x \in Nodes : x # n => events'[x] = events[x]
      /\ \A x \in Nodes : ToSet(events[x]) \subseteq ToSet(events'[x])
      /\ \A c \in cs : phase'[c] = "running"
      /\ \A x \in Nodes : phase[x] # "idle" => phase'[x] # "idle"
  BY <1>0 DEF Grown
<1>2. \A e \in ToSet(es) : (e \in Own(n) /\ e.type # "user_message") \/ \E c \in ToSet(Children[n]) : Taken(e, c, es, cs)
  BY DEF Tells, Sources
<1>3. ASSUME NEW m \in Nodes, NEW e \in ToSet(events'[m])
      PROVE  e.by \in Under[m] /\ e \notin {Enter(m), Exit(m)} /\ e.type # "user_message"
  <2>1. CASE e \in ToSet(events[m])
    BY <2>1 DEF ScopesOwn
  <2>2. CASE e \notin ToSet(events[m])
    <3>1. m = n /\ e \in ToSet(es)
      BY <1>1, <1>3, <2>2
    <3>2. CASE e \in Own(n) /\ e.type # "user_message"
      BY <3>1, <3>2, UnderFacts DEF Own
    <3>3. ASSUME NEW c \in ToSet(Children[n]), Taken(e, c, es, cs)
          PROVE  e.by \in Under[n] /\ e \notin {Enter(n), Exit(n)} /\ e.type # "user_message"
      BY <3>3, TakenBelow, Brackets
    <3> QED
      BY <1>2, <3>1, <3>2, <3>3
  <2> QED
    BY <2>1, <2>2
<1>4. ASSUME NEW m \in Nodes, NEW c \in Nodes, Wraps(m, c), NEW e \in ToSet(events'[m]), e.by \in Under[c]
      PROVE  /\ e \in {Enter(c), Exit(c)} \cup ToSet(events'[c])
             /\ phase'[c] # "idle" /\ (e = Enter(c) \/ Exit(c) \in ToSet(events'[m]))
  <2>1. CASE e \in ToSet(events[m])
    <3>1. /\ e \in {Enter(c), Exit(c)} \cup ToSet(events[c])
          /\ phase[c] # "idle" /\ (e = Enter(c) \/ Exit(c) \in ToSet(events[m]))
      BY <1>4, <2>1 DEF ScopesOwn
    <3> QED
      BY <1>1, <3>1
  <2>2. CASE e \notin ToSet(events[m])
    <3>1. m = n /\ e \in ToSet(es)
      BY <1>1, <1>4, <2>2
    <3>2. e \notin Own(n)
      BY <1>4, <3>1, NotBelowItself DEF Own
    <3>3. PICK x \in ToSet(Children[n]) : Taken(e, x, es, cs)
      BY <1>2, <3>1, <3>2
    <3>4. x = c
      BY <1>4, <3>1, <3>3, TakenBelow, Families
    <3>5. CASE e = Enter(c) /\ c \in cs
      BY <1>1, <3>5
    <3>6. CASE e \in {Enter(c), Exit(c)} \cup ToSet(events[c]) /\ phase[c] = "returned" /\ Exit(c) \in ToSet(es)
      BY <1>1, <3>1, <3>6
    <3> QED
      BY <3>3, <3>4, <3>5, <3>6 DEF Taken
  <2> QED
    BY <2>1, <2>2
<1> QED
  BY <1>3, <1>4 DEF ScopesOwn

LEMMA MoveKeepsRunning ==
  ASSUME FailuresInv, RunningOwn, NEW n \in Nodes, NEW es, NEW loud, NEW p, NEW d, NEW cs,
         Tells(n, es, loud, p, cs), Moves(n, es, p, d, cs)
  PROVE  RunningOwn'
<1>0. Grown(n, es, p, cs)
  BY MoveScopes
<1>1. /\ n \notin cs /\ cs \subseteq Nodes
      /\ events[n] \in Seq(Logged)
      /\ events'[n] = events[n] \o es /\ ToSet(events'[n]) = ToSet(events[n]) \cup ToSet(es)
      /\ \A x \in Nodes : x # n => events'[x] = events[x]
      /\ \A c \in cs : phase'[c] = "running" /\ events[c] = <<>>
      /\ \A x \in Nodes : x # n /\ x \notin cs => phase'[x] = phase[x]
      /\ \A x \in Nodes : phase[x] # "idle" => phase'[x] # "idle"
      /\ phase'[n] = p
  BY <1>0 DEF Grown
<1>2. phase[n] = "running" /\ \A c \in cs : phase[c] = "idle" /\ Wraps(n, c)
  BY DEF Tells, Wraps
<1> DEFINE Tracked(x) ==
      IF Sequential(x)
      THEN /\ \A e \in ToSet(events'[x]) : e.by # x
           /\ \A c \in Nodes : Wraps(x, c) /\ phase'[c] # "idle" => Enter(c) \in ToSet(events'[x])
           /\ Kind[x] = "routes" => \A c \in Nodes : Exit(c) \notin ToSet(events'[x])
      ELSE /\ ToSet(events'[x]) \subseteq {Content(x)}
           /\ events'[x] = <<>> \/ Kind[x] = "leaf" \/ (Kind[x] = "references" /\ ~Untouched(x)')
<1>3. ASSUME NEW x \in Nodes, x # n, x \notin cs, phase'[x] = "running" PROVE Tracked(x)
  <2>1. phase[x] = "running" /\ events'[x] = events[x]
    BY <1>1, <1>3
  <2>2. \A c \in Nodes : Wraps(x, c) => c \notin cs
    BY <1>2, <1>3, TreeFacts
  <2>3. \A c \in Nodes : Wraps(x, c) /\ phase'[c] # "idle" => phase[c] # "idle"
    BY <1>1, <1>2, <2>2
  <2>4. ~Untouched(x) => ~Untouched(x)'
    BY <1>1 DEF Untouched
  <2> QED
    BY <2>1, <2>3, <2>4 DEF RunningOwn
<1>4. ASSUME NEW x \in cs PROVE Tracked(x)
  <2>1. x \in Nodes /\ x # n /\ events'[x] = <<>> /\ phase[x] = "idle" /\ Wraps(n, x)
    BY <1>1, <1>2
  <2>2. ToSet(events'[x]) = {}
    BY <2>1, Few
  <2>3. ASSUME NEW c \in Nodes, Wraps(x, c), phase'[c] # "idle" PROVE FALSE
    <3>1. phase[c] = "idle"
      BY <2>1, <2>3 DEF FailuresInv, CallsOK
    <3>2. c \in cs
      BY <1>1, <1>2, <2>3, <3>1
    <3>3. x = n
      BY <1>2, <2>1, <2>3, <3>2, TreeFacts
    <3> QED
      BY <2>1, <3>3
  <2> QED
    BY <2>1, <2>2, <2>3
<1>5. ASSUME p = "running" PROVE Tracked(n)
  <2>1. GoesOn(n, es, p, cs) /\ es \in Seq(Logged)
    BY DEF Tells
  <2>2. CASE Sequential(n)
    <3>1. /\ \A e \in ToSet(es) : e.by # n /\ (Kind[n] = "routes" => NoExit(e))
          /\ \A c \in cs : Enter(c) \in ToSet(es)
      BY <1>5, <2>1, <2>2 DEF GoesOn
    <3>2. /\ \A e \in ToSet(events[n]) : e.by # n
          /\ \A c \in Nodes : Wraps(n, c) /\ phase[c] # "idle" => Enter(c) \in ToSet(events[n])
          /\ Kind[n] = "routes" => \A c \in Nodes : Exit(c) \notin ToSet(events[n])
      BY <1>2, <2>2 DEF RunningOwn
    <3>3. ASSUME NEW c \in Nodes, Wraps(n, c), phase'[c] # "idle" PROVE Enter(c) \in ToSet(events'[n])
      BY <1>1, <3>1, <3>2, <3>3, TreeFacts
    <3> QED
      BY <1>1, <2>2, <3>1, <3>2, <3>3 DEF NoExit
  <2>3. CASE ~Sequential(n)
    <3>1. /\ events[n] = <<>> /\ ToSet(es) \subseteq {Content(n)}
          /\ es = <<>> \/ Kind[n] = "leaf" \/ (Kind[n] = "references" /\ cs # {})
      BY <1>5, <2>1, <2>3 DEF GoesOn
    <3>2. events'[n] = es
      BY <1>1, <2>1, <3>1
    <3>3. cs # {} => ~Untouched(n)'
      BY <1>1, <1>2 DEF Untouched
    <3> QED
      BY <2>3, <3>1, <3>2, <3>3
  <2> QED
    BY <2>2, <2>3
<1>6. \A x \in Nodes : phase'[x] = "running" => Tracked(x)
  BY <1>1, <1>3, <1>4, <1>5
<1> QED
  BY <1>6 DEF RunningOwn, Sequential

LEMMA MoveKeepsHeard ==
  ASSUME FailuresInv, EventsInv, NEW n \in Nodes, NEW es, NEW loud, NEW p, NEW d, NEW cs,
         Tells(n, es, loud, p, cs), Moves(n, es, p, d, cs), EmitLive(loud)
  PROVE  HeardOnce' /\ LogWhole'
<1>0. Grown(n, es, p, cs)
  BY MoveScopes
<1>1. /\ n \notin cs /\ cs \subseteq Nodes
      /\ ToSet(events'[n]) = ToSet(events[n]) \cup ToSet(es)
      /\ \A x \in Nodes : ToSet(events[x]) \subseteq ToSet(events'[x])
      /\ \A x \in Nodes : x # n /\ x \notin cs => phase'[x] = phase[x]
      /\ \A x \in Nodes : phase[x] # "idle" => phase'[x] # "idle"
      /\ \A x \in Nodes : phase[x] \in {"returned", "threw", "collected"} => phase'[x] = phase[x]
  BY <1>0 DEF Grown
<1>2. /\ heard \in Seq(Logged) /\ IsInjective(heard) /\ loud \in Seq(Logged) /\ IsInjective(loud)
      /\ ToSet(loud) \subseteq ToSet(es) /\ \A e \in ToSet(loud) : ItsOwn(e, n) /\ e.type # "user_message"
      /\ \A e \in ToSet(es) : e \notin ToSet(events[n])
  BY DEF EventsInv, HeardOnce, Tells, Loud, Sources
<1>3. \A e \in ToSet(loud) : e \notin ToSet(heard)
  BY <1>2, NobodyHeard DEF EventsInv
<1>4. /\ heard \o loud \in Seq(Logged) /\ IsInjective(heard \o loud)
      /\ ToSet(heard \o loud) = ToSet(heard) \cup ToSet(loud)
  <2>1. \A e \in ToSet(heard) : e \notin ToSet(loud)
    BY <1>3
  <2> QED
    BY <1>2, <2>1, Joined, JoinedOnce
<1>5. /\ heard' \in Seq(Logged) /\ IsInjective(heard') /\ ToSet(heard) \subseteq ToSet(heard')
      /\ \A e \in ToSet(heard') : e \in ToSet(heard) \/ (e \in ToSet(loud) /\ e \in emitted')
      /\ emitted \subseteq emitted' /\ emitted' \subseteq ToSet(heard')
  <2>1. CASE live
    <3>1. heard' = heard \o loud /\ emitted' = emitted \cup ToSet(loud)
      BY <2>1 DEF EmitLive
    <3> QED
      BY <1>4, <3>1 DEF EventsInv, HeardOnce
  <2>2. CASE ~live
    <3>1. heard' = heard /\ emitted' = emitted
      BY <2>2 DEF EmitLive
    <3> QED
      BY <1>2, <3>1 DEF EventsInv, HeardOnce
  <2> QED
    BY <2>1, <2>2
<1>6. /\ UNCHANGED <<log, live, pos>>
  BY DEF Moves, chain
<1>7. InTop' = InTop
  <2>1. ASSUME pos \in DOMAIN Top PROVE phase[Top[pos]] = "idle" <=> phase'[Top[pos]] = "idle"
    <3>1. Top[pos] \in Nodes /\ Top[pos] \notin cs
      BY <2>1, TreeFacts DEF Tells
    <3>2. CASE Top[pos] = n
      BY <1>1, <3>2 DEF Tells
    <3>3. CASE Top[pos] # n
      BY <1>1, <3>1, <3>3
    <3> QED
      BY <3>2, <3>3
  <2> QED
    BY <1>6, <2>1 DEF InTop
<1>8. \A i : Passed(i)' = Passed(i)
  BY <1>6 DEF Passed
<1>9. ASSUME NEW e \in ToSet(heard')
      PROVE  /\ \/ e = User \/ \E m \in Nodes : e \in ToSet(events'[m])
                \/ \E i \in DOMAIN Top : \/ e = Enter(Top[i]) /\ phase'[Top[i]] # "idle"
                                         \/ e = Exit(Top[i]) /\ Passed(i)'
             /\ e \in emitted' \/ e = User \/ \E i \in DOMAIN Top : Passed(i)' /\ e.by \in Under[Top[i]]
  <2>1. CASE e \in ToSet(heard)
    <3>1. e \in emitted' \/ e = User \/ \E i \in DOMAIN Top : Passed(i)' /\ e.by \in Under[Top[i]]
      BY <1>5, <1>8, <2>1 DEF EventsInv, HeardOnce
    <3>2. \/ e = User \/ \E m \in Nodes : e \in ToSet(events[m])
          \/ \E i \in DOMAIN Top : (e = Enter(Top[i]) /\ phase[Top[i]] # "idle") \/ (e = Exit(Top[i]) /\ Passed(i))
      BY <2>1 DEF EventsInv, HeardOnce
    <3> QED
      BY <1>1, <1>8, <3>1, <3>2, TreeFacts
  <2>2. CASE e \in ToSet(loud) /\ e \in emitted'
    BY <1>1, <1>2, <2>2
  <2> QED
    BY <1>5, <2>1, <2>2
<1>10. HeardOnce'
  <2>1. IF InTop' THEN live' = (Top[pos'] \in Live) ELSE ~live'
    BY <1>6, <1>7 DEF EventsInv, HeardOnce
  <2> QED
    BY <1>5, <1>9, <2>1 DEF HeardOnce
<1>11. \A e \in ToSet(log) \ ToSet(heard') :
         /\ e.by \in Tops
         /\ \/ e.by \notin Live /\ e.type \in {"pattern_enter", "pattern_exit"}
            \/ phase'[e.by] = "threw" /\ e.type = "error"
  BY <1>1, <1>5 DEF EventsInv, LogWhole, Tops
<1>12. LogWhole'
  <2>1. /\ \A e \in ToSet(log) : e = User \/ \E i \in DOMAIN Top :
            e.by \in Under[Top[i]] /\ e.type # "user_message" /\ (Passed(i) \/ (InTop /\ i = pos /\ e = Enter(Top[i])))
        /\ IF InTop THEN \E u \in Seq(Logged) : log = u \o <<Enter(Top[pos])>> /\ Whole(u, {User})
           ELSE Whole(log, {User})
    BY DEF EventsInv, LogWhole
  <2> QED
    BY <1>6, <1>7, <1>8, <1>11, <2>1 DEF LogWhole
<1> QED
  BY <1>10, <1>12

(* A step of a pattern that tells what it may keeps the events faithful.    *)
LEMMA TellingKeeps ==
  ASSUME FailuresInv, EventsInv, NEW n \in Nodes, Telling(n)
  PROVE  EventsInv'
<1>1. PICK es, loud, p, d, cs : Tells(n, es, loud, p, cs) /\ Moves(n, es, p, d, cs) /\ EmitLive(loud)
  BY DEF Telling
<1>2. ScopesWhole' /\ ScopesOwn' /\ RunningOwn'
  BY <1>1, MoveKeepsWhole, MoveKeepsOwn, MoveKeepsRunning DEF EventsInv
<1>3. HeardOnce' /\ LogWhole'
  BY <1>1, MoveKeepsHeard
<1> QED
  BY <1>2, <1>3 DEF EventsInv

-----------------------------------------------------------------------------
(* What every kind of pattern tells.  A step that calls nobody, and one     *)
(* that does:                                                               *)
LEMMA TrackTells ==
  ASSUME FailuresInv, NEW n \in Nodes, phase[n] = "running", NEW es \in Seq(Logged), NEW loud,
         NEW p \in {"running", "returned", "threw"}, NEW d, Tracks(n, es, loud, p, d),
         Sources(n, es, {}), Results(n, es, p, {}), GoesOn(n, es, p, {}), Loud(n, es, loud)
  PROVE  Telling(n)
<1>1. Moves(n, es, p, d, {})
  BY TracksMoves DEF FailuresInv
<1>2. Tells(n, es, loud, p, {}) /\ EmitLive(loud)
  BY DEF Tells, Tracks
<1> QED
  BY <1>1, <1>2 DEF Telling

LEMMA CallTells ==
  ASSUME FailuresInv, NEW n \in Nodes, phase[n] = "running", NEW es \in Seq(Logged), NEW loud,
         NEW cs \in SUBSET ToSet(Children[n]), \A c \in cs : phase[c] = "idle", CallsOut(n, es, loud, cs),
         Sources(n, es, cs), Results(n, es, "running", cs), GoesOn(n, es, "running", cs), Loud(n, es, loud)
  PROVE  Telling(n)
<1>1. n \notin cs /\ ScopesOK
  BY DEF FailuresInv
<1>2. Moves(n, es, "running", data[n], cs)
  BY <1>1, CallsMove
<1>3. Tells(n, es, loud, "running", cs) /\ EmitLive(loud)
  BY DEF Tells, CallsOut
<1> QED
  BY <1>2, <1>3 DEF Telling

LEMMA Silence ==
  ASSUME FailuresInv, NEW n \in Nodes
  PROVE  /\ <<>> \in Seq(Logged) /\ events[n] \in Seq(Logged) /\ events[n] \o <<>> = events[n] /\ ToSet(<<>>) = {}
         /\ \A cs : Sources(n, <<>>, cs) /\ \A es : Loud(n, es, <<>>)
<1>1. <<>> \in Seq(Logged) /\ ToSet(<<>>) = {} /\ IsInjective(<<>>) /\ events[n] \in Seq(Logged)
  BY Few, AtMostOne DEF FailuresInv, ScopesOK
<1>2. events[n] \o <<>> = events[n]
  BY <1>1
<1> QED
  BY <1>1, <1>2 DEF Sources, Loud

(* One event of the pattern's own.                                          *)
LEMMA OneEvent ==
  ASSUME FailuresInv, NEW n \in Nodes, NEW e \in Own(n), e.type # "user_message", e \notin ToSet(events[n]),
         Whole(events[n], Own(n))
  PROVE  /\ <<e>> \in Seq(Logged) /\ ToSet(<<e>>) = {e} /\ Whole(events[n] \o <<e>>, Own(n))
         /\ \A cs : Sources(n, <<e>>, cs)
         /\ \A es : e \in ToSet(es) => Loud(n, es, <<e>>)
<1>1. <<e>> \in Seq(Logged) /\ ToSet(<<e>>) = {e} /\ IsInjective(<<e>>) /\ events[n] \in Seq(Logged)
  BY Few, AtMostOne DEF FailuresInv, ScopesOK, Own
<1>2. \A m \in Nodes : Enter(m) \notin Own(n)
  BY Brackets
<1>3. Whole(<<e>>, Own(n))
  BY <1>2, WholeFew
<1>4. \A x \in ToSet(events[n]) : x \notin ToSet(<<e>>)
  BY <1>1
<1>5. Whole(events[n] \o <<e>>, Own(n))
  BY <1>1, <1>2, <1>3, <1>4, WholeJoined
<1> QED
  BY <1>1, <1>5 DEF Sources, Loud, ItsOwn

LEMMA TellsThrow ==
  ASSUME FailuresInv, NEW n \in Nodes, phase[n] = "running", NEW d, Tracks(n, <<>>, <<>>, "threw", d)
  PROVE  Telling(n)
BY Silence, TrackTells DEF Results, GoesOn

LEMMA TellsNothing ==
  ASSUME FailuresInv, NEW n \in Nodes, phase[n] = "running", NEW d, Returns(n, <<>>, d), Whole(events[n], Own(n))
  PROVE  Telling(n)
BY Silence, TrackTells DEF Results, GoesOn, Returns

LEMMA TellsOne ==
  ASSUME FailuresInv, NEW n \in Nodes, phase[n] = "running", NEW d, NEW e \in Own(n), Returns(n, <<e>>, d),
         e.type # "user_message", e \notin ToSet(events[n]), Whole(events[n], Own(n))
  PROVE  Telling(n)
<1>1. /\ <<e>> \in Seq(Logged) /\ Whole(events[n] \o <<e>>, Own(n))
      /\ Sources(n, <<e>>, {}) /\ Loud(n, <<e>>, <<e>>)
  BY OneEvent
<1>2. Results(n, <<e>>, "returned", {}) /\ GoesOn(n, <<e>>, "returned", {})
  BY <1>1 DEF Results, GoesOn
<1> QED
  BY <1>1, <1>2, TrackTells DEF Returns

(* What a pattern that runs or returned has in its scope.                   *)
LEMMA RunningScope ==
  ASSUME FailuresInv, EventsInv, NEW n \in Nodes, phase[n] = "running", ~Sequential(n)
  PROVE  /\ Whole(events[n], Own(n)) /\ ToSet(events[n]) \subseteq {Content(n)}
         /\ \A s : Error(n, s) \notin ToSet(events[n])
         /\ events[n] = <<>> \/ Kind[n] = "leaf" \/ (Kind[n] = "references" /\ ~Untouched(n))
<1>1. Whole(events[n], Own(n))
  BY DEF EventsInv, ScopesWhole
<1>2. /\ ToSet(events[n]) \subseteq {Content(n)}
      /\ events[n] = <<>> \/ Kind[n] = "leaf" \/ (Kind[n] = "references" /\ ~Untouched(n))
  BY DEF EventsInv, RunningOwn
<1> QED
  BY <1>1, <1>2, Brackets

LEMMA ReturnedScope ==
  ASSUME FailuresInv, EventsInv, NEW c \in Nodes, phase[c] = "returned"
  PROVE  /\ events[c] \in Seq(Logged) /\ Whole(events[c], Own(c))
         /\ Enter(c) \notin ToSet(events[c]) /\ Exit(c) \notin ToSet(events[c])
BY DEF FailuresInv, ScopesOK, EventsInv, ScopesWhole, ScopesOwn

LEMMA LeafTells ==
  ASSUME FailuresInv, EventsInv, NEW n \in Nodes, Leaf(n)
  PROVE  Telling(n)
<1>1. Kind[n] = "leaf" /\ phase[n] = "running" /\ ~Sequential(n)
  BY DEF Leaf, Holds, Sequential
<1>2. Whole(events[n], Own(n)) /\ \A s : Error(n, s) \notin ToSet(events[n])
  BY <1>1, RunningScope
<1>3. CASE events[n] = <<>> /\ Tracks(n, <<Content(n)>>, <<Content(n)>>, "running", data[n])
  <2>1. Content(n) \in Own(n) /\ Content(n).type # "user_message" /\ Content(n) \notin ToSet(events[n])
    BY <1>3, Few, Brackets
  <2>2. /\ <<Content(n)>> \in Seq(Logged) /\ ToSet(<<Content(n)>>) = {Content(n)}
        /\ Whole(events[n] \o <<Content(n)>>, Own(n))
        /\ Sources(n, <<Content(n)>>, {}) /\ Loud(n, <<Content(n)>>, <<Content(n)>>)
    BY <1>2, <2>1, OneEvent
  <2>3. Results(n, <<Content(n)>>, "running", {}) /\ GoesOn(n, <<Content(n)>>, "running", {})
    BY <1>1, <1>3, <2>2 DEF Results, GoesOn
  <2> QED
    BY <1>1, <1>3, <2>2, <2>3, TrackTells
<1>4. ASSUME NEW s \in Stamps[n], Returns(n, <<Error(n, s)>>, data[n]) PROVE Telling(n)
  <2>1. Error(n, s) \in Own(n) /\ Error(n, s).type # "user_message"
    BY NamesAssumption, Brackets
  <2> QED
    BY <1>1, <1>2, <1>4, <2>1, TellsOne
<1> QED
  BY <1>1, <1>2, <1>3, <1>4, TellsNothing, TellsThrow DEF Leaf

LEMMA RouterTells ==
  ASSUME FailuresInv, EventsInv, NEW n \in Nodes, Router(n)
  PROVE  Telling(n)
<1>1. Kind[n] = "router" /\ phase[n] = "running" /\ ~Sequential(n)
  BY DEF Router, Holds, Sequential
<1>2. Whole(events[n], Own(n)) /\ ToSet(events[n]) = {}
  BY <1>1, RunningScope, Few
<1>3. /\ Content(n) \in Own(n) /\ Content(n).type # "user_message"
      /\ Error(n, "none") \in Own(n) /\ Error(n, "none").type # "user_message"
  BY Brackets DEF Severities
<1>4. \/ \E d : Returns(n, <<Content(n)>>, d)
      \/ \E d : Returns(n, <<>>, d)
      \/ \E d : Returns(n, <<Error(n, "none")>>, d)
  BY DEF Router
<1> QED
  BY <1>1, <1>2, <1>3, <1>4, TellsNothing, TellsOne

LEMMA SynthesizeTells ==
  ASSUME FailuresInv, EventsInv, NEW n \in Nodes, Synthesize(n)
  PROVE  Telling(n)
<1>1. Kind[n] = "compactExecution" /\ phase[n] = "running" /\ ~Sequential(n)
  BY DEF Synthesize, Holds, Sequential
<1>2. Whole(events[n], Own(n)) /\ ToSet(events[n]) = {}
  BY <1>1, RunningScope, Few
<1>3. /\ Content(n) \in Own(n) /\ Content(n).type # "user_message"
      /\ Error(n, "irrecoverable") \in Own(n) /\ Error(n, "irrecoverable").type # "user_message"
  BY Brackets DEF Severities
<1>4. \/ \E d : Returns(n, <<Content(n)>>, d)
      \/ \E d : Returns(n, <<>>, d)
      \/ \E d : Returns(n, <<Error(n, "irrecoverable")>>, d)
  BY DEF Synthesize
<1> QED
  BY <1>1, <1>2, <1>3, <1>4, TellsNothing, TellsOne

(* chain and routes: the entry of a child is told before it runs, and the   *)
(* rest when it returned.                                                   *)
LEMMA EntryTells ==
  ASSUME FailuresInv, EventsInv, NEW n \in Nodes, phase[n] = "running", Sequential(n), Whole(events[n], Own(n)),
         NEW c \in ToSet(Children[n]), phase[c] = "idle",
         NEW loud \in {<<>>, <<Enter(c)>>}, CallsOut(n, <<Enter(c)>>, loud, {c})
  PROVE  Telling(n)
<1> DEFINE es == <<Enter(c)>>
<1>1. c \in Nodes /\ Wraps(n, c) /\ Enter(c).by = c /\ Enter(c).type = "pattern_enter"
  BY TreeFacts, Brackets
<1>2. es \in Seq(Logged) /\ ToSet(es) = {Enter(c)} /\ IsInjective(es)
  BY <1>1, EventForms, Few, AtMostOne
<1>3. Enter(c) \notin ToSet(events[n])
  BY <1>1, UnderFacts DEF EventsInv, ScopesOwn
<1>4. Sources(n, es, {c})
  BY <1>2, <1>3 DEF Sources, Taken
<1>5. Results(n, es, "running", {c})
  BY DEF Results
<1>6. c # n /\ NoExit(Enter(c))
  BY <1>1, TreeFacts, Brackets DEF NoExit
<1>7. GoesOn(n, es, "running", {c})
  BY <1>1, <1>2, <1>6 DEF GoesOn
<1>8. Loud(n, es, <<>>) /\ Loud(n, es, es)
  BY <1>1, <1>2, Silence DEF Loud, ItsOwn
<1>9. phase[n] = "running" /\ {c} \in SUBSET ToSet(Children[n]) /\ \A x \in {c} : phase[x] = "idle"
  OBVIOUS
<1>10. CallsOut(n, es, loud, {c}) /\ Loud(n, es, loud)
  BY <1>8
<1> HIDE DEF es
<1> QED
  BY <1>2, <1>4, <1>5, <1>7, <1>9, <1>10, CallTells

LEMMA ExitTells ==
  ASSUME FailuresInv, EventsInv, NEW n \in Nodes, phase[n] = "running", Sequential(n),
         NEW c \in ToSet(Children[n]), phase[c] = "returned", Exit(c) \notin ToSet(events[n]),
         NEW loud \in {<<>>, <<Exit(c)>>}, NEW p \in {"running", "returned"}, p = "running" => Kind[n] # "routes",
         NEW d, Tracks(n, Append(events[c], Exit(c)), loud, p, d)
  PROVE  Telling(n)
<1> DEFINE es == Append(events[c], Exit(c))
<1>1. c \in Nodes /\ Wraps(n, c) /\ Exit(c) \in Logged /\ Enter(c) \in Logged
  BY TreeFacts, EventForms
<1>2. /\ events[c] \in Seq(Logged) /\ Whole(events[c], Own(c)) /\ events[n] \in Seq(Logged)
      /\ Enter(c) \notin ToSet(events[c]) /\ Exit(c) \notin ToSet(events[c])
  BY <1>1, ReturnedScope DEF FailuresInv, ScopesOK
<1>3. es \in Seq(Logged) /\ ToSet(es) = ToSet(events[c]) \cup {Exit(c)} /\ es = events[c] \o <<Exit(c)>>
  <2>1. es \in Seq(Logged) /\ ToSet(es) = ToSet(events[c]) \cup {Exit(c)}
    BY <1>1, <1>2, Appended
  <2>2. es = events[c] \o <<Exit(c)>>
    BY SMTT(30), <1>1, <1>2
  <2> QED
    BY <2>1, <2>2
<1>4. Enter(c) \in ToSet(events[n])
  BY <1>1 DEF EventsInv, RunningOwn
<1>5. PICK x \in ToSet(Children[n]) : \E u \in Seq(Logged) : events[n] = u \o <<Enter(x)>> /\ Whole(u, Own(n))
  <2>1. ~Whole(events[n], Own(n))
    <3> SUFFICES ASSUME Whole(events[n], Own(n)) PROVE FALSE
      OBVIOUS
    <3>1. Spans(events[n], Enter(c).by)
      BY <1>1, <1>4, Brackets DEF Whole
    <3> QED
      BY <1>1, <3>1, Brackets, PrecedesMembers DEF Spans
  <2> QED
    BY <2>1 DEF EventsInv, ScopesWhole, Open
<1>6. PICK u \in Seq(Logged) : events[n] = u \o <<Enter(x)>> /\ Whole(u, Own(n))
  BY <1>5
<1>7. x \in Nodes /\ Enter(x) \in Logged
  BY TreeFacts, EventForms
<1>8. ToSet(events[n]) = ToSet(u) \cup {Enter(x)}
  <2>1. <<Enter(x)>> \in Seq(Logged) /\ ToSet(<<Enter(x)>>) = {Enter(x)}
    BY <1>7, Few
  <2> DEFINE a == <<Enter(x)>>
  <2>2. a \in Seq(Logged) /\ u \in Seq(Logged) /\ events[n] = u \o a
    BY <1>6, <2>1
  <2> HIDE DEF a
  <2>3. ToSet(u \o a) = ToSet(u) \cup ToSet(a)
    BY <2>2, Joined
  <2> QED
    BY <2>1, <2>2, <2>3 DEF a
<1>9. Enter(c) \notin ToSet(u)
  <2> SUFFICES ASSUME Enter(c) \in ToSet(u) PROVE FALSE
    OBVIOUS
  <2>1. Spans(u, Enter(c).by)
    BY <1>1, <1>6, Brackets DEF Whole
  <2> QED
    BY <1>1, <1>8, <2>1, Brackets, PrecedesMembers DEF Spans
<1>10. Enter(x) = Enter(c)
  BY <1>4, <1>8, <1>9
<1>11. ASSUME NEW e \in ToSet(es) PROVE e \notin ToSet(events[n]) /\ e.by # n /\ e.by \in Under[c]
  <2>1. Taken(e, c, es, {})
    BY <1>3, <1>11 DEF Taken
  <2>2. e.by \in Under[c] /\ e.by # n
    BY <2>1, TakenBelow DEF EventsInv
  <2>3. e # Enter(c)
    BY <1>1, <1>2, <1>3, <1>11, Brackets
  <2> QED
    BY <1>1, <2>2, <2>3 DEF EventsInv, ScopesOwn
<1>12. Sources(n, es, {})
  BY <1>3, <1>11 DEF Sources, Taken
<1>13. Whole(events[n] \o es, Own(n))
  <2> DEFINE a == <<Enter(c)>>
             b == <<Exit(c)>>
             w == a \o events[c] \o b
  <2>1. Whole(w, Own(n))
    BY <1>1, <1>2, WholeWrapped
  <2>2. a \in Seq(Logged) /\ b \in Seq(Logged) /\ ToSet(a) = {Enter(c)} /\ ToSet(b) = {Exit(c)}
    BY <1>1, Few
  <2>3. events[n] = u \o a /\ es = events[c] \o b
    BY <1>3, <1>6, <1>10
  <2>4. w \in Seq(Logged) /\ ToSet(w) = {Enter(c)} \cup ToSet(es)
    <3>1. ScopesOK /\ c \in Nodes /\ w = <<Enter(c)>> \o events[c] \o <<Exit(c)>>
      BY <1>1 DEF FailuresInv
    <3>2. w \in Seq(Logged) /\ ToSet(w) = {Enter(c)} \cup ToSet(events[c]) \cup {Exit(c)}
      BY <3>1, Bracketed
    <3> QED
      BY <1>3, <3>2
  <2> DEFINE s == events[c]
             v == a \o s
  <2>5. v \in Seq(Logged) /\ w = v \o b
    BY <1>2, <2>2, Joined
  <2>6. v = a \o s /\ es = s \o b /\ s \in Seq(Logged)
    BY <1>2, <2>3
  <2> HIDE DEF a, b, s, es, w, v
  <2>7. v \o b = a \o es
    BY ONLY <2>2, <2>6
  <2>9. (u \o a) \o es = u \o (a \o es)
    <3>1. u \in Seq(Logged) /\ a \in Seq(Logged) /\ es \in Seq(Logged)
      BY <1>3, <1>6, <2>2
    <3> QED
      BY ONLY <3>1
  <2>10. events[n] \o es = u \o w
    BY <2>3, <2>5, <2>7, <2>9, Zenon
  <2>11. \A e \in ToSet(u) : e \notin ToSet(w)
    BY <1>8, <1>9, <1>11, <2>4
  <2>12. Whole(u \o w, Own(n))
    BY <1>6, <2>1, <2>4, <2>11, Brackets, WholeJoined
  <2> QED
    BY <2>10, <2>12
<1>14. Results(n, es, p, {}) /\ GoesOn(n, es, p, {})
  BY <1>11, <1>13 DEF Results, GoesOn
<1>15. Loud(n, es, loud)
  <2>1. CASE loud = <<>>
    BY <2>1, Silence
  <2>2. CASE loud = <<Exit(c)>>
    BY <1>1, <1>3, <2>2, Few, AtMostOne, Brackets DEF Loud, ItsOwn
  <2> QED
    BY <2>1, <2>2
<1>16. Tracks(n, es, loud, p, d)
  OBVIOUS
<1> HIDE DEF es
<1> QED
  BY <1>3, <1>12, <1>14, <1>15, <1>16, TrackTells

LEMMA RoutesTells ==
  ASSUME FailuresInv, EventsInv, NEW n \in Nodes, Routes(n)
  PROVE  Telling(n)
<1> DEFINE r == data[n].route
<1>1. Kind[n] = "routes" /\ phase[n] = "running" /\ Sequential(n)
  BY DEF Routes, Holds, Sequential
<1>2. ASSUME NEW c \in Nodes, Wraps(n, c), phase[c] # "idle" PROVE c = r
  BY <1>1, <1>2 DEF FailuresInv, CallsOK
<1>3. ASSUME r \notin ToSet(Children[n]) \/ phase[r] = "idle" PROVE Whole(events[n], Own(n))
  <2>1. ~Open(n)
    BY <1>2, <1>3, TreeFacts DEF Open
  <2> QED
    BY <1>1, <2>1 DEF EventsInv, ScopesWhole
<1>4. r \in {"none", "direct"} => r \notin ToSet(Children[n])
  <2>1. \A x \in ToSet(Children[n]) : x \in Nodes
    BY TreeFacts
  <2>2. "none" \notin Nodes /\ "direct" \notin Nodes
    BY NamesAssumption
  <2> QED
    BY <2>1, <2>2
<1>5. CASE r = "direct" /\ Returns(n, <<>>, data[n])
  BY <1>1, <1>3, <1>4, <1>5, TellsNothing
<1>6. CASE r \notin ToSet(Children[n]) /\ Returns(n, <<Error(n, "none")>>, data[n])
  <2>1. Error(n, "none") \in Own(n) /\ Error(n, "none").type # "user_message" /\ Error(n, "none").by = n
    BY Brackets DEF Severities
  <2>2. Error(n, "none") \notin ToSet(events[n])
    BY <1>1, <2>1 DEF EventsInv, RunningOwn
  <2> QED
    BY <1>1, <1>3, <1>6, <2>1, <2>2, TellsOne
<1>7. CASE r \in ToSet(Children[n]) /\ phase[r] = "idle" /\ CallsOut(n, <<Enter(r)>>, <<Enter(r)>>, {r})
  BY <1>1, <1>3, <1>7, EntryTells
<1>8. CASE r \in ToSet(Children[n]) /\ phase[r] = "returned"
           /\ Tracks(n, Append(events[r], Exit(r)), <<Exit(r)>>, "returned", data[r])
  <2>1. Exit(r) \notin ToSet(events[n])
    BY <1>1, <1>8, TreeFacts DEF EventsInv, RunningOwn
  <2> QED
    BY <1>1, <1>8, <2>1, ExitTells
<1> QED
  BY <1>1, <1>5, <1>6, <1>7, <1>8, TellsThrow DEF Routes

LEMMA ChainTells ==
  ASSUME FailuresInv, EventsInv, NEW n \in Nodes, ChainNode(n)
  PROVE  Telling(n)
<1>1. Kind[n] = "chain" /\ phase[n] = "running" /\ Sequential(n)
  BY DEF ChainNode, Holds, Sequential
<1>2. PICK i \in DOMAIN Children[n] :
        /\ \A j \in 1..i - 1 : Exit(Children[n][j]) \in ToSet(events[n])
        /\ \/ phase[Children[n][i]] = "idle" /\ CallsOut(n, <<Enter(Children[n][i])>>, <<>>, {Children[n][i]})
           \/ /\ phase[Children[n][i]] = "returned" /\ Exit(Children[n][i]) \notin ToSet(events[n])
              /\ Tracks(n, Append(events[Children[n][i]], Exit(Children[n][i])), <<>>,
                        IF i = Len(Children[n]) THEN "returned" ELSE "running", data[Children[n][i]])
           \/ phase[Children[n][i]] = "threw" /\ Tracks(n, <<>>, <<>>, "threw", data[n])
  BY DEF ChainNode
<1> DEFINE c == Children[n][i]
<1>3. c \in Nodes /\ c \in ToSet(Children[n]) /\ i \in Nat
  BY TreeFacts, TreesAssumption DEF Wraps, ToSet
<1>4. CASE phase[c] = "idle" /\ CallsOut(n, <<Enter(c)>>, <<>>, {c})
  <2>1. ASSUME NEW x \in ToSet(Children[n]), Exit(x) \notin ToSet(events[n]), phase[x] # "idle" PROVE FALSE
    <3>1. PICK j \in DOMAIN Children[n] : x = Children[n][j]
      BY DEF ToSet
    <3>2. j \in Nat /\ j \in 1..Len(Children[n]) /\ Len(Children[n]) \in Nat /\ j # i
      BY <1>4, <2>1, <3>1, TreeFacts
    <3>3. CASE j < i
      <4>1. j \in 1..i - 1
        BY <1>3, <3>2, <3>3
      <4> QED
        BY <1>2, <2>1, <3>1, <4>1
    <3>4. CASE i < j
      <4>1. Exit(c) \in ToSet(events[n])
        BY <1>1, <2>1, <3>1, <3>4 DEF FailuresInv, ChainsOK
      <4> QED
        BY <1>3, <1>4, <4>1 DEF FailuresInv, ExitsOK
    <3> QED
      BY <1>3, <3>2, <3>3, <3>4
  <2>2. ~Open(n)
    BY <2>1 DEF Open
  <2>3. Whole(events[n], Own(n))
    BY <1>1, <2>2 DEF EventsInv, ScopesWhole
  <2> HIDE DEF c
  <2> QED
    BY <1>1, <1>3, <1>4, <2>3, EntryTells
<1>5. CASE /\ phase[c] = "returned" /\ Exit(c) \notin ToSet(events[n])
           /\ Tracks(n, Append(events[c], Exit(c)), <<>>,
                     IF i = Len(Children[n]) THEN "returned" ELSE "running", data[c])
  <2> DEFINE p == IF i = Len(Children[n]) THEN "returned" ELSE "running"
  <2>1. p \in {"running", "returned"} /\ Tracks(n, Append(events[c], Exit(c)), <<>>, p, data[c])
    BY <1>5
  <2> HIDE DEF c, p
  <2> QED
    BY <1>1, <1>3, <1>5, <2>1, ExitTells
<1>6. CASE phase[c] = "threw" /\ Tracks(n, <<>>, <<>>, "threw", data[n])
  BY <1>1, <1>6, TellsThrow
<1> QED
  BY <1>2, <1>4, <1>5, <1>6

-----------------------------------------------------------------------------
(* Whole parts that share nothing make a whole.                             *)
LEMMA FlatWhole ==
  ASSUME NEW k \in Nat, NEW f \in [1..k -> Seq(Logged)], NEW own, \A n \in Nodes : Enter(n) \notin own,
         \A i \in 1..k : Whole(f[i], own),
         \A i, j \in 1..k : i # j => \A e \in ToSet(f[i]) : e \notin ToSet(f[j])
  PROVE  Whole(FlattenSeq(f), own)
<1>1. PICK flat : /\ flat[0] = <<>> /\ FlattenSeq(f) = flat[k]
                  /\ \A m \in Nat : m < k => flat[m + 1] = flat[m] \o f[m + 1]
  BY ZenonT(30), FlatSteps
<1> DEFINE Good(m) == /\ flat[m] \in Seq(Logged) /\ Whole(flat[m], own)
                      /\ \A e \in ToSet(flat[m]) : \E i \in 1..m : e \in ToSet(f[i])
           S == {m \in Nat : m <= k => Good(m)}
<1>2. 0 \in S
  <2>1. <<>> \in Seq(Logged) /\ Whole(<<>>, own) /\ ToSet(<<>>) = {}
    BY Few, WholeFew
  <2> QED
    BY <1>1, <2>1
<1>3. ASSUME NEW m \in Nat, m \in S, m < k PROVE m + 1 \in S
  <2>1. Good(m) /\ m + 1 \in 1..k /\ f[m + 1] \in Seq(Logged) /\ Whole(f[m + 1], own)
    BY <1>3
  <2>2. flat[m + 1] = flat[m] \o f[m + 1]
    BY <1>1, <1>3
  <2>3. ASSUME NEW e \in ToSet(flat[m]) PROVE e \notin ToSet(f[m + 1])
    <3>1. PICK i \in 1..m : e \in ToSet(f[i])
      BY <2>1
    <3>2. i \in 1..k /\ i # m + 1
      BY <1>3
    <3> QED
      BY <2>1, <3>1, <3>2
  <2> DEFINE s == flat[m]
             t == f[m + 1]
  <2>4. s \in Seq(Logged) /\ t \in Seq(Logged) /\ Whole(s, own) /\ Whole(t, own) /\ \A e \in ToSet(s) : e \notin ToSet(t)
    BY <2>1, <2>3
  <2> HIDE DEF s, t
  <2>5. s \o t \in Seq(Logged) /\ Whole(s \o t, own) /\ ToSet(s \o t) = ToSet(s) \cup ToSet(t)
    BY <2>4, Joined, WholeJoined
  <2>6. flat[m + 1] \in Seq(Logged) /\ Whole(flat[m + 1], own) /\ ToSet(flat[m + 1]) = ToSet(flat[m]) \cup ToSet(f[m + 1])
    BY <2>2, <2>5 DEF s, t
  <2>7. ASSUME NEW e \in ToSet(flat[m + 1]) PROVE \E i \in 1..m + 1 : e \in ToSet(f[i])
    <3>1. CASE e \in ToSet(f[m + 1])
      BY <3>1
    <3>2. CASE e \in ToSet(flat[m])
      <4>1. PICK i \in 1..m : e \in ToSet(f[i])
        BY <2>1, <3>2
      <4>2. i \in 1..m + 1
        OBVIOUS
      <4> QED
        BY <4>1, <4>2
    <3> QED
      BY <2>6, <2>7, <3>1, <3>2
  <2>8. Good(m + 1)
    BY <2>6, <2>7
  <2> HIDE DEF Good
  <2> QED
    BY <2>8
<1>4. Good(k)
  <2>1. \A i \in Nat : i \in S /\ i < k => i + 1 \in S
    BY <1>3
  <2> HIDE DEF S
  <2>2. \A i \in 0..k : i \in S
    BY <1>2, <2>1, Onwards
  <2>3. k \in S
    BY <2>2
  <2> USE DEF S
  <2> HIDE DEF Good
  <2> QED
    BY <2>3
<1> QED
  BY <1>1, <1>4

LEMMA Pair ==
  ASSUME NEW T, NEW x \in T, NEW y \in T
  PROVE  <<x>> \o <<>> \o <<y>> = <<x, y>>
<1> DEFINE s == <<x>> \o <<y>>
<1>1. <<x>> \in Seq(T) /\ <<y>> \in Seq(T)
  OBVIOUS
<1>2. \A u \in Seq(T) : u \o <<>> = u
  OBVIOUS
<1>3. \A u, t \in Seq(T) :
        /\ u \o t \in Seq(T) /\ Len(u \o t) = Len(u) + Len(t)
        /\ \A i \in 1..Len(u) + Len(t) : (u \o t)[i] = IF i <= Len(u) THEN u[i] ELSE t[i - Len(u)]
  OBVIOUS
<1>4. s \in Seq(T) /\ Len(s) = 2 /\ s[1] = x /\ s[2] = y
  BY <1>1, <1>3
<1> HIDE DEF s
<1>5. s = <<x, y>>
  BY <1>4
<1> QED
  BY <1>1, <1>2, <1>5 DEF s

(* A child that returned, in its brackets.                                  *)
Bracket(c) == <<Enter(c)>> \o events[c] \o <<Exit(c)>>

LEMMA Collected ==
  ASSUME FailuresInv, EventsInv, NEW n \in Nodes, NEW c \in ToSet(Children[n]), phase[c] = "returned"
  PROVE  /\ Bracket(c) \in Seq(Logged) /\ ToSet(Bracket(c)) = {Enter(c)} \cup ToSet(events[c]) \cup {Exit(c)}
         /\ \A own : Whole(Bracket(c), own)
         /\ \A e \in ToSet(Bracket(c)) : e.by \in Under[c] /\ e.by # n
         /\ \A es : ToSet(Bracket(c)) \subseteq ToSet(es) => \A e \in ToSet(Bracket(c)) : Taken(e, c, es, {})
<1>1. c \in Nodes /\ ScopesOK /\ ScopesOwn
  BY TreeFacts DEF FailuresInv, EventsInv
<1>2. Bracket(c) \in Seq(Logged) /\ ToSet(Bracket(c)) = {Enter(c)} \cup ToSet(events[c]) \cup {Exit(c)}
  BY <1>1, Bracketed DEF Bracket
<1>3. ASSUME NEW own PROVE Whole(Bracket(c), own)
  BY <1>1, ReturnedScope, WholeWrapped DEF Bracket
<1>4. \A es : ToSet(Bracket(c)) \subseteq ToSet(es) => \A e \in ToSet(Bracket(c)) : Taken(e, c, es, {})
  BY <1>2 DEF Taken
<1>5. \A e \in ToSet(Bracket(c)) : e.by \in Under[c] /\ e.by # n
  BY <1>1, <1>4, TakenBelow
<1> QED
  BY <1>2, <1>3, <1>4, <1>5

LEMMA ParallelTells ==
  ASSUME FailuresInv, EventsInv, NEW n \in Nodes, Parallel(n)
  PROVE  Telling(n)
<1>1. Kind[n] = "parallel" /\ phase[n] = "running" /\ ~Sequential(n)
  BY DEF Parallel, Holds, Sequential
<1>2. events[n] = <<>> /\ Whole(events[n], Own(n))
  BY <1>1, RunningScope
<1>3. \/ (\A c \in ToSet(Children[n]) : phase[c] = "idle") /\ CallsOut(n, <<>>, <<>>, ToSet(Children[n]))
      \/ /\ \A c \in ToSet(Children[n]) : Settled(c)
         /\ Tracks(n, Branches(n), BranchLoud(n), "returned", Spread(n, Children[n]))
  BY DEF Parallel, Branches, BranchLoud, Branch, Told, NoneBack, AllSettled
<1>4. CASE (\A c \in ToSet(Children[n]) : phase[c] = "idle") /\ CallsOut(n, <<>>, <<>>, ToSet(Children[n]))
  <2> DEFINE cs == ToSet(Children[n])
  <2>1. /\ <<>> \in Seq(Logged) /\ ToSet(<<>>) = {} /\ Sources(n, <<>>, cs) /\ Loud(n, <<>>, <<>>)
        /\ Whole(events[n] \o <<>>, Own(n))
    BY <1>2, Silence
  <2>2. Results(n, <<>>, "running", cs) /\ GoesOn(n, <<>>, "running", cs)
    BY <1>1, <1>2, <2>1 DEF Results, GoesOn
  <2> QED
    BY <1>1, <1>4, <2>1, <2>2, CallTells
<1>5. CASE /\ \A c \in ToSet(Children[n]) : Settled(c)
           /\ Tracks(n, Branches(n), BranchLoud(n), "returned", Spread(n, Children[n]))
  <2> DEFINE k == Len(Children[n])
             B(i) == phase[Children[n][i]] = "returned"
             L(i) == IF B(i) THEN <<Enter(Children[n][i]), Exit(Children[n][i])>> ELSE Branch(n, i)
             f == [i \in DOMAIN Children[n] |-> Branch(n, i)]
             g == [i \in DOMAIN Children[n] |-> L(i)]
  <2>1. /\ k \in Nat /\ DOMAIN Children[n] = 1..k
        /\ \A i \in 1..k : Children[n][i] \in Nodes /\ Children[n][i] \in ToSet(Children[n]) /\ Wraps(n, Children[n][i])
        /\ \A i, j \in 1..k : Children[n][i] = Children[n][j] => i = j
    BY TreeFacts DEF Wraps
  <2>2. ASSUME NEW i \in 1..k, B(i), NEW c, c = Children[n][i]
        PROVE  /\ Branch(n, i) \in Seq(Logged) /\ Whole(Branch(n, i), Own(n))
               /\ \A e \in ToSet(Branch(n, i)) : e.by \in Under[c] /\ e.by # n
               /\ \A es : ToSet(Branch(n, i)) \subseteq ToSet(es) => \A e \in ToSet(Branch(n, i)) : Taken(e, c, es, {})
               /\ L(i) \in Seq(Logged) /\ Whole(L(i), Own(n)) /\ ToSet(L(i)) = {Enter(c), Exit(c)}
               /\ ToSet(L(i)) \subseteq ToSet(Branch(n, i))
    <3>1. Branch(n, i) = Bracket(c)
      BY <2>2 DEF Branch, Told, BranchEvents, Bracket
    <3>2. c \in Nodes /\ c \in ToSet(Children[n]) /\ phase[c] = "returned"
      BY <2>1, <2>2
    <3>3. /\ Branch(n, i) \in Seq(Logged) /\ Whole(Branch(n, i), Own(n))
          /\ ToSet(Branch(n, i)) = {Enter(c)} \cup ToSet(events[c]) \cup {Exit(c)}
          /\ \A e \in ToSet(Branch(n, i)) : e.by \in Under[c] /\ e.by # n
          /\ \A es : ToSet(Branch(n, i)) \subseteq ToSet(es) => \A e \in ToSet(Branch(n, i)) : Taken(e, c, es, {})
      BY <3>1, <3>2, Collected
    <3>4. L(i) = <<Enter(c), Exit(c)>>
      BY <2>2
    <3>5. <<Enter(c)>> \o <<>> \o <<Exit(c)>> = <<Enter(c), Exit(c)>>
      BY <3>2, EventForms, Pair
    <3>6. Whole(<<>>, Own(c)) /\ <<>> \in Seq(Logged) /\ ToSet(<<>>) = {}
      BY WholeFew, Few
    <3>7. Whole(<<Enter(c)>> \o <<>> \o <<Exit(c)>>, Own(n))
      BY <3>2, <3>6, WholeWrapped
    <3>8. <<Enter(c), Exit(c)>> \in Seq(Logged) /\ ToSet(<<Enter(c), Exit(c)>>) = {Enter(c), Exit(c)}
      BY <3>2, EventForms DEF ToSet
    <3> QED
      BY <3>3, <3>4, <3>5, <3>7, <3>8
  <2>3. ASSUME NEW i \in 1..k, ~B(i)
        PROVE  /\ Branch(n, i) \in Seq(Logged) /\ Whole(Branch(n, i), Own(n)) /\ L(i) = Branch(n, i)
               /\ Told(n, i) => ToSet(Branch(n, i)) = {}
               /\ \A e \in ToSet(Branch(n, i)) : e \in Own(n) /\ e.by = n /\ e.type = "error"
    <3>1. PICK v \in Severities : Branch(n, i) = IF Told(n, i) THEN <<>> ELSE <<Error(n, v)>>
      BY <2>3 DEF Branch, BranchEvents, Severities
    <3>2. /\ Error(n, v) \in Own(n) /\ Error(n, v).by = n /\ Error(n, v).type = "error"
          /\ Error(n, v) \in Logged /\ \A m \in Nodes : Error(n, v) # Enter(m)
      BY Brackets, EventForms
    <3>3. Whole(<<Error(n, v)>>, Own(n)) /\ Whole(<<>>, Own(n))
      BY <3>2, WholeFew
    <3> QED
      BY <2>3, <3>1, <3>2, <3>3, Few
  <2>4. ASSUME NEW i \in 1..k, NEW j \in 1..k, i < j, NEW e \in ToSet(Branch(n, i)), e \in ToSet(Branch(n, j)) PROVE FALSE
    <3>1. CASE B(i) /\ B(j)
      <4>1. e.by \in Under[Children[n][i]] /\ e.by \in Under[Children[n][j]]
        BY <2>2, <2>4, <3>1
      <4>2. Children[n][i] # Children[n][j]
        BY <2>1, <2>4
      <4> QED
        BY <2>1, <4>1, <4>2, Families
    <3>2. CASE ~B(i) /\ ~B(j)
      <4>1. phase[Children[n][i]] = "threw" /\ phase[Children[n][j]] = "threw"
        BY <1>5, <2>1, <3>2 DEF Settled
      <4>2. i \in 1..j - 1
        BY <2>1, <2>4
      <4>3. Told(n, j)
        BY <4>1, <4>2 DEF Told
      <4> QED
        BY <2>3, <2>4, <3>2, <4>3
    <3>3. CASE B(i) /\ ~B(j)
      BY <2>2, <2>3, <2>4, <3>3
    <3>4. CASE ~B(i) /\ B(j)
      BY <2>2, <2>3, <2>4, <3>4
    <3> QED
      BY <3>1, <3>2, <3>3, <3>4
  <2>5. ASSUME NEW i \in 1..k PROVE L(i) \in Seq(Logged) /\ Whole(L(i), Own(n)) /\ ToSet(L(i)) \subseteq ToSet(Branch(n, i))
    BY <2>2, <2>3
  <2>6. ASSUME NEW i \in 1..k PROVE Branch(n, i) \in Seq(Logged) /\ Whole(Branch(n, i), Own(n))
    BY <2>2, <2>3
  <2> HIDE DEF L
  <2>7. /\ f \in [1..k -> Seq(Logged)] /\ \A i \in 1..k : f[i] = Branch(n, i)
        /\ g \in [1..k -> Seq(Logged)] /\ \A i \in 1..k : g[i] = L(i)
    BY <2>1, <2>5, <2>6
  <2>8. Branches(n) = FlattenSeq(f) /\ BranchLoud(n) = FlattenSeq(g)
    BY DEF Branches, BranchLoud, L
  <2>9. k \in Nat
    BY <2>1
  <2> HIDE DEF f, g, k, B
  <2>10. /\ Branches(n) \in Seq(Logged) /\ \A e : e \in ToSet(Branches(n)) <=> \E i \in 1..k : e \in ToSet(Branch(n, i))
         /\ BranchLoud(n) \in Seq(Logged) /\ \A e : e \in ToSet(BranchLoud(n)) <=> \E i \in 1..k : e \in ToSet(L(i))
    BY <2>7, <2>8, <2>9, FlatMembers
  <2>11. \A i, j \in 1..k : i # j => \A e \in ToSet(Branch(n, i)) : e \notin ToSet(Branch(n, j))
    <3>1. \A i, j \in 1..k : i < j \/ j < i \/ i = j
      OBVIOUS
    <3> QED
      BY <2>4, <3>1
  <2>12. Whole(Branches(n), Own(n)) /\ Whole(BranchLoud(n), Own(n))
    <3>1. /\ \A i \in 1..k : Whole(f[i], Own(n)) /\ Whole(g[i], Own(n))
          /\ \A i, j \in 1..k : i # j => \A e \in ToSet(f[i]) : e \notin ToSet(f[j])
          /\ \A i, j \in 1..k : i # j => \A e \in ToSet(g[i]) : e \notin ToSet(g[j])
      BY <2>5, <2>6, <2>7, <2>11
    <3>2. \A m \in Nodes : Enter(m) \notin Own(n)
      BY Brackets
    <3> QED
      BY ZenonT(30), <2>7, <2>8, <2>9, <3>1, <3>2, FlatWhole
  <2>13. ToSet(events[n]) = {} /\ Whole(events[n] \o Branches(n), Own(n))
    <3>1. <<>> \o Branches(n) = Branches(n)
      BY <2>10
    <3> QED
      BY <1>2, <2>12, <3>1, Few
  <2>14. ASSUME NEW i \in 1..k, B(i)
         PROVE  /\ ToSet(Branch(n, i)) \subseteq ToSet(Branches(n))
                /\ \A e \in ToSet(Branch(n, i)) : Taken(e, Children[n][i], Branches(n), {})
    <3>1. ToSet(Branch(n, i)) \subseteq ToSet(Branches(n))
      BY <2>10
    <3> QED
      BY <2>2, <2>14, <3>1
  <2>15. Sources(n, Branches(n), {})
    <3>1. ASSUME NEW e \in ToSet(Branches(n))
          PROVE  (e \in Own(n) /\ e.type # "user_message") \/ \E c \in ToSet(Children[n]) : Taken(e, c, Branches(n), {})
      <4>1. PICK i \in 1..k : e \in ToSet(Branch(n, i))
        BY <2>10
      <4>2. CASE B(i)
        BY <2>1, <2>14, <4>1, <4>2
      <4>3. CASE ~B(i)
        BY <2>3, <4>1, <4>3
      <4> QED
        BY <4>2, <4>3
    <3> QED
      BY <2>13, <3>1 DEF Sources
  <2>16. Loud(n, Branches(n), BranchLoud(n))
    <3>1. ASSUME NEW e \in ToSet(BranchLoud(n))
          PROVE  e \in ToSet(Branches(n)) /\ ItsOwn(e, n) /\ e.type # "user_message"
      <4>1. PICK i \in 1..k : e \in ToSet(L(i))
        BY <2>10
      <4>2. e \in ToSet(Branch(n, i)) /\ e \in ToSet(Branches(n))
        BY <2>5, <2>10, <4>1
      <4>3. CASE B(i)
        <5>1. e \in {Enter(Children[n][i]), Exit(Children[n][i])}
          BY <2>2, <4>1, <4>3
        <5> QED
          BY <2>1, <4>2, <5>1, Brackets DEF ItsOwn
      <4>4. CASE ~B(i)
        BY <2>3, <4>2, <4>4 DEF ItsOwn
      <4> QED
        BY <4>3, <4>4
    <3> QED
      BY <2>10, <2>12, <3>1 DEF Loud, Whole
  <2>17. Results(n, Branches(n), "returned", {}) /\ GoesOn(n, Branches(n), "returned", {})
    BY <2>13 DEF Results, GoesOn
  <2> QED
    BY <1>1, <1>5, <2>10, <2>15, <2>16, <2>17, TrackTells
<1> QED
  BY <1>3, <1>4, <1>5

(* guardrail, withReferences and hook: what they do before their child.     *)
LEMMA BeforeTells ==
  ASSUME FailuresInv, EventsInv, NEW n \in Nodes, Before(n)
  PROVE  Telling(n)
<1> DEFINE c == Head(Children[n])
<1>1. /\ phase[n] = "running" /\ Kind[n] \in {"guardrail", "references", "hook"} /\ ~Sequential(n)
      /\ c \in Nodes /\ ToSet(Children[n]) = {c} /\ c # n /\ phase[c] = "idle"
  BY OneChild DEF Before, Sequential
<1>2. Untouched(n)
  BY <1>1 DEF Untouched, Wraps
<1>3. events[n] = <<>> /\ Whole(events[n], Own(n))
  BY <1>1, <1>2, RunningScope
<1>4. /\ Content(n) \in Own(n) /\ Content(n).type # "user_message"
      /\ \A v \in Severities : Error(n, v) \in Own(n) /\ Error(n, v).type # "user_message"
      /\ {"none", "irrecoverable"} \subseteq Severities
  BY Brackets DEF Severities
<1>5. ToSet(events[n]) = {}
  BY <1>3, Few
<1>6. ASSUME NEW v \in Severities, Returns(n, <<Error(n, v)>>, data[n]) PROVE Telling(n)
  BY <1>1, <1>3, <1>4, <1>5, <1>6, TellsOne
<1>7. /\ \A cs : Sources(n, <<>>, cs) /\ Loud(n, <<>>, <<>>)
      /\ \A p, cs : Results(n, <<>>, p, cs) /\ GoesOn(n, <<>>, p, cs)
  <2>1. <<>> \in Seq(Logged) /\ Whole(events[n] \o <<>>, Own(n)) /\ ToSet(<<>>) = {}
    BY <1>3, Silence
  <2> QED
    BY <1>1, <1>3, <2>1, Silence DEF Results, GoesOn
<1>8. CASE CallsOut(n, <<>>, <<>>, {c})
  <2>1. <<>> \in Seq(Logged)
    BY Silence
  <2> QED
    BY <1>1, <1>7, <1>8, <2>1, CallTells
<1>9. CASE Kind[n] = "references" /\ CallsOut(n, <<Content(n)>>, <<Content(n)>>, {c})
  <2> DEFINE es == <<Content(n)>>
  <2>1. /\ es \in Seq(Logged) /\ ToSet(es) = {Content(n)} /\ Whole(events[n] \o es, Own(n))
        /\ Sources(n, es, {c}) /\ Loud(n, es, es)
    BY <1>3, <1>4, <1>5, OneEvent
  <2>2. Results(n, es, "running", {c}) /\ GoesOn(n, es, "running", {c})
    BY <1>1, <1>3, <1>9, <2>1 DEF Results, GoesOn
  <2> HIDE DEF es
  <2>3. CallsOut(n, es, es, {c})
    BY <1>9 DEF es
  <2> QED
    BY <1>1, <2>1, <2>2, <2>3, CallTells
<1>10. CASE /\ phase' = [phase EXCEPT ![n] = "returned", ![c] = "running"]
            /\ data' = [data EXCEPT ![c] = data[n]]
            /\ UNCHANGED <<events, heard, emitted, chain>>
  <2>1. Tells(n, <<>>, <<>>, "returned", {c})
    BY <1>1, <1>7, Silence DEF Tells
  <2>2. EmitLive(<<>>)
    <3>1. heard \o <<>> = heard /\ ToSet(<<>>) = {}
      BY Few DEF EventsInv, HeardOnce
    <3> QED
      BY <1>10, <3>1 DEF EmitLive
  <2>3. Moves(n, <<>>, "returned", data[n], {c})
    <3>1. events[n] \o <<>> = events[n] /\ events[c] = <<>>
      BY <1>1, Silence DEF FailuresInv, ScopesOK
    <3> QED
      BY <1>1, <1>10, <3>1 DEF Moves, FailuresInv, ScopesOK
  <2> QED
    BY <2>1, <2>2, <2>3 DEF Telling
<1>11. \/ \E v \in Severities : Returns(n, <<Error(n, v)>>, data[n])
       \/ CallsOut(n, <<>>, <<>>, {c})
       \/ Kind[n] = "references" /\ CallsOut(n, <<Content(n)>>, <<Content(n)>>, {c})
       \/ /\ phase' = [phase EXCEPT ![n] = "returned", ![c] = "running"]
          /\ data' = [data EXCEPT ![c] = data[n]]
          /\ UNCHANGED <<events, heard, emitted, chain>>
  BY <1>4 DEF Before
<1> QED
  BY <1>6, <1>8, <1>9, <1>10, <1>11

(* and after it: the child in its brackets, and maybe a warning.            *)
LEMMA AfterTells ==
  ASSUME FailuresInv, EventsInv, NEW n \in Nodes, After(n)
  PROVE  Telling(n)
<1> DEFINE c    == Head(Children[n])
           e    == Error(n, "none")
           mine == Bracket(c)
           warn == <<e>>
<1>1. phase[n] = "running" /\ Kind[n] \in {"guardrail", "references"} /\ ~Sequential(n)
  BY DEF After, Sequential
<1>2. \/ phase[c] = "returned" /\ Tracks(n, mine, <<>>, "returned", data[c])
      \/ phase[c] = "returned" /\ Tracks(n, mine \o warn, warn, "returned", data[c])
      \/ phase[c] = "threw" /\ Returns(n, warn, data[n])
  BY DEF After, Bracket
<1>3. c \in Nodes /\ c \in ToSet(Children[n])
  BY <1>1, OneChild
<1>4. /\ Whole(events[n], Own(n)) /\ ToSet(events[n]) \subseteq {Content(n)} /\ events[n] \in Seq(Logged)
      /\ e \notin ToSet(events[n])
  BY <1>1, RunningScope DEF FailuresInv, ScopesOK
<1>5. /\ e \in Own(n) /\ e.type # "user_message" /\ e.by = n
      /\ \A m \in Nodes : Enter(m) \notin Own(n) /\ Content(n).by = n
  BY Brackets DEF Severities
<1>6. CASE phase[c] = "threw" /\ Returns(n, warn, data[n])
  BY <1>1, <1>4, <1>5, <1>6, TellsOne
<1>7. warn \in Seq(Logged) /\ ToSet(warn) = {e} /\ Whole(warn, Own(n)) /\ \A es : e \in ToSet(es) => Loud(n, es, warn)
  <2>1. warn \in Seq(Logged) /\ ToSet(warn) = {e} /\ \A es : e \in ToSet(es) => Loud(n, es, warn)
    BY <1>4, <1>5, OneEvent
  <2>2. Whole(warn, Own(n))
    BY <1>5, WholeFew
  <2> QED
    BY <2>1, <2>2
<1> HIDE DEF c, e, mine, warn
<1>8. CASE phase[c] = "returned"
  <2>1. /\ mine \in Seq(Logged) /\ Whole(mine, Own(n))
        /\ \A x \in ToSet(mine) : x.by # n
        /\ \A es : ToSet(mine) \subseteq ToSet(es) => \A x \in ToSet(mine) : Taken(x, c, es, {})
    BY <1>3, <1>8, Collected DEF mine
  <2>2. \A x \in ToSet(mine) : x \notin ToSet(events[n]) /\ x # e
    BY <1>4, <1>5, <2>1
  <2>3. /\ mine \o warn \in Seq(Logged) /\ ToSet(mine \o warn) = ToSet(mine) \cup {e}
        /\ Whole(mine \o warn, Own(n))
    <3>1. \A x \in ToSet(mine) : x \notin ToSet(warn)
      BY <1>7, <2>2
    <3> QED
      BY <1>5, <1>7, <2>1, <3>1, Joined, WholeJoined
  <2>4. ASSUME NEW es \in Seq(Logged), NEW loud, Tracks(n, es, loud, "returned", data[c]), Whole(es, Own(n)),
               ToSet(mine) \subseteq ToSet(es), ToSet(es) \subseteq ToSet(mine) \cup {e}, Loud(n, es, loud)
        PROVE  Telling(n)
    <3>1. \A x \in ToSet(events[n]) : x \notin ToSet(es)
      BY <1>4, <2>2, <2>4
    <3>2. Whole(events[n] \o es, Own(n))
      BY <1>4, <1>5, <2>4, <3>1, WholeJoined
    <3>3. Sources(n, es, {})
      BY <1>3, <1>5, <2>1, <2>4, <3>1 DEF Sources
    <3>4. Results(n, es, "returned", {}) /\ GoesOn(n, es, "returned", {})
      BY <3>2 DEF Results, GoesOn
    <3> QED
      BY <1>1, <2>4, <3>3, <3>4, TrackTells
  <2>5. Loud(n, mine, <<>>)
    BY Silence
  <2>6. Loud(n, mine \o warn, warn)
    BY <1>7, <2>3
  <2> QED
    BY <1>2, <1>6, <2>1, <2>3, <2>4, <2>5, <2>6
<1> QED
  BY <1>2, <1>6, <1>8

LEMMA PatternTells ==
  ASSUME FailuresInv, EventsInv, PatternStep
  PROVE  \E n \in Nodes : Telling(n)
BY LeafTells, RouterTells, RoutesTells, ChainTells, ParallelTells, BeforeTells, AfterTells, SynthesizeTells
   DEF PatternStep

-----------------------------------------------------------------------------
(* Nothing is in a scope when no pattern has been called.                   *)
LEMMA EmptyScopes ==
  ASSUME \A n \in Nodes : phase[n] = "idle" /\ events[n] = <<>>
  PROVE  ScopesWhole /\ ScopesOwn /\ RunningOwn
<1>1. \A n \in Nodes : ToSet(events[n]) = {} /\ Whole(events[n], Own(n))
  BY Few, WholeFew
<1> QED
  BY <1>1 DEF ScopesWhole, ScopesOwn, RunningOwn

LEMMA EventsStart == HarnessInit => EventsInv
<1> SUFFICES ASSUME HarnessInit PROVE EventsInv
  OBVIOUS
<1> USE DEF HarnessInit
<1>1. ScopesWhole /\ ScopesOwn /\ RunningOwn
  BY EmptyScopes
<1>2. <<>> \in Seq(Logged) /\ IsInjective(<<>>) /\ ToSet(<<>>) = {} /\ Whole(<<>>, {User}) /\ pos \notin DOMAIN Top
  BY Few, AtMostOne, WholeFew, TreeFacts
<1>3. HeardOnce
  BY <1>2 DEF HeardOnce, InTop
<1>4. LogWhole
  BY <1>2 DEF LogWhole, InTop
<1> QED
  BY <1>1, <1>3, <1>4 DEF EventsInv

LEMMA StartFaithful ==
  ASSUME FailuresInv, StartTurn
  PROVE  EventsInv'
<1> USE DEF StartTurn
<1>1. \A n \in Nodes : phase'[n] = "idle" /\ events'[n] = <<>>
  OBVIOUS
<1>2. ScopesWhole' /\ ScopesOwn' /\ RunningOwn'
  <2>1. \A n \in Nodes : ToSet(events'[n]) = {} /\ Whole(events'[n], Own(n))
    BY <1>1, Few, WholeFew
  <2> QED
    BY <1>1, <2>1 DEF ScopesWhole, ScopesOwn, RunningOwn
<1>3. /\ <<User>> \in Seq(Logged) /\ IsInjective(<<User>>) /\ ToSet(<<User>>) = {User} /\ Whole(<<User>>, {User})
      /\ ~InTop'
  <2>1. User \in Logged /\ \A n \in Nodes : User # Enter(n)
    BY EventForms, Brackets
  <2>2. ~InTop'
    BY <1>1, TreeFacts DEF InTop
  <2> QED
    BY <2>1, <2>2, Few, AtMostOne, WholeFew
<1>4. HeardOnce'
  BY <1>3 DEF HeardOnce
<1>5. LogWhole'
  BY <1>3 DEF LogWhole
<1> QED
  BY <1>2, <1>4, <1>5 DEF EventsInv

LEMMA SettleFaithful ==
  ASSUME FailuresInv, EventsInv, SettleTurn
  PROVE  EventsInv'
<1>1. /\ pos > Len(Top) \/ (pos > 0 /\ status = "error")
      /\ pos' = 0 /\ UNCHANGED <<log, heard, emitted, live, phase, events>>
  BY DEF SettleTurn
<1>2. ScopesOK /\ TopsInOrder /\ ScopesWhole /\ ScopesOwn /\ RunningOwn /\ HeardOnce /\ LogWhole
  BY DEF FailuresInv, EventsInv
<1>3. ScopesWhole' /\ ScopesOwn' /\ RunningOwn'
  <2>1. ScopesWhole'
    BY <1>1, <1>2 DEF ScopesWhole, Open, Sequential
  <2>2. ScopesOwn'
    BY <1>1, <1>2 DEF ScopesOwn
  <2>3. RunningOwn'
    BY <1>1, <1>2 DEF RunningOwn, Untouched, Sequential
  <2> QED
    BY <2>1, <2>2, <2>3
<1>4. ~InTop /\ ~InTop'
  <2>1. DOMAIN Top = 1..Len(Top) /\ Len(Top) \in Nat
    BY TreeFacts
  <2> QED
    BY <1>1, <1>2, <2>1 DEF InTop, TopsInOrder, ScopesOK
<1>5. \A i : Passed(i)'
  BY <1>1 DEF Passed
<1>6. HeardOnce'
  BY <1>1, <1>2, <1>4, <1>5 DEF HeardOnce
<1>7. LogWhole'
  <2>1. \A e \in ToSet(log) : e = User \/ \E i \in DOMAIN Top : e.by \in Under[Top[i]] /\ e.type # "user_message"
    BY <1>2 DEF LogWhole
  <2>2. /\ \A e \in ToSet(log) \ ToSet(heard) :
             /\ e.by \in Tops
             /\ \/ e.by \notin Live /\ e.type \in {"pattern_enter", "pattern_exit"}
                \/ phase[e.by] = "threw" /\ e.type = "error"
        /\ Whole(log, {User})
    BY <1>2, <1>4 DEF LogWhole
  <2> QED
    BY <1>1, <1>4, <1>5, <2>1, <2>2 DEF LogWhole
<1> QED
  BY <1>3, <1>6, <1>7 DEF EventsInv

LEMMA EventsStay ==
  ASSUME EventsInv, UNCHANGED harnessVars
  PROVE  EventsInv'
<1>1. log' = log /\ heard' = heard /\ emitted' = emitted /\ live' = live /\ phase' = phase /\ events' = events /\ pos' = pos
  BY DEF harnessVars
<1>2. ScopesWhole' /\ ScopesOwn' /\ RunningOwn'
  <2>1. ScopesWhole'
    BY <1>1 DEF EventsInv, ScopesWhole, Open, Sequential
  <2>2. ScopesOwn'
    BY <1>1 DEF EventsInv, ScopesOwn
  <2>3. RunningOwn'
    BY <1>1 DEF EventsInv, RunningOwn, Untouched, Sequential
  <2> QED
    BY <2>1, <2>2, <2>3
<1>3. HeardOnce' /\ LogWhole'
  <2>1. HeardOnce'
    BY <1>1 DEF EventsInv, HeardOnce, InTop, Passed
  <2>2. LogWhole'
    BY <1>1 DEF EventsInv, LogWhole, InTop, Passed
  <2> QED
    BY <2>1, <2>2
<1> QED
  BY <1>2, <1>3 DEF EventsInv

-----------------------------------------------------------------------------
(* A pattern at the top that is entered or left changes no scope.           *)
LEMMA TopKeepsScopes ==
  ASSUME FailuresInv, EventsInv, NEW p \in Nodes, p \in ToSet(Top), UNCHANGED events,
         \A x \in Nodes : x # p => phase'[x] = phase[x],
         \/ phase[p] = "idle" /\ phase'[p] = "running"
         \/ phase[p] = "returned" /\ phase'[p] = "collected"
         \/ phase[p] = "threw" /\ phase'[p] = "threw"
  PROVE  ScopesWhole' /\ ScopesOwn' /\ RunningOwn'
<1>1. /\ \A x \in Nodes : phase[x] # "idle" => phase'[x] # "idle"
      /\ \A m, c \in Nodes : Wraps(m, c) => phase'[c] = phase[c]
      /\ phase[p] = "idle" => events[p] = <<>>
      /\ ScopesWhole /\ ScopesOwn /\ RunningOwn
  BY TreeFacts DEF FailuresInv, EventsInv, ScopesOK, Wraps
<1>2. ScopesWhole'
  <2>1. ASSUME NEW x \in Nodes, phase'[x] # "threw"
        PROVE  Whole(events[x], Own(x)) \/ (Sequential(x) /\ phase'[x] = "running" /\ Open(x)')
    <3>1. CASE x = p
      BY <1>1, <2>1, <3>1, WholeFew DEF ScopesWhole
    <3>2. CASE x # p
      <4>1. Open(x) => Open(x)'
        BY <1>1, TreeFacts DEF Open
      <4> QED
        BY <1>1, <2>1, <3>2, <4>1 DEF ScopesWhole
    <3> QED
      BY <3>1, <3>2
  <2> QED
    BY <2>1 DEF ScopesWhole, Sequential
<1>3. ScopesOwn'
  BY <1>1 DEF ScopesOwn, Wraps
<1>4. RunningOwn'
  <2> DEFINE Tracked(x) ==
        IF Sequential(x)
        THEN /\ \A e \in ToSet(events[x]) : e.by # x
             /\ \A c \in Nodes : Wraps(x, c) /\ phase'[c] # "idle" => Enter(c) \in ToSet(events[x])
             /\ Kind[x] = "routes" => \A c \in Nodes : Exit(c) \notin ToSet(events[x])
        ELSE /\ ToSet(events[x]) \subseteq {Content(x)}
             /\ events[x] = <<>> \/ Kind[x] = "leaf" \/ (Kind[x] = "references" /\ ~Untouched(x)')
  <2>1. ASSUME NEW x \in Nodes, phase'[x] = "running" PROVE Tracked(x)
    <3>1. CASE x = p
      <4>1. phase[p] = "idle" /\ events[p] = <<>> /\ ToSet(events[p]) = {}
        BY <1>1, <2>1, <3>1, Few
      <4>2. \A c \in Nodes : Wraps(p, c) => phase'[c] = "idle"
        BY <1>1, <4>1 DEF FailuresInv, CallsOK
      <4> QED
        BY <3>1, <4>1, <4>2
    <3>2. CASE x # p
      <4>1. phase[x] = "running" /\ (~Untouched(x) => ~Untouched(x)')
        BY <1>1, <2>1, <3>2 DEF Untouched, Wraps
      <4> QED
        BY <1>1, <3>2, <4>1 DEF RunningOwn
    <3> QED
      BY <3>1, <3>2
  <2> QED
    BY <2>1 DEF RunningOwn, Sequential, Wraps
<1> QED
  BY <1>2, <1>3, <1>4

LEMMA EnterFaithful ==
  ASSUME FailuresInv, EventsInv, EnterTop
  PROVE  EventsInv'
<1> DEFINE p == Top[pos]
           e == Enter(p)
<1>1. /\ pos \in DOMAIN Top /\ phase[p] = "idle" /\ log' = Append(log, e) /\ live' = (p \in Live)
      /\ heard' = IF p \in Live THEN Append(heard, e) ELSE heard
      /\ emitted' = IF p \in Live THEN emitted \cup {e} ELSE emitted
      /\ phase' = [phase EXCEPT ![p] = "running"] /\ UNCHANGED <<events, pos>>
  BY DEF EnterTop
<1>2. /\ p \in Nodes /\ p \in ToSet(Top) /\ p \in Tops /\ pos \in Nat /\ pos >= 1
      /\ ScopesOK /\ ScopesOwn /\ HeardOnce /\ LogWhole
  BY <1>1, TreeFacts DEF FailuresInv, EventsInv, Tops
<1>3. /\ e \in Logged /\ e.by = p /\ e.type = "pattern_enter" /\ e # User
      /\ \A n \in Nodes : e # Exit(n) /\ (e = Enter(n) => n = p)
  BY <1>2, EventForms, Brackets
<1>4. Top[pos'] = p /\ \A i : Passed(i)' = Passed(i)
  BY <1>1 DEF Passed
<1> HIDE DEF p, e
<1>5. /\ phase'[p] = "running" /\ \A x \in Nodes : x # p => phase'[x] = phase[x]
      /\ \A x \in Nodes : phase[x] # "idle" => phase'[x] # "idle"
  BY <1>1, <1>2 DEF ScopesOK
<1>6. ScopesWhole' /\ ScopesOwn' /\ RunningOwn'
  BY <1>1, <1>2, <1>5, TopKeepsScopes
<1>7. ~InTop /\ InTop'
  BY <1>1, <1>4, <1>5 DEF InTop, p
<1>8. e \notin ToSet(heard)
  <2> SUFFICES ASSUME e \in ToSet(heard) PROVE FALSE
    OBVIOUS
  <2>1. CASE \E m \in Nodes : e \in ToSet(events[m])
    <3>1. PICK m \in Nodes : e \in ToSet(events[m])
      BY <2>1
    <3>2. p \in Under[m]
      BY <1>2, <1>3, <3>1 DEF ScopesOwn
    <3>3. m = p
      BY <1>1, <3>1, <3>2, Families DEF p
    <3>4. events[p] = <<>>
      BY <1>1, <1>2 DEF ScopesOK
    <3> QED
      BY <3>1, <3>3, <3>4, Few
  <2>2. PICK i \in DOMAIN Top : (e = Enter(Top[i]) /\ phase[Top[i]] # "idle") \/ e = Exit(Top[i])
    BY <1>2, <1>3, <2>1 DEF HeardOnce
  <2> QED
    BY <1>1, <1>3, <2>2, TreeFacts
<1>9. /\ heard \in Seq(Logged) /\ IsInjective(heard) /\ <<e>> \in Seq(Logged) /\ IsInjective(<<e>>)
      /\ ToSet(<<e>>) = {e} /\ emitted \subseteq ToSet(heard)
  BY <1>2, <1>3, Few, AtMostOne DEF HeardOnce
<1>10. /\ Append(heard, e) \in Seq(Logged) /\ IsInjective(Append(heard, e))
       /\ ToSet(Append(heard, e)) = ToSet(heard) \cup {e}
  <2>1. Append(heard, e) \in Seq(Logged) /\ ToSet(Append(heard, e)) = ToSet(heard) \cup {e}
    BY <1>3, <1>9, Appended
  <2>2. Append(heard, e) = heard \o <<e>>
    BY <1>3, <1>9
  <2>3. IsInjective(heard \o <<e>>)
    <3>1. \A x \in ToSet(heard) : x \notin ToSet(<<e>>)
      BY <1>8, <1>9
    <3> QED
      BY <1>9, <3>1, JoinedOnce
  <2> QED
    BY <2>1, <2>2, <2>3
<1>11. /\ heard' \in Seq(Logged) /\ IsInjective(heard') /\ ToSet(heard) \subseteq ToSet(heard')
       /\ emitted \subseteq emitted' /\ emitted' \subseteq ToSet(heard')
       /\ \A x \in ToSet(heard') : x \in ToSet(heard) \/ (x = e /\ e \in emitted')
       /\ p \in Live => e \in ToSet(heard')
  <2>1. CASE p \in Live
    <3>1. heard' = Append(heard, e) /\ emitted' = emitted \cup {e}
      BY <1>1, <2>1
    <3> QED
      BY <1>9, <1>10, <3>1
  <2>2. CASE p \notin Live
    <3>1. heard' = heard /\ emitted' = emitted
      BY <1>1, <2>2
    <3> QED
      BY <1>9, <2>2, <3>1
  <2> QED
    BY <2>1, <2>2
<1>12. HeardOnce'
  <2>1. ASSUME NEW x \in ToSet(heard')
        PROVE  /\ \/ x = User \/ \E m \in Nodes : x \in ToSet(events'[m])
                  \/ \E i \in DOMAIN Top : (x = Enter(Top[i]) /\ phase'[Top[i]] # "idle") \/ (x = Exit(Top[i]) /\ Passed(i)')
               /\ x \in emitted' \/ x = User \/ \E i \in DOMAIN Top : Passed(i)' /\ x.by \in Under[Top[i]]
    <3>1. CASE x \in ToSet(heard)
      <4>1. x \in emitted' \/ x = User \/ \E i \in DOMAIN Top : Passed(i)' /\ x.by \in Under[Top[i]]
        BY <1>2, <1>4, <1>11, <3>1 DEF HeardOnce
      <4>2. \/ x = User \/ \E m \in Nodes : x \in ToSet(events[m])
            \/ \E i \in DOMAIN Top : (x = Enter(Top[i]) /\ phase[Top[i]] # "idle") \/ (x = Exit(Top[i]) /\ Passed(i))
        BY <1>2, <3>1 DEF HeardOnce
      <4> QED
        BY <1>1, <1>4, <1>5, <4>1, <4>2, TreeFacts
    <3>2. CASE x = e /\ e \in emitted'
      <4>1. x = Enter(Top[pos]) /\ phase'[Top[pos]] # "idle" /\ pos \in DOMAIN Top
        BY <1>1, <1>5, <3>2 DEF e, p
      <4> QED
        BY <3>2, <4>1
    <3> QED
      BY <1>11, <2>1, <3>1, <3>2
  <2>2. IF InTop' THEN live' = (Top[pos'] \in Live) ELSE ~live'
    BY <1>1, <1>4, <1>7
  <2> QED
    BY <1>11, <2>1, <2>2 DEF HeardOnce
<1>13. /\ log \in Seq(Logged) /\ Whole(log, {User}) /\ log' = log \o <<e>> /\ ToSet(log') = ToSet(log) \cup {e}
  <2>1. log \in Seq(Logged) /\ Whole(log, {User})
    BY <1>2, <1>7 DEF ScopesOK, LogWhole
  <2>2. ToSet(Append(log, e)) = ToSet(log) \cup {e}
    BY <1>3, <2>1, Appended
  <2>3. Append(log, e) = log \o <<e>>
    BY <1>3, <2>1
  <2> QED
    BY <1>1, <2>1, <2>2, <2>3
<1>14. LogWhole'
  <2>1. ASSUME NEW x \in ToSet(log')
        PROVE  x = User \/ \E i \in DOMAIN Top :
                 x.by \in Under[Top[i]] /\ x.type # "user_message" /\ (Passed(i)' \/ (InTop' /\ i = pos' /\ x = Enter(Top[i])))
    <3>1. CASE x \in ToSet(log)
      BY <1>2, <1>4, <1>7, <3>1 DEF LogWhole
    <3>2. CASE x = e
      <4>1. x.by \in Under[Top[pos]] /\ x.type # "user_message" /\ x = Enter(Top[pos])
        BY <1>2, <1>3, <3>2, UnderFacts DEF p, e
      <4> QED
        BY <1>1, <1>7, <4>1
    <3> QED
      BY <1>13, <2>1, <3>1, <3>2
  <2>2. ASSUME NEW x \in ToSet(log'), x \notin ToSet(heard')
        PROVE  /\ x.by \in Tops
               /\ \/ x.by \notin Live /\ x.type \in {"pattern_enter", "pattern_exit"}
                  \/ phase'[x.by] = "threw" /\ x.type = "error"
    <3>1. CASE x = e
      BY <1>2, <1>3, <1>11, <2>2, <3>1
    <3>2. CASE x \in ToSet(log)
      <4>1. /\ x.by \in Tops
            /\ \/ x.by \notin Live /\ x.type \in {"pattern_enter", "pattern_exit"}
               \/ phase[x.by] = "threw" /\ x.type = "error"
        BY <1>2, <1>11, <2>2, <3>2 DEF LogWhole
      <4>2. phase[x.by] = "threw" => phase'[x.by] = "threw"
        BY <1>1, <1>5, <4>1 DEF Tops
      <4> QED
        BY <4>1, <4>2
    <3> QED
      BY <1>13, <2>2, <3>1, <3>2
  <2>3. \E u \in Seq(Logged) : log' = u \o <<Enter(Top[pos'])>> /\ Whole(u, {User})
    BY <1>4, <1>13 DEF e
  <2> QED
    BY <1>7, <2>1, <2>2, <2>3 DEF LogWhole, Tops
<1> QED
  BY <1>6, <1>12, <1>14 DEF EventsInv

(* What is committed of a pattern at the top, and what of it is heard then. *)
Kept(p)     == IF phase[p] = "returned" THEN Committed(p) ELSE <<Error(p, "none")>>
ToldLate(p) == IF phase[p] = "returned" THEN Unheard(p) ELSE <<>>

CommitFits(p, es, told) ==
  /\ es \in Seq(Logged) /\ Whole(es, Own(p)) /\ Enter(p) \notin ToSet(es) /\ Exit(p) \notin ToSet(es)
  /\ \A e \in ToSet(es) : e.by \in Under[p] /\ e.type # "user_message"
  /\ told \in Seq(Logged) /\ IsInjective(told)
  /\ \A e \in ToSet(told) : e \in ToSet(events[p]) /\ e \notin emitted
  /\ \A e \in ToSet(es) : e \in ToSet(told) \/ e \in emitted
                          \/ (phase[p] = "threw" /\ e.by = p /\ e.type = "error")

LEMMA Commits ==
  ASSUME FailuresInv, EventsInv, NEW p \in Nodes, phase[p] \in {"returned", "threw"}
  PROVE  CommitFits(p, Kept(p), ToldLate(p))
<1> DEFINE es   == Kept(p)
           told == ToldLate(p)
<1>1. CASE phase[p] = "returned"
  <2> DEFINE D == Uncommitted(p)
             H == Uncommitted(p) \cup emitted
  <2>1. es = Without(events[p], D) /\ told = Without(events[p], H)
    BY <1>1 DEF Kept, ToldLate, Committed, Unheard
  <2>2. /\ events[p] \in Seq(Logged) /\ Whole(events[p], Own(p)) /\ IsInjective(events[p])
        /\ \A e \in ToSet(events[p]) : /\ e.by \in Under[p] /\ e.by \in Nodes /\ e \notin {Enter(p), Exit(p)}
                                       /\ e.type # "user_message"
    BY <1>1, ReturnedScope, UnderFacts DEF EventsInv, ScopesOwn, Whole
  <2>3. \A n \in Nodes : Enter(n) \notin D /\ Exit(n) \notin D
    <3>1. \A e \in D : e.type \notin Always
      BY DEF Uncommitted
    <3> QED
      BY <3>1, Brackets DEF Always
  <2> HIDE DEF D, H, es, told
  <2>4. /\ Without(events[p], D) \in Seq(Logged) /\ ToSet(Without(events[p], D)) = ToSet(events[p]) \ D
        /\ Without(events[p], H) \in Seq(Logged) /\ ToSet(Without(events[p], H)) = ToSet(events[p]) \ H
    BY <2>2, WithoutMembers
  <2>5. Whole(Without(events[p], D), Own(p))
    BY <2>2, <2>3, WholeKept
  <2>6. IsInjective(Without(events[p], H))
    BY <2>2, WithoutOrder
  <2>7. \A e : e \in H <=> e \in D \/ e \in emitted
    BY DEF D, H
  <2> QED
    BY <2>1, <2>2, <2>4, <2>5, <2>6, <2>7 DEF CommitFits, es, told
<1>2. CASE phase[p] = "threw"
  <2>1. /\ Error(p, "none") \in Own(p) /\ Error(p, "none") \in Logged /\ Error(p, "none").by = p
        /\ Error(p, "none").type = "error" /\ Enter(p) \notin Own(p) /\ Exit(p) \notin Own(p)
        /\ \A n \in Nodes : Error(p, "none") # Enter(n)
    BY Brackets, EventForms DEF Severities
  <2>2. es = <<Error(p, "none")>> /\ told = <<>>
    BY <1>2 DEF Kept, ToldLate
  <2> HIDE DEF es, told
  <2>3. ToSet(es) = {Error(p, "none")} /\ ToSet(told) = {} /\ es \in Seq(Logged) /\ told \in Seq(Logged) /\ IsInjective(told)
    BY <2>1, <2>2, Few, AtMostOne
  <2>4. Whole(es, Own(p))
    BY <2>1, <2>2, WholeFew
  <2> QED
    BY <1>2, <2>1, <2>3, <2>4, UnderFacts DEF CommitFits, es, told
<1> QED
  BY <1>1, <1>2

LEMMA LeaveFaithful ==
  ASSUME FailuresInv, EventsInv, LeaveTop
  PROVE  EventsInv'
<1> DEFINE p    == Top[pos]
           ok   == phase[p] = "returned"
           es   == Kept(p)
           told == ToldLate(p)
           last == IF live THEN <<Exit(p)>> ELSE <<>>
           start == <<Enter(p)>>
           end   == <<Exit(p)>>
<1>1. /\ pos \in DOMAIN Top /\ phase[p] \in {"returned", "threw"} /\ log' = log \o es \o end
      /\ heard' = heard \o told \o last /\ emitted' = emitted \cup ToSet(last)
      /\ phase' = [phase EXCEPT ![p] = IF ok THEN "collected" ELSE @]
      /\ live' = FALSE /\ pos' = pos + 1 /\ UNCHANGED events
  BY DEF LeaveTop, Settled, Kept, ToldLate
<1>2. /\ p \in Nodes /\ p \in ToSet(Top) /\ p \in Tops /\ pos \in Nat /\ pos >= 1
      /\ ScopesOK /\ TopsInOrder /\ ScopesOwn /\ HeardOnce /\ LogWhole
  BY <1>1, TreeFacts DEF FailuresInv, EventsInv, Tops
<1>3. /\ es \in Seq(Logged) /\ Whole(es, Own(p)) /\ Enter(p) \notin ToSet(es) /\ Exit(p) \notin ToSet(es)
      /\ \A e \in ToSet(es) : e.by \in Under[p] /\ e.type # "user_message"
      /\ told \in Seq(Logged) /\ IsInjective(told)
      /\ \A e \in ToSet(told) : e \in ToSet(events[p]) /\ e \notin emitted
      /\ \A e \in ToSet(es) : e \in ToSet(told) \/ e \in emitted
                              \/ (phase[p] = "threw" /\ e.by = p /\ e.type = "error")
  BY <1>1, <1>2, Commits DEF CommitFits
<1>4. /\ Enter(p) \in Logged /\ Exit(p) \in Logged /\ Enter(p).by = p /\ Exit(p).by = p
      /\ Enter(p).type = "pattern_enter" /\ Exit(p).type = "pattern_exit"
      /\ \A n \in Nodes : Exit(p) # Enter(n) /\ Enter(p) # Exit(n)
      /\ User.type = "user_message" /\ Enter(p) # User /\ Exit(p) # User
      /\ p \in Under[p] /\ Under[p] \subseteq Nodes
  BY <1>2, EventForms, Brackets, UnderFacts
<1>5. /\ start \in Seq(Logged) /\ ToSet(start) = {Enter(p)} /\ end \in Seq(Logged) /\ ToSet(end) = {Exit(p)}
      /\ last \in Seq(Logged) /\ IsInjective(last) /\ ToSet(last) \subseteq {Exit(p)}
      /\ live => Exit(p) \in ToSet(last)
  BY <1>4, Few, AtMostOne
<1>6. InTop /\ live = (p \in Live)
  BY <1>1, <1>2 DEF InTop, HeardOnce
<1>7. /\ \A x \in Nodes : x # p => phase'[x] = phase[x]
      /\ (phase[p] = "returned" /\ phase'[p] = "collected") \/ (phase[p] = "threw" /\ phase'[p] = "threw")
      /\ \A x \in Nodes : phase[x] = "threw" => phase'[x] = "threw"
      /\ \A x \in Nodes : phase[x] # "idle" => phase'[x] # "idle"
  BY <1>1, <1>2 DEF ScopesOK
<1>8. \A i \in DOMAIN Top : /\ Passed(i) <=> i < pos
                            /\ Passed(i)' <=> i <= pos
                            /\ i \in Nat /\ Top[i] \in Nodes /\ (Top[i] = p <=> i = pos)
  BY <1>1, <1>2, TreeFacts DEF Passed
<1>9. \A i \in DOMAIN Top : Passed(i) => \A e : e.by \in Under[Top[i]] => e.by \notin Under[p]
  <2>1. ASSUME NEW i \in DOMAIN Top, Passed(i) PROVE Under[Top[i]] \cap Under[Top[pos]] = {}
    <3>1. i # pos
      BY <1>2, <1>8, <2>1
    <3> QED
      BY <1>1, <3>1, Families
  <2> QED
    BY <2>1
<1>10. PICK u \in Seq(Logged) : log = u \o start /\ Whole(u, {User})
  BY <1>2, <1>6 DEF LogWhole
<1>11. PICK h \in DOMAIN Top : Top[h] = p /\ h = pos /\ Top[pos] = p /\ log \in Seq(Logged)
  BY <1>1, <1>2 DEF ScopesOK
<1> HIDE DEF p, ok, es, told, last, start, end
<1>12. ScopesWhole' /\ ScopesOwn' /\ RunningOwn'
  BY <1>1, <1>2, <1>7, TopKeepsScopes
<1>13. ~InTop'
  <2> SUFFICES ASSUME pos' \in DOMAIN Top PROVE phase'[Top[pos']] = "idle"
    BY DEF InTop
  <2>1. phase[Top[pos']] = "idle" /\ Top[pos'] \in Nodes /\ Top[pos'] # p
    <3>1. pos' > pos /\ pos' # pos /\ pos > 0
      BY <1>1, <1>2
    <3> QED
      BY <1>2, <1>8, <3>1 DEF TopsInOrder
  <2> QED
    BY <1>7, <2>1
<1>14. /\ Exit(p) \notin ToSet(heard) /\ Exit(p) \notin ToSet(told)
       /\ \A e \in ToSet(told) : e \notin ToSet(heard)
  <2>1. \A m \in Nodes : Exit(p) \notin ToSet(events[m])
    <3>1. ASSUME NEW m \in Nodes, Exit(p) \in ToSet(events[m]) PROVE FALSE
      <4>1. p \in Under[m]
        BY <1>2, <1>4, <3>1 DEF ScopesOwn
      <4>2. m = p
        BY <1>1, <1>11, <4>1, Families
      <4> QED
        BY <1>2, <3>1, <4>2 DEF ScopesOwn
    <3> QED
      BY <3>1
  <2>2. Exit(p) \notin ToSet(heard)
    <3> SUFFICES ASSUME Exit(p) \in ToSet(heard) PROVE FALSE
      OBVIOUS
    <3>1. PICK i \in DOMAIN Top : Exit(p) = Exit(Top[i]) /\ Passed(i)
      BY <1>2, <1>4, <1>8, <2>1 DEF HeardOnce
    <3> QED
      BY <1>2, <1>8, <3>1, EventForms
  <2>3. ASSUME NEW e \in ToSet(told), e \in ToSet(heard) PROVE FALSE
    <3>1. e.by \in Under[p] /\ e # User /\ e \notin emitted
      BY <1>2, <1>3, <1>4, <2>3 DEF ScopesOwn
    <3>2. PICK i \in DOMAIN Top : Passed(i) /\ e.by \in Under[Top[i]]
      BY <1>2, <2>3, <3>1 DEF HeardOnce
    <3> QED
      BY <1>9, <3>1, <3>2
  <2> QED
    BY <1>2, <1>3, <2>1, <2>2, <2>3
<1>15. /\ heard' \in Seq(Logged) /\ IsInjective(heard')
       /\ \A e : e \in ToSet(heard') <=> e \in ToSet(heard) \/ e \in ToSet(told) \/ e \in ToSet(last)
  <2>1. heard \in Seq(Logged) /\ IsInjective(heard)
    BY <1>2 DEF HeardOnce
  <2> DEFINE s == heard \o told
  <2>2. s \in Seq(Logged) /\ IsInjective(s) /\ ToSet(s) = ToSet(heard) \cup ToSet(told)
    <3>1. \A e \in ToSet(heard) : e \notin ToSet(told)
      BY <1>14
    <3> QED
      BY <1>3, <2>1, <3>1, Joined, JoinedOnce
  <2>3. \A e \in ToSet(s) : e \notin ToSet(last)
    BY <1>5, <1>14, <2>2
  <2>4. heard' = s \o last
    BY <1>1
  <2> HIDE DEF s
  <2>5. s \o last \in Seq(Logged) /\ IsInjective(s \o last) /\ ToSet(s \o last) = ToSet(s) \cup ToSet(last)
    BY <1>5, <2>2, <2>3, Joined, JoinedOnce
  <2> QED
    BY <2>2, <2>4, <2>5
<1>16. HeardOnce'
  <2>1. emitted \subseteq ToSet(heard)
    BY <1>2 DEF HeardOnce
  <2>2. emitted' \subseteq ToSet(heard') /\ emitted \subseteq emitted'
    BY <1>1, <1>15, <2>1
  <2>3. ASSUME NEW e \in ToSet(heard')
        PROVE  /\ \/ e = User \/ \E m \in Nodes : e \in ToSet(events'[m])
                  \/ \E i \in DOMAIN Top : (e = Enter(Top[i]) /\ phase'[Top[i]] # "idle") \/ (e = Exit(Top[i]) /\ Passed(i)')
               /\ e \in emitted' \/ e = User \/ \E i \in DOMAIN Top : Passed(i)' /\ e.by \in Under[Top[i]]
    <3>1. CASE e \in ToSet(heard)
      <4>1. \A i \in DOMAIN Top : Passed(i) => Passed(i)'
        BY <1>2, <1>8
      <4>2. e \in emitted' \/ e = User \/ \E i \in DOMAIN Top : Passed(i)' /\ e.by \in Under[Top[i]]
        BY <1>2, <2>2, <3>1, <4>1 DEF HeardOnce
      <4>3. \/ e = User \/ \E m \in Nodes : e \in ToSet(events[m])
            \/ \E i \in DOMAIN Top : (e = Enter(Top[i]) /\ phase[Top[i]] # "idle") \/ (e = Exit(Top[i]) /\ Passed(i))
        BY <1>2, <3>1 DEF HeardOnce
      <4> QED
        BY <1>1, <1>7, <1>8, <4>1, <4>2, <4>3
    <3>2. CASE e \in ToSet(told)
      <4>1. e \in ToSet(events[p]) /\ e.by \in Under[Top[h]] /\ Passed(h)'
        BY <1>1, <1>2, <1>3, <1>8, <1>11, <3>2 DEF ScopesOwn
      <4> QED
        BY <1>1, <1>2, <4>1
    <3>3. CASE e \in ToSet(last)
      <4>1. e = Exit(Top[h]) /\ Passed(h)' /\ e \in emitted'
        BY <1>1, <1>2, <1>5, <1>8, <1>11, <3>3
      <4> QED
        BY <1>1, <4>1
    <3> QED
      BY <1>15, <2>3, <3>1, <3>2, <3>3
  <2> QED
    BY <1>1, <1>13, <1>15, <2>2, <2>3 DEF HeardOnce
<1> DEFINE w == start \o es \o end
<1>17. /\ w \in Seq(Logged) /\ Whole(w, {User}) /\ ToSet(w) = {Enter(p)} \cup ToSet(es) \cup {Exit(p)}
       /\ log' = u \o w
  <2>1. Whole(w, {User})
    BY <1>2, <1>3, WholeWrapped DEF start, end
  <2>2. start \o es \in Seq(Logged) /\ ToSet(start \o es) = {Enter(p)} \cup ToSet(es)
    BY <1>3, <1>5, Joined
  <2> DEFINE v == start \o es
  <2>3. v \in Seq(Logged) /\ w = v \o end /\ ToSet(v) = {Enter(p)} \cup ToSet(es)
    BY <2>2
  <2>4. log' = log \o es \o end
    BY <1>1
  <2>5. log \o es \o end = u \o w
    <3>1. u \in Seq(Logged) /\ start \in Seq(Logged) /\ es \in Seq(Logged) /\ end \in Seq(Logged)
      BY <1>3, <1>5
    <3>2. (u \o start) \o es \o end = u \o (start \o es \o end)
      BY ONLY SMTT(30), <3>1
    <3> QED
      BY <1>10, <3>2
  <2> HIDE DEF v, w
  <2>6. v \o end \in Seq(Logged) /\ ToSet(v \o end) = ToSet(v) \cup ToSet(end)
    BY <1>5, <2>3, Joined
  <2> QED
    BY <1>5, <2>1, <2>3, <2>4, <2>5, <2>6
<1> HIDE DEF w
<1>18. \A e \in ToSet(log) : e = User \/ \E i \in DOMAIN Top :
         e.by \in Under[Top[i]] /\ e.type # "user_message" /\ (Passed(i) \/ (i = pos /\ e = Enter(p)))
  BY <1>2, <1>11 DEF LogWhole
<1>19. ToSet(log) = ToSet(u) \cup {Enter(p)} /\ ToSet(log') = ToSet(u) \cup ToSet(w)
  BY <1>5, <1>10, <1>17, Joined
<1>20. Enter(p) \notin ToSet(u)
  <2> SUFFICES ASSUME Enter(p) \in ToSet(u) PROVE FALSE
    OBVIOUS
  <2>1. Precedes(u, Enter(p), Exit(p))
    BY <1>4, <1>10 DEF Whole, Spans
  <2>2. Exit(p) \in ToSet(log)
    BY <1>19, <2>1, PrecedesMembers
  <2>3. PICK i \in DOMAIN Top : p \in Under[Top[i]] /\ Passed(i)
    BY <1>2, <1>4, <1>18, <2>2
  <2> QED
    BY <1>4, <1>9, <2>3
<1>21. \A e \in ToSet(u) : e \notin ToSet(w)
  <2> SUFFICES ASSUME NEW e \in ToSet(u), e \in ToSet(w) PROVE FALSE
    OBVIOUS
  <2>1. e.by \in Under[p] /\ e.type # "user_message" /\ e # User
    BY <1>3, <1>4, <1>17
  <2>2. e \in ToSet(log) /\ e # Enter(p)
    BY <1>19, <1>20
  <2>3. PICK i \in DOMAIN Top : e.by \in Under[Top[i]] /\ Passed(i)
    BY <1>18, <2>1, <2>2
  <2> QED
    BY <1>9, <2>1, <2>3
<1>22. Whole(log', {User})
  <2>1. \A n \in Nodes : Enter(n) \notin {User}
    BY Brackets
  <2> QED
    BY <1>10, <1>17, <1>21, <2>1, WholeJoined
<1>23. LogWhole'
  <2>1. ASSUME NEW e \in ToSet(log')
        PROVE  e = User \/ \E i \in DOMAIN Top : e.by \in Under[Top[i]] /\ e.type # "user_message" /\ Passed(i)'
    <3>1. CASE e \in ToSet(log)
      BY <1>1, <1>2, <1>8, <1>18, <3>1
    <3>2. CASE e \in ToSet(w)
      <4>1. e.by \in Under[Top[h]] /\ e.type # "user_message" /\ Passed(h)'
        BY <1>1, <1>2, <1>3, <1>4, <1>8, <1>11, <1>17, <3>2
      <4> QED
        BY <1>1, <4>1
    <3> QED
      BY <1>19, <2>1, <3>1, <3>2
  <2>2. ASSUME NEW e \in ToSet(log'), e \notin ToSet(heard')
        PROVE  /\ e.by \in Tops
               /\ \/ e.by \notin Live /\ e.type \in {"pattern_enter", "pattern_exit"}
                  \/ phase'[e.by] = "threw" /\ e.type = "error"
    <3>1. CASE e \in ToSet(log)
      <4>1. /\ e.by \in Tops
            /\ \/ e.by \notin Live /\ e.type \in {"pattern_enter", "pattern_exit"}
               \/ phase[e.by] = "threw" /\ e.type = "error"
        BY <1>2, <1>15, <2>2, <3>1 DEF LogWhole
      <4> QED
        BY <1>7, <4>1 DEF Tops
    <3>2. CASE e \in ToSet(es)
      <4>1. e \notin ToSet(told) /\ e \notin emitted
        BY <1>2, <1>15, <2>2 DEF HeardOnce
      <4>2. phase[p] = "threw" /\ e.by = p /\ e.type = "error"
        BY <1>3, <3>2, <4>1
      <4> QED
        BY <1>2, <1>7, <4>2
    <3>3. CASE e = Exit(p)
      <4>1. p \notin Live
        BY <1>5, <1>6, <1>15, <2>2, <3>3
      <4> QED
        BY <1>2, <1>4, <3>3, <4>1
    <3> QED
      BY <1>17, <1>19, <2>2, <3>1, <3>2, <3>3
  <2> QED
    BY <1>13, <1>22, <2>1, <2>2 DEF LogWhole, Tops
<1> QED
  BY <1>12, <1>16, <1>23 DEF EventsInv

-----------------------------------------------------------------------------
LEMMA EventsKeep ==
  ASSUME FailuresInv, EventsInv, [HarnessNext]_harnessVars
  PROVE  EventsInv'
<1>1. CASE PatternStep
  <2>1. PICK n \in Nodes : Telling(n)
    BY <1>1, PatternTells
  <2> QED
    BY <2>1, TellingKeeps
<1> QED
  BY <1>1, StartFaithful, EnterFaithful, LeaveFaithful, SettleFaithful, EventsStay DEF HarnessNext

LEMMA EventsTold == FailuresInv /\ EventsInv => EventsFaithful
<1> SUFFICES ASSUME FailuresInv, EventsInv PROVE EventsFaithful
  OBVIOUS
<1>1. ASSUME ~InTop
      PROVE  log \in Seq(Logged) /\ Whole(log, {User}) /\ \A e \in ToSet(log) : e = User \/ e.by \in Nodes
  BY <1>1, UnderFacts, TreeFacts DEF FailuresInv, ScopesOK, EventsInv, LogWhole
<1>2. WellBracketed
  BY <1>1, WholeBracketed DEF WellBracketed
<1>3. DeliveredOnce
  BY DEF EventsInv, HeardOnce, LogWhole, DeliveredOnce
<1> QED
  BY <1>2, <1>3 DEF EventsFaithful

(* What a turn is made of fits together at every step, whichever pattern    *)
(* tracks, calls, returns or throws (FailuresInv).                          *)
THEOREM HarnessInvariant == HarnessSpec => []FailuresInv
<1>1. HarnessInit => FailuresInv
  BY HarnessStarts DEF HarnessInv
<1>2. FailuresInv /\ [HarnessNext]_harnessVars => FailuresInv'
  BY HarnessKeeps
<1> QED
  BY <1>1, <1>2, PTL DEF HarnessSpec

(* A turn that ends without an answer and without status error is one in    *)
(* which nothing failed, at any depth (FailureShows).                       *)
THEOREM FailuresShow == HarnessSpec => []FailureShows
<1>1. FailuresInv => FailureShows
  BY NoFailureLost
<1> QED
  BY <1>1, HarnessInvariant, PTL

(* Where the router is the first of the agent's patterns, what a turn does  *)
(* and how it ends come from this turn, and from all of it (TurnIsItsOwn).  *)
THEOREM TurnsAreTheirOwn ==
  ASSUME RouterFirst
  PROVE  HarnessSpec => []TurnIsItsOwn
<1>1. HarnessInit => HarnessInv
  BY HarnessStarts
<1>2. HarnessInv /\ [HarnessNext]_harnessVars => HarnessInv'
  BY HarnessKeeps DEF HarnessInv
<1>3. HarnessInv => TurnIsItsOwn
  BY NoFailureLost, NoRouteStale DEF HarnessInv, TurnIsItsOwn
<1> QED
  BY <1>1, <1>2, <1>3, PTL DEF HarnessSpec

(* A turn and what is told of it fit together at every step (FailuresInv    *)
(* and EventsInv).                                                          *)
THEOREM EventsInvariant == HarnessSpec => [](FailuresInv /\ EventsInv)
<1>1. HarnessInit => FailuresInv /\ EventsInv
  BY HarnessStarts, EventsStart DEF HarnessInv
<1>2. (FailuresInv /\ EventsInv) /\ [HarnessNext]_harnessVars => (FailuresInv /\ EventsInv)'
  BY HarnessKeeps, EventsKeep
<1> QED
  BY <1>1, <1>2, PTL DEF HarnessSpec

(* Whatever the tree, whoever throws and in whatever order the patterns run, *)
(* the log is well bracketed between two patterns at the top, and the        *)
(* listener hears every event once and misses none but the brackets of a     *)
(* pattern without liveEvents and the error of one that threw                *)
(* (EventsFaithful).                                                         *)
THEOREM EventsAreFaithful == HarnessSpec => []EventsFaithful
<1>1. FailuresInv /\ EventsInv => EventsFaithful
  BY EventsTold
<1> QED
  BY <1>1, EventsInvariant, PTL
=============================================================================
