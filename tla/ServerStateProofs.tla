------------------------ MODULE ServerStateProofs -------------------------
(* Proofs about what the server keeps in memory between requests: the        *)
(* pattern cache, the model tier of a conversation, the connections to the   *)
(* gateway, and the terminals.                                               *)
EXTENDS PatternCache, PrivateTier, GatewayPool, PtySessions, FiniteSetTheorems, TLAPS

(***************************************************************************)
(* Proofs about the pattern cache, for any number of overlapping calls and *)
(* any agents.  The argument: the counter is the number of builds in       *)
(* flight, so a degraded build finds it positive and raises the flag; the  *)
(* flag then stays up until the last build is out, or the session is       *)
(* deleted under all that are in flight, and nothing is cached while it is *)
(* up.                                                                     *)
(***************************************************************************)

(* The counter is exact; and a degraded build in flight has the flag up,   *)
(* unless its session was deleted under it.                                *)
BuildingExact == building = Cardinality(InFlight)
FlagHeld      == \A c \in InFlight : build[c].degraded /\ ~build[c].outlived => uncacheable

CacheInv ==
  /\ CacheTypeOK
  /\ BuildingExact
  /\ FlagHeld
  /\ FlagHasConsumer
  /\ DegradedNeverCached

-----------------------------------------------------------------------------
(* The counter after a step, by what the step does to the builds in flight. *)
LEMMA Counting ==
  ASSUME CacheTypeOK, BuildingExact
  PROVE  /\ IsFiniteSet(InFlight) /\ building \in Nat
         /\ building > 0 <=> InFlight # {}
         /\ \A c \in Calls \ InFlight : Cardinality(InFlight \cup {c}) = building + 1
         /\ \A c \in InFlight : Cardinality(InFlight \ {c}) = building - 1
<1>1. IsFiniteSet(InFlight)
  BY CacheAssumption, FS_Subset DEF InFlight
<1>2. building \in Nat /\ (building = 0 <=> InFlight = {})
  BY <1>1, FS_CardinalityType, FS_EmptySet DEF BuildingExact
<1>3. ASSUME NEW c \in Calls \ InFlight
      PROVE  Cardinality(InFlight \cup {c}) = building + 1
  BY <1>1, <1>3, FS_AddElement DEF BuildingExact
<1>4. ASSUME NEW c \in InFlight
      PROVE  Cardinality(InFlight \ {c}) = building - 1
  BY <1>1, <1>4, FS_RemoveElement DEF BuildingExact
<1> QED
  BY <1>1, <1>2, <1>3, <1>4

(* A build starts with the flag as it is and a counter that knows of it. *)
LEMMA StartBuildInv ==
  ASSUME CacheInv, NEW c \in Calls, StartBuild(c)
  PROVE  CacheInv'
<1>1. PICK a \in Agents :
        build' = [build EXCEPT ![c] = [agent |-> a, degraded |-> FALSE, outlived |-> FALSE]]
  BY DEF StartBuild
<1>2. InFlight' = InFlight \cup {c} /\ c \notin InFlight
  <2>1. [agent |-> a, degraded |-> FALSE, outlived |-> FALSE] # Nothing
    <3>1. FALSE \in BOOLEAN
      OBVIOUS
    <3>2. [agent |-> a, degraded |-> FALSE, outlived |-> FALSE] \in [agent : Agents, degraded : BOOLEAN, outlived : BOOLEAN]
      BY <3>1
    <3> QED
      BY <3>2, CacheAssumption, Zenon
  <2>2. \A d \in Calls : build'[d] = IF d = c THEN [agent |-> a, degraded |-> FALSE, outlived |-> FALSE]
                                    ELSE build[d]
    BY <1>1 DEF CacheInv, CacheTypeOK
  <2> HIDE <1>1
  <2> QED
    BY <2>1, <2>2 DEF InFlight, StartBuild
<1>3. CacheTypeOK'
  BY <1>1 DEF CacheInv, CacheTypeOK, StartBuild, Entries
<1>4. BuildingExact'
  BY <1>2, Counting DEF CacheInv, BuildingExact, StartBuild
<1>5. FlagHeld'
  BY <1>1, <1>2 DEF CacheInv, CacheTypeOK, FlagHeld, StartBuild, InFlight
<1>6. FlagHasConsumer' /\ DegradedNeverCached'
  BY <1>2 DEF CacheInv, FlagHasConsumer, DegradedNeverCached, StartBuild
<1> QED
  BY <1>3, <1>4, <1>5, <1>6 DEF CacheInv

(* A build that degrades is in flight, so the counter lets it raise the flag. *)
LEMMA DegradeInv ==
  ASSUME CacheInv, NEW c \in Calls, Degrade(c)
  PROVE  CacheInv'
<1>1. c \in InFlight /\ InFlight' = InFlight
  BY CacheAssumption DEF CacheInv, CacheTypeOK, InFlight, Degrade, Entries
<1>2. uncacheable' = TRUE
  BY <1>1, Counting DEF CacheInv, Degrade
<1>3. CacheTypeOK'
  BY <1>1, <1>2 DEF CacheInv, CacheTypeOK, Degrade, Entries, InFlight
<1>4. BuildingExact'
  BY <1>1 DEF CacheInv, BuildingExact, Degrade
<1>5. FlagHeld' /\ FlagHasConsumer' /\ DegradedNeverCached'
  BY <1>1, <1>2 DEF CacheInv, FlagHeld, FlagHasConsumer, DegradedNeverCached, Degrade
<1> QED
  BY <1>3, <1>4, <1>5 DEF CacheInv

(* A probe raises the flag only while some build can consume it. *)
LEMMA ProbeInv ==
  ASSUME CacheInv, ProbeDegrades
  PROVE  CacheInv'
<1>1. uncacheable' \in BOOLEAN /\ InFlight' = InFlight
  BY DEF CacheInv, CacheTypeOK, InFlight, ProbeDegrades
<1>2. uncacheable => uncacheable'
  BY DEF ProbeDegrades
<1>3. uncacheable' => InFlight # {}
  BY Counting DEF CacheInv, ProbeDegrades, FlagHasConsumer
<1>4. CacheTypeOK' /\ BuildingExact' /\ DegradedNeverCached'
  BY <1>1 DEF CacheInv, CacheTypeOK, BuildingExact, DegradedNeverCached, ProbeDegrades
<1>5. FlagHeld' /\ FlagHasConsumer'
  BY <1>1, <1>2, <1>3 DEF CacheInv, FlagHeld, FlagHasConsumer, ProbeDegrades
<1> QED
  BY <1>4, <1>5 DEF CacheInv

(* A deletion marks whatever is in flight, so the flag owes it nothing. *)
LEMMA DeleteInv ==
  ASSUME CacheInv, DeleteSession
  PROVE  CacheInv'
<1>1. ASSUME NEW c \in Calls, build[c] # Nothing
      PROVE  build'[c] \in Entries /\ build'[c].outlived /\ build'[c] # Nothing
  <2>1. build[c] \in Entries /\ build'[c] = [build[c] EXCEPT !.outlived = TRUE]
    BY <1>1 DEF CacheInv, CacheTypeOK, DeleteSession
  <2>2. build'[c] \in Entries /\ build'[c].outlived
    BY <2>1 DEF Entries
  <2> QED
    BY <2>2, CacheAssumption DEF Entries
<1>2. InFlight' = InFlight
  <2>1. \A c \in Calls : build[c] = Nothing => build'[c] = Nothing
    BY DEF DeleteSession
  <2>2. \A c \in Calls : build[c] # Nothing => build'[c] # Nothing
    BY <1>1
  <2> QED
    BY <2>1, <2>2 DEF InFlight
<1>3. build' \in [Calls -> Entries \cup {Nothing}]
  BY <1>1 DEF DeleteSession
<1>4. CacheTypeOK'
  BY <1>3 DEF CacheInv, CacheTypeOK, DeleteSession
<1>5. BuildingExact'
  BY <1>2 DEF CacheInv, BuildingExact, DeleteSession
<1>6. FlagHeld' /\ FlagHasConsumer' /\ DegradedNeverCached'
  BY <1>1 DEF FlagHeld, FlagHasConsumer, DegradedNeverCached, DeleteSession, InFlight
<1> QED
  BY <1>4, <1>5, <1>6 DEF CacheInv

(* What a build that settles, either way, does to the flag and the counter. *)
LEMMA SettleInv ==
  ASSUME CacheInv, NEW c \in Calls, build[c] # Nothing,
         build' = [build EXCEPT ![c] = Nothing],
         building' = building - 1,
         uncacheable' = FlagAfter(building - 1)
  PROVE  /\ InFlight' = InFlight \ {c}
         /\ building' \in Nat /\ uncacheable' \in BOOLEAN
         /\ build' \in [Calls -> Entries \cup {Nothing}]
         /\ BuildingExact' /\ FlagHeld' /\ FlagHasConsumer'
<1>1. InFlight' = InFlight \ {c} /\ c \in InFlight
  BY DEF CacheInv, CacheTypeOK, InFlight
<1>2. Cardinality(InFlight \ {c}) = building - 1 /\ building \in Nat /\ building > 0
  BY <1>1, Counting DEF CacheInv
<1>3. building' \in Nat /\ BuildingExact'
  BY <1>1, <1>2 DEF BuildingExact
<1>4. build' \in [Calls -> Entries \cup {Nothing}]
  BY DEF CacheInv, CacheTypeOK
<1>5. building - 1 > 0 <=> InFlight' # {}
  <2>1. IsFiniteSet(InFlight')
    BY <1>1, Counting, FS_RemoveElement DEF CacheInv
  <2>2. Cardinality(InFlight') = 0 <=> InFlight' = {}
    BY <2>1, FS_EmptySet
  <2> QED
    BY <1>1, <1>2, <2>2
<1>6. uncacheable' <=> (InFlight' # {} /\ uncacheable)
  BY <1>5 DEF FlagAfter
<1>7. FlagHeld'
  BY <1>1, <1>6 DEF CacheInv, FlagHeld, CacheTypeOK, InFlight
<1>8. FlagHasConsumer'
  BY <1>6 DEF FlagHasConsumer
<1>9. uncacheable' \in BOOLEAN
  BY DEF FlagAfter
<1> QED
  BY <1>1, <1>3, <1>4, <1>7, <1>8, <1>9

(* Every step keeps the invariant. *)
LEMMA CacheStep ==
  ASSUME CacheInv, [CacheNext]_cacheVars
  PROVE  CacheInv'
<1>1. ASSUME NEW c \in Calls, BuildThrows(c)
      PROVE  CacheInv'
  <2>1. build' = [build EXCEPT ![c] = Nothing] /\ build[c] # Nothing
          /\ building' = building - 1 /\ uncacheable' = FlagAfter(building - 1)
    BY <1>1 DEF BuildThrows
  <2>2. CacheTypeOK' /\ DegradedNeverCached'
    BY <1>1, <2>1, SettleInv DEF CacheInv, CacheTypeOK, DegradedNeverCached, BuildThrows
  <2> QED
    BY <2>1, <2>2, SettleInv DEF CacheInv
<1>2. ASSUME NEW c \in Calls, BuildReturns(c)
      PROVE  CacheInv'
  <2>1. build' = [build EXCEPT ![c] = Nothing] /\ build[c] # Nothing
          /\ building' = building - 1 /\ uncacheable' = FlagAfter(building - 1)
    BY <1>2 DEF BuildReturns
  <2>2. patternCache' = IF uncacheable THEN Nothing ELSE build[c]
    BY <1>2 DEF BuildReturns
  <2>3. build[c] \in Entries /\ (build[c].degraded /\ ~build[c].outlived => uncacheable)
    BY <2>1 DEF CacheInv, CacheTypeOK, FlagHeld, InFlight
  <2>4. CacheTypeOK' /\ DegradedNeverCached'
    BY <2>1, <2>2, <2>3, SettleInv DEF CacheInv, CacheTypeOK, DegradedNeverCached
  <2> QED
    BY <2>1, <2>4, SettleInv DEF CacheInv
<1>3. CASE Evict
  BY <1>3 DEF Evict, CacheInv, CacheTypeOK, BuildingExact, FlagHeld, FlagHasConsumer,
              DegradedNeverCached, InFlight
<1>4. CASE UNCHANGED cacheVars
  BY <1>4 DEF cacheVars, CacheInv, CacheTypeOK, BuildingExact, FlagHeld, FlagHasConsumer,
              DegradedNeverCached, InFlight
<1> QED
  BY <1>1, <1>2, <1>3, <1>4, StartBuildInv, DegradeInv, ProbeInv, DeleteInv DEF CacheNext

(* The cache starts empty with nothing in flight. *)
LEMMA CacheInitInv ==
  CacheInit => CacheInv
<1> SUFFICES ASSUME CacheInit PROVE CacheInv
  OBVIOUS
<1>1. InFlight = {}
  BY DEF CacheInit, InFlight
<1>2. BuildingExact
  BY <1>1, FS_EmptySet DEF CacheInit, BuildingExact
<1> QED
  BY <1>1, <1>2 DEF CacheInit, CacheInv, CacheTypeOK, FlagHeld, FlagHasConsumer, DegradedNeverCached

(* The inductive invariant holds of every behavior. *)
THEOREM CacheInvariant ==
  CacheSpec => []CacheInv
<1>1. CacheInv /\ [CacheNext]_cacheVars => CacheInv'
  BY CacheStep
<1> QED
  BY <1>1, CacheInitInv, PTL DEF CacheSpec

(* Types of the cache, the flag, the counter and the builds. *)
THEOREM CacheTypeCorrect ==
  CacheSpec => []CacheTypeOK
<1>1. CacheInv => CacheTypeOK
  BY DEF CacheInv
<1> QED
  BY <1>1, CacheInvariant, PTL

(* No conversation is ever handed degraded patterns from the cache, unless *)
(* it was deleted while they were built.                                   *)
THEOREM NeverStuckDegraded ==
  CacheSpec => []DegradedNeverCached
<1>1. CacheInv => DegradedNeverCached
  BY DEF CacheInv
<1> QED
  BY <1>1, CacheInvariant, PTL

(* A raised flag always has a build left to consume it: it never leaks,    *)
(* deletions or not.                                                       *)
THEOREM FlagNeverLeaks ==
  CacheSpec => []FlagHasConsumer
<1>1. CacheInv => FlagHasConsumer
  BY DEF CacheInv
<1> QED
  BY <1>1, CacheInvariant, PTL

-----------------------------------------------------------------------------
(* A confirmed choice of a tier holds for its conversation, for any number of*)
(* turns, choices and cold starts, where no choice falls between the tier a  *)
(* first turn resolves and the row it records it on.  The invariant of the   *)
(* runs speaks of the moments without a write under way; the proof adds what *)
(* the column holds in the middle of one, and that a first turn which has    *)
(* resolved its tier resolved it to the choice it is about to record.        *)

BoxStates == {"asleep", "starting", "up"}
TierSteps == {"new", "resolved", "seeded", "waking", "running", "calling", "done", "failed"}

TurnRec == [step : TierSteps, tier : Tiers \cup {"none"}, watched : BOOLEAN, fired : BOOLEAN,
            recordable : BOOLEAN, settled : BOOLEAN, mine : BOOLEAN, met : BoxStates]

BoxOK == box \in [state : BoxStates, starts : Nat]

TierTypes ==
  /\ column \in Tiers \cup {"absent", "none"}
  /\ seed \in Tiers \cup {"none"} /\ flip \in Tiers \cup {"none"} /\ chosen \in Tiers \cup {"none"}
  /\ tierTurn \in [TierTurns -> TurnRec] /\ BoxOK
  /\ \A t \in TierTurns : tierTurn[t].step \notin {"new", "done", "failed"} => tierTurn[t].tier \in Tiers

(* A row without a tier has seen no choice; one with a tier has the choice   *)
(* being written, or else the confirmed one.                                 *)
RowHoldsChoice ==
  /\ column = "none" => chosen = "none" /\ flip = "none"
  /\ column \in Tiers /\ flip # "none" => column = flip
  /\ column \in Tiers /\ flip = "none" /\ chosen # "none" => column = chosen

(* Without a row the seed holds it, and so does a first turn on its way to   *)
(* record it, which no choice has overtaken.                                 *)
SeedHoldsChoice ==
  column = "absent" =>
    /\ flip = "none" /\ chosen # "none" => seed = chosen
    /\ \A t \in TierTurns :
         /\ tierTurn[t].step \in {"new", "resolved", "done", "failed"}
         /\ tierTurn[t].step = "resolved" =>
              flip = "none" /\ (chosen # "none" => tierTurn[t].tier = chosen)

TierInv == TierTypes /\ RowHoldsChoice /\ SeedHoldsChoice

(* No choice is confirmed and no turn has begun at the start.                *)
LEMMA TierInitInv == TierInit => TierInv
<1> SUFFICES ASSUME TierInit PROVE TierInv
  OBVIOUS
<1>1. NewTurn \in TurnRec /\ NewTurn.step = "new"
  BY DEF NewTurn, TurnRec, TierSteps, BoxStates
<1> HIDE DEF NewTurn, TurnRec
<1>2. /\ column \in {"absent", "none"} /\ seed \in Tiers \cup {"none"} /\ flip = "none" /\ chosen = "none"
      /\ tierTurn \in [TierTurns -> TurnRec] /\ \A t \in TierTurns : tierTurn[t].step = "new"
  BY <1>1 DEF TierInit
<1>3. box \in [state : {"asleep", "up"}, starts : {0}]
  BY DEF TierInit
<1>4. BoxOK
  BY <1>3 DEF BoxStates, BoxOK
<1>5. TierTypes
  BY <1>2, <1>4 DEF TierTypes
<1>6. RowHoldsChoice /\ SeedHoldsChoice
  BY <1>2 DEF RowHoldsChoice, SeedHoldsChoice, Tiers
<1> QED
  BY <1>5, <1>6 DEF TierInv

(* What the invariant is for: where no write is under way, the next turn     *)
(* resolves to the confirmed choice.                                         *)
LEMMA TierInvHolds == TierInv => ChoiceSticks
BY DEF TierInv, TierTypes, RowHoldsChoice, SeedHoldsChoice, ChoiceSticks, Resolve, Tiers

(* A choice, here or elsewhere, keeps the invariant.                         *)
LEMMA ChoiceStep ==
  ASSUME ~RacingFlips, TierInv, NEW tier \in Tiers,
         ChooseRow(tier) \/ ChooseElsewhere(tier) \/ ChooseSeed
  PROVE  TierInv'
<1>1. tierTurn' = tierTurn /\ (BoxOK => BoxOK')
  BY DEF ChooseRow, ChooseElsewhere, ChooseSeed, boxVars, BoxOK
<1>2. tier \in {"verda", "anthropic"}
  BY DEF Tiers
<1>3. TierTypes'
  BY <1>1, <1>2 DEF TierInv, TierTypes, Tiers, ChooseRow, ChooseElsewhere, ChooseSeed
<1>4. RowHoldsChoice'
  BY <1>2 DEF TierInv, TierTypes, Tiers, RowHoldsChoice, ChooseRow, ChooseElsewhere, ChooseSeed
<1>5. SeedHoldsChoice'
  BY <1>1, <1>2 DEF TierInv, TierTypes, Tiers, SeedHoldsChoice, ChooseRow, ChooseElsewhere, ChooseSeed
<1> QED
  BY <1>3, <1>4, <1>5 DEF TierInv

(* The box only changes state, and starts once more when it is asleep.       *)
LEMMA BoxTyped ==
  ASSUME BoxOK, [TierNext]_tierVars
  PROVE  BoxOK'
<1>1. Knocked \in [state : BoxStates, starts : Nat]
  BY DEF Knocked, BoxStates, BoxOK
<1>2. \A s \in {"asleep", "up"} : [box EXCEPT !.state = s] \in [state : BoxStates, starts : Nat]
  BY DEF BoxStates, BoxOK
<1> DEFINE BoxMoves == \/ box' \in {box, Knocked}
                       \/ \E s \in {"asleep", "up"} : box' = [box EXCEPT !.state = s]
<1>3. Sleep \/ AttemptAnswered \/ (\E t \in TierTurns : BoxAnswers(t)) => BoxMoves
  BY DEF Sleep, AttemptAnswered, BoxAnswers
<1>4. PressWake \/ (\E t \in TierTurns : StartRun(t) \/ CallBox(t)) => BoxMoves
  BY DEF PressWake, StartRun, CallBox
<1>5. ASSUME ~BoxMoves PROVE FALSE
  <2>1. box' # box
    BY <1>5
  <2>2. \/ Sleep \/ AttemptAnswered \/ PressWake
        \/ \E t \in TierTurns : BoxAnswers(t) \/ StartRun(t) \/ CallBox(t)
    BY <2>1 DEF TierNext, ChooseRow, ChooseElsewhere, ChooseSeed, PollStep, AttemptFails, Cool,
       ResolveTier, TurnStep, PreSeed, EndTurn, boxVars, tierVars
  <2> QED
    BY <1>3, <1>4, <1>5, <2>2
<1> QED
  BY <1>1, <1>2, <1>5 DEF BoxOK

(* What a turn is when it is over, is announced or has settled.              *)
LEMMA TurnForms ==
  /\ \A s \in TierSteps : TurnOver(s) \in TurnRec /\ TurnOver(s).step = s
  /\ \A w \in TurnRec : /\ Announced(w) \in TurnRec
                        /\ Announced(w).step = w.step /\ Announced(w).tier = w.tier
  /\ \A w \in TurnRec, s \in TierSteps :
       /\ TurnSettled(w, s) \in TurnRec
       /\ TurnSettled(w, s).step = s /\ TurnSettled(w, s).tier = w.tier
<1>1. ASSUME NEW s \in TierSteps PROVE TurnOver(s) \in TurnRec /\ TurnOver(s).step = s
  BY DEF TurnRec, TurnOver, NewTurn, BoxStates
<1>2. ASSUME NEW w \in TurnRec
      PROVE  Announced(w) \in TurnRec /\ Announced(w).step = w.step /\ Announced(w).tier = w.tier
  BY DEF TurnRec, Announced
<1>3. ASSUME NEW w \in TurnRec, NEW s \in TierSteps
      PROVE  /\ TurnSettled(w, s) \in TurnRec
             /\ TurnSettled(w, s).step = s /\ TurnSettled(w, s).tier = w.tier
  BY DEF TurnRec, TurnSettled, BoxStates
<1> QED
  BY <1>1, <1>2, <1>3

(* Every step keeps the turns well formed, and moves each along its course:  *)
(* what t may become.  A turn that goes on keeps its tier.                   *)
Resolves(t, r) ==
  /\ tierTurn[t].step = "new" /\ r.step = "resolved" /\ flip = "none"
  /\ r.tier \in {Resolve(own, seed) : own \in {column, "none"}}
Records(t, r) ==
  /\ tierTurn[t].step = "resolved" /\ r.step = "seeded" /\ r.tier = tierTurn[t].tier
  /\ column = "absent" => column' \in Tiers
GoesOn(t, r) ==
  /\ tierTurn[t].step \in {"seeded", "waking", "running", "calling"}
  /\ r.step \in {"waking", "running", "calling", "failed", "done"}
  /\ r.step \notin {"failed", "done"} => r.tier = tierTurn[t].tier

Moved ==
  /\ tierTurn' \in [TierTurns -> TurnRec]
  /\ \A t \in TierTurns : \/ tierTurn'[t] = tierTurn[t] \/ Resolves(t, tierTurn'[t])
                          \/ Records(t, tierTurn'[t]) \/ GoesOn(t, tierTurn'[t])

(* Every step of the module is on that course.                               *)
LEMMA TurnMoves ==
  ASSUME TierInv, [TierNext]_tierVars
  PROVE  Moved
<1>0. tierTurn \in [TierTurns -> TurnRec] /\ BoxOK
  BY DEF TierInv, TierTypes
<1>box. box.state \in BoxStates
  BY <1>0 DEF BoxOK
<1>1. ASSUME NEW t \in TierTurns, NEW r \in TurnRec, tierTurn' = [tierTurn EXCEPT ![t] = r],
             Resolves(t, r) \/ Records(t, r) \/ GoesOn(t, r)
      PROVE  Moved
  BY <1>0, <1>1 DEF Moved
<1>2. ASSUME NEW t \in TierTurns, ResolveTier(t) PROVE Moved
  <2>1. PICK own \in {column, "none"}, w \in BOOLEAN :
          tierTurn' = [tierTurn EXCEPT ![t].step = "resolved", ![t].tier = Resolve(own, seed), ![t].watched = w]
    BY <1>2 DEF ResolveTier
  <2> DEFINE r == [tierTurn[t] EXCEPT !.step = "resolved", !.tier = Resolve(own, seed), !.watched = w]
  <2>2. Resolve(own, seed) \in Tiers
    BY DEF Resolve, Tiers
  <2>3. r \in TurnRec /\ r.step = "resolved" /\ r.tier = Resolve(own, seed)
    BY <1>0, <2>2 DEF TurnRec, TierSteps
  <2>4. tierTurn' = [tierTurn EXCEPT ![t] = r] /\ tierTurn[t].step = "new"
    BY <1>0, <1>2, <2>1 DEF ResolveTier, TurnRec
  <2> HIDE DEF r
  <2>5. Resolves(t, r)
    BY <1>2, <2>3, <2>4 DEF Resolves, ResolveTier
  <2> QED
    BY <1>1, <2>3, <2>4, <2>5
<1>3. ASSUME NEW t \in TierTurns, NEW s \in TierSteps, Becomes(t, s),
             \/ /\ tierTurn[t].step \in {"seeded", "waking", "running", "calling"}
                /\ s \in {"waking", "running", "calling"}
             \/ /\ tierTurn[t].step = "resolved" /\ s = "seeded"
                /\ column = "absent" => column' \in Tiers
      PROVE  Moved
  <2> DEFINE r == [tierTurn[t] EXCEPT !.step = s]
  <2>1. r \in TurnRec /\ r.step = s /\ r.tier = tierTurn[t].tier
    BY <1>0 DEF TurnRec
  <2>2. tierTurn' = [tierTurn EXCEPT ![t] = r]
    BY <1>0, <1>3 DEF Becomes, TurnRec
  <2> HIDE DEF r
  <2>3. Records(t, r) \/ GoesOn(t, r)
    BY <1>3, <2>1 DEF Records, GoesOn
  <2> QED
    BY <1>1, <2>1, <2>2, <2>3
<1>4. ASSUME NEW t \in TierTurns, PreSeed(t) PROVE Moved
  <2>1. tierTurn[t].step = "resolved" /\ tierTurn[t].tier \in Tiers
    BY <1>4 DEF PreSeed, TierInv, TierTypes
  <2>2. column = "absent" => column' \in Tiers
    BY <1>4, <2>1 DEF PreSeed, Recorded
  <2> QED
    BY <1>3, <1>4, <2>1, <2>2 DEF PreSeed, TierSteps
<1>5. ASSUME NEW t \in TierTurns, StartRun(t) PROVE Moved
  <2>1. CASE Becomes(t, "running")
    BY <1>3, <1>5, <2>1 DEF StartRun, TierSteps
  <2>2. CASE ~Becomes(t, "running")
    <3> DEFINE r == [Announced(tierTurn[t]) EXCEPT !.step = "waking", !.mine = FirstToWait, !.met = box.state]
    <3>1. tierTurn' = [tierTurn EXCEPT ![t] = r] /\ tierTurn[t].step = "seeded"
      BY <1>0, <1>5, <2>2 DEF StartRun
    <3>2. Announced(tierTurn[t]) \in TurnRec /\ Announced(tierTurn[t]).tier = tierTurn[t].tier
      BY <1>0, TurnForms
    <3>3. r \in TurnRec /\ r.step = "waking" /\ r.tier = tierTurn[t].tier
      BY <1>box, <3>2 DEF TurnRec, TierSteps, FirstToWait
    <3> HIDE DEF r
    <3>4. GoesOn(t, r)
      BY <3>1, <3>3 DEF GoesOn
    <3> QED
      BY <1>1, <3>1, <3>3, <3>4
  <2> QED
    BY <2>1, <2>2
<1>6. ASSUME NEW t \in TierTurns, CallBox(t) PROVE Moved
  <2> DEFINE a == IF completed = "fresh" THEN tierTurn[t] ELSE Announced(tierTurn[t])
             r == [a EXCEPT !.step = "calling", !.met = box.state]
  <2>1. tierTurn' = [tierTurn EXCEPT ![t] = r] /\ tierTurn[t].step = "running"
    BY <1>0, <1>6 DEF CallBox
  <2>2. a \in TurnRec /\ a.tier = tierTurn[t].tier
    BY <1>0, TurnForms
  <2> HIDE DEF a
  <2>3. r \in TurnRec /\ r.step = "calling" /\ r.tier = tierTurn[t].tier
    BY <1>box, <2>2 DEF TurnRec, TierSteps
  <2> HIDE DEF r
  <2>4. GoesOn(t, r)
    BY <2>1, <2>3 DEF GoesOn
  <2> QED
    BY <1>1, <2>1, <2>3, <2>4
<1>7. ASSUME NEW t \in TierTurns, BoxAnswers(t) PROVE Moved
  <2> DEFINE r == TurnSettled(tierTurn[t], "running")
  <2>1. r \in TurnRec /\ r.step = "running" /\ r.tier = tierTurn[t].tier
    BY <1>0, TurnForms DEF TierSteps
  <2>2. tierTurn' = [tierTurn EXCEPT ![t] = r] /\ tierTurn[t].step = "calling"
    BY <1>7 DEF BoxAnswers
  <2> HIDE DEF r
  <2>3. GoesOn(t, r)
    BY <2>1, <2>2 DEF GoesOn
  <2> QED
    BY <1>1, <2>1, <2>2, <2>3
<1>8. ASSUME NEW t \in TierTurns, EndTurn(t) PROVE Moved
  <2>1. \A s \in {"done", "failed"} : TurnOver(s) \in TurnRec /\ TurnOver(s).step = s
    BY <1>0, TurnForms DEF TierSteps
  <2>2. \E s \in {"done", "failed"} : tierTurn' = [tierTurn EXCEPT ![t] = TurnOver(s)]
    BY <1>8 DEF EndTurn
  <2>3. PICK s \in {"done", "failed"} : tierTurn' = [tierTurn EXCEPT ![t] = TurnOver(s)]
    BY <2>2
  <2>4. GoesOn(t, TurnOver(s))
    BY <1>8, <2>1 DEF EndTurn, GoesOn
  <2> QED
    BY <1>1, <2>1, <2>3, <2>4
<1>9. CASE AttemptFails
  <2>1. CASE UNCHANGED tierTurn
    BY <1>0, <2>1 DEF Moved
  <2>2. CASE tierTurn' = [t \in TierTurns |-> IF tierTurn[t].step = "waking" THEN TurnOver("failed") ELSE tierTurn[t]]
    <3>1. TurnOver("failed") \in TurnRec /\ TurnOver("failed").step = "failed"
      BY TurnForms DEF TierSteps
    <3> QED
      BY <1>0, <2>2, <3>1 DEF Moved, GoesOn
  <2> QED
    BY <1>9, <2>1, <2>2 DEF AttemptFails
<1>10. CASE AttemptAnswered
  <2>1. \A w \in TurnRec : /\ TurnSettled(w, "running") \in TurnRec /\ TurnSettled(w, "running").step = "running"
                           /\ TurnSettled(w, "running").tier = w.tier
    BY TurnForms DEF TierSteps
  <2> QED
    BY <1>0, <1>10, <2>1 DEF AttemptAnswered, Moved, GoesOn
<1>11. ASSUME tierTurn' = tierTurn PROVE Moved
  BY <1>0, <1>11 DEF Moved
<1>12. ASSUME ~UNCHANGED tierTurn
       PROVE  \/ \E t \in TierTurns : \/ ResolveTier(t) \/ PreSeed(t) \/ StartRun(t) \/ CallBox(t)
                                      \/ BoxAnswers(t) \/ EndTurn(t)
              \/ AttemptFails \/ AttemptAnswered
  BY <1>12 DEF TierNext, ChooseRow, ChooseElsewhere, ChooseSeed, PressWake, PollStep, Cool, Sleep,
     TurnStep, tierVars
<1> QED
  BY <1>2, <1>4, <1>5, <1>6, <1>7, <1>8, <1>9, <1>10, <1>11, <1>12

(* A step that moves turns keeps the invariant.                              *)
LEMMA TierStep == ~RacingFlips /\ TierInv /\ [TierNext]_tierVars => TierInv'
<1> SUFFICES ASSUME ~RacingFlips, TierInv, [TierNext]_tierVars PROVE TierInv'
  OBVIOUS
<1>0. Moved /\ BoxOK'
  BY TurnMoves, BoxTyped DEF TierInv, TierTypes
<1>a. /\ column \in Tiers \cup {"absent", "none"} /\ tierTurn \in [TierTurns -> TurnRec]
      /\ \A t \in TierTurns : tierTurn[t].step \in TierSteps
      /\ \A t \in TierTurns : tierTurn[t].step \notin {"new", "done", "failed"} => tierTurn[t].tier \in Tiers
  BY DEF TierInv, TierTypes, TurnRec
<1>b. \A t \in TierTurns : tierTurn'[t].step \notin {"new", "done", "failed"} => tierTurn'[t].tier \in Tiers
  <2>1. \A own \in {column, "none"} : Resolve(own, seed) \in Tiers
    BY DEF Resolve, Tiers
  <2> QED
    BY <1>0, <1>a, <2>1 DEF Moved, Resolves, Records, GoesOn
<1>1. CASE \E tier \in Tiers : ChooseRow(tier) \/ ChooseElsewhere(tier) \/ ChooseSeed
  BY <1>1, ChoiceStep
<1>2. CASE UNCHANGED rowVars
  <2>1. TierTypes'
    BY <1>0, <1>2, <1>b DEF TierInv, TierTypes, rowVars, Moved
  <2>2. RowHoldsChoice'
    BY <1>2 DEF TierInv, RowHoldsChoice, rowVars
  <2>3. SeedHoldsChoice'
    <3>a. column = "absent" /\ flip = "none" /\ chosen # "none" => seed = chosen
      BY DEF TierInv, SeedHoldsChoice
    <3> SUFFICES ASSUME column = "absent", NEW t \in TierTurns
                 PROVE  /\ tierTurn'[t].step \in {"new", "resolved", "done", "failed"}
                        /\ tierTurn'[t].step = "resolved" =>
                             flip = "none" /\ (chosen # "none" => tierTurn'[t].tier = chosen)
      BY <1>2, <3>a DEF SeedHoldsChoice, rowVars
    <3>1. /\ flip = "none" /\ chosen # "none" => seed = chosen
          /\ tierTurn[t].step \in {"new", "resolved", "done", "failed"}
          /\ tierTurn[t].step = "resolved" =>
               flip = "none" /\ (chosen # "none" => tierTurn[t].tier = chosen)
      BY DEF TierInv, SeedHoldsChoice
    <3>2. column \notin Tiers /\ seed \in Tiers \cup {"none"} /\ chosen \in Tiers \cup {"none"}
      BY DEF TierInv, TierTypes, Tiers
    <3>3. CASE tierTurn'[t] = tierTurn[t]
      BY <3>1, <3>3
    <3>4. CASE Resolves(t, tierTurn'[t])
      <4>1. \A own \in {column, "none"} : chosen # "none" /\ seed = chosen => Resolve(own, seed) = chosen
        BY <3>2 DEF Resolve, Tiers
      <4> QED
        BY <3>1, <3>4, <4>1 DEF Resolves
    <3>5. ~Records(t, tierTurn'[t])
      BY <1>2, <3>2 DEF Records, rowVars
    <3>6. ~GoesOn(t, tierTurn'[t])
      BY <3>1 DEF GoesOn
    <3> QED
      BY <1>0, <3>1, <3>3, <3>4, <3>5, <3>6 DEF Moved
  <2> QED
    BY <2>1, <2>2, <2>3 DEF TierInv
<1>3. ASSUME NEW t \in TierTurns, PreSeed(t) \/ EndTurn(t) PROVE TierInv'
  <2>1. seed' = seed /\ flip' = flip /\ chosen' = chosen /\ tierTurn[t].tier \in Tiers
    BY <1>3, <1>a DEF PreSeed, EndTurn
  <2>2. /\ tierTurn[t].step = "resolved" \/ column # "absent"
        /\ column' \in {column, Recorded(tierTurn[t].tier)}
    BY <1>3 DEF PreSeed, EndTurn, TierInv, SeedHoldsChoice
  <2>3. /\ Recorded(tierTurn[t].tier) \in Tiers
        /\ column' = column \/ (column \notin Tiers /\ column' = tierTurn[t].tier)
    BY <2>1, <2>2 DEF Recorded
  <2>4. column' # "absent"
    BY <1>3, <1>a, <2>1, <2>2 DEF PreSeed, EndTurn, Recorded, Tiers
  <2>5. column = "absent" => /\ tierTurn[t].step = "resolved" /\ flip = "none"
                             /\ chosen # "none" => tierTurn[t].tier = chosen
    BY <2>2 DEF TierInv, SeedHoldsChoice
  <2>6. column \in Tiers \cup {"none", "absent"} /\ (column = "none" => chosen = "none" /\ flip = "none")
    BY <1>a DEF TierInv, RowHoldsChoice
  <2>7. RowHoldsChoice'
    BY <2>1, <2>3, <2>4, <2>5, <2>6 DEF TierInv, RowHoldsChoice, Tiers
  <2>8. TierTypes'
    BY <1>0, <1>b, <2>1, <2>3 DEF TierInv, TierTypes, Moved
  <2> QED
    BY <2>4, <2>7, <2>8 DEF TierInv, SeedHoldsChoice
<1> QED
  <2>1. SUFFICES ASSUME ~UNCHANGED rowVars
                 PROVE  \/ \E tier \in Tiers : ChooseRow(tier) \/ ChooseElsewhere(tier) \/ ChooseSeed
                        \/ \E t \in TierTurns : PreSeed(t) \/ EndTurn(t)
    BY <1>1, <1>2, <1>3
  <2>2. \E tier : tier \in Tiers
    BY DEF Tiers
  <2> QED
    BY <2>1, <2>2 DEF TierNext, PressWake, PollStep, AttemptFails, AttemptAnswered, Cool, Sleep, ResolveTier,
       TurnStep, StartRun, CallBox, BoxAnswers, rowVars, tierVars

(* The invariant holds at every moment, if no choice overtakes a first turn. *)
THEOREM TierInvariant == ~RacingFlips => (TierSpec => []TierInv)
<1> SUFFICES ASSUME ~RacingFlips PROVE TierSpec => []TierInv
  OBVIOUS
<1>1. TierInit => TierInv
  BY TierInitInv
<1>2. TierInv /\ [TierNext]_tierVars => TierInv'
  BY TierStep
<1> QED
  BY <1>1, <1>2, PTL DEF TierSpec

(* A confirmed choice of a tier holds for its conversation until the next    *)
(* one: recorded on the row or, before there is one, by the seed the first   *)
(* turn resolves from (chooseConversationTier and turn.server.ts).           *)
THEOREM ChoiceIsKept == ~RacingFlips => (TierSpec => []ChoiceSticks)
<1> SUFFICES ASSUME ~RacingFlips PROVE TierSpec => []ChoiceSticks
  OBVIOUS
<1>1. TierSpec => []TierInv
  BY TierInvariant
<1> QED
  BY <1>1, TierInvHolds, PTL
-----------------------------------------------------------------------------
(* A cold start is measured at most once, for any number of turns, attempts  *)
(* and starts, where the box does not fall asleep in the middle of a turn.   *)
(* Then a turn that runs on the box has had an answer from it, so the only   *)
(* one to measure is the turn that began the poll; and when it measures, the *)
(* box goes up, so the next wait is for another start.                       *)
BoxTypes ==
  /\ tierTurn \in [TierTurns -> TurnRec] /\ BoxOK
  /\ measured \in [0..MaxStarts -> Nat]
  /\ poll \in Nat /\ completed \in {"never", "fresh", "stale"}

(* A poll is of a box that has been asked to start; a fresh call proves that *)
(* it is up.                                                                 *)
PollFindsBox ==
  /\ poll > 0 => completed # "fresh" /\ box.state # "asleep"
  /\ completed = "fresh" => box.state = "up"

(* Who waits has a poll, and if the wait is its own it is for this start;    *)
(* who runs on the box has had its answer.                                   *)
WaitsOrRuns(w) ==
  /\ w.step = "waking" => poll > 0
  /\ w.step = "waking" /\ w.mine /\ w.met # "up" => box.state = "starting"
  /\ w.step \in {"running", "calling"} /\ w.tier = "verda" => completed = "fresh"
  /\ w.step = "calling" => w.tier = "verda" /\ w.met = "up"

TurnsWaitOrRun == \A t \in TierTurns : WaitsOrRuns(tierTurn[t])

OneMeasures ==
  \A t, u \in TierTurns :
    tierTurn[t].step = "waking" /\ tierTurn[t].mine /\ tierTurn[u].step = "waking" /\ tierTurn[u].mine => t = u

(* The start under way, and those to come, are not in the history yet.       *)
HistoryBehind ==
  \A n \in 0..MaxStarts :
    /\ measured[n] <= 1
    /\ n > box.starts \/ (n = box.starts /\ box.state = "starting") => measured[n] = 0

ColdInv == BoxTypes /\ PollFindsBox /\ TurnsWaitOrRun /\ OneMeasures /\ HistoryBehind

LEMMA ColdInit == TierInit => ColdInv
<1> SUFFICES ASSUME TierInit PROVE ColdInv
  OBVIOUS
<1>1. NewTurn \in TurnRec /\ NewTurn.step = "new"
  BY DEF NewTurn, TurnRec, TierSteps, BoxStates
<1>2. \A t \in TierTurns : tierTurn[t] = NewTurn
  BY DEF TierInit
<1>3. BoxOK /\ box.state \in {"asleep", "up"} /\ \A n \in 0..MaxStarts : measured[n] = 0
  BY DEF TierInit, BoxOK, BoxStates
<1>4. BoxTypes
  BY <1>1, <1>3 DEF TierInit, BoxTypes
<1> QED
  BY <1>1, <1>2, <1>3, <1>4 DEF TierInit, ColdInv, PollFindsBox, TurnsWaitOrRun, WaitsOrRuns, OneMeasures, HistoryBehind

(* A step of one turn, which may ask the box to start.                       *)
LEMMA TurnPut ==
  ASSUME ColdInv, NEW t \in TierTurns, NEW r \in TurnRec, tierTurn' = [tierTurn EXCEPT ![t] = r],
         WaitsOrRuns(tierTurn[t])', completed' = completed, measured' = measured,
         \/ box' = box /\ poll' = poll /\ r.step # "waking"
         \/ box' = Knocked /\ completed # "fresh" /\ poll' = (IF poll = 0 THEN 1 ELSE poll) /\ (r.mine => poll = 0)
  PROVE  ColdInv'
<1> USE DEF ColdInv
<1>1. tierTurn'[t] = r /\ \A u \in TierTurns \ {t} : tierTurn'[u] = tierTurn[u]
  BY DEF BoxTypes
<1>2. /\ box.state \in BoxStates /\ box.starts \in Nat /\ poll \in Nat
      /\ poll' \in Nat /\ (poll > 0 => poll' > 0) /\ (box' = Knocked => (completed # "fresh" /\ poll' > 0) \/ box' = box)
  BY DEF BoxTypes, BoxOK, Knocked
<1>3. Knocked \in [state : BoxStates, starts : Nat]
  BY DEF Knocked, BoxStates, BoxTypes, BoxOK
<1>4. /\ box.state # "asleep" => Knocked = box
      /\ box.state = "asleep" => Knocked.state = "starting" /\ Knocked.starts = box.starts + 1
  BY DEF Knocked
<1>5. BoxTypes'
  BY <1>2, <1>3 DEF BoxTypes, BoxOK
<1>6. PollFindsBox'
  BY <1>2, <1>4 DEF PollFindsBox, BoxStates
<1>7. ASSUME NEW u \in TierTurns PROVE WaitsOrRuns(tierTurn[u])'
  <2>1. CASE u = t
    BY <2>1
  <2>2. CASE u # t
    BY <1>1, <1>2, <1>4, <2>2 DEF TurnsWaitOrRun, WaitsOrRuns
  <2> QED
    BY <2>1, <2>2
<1>8. OneMeasures'
  <2>1. r.step = "waking" /\ r.mine => \A u \in TierTurns : tierTurn[u].step # "waking"
    BY <1>2 DEF TurnsWaitOrRun, WaitsOrRuns
  <2> QED
    BY <1>1, <2>1 DEF OneMeasures
<1>9. HistoryBehind'
  BY <1>2, <1>4 DEF HistoryBehind
<1> QED
  BY <1>5, <1>6, <1>7, <1>8, <1>9 DEF TurnsWaitOrRun

(* What the one who measures adds.                                           *)
LEMMA Measures ==
  ASSUME BoxTypes, NEW waits \in SUBSET TierTurns, \A t, u \in waits : t = u, Measure(waits)
  PROVE  /\ measured' \in [0..MaxStarts -> Nat]
         /\ \A n \in 0..MaxStarts : n # box.starts => measured'[n] = measured[n]
         /\ \A n \in 0..MaxStarts : n = box.starts => measured'[n] <= measured[n] + 1
         /\ (\A t \in waits : tierTurn[t].met = "up") => measured' = measured
<1> DEFINE due(t) == tierTurn[t].fired /\ ~tierTurn[t].settled /\ tierTurn[t].recordable
           sure == {t \in waits : due(t) /\ tierTurn[t].met = "asleep"}
           perhaps == {t \in waits : due(t) /\ tierTurn[t].met = "starting"}
<1>1. PICK long \in SUBSET perhaps : measured' = [measured EXCEPT ![box.starts] = @ + Cardinality(sure \cup long)]
  BY DEF Measure
<1> DEFINE S == sure \cup long
<1>2. S \subseteq waits /\ ((\A t \in waits : tierTurn[t].met = "up") => S = {})
  OBVIOUS
<1> HIDE DEF S
<1>3. Cardinality(S) \in {0, 1} /\ (S = {} => Cardinality(S) = 0)
  <2>1. CASE S = {}
    BY <2>1, FS_EmptySet
  <2>2. CASE S # {}
    <3>1. PICK t \in S : S = {t}
      BY <1>2, <2>2
    <3>2. QED
      BY <3>1, <2>2, FS_Singleton
  <2> QED
    BY <2>1, <2>2
<1>4. measured' = [measured EXCEPT ![box.starts] = @ + Cardinality(S)]
  BY <1>1 DEF S
<1>5. measured \in [0..MaxStarts -> Nat] /\ box.starts \in Nat
  BY DEF BoxTypes, BoxOK
<1> DEFINE k == Cardinality(S)
<1>6. k \in {0, 1} /\ measured' = [measured EXCEPT ![box.starts] = @ + k]
  BY <1>3, <1>4
<1>7. S = {} => k = 0
  BY <1>3
<1> HIDE DEF k
<1>8. k = 0 => measured' = measured
  BY <1>5, <1>6
<1>9. \A n \in 0..MaxStarts : measured'[n] = (IF n = box.starts THEN measured[n] + k ELSE measured[n])
  BY <1>5, <1>6
<1>10. /\ \A n \in 0..MaxStarts : n # box.starts => measured'[n] = measured[n]
       /\ \A n \in 0..MaxStarts : n = box.starts => measured'[n] <= measured[n] + 1
       /\ \A n \in 0..MaxStarts : measured'[n] \in Nat
  <2>1. \A n \in 0..MaxStarts : measured[n] \in Nat
    BY <1>5
  <2> QED
    BY <1>6, <1>9, <2>1
<1>11. measured' \in [0..MaxStarts -> Nat]
  <2>1. DOMAIN measured' = 0..MaxStarts /\ measured' = [n \in DOMAIN measured' |-> measured'[n]]
    BY <1>5, <1>6
  <2> QED
    BY <1>10, <2>1
<1> QED
  BY <1>2, <1>7, <1>8, <1>10, <1>11

(* An attempt is answered: the start under way is measured by its one waiter *)
(* and over.                                                                 *)
LEMMA AnswerKeepsCold == ColdInv /\ AttemptAnswered => ColdInv'
<1> SUFFICES ASSUME ColdInv, AttemptAnswered PROVE ColdInv'
  OBVIOUS
<1> USE DEF ColdInv
<1> DEFINE waits == {t \in TierTurns : tierTurn[t].step = "waking" /\ tierTurn[t].mine}
<1>1. /\ poll > 0 /\ poll' = 0 /\ completed' = "fresh" /\ Measure(waits)
      /\ box' = [box EXCEPT !.state = "up"]
      /\ tierTurn' = [t \in TierTurns |->
                IF tierTurn[t].step = "waking" THEN TurnSettled(tierTurn[t], "running") ELSE tierTurn[t]]
  BY DEF AttemptAnswered
<1>2. waits \in SUBSET TierTurns /\ \A t, u \in waits : t = u
  BY DEF OneMeasures
<1>3. \A t \in waits : tierTurn[t].met # "up" => box.state = "starting"
  BY DEF TurnsWaitOrRun, WaitsOrRuns
<1> HIDE DEF waits
<1>4. box'.state = "up" /\ box'.starts = box.starts /\ box' \in [state : BoxStates, starts : Nat]
  BY <1>1 DEF BoxTypes, BoxOK, BoxStates
<1>5. /\ measured' \in [0..MaxStarts -> Nat]
      /\ \A n \in 0..MaxStarts : n # box.starts => measured'[n] = measured[n]
      /\ \A n \in 0..MaxStarts : n = box.starts => measured'[n] <= measured[n] + 1
      /\ (\A t \in waits : tierTurn[t].met = "up") => measured' = measured
  BY <1>1, <1>2, Measures
<1>6. HistoryBehind'
  <2> SUFFICES ASSUME NEW n \in 0..MaxStarts
               PROVE  measured'[n] <= 1 /\ (n > box.starts => measured'[n] = 0)
    BY <1>4 DEF HistoryBehind
  <2>1. n \in Nat /\ box.starts \in Nat /\ measured[n] \in Nat /\ measured'[n] \in Nat
    BY <1>5 DEF BoxTypes, BoxOK
  <2>2. CASE n # box.starts
    BY <1>5, <2>1, <2>2 DEF HistoryBehind
  <2>3. CASE n = box.starts /\ box.state = "starting"
    BY <1>5, <2>1, <2>3 DEF HistoryBehind
  <2>4. CASE n = box.starts /\ box.state # "starting"
    BY <1>3, <1>5, <2>1, <2>4 DEF HistoryBehind
  <2> QED
    BY <2>2, <2>3, <2>4
<1>7. ASSUME NEW t \in TierTurns
      PROVE  /\ tierTurn'[t] \in TurnRec /\ tierTurn'[t].step # "waking"
             /\ tierTurn'[t].step = "calling" => tierTurn'[t] = tierTurn[t]
  <2>1. tierTurn[t] \in TurnRec
    BY DEF BoxTypes
  <2>2. TurnSettled(tierTurn[t], "running") \in TurnRec /\ TurnSettled(tierTurn[t], "running").step = "running"
    BY <2>1, TurnForms DEF TierSteps
  <2> QED
    BY <1>1, <2>1, <2>2
<1>8. BoxTypes'
  <2>1. tierTurn' \in [TierTurns -> TurnRec]
    BY <1>1, <1>7
  <2> QED
    BY <1>1, <1>4, <1>5, <2>1 DEF BoxTypes, BoxOK
<1>9. PollFindsBox' /\ OneMeasures'
  BY <1>1, <1>4, <1>7 DEF PollFindsBox, OneMeasures
<1>10. TurnsWaitOrRun'
  BY <1>1, <1>7 DEF TurnsWaitOrRun, WaitsOrRuns
<1> QED
  BY <1>6, <1>8, <1>9, <1>10

(* Every step, where the box does not fall asleep in the middle of a turn.   *)
LEMMA ColdStep == ~LongTools /\ ColdInv /\ [TierNext]_tierVars => ColdInv'
<1> SUFFICES ASSUME ~LongTools, ColdInv, [TierNext]_tierVars PROVE ColdInv'
  OBVIOUS
<1>0. /\ tierTurn \in [TierTurns -> TurnRec] /\ \A t \in TierTurns : tierTurn[t] \in TurnRec
      /\ box.state \in BoxStates /\ poll \in Nat
  BY DEF ColdInv, BoxTypes, BoxOK
<1>1. CASE \/ \E tier \in Tiers : ChooseRow(tier) \/ ChooseElsewhere(tier)
           \/ ChooseSeed \/ UNCHANGED tierVars
  <2>1. UNCHANGED tierTurn /\ UNCHANGED boxVars
    BY <1>1 DEF ChooseRow, ChooseElsewhere, ChooseSeed, tierVars, boxVars
  <2> QED
    BY <2>1 DEF boxVars, ColdInv, BoxTypes, BoxOK, PollFindsBox, TurnsWaitOrRun, WaitsOrRuns, OneMeasures, HistoryBehind
<1>2. ASSUME NEW t \in TierTurns, ResolveTier(t) PROVE ColdInv'
  <2>1. PICK own \in {column, "none"}, w \in BOOLEAN :
          tierTurn' = [tierTurn EXCEPT ![t].step = "resolved", ![t].tier = Resolve(own, seed), ![t].watched = w]
    BY <1>2 DEF ResolveTier
  <2> DEFINE r == [tierTurn[t] EXCEPT !.step = "resolved", !.tier = Resolve(own, seed), !.watched = w]
  <2>2. Resolve(own, seed) \in Tiers
    BY DEF Resolve, Tiers
  <2>3. r \in TurnRec /\ r.step = "resolved"
    BY <1>0, <2>2 DEF TurnRec, TierSteps
  <2>4. tierTurn' = [tierTurn EXCEPT ![t] = r] /\ UNCHANGED boxVars
    BY <1>0, <1>2, <2>1 DEF ResolveTier, TurnRec
  <2> HIDE DEF r
  <2> QED
    BY <1>0, <2>3, <2>4, TurnPut DEF WaitsOrRuns, boxVars
<1>3. ASSUME NEW t \in TierTurns, PreSeed(t) PROVE ColdInv'
  <2> DEFINE r == [tierTurn[t] EXCEPT !.step = "seeded"]
  <2>1. tierTurn' = [tierTurn EXCEPT ![t] = r] /\ UNCHANGED boxVars
    BY <1>0, <1>3 DEF PreSeed, Becomes, TurnRec
  <2>2. r \in TurnRec /\ r.step = "seeded"
    BY <1>0 DEF TurnRec, TierSteps
  <2> HIDE DEF r
  <2> QED
    BY <1>0, <2>1, <2>2, TurnPut DEF WaitsOrRuns, boxVars
<1>4. ASSUME NEW t \in TierTurns, StartRun(t) PROVE ColdInv'
  <2>0. completed' = completed /\ measured' = measured
    BY <1>4 DEF StartRun
  <2>1. CASE tierTurn[t].tier = "anthropic" \/ completed = "fresh"
    <3> DEFINE r == [tierTurn[t] EXCEPT !.step = "running"]
    <3>1. tierTurn' = [tierTurn EXCEPT ![t] = r] /\ poll' = poll /\ box' = box
      BY <1>0, <1>4, <2>1 DEF StartRun, Becomes, TurnRec
    <3>2. r \in TurnRec /\ r.step = "running" /\ r.tier = tierTurn[t].tier
      BY <1>0 DEF TurnRec, TierSteps
    <3> HIDE DEF r
    <3>3. WaitsOrRuns(tierTurn[t])'
      BY <1>0, <2>0, <2>1, <3>1, <3>2 DEF WaitsOrRuns
    <3> QED
      BY <2>0, <3>1, <3>2, <3>3, TurnPut
  <2>2. CASE ~(tierTurn[t].tier = "anthropic" \/ completed = "fresh")
    <3> DEFINE r == [Announced(tierTurn[t]) EXCEPT !.step = "waking", !.mine = FirstToWait, !.met = box.state]
    <3>1. /\ tierTurn' = [tierTurn EXCEPT ![t] = r] /\ box' = Knocked
          /\ poll' = (IF poll = 0 THEN 1 ELSE poll)
      BY <1>0, <1>4, <2>2 DEF StartRun
    <3>2. Announced(tierTurn[t]) \in TurnRec
      BY <1>0, TurnForms
    <3>3. r \in TurnRec /\ r.step = "waking" /\ r.mine = (poll = 0) /\ r.met = box.state
      BY <1>0, <3>2 DEF TurnRec, TierSteps, FirstToWait
    <3> HIDE DEF r
    <3>4. box.state # "up" => Knocked.state = "starting"
      BY <1>0 DEF Knocked, BoxStates
    <3>5. WaitsOrRuns(tierTurn[t])'
      BY <1>0, <3>1, <3>3, <3>4 DEF WaitsOrRuns
    <3> QED
      BY <2>0, <2>2, <3>1, <3>3, <3>5, TurnPut
  <2> QED
    BY <2>1, <2>2
<1>5. ASSUME NEW t \in TierTurns, CallBox(t) PROVE ColdInv'
  <2>1. completed = "fresh" /\ box.state = "up" /\ tierTurn[t].tier = "verda"
    BY <1>5 DEF CallBox, ColdInv, TurnsWaitOrRun, WaitsOrRuns, PollFindsBox
  <2> DEFINE r == [tierTurn[t] EXCEPT !.step = "calling", !.met = box.state]
  <2>2. /\ tierTurn' = [tierTurn EXCEPT ![t] = r] /\ box' = box /\ poll' = poll
        /\ completed' = completed /\ measured' = measured
    BY <1>0, <1>5, <2>1 DEF CallBox, Knocked
  <2>3. r \in TurnRec /\ r.step = "calling" /\ r.tier = "verda" /\ r.met = "up"
    BY <1>0, <2>1 DEF TurnRec, TierSteps, BoxStates
  <2> HIDE DEF r
  <2>4. WaitsOrRuns(tierTurn[t])'
    BY <1>0, <2>1, <2>2, <2>3 DEF WaitsOrRuns
  <2> QED
    BY <2>2, <2>3, <2>4, TurnPut
<1>6. ASSUME NEW t \in TierTurns, BoxAnswers(t) PROVE ColdInv'
  <2>1. completed = "fresh" /\ box.state = "up" /\ tierTurn[t].met = "up"
    BY <1>6 DEF BoxAnswers, ColdInv, TurnsWaitOrRun, WaitsOrRuns, PollFindsBox
  <2> DEFINE r == TurnSettled(tierTurn[t], "running")
  <2>2. box' = box /\ completed' = completed /\ poll' = poll /\ tierTurn' = [tierTurn EXCEPT ![t] = r]
    BY <1>6, <2>1 DEF BoxAnswers, ColdInv, BoxTypes, BoxOK
  <2>3. measured' = measured
    <3>1. Measure({t}) /\ {t} \in SUBSET TierTurns /\ \A a, b \in {t} : a = b
      BY <1>6 DEF BoxAnswers
    <3> QED
      BY <2>1, <3>1, Measures DEF ColdInv
  <2>4. r \in TurnRec /\ r.step = "running"
    BY <1>0, TurnForms DEF TierSteps
  <2> HIDE DEF r
  <2>5. WaitsOrRuns(tierTurn[t])'
    BY <1>0, <2>1, <2>2, <2>4 DEF WaitsOrRuns
  <2> QED
    BY <2>2, <2>3, <2>4, <2>5, TurnPut
<1>7. ASSUME NEW t \in TierTurns, EndTurn(t) PROVE ColdInv'
  <2>1. PICK s \in {"done", "failed"} : tierTurn' = [tierTurn EXCEPT ![t] = TurnOver(s)]
    BY <1>7 DEF EndTurn
  <2>2. TurnOver(s) \in TurnRec /\ TurnOver(s).step = s
    BY TurnForms DEF TierSteps
  <2>3. UNCHANGED boxVars
    BY <1>7 DEF EndTurn
  <2> DEFINE r == TurnOver(s)
  <2>4. r \in TurnRec /\ r.step \in {"done", "failed"} /\ tierTurn' = [tierTurn EXCEPT ![t] = r]
    BY <2>1, <2>2
  <2> HIDE DEF r
  <2>5. WaitsOrRuns(tierTurn[t])'
    BY <1>0, <2>4 DEF WaitsOrRuns
  <2> QED
    BY <2>3, <2>4, <2>5, TurnPut DEF boxVars
<1>8. CASE AttemptFails
  <2>1. completed' = completed /\ box' = box /\ measured' = measured /\ poll > 0
    BY <1>8 DEF AttemptFails
  <2>2. CASE poll' = Spent /\ UNCHANGED tierTurn
    BY <1>0, <2>1, <2>2 DEF Spent, ColdInv, BoxTypes, BoxOK, PollFindsBox, TurnsWaitOrRun, WaitsOrRuns, OneMeasures,
       HistoryBehind
  <2>3. CASE /\ poll' = 0
             /\ tierTurn' = [t \in TierTurns |-> IF tierTurn[t].step = "waking" THEN TurnOver("failed") ELSE tierTurn[t]]
    <3>1. TurnOver("failed") \in TurnRec /\ TurnOver("failed").step = "failed"
      BY TurnForms DEF TierSteps
    <3> DEFINE f == TurnOver("failed")
    <3>2. \A t \in TierTurns : tierTurn'[t] \in {f, tierTurn[t]} /\ tierTurn'[t].step # "waking"
      BY <2>3, <3>1
    <3>3. f \in TurnRec /\ f.step = "failed"
      BY <3>1
    <3> HIDE DEF f
    <3>4. BoxTypes'
      <4>1. tierTurn' \in [TierTurns -> TurnRec]
        BY <1>0, <2>3, <3>2, <3>3
      <4> QED
        BY <2>1, <2>3, <4>1 DEF ColdInv, BoxTypes, BoxOK
    <3>5. PollFindsBox' /\ OneMeasures' /\ HistoryBehind'
      BY <2>1, <2>3, <3>2 DEF ColdInv, PollFindsBox, OneMeasures, HistoryBehind
    <3>6. TurnsWaitOrRun'
      BY <2>1, <3>2, <3>3 DEF ColdInv, TurnsWaitOrRun, WaitsOrRuns
    <3> QED
      BY <3>4, <3>5, <3>6 DEF ColdInv
  <2> QED
    BY <1>8, <2>2, <2>3 DEF AttemptFails
<1>9. CASE PressWake
  <2>1. /\ completed # "fresh" /\ poll = 0 /\ poll' = 1 /\ box' = Knocked
        /\ tierTurn' = tierTurn /\ completed' = completed /\ measured' = measured
    BY <1>9 DEF PressWake
  <2>2. /\ Knocked \in [state : BoxStates, starts : Nat] /\ Knocked.state # "asleep"
        /\ Knocked = box \/ Knocked.starts = box.starts + 1
    BY DEF Knocked, ColdInv, BoxTypes, BoxOK, BoxStates
  <2>3. \A t \in TierTurns : tierTurn[t].step # "waking"
    BY <2>1 DEF ColdInv, TurnsWaitOrRun, WaitsOrRuns
  <2>4. HistoryBehind'
    BY <2>1, <2>2 DEF ColdInv, BoxTypes, BoxOK, HistoryBehind
  <2>5. BoxTypes' /\ PollFindsBox' /\ OneMeasures'
    BY <2>1, <2>2 DEF ColdInv, BoxTypes, BoxOK, PollFindsBox, OneMeasures
  <2>6. TurnsWaitOrRun'
    BY <2>1, <2>3 DEF ColdInv, TurnsWaitOrRun, WaitsOrRuns
  <2> QED
    BY <2>4, <2>5, <2>6 DEF ColdInv
<1>10. CASE Cool
  <2>1. /\ completed' = "stale" /\ ~Busy /\ completed = "fresh"
        /\ tierTurn' = tierTurn /\ poll' = poll /\ box' = box /\ measured' = measured
    BY <1>10 DEF Cool
  <2>2. \A t \in TierTurns : ~(tierTurn[t].tier = "verda" /\ tierTurn[t].step \in {"running", "calling"})
    BY <2>1 DEF Busy
  <2>3. TurnsWaitOrRun'
    BY <2>1, <2>2 DEF ColdInv, TurnsWaitOrRun, WaitsOrRuns
  <2> QED
    BY <2>1, <2>3 DEF ColdInv, BoxTypes, BoxOK, PollFindsBox, OneMeasures, HistoryBehind
<1>11. CASE Sleep
  <2>1. /\ completed # "fresh" /\ ~(poll > 0) /\ box' = [box EXCEPT !.state = "asleep"]
        /\ tierTurn' = tierTurn /\ poll' = poll /\ completed' = completed /\ measured' = measured
    BY <1>11 DEF Sleep, InUse
  <2>2. box' \in [state : BoxStates, starts : Nat] /\ box'.state = "asleep" /\ box'.starts = box.starts
    BY <2>1 DEF ColdInv, BoxTypes, BoxOK, BoxStates
  <2>3. TurnsWaitOrRun'
    BY <2>1 DEF ColdInv, TurnsWaitOrRun, WaitsOrRuns
  <2> QED
    BY <2>1, <2>2, <2>3 DEF ColdInv, BoxTypes, BoxOK, PollFindsBox, OneMeasures, HistoryBehind
<1> QED
  BY <1>1, <1>2, <1>3, <1>4, <1>5, <1>6, <1>7, <1>8, <1>9, <1>10, <1>11, AnswerKeepsCold
  DEF TierNext, TurnStep, PollStep

(* Without tool calls that outlast the box's patience, whatever choices race *)
(* with turns, a cold start enters the history at most once.                 *)
THEOREM ColdStartMeasuredOnce == ASSUME ~LongTools PROVE TierSpec => []ColdStartsOnce
<1>1. ColdInv => ColdStartsOnce
  BY DEF ColdInv, BoxTypes, HistoryBehind, ColdStartsOnce
<1> QED
  BY <1>1, ColdInit, ColdStep, PTL DEF TierSpec

-----------------------------------------------------------------------------
(* The connections to the gateway, for any number of operations and of       *)
(* connections.  The argument: every client that is live belongs to the pool,*)
(* to one lease or to a rebuild, so the sockets are the referenced clients;  *)
(* and the step an operation is at bounds how often it has run.              *)

(* The steps of an operation in which it has a connection, and all of them. *)
OnTheWire == {"connecting", "calling", "answering"}
PoolSteps == OnTheWire \cup {"new", "rebuilding", "done", "failed"}

(* Operations as records.                                                   *)
OpRec == [kind : OpKinds \cup {"none"}, step : PoolSteps, on : SUBSET Conns, retried : BOOLEAN,
          round : {1, 2}, ran : Nat, drops : SUBSET Conns]

(* How often an operation can have run: twice in an earlier round, once before a *)
(* retry, and once if an answer is on its way.                                   *)
RunsUntil(o) ==
  (IF o.round = 2 \/ o.step = "rebuilding" THEN 2 ELSE 0) + (IF o.retried THEN 1 ELSE 0)
    + (IF o.step = "answering" THEN 1 ELSE 0)
Most(kind) == CASE kind = "write" -> 1 [] kind = "list" -> 4 [] OTHER -> 2

(* How the fields of an operation go together.                                   *)
OpForm(o) ==
  /\ o.step \in OnTheWire => o.kind \in OpKinds
  /\ o.step \in OnTheWire <=> \E x \in Conns : o.on = {x}
  /\ o.step \notin OnTheWire => o.on = {}
  /\ o.step = "rebuilding" => o.kind = "list" /\ ~o.retried /\ (o.round = 2 => o.drops = {})
  /\ o.step # "rebuilding" => o.drops = {}
  /\ o.step = "new" => ~o.retried /\ o.round = 1
  /\ o.round = 2 => o.kind = "list"
  /\ o.retried => o.kind # "write"
  /\ o.ran <= (IF o.step \in {"done", "failed"} THEN Most(o.kind) ELSE RunsUntil(o))

OpsOK == op \in [Operations -> OpRec] /\ \A c \in Operations : OpForm(op[c])

(* Every live client belongs to the pool, a lease or a rebuild; what is in the   *)
(* pool is warm, and what is warm and leased is in the pool or about to be       *)
(* dropped, so that a release of what is in neither closes it.                   *)
ClientsHeld ==
  /\ \A x \in Conns : conn[x].client # "none" => x \in Referenced
  /\ \A x \in pool : conn[x].warm
  /\ \A c \in Operations : \A x \in op[c].on : conn[x].warm => x \in pool \cup Dropping
  /\ pool \cap Dropping = {}
  /\ \A c \in Operations : \A x \in op[c].on : op[c].step = "connecting" => conn[x].client = "none"

(* The count of sockets is exact, and the pool within its bound.            *)
LiveClients == {x \in Conns : conn[x].client # "none"}
SocketsCounted == sockets = Cardinality(LiveClients) /\ Cardinality(pool) <= PoolSize

PoolInv == OpsOK /\ LeasesExclusive /\ ClientsHeld /\ SocketsCounted

(* A connection as a record.                                                *)
ConnRec == [client : ClientStates, leased : BOOLEAN, warm : BOOLEAN]

(* At the start no connection and no operation there is.                    *)
LEMMA PoolInitInv == PoolInit => PoolInv
<1> SUFFICES ASSUME PoolInit PROVE PoolInv
  OBVIOUS
<1> USE DEF PoolInit, NotRun, Fresh
<1>1. OpsOK
  <2>1. NotRun \in OpRec /\ OpForm(NotRun)
    BY DEF OpRec, OpForm, PoolSteps, OnTheWire, RunsUntil
  <2>2. QED
    BY <2>1 DEF OpsOK
<1>2. LeasesExclusive /\ ClientsHeld
  BY DEF LeasesExclusive, ClientsHeld, ClientStates, Dropping, Leased, Referenced
<1>3. LiveClients = {}
  BY DEF LiveClients
<1>4. SocketsCounted
  BY <1>3, FS_EmptySet, PoolAssumption DEF SocketsCounted
<1>5. QED
  BY <1>1, <1>2, <1>4 DEF PoolInv

(* What a step does to one connection, the count of live clients follows.        *)
LEMMA CountFollows ==
  ASSUME NEW x \in Conns, \A y \in Conns \ {x} : (conn'[y].client = "none") <=> (conn[y].client = "none")
  PROVE  /\ IsFiniteSet(LiveClients) /\ Cardinality(LiveClients) \in Nat
         /\ conn[x].client = "none" /\ conn'[x].client # "none" =>
              Cardinality(LiveClients') = Cardinality(LiveClients) + 1
         /\ conn[x].client # "none" /\ conn'[x].client = "none" =>
              Cardinality(LiveClients') = Cardinality(LiveClients) - 1
         /\ (conn[x].client = "none" <=> conn'[x].client = "none") =>
              Cardinality(LiveClients') = Cardinality(LiveClients)
<1> DEFINE L == LiveClients
           M == LiveClients'
<1>1. IsFiniteSet(L) /\ IsFiniteSet(M)
  BY PoolAssumption, FS_Subset DEF LiveClients
<1>2. conn[x].client = "none" /\ conn'[x].client # "none" => M = L \cup {x} /\ x \notin L
  BY DEF LiveClients
<1>3. conn[x].client # "none" /\ conn'[x].client = "none" => M = L \ {x} /\ x \in L
  BY DEF LiveClients
<1>4. (conn[x].client = "none" <=> conn'[x].client = "none") => M = L
  BY DEF LiveClients
<1> HIDE DEF L, M
<1>5. Cardinality(L) \in Nat
  BY <1>1, FS_CardinalityType
<1>6. M = L \cup {x} /\ x \notin L => Cardinality(M) = Cardinality(L) + 1
  BY <1>1, FS_AddElement
<1>7. M = L \ {x} /\ x \in L => Cardinality(M) = Cardinality(L) - 1
  BY <1>1, FS_RemoveElement
<1>8. QED
  BY <1>1, <1>2, <1>3, <1>4, <1>5, <1>6, <1>7 DEF L, M

(* An operation with a connection is on the wire and drops nothing.         *)
LEMMA OnTheWireHolds ==
  ASSUME OpsOK, NEW c \in Operations, NEW x \in Conns, op[c].on = {x}
  PROVE  op[c].step \in OnTheWire /\ op[c].drops = {} /\ op[c].kind \in OpKinds
BY DEF OpsOK, OpForm, OnTheWire

(* An operation that leaves its connection: what is not warm is closed, what is  *)
(* warm stays where it belongs.                                                  *)
LEMMA LeaveInv ==
  ASSUME PoolInv, NEW c \in Operations, NEW x \in Conns, op[c].on = {x},
         NEW o \in OpRec, OpForm(o), o.on = {}, o.drops = {},
         NEW f \in ConnRec, ~f.leased, ~conn[x].warm => f.client = "none", conn[x].warm => f.warm,
         conn[x].client = "none" => f.client = "none",
         conn' = [conn EXCEPT ![x] = f], op' = [op EXCEPT ![c] = o], pool' = pool,
         sockets' = sockets - (IF conn[x].client # "none" /\ f.client = "none" THEN 1 ELSE 0)
  PROVE  PoolInv'
<1> USE DEF PoolInv
<1>0. /\ conn \in [Conns -> ConnRec] /\ op \in [Operations -> OpRec] /\ pool \subseteq Conns
      /\ op[c].drops = {} /\ sockets = Cardinality(LiveClients)
  BY OnTheWireHolds DEF LeasesExclusive, ConnRec, OpsOK, SocketsCounted
<1>1. /\ conn' \in [Conns -> ConnRec] /\ op' \in [Operations -> OpRec]
      /\ conn'[x] = f /\ \A y \in Conns \ {x} : conn'[y] = conn[y]
      /\ op'[c] = o /\ \A d \in Operations \ {c} : op'[d] = op[d]
  BY <1>0
<1>2. OpsOK'
  BY <1>1 DEF OpsOK, OpForm, RunsUntil
<1>3. Dropping' = Dropping /\ Referenced \ {x} \subseteq Referenced'
  <2>1. \A d \in Operations : op'[d].drops = op[d].drops
    BY <1>0, <1>1
  <2>2. \A d \in Operations : op[d].on \subseteq op'[d].on \cup {x}
    BY <1>1
  <2>3. QED
    BY <2>1, <2>2 DEF Dropping, Leased, Referenced
<1>4. \A d \in Operations : op'[d].on \subseteq op[d].on /\ x \notin op'[d].on
  BY <1>1 DEF LeasesExclusive
<1>5. LeasesExclusive'
  <2>1. \A y \in Conns : conn'[y].leased <=> \E d \in Operations : op'[d].on = {y}
    <3>1. ASSUME NEW y \in Conns, y # x PROVE conn'[y].leased <=> \E d \in Operations : op'[d].on = {y}
      BY SMTT(30), <1>1, <3>1 DEF LeasesExclusive
    <3>2. ~conn'[x].leased /\ \A d \in Operations : op'[d].on # {x}
      BY <1>1, <1>4
    <3>3. QED
      BY <3>1, <3>2
  <2>2. QED
    BY <1>0, <1>1, <1>4, <2>1 DEF LeasesExclusive, ConnRec
<1>6. ClientsHeld'
  <2>1. f.client # "none" => x \in pool \cup Dropping
    BY DEF ClientsHeld
  <2>2. \A y \in Conns : conn'[y].client # "none" => y \in Referenced'
    <3>1. ASSUME NEW y \in Conns, y # x, conn'[y].client # "none" PROVE y \in Referenced'
      BY <1>1, <1>3, <3>1 DEF ClientsHeld
    <3>2. conn'[x].client # "none" => x \in Referenced'
      <4>1. pool' \subseteq Referenced' /\ Dropping' \subseteq Referenced'
        BY DEF Referenced
      <4>2. QED
        BY <1>1, <1>3, <2>1, <4>1
    <3>3. QED
      BY <3>1, <3>2
  <2>3. \A y \in pool' : conn'[y].warm
    BY <1>0, <1>1 DEF ClientsHeld
  <2>4. ASSUME NEW d \in Operations, NEW y \in op'[d].on
        PROVE  /\ conn'[y].warm => y \in pool' \cup Dropping'
               /\ op'[d].step = "connecting" => conn'[y].client = "none"
    <3>1. d # c /\ y # x /\ y \in op[d].on /\ y \in Conns
      BY <1>0, <1>1, <1>4, <2>4 DEF OpRec
    <3>2. QED
      BY <1>1, <1>3, <3>1 DEF ClientsHeld
  <2>5. QED
    BY <1>3, <2>2, <2>3, <2>4 DEF ClientsHeld
<1>7. SocketsCounted'
  <2>1. \A y \in Conns \ {x} : (conn'[y].client = "none") <=> (conn[y].client = "none")
    BY <1>1
  <2>2. Cardinality(LiveClients') = sockets'
    BY <1>0, <1>1, <2>1, CountFollows
  <2>3. QED
    BY <2>2 DEF SocketsCounted, LiveClients
<1>8. QED
  BY <1>2, <1>5, <1>6, <1>7

(* A step that moves no lease keeps them exclusive.                              *)
LEMMA LeasesKept ==
  ASSUME LeasesExclusive, pool' \subseteq Conns, conn' \in [Conns -> ConnRec],
         \A d \in Operations : op'[d].on = op[d].on,
         \A y \in Conns : conn'[y].leased = conn[y].leased
  PROVE  LeasesExclusive'
<1>1. /\ \A d, e \in Operations : d # e => op[d].on \cap op[e].on = {}
      /\ \A y \in Conns : conn[y].leased <=> \E d \in Operations : op[d].on = {y}
  BY DEF LeasesExclusive
<1>2. /\ \A d, e \in Operations : d # e => op'[d].on \cap op'[e].on = {}
      /\ \A y \in Conns : conn'[y].leased <=> \E d \in Operations : op'[d].on = {y}
  BY <1>1
<1>3. QED
  BY <1>2 DEF LeasesExclusive, ConnRec

(* An operation that goes on with its connection: a client is connected or       *)
(* reset, or none of it.                                                         *)
LEMMA StayInv ==
  ASSUME PoolInv, NEW c \in Operations, NEW x \in Conns, op[c].on = {x},
         NEW o \in OpRec, OpForm(o), o.on = {x}, o.drops = {},
         NEW f \in ConnRec, f.leased = conn[x].leased, f.warm = conn[x].warm,
         o.step = "connecting" => f.client = "none",
         conn' = [conn EXCEPT ![x] = f], op' = [op EXCEPT ![c] = o], pool' = pool,
         sockets' = sockets + (IF f.client # "none" THEN 1 ELSE 0)
                            - (IF conn[x].client # "none" THEN 1 ELSE 0)
  PROVE  PoolInv'
<1> USE DEF PoolInv
<1>0. /\ conn \in [Conns -> ConnRec] /\ op \in [Operations -> OpRec] /\ pool \subseteq Conns
      /\ op[c].drops = {} /\ sockets = Cardinality(LiveClients)
  BY OnTheWireHolds DEF LeasesExclusive, ConnRec, OpsOK, SocketsCounted
<1>1. /\ conn' \in [Conns -> ConnRec] /\ op' \in [Operations -> OpRec]
      /\ conn'[x] = f /\ \A y \in Conns \ {x} : conn'[y] = conn[y]
      /\ op'[c] = o /\ \A d \in Operations \ {c} : op'[d] = op[d]
  BY <1>0
<1>2. OpsOK'
  BY <1>1 DEF OpsOK, OpForm, RunsUntil
<1>3. /\ \A d \in Operations : op'[d].drops = op[d].drops /\ op'[d].on = op[d].on
      /\ \A y \in Conns : conn'[y].leased = conn[y].leased /\ conn'[y].warm = conn[y].warm
  BY <1>0, <1>1
<1>4. Dropping' = Dropping /\ Referenced' = Referenced
  BY <1>3 DEF Dropping, Leased, Referenced
<1>5. LeasesExclusive'
  BY <1>0, <1>1, <1>3, LeasesKept
<1>6. ClientsHeld'
  <2>1. x \in Referenced
    BY DEF Leased, Referenced
  <2>2. \A d \in Operations : \A y \in op'[d].on : op'[d].step = "connecting" => conn'[y].client = "none"
    <3>1. ASSUME NEW d \in Operations, NEW y \in op'[d].on, d # c, op'[d].step = "connecting"
          PROVE  conn'[y].client = "none"
      <4>1. y \in op[d].on /\ y # x /\ y \in Conns /\ op[d].step = "connecting"
        BY <1>0, <1>1, <1>3, <3>1 DEF LeasesExclusive, OpRec
      <4>2. QED
        BY <1>1, <4>1 DEF ClientsHeld
    <3>2. QED
      BY <1>1, <3>1
  <2>3. \A d \in Operations : \A y \in op[d].on : y \in Conns
    BY <1>0 DEF OpRec
  <2>4. QED
    BY <1>0, <1>1, <1>3, <1>4, <2>1, <2>2, <2>3 DEF ClientsHeld
<1>7. SocketsCounted'
  <2>1. \A y \in Conns \ {x} : (conn'[y].client = "none") <=> (conn[y].client = "none")
    BY <1>1
  <2>2. Cardinality(LiveClients') = sockets'
    BY <1>0, <1>1, <2>1, CountFollows
  <2>3. QED
    BY <2>2 DEF SocketsCounted, LiveClients
<1>8. QED
  BY <1>2, <1>5, <1>6, <1>7

(* A lease takes a connection nobody else has: one of the pool, or a new one.    *)
LEMMA LeaseInv ==
  ASSUME PoolInv, NEW c \in Operations, op[c].on = {}, op[c].drops = {},
         NEW o \in OpRec, o.on = {}, o.drops = {}, o.kind \in OpKinds,
         o.round = 2 => o.kind = "list", o.ran <= (IF o.round = 2 THEN 2 ELSE 0),
         Lease(c, o)
  PROVE  PoolInv'
<1> USE DEF PoolInv
<1>0. /\ conn \in [Conns -> ConnRec] /\ op \in [Operations -> OpRec] /\ pool \subseteq Conns
      /\ IsFiniteSet(pool) /\ Cardinality(pool) <= PoolSize
  BY PoolAssumption, FS_Subset DEF LeasesExclusive, ConnRec, OpsOK, SocketsCounted
<1>1. PICK x \in Conns, f \in ConnRec, p \in OpRec :
        /\ conn' = [conn EXCEPT ![x] = f] /\ op' = [op EXCEPT ![c] = p] /\ sockets' = sockets
        /\ f.leased /\ f.client = conn[x].client
        /\ p.on = {x} /\ p.drops = {} /\ p.step = (IF f.client = "none" THEN "connecting" ELSE "calling")
        /\ p.kind = o.kind /\ p.round = o.round /\ p.ran = o.ran /\ ~p.retried
        /\ ~conn[x].leased
        /\ \/ x \in pool /\ pool' = pool /\ f.warm
           \/ x \notin Referenced /\ pool' = pool /\ ~f.warm
           \/ x \notin Referenced /\ pool' = pool \cup {x} /\ f.warm /\ Cardinality(pool) < PoolSize
  <2>1. PICK x \in (IF Pooled # {} THEN Pooled ELSE Unheld) :
          LET fresh == Pooled = {}
              warm  == IF fresh THEN Cardinality(pool) < PoolSize ELSE conn[x].warm
              have  == IF fresh THEN "none" ELSE conn[x].client
          IN  /\ conn' = [conn EXCEPT ![x] = [client |-> have, leased |-> TRUE, warm |-> warm]]
              /\ pool' = (IF fresh /\ warm THEN pool \cup {x} ELSE pool)
              /\ op' = [op EXCEPT ![c] = [o EXCEPT !.on = {x}, !.retried = FALSE,
                                  !.step = IF have = "none" THEN "connecting" ELSE "calling"]]
              /\ UNCHANGED sockets
    BY DEF Lease, Put
  <2> DEFINE warm == IF Pooled = {} THEN Cardinality(pool) < PoolSize ELSE conn[x].warm
             have == IF Pooled = {} THEN "none" ELSE conn[x].client
             f    == [client |-> have, leased |-> TRUE, warm |-> warm]
             p    == [o EXCEPT !.on = {x}, !.retried = FALSE,
                               !.step = IF have = "none" THEN "connecting" ELSE "calling"]
  <2>2. x \in Conns /\ (Pooled # {} => x \in pool /\ ~conn[x].leased) /\ (Pooled = {} => x \notin Referenced)
    BY <1>0 DEF Pooled, Unheld
  <2>3. Pooled = {} => ~conn[x].leased /\ conn[x].client = "none"
    BY <2>2 DEF LeasesExclusive, ClientsHeld, Leased, Referenced
  <2>4. warm \in BOOLEAN /\ have \in ClientStates /\ have = conn[x].client
    <3>1. conn[x].client \in ClientStates /\ conn[x].warm \in BOOLEAN /\ "none" \in ClientStates
      BY <1>0, <2>2 DEF ConnRec, ClientStates
    <3>2. CASE Pooled = {}
      BY <2>3, <3>1, <3>2
    <3>3. CASE Pooled # {}
      BY <3>1, <3>3
    <3>4. QED
      BY <3>2, <3>3
  <2>5. f \in ConnRec
    BY <2>4 DEF ConnRec
  <2>6. p \in OpRec
    BY <2>2 DEF OpRec, PoolSteps, OnTheWire
  <2>7. /\ p.on = {x} /\ p.drops = {} /\ p.step = (IF f.client = "none" THEN "connecting" ELSE "calling")
        /\ p.kind = o.kind /\ p.round = o.round /\ p.ran = o.ran /\ ~p.retried
    BY DEF OpRec
  <2>8. Pooled # {} => warm
    BY <2>2 DEF ClientsHeld
  <2>9. \/ x \in pool /\ pool' = pool /\ f.warm
        \/ x \notin Referenced /\ pool' = pool /\ ~f.warm
        \/ x \notin Referenced /\ pool' = pool \cup {x} /\ f.warm /\ Cardinality(pool) < PoolSize
    BY <2>1, <2>2, <2>8
  <2>10. conn' = [conn EXCEPT ![x] = f] /\ op' = [op EXCEPT ![c] = p] /\ sockets' = sockets
    BY <2>1
  <2>11. f.leased /\ f.client = conn[x].client /\ ~conn[x].leased
    BY <2>2, <2>3, <2>4
  <2> HIDE DEF f, p
  <2>12. QED
    BY <2>2, <2>5, <2>6, <2>7, <2>9, <2>10, <2>11
<1>2. /\ conn' \in [Conns -> ConnRec] /\ op' \in [Operations -> OpRec] /\ pool' \subseteq Conns
      /\ conn'[x] = f /\ \A y \in Conns \ {x} : conn'[y] = conn[y]
      /\ op'[c] = p /\ \A d \in Operations \ {c} : op'[d] = op[d]
  BY <1>0, <1>1
<1>3. OpsOK'
  <2>1. OpForm(p)
    BY <1>1 DEF OpForm, RunsUntil, OnTheWire, OpRec
  <2>2. QED
    BY <1>2, <2>1 DEF OpsOK, OpForm, RunsUntil
<1>4. \A d \in Operations : x \notin op[d].on
  BY <1>1 DEF LeasesExclusive, OpsOK, OpForm
<1>5. LeasesExclusive'
  <2>1. \A d, e \in Operations : d # e => op'[d].on \cap op'[e].on = {}
    BY <1>1, <1>2, <1>4 DEF LeasesExclusive
  <2>2. ASSUME NEW y \in Conns PROVE conn'[y].leased <=> \E d \in Operations : op'[d].on = {y}
    <3>1. CASE y = x
      BY <1>1, <1>2, <3>1
    <3>2. CASE y # x
      <4>1. \A d \in Operations : op'[d].on = {y} <=> op[d].on = {y}
        BY <1>1, <1>2, <3>2
      <4>2. conn[y].leased <=> \E d \in Operations : op[d].on = {y}
        BY DEF LeasesExclusive
      <4>3. QED
        BY <1>2, <3>2, <4>1, <4>2
    <3>3. QED
      BY <3>1, <3>2
  <2>3. QED
    BY <1>2, <2>1, <2>2 DEF LeasesExclusive, ConnRec
<1>6. Dropping' = Dropping /\ Referenced' = Referenced \cup {x}
  <2>1. \A d \in Operations : op'[d].drops = op[d].drops
    BY <1>1, <1>2
  <2>2. Dropping' = Dropping
    BY <2>1 DEF Dropping
  <2>3. Leased' = Leased \cup {x}
    BY <1>1, <1>2 DEF Leased
  <2>4. QED
    BY <1>1, <2>2, <2>3 DEF Referenced
<1>7. ClientsHeld'
  <2>1. \A y \in Conns : conn'[y].client # "none" => y \in Referenced'
    BY <1>1, <1>2, <1>6 DEF ClientsHeld
  <2>2. \A y \in pool' : conn'[y].warm
    <3>1. \A y \in pool : y \in Conns /\ conn[y].warm
      BY <1>0 DEF ClientsHeld
    <3>2. x \in pool' => f.warm
      BY <1>1 DEF Referenced
    <3>3. pool' \subseteq pool \cup {x}
      BY <1>1
    <3>4. QED
      BY <1>2, <3>1, <3>2, <3>3
  <2>3. pool' \cap Dropping' = {}
    BY <1>1, <1>6 DEF ClientsHeld, Referenced
  <2>4. ASSUME NEW d \in Operations, NEW y \in op'[d].on
        PROVE  /\ conn'[y].warm => y \in pool' \cup Dropping'
               /\ op'[d].step = "connecting" => conn'[y].client = "none"
    <3>1. CASE d = c
      BY <1>1, <1>2, <3>1
    <3>2. CASE d # c
      <4>1. y # x /\ y \in op[d].on /\ y \in Conns
        BY <1>0, <1>2, <1>4, <3>2 DEF OpRec
      <4>2. QED
        BY <1>1, <1>2, <1>6, <3>2, <4>1 DEF ClientsHeld
    <3>3. QED
      BY <3>1, <3>2
  <2>5. QED
    BY <2>1, <2>2, <2>3, <2>4 DEF ClientsHeld
<1>8. SocketsCounted'
  <2>1. LiveClients' = LiveClients
    BY <1>1, <1>2 DEF LiveClients
  <2>2. Cardinality(pool') <= PoolSize
    <3>1. CASE pool' = pool
      BY <1>0, <3>1
    <3>2. CASE x \notin pool /\ pool' = pool \cup {x} /\ Cardinality(pool) < PoolSize
      <4>1. Cardinality(pool') = Cardinality(pool) + 1
        BY <1>0, <3>2, FS_AddElement
      <4>2. Cardinality(pool) \in Nat /\ PoolSize \in Nat
        BY <1>0, PoolAssumption, FS_CardinalityType
      <4>3. QED
        BY <3>2, <4>1, <4>2
    <3>3. QED
      BY <1>1, <3>1, <3>2 DEF Referenced
  <2>3. QED
    BY <1>1, <2>1, <2>2 DEF SocketsCounted
<1>9. QED
  BY <1>3, <1>5, <1>7, <1>8

(* A rebuild takes the whole pool to drop it.                                    *)
LEMMA RebuildInv == ASSUME PoolInv, NEW c \in Operations, Rebuild(c) PROVE PoolInv'
<1> USE DEF PoolInv
<1>0. /\ op \in [Operations -> OpRec] /\ pool \subseteq Conns
      /\ op[c].step = "rebuilding" /\ op[c].kind = "list" /\ ~op[c].retried /\ op[c].drops = {}
      /\ pool' = {} /\ UNCHANGED <<conn, sockets>> /\ conn \in [Conns -> ConnRec]
  BY DEF LeasesExclusive, ConnRec, OpsOK, OpForm, Rebuild
<1> DEFINE o == [op[c] EXCEPT !.drops = pool, !.round = IF pool = {} THEN 2 ELSE 1]
<1>1. /\ o \in OpRec /\ OpForm(o) /\ o.on = op[c].on /\ o.drops = pool /\ op' = [op EXCEPT ![c] = o]
      /\ o.step = op[c].step
  <2>1. op' = [op EXCEPT ![c] = o]
    BY DEF Rebuild, Put
  <2>2. op[c] \in OpRec /\ OpForm(op[c])
    BY <1>0 DEF OpsOK
  <2>3. o \in OpRec /\ o.on = op[c].on /\ o.drops = pool /\ o.step = op[c].step
    BY <1>0, <2>2 DEF OpRec
  <2>4. /\ o.kind = op[c].kind /\ o.retried = op[c].retried /\ o.ran = op[c].ran
        /\ o.round = IF pool = {} THEN 2 ELSE 1
    BY <2>2 DEF OpRec
  <2>5. OpForm(o)
    BY <1>0, <2>2, <2>3, <2>4 DEF OpForm, RunsUntil, OnTheWire
  <2>6. QED
    BY <2>1, <2>3, <2>5
<1> HIDE DEF o
<1>2. /\ op' \in [Operations -> OpRec] /\ op'[c] = o
      /\ \A d \in Operations \ {c} : op'[d] = op[d]
      /\ \A d \in Operations : op'[d].on = op[d].on /\ op'[d].step = op[d].step
  BY <1>0, <1>1
<1>3. OpsOK'
  BY <1>1, <1>2 DEF OpsOK, OpForm, RunsUntil
<1>4. LeasesExclusive'
  BY <1>0, <1>2, LeasesKept
<1>5. Dropping' = Dropping \cup pool
  BY <1>0, <1>1, <1>2 DEF Dropping
<1>6. Referenced' = Referenced
  <2>1. Leased' = Leased
    BY <1>2 DEF Leased
  <2>2. QED
    BY <1>0, <1>5, <2>1 DEF Referenced
<1>7. ClientsHeld'
  BY <1>0, <1>2, <1>5, <1>6 DEF ClientsHeld
<1>8. SocketsCounted'
  BY <1>0, PoolAssumption, FS_EmptySet DEF SocketsCounted, LiveClients
<1>9. QED
  BY <1>3, <1>4, <1>7, <1>8

(* What is dropped is closed, and closed once more when a lease that reopened it *)
(* ends.                                                                         *)
LEMMA DropInv == ASSUME PoolInv, NEW c \in Operations, Drop(c) PROVE PoolInv'
<1> USE DEF PoolInv
<1>0. /\ conn \in [Conns -> ConnRec] /\ op \in [Operations -> OpRec] /\ pool \subseteq Conns
      /\ op[c].step = "rebuilding" /\ op[c].kind = "list" /\ ~op[c].retried /\ pool' = pool
  BY DEF LeasesExclusive, ConnRec, OpsOK, OpForm, Drop
<1>1. PICK x \in op[c].drops :
       /\ conn' = [conn EXCEPT ![x] = Demoted(x)]
       /\ sockets' = sockets - (IF conn[x].client = "none" THEN 0 ELSE 1)
       /\ Put(c, IF op[c].drops = {x} THEN [op[c] EXCEPT !.drops = {}, !.round = 2] ELSE
                 [op[c] EXCEPT !.drops = @ \ {x}])
  BY DEF Drop
<1>2. x \in Conns /\ x \in Dropping
  BY <1>0 DEF OpRec, Dropping
<1> DEFINE o == IF op[c].drops = {x} THEN [op[c] EXCEPT !.drops = {}, !.round = 2] ELSE [op[c] EXCEPT !.drops = @ \ {x}]
<1>3. /\ o \in OpRec /\ OpForm(o) /\ o.on = op[c].on /\ o.drops = op[c].drops \ {x} /\ op' = [op EXCEPT ![c] = o]
      /\ o.step = op[c].step
  <2>1. op' = [op EXCEPT ![c] = o]
    BY <1>1 DEF Put
  <2>2. op[c] \in OpRec /\ OpForm(op[c])
    BY <1>0 DEF OpsOK
  <2>3. o \in OpRec /\ o.on = op[c].on /\ o.drops = op[c].drops \ {x} /\ o.step = op[c].step
    BY <1>0, <2>2 DEF OpRec
  <2>4. /\ o.kind = op[c].kind /\ o.retried = op[c].retried /\ o.ran = op[c].ran
        /\ o.round = IF op[c].drops = {x} THEN 2 ELSE op[c].round
    BY <2>2 DEF OpRec
  <2>5. OpForm(o)
    BY <1>0, <2>2, <2>3, <2>4 DEF OpForm, RunsUntil, OnTheWire
  <2>6. QED
    BY <2>1, <2>3, <2>5
<1> HIDE DEF o
<1>4. /\ op' \in [Operations -> OpRec] /\ op'[c] = o
      /\ \A d \in Operations \ {c} : op'[d] = op[d]
      /\ \A d \in Operations : op'[d].on = op[d].on /\ op'[d].step = op[d].step
  BY <1>0, <1>3
<1>5. /\ conn' \in [Conns -> ConnRec] /\ \A y \in Conns \ {x} : conn'[y] = conn[y]
      /\ conn'[x].client = "none" /\ ~conn'[x].warm /\ conn'[x].leased = conn[x].leased
  BY <1>0, <1>1, <1>2 DEF Demoted, ConnRec, ClientStates
<1>6. OpsOK'
  BY <1>3, <1>4 DEF OpsOK, OpForm, RunsUntil
<1>7. LeasesExclusive'
  <2>1. \A y \in Conns : conn'[y].leased = conn[y].leased
    BY <1>2, <1>5
  <2>2. QED
    BY <1>0, <1>4, <1>5, <2>1, LeasesKept
<1>8. Dropping' \subseteq Dropping /\ Dropping \ {x} \subseteq Dropping'
  <2>1. \A d \in Operations : op'[d].drops \subseteq op[d].drops /\ op[d].drops \ {x} \subseteq op'[d].drops
    BY <1>3, <1>4
  <2>2. QED
    BY <2>1 DEF Dropping
<1>9. Referenced \ {x} \subseteq Referenced'
  <2>1. Leased' = Leased
    BY <1>4 DEF Leased
  <2>2. QED
    BY <1>0, <1>8, <2>1 DEF Referenced
<1>10. ClientsHeld'
  <2>1. x \notin pool
    BY <1>2 DEF ClientsHeld
  <2>2. \A y \in Conns : conn'[y].client # "none" => y \in Referenced'
    BY <1>5, <1>9 DEF ClientsHeld
  <2>3. \A y \in pool' : conn'[y].warm
    BY <1>0, <1>5, <2>1 DEF ClientsHeld
  <2>4. ASSUME NEW d \in Operations, NEW y \in op'[d].on
        PROVE  /\ conn'[y].warm => y \in pool' \cup Dropping'
               /\ op'[d].step = "connecting" => conn'[y].client = "none"
    <3>1. y \in op[d].on /\ y \in Conns
      BY <1>0, <1>4 DEF OpRec
    <3>2. QED
      BY <1>0, <1>4, <1>5, <1>8, <3>1 DEF ClientsHeld
  <2>5. pool' \cap Dropping' = {}
    BY <1>0, <1>8 DEF ClientsHeld
  <2>6. QED
    BY <2>2, <2>3, <2>4, <2>5 DEF ClientsHeld
<1>11. SocketsCounted'
  <2>1. \A y \in Conns \ {x} : (conn'[y].client = "none") <=> (conn[y].client = "none")
    BY <1>5
  <2>2. Cardinality(LiveClients') = sockets'
    BY <1>1, <1>2, <1>5, <2>1, CountFollows DEF SocketsCounted
  <2>3. QED
    BY <1>0, <2>2 DEF SocketsCounted, LiveClients
<1>12. QED
  BY <1>6, <1>7, <1>10, <1>11

(* A socket that dies stays open until somebody closes it.                       *)
LEMMA BreaksInv == ASSUME PoolInv, NEW x \in Conns, Breaks(x) PROVE PoolInv'
<1> USE DEF PoolInv
<1>0. /\ conn \in [Conns -> ConnRec] /\ op \in [Operations -> OpRec] /\ pool \subseteq Conns
      /\ UNCHANGED <<pool, op, sockets>>
  BY DEF LeasesExclusive, ConnRec, OpsOK, Breaks
<1>1. /\ conn' \in [Conns -> ConnRec]
      /\ \A y \in Conns : /\ (conn'[y].client = "none") <=> (conn[y].client = "none")
                          /\ conn'[y].leased = conn[y].leased /\ conn'[y].warm = conn[y].warm
  BY <1>0 DEF Breaks, ConnRec, ClientStates
<1>2. OpsOK' /\ Referenced' = Referenced /\ Dropping' = Dropping
  BY <1>0 DEF OpsOK, OpForm, RunsUntil, Referenced, Leased, Dropping
<1>3. LeasesExclusive'
  BY <1>0, <1>1, LeasesKept
<1>4. ClientsHeld'
  <2>1. \A d \in Operations : \A y \in op[d].on : y \in Conns
    BY <1>0 DEF OpRec
  <2>2. QED
    BY <1>0, <1>1, <1>2, <2>1 DEF ClientsHeld
<1>5. LiveClients' = LiveClients
  BY <1>1 DEF LiveClients
<1>6. QED
  BY <1>0, <1>2, <1>3, <1>4, <1>5 DEF SocketsCounted

(* How an operation may end, and how one whose listing failed starts over.       *)
LEMMA EndForms ==
  ASSUME NEW o \in OpRec, OpForm(o), o.step \in OnTheWire
  PROVE  /\ \A end \in {"done", "failed"} :
              /\ Ended(o, end) \in OpRec /\ OpForm(Ended(o, end))
              /\ Ended(o, end).on = {} /\ Ended(o, end).drops = {}
         /\ [Thrown(o) EXCEPT !.on = {}] \in OpRec /\ OpForm([Thrown(o) EXCEPT !.on = {}])
         /\ [Thrown(o) EXCEPT !.on = {}].on = {} /\ [Thrown(o) EXCEPT !.on = {}].drops = {}
<1>1. o.ran <= Most(o.kind)
  BY DEF OpForm, RunsUntil, OnTheWire, Most, OpRec, OpKinds
<1>2. ASSUME NEW end \in {"done", "failed"}
      PROVE  /\ Ended(o, end) \in OpRec /\ OpForm(Ended(o, end))
             /\ Ended(o, end).on = {} /\ Ended(o, end).drops = {}
  <2>1. /\ Ended(o, end) \in OpRec
        /\ Ended(o, end).on = {} /\ Ended(o, end).drops = {} /\ ~Ended(o, end).retried /\ Ended(o, end).round = 1
        /\ Ended(o, end).step = end /\ Ended(o, end).kind = o.kind /\ Ended(o, end).ran = o.ran
    BY DEF Ended, NotRun, OpRec, PoolSteps, OpKinds
  <2>2. OpForm(Ended(o, end))
    BY <1>1, <2>1 DEF OpForm, OnTheWire
  <2>3. QED
    BY <2>1, <2>2
<1>3. CASE o.kind = "list" /\ o.round = 1
  <2> DEFINE p == [o EXCEPT !.step = "rebuilding", !.retried = FALSE, !.on = {}]
  <2>1. [Thrown(o) EXCEPT !.on = {}] = p
    BY <1>3 DEF Thrown, OpRec
  <2>2. /\ p \in OpRec /\ p.on = {} /\ p.drops = {} /\ ~p.retried /\ p.round = 1 /\ p.step = "rebuilding"
        /\ p.kind = "list" /\ p.ran = o.ran
    BY <1>3 DEF OpRec, PoolSteps, OpForm, OnTheWire
  <2>3. o.ran <= 2
    BY <1>3 DEF OpForm, RunsUntil, OnTheWire, OpRec
  <2> HIDE DEF p
  <2>4. OpForm(p)
    BY <2>2, <2>3 DEF OpForm, RunsUntil, OnTheWire
  <2>5. QED
    BY <1>2, <2>1, <2>2, <2>4
<1>4. CASE ~(o.kind = "list" /\ o.round = 1)
  <2>1. [Thrown(o) EXCEPT !.on = {}] = Ended(o, "failed")
    <3>1. Thrown(o) = Ended(o, "failed")
      BY <1>4 DEF Thrown
    <3>2. \A r \in OpRec : r.on = {} => [r EXCEPT !.on = {}] = r
      BY DEF OpRec
    <3>3. QED
      BY <1>2, <3>1, <3>2
  <2>2. QED
    BY <1>2, <2>1
<1>5. QED
  BY <1>3, <1>4

(* What a release makes of a connection.                                         *)
LEMMA ReleaseForms ==
  ASSUME conn \in [Conns -> ConnRec], NEW x \in Conns
  PROVE  /\ Released(x) \in ConnRec /\ ~Released(x).leased
         /\ ~conn[x].warm => Released(x).client = "none"
         /\ conn[x].warm => Released(x).warm /\ Released(x).client = conn[x].client
         /\ ClosedAtRelease(x) = (IF conn[x].client # "none" /\ Released(x).client = "none" THEN 1 ELSE 0)
<1>1. conn[x] \in ConnRec
  OBVIOUS
<1>2. QED
  BY <1>1 DEF Released, ClosedAtRelease, Fresh, ConnRec, ClientStates

(* Every step keeps the books of the pool.                                       *)
LEMMA PoolStep == PoolInv /\ [PoolNext]_poolVars => PoolInv'
<1> SUFFICES ASSUME PoolInv, [PoolNext]_poolVars PROVE PoolInv'
  OBVIOUS
<1>0. /\ conn \in [Conns -> ConnRec] /\ op \in [Operations -> OpRec]
      /\ \A c \in Operations : op[c] \in OpRec /\ OpForm(op[c])
  BY DEF PoolInv, LeasesExclusive, ConnRec, OpsOK
<1>1. ASSUME NEW c \in Operations, op[c].step \in OnTheWire
      PROVE  \E x \in Conns : op[c].on = {x}
  BY <1>0, <1>1 DEF OpForm
<1>2. ASSUME NEW c \in Operations, StartOp(c) PROVE PoolInv'
  <2>1. PICK kind \in OpKinds : Lease(c, [op[c] EXCEPT !.kind = kind])
    BY <1>2 DEF StartOp
  <2>2. op[c].on = {} /\ op[c].drops = {} /\ op[c].round = 1 /\ op[c].ran <= 0
    BY <1>0, <1>2 DEF StartOp, OpForm, OnTheWire, RunsUntil
  <2> DEFINE o == [op[c] EXCEPT !.kind = kind]
  <2>3. o \in OpRec /\ o.kind \in OpKinds /\ o.on = {} /\ o.drops = {} /\ o.round = 1 /\ o.ran <= 0
    BY <1>0, <2>2 DEF OpRec
  <2> HIDE DEF o
  <2>4. Lease(c, o)
    BY <2>1 DEF o
  <2>5. QED
    BY <2>2, <2>3, <2>4, LeaseInv
<1>3. ASSUME NEW c \in Operations, Again(c) PROVE PoolInv'
  <2>1. /\ op[c] \in OpRec /\ op[c].on = {} /\ op[c].drops = {} /\ op[c].kind = "list"
        /\ op[c].round = 2 /\ op[c].ran <= 2
    BY <1>0, <1>3 DEF Again, OpForm, OnTheWire, RunsUntil
  <2>2. Lease(c, op[c]) /\ op[c].kind \in OpKinds
    BY <1>3, <2>1 DEF Again, OpKinds
  <2>3. QED
    BY <2>1, <2>2, LeaseInv
<1>4. ASSUME NEW c \in Operations, ClientConnected(c) PROVE PoolInv'
  <2>1. PICK x \in Conns : op[c].on = {x}
    BY <1>1, <1>4 DEF ClientConnected, OnTheWire
  <2> DEFINE o == [op[c] EXCEPT !.step = "calling"]
             f == [conn[x] EXCEPT !.client = "up"]
  <2>2. /\ o \in OpRec /\ o.on = {x} /\ o.drops = op[c].drops /\ o.step = "calling" /\ o.kind = op[c].kind
        /\ o.round = op[c].round /\ o.retried = op[c].retried /\ o.ran = op[c].ran
    BY <1>0, <2>1 DEF OpRec, PoolSteps, OnTheWire
  <2>3. op[c].step = "connecting" /\ OpForm(op[c])
    BY <1>0, <1>4 DEF ClientConnected
  <2>4. f \in ConnRec /\ f.leased = conn[x].leased /\ f.warm = conn[x].warm /\ f.client = "up"
    BY <1>0 DEF ConnRec, ClientStates
  <2>5. conn' = [conn EXCEPT ![x] = f] /\ op' = [op EXCEPT ![c] = o] /\ pool' = pool /\ sockets' = sockets + 1
    BY <1>0, <1>4, <2>1 DEF ClientConnected, Put
  <2>6. conn[x].client = "none"
    BY <2>1, <2>3 DEF PoolInv, ClientsHeld
  <2>7. sockets \in Nat
    BY CountFollows, PoolAssumption, FS_Subset, FS_CardinalityType DEF PoolInv, SocketsCounted, LiveClients
  <2> HIDE DEF o, f
  <2>8. OpForm(o)
    BY <2>2, <2>3, <2>1 DEF OpForm, OnTheWire, RunsUntil
  <2>9. o.drops = {} /\ sockets' = sockets + (IF f.client # "none" THEN 1 ELSE 0) - (IF conn[x].client # "none" THEN 1 ELSE 0)
    BY <2>2, <2>3, <2>4, <2>5, <2>6, <2>7 DEF OpForm
  <2>10. QED
    BY <2>1, <2>2, <2>4, <2>5, <2>8, <2>9, StayInv
<1>5. ASSUME NEW c \in Operations, Executed(c) PROVE PoolInv'
  <2>1. PICK x \in Conns : op[c].on = {x}
    BY <1>1, <1>5 DEF Executed, OnTheWire
  <2> DEFINE o == [op[c] EXCEPT !.step = "answering", !.ran = @ + 1]
  <2>2. /\ o \in OpRec /\ o.on = {x} /\ o.drops = op[c].drops /\ o.step = "answering" /\ o.kind = op[c].kind
        /\ o.round = op[c].round /\ o.retried = op[c].retried /\ o.ran = op[c].ran + 1
    <3>1. op[c] \in OpRec /\ op[c].ran + 1 \in Nat
      BY <1>0 DEF OpRec
    <3>2. QED
      BY <2>1, <3>1 DEF OpRec, PoolSteps, OnTheWire
  <2>3. op[c].step = "calling" /\ OpForm(op[c]) /\ op[c].ran \in Nat
    BY <1>0, <1>5 DEF Executed, OpRec
  <2>4. conn' = [conn EXCEPT ![x] = conn[x]] /\ op' = [op EXCEPT ![c] = o] /\ pool' = pool /\ sockets' = sockets
    BY <1>0, <1>5 DEF Executed, Put
  <2>5. sockets \in Nat
    BY PoolAssumption, FS_Subset, FS_CardinalityType DEF PoolInv, SocketsCounted, LiveClients
  <2> HIDE DEF o
  <2>6. OpForm(o) /\ o.drops = {}
    BY <2>1, <2>2, <2>3 DEF OpForm, OnTheWire, RunsUntil
  <2>7. conn[x] \in ConnRec /\ sockets' = sockets + (IF conn[x].client # "none" THEN 1 ELSE 0) - (IF conn[x].client # "none" THEN 1 ELSE 0)
    BY <1>0, <2>4, <2>5
  <2>8. QED
    BY <2>1, <2>2, <2>4, <2>6, <2>7, StayInv
<1>6. ASSUME NEW c \in Operations, Answered(c) \/ ToolError(c) PROVE PoolInv'
  <2>1. op[c].step = "answering" /\ op[c].step \in OnTheWire
    BY <1>6 DEF Answered, ToolError, OnTheWire
  <2>2. PICK x \in Conns : op[c].on = {x}
    BY <1>1, <2>1
  <2>3. PICK o \in OpRec : OpForm(o) /\ o.on = {} /\ o.drops = {} /\ op' = [op EXCEPT ![c] = o]
    <3>1. CASE Answered(c)
      <4>1. op' = [op EXCEPT ![c] = [Ended(op[c], "done") EXCEPT !.on = {}]]
        BY <2>2, <3>1 DEF Answered, ReleaseConnection, Put
      <4>2. \A r \in OpRec : r.on = {} => [r EXCEPT !.on = {}] = r
        BY DEF OpRec
      <4>3. QED
        BY <1>0, <2>1, <4>1, <4>2, EndForms
    <3>2. CASE ToolError(c)
      <4>1. op' = [op EXCEPT ![c] = [Thrown(op[c]) EXCEPT !.on = {}]]
        BY <2>2, <3>2 DEF ToolError, ReleaseConnection, Put
      <4>2. QED
        BY <1>0, <2>1, <4>1, EndForms
    <3>3. QED
      BY <1>6, <3>1, <3>2
  <2>4. /\ conn' = [conn EXCEPT ![x] = Released(x)] /\ sockets' = sockets - ClosedAtRelease(x) /\ pool' = pool
    BY <1>6, <2>2 DEF Answered, ToolError, ReleaseConnection
  <2> DEFINE f == Released(x)
  <2>5. /\ f \in ConnRec /\ ~f.leased /\ (~conn[x].warm => f.client = "none") /\ (conn[x].warm => f.warm)
        /\ (conn[x].client = "none" => f.client = "none")
        /\ sockets' = sockets - (IF conn[x].client # "none" /\ f.client = "none" THEN 1 ELSE 0)
        /\ conn' = [conn EXCEPT ![x] = f]
    BY <1>0, <2>4, ReleaseForms
  <2> HIDE DEF f
  <2>6. QED
    BY <2>2, <2>3, <2>4, <2>5, LeaveInv
<1>7. ASSUME NEW c \in Operations, FirstFails(c) PROVE PoolInv'
  <2>1. op[c].step \in OnTheWire /\ ~op[c].retried /\ op[c] \in OpRec /\ OpForm(op[c])
    BY <1>0, <1>7 DEF FirstFails, OnTheWire
  <2>2. PICK x \in Conns : op[c].on = {x}
    BY <1>1, <2>1
  <2>3. pool' = pool /\ sockets' = sockets - (IF conn[x].client = "none" THEN 0 ELSE 1)
    BY <1>7, <2>2 DEF FirstFails
  <2>4. sockets \in Nat /\ conn[x] \in ConnRec
    BY <1>0, PoolAssumption, FS_Subset, FS_CardinalityType DEF PoolInv, SocketsCounted, LiveClients
  <2>5. CASE Repeatable(op[c])
    <3> DEFINE o == [op[c] EXCEPT !.step = "connecting", !.retried = TRUE]
               f == [conn[x] EXCEPT !.client = "none"]
    <3>1. conn' = [conn EXCEPT ![x] = f] /\ op' = [op EXCEPT ![c] = o]
      BY <1>7, <2>2, <2>5 DEF FirstFails, Put
    <3>2. /\ o \in OpRec /\ o.on = {x} /\ o.drops = op[c].drops /\ o.step = "connecting" /\ o.kind = op[c].kind
          /\ o.round = op[c].round /\ o.retried /\ o.ran = op[c].ran
      BY <2>1, <2>2 DEF OpRec, PoolSteps, OnTheWire
    <3>3. f \in ConnRec /\ f.leased = conn[x].leased /\ f.warm = conn[x].warm /\ f.client = "none"
      BY <2>4 DEF ConnRec, ClientStates
    <3> HIDE DEF o, f
    <3>4. OpForm(o) /\ o.drops = {}
      BY <2>1, <2>2, <2>5, <3>2 DEF OpForm, OnTheWire, RunsUntil, Repeatable, OpRec
    <3>5. sockets' = sockets + (IF f.client # "none" THEN 1 ELSE 0) - (IF conn[x].client # "none" THEN 1 ELSE 0)
      BY <2>3, <2>4, <3>3
    <3>6. QED
      BY <2>2, <2>3, <3>1, <3>2, <3>3, <3>4, <3>5, StayInv
  <2>6. CASE ~Repeatable(op[c])
    <3> DEFINE o == [Thrown(op[c]) EXCEPT !.on = {}]
               f == [Released(x) EXCEPT !.client = "none"]
    <3>1. conn' = [conn EXCEPT ![x] = f] /\ op' = [op EXCEPT ![c] = o]
      BY <1>7, <2>2, <2>6 DEF FirstFails, Put
    <3>2. o \in OpRec /\ OpForm(o) /\ o.on = {} /\ o.drops = {}
      BY <2>1, EndForms
    <3>3. f \in ConnRec /\ ~f.leased /\ (conn[x].warm => f.warm) /\ f.client = "none"
      <4>1. Released(x) \in ConnRec /\ ~Released(x).leased /\ (conn[x].warm => Released(x).warm)
        BY <1>0, ReleaseForms
      <4>2. QED
        BY <4>1 DEF ConnRec, ClientStates
    <3> HIDE DEF o, f
    <3>4. sockets' = sockets - (IF conn[x].client # "none" /\ f.client = "none" THEN 1 ELSE 0)
      BY <2>3, <3>3
    <3>5. QED
      BY <2>2, <2>3, <3>1, <3>2, <3>3, <3>4, LeaveInv
  <2>7. QED
    BY <2>5, <2>6
<1>8. ASSUME NEW c \in Operations, SecondFails(c) PROVE PoolInv'
  <2>1. op[c].step \in OnTheWire /\ op[c] \in OpRec /\ OpForm(op[c])
    BY <1>0, <1>8 DEF SecondFails, OnTheWire
  <2>2. PICK x \in Conns : op[c].on = {x}
    BY <1>1, <2>1
  <2> DEFINE o == [Thrown(op[c]) EXCEPT !.on = {}]
             g == Released(x)
             f == [g EXCEPT !.client = IF @ = "none" THEN @ ELSE "broken"]
  <2>3. /\ conn' = [conn EXCEPT ![x] = f] /\ op' = [op EXCEPT ![c] = o] /\ pool' = pool
        /\ sockets' = sockets - ClosedAtRelease(x)
    BY <1>8, <2>2 DEF SecondFails, Put
  <2>4. o \in OpRec /\ OpForm(o) /\ o.on = {} /\ o.drops = {}
    BY <2>1, EndForms
  <2>5. /\ g \in ConnRec /\ ~g.leased /\ (~conn[x].warm => g.client = "none")
        /\ (conn[x].warm => g.warm /\ g.client = conn[x].client)
        /\ ClosedAtRelease(x) = (IF conn[x].client # "none" /\ g.client = "none" THEN 1 ELSE 0)
    BY <1>0, ReleaseForms
  <2> HIDE DEF g, o
  <2>6. f \in ConnRec /\ f.leased = g.leased /\ f.warm = g.warm /\ (f.client = "none" <=> g.client = "none")
    BY <2>5 DEF ConnRec, ClientStates
  <2> HIDE DEF f
  <2>7. QED
    BY <2>2, <2>3, <2>4, <2>5, <2>6, LeaveInv
<1>9. CASE UNCHANGED poolVars
  <2>1. pool' = pool /\ conn' = conn /\ op' = op /\ sockets' = sockets
    BY <1>9 DEF poolVars
  <2>2. OpsOK' /\ LeasesExclusive'
    BY <2>1 DEF PoolInv, OpsOK, OpForm, RunsUntil, LeasesExclusive
  <2>3. Referenced' = Referenced /\ Dropping' = Dropping /\ LiveClients' = LiveClients
    BY <2>1 DEF Referenced, Leased, Dropping, LiveClients
  <2>4. ClientsHeld' /\ SocketsCounted'
    BY <2>1, <2>3 DEF PoolInv, ClientsHeld, SocketsCounted
  <2>5. QED
    BY <2>2, <2>4 DEF PoolInv
<1> QED
  BY <1>2, <1>3, <1>4, <1>5, <1>6, <1>7, <1>8, <1>9, RebuildInv, DropInv, BreaksInv DEF PoolNext, CallerStep

(* The inductive invariant of the pool: what operations are up to, who has   *)
(* which connection, and which clients live.                                *)
THEOREM PoolInvariant == PoolSpec => []PoolInv
BY PoolInitInv, PoolStep, PTL DEF PoolSpec

(* From the invariant: no socket outside the books, no lease shared, and no  *)
(* operation run more often than its retries allow.                         *)
LEMMA PoolInvHolds == PoolInv => PoolHonest
<1> SUFFICES ASSUME PoolInv PROVE PoolHonest
  OBVIOUS
<1>1. LeasesExclusive /\ OpsOK /\ ClientsHeld /\ SocketsCounted
  BY DEF PoolInv
<1>2. NoSocketLost
  <2>1. Referenced \subseteq Conns
    BY <1>1 DEF LeasesExclusive, OpsOK, OpRec, Referenced, Leased, Dropping
  <2>2. LiveClients = {x \in Referenced : conn[x].client # "none"}
    BY <1>1, <2>1 DEF ClientsHeld, LiveClients
  <2>3. QED
    BY <1>1, <2>2 DEF NoSocketLost, SocketsCounted
<1>3. RunsAtMost
  <2>1. ASSUME NEW c \in Operations PROVE op[c].ran <= Most(op[c].kind)
    BY <1>1 DEF OpsOK, OpForm, RunsUntil, OnTheWire, Most, OpRec, OpKinds, PoolSteps
  <2>2. QED
    BY <2>1 DEF RunsAtMost, Most
<1>4. QED
  BY <1>1, <1>2, <1>3 DEF PoolHonest, ConnectionsKept

(* PoolHonest, for any operations and any pool: no two callers have one      *)
(* connection, every open socket is somewhere a close will find it, and a   *)
(* write is sent once (mcp-client.server.ts).                               *)
THEOREM PoolStaysHonest == PoolSpec => []PoolHonest
BY PoolInvariant, PoolInvHolds, PTL

-----------------------------------------------------------------------------
(* The terminals, for any clients and any bound on shells.  The argument:    *)
(* what is open on the live shell is among its subscribers, so that the idle *)
(* timer, which looks at the subscribers, looks at all who watch.            *)

(* A shell is live only while no other starts, and the bound is never passed. *)
OneShell ==
  /\ session # None => starting = "no"
  /\ spawned + failed <= MaxShells
  /\ starting # "no" => spawned + failed < MaxShells

(* Who has the live shell open is among its subscribers, and nobody has a shell *)
(* open that is still to come.                                                   *)
OpenIsSubscribed ==
  /\ \A c \in Clients : client[c].pc = "open" => client[c].shell \in 1..spawned
  /\ session # None => /\ session.shell \in 1..spawned
                       /\ \A c \in Clients : client[c] = StartAt("open", session.shell) => c \in session.subscribers

(* The inductive invariant.                                                 *)
PtyInv == HoldsExact /\ OneShell /\ OpenIsSubscribed

(* A client as a record.                                                    *)
ClientRec == [pc : {"idle", "waiting", "aborted", "open", "abandoned"}, shell : Shells \cup {None}]

(* At the start there is no shell and no hold.                                *)
LEMMA PtyInitInv == PtyInit => PtyInv
BY PtyAssumption DEF PtyInit, PtyInv, HoldsExact, OneShell, OpenIsSubscribed, PtyTypeOK, StartAt

(* What an unsubscribe leaves of the live shell: it takes one subscriber at   *)
(* most, and may set the timer.                                               *)
LEMMA UnsubscribedForm ==
  ASSUME NEW c \in Clients, session # None, session \in LiveShell, Unsubscribed(c)
  PROVE  \E subs \in SUBSET Clients, timer \in {"none", "set", "fired"} :
           /\ session' = [session EXCEPT !.subscribers = subs, !.timer = timer]
           /\ session.subscribers \ {c} \subseteq subs
<1> DEFINE left  == IF session.shell = client[c].shell THEN session.subscribers \ {c} ELSE {}
           subs  == IF session.shell = client[c].shell THEN left ELSE session.subscribers
           timer == IF left = {} /\ session.timer = "none" THEN "set" ELSE session.timer
<1>1. session' = [session EXCEPT !.subscribers = subs, !.timer = timer]
  BY DEF Unsubscribed, LiveShell
<1>2. subs \in SUBSET Clients /\ timer \in {"none", "set", "fired"} /\ session.subscribers \ {c} \subseteq subs
  BY DEF LiveShell
<1>3. QED
  BY <1>1, <1>2

(* Disposing of the live shell gives back its hold and nothing else.          *)
LEMMA DisposeInv ==
  ASSUME PtyInv, session # None, NEW pending, pending \subseteq Shells, Dispose(pending),
         UNCHANGED <<starting, spawned, failed>>
  PROVE  PtyInv'
<1> USE PtyAssumption DEF PtyInv, HoldsExact, OneShell, OpenIsSubscribed, PtyTypeOK
<1>1. client \in [Clients -> ClientRec]
  BY DEF ClientRec
<1>2. client' \in [Clients -> ClientRec]
  BY <1>1 DEF Dispose, StartAt, ClientRec
<1>3. \A c \in Clients : client'[c].pc = "open" => client'[c] = client[c]
  BY DEF Dispose, StartAt
<1>4. QED
  BY <1>2, <1>3 DEF Dispose, ClientRec

(* Every step keeps the invariant.                                            *)
LEMMA PtyStep == PtyInv /\ [PtyNext]_ptyVars => PtyInv'
<1> SUFFICES ASSUME PtyInv, [PtyNext]_ptyVars PROVE PtyInv'
  OBVIOUS
<1> USE PtyAssumption DEF PtyInv, HoldsExact, OneShell, OpenIsSubscribed, PtyTypeOK
<1>0. /\ client \in [Clients -> ClientRec]
      /\ \A c \in Clients : client[c].pc = "open" => client[c].shell \in 1..spawned
  BY DEF ClientRec
<1>1. ASSUME NEW c \in Clients, Connect(c) PROVE PtyInv'
  <2>1. CASE session # None /\ Subscribed(c)
    <3>1. client' \in [Clients -> ClientRec]
      BY <1>0, <2>1 DEF Subscribed, StartAt, ClientRec, LiveShell
    <3>2. session' \in LiveShell /\ session'.shell = session.shell /\ session' # None
           /\ session'.subscribers = session.subscribers \cup {c}
      <4>1. session \in LiveShell
        BY <2>1
      <4>2. session' = [session EXCEPT !.subscribers = @ \cup {c}, !.timer = "none"]
        BY <2>1 DEF Subscribed
      <4>3. session' \in LiveShell /\ session'.shell = session.shell
             /\ session'.subscribers = session.subscribers \cup {c}
        BY ONLY <4>1, <4>2 DEF LiveShell
      <4>4. QED
        BY <4>3
    <3>3. \A d \in Clients : d = c \/ client'[d] = client[d]
      BY <2>1 DEF Subscribed
    <3>4. client'[c] = StartAt("open", session.shell)
      BY <1>0, <2>1 DEF Subscribed
    <3>5. UNCHANGED <<starting, exited, holds, spawned, failed>>
      BY <1>1, <2>1 DEF Connect
    <3>6. OpenIsSubscribed'
      BY <2>1, <3>2, <3>3, <3>4, <3>5 DEF StartAt
    <3>7. QED
      BY <2>1, <3>1, <3>2, <3>5, <3>6 DEF ClientRec
  <2>2. CASE session = None
    <3>1. client' \in [Clients -> ClientRec] /\ session' = None
      BY <1>0, <1>1, <2>2 DEF Connect, StartAt, ClientRec
    <3>2. \A d \in Clients : client'[d].pc = "open" => client'[d] = client[d]
      BY <1>0, <1>1, <2>2 DEF Connect, StartAt
    <3>3. starting' # "no" => spawned' + failed' < MaxShells
      BY <1>1, <2>2 DEF Connect
    <3>4. QED
      BY <1>1, <2>2, <3>1, <3>2, <3>3 DEF Connect, ClientRec
  <2>3. QED
    BY <1>1, <2>1, <2>2 DEF Connect
<1>2. ASSUME NEW c \in Clients, Disconnect(c) PROVE PtyInv'
  <2>1. CASE client[c].pc = "open" /\ Unsubscribed(c) /\ client' = [client EXCEPT ![c] = StartAt("idle", None)]
    <3>1. client' \in [Clients -> ClientRec]
      BY <1>0, <2>1 DEF StartAt, ClientRec
    <3>2. CASE session = None
      BY <1>2, <2>1, <3>1, <3>2 DEF Disconnect, Unsubscribed, ClientRec, StartAt
    <3>3. CASE session # None
      <4>1. /\ session' \in LiveShell /\ session' # None /\ session'.shell = session.shell
            /\ session.subscribers \ {c} \subseteq session'.subscribers
        <5>1. session \in LiveShell
          BY <3>3
        <5>2. PICK subs \in SUBSET Clients, timer \in {"none", "set", "fired"} :
                /\ session' = [session EXCEPT !.subscribers = subs, !.timer = timer]
                /\ session.subscribers \ {c} \subseteq subs
          BY <2>1, <3>3, <5>1, UnsubscribedForm
        <5>3. /\ session' \in LiveShell /\ session'.shell = session.shell
              /\ session.subscribers \ {c} \subseteq session'.subscribers
          BY ONLY <5>1, <5>2 DEF LiveShell
        <5>4. QED
          BY <5>3
      <4>2. UNCHANGED <<starting, exited, holds, spawned, failed>>
        BY <1>2 DEF Disconnect
      <4>3. \A d \in Clients : client'[d].pc = "open" => d # c /\ client'[d] = client[d]
        BY <1>0, <2>1 DEF StartAt
      <4>4. OpenIsSubscribed'
        BY <3>3, <4>1, <4>2, <4>3 DEF StartAt
      <4>5. QED
        BY <3>1, <3>3, <4>1, <4>2, <4>4 DEF ClientRec
    <3>4. QED
      BY <3>2, <3>3
  <2>2. CASE client[c].pc = "waiting" /\ client' = [client EXCEPT ![c].pc = "aborted"] /\ UNCHANGED session
    <3>1. client' \in [Clients -> ClientRec]
      BY <1>0, <2>2 DEF ClientRec
    <3>2. \A d \in Clients : client'[d].pc = "open" => client'[d] = client[d]
      BY <1>0, <2>2 DEF ClientRec
    <3>3. QED
      BY <1>2, <2>2, <3>1, <3>2 DEF Disconnect, ClientRec, StartAt
  <2>3. QED
    BY <1>2, <2>1, <2>2 DEF Disconnect
<1>3. CASE Acquired
  BY <1>3 DEF Acquired
<1>4. CASE Spawn
  <2>0. spawned' \in Shells /\ spawned' = spawned + 1
    BY <1>4 DEF Spawn, Shells
  <2>1. client' \in [Clients -> ClientRec]
    <3>1. client' = [c \in Clients |-> CASE client[c].pc = "waiting" -> StartAt("open", spawned')
                       [] client[c].pc = "aborted" -> StartAt("abandoned", spawned')
                       [] OTHER -> client[c]]
      BY <1>4 DEF Spawn
    <3>2. \A c \in Clients : client[c] \in ClientRec
      BY <1>0
    <3>3. StartAt("open", spawned') \in ClientRec /\ StartAt("abandoned", spawned') \in ClientRec
      BY <2>0 DEF StartAt, ClientRec
    <3>4. QED
      BY ONLY <3>1, <3>2, <3>3
  <2>2. session' \in LiveShell /\ session' # None /\ session'.shell = spawned' /\ session'.subscribers = Waiting
    <3>1. session' = [shell |-> spawned', subscribers |-> Waiting, timer |-> "none"]
      BY <1>4 DEF Spawn
    <3>2. Waiting \in SUBSET Clients
      BY DEF Waiting
    <3>3. session' \in LiveShell /\ session'.shell = spawned' /\ session'.subscribers = Waiting
      BY ONLY <2>0, <3>1, <3>2 DEF LiveShell
    <3>4. QED
      BY <3>3
  <2>3. \A c \in Clients : client'[c].pc = "open" =>
           \/ client'[c].shell = spawned' /\ c \in Waiting
           \/ client'[c] = client[c]
    BY <1>0, <1>4 DEF Spawn, StartAt, Waiting, ClientRec
  <2>4. OpenIsSubscribed'
    BY <1>0, <1>4, <2>2, <2>3 DEF Spawn, StartAt
  <2>5. session = None /\ holds = 1 + failed
    BY <1>4 DEF Spawn
  <2>6. QED
    BY <1>4, <2>1, <2>2, <2>4, <2>5 DEF Spawn, ClientRec
<1>5. CASE StartFails
  <2>1. client' \in [Clients -> ClientRec]
    BY <1>0, <1>5 DEF StartFails, StartAt, ClientRec
  <2>2. \A c \in Clients : client'[c].pc = "open" => client'[c] = client[c]
    BY <1>0, <1>5 DEF StartFails, StartAt, Waiting
  <2>3. session = None
    BY <1>5 DEF StartFails
  <2>4. QED
    BY <1>5, <2>1, <2>2, <2>3 DEF StartFails, ClientRec
<1>6. CASE IdleFires
  <2>1. CASE session.subscribers = {}
    <3>1. exited \cup {session.shell} \subseteq Shells
      BY <1>6 DEF IdleFires, LiveShell
    <3>2. QED
      BY <1>6, <2>1, <3>1, DisposeInv DEF IdleFires
  <2>2. CASE session.subscribers # {}
    <3>1. /\ session' \in LiveShell /\ session' # None /\ session'.shell = session.shell
          /\ session'.subscribers = session.subscribers
      BY <1>6, <2>2 DEF IdleFires, LiveShell
    <3>2. QED
      BY <1>6, <2>2, <3>1 DEF IdleFires
  <2>3. QED
    BY <2>1, <2>2
<1>7. CASE ShellExits
  BY <1>7 DEF ShellExits, LiveShell
<1>8. ASSUME NEW s \in Shells, ExitEvent(s) PROVE PtyInv'
  <2>1. CASE session # None
    <3>1. exited \ {s} \subseteq Shells /\ (exited \ {s}) \cup {session.shell} \subseteq Shells
      BY <2>1 DEF LiveShell
    <3>2. QED
      BY <1>8, <2>1, <3>1, DisposeInv DEF ExitEvent
  <2>2. CASE session = None
    BY <1>8, <2>2 DEF ExitEvent
  <2>3. QED
    BY <2>1, <2>2
<1>9. CASE UNCHANGED ptyVars
  BY <1>9 DEF ptyVars
<1> QED
  BY <1>1, <1>2, <1>3, <1>4, <1>5, <1>6, <1>7, <1>8, <1>9 DEF PtyNext

(* The inductive invariant of the terminals holds in every state.            *)
THEOREM PtyInvariant == PtySpec => []PtyInv
BY PtyInitInv, PtyStep, PTL DEF PtySpec

(* HoldsExact: the attachment is held once by the live shell, once by a start that has it, *)
(* and once by every start whose spawn threw.                                   *)
THEOREM HoldsAreExact == PtySpec => []HoldsExact
<1>1. PtyInv => HoldsExact
  BY DEF PtyInv
<1> QED
  BY <1>1, PtyInvariant, PTL

(* A watched shell goes only with an exit event, never by the idle close.      *)
LEMMA WatchedStep ==
  PtyInv /\ [PtyNext]_ptyVars => [(Watched /\ session' = None) => ~(exited \subseteq exited')]_ptyVars
<1> SUFFICES ASSUME PtyInv, PtyNext, Watched, session' = None
             PROVE  ~(exited \subseteq exited')
  OBVIOUS
<1> USE PtyAssumption DEF PtyInv, HoldsExact, OpenIsSubscribed, PtyTypeOK
<1>1. session \in LiveShell /\ session # None /\ session.subscribers # {}
  BY DEF Watched
<1>2. ASSUME NEW c \in Clients, Connect(c) \/ Disconnect(c) PROVE FALSE
  <2>1. session' \in LiveShell \/ session' = session
    <3>1. CASE Subscribed(c) /\ Connect(c)
      <4>1. session \in LiveShell /\ c \in Clients
        BY <1>1
      <4>2. session' = [session EXCEPT !.subscribers = @ \cup {c}, !.timer = "none"]
        BY <3>1 DEF Subscribed
      <4>3. QED
        BY ONLY <4>1, <4>2 DEF LiveShell
    <3>2. CASE Unsubscribed(c) /\ Disconnect(c)
      <4>1. PICK subs \in SUBSET Clients, timer \in {"none", "set", "fired"} :
              session' = [session EXCEPT !.subscribers = subs, !.timer = timer]
        BY <1>1, <3>2, UnsubscribedForm
      <4>2. QED
        BY ONLY <1>1, <4>1 DEF LiveShell
    <3>3. QED
      BY <1>1, <1>2, <3>1, <3>2 DEF Connect, Disconnect
  <2>2. QED
    BY <1>1, <2>1
<1>3. CASE Acquired \/ StartFails \/ ShellExits
  BY <1>1, <1>3 DEF Acquired, StartFails, ShellExits
<1>4. CASE Spawn
  BY <1>1, <1>4 DEF Spawn, OneShell
<1>5. CASE IdleFires
  BY <1>1, <1>5 DEF IdleFires, LiveShell
<1>6. ASSUME NEW s \in Shells, ExitEvent(s) PROVE ~(exited \subseteq exited')
  BY <1>1, <1>6 DEF ExitEvent, Dispose
<1> QED
  BY <1>2, <1>3, <1>4, <1>5, <1>6 DEF PtyNext

(* IdleCloseSparesWatched: the idle close never takes a shell somebody       *)
(* watches, whatever clients come and go while the timer runs.              *)
THEOREM WatchedIsSpared == PtySpec => IdleCloseSparesWatched
BY PtyInvariant, WatchedStep, PTL DEF PtySpec, IdleCloseSparesWatched
=============================================================================
