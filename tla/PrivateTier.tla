----------------------------- MODULE PrivateTier -----------------------------
(***************************************************************************)
(* The inference tier of one conversation, and the wake of the self-hosted *)
(* box its private turns wait for: the choice of a tier against the turns  *)
(* that record theirs, the one poll all waiting turns share, and what      *)
(* enters the history of cold starts (app/src/lib/inference/               *)
(* tier.server.ts, wake.server.ts, cold-start.server.ts and                *)
(* verda-activity.server.ts, called from turn.server.ts).                  *)
(***************************************************************************)
EXTENDS Naturals, FiniteSets

CONSTANTS
  TierTurns,     (* turns of the conversation                                   *)
  MaxAttempts,   (* attempts the time budget of a wake allows                   *)
  MaxFlips,      (* bound: choices of a tier                                    *)
  MaxStarts,     (* bound: cold starts of the box                               *)
  RacingFlips,   (* may a choice fall between a first turn's resolve and its row*)
  LongTools      (* may the box fall asleep in the middle of a turn             *)

ASSUME TierAssumption ==
  /\ MaxAttempts \in Nat \ {0} /\ MaxFlips \in Nat /\ MaxStarts \in Nat
  /\ RacingFlips \in BOOLEAN /\ LongTools \in BOOLEAN

VARIABLES
  column,    (* inference_tier of the row, or "absent"                          *)
  seed,      (* the user's last choice                                          *)
  flip,      (* the choice whose seed is still to be written                    *)
  flips,
  chosen,    (* the last choice of this conversation's user that was confirmed  *)
  tierTurn,      (* the turns and their cold-start watch                            *)
  poll,      (* the attempt the poll in flight is at, 0 without a poll          *)
  completed, (* when a call to the box last completed: never, fresh or stale    *)
  box,       (* the box (external): asleep, starting or up, and its starts      *)
  measured   (* how many times the history holds each start                     *)

tierVars == <<column, seed, flip, flips, chosen, tierTurn, poll, completed, box, measured>>
rowVars  == <<column, seed, flip, flips, chosen>>
boxVars  == <<poll, completed, box, measured>>

Tiers   == {"verda", "anthropic"}
NewTurn == [step |-> "new", tier |-> "none", watched |-> FALSE, fired |-> FALSE, recordable |-> FALSE,
            settled |-> FALSE, mine |-> FALSE, met |-> "up"]
TurnOver(step) == [NewTurn EXCEPT !.step = step]
Becomes(t, step) == tierTurn' = [tierTurn EXCEPT ![t].step = step]

(* The conversation's own tier, else the user's last one, else the default.  *)
Resolve(own, last) ==
  IF own \in Tiers THEN own ELSE IF last \in Tiers THEN last ELSE "anthropic"

-----------------------------------------------------------------------------
TierInit ==
  /\ column \in {"absent", "none"} /\ seed \in Tiers \cup {"none"}
  /\ flip = "none" /\ flips = 0 /\ chosen = "none"
  /\ tierTurn = [t \in TierTurns |-> NewTurn]
  /\ poll = 0 /\ completed = "never"
  /\ box \in [state : {"asleep", "up"}, starts : {0}] /\ measured = [n \in 0..MaxStarts |-> 0]

(* chooseConversationTier: the row first, if there is one, then the seed.  A *)
(* write of the row that fails leaves all as it was.                         *)
ChooseRow(tier) ==
  /\ flip = "none" /\ flips < MaxFlips
  /\ RacingFlips \/ column # "absent" \/ \A t \in TierTurns : tierTurn[t].step # "resolved"
  /\ flip' = tier /\ flips' = flips + 1
  /\ column' = (IF column = "absent" THEN column ELSE tier)
  /\ UNCHANGED <<seed, chosen, tierTurn, boxVars>>

ChooseSeed ==
  /\ flip # "none" /\ flip' = "none"
  /\ \/ seed' = flip /\ chosen' = flip
     \/ seed' = seed /\ chosen' = "none"
  /\ UNCHANGED <<column, flips, tierTurn, boxVars>>

(* A choice in another conversation.  One made here before the first message *)
(* is only in the seed, and would be replaced.                               *)
ChooseElsewhere(tier) ==
  /\ column \in Tiers \/ chosen = "none"
  /\ seed' = tier
  /\ UNCHANGED <<column, flip, flips, chosen, tierTurn, boxVars>>

-----------------------------------------------------------------------------
(* A turn starts when no choice is being written: the client waits for it.   *)
(* If the column cannot be read the seed decides.  (If the seed cannot, the  *)
(* default of the deployment does, which is left out.)                       *)
ResolveTier(t) ==
  /\ tierTurn[t].step = "new" /\ flip = "none"
  /\ \E own \in {column, "none"}, w \in BOOLEAN :
       tierTurn' = [tierTurn EXCEPT ![t].step = "resolved", ![t].tier = Resolve(own, seed), ![t].watched = w]
  /\ UNCHANGED <<rowVars, boxVars>>

(* The upsert of a row keeps the tier it has.  Mutant: it takes the turn's.  *)
RecordedOver(tier) == tier
Recorded(tier) == IF column \in Tiers THEN column ELSE tier

(* A turn of a conversation without a row records its tier on the new one.   *)
PreSeed(t) ==
  /\ tierTurn[t].step = "resolved" /\ Becomes(t, "seeded")
  /\ column' = (IF column = "absent" THEN Recorded(tierTurn[t].tier) ELSE column)
  /\ UNCHANGED <<seed, flip, flips, chosen, boxVars>>

(* A request to the box starts it.                                           *)
Knocked == IF box.state = "asleep" THEN [state |-> "starting", starts |-> box.starts + 1] ELSE box

(* noteVerdaCallStarting in a turn that waits: announced once, and recordable*)
(* if the process has seen the box and been quiet since.                     *)
Announced(w) ==
  IF w.watched /\ ~w.fired THEN [w EXCEPT !.fired = TRUE, !.recordable = (completed = "stale")] ELSE w

(* Mutant: every turn that waits takes the poll for its own.                 *)
Anyone == TRUE
FirstToWait == poll = 0

(* ensureVerdaAwake: proof that the box is up skips the wake; one poll is    *)
(* shared by all who wait.                                                   *)
StartRun(t) ==
  /\ tierTurn[t].step = "seeded"
  /\ IF tierTurn[t].tier = "anthropic" \/ completed = "fresh"
     THEN Becomes(t, "running") /\ UNCHANGED <<poll, box>>
     ELSE /\ tierTurn' = [tierTurn EXCEPT ![t] =
                        [Announced(@) EXCEPT !.step = "waking", !.mine = FirstToWait, !.met = box.state]]
          /\ poll' = (IF poll = 0 THEN 1 ELSE poll) /\ box' = Knocked
  /\ UNCHANGED <<rowVars, completed, measured>>

(* The header's button wakes the box without a watch.                        *)
PressWake ==
  /\ completed # "fresh" /\ poll = 0
  /\ poll' = 1 /\ box' = Knocked
  /\ UNCHANGED <<rowVars, tierTurn, completed, measured>>

(* Mutant: a budget that starts anew.                                        *)
SpentAnew == IF poll = MaxAttempts THEN 1 ELSE poll + 1
Spent == poll + 1

(* An attempt that goes unanswered is tried again while the budget lasts; a  *)
(* refusal ends the poll at once.  The poll is forgotten and all who wait fail.*)
AttemptFails ==
  /\ poll > 0
  /\ \/ poll' = Spent /\ Spent <= MaxAttempts /\ UNCHANGED tierTurn
     \/ /\ poll' = 0
        /\ tierTurn' = [t \in TierTurns |->
                      IF tierTurn[t].step = "waking" THEN TurnOver("failed") ELSE tierTurn[t]]
  /\ UNCHANGED <<rowVars, completed, box, measured>>

TurnSettled(w, step) == [w EXCEPT !.step = step, !.settled = w.fired, !.mine = FALSE, !.met = "up"]

(* settleColdStart: who measured the wait adds it, once a turn and only if it*)
(* is long enough for a cold start: surely when it met the box asleep, not   *)
(* when it met it up, and perhaps when it met it starting.                   *)
Measure(waits) ==
  LET due(t)  == tierTurn[t].fired /\ ~tierTurn[t].settled /\ tierTurn[t].recordable
      sure    == {t \in waits : due(t) /\ tierTurn[t].met = "asleep"}
      perhaps == {t \in waits : due(t) /\ tierTurn[t].met = "starting"}
  IN  \E long \in SUBSET perhaps :
        measured' = [measured EXCEPT ![box.starts] = @ + Cardinality(sure \cup long)]

(* An attempt is answered: the box is up, and every turn that waited runs.   *)
AttemptAnswered ==
  /\ poll > 0 /\ poll' = 0
  /\ completed' = "fresh" /\ box' = [box EXCEPT !.state = "up"]
  /\ Measure({t \in TierTurns : tierTurn[t].step = "waking" /\ tierTurn[t].mine})
  /\ tierTurn' = [t \in TierTurns |->
                IF tierTurn[t].step = "waking" THEN TurnSettled(tierTurn[t], "running") ELSE tierTurn[t]]
  /\ UNCHANGED rowVars

(* A call of the turn itself, which may find the box asleep again.           *)
CallBox(t) ==
  /\ tierTurn[t].step = "running" /\ tierTurn[t].tier = "verda"
  /\ tierTurn' = [tierTurn EXCEPT ![t] = [(IF completed = "fresh" THEN @ ELSE Announced(@))
                                    EXCEPT !.step = "calling", !.met = box.state]]
  /\ box' = Knocked
  /\ UNCHANGED <<rowVars, poll, completed, measured>>

BoxAnswers(t) ==
  /\ tierTurn[t].step = "calling"
  /\ completed' = "fresh" /\ box' = [box EXCEPT !.state = "up"]
  /\ Measure({t})
  /\ tierTurn' = [tierTurn EXCEPT ![t] = TurnSettled(@, "running")]
  /\ UNCHANGED <<rowVars, poll>>

(* The save at the end of a run, or a run that fails.                        *)
EndTurn(t) ==
  /\ tierTurn[t].step = "running"
  /\ \/ tierTurn' = [tierTurn EXCEPT ![t] = TurnOver("done")] /\ column' = Recorded(tierTurn[t].tier)
     \/ tierTurn' = [tierTurn EXCEPT ![t] = TurnOver("failed")] /\ UNCHANGED column
  /\ UNCHANGED <<seed, flip, flips, chosen, boxVars>>

-----------------------------------------------------------------------------
InUse == poll > 0 \/ \E t \in TierTurns : tierTurn[t].step = "calling"
Busy  == \E t \in TierTurns : tierTurn[t].tier = "verda" /\ tierTurn[t].step \in {"running", "calling"}

(* The scale-down window passes; the box may then be put to sleep.           *)
Cool ==
  /\ completed = "fresh" /\ completed' = "stale"
  /\ LongTools \/ ~Busy
  /\ UNCHANGED <<rowVars, tierTurn, poll, box, measured>>

Sleep ==
  /\ completed # "fresh" /\ ~InUse /\ box.state # "asleep" /\ box.starts < MaxStarts
  /\ box' = [box EXCEPT !.state = "asleep"]
  /\ UNCHANGED <<rowVars, tierTurn, poll, completed, measured>>

TurnStep(t) == PreSeed(t) \/ StartRun(t) \/ CallBox(t) \/ BoxAnswers(t) \/ EndTurn(t)
PollStep    == AttemptFails \/ AttemptAnswered

TierNext ==
  \/ \E tier \in Tiers : ChooseRow(tier) \/ ChooseElsewhere(tier)
  \/ ChooseSeed \/ PressWake \/ PollStep \/ Cool \/ Sleep
  \/ \E t \in TierTurns : ResolveTier(t) \/ TurnStep(t)

(* An attempt is aborted when its timer fires, so it ends.                   *)
TierFairness == WF_tierVars(PollStep)
TierSpec == TierInit /\ [][TierNext]_tierVars /\ TierFairness

-----------------------------------------------------------------------------
(* A confirmed choice holds for the conversation until the next one, whatever*)
(* turns record, choices elsewhere and failed reads do meanwhile.            *)
ChoiceSticks == chosen # "none" /\ flip = "none" => Resolve(column, seed) = chosen

(* A cold start enters the history at most once, however many turns sat      *)
(* through it.                                                               *)
ColdStartsOnce == \A n \in DOMAIN measured : measured[n] <= 1

(* Nobody waits for the box for ever: the wake succeeds or fails the turn.   *)
WakeSettles == \A t \in TierTurns : tierTurn[t].step = "waking" ~> tierTurn[t].step # "waking"
=============================================================================
