------------------------------ MODULE Routines ------------------------------
(***************************************************************************)
(* Routines: stored "run this agent when X happens" rows, the ticks of the *)
(* scheduler and the sign-in hooks that fire them, and the claim on        *)
(* last_run_at that keeps overlapping firers, of one process or of several,*)
(* from firing a routine twice (app/src/lib/routines/scheduler.server.ts,  *)
(* dispatch.server.ts, triggers.ts and app/src/lib/db/routines.server.ts). *)
(***************************************************************************)
EXTENDS Integers, FiniteSets, FiniteSetsExt

CONSTANTS
  Routines,            (* routine ids, numbers in the order of their creation   *)
  Ticks,               (* wake-ups of a scheduler that may be under way         *)
  Hooks,               (* sign-ins that may be under way                        *)
  Interval,            (* intervalSeconds of the interval routines              *)
  MaxPerEvent,         (* MAX_ROUTINES_PER_EVENT                                *)
  MaxClock, MaxEdits, MaxFailures  (* bounds: time, requests that change rows, failures *)

ASSUME RoutinesAssumption ==
  /\ Routines \subseteq Nat /\ Ticks \cap Hooks = {}
  /\ Interval \in Nat \ {0} /\ MaxPerEvent \in Nat
  /\ MaxClock \in Nat /\ MaxEdits \in Nat /\ MaxFailures \in Nat

VARIABLES
  clock,       (* NOW() and Date.now(), in units no finer than a millisecond    *)
  rows,        (* the routines table                                            *)
  firers,      (* the ticks and hooks under way                                 *)
  runs,        (* claims that became a run, or were lost without one            *)
  edits, failures

routineVars == <<clock, rows, firers, runs, edits, failures>>

Never   == -1
Firers  == Ticks \cup Hooks
(* An orphan is an interval routine whose agent is no longer registered.     *)
Kinds   == {"interval", "event", "orphan"}
NoRow   == [kind |-> "none", enabled |-> FALSE, last |-> Never, since |-> 0, from |-> 0]
Idle    == [step |-> "idle", todo |-> {}, seen |-> [r \in Routines |-> Never], claim |-> Never, from |-> 0]

Exists(r)  == rows[r].kind \in Kinds
Enabled    == {r \in Routines : rows[r].enabled}
Current(f) == Min(firers[f].todo)
Latest(t, u) == IF t > u THEN t ELSE u

(* isDue over nextDueAt: the clock of a row starts at its last run, or, when *)
(* it has none, at its creation.  Event kinds have no schedule.              *)
IsDue(row, now) ==
  row.kind = "interval" /\ (IF row.last = Never THEN row.since ELSE row.last) + Interval <= now

-----------------------------------------------------------------------------
RoutinesInit ==
  /\ clock = 0 /\ edits = 0 /\ failures = 0
  /\ rows = [r \in Routines |-> NoRow]
  /\ firers = [f \in Firers |-> Idle]
  /\ runs = {}

(* A request, of the routines API or a sign-in, takes at least a unit of time*)
(* (assumed): without that, claims within one unit push last_run_at ahead of *)
(* the clock, and after an edit a later claim may bear an earlier one's stamp.*)
TakesTime == clock < MaxClock /\ clock' = clock + 1
Request(r, row) ==
  /\ edits < MaxEdits /\ edits' = edits + 1
  /\ TakesTime
  /\ rows' = [rows EXCEPT ![r] = row]
  /\ UNCHANGED <<firers, runs, failures>>

(* since is the creation of the row; its present trigger is as old as from.  *)
CreateRoutine(r) ==
  /\ rows[r].kind = "none"
  /\ \E k \in Kinds, on \in BOOLEAN :
       Request(r, [NoRow EXCEPT !.kind = k, !.enabled = on, !.since = clock, !.from = clock])

(* Switching a routine on or off leaves its clock alone; a new trigger       *)
(* forgets the last run.                                                     *)
EditRoutine(r) ==
  /\ Exists(r)
  /\ \/ Request(r, [rows[r] EXCEPT !.enabled = ~@])
     \/ \E k \in Kinds :
          Request(r, [rows[r] EXCEPT !.kind = k, !.last = Never, !.from = clock])

DeleteRoutine(r) ==
  /\ Exists(r)
  /\ Request(r, [NoRow EXCEPT !.kind = "deleted"])

-----------------------------------------------------------------------------
Moves(f, state) == firers' = [firers EXCEPT ![f] = state]

(* What a firer goes by from here on is what it read: whether a row is due,  *)
(* and its last run.                                                         *)
Walk(f, todo) ==
  /\ firers[f].step = "idle" /\ todo # {}
  /\ Moves(f, [Idle EXCEPT !.step = "walk", !.todo = todo,
                           !.seen = [r \in Routines |-> IF r \in todo THEN rows[r].last ELSE Never]])
  /\ UNCHANGED <<rows, runs, edits, failures>>

(* A tick reads the time, lists the enabled rows, and goes through those that*)
(* are due.  One that finds none changes nothing.                            *)
Tick(f) ==
  /\ f \in Ticks
  /\ Walk(f, {r \in Enabled : IsDue(rows[r], clock)})
  /\ UNCHANGED clock

(* A sign-in lists the user's rows of the event kind and fires the first few.*)
SignIn(f) ==
  /\ f \in Hooks /\ TakesTime
  /\ LET mine == {r \in Enabled : rows[r].kind = "event"}
     IN  Walk(f, {r \in mine : Cardinality({q \in mine : q < r}) < MaxPerEvent})

(* The rest of the list, or the end of it.                                   *)
Dropped(f) ==
  IF firers[f].todo = {Current(f)} THEN Idle
  ELSE [firers[f] EXCEPT !.step = "walk", !.todo = @ \ {Current(f)},
                         !.seen = [@ EXCEPT ![Current(f)] = Never], !.claim = Never, !.from = 0]

(* claimRoutineRunAt: the row must be enabled and as it was listed.          *)
(* Mutants: no comparison; one in which only "never" equals itself.          *)
ClaimableUnseen(r, seen) == rows[r].enabled
ClaimableOnce(r, seen) == rows[r].enabled /\ rows[r].last = Never /\ seen = Never
Claimable(r, seen) == rows[r].enabled /\ rows[r].last = seen

(* The next row of the list is fired if the claim is won.                    *)
Fire(f) ==
  LET r     == Current(f)
      seen  == firers[f].seen[r]
      stamp == IF rows[r].last = Never THEN clock ELSE Latest(clock, rows[r].last + 1)
  IN  /\ firers[f].step = "walk"
      /\ IF Claimable(r, seen) THEN /\ rows' = [rows EXCEPT ![r].last = stamp]
                     /\ Moves(f, [firers[f] EXCEPT !.step = "seed", !.claim = stamp, !.from = rows[r].from])
                ELSE Moves(f, Dropped(f)) /\ UNCHANGED rows
      /\ UNCHANGED <<clock, runs, edits, failures>>

Entry(f, result) ==
  [routine |-> Current(f), stamp |-> firers[f].claim, from |-> firers[f].from,
   by |-> IF f \in Ticks THEN "tick" ELSE "hook", result |-> result]

(* seedActionRow succeeds, and the run starts in the background.             *)
Seed(f) ==
  /\ firers[f].step = "seed"
  /\ runs' = runs \cup {Entry(f, "ran")}
  /\ Moves(f, Dropped(f))
  /\ UNCHANGED <<clock, rows, edits, failures>>

SeedFails(f) ==
  /\ firers[f].step = "seed"
  /\ failures < MaxFailures /\ failures' = failures + 1
  /\ Moves(f, [firers[f] EXCEPT !.step = "rollback"])
  /\ UNCHANGED <<clock, rows, runs, edits>>

(* Mutant: a rollback that does not look whose claim it takes back.          *)
OwnsClaimAnyway(f) == Exists(Current(f))
OwnsClaim(f) == Exists(Current(f)) /\ rows[Current(f)].last = firers[f].claim

(* releaseRoutineClaim, which may fail as well; the interval is then lost.   *)
Rollback(f) ==
  LET r == Current(f) IN
  /\ firers[f].step = "rollback"
  /\ \/ /\ OwnsClaim(f)
        /\ rows' = [rows EXCEPT ![r].last = firers[f].seen[r]]
        /\ UNCHANGED <<runs, failures>>
     \/ /\ ~OwnsClaim(f) /\ runs' = runs \cup {Entry(f, "lost")} /\ UNCHANGED <<rows, failures>>
     \/ /\ failures < MaxFailures /\ failures' = failures + 1
        /\ runs' = runs \cup {Entry(f, "lost")} /\ UNCHANGED rows
  /\ Moves(f, Dropped(f))
  /\ UNCHANGED <<clock, edits>>

Advance ==
  /\ TakesTime
  /\ UNCHANGED <<rows, firers, runs, edits, failures>>

FirerStep(f) ==
  Tick(f) \/ SignIn(f) \/ Fire(f) \/ Seed(f) \/ SeedFails(f) \/ Rollback(f)

RoutinesNext ==
  \/ \E r \in Routines : CreateRoutine(r) \/ EditRoutine(r) \/ DeleteRoutine(r)
  \/ \E f \in Firers : FirerStep(f)
  \/ Advance

(* The timer keeps waking the scheduler and every query settles.             *)
RoutinesFairness == \A f \in Firers : WF_routineVars((f \in Ticks \/ firers[f].step # "idle") /\ FirerStep(f))
RoutinesSpec == RoutinesInit /\ [][RoutinesNext]_routineVars /\ RoutinesFairness

-----------------------------------------------------------------------------
Of(r) == {e \in runs : e.routine = r /\ Exists(r) /\ e.from = rows[r].from}

(* However many ticks overlap, in one process or several, whatever fails and *)
(* is rolled back: under one schedule the runs of an interval routine are at *)
(* least an interval apart.                                                  *)
RunsSpaced ==
  \A d, e \in runs :
    /\ d.routine = e.routine /\ d.from = e.from
    /\ d.result = "ran" /\ e.result = "ran" /\ d.by = "tick" /\ e.by = "tick"
    /\ d.stamp <= e.stamp /\ d # e
    => e.stamp >= d.stamp + Interval

(* A rollback gives back the claim it made and nobody else's: the stamp of a *)
(* run under the present schedule is never taken back.                       *)
RunsNotTakenBack ==
  [][\A e \in runs :
       LET r == e.routine IN
       /\ Exists(r) /\ rows[r].from = e.from /\ rows[r].last >= e.stamp
       /\ e.result = "ran"
       => (~Exists(r) \/ rows[r].from # e.from \/ rows[r].last >= e.stamp)']_routineVars

(* A routine that waits for a run gets one, though seeds fail and claims are *)
(* rolled back, unless it is switched off, deleted or given a new trigger.   *)
Waiting(r) ==
  /\ rows[r].enabled /\ rows[r].kind = "interval"
  /\ rows[r].since + Interval <= clock
  /\ \A e \in Of(r) : e.stamp + Interval <= clock
DueRoutineRuns == \A r \in Routines : Waiting(r) ~> ~Waiting(r)

(* db/routines.server.ts: "A changed schedule should take effect from now,   *)
(* not retroactively fire for the window that elapsed under the old one."    *)
EditStartsNow ==
  \A r \in Routines : rows[r].from > rows[r].since =>
    \A e \in Of(r) : e.by = "tick" => e.stamp >= rows[r].from + Interval
=============================================================================
