-------------------------- MODULE ConversationTurns -------------------------
(***************************************************************************)
(* The turns of one conversation and the database row they persist it in   *)
(* (app/src/lib/harness-client/turn.server.ts, session.server.ts,          *)
(* action-runner.server.ts, app/src/lib/db/conversations.server.ts).       *)
(*                                                                         *)
(* A turn loads the stored context, runs the harness on its own copy and   *)
(* writes the whole copy back; the compaction it leaves behind writes that *)
(* copy once more, at no particular time.  Beside the turns the user       *)
(* deletes, promotes, renames and edits the conversation, the reaper       *)
(* sweeps rows that still say running, and the server may restart.  Every  *)
(* database statement is atomic; nothing else is.                          *)
(***************************************************************************)
EXTENDS Integers, Sequences, SequencesExt

CONSTANTS
  Turns,        (* the turns ever asked for                                    *)
  TurnAgents,   (* agents the user may pick                                    *)
  NoRow, NoBlob,
  Overlap,      (* may a turn start before the previous one has answered       *)
  Compactions,  (* do turns leave tool results to summarize                    *)
  Edits,        (* may the user hide tool results in the stash                 *)
  Deletions,    (* may the user delete the conversation                        *)
  Crashes       (* may the server restart, or lose the write of a failed turn  *)

ASSUME TurnsAssumption ==
  /\ Overlap \in BOOLEAN /\ Compactions \in BOOLEAN /\ Edits \in BOOLEAN
  /\ Deletions \in BOOLEAN /\ Crashes \in BOOLEAN
  /\ TurnAgents # {}

VARIABLES
  row,    (* the conversations row: status, kind, title, agent, and the blob *)
  turn,   (* what each turn is doing, and the context it holds               *)
  edit    (* the stash request: the context it loaded, if any                *)

turnVars == <<row, turn, edit>>

(* A serialized context: the turns in its event log, those of them whose   *)
(* tool results are summarized or hidden, and its own status.              *)
Blob == [log : Seq(Turns), summarized : SUBSET Turns, hidden : SUBSET Turns,
         status : {"running", "paused", "error"}]

(* No context at all is told apart from every context.                      *)
ASSUME BlobAssumption == NoBlob \notin Blob

NewBlob(t) == [log |-> <<t>>, summarized |-> {}, hidden |-> {}, status |-> "running"]
Extend(b, t) == [b EXCEPT !.log = Append(@, t), !.status = "running"]

Modes == {"interactive", "triggered", "approval"}
Unborn == [pc |-> "new", mode |-> "interactive", agent |-> CHOOSE a \in TurnAgents : TRUE,
           blob |-> NoBlob, titling |-> FALSE]

InProgress == {t \in Turns : turn[t].pc \in {"seeding", "running", "saving", "failing"}}

TurnsInit ==
  /\ row = NoRow
  /\ turn = [t \in Turns |-> Unborn]
  /\ edit = NoBlob

-----------------------------------------------------------------------------
UpsertRetitles(old, status, kind, agent, blob) ==   (* mutant: no COALESCE on the title *)
  [status |-> status, agent |-> agent, blob |-> blob, title |-> "derived",
   kind |-> IF old = NoRow THEN kind ELSE old.kind]

UpsertDemotes(old, status, kind, agent, blob) ==   (* mutant: kind in the update's SET *)
  [status |-> status, agent |-> agent, blob |-> blob, kind |-> kind,
   title |-> IF old = NoRow THEN "derived" ELSE old.title]

(* saveConversation.  A new row takes everything; an existing one keeps its *)
(* kind and any title it has.                                               *)
Upsert(old, status, kind, agent, blob) ==
  [status |-> status, agent |-> agent, blob |-> blob,
   kind  |-> IF old = NoRow THEN kind ELSE old.kind,
   title |-> IF old = NoRow THEN "derived" ELSE old.title]

LiftedAsIs(blob) == blob.status   (* mutant: a completed turn's is kept *)

(* extractStatusFromContext: a persisted context that still says running is *)
(* a turn that completed.                                                   *)
Lifted(blob) == IF blob.status \in {"paused", "error"} THEN blob.status ELSE "done"

SaveSession(agent, blob) == Upsert(row, Lifted(blob), "conversation", agent, blob)

-----------------------------------------------------------------------------
MayStart(t) == turn[t].pc = "new" /\ (Overlap \/ InProgress = {})

LoadApprovalUnchecked(t) ==   (* mutant: whatever the row's status *)
  /\ MayStart(t)
  /\ row # NoRow
  /\ turn' = [turn EXCEPT ![t] =
       [@ EXCEPT !.pc = "running", !.mode = "approval", !.agent = row.agent,
                 !.blob = Extend(row.blob, t)]]
  /\ UNCHANGED <<row, edit>>

(* planTurn of an approval: the row must be paused; the context resumes     *)
(* under the row's own agent.                                               *)
LoadApproval(t) ==
  /\ MayStart(t)
  /\ turn' = [turn EXCEPT ![t] =
       IF row = NoRow \/ row.status # "paused"
       THEN [@ EXCEPT !.pc = "rejected", !.mode = "approval"]
       ELSE [@ EXCEPT !.pc = "running", !.mode = "approval", !.agent = row.agent,
                      !.blob = Extend(row.blob, t)]]
  /\ UNCHANGED <<row, edit>>

LoadInteractiveAfresh(t) ==   (* mutant: the stored context is not continued *)
  /\ MayStart(t)
  /\ \E a \in TurnAgents :
       turn' = [turn EXCEPT ![t] =
         [@ EXCEPT !.agent = a, !.blob = NewBlob(t),
                   !.pc = IF row = NoRow THEN "seeding" ELSE "running"]]
  /\ UNCHANGED <<row, edit>>

(* An interactive turn continues the stored context of its own agent, and   *)
(* begins a fresh one otherwise; without a row it writes one first.         *)
LoadInteractive(t) ==
  /\ MayStart(t)
  /\ \E a \in TurnAgents :
       turn' = [turn EXCEPT ![t] =
         [@ EXCEPT !.agent = a,
                   !.pc    = IF row = NoRow THEN "seeding" ELSE "running",
                   !.blob  = IF row # NoRow /\ row.agent = a THEN Extend(row.blob, t)
                             ELSE NewBlob(t)]]
  /\ UNCHANGED <<row, edit>>

Seed(t) ==
  /\ turn[t].pc = "seeding"
  /\ row' = Upsert(row, "running", "conversation", turn[t].agent, NewBlob(t))
  /\ turn' = [turn EXCEPT ![t].pc = "running"]
  /\ UNCHANGED edit

SeedFails(t) ==
  /\ turn[t].pc = "seeding"
  /\ turn' = [turn EXCEPT ![t].pc = "failed"]
  /\ UNCHANGED <<row, edit>>

(* A triggered run: its row is seeded under a new id before it starts, and  *)
(* it loads nothing.                                                        *)
Trigger(t) ==
  /\ \A u \in Turns : turn[u].pc = "new"
  /\ \E a \in TurnAgents :
       /\ row' = Upsert(NoRow, "running", "action", a, NewBlob(t))
       /\ turn' = [turn EXCEPT ![t] = [@ EXCEPT !.pc = "running", !.mode = "triggered",
                                                !.agent = a, !.blob = NewBlob(t)]]
  /\ UNCHANGED edit

(* The harness returns: answered, stopped at an approval gate, or failed.   *)
RunReturns(t) ==
  /\ turn[t].pc = "running"
  /\ \E s \in {"running", "paused", "error"} :
       turn' = [turn EXCEPT ![t].pc = "saving", ![t].blob.status = s]
  /\ UNCHANGED <<row, edit>>

(* The wake, the pattern build or the save throws.                          *)
Throws(t) ==
  /\ turn[t].pc \in {"running", "saving"}
  /\ turn' = [turn EXCEPT ![t].pc = "failing"]
  /\ UNCHANGED <<row, edit>>

SaveTurn(t) ==
  /\ turn[t].pc = "saving"
  /\ row' = SaveSession(turn[t].agent, turn[t].blob)
  /\ turn' = [turn EXCEPT ![t].pc = "answered",
                          ![t].titling = turn[t].mode = "interactive" /\ Len(turn[t].blob.log) = 1]
  /\ UNCHANGED edit

FlipInserts(t) ==   (* mutant: an upsert where the update should be *)
  /\ turn[t].pc = "failing"
  /\ row' = IF row = NoRow THEN [status |-> "error"] ELSE [row EXCEPT !.status = "error"]
  /\ turn' = [turn EXCEPT ![t].pc = "failed"]
  /\ UNCHANGED edit

(* The failed turn flips the row off running before it rethrows.            *)
FlipToError(t) ==
  /\ turn[t].pc = "failing"
  /\ row' = IF row = NoRow THEN NoRow ELSE [row EXCEPT !.status = "error"]
  /\ turn' = [turn EXCEPT ![t].pc = "failed"]
  /\ UNCHANGED edit

FlipFails(t) ==
  /\ Crashes
  /\ turn[t].pc = "failing"
  /\ turn' = [turn EXCEPT ![t].pc = "lost"]
  /\ UNCHANGED <<row, edit>>

(* The first turn's title lands whenever the model answers; the turn waits  *)
(* for it at most TITLE_GEN_TIMEOUT_MS.                                     *)
TitleLands(t) ==
  /\ turn[t].titling
  /\ row' = IF row = NoRow THEN NoRow ELSE [row EXCEPT !.title = "authored"]
  /\ turn' = [turn EXCEPT ![t].titling = FALSE]
  /\ UNCHANGED edit

NoTitle(t) ==
  /\ turn[t].titling
  /\ turn' = [turn EXCEPT ![t].titling = FALSE]
  /\ UNCHANGED <<row, edit>>

(* The turn settles and starts its compaction if there is anything to do.   *)
Settle(t) ==
  /\ turn[t].pc = "answered"
  /\ \/ Compactions /\ turn' = [turn EXCEPT ![t].pc = "compacting"]
     \/ turn' = [turn EXCEPT ![t].pc = "done"]
  /\ UNCHANGED <<row, edit>>

(* compactAndSave: the turn's own context, now with summaries, is saved. *)
CompactAndSave(t) ==
  /\ turn[t].pc = "compacting"
  /\ LET blob == [turn[t].blob EXCEPT !.summarized = @ \cup {t}]
     IN /\ row' = SaveSession(turn[t].agent, blob)
        /\ turn' = [turn EXCEPT ![t].pc = "done", ![t].blob = blob]
  /\ UNCHANGED edit

CompactionFails(t) ==
  /\ turn[t].pc = "compacting"
  /\ turn' = [turn EXCEPT ![t].pc = "done"]
  /\ UNCHANGED <<row, edit>>

-----------------------------------------------------------------------------
(* The stash route: load the context, hide a turn's result, save it. *)
EditLoads ==
  /\ Edits
  /\ edit = NoBlob
  /\ row # NoRow
  /\ \E n \in DOMAIN row.blob.log :
       LET t == row.blob.log[n]
       IN edit' = [agent |-> row.agent,
                   blob  |-> [row.blob EXCEPT !.hidden = IF t \in @ THEN @ \ {t} ELSE @ \cup {t}]]
  /\ UNCHANGED <<row, turn>>

EditSaves ==
  /\ edit # NoBlob
  /\ row' = SaveSession(edit.agent, edit.blob)
  /\ edit' = NoBlob
  /\ UNCHANGED turn

DeleteConversation ==
  /\ Deletions
  /\ row # NoRow
  /\ row' = NoRow
  /\ UNCHANGED <<turn, edit>>

Promote ==
  /\ row # NoRow
  /\ row.kind = "action"
  /\ row' = [row EXCEPT !.kind = "conversation"]
  /\ UNCHANGED <<turn, edit>>

(* The title button: a model-authored title over whatever is there. *)
Retitle ==
  /\ row # NoRow
  /\ row.title # "authored"
  /\ row' = [row EXCEPT !.title = "authored"]
  /\ UNCHANGED <<turn, edit>>

(* The reaper.  Its threshold is longer than any turn, so it only meets     *)
(* rows whose turn, the one that seeded them, is gone.                      *)
Seeder == row.blob.log[1]

ReapPaused ==   (* mutant: the wrong status is swept *)
  /\ row # NoRow
  /\ row.status = "paused"
  /\ Seeder \notin InProgress
  /\ row' = [row EXCEPT !.status = "error"]
  /\ UNCHANGED <<turn, edit>>

Reap ==
  /\ row # NoRow
  /\ row.status = "running"
  /\ Seeder \notin InProgress
  /\ row' = [row EXCEPT !.status = "error"]
  /\ UNCHANGED <<turn, edit>>

(* The server restarts: whatever was going on in it is gone. *)
Restart ==
  /\ Crashes
  /\ turn' = [t \in Turns |->
       [turn[t] EXCEPT !.pc = IF t \in InProgress THEN "lost"
                              ELSE IF @ \in {"answered", "compacting"} THEN "done" ELSE @,
                       !.titling = FALSE]]
  /\ edit' = NoBlob
  /\ UNCHANGED row

Start(t) == LoadApproval(t) \/ LoadInteractive(t) \/ Trigger(t)

Advance(t) ==
  \/ Seed(t) \/ SeedFails(t) \/ RunReturns(t) \/ Throws(t) \/ SaveTurn(t)
  \/ FlipToError(t) \/ FlipFails(t) \/ Settle(t)

Trail(t) == TitleLands(t) \/ NoTitle(t) \/ CompactAndSave(t) \/ CompactionFails(t)

TurnsNext ==
  \/ \E t \in Turns : Start(t) \/ Advance(t) \/ Trail(t)
  \/ EditLoads \/ EditSaves
  \/ DeleteConversation \/ Promote \/ Retitle \/ Reap \/ Restart

(* Every await of a turn has a time limit, and the sweep that reaps runs on *)
(* a timer.  Nobody is obliged to start, edit or delete anything.           *)
TurnsFairness == (\A t \in Turns : WF_turnVars(Advance(t))) /\ WF_turnVars(Reap)

TurnsSpec == TurnsInit /\ [][TurnsNext]_turnVars /\ TurnsFairness

-----------------------------------------------------------------------------
TurnSteps == {"new", "rejected", "seeding", "running", "saving", "failing", "failed", "lost",
        "answered", "compacting", "done"}

Row == [status : {"running", "paused", "done", "error"}, kind : {"conversation", "action"},
        title : {"derived", "authored"}, agent : TurnAgents, blob : Blob]

TurnsTypeOK ==
  /\ row = NoRow \/ row \in Row
  /\ \A t \in Turns :
       /\ turn[t].pc \in TurnSteps /\ turn[t].mode \in Modes /\ turn[t].agent \in TurnAgents
       /\ turn[t].blob = NoBlob \/ turn[t].blob \in Blob
       /\ turn[t].titling \in BOOLEAN
  /\ edit = NoBlob \/ edit \in [agent : TurnAgents, blob : Blob]

(* "so no row spins forever": without a restart or a lost write, a row that *)
(* says running has a turn that will take it out of that state, the one     *)
(* that seeded it, however turns, edits, compactions and deletions overlap. *)
RunningHasTurn == TurnsTypeOK /\ ((row # NoRow /\ row.status = "running") => Seeder \in InProgress)

(* And with them, the reaper sees to it. *)
RunningSettles ==
  (row # NoRow /\ row.status = "running") ~> (row = NoRow \/ row.status # "running")

(* "one append-only event log per session": while its agent stays the same  *)
(* a conversation only gains turns.                                         *)
LogAppendOnly ==
  [][(row # NoRow /\ row' # NoRow /\ row'.agent = row.agent)
       => IsPrefix(row.blob.log, row'.blob.log)]_turnVars

(* A title someone authored is never replaced by one derived from the first *)
(* message, whichever save comes last.                                      *)
TitleKept ==
  [][(row # NoRow /\ row' # NoRow /\ row.title = "authored") => row'.title = "authored"]_turnVars

(* "an existing action stays an action" until it is promoted, and a promoted *)
(* one is never demoted by a save still under way.                           *)
KindKept ==
  [][(row # NoRow /\ row' # NoRow /\ row'.kind # row.kind)
       => row.kind = "action" /\ row' = [row EXCEPT !.kind = "conversation"]]_turnVars

(* What a person set on the row survives the saves of turns that loaded it  *)
(* before: the upserts of overlapping turns undo no title and no promotion.  *)
RowKept == TitleKept /\ KindKept

(* A stop at an approval gate is answered once: an approval that resumed it *)
(* and ended, well or not, is the last, unless a crash lost how it ended.    *)
(* So a stale tab never makes the gated action run again.  (Two approvals    *)
(* that both load the row before either has saved it do: see the README.)    *)
Resumed(t) == turn[t].mode = "approval" /\ turn[t].blob # NoBlob /\ turn[t].pc # "lost"

ApprovedOnce ==
  \A t, u \in {t \in Turns : Resumed(t)} :
    t # u => Front(turn[t].blob.log) # Front(turn[u].blob.log)
=============================================================================
