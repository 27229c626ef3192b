------------------------ MODULE ConversationProofs ------------------------
(* Proofs about a conversation as it is stored, listed and shown: its row,   *)
(* the list a tab shows of all rows, what the tab holds of the conversations *)
(* it has open or running, and the transcript it makes of a turn's stream.   *)
EXTENDS ConversationTurns, ThreadList, BrowserSessions, TurnStream, SequenceTheorems,
        WellFoundedInduction, TLAPS

(* The row of a conversation, for any turns and agents: it says running only *)
(* while the turn that made it say so is there to end it; what a person set  *)
(* on it survives every save; and turns that wait for one another only add   *)
(* to its log, and answer a stop at an approval gate once.                   *)

TurnRecord == [pc : TurnSteps, mode : Modes, agent : TurnAgents, blob : Blob \cup {NoBlob},
               titling : BOOLEAN]

Loaded(t) == turn[t].pc \in {"seeding", "running", "saving", "answered", "compacting"}

(* Every step that writes a context has one.                                 *)
TypeInv ==
  /\ row \in Row \cup {NoRow}
  /\ turn \in [Turns -> TurnRecord]
  /\ edit \in [agent : TurnAgents, blob : Blob] \cup {NoBlob}
  /\ \A t \in Turns : Loaded(t) => turn[t].blob \in Blob

(* A triggered run, whose row is its own, meets no other row.                *)
FirstMakesRow == (\A t \in Turns : turn[t].pc = "new") => row = NoRow /\ edit = NoBlob

(* The turn whose seed the row holds is past that seed, so it ends with a    *)
(* write of its own.                                                         *)
SeederRuns ==
  row # NoRow /\ row.status = "running" =>
    \E t \in Turns : t = Seeder /\ turn[t].pc \in {"running", "saving", "failing"}

(* What a turn seeds and what it appends to a context is a context.           *)
LEMMA BlobTypes ==
  ASSUME NEW t \in Turns
  PROVE  /\ NewBlob(t) \in Blob
         /\ \A b \in Blob : Extend(b, t) \in Blob
<1>1. <<t>> \in Seq(Turns) /\ \A l \in Seq(Turns) : Append(l, t) \in Seq(Turns)
  OBVIOUS
<1>2. NewBlob(t) \in Blob
  BY <1>1 DEF NewBlob, Blob
<1>3. ASSUME NEW b \in Blob PROVE Extend(b, t) \in Blob
  BY <1>1, <1>3 DEF Extend, Blob
<1> QED
  BY <1>2, <1>3

(* A save ends the turn: its row is not running, and keeps title and kind.    *)
LEMMA SaveTypes ==
  ASSUME TypeInv, NEW a \in TurnAgents, NEW b \in Blob
  PROVE  /\ SaveSession(a, b) \in Row
         /\ SaveSession(a, b).status # "running"
         /\ SaveSession(a, b).agent = a
         /\ SaveSession(a, b).blob = b
         /\ row # NoRow => /\ SaveSession(a, b).kind = row.kind
                           /\ SaveSession(a, b).title = row.title
<1>1. Lifted(b) \in {"paused", "error", "done"}
  BY DEF Lifted
<1> QED
  BY <1>1 DEF SaveSession, Upsert, Row, TypeInv

(* Nothing is stored or under way at the start.                               *)
LEMMA InitTypes == TurnsInit => TypeInv /\ FirstMakesRow /\ SeederRuns
<1> SUFFICES ASSUME TurnsInit PROVE TypeInv /\ FirstMakesRow /\ SeederRuns
  OBVIOUS
<1>1. (CHOOSE a \in TurnAgents : TRUE) \in TurnAgents
  BY TurnsAssumption
<1>2. Unborn \in TurnRecord
  BY <1>1 DEF Unborn, TurnRecord, TurnSteps, Modes
<1> QED
  BY <1>2 DEF TurnsInit, TypeInv, FirstMakesRow, SeederRuns, Loaded, Unborn

(* A turn that moves to a record of its type keeps the turns typed.          *)
LEMMA PutTyped ==
  ASSUME TypeInv, NEW t \in Turns, NEW r \in TurnRecord, turn' = [turn EXCEPT ![t] = r],
         r.pc \in {"seeding", "running", "saving", "answered", "compacting"} => r.blob \in Blob
  PROVE  /\ turn' \in [Turns -> TurnRecord]
         /\ \A u \in Turns : Loaded(u)' => turn'[u].blob \in Blob
BY DEF TypeInv, Loaded

(* A step of one turn leaves the others, and keeps its own record typed.     *)
LEMMA TurnTyped ==
  ASSUME TypeInv, NEW t \in Turns, Start(t) \/ Advance(t) \/ Trail(t)
  PROVE  /\ turn' \in [Turns -> TurnRecord]
         /\ \A u \in Turns : Loaded(u)' => turn'[u].blob \in Blob
<1> DEFINE Goal == /\ turn' \in [Turns -> TurnRecord]
                   /\ \A u \in Turns : Loaded(u)' => turn'[u].blob \in Blob
           Had == turn[t].pc \in {"seeding", "running", "saving", "answered", "compacting"}
<1>0. turn[t] \in TurnRecord /\ (Had => turn[t].blob \in Blob)
  BY DEF TypeInv, Loaded
(* The moves that only change the step, to one that needs no new context.    *)
<1>1. ASSUME NEW s \in TurnSteps, turn' = [turn EXCEPT ![t].pc = s],
             Had \/ s \notin {"seeding", "running", "saving", "answered", "compacting"}
      PROVE  Goal
  <2>1. [turn[t] EXCEPT !.pc = s] \in TurnRecord
    BY <1>0 DEF TurnRecord
  <2>2. turn' = [turn EXCEPT ![t] = [turn[t] EXCEPT !.pc = s]]
    BY <1>1 DEF TypeInv
  <2>3. [turn[t] EXCEPT !.pc = s].pc = s /\ [turn[t] EXCEPT !.pc = s].blob = turn[t].blob
    BY <1>0 DEF TurnRecord
  <2> QED
    BY <1>0, <1>1, <2>1, <2>2, <2>3, PutTyped
<1>2. CASE LoadApproval(t)
  <2> DEFINE r == IF row = NoRow \/ row.status # "paused"
                  THEN [turn[t] EXCEPT !.pc = "rejected", !.mode = "approval"]
                  ELSE [turn[t] EXCEPT !.pc = "running", !.mode = "approval", !.agent = row.agent,
                                       !.blob = Extend(row.blob, t)]
  <2>1. turn' = [turn EXCEPT ![t] = r]
    BY <1>2 DEF LoadApproval
  <2>2. CASE row = NoRow \/ row.status # "paused"
    <3>1. r = [turn[t] EXCEPT !.pc = "rejected", !.mode = "approval"]
      BY <2>2
    <3>2. r \in TurnRecord /\ r.pc = "rejected"
      BY <1>0, <3>1 DEF TurnRecord, TurnSteps, Modes
    <3> QED
      BY <2>1, <3>2, PutTyped
  <2>3. CASE ~(row = NoRow \/ row.status # "paused")
    <3>1. row.agent \in TurnAgents /\ Extend(row.blob, t) \in Blob
      BY <2>3, BlobTypes DEF Row, TypeInv
    <3>2. r = [turn[t] EXCEPT !.pc = "running", !.mode = "approval", !.agent = row.agent,
                              !.blob = Extend(row.blob, t)]
      BY <2>3
    <3>3. r \in TurnRecord /\ r.blob \in Blob
      BY <1>0, <3>1, <3>2 DEF TurnRecord, TurnSteps, Modes
    <3> QED
      BY <2>1, <3>3, PutTyped
  <2> QED
    BY <2>2, <2>3
<1>3. CASE LoadInteractive(t)
  <2>1. PICK a \in TurnAgents : LoadInteractive(t)!2!(a)
    BY <1>3 DEF LoadInteractive
  <2> DEFINE b == IF row # NoRow /\ row.agent = a THEN Extend(row.blob, t) ELSE NewBlob(t)
             s == IF row = NoRow THEN "seeding" ELSE "running"
             r == [turn[t] EXCEPT !.agent = a, !.pc = s, !.blob = b]
  <2>2. b \in Blob /\ s \in TurnSteps
    BY BlobTypes DEF Row, TypeInv, TurnSteps
  <2>3. turn' = [turn EXCEPT ![t] = r]
    BY <2>1
  <2> HIDE DEF b, s
  <2>4. r \in TurnRecord /\ r.blob \in Blob
    BY <1>0, <2>2 DEF TurnRecord
  <2> QED
    BY <2>3, <2>4, PutTyped
<1>4. CASE Trigger(t)
  <2>1. PICK a \in TurnAgents :
          turn' = [turn EXCEPT ![t] = [turn[t] EXCEPT !.pc = "running", !.mode = "triggered",
                                                      !.agent = a, !.blob = NewBlob(t)]]
    BY <1>4 DEF Trigger
  <2> DEFINE r == [turn[t] EXCEPT !.pc = "running", !.mode = "triggered", !.agent = a, !.blob = NewBlob(t)]
  <2>2. r \in TurnRecord /\ r.blob \in Blob
    BY <1>0, BlobTypes DEF TurnRecord, TurnSteps, Modes
  <2> QED
    BY <2>1, <2>2, PutTyped
<1>5. CASE Seed(t) \/ SeedFails(t) \/ Throws(t) \/ FlipToError(t) \/ FlipFails(t) \/ Settle(t) \/ CompactionFails(t)
  BY <1>1, <1>5 DEF Seed, SeedFails, Throws, FlipToError, FlipFails, Settle, CompactionFails, TurnSteps
<1>6. CASE RunReturns(t)
  <2>1. PICK s \in {"running", "paused", "error"} :
          turn' = [turn EXCEPT ![t].pc = "saving", ![t].blob.status = s]
    BY <1>6 DEF RunReturns
  <2> DEFINE b == [turn[t].blob EXCEPT !.status = s]
             r == [turn[t] EXCEPT !.pc = "saving", !.blob = b]
  <2>2. b \in Blob
    BY <1>0, <1>6 DEF RunReturns, Blob
  <2>3. turn' = [turn EXCEPT ![t] = r]
    BY <1>0, <2>1 DEF TypeInv, TurnRecord
  <2> HIDE DEF b
  <2>4. r \in TurnRecord /\ r.blob \in Blob
    BY <1>0, <2>2 DEF TurnRecord, TurnSteps
  <2> QED
    BY <2>3, <2>4, PutTyped
<1>7. CASE SaveTurn(t)
  <2> DEFINE w == turn[t].mode = "interactive" /\ Len(turn[t].blob.log) = 1
             r == [turn[t] EXCEPT !.pc = "answered", !.titling = w]
  <2>1. w \in BOOLEAN
    OBVIOUS
  <2>2. turn' = [turn EXCEPT ![t] = r]
    BY <1>0, <1>7 DEF TypeInv, TurnRecord, SaveTurn
  <2> HIDE DEF w
  <2>3. r \in TurnRecord /\ r.blob \in Blob
    BY <1>0, <1>7, <2>1 DEF TurnRecord, TurnSteps, SaveTurn
  <2> QED
    BY <2>2, <2>3, PutTyped
<1>8. CASE TitleLands(t) \/ NoTitle(t)
  <2> DEFINE r == [turn[t] EXCEPT !.titling = FALSE]
  <2>1. turn' = [turn EXCEPT ![t] = r]
    BY <1>8 DEF TitleLands, NoTitle, TypeInv
  <2>2. r \in TurnRecord /\ r.pc = turn[t].pc /\ r.blob = turn[t].blob
    BY <1>0 DEF TurnRecord
  <2> QED
    BY <1>0, <2>1, <2>2, PutTyped
<1>9. CASE CompactAndSave(t)
  <2> DEFINE b == [turn[t].blob EXCEPT !.summarized = @ \cup {t}]
             r == [turn[t] EXCEPT !.pc = "done", !.blob = b]
  <2>1. b \in Blob
    BY <1>0, <1>9 DEF CompactAndSave, Blob
  <2>2. turn' = [turn EXCEPT ![t] = r]
    BY <1>9 DEF CompactAndSave, TypeInv
  <2> HIDE DEF b
  <2>3. r \in TurnRecord /\ r.blob \in Blob
    BY <1>0, <2>1 DEF TurnRecord, TurnSteps
  <2> QED
    BY <2>2, <2>3, PutTyped
<1> QED
  BY <1>2, <1>3, <1>4, <1>5, <1>6, <1>7, <1>8, <1>9 DEF Start, Advance, Trail

(* Whatever writes the row writes a row.                                     *)
LEMMA RowTyped ==
  ASSUME TypeInv, [TurnsNext]_turnVars
  PROVE  row' \in Row \cup {NoRow}
<1> USE DEF TypeInv
<1>1. CASE row' \in {row, NoRow}
  BY <1>1
<1>2. ASSUME NEW t \in Turns, Seed(t) PROVE row' \in Row
  <2>1. turn[t].agent \in TurnAgents /\ NewBlob(t) \in Blob
    BY BlobTypes DEF TurnRecord
  <2> QED
    BY <1>2, <2>1 DEF Seed, Upsert, Row
<1>3. ASSUME NEW t \in Turns, Trigger(t) PROVE row' \in Row
  BY <1>3, BlobTypes DEF Trigger, Upsert, Row
<1>4. ASSUME NEW t \in Turns, SaveTurn(t) PROVE row' \in Row
  <2>1. turn[t].agent \in TurnAgents /\ turn[t].blob \in Blob
    BY <1>4 DEF TurnRecord, SaveTurn, Loaded
  <2> QED
    BY <1>4, <2>1, SaveTypes DEF SaveTurn
<1>5. ASSUME NEW t \in Turns, CompactAndSave(t) PROVE row' \in Row
  <2>1. turn[t].agent \in TurnAgents /\ [turn[t].blob EXCEPT !.summarized = @ \cup {t}] \in Blob
    BY <1>5 DEF TurnRecord, CompactAndSave, Loaded, Blob
  <2> QED
    BY <1>5, <2>1, SaveTypes DEF CompactAndSave
<1>6. CASE EditSaves
  BY <1>6, SaveTypes DEF EditSaves
<1>7. ASSUME NEW t \in Turns, FlipToError(t) \/ TitleLands(t) PROVE row' \in Row \cup {NoRow}
  BY <1>7 DEF FlipToError, TitleLands, Row
<1>8. CASE Promote \/ Retitle \/ Reap
  BY <1>8 DEF Promote, Retitle, Reap, Row
<1>9. CASE UNCHANGED turnVars
  BY <1>1, <1>9 DEF turnVars
<1> QED
  BY <1>1, <1>2, <1>3, <1>4, <1>5, <1>6, <1>7, <1>8, <1>9 DEF TurnsNext, Start, Advance, Trail,
     LoadApproval, LoadInteractive, SeedFails, RunReturns, Throws, FlipFails, Settle, NoTitle,
     CompactionFails, EditLoads, DeleteConversation, Restart

(* A restart loses the turns under way, and types nothing anew.              *)
LEMMA RestartTyped ==
  ASSUME TypeInv, Restart
  PROVE  /\ turn' \in [Turns -> TurnRecord]
         /\ \A u \in Turns :
              /\ turn'[u].pc \in {turn[u].pc, "lost", "done"}
              /\ turn'[u].pc = "new" <=> turn[u].pc = "new"
              /\ turn'[u].blob = turn[u].blob
<1> DEFINE pc(u) == IF u \in InProgress THEN "lost"
                    ELSE IF turn[u].pc \in {"answered", "compacting"} THEN "done" ELSE turn[u].pc
           r(u) == [turn[u] EXCEPT !.pc = pc(u), !.titling = FALSE]
<1>1. turn' = [u \in Turns |-> r(u)]
  BY DEF Restart, TypeInv, TurnRecord
<1>2. ASSUME NEW u \in Turns
      PROVE  /\ pc(u) \in {turn[u].pc, "lost", "done"}
             /\ pc(u) \in TurnSteps
             /\ pc(u) = "new" <=> turn[u].pc = "new"
  BY DEF TypeInv, TurnRecord, TurnSteps, InProgress
<1> HIDE DEF pc
<1>3. ASSUME NEW u \in Turns PROVE r(u) \in TurnRecord /\ r(u).pc = pc(u) /\ r(u).blob = turn[u].blob
  BY <1>2 DEF TypeInv, TurnRecord
<1> QED
  BY <1>1, <1>2, <1>3

(* Every step keeps the row, the turns and the copies well formed.            *)
LEMMA TypeStep == TypeInv /\ [TurnsNext]_turnVars => TypeInv'
<1> SUFFICES ASSUME TypeInv, [TurnsNext]_turnVars PROVE TypeInv'
  OBVIOUS
<1>1. row' \in Row \cup {NoRow}
  BY RowTyped
<1>2. ASSUME NEW t \in Turns, Start(t) \/ Advance(t) \/ Trail(t) PROVE TypeInv'
  <2>1. edit' = edit
    BY <1>2 DEF Start, Advance, Trail, LoadApproval, LoadInteractive, Trigger, Seed, SeedFails, RunReturns,
       Throws, SaveTurn, FlipToError, FlipFails, Settle, TitleLands, NoTitle, CompactAndSave, CompactionFails
  <2> QED
    BY <1>1, <1>2, <2>1, TurnTyped DEF TypeInv
<1>3. CASE EditLoads
  <2>1. PICK n \in DOMAIN row.blob.log : EditLoads!4!(n)
    BY <1>3 DEF EditLoads
  <2>2. row \in Row /\ row.blob.log[n] \in Turns
    BY <1>3 DEF EditLoads, TypeInv, Row, Blob
  <2> DEFINE t == row.blob.log[n]
             h == IF t \in row.blob.hidden THEN row.blob.hidden \ {t} ELSE row.blob.hidden \cup {t}
             b == [row.blob EXCEPT !.hidden = h]
  <2>3. edit' = [agent |-> row.agent, blob |-> b]
    BY <2>1
  <2>4. h \in SUBSET Turns
    BY <2>2 DEF Row, Blob
  <2> HIDE DEF h
  <2>5. b \in Blob /\ row.agent \in TurnAgents
    BY <2>2, <2>4 DEF Row, Blob
  <2>6. edit' \in [agent : TurnAgents, blob : Blob]
    BY <2>3, <2>5
  <2> QED
    BY <1>1, <1>3, <2>6 DEF EditLoads, TypeInv, Loaded
<1>4. CASE EditSaves \/ DeleteConversation \/ Promote \/ Retitle \/ Reap \/ UNCHANGED turnVars
  BY <1>1, <1>4 DEF EditSaves, DeleteConversation, Promote, Retitle, Reap, turnVars, TypeInv, Loaded
<1>5. CASE Restart
  <2>1. \A u \in Turns : Loaded(u)' => Loaded(u) /\ turn'[u].blob = turn[u].blob
    <3> SUFFICES ASSUME NEW u \in Turns, Loaded(u)' PROVE Loaded(u) /\ turn'[u].blob = turn[u].blob
      OBVIOUS
    <3>1. turn'[u].pc \in {turn[u].pc, "lost", "done"} /\ turn'[u].blob = turn[u].blob
      BY <1>5, RestartTyped
    <3> QED
      BY <3>1 DEF Loaded
  <2> QED
    BY <1>1, <1>5, <2>1, RestartTyped DEF Restart, TypeInv
<1> QED
  BY <1>2, <1>3, <1>4, <1>5 DEF TurnsNext

(* The row does not come before the first turn does.                          *)
LEMMA FirstStep == TypeInv /\ FirstMakesRow /\ [TurnsNext]_turnVars => FirstMakesRow'
<1> SUFFICES ASSUME TypeInv, FirstMakesRow, [TurnsNext]_turnVars, \A u \in Turns : turn'[u].pc = "new"
             PROVE  row' = NoRow /\ edit' = NoBlob
  BY DEF FirstMakesRow
<1> USE DEF TypeInv, TurnRecord
<1>1. ASSUME NEW t \in Turns, Start(t) \/ Advance(t) \/ Trail(t) PROVE row' = NoRow /\ edit' = NoBlob
  <2>1. CASE TitleLands(t) \/ NoTitle(t)
    BY <2>1 DEF TitleLands, NoTitle, FirstMakesRow
  <2>2. CASE ~(TitleLands(t) \/ NoTitle(t))
    <3>1. CASE LoadApproval(t)
      BY <3>1 DEF LoadApproval
    <3>2. CASE LoadInteractive(t)
      BY <3>2 DEF LoadInteractive
    <3>3. CASE Trigger(t)
      BY <3>3 DEF Trigger
    <3>4. CASE RunReturns(t)
      BY <3>4 DEF RunReturns
    <3> QED
      BY <1>1, <2>2, <3>1, <3>2, <3>3, <3>4 DEF Start, Advance, Trail, Seed, SeedFails, Throws, SaveTurn,
         FlipToError, FlipFails, Settle, CompactAndSave, CompactionFails
  <2> QED
    BY <2>1, <2>2
<1>2. CASE Restart
  BY <1>2, RestartTyped DEF Restart, FirstMakesRow
<1>3. CASE EditLoads \/ EditSaves \/ DeleteConversation \/ Promote \/ Retitle \/ Reap \/ UNCHANGED turnVars
  BY <1>3 DEF EditLoads, EditSaves, DeleteConversation, Promote, Retitle, Reap, turnVars, FirstMakesRow
<1> QED
  BY <1>1, <1>2, <1>3 DEF TurnsNext

(* Without restarts and lost writes nothing takes a running row away from    *)
(* the turn that owes it an end.                                             *)
LEMMA SeederStep ==
  ASSUME ~Crashes
  PROVE  TypeInv /\ SeederRuns /\ [TurnsNext]_turnVars => SeederRuns'
<1> SUFFICES ASSUME TypeInv, SeederRuns, [TurnsNext]_turnVars, row' # NoRow, row'.status = "running"
             PROVE  \E t \in Turns : t = Seeder' /\ turn'[t].pc \in {"running", "saving", "failing"}
  BY DEF SeederRuns
<1> USE DEF TypeInv
(* A row that was there before has its seeder still: no step of a turn past  *)
(* its seed ends it without taking the row off running.                      *)
<1>1. ASSUME row # NoRow, row.status = "running", Seeder' = Seeder,
             \A t \in Turns : turn[t].pc \in {"running", "saving", "failing"} =>
               turn'[t].pc \in {"running", "saving", "failing"}
      PROVE  \E t \in Turns : t = Seeder' /\ turn'[t].pc \in {"running", "saving", "failing"}
  BY <1>1 DEF SeederRuns
<1>2. ASSUME NEW t \in Turns, Seed(t) \/ Trigger(t)
      PROVE  \E u \in Turns : u = Seeder' /\ turn'[u].pc \in {"running", "saving", "failing"}
  <2>1. row'.blob = NewBlob(t)
    <3>1. \E o \in {row, NoRow}, k \in {"conversation", "action"}, a \in {turn[t].agent} \cup TurnAgents :
            row' = Upsert(o, "running", k, a, NewBlob(t))
      BY <1>2 DEF Seed, Trigger
    <3> QED
      BY <3>1 DEF Upsert
  <2>2. turn'[t].pc = "running"
    BY <1>2 DEF Seed, Trigger, TurnRecord
  <2> QED
    BY <2>1, <2>2 DEF Seeder, NewBlob
<1>3. ASSUME NEW t \in Turns, SaveTurn(t) PROVE FALSE
  <2>1. turn[t].agent \in TurnAgents /\ turn[t].blob \in Blob
    BY <1>3 DEF TurnRecord, SaveTurn, Loaded
  <2> QED
    BY <1>3, <2>1, SaveTypes DEF SaveTurn
<1>4. ASSUME NEW t \in Turns, CompactAndSave(t) PROVE FALSE
  <2>1. turn[t].agent \in TurnAgents /\ [turn[t].blob EXCEPT !.summarized = @ \cup {t}] \in Blob
    BY <1>4 DEF TurnRecord, CompactAndSave, Loaded, Blob
  <2> QED
    BY <1>4, <2>1, SaveTypes DEF CompactAndSave
<1>5. CASE EditSaves
  BY <1>5, SaveTypes DEF EditSaves
<1>6. ASSUME NEW t \in Turns, FlipToError(t) PROVE FALSE
  BY <1>6 DEF FlipToError, Row
<1>7. ASSUME NEW t \in Turns, TitleLands(t)
      PROVE  \E u \in Turns : u = Seeder' /\ turn'[u].pc \in {"running", "saving", "failing"}
  <2>1. row # NoRow /\ row.status = "running" /\ Seeder' = Seeder
    BY <1>7 DEF TitleLands, Row, Seeder
  <2>2. \A u \in Turns : turn'[u].pc = turn[u].pc
    BY <1>7 DEF TitleLands, TurnRecord
  <2> QED
    BY <1>1, <2>1, <2>2
<1>8. ASSUME NEW t \in Turns, LoadApproval(t) \/ LoadInteractive(t) \/ SeedFails(t) \/ RunReturns(t)
             \/ Throws(t) \/ Settle(t) \/ NoTitle(t) \/ CompactionFails(t)
      PROVE  \E u \in Turns : u = Seeder' /\ turn'[u].pc \in {"running", "saving", "failing"}
  <2>1. row' = row
    BY <1>8 DEF LoadApproval, LoadInteractive, SeedFails, RunReturns, Throws, Settle, NoTitle, CompactionFails
  <2>2. ASSUME NEW u \in Turns, turn[u].pc \in {"running", "saving", "failing"}
        PROVE  turn'[u].pc \in {"running", "saving", "failing"}
    <3>1. CASE u # t
      <4>1. turn'[u] = turn[u]
        <5>1. CASE LoadInteractive(t)
          BY <3>1, <5>1 DEF LoadInteractive
        <5>2. CASE RunReturns(t)
          BY <3>1, <5>2 DEF RunReturns
        <5>3. CASE LoadApproval(t)
          BY <3>1, <5>3 DEF LoadApproval
        <5> QED
          BY <1>8, <3>1, <5>1, <5>2, <5>3 DEF SeedFails, Throws, Settle, NoTitle, CompactionFails
      <4> QED
        BY <2>2, <4>1
    <3>2. CASE u = t
      <4>1. CASE LoadApproval(t) \/ LoadInteractive(t) \/ SeedFails(t) \/ Settle(t) \/ CompactionFails(t)
        BY <2>2, <3>2, <4>1 DEF LoadApproval, LoadInteractive, SeedFails, Settle, CompactionFails, MayStart
      <4>2. CASE Throws(t) \/ RunReturns(t) \/ NoTitle(t)
        BY <2>2, <3>2, <4>2 DEF Throws, RunReturns, NoTitle, TurnRecord
      <4> QED
        BY <1>8, <4>1, <4>2
    <3> QED
      BY <3>1, <3>2
  <2> QED
    BY <1>1, <2>1, <2>2 DEF Seeder
<1>9. CASE EditLoads \/ Promote \/ Retitle \/ UNCHANGED turnVars
  <2>1. turn' = turn /\ row # NoRow /\ row.status = "running" /\ Seeder' = Seeder
    BY <1>9 DEF EditLoads, Promote, Retitle, turnVars, Row, Seeder
  <2> QED
    BY <1>1, <2>1
<1>10. CASE DeleteConversation \/ Reap \/ Restart
  BY <1>10 DEF DeleteConversation, Reap, Restart, Row
<1> QED
  BY <1>2, <1>3, <1>4, <1>5, <1>6, <1>7, <1>8, <1>9, <1>10 DEF TurnsNext, Start, Advance, Trail, FlipFails

(* Types, and a triggered run that finds no row.                             *)
THEOREM TurnsInvariant == TurnsSpec => [](TypeInv /\ FirstMakesRow)
<1>1. TypeInv /\ FirstMakesRow /\ [TurnsNext]_turnVars => (TypeInv /\ FirstMakesRow)'
  BY TypeStep, FirstStep
<1> QED
  BY <1>1, InitTypes, PTL DEF TurnsSpec

(* No row spins for ever: while it says running, the turn that seeded it is  *)
(* there to take it off, however turns, edits and deletions overlap.         *)
THEOREM RunningIsOwed == ASSUME ~Crashes PROVE TurnsSpec => []RunningHasTurn
<1>1. TypeInv /\ SeederRuns => RunningHasTurn
  <2> SUFFICES ASSUME TypeInv, SeederRuns PROVE RunningHasTurn
    OBVIOUS
  <2>1. TurnsTypeOK
    BY DEF TypeInv, TurnsTypeOK, TurnRecord
  <2>2. row # NoRow /\ row.status = "running" => Seeder \in InProgress
    BY DEF SeederRuns, InProgress
  <2> QED
    BY <2>1, <2>2 DEF RunningHasTurn
<1>2. TurnsInit => SeederRuns
  BY InitTypes
<1> QED
  BY <1>1, <1>2, SeederStep, TurnsInvariant, PTL DEF TurnsSpec

(* What a step may do to a row that stays: the saves keep title and kind.    *)
KeepsRow == row # NoRow /\ row' # NoRow =>
  /\ row.title = "authored" => row'.title = "authored"
  /\ \/ row'.kind = row.kind
     \/ row.kind = "action" /\ row' = [row EXCEPT !.kind = "conversation"]

(* Every save, and every direct write, keeps what KeepsRow says.              *)
LEMMA KeepStep == TypeInv /\ FirstMakesRow /\ [TurnsNext]_turnVars => KeepsRow
<1> SUFFICES ASSUME TypeInv, FirstMakesRow, [TurnsNext]_turnVars, row # NoRow, row' # NoRow
             PROVE  KeepsRow
  BY DEF KeepsRow
<1> USE DEF TypeInv, KeepsRow
<1>1. ASSUME NEW s, NEW k, NEW a, NEW b, row' = Upsert(row, s, k, a, b) PROVE KeepsRow
  BY <1>1 DEF Upsert
<1>2. ASSUME NEW t \in Turns, Seed(t) \/ SaveTurn(t) \/ CompactAndSave(t) PROVE KeepsRow
  BY <1>1, <1>2 DEF Seed, SaveTurn, CompactAndSave, SaveSession
<1>3. ASSUME NEW t \in Turns, Trigger(t) PROVE FALSE
  BY <1>3 DEF Trigger, FirstMakesRow
<1>4. ASSUME NEW t \in Turns, FlipToError(t) \/ TitleLands(t) PROVE KeepsRow
  BY <1>4 DEF FlipToError, TitleLands, Row
<1>5. CASE EditSaves
  BY <1>1, <1>5 DEF EditSaves, SaveSession
<1>6. CASE Promote \/ Retitle \/ Reap
  BY <1>6 DEF Promote, Retitle, Reap, Row
<1>7. CASE UNCHANGED row
  BY <1>7
<1> QED
  BY <1>2, <1>3, <1>4, <1>5, <1>6, <1>7 DEF TurnsNext, Start, Advance, Trail, LoadApproval, LoadInteractive,
     SeedFails, RunReturns, Throws, FlipFails, Settle, NoTitle, CompactionFails, EditLoads,
     DeleteConversation, Restart, turnVars

(* No save under way undoes a title or a promotion, whatever overlaps.       *)
THEOREM SavesKeepTheRow == TurnsSpec => RowKept
<1>1. TypeInv /\ FirstMakesRow /\ [TurnsNext]_turnVars =>
        /\ [(row # NoRow /\ row' # NoRow /\ row.title = "authored") => row'.title = "authored"]_turnVars
        /\ [(row # NoRow /\ row' # NoRow /\ row'.kind # row.kind)
              => row.kind = "action" /\ row' = [row EXCEPT !.kind = "conversation"]]_turnVars
  BY KeepStep DEF KeepsRow
<1> QED
  BY <1>1, TurnsInvariant, PTL DEF TurnsSpec, RowKept, TitleKept, KindKept

------------------------------------------------------------------------------
(* Where turns wait for one another, and nothing else saves a context, one   *)
(* turn is under way, and its context extends the row it loaded, as long as  *)
(* that row is there under the same agent.                                   *)
OneAtATime == \A t, u \in InProgress : t = u

ExtendsRow ==
  \A t \in Turns :
    /\ turn[t].pc = "seeding" => row = NoRow /\ turn[t].blob = NewBlob(t)
    /\ turn[t].pc \in {"running", "saving"} /\ row # NoRow /\ row.agent = turn[t].agent =>
         IsPrefix(row.blob.log, turn[t].blob.log)
    /\ turn[t].pc # "compacting"

LInv == OneAtATime /\ ExtendsRow /\ edit = NoBlob

(* A log is a prefix of itself, and of itself with one more turn.            *)
LEMMA PrefixOfSelf ==
  ASSUME NEW s \in Seq(Turns)
  PROVE  IsPrefix(s, s) /\ \A t \in Turns : IsPrefix(s, Append(s, t))
BY DEF IsPrefix

(* At the start no turn is under way, nor an edit.                            *)
LEMMA InitSequential == TurnsInit => LInv
BY DEF TurnsInit, LInv, OneAtATime, InProgress, ExtendsRow, Unborn

(* A step that keeps the log and the agent of the row, or leaves no row,     *)
(* changes nothing for the turn under way unless it is a step of that turn.  *)
SameLog == row' = NoRow \/ (row # NoRow /\ row'.agent = row.agent /\ row'.blob = row.blob)

GrowsLog == row # NoRow /\ row' # NoRow /\ row'.agent = row.agent => IsPrefix(row.blob.log, row'.blob.log)

(* A step that leaves the log, or leaves no row, takes nothing off it.        *)
LEMMA SameLogGrows == TypeInv /\ SameLog => GrowsLog
BY PrefixOfSelf DEF SameLog, GrowsLog, TypeInv, Row, Blob

(* A step that starts nothing new leaves at most one turn under way.         *)
LEMMA SequentialStep ==
  ASSUME ~Overlap, ~Compactions, ~Edits
  PROVE  TypeInv /\ FirstMakesRow /\ LInv /\ [TurnsNext]_turnVars => LInv' /\ GrowsLog
<1> SUFFICES ASSUME TypeInv, FirstMakesRow, LInv, [TurnsNext]_turnVars PROVE LInv' /\ GrowsLog
  OBVIOUS
<1> USE DEF TypeInv, LInv
<1>1. ASSUME NEW t \in Turns, InProgress = {}, turn'[t].pc # "compacting",
             \A u \in Turns \ {t} : turn'[u] = turn[u],
             turn'[t].pc = "seeding" => row' = NoRow /\ turn'[t].blob = NewBlob(t),
             turn'[t].pc = "running" /\ row' # NoRow /\ row'.agent = turn'[t].agent
               => IsPrefix(row'.blob.log, turn'[t].blob.log),
             turn'[t].pc # "saving", edit' = edit, row = NoRow \/ row' = row
      PROVE  LInv' /\ GrowsLog
  <2>1. \A u \in Turns \ {t} : turn'[u].pc \notin {"seeding", "running", "saving", "failing"}
    BY <1>1 DEF InProgress
  <2>2. OneAtATime'
    BY <2>1 DEF OneAtATime, InProgress
  <2>3. ExtendsRow'
    BY <1>1, <2>1 DEF ExtendsRow
  <2>4. GrowsLog
    BY <1>1, PrefixOfSelf DEF GrowsLog, Row, Blob
  <2> QED
    BY <1>1, <2>2, <2>3, <2>4
<1>2. ASSUME NEW t \in Turns, LoadApproval(t) PROVE LInv' /\ GrowsLog
  <2>1. InProgress = {} /\ row' = row /\ edit' = edit
    BY <1>2 DEF LoadApproval, MayStart
  <2>2. CASE row = NoRow \/ row.status # "paused"
    <3>1. turn' = [turn EXCEPT ![t] = [@ EXCEPT !.pc = "rejected", !.mode = "approval"]]
      BY <1>2, <2>2 DEF LoadApproval
    <3>2. turn'[t].pc = "rejected" /\ \A u \in Turns \ {t} : turn'[u] = turn[u]
      BY <3>1 DEF TurnRecord
    <3> QED
      BY <1>1, <2>1, <3>2
  <2>3. CASE ~(row = NoRow \/ row.status # "paused")
    <3>1. turn' = [turn EXCEPT ![t] = [@ EXCEPT !.pc = "running", !.mode = "approval", !.agent = row.agent,
                                                !.blob = Extend(row.blob, t)]]
      BY <1>2, <2>3 DEF LoadApproval
    <3>2. /\ turn'[t].pc = "running" /\ turn'[t].blob = Extend(row.blob, t)
          /\ \A u \in Turns \ {t} : turn'[u] = turn[u]
      BY <3>1 DEF TurnRecord
    <3>3. IsPrefix(row.blob.log, Extend(row.blob, t).log)
      BY <2>3, PrefixOfSelf DEF Extend, Row, Blob
    <3> QED
      BY <1>1, <2>1, <3>2, <3>3
  <2> QED
    BY <2>2, <2>3
<1>3. ASSUME NEW t \in Turns, LoadInteractive(t) PROVE LInv' /\ GrowsLog
  <2>1. InProgress = {} /\ row' = row /\ edit' = edit
    BY <1>3 DEF LoadInteractive, MayStart
  <2>2. PICK a \in TurnAgents : LoadInteractive(t)!2!(a)
    BY <1>3 DEF LoadInteractive
  <2>3. /\ \A u \in Turns \ {t} : turn'[u] = turn[u]
        /\ turn'[t].agent = a
        /\ turn'[t].pc = (IF row = NoRow THEN "seeding" ELSE "running")
        /\ turn'[t].blob = (IF row # NoRow /\ row.agent = a THEN Extend(row.blob, t) ELSE NewBlob(t))
    BY <2>2 DEF TurnRecord
  <2>4. CASE row = NoRow
    <3>1. turn'[t].pc = "seeding" /\ turn'[t].blob = NewBlob(t)
      BY <2>3, <2>4
    <3> QED
      BY <1>1, <2>1, <2>3, <2>4, <3>1
  <2>5. CASE row # NoRow
    <3>1. turn'[t].pc = "running"
      BY <2>3, <2>5
    <3>2. row.agent = a => IsPrefix(row.blob.log, turn'[t].blob.log)
      BY <2>3, <2>5, PrefixOfSelf DEF Extend, Row, Blob
    <3> QED
      BY <1>1, <2>1, <2>3, <3>1, <3>2
  <2> QED
    BY <2>4, <2>5
<1>4. ASSUME NEW t \in Turns, Trigger(t) PROVE LInv' /\ GrowsLog
  <2>1. PICK a \in TurnAgents : Trigger(t)!2!(a)
    BY <1>4 DEF Trigger
  <2>2. InProgress = {} /\ row = NoRow /\ edit' = edit
    BY <1>4 DEF Trigger, InProgress, FirstMakesRow
  <2>3. /\ turn'[t].pc = "running" /\ turn'[t].blob = NewBlob(t)
        /\ \A u \in Turns \ {t} : turn'[u] = turn[u]
    BY <2>1 DEF TurnRecord
  <2>4. row'.blob = NewBlob(t)
    BY <2>1 DEF Upsert
  <2>5. IsPrefix(row'.blob.log, turn'[t].blob.log)
    BY <2>3, <2>4, PrefixOfSelf, BlobTypes DEF Blob
  <2> QED
    BY <1>1, <2>2, <2>3, <2>5
(* The steps of the turn under way, and those of nobody's turn.              *)
<1>5. ASSUME NEW t \in Turns, Seed(t) PROVE LInv' /\ GrowsLog
  <2>1. /\ turn'[t].pc = "running" /\ turn'[t].blob = NewBlob(t) /\ row = NoRow /\ edit' = edit
        /\ \A u \in Turns \ {t} : turn'[u] = turn[u]
    BY <1>5 DEF Seed, ExtendsRow, TurnRecord
  <2>2. row'.blob = NewBlob(t)
    BY <1>5 DEF Seed, Upsert
  <2>3. \A u \in Turns \ {t} : u \notin InProgress
    BY <1>5 DEF Seed, OneAtATime, InProgress
  <2>4. IsPrefix(row'.blob.log, turn'[t].blob.log)
    BY <2>1, <2>2, PrefixOfSelf, BlobTypes DEF Blob
  <2>5. OneAtATime'
    BY <2>1, <2>3 DEF OneAtATime, InProgress
  <2>6. ExtendsRow'
    BY <2>1, <2>3, <2>4 DEF ExtendsRow, InProgress
  <2> QED
    BY <2>1, <2>5, <2>6 DEF GrowsLog
<1>6. ASSUME NEW t \in Turns, SaveTurn(t) PROVE LInv' /\ GrowsLog
  <2>1. turn[t].agent \in TurnAgents /\ turn[t].blob \in Blob
    BY <1>6 DEF TurnRecord, SaveTurn, Loaded
  <2>2. row'.agent = turn[t].agent /\ row'.blob = turn[t].blob
    BY <1>6, <2>1, SaveTypes DEF SaveTurn
  <2>3. \A u \in Turns \ {t} : u \notin InProgress /\ turn'[u] = turn[u]
    BY <1>6 DEF SaveTurn, OneAtATime, InProgress
  <2>4. turn'[t].pc = "answered" /\ edit' = edit
    BY <1>6 DEF SaveTurn, TurnRecord
  <2>5. OneAtATime' /\ ExtendsRow'
    BY <2>3, <2>4 DEF OneAtATime, ExtendsRow, InProgress
  <2>6. GrowsLog
    BY <1>6, <2>2 DEF GrowsLog, ExtendsRow, SaveTurn
  <2> QED
    BY <2>4, <2>5, <2>6
(* Whatever else happens keeps the log of the row, the context of the turn   *)
(* under way, and starts no turn.                                            *)
<1>7. ASSUME SameLog, edit' = edit,
             \A t \in Turns :
               /\ turn'[t].agent = turn[t].agent
               /\ turn'[t].pc # "compacting"
               /\ turn'[t].pc = "seeding" => turn[t].pc = "seeding" /\ turn'[t].blob = turn[t].blob
               /\ turn'[t].pc \in {"running", "saving"} =>
                    turn[t].pc \in {"running", "saving"} /\ turn'[t].blob.log = turn[t].blob.log
               /\ turn'[t].pc = "failing" => t \in InProgress
      PROVE  LInv' /\ GrowsLog
  <2>1. InProgress' \subseteq InProgress
    BY <1>7 DEF InProgress
  <2>2. OneAtATime'
    BY <2>1 DEF OneAtATime
  <2>3. ExtendsRow'
    BY <1>7 DEF ExtendsRow, SameLog
  <2> QED
    BY <1>7, <2>2, <2>3, SameLogGrows
<1>8. ASSUME NEW t \in Turns, RunReturns(t) PROVE LInv' /\ GrowsLog
  <2>1. PICK s \in {"running", "paused", "error"} :
          turn' = [turn EXCEPT ![t].pc = "saving", ![t].blob.status = s]
    BY <1>8 DEF RunReturns
  <2>2. turn[t].blob \in Blob
    BY <1>8 DEF RunReturns, Loaded
  <2>3. /\ turn'[t].pc = "saving" /\ turn'[t].blob.log = turn[t].blob.log /\ turn'[t].agent = turn[t].agent
        /\ \A u \in Turns \ {t} : turn'[u] = turn[u]
    BY <2>1, <2>2 DEF TurnRecord, Blob
  <2>4. SameLog /\ edit' = edit /\ turn[t].pc = "running"
    BY <1>8 DEF RunReturns, SameLog
  <2> QED
    BY <1>7, <2>3, <2>4 DEF InProgress, ExtendsRow
<1>9. ASSUME NEW t \in Turns,
             SeedFails(t) \/ Throws(t) \/ FlipToError(t) \/ FlipFails(t) \/ Settle(t) \/ TitleLands(t)
               \/ NoTitle(t) \/ CompactionFails(t)
      PROVE  LInv' /\ GrowsLog
  <2>1. SameLog /\ edit' = edit
    BY <1>9 DEF SeedFails, Throws, FlipToError, FlipFails, Settle, TitleLands, NoTitle, CompactionFails,
       SameLog, Row
  <2>2. \A u \in Turns \ {t} : turn'[u] = turn[u]
    BY <1>9 DEF SeedFails, Throws, FlipToError, FlipFails, Settle, TitleLands, NoTitle, CompactionFails
  <2>3. turn'[t].agent = turn[t].agent /\ turn'[t].blob = turn[t].blob
    BY <1>9 DEF SeedFails, Throws, FlipToError, FlipFails, Settle, TitleLands, NoTitle, CompactionFails, TurnRecord
  <2>4. turn'[t].pc = turn[t].pc \/ turn'[t].pc \in {"failed", "lost", "done"}
          \/ (turn'[t].pc = "failing" /\ t \in InProgress)
    BY <1>9 DEF SeedFails, Throws, FlipToError, FlipFails, Settle, TitleLands, NoTitle, CompactionFails,
       TurnRecord, InProgress
  <2> QED
    BY <1>7, <2>1, <2>2, <2>3, <2>4 DEF InProgress, ExtendsRow
<1>10. CASE DeleteConversation \/ Promote \/ Retitle \/ Reap \/ UNCHANGED turnVars
  <2>1. SameLog /\ edit' = edit /\ turn' = turn
    BY <1>10 DEF DeleteConversation, Promote, Retitle, Reap, turnVars, SameLog, Row
  <2> QED
    BY <1>7, <2>1 DEF InProgress, ExtendsRow
<1>11. CASE Restart
  <2>1. SameLog /\ edit' = edit
    BY <1>11 DEF Restart, SameLog
  <2>2. ASSUME NEW u \in Turns
        PROVE  turn'[u].agent = turn[u].agent /\ turn'[u].blob = turn[u].blob
               /\ turn'[u].pc \in {turn[u].pc, "lost", "done"}
    BY <1>11, RestartTyped DEF Restart, TurnRecord
  <2> QED
    BY <1>7, <2>1, <2>2 DEF InProgress, ExtendsRow
<1>12. ASSUME NEW t \in Turns, CompactAndSave(t) PROVE FALSE
  BY <1>12 DEF CompactAndSave, ExtendsRow
<1>13. CASE EditLoads \/ EditSaves
  BY <1>13 DEF EditLoads, EditSaves
<1> QED
  BY <1>2, <1>3, <1>4, <1>5, <1>6, <1>8, <1>9, <1>10, <1>11, <1>12, <1>13
     DEF TurnsNext, Start, Advance, Trail

(* One append-only log: turns that wait for one another, with no compaction  *)
(* and no edit, never lose one another's events, restarts and deletions or   *)
(* not.                                                                      *)
THEOREM LogGrows ==
  ASSUME ~Overlap, ~Compactions, ~Edits
  PROVE  TurnsSpec => LogAppendOnly
<1>1. TypeInv /\ FirstMakesRow /\ LInv /\ [TurnsNext]_turnVars =>
        [(row # NoRow /\ row' # NoRow /\ row'.agent = row.agent)
          => IsPrefix(row.blob.log, row'.blob.log)]_turnVars
  BY SequentialStep DEF GrowsLog
<1>2. TypeInv /\ FirstMakesRow /\ LInv /\ [TurnsNext]_turnVars => LInv'
  BY SequentialStep
<1> QED
  BY <1>1, <1>2, InitSequential, TurnsInvariant, PTL DEF TurnsSpec, LogAppendOnly

-----------------------------------------------------------------------------
(* Where turns wait for one another, and nothing but a turn saves a context: *)
(* a turn that has not started is in no log, so a log it brings is new; and  *)
(* a row that is paused holds no log that an approval went on from.          *)
Logged(s, u) == \E n \in DOMAIN s : s[n] = u

NewUnlogged ==
  \A u \in Turns : turn[u].pc = "new" =>
    /\ turn[u].mode = "interactive" /\ turn[u].blob = NoBlob
    /\ row # NoRow => ~Logged(row.blob.log, u)
    /\ \A w \in Turns : turn[w].blob # NoBlob => ~Logged(turn[w].blob.log, u)

LogsGrown ==
  \A t \in Turns : /\ turn[t].pc = "seeding" => turn[t].mode # "approval"
                   /\ turn[t].blob # NoBlob => Len(turn[t].blob.log) > 0

FreshLogs ==
  \A u, w \in Turns :
    u # w /\ turn[u].pc \in {"seeding", "running", "saving"} /\ Resumed(w) =>
      Front(turn[w].blob.log) # turn[u].blob.log

PauseIsNew ==
  \A w \in Turns \ InProgress :
    Resumed(w) /\ row # NoRow /\ row.status = "paused" => Front(turn[w].blob.log) # row.blob.log

ApprovalInv == NewUnlogged /\ LogsGrown /\ FreshLogs /\ PauseIsNew /\ ApprovedOnce

(* A log with one more turn.                                                 *)
LEMMA LogAppended ==
  ASSUME NEW s \in Seq(Turns), NEW t \in Turns
  PROVE  /\ Append(s, t) \in Seq(Turns) /\ <<t>> \in Seq(Turns)
         /\ Front(Append(s, t)) = s /\ Len(Append(s, t)) > 0 /\ Len(<<t>>) > 0
         /\ \A u : Logged(Append(s, t), u) => u = t \/ Logged(s, u)
         /\ \A u : Logged(<<t>>, u) => u = t
<1>1. Front(Append(s, t)) = s /\ Len(Append(s, t)) > 0
  BY DEF Front
<1>2. \A u : Logged(Append(s, t), u) => u = t \/ Logged(s, u)
  BY DEF Logged
<1>3. \A u : Logged(<<t>>, u) => u = t
  BY DEF Logged
<1>4. QED
  BY <1>1, <1>2, <1>3

(* A log is not its own front, and one that ends with a turn is not the front*)
(* of a log without that turn.                                               *)
LEMMA NotTheFront ==
  ASSUME NEW s \in Seq(Turns)
  PROVE  /\ Len(s) > 0 => Front(s) # s
         /\ \A u \in Turns : ~Logged(s, u) => Front(s) # <<u>>
         /\ \A u \in Turns, r \in Seq(Turns) : ~Logged(s, u) => Front(s) # Append(r, u)
<1>1. Len(s) > 0 => Front(s) # s
  BY DEF Front
<1>2. ASSUME NEW u \in Turns, NEW r \in Seq(Turns), Front(s) = Append(r, u) \/ Front(s) = <<u>> PROVE Logged(s, u)
  <2>1. \A n \in 1..Len(Front(s)) : n \in DOMAIN s /\ Front(s)[n] = s[n]
    BY DEF Front
  <2>2. \E n \in 1..Len(Front(s)) : Front(s)[n] = u
    BY <1>2
  <2>3. QED
    BY <2>1, <2>2 DEF Logged
<1>3. << >> \in Seq(Turns)
  OBVIOUS
<1>4. QED
  BY <1>1, <1>2, <1>3

(* The start: nobody has run.                                                *)
LEMMA ApprovalInit == TurnsInit => ApprovalInv
BY DEF TurnsInit, ApprovalInv, NewUnlogged, LogsGrown, FreshLogs, PauseIsNew, ApprovedOnce, Resumed, Unborn

(* A turn starts, with a log that extends the row's or begins anew, and only *)
(* from a paused row if it is an approval.                                   *)
LEMMA StartKeepsApproved ==
  ASSUME TypeInv, ApprovalInv, InProgress = {}, NEW t \in Turns, turn[t].pc = "new",
         NEW r \in TurnRecord, turn' = [turn EXCEPT ![t] = r],
         r.pc \in {"seeding", "running", "rejected"}, r.pc = "seeding" => r.mode # "approval",
         r.pc \in {"seeding", "running"} => r.blob \in Blob, r.pc = "rejected" => r.blob = NoBlob,
         r.blob # NoBlob => \/ r.blob.log = <<t>>
                            \/ row # NoRow /\ r.blob.log = Append(row.blob.log, t),
         r.mode = "approval" /\ r.blob # NoBlob =>
           row # NoRow /\ row.status = "paused" /\ r.blob.log = Append(row.blob.log, t),
         \/ row' = row
         \/ row = NoRow /\ row'.status = "running" /\ row'.blob.log = <<t>>
  PROVE  ApprovalInv'
<1>1. /\ turn'[t] = r /\ \A u \in Turns \ {t} : turn'[u] = turn[u] /\ u \notin InProgress'
      /\ \A u \in Turns : turn[u] \in TurnRecord /\ turn[u].pc \notin {"seeding", "running", "saving", "failing"}
  BY DEF TypeInv, InProgress
<1>2. \A u \in Turns : turn[u].blob # NoBlob => turn[u].blob.log \in Seq(Turns)
  BY <1>1 DEF TurnRecord, Blob
<1>3. row # NoRow => row.blob.log \in Seq(Turns)
  BY DEF TypeInv, Row, Blob
<1>4. \A u \in Turns \ {t} : (Resumed(u)' <=> Resumed(u))
  BY <1>1 DEF Resumed
<1>5. \A w \in Turns : turn[w].blob # NoBlob => ~Logged(turn[w].blob.log, t)
  BY DEF ApprovalInv, NewUnlogged
<1>6. NewUnlogged'
  <2> SUFFICES ASSUME NEW u \in Turns, turn'[u].pc = "new"
               PROVE  /\ turn'[u].mode = "interactive" /\ turn'[u].blob = NoBlob
                      /\ row' # NoRow => ~Logged(row'.blob.log, u)
                      /\ \A w \in Turns : turn'[w].blob # NoBlob => ~Logged(turn'[w].blob.log, u)
    BY DEF NewUnlogged, Logged
  <2>1. u # t /\ turn'[u] = turn[u]
    BY <1>1
  <2>2. /\ turn[u].mode = "interactive" /\ turn[u].blob = NoBlob
        /\ row # NoRow => ~Logged(row.blob.log, u)
        /\ \A w \in Turns : turn[w].blob # NoBlob => ~Logged(turn[w].blob.log, u)
    BY <2>1 DEF ApprovalInv, NewUnlogged
  <2>3. ~Logged(<<t>>, u) /\ (row # NoRow => ~Logged(Append(row.blob.log, t), u))
    <3>1. << >> \in Seq(Turns)
      OBVIOUS
    <3>2. ~Logged(<<t>>, u)
      BY <2>1, <3>1, LogAppended
    <3>3. ASSUME row # NoRow PROVE ~Logged(Append(row.blob.log, t), u)
      BY <1>3, <2>1, <2>2, <3>3, LogAppended
    <3>4. QED
      BY <3>2, <3>3
  <2>4. ASSUME NEW w \in Turns, turn'[w].blob # NoBlob PROVE ~Logged(turn'[w].blob.log, u)
    BY <1>1, <2>2, <2>3, <2>4
  <2>5. QED
    BY <2>1, <2>2, <2>3, <2>4
<1>7. LogsGrown'
  <2>1. r.blob # NoBlob => Len(r.blob.log) > 0
    BY <1>3, LogAppended
  <2>2. QED
    BY <1>1, <2>1 DEF ApprovalInv, LogsGrown
<1>8. FreshLogs'
  <2> SUFFICES ASSUME NEW w \in Turns \ {t}, Resumed(w), r.pc \in {"seeding", "running"}, r.blob # NoBlob
               PROVE  Front(turn[w].blob.log) # r.blob.log
    <3>1. r.pc \in {"seeding", "running"} => r.blob # NoBlob
      BY BlobAssumption
    <3>2. QED
      BY <1>1, <1>4, <3>1 DEF FreshLogs
  <2>1. turn[w].blob.log \in Seq(Turns) /\ ~Logged(turn[w].blob.log, t)
    BY <1>2, <1>5 DEF Resumed
  <2>2. CASE r.blob.log = <<t>>
    BY <2>1, <2>2, NotTheFront
  <2>3. CASE row # NoRow /\ r.blob.log = Append(row.blob.log, t)
    BY <1>3, <2>1, <2>3, NotTheFront
  <2>4. QED
    BY <2>2, <2>3
<1>9. PauseIsNew'
  <2> SUFFICES ASSUME NEW w \in Turns \ {t}, Resumed(w), row' # NoRow, row'.status = "paused",
                      w \notin InProgress
               PROVE  Front(turn[w].blob.log) # row'.blob.log
    <3>1. Resumed(t)' => t \in InProgress'
      BY <1>1 DEF Resumed, InProgress
    <3> QED
      BY <1>1, <1>4, <3>1 DEF PauseIsNew, InProgress
  <2>1. QED
    BY DEF ApprovalInv, PauseIsNew
<1>10. ApprovedOnce'
  <2> SUFFICES ASSUME NEW w \in Turns \ {t}, Resumed(w), Resumed(t)'
               PROVE  Front(turn[w].blob.log) # Front(r.blob.log)
    BY <1>1, <1>4 DEF ApprovalInv, ApprovedOnce
  <2>1. row # NoRow /\ row.status = "paused" /\ r.blob.log = Append(row.blob.log, t)
    BY <1>1 DEF Resumed
  <2>2. Front(turn[w].blob.log) # row.blob.log
    BY <2>1, <1>1 DEF ApprovalInv, PauseIsNew, InProgress
  <2>3. row.blob.log \in Seq(Turns) /\ Front(Append(row.blob.log, t)) = row.blob.log
    BY <1>3, <2>1, LogAppended
  <2>4. QED
    BY <2>1, <2>2, <2>3
<1>11. QED
  BY <1>6, <1>7, <1>8, <1>9, <1>10 DEF ApprovalInv

(* A step of turns under way, or of nobody's turn: logs stay, nobody starts, *)
(* and the row keeps its log, takes that of the turn under way, or goes.     *)
LogsStay ==
  \A u \in Turns :
    /\ turn'[u].mode = turn[u].mode /\ turn'[u].blob.log = turn[u].blob.log
    /\ turn'[u].blob # NoBlob => turn[u].blob # NoBlob
    /\ turn'[u].pc = "new" => turn[u].pc = "new" /\ turn'[u].blob = turn[u].blob
    /\ turn'[u].pc = "seeding" => turn[u].pc = "seeding"
    /\ turn'[u].pc \in {"running", "saving"} => turn[u].pc \in {"seeding", "running", "saving"}
    /\ turn'[u].pc = "failing" => turn[u].pc \in {"seeding", "running", "saving", "failing"}
    /\ turn'[u].pc # "lost" => turn[u].pc # "lost"

RowStays ==
  /\ row # NoRow /\ row'.blob.log = row.blob.log
  /\ row'.status = "paused" =>
       row.status = "paused" /\ \A u \in InProgress : Resumed(u)' => u \in InProgress'

RowTakes ==
  \E t \in Turns :
    /\ turn[t].pc \in {"seeding", "saving"} /\ row'.blob.log = turn[t].blob.log
    /\ row'.status = "paused" => turn[t].pc = "saving"

LEMMA MoveKeepsApproved ==
  ASSUME TypeInv, ApprovalInv, LogsStay, row' = NoRow \/ RowStays \/ RowTakes
  PROVE  ApprovalInv'
<1>1. \A u \in Turns : turn[u].blob # NoBlob => turn[u].blob.log \in Seq(Turns)
  BY DEF TypeInv, TurnRecord, Blob
<1>2. \A u \in Turns : turn[u].pc \in {"seeding", "running", "saving"} => turn[u].blob # NoBlob
  BY BlobAssumption DEF TypeInv, Loaded
<1>3. \A u \in Turns : Resumed(u)' => Resumed(u)
  BY DEF Resumed, LogsStay
<1>4. NewUnlogged'
  <2> SUFFICES ASSUME NEW u \in Turns, turn'[u].pc = "new"
               PROVE  /\ turn'[u].mode = "interactive" /\ turn'[u].blob = NoBlob
                      /\ row' # NoRow => ~Logged(row'.blob.log, u)
                      /\ \A w \in Turns : turn'[w].blob # NoBlob => ~Logged(turn'[w].blob.log, u)
    BY DEF NewUnlogged, Logged
  <2>1. turn[u].pc = "new" /\ turn'[u].blob = turn[u].blob /\ turn'[u].mode = turn[u].mode
    BY DEF LogsStay
  <2>2. /\ turn[u].mode = "interactive" /\ turn[u].blob = NoBlob
        /\ row # NoRow => ~Logged(row.blob.log, u)
        /\ \A w \in Turns : turn[w].blob # NoBlob => ~Logged(turn[w].blob.log, u)
    BY <2>1 DEF ApprovalInv, NewUnlogged
  <2>3. \A w \in Turns : turn'[w].blob # NoBlob => ~Logged(turn'[w].blob.log, u)
    BY <2>2 DEF LogsStay
  <2>4. row' # NoRow => ~Logged(row'.blob.log, u)
    BY <1>2, <2>2 DEF RowStays, RowTakes
  <2>5. QED
    BY <2>1, <2>2, <2>3, <2>4
<1>5. LogsGrown'
  BY DEF ApprovalInv, LogsGrown, LogsStay
<1>6. FreshLogs'
  <2> SUFFICES ASSUME NEW u \in Turns, NEW w \in Turns, u # w,
                      turn'[u].pc \in {"seeding", "running", "saving"}, Resumed(w)'
               PROVE  Front(turn'[w].blob.log) # turn'[u].blob.log
    BY DEF FreshLogs
  <2>1. Front(turn[w].blob.log) # turn[u].blob.log
    BY <1>3 DEF ApprovalInv, FreshLogs, LogsStay
  <2>2. QED
    BY <2>1 DEF LogsStay
<1>7. PauseIsNew'
  <2> SUFFICES ASSUME NEW w \in Turns, w \notin InProgress', Resumed(w)', row' # NoRow, row'.status = "paused"
               PROVE  Front(turn'[w].blob.log) # row'.blob.log
    BY DEF PauseIsNew
  <2>1. turn'[w].blob.log = turn[w].blob.log /\ Resumed(w)
    BY <1>3 DEF LogsStay
  <2>2. CASE RowStays
    <3>1. w \notin InProgress
      BY <2>2 DEF RowStays
    <3>2. QED
      BY <2>1, <2>2, <3>1 DEF RowStays, ApprovalInv, PauseIsNew
  <2>3. CASE RowTakes
    <3>1. PICK t \in Turns : turn[t].pc = "saving" /\ row'.blob.log = turn[t].blob.log
      BY <2>3 DEF RowTakes
    <3>2. CASE w = t
      <4>1. turn[w].blob.log \in Seq(Turns) /\ Len(turn[w].blob.log) > 0
        BY <1>1, <2>1 DEF Resumed, ApprovalInv, LogsGrown
      <4>2. QED
        BY <2>1, <3>1, <3>2, <4>1, NotTheFront
    <3>3. CASE w # t
      BY <2>1, <3>1, <3>3 DEF ApprovalInv, FreshLogs
    <3>4. QED
      BY <3>2, <3>3
  <2>4. QED
    BY <2>2, <2>3
<1>8. ApprovedOnce'
  <2> SUFFICES ASSUME NEW u \in Turns, NEW w \in Turns, u # w, Resumed(u)', Resumed(w)'
               PROVE  Front(turn'[u].blob.log) # Front(turn'[w].blob.log)
    BY DEF ApprovedOnce
  <2>1. Front(turn[u].blob.log) # Front(turn[w].blob.log)
    BY <1>3 DEF ApprovalInv, ApprovedOnce
  <2>2. QED
    BY <2>1 DEF LogsStay
<1>9. QED
  BY <1>4, <1>5, <1>6, <1>7, <1>8 DEF ApprovalInv

(* Every step, where turns wait for one another and nothing else saves.      *)
LEMMA ApprovalStep ==
  ASSUME ~Overlap, ~Compactions, ~Edits
  PROVE  TypeInv /\ FirstMakesRow /\ LInv /\ ApprovalInv /\ [TurnsNext]_turnVars => ApprovalInv'
<1> SUFFICES ASSUME TypeInv, FirstMakesRow, LInv, ApprovalInv, [TurnsNext]_turnVars PROVE ApprovalInv'
  OBVIOUS
<1>0. turn \in [Turns -> TurnRecord] /\ \A t \in Turns : turn[t] \in TurnRecord
  BY DEF TypeInv
<1>1. ASSUME NEW t \in Turns, LoadApproval(t) PROVE ApprovalInv'
  <2>1. InProgress = {} /\ turn[t].pc = "new" /\ row' = row /\ turn[t].blob = NoBlob
    BY <1>1 DEF LoadApproval, MayStart, ApprovalInv, NewUnlogged
  <2>2. CASE row = NoRow \/ row.status # "paused"
    <3> DEFINE r == [turn[t] EXCEPT !.pc = "rejected", !.mode = "approval"]
    <3>1. turn' = [turn EXCEPT ![t] = r]
      BY <1>1, <2>2 DEF LoadApproval
    <3>2. r \in TurnRecord /\ r.pc = "rejected" /\ r.blob = turn[t].blob
      BY <1>0 DEF TurnRecord, TurnSteps, Modes
    <3> HIDE DEF r
    <3>3. QED
      BY <2>1, <3>1, <3>2, StartKeepsApproved
  <2>3. CASE row # NoRow /\ row.status = "paused"
    <3> DEFINE r == [turn[t] EXCEPT !.pc = "running", !.mode = "approval", !.agent = row.agent,
                                    !.blob = Extend(row.blob, t)]
    <3>1. turn' = [turn EXCEPT ![t] = r]
      BY <1>1, <2>3 DEF LoadApproval
    <3>2. row.agent \in TurnAgents /\ row.blob \in Blob /\ Extend(row.blob, t) \in Blob
      BY <2>3, BlobTypes DEF TypeInv, Row
    <3>3. Extend(row.blob, t).log = Append(row.blob.log, t)
      BY <3>2 DEF Extend, Blob
    <3>4. r \in TurnRecord /\ r.pc = "running" /\ r.blob = Extend(row.blob, t)
      BY <1>0, <3>2 DEF TurnRecord, TurnSteps, Modes
    <3> HIDE DEF r
    <3>5. QED
      BY <2>1, <2>3, <3>1, <3>2, <3>3, <3>4, StartKeepsApproved
  <2>4. QED
    BY <2>2, <2>3
<1>2. ASSUME NEW t \in Turns, LoadInteractive(t) PROVE ApprovalInv'
  <2>1. /\ InProgress = {} /\ turn[t].pc = "new" /\ row' = row
        /\ turn[t].mode = "interactive"
    BY <1>2 DEF LoadInteractive, MayStart, ApprovalInv, NewUnlogged
  <2>2. PICK a \in TurnAgents : LoadInteractive(t)!2!(a)
    BY <1>2 DEF LoadInteractive
  <2> DEFINE b == IF row # NoRow /\ row.agent = a THEN Extend(row.blob, t) ELSE NewBlob(t)
             p == IF row = NoRow THEN "seeding" ELSE "running"
             r == [turn[t] EXCEPT !.agent = a, !.pc = p, !.blob = b]
  <2>3. turn' = [turn EXCEPT ![t] = r]
    BY <2>2
  <2>4. /\ b \in Blob
        /\ b.log = <<t>> \/ (row # NoRow /\ b.log = Append(row.blob.log, t))
    <3>1. row # NoRow => row.blob \in Blob
      BY DEF TypeInv, Row
    <3>2. CASE row # NoRow /\ row.agent = a
      BY <3>1, <3>2, BlobTypes DEF Extend, Blob
    <3>3. CASE ~(row # NoRow /\ row.agent = a)
      BY <3>3, BlobTypes DEF NewBlob
    <3>4. QED
      BY <3>2, <3>3
  <2>5. p \in {"seeding", "running"}
    OBVIOUS
  <2> HIDE DEF b, p
  <2>6. r \in TurnRecord /\ r.pc = p /\ r.blob = b /\ r.mode = "interactive"
    BY <1>0, <2>1, <2>4, <2>5 DEF TurnRecord, TurnSteps, Modes
  <2> HIDE DEF r
  <2>7. QED
    BY <2>1, <2>3, <2>4, <2>5, <2>6, StartKeepsApproved
<1>3. ASSUME NEW t \in Turns, Trigger(t) PROVE ApprovalInv'
  <2>1. PICK a \in TurnAgents : Trigger(t)!2!(a)
    BY <1>3 DEF Trigger
  <2>2. InProgress = {} /\ row = NoRow /\ turn[t].pc = "new"
    BY <1>3 DEF Trigger, InProgress, FirstMakesRow
  <2> DEFINE r == [turn[t] EXCEPT !.pc = "running", !.mode = "triggered", !.agent = a, !.blob = NewBlob(t)]
  <2>3. turn' = [turn EXCEPT ![t] = r] /\ row'.status = "running" /\ row'.blob = NewBlob(t)
    BY <2>1 DEF Upsert
  <2>4. NewBlob(t) \in Blob /\ NewBlob(t).log = <<t>>
    BY BlobTypes DEF NewBlob
  <2>5. r \in TurnRecord /\ r.pc = "running" /\ r.blob = NewBlob(t) /\ r.mode = "triggered"
    BY <1>0, <2>4 DEF TurnRecord, TurnSteps, Modes
  <2> HIDE DEF r
  <2>6. QED
    BY <2>2, <2>3, <2>4, <2>5, StartKeepsApproved
<1>4. ASSUME NEW t \in Turns, Seed(t) PROVE ApprovalInv'
  <2>1. /\ turn[t].pc = "seeding" /\ turn' = [turn EXCEPT ![t].pc = "running"]
        /\ row'.blob = turn[t].blob /\ row'.status = "running"
    BY <1>4 DEF Seed, Upsert, LInv, ExtendsRow
  <2>2. RowTakes
    BY <2>1 DEF RowTakes
  <2>3. LogsStay
    BY <1>0, <2>1 DEF LogsStay, TurnRecord
  <2>4. QED
    BY <2>2, <2>3, MoveKeepsApproved
<1>5. ASSUME NEW t \in Turns, SaveTurn(t) PROVE ApprovalInv'
  <2>1. turn[t].pc = "saving" /\ row'.blob = turn[t].blob
    BY <1>5 DEF SaveTurn, SaveSession, Upsert
  <2>2. RowTakes
    BY <2>1 DEF RowTakes
  <2>3. LogsStay
    BY <1>0, <1>5 DEF SaveTurn, LogsStay, TurnRecord
  <2>4. QED
    BY <2>2, <2>3, MoveKeepsApproved
<1>6. ASSUME NEW t \in Turns, RunReturns(t) PROVE ApprovalInv'
  <2>1. PICK s \in {"running", "paused", "error"} :
          turn' = [turn EXCEPT ![t].pc = "saving", ![t].blob.status = s]
    BY <1>6 DEF RunReturns
  <2>2. turn[t].pc = "running" /\ turn[t].blob \in Blob /\ row' = row
    BY <1>6 DEF RunReturns, TypeInv, Loaded
  <2>3. /\ turn'[t].pc = "saving" /\ turn'[t].blob.log = turn[t].blob.log /\ turn'[t].mode = turn[t].mode
        /\ \A u \in Turns \ {t} : turn'[u] = turn[u]
    BY <1>0, <2>1, <2>2 DEF TurnRecord, Blob
  <2>4. LogsStay
    BY <2>2, <2>3, BlobAssumption DEF LogsStay
  <2>5. InProgress' = InProgress
    BY <2>2, <2>3 DEF InProgress
  <2>6. row' = NoRow \/ RowStays
    BY <2>2, <2>5 DEF RowStays
  <2>7. QED
    BY <2>4, <2>6, MoveKeepsApproved
<1>7. ASSUME NEW t \in Turns,
             SeedFails(t) \/ Throws(t) \/ FlipToError(t) \/ FlipFails(t) \/ Settle(t) \/ TitleLands(t)
               \/ NoTitle(t) \/ CompactionFails(t)
      PROVE  ApprovalInv'
  <2>1. /\ \A u \in Turns \ {t} : turn'[u] = turn[u]
        /\ turn'[t].mode = turn[t].mode /\ turn'[t].blob = turn[t].blob
    BY <1>0, <1>7 DEF SeedFails, Throws, FlipToError, FlipFails, Settle, TitleLands, NoTitle, CompactionFails,
       TurnRecord
  <2>2. \/ turn[t].pc = "seeding" /\ turn'[t].pc = "failed" /\ row' = row
        \/ turn[t].pc \in {"running", "saving"} /\ turn'[t].pc = "failing" /\ row' = row
        \/ turn[t].pc = "failing" /\ turn'[t].pc = "failed" /\ (row' = NoRow \/ row'.status = "error")
        \/ turn[t].pc = "failing" /\ turn'[t].pc = "lost" /\ row' = row
        \/ turn[t].pc \in {"answered", "compacting"} /\ turn'[t].pc \in {"done", "compacting"} /\ row' = row
        \/ turn'[t].pc = turn[t].pc
    BY <1>0, <1>7 DEF SeedFails, Throws, FlipToError, FlipFails, Settle, TitleLands, NoTitle, CompactionFails,
       TurnRecord, TypeInv, Row
  <2>3. row' = NoRow \/ (row # NoRow /\ row'.blob = row.blob /\ row'.status \in {row.status, "error"})
    BY <1>7 DEF SeedFails, Throws, FlipToError, FlipFails, Settle, TitleLands, NoTitle, CompactionFails,
       TypeInv, Row
  <2>5. LogsStay
    BY <2>1, <2>2 DEF LogsStay
  <2>6. \A u \in InProgress : Resumed(u)' /\ row' # NoRow /\ row'.status = "paused" => u \in InProgress'
    BY <2>1, <2>2 DEF InProgress, Resumed, ApprovalInv, LogsGrown
  <2>7. row' = NoRow \/ RowStays
    BY <2>3, <2>6 DEF RowStays
  <2>8. QED
    BY <2>5, <2>7, MoveKeepsApproved
<1>8. CASE DeleteConversation \/ Promote \/ Retitle \/ Reap \/ UNCHANGED turnVars
  <2>1. turn' = turn
    BY <1>8 DEF DeleteConversation, Promote, Retitle, Reap, turnVars
  <2>2. row' = NoRow \/ (row # NoRow /\ row'.blob = row.blob /\ row'.status \in {row.status, "error"})
    BY <1>8 DEF DeleteConversation, Promote, Retitle, Reap, turnVars, TypeInv, Row
  <2>3. LogsStay /\ InProgress' = InProgress
    BY <2>1 DEF LogsStay, InProgress
  <2>4. row' = NoRow \/ RowStays
    BY <2>2, <2>3 DEF RowStays
  <2>5. QED
    BY <2>3, <2>4, MoveKeepsApproved
<1>9. CASE Restart
  <2>1. ASSUME NEW u \in Turns
        PROVE  /\ turn'[u].mode = turn[u].mode /\ turn'[u].blob = turn[u].blob
               /\ turn'[u].pc = (IF u \in InProgress THEN "lost"
                                 ELSE IF turn[u].pc \in {"answered", "compacting"} THEN "done" ELSE turn[u].pc)
    BY <1>0, <1>9 DEF Restart, TurnRecord
  <2>2. LogsStay
    BY <2>1 DEF LogsStay, InProgress
  <2>3. row' = row /\ \A u \in InProgress : ~Resumed(u)'
    <3>1. \A u \in InProgress : u \in Turns /\ turn'[u].pc = "lost"
      BY <2>1 DEF InProgress
    <3>2. QED
      BY <1>9, <3>1 DEF Restart, Resumed
  <2>4. row' = NoRow \/ RowStays
    BY <2>3 DEF RowStays
  <2>5. QED
    BY <2>2, <2>4, MoveKeepsApproved
<1>10. ASSUME NEW t \in Turns PROVE ~CompactAndSave(t)
  BY DEF CompactAndSave, LInv, ExtendsRow
<1>11. ~EditLoads /\ ~EditSaves
  BY DEF EditLoads, EditSaves, LInv
<1>12. QED
  BY <1>1, <1>2, <1>3, <1>4, <1>5, <1>6, <1>7, <1>8, <1>9, <1>10, <1>11 DEF TurnsNext, Start, Advance, Trail

(* Where no turn starts before the previous one has answered, and neither    *)
(* compactions nor the stash write a context, a stop at an approval gate is  *)
(* answered once: of two approvals that both resumed it, one would have had  *)
(* to find the row still paused with the log the other went on from.         *)
THEOREM ApprovalsOnce ==
  ASSUME ~Overlap, ~Compactions, ~Edits
  PROVE  TurnsSpec => []ApprovedOnce
<1>1. TypeInv /\ FirstMakesRow /\ LInv /\ ApprovalInv /\ [TurnsNext]_turnVars => LInv' /\ ApprovalInv'
  BY ApprovalStep, SequentialStep
<1>2. ApprovalInv => ApprovedOnce
  BY DEF ApprovalInv
<1> QED
  BY <1>1, <1>2, ApprovalInit, InitSequential, TurnsInvariant, PTL DEF TurnsSpec

-----------------------------------------------------------------------------
(* A run that began in view of the tab stays listed, for any conversations,  *)
(* actions and tabs.  What the invariant of the runs leaves out is where the *)
(* rows may be missing: never from an answer that has been served, nor from  *)
(* the list once no answer is due; and that the dialog, once it is open,     *)
(* cannot meet a run that begins in this tab.                                *)

(* The rows of the runs are in what will be, or is, shown.                   *)
StartedIsDue ==
  /\ fetch.step \in {"none", "asked", "served"}
  /\ fetch.step = "none" => started \subseteq list.ids
  /\ fetch.step = "served" => started \subseteq fetch.got.ids

(* The dialog and the request behind it are about idle rows of this tab.     *)
DialogIsIdle ==
  /\ dialog \cap Processing = {}
  /\ deletion.gone \subseteq dialog
  /\ deletion.gone \cap started = {}

ListInv ==
  /\ watch \in [Threads -> {"none", "sent", "seeded", "live"}]
  /\ started \subseteq saved
  /\ StartedIsDue
  /\ DialogIsIdle

(* At the start nothing runs and nothing is asked for.                       *)
LEMMA ListInitInv == ThreadInit => ListInv
BY DEF ThreadInit, ListInv, StartedIsDue, DialogIsIdle, None, NoRows

(* No step of a run, of the list or of a deletion breaks the invariant.      *)
LEMMA ListStep == ListInv /\ [ThreadNext]_threadVars => ListInv'
<1> SUFFICES ASSUME ListInv, [ThreadNext]_threadVars
             PROVE  ListInv'
  OBVIOUS
<1> USE DEF ListInv, StartedIsDue, DialogIsIdle, Processing, serverVars, listVars, dialogVars
<1>1. CASE ServeList
  BY <1>1 DEF ServeList, Listing
<1>2. CASE Arrive
  BY <1>2 DEF Arrive
<1>3. CASE Poll
  BY <1>3 DEF Poll, Refetch
<1>4. ASSUME NEW c \in Conversations, SendTo(c)
      PROVE  ListInv'
  <2>1. c \in Threads
    BY DEF Threads
  <2>2. watch' \in [Threads -> {"none", "sent", "seeded", "live"}]
    BY <1>4, <2>1 DEF SendTo
  <2>3. QED
    BY <1>4, <2>2 DEF SendTo
<1>5. ASSUME NEW c \in Conversations, SeedRow(c)
      PROVE  ListInv'
  <2>1. watch' \in [Threads -> {"none", "sent", "seeded", "live"}]
    BY <1>5 DEF SeedRow
  <2>2. Processing' = Processing
    BY <1>5 DEF SeedRow
  <2>3. QED
    BY <1>5, <2>1, <2>2 DEF SeedRow
<1>6. ASSUME NEW c \in Conversations, FirstFrame(c)
      PROVE  ListInv'
  <2>1. c \in Processing /\ Processing' = Processing
    BY <1>6 DEF FirstFrame, Threads
  <2>2. watch' \in [Threads -> {"none", "sent", "seeded", "live"}]
    BY <1>6 DEF FirstFrame
  <2>3. fetch'.step = "asked"
    BY <1>6 DEF FirstFrame, Refetch
  <2>4. QED
    BY <1>6, <2>1, <2>2, <2>3 DEF FirstFrame
<1>7. ASSUME NEW c \in Conversations, RunSettles(c)
      PROVE  ListInv'
  <2>1. watch' \in [Threads -> {"none", "sent", "seeded", "live"}] /\ Processing' \subseteq Processing
    BY <1>7 DEF RunSettles
  <2>2. QED
    BY <1>7, <2>1 DEF RunSettles, Refetch
<1>8. ASSUME NEW c \in Conversations, LoseStream(c)
      PROVE  ListInv'
  <2>1. watch' \in [Threads -> {"none", "sent", "seeded", "live"}] /\ Processing' \subseteq Processing
    BY <1>8 DEF LoseStream
  <2>2. CASE Refetch
    BY <1>8, <2>1, <2>2 DEF LoseStream, Refetch
  <2>3. CASE UNCHANGED fetch
    BY <1>8, <2>1, <2>3 DEF LoseStream
  <2>4. QED
    BY <1>8, <2>2, <2>3 DEF LoseStream
<1>9. ASSUME NEW t \in Threads, SeedElsewhere(t)
      PROVE  ListInv'
  BY <1>9 DEF SeedElsewhere
<1>10. ASSUME NEW t \in Threads, EndRun(t)
       PROVE  ListInv'
  BY <1>10 DEF EndRun
<1>11. ASSUME NEW t \in Threads, DeleteElsewhere(t)
       PROVE  ListInv'
  BY <1>11 DEF DeleteElsewhere
<1>12. CASE AskDelete
  <2>1. deletion.gone = {}
    BY <1>12 DEF AskDelete
  <2>2. PICK ts \in SUBSET MayDelete : dialog' = ts
    BY <1>12 DEF AskDelete
  <2>3. QED
    BY <1>12, <2>1, <2>2 DEF AskDelete, MayDelete
<1>13. CASE Cancel
  BY <1>13 DEF Cancel, None
<1>14. CASE ConfirmDelete
  BY <1>14 DEF ConfirmDelete, Asked
<1>15. CASE ServeDelete
  BY <1>15 DEF ServeDelete, Served
<1>16. CASE Deleted
  <2>1. watch' \in [Threads -> {"none", "sent", "seeded", "live"}] /\ dialog' = {} /\ deletion'.gone = {}
    BY <1>16 DEF Deleted, None
  <2>2. started' \subseteq saved' /\ deletion'.gone \subseteq dialog'
    BY <1>16, <2>1 DEF Deleted
  <2>3. StartedIsDue'
    BY <1>16 DEF Deleted, Without
  <2>4. QED
    BY <2>1, <2>2, <2>3
<1>17. CASE NotDeleted
  BY <1>17 DEF NotDeleted, None
<1>18. CASE UNCHANGED threadVars
  BY <1>18 DEF threadVars
<1> QED
  BY <1>1, <1>2, <1>3, <1>4, <1>5, <1>6, <1>7, <1>8, <1>9, <1>10, <1>11, <1>12, <1>13, <1>14,
     <1>15, <1>16, <1>17, <1>18 DEF ThreadNext

(* The inductive invariant of the list, the runs and the dialog.             *)
THEOREM ListInvariant == ThreadSpec => []ListInv
BY ListInitInv, ListStep, PTL DEF ThreadSpec

(* A run that began in view of this tab is listed, or a refetch that will    *)
(* list it is under way.                                                     *)
THEOREM StartedStaysListed == ThreadSpec => []StartedIsListed
<1>1. ListInv => StartedIsListed
  BY DEF ListInv, StartedIsDue, StartedIsListed
<1> QED
  BY <1>1, ListInvariant, PTL

(* No row the dialog is about has a stream of this tab: a run that begins in *)
(* view is never deleted under its stream.                                   *)
THEOREM DialogSparesOwnRuns == ThreadSpec => [](dialog \cap Processing = {})
<1>1. ListInv => dialog \cap Processing = {}
  BY DEF ListInv, DialogIsIdle
<1> QED
  BY <1>1, ListInvariant, PTL

-----------------------------------------------------------------------------
(* The conversations of a tab, for any number of conversations, messages and *)
(* loads, where no message is sent while a tier is being written and no load *)
(* outlasts the visit of its conversation.  The argument: a conversation     *)
(* runs exactly while its newest message streams, so what is pruned, cleared *)
(* or hydrated has none under way; and a conversation that holds nothing is  *)
(* about to be filled, on screen, with what the server has saved, which is   *)
(* its last exchange among it.                                               *)
Messages  == {"q", "a"} \X TurnsShown
PostSteps == {"new", "waiting", "streaming", "stopped", "landed", "broken"}

BrowserTypes ==
  /\ view \in Chats /\ savedTurns \in [Chats -> SUBSET TurnsShown]
  /\ buffer \in [Chats -> SUBSET Messages] /\ panel \in [Chats -> [TurnsShown -> Nat]]
  /\ running \in [Chats -> BOOLEAN] /\ newest \in [Chats -> TurnsShown]
  /\ post \in [Posts -> [of : Chats \cup {NoChat}, step : PostSteps, heard : BOOLEAN]]
  /\ load \in [Loads -> [of : Chats \cup {NoChat}, read : BOOLEAN, got : SUBSET TurnsShown]]

(* A message is unseen before it is sent, and belongs to one conversation.   *)
SentIsOfOne ==
  \A p \in Posts :
    /\ post[p].step # "waiting"
    /\ post[p].step = "new" => ~post[p].heard /\ \A c \in Chats : panel[c][p] = 0
    /\ post[p].step # "new" => post[p].of \in Chats
    /\ post[p].step = "landed" => p \in savedTurns[post[p].of]
    /\ \A c \in Chats : p \in savedTurns[c] => post[p].step # "new" /\ post[p].of = c

(* A conversation runs exactly while its newest message streams.             *)
RunIsNewest ==
  /\ \A p \in Posts : post[p].step = "streaming" => running[post[p].of] /\ newest[post[p].of] = p
  /\ \A c \in Chats :
       /\ newest[c] \in Posts => post[newest[c]].step # "new" /\ post[newest[c]].of = c
       /\ running[c] => newest[c] \in Posts /\ post[newest[c]].step = "streaming"

(* Only the conversation on screen is loading; if it holds nothing, its panel*)
(* is blank, and a load that has been read has its last exchange.            *)
LandedLast(c) == newest[c] \in Posts /\ post[newest[c]].step = "landed"

LoadsAreOfView ==
  /\ \A i \in Loads :
       /\ load[i].of \in {view, NoChat} /\ (load[i].read => load[i].of = view)
       /\ load[i].read /\ buffer[view] = {} /\ LandedLast(view) => newest[view] \in load[i].got
       /\ load[i].read => load[i].got \subseteq savedTurns[view]
  /\ Loading(view) # {} /\ buffer[view] = {} => panel[view] = Blank

ShownOrLoading ==
  \A c \in Chats :
    LandedLast(c) => \/ Exchange(newest[c]) \subseteq buffer[c]
                     \/ buffer[c] = {} /\ (c = view => Loading(c) # {})

NoEventTwice == \A c \in Chats, p \in TurnsShown : panel[c][p] <= 1

ShownInv == /\ BrowserTypes /\ SentIsOfOne /\ RunIsNewest /\ LoadsAreOfView /\ ShownOrLoading
            /\ NoEventTwice /\ LiveTurnKept
(* A load is of one conversation at a time, and the start has none.          *)
LEMMA ShownInit == BrowserInit => ShownInv
<1> SUFFICES ASSUME BrowserInit PROVE ShownInv
  OBVIOUS
<1>1. /\ History \notin Posts /\ History \in TurnsShown /\ Posts \subseteq TurnsShown
      /\ {History} \in SUBSET TurnsShown /\ {} \in SUBSET TurnsShown
  BY BrowserAssumption DEF History, TurnsShown
<1>2. /\ \A c \in Chats : savedTurns[c] \in {{}, {History}} /\ newest[c] = History /\ ~running[c]
      /\ \A p \in Posts : post[p] = [of |-> NoChat, step |-> "new", heard |-> FALSE]
      /\ \A i \in Loads : load[i] = NoLoad
      /\ \A c \in Chats, p \in TurnsShown : panel[c][p] = IF c = view /\ p \in savedTurns[c] THEN 1 ELSE 0
  BY DEF BrowserInit
<1>3. \A p \in TurnsShown : Exchange(p) \in SUBSET Messages
  BY DEF Exchange, Messages
<1>4. BrowserTypes
  <2>1. buffer \in [Chats -> SUBSET Messages]
    BY <1>1, <1>2, <1>3 DEF BrowserInit
  <2>2. panel \in [Chats -> [TurnsShown -> Nat]]
    BY DEF BrowserInit
  <2>3. savedTurns \in [Chats -> SUBSET TurnsShown] /\ view \in Chats /\ running \in [Chats -> BOOLEAN]
    BY <1>1 DEF BrowserInit
  <2>4. newest \in [Chats -> TurnsShown]
    BY <1>1 DEF BrowserInit
  <2>5. post \in [Posts -> [of : Chats \cup {NoChat}, step : PostSteps, heard : BOOLEAN]]
    BY DEF BrowserInit, PostSteps
  <2>6. load \in [Loads -> [of : Chats \cup {NoChat}, read : BOOLEAN, got : SUBSET TurnsShown]]
    BY <1>1 DEF BrowserInit, NoLoad
  <2> QED
    BY <2>1, <2>2, <2>3, <2>4, <2>5, <2>6 DEF BrowserTypes
<1>5. SentIsOfOne
  BY <1>1, <1>2 DEF SentIsOfOne
<1>6. RunIsNewest /\ ShownOrLoading /\ NoEventTwice /\ LiveTurnKept
  BY <1>1, <1>2 DEF RunIsNewest, ShownOrLoading, LandedLast, NoEventTwice, LiveTurnKept
<1>7. LoadsAreOfView
  <2>1. Loading(view) = {}
    BY <1>2, <1>4, ChatsAssumption DEF Loading, NoLoad, BrowserTypes
  <2> QED
    BY <1>2, <2>1 DEF LoadsAreOfView, NoLoad
<1> QED
  BY <1>4, <1>5, <1>6, <1>7 DEF ShownInv

(* What messages and posts are.                                              *)
LEMMA MessageTypes ==
  /\ \A p \in TurnsShown : {<<"q", p>>} \in SUBSET Messages /\ {<<"a", p>>} \in SUBSET Messages
                           /\ Exchange(p) \in SUBSET Messages
  /\ History \notin Posts /\ Posts \subseteq TurnsShown /\ Blank \in [TurnsShown -> Nat]
  /\ \A p \in TurnsShown : Blank[p] = 0
BY BrowserAssumption DEF Messages, Exchange, TurnsShown, History, Blank

(* A message is sent.                                                        *)
LEMMA SendShown ==
  ASSUME ~SlowTiers, ShownInv, NEW p \in Posts, Send(p)
  PROVE  ShownInv'
<1> USE DEF ShownInv
<1>1. /\ post[p].step = "new" /\ ~running[view] /\ view \in Chats /\ ~post[p].heard
      /\ \A c \in Chats : panel[c][p] = 0 /\ p \notin savedTurns[c]
  BY DEF Send, BrowserTypes, SentIsOfOne
<1>2. /\ buffer' = [buffer EXCEPT ![view] = @ \cup {<<"q", p>>}]
      /\ newest' = [newest EXCEPT ![view] = p]
      /\ post' = [post EXCEPT ![p].of = view, ![p].step = "streaming"]
      /\ running' = [running EXCEPT ![view] = TRUE]
      /\ UNCHANGED <<view, savedTurns, panel, load, marked>>
  <2>1. PICK waits \in {FALSE, SlowTiers} :
          /\ post' = [post EXCEPT ![p].of = view, ![p].step = IF waits THEN "waiting" ELSE "streaming"]
          /\ running' = [running EXCEPT ![view] = ~waits]
    BY DEF Send
  <2>2. ~waits
    OBVIOUS
  <2> QED
    BY <2>1, <2>2 DEF Send
<1>3. /\ post'[p].of = view /\ post'[p].step = "streaming" /\ post'[p].heard = post[p].heard
      /\ \A q \in Posts \ {p} : post'[q] = post[q]
      /\ post' \in [Posts -> [of : Chats \cup {NoChat}, step : PostSteps, heard : BOOLEAN]]
  BY <1>1, <1>2 DEF BrowserTypes, PostSteps
<1>4. /\ newest'[view] = p /\ \A c \in Chats \ {view} : newest'[c] = newest[c]
      /\ running'[view] /\ \A c \in Chats \ {view} : running'[c] = running[c]
      /\ buffer'[view] = buffer[view] \cup {<<"q", p>>} /\ \A c \in Chats \ {view} : buffer'[c] = buffer[c]
  BY <1>2 DEF BrowserTypes
<1>5. \A q \in Posts \ {p} : post[q].step = "streaming" => post[q].of # view
  BY <1>1 DEF RunIsNewest
<1>6. BrowserTypes'
  <2>1. {<<"q", p>>} \in SUBSET Messages /\ p \in TurnsShown
    BY MessageTypes
  <2>2. buffer' \in [Chats -> SUBSET Messages]
    BY <1>2, <2>1 DEF BrowserTypes
  <2>3. newest' \in [Chats -> TurnsShown] /\ running' \in [Chats -> BOOLEAN]
    BY <1>2, <2>1 DEF BrowserTypes
  <2> QED
    BY <1>2, <1>3, <2>2, <2>3 DEF BrowserTypes
<1>7. SentIsOfOne'
  BY <1>1, <1>2, <1>3 DEF SentIsOfOne
<1>8. RunIsNewest'
  <2>1. \A q \in Posts : post'[q].step = "streaming" => running'[post'[q].of] /\ newest'[post'[q].of] = q
    BY <1>1, <1>3, <1>4, <1>5 DEF RunIsNewest, SentIsOfOne
  <2>2. \A c \in Chats \ {view} : newest[c] # p
    BY <1>1 DEF RunIsNewest
  <2>3. ASSUME NEW c \in Chats
        PROVE  /\ newest'[c] \in Posts => post'[newest'[c]].step # "new" /\ post'[newest'[c]].of = c
               /\ running'[c] => newest'[c] \in Posts /\ post'[newest'[c]].step = "streaming"
    BY <1>3, <1>4, <2>2 DEF RunIsNewest
  <2> QED
    BY <2>1, <2>3 DEF RunIsNewest
<1>9. LoadsAreOfView'
  <2>1. buffer'[view] # {} /\ view' = view /\ load' = load /\ savedTurns' = savedTurns
    BY <1>2, <1>4
  <2> QED
    BY <2>1 DEF LoadsAreOfView
<1>10. ShownOrLoading'
  <2>1. \A c \in Chats \ {view} : LandedLast(c)' => LandedLast(c)
    BY <1>3, <1>4 DEF LandedLast
  <2>2. ~LandedLast(view)'
    BY <1>2, <1>3, <1>4 DEF LandedLast
  <2>3. \A c \in Chats : Loading(c)' = Loading(c)
    BY <1>2 DEF Loading
  <2> QED
    BY <1>2, <1>4, <2>1, <2>2, <2>3 DEF ShownOrLoading
<1>11. NoEventTwice'
  BY <1>2 DEF NoEventTwice
<1>12. LiveTurnKept'
  BY <1>1, <1>2, <1>3, <1>4, <1>5 DEF LiveTurnKept, SentIsOfOne
<1> QED
  BY <1>6, <1>7, <1>8, <1>9, <1>10, <1>11, <1>12

(* The events of a turn come.                                                *)
LEMMA HearShown ==
  ASSUME ShownInv, NEW p \in Posts, Hear(p)
  PROVE  ShownInv'
<1> USE DEF ShownInv
<1> DEFINE c == post[p].of
<1>1. /\ post[p].step = "streaming" /\ ~post[p].heard /\ c \in Chats /\ p \in TurnsShown
      /\ panel[c][p] = 0 /\ <<"q", p>> \in buffer[c]
  BY MessageTypes DEF Hear, SentIsOfOne, LiveTurnKept
<1>2. /\ post' = [post EXCEPT ![p].heard = TRUE] /\ panel' = [panel EXCEPT ![c][p] = panel[c][p] + 1]
      /\ UNCHANGED <<view, savedTurns, buffer, running, newest, load, marked>>
  BY DEF Hear
<1>3. /\ post'[p].of = c /\ post'[p].step = "streaming" /\ post'[p].heard
      /\ \A q \in Posts \ {p} : post'[q] = post[q]
      /\ \A q \in Posts : post'[q].of = post[q].of /\ post'[q].step = post[q].step
      /\ post' \in [Posts -> [of : Chats \cup {NoChat}, step : PostSteps, heard : BOOLEAN]]
  BY ZenonT(30), <1>1, <1>2 DEF BrowserTypes
<1> HIDE DEF c
<1>4. /\ panel'[c][p] = 1 /\ \A d \in Chats, q \in TurnsShown : d # c \/ q # p => panel'[d][q] = panel[d][q]
      /\ \A d \in Chats \ {c} : panel'[d] = panel[d]
      /\ panel' \in [Chats -> [TurnsShown -> Nat]]
  BY <1>1, <1>2 DEF BrowserTypes
<1>5. BrowserTypes'
  BY <1>2, <1>3, <1>4 DEF BrowserTypes
<1>6. SentIsOfOne'
  BY <1>1, <1>2, <1>3, <1>4, MessageTypes DEF SentIsOfOne
<1>7. RunIsNewest' /\ ShownOrLoading' /\ \A d \in Chats : (LandedLast(d)' <=> LandedLast(d))
  BY <1>2, <1>3 DEF RunIsNewest, ShownOrLoading, LandedLast, Loading
<1>8. LoadsAreOfView'
  <2>1. buffer[view] = {} => panel'[view] = panel[view]
    BY <1>1, <1>4 DEF BrowserTypes
  <2>2. view' = view /\ view \in Chats /\ load' = load /\ savedTurns' = savedTurns /\ buffer' = buffer /\ newest' = newest
    BY <1>2 DEF BrowserTypes
  <2> QED
    BY <1>7, <2>1, <2>2 DEF LoadsAreOfView, Loading
<1>9. NoEventTwice'
  BY <1>4 DEF NoEventTwice
<1>10. LiveTurnKept'
  BY <1>1, <1>2, <1>3, <1>4, MessageTypes DEF LiveTurnKept, SentIsOfOne
<1> QED
  BY <1>5, <1>6, <1>7, <1>8, <1>9, <1>10

(* The server saves a turn.                                                  *)
LEMMA SaveShown ==
  ASSUME ShownInv, NEW p \in Posts, ServerSaves(p)
  PROVE  ShownInv'
<1> USE DEF ShownInv
<1>1. /\ post[p].step \in {"streaming", "stopped"} /\ post[p].of \in Chats /\ p \in TurnsShown
      /\ savedTurns' = [savedTurns EXCEPT ![post[p].of] = @ \cup {p}]
      /\ view' = view /\ buffer' = buffer /\ panel' = panel /\ running' = running /\ post' = post
      /\ newest' = newest /\ load' = load
  BY MessageTypes DEF ServerSaves, registry, SentIsOfOne
<1>2. /\ savedTurns' \in [Chats -> SUBSET TurnsShown]
      /\ \A c \in Chats : savedTurns[c] \subseteq savedTurns'[c]
      /\ \A c \in Chats : \A q \in savedTurns'[c] : q \in savedTurns[c] \/ (q = p /\ c = post[p].of)
  BY <1>1 DEF BrowserTypes
<1>3. BrowserTypes'
  BY <1>1, <1>2 DEF BrowserTypes
<1>4. SentIsOfOne'
  BY <1>1, <1>2 DEF SentIsOfOne
<1>5. RunIsNewest' /\ ShownOrLoading' /\ NoEventTwice' /\ LiveTurnKept'
  BY <1>1 DEF RunIsNewest, ShownOrLoading, LandedLast, Loading, NoEventTwice, LiveTurnKept
<1>6. LoadsAreOfView'
  BY <1>1, <1>2 DEF LoadsAreOfView, LandedLast, Loading, BrowserTypes
<1> QED
  BY <1>3, <1>4, <1>5, <1>6

(* A stream ends, or is stopped.                                             *)
LEMMA EndShown ==
  ASSUME ShownInv, NEW p \in Posts, Land(p) \/ Stop(p)
  PROVE  ShownInv'
<1> USE DEF ShownInv
<1> SUFFICES ASSUME NEW c, c = post[p].of PROVE ShownInv'
  OBVIOUS
<1>1. /\ post[p].step = "streaming" /\ c \in Chats /\ p \in TurnsShown /\ view \in Chats
      /\ <<"q", p>> \in buffer[c] /\ running[c] /\ newest[c] = p
      /\ \A q \in Posts \ {p} : post[q].step = "streaming" => post[q].of # c
  BY MessageTypes DEF Land, Stop, SentIsOfOne, LiveTurnKept, RunIsNewest, BrowserTypes
<1>2. PICK s \in {"landed", "broken", "stopped"} :
        /\ post' = [post EXCEPT ![p].step = s]
        /\ s = "landed" => p \in savedTurns[c] /\ buffer' = [buffer EXCEPT ![c] = buffer[c] \cup {<<"a", p>>}]
  BY <1>1 DEF Land, Stop
<1>3. /\ buffer' \in {buffer, [buffer EXCEPT ![c] = buffer[c] \cup {<<"a", p>>}]}
      /\ running' = [running EXCEPT ![c] = FALSE]
      /\ view' = view /\ savedTurns' = savedTurns /\ panel' = panel /\ newest' = newest /\ load' = load
  <2>1. CASE Land(p)
    BY <2>1 DEF Land
  <2>2. CASE Stop(p)
    BY <2>2 DEF Stop, registry
  <2> QED
    BY <2>1, <2>2
<1>4. /\ post'[p].of = c /\ post'[p].step = s /\ \A q \in Posts \ {p} : post'[q] = post[q]
      /\ \A q \in Posts : post'[q].of = post[q].of /\ post'[q].heard = post[q].heard
      /\ post' \in [Posts -> [of : Chats \cup {NoChat}, step : PostSteps, heard : BOOLEAN]]
  <2>1. post \in [Posts -> [of : Chats \cup {NoChat}, step : PostSteps, heard : BOOLEAN]] /\ s \in PostSteps
    BY DEF BrowserTypes, PostSteps
  <2> QED
    BY <1>1, <1>2, <2>1
<1>5. /\ buffer' \in [Chats -> SUBSET Messages] /\ \A d \in Chats : buffer[d] \subseteq buffer'[d]
      /\ \A d \in Chats \ {c} : buffer'[d] = buffer[d]
      /\ s = "landed" => <<"a", p>> \in buffer'[c]
      /\ running' \in [Chats -> BOOLEAN] /\ ~running'[c] /\ \A d \in Chats \ {c} : running'[d] = running[d]
  <2>1. {<<"a", p>>} \in SUBSET Messages
    BY <1>1, MessageTypes
  <2>2. c \in Chats /\ buffer \in [Chats -> SUBSET Messages] /\ running \in [Chats -> BOOLEAN]
    BY <1>1 DEF BrowserTypes
  <2>3. running' \in [Chats -> BOOLEAN] /\ ~running'[c] /\ \A d \in Chats \ {c} : running'[d] = running[d]
    BY <1>3, <2>2
  <2>4. CASE buffer' = buffer /\ s # "landed"
    BY <2>2, <2>3, <2>4
  <2>5. CASE buffer' = [buffer EXCEPT ![c] = buffer[c] \cup {<<"a", p>>}]
    <3>1. buffer'[c] = buffer[c] \cup {<<"a", p>>} /\ \A d \in Chats \ {c} : buffer'[d] = buffer[d]
      BY <2>2, <2>5
    <3>2. buffer' \in [Chats -> SUBSET Messages]
      BY <2>1, <2>2, <2>5
    <3> QED
      BY <2>3, <3>1, <3>2
  <2> QED
    BY <1>2, <1>3, <2>4, <2>5
<1>6. BrowserTypes'
  BY <1>3, <1>4, <1>5 DEF BrowserTypes
<1>7. SentIsOfOne'
  BY <1>1, <1>2, <1>3, <1>4 DEF SentIsOfOne
<1>8. RunIsNewest'
  BY <1>1, <1>3, <1>4, <1>5 DEF RunIsNewest, SentIsOfOne
<1>9. \A d \in Chats : LandedLast(d)' => LandedLast(d) \/ (d = c /\ s = "landed" /\ newest[d] = p)
  BY <1>1, <1>3, <1>4 DEF LandedLast, RunIsNewest
<1>10. buffer'[c] # {} /\ buffer[c] # {}
  BY <1>1, <1>5
<1>11. LoadsAreOfView'
  <2>1. view = c => buffer'[view] # {}
    BY <1>10
  <2>2. view # c => buffer'[view] = buffer[view] /\ (LandedLast(view)' => LandedLast(view))
    BY <1>1, <1>3, <1>5, <1>9
  <2> QED
    BY <1>3, <2>1, <2>2 DEF LoadsAreOfView, Loading, LandedLast
<1>12. ShownOrLoading'
  <2> SUFFICES ASSUME NEW d \in Chats, LandedLast(d)'
               PROVE  \/ Exchange(newest[d]) \subseteq buffer'[d]
                      \/ buffer'[d] = {} /\ (d = view => Loading(d) # {})
    BY <1>3 DEF ShownOrLoading, Loading
  <2>1. CASE LandedLast(d)
    BY <1>5, <1>10, <2>1 DEF ShownOrLoading
  <2>2. CASE d = c /\ s = "landed" /\ newest[d] = p
    BY <1>1, <1>5, <2>2 DEF Exchange
  <2> QED
    BY <1>9, <2>1, <2>2
<1>13. NoEventTwice' /\ LiveTurnKept'
  BY <1>1, <1>2, <1>3, <1>4, <1>5 DEF NoEventTwice, LiveTurnKept, SentIsOfOne
<1> QED
  BY <1>6, <1>7, <1>8, <1>11, <1>12, <1>13

(* Another conversation comes on screen; what others hold may be dropped, but*)
(* not under a run.                                                          *)
LEMMA OpenShown ==
  ASSUME ~SlowLoads, ShownInv, NEW c \in Chats \ {view},
         NEW kept \in [Chats -> SUBSET Messages], NEW panels \in [Chats -> [TurnsShown -> Nat]],
         \A d \in Chats : \/ kept[d] = buffer[d] /\ panels[d] = panel[d]
                          \/ kept[d] = {} /\ panels[d] = Blank /\ ~running[d] /\ d # c,
         Open(c, kept, panels), UNCHANGED <<savedTurns, running, post, newest>>
  PROVE  ShownInv'
<1> USE DEF ShownInv
<1>1. Loading(view) = {} /\ view' = c /\ view \in Chats /\ savedTurns' = savedTurns /\ running' = running
      /\ post' = post /\ newest' = newest
  BY DEF Open, BrowserTypes
<1>2. \A i \in Loads : load[i].of = NoChat /\ ~load[i].read
  BY <1>1, ChatsAssumption DEF Loading, LoadsAreOfView
<1>3. CASE HasLocalTurn(c, kept[c])
  <2>1. buffer' = kept /\ panel' = panels /\ load' = load
    BY <1>3 DEF Open
  <2>2. kept[c] = buffer[c] /\ (running[c] \/ buffer[c] # {})
    BY <1>3 DEF HasLocalTurn
  <2>3. ~LandedLast(c) \/ buffer[c] # {}
    BY <2>2 DEF RunIsNewest, LandedLast
  <2>4. BrowserTypes'
    BY <1>1, <2>1 DEF BrowserTypes
  <2>5. SentIsOfOne'
    BY <1>1, <2>1, MessageTypes DEF SentIsOfOne
  <2>6. RunIsNewest' /\ \A d \in Chats : (LandedLast(d)' <=> LandedLast(d))
    BY <1>1 DEF RunIsNewest, LandedLast
  <2>7. Loading(c)' = {}
    BY <1>2, <2>1, ChatsAssumption DEF Loading
  <2>8. LoadsAreOfView'
    BY <1>1, <1>2, <2>1, <2>7 DEF LoadsAreOfView
  <2>9. ShownOrLoading'
    BY <1>1, <2>1, <2>2, <2>3, <2>6 DEF ShownOrLoading
  <2>10. NoEventTwice'
    BY <2>1, MessageTypes DEF NoEventTwice
  <2>11. LiveTurnKept'
    BY <1>1, <2>1 DEF LiveTurnKept, RunIsNewest, SentIsOfOne
  <2> QED
    BY <2>4, <2>5, <2>6, <2>8, <2>9, <2>10, <2>11
<1>4. CASE ~HasLocalTurn(c, kept[c])
  <2>1. PICK i \in Loads : load' = [load EXCEPT ![i] = [NoLoad EXCEPT !.of = c]]
    BY <1>4 DEF Open, Loading
  <2>2. buffer' = [kept EXCEPT ![c] = {}] /\ panel' = [panels EXCEPT ![c] = Blank] /\ ~running[c]
    BY <1>4 DEF Open, HasLocalTurn
  <2>3. /\ buffer' \in [Chats -> SUBSET Messages] /\ buffer'[c] = {}
        /\ panel' \in [Chats -> [TurnsShown -> Nat]] /\ panel'[c] = Blank
        /\ \A d \in Chats : \/ buffer'[d] = buffer[d] /\ panel'[d] = panel[d] /\ d # c
                            \/ buffer'[d] = {} /\ panel'[d] = Blank /\ ~running[d]
    BY <2>2, MessageTypes
  <2>4. /\ load'[i].of = c /\ ~load'[i].read /\ \A j \in Loads : j # i => load'[j] = load[j]
        /\ load' \in [Loads -> [of : Chats \cup {NoChat}, read : BOOLEAN, got : SUBSET TurnsShown]]
    BY <2>1 DEF BrowserTypes, NoLoad
  <2>5. BrowserTypes'
    BY <1>1, <2>3, <2>4 DEF BrowserTypes
  <2>6. SentIsOfOne'
    BY <1>1, <2>3, MessageTypes DEF SentIsOfOne
  <2>7. RunIsNewest' /\ \A d \in Chats : (LandedLast(d)' <=> LandedLast(d))
    BY <1>1 DEF RunIsNewest, LandedLast
  <2>8. Loading(c)' # {}
    BY <2>4 DEF Loading
  <2>9. LoadsAreOfView'
    BY <1>1, <1>2, <2>3, <2>4 DEF LoadsAreOfView
  <2>10. ShownOrLoading'
    BY <1>1, <2>3, <2>7, <2>8 DEF ShownOrLoading
  <2>11. NoEventTwice'
    BY <2>3, MessageTypes DEF NoEventTwice
  <2>12. LiveTurnKept'
    BY <1>1, <2>3 DEF LiveTurnKept, RunIsNewest, SentIsOfOne
  <2> QED
    BY <2>5, <2>6, <2>7, <2>9, <2>10, <2>11, <2>12
<1> QED
  BY <1>3, <1>4

(* A load reads what the server has saved.                                   *)
LEMMA ReadShown ==
  ASSUME ShownInv, NEW i \in Loads, ServerReads(i)
  PROVE  ShownInv'
<1> USE DEF ShownInv
<1>1. load[i].of = view /\ view \in Chats
  BY DEF ServerReads, LoadsAreOfView, BrowserTypes
<1>2. /\ load' = [load EXCEPT ![i].read = TRUE, ![i].got = savedTurns[view]]
      /\ view' = view /\ savedTurns' = savedTurns /\ buffer' = buffer /\ panel' = panel /\ running' = running
      /\ post' = post /\ newest' = newest
  BY <1>1 DEF ServerReads, registry
<1>3. /\ load'[i].of = view /\ load'[i].read /\ load'[i].got = savedTurns[view]
      /\ \A j \in Loads : load'[j].of = load[j].of /\ (j # i => load'[j] = load[j])
      /\ load' \in [Loads -> [of : Chats \cup {NoChat}, read : BOOLEAN, got : SUBSET TurnsShown]]
  <2>1. /\ load \in [Loads -> [of : Chats \cup {NoChat}, read : BOOLEAN, got : SUBSET TurnsShown]]
        /\ savedTurns[view] \in SUBSET TurnsShown
    BY <1>1 DEF BrowserTypes
  <2> DEFINE r == [load[i] EXCEPT !.read = TRUE, !.got = savedTurns[view]]
  <2>2. r \in [of : Chats \cup {NoChat}, read : BOOLEAN, got : SUBSET TurnsShown]
    BY <2>1
  <2>3. r.of = view /\ r.read /\ r.got = savedTurns[view] /\ load' = [load EXCEPT ![i] = r]
    BY <1>1, <1>2, <2>1
  <2> HIDE DEF r
  <2> QED
    BY <1>1, <2>1, <2>2, <2>3
<1>4. LandedLast(view) => newest[view] \in savedTurns[view]
  BY <1>1 DEF LandedLast, RunIsNewest, SentIsOfOne
<1>5. BrowserTypes'
  BY <1>2, <1>3 DEF BrowserTypes
<1>6. \A c \in Chats : (LandedLast(c)' <=> LandedLast(c)) /\ Loading(c)' = Loading(c)
  BY <1>2, <1>3 DEF LandedLast, Loading
<1>7. SentIsOfOne' /\ RunIsNewest' /\ NoEventTwice' /\ LiveTurnKept'
  BY <1>2 DEF SentIsOfOne, RunIsNewest, NoEventTwice, LiveTurnKept
<1>8. ShownOrLoading'
  BY <1>2, <1>6 DEF ShownOrLoading
<1>9. LoadsAreOfView'
  BY <1>1, <1>2, <1>3, <1>4, <1>6 DEF LoadsAreOfView
<1> QED
  BY <1>5, <1>7, <1>8, <1>9

(* What was loaded fills the conversation on screen if it holds nothing.     *)
LEMMA HydrateShown ==
  ASSUME ShownInv, NEW i \in Loads, Hydrate(i)
  PROVE  ShownInv'
<1> USE DEF ShownInv
<1>1. load[i].of = view /\ load[i].read /\ view \in Chats /\ Loading(view) # {}
  BY DEF Hydrate, LoadsAreOfView, BrowserTypes, Loading
<1>2. /\ load' = [load EXCEPT ![i] = NoLoad]
      /\ view' = view /\ savedTurns' = savedTurns /\ running' = running /\ post' = post /\ newest' = newest
  BY DEF Hydrate
<1>3. /\ load'[i] = NoLoad /\ NoLoad.of = NoChat /\ ~NoLoad.read /\ \A j \in Loads : j # i => load'[j] = load[j]
      /\ load' \in [Loads -> [of : Chats \cup {NoChat}, read : BOOLEAN, got : SUBSET TurnsShown]]
      /\ load[i].got \in SUBSET TurnsShown
  BY <1>2 DEF BrowserTypes, NoLoad
<1>4. RunIsNewest' /\ (\A d \in Chats : (LandedLast(d)' <=> LandedLast(d))) /\ \A d \in Chats : Loading(d)' \subseteq Loading(d)
  BY <1>2, <1>3, ChatsAssumption DEF RunIsNewest, LandedLast, Loading
<1>5. CASE HasLocalTurn(view, buffer[view])
  <2>1. buffer' = buffer /\ panel' = panel
    BY <1>1, <1>5 DEF Hydrate, registry
  <2>2. ~LandedLast(view) \/ buffer[view] # {}
    BY <1>1, <1>5 DEF HasLocalTurn, RunIsNewest, LandedLast
  <2>3. BrowserTypes' /\ SentIsOfOne' /\ NoEventTwice' /\ LiveTurnKept'
    BY <1>2, <1>3, <2>1 DEF BrowserTypes, SentIsOfOne, NoEventTwice, LiveTurnKept
  <2>4. LoadsAreOfView'
    BY <1>1, <1>2, <1>3, <1>4, <2>1 DEF LoadsAreOfView
  <2>5. ShownOrLoading'
    BY <1>1, <1>2, <1>4, <2>1, <2>2 DEF ShownOrLoading
  <2> QED
    BY <1>4, <2>3, <2>4, <2>5
<1>6. CASE ~HasLocalTurn(view, buffer[view])
  <2> DEFINE all == UNION {Exchange(p) : p \in load[i].got}
             shown == [p \in TurnsShown |-> panel[view][p] + (IF p \in load[i].got THEN 1 ELSE 0)]
  <2>1. buffer' = [buffer EXCEPT ![view] = all] /\ panel' = [panel EXCEPT ![view] = shown]
    BY <1>1, <1>6 DEF Hydrate
  <2>2. buffer[view] = {} /\ ~running[view] /\ panel[view] = Blank
    BY <1>1, <1>6 DEF HasLocalTurn, LoadsAreOfView
  <2>3. /\ all \in SUBSET Messages /\ \A p \in load[i].got : Exchange(p) \subseteq all
        /\ all = {} => load[i].got = {}
    <3>1. \A p \in TurnsShown : Exchange(p) \in SUBSET Messages /\ Exchange(p) # {}
      BY MessageTypes DEF Exchange
    <3> QED
      BY <1>3, <3>1
  <2>4. /\ \A p \in TurnsShown : shown[p] = IF p \in load[i].got THEN 1 ELSE 0
        /\ shown \in [TurnsShown -> Nat]
    BY <2>2, MessageTypes
  <2>5. load[i].got = {} => shown = Blank
    BY <2>4 DEF Blank
  <2> HIDE DEF all, shown
  <2>6. /\ buffer' \in [Chats -> SUBSET Messages] /\ buffer'[view] = all
        /\ panel' \in [Chats -> [TurnsShown -> Nat]] /\ panel'[view] = shown
        /\ \A d \in Chats \ {view} : buffer'[d] = buffer[d] /\ panel'[d] = panel[d]
    BY <1>1, <2>1, <2>3, <2>4 DEF BrowserTypes
  <2>7. BrowserTypes'
    BY <1>2, <1>3, <2>6 DEF BrowserTypes
  <2>8. SentIsOfOne'
    <3>1. \A p \in Posts : post[p].step = "new" => p \notin load[i].got
      BY <1>1 DEF SentIsOfOne, LoadsAreOfView
    <3> QED
      BY <1>1, <1>2, <2>4, <2>6, <3>1, MessageTypes DEF SentIsOfOne
  <2>9. NoEventTwice'
    BY <1>1, <2>4, <2>6 DEF NoEventTwice
  <2>10. LiveTurnKept'
    <3>1. \A p \in Posts : post[p].step = "streaming" => post[p].of # view /\ post[p].of \in Chats
      BY <2>2 DEF RunIsNewest, SentIsOfOne
    <3> QED
      BY <1>2, <2>6, <3>1 DEF LiveTurnKept
  <2>11. LandedLast(view) => newest[view] \in load[i].got
    BY <1>1, <2>2 DEF LoadsAreOfView
  <2>12. ShownOrLoading'
    BY <1>1, <1>2, <1>4, <2>3, <2>6, <2>11 DEF ShownOrLoading
  <2>13. LoadsAreOfView'
    <3>1. all = {} => shown = Blank /\ ~LandedLast(view)
      BY <2>3, <2>5, <2>11
    <3> QED
      BY <1>1, <1>2, <1>3, <1>4, <2>2, <2>6, <3>1 DEF LoadsAreOfView
  <2> QED
    BY <1>4, <2>7, <2>8, <2>9, <2>10, <2>12, <2>13
<1> QED
  BY <1>5, <1>6

(* Every step keeps what is shown.                                           *)
LEMMA ShownStep == ~SlowTiers /\ ~SlowLoads /\ ShownInv /\ [BrowserNext]_browserVars => ShownInv'
<1> SUFFICES ASSUME ~SlowTiers, ~SlowLoads, ShownInv, [BrowserNext]_browserVars PROVE ShownInv'
  OBVIOUS
<1>0. buffer \in [Chats -> SUBSET Messages] /\ panel \in [Chats -> [TurnsShown -> Nat]]
  BY DEF ShownInv, BrowserTypes
<1>1. CASE UNCHANGED browserVars
  BY <1>1 DEF browserVars, ShownInv, BrowserTypes, SentIsOfOne, RunIsNewest, LoadsAreOfView, ShownOrLoading, LandedLast,
     NoEventTwice, LiveTurnKept, Loading
<1>2. ASSUME NEW p \in Posts PROVE ~OpenStream(p)
  BY DEF OpenStream, ShownInv, SentIsOfOne
<1>3. ASSUME NEW c \in Chats, Select(c) PROVE ShownInv'
  <2> DEFINE kept == [d \in Chats |-> IF d \in Prunable(c) THEN {} ELSE buffer[d]]
             panels == [d \in Chats |-> IF d \in Prunable(c) THEN Blank ELSE panel[d]]
  <2>1. /\ c \in Chats \ {view} /\ Open(c, kept, panels) /\ UNCHANGED <<savedTurns, running, post, newest>>
    BY <1>3 DEF Select
  <2>2. kept \in [Chats -> SUBSET Messages] /\ panels \in [Chats -> [TurnsShown -> Nat]]
    BY <1>0, MessageTypes
  <2>3. \A d \in Chats : \/ kept[d] = buffer[d] /\ panels[d] = panel[d]
                         \/ kept[d] = {} /\ panels[d] = Blank /\ ~running[d] /\ d # c
    BY DEF Prunable
  <2> HIDE DEF kept, panels
  <2> QED
    BY <2>1, <2>2, <2>3, OpenShown
<1>4. ASSUME NEW c \in Chats, Back(c) PROVE ShownInv'
  BY <1>0, <1>4, OpenShown DEF Back
<1> QED
  BY <1>1, <1>2, <1>3, <1>4, SendShown, HearShown, SaveShown, EndShown, ReadShown, HydrateShown DEF BrowserNext

(* No exchange is lost from sight and no event shown twice, neither while a  *)
(* turn runs in the background nor when its conversation is opened, pruned   *)
(* and hydrated again (session-registry.ts, ChatInterface.tsx), as long as   *)
(* no message is sent while the tier is being written and no load outlasts   *)
(* the visit it is for.                                                      *)
THEOREM ExchangesStayShown ==
  ASSUME ~SlowTiers, ~SlowLoads
  PROVE  BrowserSpec => []ExchangesShown
<1>1. ShownInv => ExchangesShown
  <2> SUFFICES ASSUME ShownInv, AtRest PROVE LastTurnShown
    BY DEF ExchangesShown, ShownInv, LastTurnShown
  <2>1. view \in Chats /\ Loading(view) = {}
    BY DEF ShownInv, BrowserTypes, AtRest
  <2>2. LandedLast(view) => Exchange(newest[view]) \subseteq buffer[view]
    BY <2>1 DEF ShownInv, ShownOrLoading
  <2> QED
    BY <2>1, <2>2 DEF LastTurnShown, LandedLast, ShownInv, NoEventTwice
<1> QED
  BY <1>1, ShownInit, ShownStep, PTL DEF BrowserSpec
-----------------------------------------------------------------------------
(* A turn on the wire, for any number of events and heartbeats, cut into    *)
(* chunks anywhere.  The argument: what the parser holds back and what is   *)
(* on the wire make a text that is laid out in whole frames and heartbeats, *)
(* one frame for each event the client has not heard; a piece the parser    *)
(* takes leaves the text as it is, or takes its first unit away.            *)
EventRec ==
  [name : Unnamed \cup {"none", "warming", "done", "error", "title_updated"}, n : Nat,
   status : Statuses \cup {"none"}]
PieceRec == [kind : {"newline", "comment", "header", "data", "dataEnd"}, event : EventRec]

Spells(T, lo, hi, u) == hi = lo + Len(u) /\ \A i \in 1..Len(u) : T[lo + i] = u[i]
Unit(s, T, lo, hi, from, to) ==
  \/ to = from /\ Spells(T, lo, hi, KeepAlive)
  \/ to = from + 1 /\ Spells(T, lo, hi, Frame(s[to]))

(* The text T tells the events of s behind the k-th in m units: the first j *)
(* of them end at a[j], and with them the events up to c[j] are told.       *)
Laid(s, T, k, m, a, c) ==
  /\ a \in [0..m -> Nat] /\ c \in [0..m -> Nat]
  /\ a[0] = 0 /\ a[m] = Len(T) /\ c[0] = k /\ c[m] = Len(s)
  /\ \A i, j \in 0..m : i <= j => a[i] <= a[j] /\ c[i] <= c[j]
  /\ \A j \in 1..m : Unit(s, T, a[j - 1], a[j], c[j - 1], c[j])

IsLaid(s, T, k, r) ==
  \E m \in Nat : \E a, c \in [0..m -> Nat] : Laid(s, T, k, m, a, c) /\ (m > 0 => r < a[1])
InFlight(s, rest, w, k) == IsLaid(s, rest \o w, k, Len(rest))

(* A number that follows those before it is in every set they are in.       *)
LEMMA UpTo ==
  ASSUME NEW k \in Nat, NEW S, 0 \in S, \A i \in Nat : i \in S /\ i < k => i + 1 \in S
  PROVE  \A i \in 0..k : i \in S
<1> DEFINE R == OpToRel(<, Nat)
           Bad == {i \in 0..k : i \notin S}
<1>1. IsWellFoundedOn(R, Nat)
  BY NatLessThanWellFounded
<1>2. \A x, y \in Nat : x < y => <<x, y>> \in R
  BY DEF OpToRel
<1> HIDE DEF R
<1>3. ASSUME Bad # {} PROVE FALSE
  <2>1. Bad \subseteq Nat
    OBVIOUS
  <2> HIDE DEF Bad
  <2>2. PICK x \in Bad : \A y \in Bad : <<y, x>> \notin R
    BY <1>1, <1>3, <2>1, WFMin
  <2>3. x \in 0..k /\ x \notin S
    BY <2>2 DEF Bad
  <2>4. x - 1 \in Nat /\ x - 1 < x /\ x - 1 < k
    BY <2>3
  <2>5. x - 1 \in S
    <3>1. <<x - 1, x>> \in R
      <4>1. x \in Nat
        BY <2>3
      <4> QED
        BY <1>2, <2>4, <4>1
    <3>2. x - 1 \notin Bad
      BY <2>2, <3>1
    <3> QED
      BY <2>3, <2>4, <3>2 DEF Bad
  <2>6. x - 1 + 1 \in S
    BY <2>4, <2>5
  <2> QED
    BY <2>3, <2>6
<1> QED
  BY <1>3

(* What a frame is made of.                                                 *)
LEMMA FrameForm ==
  ASSUME NEW e \in EventRec
  PROVE  /\ Frame(e) \in Seq(PieceRec) /\ KeepAlive \in Seq(PieceRec)
         /\ Len(KeepAlive) = 3 /\ KeepAlive[1] = Piece("comment", NoEvent)
         /\ KeepAlive[2] = NewLine /\ KeepAlive[3] = NewLine
         /\ e.name \in Unnamed =>
              /\ Len(Frame(e)) = 4 /\ Frame(e)[1] = Piece("data", e) /\ Frame(e)[2] = Piece("dataEnd", e)
              /\ Frame(e)[3] = NewLine /\ Frame(e)[4] = NewLine
         /\ e.name \notin Unnamed =>
              /\ Len(Frame(e)) = 6 /\ Frame(e)[1] = Piece("header", e) /\ Frame(e)[2] = NewLine
              /\ Frame(e)[3] = Piece("data", e) /\ Frame(e)[4] = Piece("dataEnd", e)
              /\ Frame(e)[5] = NewLine /\ Frame(e)[6] = NewLine
<1>1. NoEvent \in EventRec
  BY DEF NoEvent, EventRec
<1>2. NewLine \in PieceRec /\ \A k \in {"comment", "header", "data", "dataEnd"}, x \in EventRec : Piece(k, x) \in PieceRec
  BY <1>1 DEF NewLine, Piece, PieceRec
<1>3. /\ KeepAlive \in Seq(PieceRec) /\ Len(KeepAlive) = 3 /\ KeepAlive[1] = Piece("comment", NoEvent)
      /\ KeepAlive[2] = NewLine /\ KeepAlive[3] = NewLine
  BY <1>1, <1>2 DEF KeepAlive
<1> DEFINE tail == <<Piece("data", e), Piece("dataEnd", e), NewLine, NewLine>>
           head == <<Piece("header", e), NewLine>>
<1>4. /\ tail \in Seq(PieceRec) /\ head \in Seq(PieceRec) /\ Len(tail) = 4 /\ Len(head) = 2
      /\ tail[1] = Piece("data", e) /\ tail[2] = Piece("dataEnd", e) /\ tail[3] = NewLine /\ tail[4] = NewLine
      /\ head[1] = Piece("header", e) /\ head[2] = NewLine
  BY <1>1, <1>2
<1>5. Frame(e) = IF e.name \in Unnamed THEN <<>> \o tail ELSE head \o tail
  BY DEF Frame
<1> HIDE DEF head, tail
<1>6. CASE e.name \in Unnamed
  BY <1>3, <1>4, <1>5, <1>6
<1>7. CASE e.name \notin Unnamed
  <2>1. Frame(e) = head \o tail
    BY <1>5, <1>7
  <2>2. /\ head \o tail \in Seq(PieceRec) /\ Len(head \o tail) = 6
        /\ \A i \in 1..6 : (head \o tail)[i] = IF i <= 2 THEN head[i] ELSE tail[i - 2]
    <3>1. /\ head \o tail \in Seq(PieceRec) /\ Len(head \o tail) = Len(head) + Len(tail)
          /\ \A i \in 1..Len(head) + Len(tail) : (head \o tail)[i] = IF i <= Len(head) THEN head[i] ELSE tail[i - Len(head)]
      BY <1>4, ConcatProperties, Zenon
    <3> QED
      BY <1>4, <3>1
  <2> QED
    BY <1>3, <1>4, <1>7, <2>1, <2>2
<1> QED
  BY <1>6, <1>7

(* TakeAll takes one piece after another.                                   *)
LEMMA TakenInOrder ==
  ASSUME NEW p, NEW pieces, Len(pieces) \in Nat
  PROVE  \E after : /\ after[0] = p
                    /\ \A i \in 1..Len(pieces) : after[i] = TakePiece(after[i - 1], pieces[i])
                    /\ TakeAll(p, pieces) = after[Len(pieces)]
<1> DEFINE n == Len(pieces)
           G(f, k) == f = [i \in 0..k |-> IF i = 0 THEN p ELSE TakePiece(f[i - 1], pieces[i])]
           S == {k \in Nat : \E f : G(f, k)}
<1>1. 0 \in S
  <2> DEFINE f == [i \in 0..0 |-> p]
  <2>1. G(f, 0)
    OBVIOUS
  <2> QED
    BY <2>1
<1>2. ASSUME NEW k \in Nat, k \in S PROVE k + 1 \in S
  <2>1. PICK f : G(f, k)
    BY <1>2
  <2> DEFINE g == [i \in 0..k + 1 |-> IF i <= k THEN f[i] ELSE TakePiece(f[k], pieces[k + 1])]
  <2>2. ASSUME NEW i \in 0..k + 1 PROVE g[i] = IF i = 0 THEN p ELSE TakePiece(g[i - 1], pieces[i])
    <3>1. CASE i = 0
      BY <2>1, <3>1
    <3>2. CASE i \in 1..k
      BY <2>1, <3>2
    <3>3. CASE i = k + 1
      BY <3>3
    <3> QED
      BY <3>1, <3>2, <3>3
  <2>3. G(g, k + 1)
    BY <2>2
  <2> HIDE DEF g, G
  <2> QED
    BY <2>3
<1> HIDE DEF S, n
<1>3. n \in S
  <2>1. n \in Nat
    BY DEF n
  <2>2. \A i \in 0..n : i \in S
    BY <1>1, <1>2, <2>1, UpTo
  <2> QED
    BY <2>1, <2>2
<1> USE DEF n
<1> DEFINE after == CHOOSE f : G(f, n)
<1>4. G(after, n)
  BY <1>3 DEF S
<1>5. TakeAll(p, pieces) = after[n]
  BY DEF TakeAll
<1> HIDE DEF after
<1>6. after[0] = p /\ \A i \in 1..n : after[i] = TakePiece(after[i - 1], pieces[i])
  <2>1. \A i \in 0..n : after[i] = IF i = 0 THEN p ELSE TakePiece(after[i - 1], pieces[i])
    BY <1>4
  <2> QED
    BY <2>1
<1> QED
  BY <1>5, <1>6

(* A place counted from the end of another text.                            *)
LEMMA Behind ==
  ASSUME NEW x \in Nat, NEW y \in Nat, NEW i \in 1..y
  PROVE  /\ x + i \in 1..x + y /\ ~(x + i <= x) /\ (x + i) - x = i
         /\ \A z \in Nat : x + y <= z => x + i \in 1..z
OBVIOUS

(* Places and counts that do not pass their ends.                           *)
LEMMA Less ==
  ASSUME NEW x \in Nat, NEW y \in Nat, NEW z \in Nat, x <= y
  PROVE  /\ x <= y + z /\ (y <= z => x <= z)
         /\ x = z + 1 => x \in 1..y
OBVIOUS

(* The first unit of a text.                                                *)
LEMMA FirstUnit ==
  ASSUME NEW T \in Seq(PieceRec), NEW k \in Nat, NEW m \in Nat, m > 0, NEW s \in Seq(EventRec),
         NEW a \in [0..m -> Nat], NEW c \in [0..m -> Nat], Laid(s, T, k, m, a, c)
  PROVE  /\ a[1] <= Len(T) /\ c[1] <= Len(s) /\ a[1] \in {3, 4, 6}
         /\ \/ /\ c[1] = k /\ a[1] = 3
               /\ T[1] = Piece("comment", NoEvent) /\ T[2] = NewLine /\ T[3] = NewLine
            \/ /\ c[1] = k + 1 /\ c[1] \in 1..Len(s) /\ s[c[1]].name \in Unnamed /\ a[1] = 4
               /\ T[1] = Piece("data", s[c[1]]) /\ T[2] = Piece("dataEnd", s[c[1]])
               /\ T[3] = NewLine /\ T[4] = NewLine
            \/ /\ c[1] = k + 1 /\ c[1] \in 1..Len(s) /\ s[c[1]].name \notin Unnamed /\ a[1] = 6
               /\ T[1] = Piece("header", s[c[1]]) /\ T[2] = NewLine
               /\ T[3] = Piece("data", s[c[1]]) /\ T[4] = Piece("dataEnd", s[c[1]])
               /\ T[5] = NewLine /\ T[6] = NewLine
<1>1. 1 \in 0..m /\ 1 \in 1..m /\ m \in 0..m /\ 1 <= m /\ 1 - 1 = 0 /\ 0 \in 0..m
  OBVIOUS
<1>2. /\ a[0] = 0 /\ a[m] = Len(T) /\ c[0] = k /\ c[m] = Len(s)
      /\ \A i, j \in 0..m : i <= j => a[i] <= a[j] /\ c[i] <= c[j]
      /\ \A j \in 1..m : Unit(s, T, a[j - 1], a[j], c[j - 1], c[j])
  BY DEF Laid
<1>3. a[1] <= Len(T) /\ c[1] <= Len(s) /\ Unit(s, T, a[1 - 1], a[1], c[1 - 1], c[1]) /\ a[1] \in Nat /\ c[1] \in Nat
  BY <1>1, <1>2
<1>4. Unit(s, T, 0, a[1], k, c[1])
  BY <1>1, <1>2, <1>3
<1>5. ASSUME NEW v, Spells(T, 0, a[1], v), Len(v) \in Nat
      PROVE  a[1] = Len(v) /\ \A i \in 1..Len(v) : T[i] = v[i]
  BY <1>5 DEF Spells
<1>6. CASE c[1] = k /\ Spells(T, 0, a[1], KeepAlive)
  <2>1. NoEvent \in EventRec
    BY DEF NoEvent, EventRec
  <2>2. /\ Len(KeepAlive) = 3 /\ KeepAlive[1] = Piece("comment", NoEvent)
        /\ KeepAlive[2] = NewLine /\ KeepAlive[3] = NewLine
    BY <2>1, FrameForm
  <2>3. a[1] = 3 /\ T[1] = Piece("comment", NoEvent) /\ T[2] = NewLine /\ T[3] = NewLine
    <3>1. a[1] = Len(KeepAlive) /\ \A i \in 1..Len(KeepAlive) : T[i] = KeepAlive[i]
      <4>1. Len(KeepAlive) \in Nat
        BY <2>2
      <4> QED
        BY <1>5, <1>6, <4>1, Zenon
    <3> QED
      BY <2>2, <3>1
  <2>4. a[1] \in {3, 4, 6}
    BY <2>3
  <2> QED
    BY <1>3, <1>6, <2>3, <2>4, Zenon
<1>7. CASE c[1] = k + 1 /\ Spells(T, 0, a[1], Frame(s[c[1]]))
  <2>1. Len(s) \in Nat /\ c[1] \in 1..Len(s)
    BY <1>3, <1>7, LenProperties, Less
  <2>2. s[c[1]] \in EventRec
    BY <2>1, ElementOfSeq
  <2> DEFINE e == s[c[1]]
  <2>3. a[1] = Len(Frame(e)) /\ \A i \in 1..Len(Frame(e)) : T[i] = Frame(e)[i]
    BY <1>5, <1>7, <2>2, FrameForm, LenProperties
  <2> HIDE DEF e
  <2>4. CASE e.name \in Unnamed
    <3>1. /\ Len(Frame(e)) = 4 /\ Frame(e)[1] = Piece("data", e) /\ Frame(e)[2] = Piece("dataEnd", e)
          /\ Frame(e)[3] = NewLine /\ Frame(e)[4] = NewLine
      BY <2>2, <2>4, FrameForm DEF e
    <3>2. /\ a[1] = 4 /\ T[1] = Piece("data", e) /\ T[2] = Piece("dataEnd", e)
          /\ T[3] = NewLine /\ T[4] = NewLine
      BY SMTT(30), <2>3, <3>1
    <3> QED
      BY <1>3, <1>7, <2>1, <2>4, <3>2 DEF e
  <2>5. CASE e.name \notin Unnamed
    <3>1. /\ Len(Frame(e)) = 6 /\ Frame(e)[1] = Piece("header", e) /\ Frame(e)[2] = NewLine
          /\ Frame(e)[3] = Piece("data", e) /\ Frame(e)[4] = Piece("dataEnd", e)
          /\ Frame(e)[5] = NewLine /\ Frame(e)[6] = NewLine
      BY <2>2, <2>5, FrameForm DEF e
    <3>2. /\ a[1] = 6 /\ T[1] = Piece("header", e) /\ T[2] = NewLine /\ T[3] = Piece("data", e)
          /\ T[4] = Piece("dataEnd", e) /\ T[5] = NewLine /\ T[6] = NewLine
      BY SMTT(30), <2>3, <3>1
    <3> QED
      BY <1>3, <1>7, <2>1, <2>5, <3>2 DEF e
  <2> QED
    BY <2>4, <2>5
<1> QED
  BY <1>4, <1>6, <1>7 DEF Unit

(* A unit goes behind the text: the layout has one more.                    *)
LEMMA LayoutGrows ==
  ASSUME NEW T \in Seq(PieceRec), NEW u \in Seq(PieceRec), NEW k \in Nat,
         NEW s \in Seq(EventRec), NEW s2 \in Seq(EventRec), Len(s) <= Len(s2),
         NEW r \in Nat, r <= Len(T), IsLaid(s, T, k, r),
         \A i \in 1..Len(s) : s2[i] = s[i],
         \/ Len(s2) = Len(s) /\ u = KeepAlive
         \/ Len(s2) = Len(s) + 1 /\ u = Frame(s2[Len(s2)])
  PROVE  IsLaid(s2, T \o u, k, r)
<1>m. PICK m \in Nat : \E a, c \in [0..m -> Nat] : Laid(s, T, k, m, a, c) /\ (m > 0 => r < a[1])
  BY DEF IsLaid
<1>a. PICK a \in [0..m -> Nat], c \in [0..m -> Nat] : Laid(s, T, k, m, a, c) /\ (m > 0 => r < a[1])
  BY <1>m
<1>1. /\ Len(T \o u) = Len(T) + Len(u)
      /\ \A i \in 1..Len(T) + Len(u) : (T \o u)[i] = IF i <= Len(T) THEN T[i] ELSE u[i - Len(T)]
  BY ConcatProperties
<1>2. Len(s) \in Nat /\ Len(s2) \in Nat /\ Len(T) \in Nat /\ Len(u) \in Nat
  BY LenProperties
<1>3. /\ a[0] = 0 /\ a[m] = Len(T) /\ c[0] = k /\ c[m] = Len(s)
      /\ \A i, j \in 0..m : i <= j => a[i] <= a[j] /\ c[i] <= c[j]
      /\ \A j \in 1..m : Unit(s, T, a[j - 1], a[j], c[j - 1], c[j])
  BY <1>a DEF Laid
<1>4. PICK b \in [0..m + 1 -> Nat], d \in [0..m + 1 -> Nat] :
        /\ \A j \in 0..m : b[j] = a[j] /\ d[j] = c[j]
        /\ b[m + 1] = Len(T) + Len(u) /\ d[m + 1] = Len(s2)
  <2> DEFINE b == [j \in 0..m + 1 |-> IF j <= m THEN a[j] ELSE Len(T) + Len(u)]
             d == [j \in 0..m + 1 |-> IF j <= m THEN c[j] ELSE Len(s2)]
  <2>1. b \in [0..m + 1 -> Nat] /\ d \in [0..m + 1 -> Nat]
    BY <1>2
  <2>2. \A j \in 0..m : b[j] = a[j] /\ d[j] = c[j]
    OBVIOUS
  <2>3. b[m + 1] = Len(T) + Len(u) /\ d[m + 1] = Len(s2)
    OBVIOUS
  <2> HIDE DEF b, d
  <2> QED
    BY <2>1, <2>2, <2>3
<1>5. ASSUME NEW j \in 1..m PROVE Unit(s2, T \o u, b[j - 1], b[j], d[j - 1], d[j])
  <2>1. /\ j - 1 \in 0..m /\ j \in 0..m /\ a[j - 1] \in Nat /\ a[j] \in Nat /\ c[j - 1] \in Nat /\ c[j] \in Nat
        /\ a[j] <= Len(T) /\ c[j] <= Len(s)
    <3>1. j - 1 \in 0..m /\ j \in 0..m /\ m \in 0..m /\ j <= m
      OBVIOUS
    <3>2. a[j] <= a[m] /\ c[j] <= c[m]
      BY <1>3, <3>1
    <3> QED
      BY <1>3, <3>1, <3>2
  <2>2. ASSUME NEW v, Len(v) \in Nat, Spells(T, a[j - 1], a[j], v)
        PROVE  Spells(T \o u, a[j - 1], a[j], v)
    <3>1. a[j] = a[j - 1] + Len(v) /\ \A i \in 1..Len(v) : T[a[j - 1] + i] = v[i]
      BY <2>2 DEF Spells
    <3>2. \A i \in 1..Len(v) : a[j - 1] + i \in 1..Len(T)
      <4>1. a[j - 1] + Len(v) <= Len(T)
        BY <2>1, <3>1, Zenon
      <4> QED
        BY <1>2, <2>1, <2>2, <4>1, Behind, Zenon
    <3>3. \A i \in 1..Len(T) : (T \o u)[i] = T[i]
      BY <1>1, <1>2
    <3> QED
      BY <3>1, <3>2, <3>3 DEF Spells
  <2>3. CASE c[j] = c[j - 1] /\ Spells(T, a[j - 1], a[j], KeepAlive)
    <3>1. Spells(T \o u, a[j - 1], a[j], KeepAlive)
      <4>1. Len(KeepAlive) \in Nat
        BY DEF KeepAlive
      <4> QED
        BY <2>2, <2>3, <4>1
    <3> QED
      BY <1>4, <2>1, <2>3, <3>1 DEF Unit
  <2>4. CASE c[j] = c[j - 1] + 1 /\ Spells(T, a[j - 1], a[j], Frame(s[c[j]]))
    <3>1. c[j] \in 1..Len(s) /\ s2[c[j]] = s[c[j]] /\ s[c[j]] \in EventRec
      <4>1. c[j] \in Nat /\ c[j] <= Len(s) /\ c[j] = c[j - 1] + 1 /\ c[j - 1] \in Nat
        BY <2>1, <2>4
      <4>2. c[j] \in 1..Len(s)
        BY <1>2, <4>1, Less, Zenon
      <4> QED
        BY <4>2, ElementOfSeq
    <3>2. Len(Frame(s[c[j]])) \in Nat
      BY <3>1, FrameForm, LenProperties
    <3>3. Spells(T \o u, a[j - 1], a[j], Frame(s[c[j]]))
      BY <2>2, <2>4, <3>2
    <3> QED
      BY <1>4, <2>1, <2>4, <3>1, <3>3 DEF Unit
  <2> QED
    BY <1>3, <2>3, <2>4 DEF Unit
<1>6. Unit(s2, T \o u, b[m], b[m + 1], d[m], d[m + 1])
  <2>2. b[m] = Len(T) /\ d[m] = Len(s)
    BY <1>3, <1>4
  <2>1. Spells(T \o u, Len(T), Len(T) + Len(u), u)
    <3>1. \A i \in 1..Len(u) : /\ Len(T) + i \in 1..Len(T) + Len(u) /\ ~(Len(T) + i <= Len(T))
                               /\ (Len(T) + i) - Len(T) = i
      BY <1>2, Behind
    <3>2. \A i \in 1..Len(u) : (T \o u)[Len(T) + i] = u[i]
      BY <1>1, <3>1
    <3> QED
      BY <3>2 DEF Spells
  <2> QED
    BY <1>4, <2>2, <2>1 DEF Unit
<1>7. \A i, j \in 0..m + 1 : i <= j => b[i] <= b[j] /\ d[i] <= d[j]
  <2>1. \A i \in 0..m : /\ a[i] <= Len(T) /\ c[i] <= Len(s) /\ a[i] \in Nat /\ c[i] \in Nat
    <3>1. \A i \in 0..m : i <= m /\ m \in 0..m
      OBVIOUS
    <3>2. \A i \in 0..m : a[i] <= a[m] /\ c[i] <= c[m]
      BY <1>3, <3>1, Zenon
    <3> QED
      BY <1>3, <3>2
  <2>2. \A i \in 0..m : b[i] <= b[m + 1] /\ d[i] <= d[m + 1]
    <3>1. \A x \in Nat : (x <= Len(T) => x <= Len(T) + Len(u)) /\ (x <= Len(s) => x <= Len(s2))
      BY <1>2, Less, Zenon
    <3> QED
      BY <1>4, <2>1, <3>1
  <2>3. \A i, j \in 0..m : i <= j => b[i] <= b[j] /\ d[i] <= d[j]
    BY <1>3, <1>4
  <2>4. b[m + 1] <= b[m + 1] /\ d[m + 1] <= d[m + 1]
    BY <1>1, <1>2, <1>4
  <2>5. \A i \in 0..m + 1 : i \in 0..m \/ i = m + 1
    OBVIOUS
  <2>6. \A i \in 0..m : ~(m + 1 <= i)
    OBVIOUS
  <2> QED
    BY <2>2, <2>3, <2>4, <2>5, <2>6
<1>8. \A j \in 1..m + 1 : Unit(s2, T \o u, b[j - 1], b[j], d[j - 1], d[j])
  <2>1. \A j \in 1..m + 1 : j \in 1..m \/ (j = m + 1 /\ j - 1 = m)
    OBVIOUS
  <2> QED
    BY <1>5, <1>6, <2>1
<1>9. b[0] = 0 /\ d[0] = k /\ (m > 0 => b[1] = a[1])
  BY <1>3, <1>4
<1>10. Laid(s2, T \o u, k, m + 1, b, d)
  BY <1>1, <1>4, <1>7, <1>8, <1>9 DEF Laid
<1>11. T \o u \in Seq(PieceRec) /\ m + 1 \in Nat /\ m + 1 > 0 /\ (m > 0 \/ m = 0)
  BY ConcatProperties
<1>12. r < b[1]
  <2>1. CASE m > 0
    BY <1>a, <1>9, <2>1
  <2>2. CASE m = 0
    <3>1. b[1] \in {3, 4, 6}
      BY <1>10, <1>11, FirstUnit, Zenon
    <3>2. \A x \in {3, 4, 6} : 0 < x
      OBVIOUS
    <3>3. r <= 0
      BY <1>3, <2>2
    <3>4. r = 0
      <4>1. \A x \in Nat : x <= 0 => x = 0
        OBVIOUS
      <4> QED
        BY <3>3, <4>1, Zenon
    <3>5. 0 < b[1]
      BY <3>1, <3>2, Zenon
    <3> QED
      BY <3>4, <3>5, Zenon
  <2> QED
    BY <1>11, <2>1, <2>2
<1> QED
  BY <1>10, <1>11, <1>12, Zenon DEF IsLaid

(* A place in the middle of a text, counted behind its first unit.          *)
LEMMA Shifted ==
  ASSUME NEW x \in Nat, NEW y \in Nat, NEW z \in Nat, NEW n \in Nat, x <= y, y <= z
  PROVE  /\ y - x \in Nat /\ z - x \in Nat /\ y - x <= z - x
         /\ z = y + n => z - x = (y - x) + n
         /\ \A i \in 1..n : x + ((y - x) + i) = y + i
         /\ z = y + n => \A i \in 1..n : (y - x) + i \in 1..z - x
OBVIOUS

(* The places inside a layout.                                              *)
LEMMA Between ==
  ASSUME NEW m \in Nat, NEW j \in 1..m - 1
  PROVE  /\ j - 1 \in 0..m - 1 /\ j \in 0..m - 1 /\ (j - 1) + 1 = j /\ j + 1 \in 1..m /\ (j + 1) - 1 = j
         /\ j \in 0..m /\ j + 1 \in 0..m /\ j <= j + 1 /\ 1 <= j /\ 1 \in 0..m
OBVIOUS

(* The first unit is taken away: the layout has one less.                   *)
LEMMA LayoutShrinks ==
  ASSUME NEW T \in Seq(PieceRec), NEW T2 \in Seq(PieceRec), NEW k \in Nat, NEW m \in Nat, m > 0,
         NEW s \in Seq(EventRec),
         NEW a \in [0..m -> Nat], NEW c \in [0..m -> Nat], Laid(s, T, k, m, a, c),
         Len(T2) = Len(T) - a[1], \A i \in 1..Len(T2) : T2[i] = T[a[1] + i]
  PROVE  \E b, d \in [0..m - 1 -> Nat] :
           Laid(s, T2, c[1], m - 1, b, d) /\ (m - 1 > 0 => 0 < b[1])
<1>1. /\ a[0] = 0 /\ a[m] = Len(T) /\ c[0] = k /\ c[m] = Len(s)
      /\ \A i, j \in 0..m : i <= j => a[i] <= a[j] /\ c[i] <= c[j]
      /\ \A j \in 1..m : Unit(s, T, a[j - 1], a[j], c[j - 1], c[j])
  BY DEF Laid
<1>2. Len(s) \in Nat /\ Len(T) \in Nat /\ Len(T2) \in Nat
  BY LenProperties
<1>3. \A j \in 0..m - 1 : /\ j + 1 \in 1..m /\ j + 1 \in 0..m /\ 1 <= j + 1 /\ 1 \in 0..m
                          /\ (j + 1) - 1 = j /\ m \in 0..m /\ j + 1 <= m
  OBVIOUS
<1>4. \A j \in 0..m - 1 : /\ a[j + 1] \in Nat /\ a[1] \in Nat /\ a[1] <= a[j + 1] /\ a[j + 1] <= Len(T)
                          /\ c[j + 1] \in Nat /\ c[j + 1] <= Len(s)
  BY <1>1, <1>3
<1>5. PICK b \in [0..m - 1 -> Nat], d \in [0..m - 1 -> Nat] :
        \A j \in 0..m - 1 : b[j] = a[j + 1] - a[1] /\ d[j] = c[j + 1]
  <2> DEFINE b == [j \in 0..m - 1 |-> a[j + 1] - a[1]]
             d == [j \in 0..m - 1 |-> c[j + 1]]
  <2>1. \A j \in 0..m - 1 : a[j + 1] - a[1] \in Nat
    BY SMTT(30), <1>4, Shifted
  <2>2. b \in [0..m - 1 -> Nat] /\ d \in [0..m - 1 -> Nat]
    BY <1>4, <2>1
  <2> QED
    BY <2>2
<1>6. ASSUME NEW j \in 1..m - 1 PROVE Unit(s, T2, b[j - 1], b[j], d[j - 1], d[j])
  <2>1. /\ j - 1 \in 0..m - 1 /\ j \in 0..m - 1 /\ (j - 1) + 1 = j /\ j + 1 \in 1..m /\ (j + 1) - 1 = j
        /\ j \in 0..m /\ j + 1 \in 0..m /\ j <= j + 1 /\ 1 <= j /\ 1 \in 0..m
    BY Between, Zenon
  <2>2. /\ b[j - 1] = a[j] - a[1] /\ b[j] = a[j + 1] - a[1] /\ d[j - 1] = c[j] /\ d[j] = c[j + 1]
        /\ Unit(s, T, a[j], a[j + 1], c[j], c[j + 1])
    BY <1>1, <1>5, <2>1
  <2>3. /\ a[j] \in Nat /\ a[j + 1] \in Nat /\ a[1] \in Nat /\ a[1] <= a[j] /\ a[j] <= a[j + 1]
        /\ a[j + 1] <= Len(T)
    BY <1>1, <1>4, <2>1
  <2>4. ASSUME NEW v, Len(v) \in Nat, Spells(T, a[j], a[j + 1], v)
        PROVE  Spells(T2, a[j] - a[1], a[j + 1] - a[1], v)
    <3>1. a[j + 1] = a[j] + Len(v) /\ \A i \in 1..Len(v) : T[a[j] + i] = v[i]
      BY <2>4 DEF Spells
    <3>2. /\ a[j + 1] - a[1] = (a[j] - a[1]) + Len(v)
          /\ \A i \in 1..Len(v) : a[1] + ((a[j] - a[1]) + i) = a[j] + i
          /\ \A i \in 1..Len(v) : (a[j] - a[1]) + i \in 1..a[j + 1] - a[1]
      <4>1. \A x, y, z, n \in Nat : (x <= y /\ y <= z /\ z = y + n) =>
              /\ z - x = (y - x) + n
              /\ \A i \in 1..n : x + ((y - x) + i) = y + i
              /\ \A i \in 1..n : (y - x) + i \in 1..z - x
        BY Shifted
      <4> QED
        BY <2>3, <2>4, <3>1, <4>1, Zenon
    <3>3. a[j + 1] - a[1] \in Nat /\ a[j + 1] - a[1] <= Len(T2)
      <4>1. a[1] <= a[j + 1]
        BY <1>4, <2>1
      <4>2. Len(T2) = Len(T) - a[1]
        OBVIOUS
      <4>3. a[j + 1] - a[1] \in Nat /\ a[j + 1] - a[1] <= Len(T) - a[1]
        BY <1>2, <2>3, <4>1, Shifted, Zenon
      <4> QED
        BY <4>2, <4>3, Zenon
    <3>4. \A i \in 1..Len(v) : (a[j] - a[1]) + i \in 1..Len(T2)
      <4>1. \A x \in Nat, y \in Nat : x <= y => 1..x \subseteq 1..y
        OBVIOUS
      <4>2. 1..(a[j + 1] - a[1]) \subseteq 1..Len(T2)
        BY <1>2, <3>3, <4>1, Zenon
      <4> QED
        BY <3>2, <4>2, Zenon
    <3>5. \A i \in 1..Len(v) : T2[(a[j] - a[1]) + i] = T[a[1] + ((a[j] - a[1]) + i)]
      BY <3>4
    <3> QED
      BY <3>1, <3>2, <3>5, Zenon DEF Spells
  <2>5. CASE c[j + 1] = c[j] /\ Spells(T, a[j], a[j + 1], KeepAlive)
    <3>1. Len(KeepAlive) \in Nat
      BY DEF KeepAlive
    <3> QED
      BY <2>2, <2>4, <2>5, <3>1, Zenon DEF Unit
  <2>6. CASE c[j + 1] = c[j] + 1 /\ Spells(T, a[j], a[j + 1], Frame(s[c[j + 1]]))
    <3>1. c[j + 1] \in 1..Len(s)
      <4>1. c[j] \in Nat /\ c[j + 1] \in Nat /\ c[j + 1] <= Len(s)
        BY <1>1, <1>4, <2>1
      <4> QED
        BY <1>2, <2>6, <4>1, Less, Zenon
    <3>2. Len(Frame(s[c[j + 1]])) \in Nat
      BY <3>1, ElementOfSeq, FrameForm, LenProperties
    <3> QED
      BY <2>2, <2>4, <2>6, <3>2, Zenon DEF Unit
  <2> QED
    BY <2>2, <2>5, <2>6 DEF Unit
<1>7. /\ b[0] = 0 /\ b[m - 1] = Len(T2) /\ d[0] = c[1] /\ d[m - 1] = Len(s)
  <2>1. 0 \in 0..m - 1 /\ m - 1 \in 0..m - 1 /\ 0 + 1 = 1 /\ (m - 1) + 1 = m
    OBVIOUS
  <2>2. b[0] = a[1] - a[1] /\ d[0] = c[1] /\ b[m - 1] = a[m] - a[1] /\ d[m - 1] = c[m]
    BY <1>5, <2>1
  <2> QED
    BY <1>1, <1>4, <2>1, <2>2
<1>8. \A i, j \in 0..m - 1 : i <= j => b[i] <= b[j] /\ d[i] <= d[j]
  <2> SUFFICES ASSUME NEW i \in 0..m - 1, NEW j \in 0..m - 1, i <= j PROVE b[i] <= b[j] /\ d[i] <= d[j]
    OBVIOUS
  <2>1. i + 1 \in 0..m /\ j + 1 \in 0..m /\ i + 1 <= j + 1
    OBVIOUS
  <2>2. a[i + 1] <= a[j + 1] /\ c[i + 1] <= c[j + 1]
    BY <1>1, <2>1
  <2>3. a[1] \in Nat /\ a[i + 1] \in Nat /\ a[j + 1] \in Nat /\ a[1] <= a[i + 1]
    BY <1>4
  <2>4. a[i + 1] - a[1] <= a[j + 1] - a[1]
    BY <2>2, <2>3, Shifted
  <2> QED
    BY <1>5, <2>2, <2>4
<1>9. m - 1 \in Nat
  OBVIOUS
<1>10. Laid(s, T2, c[1], m - 1, b, d)
  BY <1>6, <1>7, <1>8 DEF Laid
<1>11. ASSUME m - 1 > 0 PROVE 0 < b[1]
  <2>1. c[1] \in Nat
    BY SMTT(30)
  <2>2. b[1] \in {3, 4, 6}
    BY <1>9, <1>10, <1>11, <2>1, FirstUnit, Zenon
  <2> DEFINE first == b[1]
  <2>3. first \in {3, 4, 6}
    BY <2>2
  <2> HIDE DEF first
  <2>4. 0 < first
    BY ONLY <2>3
  <2> QED
    BY ONLY <2>4 DEF first
<1> QED
  BY <1>10, <1>11

(* What a whole frame says.                                                 *)
ToldAs(e) == [header |-> IF e.name \in Unnamed THEN "message" ELSE e.name, event |-> e]

(* Only a newline is one.                                                   *)
LEMMA KindsDiffer ==
  \A x \in EventRec : /\ Piece("comment", x) # NewLine /\ Piece("header", x) # NewLine
                      /\ Piece("data", x) # NewLine /\ Piece("dataEnd", x) # NewLine
BY DEF Piece, NewLine

(* All but the last piece.                                                  *)
LEMMA FrontOf ==
  ASSUME NEW r \in Seq(PieceRec), r # <<>>
  PROVE  /\ DOMAIN Front(r) = 1..Len(r) - 1
         /\ \A i \in 1..Len(r) - 1 : Front(r)[i] = r[i]
<1>1. Len(r) \in Nat /\ Len(r) > 0
  BY EmptySeq, LenProperties
<1>2. Front(r) = [i \in 1..Len(r) - 1 |-> r[i]]
  BY <1>1 DEF Front
<1> QED
  BY <1>2

(* A sequence with something in it.                                         *)
LEMMA NotEmpty ==
  ASSUME NEW r \in Seq(PieceRec), NEW n \in Nat, Len(r) = n + 1
  PROVE  r # <<>> /\ Len(r) - 1 = n
<1>1. ~(n + 1 = 0) /\ (n + 1) - 1 = n
  OBVIOUS
<1>2. Len(r) # 0
  BY <1>1
<1>3. r # <<>>
  BY <1>2, EmptySeq, Zenon
<1> QED
  BY <1>1, <1>3

(* A heartbeat is no event, a frame is the event it was made of.            *)
LEMMA BeatSaysNothing ==
  ASSUME NEW cl, NEW r \in Seq(PieceRec), Len(r) = 2, r[1] = Piece("comment", NoEvent)
  PROVE  HandleFrame(cl, Front(r)) = cl
<1>1. DOMAIN Front(r) = 1..1 /\ Front(r)[1] = Piece("comment", NoEvent)
  <2>1. 1 \in Nat /\ Len(r) = 1 + 1 /\ 1 \in 1..1
    OBVIOUS
  <2>2. r # <<>> /\ Len(r) - 1 = 1
    BY <2>1, NotEmpty, Zenon
  <2>3. DOMAIN Front(r) = 1..Len(r) - 1 /\ \A i \in 1..Len(r) - 1 : Front(r)[i] = r[i]
    BY <2>2, FrontOf, Zenon
  <2> QED
    BY <2>1, <2>2, <2>3
<1>2. \A i \in DOMAIN Front(r) : Front(r)[i].kind = "comment"
  BY <1>1 DEF Piece
<1>3. ~IsEvent(Front(r))
  BY <1>2 DEF IsEvent
<1> QED
  BY <1>3 DEF HandleFrame

LEMMA FrameIsHeard ==
  ASSUME NEW cl, NEW e \in EventRec, NEW r \in Seq(PieceRec),
         \/ /\ e.name \in Unnamed /\ Len(r) = 3
            /\ r[1] = Piece("data", e) /\ r[2] = Piece("dataEnd", e)
         \/ /\ e.name \notin Unnamed /\ Len(r) = 5 /\ r[1] = Piece("header", e) /\ r[2] = NewLine
            /\ r[3] = Piece("data", e) /\ r[4] = Piece("dataEnd", e)
  PROVE  HandleFrame(cl, Front(r)) = Handle(cl, ToldAs(e))
<1> DEFINE f == Front(r)
<1>1. CASE /\ e.name \in Unnamed /\ Len(r) = 3
           /\ r[1] = Piece("data", e) /\ r[2] = Piece("dataEnd", e)
  <2>1. DOMAIN f = 1..2 /\ f[1] = Piece("data", e) /\ f[2] = Piece("dataEnd", e)
    <3>0. 2 \in Nat /\ Len(r) = 2 + 1
      BY <1>1
    <3>1. r # <<>> /\ Len(r) - 1 = 2
      BY <3>0, NotEmpty, Zenon
    <3>2. DOMAIN f = 1..2 /\ \A i \in 1..2 : f[i] = r[i]
      BY <3>1, FrontOf
    <3> QED
      BY <1>1, <3>2
  <2> HIDE DEF f
  <2>2. f[1].kind = "data" /\ f[2].kind = "dataEnd" /\ f[1].event = e
    BY <2>1 DEF Piece
  <2>3. \A i \in DOMAIN f : i = 1 \/ i = 2
    BY <2>1
  <2>4. IsEvent(f) /\ (CHOOSE i \in DOMAIN f : f[i].kind = "data") = 1
        /\ ~\E i \in DOMAIN f : f[i].kind = "header"
    <3>1. 1 \in DOMAIN f /\ 2 \in DOMAIN f
      BY <2>1
    <3> QED
      BY <2>2, <2>3, <3>1 DEF IsEvent
  <2>5. Parsed(f) = ToldAs(e)
    BY <1>1, <2>2, <2>4 DEF Parsed, ToldAs
  <2> QED
    BY <2>4, <2>5 DEF HandleFrame, f
<1>2. CASE /\ e.name \notin Unnamed /\ Len(r) = 5 /\ r[1] = Piece("header", e) /\ r[2] = NewLine
           /\ r[3] = Piece("data", e) /\ r[4] = Piece("dataEnd", e)
  <2>1. /\ DOMAIN f = 1..4 /\ f[1] = Piece("header", e) /\ f[2] = NewLine
        /\ f[3] = Piece("data", e) /\ f[4] = Piece("dataEnd", e)
    <3>0. 4 \in Nat /\ Len(r) = 4 + 1
      BY <1>2
    <3>1. r # <<>> /\ Len(r) - 1 = 4
      BY <3>0, NotEmpty, Zenon
    <3>2. DOMAIN f = 1..4 /\ \A i \in 1..4 : f[i] = r[i]
      BY <3>1, FrontOf
    <3> QED
      BY <1>2, <3>2
  <2> HIDE DEF f
  <2>2. /\ f[1].kind = "header" /\ f[2].kind = "newline" /\ f[3].kind = "data" /\ f[4].kind = "dataEnd"
        /\ f[3].event = e
    BY <2>1 DEF Piece, NewLine
  <2>3. \A i \in DOMAIN f : i = 1 \/ i = 2 \/ i = 3 \/ i = 4
    BY <2>1
  <2>4. IsEvent(f) /\ (CHOOSE i \in DOMAIN f : f[i].kind = "data") = 3
        /\ \E i \in DOMAIN f : f[i].kind = "header"
    <3>1. 1 \in DOMAIN f /\ 3 \in DOMAIN f /\ 4 \in DOMAIN f
      BY <2>1
    <3> QED
      BY <2>2, <2>3, <3>1 DEF IsEvent
  <2>5. Parsed(f) = ToldAs(e)
    <3>1. Parsed(f) = [header |-> f[3].event.name, event |-> f[3].event]
      BY <2>4, Zenon DEF Parsed
    <3>2. ToldAs(e) = [header |-> e.name, event |-> e]
      BY <1>2, Zenon DEF ToldAs
    <3> QED
      BY <2>2, <3>1, <3>2, Zenon
  <2> QED
    BY <2>4, <2>5 DEF HandleFrame, f
<1> QED
  BY <1>1, <1>2

(* A piece moves from the wire to what is held back: the text is the same.  *)
LEMMA SameText ==
  ASSUME NEW rest \in Seq(PieceRec), NEW w \in Seq(PieceRec), w # <<>>
  PROVE  /\ Append(rest, Head(w)) \in Seq(PieceRec) /\ Tail(w) \in Seq(PieceRec)
         /\ Append(rest, Head(w)) \o Tail(w) = rest \o w
         /\ Len(Append(rest, Head(w))) = Len(rest) + 1
<1>1. /\ Head(w) \in PieceRec /\ Tail(w) \in Seq(PieceRec) /\ Len(Tail(w)) = Len(w) - 1
      /\ \A i \in 1..Len(Tail(w)) : Tail(w)[i] = w[i + 1]
  BY HeadTailProperties
<1>2. w = <<Head(w)>> \o Tail(w)
  OBVIOUS
<1>3. Append(rest, Head(w)) = rest \o <<Head(w)>>
  BY <1>1, AppendIsConcat
<1>4. <<Head(w)>> \in Seq(PieceRec)
  BY <1>1
<1>5. (rest \o <<Head(w)>>) \o Tail(w) = rest \o (<<Head(w)>> \o Tail(w))
  BY <1>1, <1>4, ConcatAssociative
<1> QED
  BY <1>1, <1>2, <1>3, <1>5, AppendProperties

(* Where a piece stands against the end of the first unit.                  *)
LEMMA Places ==
  ASSUME NEW x \in Nat, NEW y \in Nat, x < y
  PROVE  /\ x + 1 \in 1..y /\ x + 1 \in Nat /\ (x + 1 < y \/ x + 1 = y) /\ (x + 1) - 1 = x
OBVIOUS

(* What is on the wire when the parser holds nothing back.                  *)
LEMMA UnitGone ==
  ASSUME NEW T \in Seq(PieceRec), NEW T2 \in Seq(PieceRec), NEW k \in Nat, NEW m \in Nat, m > 0,
         NEW s \in Seq(EventRec),
         NEW a \in [0..m -> Nat], NEW c \in [0..m -> Nat], Laid(s, T, k, m, a, c),
         Len(T2) = Len(T) - a[1], \A i \in 1..Len(T2) : T2[i] = T[a[1] + i]
  PROVE  InFlight(s, <<>>, T2, c[1])
<1>1. PICK b \in [0..m - 1 -> Nat], d \in [0..m - 1 -> Nat] :
        Laid(s, T2, c[1], m - 1, b, d) /\ (m - 1 > 0 => 0 < b[1])
  BY LayoutShrinks
<1>2. m - 1 \in Nat /\ Len(<<>>) = 0
  OBVIOUS
<1>3. <<>> \o T2 = T2
  BY ConcatEmptySeq, Zenon
<1>4. Laid(s, <<>> \o T2, c[1], m - 1, b, d) /\ (m - 1 > 0 => Len(<<>>) < b[1])
  BY <1>1, <1>2, <1>3, Zenon
<1> QED
  BY <1>2, <1>4, Zenon DEF InFlight, IsLaid

(* One piece: the parser holds it back, or it ends a unit.                  *)
LEMMA PieceTaken ==
  ASSUME NEW s \in Seq(EventRec), NEW rest \in Seq(PieceRec), NEW w \in Seq(PieceRec), w # <<>>,
         NEW k \in Nat, InFlight(s, rest, w, k), NEW cl, NEW q,
         q = TakePiece([rest |-> rest, client |-> cl], Head(w))
  PROVE  /\ q = [rest |-> q.rest, client |-> q.client] /\ q.rest \in Seq(PieceRec)
         /\ \/ q.client = cl /\ InFlight(s, q.rest, Tail(w), k)
            \/ /\ k + 1 \in 1..Len(s) /\ q.client = Handle(cl, ToldAs(s[k + 1]))
               /\ InFlight(s, q.rest, Tail(w), k + 1)
<1> DEFINE T == rest \o w
           L == Len(rest)
<1>1. PICK m \in Nat : \E a, c \in [0..m -> Nat] : Laid(s, T, k, m, a, c) /\ (m > 0 => L < a[1])
  BY DEF InFlight, IsLaid
<1>2. PICK a \in [0..m -> Nat], c \in [0..m -> Nat] : Laid(s, T, k, m, a, c) /\ (m > 0 => L < a[1])
  BY <1>1
<1>3. /\ T \in Seq(PieceRec) /\ Len(T) = L + Len(w) /\ L \in Nat /\ Len(w) \in Nat /\ Len(w) > 0
      /\ \A i \in 1..L + Len(w) : T[i] = IF i <= L THEN rest[i] ELSE w[i - L]
  <2>1. Len(w) \in Nat /\ Len(rest) \in Nat /\ Len(w) # 0
    BY EmptySeq, LenProperties
  <2> QED
    BY <2>1, ConcatProperties
<1>4. /\ Head(w) = w[1] /\ Head(w) \in PieceRec /\ Tail(w) \in Seq(PieceRec) /\ Len(Tail(w)) = Len(w) - 1
      /\ \A i \in 1..Len(Tail(w)) : Tail(w)[i] = w[i + 1]
  BY HeadTailProperties
<1> HIDE DEF T, L
<1>5. /\ \A i \in 1..L : T[i] = rest[i]
      /\ T[L + 1] = Head(w)
      /\ \A i \in 1..Len(Tail(w)) : T[(L + 1) + i] = Tail(w)[i]
  <2>1. \A i \in 1..L : i \in 1..L + Len(w) /\ i <= L
    BY <1>3
  <2>2. L + 1 \in 1..L + Len(w) /\ ~(L + 1 <= L) /\ (L + 1) - L = 1
    BY <1>3
  <2>3. \A i \in 1..Len(w) - 1 : /\ (L + 1) + i \in 1..L + Len(w) /\ ~((L + 1) + i <= L)
                                 /\ ((L + 1) + i) - L = i + 1
    BY <1>3
  <2>4. \A i \in 1..L : T[i] = rest[i]
    BY <1>3, <2>1
  <2>5. T[L + 1] = Head(w)
    BY <1>3, <1>4, <2>2
  <2>6. \A i \in 1..Len(w) - 1 : T[(L + 1) + i] = w[i + 1]
    BY <1>3, <2>3
  <2> QED
    BY <1>4, <2>4, <2>5, <2>6
<1>6. m > 0
  <2>1. CASE m = 0
    <3>1. Len(T) = 0
      BY <1>2, <2>1, Zenon DEF Laid
    <3> QED
      BY SMTT(30), <1>3, <3>1
  <2> QED
    BY <2>1
<1>7. a[1] \in Nat /\ c[1] \in Nat /\ L < a[1]
  BY <1>2, <1>6
<1>8. a[1] <= Len(T) /\ c[1] <= Len(s) /\ a[1] \in {3, 4, 6}
  BY <1>2, <1>3, <1>6, FirstUnit, Zenon
<1>9. \/ /\ c[1] = k /\ a[1] = 3
         /\ T[1] = Piece("comment", NoEvent) /\ T[2] = NewLine /\ T[3] = NewLine
      \/ /\ c[1] = k + 1 /\ c[1] \in 1..Len(s) /\ s[c[1]].name \in Unnamed /\ a[1] = 4
         /\ T[1] = Piece("data", s[c[1]]) /\ T[2] = Piece("dataEnd", s[c[1]])
         /\ T[3] = NewLine /\ T[4] = NewLine
      \/ /\ c[1] = k + 1 /\ c[1] \in 1..Len(s) /\ s[c[1]].name \notin Unnamed /\ a[1] = 6
         /\ T[1] = Piece("header", s[c[1]]) /\ T[2] = NewLine
         /\ T[3] = Piece("data", s[c[1]]) /\ T[4] = Piece("dataEnd", s[c[1]])
         /\ T[5] = NewLine /\ T[6] = NewLine
  BY <1>2, <1>3, <1>6, FirstUnit, Zenon
<1>10. L + 1 \in 1..a[1] /\ L + 1 \in Nat /\ (L + 1 < a[1] \/ L + 1 = a[1])
  BY <1>3, <1>7, Places, Zenon
<1>11. rest # <<>> <=> L > 0
  <2>1. L = 0 <=> rest = <<>>
    BY EmptySeq DEF L
  <2> QED
    BY <1>3, <2>1
<1>12. NoEvent \in EventRec /\ \A i \in 1..Len(s) : s[i] \in EventRec
  BY ElementOfSeq DEF NoEvent, EventRec
<1>13. (Head(w) = NewLine /\ rest # <<>> /\ Last(rest) = NewLine) <=> L + 1 = a[1]
  <2>1. rest # <<>> => Last(rest) = T[L]
    BY <1>3, <1>5, <1>11 DEF Last, L
  <2>2. (Head(w) = NewLine /\ rest # <<>> /\ Last(rest) = NewLine)
          <=> (T[L + 1] = NewLine /\ L > 0 /\ T[L] = NewLine)
    BY <1>5, <1>11, <2>1, Zenon
  <2>3. CASE /\ c[1] = k /\ a[1] = 3
             /\ T[1] = Piece("comment", NoEvent) /\ T[2] = NewLine /\ T[3] = NewLine
    <3>1. T[1] # NewLine
      BY <1>12, <2>3, KindsDiffer, Zenon
    <3>2. L = 0 \/ L = 1 \/ L = 2
      BY <1>3, <1>7, <2>3
    <3> QED
      BY <2>2, <2>3, <3>1, <3>2
  <2>4. CASE /\ c[1] \in 1..Len(s) /\ a[1] = 4
             /\ T[1] = Piece("data", s[c[1]]) /\ T[2] = Piece("dataEnd", s[c[1]])
             /\ T[3] = NewLine /\ T[4] = NewLine
    <3>1. T[1] # NewLine /\ T[2] # NewLine
      BY <1>12, <2>4, KindsDiffer, Zenon
    <3>2. L = 0 \/ L = 1 \/ L = 2 \/ L = 3
      BY <1>3, <1>7, <2>4
    <3> QED
      BY SMTT(30), <2>2, <2>4, <3>1, <3>2
  <2>5. CASE /\ c[1] \in 1..Len(s) /\ a[1] = 6
             /\ T[1] = Piece("header", s[c[1]]) /\ T[2] = NewLine
             /\ T[3] = Piece("data", s[c[1]]) /\ T[4] = Piece("dataEnd", s[c[1]])
             /\ T[5] = NewLine /\ T[6] = NewLine
    <3>1. T[1] # NewLine /\ T[3] # NewLine /\ T[4] # NewLine
      BY <1>12, <2>5, KindsDiffer, Zenon
    <3>2. L = 0 \/ L = 1 \/ L = 2 \/ L = 3 \/ L = 4 \/ L = 5
      BY <1>3, <1>7, <2>5
    <3>3. (T[L + 1] = NewLine /\ L > 0 /\ T[L] = NewLine) => L = 5
      BY <3>1, <3>2
    <3>4. L = 5 => (T[L + 1] = NewLine /\ L > 0 /\ T[L] = NewLine)
      BY <2>5
    <3>5. L = 5 <=> L + 1 = a[1]
      BY <1>3, <2>5
    <3> QED
      BY <2>2, <3>3, <3>4, <3>5, Zenon
  <2> QED
    BY <1>9, <2>3, <2>4, <2>5
<1>14. CASE L + 1 < a[1]
  <2>1. q = [rest |-> Append(rest, Head(w)), client |-> cl]
    <3>1. ~(Head(w) = NewLine /\ rest # <<>> /\ Last(rest) = NewLine)
      BY <1>10, <1>13, <1>14, <1>7
    <3> QED
      BY <3>1 DEF TakePiece
  <2>2. /\ Append(rest, Head(w)) \in Seq(PieceRec) /\ Append(rest, Head(w)) \o Tail(w) = T
        /\ Len(Append(rest, Head(w))) = L + 1
    BY SameText, Zenon DEF T, L
  <2>3. q.rest = Append(rest, Head(w)) /\ q.client = cl
    BY <2>1
  <2>4. InFlight(s, q.rest, Tail(w), k)
    <3>1. Laid(s, q.rest \o Tail(w), k, m, a, c) /\ Len(q.rest) < a[1]
      BY <1>2, <1>14, <2>2, <2>3
    <3> QED
      BY <3>1, Zenon DEF InFlight, IsLaid
  <2> QED
    BY <2>1, <2>2, <2>3, <2>4, Zenon
<1>15. CASE L + 1 = a[1]
  <2>1. q = [rest |-> <<>>, client |-> HandleFrame(cl, Front(rest))]
    BY <1>13, <1>15 DEF TakePiece
  <2>2. q.rest = <<>> /\ q.client = HandleFrame(cl, Front(rest)) /\ q.rest \in Seq(PieceRec)
    <3>1. <<>> \in Seq(PieceRec)
      OBVIOUS
    <3>2. q.rest = <<>>
      BY <2>1
    <3>3. q.client = HandleFrame(cl, Front(rest))
      BY <2>1
    <3> QED
      BY <3>1, <3>2, <3>3, Zenon
  <2>4. InFlight(s, q.rest, Tail(w), c[1])
    <3>1. Len(Tail(w)) = Len(T) - a[1] /\ \A i \in 1..Len(Tail(w)) : Tail(w)[i] = T[a[1] + i]
      <4>1. \A x, y \in Nat : y - 1 = (x + y) - (x + 1)
        OBVIOUS
      <4>2. Len(Tail(w)) = Len(T) - a[1]
        BY <1>3, <1>4, <1>15, <4>1, Zenon
      <4> QED
        BY <1>5, <1>15, <4>2, Zenon
    <3>2. InFlight(s, <<>>, Tail(w), c[1])
      BY <1>2, <1>3, <1>4, <1>6, <3>1, UnitGone, Zenon
    <3> QED
      BY <2>2, <3>2, Zenon
  <2>5. CASE /\ c[1] = k /\ a[1] = 3
             /\ T[1] = Piece("comment", NoEvent) /\ T[2] = NewLine /\ T[3] = NewLine
    <3>1. Len(rest) = 2 /\ rest[1] = Piece("comment", NoEvent)
      <4>1. L = 2 /\ 1 \in 1..L
        BY <1>3, <1>15, <2>5
      <4> QED
        BY <1>5, <2>5, <4>1 DEF L
    <3>2. q.client = cl
      BY <2>2, <3>1, BeatSaysNothing, Zenon
    <3> QED
      BY <2>1, <2>2, <2>4, <2>5, <3>2, Zenon
  <2>6. CASE /\ c[1] = k + 1 /\ c[1] \in 1..Len(s) /\ s[c[1]].name \in Unnamed /\ a[1] = 4
             /\ T[1] = Piece("data", s[c[1]]) /\ T[2] = Piece("dataEnd", s[c[1]])
             /\ T[3] = NewLine /\ T[4] = NewLine
    <3>1. Len(rest) = 3 /\ rest[1] = Piece("data", s[c[1]]) /\ rest[2] = Piece("dataEnd", s[c[1]])
      <4>1. L = 3 /\ 1 \in 1..L /\ 2 \in 1..L
        BY <1>3, <1>15, <2>6
      <4> QED
        BY <1>5, <2>6, <4>1 DEF L
    <3>2. s[c[1]] \in EventRec
      BY <1>12, <2>6, Zenon
    <3>3. q.client = Handle(cl, ToldAs(s[c[1]]))
      BY <2>2, <2>6, <3>1, <3>2, FrameIsHeard, Zenon
    <3> QED
      BY <2>1, <2>2, <2>4, <2>6, <3>3, Zenon
  <2>7. CASE /\ c[1] = k + 1 /\ c[1] \in 1..Len(s) /\ s[c[1]].name \notin Unnamed /\ a[1] = 6
             /\ T[1] = Piece("header", s[c[1]]) /\ T[2] = NewLine
             /\ T[3] = Piece("data", s[c[1]]) /\ T[4] = Piece("dataEnd", s[c[1]])
             /\ T[5] = NewLine /\ T[6] = NewLine
    <3>1. /\ Len(rest) = 5 /\ rest[1] = Piece("header", s[c[1]]) /\ rest[2] = NewLine
          /\ rest[3] = Piece("data", s[c[1]]) /\ rest[4] = Piece("dataEnd", s[c[1]])
      <4>1. L = 5 /\ 1 \in 1..L /\ 2 \in 1..L /\ 3 \in 1..L /\ 4 \in 1..L
        BY <1>3, <1>15, <2>7
      <4> QED
        BY <1>5, <2>7, <4>1 DEF L
    <3>2. s[c[1]] \in EventRec
      BY <1>12, <2>7, Zenon
    <3>3. q.client = Handle(cl, ToldAs(s[c[1]]))
      BY <2>2, <2>7, <3>1, <3>2, FrameIsHeard, Zenon
    <3> QED
      BY <2>1, <2>2, <2>4, <2>7, <3>3, Zenon
  <2> QED
    BY <1>9, <2>5, <2>6, <2>7
<1> QED
  BY <1>10, <1>14, <1>15, Zenon

(* What the client has made of the events s so far.                         *)
ClientStatuses == {"streaming", "error", "stopped", "done", "awaiting-approval"}
Bubbles == {"trouble", "failure", "answer"}
EventSeq == Seq(EventRec)
BubbleSeq == Seq(Bubbles)
ClientRec ==
  [status : ClientStatuses, seen : EventSeq,
   warming : BOOLEAN, started : 0..1, final : EventRec, bubbles : BubbleSeq, finished : Nat]
Has(bubbles, bubble) == \E i \in DOMAIN bubbles : bubbles[i] = bubble
Says(cl, bubble) == Has(cl.bubbles, bubble)
LastIs(cl, name) == cl.seen # <<>> /\ Last(cl.seen).name = name
ClientOK(cl, s, lost) ==
  /\ cl \in ClientRec
  /\ Len(cl.seen) <= Len(s) /\ \A i \in 1..Len(cl.seen) : cl.seen[i] = s[i]
  /\ cl.finished = IF cl.status = "streaming" THEN 0 ELSE 1
  /\ cl.warming => cl.status = "streaming" /\ LastIs(cl, "warming")
  /\ cl.final = NoEvent \/ (cl.final.name = "done" /\ \E i \in 1..Len(cl.seen) : cl.seen[i] = cl.final)
  /\ (\E i \in 1..Len(cl.seen) : cl.seen[i].name = "done") => cl.final.name = "done"
  /\ cl.status = "streaming" => /\ \A i \in 1..Len(cl.seen) : cl.seen[i].name # "error"
                                /\ ~Says(cl, "failure") /\ ~Says(cl, "answer")
  /\ cl.status = "error" /\ ~lost => cl.final.status = "error" \/ LastIs(cl, "error")
  /\ Says(cl, "answer") => cl.final.name = "done" /\ ~Says(cl, "failure")
  /\ cl.status = "done" => Says(cl, "answer") \/ cl.final.status = "silent"
  /\ cl.status \in {"done", "awaiting-approval"} => Len(cl.seen) = Len(s)

(* One bubble more.                                                         *)
LEMMA BubbleAdded ==
  ASSUME NEW S, NEW b \in Seq(S), NEW x \in S
  PROVE  /\ Append(b, x) \in Seq(S)
         /\ \A y : Has(Append(b, x), y) <=> (y = x \/ Has(b, y))
<1>1. /\ Append(b, x) \in Seq(S) /\ Len(Append(b, x)) = Len(b) + 1 /\ Len(b) \in Nat
      /\ \A i \in 1..Len(b) : Append(b, x)[i] = b[i]
      /\ Append(b, x)[Len(b) + 1] = x
  BY AppendProperties, LenProperties
<1>2. DOMAIN Append(b, x) = 1..Len(b) + 1 /\ DOMAIN b = 1..Len(b)
  BY <1>1, LenProperties
<1>3. \A i \in 1..Len(b) + 1 : i \in 1..Len(b) \/ i = Len(b) + 1
  BY <1>1
<1>4. (\A i \in 1..Len(b) : i \in 1..Len(b) + 1) /\ Len(b) + 1 \in 1..Len(b) + 1
  BY <1>1
<1> HIDE DEF Append
<1>5. ASSUME NEW y PROVE (\E i \in 1..Len(b) + 1 : Append(b, x)[i] = y) <=> (y = x \/ \E i \in 1..Len(b) : b[i] = y)
  BY <1>1, <1>3, <1>4, Zenon
<1> QED
  BY <1>1, <1>2, <1>5, Zenon DEF Has

(* One event more.                                                          *)
LEMMA EventAdded ==
  ASSUME NEW s \in Seq(EventRec), NEW t \in Seq(EventRec), Len(t) + 1 \in 1..Len(s),
         \A i \in 1..Len(t) : t[i] = s[i]
  PROVE  LET u == Append(t, s[Len(t) + 1])
         IN  /\ u \in Seq(EventRec) /\ Len(u) = Len(t) + 1 /\ Len(u) <= Len(s)
             /\ u # <<>> /\ Last(u) = s[Len(t) + 1]
             /\ \A i \in 1..Len(u) : u[i] = s[i]
             /\ \A i \in 1..Len(u) : (i \in 1..Len(t) /\ u[i] = t[i]) \/ u[i] = s[Len(t) + 1]
             /\ \A i \in 1..Len(t) : i \in 1..Len(u) /\ u[i] = t[i]
             /\ Len(u) \in 1..Len(u) /\ u[Len(u)] = s[Len(t) + 1]
<1> DEFINE x == s[Len(t) + 1]
           u == Append(t, x)
<1>1. x \in EventRec
  BY ElementOfSeq
<1>2. /\ u \in Seq(EventRec) /\ Len(u) = Len(t) + 1 /\ Len(t) \in Nat /\ Len(s) \in Nat
      /\ \A i \in 1..Len(t) : u[i] = t[i]
      /\ u[Len(t) + 1] = x
  BY <1>1, AppendProperties, LenProperties
<1>3. u # <<>>
  BY <1>2, EmptySeq
<1>4. x = s[Len(t) + 1]
  OBVIOUS
<1> HIDE DEF u, x
<1>5. /\ \A i \in 1..Len(t) + 1 : i \in 1..Len(t) \/ i = Len(t) + 1
      /\ \A i \in 1..Len(t) : i \in 1..Len(t) + 1
      /\ Len(t) + 1 \in 1..Len(t) + 1 /\ Len(t) + 1 <= Len(s)
  BY <1>2
<1>6. Last(u) = x
  BY <1>2 DEF Last
<1>7. \A i \in 1..Len(u) : u[i] = s[i]
  BY <1>2, <1>4, <1>5
<1>8. \A i \in 1..Len(u) : (i \in 1..Len(t) /\ u[i] = t[i]) \/ u[i] = x
  BY <1>2, <1>5
<1>9. u = Append(t, s[Len(t) + 1])
  BY DEF u, x
<1> QED
  BY <1>2, <1>3, <1>4, <1>5, <1>6, <1>7, <1>8, <1>9, Zenon

(* A client written out.                                                    *)
LEMMA ClientWritten ==
  ASSUME NEW st \in ClientStatuses, NEW u \in EventSeq, NEW w \in BOOLEAN, NEW g \in 0..1, NEW f \in EventRec,
         NEW b \in BubbleSeq, NEW n \in Nat, NEW h,
         h = [status |-> st, seen |-> u, warming |-> w, started |-> g, final |-> f, bubbles |-> b, finished |-> n]
  PROVE  /\ h \in ClientRec /\ h.status = st /\ h.seen = u /\ (h.warming <=> w) /\ h.started = g
         /\ h.final = f /\ h.bubbles = b /\ h.finished = n
<1>1. h \in ClientRec
  BY DEF ClientRec, ClientStatuses
<1> QED
  BY <1>1

(* A client that has heard an event.                                        *)
LEMMA HeardForm ==
  ASSUME NEW cl \in ClientRec, NEW u, NEW w \in BOOLEAN, NEW h,
         h = [cl EXCEPT !.started = 1, !.seen = u, !.warming = w]
  PROVE  h = [status |-> cl.status, seen |-> u, warming |-> w, started |-> 1, final |-> cl.final,
              bubbles |-> cl.bubbles, finished |-> cl.finished]
BY DEF ClientRec

(* What an event makes of the client.                                       *)
LEMMA HandleForm ==
  ASSUME NEW cl \in ClientRec, cl.status = "streaming", cl.finished = 0, NEW e \in EventRec,
         NEW h, h = Handle(cl, ToldAs(e)), Append(cl.seen, e) \in EventSeq, e.name # "none",
         \A x \in Bubbles : Append(cl.bubbles, x) \in BubbleSeq
  PROVE  /\ h \in ClientRec /\ h.seen = Append(cl.seen, e)
         /\ \/ /\ e.name = "error" /\ h.status = "error" /\ h.finished = 1 /\ h.warming = FALSE
               /\ h.final = cl.final /\ h.bubbles = Append(cl.bubbles, "failure")
            \/ /\ e.name # "error" /\ h.status = "streaming" /\ h.finished = 0
               /\ (h.warming <=> e.name = "warming") /\ h.final = (IF e.name = "done" THEN e ELSE cl.final)
               /\ h.bubbles = cl.bubbles \/ h.bubbles = Append(cl.bubbles, "trouble")
<1> DEFINE u == Append(cl.seen, e)
           fb == Append(cl.bubbles, "failure")
           tb == Append(cl.bubbles, "trouble")
<1>1. fb \in BubbleSeq /\ tb \in BubbleSeq /\ u \in EventSeq
  BY DEF Bubbles
<1>2. ToldAs(e).header = (IF e.name \in Unnamed THEN "message" ELSE e.name) /\ ToldAs(e).event = e
  BY DEF ToldAs
<1>3. e.name \in {"event", "trouble", "warming", "done", "error", "title_updated"}
  BY DEF EventRec, Unnamed
<1>4. cl.final \in EventRec /\ cl.bubbles \in BubbleSeq /\ cl.status \in ClientStatuses
  BY DEF ClientRec, ClientStatuses
<1>5. 1 \in 0..1 /\ 0 \in Nat /\ 1 \in Nat /\ "streaming" \in ClientStatuses /\ "error" \in ClientStatuses
  BY DEF ClientStatuses
<1> DEFINE R(st, w, f, b, n) == [status |-> st, seen |-> u, warming |-> w, started |-> 1, final |-> f,
                                 bubbles |-> b, finished |-> n]
<1>6. CASE e.name = "error"
  <2>1. h = R("error", FALSE, cl.final, fb, 1)
    <3> DEFINE heard == [cl EXCEPT !.started = 1, !.seen = u, !.warming = FALSE]
    <3>1. h = Failed(heard)
      BY <1>2, <1>6 DEF Handle, Unnamed
    <3> HIDE DEF u
    <3>2. heard = [status |-> cl.status, seen |-> u, warming |-> FALSE, started |-> 1, final |-> cl.final,
                   bubbles |-> cl.bubbles, finished |-> cl.finished]
      <4>1. FALSE \in BOOLEAN
        OBVIOUS
      <4> QED
        BY <4>1, HeardForm, Zenon DEF heard
    <3> HIDE DEF heard
    <3>3. heard.finished + 1 = 1 /\ heard.bubbles = cl.bubbles
      BY <3>2
    <3>4. h = [status |-> "error", seen |-> u, warming |-> FALSE, started |-> 1, final |-> cl.final,
               bubbles |-> Append(heard.bubbles, "failure"), finished |-> heard.finished + 1]
      BY <3>1, <3>2 DEF Failed, Exit
    <3> QED
      BY <3>3, <3>4
  <2> HIDE DEF u, fb, tb
  <2>2. /\ h \in ClientRec /\ h.status = "error" /\ h.seen = u /\ (h.warming <=> FALSE)
        /\ h.final = cl.final /\ h.bubbles = fb /\ h.finished = 1
    BY <1>1, <1>4, <1>5, <2>1 DEF ClientRec, ClientStatuses
  <2> QED
    BY <1>6, <2>2 DEF u, fb, tb
<1>7. CASE e.name = "done"
  <2>1. h = R("streaming", FALSE, e, cl.bubbles, 0)
    BY <1>2, <1>7 DEF Handle, Unnamed, ClientRec
  <2> HIDE DEF u, fb, tb
  <2>2. /\ h \in ClientRec /\ h.status = "streaming" /\ h.seen = u /\ (h.warming <=> FALSE)
        /\ h.final = e /\ h.bubbles = cl.bubbles /\ h.finished = 0
    BY <1>1, <1>4, <1>5, <2>1 DEF ClientRec, ClientStatuses
  <2> QED
    BY <1>7, <2>2 DEF u, fb, tb
<1>8. CASE e.name = "trouble"
  <2>1. h = R("streaming", FALSE, cl.final, tb, 0)
    BY <1>2, <1>8 DEF Handle, Unnamed, ClientRec
  <2> HIDE DEF u, fb, tb
  <2>2. /\ h \in ClientRec /\ h.status = "streaming" /\ h.seen = u /\ (h.warming <=> FALSE)
        /\ h.final = cl.final /\ h.bubbles = tb /\ h.finished = 0
    BY <1>1, <1>4, <1>5, <2>1 DEF ClientRec, ClientStatuses
  <2> QED
    BY <1>8, <2>2 DEF u, fb, tb
<1>9. CASE e.name = "warming"
  <2>1. h = R("streaming", TRUE, cl.final, cl.bubbles, 0)
    BY <1>2, <1>9 DEF Handle, Unnamed, ClientRec
  <2> HIDE DEF u, fb, tb
  <2>2. /\ h \in ClientRec /\ h.status = "streaming" /\ h.seen = u /\ (h.warming <=> TRUE)
        /\ h.final = cl.final /\ h.bubbles = cl.bubbles /\ h.finished = 0
    BY <1>1, <1>4, <1>5, <2>1 DEF ClientRec, ClientStatuses
  <2> QED
    BY <1>9, <2>2 DEF u, fb, tb
<1>10. CASE e.name \in {"event", "title_updated"}
  <2>1. h = R("streaming", FALSE, cl.final, cl.bubbles, 0)
    BY <1>2, <1>10 DEF Handle, Unnamed, ClientRec
  <2> HIDE DEF u, fb, tb
  <2>2. /\ h \in ClientRec /\ h.status = "streaming" /\ h.seen = u /\ (h.warming <=> FALSE)
        /\ h.final = cl.final /\ h.bubbles = cl.bubbles /\ h.finished = 0
    BY <1>1, <1>4, <1>5, <2>1 DEF ClientRec, ClientStatuses
  <2> QED
    BY <1>10, <2>2 DEF u, fb, tb
<1> QED
  BY <1>3, <1>6, <1>7, <1>8, <1>9, <1>10

(* A client that is told the next event has heard one more.                 *)
LEMMA EventHandled ==
  ASSUME NEW s \in Seq(EventRec), NEW cl, NEW lost, ClientOK(cl, s, lost), NEW k \in Nat, k + 1 \in 1..Len(s),
         cl.status = "streaming" => Len(cl.seen) = k, s[k + 1].name # "none",
         NEW h, h = Handle(cl, ToldAs(s[k + 1]))
  PROVE  /\ ClientOK(h, s, lost) /\ (h.status = "streaming" => Len(h.seen) = k + 1)
         /\ h.status \in {cl.status, "error"}
<1>1. CASE cl.status # "streaming"
  <2>1. h = cl
    BY <1>1 DEF Handle
  <2> QED
    BY <1>1, <2>1
<1>2. CASE cl.status = "streaming"
  <2> DEFINE e == s[k + 1]
             seen2 == Append(cl.seen, e)
  <2>1. /\ cl \in ClientRec
        /\ Len(cl.seen) <= Len(s) /\ \A i \in 1..Len(cl.seen) : cl.seen[i] = s[i]
        /\ cl.finished = 0
        /\ cl.final = NoEvent \/ (cl.final.name = "done" /\ \E i \in 1..Len(cl.seen) : cl.seen[i] = cl.final)
        /\ (\E i \in 1..Len(cl.seen) : cl.seen[i].name = "done") => cl.final.name = "done"
        /\ \A i \in 1..Len(cl.seen) : cl.seen[i].name # "error"
        /\ ~Says(cl, "failure") /\ ~Says(cl, "answer")
    BY <1>2 DEF ClientOK
  <2>2. /\ cl.seen \in Seq(EventRec) /\ Len(cl.seen) = k /\ cl.bubbles \in Seq(Bubbles)
        /\ cl.final \in EventRec
    BY <1>2, <2>1 DEF ClientRec, EventSeq, BubbleSeq
  <2>3. /\ seen2 \in Seq(EventRec) /\ Len(seen2) = k + 1 /\ Len(seen2) <= Len(s)
        /\ seen2 # <<>> /\ Last(seen2) = e
        /\ \A i \in 1..Len(seen2) : seen2[i] = s[i]
        /\ \A i \in 1..Len(seen2) : (i \in 1..Len(cl.seen) /\ seen2[i] = cl.seen[i]) \/ seen2[i] = e
        /\ \A i \in 1..Len(cl.seen) : i \in 1..Len(seen2) /\ seen2[i] = cl.seen[i]
        /\ Len(seen2) \in 1..Len(seen2) /\ seen2[Len(seen2)] = e
    BY <2>1, <2>2, EventAdded
  <2>4. e \in EventRec /\ e.name # "none"
    BY ElementOfSeq
  <2>5. ASSUME NEW x \in Bubbles
        PROVE  /\ Append(cl.bubbles, x) \in BubbleSeq
               /\ \A y : Has(Append(cl.bubbles, x), y) <=> (y = x \/ Has(cl.bubbles, y))
    <3>1. cl.bubbles \in Seq(Bubbles)
      BY <2>2
    <3> HIDE DEF e, seen2
    <3> QED
      BY <3>1, BubbleAdded, Zenon DEF BubbleSeq
  <2>6. /\ h \in ClientRec /\ h.seen = seen2
        /\ \/ /\ e.name = "error" /\ h.status = "error" /\ h.finished = 1 /\ h.warming = FALSE
              /\ h.final = cl.final /\ h.bubbles = Append(cl.bubbles, "failure")
           \/ /\ e.name # "error" /\ h.status = "streaming" /\ h.finished = 0
              /\ (h.warming <=> e.name = "warming") /\ h.final = (IF e.name = "done" THEN e ELSE cl.final)
              /\ h.bubbles = cl.bubbles \/ h.bubbles = Append(cl.bubbles, "trouble")
    <3>1. h = Handle(cl, ToldAs(e)) /\ seen2 = Append(cl.seen, e)
      OBVIOUS
    <3> HIDE DEF e
    <3>2. Append(cl.seen, e) \in EventSeq
      BY <2>3 DEF EventSeq
    <3> HIDE DEF seen2
    <3> QED
      <4>1. cl \in ClientRec /\ cl.status = "streaming" /\ cl.finished = 0 /\ e \in EventRec /\ e.name # "none"
        BY <1>2, <2>1, <2>4
      <4>2. \A x \in Bubbles : Append(cl.bubbles, x) \in BubbleSeq
        BY <2>5
      <4> QED
        BY <3>1, <3>2, <4>1, <4>2, HandleForm
  <2> HIDE DEF e, seen2
  <2>7. h.final = NoEvent \/ (h.final.name = "done" /\ \E i \in 1..Len(h.seen) : h.seen[i] = h.final)
    BY <2>1, <2>3, <2>6
  <2>8. (\E i \in 1..Len(h.seen) : h.seen[i].name = "done") => h.final.name = "done"
    BY <2>1, <2>3, <2>6
  <2>9. Len(h.seen) = k + 1 /\ Len(h.seen) <= Len(s) /\ \A i \in 1..Len(h.seen) : h.seen[i] = s[i]
    BY <2>3, <2>6
  <2>10. LastIs(h, e.name)
    BY <2>3, <2>6, Zenon DEF LastIs
  <2>11. ~Says(h, "answer") /\ (h.status = "streaming" => ~Says(h, "failure"))
    <3>1. "trouble" \in Bubbles /\ "failure" \in Bubbles /\ "answer" # "trouble" /\ "answer" # "failure"
          /\ "trouble" # "failure" /\ "error" # "streaming"
      BY DEF Bubbles
    <3>2. h.bubbles = cl.bubbles => ~Says(h, "answer") /\ ~Says(h, "failure")
      BY <2>1 DEF Says
    <3>3. h.bubbles = Append(cl.bubbles, "trouble") => ~Says(h, "answer") /\ ~Says(h, "failure")
      BY <2>1, <2>5, <3>1 DEF Says
    <3>4. h.bubbles = Append(cl.bubbles, "failure") => ~Says(h, "answer")
      BY <2>1, <2>5, <3>1 DEF Says
    <3>5. h.status = "streaming" => h.bubbles = cl.bubbles \/ h.bubbles = Append(cl.bubbles, "trouble")
      BY <2>6
    <3>6. \/ h.bubbles = cl.bubbles \/ h.bubbles = Append(cl.bubbles, "trouble")
          \/ h.bubbles = Append(cl.bubbles, "failure")
      BY <2>6
    <3> QED
      BY <3>2, <3>3, <3>4, <3>5, <3>6, Zenon
  <2>12. h.status = "streaming" => \A i \in 1..Len(h.seen) : h.seen[i].name # "error"
    BY <2>1, <2>3, <2>6
  <2>13. ClientOK(h, s, lost)
    BY <2>6, <2>7, <2>8, <2>9, <2>10, <2>11, <2>12 DEF ClientOK
  <2> QED
    BY <1>2, <2>6, <2>9, <2>13
<1> QED
  BY <1>1, <1>2

(* What is left of a text behind its i-th piece.                            *)
LEMMA Remains ==
  ASSUME NEW w \in Seq(PieceRec), NEW i \in Nat, i < Len(w)
  PROVE  /\ SubSeq(w, i + 1, Len(w)) \in Seq(PieceRec) /\ SubSeq(w, i + 1, Len(w)) # <<>>
         /\ Head(SubSeq(w, i + 1, Len(w))) = w[i + 1]
         /\ Tail(SubSeq(w, i + 1, Len(w))) = SubSeq(w, (i + 1) + 1, Len(w))
<1>1. /\ Len(w) \in Nat /\ i + 1 \in 1..Len(w) /\ Len(w) \in i + 1..Len(w) /\ i + 1 \in Int /\ Len(w) \in Int
      /\ i + 1 <= Len(w) /\ Len(w) - (i + 1) + 1 # 0
  BY LenProperties
<1>2. \A j \in i + 1..Len(w) : w[j] \in PieceRec
  <2>1. \A j \in i + 1..Len(w) : j \in 1..Len(w)
    BY <1>1
  <2> QED
    BY <2>1, ElementOfSeq
<1>3. /\ SubSeq(w, i + 1, Len(w)) \in Seq(PieceRec)
      /\ Len(SubSeq(w, i + 1, Len(w))) = Len(w) - (i + 1) + 1
  BY <1>1, <1>2, SubSeqProperties, Zenon
<1>4. SubSeq(w, i + 1, Len(w)) # <<>>
  BY <1>1, <1>3, EmptySeq, Zenon
<1> QED
  BY <1>1, <1>3, <1>4, HeadTailOfSubSeq, Zenon

(* A chunk, piece by piece.                                                 *)
LEMMA ChunkTaken ==
  ASSUME NEW s \in Seq(EventRec), \A i \in 1..Len(s) : s[i].name # "none", NEW lost,
         NEW cl, ClientOK(cl, s, lost), cl.status = "streaming",
         NEW rest \in Seq(PieceRec), NEW w \in Seq(PieceRec), InFlight(s, rest, w, Len(cl.seen)),
         NEW n \in 1..Len(w), NEW q, q = TakeAll([rest |-> rest, client |-> cl], SubSeq(w, 1, n))
  PROVE  /\ ClientOK(q.client, s, lost) /\ q.client.status \in {"streaming", "error"} /\ q.rest \in Seq(PieceRec)
         /\ SubSeq(w, n + 1, Len(w)) \in Seq(PieceRec)
         /\ \E k \in Nat : /\ q.client.status = "streaming" => Len(q.client.seen) = k
                           /\ InFlight(s, q.rest, SubSeq(w, n + 1, Len(w)), k)
<1> DEFINE v == SubSeq(w, 1, n)
           p == [rest |-> rest, client |-> cl]
<1>1. n \in Nat /\ Len(w) \in Nat /\ n <= Len(w) /\ Len(cl.seen) \in Nat
  <2>1. cl.seen \in Seq(EventRec)
    BY DEF ClientOK, ClientRec, EventSeq
  <2> QED
    BY <2>1, LenProperties
<1>2. Len(v) = n /\ Len(v) \in Nat /\ \A i \in 1..n : v[i] = w[i]
  <2>1. \A i \in 1..n : w[i] \in PieceRec
    BY <1>1, ElementOfSeq
  <2>2. /\ Len(v) = IF 1 <= n THEN n - 1 + 1 ELSE 0
        /\ \A i \in 1..n - 1 + 1 : v[i] = w[1 + i - 1]
    BY <1>1, <2>1, SubSeqProperties
  <2>3. n - 1 + 1 = n /\ 1 <= n /\ \A i \in 1..n : 1 + i - 1 = i
    BY <1>1
  <2> QED
    BY <1>1, <2>2, <2>3
<1>3. PICK after : /\ after[0] = p
                   /\ \A i \in 1..n : after[i] = TakePiece(after[i - 1], v[i])
                   /\ q = after[n]
  <2>1. q = TakeAll(p, v)
    OBVIOUS
  <2> HIDE DEF p, v
  <2> QED
    <3>1. \E after : /\ after[0] = p
                     /\ \A i \in 1..Len(v) : after[i] = TakePiece(after[i - 1], v[i])
                     /\ q = after[Len(v)]
      <4>1. Len(v) \in Nat
        BY <1>2
      <4> QED
        BY ONLY <2>1, <4>1, TakenInOrder, SMTT(60)
    <3> QED
      BY <1>2, <3>1
<1> DEFINE Good(x, i) == /\ x = [rest |-> x.rest, client |-> x.client]
                         /\ ClientOK(x.client, s, lost) /\ x.client.status \in {"streaming", "error"}
                         /\ x.rest \in Seq(PieceRec)
                         /\ \E k \in Nat : /\ x.client.status = "streaming" => Len(x.client.seen) = k
                                           /\ InFlight(s, x.rest, SubSeq(w, i + 1, Len(w)), k)
           S == {i \in Nat : Good(after[i], i)}
<1>4. Good(after[0], 0)
  <2>1. SubSeq(w, 0 + 1, Len(w)) = w
    BY SubSeqFull
  <2>2. p.rest = rest /\ p.client = cl /\ p = [rest |-> p.rest, client |-> p.client]
    OBVIOUS
  <2> HIDE DEF p
  <2> QED
    BY <1>1, <1>3, <2>1, <2>2
<1> HIDE DEF p, v
<1>5. ASSUME NEW i \in Nat, i < n, Good(after[i], i) PROVE Good(after[i + 1], i + 1)
  <2> DEFINE x == after[i]
             rem == SubSeq(w, i + 1, Len(w))
  <2>1. i < Len(w) /\ i + 1 \in 1..n /\ (i + 1) - 1 = i
    BY <1>1, <1>5
  <2>2. /\ rem \in Seq(PieceRec) /\ rem # <<>> /\ Head(rem) = w[i + 1]
        /\ Tail(rem) = SubSeq(w, (i + 1) + 1, Len(w))
    BY <2>1, Remains
  <2>3. after[i + 1] = TakePiece(x, Head(rem))
    BY <1>2, <1>3, <2>1, <2>2
  <2>4. PICK k \in Nat : /\ x.client.status = "streaming" => Len(x.client.seen) = k
                         /\ InFlight(s, x.rest, rem, k)
    BY <1>5
  <2>5. /\ x = [rest |-> x.rest, client |-> x.client] /\ ClientOK(x.client, s, lost)
        /\ x.client.status \in {"streaming", "error"} /\ x.rest \in Seq(PieceRec)
    BY <1>5
  <2> DEFINE y == after[i + 1]
  <2>6. y = TakePiece([rest |-> x.rest, client |-> x.client], Head(rem))
    BY <2>3, <2>5
  <2> HIDE DEF x, rem, y
  <2>7. /\ y = [rest |-> y.rest, client |-> y.client] /\ y.rest \in Seq(PieceRec)
        /\ \/ y.client = x.client /\ InFlight(s, y.rest, Tail(rem), k)
           \/ /\ k + 1 \in 1..Len(s) /\ y.client = Handle(x.client, ToldAs(s[k + 1]))
              /\ InFlight(s, y.rest, Tail(rem), k + 1)
    <3> DEFINE xr == x.rest
               xc == x.client
    <3>1. xr \in Seq(PieceRec) /\ InFlight(s, xr, rem, k) /\ y = TakePiece([rest |-> xr, client |-> xc], Head(rem))
      BY <2>4, <2>5, <2>6
    <3> HIDE DEF xr, xc
    <3>2. /\ y = [rest |-> y.rest, client |-> y.client] /\ y.rest \in Seq(PieceRec)
          /\ \/ y.client = xc /\ InFlight(s, y.rest, Tail(rem), k)
             \/ /\ k + 1 \in 1..Len(s) /\ y.client = Handle(xc, ToldAs(s[k + 1]))
                /\ InFlight(s, y.rest, Tail(rem), k + 1)
      <4>1. s \in Seq(EventRec) /\ k \in Nat
        OBVIOUS
      <4> QED
        BY ONLY <2>2, <3>1, <4>1, PieceTaken, SMTT(60)
    <3> QED
      BY <3>2, Zenon DEF xc
  <2>8. CASE y.client = x.client /\ InFlight(s, y.rest, Tail(rem), k)
    <3>1. y.client.status = "streaming" => Len(y.client.seen) = k
      BY <2>4, <2>8
    <3>2. ClientOK(y.client, s, lost) /\ y.client.status \in {"streaming", "error"}
      BY <2>5, <2>8
    <3>3. InFlight(s, y.rest, SubSeq(w, (i + 1) + 1, Len(w)), k)
      BY <2>2, <2>8, Zenon
    <3> QED
      BY <2>7, <3>1, <3>2, <3>3, Zenon DEF y
  <2>9. CASE /\ k + 1 \in 1..Len(s) /\ y.client = Handle(x.client, ToldAs(s[k + 1]))
             /\ InFlight(s, y.rest, Tail(rem), k + 1)
    <3>1. s[k + 1].name # "none"
      BY <2>9
    <3>2. /\ ClientOK(y.client, s, lost) /\ (y.client.status = "streaming" => Len(y.client.seen) = k + 1)
          /\ y.client.status \in {x.client.status, "error"}
      BY <2>4, <2>5, <2>9, <3>1, EventHandled, Zenon
    <3>3. y.client.status \in {"streaming", "error"} /\ k + 1 \in Nat
      BY <2>5, <3>2
    <3>4. InFlight(s, y.rest, SubSeq(w, (i + 1) + 1, Len(w)), k + 1)
      BY <2>2, <2>9, Zenon
    <3> QED
      BY <2>7, <3>2, <3>3, <3>4, Zenon DEF y
  <2> QED
    BY <2>7, <2>8, <2>9, Zenon
<1> HIDE DEF Good
<1>6. 0 \in S /\ \A i \in Nat : i \in S /\ i < n => i + 1 \in S
  BY <1>4, <1>5
<1> HIDE DEF S
<1>7. \A i \in 0..n : i \in S
  BY <1>1, <1>6, UpTo, Zenon
<1>8. n \in S
  BY <1>1, <1>7
<1>9. Good(q, n)
  BY <1>3, <1>8 DEF S
<1>10. SubSeq(w, n + 1, Len(w)) \in Seq(PieceRec)
  <2>1. CASE n < Len(w)
    BY <1>1, <2>1, Remains
  <2>2. CASE n = Len(w)
    <3>1. n + 1 \in Int /\ Len(w) \in Int /\ Len(w) < n + 1
      BY <1>1, <2>2
    <3>2. SubSeq(w, n + 1, Len(w)) = <<>>
      BY <3>1, SubSeqEmpty, Zenon
    <3> QED
      BY <3>2
  <2> QED
    BY <1>1, <2>1, <2>2
<1> QED
  BY <1>9, <1>10 DEF Good

(* The wire of a turn that starts, one that has been read to the end, and   *)
(* one that is written on.                                                  *)
LEMMA NothingInFlight ==
  InFlight(<<>>, <<>>, <<>>, 0)
<1> DEFINE a == [i \in 0..0 |-> 0]
<1>1. a \in [0..0 -> Nat] /\ a[0] = 0 /\ 0 \in Nat
  OBVIOUS
<1>2. <<>> \o <<>> = <<>> /\ Len(<<>>) = 0
  OBVIOUS
<1>3. (\A i, j \in 0..0 : i <= j => a[i] <= a[j]) /\ 1..0 = {}
  OBVIOUS
<1> HIDE DEF a
<1>4. Laid(<<>>, <<>> \o <<>>, 0, 0, a, a)
  BY <1>1, <1>2, <1>3 DEF Laid
<1>5. ~(0 > 0)
  OBVIOUS
<1> QED
  BY <1>1, <1>4, <1>5, Zenon DEF InFlight, IsLaid

(* A wire that is read out has told everything.                             *)
LEMMA ReadOut ==
  ASSUME NEW s \in Seq(EventRec), NEW rest \in Seq(PieceRec), NEW k \in Nat, InFlight(s, rest, <<>>, k)
  PROVE  rest = <<>> /\ k = Len(s)
<1>1. rest \o <<>> = rest /\ Len(rest) \in Nat
  BY ConcatEmptySeq, LenProperties
<1>2. PICK m \in Nat : \E a, c \in [0..m -> Nat] : Laid(s, rest, k, m, a, c) /\ (m > 0 => Len(rest) < a[1])
  BY <1>1 DEF InFlight, IsLaid
<1>3. PICK a \in [0..m -> Nat], c \in [0..m -> Nat] : Laid(s, rest, k, m, a, c) /\ (m > 0 => Len(rest) < a[1])
  BY <1>2
<1>4. m = 0
  <2>1. ASSUME m > 0 PROVE FALSE
    <3>1. a[1] <= Len(rest) /\ a[1] \in {3, 4, 6} /\ Len(rest) < a[1]
      BY <1>3, <2>1, FirstUnit
    <3> QED
      BY <1>1, <3>1
  <2> QED
    BY <2>1
<1>5. Len(rest) = 0 /\ k = Len(s)
  BY <1>3, <1>4 DEF Laid
<1> QED
  BY <1>5, EmptySeq

(* Three texts, one behind the other.                                       *)
LEMMA Regrouped ==
  ASSUME NEW r \in Seq(PieceRec), NEW w \in Seq(PieceRec), NEW u \in Seq(PieceRec)
  PROVE  (r \o w) \o u = r \o (w \o u)
BY ConcatAssociative

(* What is written goes behind what is on its way.                          *)
LEMMA FlightGrows ==
  ASSUME NEW s \in Seq(EventRec), NEW s2 \in Seq(EventRec), Len(s) <= Len(s2), \A i \in 1..Len(s) : s2[i] = s[i],
         NEW rest \in Seq(PieceRec), NEW w \in Seq(PieceRec), NEW u \in Seq(PieceRec), NEW k \in Nat,
         InFlight(s, rest, w, k),
         \/ Len(s2) = Len(s) /\ u = KeepAlive
         \/ Len(s2) = Len(s) + 1 /\ u = Frame(s2[Len(s2)])
  PROVE  InFlight(s2, rest, w \o u, k)
<1> DEFINE T == rest \o w
<1>1. Len(rest) \in Nat /\ Len(w) \in Nat /\ T \in Seq(PieceRec) /\ Len(T) = Len(rest) + Len(w)
  BY LenProperties, ConcatProperties
<1>2. rest \o (w \o u) = T \o u
  BY Regrouped, Zenon
<1>3. IsLaid(s, T, k, Len(rest))
  BY DEF InFlight
<1> HIDE DEF T
<1>4. \A x, y \in Nat : x <= x + y
  OBVIOUS
<1>5. Len(rest) <= Len(T)
  BY <1>1, <1>4, Zenon
<1>6. IsLaid(s2, T \o u, k, Len(rest))
  BY <1>1, <1>3, <1>5, LayoutGrows, Zenon
<1> QED
  BY <1>2, <1>6, Zenon DEF InFlight

RouteRec == [step : {"running", "answered", "settled", "over"}, saved : BOOLEAN, warned : BOOLEAN]
SentOK(s) ==
  /\ s \in Seq(EventRec)
  /\ \A i \in 1..Len(s) : s[i].name # "none" /\ (s[i].name = "done" => s[i].status \in Statuses)
Holds(s, name) == \E i \in 1..Len(s) : s[i].name = name

(* What has been sent follows from where the turn is.                       *)
ServerOK ==
  /\ route \in RouteRec /\ SentOK(sent) /\ closed \in BOOLEAN
  /\ closed <=> route.step \in {"settled", "over"}
  /\ route.saved <=> route.step \in {"answered", "settled"}
  /\ Holds(sent, "done") <=> route.saved
  /\ Holds(sent, "error") <=> route.step = "over"

(* The client has heard the first events, and the others are on their way.  *)
DeliveryOK ==
  /\ wire \in Seq(PieceRec) /\ partial \in Seq(PieceRec) /\ cut \in BOOLEAN /\ (cut => wire = <<>>)
  /\ ClientOK(client, sent, cut)
  /\ ~cut => \E k \in Nat : /\ client.status = "streaming" => Len(client.seen) = k
                            /\ InFlight(sent, partial, wire, k)
EndsClosed == client.status \in {"done", "awaiting-approval"} => closed

StreamInv == ServerOK /\ DeliveryOK /\ EndsClosed

(* The first events of the turn, and all of them.                           *)
LEMMA Whole ==
  ASSUME NEW s \in Seq(EventRec), NEW t \in Seq(EventRec), Len(t) <= Len(s), \A i \in 1..Len(t) : t[i] = s[i]
  PROVE  IsPrefix(t, s) /\ (Len(t) = Len(s) => t = s)
<1>1. Len(t) \in Nat /\ Len(s) \in Nat
  BY LenProperties
<1>2. SubSeq(t, 1, Len(t)) = [i \in 1..Len(t) |-> t[i]] /\ SubSeq(s, 1, Len(t)) = [i \in 1..Len(t) |-> s[i]]
  BY <1>1
<1>3. IsPrefix(t, s)
  BY <1>2 DEF IsPrefix
<1>4. ASSUME Len(t) = Len(s) PROVE t = s
  BY <1>4, SeqEqual
<1> QED
  BY <1>3, <1>4

(* The turn goes on, the client waits; or the connection is lost.           *)
LEMMA ClientKept ==
  ASSUME NEW s \in Seq(EventRec), NEW s2 \in Seq(EventRec), Len(s2) = Len(s) + 1, \A i \in 1..Len(s) : s2[i] = s[i],
         NEW cl, NEW lost, ClientOK(cl, s, lost), cl.status \notin {"done", "awaiting-approval"}
  PROVE  ClientOK(cl, s2, lost)
<1>1. cl.seen \in Seq(EventRec) /\ Len(cl.seen) <= Len(s) /\ \A i \in 1..Len(cl.seen) : cl.seen[i] = s[i]
  BY DEF ClientOK, ClientRec, EventSeq
<1>2. Len(cl.seen) \in Nat /\ Len(s) \in Nat /\ Len(s2) \in Nat
  BY <1>1, LenProperties
<1>3. \A x, y \in Nat : x <= y => x <= y + 1 /\ \A i \in 1..x : i \in 1..y
  OBVIOUS
<1>4. Len(cl.seen) <= Len(s2) /\ \A i \in 1..Len(cl.seen) : cl.seen[i] = s2[i]
  BY <1>1, <1>2, <1>3, Zenon
<1> QED
  BY <1>4 DEF ClientOK

LEMMA ClientCutOff ==
  ASSUME NEW s, NEW cl, NEW lost, ClientOK(cl, s, lost)
  PROVE  ClientOK(cl, s, TRUE)
BY DEF ClientOK

(* An exit keeps what was heard.                                            *)
LEMMA Exited ==
  ASSUME NEW s, NEW cl, NEW lost, NEW lost2, ClientOK(cl, s, lost), cl.status = "streaming",
         NEW h \in ClientRec, h.seen = cl.seen, h.final = cl.final, ~h.warming, h.finished = 1,
         h.status # "streaming", h.status = "error" /\ ~lost2 => h.final.status = "error",
         Says(h, "answer") => h.final.name = "done" /\ ~Says(h, "failure"),
         h.status = "done" => Says(h, "answer") \/ h.final.status = "silent",
         h.status \in {"done", "awaiting-approval"} => Len(h.seen) = Len(s)
  PROVE  ClientOK(h, s, lost2)
BY DEF ClientOK

(* The exits of a turn.                                                     *)
LEMMA EndForm ==
  ASSUME NEW cl \in ClientRec, NEW st, NEW w \in BOOLEAN, NEW h,
         h = [cl EXCEPT !.status = st, !.warming = w, !.finished = 1]
  PROVE  h = [status |-> st, seen |-> cl.seen, warming |-> w, started |-> cl.started, final |-> cl.final,
              bubbles |-> cl.bubbles, finished |-> 1]
BY DEF ClientRec

LEMMA ExitForm ==
  ASSUME NEW s, NEW cl, NEW lost, ClientOK(cl, s, lost), cl.status = "streaming", NEW st \in ClientStatuses
  PROVE  Exit(cl, st) =
           [status |-> st, seen |-> cl.seen, warming |-> FALSE, started |-> cl.started, final |-> cl.final,
            bubbles |-> cl.bubbles, finished |-> 1]
<1>1. cl \in ClientRec /\ cl.finished = 0
  BY DEF ClientOK
<1>2. Exit(cl, st) = [cl EXCEPT !.status = st, !.warming = FALSE, !.finished = 1]
  BY <1>1 DEF Exit
<1>3. FALSE \in BOOLEAN
  OBVIOUS
<1> HIDE DEF Exit
<1> QED
  BY <1>1, <1>2, <1>3, EndForm, Zenon

LEMMA ExitWritten ==
  ASSUME NEW s, NEW cl, NEW lost, ClientOK(cl, s, lost), cl.status = "streaming", NEW st \in ClientStatuses,
         NEW b \in BubbleSeq, NEW h,
         h = [status |-> st, seen |-> cl.seen, warming |-> FALSE, started |-> cl.started, final |-> cl.final,
              bubbles |-> b, finished |-> 1]
  PROVE  /\ h \in ClientRec /\ h.status = st /\ h.seen = cl.seen /\ (h.warming <=> FALSE)
         /\ h.final = cl.final /\ h.finished = 1 /\ h.bubbles = b
<1>1. /\ cl.seen \in EventSeq /\ cl.started \in 0..1 /\ cl.final \in EventRec
      /\ FALSE \in BOOLEAN /\ 1 \in Nat
  BY DEF ClientRec, ClientOK
<1> QED
  BY <1>1 DEF ClientRec, ClientStatuses

(* A read that rejects, a stop, and the end of the stream.                  *)
LEMMA ClientFails ==
  ASSUME NEW s, NEW cl, NEW lost, ClientOK(cl, s, lost), cl.status = "streaming"
  PROVE  ClientOK(Failed(cl), s, TRUE) /\ Failed(cl).status = "error"
<1>1. /\ cl.bubbles \in Seq(Bubbles) /\ ~Says(cl, "answer") /\ "failure" \in Bubbles
      /\ "error" \in ClientStatuses
  BY DEF ClientOK, ClientRec, BubbleSeq, Bubbles, ClientStatuses
<1> DEFINE b == Append(cl.bubbles, "failure")
           h == Failed(cl)
<1>2. b \in BubbleSeq /\ \A y : Has(b, y) <=> (y = "failure" \/ Has(cl.bubbles, y))
  BY <1>1, BubbleAdded, Zenon DEF BubbleSeq
<1>3. h = [status |-> "error", seen |-> cl.seen, warming |-> FALSE, started |-> cl.started, final |-> cl.final,
             bubbles |-> b, finished |-> 1]
  <2> DEFINE x == Exit(cl, "error")
  <2>1. x = [status |-> "error", seen |-> cl.seen, warming |-> FALSE, started |-> cl.started, final |-> cl.final,
             bubbles |-> cl.bubbles, finished |-> 1]
    BY <1>1, ExitForm, Zenon
  <2>2. h = [x EXCEPT !.bubbles = Append(x.bubbles, "failure")]
    BY DEF Failed
  <2> HIDE DEF x, h
  <2>3. x.bubbles = cl.bubbles
    BY <2>1
  <2>4. h = [x EXCEPT !.bubbles = b]
    BY <2>2, <2>3
  <2> HIDE DEF b
  <2> QED
    BY <2>1, <2>4
<1> HIDE DEF b, h
<1>4. /\ h \in ClientRec /\ h.status = "error" /\ h.seen = cl.seen
      /\ (h.warming <=> FALSE) /\ h.final = cl.final /\ h.finished = 1 /\ h.bubbles = b
  BY <1>1, <1>2, <1>3, ExitWritten, Zenon
<1>5. ~Says(h, "answer")
  BY <1>1, <1>2, <1>4 DEF Says
<1>6. ClientOK(h, s, TRUE)
  BY <1>4, <1>5, Exited
<1> QED
  BY <1>4, <1>6 DEF h

LEMMA ClientStops ==
  ASSUME NEW s, NEW cl, NEW lost, ClientOK(cl, s, lost), cl.status = "streaming"
  PROVE  ClientOK(Exit(cl, "stopped"), s, TRUE) /\ Exit(cl, "stopped").status = "stopped"
<1> DEFINE h == Exit(cl, "stopped")
<1>1. ~Says(cl, "answer") /\ "stopped" \in ClientStatuses
  BY DEF ClientOK, ClientStatuses
<1>2. /\ h \in ClientRec /\ h.status = "stopped" /\ h.seen = cl.seen
      /\ (h.warming <=> FALSE) /\ h.final = cl.final /\ h.finished = 1 /\ h.bubbles = cl.bubbles
  <2>1. h = [status |-> "stopped", seen |-> cl.seen, warming |-> FALSE, started |-> cl.started, final |-> cl.final,
             bubbles |-> cl.bubbles, finished |-> 1]
    BY <1>1, ExitForm, Zenon
  <2>2. cl.bubbles \in BubbleSeq
    BY DEF ClientOK, ClientRec
  <2> HIDE DEF h
  <2> QED
    BY <1>1, <2>1, <2>2, ExitWritten, Zenon
<1> HIDE DEF h
<1>3. ~Says(h, "answer")
  BY <1>1, <1>2 DEF Says
<1>4. ClientOK(h, s, TRUE)
  BY <1>2, <1>3, Exited
<1> QED
  BY <1>2, <1>4 DEF h

LEMMA ClientConcludes ==
  ASSUME NEW s, NEW cl, NEW lost, ClientOK(cl, s, lost), cl.status = "streaming", Len(cl.seen) = Len(s),
         cl.final.status \in Statuses
  PROVE  ClientOK(Concluded(cl), s, lost) /\ Concluded(cl).status # "streaming"
<1>1. /\ cl.bubbles \in Seq(Bubbles) /\ ~Says(cl, "answer") /\ ~Says(cl, "failure") /\ "answer" \in Bubbles
  BY DEF ClientOK, ClientRec, BubbleSeq, Bubbles
<1>2. cl.final.name = "done"
  <2>1. cl.final = NoEvent \/ cl.final.name = "done"
    BY DEF ClientOK
  <2>2. NoEvent.status \notin Statuses
    BY DEF NoEvent, Statuses
  <2> QED
    BY <2>1, <2>2
<1> DEFINE b == Append(cl.bubbles, "answer")
           end == CASE cl.final.status = "error"  -> "error"
                    [] cl.final.status = "paused" -> "awaiting-approval"
                    [] OTHER                      -> "done"
           h == Concluded(cl)
<1>3. b \in BubbleSeq /\ \A y : Has(b, y) <=> (y = "answer" \/ Has(cl.bubbles, y))
  <2> HIDE DEF h, end
  <2> QED
    BY <1>1, BubbleAdded DEF BubbleSeq
<1>4. /\ end \in ClientStatuses /\ end # "streaming" /\ (end = "error" => cl.final.status = "error")
      /\ (end = "done" => cl.final.status \in {"done", "silent"})
  BY DEF Statuses, ClientStatuses
<1> DEFINE g == IF cl.final.status \in {"done", "paused"} THEN b ELSE cl.bubbles
<1>5. h = [status |-> end, seen |-> cl.seen, warming |-> FALSE, started |-> cl.started, final |-> cl.final,
           bubbles |-> g, finished |-> 1]
  <2> DEFINE x == Exit(cl, end)
  <2>1. h = [x EXCEPT !.bubbles = IF cl.final.status \in {"done", "paused"} THEN Append(x.bubbles, "answer") ELSE x.bubbles]
    BY DEF Concluded
  <2> HIDE DEF end
  <2>2. x = [status |-> end, seen |-> cl.seen, warming |-> FALSE, started |-> cl.started, final |-> cl.final,
             bubbles |-> cl.bubbles, finished |-> 1]
    BY <1>4, ExitForm, Zenon
  <2> HIDE DEF x, h
  <2>3. x.bubbles = cl.bubbles
    BY <2>2
  <2>4. h = [x EXCEPT !.bubbles = g]
    BY <2>1, <2>3
  <2> HIDE DEF g
  <2> QED
    BY <2>2, <2>4
<1> HIDE DEF b, h, end
<1>6. /\ h \in ClientRec /\ h.status = end /\ h.seen = cl.seen
      /\ (h.warming <=> FALSE) /\ h.final = cl.final /\ h.finished = 1 /\ h.bubbles = g
  <2>1. g \in BubbleSeq
    BY <1>1, <1>3 DEF BubbleSeq
  <2> HIDE DEF g
  <2>2. end \in ClientStatuses
    BY <1>4, Zenon
  <2> QED
    BY <1>5, <2>1, <2>2, ExitWritten, Zenon
<1>7. /\ Says(h, "answer") <=> cl.final.status \in {"done", "paused"}
      /\ ~Says(h, "failure")
  <2>1. "answer" # "failure"
    OBVIOUS
  <2> QED
    BY <1>1, <1>3, <1>6, <2>1 DEF Says
<1>8. ClientOK(h, s, lost)
  BY <1>2, <1>4, <1>6, <1>7, Exited
<1> QED
  BY <1>4, <1>6, <1>8 DEF h

(* One more event on the stream.                                            *)
LEMMA OneMore ==
  ASSUME NEW s, SentOK(s), NEW e \in EventRec, e.name # "none", e.name = "done" => e.status \in Statuses,
         NEW s2, s2 = Append(s, e)
  PROVE  /\ SentOK(s2) /\ Len(s2) = Len(s) + 1 /\ s2[Len(s2)] = e /\ \A i \in 1..Len(s) : s2[i] = s[i]
         /\ \A x : Holds(s2, x) <=> (Holds(s, x) \/ e.name = x)
<1>1. /\ s2 \in Seq(EventRec) /\ Len(s2) = Len(s) + 1 /\ s2[Len(s) + 1] = e /\ Len(s) \in Nat
      /\ \A i \in 1..Len(s) : s2[i] = s[i]
  <2>1. s \in Seq(EventRec)
    BY DEF SentOK
  <2> QED
    BY <2>1, AppendProperties, LenProperties
<1>2. /\ \A i \in 1..Len(s) + 1 : i \in 1..Len(s) \/ i = Len(s) + 1
      /\ \A i \in 1..Len(s) : i \in 1..Len(s) + 1
      /\ Len(s) + 1 \in 1..Len(s) + 1
  BY <1>1
<1>3. \A x : Holds(s2, x) <=> (Holds(s, x) \/ e.name = x)
  BY <1>1, <1>2, Zenon DEF Holds
<1>4. \A i \in 1..Len(s2) : s2[i].name # "none" /\ (s2[i].name = "done" => s2[i].status \in Statuses)
  BY <1>1, <1>2 DEF SentOK
<1> QED
  BY <1>1, <1>3, <1>4 DEF SentOK

(* The events the route makes.                                              *)
LEMMA EventMade ==
  /\ \A name \in {"event", "trouble", "warming", "error", "title_updated"}, n \in Nat :
       Event(name, n) \in EventRec /\ Event(name, n).name = name
  /\ \A status \in Statuses : /\ Result(status) \in EventRec /\ Result(status).name = "done"
                              /\ Result(status).status = status
BY DEF Event, Result, NoEvent, EventRec, Unnamed

(* A frame that is sent while the stream is open.                           *)
LEMMA FrameSent ==
  ASSUME ServerOK, DeliveryOK, EndsClosed, ~closed, Stays,
         NEW e \in EventRec, e.name # "none", e.name = "done" => e.status \in Statuses, SendFrame(e)
  PROVE  /\ SentOK(sent') /\ DeliveryOK' /\ client' = client
         /\ client.status \notin {"done", "awaiting-approval"}
         /\ \A x : Holds(sent', x) <=> (Holds(sent, x) \/ e.name = x)
<1>1. /\ sent' = Append(sent, e) /\ wire' = (IF cut THEN <<>> ELSE wire \o Frame(e))
      /\ cut' = cut /\ partial' = partial /\ client' = client
  BY DEF SendFrame, Stays
<1>2. SentOK(sent) /\ sent \in Seq(EventRec)
  BY DEF ServerOK, SentOK
<1>3. /\ SentOK(sent') /\ Len(sent') = Len(sent) + 1 /\ sent'[Len(sent')] = e
      /\ \A i \in 1..Len(sent) : sent'[i] = sent[i]
      /\ \A x : Holds(sent', x) <=> (Holds(sent, x) \/ e.name = x)
  <2>1. sent' = Append(sent, e)
    BY <1>1
  <2>2. \A s2 : s2 = Append(sent, e) =>
          /\ SentOK(s2) /\ Len(s2) = Len(sent) + 1 /\ s2[Len(s2)] = e /\ \A i \in 1..Len(sent) : s2[i] = sent[i]
          /\ \A x : Holds(s2, x) <=> (Holds(sent, x) \/ e.name = x)
    BY <1>2, OneMore
  <2> QED
    BY <2>1, <2>2, Zenon
<1>4. sent' \in Seq(EventRec) /\ Len(sent) \in Nat /\ Len(sent) <= Len(sent')
  <2>1. sent' \in Seq(EventRec) /\ Len(sent) \in Nat
    BY <1>2, <1>3, LenProperties DEF SentOK
  <2>2. \A x \in Nat : x <= x + 1
    OBVIOUS
  <2> QED
    BY <1>3, <2>1, <2>2, Zenon
<1>5. client.status \notin {"done", "awaiting-approval"}
  BY DEF EndsClosed
<1>6. ClientOK(client, sent', cut)
  <2>1. ClientOK(client, sent, cut)
    BY DEF DeliveryOK
  <2> QED
    BY <1>2, <1>3, <1>4, <1>5, <2>1, ClientKept, Zenon
<1>7. /\ wire \in Seq(PieceRec) /\ partial \in Seq(PieceRec) /\ cut \in BOOLEAN /\ (cut => wire = <<>>)
      /\ ~cut => \E k \in Nat : /\ client.status = "streaming" => Len(client.seen) = k
                                /\ InFlight(sent, partial, wire, k)
  BY DEF DeliveryOK
<1>8. Frame(e) \in Seq(PieceRec)
  BY FrameForm
<1>9. CASE cut
  <2>1. wire' = <<>> /\ wire' \in Seq(PieceRec)
    BY <1>1, <1>9
  <2>2. ClientOK(client', sent', cut') /\ cut' /\ cut' \in BOOLEAN /\ partial' \in Seq(PieceRec)
    BY <1>1, <1>6, <1>7, <1>9
  <2>3. DeliveryOK'
    BY <2>1, <2>2 DEF DeliveryOK
  <2> QED
    BY <1>1, <1>3, <1>5, <2>3
<1>10. CASE ~cut
  <2>1. wire' = wire \o Frame(e) /\ wire' \in Seq(PieceRec)
    <3>1. wire' = wire \o Frame(e)
      BY <1>1, <1>10
    <3>2. wire \o Frame(e) \in Seq(PieceRec)
      BY <1>7, <1>8, ConcatProperties, Zenon
    <3> QED
      BY <3>1, <3>2, Zenon
  <2>2. PICK k \in Nat : /\ client.status = "streaming" => Len(client.seen) = k
                         /\ InFlight(sent, partial, wire, k)
    BY <1>7, <1>10
  <2>3. InFlight(sent', partial, wire \o Frame(e), k)
    <3>1. Frame(e) = Frame(sent'[Len(sent')])
      BY <1>3
    <3> QED
      BY <1>2, <1>3, <1>4, <1>7, <1>8, <2>2, <3>1, FlightGrows, Zenon
  <2>4. InFlight(sent', partial', wire', k) /\ (client'.status = "streaming" => Len(client'.seen) = k)
    BY <1>1, <2>1, <2>2, <2>3
  <2>5. ClientOK(client', sent', cut') /\ ~cut' /\ cut' \in BOOLEAN /\ partial' \in Seq(PieceRec)
    BY <1>1, <1>6, <1>7, <1>10
  <2>6. DeliveryOK'
    BY <2>1, <2>4, <2>5 DEF DeliveryOK
  <2> QED
    BY <1>1, <1>3, <1>5, <2>6
<1> QED
  BY <1>7, <1>9, <1>10

(* A heartbeat says nothing.                                                *)
LEMMA BeatSent ==
  ASSUME StreamInv, Beat
  PROVE  StreamInv'
<1>1. /\ wire' = (IF cut THEN <<>> ELSE wire \o KeepAlive) /\ UNCHANGED <<route, sent, closed, cut, partial, client>>
  BY DEF Beat, Stays
<1>2. /\ wire \in Seq(PieceRec) /\ partial \in Seq(PieceRec) /\ cut \in BOOLEAN /\ ClientOK(client, sent, cut)
      /\ ~cut => \E k \in Nat : /\ client.status = "streaming" => Len(client.seen) = k
                                /\ InFlight(sent, partial, wire, k)
  BY DEF StreamInv, DeliveryOK
<1>3. sent \in Seq(EventRec) /\ Len(sent) \in Nat
  BY LenProperties DEF StreamInv, ServerOK, SentOK
<1>4. KeepAlive \in Seq(PieceRec)
  BY FrameForm DEF EventRec, NoEvent
<1>5. ServerOK' /\ EndsClosed'
  BY <1>1 DEF StreamInv, ServerOK, EndsClosed
<1>6. CASE cut
  <2>1. wire' = <<>> /\ wire' \in Seq(PieceRec)
    BY <1>1, <1>6
  <2>2. ClientOK(client', sent', cut') /\ cut' /\ cut' \in BOOLEAN /\ partial' \in Seq(PieceRec)
    BY <1>1, <1>2, <1>6
  <2>3. DeliveryOK'
    BY <2>1, <2>2 DEF DeliveryOK
  <2> QED
    BY <1>5, <2>3 DEF StreamInv
<1>7. CASE ~cut
  <2>1. wire' = wire \o KeepAlive /\ wire' \in Seq(PieceRec)
    <3>1. wire' = wire \o KeepAlive
      BY <1>1, <1>7
    <3>2. wire \o KeepAlive \in Seq(PieceRec)
      BY <1>2, <1>4, ConcatProperties, Zenon
    <3> QED
      BY <3>1, <3>2, Zenon
  <2>2. PICK k \in Nat : /\ client.status = "streaming" => Len(client.seen) = k
                         /\ InFlight(sent, partial, wire, k)
    BY <1>2, <1>7
  <2>3. InFlight(sent, partial, wire \o KeepAlive, k)
    <3>1. Len(sent) <= Len(sent) /\ \A i \in 1..Len(sent) : sent[i] = sent[i]
      BY <1>3
    <3> QED
      BY <1>2, <1>3, <1>4, <2>2, <3>1, FlightGrows, Zenon
  <2>4. InFlight(sent', partial', wire', k) /\ (client'.status = "streaming" => Len(client'.seen) = k)
    BY <1>1, <2>1, <2>2, <2>3
  <2>5. ClientOK(client', sent', cut') /\ ~cut' /\ cut' \in BOOLEAN /\ partial' \in Seq(PieceRec)
    BY <1>1, <1>2, <1>7
  <2>6. DeliveryOK'
    BY <2>1, <2>4, <2>5 DEF DeliveryOK
  <2> QED
    BY <1>5, <2>6 DEF StreamInv
<1> QED
  BY <1>2, <1>6, <1>7

(* The server's steps.                                                      *)
LEMMA ServerSteps ==
  ASSUME StreamInv,
         \/ \E name \in Unnamed : Emit(name)
         \/ \E status \in Statuses : Report(status)
         \/ Warn \/ ThrowError \/ SendTitle \/ CloseStream
  PROVE  StreamInv'
<1>1. /\ ServerOK /\ DeliveryOK /\ EndsClosed /\ route \in RouteRec /\ closed \in BOOLEAN
      /\ closed <=> route.step \in {"settled", "over"}
      /\ route.saved <=> route.step \in {"answered", "settled"}
      /\ Holds(sent, "done") <=> route.saved
      /\ Holds(sent, "error") <=> route.step = "over"
  BY DEF StreamInv, ServerOK
<1>2. ASSUME NEW name \in Unnamed, Emit(name) PROVE StreamInv'
  <2> DEFINE e == Event(name, Len(sent) + 1)
  <2>1. route.step = "running" /\ SendFrame(e) /\ UNCHANGED <<route, closed, beats>> /\ Stays
    BY <1>2 DEF Emit
  <2>2. e \in EventRec /\ e.name = name /\ name \in {"event", "trouble"}
    <3>1. Len(sent) + 1 \in Nat
      BY <1>1, LenProperties DEF ServerOK, SentOK
    <3> QED
      BY <3>1, EventMade DEF Unnamed
  <2> HIDE DEF e
  <2>3. ~closed
    BY <1>1, <2>1
  <2>4. /\ SentOK(sent') /\ DeliveryOK' /\ client' = client
        /\ client.status \notin {"done", "awaiting-approval"}
        /\ \A x : Holds(sent', x) <=> (Holds(sent, x) \/ e.name = x)
    BY <1>1, <2>1, <2>2, <2>3, FrameSent
  <2>5. (Holds(sent', "done") <=> Holds(sent, "done")) /\ (Holds(sent', "error") <=> Holds(sent, "error"))
    BY <2>2, <2>4
  <2>6. ServerOK' /\ EndsClosed'
    BY <1>1, <2>1, <2>4, <2>5 DEF ServerOK, EndsClosed
  <2> QED
    BY <2>4, <2>6 DEF StreamInv
<1>3. ASSUME Warn PROVE StreamInv'
  <2> DEFINE e == Event("warming", 0)
  <2>1. /\ route.step = "running" /\ SendFrame(e) /\ UNCHANGED <<closed, beats>> /\ Stays
        /\ route' = [route EXCEPT !.warned = TRUE]
    BY <1>3 DEF Warn
  <2>2. e \in EventRec /\ e.name = "warming"
    BY EventMade
  <2> HIDE DEF e
  <2>3. ~closed
    BY <1>1, <2>1
  <2>4. /\ SentOK(sent') /\ DeliveryOK' /\ client' = client
        /\ client.status \notin {"done", "awaiting-approval"}
        /\ \A x : Holds(sent', x) <=> (Holds(sent, x) \/ e.name = x)
    BY <1>1, <2>1, <2>2, <2>3, FrameSent
  <2>5. (Holds(sent', "done") <=> Holds(sent, "done")) /\ (Holds(sent', "error") <=> Holds(sent, "error"))
    BY <2>2, <2>4
  <2>6. route' \in RouteRec /\ route'.step = route.step /\ (route'.saved <=> route.saved)
    BY <1>1, <2>1 DEF RouteRec
  <2>7. ServerOK' /\ EndsClosed'
    BY <1>1, <2>1, <2>4, <2>5, <2>6 DEF ServerOK, EndsClosed
  <2> QED
    BY <2>4, <2>7 DEF StreamInv
<1>4. ASSUME NEW status \in Statuses, Report(status) PROVE StreamInv'
  <2> DEFINE e == Result(status)
  <2>1. /\ route.step = "running" /\ SendFrame(e) /\ UNCHANGED <<closed, beats>> /\ Stays
        /\ route' = [route EXCEPT !.step = "answered", !.saved = TRUE]
    BY <1>4 DEF Report
  <2>2. e \in EventRec /\ e.name = "done" /\ e.status \in Statuses
    BY EventMade
  <2> HIDE DEF e
  <2>3. ~closed
    BY <1>1, <2>1
  <2>4. /\ SentOK(sent') /\ DeliveryOK' /\ client' = client
        /\ client.status \notin {"done", "awaiting-approval"}
        /\ \A x : Holds(sent', x) <=> (Holds(sent, x) \/ e.name = x)
    BY <1>1, <2>1, <2>2, <2>3, FrameSent
  <2>5. Holds(sent', "done") /\ (Holds(sent', "error") <=> Holds(sent, "error"))
    BY <2>2, <2>4
  <2>6. route' \in RouteRec /\ route'.step = "answered" /\ route'.saved
    BY <1>1, <2>1 DEF RouteRec
  <2>7. ServerOK' /\ EndsClosed'
    BY <1>1, <2>1, <2>4, <2>5, <2>6 DEF ServerOK, EndsClosed
  <2> QED
    BY <2>4, <2>7 DEF StreamInv
<1>5. ASSUME ThrowError PROVE StreamInv'
  <2> DEFINE e == Event("error", 0)
  <2>1. /\ route.step = "running" /\ SendFrame(e) /\ closed' = TRUE /\ Stays
        /\ route' = [route EXCEPT !.step = "over"]
    BY <1>5 DEF ThrowError
  <2>2. e \in EventRec /\ e.name = "error"
    BY EventMade
  <2> HIDE DEF e
  <2>3. ~closed
    BY <1>1, <2>1
  <2>4. /\ SentOK(sent') /\ DeliveryOK' /\ client' = client
        /\ client.status \notin {"done", "awaiting-approval"}
        /\ \A x : Holds(sent', x) <=> (Holds(sent, x) \/ e.name = x)
    BY <1>1, <2>1, <2>2, <2>3, FrameSent
  <2>5. Holds(sent', "error") /\ (Holds(sent', "done") <=> Holds(sent, "done"))
    BY <2>2, <2>4
  <2>6. route' \in RouteRec /\ route'.step = "over" /\ (route'.saved <=> route.saved)
    BY <1>1, <2>1 DEF RouteRec
  <2>7. ServerOK' /\ EndsClosed'
    BY <1>1, <2>1, <2>4, <2>5, <2>6 DEF ServerOK, EndsClosed
  <2> QED
    BY <2>4, <2>7 DEF StreamInv
<1>6. ASSUME SendTitle PROVE StreamInv'
  <2> DEFINE e == Event("title_updated", 0)
  <2>1. SendFrame(e) /\ UNCHANGED <<route, closed, beats>> /\ Stays
    BY <1>6 DEF SendTitle
  <2>2. e \in EventRec /\ e.name = "title_updated"
    BY EventMade
  <2> HIDE DEF e
  <2>3. CASE closed
    <3>1. UNCHANGED <<route, sent, wire, closed, cut, partial, client>>
      BY <2>1, <2>3 DEF SendFrame, Stays
    <3> QED
      BY <1>1, <3>1 DEF StreamInv, ServerOK, DeliveryOK, EndsClosed
  <2>4. CASE ~closed
    <3>1. /\ SentOK(sent') /\ DeliveryOK' /\ client' = client
          /\ client.status \notin {"done", "awaiting-approval"}
          /\ \A x : Holds(sent', x) <=> (Holds(sent, x) \/ e.name = x)
      BY <1>1, <2>1, <2>2, <2>4, FrameSent
    <3>2. (Holds(sent', "done") <=> Holds(sent, "done")) /\ (Holds(sent', "error") <=> Holds(sent, "error"))
      BY <2>2, <3>1
    <3>3. ServerOK' /\ EndsClosed'
      BY <1>1, <2>1, <3>1, <3>2 DEF ServerOK, EndsClosed
    <3> QED
      BY <3>1, <3>3 DEF StreamInv
  <2> QED
    BY <2>3, <2>4
<1>7. ASSUME CloseStream PROVE StreamInv'
  <2>1. /\ route.step = "answered" /\ closed' = TRUE /\ route' = [route EXCEPT !.step = "settled"]
        /\ UNCHANGED <<sent, wire, cut, partial, client>>
    BY <1>7 DEF CloseStream, Stays
  <2>2. route' \in RouteRec /\ route'.step = "settled" /\ (route'.saved <=> route.saved)
    BY <1>1, <2>1 DEF RouteRec
  <2>3. ServerOK' /\ EndsClosed'
    BY <1>1, <2>1, <2>2 DEF ServerOK, EndsClosed
  <2>4. DeliveryOK'
    BY <1>1, <2>1 DEF DeliveryOK
  <2> QED
    BY <2>3, <2>4 DEF StreamInv
<1> QED
  BY <1>2, <1>3, <1>4, <1>5, <1>6, <1>7

(* The client's steps.                                                      *)
LEMMA ClientSteps ==
  ASSUME StreamInv, (\E n \in 1..Len(wire) : Read(n)) \/ ReadEnd \/ LoseConnection \/ ReadRejects \/ Abort
  PROVE  StreamInv'
<1>1. /\ ServerOK /\ EndsClosed /\ ClientOK(client, sent, cut)
      /\ wire \in Seq(PieceRec) /\ partial \in Seq(PieceRec) /\ cut \in BOOLEAN /\ (cut => wire = <<>>)
      /\ ~cut => \E k \in Nat : /\ client.status = "streaming" => Len(client.seen) = k
                                /\ InFlight(sent, partial, wire, k)
      /\ sent \in Seq(EventRec) /\ \A i \in 1..Len(sent) : sent[i].name # "none"
  BY DEF StreamInv, DeliveryOK, ServerOK, SentOK
<1>2. ASSUME UNCHANGED <<route, sent, closed>> PROVE ServerOK'
  BY <1>1, <1>2 DEF ServerOK
<1>3. <<>> \in Seq(PieceRec) /\ TRUE \in BOOLEAN
  OBVIOUS
<1>4. ASSUME NEW n \in 1..Len(wire), Read(n) PROVE StreamInv'
  <2> DEFINE q == TakeAll([rest |-> partial, client |-> client], SubSeq(wire, 1, n))
             w == SubSeq(wire, n + 1, Len(wire))
  <2>1. /\ client.status = "streaming" /\ client' = q.client /\ partial' = q.rest /\ wire' = w
        /\ UNCHANGED <<route, sent, closed, cut>>
    BY <1>4 DEF Read, Taken, routeVars
  <2>2. ~cut
    <3>1. Len(<<>>) = 0 /\ 1..0 = {}
      OBVIOUS
    <3>2. wire # <<>>
      BY <3>1
    <3> QED
      BY <1>1, <3>2
  <2>3. InFlight(sent, partial, wire, Len(client.seen))
    BY <1>1, <2>1, <2>2
  <2>4. /\ ClientOK(q.client, sent, cut) /\ q.client.status \in {"streaming", "error"} /\ q.rest \in Seq(PieceRec)
        /\ w \in Seq(PieceRec)
        /\ \E k \in Nat : /\ q.client.status = "streaming" => Len(q.client.seen) = k
                          /\ InFlight(sent, q.rest, w, k)
    BY <1>1, <2>1, <2>3, ChunkTaken
  <2> HIDE DEF q, w
  <2>5. DeliveryOK'
    BY <1>1, <2>1, <2>2, <2>4 DEF DeliveryOK
  <2>6. EndsClosed'
    BY <2>1, <2>4 DEF EndsClosed
  <2> QED
    BY <1>2, <2>1, <2>5, <2>6 DEF StreamInv
<1>5. ASSUME ReadEnd PROVE StreamInv'
  <2>1. /\ client.status = "streaming" /\ wire = <<>> /\ closed /\ ~cut /\ partial' = <<>>
        /\ UNCHANGED <<route, sent, closed, wire, cut>>
    BY <1>5 DEF ReadEnd, routeVars
  <2>2. PICK k \in Nat : Len(client.seen) = k /\ InFlight(sent, partial, wire, k)
    BY <1>1, <2>1
  <2>3. partial = <<>> /\ k = Len(sent)
    BY <1>1, <2>1, <2>2, ReadOut
  <2>4. HandleFrame(client, partial) = client
    BY <2>3 DEF HandleFrame, IsEvent
  <2>5. client' = Concluded(client)
    BY <1>5, <2>1, <2>4 DEF ReadEnd
  <2>6. client.final.status \in Statuses
    <3>1. ~Holds(sent, "error")
      <4>1. client.seen \in Seq(EventRec) /\ Len(client.seen) = Len(sent)
            /\ \A i \in 1..Len(client.seen) : client.seen[i] = sent[i] /\ client.seen[i].name # "error"
        BY <1>1, <2>1, <2>2, <2>3 DEF ClientOK, ClientRec, EventSeq
      <4> QED
        BY <4>1 DEF Holds
    <3>2. Holds(sent, "done")
      BY <1>1, <2>1, <3>1 DEF ServerOK
    <3>3. PICK i \in 1..Len(sent) : sent[i].name = "done"
      BY <3>2 DEF Holds
    <3>4. client.final.name = "done"
      BY <1>1, <2>2, <2>3, <3>3 DEF ClientOK
    <3>5. client.final # NoEvent
      BY <3>4 DEF NoEvent
    <3>6. PICK j \in 1..Len(client.seen) : client.seen[j] = client.final
      BY <1>1, <3>5 DEF ClientOK
    <3>7. j \in 1..Len(sent) /\ sent[j] = client.final
      BY <1>1, <2>2, <2>3, <3>6 DEF ClientOK
    <3> QED
      BY <1>1, <3>4, <3>7 DEF ServerOK, SentOK
  <2>7. ClientOK(client', sent, cut) /\ client'.status # "streaming"
    BY <1>1, <2>1, <2>2, <2>3, <2>5, <2>6, ClientConcludes
  <2>8. InFlight(sent, <<>>, <<>>, k)
    BY <2>1, <2>2, <2>3
  <2>9. DeliveryOK'
    BY <1>1, <1>3, <2>1, <2>2, <2>7, <2>8 DEF DeliveryOK
  <2>10. EndsClosed'
    BY <2>1 DEF EndsClosed
  <2> QED
    BY <1>2, <2>1, <2>9, <2>10 DEF StreamInv
<1>6. ASSUME LoseConnection PROVE StreamInv'
  <2>1. cut' = TRUE /\ wire' = <<>> /\ UNCHANGED <<route, sent, closed, partial, client>>
    BY <1>6 DEF LoseConnection, routeVars
  <2>2. ClientOK(client, sent, TRUE)
    BY <1>1, ClientCutOff
  <2>3. DeliveryOK' /\ EndsClosed'
    BY <1>1, <1>3, <2>1, <2>2 DEF DeliveryOK, EndsClosed
  <2> QED
    BY <1>2, <2>1, <2>3 DEF StreamInv
<1>7. ASSUME ReadRejects PROVE StreamInv'
  <2>1. /\ client.status = "streaming" /\ cut /\ client' = Failed(client)
        /\ UNCHANGED <<route, sent, closed, wire, cut, partial>>
    BY <1>7 DEF ReadRejects, routeVars
  <2>2. ClientOK(client', sent, TRUE) /\ client'.status = "error"
    BY <1>1, <2>1, ClientFails
  <2>3. ClientOK(client', sent, cut')
    <3>1. cut' = TRUE
      BY <1>1, <2>1
    <3> QED
      BY <2>2, <3>1
  <2>4. DeliveryOK' /\ EndsClosed'
    BY <1>1, <2>1, <2>2, <2>3 DEF DeliveryOK, EndsClosed
  <2> QED
    BY <1>2, <2>1, <2>4 DEF StreamInv
<1>8. ASSUME Abort PROVE StreamInv'
  <2>1. /\ client.status = "streaming" /\ client' = Exit(client, "stopped") /\ cut' = TRUE /\ wire' = <<>>
        /\ UNCHANGED <<route, sent, closed, partial>>
    BY <1>8 DEF Abort, routeVars
  <2>2. ClientOK(client', sent, TRUE) /\ client'.status = "stopped"
    BY <1>1, <2>1, ClientStops
  <2>3. ClientOK(client', sent, cut')
    BY <2>1, <2>2
  <2>4. DeliveryOK' /\ EndsClosed'
    BY <1>1, <1>3, <2>1, <2>2, <2>3 DEF DeliveryOK, EndsClosed
  <2> QED
    BY <1>2, <2>1, <2>4 DEF StreamInv
<1> QED
  BY <1>4, <1>5, <1>6, <1>7, <1>8

(* A turn that starts; a step of it; and what that says of its transcript.  *)
LEMMA StreamStarts ==
  StreamInit => StreamInv
<1> SUFFICES ASSUME StreamInit PROVE StreamInv
  OBVIOUS
<1> USE DEF StreamInit
<1>1. Len(<<>>) = 0 /\ 1..0 = {} /\ DOMAIN <<>> = {} /\ 0 \in Nat
  OBVIOUS
<1>2. route \in RouteRec /\ sent \in Seq(EventRec) /\ wire \in Seq(PieceRec) /\ partial \in Seq(PieceRec)
      /\ cut \in BOOLEAN /\ closed \in BOOLEAN
  <2>1. <<>> \in Seq(EventRec) /\ <<>> \in Seq(PieceRec)
    OBVIOUS
  <2>2. route \in RouteRec
    BY DEF RouteRec
  <2>3. cut \in BOOLEAN /\ closed \in BOOLEAN
    OBVIOUS
  <2> QED
    BY <2>1, <2>2, <2>3, Zenon
<1>3. ServerOK
  BY <1>1, <1>2 DEF ServerOK, SentOK, Holds
<1>4. client \in ClientRec
  <2>1. NoEvent \in EventRec /\ <<>> \in EventSeq /\ <<>> \in BubbleSeq /\ 0 \in 0..1 /\ FALSE \in BOOLEAN
    BY DEF NoEvent, EventRec, EventSeq, BubbleSeq
  <2> QED
    BY <1>1, <2>1 DEF ClientRec, ClientStatuses
<1>5. ClientOK(client, sent, cut)
  <2>1. /\ client.status = "streaming" /\ client.seen = <<>> /\ ~client.warming /\ client.finished = 0
        /\ client.final = NoEvent /\ client.bubbles = <<>>
    OBVIOUS
  <2>2. ~Says(client, "answer") /\ ~Says(client, "failure")
    BY <1>1, <2>1 DEF Says, Has
  <2> QED
    BY <1>1, <1>4, <2>1, <2>2 DEF ClientOK
<1>6. DeliveryOK
  BY <1>1, <1>2, <1>5, NothingInFlight DEF DeliveryOK
<1>7. EndsClosed
  BY DEF EndsClosed
<1> QED
  BY <1>3, <1>6, <1>7 DEF StreamInv

LEMMA StreamStep ==
  StreamInv /\ [StreamNext]_streamVars => StreamInv'
<1> SUFFICES ASSUME StreamInv, [StreamNext]_streamVars PROVE StreamInv'
  OBVIOUS
<1>1. CASE \/ \E name \in Unnamed : Emit(name)
           \/ \E status \in Statuses : Report(status)
           \/ Warn \/ ThrowError \/ SendTitle \/ CloseStream
  BY <1>1, ServerSteps
<1>2. CASE Beat
  BY <1>2, BeatSent
<1>3. CASE (\E n \in 1..Len(wire) : Read(n)) \/ ReadEnd \/ LoseConnection \/ ReadRejects \/ Abort
  BY <1>3, ClientSteps
<1>4. CASE UNCHANGED streamVars
  BY <1>4 DEF streamVars, StreamInv, ServerOK, DeliveryOK, EndsClosed
<1> QED
  BY <1>1, <1>2, <1>3, <1>4 DEF StreamNext

LEMMA InvIsFaithful ==
  StreamInv => TranscriptFaithful
<1> SUFFICES ASSUME StreamInv PROVE TranscriptFaithful
  OBVIOUS
<1>1. /\ ServerOK /\ EndsClosed /\ ClientOK(client, sent, cut) /\ partial \in Seq(PieceRec)
      /\ ~cut => \E k \in Nat : /\ client.status = "streaming" => Len(client.seen) = k
                                /\ InFlight(sent, partial, wire, k)
      /\ sent \in Seq(EventRec)
  BY DEF StreamInv, DeliveryOK, ServerOK, SentOK
<1>2. /\ client.seen \in Seq(EventRec) /\ Len(client.seen) <= Len(sent)
      /\ \A i \in 1..Len(client.seen) : client.seen[i] = sent[i]
      /\ Len(client.seen) \in Nat
  BY <1>1, LenProperties DEF ClientOK, ClientRec, EventSeq
<1>3. IsPrefix(client.seen, sent) /\ (Len(client.seen) = Len(sent) => client.seen = sent)
  BY <1>1, <1>2, Whole
<1>4. HeardInOrder
  <2>1. ASSUME Streaming, wire = <<>>, ~cut PROVE client.seen = sent
    <3>1. PICK k \in Nat : Len(client.seen) = k /\ InFlight(sent, partial, <<>>, k)
      BY <1>1, <2>1 DEF Streaming
    <3> QED
      BY <1>1, <1>3, <3>1, ReadOut
  <2>2. client.status \in {"done", "awaiting-approval"} => client.seen = sent
    BY <1>1, <1>3 DEF ClientOK
  <2> QED
    BY <1>3, <2>1, <2>2 DEF HeardInOrder
<1>5. NoticeRetracted
  BY <1>1 DEF NoticeRetracted, ClientOK, Streaming, LastIs
<1>6. EndIsSo
  <2>1. \A bubble : Shown(bubble) <=> Says(client, bubble)
    BY DEF Shown, Says, Has
  <2>2. client.final.name = "done" => route.saved
    <3> SUFFICES ASSUME client.final.name = "done" PROVE route.saved
      OBVIOUS
    <3>1. client.final # NoEvent
      BY DEF NoEvent
    <3>2. PICK j \in 1..Len(client.seen) : client.seen[j] = client.final
      BY <1>1, <3>1 DEF ClientOK
    <3>3. j \in 1..Len(sent) /\ sent[j] = client.final
      BY <1>1, <1>2, <3>2, LenProperties
    <3>4. Holds(sent, "done")
      BY <3>3 DEF Holds
    <3> QED
      BY <1>1, <3>4 DEF ServerOK
  <2>3. LastIs(client, "error") => client.seen # <<>> /\ Last(client.seen).name = "error" /\ ~route.saved
    <3> SUFFICES ASSUME LastIs(client, "error") PROVE ~route.saved
      BY DEF LastIs
    <3>1. client.seen # <<>> /\ client.seen[Len(client.seen)].name = "error"
      BY DEF LastIs, Last
    <3>2. Len(client.seen) # 0
      BY <1>2, <3>1, EmptySeq
    <3>3. Len(client.seen) \in 1..Len(client.seen) /\ Len(client.seen) \in 1..Len(sent)
      BY <1>1, <1>2, <3>2, LenProperties
    <3>4. sent[Len(client.seen)].name = "error"
      BY <1>2, <3>1, <3>3
    <3>5. Holds(sent, "error")
      BY <3>3, <3>4 DEF Holds
    <3> QED
      BY <1>1, <3>5 DEF ServerOK
  <2>4. /\ Says(client, "answer") => client.final.name = "done" /\ ~Says(client, "failure")
        /\ client.status = "error" /\ ~cut => client.final.status = "error" \/ LastIs(client, "error")
        /\ client.status = "done" => Says(client, "answer") \/ client.final.status = "silent"
    BY <1>1 DEF ClientOK
  <2> QED
    BY <2>1, <2>2, <2>3, <2>4 DEF EndIsSo
<1> QED
  BY <1>4, <1>5, <1>6 DEF TranscriptFaithful

(* However the bytes of a turn are cut into chunks, the client has heard the  *)
(* first events of it in order, what it has not heard is on the wire in whole *)
(* frames, and its transcript is made of what it heard.                       *)
THEOREM TranscriptInvariant == StreamSpec => []StreamInv
<1> QED
  BY StreamStarts, StreamStep, PTL DEF StreamSpec

(* What the client makes of a stream is what the turn said: TranscriptFaithful*)
(* for any number of events and heartbeats, any chunks, and any way it ends.  *)
THEOREM TranscriptIsFaithful == StreamSpec => []TranscriptFaithful
<1> QED
  BY TranscriptInvariant, InvIsFaithful, PTL
=============================================================================
