---------------------------- MODULE WorkspaceSync ---------------------------
(***************************************************************************)
(* The durable workspace of a session: stored documents are hydrated into  *)
(* /work/in of its container before a turn, and what the turn left under   *)
(* /work/out is promoted to the document store after it                    *)
(* (app/src/lib/sandbox/work-artifacts.server.ts, work-sync.server.ts and  *)
(* runWithIdAttachment in with-sandbox.server.ts).                         *)
(*                                                                         *)
(* A file is its name and the version of its content; version 0 is no      *)
(* file.  Tool calls into the container do not throw: one that fails       *)
(* answers without output, and listWorkFiles then reads no files from it.  *)
(***************************************************************************)
EXTENDS Integers, Sequences, FiniteSets

CONSTANTS
  Files,      (* file names, after safeBasename                                *)
  Turns,      (* turns of the session                                          *)
  MaxVersion, (* bound: distinct contents ever written                         *)
  MaxDocs,    (* bound: documents ever stored                                  *)
  Overlap,    (* may two turns run in the container at once (a double submit)  *)
  ListFails   (* may the in-container listing fail                             *)

ASSUME SyncAssumption ==
  /\ MaxVersion \in Nat /\ MaxDocs \in Nat
  /\ Overlap \in BOOLEAN /\ ListFails \in BOOLEAN
  /\ IsFiniteSet(Files)

VARIABLES
  in, out,  (* /work/in and /work/out: the version of every file              *)
  docs,     (* the document store, oldest first: [name, ver]                  *)
  turn,     (* what each turn is doing                                        *)
  version   (* the last content version handed out                            *)

syncVars == <<in, out, docs, turn, version>>

Versions == 0..MaxVersion
NoFiles     == [f \in Files |-> 0]
Doc      == [name : Files, ver : 1..MaxVersion]

(* baseline is the snapshot of /work/out, todo what hydrate or promote has *)
(* yet to move, present the names hydrate takes to be there, reported the  *)
(* failures the turn made visible.  wrote is what the turn wrote under      *)
(* /work/out, which only the properties read.                              *)
Idle == [pc |-> "idle", baseline |-> NoFiles, todo |-> << >>, present |-> {}, reported |-> {},
         wrote |-> {}]

Active == {t \in Turns : turn[t].pc # "idle"}

Go(t, upd) == turn' = [turn EXCEPT ![t] = upd]

SyncInit ==
  /\ in = NoFiles /\ out = NoFiles /\ docs = << >> /\ version = 0
  /\ turn = [t \in Turns |-> Idle]

-----------------------------------------------------------------------------
(* What listWorkFiles can return for a directory: its files, or, when the  *)
(* shell call failed, none.                                                *)
Listings(dir) == {dir} \cup (IF ListFails THEN {NoFiles} ELSE {})

Reversed(s) == [n \in 1..Len(s) |-> s[Len(s) + 1 - n]]

(* hydrateWorkspace begins: the documents, newest first, and what /work/in *)
(* already holds.  When the store cannot be listed it throws, which the    *)
(* turn reports.                                                           *)
StartTurn(t) ==
  /\ turn[t].pc = "idle"
  /\ Overlap \/ Active = {}
  /\ \/ \E list \in Listings(in) :
          Go(t, [Idle EXCEPT !.pc = "hydrate", !.todo = Reversed(docs),
                             !.present = {f \in Files : list[f] # 0}])
     \/ Go(t, [Idle EXCEPT !.pc = "snapshot", !.reported = {"hydrate"}])
  /\ UNCHANGED <<in, out, docs, version>>

(* Mutant: hydration writes over what is there. *)
HydrateFileOverwrites(t) ==
  LET doc == Head(turn[t].todo)
  IN /\ turn[t].pc = "hydrate"
     /\ turn[t].todo # << >>
     /\ Go(t, [turn[t] EXCEPT !.todo = Tail(@), !.present = @ \cup {doc.name}])
     /\ in' = [in EXCEPT ![doc.name] = doc.ver]
     /\ UNCHANGED <<out, docs, version>>

(* One document: left alone if its name is there, else fetched and         *)
(* written; a missing body or a failed write is reported by name.          *)
HydrateFile(t) ==
  LET doc  == Head(turn[t].todo)
      rest == [turn[t] EXCEPT !.todo = Tail(@)]
  IN /\ turn[t].pc = "hydrate"
     /\ turn[t].todo # << >>
     /\ \/ /\ doc.name \in turn[t].present
           /\ Go(t, rest) /\ UNCHANGED in
        \/ /\ doc.name \notin turn[t].present
           /\ Go(t, [rest EXCEPT !.present = @ \cup {doc.name}])
           /\ in' = [in EXCEPT ![doc.name] = doc.ver]
        \/ /\ doc.name \notin turn[t].present
           /\ Go(t, [rest EXCEPT !.reported = @ \cup {"hydrate"}]) /\ UNCHANGED in
     /\ UNCHANGED <<out, docs, version>>

Hydrated(t) ==
  /\ turn[t].pc = "hydrate"
  /\ turn[t].todo = << >>
  /\ Go(t, [turn[t] EXCEPT !.pc = "snapshot"])
  /\ UNCHANGED <<in, out, docs, version>>

(* snapshotOutputs, the baseline that promotion is measured against. *)
Snapshot(t) ==
  /\ turn[t].pc = "snapshot"
  /\ \E list \in Listings(out) :
       Go(t, [turn[t] EXCEPT !.pc = "pattern", !.baseline = list])
  /\ UNCHANGED <<in, out, docs, version>>

(* The agent writes a file, a deliverable or over something in /work/in, or *)
(* removes a deliverable.                                                   *)
Write(t) ==
  /\ turn[t].pc = "pattern"
  /\ version < MaxVersion
  /\ version' = version + 1
  /\ \E f \in Files :
       \/ /\ out' = [out EXCEPT ![f] = version']
          /\ Go(t, [turn[t] EXCEPT !.wrote = @ \cup {f}])
          /\ UNCHANGED in
       \/ /\ in' = [in EXCEPT ![f] = version']
          /\ UNCHANGED <<out, turn>>
  /\ UNCHANGED docs

Remove(t) ==
  /\ turn[t].pc = "pattern"
  /\ \E f \in Files :
       /\ out[f] # 0
       /\ out' = [out EXCEPT ![f] = 0]
       /\ Go(t, [turn[t] EXCEPT !.wrote = @ \ {f}])
  /\ UNCHANGED <<in, docs, version>>

(* The pattern ends, or throws: promoteOutputs runs in the finally block.  *)
(* It promotes what is there and differs from the baseline, in name order. *)
(* Mutants: files deleted since count as changed, the baseline is not    *)
(* looked at, or only new names are.                                     *)
ChangedOrGone(base, cur) == {f \in Files : cur[f] # base[f]}
ChangedOrNot(base, cur)  == {f \in Files : cur[f] # 0}
ChangedNames(base, cur)  == {f \in Files : cur[f] # 0 /\ base[f] = 0}

Changed(base, cur) == {f \in Files : cur[f] # 0 /\ cur[f] # base[f]}

IsOrderOf(s, S) == Len(s) = Cardinality(S) /\ {s[n] : n \in DOMAIN s} = S

EndPattern(t) ==
  /\ turn[t].pc = "pattern"
  /\ \E list \in Listings(out) :
       LET S == Changed(turn[t].baseline, list)
       IN \E order \in [1..Cardinality(S) -> S] :
            /\ IsOrderOf(order, S)
            /\ Go(t, [turn[t] EXCEPT !.pc = "promote", !.todo = order])
  /\ UNCHANGED <<in, out, docs, version>>

(* One file: read from the container and stored under a new document id,   *)
(* or skipped, and reported, when either fails.                            *)
PromoteFile(t) ==
  LET f    == Head(turn[t].todo)
      rest == [turn[t] EXCEPT !.todo = Tail(@)]
  IN /\ turn[t].pc = "promote"
     /\ turn[t].todo # << >>
     /\ \/ /\ Len(docs) < MaxDocs
           /\ docs' = Append(docs, [name |-> f, ver |-> out[f]])
           /\ Go(t, rest)
        \/ /\ Go(t, [rest EXCEPT !.reported = @ \cup {f}])
           /\ UNCHANGED docs
     /\ UNCHANGED <<in, out, version>>

EndTurn(t) ==
  /\ turn[t].pc = "promote"
  /\ turn[t].todo = << >>
  /\ Go(t, Idle)
  /\ UNCHANGED <<in, out, docs, version>>

(* The user uploads a document to the stash. *)
Upload ==
  /\ Len(docs) < MaxDocs /\ version < MaxVersion
  /\ version' = version + 1
  /\ \E f \in Files : docs' = Append(docs, [name |-> f, ver |-> version'])
  /\ UNCHANGED <<in, out, turn>>

(* Between turns the idle container may be swept; the next turn boots an   *)
(* empty one.                                                              *)
NewContainer ==
  /\ Active = {}
  /\ in' = NoFiles /\ out' = NoFiles
  /\ UNCHANGED <<docs, turn, version>>

SyncNext ==
  \/ \E t \in Turns : StartTurn(t) \/ HydrateFile(t) \/ Hydrated(t) \/ Snapshot(t)
                      \/ Write(t) \/ Remove(t) \/ EndPattern(t) \/ PromoteFile(t) \/ EndTurn(t)
  \/ Upload \/ NewContainer

SyncSpec == SyncInit /\ [][SyncNext]_syncVars

-----------------------------------------------------------------------------
SyncTypeOK ==
  /\ in \in [Files -> Versions] /\ out \in [Files -> Versions]
  /\ docs \in Seq(Doc)
  /\ version \in Versions
  /\ \A t \in Turns :
       /\ turn[t].pc \in {"idle", "hydrate", "snapshot", "pattern", "promote"}
       /\ turn[t].baseline \in [Files -> Versions]
       /\ turn[t].reported \subseteq Files \cup {"hydrate"}

Stored == {<<docs[n].name, docs[n].ver>> : n \in DOMAIN docs}

(* "Promote only what THIS turn produces": a turn stores a file of         *)
(* /work/out only if it wrote it, so nothing already delivered is stored a *)
(* second time as a duplicate document.                                    *)
PromotesOwnWork ==
  [][\A t \in Turns :
        (turn[t].pc = "promote" /\ Len(docs') > Len(docs)
          /\ Len(turn'[t].todo) < Len(turn[t].todo))
        => docs'[Len(docs')].name \in turn[t].wrote]_syncVars

(* "never silent": what a turn wrote under /work/out is in the document    *)
(* store when the turn ends, or the turn has reported that it is not.      *)
NoSilentLoss ==
  [][\A t \in Turns :
        (turn[t].pc = "promote" /\ turn'[t].pc = "idle")
        => \A f \in turn[t].wrote :
              <<f, out[f]>> \in Stored \/ f \in turn[t].reported]_syncVars

(* "re-hydrating must not overwrite its work": hydration never touches a   *)
(* file that is in /work/in already.                                       *)
HydrateKeepsWork ==
  [][\A t \in Turns : \A f \in Files :
        (turn[t].pc = "hydrate" /\ turn'[t] # turn[t] /\ in[f] # 0) => in'[f] = in[f]]_syncVars

(* What a turn's files are: neither direction of the exchange writes over   *)
(* or repeats somebody else's work.                                         *)
OwnWorkOnly == PromotesOwnWork /\ HydrateKeepsWork
=============================================================================
