---------------------------- MODULE DocumentStore ----------------------------
(***************************************************************************)
(* The uploads of one session in Redis: a key for each document, a set of  *)
(* their ids, and the vectors of what was ingested.  Every operation is a  *)
(* sequence of gateway calls, and any of them interleave                   *)
(* (app/src/lib/document-store.server.ts, document-ingest.server.ts and    *)
(* routes/api/stash/upload.ts).  The instance is younger than the time to  *)
(* live, and the listing cache, which only delays what is seen, is left    *)
(* out.                                                                    *)
(***************************************************************************)
EXTENDS FiniteSets

CONSTANTS
  Docs,
  Jobs,         (* operations, each of which runs once                           *)
  Outages       (* may a call to the gateway fail                                *)

ASSUME StoreAssumption == Outages \in BOOLEAN

VARIABLES
  key,          (* the document at its key: ingest status and whether hidden     *)
  index,        (* the set of document ids                                       *)
  vectors,      (* documents whose every chunk is in the index of vectors        *)
  job,          (* the operations under way                                      *)
  accepted,     (* documents whose upload was confirmed                          *)
  removed       (* documents someone asked to delete                             *)

storeVars == <<key, index, vectors, job, accepted, removed>>

NoDocument     == [status |-> "gone", hidden |-> FALSE]
Statuses  == {"none", "pending", "indexed", "failed"}
NotBegun  == [kind |-> "none", doc |-> {}, step |-> "new", got |-> NoDocument, ids |-> {}, outcome |-> "none"]
JobOver      == [NotBegun EXCEPT !.step = "over"]
DocEntry(s)  == [status |-> s, hidden |-> FALSE]

Go(j, b)   == job' = [job EXCEPT ![j] = b]
To(j, s)   == Go(j, [job[j] EXCEPT !.step = s])
At(j, s)   == job[j].step = s
Begin(j, k, d, s) == At(j, "new") /\ Go(j, [NotBegun EXCEPT !.kind = k, !.doc = {d}, !.step = s])

-----------------------------------------------------------------------------
StoreInit ==
  /\ \E there \in SUBSET Docs :
       /\ key = [d \in Docs |-> IF d \in there THEN DocEntry("none") ELSE NoDocument]
       /\ index = there /\ accepted = there
  /\ vectors = {} /\ removed = {} /\ job = [j \in Jobs |-> NotBegun]

(* storeDocument: the key, then the id.  Mutant: the id first.               *)
WriteKey(d, e) == key' = [key EXCEPT ![d] = e] /\ UNCHANGED index
WriteId(d)     == index' = index \cup {d} /\ UNCHANGED key
IdFirst(n, d, e)   == IF n = 1 THEN WriteId(d) ELSE WriteKey(d, e)
StoreWrite(n, d, e) == IF n = 1 THEN WriteKey(d, e) ELSE WriteId(d)

Upload(j, d) ==
  /\ key[d] = NoDocument /\ d \notin accepted \cup removed \cup index
  /\ \A i \in Jobs : d \notin job[i].doc
  /\ At(j, "new")
  /\ \E e \in {DocEntry("none"), DocEntry("pending")} :
       /\ Go(j, [NotBegun EXCEPT !.kind = "upload", !.doc = {d}, !.step = "indexing", !.got = e])
       /\ StoreWrite(1, d, e)
  /\ UNCHANGED <<vectors, accepted, removed>>

(* With the second write the upload is confirmed, and ingested if the status *)
(* says so; when it fails the upload fails.                                  *)
Confirm(j) ==
  /\ At(j, "indexing")
  /\ \E d \in job[j].doc :
       \/ /\ StoreWrite(2, d, job[j].got) /\ accepted' = accepted \cup {d}
          /\ IF job[j].got.status = "pending"
             THEN Go(j, [job[j] EXCEPT !.kind = "ingest", !.step = "ingest"])
             ELSE Go(j, JobOver)
       \/ Outages /\ Go(j, JobOver) /\ UNCHANGED <<key, index, accepted>>
  /\ UNCHANGED <<vectors, removed>>

-----------------------------------------------------------------------------
(* listDocuments reads the ids, then each document, and drops an id whose    *)
(* document it did not get.                                                  *)
List(j) ==
  /\ At(j, "new") /\ Go(j, [NotBegun EXCEPT !.kind = "list", !.step = "listing", !.ids = index])
  /\ UNCHANGED <<key, index, vectors, accepted, removed>>

ListOne(j) ==
  /\ At(j, "listing")
  /\ IF job[j].ids = {} THEN Go(j, JobOver)
     ELSE \E d \in job[j].ids :
       \/ key[d] # NoDocument /\ Go(j, [job[j] EXCEPT !.ids = @ \ {d}])
       \/ /\ key[d] = NoDocument \/ Outages
          /\ Go(j, [job[j] EXCEPT !.ids = @ \ {d}, !.doc = {d}, !.step = "pruning"])
  /\ UNCHANGED <<key, index, vectors, accepted, removed>>

Prune(j) ==
  /\ At(j, "pruning") /\ Go(j, [job[j] EXCEPT !.doc = {}, !.step = "listing"])
  /\ \/ index' = index \ job[j].doc
     \/ Outages /\ UNCHANGED index
  /\ UNCHANGED <<key, vectors, accepted, removed>>

-----------------------------------------------------------------------------
(* setDocumentFlags reads the document and writes all of it back: for a hide *)
(* of the user, and for each status an ingest records.                       *)
Hide(j, d) == Begin(j, "hide", d, "hide") /\ UNCHANGED <<key, index, vectors, accepted, removed>>

ReadDoc(j, from, to, absent) ==
  /\ At(j, from)
  /\ \E d \in job[j].doc :
       \/ key[d] # NoDocument /\ Go(j, [job[j] EXCEPT !.got = key[d], !.step = to])
       \/ (key[d] = NoDocument \/ Outages) /\ To(j, absent)
  /\ UNCHANGED <<key, index, vectors, accepted, removed>>

WriteDoc(j, from, doc, then) ==
  /\ At(j, from)
  /\ \/ key' = [d \in Docs |-> IF d \in job[j].doc THEN doc ELSE key[d]]
     \/ Outages /\ UNCHANGED key
  /\ (IF then = "over" THEN Go(j, JobOver) ELSE To(j, then))
  /\ UNCHANGED <<index, vectors, accepted, removed>>

HideStep(j) ==
  \/ ReadDoc(j, "hide", "hiding", "over")
  \/ WriteDoc(j, "hiding", [job[j].got EXCEPT !.hidden = TRUE], "over")

(* ingestStashDocument: pending first, unless it is; then the chunks, and    *)
(* the outcome.  The safety net starts it for what is not indexed or pending.*)
Rescue(j, d) ==
  /\ d \in index /\ key[d].status \in {"none", "failed"}
  /\ Begin(j, "ingest", d, "ingest") /\ UNCHANGED <<key, index, vectors, accepted, removed>>

(* ingestDocument writes the chunks one by one, and throws at the first that *)
(* fails.  Mutant: its outcome is not looked at.                             *)
Hopeful(ok)   == "indexed"
OutcomeOf(ok) == IF ok THEN "indexed" ELSE "failed"

Embed(j) ==
  /\ At(j, "embed")
  /\ \E ok \in BOOLEAN :
       /\ vectors' = (IF ok THEN vectors \cup job[j].doc ELSE vectors)
       /\ Go(j, [job[j] EXCEPT !.step = "finish", !.outcome = OutcomeOf(ok)])
  /\ UNCHANGED <<key, index, accepted, removed>>

IngestStep(j) ==
  \/ ReadDoc(j, "ingest", "begun", "over")
  \/ At(j, "begun") /\ To(j, IF job[j].got.status = "pending" THEN "embed" ELSE "mark")
                    /\ UNCHANGED <<key, index, vectors, accepted, removed>>
  \/ ReadDoc(j, "mark", "marking", "embed")
  \/ WriteDoc(j, "marking", [job[j].got EXCEPT !.status = "pending"], "embed")
  \/ Embed(j)
  \/ ReadDoc(j, "finish", "finishing", "over")
  \/ WriteDoc(j, "finishing", [job[j].got EXCEPT !.status = job[j].outcome], "over")

-----------------------------------------------------------------------------
(* deleteDocument tries both writes, even when the first fails.              *)
Delete(j, d) ==
  /\ Begin(j, "delete", d, "delete") /\ removed' = removed \cup {d}
  /\ UNCHANGED <<key, index, vectors, accepted>>

DeleteStep(j) ==
  \/ WriteDoc(j, "delete", NoDocument, "dropping")
  \/ /\ At(j, "dropping") /\ Go(j, JobOver)
     /\ \/ index' = index \ job[j].doc
        \/ Outages /\ UNCHANGED index
     /\ UNCHANGED <<key, vectors, accepted, removed>>

JobStep(j) ==
  \/ Confirm(j) \/ ListOne(j) \/ Prune(j) \/ HideStep(j) \/ IngestStep(j) \/ DeleteStep(j)
JobStart(j) ==
  \/ List(j)
  \/ \E d \in Docs : Upload(j, d) \/ Hide(j, d) \/ Rescue(j, d) \/ Delete(j, d)
StoreNext == \E j \in Jobs : JobStart(j) \/ JobStep(j)
StoreSpec == StoreInit /\ [][StoreNext]_storeVars

-----------------------------------------------------------------------------
(* listDocuments drops expired documents only: what was accepted, is still   *)
(* at its key and was not deleted stays listed.                              *)
NotPruned == \A d \in accepted \ removed : key[d] # NoDocument => d \in index

(* Whatever listings, edits, deletions and other ingests come between: what  *)
(* was accepted is listed, and what says it is indexed can be searched.      *)
Findable ==
  /\ NotPruned
  /\ \A d \in Docs : key[d].status = "indexed" => d \in vectors

(* ensureSessionIngested skips a document that is pending because "the gate  *)
(* is actively ingesting it".  An edit of a flag that read it before the     *)
(* ingest ended writes "pending" back over the outcome.                      *)
PendingIsIngested ==
  \A d \in Docs : key[d].status = "pending" =>
    \E j \in Jobs : d \in job[j].doc /\ job[j].kind \in {"upload", "ingest"}
=============================================================================
