--------------------------- MODULE StoredProofs ---------------------------
(* Proofs about what the database holds: the sealed columns at boot, the     *)
(* documents of a session, the routines.                                     *)
EXTENDS DatabaseBoot, DocumentStore, Routines, WellFoundedInduction, TLAPS

(* The boot gate and the backfill, for any processes, rows, columns and      *)
(* keys.  The gate sees one envelope of each column; that it may conclude    *)
(* anything of the others rests on there being one key in the database, and  *)
(* that rests on the gate: the invariant proves the two together.  That the  *)
(* backfill undoes no write rests on a process serving users only when       *)
(* nothing plain is left, which the ceiling of batches would break.          *)

(* Processes that run together are configured alike, and only those run.     *)
OneKeyRuns ==
  /\ \A p \in Processes : at[p] = "down" => ~Keyed(p)
  /\ \A p \in Processes : at[p] = "backfill" => Keyed(p)
  /\ \A p, q \in Processes : Keyed(p) /\ Keyed(q) => dataKey[p] = dataKey[q]

OneKeyStored ==
  \A r, s \in Rows, c, d \in Columns :
    Sealed(r, c) /\ Sealed(s, d) => seal[r][c] = seal[s][d]

(* What the gate has sampled stands for its whole column.                    *)
SampledAll ==
  \A p \in Processes : at[p] = "gate" /\ Keyed(p) =>
    \A r \in Rows, c \in Columns \ unsampled[p] :
      Sealed(r, c) => seal[r][c] \in found[p] \cup {dataKey[p]}

KInv == DbTypeOK /\ OneKeyRuns /\ OneKeyStored /\ SampledAll /\ KeyOpensAll

(* A copy in a batch is the stored value, for as long as it may be used; and *)
(* where no table exceeds the ceiling, whoever serves has nothing due.       *)
CopyIsFresh ==
  \A p \in Processes, r \in Rows, c \in Columns :
    Due(r) /\ copy[p][r][c] # Absent => copy[p][r][c] = text[r][c]

ServesComplete == \A p \in Processes : at[p] = "ready" /\ Keyed(p) => complete[p]

BInv == KInv /\ NothingPlainLeft /\ (~Truncates => ServesComplete /\ CopyIsFresh /\ WritesSurvive)

(* At the start no process runs, and no value is sealed yet.               *)
LEMMA DbInitInv == DbInit => BInv
<1> SUFFICES ASSUME DbInit PROVE BInv
  OBVIOUS
<1> USE DatabaseAssumption DEF DbInit
<1>1. DbTypeOK
  BY DEF DbTypeOK, Stages, NoCopy
<1>2. OneKeyRuns /\ OneKeyStored /\ SampledAll /\ KeyOpensAll
  BY DEF OneKeyRuns, OneKeyStored, SampledAll, KeyOpensAll, Sealed, Keyed
<1>3. NothingPlainLeft /\ ServesComplete /\ CopyIsFresh /\ WritesSurvive
  BY DEF NothingPlainLeft, ServesComplete, CopyIsFresh, WritesSurvive, NoCopy
<1> QED
  BY <1>1, <1>2, <1>3 DEF BInv, KInv

(* A sample is one envelope of the column, unless the column has none.       *)
LEMMA SampleTakes ==
  ASSUME NEW p \in Processes, Sample(p)
  PROVE  \E c \in unsampled[p] :
           /\ unsampled' = [unsampled EXCEPT ![p] = @ \ {c}]
           /\ \/ UNCHANGED found /\ \A r \in Rows : ~Sealed(r, c)
              \/ \E r \in Rows : Sealed(r, c) /\ found' = [found EXCEPT ![p] = @ \cup {seal[r][c]}]
<1>1. PICK c \in unsampled[p] : Sample(p)!2!(c)
  BY DEF Sample
<1> DEFINE keys == {seal[r][c] : r \in {s \in Rows : Sealed(s, c)}}
<1>2. CASE keys = {} /\ UNCHANGED found
  <2>1. \A r \in Rows : Sealed(r, c) => seal[r][c] \in keys
    OBVIOUS
  <2> QED
    BY <1>1, <1>2, <2>1
<1>3. CASE \E k \in keys : found' = [found EXCEPT ![p] = @ \cup {k}]
  <2>1. PICK k \in keys : found' = [found EXCEPT ![p] = @ \cup {k}]
    BY <1>3
  <2>2. PICK r \in Rows : Sealed(r, c) /\ k = seal[r][c]
    BY <2>1
  <2> QED
    BY <1>1, <2>1, <2>2
<1> QED
  BY <1>1, <1>2, <1>3

(* Every step keeps the types.                                               *)
LEMMA TypeStep == DbTypeOK /\ OneKeyRuns /\ [DbNext]_dbVars => DbTypeOK'
<1> SUFFICES ASSUME DbTypeOK, OneKeyRuns, [DbNext]_dbVars PROVE DbTypeOK'
  OBVIOUS
<1> USE DatabaseAssumption DEF DbTypeOK, stored, probe, work
<1>1. CASE UNCHANGED dbVars
  BY <1>1 DEF dbVars
<1>2. ASSUME NEW p \in Processes, DbStep(p) PROVE DbTypeOK'
  <2>1. CASE StartProcess(p)
    BY <2>1 DEF StartProcess, Stages
  <2>2. CASE FirstQuery(p)
    BY <2>2 DEF FirstQuery, Stages
  <2>3. CASE Sample(p)
    <3>1. PICK c \in unsampled[p] :
               \/ UNCHANGED found
               \/ \E r \in Rows : Sealed(r, c) /\ found' = [found EXCEPT ![p] = @ \cup {seal[r][c]}]
      BY <2>3, SampleTakes
    <3>2. CASE UNCHANGED found
      BY <2>3, <3>2 DEF Sample
    <3>3. CASE \E r \in Rows : Sealed(r, c) /\ found' = [found EXCEPT ![p] = @ \cup {seal[r][c]}]
      BY <2>3, <3>1, <3>3 DEF Sample, Sealed
    <3> QED
      BY <3>1, <3>2, <3>3
  <2>4. CASE Decide(p)
    BY <2>4 DEF Decide, Stages
  <2>5. CASE ReadBatch(p)
    BY <2>5 DEF ReadBatch, DueRows
  <2>6. CASE ConvertRow(p)
    <3>1. PICK r \in pending[p] : ConvertRow(p)!2!(r)
      BY <2>6 DEF ConvertRow
    <3>2. r \in Rows /\ dataKey[p] \in DataKeys
      BY <2>6, <3>1 DEF ConvertRow, OneKeyRuns, Keyed
    <3>3. pending' \in [Processes -> SUBSET Rows] /\ copy' \in [Processes -> [Rows -> [Columns -> Nat \cup {Absent}]]]
      BY <3>1, <3>2 DEF NoCopy
    <3>4. seal' \in [Rows -> [Columns -> DataKeys \cup {Unsealed, Absent}]]
      BY <3>1, <3>2
    <3>5. text' \in [Rows -> [Columns -> Nat]]
      BY <3>1, <3>2
    <3> QED
      BY <2>6, <3>3, <3>4, <3>5 DEF ConvertRow
  <2>7. CASE EndBackfill(p)
    BY <2>7 DEF EndBackfill, Stages
  <2>8. CASE FailInit(p)
    BY <2>8 DEF FailInit, Forget, Stages, NoCopy
  <2>9. CASE UserWrite(p)
    <3>1. PICK r \in Rows, cs \in SUBSET Columns \ {{}} : UserWrite(p)!3!(r, cs)
      BY <2>9 DEF UserWrite
    <3>2. dataKey[p] \in DataKeys
      BY <2>9 DEF UserWrite, Keyed
    <3>3. seal' \in [Rows -> [Columns -> DataKeys \cup {Unsealed, Absent}]]
      BY <3>1, <3>2
    <3>4. text' \in [Rows -> [Columns -> Nat]] /\ written' \in [Rows -> [Columns -> Nat]]
      BY <3>1
    <3> QED
      BY <2>9, <3>3, <3>4 DEF UserWrite
  <2>10. CASE StopProcess(p)
    BY <2>10 DEF StopProcess, Forget, Stages, NoCopy
  <2> QED
    BY <1>2, <2>1, <2>2, <2>3, <2>4, <2>5, <2>6, <2>7, <2>8, <2>9, <2>10 DEF DbStep
<1> QED
  BY <1>1, <1>2 DEF DbNext

(* A conversion seals with the key of its process, and leaves the rest.      *)
LEMMA ConvertSeals ==
  ASSUME DbTypeOK, NEW p \in Processes, ConvertRow(p)
  PROVE  /\ at' = at /\ dataKey' = dataKey /\ unsampled' = unsampled /\ found' = found
         /\ \A r \in Rows, c \in Columns : seal'[r][c] \in {seal[r][c], dataKey[p]}
BY DEF ConvertRow, DbTypeOK, probe

(* A write of a user seals with the key of its process, and leaves the rest. *)
LEMMA WriteSeals ==
  ASSUME DbTypeOK, NEW p \in Processes, UserWrite(p)
  PROVE  /\ at' = at /\ dataKey' = dataKey /\ unsampled' = unsampled /\ found' = found
         /\ \A r \in Rows, c \in Columns : seal'[r][c] \in {seal[r][c], dataKey[p]}
BY DEF UserWrite, DbTypeOK, probe

(* Where a process that serves or backfills seals with its key, the database *)
(* keeps one key, and all who read it keep reading.                          *)
LEMMA SealingKeepsKeys ==
  ASSUME KInv, DbTypeOK', NEW p \in Processes, Keyed(p), at[p] \in {"backfill", "ready"},
         at' = at, dataKey' = dataKey, unsampled' = unsampled, found' = found,
         \A r \in Rows, c \in Columns : seal'[r][c] \in {seal[r][c], dataKey[p]}
  PROVE  KInv'
<1> USE DEF KInv
<1>1. OneKeyRuns'
  BY DEF OneKeyRuns, Keyed
<1>2. \A r \in Rows, c \in Columns : Sealed(r, c)' => seal'[r][c] = dataKey[p]
  BY DEF KeyOpensAll, Sealed
<1>3. OneKeyStored'
  BY <1>2 DEF OneKeyStored
<1>4. SampledAll'
  BY <1>2 DEF SampledAll, OneKeyRuns, Keyed
<1>5. KeyOpensAll'
  BY <1>2 DEF KeyOpensAll, OneKeyRuns, Keyed
<1> QED
  BY <1>1, <1>3, <1>4, <1>5

(* No step brings a second key into the database.                            *)
LEMMA KeyStep == KInv /\ [DbNext]_dbVars => KInv'
<1> SUFFICES ASSUME KInv, [DbNext]_dbVars PROVE KInv'
  OBVIOUS
<1>0. DbTypeOK'
  BY TypeStep DEF KInv
<1> USE DatabaseAssumption
<1>1. CASE UNCHANGED dbVars
  BY <1>1 DEF dbVars, stored, probe, work, KInv, DbTypeOK, OneKeyRuns, OneKeyStored, SampledAll,
     KeyOpensAll, Sealed, Keyed
<1>2. ASSUME NEW p \in Processes, DbStep(p) PROVE KInv'
  <2>1. ASSUME seal' = seal, OneKeyRuns', SampledAll', KeyOpensAll' PROVE KInv'
    BY <1>0, <2>1 DEF KInv, OneKeyStored, Sealed
  <2> USE DEF DbTypeOK, stored, probe, work, KInv
  <2>2. CASE StartProcess(p)
    <3>1. OneKeyRuns'
      BY <2>2 DEF StartProcess, OneKeyRuns, Keyed
    <3>2. SampledAll' /\ KeyOpensAll'
      BY <2>2 DEF StartProcess, SampledAll, KeyOpensAll, Sealed, Keyed
    <3> QED
      BY <2>1, <2>2, <3>1, <3>2 DEF StartProcess
  <2>3. CASE FirstQuery(p)
    <3>1. OneKeyRuns' /\ SampledAll' /\ KeyOpensAll'
      BY <2>3 DEF FirstQuery, OneKeyRuns, SampledAll, KeyOpensAll, Sealed, Keyed
    <3> QED
      BY <2>1, <2>3, <3>1 DEF FirstQuery
  <2>4. CASE Sample(p)
    <3>1. PICK c \in unsampled[p] :
               /\ unsampled' = [unsampled EXCEPT ![p] = @ \ {c}]
               /\ \/ UNCHANGED found /\ \A r \in Rows : ~Sealed(r, c)
                  \/ \E r \in Rows : Sealed(r, c) /\ found' = [found EXCEPT ![p] = @ \cup {seal[r][c]}]
      BY <2>4, SampleTakes
    <3>2. OneKeyRuns' /\ KeyOpensAll'
      BY <2>4 DEF Sample, OneKeyRuns, KeyOpensAll, Sealed, Keyed
    <3>3. \A r \in Rows : Sealed(r, c) => seal[r][c] \in found'[p]
      <4> SUFFICES ASSUME NEW r \in Rows, Sealed(r, c) PROVE seal[r][c] \in found'[p]
        OBVIOUS
      <4>1. PICK s \in Rows : Sealed(s, c) /\ found' = [found EXCEPT ![p] = @ \cup {seal[s][c]}]
        BY <3>1
      <4>2. c \in Columns
        OBVIOUS
      <4> QED
        BY <4>1, <4>2 DEF OneKeyStored
    <3>4. \A q \in Processes : found[q] \subseteq found'[q]
      <4>1. CASE UNCHANGED found
        BY <4>1
      <4>2. ASSUME NEW r \in Rows, found' = [found EXCEPT ![p] = @ \cup {seal[r][c]}]
            PROVE  \A q \in Processes : found[q] \subseteq found'[q]
        BY <4>2
      <4> QED
        BY <3>1, <4>1, <4>2
    <3>5. unsampled' = [unsampled EXCEPT ![p] = @ \ {c}]
      BY <3>1
    <3>6. SampledAll'
      BY <2>4, <3>3, <3>4, <3>5 DEF Sample, SampledAll, Sealed, Keyed
    <3> QED
      BY <2>1, <2>4, <3>2, <3>6 DEF Sample
  <2>5. CASE Decide(p)
    <3>1. OneKeyRuns' /\ SampledAll'
      BY <2>5 DEF Decide, OneKeyRuns, SampledAll, Sealed, Keyed
    <3>2. ASSUME MayServe(p), Keyed(p) PROVE \A r \in Rows, c \in Columns : Sealed(r, c) => seal[r][c] = dataKey[p]
      BY <2>5, <3>2 DEF Decide, SampledAll, MayServe
    <3>3. \A q \in Processes : at'[q] = at[q] \/ (q = p /\ (at'[p] \in {"backfill", "ready"} /\ Keyed(p) => MayServe(p)))
      BY <2>5 DEF Decide
    <3>4. KeyOpensAll'
      BY <2>5, <3>2, <3>3 DEF Decide, KeyOpensAll, Sealed, Keyed
    <3> QED
      BY <2>1, <2>5, <3>1, <3>4 DEF Decide
  <2>6. CASE ReadBatch(p)
    BY <2>1, <2>6 DEF ReadBatch, OneKeyRuns, SampledAll, KeyOpensAll, Sealed, Keyed
  <2>7. CASE ConvertRow(p)
    <3>1. at[p] = "backfill" /\ Keyed(p)
      BY <2>7 DEF ConvertRow, OneKeyRuns
    <3> QED
      BY <1>0, <2>7, <3>1, ConvertSeals, SealingKeepsKeys
  <2>8. CASE EndBackfill(p)
    <3>1. OneKeyRuns' /\ SampledAll' /\ KeyOpensAll'
      BY <2>8 DEF EndBackfill, OneKeyRuns, SampledAll, KeyOpensAll, Sealed, Keyed
    <3> QED
      BY <2>1, <2>8, <3>1 DEF EndBackfill
  <2>9. CASE FailInit(p)
    <3>1. OneKeyRuns' /\ SampledAll' /\ KeyOpensAll'
      BY <2>9 DEF FailInit, Forget, OneKeyRuns, SampledAll, KeyOpensAll, Sealed, Keyed
    <3> QED
      BY <2>1, <2>9, <3>1 DEF FailInit
  <2>10. CASE UserWrite(p)
    <3>1. at[p] = "ready" /\ Keyed(p)
      BY <2>10 DEF UserWrite
    <3> QED
      BY <1>0, <2>10, <3>1, WriteSeals, SealingKeepsKeys
  <2>11. CASE StopProcess(p)
    <3>1. OneKeyRuns' /\ SampledAll' /\ KeyOpensAll'
      BY <2>11 DEF StopProcess, Forget, OneKeyRuns, SampledAll, KeyOpensAll, Sealed, Keyed
    <3> QED
      BY <2>1, <2>11, <3>1 DEF StopProcess
  <2> QED
    BY <1>2, <2>2, <2>3, <2>4, <2>5, <2>6, <2>7, <2>8, <2>9, <2>10, <2>11 DEF DbStep
<1> QED
  BY <1>1, <1>2 DEF DbNext

(* No step leaves a row due that was not.                                    *)
LEMMA DueOnlyFalls ==
  ASSUME KInv, [DbNext]_dbVars
  PROVE  \A r \in Rows : Due(r)' => Due(r)
<1> USE DatabaseAssumption DEF KInv, DbTypeOK, Due, stored
<1>1. CASE UNCHANGED dbVars
  BY <1>1 DEF dbVars
<1>2. ASSUME NEW p \in Processes, DbStep(p) PROVE \A r \in Rows : Due(r)' => Due(r)
  <2>1. CASE UNCHANGED seal
    BY <2>1
  <2>2. CASE ConvertRow(p)
    <3>1. dataKey[p] # Unsealed
      BY <2>2 DEF ConvertRow, OneKeyRuns, Keyed
    <3> QED
      BY <2>2, <3>1, ConvertSeals
  <2>3. CASE UserWrite(p)
    <3>1. dataKey[p] # Unsealed
      BY <2>3 DEF UserWrite, Keyed
    <3> QED
      BY <2>3, <3>1, WriteSeals
  <2> QED
    BY <1>2, <2>1, <2>2, <2>3 DEF DbStep, StartProcess, FirstQuery, Sample, Decide, ReadBatch,
       EndBackfill, FailInit, StopProcess
<1> QED
  BY <1>1, <1>2 DEF DbNext

(* Every step keeps what a backfill relies on: fresh copies, no write undone.*)
LEMMA BackfillStep == BInv /\ [DbNext]_dbVars => BInv'
<1> SUFFICES ASSUME BInv, [DbNext]_dbVars PROVE BInv'
  OBVIOUS
<1> USE DatabaseAssumption
<1>0. KInv' /\ \A r \in Rows : Due(r)' => Due(r)
  BY KeyStep, DueOnlyFalls DEF BInv
<1>1. NothingPlainLeft'
  <2>1. CASE UNCHANGED dbVars
    BY <2>1 DEF dbVars, stored, BInv, NothingPlainLeft, DueRows, Due
  <2>2. ASSUME NEW q \in Processes, DbStep(q) PROVE NothingPlainLeft'
    <3> SUFFICES ASSUME NEW p \in Processes, complete'[p] PROVE DueRows' = {}
      BY DEF NothingPlainLeft
    <3>1. complete[p] \/ DueRows = {}
      BY <2>2 DEF BInv, KInv, DbTypeOK, DbStep, StartProcess, FirstQuery, Sample, Decide, ReadBatch,
         ConvertRow, EndBackfill, FailInit, UserWrite, StopProcess
    <3>2. DueRows = {}
      BY <3>1 DEF BInv, NothingPlainLeft
    <3> QED
      BY <1>0, <3>2 DEF DueRows
  <2> QED
    BY <2>1, <2>2 DEF DbNext
<1>2. ASSUME ~Truncates PROVE ServesComplete' /\ CopyIsFresh' /\ WritesSurvive'
  <2> USE <1>2 DEF BInv, KInv, DbTypeOK, stored, probe, work
  <2>1. CASE UNCHANGED dbVars
    BY <2>1 DEF dbVars, ServesComplete, CopyIsFresh, WritesSurvive, Due, Keyed
  <2>2. ASSUME NEW q \in Processes, DbStep(q)
        PROVE  ServesComplete' /\ CopyIsFresh' /\ WritesSurvive'
    <3>1. CASE UNCHANGED <<stored, work>> /\ (Decide(q) \/ EndBackfill(q) \/ UNCHANGED <<at, dataKey, complete>>
                 \/ StartProcess(q) \/ FirstQuery(q))
      <4>1. CopyIsFresh' /\ WritesSurvive'
        BY <3>1 DEF CopyIsFresh, WritesSurvive, Due
      <4>2. ServesComplete'
        BY ZenonT(30), <3>1 DEF ServesComplete, Decide, EndBackfill, StartProcess, FirstQuery, Keyed, OneKeyRuns
      <4> QED
        BY <4>1, <4>2
    <3>2. CASE ReadBatch(q)
      BY <3>2 DEF ReadBatch, ServesComplete, CopyIsFresh, WritesSurvive, Due, Keyed
    <3>3. CASE ConvertRow(q)
      <4>1. PICK r \in pending[q] : ConvertRow(q)!2!(r)
        BY <3>3 DEF ConvertRow
      <4>2. text' = text
        BY <4>1 DEF CopyIsFresh
      <4>3. \A p \in Processes, s \in Rows, c \in Columns : copy'[p][s][c] \in {copy[p][s][c], Absent}
        BY <4>1 DEF NoCopy
      <4>4. CopyIsFresh'
        BY <1>0, <4>2, <4>3 DEF CopyIsFresh
      <4> QED
        BY <3>3, <4>2, <4>4 DEF ConvertRow, ServesComplete, WritesSurvive, Keyed
    <3>4. CASE UserWrite(q)
      <4>1. PICK r \in Rows, cs \in SUBSET Columns \ {{}} : UserWrite(q)!3!(r, cs)
        BY <3>4 DEF UserWrite
      <4>2. WritesSurvive'
        BY <4>1 DEF WritesSurvive
      <4>3. \A s \in Rows : ~Due(s)
        BY <3>4 DEF UserWrite, ServesComplete, NothingPlainLeft, DueRows
      <4>4. CopyIsFresh'
        BY <1>0, <4>3 DEF CopyIsFresh
      <4> QED
        BY <3>4, <4>2, <4>4 DEF UserWrite, ServesComplete, Keyed
    <3>5. CASE FailInit(q) \/ StopProcess(q)
      <4>1. \A p \in Processes, s \in Rows, c \in Columns : copy'[p][s][c] \in {copy[p][s][c], Absent}
        <5>1. copy' = [copy EXCEPT ![q] = NoCopy]
          BY <3>5 DEF FailInit, StopProcess, Forget
        <5> QED
          BY <5>1 DEF NoCopy
      <4>2. CopyIsFresh' /\ WritesSurvive'
        BY <1>0, <3>5, <4>1 DEF FailInit, StopProcess, CopyIsFresh, WritesSurvive
      <4>3. ServesComplete'
        BY <3>5 DEF FailInit, StopProcess, Forget, ServesComplete, Keyed
      <4> QED
        BY <4>2, <4>3
    <3> QED
      BY <2>2, <3>1, <3>2, <3>3, <3>4, <3>5 DEF DbStep, StartProcess, FirstQuery, Sample, Decide, EndBackfill
  <2> QED
    BY <2>1, <2>2 DEF DbNext
<1> QED
  BY <1>0, <1>1, <1>2 DEF BInv

(* The inductive invariant: keys, copies, and who may serve.                 *)
THEOREM DatabaseInvariant == DbSpec => []BInv
BY DbInitInv, BackfillStep, PTL DEF DbSpec

(* A process that serves with a key can read every value in the database.    *)
THEOREM OneKeyReadsAll == DbSpec => []KeyOpensAll
<1>1. BInv => KeyOpensAll
  BY DEF BInv, KInv
<1> QED
  BY <1>1, DatabaseInvariant, PTL

(* Where no table exceeds the ceiling of batches, a backfill undoes no write *)
(* of a user, and leaves nothing plain behind.                               *)
THEOREM BackfillSafe == ASSUME ~Truncates PROVE DbSpec => []BackfillKeepsData
<1>1. BInv => BackfillKeepsData
  BY DEF BInv, BackfillKeepsData
<1> QED
  BY <1>1, DatabaseInvariant, PTL
-----------------------------------------------------------------------------
(* The documents of a session, for any documents and operations.  The        *)
(* argument: whoever writes "indexed", or read it, wrote the vectors first or*)
(* found them; and a key that is missing, where the store answers, was       *)
(* deleted, so that pruning its name from the index loses nothing.           *)

(* Documents and operations as records.                                     *)
DocRec == [status : Statuses \cup {"gone"}, hidden : BOOLEAN]
JobSteps == {"new", "over", "indexing", "listing", "pruning", "hide", "hiding", "ingest", "begun", "mark",
             "marking", "embed", "finish", "finishing", "delete", "dropping"}
JobRec == [kind : {"none", "upload", "list", "hide", "ingest", "delete"}, doc : SUBSET Docs, step : JobSteps,
           got : DocRec, ids : SUBSET Docs, outcome : {"none", "indexed", "failed"}]

(* Types, and an operation is about one document.                           *)
StoreTypes ==
  /\ key \in [Docs -> DocRec] /\ job \in [Jobs -> JobRec]
  /\ index \subseteq Docs /\ accepted \subseteq Docs
  /\ \A j \in Jobs : \A d, e \in job[j].doc : d = e

(* What an operation read or found of a document that is indexed, can be        *)
(* searched: the vectors were written before, and nothing takes them away.      *)
JobsSearchable ==
  \A j \in Jobs :
    /\ job[j].got.status = "indexed" \/ job[j].outcome = "indexed" => job[j].doc \subseteq vectors
    /\ job[j].step \in {"listing", "pruning"} => job[j].got = NoDocument /\ job[j].outcome = "none"

(* An indexed document can be searched.                                     *)
Searchable == \A d \in Docs : key[d].status = "indexed" => d \in vectors

(* Without outages a document that was listed, confirmed or is about to be, and *)
(* is not at its key, was deleted.                                              *)
MissingIsRemoved ==
  /\ \A d \in Docs : key[d] = NoDocument =>
       \/ d \in removed
       \/ d \notin index /\ \A j \in Jobs : d \notin job[j].ids /\ (job[j].step = "indexing" => d \notin job[j].doc)
  /\ \A j \in Jobs : job[j].step \in {"pruning", "delete", "dropping"} => job[j].doc \subseteq removed
  /\ accepted \subseteq index \cup removed

(* The inductive invariant: the second part needs the key store to answer.   *)
SInv == StoreTypes /\ JobsSearchable /\ Searchable
FInv == SInv /\ (~Outages => MissingIsRemoved)

(* At the start nothing is under way.                                       *)
LEMMA StoreInitInv == StoreInit => FInv
<1> SUFFICES ASSUME StoreInit PROVE FInv
  OBVIOUS
<1> USE DEF StoreInit, NotBegun, NoDocument, DocEntry, Statuses
<1>1. NotBegun \in JobRec
  BY DEF JobRec, DocRec, JobSteps
<1>2. StoreTypes
  BY <1>1 DEF StoreTypes, DocRec
<1>3. JobsSearchable /\ Searchable
  <2>1. \A j \in Jobs : job[j] = NotBegun
    OBVIOUS
  <2>2. \A d \in Docs : key[d].status # "indexed"
    OBVIOUS
  <2>3. QED
    BY <2>1, <2>2 DEF JobsSearchable, Searchable
<1>4. MissingIsRemoved
  BY DEF MissingIsRemoved
<1>5. QED
  BY <1>2, <1>3, <1>4 DEF FInv, SInv

(* An operation moves: its new record decides what the invariant asks of it.    *)
JobFine(b, vs) ==
  /\ b \in JobRec /\ \A d, e \in b.doc : d = e
  /\ b.got.status = "indexed" \/ b.outcome = "indexed" => b.doc \subseteq vs
  /\ b.step \in {"listing", "pruning"} => b.got = NoDocument /\ b.outcome = "none"

(* What an operation holds of documents that are not at their keys.          *)
JobHonest(b, keys, gone) ==
  /\ \A d \in Docs : keys[d] = NoDocument =>
       d \in gone \/ (d \notin b.ids /\ (b.step = "indexing" => d \notin b.doc))
  /\ b.step \in {"pruning", "delete", "dropping"} => b.doc \subseteq gone

(* A step that moves one operation and writes no key: what it says of the       *)
(* documents can only have become truer.                                        *)
LEMMA JobMoves ==
  ASSUME FInv, NEW j \in Jobs, NEW b, Go(j, b), UNCHANGED key, vectors \subseteq vectors', removed \subseteq removed',
         JobFine(b, vectors'), ~Outages => JobHonest(b, key', removed'),
         index' \subseteq Docs, accepted' \subseteq Docs,
         ~Outages => /\ \A d \in index' \ index : key[d] # NoDocument \/ d \in removed
                     /\ index \ index' \subseteq removed /\ accepted' \ accepted \subseteq index'
  PROVE  FInv'
<1> USE DEF FInv, SInv
<1>1. job \in [Jobs -> JobRec] /\ key \in [Docs -> DocRec] /\ key' = key
  BY DEF StoreTypes
<1>2. job' = [job EXCEPT ![j] = b] /\ b \in JobRec
  BY DEF Go, JobFine
<1>3. job' \in [Jobs -> JobRec] /\ job'[j] = b /\ \A i \in Jobs \ {j} : job'[i] = job[i]
  BY <1>1, <1>2
<1>4. StoreTypes'
  BY <1>1, <1>3 DEF StoreTypes, JobFine
<1>5. JobsSearchable' /\ Searchable'
  BY <1>1, <1>3 DEF JobsSearchable, Searchable, JobFine
<1>6. ASSUME ~Outages PROVE MissingIsRemoved'
  <2>1. \A d \in Docs : key'[d] = NoDocument =>
          \/ d \in removed'
          \/ d \notin index' /\ \A i \in Jobs : d \notin job'[i].ids /\ (job'[i].step = "indexing" => d \notin job'[i].doc)
    BY <1>1, <1>3, <1>6 DEF MissingIsRemoved, JobHonest
  <2>2. \A i \in Jobs : job'[i].step \in {"pruning", "delete", "dropping"} => job'[i].doc \subseteq removed'
    BY <1>3, <1>6 DEF MissingIsRemoved, JobHonest
  <2>3. accepted' \subseteq index' \cup removed'
    BY <1>6 DEF MissingIsRemoved
  <2>4. QED
    BY <2>1, <2>2, <2>3 DEF MissingIsRemoved
<1>7. QED
  BY <1>4, <1>5, <1>6

(* A step that writes the key of the one document it is about.                  *)
LEMMA KeyMoves ==
  ASSUME FInv, NEW j \in Jobs, NEW b, Go(j, b), NEW ds \in SUBSET Docs, NEW e \in DocRec,
         key' = [d \in Docs |-> IF d \in ds THEN e ELSE key[d]],
         UNCHANGED <<index, vectors, accepted, removed>>,
         e.status = "indexed" => ds \subseteq vectors, JobFine(b, vectors),
         ~Outages => (e = NoDocument => ds \subseteq removed) /\ JobHonest(b, key', removed')
  PROVE  FInv'
<1> USE DEF FInv, SInv
<1>1. job \in [Jobs -> JobRec] /\ key \in [Docs -> DocRec]
  BY DEF StoreTypes
<1>2. job' = [job EXCEPT ![j] = b] /\ b \in JobRec
  BY DEF Go, JobFine
<1>3. job' \in [Jobs -> JobRec] /\ job'[j] = b /\ \A i \in Jobs \ {j} : job'[i] = job[i]
  BY <1>1, <1>2
<1>4. key' \in [Docs -> DocRec] /\ \A d \in Docs : key'[d] = IF d \in ds THEN e ELSE key[d]
  BY <1>1
<1>5. StoreTypes'
  BY <1>3, <1>4 DEF StoreTypes, JobFine
<1>6. JobsSearchable'
  BY <1>3 DEF JobsSearchable, JobFine
<1>7. Searchable'
  BY <1>4 DEF Searchable
<1>8. ASSUME ~Outages PROVE MissingIsRemoved'
  <2>1. \A d \in Docs : key'[d] = NoDocument => key[d] = NoDocument \/ d \in removed
    BY <1>4, <1>8
  <2>2. QED
    BY <1>3, <1>8, <2>1 DEF MissingIsRemoved, JobHonest
<1>9. QED
  BY <1>5, <1>6, <1>7, <1>8

(* setDocumentFlags and the ingest read a document: what they got is as         *)
(* searchable as what was there.                                                *)
LEMMA ReadDocInv ==
  ASSUME FInv, NEW j \in Jobs, NEW from, NEW to, NEW absent, ReadDoc(j, from, to, absent),
         {to, absent} \subseteq {"hiding", "over", "begun", "marking", "embed", "finishing"}
  PROVE  FInv'
<1>0. /\ key \in [Docs -> DocRec] /\ index \subseteq Docs /\ accepted \subseteq Docs
      /\ job[j] \in JobRec /\ JobFine(job[j], vectors) /\ (~Outages => JobHonest(job[j], key, removed))
  BY DEF FInv, SInv, StoreTypes, JobsSearchable, MissingIsRemoved, JobFine, JobHonest
<1>1. UNCHANGED <<key, index, vectors, accepted, removed>>
  BY DEF ReadDoc
<1>2. PICK d \in job[j].doc :
        \/ Go(j, [job[j] EXCEPT !.got = key[d], !.step = to])
        \/ Go(j, [job[j] EXCEPT !.step = absent])
  BY DEF ReadDoc, To
<1>3. PICK g, s :
        /\ Go(j, [job[j] EXCEPT !.got = g, !.step = s])
        /\ g = key[d] \/ g = job[j].got
        /\ s \in {"hiding", "over", "begun", "marking", "embed", "finishing"}
  <2>1. [job[j] EXCEPT !.step = absent] = [job[j] EXCEPT !.got = job[j].got, !.step = absent]
    BY <1>0 DEF JobRec
  <2>2. QED
    BY <1>2, <2>1
<1> DEFINE b == [job[j] EXCEPT !.got = g, !.step = s]
<1>4. d \in Docs /\ job[j].doc = {d} /\ g \in DocRec /\ (g.status = "indexed" => d \in vectors)
  <2>1. d \in Docs /\ job[j].doc = {d}
    BY <1>0 DEF JobFine, JobRec
  <2>2. QED
    BY <1>0, <1>3, <2>1 DEF FInv, SInv, Searchable, JobFine, JobRec
<1>5. /\ b \in JobRec /\ b.doc = {d} /\ b.got = g /\ b.outcome = job[j].outcome /\ b.step = s
      /\ b.ids = job[j].ids
  BY <1>0, <1>3, <1>4 DEF JobRec, JobSteps
<1>6. Go(j, b)
  BY <1>3
<1> HIDE DEF b
<1>7. JobFine(b, vectors') /\ (~Outages => JobHonest(b, key', removed'))
  BY <1>0, <1>1, <1>3, <1>4, <1>5 DEF JobFine, JobHonest
<1>8. QED
  BY <1>0, <1>1, <1>6, <1>7, JobMoves

(* And they write all of it back, with the vectors of what it says.             *)
LEMMA WriteDocInv ==
  ASSUME FInv, NEW j \in Jobs, NEW from, NEW e \in DocRec, NEW then, WriteDoc(j, from, e, then),
         e.status = "indexed" => job[j].doc \subseteq vectors,
         e = NoDocument => job[j].step = "delete",
         then \in {"over", "embed"} \/ (then = "dropping" /\ job[j].step = "delete")
  PROVE  FInv'
<1>0. /\ key \in [Docs -> DocRec] /\ index \subseteq Docs /\ accepted \subseteq Docs
      /\ job[j] \in JobRec /\ JobFine(job[j], vectors) /\ (~Outages => JobHonest(job[j], key, removed))
  BY DEF FInv, SInv, StoreTypes, JobsSearchable, MissingIsRemoved, JobFine, JobHonest
<1>1. PICK b : /\ Go(j, b)
               /\ b = JobOver \/ (b = [job[j] EXCEPT !.step = then] /\ then # "over")
  BY DEF WriteDoc, To
<1>2. UNCHANGED <<index, vectors, accepted, removed>>
  BY DEF WriteDoc
<1>3. /\ JobFine(b, vectors) /\ b.step \notin {"indexing", "pruning", "delete"} /\ b.ids \subseteq job[j].ids
      /\ b.step = "dropping" => job[j].step = "delete" /\ b.doc = job[j].doc
  <2>1. CASE b = JobOver
    BY <2>1 DEF JobOver, NotBegun, JobFine, JobRec, JobSteps, DocRec, NoDocument, Statuses
  <2>2. CASE b = [job[j] EXCEPT !.step = then] /\ then # "over"
    <3>1. /\ b \in JobRec /\ b.doc = job[j].doc /\ b.got = job[j].got /\ b.outcome = job[j].outcome
          /\ b.step = then /\ b.ids = job[j].ids
      BY <1>0, <2>2 DEF JobRec, JobSteps
    <3>2. QED
      BY <1>0, <2>2, <3>1 DEF JobFine
  <2>3. QED
    BY <1>1, <2>1, <2>2
<1>4. CASE UNCHANGED key
  <2>1. JobFine(b, vectors') /\ (~Outages => JobHonest(b, key', removed'))
    BY <1>0, <1>2, <1>3, <1>4 DEF JobFine, JobHonest
  <2>2. QED
    BY <1>0, <1>1, <1>2, <1>4, <2>1, JobMoves
<1>5. CASE key' = [d \in Docs |-> IF d \in job[j].doc THEN e ELSE key[d]]
  <2> DEFINE ds == job[j].doc
  <2>1. ds \in SUBSET Docs
    BY <1>0 DEF JobRec
  <2>2. ~Outages /\ e = NoDocument => ds \subseteq removed
    BY <1>0 DEF JobHonest
  <2>3. ~Outages => \A d \in Docs : key'[d] = NoDocument => key[d] = NoDocument \/ d \in removed
    BY <1>5, <2>2
  <2>4. ~Outages => JobHonest(b, key', removed')
    BY <1>0, <1>2, <1>3, <2>3 DEF JobHonest
  <2> HIDE DEF ds
  <2>5. key' = [d \in Docs |-> IF d \in ds THEN e ELSE key[d]] /\ (e.status = "indexed" => ds \subseteq vectors)
    BY <1>5 DEF ds
  <2>6. QED
    BY <1>1, <1>2, <1>3, <2>1, <2>2, <2>4, <2>5, KeyMoves
<1>6. QED
  BY <1>4, <1>5 DEF WriteDoc

(* Every step keeps the invariant.                                          *)
LEMMA StoreStep == FInv /\ [StoreNext]_storeVars => FInv'
<1> SUFFICES ASSUME FInv, [StoreNext]_storeVars PROVE FInv'
  OBVIOUS
<1>0. /\ key \in [Docs -> DocRec] /\ job \in [Jobs -> JobRec] /\ index \subseteq Docs /\ accepted \subseteq Docs
      /\ \A j \in Jobs : JobFine(job[j], vectors) /\ (~Outages => JobHonest(job[j], key, removed))
  BY DEF FInv, SInv, StoreTypes, JobsSearchable, MissingIsRemoved, JobFine, JobHonest
<1>11. JobFine(JobOver, vectors) /\ JobOver.ids = {} /\ JobOver.step = "over"
  BY DEF JobOver, NotBegun, JobFine, JobRec, JobSteps, DocRec, NoDocument, Statuses
<1>1. ASSUME NEW j \in Jobs, NEW d \in Docs, Upload(j, d) PROVE FInv'
  <2>1. PICK e \in {DocEntry("none"), DocEntry("pending")} :
          /\ Go(j, [NotBegun EXCEPT !.kind = "upload", !.doc = {d}, !.step = "indexing", !.got = e])
          /\ key' = [key EXCEPT ![d] = e] /\ UNCHANGED index
    BY <1>1 DEF Upload, StoreWrite, WriteKey
  <2> DEFINE b == [NotBegun EXCEPT !.kind = "upload", !.doc = {d}, !.step = "indexing", !.got = e]
             ds == {d}
  <2>2. e \in DocRec /\ e.status # "indexed" /\ e # NoDocument
    <3>1. \A s \in {"none", "pending"} :
            /\ DocEntry(s) \in DocRec /\ DocEntry(s).status = s /\ NoDocument.status = "gone"
      BY DEF DocEntry, DocRec, Statuses, NoDocument
    <3>2. QED
      BY <3>1
  <2>3. JobFine(b, vectors) /\ b.ids = {} /\ b.step = "indexing" /\ b.doc = ds
    BY <2>2 DEF NotBegun, JobFine, JobRec, JobSteps
  <2>4. key' = [x \in Docs |-> IF x \in ds THEN e ELSE key[x]] /\ UNCHANGED <<index, vectors, accepted, removed>>
    BY <1>0, <1>1, <2>1 DEF Upload
  <2>5. Go(j, b) /\ ds \in SUBSET Docs
    BY <2>1
  <2> HIDE DEF b, ds
  <2>6. ~Outages => JobHonest(b, key', removed')
    BY <2>2, <2>3, <2>4 DEF JobHonest
  <2>7. QED
    BY <2>2, <2>3, <2>4, <2>5, <2>6, KeyMoves
<1>2. ASSUME NEW j \in Jobs, Confirm(j) PROVE FInv'
  <2>0. job[j] \in JobRec /\ job[j].step = "indexing" /\ JobFine(job[j], vectors)
    BY <1>0, <1>2 DEF Confirm, At
  <2>1. PICK d \in job[j].doc :
       \/ /\ WriteId(d) /\ accepted' = accepted \cup {d}
          /\ IF job[j].got.status = "pending"
             THEN Go(j, [job[j] EXCEPT !.kind = "ingest", !.step = "ingest"])
             ELSE Go(j, JobOver)
       \/ Outages /\ Go(j, JobOver) /\ UNCHANGED <<key, index, accepted>>
    BY <1>2 DEF Confirm, StoreWrite
  <2>2. PICK b : Go(j, b) /\ (b = JobOver \/ b = [job[j] EXCEPT !.kind = "ingest", !.step = "ingest"])
    BY <2>1
  <2>3. /\ JobFine(b, vectors)
        /\ b.step \notin {"indexing", "pruning", "delete", "dropping"} /\ b.ids \subseteq job[j].ids
    <3>1. CASE b = JobOver
      BY <1>11, <3>1
    <3>2. CASE b = [job[j] EXCEPT !.kind = "ingest", !.step = "ingest"]
      <4>1. /\ b \in JobRec /\ b.doc = job[j].doc /\ b.got = job[j].got /\ b.outcome = job[j].outcome
            /\ b.step = "ingest" /\ b.ids = job[j].ids
        BY <2>0, <3>2 DEF JobRec, JobSteps
      <4>2. QED
        BY <2>0, <4>1 DEF JobFine
    <3>3. QED
      BY <2>2, <3>1, <3>2
  <2>4. UNCHANGED <<key, vectors, removed>> /\ d \in Docs
    BY <1>2, <2>0, <2>1 DEF Confirm, WriteId, JobRec
  <2>5. JobFine(b, vectors')
    BY <2>3, <2>4 DEF JobFine
  <2>6. ~Outages => JobHonest(b, key', removed')
    BY <1>0, <2>3, <2>4 DEF JobHonest
  <2>7. /\ index' \subseteq Docs /\ accepted' \subseteq Docs
        /\ ~Outages => /\ index' = index \cup {d} /\ accepted' = accepted \cup {d}
                       /\ key[d] # NoDocument \/ d \in removed
    BY <1>0, <2>0, <2>1, <2>4 DEF WriteId, JobHonest
  <2>8. QED
    BY <2>2, <2>4, <2>5, <2>6, <2>7, JobMoves
<1>3. ASSUME NEW j \in Jobs, List(j) PROVE FInv'
  <2> DEFINE b == [NotBegun EXCEPT !.kind = "list", !.step = "listing", !.ids = index]
  <2>1. Go(j, b) /\ UNCHANGED <<key, index, vectors, accepted, removed>>
    BY <1>3 DEF List
  <2>2. JobFine(b, vectors) /\ b.ids = index /\ b.step = "listing"
    BY <1>0 DEF NotBegun, JobFine, JobRec, JobSteps, DocRec, NoDocument
  <2> HIDE DEF b
  <2>3. ~Outages => JobHonest(b, key, removed)
    BY <2>2 DEF JobHonest, FInv, MissingIsRemoved
  <2>4. JobFine(b, vectors') /\ (~Outages => JobHonest(b, key', removed'))
    BY <2>1, <2>2, <2>3 DEF JobFine, JobHonest
  <2>5. QED
    BY <1>0, <2>1, <2>4, JobMoves
<1>4. ASSUME NEW j \in Jobs, ListOne(j) PROVE FInv'
  <2>0. job[j] \in JobRec /\ JobFine(job[j], vectors) /\ job[j].step = "listing" /\ (~Outages => JobHonest(job[j], key, removed))
    BY <1>0, <1>4 DEF ListOne, At
  <2>1. UNCHANGED <<key, index, vectors, accepted, removed>>
    BY <1>4 DEF ListOne
  <2>2. PICK b : Go(j, b) /\ JobFine(b, vectors) /\ (~Outages => JobHonest(b, key, removed))
    <3>1. CASE job[j].ids = {}
      <4>1. Go(j, JobOver)
        BY <1>4, <3>1 DEF ListOne
      <4>2. JobHonest(JobOver, key, removed)
        BY <1>11 DEF JobHonest
      <4>3. QED
        BY <1>11, <4>1, <4>2
    <3>2. ASSUME NEW d \in job[j].ids, Go(j, [job[j] EXCEPT !.ids = @ \ {d}])
          PROVE  \E b : Go(j, b) /\ JobFine(b, vectors) /\ (~Outages => JobHonest(b, key, removed))
      <4> DEFINE b == [job[j] EXCEPT !.ids = @ \ {d}]
      <4>1. /\ b \in JobRec /\ b.doc = job[j].doc /\ b.got = job[j].got /\ b.outcome = job[j].outcome
            /\ b.step = job[j].step /\ b.ids = job[j].ids \ {d}
        BY <2>0 DEF JobRec
      <4> HIDE DEF b
      <4>2. JobFine(b, vectors) /\ (~Outages => JobHonest(b, key, removed))
        BY <2>0, <4>1 DEF JobFine, JobHonest
      <4>3. QED
        BY <3>2, <4>2 DEF b
    <3>3. ASSUME NEW d \in job[j].ids, key[d] = NoDocument \/ Outages,
                 Go(j, [job[j] EXCEPT !.ids = @ \ {d}, !.doc = {d}, !.step = "pruning"])
          PROVE  \E b : Go(j, b) /\ JobFine(b, vectors) /\ (~Outages => JobHonest(b, key, removed))
      <4> DEFINE b == [job[j] EXCEPT !.ids = @ \ {d}, !.doc = {d}, !.step = "pruning"]
      <4>1. /\ b \in JobRec /\ b.doc = {d} /\ b.got = job[j].got /\ b.outcome = job[j].outcome
            /\ b.step = "pruning" /\ b.ids = job[j].ids \ {d} /\ d \in Docs
        BY <2>0 DEF JobRec, JobSteps
      <4> HIDE DEF b
      <4>2. JobFine(b, vectors)
        BY <2>0, <4>1 DEF JobFine, NoDocument
      <4>3. ~Outages => JobHonest(b, key, removed)
        BY <2>0, <3>3, <4>1 DEF JobHonest
      <4>4. QED
        BY <3>3, <4>2, <4>3 DEF b
    <3>4. QED
      BY <1>4, <3>1, <3>2, <3>3 DEF ListOne
  <2>3. JobFine(b, vectors') /\ (~Outages => JobHonest(b, key', removed'))
    BY <2>1, <2>2 DEF JobFine, JobHonest
  <2>4. QED
    BY <1>0, <2>1, <2>2, <2>3, JobMoves
<1>5. ASSUME NEW j \in Jobs, Prune(j) PROVE FInv'
  <2> DEFINE b == [job[j] EXCEPT !.doc = {}, !.step = "listing"]
  <2>0. job[j] \in JobRec /\ JobFine(job[j], vectors) /\ job[j].step = "pruning" /\ (~Outages => JobHonest(job[j], key, removed))
    BY <1>0, <1>5 DEF Prune, At
  <2>1. Go(j, b) /\ UNCHANGED <<key, vectors, accepted, removed>> /\ index' \subseteq Docs
    BY <1>0, <1>5 DEF Prune
  <2>2. ~Outages => index' = index \ job[j].doc /\ job[j].doc \subseteq removed
    BY <1>5, <2>0 DEF Prune, JobHonest
  <2>3. /\ b \in JobRec /\ b.doc = {} /\ b.got = job[j].got /\ b.outcome = job[j].outcome
        /\ b.step = "listing" /\ b.ids = job[j].ids
    BY <2>0 DEF JobRec, JobSteps
  <2> HIDE DEF b
  <2>4. JobFine(b, vectors') /\ (~Outages => JobHonest(b, key', removed'))
    BY <2>0, <2>1, <2>3 DEF JobFine, JobHonest
  <2>5. QED
    BY <1>0, <2>1, <2>2, <2>4, JobMoves

<1>6. ASSUME NEW j \in Jobs, NEW d \in Docs, Hide(j, d) \/ Rescue(j, d) \/ Delete(j, d) PROVE FInv'
  <2>1. PICK k \in {"hide", "ingest", "delete"} :
          /\ Go(j, [NotBegun EXCEPT !.kind = k, !.doc = {d}, !.step = k])
          /\ UNCHANGED <<key, index, vectors, accepted>> /\ removed \subseteq removed'
          /\ k = "delete" => d \in removed'
    BY <1>6 DEF Hide, Rescue, Delete, Begin
  <2> DEFINE b == [NotBegun EXCEPT !.kind = k, !.doc = {d}, !.step = k]
  <2>2. /\ b \in JobRec /\ b.doc = {d} /\ b.got = NoDocument /\ b.outcome = "none" /\ b.step = k /\ b.ids = {}
    BY DEF NotBegun, JobRec, JobSteps, DocRec, NoDocument
  <2>3. Go(j, b)
    BY <2>1
  <2> HIDE DEF b
  <2>4. JobFine(b, vectors') /\ JobHonest(b, key', removed')
    BY <2>1, <2>2 DEF JobFine, JobHonest, NoDocument
  <2>5. QED
    BY <1>0, <2>1, <2>3, <2>4, JobMoves
<1>7. ASSUME NEW j \in Jobs, HideStep(j) PROVE FInv'
  <2>1. CASE ReadDoc(j, "hide", "hiding", "over")
    BY <2>1, ReadDocInv
  <2>2. CASE WriteDoc(j, "hiding", [job[j].got EXCEPT !.hidden = TRUE], "over")
    <3> DEFINE e == [job[j].got EXCEPT !.hidden = TRUE]
    <3>1. e \in DocRec /\ e.status = job[j].got.status /\ e # NoDocument
      BY <1>0 DEF JobFine, JobRec, DocRec, NoDocument
    <3>2. WriteDoc(j, "hiding", e, "over")
      BY <2>2
    <3>3. e.status = "indexed" => job[j].doc \subseteq vectors
      BY <1>0, <3>1 DEF JobFine
    <3> HIDE DEF e
    <3>4. QED
      BY <3>1, <3>2, <3>3, WriteDocInv
  <2>3. QED
    BY <1>7, <2>1, <2>2 DEF HideStep
<1>8. ASSUME NEW j \in Jobs, IngestStep(j) PROVE FInv'
  <2>0. job[j] \in JobRec /\ JobFine(job[j], vectors) /\ (~Outages => JobHonest(job[j], key, removed)) /\ job[j].got \in DocRec
    BY <1>0 DEF JobFine, JobRec
  <2>1. CASE \/ ReadDoc(j, "ingest", "begun", "over") \/ ReadDoc(j, "mark", "marking", "embed")
             \/ ReadDoc(j, "finish", "finishing", "over")
    BY <2>1, ReadDocInv
  <2>2. CASE At(j, "begun") /\ To(j, IF job[j].got.status = "pending" THEN "embed" ELSE "mark")
             /\ UNCHANGED <<key, index, vectors, accepted, removed>>
    <3> DEFINE s == IF job[j].got.status = "pending" THEN "embed" ELSE "mark"
               b == [job[j] EXCEPT !.step = s]
    <3>1. /\ b \in JobRec /\ b.doc = job[j].doc /\ b.got = job[j].got /\ b.outcome = job[j].outcome
          /\ b.step \in {"embed", "mark"} /\ b.ids = job[j].ids
      BY <2>0 DEF JobRec, JobSteps
    <3>2. Go(j, b)
      BY <2>2 DEF To
    <3> HIDE DEF b
    <3>3. JobFine(b, vectors') /\ (~Outages => JobHonest(b, key', removed'))
      BY <2>0, <2>2, <3>1 DEF JobFine, JobHonest
    <3>4. QED
      BY <1>0, <2>2, <3>2, <3>3, JobMoves
  <2>3. CASE WriteDoc(j, "marking", [job[j].got EXCEPT !.status = "pending"], "embed")
    <3> DEFINE e == [job[j].got EXCEPT !.status = "pending"]
    <3>1. e \in DocRec /\ e.status = "pending" /\ e # NoDocument
      BY <2>0 DEF DocRec, NoDocument, Statuses
    <3>2. WriteDoc(j, "marking", e, "embed")
      BY <2>3
    <3> HIDE DEF e
    <3>3. QED
      BY <3>1, <3>2, WriteDocInv
  <2>4. CASE Embed(j)
    <3>1. PICK ok \in BOOLEAN :
            /\ vectors' = (IF ok THEN vectors \cup job[j].doc ELSE vectors)
            /\ Go(j, [job[j] EXCEPT !.step = "finish", !.outcome = OutcomeOf(ok)])
      BY <2>4 DEF Embed
    <3> DEFINE b == [job[j] EXCEPT !.step = "finish", !.outcome = OutcomeOf(ok)]
    <3>2. /\ b \in JobRec /\ b.doc = job[j].doc /\ b.got = job[j].got /\ b.outcome = OutcomeOf(ok)
          /\ b.step = "finish" /\ b.ids = job[j].ids
      BY <2>0 DEF JobRec, JobSteps, OutcomeOf
    <3>3. Go(j, b) /\ UNCHANGED <<key, index, accepted, removed>>
      BY <2>4, <3>1 DEF Embed
    <3> HIDE DEF b
    <3>4. JobFine(b, vectors') /\ (~Outages => JobHonest(b, key', removed'))
      BY <2>0, <3>1, <3>2, <3>3 DEF JobFine, JobHonest, OutcomeOf
    <3>5. QED
      BY <1>0, <3>1, <3>3, <3>4, JobMoves
  <2>5. CASE WriteDoc(j, "finishing", [job[j].got EXCEPT !.status = job[j].outcome], "over")
    <3> DEFINE e == [job[j].got EXCEPT !.status = job[j].outcome]
    <3>1. e \in DocRec /\ e.status = job[j].outcome /\ e # NoDocument
      BY <2>0 DEF JobRec, DocRec, NoDocument, Statuses
    <3>2. WriteDoc(j, "finishing", e, "over")
      BY <2>5
    <3>3. e.status = "indexed" => job[j].doc \subseteq vectors
      BY <2>0, <3>1 DEF JobFine
    <3> HIDE DEF e
    <3>4. QED
      BY <3>1, <3>2, <3>3, WriteDocInv
  <2>6. QED
    BY <1>8, <2>1, <2>2, <2>3, <2>4, <2>5 DEF IngestStep
<1>9. ASSUME NEW j \in Jobs, DeleteStep(j) PROVE FInv'
  <2>1. CASE WriteDoc(j, "delete", NoDocument, "dropping")
    <3>1. NoDocument \in DocRec /\ NoDocument.status # "indexed"
      BY DEF NoDocument, DocRec
    <3>2. job[j].step = "delete"
      BY <2>1 DEF WriteDoc, At
    <3>3. QED
      BY <2>1, <3>1, <3>2, WriteDocInv
  <2>2. CASE At(j, "dropping") /\ Go(j, JobOver) /\ (index' = index \ job[j].doc \/ (Outages /\ UNCHANGED index))
    <3>1. UNCHANGED <<key, vectors, accepted, removed>> /\ index' \subseteq index
      BY <1>9, <2>1, <2>2 DEF DeleteStep, WriteDoc, At
    <3>2. ~Outages => index \ index' \subseteq removed
      BY <1>0, <2>2 DEF JobHonest, At
    <3>3. JobFine(JobOver, vectors') /\ JobHonest(JobOver, key', removed')
      BY <1>11, <3>1 DEF JobFine, JobHonest
    <3>4. QED
      BY <1>0, <2>2, <3>1, <3>2, <3>3, JobMoves
  <2>3. QED
    BY <1>9, <2>1, <2>2 DEF DeleteStep
<1>10. CASE UNCHANGED storeVars
  <2>1. key' = key /\ index' = index /\ vectors' = vectors /\ job' = job /\ accepted' = accepted /\ removed' = removed
    BY <1>10 DEF storeVars
  <2>2. QED
    BY <2>1 DEF FInv, SInv, StoreTypes, JobsSearchable, Searchable, MissingIsRemoved
<1> QED
  BY <1>1, <1>2, <1>3, <1>4, <1>5, <1>6, <1>7, <1>8, <1>9, <1>10 DEF StoreNext, JobStart, JobStep

(* The inductive invariant of the documents holds in every state.           *)
THEOREM StoreInvariant == StoreSpec => []FInv
BY StoreInitInv, StoreStep, PTL DEF StoreSpec

(* With outages or without: a document that says "indexed" has its vectors   *)
(* (documents.server.ts writes the vectors first).                          *)
THEOREM SearchableAlways == StoreSpec => []Searchable
<1>1. FInv => Searchable
  BY DEF FInv, SInv
<1> QED
  BY <1>1, StoreInvariant, PTL

(* Findable, where the key store answers: moreover a document that was        *)
(* accepted stays in the index of its session until it is deleted.          *)
THEOREM DocumentsFindable == ASSUME ~Outages PROVE StoreSpec => []Findable
<1>1. FInv => Findable
  <2>1. FInv => NotPruned
    BY DEF FInv, MissingIsRemoved, NotPruned
  <2>2. QED
    BY <2>1 DEF FInv, SInv, Searchable, Findable
<1> QED
  BY <1>1, StoreInvariant, PTL

-----------------------------------------------------------------------------
(* Routines, for any routines, ticks and sign-ins.  The argument: a claim    *)
(* compares the last run, so it replaces the newest stamp of its schedule by *)
(* one at least an interval later; a rollback finds its own stamp only if    *)
(* none was made since, so what it puts back is the newest again.            *)

(* The smallest of some numbers is one of them.                              *)
LEMMA MinNat == ASSUME NEW S, S \subseteq Nat, S # {} PROVE Min(S) \in S
<1> DEFINE R == OpToRel(<, Nat)
<1>1. IsWellFoundedOn(R, Nat)
  BY NatLessThanWellFounded
<1>2. \A x, y \in Nat : x < y => <<x, y>> \in R
  BY DEF OpToRel
<1> HIDE DEF R
<1>3. PICK x \in S : \A y \in S : <<y, x>> \notin R
  BY <1>1, WFMin
<1>4. \A y \in S : x <= y
  <2>1. \A y \in S : ~(y < x)
    BY <1>2, <1>3, Zenon
  <2>2. QED
    BY <2>1
<1>5. QED
  BY <1>4 DEF Min

(* Rows and firers as records.                                               *)
RunTimes == Nat \cup {Never}
RowRec  == [kind : Kinds \cup {"none", "deleted"}, enabled : BOOLEAN, last : RunTimes, since : Nat, from : Nat]
FireRec == [step : {"idle", "walk", "seed", "rollback"}, todo : SUBSET Routines,
            seen : [Routines -> RunTimes], claim : RunTimes, from : Nat]

(* Types; a firer is idle when its list is empty, and what is enabled exists.*)
RTypes ==
  /\ clock \in Nat /\ rows \in [Routines -> RowRec] /\ firers \in [Firers -> FireRec]
  /\ \A f \in Firers : firers[f].step = "idle" <=> firers[f].todo = {}
  /\ \A r \in Routines : rows[r].enabled => Exists(r)

(* A firer that has made a claim whose run is still to start or to be given up.  *)
Claims(f) == firers[f].step \in {"seed", "rollback"}

(* A run of the row under its schedule of time F; a claim to become one.     *)
RanAt(r, n, F) == \E e \in runs : e.routine = r /\ e.from = F /\ e.result = "ran" /\ e.stamp = n
HeldBy(f, r, n, F) == Claims(f) /\ Current(f) = r /\ firers[f].from = F /\ firers[f].claim = n

(* Last runs are in the past, and no older than the row's schedule.          *)
RowsPast ==
  \A r \in Routines :
    /\ rows[r].last <= clock
    /\ Exists(r) => rows[r].from < clock
    /\ rows[r].last # Never => rows[r].from < rows[r].last

RunsPast ==
  \A e \in runs : /\ e.routine \in Routines /\ e.stamp \in Nat /\ e.from \in Nat
                  /\ e.stamp <= clock /\ e.from < clock

(* A listed row was due: its last run lies an interval back, or, since a     *)
(* sign-in takes time, at least a unit.                                      *)
Gap(f) == IF f \in Ticks THEN Interval ELSE 1
ListsPast ==
  \A f \in Firers : \A r \in firers[f].todo :
    firers[f].seen[r] # Never => firers[f].seen[r] + Gap(f) <= clock

(* A claim is newer than what it replaced and no newer than a later schedule.*)
ClaimsPast ==
  \A f \in Firers : Claims(f) =>
    /\ firers[f].claim \in Nat /\ firers[f].claim <= clock /\ firers[f].from < clock
    /\ firers[f].seen[Current(f)] < firers[f].claim
    /\ firers[f].seen[Current(f)] # Never => firers[f].from < firers[f].seen[Current(f)]
    /\ Exists(Current(f)) /\ firers[f].from # rows[Current(f)].from
         => firers[f].claim <= rows[Current(f)].from

StampsPast == RowsPast /\ RunsPast /\ ListsPast /\ ClaimsPast

(* The column bears the newest claim made under the present schedule.            *)
NewestStays ==
  \A r \in Routines, n \in Nat :
    /\ Exists(r) /\ (RanAt(r, n, rows[r].from) \/ \E f \in Firers : HeldBy(f, r, n, rows[r].from))
    => n <= rows[r].last

(* Between what a claim replaced and the claim itself there is no other.         *)
NothingBetween ==
  \A f \in Firers, n \in Nat :
    /\ Claims(f)
    /\ \/ RanAt(Current(f), n, firers[f].from)
       \/ \E g \in Firers \ {f} : HeldBy(g, Current(f), n, firers[f].from)
    => n <= firers[f].seen[Current(f)] \/ n > firers[f].claim

(* A run that a tick started.                                                *)
TickRanAt(r, n, F) ==
  \E e \in runs : e.routine = r /\ e.from = F /\ e.result = "ran" /\ e.by = "tick" /\ e.stamp = n

(* So ticks that run, or are about to, are an interval apart.                    *)
TicksSpaced ==
  \A f \in Ticks, n \in Nat :
    /\ firers[f].step = "seed"
    /\ \/ TickRanAt(Current(f), n, firers[f].from)
       \/ \E g \in Ticks \ {f} : HeldBy(g, Current(f), n, firers[f].from) /\ firers[g].step = "seed"
    => n + Interval <= firers[f].claim \/ firers[f].claim + Interval <= n

(* The inductive invariant.                                                  *)
RoutineInv == RTypes /\ StampsPast /\ NewestStays /\ NothingBetween /\ TicksSpaced /\ RunsSpaced

-----------------------------------------------------------------------------
(* The next row of a firer under way is one of its list.                     *)
LEMMA CurrentListed ==
  ASSUME RTypes, NEW f \in Firers, firers[f].step # "idle"
  PROVE  Current(f) \in firers[f].todo /\ Current(f) \in Routines
<1>1. firers[f] \in FireRec
  BY DEF RTypes
<1>2. firers[f].todo \subseteq Routines /\ firers[f].todo # {}
  BY <1>1 DEF RTypes, FireRec
<1>3. firers[f].todo \subseteq Nat
  BY <1>2, RoutinesAssumption
<1>4. QED
  BY <1>2, <1>3, MinNat DEF Current

(* What a firer is after it has dealt with a row.                            *)
LEMMA DroppedIs ==
  ASSUME RTypes, NEW f \in Firers, firers[f].step # "idle"
  PROVE  /\ Dropped(f) \in FireRec
         /\ Dropped(f).step \in {"idle", "walk"}
         /\ Dropped(f).step = "idle" <=> Dropped(f).todo = {}
         /\ \A r \in Dropped(f).todo : r \in firers[f].todo /\ Dropped(f).seen[r] = firers[f].seen[r]
<1>1. firers[f] \in FireRec
  BY DEF RTypes
<1>2. firers[f].todo \subseteq Routines /\ firers[f].seen \in [Routines -> RunTimes]
  BY <1>1 DEF FireRec
<1>3. Current(f) \in firers[f].todo /\ Current(f) \in Routines
  BY CurrentListed
<1>4. CASE firers[f].todo = {Current(f)}
  <2>1. Dropped(f) = Idle
    BY <1>4 DEF Dropped
  <2>2. QED
    BY <2>1 DEF Idle, FireRec, RunTimes, Never
<1>5. CASE firers[f].todo # {Current(f)}
  <2> DEFINE c == Current(f)
             s == [firers[f].seen EXCEPT ![c] = Never]
             d == [firers[f] EXCEPT !.step = "walk", !.todo = firers[f].todo \ {c},
                                    !.seen = s, !.claim = Never, !.from = 0]
  <2>1. Dropped(f) = d
    BY <1>5 DEF Dropped
  <2>2. s \in [Routines -> RunTimes] /\ \A r \in Routines \ {c} : s[r] = firers[f].seen[r]
    BY <1>2, <1>3 DEF RunTimes, Never
  <2>3. c \in firers[f].todo /\ firers[f].todo # {c}
    BY <1>3, <1>5
  <2> HIDE DEF s, c
  <2>4. /\ d \in FireRec /\ d.step = "walk" /\ d.todo = firers[f].todo \ {c} /\ d.seen = s
    BY <1>1, <2>2 DEF FireRec, RunTimes, Never
  <2>5. d.todo # {}
    BY <2>3, <2>4
  <2> HIDE DEF d
  <2>6. QED
    BY <1>2, <2>1, <2>2, <2>4, <2>5
<1>6. QED
  BY <1>4, <1>5

-----------------------------------------------------------------------------
(* The initial states satisfy the invariant.                                 *)
LEMMA RoutineInitInv == RoutinesInit => RoutineInv
<1> SUFFICES ASSUME RoutinesInit PROVE RoutineInv
  OBVIOUS
<1>1. RTypes
  BY DEF RoutinesInit, RTypes, NoRow, Idle, Exists, Kinds, RowRec, FireRec, RunTimes, Never
<1>2. \A f \in Firers : ~Claims(f) /\ firers[f].step = "idle" /\ firers[f].todo = {}
  BY DEF RoutinesInit, Claims, Idle
<1>3. runs = {} /\ \A r \in Routines : ~Exists(r) /\ rows[r].last = Never
  BY DEF RoutinesInit, Exists, NoRow, Kinds
<1>4. StampsPast
  BY <1>2, <1>3 DEF StampsPast, RowsPast, RunsPast, ListsPast, ClaimsPast, RoutinesInit, Never
<1>5. QED
  BY <1>1, <1>2, <1>3, <1>4 DEF RoutineInv, NewestStays, NothingBetween, TicksSpaced, RunsSpaced, Firers

(* Later, what is in the past still is.                                      *)
LEMMA StampsStayPast ==
  ASSUME RTypes, StampsPast, clock' \in Nat, clock <= clock'
  PROVE  /\ runs' = runs => RunsPast'
         /\ rows' = rows => RowsPast'
         /\ firers' = firers => ListsPast'
         /\ rows' = rows /\ firers' = firers => ClaimsPast'
<1>1. clock \in Nat /\ (\A r \in Routines : rows[r] \in RowRec) /\ \A f \in Firers : firers[f] \in FireRec
  BY DEF RTypes
<1>2. ASSUME runs' = runs PROVE RunsPast'
  BY <1>1, <1>2 DEF StampsPast, RunsPast
<1>3. ASSUME rows' = rows PROVE RowsPast'
  <2> SUFFICES ASSUME NEW r \in Routines
               PROVE  /\ rows[r].last <= clock'
                      /\ Exists(r) => rows[r].from < clock'
                      /\ rows[r].last # Never => rows[r].from < rows[r].last
    BY <1>3 DEF RowsPast, Exists
  <2>1. rows[r].last \in RunTimes /\ rows[r].from \in Nat
    BY <1>1 DEF RowRec
  <2>2. QED
    BY <1>1, <2>1 DEF StampsPast, RowsPast, RunTimes, Never
<1>4. \A f \in Firers : Gap(f) \in Nat \ {0}
  BY RoutinesAssumption DEF Gap
<1>5. ASSUME firers' = firers PROVE ListsPast'
  <2> SUFFICES ASSUME NEW f \in Firers, NEW r \in firers[f].todo, firers[f].seen[r] # Never
               PROVE  firers[f].seen[r] + Gap(f) <= clock'
    BY <1>5 DEF ListsPast, Gap
  <2>1. firers[f].seen \in [Routines -> RunTimes] /\ r \in Routines
    BY <1>1 DEF FireRec
  <2>2. firers[f].seen[r] \in RunTimes
    BY <2>1
  <2>3. firers[f].seen[r] + Gap(f) <= clock
    BY DEF StampsPast, ListsPast
  <2>4. QED
    BY <1>1, <1>4, <2>2, <2>3 DEF RunTimes, Never
<1>6. ASSUME rows' = rows, firers' = firers PROVE ClaimsPast'
  <2> SUFFICES ASSUME NEW f \in Firers, Claims(f)
               PROVE  firers[f].claim <= clock' /\ firers[f].from < clock'
    BY <1>6 DEF StampsPast, ClaimsPast, Claims, Current, Exists
  <2>1. firers[f].claim \in RunTimes /\ firers[f].from \in Nat
    BY <1>1 DEF FireRec
  <2>2. QED
    BY <1>1, <2>1 DEF StampsPast, ClaimsPast, RunTimes, Never
<1>7. QED
  BY <1>2, <1>3, <1>5, <1>6

(* Time passes, and nothing else.                                            *)
LEMMA AdvanceKeeps == RoutineInv /\ Advance => RoutineInv'
<1> SUFFICES ASSUME RoutineInv, Advance PROVE RoutineInv'
  OBVIOUS
<1>1. clock \in Nat /\ clock' = clock + 1 /\ UNCHANGED <<rows, firers, runs>>
  BY DEF RoutineInv, RTypes, Advance, TakesTime
<1>2. RTypes'
  BY <1>1 DEF RoutineInv, RTypes, Exists
<1>3. StampsPast'
  BY <1>1, StampsStayPast DEF RoutineInv, StampsPast
<1>4. (NewestStays /\ NothingBetween /\ TicksSpaced /\ RunsSpaced)'
  BY <1>1 DEF RoutineInv, NewestStays, NothingBetween, TicksSpaced, RunsSpaced,
              RanAt, TickRanAt, HeldBy, Claims, Current, Exists
<1>5. QED
  BY <1>2, <1>3, <1>4 DEF RoutineInv

(* The row a request writes: it is off, or its schedule is as it was, or its *)
(* schedule is new and has no run yet.                                       *)
RequestRow(r, row) ==
  /\ row \in RowRec /\ (row.enabled => row.kind \in Kinds)
  /\ \/ row.kind = "deleted" /\ row.last = Never
     \/ row.last = Never /\ row.from = clock
     \/ Exists(r) /\ row.last = rows[r].last /\ row.from = rows[r].from

(* A request keeps the invariant.                                            *)
LEMMA RequestKeeps ==
  ASSUME RoutineInv, NEW r \in Routines, NEW row, Request(r, row), RequestRow(r, row)
  PROVE  RoutineInv'
<1>1. /\ clock \in Nat /\ clock' = clock + 1 /\ UNCHANGED <<firers, runs>>
      /\ rows' = [rows EXCEPT ![r] = row] /\ rows \in [Routines -> RowRec] /\ row \in RowRec
      /\ \A q \in Routines : rows[q] \in RowRec
      /\ \A f \in Firers : firers[f] \in FireRec
  BY DEF RoutineInv, RTypes, Request, TakesTime, RequestRow
<1>2. rows'[r] = row /\ \A q \in Routines : q # r => rows'[q] = rows[q]
  BY <1>1
<1>3. RTypes'
  <2>1. rows' \in [Routines -> RowRec]
    BY <1>1
  <2>2. \A q \in Routines : rows'[q].enabled => rows'[q].kind \in Kinds
    BY <1>2 DEF RoutineInv, RTypes, Exists, RequestRow
  <2>3. QED
    BY <1>1, <2>1, <2>2 DEF RoutineInv, RTypes, Exists
<1>4. RowsPast' /\ ListsPast' /\ RunsPast'
  <2>1. ListsPast' /\ RunsPast'
    BY <1>1, StampsStayPast DEF RoutineInv
  <2>2. ASSUME NEW q \in Routines
        PROVE  /\ rows'[q].last <= clock'
               /\ rows'[q].kind \in Kinds => rows'[q].from < clock'
               /\ rows'[q].last # Never => rows'[q].from < rows'[q].last
    <3>1. /\ rows[q].last \in RunTimes /\ rows[q].from \in Nat
          /\ row.last \in RunTimes /\ row.from \in Nat
      BY <1>1 DEF RowRec
    <3>2. /\ rows[q].last <= clock /\ (rows[q].kind \in Kinds => rows[q].from < clock)
          /\ rows[q].last # Never => rows[q].from < rows[q].last
      BY DEF RoutineInv, StampsPast, RowsPast, Exists
    <3>3. "deleted" \notin Kinds
      BY DEF Kinds
    <3>4. CASE q = r
      BY <1>1, <1>2, <3>1, <3>2, <3>3, <3>4 DEF RequestRow, RunTimes, Never, Exists
    <3>5. CASE q # r
      BY <1>1, <1>2, <3>1, <3>2, <3>5 DEF RunTimes, Never
    <3>6. QED
      BY <3>4, <3>5
  <2>3. QED
    BY <2>1, <2>2 DEF RowsPast, Exists
<1>5. ClaimsPast'
  <2> SUFFICES ASSUME NEW f \in Firers, Claims(f)
               PROVE  /\ firers[f].claim <= clock' /\ firers[f].from < clock'
                      /\ rows'[Current(f)].kind \in Kinds /\ firers[f].from # rows'[Current(f)].from
                           => firers[f].claim <= rows'[Current(f)].from
    BY <1>1 DEF RoutineInv, StampsPast, ClaimsPast, Claims, Current, Exists
  <2>1. firers[f].claim \in Nat /\ firers[f].from \in Nat /\ Current(f) \in Routines
    BY <1>1, CurrentListed DEF FireRec, RoutineInv, StampsPast, ClaimsPast, Claims
  <2>2. /\ firers[f].claim <= clock /\ firers[f].from < clock
        /\ rows[Current(f)].kind \in Kinds /\ firers[f].from # rows[Current(f)].from
             => firers[f].claim <= rows[Current(f)].from
    BY DEF RoutineInv, StampsPast, ClaimsPast, Exists
  <2>3. CASE Current(f) = r
    BY <1>1, <1>2, <2>1, <2>2, <2>3 DEF RequestRow, Kinds, Exists
  <2>4. CASE Current(f) # r
    BY <1>1, <1>2, <2>1, <2>2, <2>4
  <2>5. QED
    BY <2>3, <2>4
<1>6. NewestStays'
  <2> SUFFICES ASSUME NEW q \in Routines, NEW n \in Nat, rows'[q].kind \in Kinds,
                      \/ RanAt(q, n, rows'[q].from)
                      \/ \E f \in Firers : HeldBy(f, q, n, rows'[q].from)
               PROVE  n <= rows'[q].last
    BY <1>1 DEF NewestStays, Exists, RanAt, TickRanAt, HeldBy, Claims, Current
  <2>1. rows'[q].from < clock
    BY DEF RoutineInv, StampsPast, RunsPast, ClaimsPast, RanAt, HeldBy
  <2>2. rows'[q].last = rows[q].last /\ rows'[q].from = rows[q].from /\ Exists(q)
    BY <1>1, <1>2, <2>1 DEF RequestRow, Exists, Kinds
  <2>3. QED
    BY <2>2 DEF RoutineInv, NewestStays
<1>7. (NothingBetween /\ TicksSpaced /\ RunsSpaced)'
  BY <1>1 DEF RoutineInv, NothingBetween, TicksSpaced, RunsSpaced, RanAt, TickRanAt, HeldBy, Claims, Current
<1>8. QED
  BY <1>3, <1>4, <1>5, <1>6, <1>7 DEF RoutineInv, StampsPast

(* Requests of the routines API keep the invariant.                          *)
LEMMA RequestsKeep ==
  ASSUME RoutineInv, NEW r \in Routines, CreateRoutine(r) \/ EditRoutine(r) \/ DeleteRoutine(r)
  PROVE  RoutineInv'
<1>1. clock \in Nat /\ rows[r] \in RowRec /\ (rows[r].enabled => Exists(r))
  BY DEF RoutineInv, RTypes
<1>2. NoRow \in RowRec /\ NoRow.last = Never /\ ~NoRow.enabled
  BY DEF NoRow, RowRec, RunTimes, Never
<1>3. CASE CreateRoutine(r)
  <2>1. PICK k \in Kinds, on \in BOOLEAN :
          Request(r, [NoRow EXCEPT !.kind = k, !.enabled = on, !.since = clock, !.from = clock])
    BY <1>3 DEF CreateRoutine
  <2> DEFINE row == [NoRow EXCEPT !.kind = k, !.enabled = on, !.since = clock, !.from = clock]
  <2>2. row \in RowRec /\ row.kind = k /\ row.last = Never /\ row.from = clock
    BY <1>1, <1>2 DEF NoRow, RowRec, RunTimes, Never
  <2> HIDE DEF row
  <2>3. RequestRow(r, row)
    BY <2>2 DEF RequestRow
  <2>4. QED
    BY <2>1, <2>3, RequestKeeps DEF row
<1>4. CASE EditRoutine(r)
  <2> DEFINE flip == [rows[r] EXCEPT !.enabled = ~rows[r].enabled]
             new(k) == [rows[r] EXCEPT !.kind = k, !.last = Never, !.from = clock]
  <2>1. Exists(r) /\ (Request(r, flip) \/ \E k \in Kinds : Request(r, new(k)))
    BY <1>4 DEF EditRoutine
  <2>2. flip \in RowRec /\ flip.kind = rows[r].kind /\ flip.last = rows[r].last /\ flip.from = rows[r].from
    BY <1>1 DEF RowRec
  <2>3. \A k \in Kinds : new(k) \in RowRec /\ new(k).kind = k /\ new(k).last = Never /\ new(k).from = clock
    BY <1>1 DEF RowRec, RunTimes, Never
  <2> HIDE DEF flip, new
  <2>4. RequestRow(r, flip) /\ \A k \in Kinds : RequestRow(r, new(k))
    BY <2>1, <2>2, <2>3 DEF RequestRow, Exists
  <2>5. QED
    BY <2>1, <2>4, RequestKeeps
<1>5. CASE DeleteRoutine(r)
  <2> DEFINE row == [NoRow EXCEPT !.kind = "deleted"]
  <2>1. row \in RowRec /\ row.kind = "deleted" /\ row.last = Never /\ ~row.enabled
    BY <1>2 DEF RowRec, NoRow, Never, RunTimes
  <2> HIDE DEF row
  <2>2. RequestRow(r, row)
    BY <2>1 DEF RequestRow
  <2>3. QED
    BY <1>5, <2>2, RequestKeeps DEF DeleteRoutine, row
<1>6. QED
  BY <1>3, <1>4, <1>5

(* What a firer may leave of the claim it had: nothing, or an entry of runs. *)
LeavesOf(f) ==
  \/ runs' = runs
  \/ /\ Claims(f)
     /\ \E e : /\ runs' = runs \cup {e}
               /\ e.routine = Current(f) /\ e.stamp = firers[f].claim /\ e.from = firers[f].from
               /\ \/ e.result = "lost"
                  \/ /\ e.result = "ran" /\ firers[f].step = "seed"
                     /\ e.by = "tick" => f \in Ticks

(* A firer that goes on, without a claim now, keeps the invariant: what it   *)
(* lists is due, and the run it leaves, if any, bears the claim it had.      *)
LEMMA GoingOnKeeps ==
  ASSUME RoutineInv, NEW f \in Firers, NEW s \in FireRec,
         s.step \in {"idle", "walk"}, s.step = "idle" <=> s.todo = {},
         \A r \in s.todo : s.seen[r] # Never => s.seen[r] + Gap(f) <= clock',
         firers' = [firers EXCEPT ![f] = s], rows' = rows,
         clock' \in Nat, clock <= clock', LeavesOf(f)
  PROVE  RoutineInv'
<1>1. /\ clock \in Nat /\ rows \in [Routines -> RowRec] /\ firers \in [Firers -> FireRec]
      /\ \A g \in Firers : firers[g] \in FireRec
      /\ \A g \in Firers : firers[g].step = "idle" <=> firers[g].todo = {}
      /\ \A r \in Routines : rows[r].enabled => Exists(r)
  BY DEF RoutineInv, RTypes
<1>2. firers'[f] = s /\ \A g \in Firers \ {f} : firers'[g] = firers[g]
  BY <1>1
<1>3. RTypes'
  BY <1>1, <1>2 DEF RTypes, Exists
<1>4. ~Claims(f)' /\ \A g \in Firers \ {f} : (Claims(g)' <=> Claims(g)) /\ Current(g)' = Current(g)
  BY <1>2 DEF Claims, Current
<1>5. \A q, n, F : /\ ~HeldBy(f, q, n, F)'
                   /\ \A g \in Firers \ {f} : (HeldBy(g, q, n, F)' <=> HeldBy(g, q, n, F))
  BY <1>2, <1>4 DEF HeldBy
<1>6. \A q, n, F : /\ RanAt(q, n, F)' => RanAt(q, n, F) \/ HeldBy(f, q, n, F)
                   /\ TickRanAt(q, n, F)' =>
                        \/ TickRanAt(q, n, F)
                        \/ HeldBy(f, q, n, F) /\ firers[f].step = "seed" /\ f \in Ticks
  BY DEF RanAt, TickRanAt, HeldBy, LeavesOf
<1>7. StampsPast'
  <2>1. RowsPast'
    BY <1>1, StampsStayPast DEF RoutineInv
  <2>2. RunsPast'
    <3>1. ASSUME NEW e \in runs' PROVE \/ e \in runs
                                              \/ /\ Claims(f) /\ e.stamp = firers[f].claim
                                                 /\ e.routine = Current(f) /\ e.from = firers[f].from
      BY DEF LeavesOf
    <3>2. ASSUME NEW e \in runs
          PROVE  /\ e.routine \in Routines /\ e.stamp \in Nat /\ e.from \in Nat
                 /\ e.stamp <= clock' /\ e.from < clock'
      BY <1>1 DEF RoutineInv, StampsPast, RunsPast
    <3>3. ASSUME Claims(f)
          PROVE  /\ Current(f) \in Routines /\ firers[f].claim \in Nat /\ firers[f].from \in Nat
                 /\ firers[f].claim <= clock' /\ firers[f].from < clock'
      <4>1. firers[f].from \in Nat
        BY <1>1 DEF FireRec
      <4>2. firers[f].claim \in Nat /\ firers[f].claim <= clock /\ firers[f].from < clock
        BY <3>3 DEF RoutineInv, StampsPast, ClaimsPast
      <4>3. Current(f) \in Routines
        BY <3>3, CurrentListed DEF RoutineInv, Claims
      <4>4. QED
        BY <1>1, <4>1, <4>2, <4>3
    <3>4. QED
      BY <3>1, <3>2, <3>3 DEF RunsPast
  <2>3. ListsPast'
    <3> SUFFICES ASSUME NEW g \in Firers, NEW r \in firers'[g].todo, firers'[g].seen[r] # Never
                 PROVE  firers'[g].seen[r] + Gap(g) <= clock'
      BY DEF ListsPast, Gap
    <3>1. CASE g = f
      BY <1>2, <3>1
    <3>2. CASE g # f
      <4>1. firers[g].seen \in [Routines -> RunTimes] /\ r \in Routines
        BY <1>1, <1>2, <3>2 DEF FireRec
      <4>2. firers[g].seen[r] \in RunTimes /\ Gap(g) \in Nat
        BY <4>1, RoutinesAssumption DEF Gap
      <4>3. firers[g].seen[r] + Gap(g) <= clock
        BY <1>2, <3>2 DEF RoutineInv, StampsPast, ListsPast
      <4>4. QED
        BY <1>1, <1>2, <3>2, <4>2, <4>3 DEF RunTimes, Never
    <3>3. QED
      BY <3>1, <3>2
  <2>4. ClaimsPast'
    <3> SUFFICES ASSUME NEW g \in Firers \ {f}, Claims(g)
                 PROVE  firers[g].claim <= clock' /\ firers[g].from < clock'
      BY <1>1, <1>2, <1>4 DEF RoutineInv, StampsPast, ClaimsPast, Exists
    <3>1. firers[g].claim \in RunTimes /\ firers[g].from \in Nat
      BY <1>1 DEF FireRec
    <3>2. QED
      BY <1>1, <3>1 DEF RoutineInv, StampsPast, ClaimsPast, RunTimes, Never
  <2>5. QED
    BY <2>1, <2>2, <2>3, <2>4 DEF StampsPast
<1>8. NewestStays'
  <2> SUFFICES ASSUME NEW q \in Routines, NEW n \in Nat, NEW F, Exists(q), F = rows[q].from,
                      RanAt(q, n, F)' \/ \E g \in Firers : HeldBy(g, q, n, F)'
               PROVE  n <= rows[q].last
    BY DEF NewestStays, Exists, RanAt, HeldBy, Claims, Current
  <2>1. RanAt(q, n, F) \/ \E g \in Firers : HeldBy(g, q, n, F)
    BY <1>5, <1>6
  <2>2. QED
    BY <2>1 DEF RoutineInv, NewestStays
<1>9. NothingBetween'
  <2> SUFFICES ASSUME NEW h \in Firers \ {f}, NEW n \in Nat, NEW c, NEW F,
                      Claims(h), c = Current(h), F = firers[h].from,
                      RanAt(c, n, F)' \/ \E g \in Firers \ {h} : HeldBy(g, c, n, F)'
               PROVE  n <= firers[h].seen[c] \/ n > firers[h].claim
    BY <1>2, <1>4 DEF NothingBetween, Claims, Current, RanAt, HeldBy
  <2>1. RanAt(c, n, F) \/ \E g \in Firers \ {h} : HeldBy(g, c, n, F)
    BY <1>5, <1>6
  <2>2. QED
    BY <2>1 DEF RoutineInv, NothingBetween
<1>10. TicksSpaced'
  <2> SUFFICES ASSUME NEW h \in Ticks \ {f}, NEW n \in Nat, NEW c, NEW F,
                      firers[h].step = "seed", c = Current(h), F = firers[h].from,
                      \/ TickRanAt(c, n, F)'
                      \/ \E g \in Ticks \ {h} : HeldBy(g, c, n, F)' /\ firers'[g].step = "seed"
               PROVE  n + Interval <= firers[h].claim \/ firers[h].claim + Interval <= n
    <3>1. \A x \in Ticks : x \in Firers
      BY DEF Firers
    <3>2. QED
      BY <1>2, <1>4, <3>1 DEF TicksSpaced, Claims, Current, TickRanAt, HeldBy
  <2>1. h \in Firers /\ Ticks \subseteq Firers
    BY DEF Firers
  <2>2. TickRanAt(c, n, F) \/ \E g \in Ticks \ {h} : HeldBy(g, c, n, F) /\ firers[g].step = "seed"
    BY <1>2, <1>5, <1>6, <2>1
  <2>3. QED
    BY <2>2 DEF RoutineInv, TicksSpaced
<1>11. RunsSpaced'
  <2> DEFINE tickRun(e) == e.result = "ran" /\ e.by = "tick"
  <2> SUFFICES ASSUME NEW d \in runs', NEW e \in runs', d.routine = e.routine, d.from = e.from,
                      tickRun(d), tickRun(e), d.stamp <= e.stamp, d # e
               PROVE  e.stamp >= d.stamp + Interval
    BY DEF RunsSpaced
  <2>1. CASE d \in runs /\ e \in runs
    BY <2>1 DEF RoutineInv, RunsSpaced
  <2>2. ASSUME ~(d \in runs /\ e \in runs)
        PROVE  \E x \in {d, e}, y \in {d, e} \cap runs :
                 /\ x # y /\ x.stamp = firers[f].claim /\ firers[f].step = "seed" /\ f \in Ticks
                 /\ TickRanAt(Current(f), y.stamp, firers[f].from)
    <3>1. PICK x : /\ runs' = runs \cup {x} /\ x.routine = Current(f)
                   /\ x.stamp = firers[f].claim /\ x.from = firers[f].from
                   /\ \/ x.result = "lost"
                      \/ x.result = "ran" /\ firers[f].step = "seed" /\ (x.by = "tick" => f \in Ticks)
      BY <2>2 DEF LeavesOf
    <3>2. QED
      BY <2>2, <3>1 DEF TickRanAt
  <2>3. CASE ~(d \in runs /\ e \in runs)
    <3>1. PICK x \in {d, e}, y \in {d, e} \cap runs :
                 /\ x # y /\ x.stamp = firers[f].claim /\ firers[f].step = "seed" /\ f \in Ticks
                 /\ TickRanAt(Current(f), y.stamp, firers[f].from)
      BY <2>2, <2>3
    <3>2. y.stamp \in Nat /\ firers[f].claim \in Nat
      BY <3>1 DEF RoutineInv, StampsPast, RunsPast, ClaimsPast, Claims
    <3>3. y.stamp + Interval <= x.stamp \/ x.stamp + Interval <= y.stamp
      BY <3>1, <3>2 DEF RoutineInv, TicksSpaced
    <3>4. QED
      BY <3>1, <3>2, <3>3, RoutinesAssumption
  <2>4. QED
    BY <2>1, <2>3
<1>12. QED
  BY <1>3, <1>7, <1>8, <1>9, <1>10, <1>11 DEF RoutineInv

(* A tick lists rows whose interval has passed, a sign-in rows whose last    *)
(* run lies before it.                                                       *)
LEMMA ListingKeeps ==
  ASSUME RoutineInv, NEW f \in Firers, Tick(f) \/ SignIn(f)
  PROVE  RoutineInv'
<1>1. clock \in Nat /\ \A r \in Routines : rows[r] \in RowRec
  BY DEF RoutineInv, RTypes
<1>2. PICK todo \in SUBSET Routines :
        /\ Walk(f, todo)
        /\ \/ f \in Ticks /\ clock' = clock /\ \A r \in todo : IsDue(rows[r], clock)
           \/ f \notin Ticks /\ clock' = clock + 1
  <2>1. Enabled \subseteq Routines
    BY DEF Enabled
  <2>2. CASE Tick(f)
    <3> DEFINE due == {r \in Enabled : IsDue(rows[r], clock)}
    <3>1. f \in Ticks /\ clock' = clock /\ Walk(f, due) /\ due \subseteq Routines
      BY <2>1, <2>2 DEF Tick
    <3>2. \A r \in due : IsDue(rows[r], clock)
      OBVIOUS
    <3> HIDE DEF due
    <3>3. QED
      BY <3>1, <3>2
  <2>3. CASE SignIn(f)
    <3> DEFINE mine == {r \in Enabled : rows[r].kind = "event"}
               few  == {r \in mine : Cardinality({q \in mine : q < r}) < MaxPerEvent}
    <3>1. f \in Hooks /\ clock' = clock + 1 /\ Walk(f, few)
      BY <2>3 DEF SignIn, TakesTime
    <3>2. few \subseteq Routines
      BY <2>1
    <3> HIDE DEF few
    <3>3. f \notin Ticks
      BY <3>1, RoutinesAssumption
    <3>4. QED
      BY <3>1, <3>2, <3>3
  <2>4. QED
    BY <2>2, <2>3
<1> DEFINE seen == [r \in Routines |-> IF r \in todo THEN rows[r].last ELSE Never]
           s    == [Idle EXCEPT !.step = "walk", !.todo = todo, !.seen = seen]
<1>3. /\ todo # {} /\ firers' = [firers EXCEPT ![f] = s]
      /\ rows' = rows /\ runs' = runs
  BY <1>2 DEF Walk, Moves
<1>4. seen \in [Routines -> RunTimes] /\ \A r \in todo : seen[r] = rows[r].last
  BY <1>1 DEF RunTimes, RowRec
<1> HIDE DEF seen
<1>5. s \in FireRec /\ s.step = "walk" /\ s.todo = todo /\ s.seen = seen
  BY <1>4 DEF Idle, FireRec, RunTimes, Never
<1> HIDE DEF s
<1>6. \A r \in todo : seen[r] # Never => seen[r] + Gap(f) <= clock'
  <2> SUFFICES ASSUME NEW r \in todo, rows[r].last # Never PROVE rows[r].last + Gap(f) <= clock'
    BY <1>4
  <2>1. r \in Routines
    OBVIOUS
  <2>2. rows[r].last \in RunTimes
    BY <1>1, <2>1 DEF RowRec
  <2>3. rows[r].last \in Nat
    BY <2>2 DEF RunTimes
  <2>4. CASE f \in Ticks /\ clock' = clock /\ IsDue(rows[r], clock)
    BY <2>4 DEF IsDue, Gap
  <2>5. CASE f \notin Ticks /\ clock' = clock + 1
    <3>1. rows[r].last <= clock
      BY <2>1 DEF RoutineInv, StampsPast, RowsPast
    <3>2. QED
      BY <1>1, <2>3, <2>5, <3>1 DEF Gap
  <2>6. QED
    BY <1>2, <2>4, <2>5
<1>7. clock' \in Nat /\ clock <= clock'
  BY <1>1, <1>2
<1>8. QED
  BY <1>3, <1>5, <1>6, <1>7, GoingOnKeeps DEF LeavesOf

(* A firer that leaves the row it is at for the rest of its list keeps the   *)
(* invariant, whatever entry its claim becomes.                              *)
LEMMA DroppingKeeps ==
  ASSUME RoutineInv, NEW f \in Firers, firers[f].step # "idle",
         Moves(f, Dropped(f)), rows' = rows, clock' = clock, LeavesOf(f)
  PROVE  RoutineInv'
<1>1. RTypes /\ clock \in Nat
  BY DEF RoutineInv, RTypes
<1>2. /\ Dropped(f) \in FireRec /\ Dropped(f).step \in {"idle", "walk"}
      /\ Dropped(f).step = "idle" <=> Dropped(f).todo = {}
      /\ \A r \in Dropped(f).todo : r \in firers[f].todo /\ Dropped(f).seen[r] = firers[f].seen[r]
  BY <1>1, DroppedIs
<1>3. \A r \in Dropped(f).todo : Dropped(f).seen[r] # Never => Dropped(f).seen[r] + Gap(f) <= clock'
  BY <1>2 DEF RoutineInv, StampsPast, ListsPast
<1>4. clock' \in Nat /\ clock <= clock'
  BY <1>1
<1>5. QED
  BY <1>2, <1>3, <1>4, GoingOnKeeps DEF Moves

(* A run that starts.                                                        *)
LEMMA SeedKeeps ==
  ASSUME RoutineInv, NEW f \in Firers, Seed(f)
  PROVE  RoutineInv'
<1>1. LeavesOf(f)
  BY DEF Seed, LeavesOf, Entry, Claims
<1>2. QED
  BY <1>1, DroppingKeeps DEF Seed

(* A seed that fails.                                                        *)
LEMMA SeedFailsKeeps ==
  ASSUME RoutineInv, NEW f \in Firers, SeedFails(f)
  PROVE  RoutineInv'
<1> DEFINE s == [firers[f] EXCEPT !.step = "rollback"]
<1>1. /\ clock \in Nat /\ rows \in [Routines -> RowRec] /\ firers \in [Firers -> FireRec]
      /\ firers[f] \in FireRec
  BY DEF RoutineInv, RTypes
<1>2. /\ firers[f].step = "seed" /\ firers' = [firers EXCEPT ![f] = s]
      /\ UNCHANGED <<clock, rows, runs>>
  BY DEF SeedFails, Moves
<1>3. /\ s \in FireRec /\ s.step = "rollback" /\ s.todo = firers[f].todo /\ s.seen = firers[f].seen
      /\ s.claim = firers[f].claim /\ s.from = firers[f].from
  BY <1>1 DEF FireRec
<1> HIDE DEF s
<1>4. firers'[f] = s /\ \A g \in Firers \ {f} : firers'[g] = firers[g]
  BY <1>1, <1>2
<1>5. \A g \in Firers : /\ firers'[g].todo = firers[g].todo /\ firers'[g].seen = firers[g].seen
                        /\ firers'[g].claim = firers[g].claim /\ firers'[g].from = firers[g].from
                        /\ firers'[g].step = "idle" <=> firers[g].step = "idle"
                        /\ firers'[g].step = "seed" => firers[g].step = "seed"
                        /\ firers'[g].step \in {"seed", "rollback"} <=> firers[g].step \in {"seed", "rollback"}
  BY <1>2, <1>3, <1>4
<1>6. \A g \in Firers : (Claims(g)' <=> Claims(g)) /\ Current(g)' = Current(g)
  BY <1>5 DEF Claims, Current
<1>7. \A g \in Firers : \A q, n, F : HeldBy(g, q, n, F)' <=> HeldBy(g, q, n, F)
  BY <1>5, <1>6 DEF HeldBy
<1>8. \A q, n, F : (RanAt(q, n, F)' <=> RanAt(q, n, F)) /\ (TickRanAt(q, n, F)' <=> TickRanAt(q, n, F))
  BY <1>2 DEF RanAt, TickRanAt
<1>9. RTypes'
  <2>1. firers' \in [Firers -> FireRec]
    BY <1>1, <1>2, <1>3
  <2>2. QED
    BY <1>1, <1>2, <1>5, <2>1 DEF RoutineInv, RTypes, Exists
<1>10. StampsPast'
  BY <1>2, <1>5, <1>6 DEF RoutineInv, StampsPast, RowsPast, RunsPast, ListsPast, ClaimsPast, Exists, Gap
<1>11. NewestStays'
  <2> SUFFICES ASSUME NEW q \in Routines, NEW n \in Nat, NEW F, Exists(q), F = rows[q].from,
                      RanAt(q, n, F)' \/ \E g \in Firers : HeldBy(g, q, n, F)'
               PROVE  n <= rows[q].last
    BY <1>2 DEF NewestStays, Exists, RanAt, HeldBy, Claims, Current
  <2>1. RanAt(q, n, F) \/ \E g \in Firers : HeldBy(g, q, n, F)
    BY <1>7, <1>8
  <2>2. QED
    BY <2>1 DEF RoutineInv, NewestStays
<1>12. NothingBetween'
  <2> SUFFICES ASSUME NEW h \in Firers, NEW n \in Nat, NEW c, NEW F,
                      Claims(h), c = Current(h), F = firers[h].from,
                      RanAt(c, n, F)' \/ \E g \in Firers \ {h} : HeldBy(g, c, n, F)'
               PROVE  n <= firers[h].seen[c] \/ n > firers[h].claim
    BY <1>5, <1>6 DEF NothingBetween, Claims, Current, RanAt, HeldBy
  <2>1. RanAt(c, n, F) \/ \E g \in Firers \ {h} : HeldBy(g, c, n, F)
    BY <1>7, <1>8
  <2>2. QED
    BY <2>1 DEF RoutineInv, NothingBetween
<1>13. TicksSpaced'
  <2> SUFFICES ASSUME NEW h \in Ticks, NEW n \in Nat, NEW c, NEW F,
                      firers[h].step = "seed", c = Current(h), F = firers[h].from,
                      \/ TickRanAt(c, n, F)'
                      \/ \E g \in Ticks \ {h} : HeldBy(g, c, n, F)' /\ firers'[g].step = "seed"
               PROVE  n + Interval <= firers[h].claim \/ firers[h].claim + Interval <= n
    <3>1. \A x \in Ticks : x \in Firers
      BY DEF Firers
    <3>2. QED
      BY <1>5, <1>6, <3>1 DEF TicksSpaced, Claims, Current, TickRanAt, HeldBy
  <2>1. h \in Firers /\ Ticks \subseteq Firers
    BY DEF Firers
  <2>2. TickRanAt(c, n, F) \/ \E g \in Ticks \ {h} : HeldBy(g, c, n, F) /\ firers[g].step = "seed"
    BY <1>5, <1>7, <1>8, <2>1
  <2>3. QED
    BY <2>2 DEF RoutineInv, TicksSpaced
<1>14. RunsSpaced'
  BY <1>2 DEF RoutineInv, RunsSpaced
<1>15. QED
  BY <1>9, <1>10, <1>11, <1>12, <1>13, <1>14 DEF RoutineInv

(* A claim that is won bears the time, the newest stamp there can be, and the*)
(* run it replaces was the newest under the schedule.                        *)
LEMMA WinKeeps ==
  ASSUME RoutineInv, NEW f \in Firers, Fire(f),
         Claimable(Current(f), firers[f].seen[Current(f)])
  PROVE  RoutineInv'
<1> DEFINE r == Current(f)
           stamp == IF rows[r].last = Never THEN clock ELSE Latest(clock, rows[r].last + 1)
           row == [rows[r] EXCEPT !.last = clock]
           s == [firers[f] EXCEPT !.step = "seed", !.claim = clock, !.from = rows[r].from]
<1>1. /\ clock \in Nat /\ rows \in [Routines -> RowRec] /\ firers \in [Firers -> FireRec]
      /\ firers[f] \in FireRec
      /\ \A g \in Firers : firers[g] \in FireRec /\ (firers[g].step = "idle" <=> firers[g].todo = {})
      /\ \A q \in Routines : rows[q] \in RowRec /\ (rows[q].enabled => Exists(q))
  BY DEF RoutineInv, RTypes
<1>2. firers[f].step = "walk" /\ r \in firers[f].todo /\ r \in Routines
  BY CurrentListed DEF Fire, RoutineInv
<1>3. rows[r].last = firers[f].seen[r] /\ Exists(r)
  BY <1>1, <1>2 DEF Claimable
<1>4. /\ rows[r].last \in RunTimes /\ rows[r].from \in Nat
      /\ rows[r].last # Never => rows[r].last + Gap(f) <= clock
      /\ rows[r].from < clock /\ (rows[r].last # Never => rows[r].from < rows[r].last)
  <2>1. rows[r].last \in RunTimes /\ rows[r].from \in Nat
    BY <1>1, <1>2 DEF RowRec
  <2>2. rows[r].last # Never => rows[r].last + Gap(f) <= clock
    BY <1>2, <1>3 DEF RoutineInv, StampsPast, ListsPast
  <2>3. rows[r].from < clock /\ (rows[r].last # Never => rows[r].from < rows[r].last)
    BY <1>2, <1>3 DEF RoutineInv, StampsPast, RowsPast
  <2>4. QED
    BY <2>1, <2>2, <2>3
<1>5. Gap(f) \in Nat \ {0} /\ (f \in Ticks => Gap(f) = Interval)
  BY RoutinesAssumption DEF Gap
<1>6. stamp = clock /\ rows[r].last < clock
  BY <1>1, <1>4, <1>5 DEF Latest, RunTimes, Never
<1>7. /\ rows' = [rows EXCEPT ![r].last = stamp]
      /\ firers' = [firers EXCEPT ![f] = [firers[f] EXCEPT !.step = "seed", !.claim = stamp, !.from = rows[r].from]]
      /\ UNCHANGED <<clock, runs>>
  BY DEF Fire, Moves
<1> HIDE DEF stamp
<1>8. rows' = [rows EXCEPT ![r] = row] /\ firers' = [firers EXCEPT ![f] = s]
  BY <1>6, <1>7
<1>9. /\ row \in RowRec /\ row.last = clock /\ row.from = rows[r].from /\ row.kind = rows[r].kind
      /\ row.enabled = rows[r].enabled
  BY <1>1, <1>2 DEF RowRec, RunTimes
<1>10. /\ s \in FireRec /\ s.step = "seed" /\ s.claim = clock /\ s.from = rows[r].from
       /\ s.todo = firers[f].todo /\ s.seen = firers[f].seen
  BY <1>1, <1>4 DEF FireRec, RunTimes
<1> HIDE DEF row, s
<1>11. /\ rows'[r] = row /\ \A q \in Routines \ {r} : rows'[q] = rows[q]
       /\ firers'[f] = s /\ \A g \in Firers \ {f} : firers'[g] = firers[g]
  BY <1>1, <1>2, <1>8
<1>12. /\ Claims(f)' /\ ~Claims(f) /\ Current(f)' = r
       /\ \A g \in Firers \ {f} : (Claims(g)' <=> Claims(g)) /\ Current(g)' = Current(g)
  BY <1>2, <1>10, <1>11 DEF Claims, Current
<1>13. /\ \A q, n, F : HeldBy(f, q, n, F)' <=> q = r /\ F = rows[r].from /\ n = clock
       /\ \A g \in Firers \ {f} : \A q, n, F : HeldBy(g, q, n, F)' <=> HeldBy(g, q, n, F)
  BY <1>10, <1>11, <1>12 DEF HeldBy
<1>14. \A q, n, F : (RanAt(q, n, F)' <=> RanAt(q, n, F)) /\ (TickRanAt(q, n, F)' <=> TickRanAt(q, n, F))
  BY <1>7 DEF RanAt, TickRanAt
<1>15. \A q \in Routines : /\ rows'[q].from = rows[q].from /\ rows'[q].kind = rows[q].kind
                           /\ rows'[q].enabled = rows[q].enabled
  BY <1>9, <1>11
<1> HIDE DEF r
(* What was claimed before under this schedule is no newer than what was replaced. *)
<1>16. \A n \in Nat :
         RanAt(r, n, rows[r].from) \/ (\E g \in Firers : HeldBy(g, r, n, rows[r].from)) => n <= rows[r].last
  BY <1>2, <1>3 DEF RoutineInv, NewestStays
<1>17. RTypes'
  <2>1. rows' \in [Routines -> RowRec] /\ firers' \in [Firers -> FireRec]
    BY <1>1, <1>8, <1>9, <1>10
  <2>2. \A g \in Firers : firers'[g].step = "idle" <=> firers'[g].todo = {}
    BY <1>1, <1>2, <1>10, <1>11
  <2>3. QED
    BY <1>1, <1>7, <1>15, <2>1, <2>2 DEF RTypes, Exists
<1>18. RowsPast'
  <2> SUFFICES ASSUME NEW q \in Routines
               PROVE  /\ rows'[q].last <= clock
                      /\ rows[q].kind \in Kinds => rows[q].from < clock
                      /\ rows'[q].last # Never => rows[q].from < rows'[q].last
    BY <1>7, <1>15 DEF RowsPast, Exists
  <2>1. CASE q = r
    BY <1>1, <1>4, <1>9, <1>11, <2>1
  <2>2. CASE q # r
    BY <1>11, <2>2 DEF RoutineInv, StampsPast, RowsPast, Exists
  <2>3. QED
    BY <2>1, <2>2
<1>19. RunsPast' /\ ListsPast'
  BY <1>7, <1>10, <1>11 DEF RoutineInv, StampsPast, RunsPast, ListsPast, Gap
<1>20. ClaimsPast'
  <2> SUFFICES ASSUME NEW g \in Firers, Claims(g)'
               PROVE  (/\ firers[g].claim \in Nat /\ firers[g].claim <= clock /\ firers[g].from < clock
                       /\ firers[g].seen[Current(g)] < firers[g].claim
                       /\ firers[g].seen[Current(g)] # Never => firers[g].from < firers[g].seen[Current(g)]
                       /\ Exists(Current(g)) /\ firers[g].from # rows[Current(g)].from
                            => firers[g].claim <= rows[Current(g)].from)'
    BY DEF ClaimsPast
  <2>1. CASE g = f
    <3>1. /\ firers'[g].claim = clock /\ firers'[g].from = rows[r].from
          /\ firers'[g].seen[Current(g)'] = rows[r].last
      BY <1>3, <1>10, <1>11, <1>12, <2>1
    <3>2. QED
      BY <1>1, <1>2, <1>4, <1>6, <1>7, <1>12, <1>15, <2>1, <3>1
  <2>2. CASE g # f
    <3>1. Claims(g) /\ Current(g)' = Current(g) /\ firers'[g] = firers[g]
      BY <1>11, <1>12, <2>2
    <3>2. Current(g) \in Routines
      BY <3>1, CurrentListed DEF RoutineInv, Claims
    <3>3. Exists(Current(g))' <=> Exists(Current(g))
      BY <1>15, <3>1, <3>2 DEF Exists
    <3>4. QED
      BY <1>7, <1>15, <3>1, <3>2, <3>3 DEF RoutineInv, StampsPast, ClaimsPast
  <2>3. QED
    BY <2>1, <2>2
<1>21. NewestStays'
  <2> SUFFICES ASSUME NEW q \in Routines, NEW n \in Nat, NEW F, Exists(q), F = rows[q].from,
                      RanAt(q, n, F)' \/ \E g \in Firers : HeldBy(g, q, n, F)'
               PROVE  n <= rows'[q].last
    BY <1>15 DEF NewestStays, Exists, RanAt, HeldBy, Claims, Current
  <2>1. \/ RanAt(q, n, F)
        \/ \E g \in Firers : HeldBy(g, q, n, F)
        \/ (q = r /\ n = clock)
    BY <1>13, <1>14
  <2>2. n <= rows[q].last \/ (q = r /\ n = clock)
    BY <2>1 DEF RoutineInv, NewestStays
  <2>3. rows[q].last \in RunTimes /\ rows[q].last <= clock
    BY <1>1 DEF RoutineInv, StampsPast, RowsPast, RowRec
  <2>4. QED
    BY <1>1, <1>9, <1>11, <2>2, <2>3 DEF RunTimes, Never
<1>22. NothingBetween'
  <2> SUFFICES ASSUME NEW h \in Firers, NEW n \in Nat, NEW c, NEW F,
                      Claims(h)', c = Current(h)', F = firers'[h].from,
                      RanAt(c, n, F)' \/ \E g \in Firers \ {h} : HeldBy(g, c, n, F)'
               PROVE  n <= firers'[h].seen[c] \/ n > firers'[h].claim
    BY DEF NothingBetween, Claims, Current, RanAt, HeldBy
  <2>1. CASE h = f
    <3>1. c = r /\ F = rows[r].from /\ firers'[h].seen[c] = rows[r].last
      BY <1>3, <1>10, <1>11, <1>12, <2>1
    <3>2. RanAt(r, n, rows[r].from) \/ \E g \in Firers : HeldBy(g, r, n, rows[r].from)
      BY <1>13, <1>14, <2>1, <3>1
    <3>3. QED
      BY <1>16, <3>1, <3>2
  <2>2. CASE h # f
    <3>1. Claims(h) /\ c = Current(h) /\ firers'[h] = firers[h] /\ F = firers[h].from
      BY <1>11, <1>12, <2>2
    <3>2. CASE RanAt(c, n, F) \/ \E g \in Firers \ {h} : HeldBy(g, c, n, F)
      BY <3>1, <3>2 DEF RoutineInv, NothingBetween
    <3>3. CASE c = r /\ F = rows[r].from /\ n = clock
      <4>1. HeldBy(h, r, firers[h].claim, rows[r].from) /\ firers[h].claim \in Nat
        BY <3>1, <3>3 DEF HeldBy, RoutineInv, StampsPast, ClaimsPast
      <4>2. firers[h].claim <= rows[r].last
        BY <1>16, <4>1
      <4>3. QED
        BY <1>1, <1>4, <1>6, <3>1, <3>3, <4>1, <4>2 DEF RunTimes, Never
    <3>4. QED
      BY <1>13, <1>14, <3>2, <3>3
  <2>3. QED
    BY <2>1, <2>2
<1>23. TicksSpaced'
  <2> SUFFICES ASSUME NEW h \in Ticks, NEW n \in Nat, NEW c, NEW F,
                      firers'[h].step = "seed", c = Current(h)', F = firers'[h].from,
                      \/ TickRanAt(c, n, F)'
                      \/ \E g \in Ticks \ {h} : HeldBy(g, c, n, F)' /\ firers'[g].step = "seed"
               PROVE  n + Interval <= firers'[h].claim \/ firers'[h].claim + Interval <= n
    BY DEF TicksSpaced, Claims, Current, TickRanAt, HeldBy
  <2>1. h \in Firers /\ Ticks \subseteq Firers
    BY DEF Firers
  <2>2. CASE h = f
    <3>1. c = r /\ F = rows[r].from /\ firers'[h].claim = clock
      BY <1>10, <1>11, <1>12, <2>2
    <3>2. RanAt(r, n, rows[r].from) \/ \E g \in Firers : HeldBy(g, r, n, rows[r].from)
      BY <1>13, <1>14, <2>1, <2>2, <3>1 DEF TickRanAt, RanAt
    <3>3. n <= rows[r].last
      BY <1>16, <3>2
    <3>4. QED
      BY <1>1, <1>4, <1>5, <2>2, <3>1, <3>3 DEF RunTimes, Never
  <2>3. CASE h # f
    <3>1. firers[h].step = "seed" /\ c = Current(h) /\ firers'[h] = firers[h] /\ F = firers[h].from
      BY <1>11, <1>12, <2>1, <2>3
    <3>2. CASE \/ TickRanAt(c, n, F)
               \/ \E g \in Ticks \ {h} : HeldBy(g, c, n, F) /\ firers[g].step = "seed"
      BY <3>1, <3>2 DEF RoutineInv, TicksSpaced
    <3>3. CASE c = r /\ F = rows[r].from /\ n = clock /\ f \in Ticks
      <4>1. HeldBy(h, r, firers[h].claim, rows[r].from) /\ firers[h].claim \in Nat
        BY <2>1, <3>1, <3>3 DEF HeldBy, RoutineInv, StampsPast, ClaimsPast, Claims
      <4>2. firers[h].claim <= rows[r].last
        BY <1>16, <2>1, <4>1
      <4>3. QED
        BY <1>1, <1>4, <1>5, <3>1, <3>3, <4>1, <4>2 DEF RunTimes, Never
    <3>4. QED
      <4>1. CASE TickRanAt(c, n, F)'
        BY <1>14, <3>2, <4>1
      <4>2. CASE \E g \in Ticks \ {h} : HeldBy(g, c, n, F)' /\ firers'[g].step = "seed"
        <5>1. PICK g \in Ticks \ {h} : HeldBy(g, c, n, F)' /\ firers'[g].step = "seed"
          BY <4>2
        <5>2. CASE g = f
          BY <1>13, <3>3, <5>1, <5>2
        <5>3. CASE g # f
          BY <1>11, <1>13, <2>1, <3>2, <5>1, <5>3
        <5>4. QED
          BY <5>2, <5>3
      <4>3. QED
        BY <4>1, <4>2
  <2>4. QED
    BY <2>2, <2>3
<1>24. RunsSpaced'
  BY <1>7 DEF RoutineInv, RunsSpaced
<1>25. QED
  BY <1>17, <1>18, <1>19, <1>20, <1>21, <1>22, <1>23, <1>24 DEF RoutineInv, StampsPast

(* A rollback of a claim that still stands puts back the run before it: the  *)
(* row shows the newest claim again, since no other lies between the two.    *)
LEMMA GivingBackKeeps ==
  ASSUME RoutineInv, NEW f \in Firers, firers[f].step = "rollback", OwnsClaim(f),
         rows' = [rows EXCEPT ![Current(f)].last = firers[f].seen[Current(f)]],
         Moves(f, Dropped(f)), UNCHANGED <<clock, runs>>
  PROVE  RoutineInv'
<1> DEFINE r == Current(f)
           back == firers[f].seen[r]
           row == [rows[r] EXCEPT !.last = back]
           s == Dropped(f)
<1>1. /\ clock \in Nat /\ rows \in [Routines -> RowRec] /\ firers \in [Firers -> FireRec]
      /\ \A g \in Firers : firers[g] \in FireRec /\ (firers[g].step = "idle" <=> firers[g].todo = {})
      /\ \A q \in Routines : rows[q] \in RowRec /\ (rows[q].enabled => Exists(q))
  BY DEF RoutineInv, RTypes
<1>2. r \in Routines /\ Claims(f) /\ Exists(r) /\ rows[r].last = firers[f].claim
  BY CurrentListed DEF RoutineInv, Claims, OwnsClaim
<1>3. /\ s \in FireRec /\ s.step \in {"idle", "walk"} /\ (s.step = "idle" <=> s.todo = {})
      /\ \A q \in s.todo : q \in firers[f].todo /\ s.seen[q] = firers[f].seen[q]
  BY DroppedIs DEF RoutineInv
<1>4. /\ back \in RunTimes /\ firers[f].claim \in Nat /\ firers[f].claim <= clock
      /\ firers[f].from \in Nat /\ rows[r].from \in Nat /\ rows[r].from < clock
      /\ back < firers[f].claim /\ (back # Never => firers[f].from < back)
      /\ firers[f].from = rows[r].from
  <2>1. firers[f].seen \in [Routines -> RunTimes] /\ firers[f].from \in Nat /\ rows[r].from \in Nat
    BY <1>1, <1>2 DEF FireRec, RowRec
  <2>2. back \in RunTimes
    BY <1>2, <2>1
  <2>3. /\ firers[f].claim \in Nat /\ firers[f].claim <= clock
        /\ back < firers[f].claim /\ (back # Never => firers[f].from < back)
        /\ firers[f].from # rows[r].from => firers[f].claim <= rows[r].from
    BY <1>2 DEF RoutineInv, StampsPast, ClaimsPast
  <2>4. rows[r].from < clock /\ (rows[r].last # Never => rows[r].from < rows[r].last)
    BY <1>2 DEF RoutineInv, StampsPast, RowsPast
  <2>5. QED
    BY <1>2, <2>1, <2>2, <2>3, <2>4 DEF Never
<1>5. rows' = [rows EXCEPT ![r] = row] /\ firers' = [firers EXCEPT ![f] = s]
  BY DEF Moves
<1> HIDE DEF back
<1>6. /\ row \in RowRec /\ row.last = back /\ row.from = rows[r].from /\ row.kind = rows[r].kind
      /\ row.enabled = rows[r].enabled
  BY <1>1, <1>2, <1>4 DEF RowRec
<1> HIDE DEF row, s
<1>7. /\ rows'[r] = row /\ \A q \in Routines \ {r} : rows'[q] = rows[q]
      /\ firers'[f] = s /\ \A g \in Firers \ {f} : firers'[g] = firers[g]
  BY <1>1, <1>2, <1>5
<1>8. \A q \in Routines : /\ rows'[q].from = rows[q].from /\ rows'[q].kind = rows[q].kind
                          /\ rows'[q].enabled = rows[q].enabled
  BY <1>6, <1>7
<1>9. /\ ~Claims(f)'
      /\ \A g \in Firers \ {f} : (Claims(g)' <=> Claims(g)) /\ Current(g)' = Current(g)
  BY <1>3, <1>7 DEF Claims, Current
<1>10. \A q, n, F : /\ ~HeldBy(f, q, n, F)'
                    /\ \A g \in Firers \ {f} : HeldBy(g, q, n, F)' <=> HeldBy(g, q, n, F)
  BY <1>7, <1>9 DEF HeldBy
<1>11. \A q, n, F : (RanAt(q, n, F)' <=> RanAt(q, n, F)) /\ (TickRanAt(q, n, F)' <=> TickRanAt(q, n, F))
  BY DEF RanAt, TickRanAt
<1>12. RTypes'
  <2>1. rows' \in [Routines -> RowRec] /\ firers' \in [Firers -> FireRec]
    BY <1>1, <1>3, <1>5, <1>6
  <2>2. \A g \in Firers : firers'[g].step = "idle" <=> firers'[g].todo = {}
    BY <1>1, <1>3, <1>7
  <2>3. QED
    BY <1>1, <1>8, <2>1, <2>2 DEF RTypes, Exists
<1>13. RowsPast'
  <2> SUFFICES ASSUME NEW q \in Routines
               PROVE  /\ rows'[q].last <= clock
                      /\ rows[q].kind \in Kinds => rows[q].from < clock
                      /\ rows'[q].last # Never => rows[q].from < rows'[q].last
    BY <1>8 DEF RowsPast, Exists
  <2>1. CASE q = r
    <3>1. rows'[q].last = back /\ rows[q].from = firers[f].from
      BY <1>4, <1>6, <1>7, <2>1
    <3>2. back \in RunTimes /\ back <= clock
      BY <1>1, <1>4 DEF RunTimes, Never
    <3>3. QED
      BY <1>4, <2>1, <3>1, <3>2
  <2>2. CASE q # r
    BY <1>7, <2>2 DEF RoutineInv, StampsPast, RowsPast, Exists
  <2>3. QED
    BY <2>1, <2>2
<1>14. RunsPast' /\ ListsPast'
  <2>1. ASSUME NEW g \in Firers, NEW q \in firers'[g].todo
        PROVE  q \in firers[g].todo /\ firers'[g].seen[q] = firers[g].seen[q]
    BY <1>3, <1>7
  <2>2. QED
    BY <2>1 DEF RoutineInv, StampsPast, RunsPast, ListsPast, Gap
<1>15. ClaimsPast'
  <2> SUFFICES ASSUME NEW g \in Firers \ {f}, Claims(g)
               PROVE  (/\ firers[g].claim \in Nat /\ firers[g].claim <= clock /\ firers[g].from < clock
                       /\ firers[g].seen[Current(g)] < firers[g].claim
                       /\ firers[g].seen[Current(g)] # Never => firers[g].from < firers[g].seen[Current(g)]
                       /\ Exists(Current(g)) /\ firers[g].from # rows[Current(g)].from
                            => firers[g].claim <= rows[Current(g)].from)'
    BY <1>9 DEF ClaimsPast
  <2>1. Current(g)' = Current(g) /\ firers'[g] = firers[g] /\ Current(g) \in Routines
    BY <1>7, <1>9, CurrentListed DEF RoutineInv, Claims
  <2>2. Exists(Current(g))' <=> Exists(Current(g))
    BY <1>8, <2>1 DEF Exists
  <2>3. QED
    BY <1>8, <2>1, <2>2 DEF RoutineInv, StampsPast, ClaimsPast
<1>16. NewestStays'
  <2> SUFFICES ASSUME NEW q \in Routines, NEW n \in Nat, NEW F, Exists(q), F = rows[q].from,
                      RanAt(q, n, F)' \/ \E g \in Firers : HeldBy(g, q, n, F)'
               PROVE  n <= rows'[q].last
    BY <1>8 DEF NewestStays, Exists, RanAt, HeldBy, Claims, Current
  <2>1. RanAt(q, n, F) \/ \E g \in Firers \ {f} : HeldBy(g, q, n, F)
    BY <1>10, <1>11
  <2>2. n <= rows[q].last
    BY <2>1 DEF RoutineInv, NewestStays
  <2>3. CASE q = r
    <3>1. n <= firers[f].seen[Current(f)] \/ n > firers[f].claim
      BY <1>2, <1>4, <2>1, <2>3 DEF RoutineInv, NothingBetween
    <3>2. QED
      BY <1>2, <1>4, <1>6, <1>7, <2>2, <2>3, <3>1 DEF back, RunTimes, Never
  <2>4. CASE q # r
    BY <1>7, <2>2, <2>4
  <2>5. QED
    BY <2>3, <2>4
<1>17. NothingBetween'
  <2> SUFFICES ASSUME NEW h \in Firers \ {f}, NEW n \in Nat, NEW c, NEW F,
                      Claims(h), c = Current(h), F = firers[h].from,
                      RanAt(c, n, F)' \/ \E g \in Firers \ {h} : HeldBy(g, c, n, F)'
               PROVE  n <= firers[h].seen[c] \/ n > firers[h].claim
    BY <1>7, <1>9 DEF NothingBetween, Claims, Current, RanAt, HeldBy
  <2>1. RanAt(c, n, F) \/ \E g \in Firers \ {h} : HeldBy(g, c, n, F)
    BY <1>10, <1>11
  <2>2. QED
    BY <2>1 DEF RoutineInv, NothingBetween
<1>18. TicksSpaced'
  <2> SUFFICES ASSUME NEW h \in Ticks \ {f}, NEW n \in Nat, NEW c, NEW F,
                      firers[h].step = "seed", c = Current(h), F = firers[h].from,
                      \/ TickRanAt(c, n, F)'
                      \/ \E g \in Ticks \ {h} : HeldBy(g, c, n, F)' /\ firers'[g].step = "seed"
               PROVE  n + Interval <= firers[h].claim \/ firers[h].claim + Interval <= n
    <3>1. \A x \in Ticks : x \in Firers
      BY DEF Firers
    <3>2. QED
      BY <1>3, <1>7, <1>9, <3>1 DEF TicksSpaced, Claims, Current, TickRanAt, HeldBy
  <2>1. h \in Firers /\ Ticks \subseteq Firers
    BY DEF Firers
  <2>2. TickRanAt(c, n, F) \/ \E g \in Ticks \ {h} : HeldBy(g, c, n, F) /\ firers[g].step = "seed"
    BY <1>7, <1>10, <1>11, <2>1
  <2>3. QED
    BY <2>2 DEF RoutineInv, TicksSpaced
<1>19. RunsSpaced'
  BY DEF RoutineInv, RunsSpaced
<1>20. QED
  BY <1>12, <1>13, <1>14, <1>15, <1>16, <1>17, <1>18, <1>19 DEF RoutineInv, StampsPast

-----------------------------------------------------------------------------
(* Every step of a firer keeps the invariant.                                *)
LEMMA FirerKeeps ==
  ASSUME RoutineInv, NEW f \in Firers, FirerStep(f)
  PROVE  RoutineInv'
<1>1. CASE Tick(f) \/ SignIn(f)
  BY <1>1, ListingKeeps
<1>2. CASE Fire(f)
  <2>1. CASE Claimable(Current(f), firers[f].seen[Current(f)])
    BY <1>2, <2>1, WinKeeps
  <2>2. CASE ~Claimable(Current(f), firers[f].seen[Current(f)])
    <3>1. /\ firers[f].step # "idle" /\ Moves(f, Dropped(f)) /\ rows' = rows /\ clock' = clock
          /\ runs' = runs
      BY <1>2, <2>2 DEF Fire
    <3>2. QED
      BY <3>1, DroppingKeeps DEF LeavesOf
  <2>3. QED
    BY <2>1, <2>2
<1>3. CASE Seed(f)
  BY <1>3, SeedKeeps
<1>4. CASE SeedFails(f)
  BY <1>4, SeedFailsKeeps
<1>5. CASE Rollback(f)
  <2>1. firers[f].step = "rollback" /\ Moves(f, Dropped(f)) /\ clock' = clock
    BY <1>5 DEF Rollback
  <2>2. CASE OwnsClaim(f) /\ rows' = [rows EXCEPT ![Current(f)].last = firers[f].seen[Current(f)]]
             /\ runs' = runs
    BY <2>1, <2>2, GivingBackKeeps
  <2>3. CASE runs' = runs \cup {Entry(f, "lost")} /\ rows' = rows
    <3>1. LeavesOf(f)
      BY <2>1, <2>3 DEF LeavesOf, Claims, Entry
    <3>2. QED
      BY <2>1, <2>3, <3>1, DroppingKeeps
  <2>4. QED
    BY <1>5, <2>2, <2>3 DEF Rollback
<1>6. QED
  BY <1>1, <1>2, <1>3, <1>4, <1>5 DEF FirerStep

(* Every step keeps the invariant.                                           *)
LEMMA RoutineStep == RoutineInv /\ [RoutinesNext]_routineVars => RoutineInv'
<1> SUFFICES ASSUME RoutineInv, [RoutinesNext]_routineVars PROVE RoutineInv'
  OBVIOUS
<1>1. ASSUME NEW r \in Routines, CreateRoutine(r) \/ EditRoutine(r) \/ DeleteRoutine(r)
      PROVE  RoutineInv'
  BY <1>1, RequestsKeep
<1>2. ASSUME NEW f \in Firers, FirerStep(f) PROVE RoutineInv'
  BY <1>2, FirerKeeps
<1>3. CASE Advance
  BY <1>3, AdvanceKeeps
<1>4. CASE UNCHANGED routineVars
  BY <1>4 DEF routineVars, RoutineInv, RTypes, StampsPast, RowsPast, RunsPast, ListsPast, ClaimsPast,
              NewestStays, NothingBetween, TicksSpaced, RunsSpaced, RanAt, TickRanAt, HeldBy,
              Claims, Current, Exists, Gap
<1>5. QED
  BY <1>1, <1>2, <1>3, <1>4 DEF RoutinesNext

(* The invariant of the routines table and its firers holds in every state.  *)
THEOREM RoutinesInvariant == RoutinesSpec => []RoutineInv
<1>1. QED
  BY RoutineInitInv, RoutineStep, PTL DEF RoutinesSpec

(* RunsSpaced, whatever number of ticks overlap, whatever fails: under one   *)
(* schedule the runs a tick fires are at least an interval apart.            *)
THEOREM RunsAreSpaced == RoutinesSpec => []RunsSpaced
<1>1. RoutineInv => RunsSpaced
  BY DEF RoutineInv
<1>2. QED
  BY <1>1, RoutinesInvariant, PTL

(* RunsNotTakenBack: no step, a rollback least of all, takes back the stamp  *)
(* of a run under the present schedule.                                      *)
THEOREM NoRunTakenBack == RoutinesSpec => RunsNotTakenBack
<1>1. ASSUME RoutineInv, RoutineInv', [RoutinesNext]_routineVars,
             NEW e \in runs, e.result = "ran", Exists(e.routine)', rows'[e.routine].from = e.from
      PROVE  rows'[e.routine].last >= e.stamp
  <2>1. runs \subseteq runs'
    BY <1>1 DEF RoutinesNext, routineVars, FirerStep, CreateRoutine, EditRoutine, DeleteRoutine, Request,
                Tick, SignIn, Walk, Fire, Seed, SeedFails, Rollback, Advance
  <2>2. e \in runs' /\ e.routine \in Routines /\ e.stamp \in Nat
    BY <1>1, <2>1 DEF RoutineInv, StampsPast, RunsPast
  <2> DEFINE q == e.routine
             n == e.stamp
             F == e.from
  <2>3. RanAt(q, n, F)' /\ q \in Routines /\ n \in Nat
    BY <1>1, <2>2 DEF RanAt
  <2> HIDE DEF q, n, F
  <2>4. ASSUME q \in Routines, n \in Nat, (rows[q].from = F)', Exists(q)', RanAt(q, n, F)'
        PROVE  n <= rows'[q].last
    BY <1>1, <2>4 DEF RoutineInv, NewestStays, RanAt
  <2>5. rows'[q].last \in RunTimes
    BY <1>1, <2>3 DEF RoutineInv, RTypes, RowRec
  <2>6. QED
    BY <1>1, <2>3, <2>4, <2>5 DEF q, n, F, RunTimes, Never
<1>2. RoutineInv /\ RoutineInv' /\ [RoutinesNext]_routineVars =>
        [\A e \in runs :
           LET r == e.routine IN
           /\ Exists(r) /\ rows[r].from = e.from /\ rows[r].last >= e.stamp
           /\ e.result = "ran"
           => (~Exists(r) \/ rows[r].from # e.from \/ rows[r].last >= e.stamp)']_routineVars
  BY <1>1
<1>3. QED
  BY <1>2, RoutinesInvariant, RoutineStep, PTL DEF RoutinesSpec, RunsNotTakenBack
=============================================================================
