---------------------------- MODULE DatabaseBoot ----------------------------
(* The first query of a process (lib/db/client.server.ts) and the boot gate  *)
(* and backfill it runs (lib/db/migrate-encryption.server.ts): legacy rows    *)
(* are encrypted while other processes on the same database serve users.     *)
(*                                                                           *)
(* One table; the code treats its tables one after another in the same way.  *)
(* A stored value is its text, counted in user writes, and what seals it:    *)
(* a key, nothing (Unsealed), or there is no value (Absent).                 *)
EXTENDS Naturals, FiniteSets

CONSTANTS Processes, Rows, Columns, DataKeys,
          NoDataKey,    \* DATA_ENCRYPTION_KEY is not set
          Unsealed, Absent,
          BatchSize,    \* MIGRATION_BATCH_SIZE
          Truncates,    \* may a table exceed MIGRATION_MAX_BATCHES batches?
          MaxWrites     \* bound: user writes

ASSUME DatabaseAssumption ==
  /\ IsFiniteSet(Rows)
  /\ {NoDataKey, Unsealed, Absent} \cap DataKeys = {}
  /\ Unsealed # Absent
  /\ BatchSize \in Nat \ {0}
  /\ Truncates \in BOOLEAN
  /\ MaxWrites \in Nat

VARIABLES
  seal,       \* per row and column: the key of its envelope, Unsealed or Absent
  text,       \* per row and column: what the envelope or the plain value holds
  written,    \* history: what a user wrote there last
  at,         \* where each process is
  dataKey,    \* the key each process was started with
  unsampled,  \* columns the boot gate has yet to sample
  found,      \* keys of the envelopes it has sampled
  pending,    \* rows of the batch read and not yet updated
  copy,       \* per row and column, the plain text in that batch, or Absent
  complete    \* did the backfill end because nothing was due?

stored == <<seal, text, written>>
probe == <<unsampled, found>>
work == <<pending, copy>>
dbVars == <<stored, at, dataKey, probe, work, complete>>

Stages == {"down", "new", "gate", "backfill", "ready", "refused"}
Sealed(r, c) == seal[r][c] \in DataKeys
Keyed(p) == dataKey[p] # NoDataKey

DbTypeOK ==
  /\ seal \in [Rows -> [Columns -> DataKeys \cup {Unsealed, Absent}]]
  /\ text \in [Rows -> [Columns -> Nat]]
  /\ written \in [Rows -> [Columns -> Nat]]
  /\ at \in [Processes -> Stages]
  /\ dataKey \in [Processes -> DataKeys \cup {NoDataKey}]
  /\ unsampled \in [Processes -> SUBSET Columns]
  /\ found \in [Processes -> SUBSET DataKeys]
  /\ pending \in [Processes -> SUBSET Rows]
  /\ copy \in [Processes -> [Rows -> [Columns -> Nat \cup {Absent}]]]
  /\ complete \in [Processes -> BOOLEAN]

NoCopy == [r \in Rows |-> [c \in Columns |-> Absent]]

(* A database from before encryption: whole rows of plain values, or none. *)
DbInit ==
  /\ seal \in [Rows -> [Columns -> {Unsealed, Absent}]]
  /\ text = [r \in Rows |-> [c \in Columns |-> 0]]
  /\ written = text
  /\ at = [p \in Processes |-> "down"]
  /\ dataKey = [p \in Processes |-> NoDataKey]
  /\ unsampled = [p \in Processes |-> {}]
  /\ found = [p \in Processes |-> {}]
  /\ pending = [p \in Processes |-> {}]
  /\ copy = [p \in Processes |-> NoCopy]
  /\ complete = [p \in Processes |-> FALSE]

------------------------------------------------------------------------------
(* A process starts. Processes that run at the same time are configured with *)
(* one key, or with none; between two runs the operator may change it.       *)
StartProcess(p) ==
  /\ at[p] = "down"
  /\ \E k \in DataKeys \cup {NoDataKey} :
       /\ k = NoDataKey \/ \A q \in Processes : at[q] # "down" => dataKey[q] \in {k, NoDataKey}
       /\ dataKey' = [dataKey EXCEPT ![p] = k]
  /\ at' = [at EXCEPT ![p] = "new"]
  /\ UNCHANGED <<stored, probe, work, complete>>

(* The first query starts the schema init; later ones share its promise. *)
FirstQuery(p) ==
  /\ at[p] = "new"
  /\ at' = [at EXCEPT ![p] = "gate"]
  /\ unsampled' = [unsampled EXCEPT ![p] = Columns]
  /\ found' = [found EXCEPT ![p] = {}]
  /\ UNCHANGED <<stored, dataKey, work, complete>>

(* sampleEncryptedColumns: any one envelope of a column, if it holds any. *)
Sample(p) ==
  /\ at[p] = "gate"
  /\ \E c \in unsampled[p] :
       /\ unsampled' = [unsampled EXCEPT ![p] = @ \ {c}]
       /\ LET keys == {seal[r][c] : r \in {s \in Rows : Sealed(s, c)}}
          IN  \/ keys = {} /\ UNCHANGED found
              \/ \E k \in keys : found' = [found EXCEPT ![p] = @ \cup {k}]
  /\ UNCHANGED <<stored, at, dataKey, work, complete>>

(* Mutant: with a key configured nothing is tried with it *)
MayServeUntried(p) == Keyed(p) \/ found[p] = {}

(* The gate, once every column is sampled: without a key no envelope may     *)
(* exist, and there is nothing to backfill; with one it must open them all.  *)
MayServe(p) == found[p] \subseteq {dataKey[p]}

Decide(p) ==
  /\ at[p] = "gate"
  /\ unsampled[p] = {}
  /\ at' = [at EXCEPT ![p] = IF ~MayServe(p) THEN "refused"
                             ELSE IF Keyed(p) THEN "backfill" ELSE "ready"]
  /\ found' = [found EXCEPT ![p] = {}]
  /\ UNCHANGED <<stored, dataKey, unsampled, work, complete>>

Due(r) == \E c \in Columns : seal[r][c] = Unsealed
DueRows == {r \in Rows : Due(r)}

(* migrateTable reads a batch of due rows, with every column of theirs. *)
ReadBatch(p) ==
  /\ at[p] = "backfill"
  /\ pending[p] = {}
  /\ \E rs \in SUBSET DueRows :
       /\ rs # {}
       /\ Cardinality(rs) <= BatchSize
       /\ Cardinality(rs) = BatchSize \/ rs = DueRows
       /\ pending' = [pending EXCEPT ![p] = rs]
       /\ copy' = [copy EXCEPT ![p] =
            [r \in Rows |-> [c \in Columns |->
               IF r \in rs /\ seal[r][c] = Unsealed THEN text[r][c] ELSE Absent]]]
  /\ UNCHANGED <<stored, at, dataKey, probe, complete>>

(* Mutant: the UPDATE does not look again *)
ConvertBlindly(p) ==
  /\ at[p] = "backfill"
  /\ \E r \in pending[p] :
       /\ pending' = [pending EXCEPT ![p] = @ \ {r}]
       /\ LET set == {c \in Columns : copy[p][r][c] # Absent}
          IN  /\ seal' = [seal EXCEPT ![r] =
                   [c \in Columns |-> IF c \in set THEN dataKey[p] ELSE seal[r][c]]]
              /\ text' = [text EXCEPT ![r] =
                   [c \in Columns |-> IF c \in set THEN copy[p][r][c] ELSE text[r][c]]]
       /\ copy' = [copy EXCEPT ![p][r] = NoCopy[r]]
  /\ UNCHANGED <<written, at, dataKey, probe, complete>>

(* The UPDATE of one row of the batch: it looks again whether the row is     *)
(* due, and then sets every column that was plain in the copy.               *)
ConvertRow(p) ==
  /\ at[p] = "backfill"
  /\ \E r \in pending[p] :
       /\ pending' = [pending EXCEPT ![p] = @ \ {r}]
       /\ LET set == {c \in Columns : Due(r) /\ copy[p][r][c] # Absent}
          IN  /\ seal' = [seal EXCEPT ![r] =
                   [c \in Columns |-> IF c \in set THEN dataKey[p] ELSE seal[r][c]]]
              /\ text' = [text EXCEPT ![r] =
                   [c \in Columns |-> IF c \in set THEN copy[p][r][c] ELSE text[r][c]]]
       /\ copy' = [copy EXCEPT ![p][r] = NoCopy[r]]
  /\ UNCHANGED <<written, at, dataKey, probe, complete>>

(* The SELECT that finds nothing ends the init; so does the batch ceiling. *)
EndBackfill(p) ==
  /\ at[p] = "backfill"
  /\ pending[p] = {}
  /\ DueRows = {} \/ Truncates
  /\ at' = [at EXCEPT ![p] = "ready"]
  /\ complete' = [complete EXCEPT ![p] = DueRows = {}]
  /\ UNCHANGED <<stored, dataKey, probe, work>>

Forget(p) ==
  /\ unsampled' = [unsampled EXCEPT ![p] = {}]
  /\ found' = [found EXCEPT ![p] = {}]
  /\ pending' = [pending EXCEPT ![p] = {}]
  /\ copy' = [copy EXCEPT ![p] = NoCopy]

(* A statement of the init fails: the next query starts it anew. *)
FailInit(p) ==
  /\ at[p] \in {"gate", "backfill"}
  /\ at' = [at EXCEPT ![p] = "new"]
  /\ Forget(p)
  /\ UNCHANGED <<stored, dataKey, complete>>

(* A user's write of some columns of a row, new or not, which encrypts what  *)
(* it writes: without a key it throws and nothing is written.                *)
UserWrite(p) ==
  /\ at[p] = "ready"
  /\ Keyed(p)
  /\ \E r \in Rows, cs \in SUBSET Columns \ {{}} :
       /\ \A c \in cs : written[r][c] < MaxWrites
       /\ seal' = [seal EXCEPT ![r] =
            [c \in Columns |-> IF c \in cs THEN dataKey[p] ELSE seal[r][c]]]
       /\ text' = [text EXCEPT ![r] =
            [c \in Columns |-> IF c \in cs THEN written[r][c] + 1 ELSE text[r][c]]]
       /\ written' = [written EXCEPT ![r] =
            [c \in Columns |-> IF c \in cs THEN written[r][c] + 1 ELSE written[r][c]]]
  /\ UNCHANGED <<at, dataKey, probe, work, complete>>

(* A process ends, in whatever it is doing. *)
StopProcess(p) ==
  /\ at[p] # "down"
  /\ at' = [at EXCEPT ![p] = "down"]
  /\ dataKey' = [dataKey EXCEPT ![p] = NoDataKey]
  /\ complete' = [complete EXCEPT ![p] = FALSE]
  /\ Forget(p)
  /\ UNCHANGED stored

DbStep(p) ==
  \/ StartProcess(p) \/ FirstQuery(p) \/ Sample(p) \/ Decide(p) \/ ReadBatch(p)
  \/ ConvertRow(p) \/ EndBackfill(p) \/ FailInit(p) \/ UserWrite(p) \/ StopProcess(p)

DbNext == \E p \in Processes : DbStep(p)
DbSpec == DbInit /\ [][DbNext]_dbVars

------------------------------------------------------------------------------
(* A process that serves with a key can read everything that is stored: all  *)
(* envelopes, whoever wrote them and when, open with that key. The gate      *)
(* looks at one envelope of each column only.                                *)
KeyOpensAll ==
  \A p \in Processes : at[p] \in {"backfill", "ready"} /\ Keyed(p) =>
    \A r \in Rows, c \in Columns : Sealed(r, c) => seal[r][c] = dataKey[p]

(* A backfill that ran beside other backfills and beside users at work has   *)
(* undone no write of theirs, and once one has completed nothing plain is    *)
(* stored any more.                                                          *)
NothingPlainLeft ==
  \A p \in Processes : complete[p] => DueRows = {}
WritesSurvive == text = written
BackfillKeepsData == NothingPlainLeft /\ WritesSurvive
==============================================================================
