---------------------------- MODULE MCStoredParts ----------------------------
(* The parts whose state outlives the process, side by side: a conversation *)
(* whose process may crash, the documents of a session, the database at     *)
(* boot. A behavior is a behavior of one of them, and the others stay as    *)
(* they began.                                                              *)
EXTENDS MCConversationTurns, MCDocumentStore, DatabaseBoot

VARIABLE part

Parts == {"turns", "documents", "database"}
allVars == <<part, turnVars, storeVars, dbVars>>

(* Where a part has several initial states, they are its own choice.         *)
MCInit ==
  /\ part \in Parts
  /\ TurnsInit /\ StoreInit /\ DbInit
  /\ part = "documents" \/ index = {}
  /\ part = "database" \/ seal = [r \in Rows |-> [c \in Columns |-> Absent]]

Only(p, rest) == part = p /\ UNCHANGED <<part, rest>>

MCNext ==
  \/ Only("turns", <<storeVars, dbVars>>) /\ TurnsNext
  \/ Only("documents", <<turnVars, dbVars>>) /\ StoreNext
  \/ Only("database", <<turnVars, storeVars>>) /\ DbNext

(* Nothing is owed before the first turn starts.                             *)
MCSpec == MCInit /\ [][MCNext]_allVars /\ TurnsFairness
==============================================================================
