---------------------------- MODULE MCSandboxParts ---------------------------
(* The parts of the sandbox that share no state, side by side: a behavior   *)
(* is a behavior of one of them, and the others stay as they began.         *)
EXTENDS SandboxScheduler, WarmPool, PtySessions, WorkspaceSync

CONSTANTS a1, a2, a3, b1, b2, c1, sa, sb, sc

(* A noisy session with more requests than its cap, and two others.         *)
MCSessionOf ==
  [r \in Requests |-> CASE r \in {a1, a2, a3} -> sa [] r \in {b1, b2} -> sb [] OTHER -> sc]

VARIABLE part

Parts == {"gate", "pool", "terminals", "workspace"}
allVars == <<part, schedulerVars, warmPoolVars, ptyVars, syncVars>>

MCInit == part \in Parts /\ SchedulerInit /\ WarmPoolInit /\ PtyInit /\ SyncInit

Only(p, rest) == part = p /\ UNCHANGED <<part, rest>>

MCNext ==
  \/ Only("gate", <<warmPoolVars, ptyVars, syncVars>>) /\ SchedulerNext
  \/ Only("pool", <<schedulerVars, ptyVars, syncVars>>) /\ WarmPoolNext
  \/ Only("terminals", <<schedulerVars, warmPoolVars, syncVars>>) /\ PtyNext
  \/ Only("workspace", <<schedulerVars, warmPoolVars, ptyVars>>) /\ SyncNext

(* What is owed at the start of a part is nothing, so a part that does not  *)
(* move owes nothing.                                                       *)
MCSpec ==
  /\ MCInit /\ [][MCNext]_allVars
  /\ SchedulerFairness /\ WarmPoolFairness /\ PtyFairness
=============================================================================
