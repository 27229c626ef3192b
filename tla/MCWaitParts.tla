----------------------------- MODULE MCWaitParts -----------------------------
(* Three parts in which somebody waits for an end that comes from elsewhere,*)
(* side by side: an agent loop for the calls of its batch, private turns for*)
(* the wake they share, the list of conversations for runs it cannot see. A *)
(* behavior is a behavior of one of them, and the others stay as they began.*)
EXTENDS AgentLoop, PrivateTier, ThreadList

VARIABLE part

Parts == {"loop", "tier", "threads"}
allVars == <<part, loopVars, tierVars, threadVars>>

(* Where a part has several initial states, they are its own choice.         *)
MCInit ==
  /\ part \in Parts
  /\ LoopRunInit /\ TierInit /\ ThreadInit
  /\ part = "loop" \/ <<loop, mode>> = <<"simpleLoop", "sequential">>
  /\ part = "tier" \/ <<column, seed, box.state>> = <<"none", "none", "asleep">>
  /\ part = "threads" \/ saved = {}

Only(p, rest) == part = p /\ UNCHANGED <<part, rest>>

MCNext ==
  \/ Only("loop", <<tierVars, threadVars>>) /\ LoopRunNext
  \/ Only("tier", <<loopVars, threadVars>>) /\ TierNext
  \/ Only("threads", <<loopVars, tierVars>>) /\ ThreadNext

MCSpec == MCInit /\ [][MCNext]_allVars /\ TierFairness /\ ThreadFairness
==============================================================================
