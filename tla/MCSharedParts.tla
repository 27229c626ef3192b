---------------------------- MODULE MCSharedParts ----------------------------
(* The parts in which concurrent calls share some state of their own, side  *)
(* by side: overlapping turns of one conversation, the pattern cache, the   *)
(* gateway pool, the conversations of a browser tab, the stream between the *)
(* two ends of a turn; and, with no state at all, the pseudonyms. A behavior*)
(* is a behavior of one of them, and the others stay as they began.         *)
EXTENDS MCConversationTurns, PatternCache, GatewayPool, BrowserSessions, TurnStream, MCPseudonyms

VARIABLE part

Parts == {"turns", "cache", "gateway", "browser", "stream", "nyms"}
allVars == <<part, turnVars, cacheVars, poolVars, browserVars, streamVars, nymVars>>

(* Where a part has several initial states, they are its own choice.         *)
MCInit ==
  /\ part \in Parts
  /\ TurnsInit /\ CacheInit /\ PoolInit /\ BrowserInit /\ StreamInit /\ NymInit
  /\ part = "browser" \/ <<view, savedTurns>> = <<"a", [c \in Chats |-> {}]>>
  /\ part = "nyms" \/ roster = << >>

Only(p, rest) == part = p /\ UNCHANGED <<part, rest>>

MCNext ==
  \/ Only("turns", <<cacheVars, poolVars, browserVars, streamVars, nymVars>>) /\ TurnsNext
  \/ Only("cache", <<turnVars, poolVars, browserVars, streamVars, nymVars>>) /\ CacheNext
  \/ Only("gateway", <<turnVars, cacheVars, browserVars, streamVars, nymVars>>) /\ PoolNext
  \/ Only("browser", <<turnVars, cacheVars, poolVars, streamVars, nymVars>>) /\ BrowserNext
  \/ Only("stream", <<turnVars, cacheVars, poolVars, browserVars, nymVars>>) /\ StreamNext
  \/ Only("nyms", <<turnVars, cacheVars, poolVars, browserVars, streamVars>>) /\ NymNext

MCSpec == MCInit /\ [][MCNext]_allVars
==============================================================================
