---------------------------- MODULE PatternCache ----------------------------
(***************************************************************************)
(* The in-process cache of a session's patterns                            *)
(* (app/src/lib/harness-client/session.server.ts).                         *)
(*                                                                         *)
(* Every turn asks for the patterns of its session and agent; on a miss    *)
(* they are built, which takes network calls.  Builds of one session are   *)
(* not shared, so several may be under way.  A build that comes out        *)
(* degraded (a schema fetch failed, say) asks from inside not to be        *)
(* cached, and names only the session when it does.  The module follows    *)
(* one session: sessions share nothing but the maps' keys.                 *)
(***************************************************************************)
EXTENDS Integers, FiniteSets

CONSTANTS
  Calls,     (* concurrent calls of getOrBuildPatterns              *)
  Agents,    (* agents the calls may be for                         *)
  Nothing    (* no cache entry                                      *)

ASSUME CacheAssumption ==
  /\ IsFiniteSet(Calls)
  /\ Nothing \notin [agent : Agents, degraded : BOOLEAN, outlived : BOOLEAN]

VARIABLES
  patternCache,  (* the entry: whose patterns, and were they degraded      *)
  uncacheable,   (* has a build in flight asked not to be cached           *)
  building,      (* how many builds are in flight                          *)
  build          (* what each call is building, if anything                *)

cacheVars == <<patternCache, uncacheable, building, build>>

(* What a build makes, or has made: was it degraded, and (a history the    *)
(* code does not keep) was the session deleted while it was in flight.     *)
Entries  == [agent : Agents, degraded : BOOLEAN, outlived : BOOLEAN]
InFlight == {c \in Calls : build[c] # Nothing}

CacheInit ==
  /\ patternCache = Nothing
  /\ uncacheable = FALSE
  /\ building = 0
  /\ build = [c \in Calls |-> Nothing]

-----------------------------------------------------------------------------
(* getOrBuildPatterns, up to its await.  An entry of the same agent is a    *)
(* hit, which changes nothing; anything else starts a build.                *)
Hit(a) == patternCache # Nothing /\ patternCache.agent = a

StartBuild(c) ==
  /\ build[c] = Nothing
  /\ \E a \in Agents :
       /\ ~Hit(a)
       /\ build' = [build EXCEPT ![c] = [agent |-> a, degraded |-> FALSE, outlived |-> FALSE]]
  /\ building' = building + 1
  /\ UNCHANGED <<patternCache, uncacheable>>

(* doNotCachePatterns, called by a build that came out degraded ... *)
Degrade(c) ==
  /\ build[c] # Nothing
  /\ build' = [build EXCEPT ![c].degraded = TRUE]
  /\ uncacheable' = (building > 0 \/ uncacheable)
  /\ UNCHANGED <<patternCache, building>>

ProbeAlwaysDegrades ==   (* mutant: with no build in flight too *)
  /\ uncacheable' = TRUE
  /\ UNCHANGED <<patternCache, building, build>>

(* ... and by a capability probe, which builds patterns it throws away. *)
ProbeDegrades ==
  /\ uncacheable' = (building > 0 \/ uncacheable)
  /\ UNCHANGED <<patternCache, building, build>>

FlagAfterAny(n) == FALSE   (* mutant: by any build *)

(* The flag is dropped by the last build out. *)
FlagAfter(n) == n > 0 /\ uncacheable

BuildThrowsTwice(c) ==   (* mutant: counted out by the catch and the finally *)
  /\ build[c] # Nothing
  /\ build' = [build EXCEPT ![c] = Nothing]
  /\ building' = building - 2
  /\ uncacheable' = FlagAfter(building - 2)
  /\ UNCHANGED patternCache

BuildThrows(c) ==
  /\ build[c] # Nothing
  /\ build' = [build EXCEPT ![c] = Nothing]
  /\ building' = building - 1
  /\ uncacheable' = FlagAfter(building - 1)
  /\ UNCHANGED patternCache

(* The patterns are cached unless the flag is up, for whichever build.      *)
BuildReturns(c) ==
  /\ build[c] # Nothing
  /\ patternCache' = IF uncacheable THEN Nothing ELSE build[c]
  /\ build' = [build EXCEPT ![c] = Nothing]
  /\ building' = building - 1
  /\ uncacheable' = FlagAfter(building - 1)

(* evictPatterns, after a bulk delete of conversations. *)
Evict ==
  /\ patternCache' = Nothing
  /\ UNCHANGED <<uncacheable, building, build>>

(* deleteSession: the entry and the flag go, whatever is in flight. *)
DeleteSession ==
  /\ patternCache' = Nothing
  /\ uncacheable' = FALSE
  /\ build' = [c \in Calls |-> IF build[c] = Nothing THEN Nothing
                                ELSE [build[c] EXCEPT !.outlived = TRUE]]
  /\ UNCHANGED building

CacheNext ==
  \/ \E c \in Calls : StartBuild(c) \/ Degrade(c) \/ BuildThrows(c) \/ BuildReturns(c)
  \/ ProbeDegrades \/ Evict \/ DeleteSession

CacheSpec == CacheInit /\ [][CacheNext]_cacheVars

-----------------------------------------------------------------------------
CacheTypeOK ==
  /\ patternCache \in Entries \cup {Nothing}
  /\ uncacheable \in BOOLEAN
  /\ building \in Nat
  /\ build \in [Calls -> Entries \cup {Nothing}]

(* A degraded build is never cached, so no conversation is stuck with it    *)
(* for its life, whatever other builds start, settle or throw beside it:    *)
(* except one whose session was deleted under it, for the deletion clears   *)
(* the flag the build had raised.                                           *)
DegradedNeverCached ==
  (patternCache # Nothing /\ patternCache.degraded) => patternCache.outlived

(* A raised flag has a build in flight to consume it: it neither leaks nor  *)
(* costs a later, healthy build its entry.                                  *)
FlagHasConsumer == uncacheable => InFlight # {}
=============================================================================
