----------------------------- MODULE GatewayPool -----------------------------
(***************************************************************************)
(* The warm connections to the MCP gateway: each operation leases one for  *)
(* itself, a transport error resets it and repeats what may be repeated,   *)
(* and a tool listing that still fails throws the pool away and tries once *)
(* more (app/src/lib/harness-patterns/mcp-client.server.ts).  The gateway  *)
(* and the sockets are external: they fail whenever they like.             *)
(***************************************************************************)
EXTENDS Naturals, FiniteSets

CONSTANTS
  Operations,      (* operations, each of which runs once                           *)
  Conns,        (* connection objects; a dropped one is made anew                *)
  PoolSize      (* POOL_SIZE                                                     *)

ASSUME PoolAssumption ==
  /\ PoolSize \in Nat \ {0} /\ IsFiniteSet(Conns)
  /\ Cardinality(Conns) > PoolSize * (Cardinality(Operations) + 1)

VARIABLES
  pool,         (* the pool                                                      *)
  conn,         (* per connection: its client, leased, warm                      *)
  op,           (* per caller: what it runs and how far it is                    *)
  sockets       (* clients that were connected and not closed                    *)

poolVars == <<pool, conn, op, sockets>>

ClientStates == {"none", "up", "broken"}
OpKinds   == {"read", "write", "list"}
Fresh   == [client |-> "none", leased |-> FALSE, warm |-> FALSE]
NotRun  == [kind |-> "none", step |-> "new", on |-> {}, retried |-> FALSE, round |-> 1, ran |-> 0,
            drops |-> {}]

(* Who holds a connection; the others are not there.                         *)
Dropping   == UNION {op[c].drops : c \in Operations}
Leased     == UNION {op[c].on : c \in Operations}
Referenced == pool \cup Leased \cup Dropping

-----------------------------------------------------------------------------
PoolInit ==
  /\ pool = {} /\ conn = [x \in Conns |-> Fresh] /\ sockets = 0
  /\ op = [c \in Operations |-> NotRun]

Put(c, f) == op' = [op EXCEPT ![c] = f]
(* The end of an operation: only what it was and how often it ran is kept.   *)
Ended(o, step) == [NotRun EXCEPT !.kind = o.kind, !.ran = o.ran, !.step = step]

(* Mutant: any connection of the pool, leased or not.                        *)
PooledAnyhow == pool
Pooled == {x \in pool : ~conn[x].leased}

(* acquireConnection: one of the pool that is free, else a new one, which is *)
(* warm while the pool has room.  With it the step up to the first await of  *)
(* ensureConnected.  (An object nobody holds is always there: PoolAssumption.) *)
Unheld == IF Conns \subseteq Referenced THEN {} ELSE {CHOOSE y \in Conns : y \notin Referenced}

Lease(c, o) ==
  \E x \in (IF Pooled # {} THEN Pooled ELSE Unheld) :
    LET fresh == Pooled = {}
        warm  == IF fresh THEN Cardinality(pool) < PoolSize ELSE conn[x].warm
        have  == IF fresh THEN "none" ELSE conn[x].client
    IN  /\ conn' = [conn EXCEPT ![x] = [client |-> have, leased |-> TRUE, warm |-> warm]]
        /\ pool' = (IF fresh /\ warm THEN pool \cup {x} ELSE pool)
        /\ Put(c, [o EXCEPT !.on = {x}, !.retried = FALSE,
                            !.step = IF have = "none" THEN "connecting" ELSE "calling"])
        /\ UNCHANGED sockets

StartOp(c) ==
  /\ op[c].step = "new"
  /\ \E kind \in OpKinds : Lease(c, [op[c] EXCEPT !.kind = kind])

ClientConnected(c) ==
  /\ op[c].step = "connecting"
  /\ conn' = [x \in Conns |-> IF x \in op[c].on THEN [conn[x] EXCEPT !.client = "up"] ELSE conn[x]]
  /\ sockets' = sockets + 1 /\ Put(c, [op[c] EXCEPT !.step = "calling"])
  /\ UNCHANGED pool

(* The gateway has run the operation; its answer is on the way.              *)
Executed(c) ==
  /\ op[c].step = "calling" /\ \A x \in op[c].on : conn[x].client = "up"
  /\ Put(c, [op[c] EXCEPT !.step = "answering", !.ran = @ + 1])
  /\ UNCHANGED <<pool, conn, sockets>>

(* releaseConnection: an overflow connection closes its client.              *)
Released(x) == IF ~conn[x].warm THEN Fresh ELSE [conn[x] EXCEPT !.leased = FALSE]
ClosedAtRelease(x) == IF conn[x].warm \/ conn[x].client = "none" THEN 0 ELSE 1

ReleaseConnection(c, o) ==
  \E x \in op[c].on :
    /\ conn' = [conn EXCEPT ![x] = Released(x)] /\ sockets' = sockets - ClosedAtRelease(x)
    /\ Put(c, [o EXCEPT !.on = {}])
    /\ UNCHANGED pool

(* What an operation that throws leads to: a listing that failed for the     *)
(* first time starts over from an empty pool, all else is reported.          *)
Thrown(o) ==
  IF o.kind = "list" /\ o.round = 1 THEN [o EXCEPT !.step = "rebuilding", !.retried = FALSE]
  ELSE Ended(o, "failed")

Answered(c) == op[c].step = "answering" /\ ReleaseConnection(c, Ended(op[c], "done"))

ToolError(c) == op[c].step = "answering" /\ ReleaseConnection(c, Thrown(op[c]))

(* An operation may be repeated if the tool only reads.  Mutant: any may.    *)
Anything(o) == TRUE
Repeatable(o) == o.kind # "write"

(* A transport error of the first attempt resets the leased connection, and  *)
(* the operation is repeated or given up.  A connection that failed to open  *)
(* has no client.                                                            *)
FirstFails(c) ==
  /\ op[c].step \in {"connecting", "calling", "answering"} /\ ~op[c].retried
  /\ \E x \in op[c].on :
       /\ sockets' = sockets - (IF conn[x].client = "none" THEN 0 ELSE 1)
       /\ IF Repeatable(op[c])
          THEN /\ conn' = [conn EXCEPT ![x].client = "none"]
               /\ Put(c, [op[c] EXCEPT !.step = "connecting", !.retried = TRUE])
          ELSE /\ conn' = [conn EXCEPT ![x] = [Released(x) EXCEPT !.client = "none"]]
               /\ Put(c, [Thrown(op[c]) EXCEPT !.on = {}])
  /\ UNCHANGED pool

(* The second failure leaves the connection as it is.                        *)
SecondFails(c) ==
  /\ op[c].step \in {"connecting", "calling", "answering"} /\ op[c].retried
  /\ \E x \in op[c].on :
       LET left == [Released(x) EXCEPT !.client = IF @ = "none" THEN @ ELSE "broken"] IN
       /\ conn' = [conn EXCEPT ![x] = left] /\ sockets' = sockets - ClosedAtRelease(x)
       /\ Put(c, [Thrown(op[c]) EXCEPT !.on = {}])
  /\ UNCHANGED pool

(* closeMcpClient empties the pool, then closes what was in it one at a time:*)
(* a connection leased meanwhile is demoted, so its lease closes what it     *)
(* reopens.  Mutant: it stays warm.                                          *)
KeptWarm(x) == [conn[x] EXCEPT !.client = "none"]
Demoted(x)  == [conn[x] EXCEPT !.client = "none", !.warm = FALSE]

Rebuild(c) ==
  /\ op[c].step = "rebuilding" /\ op[c].round = 1 /\ op[c].drops = {}
  /\ pool' = {} /\ Put(c, [op[c] EXCEPT !.drops = pool, !.round = IF pool = {} THEN 2 ELSE 1])
  /\ UNCHANGED <<conn, sockets>>

Drop(c) ==
  /\ op[c].step = "rebuilding"
  /\ \E x \in op[c].drops :
       /\ conn' = [conn EXCEPT ![x] = Demoted(x)]
       /\ sockets' = sockets - (IF conn[x].client = "none" THEN 0 ELSE 1)
       /\ Put(c, IF op[c].drops = {x} THEN [op[c] EXCEPT !.drops = {}, !.round = 2] ELSE
                 [op[c] EXCEPT !.drops = @ \ {x}])
  /\ UNCHANGED pool

Again(c) == op[c].step = "rebuilding" /\ op[c].drops = {} /\ op[c].round = 2 /\ Lease(c, op[c])

(* A keep-alive dies while nobody looks (external).                          *)
Breaks(x) ==
  /\ conn[x].client = "up" /\ conn' = [conn EXCEPT ![x].client = "broken"]
  /\ UNCHANGED <<pool, op, sockets>>

CallerStep(c) ==
  \/ StartOp(c) \/ ClientConnected(c) \/ Executed(c) \/ Answered(c) \/ ToolError(c)
  \/ FirstFails(c) \/ SecondFails(c) \/ Rebuild(c) \/ Drop(c) \/ Again(c)
PoolNext == (\E c \in Operations : CallerStep(c)) \/ (\E x \in Conns : Breaks(x))
PoolSpec == PoolInit /\ [][PoolNext]_poolVars

-----------------------------------------------------------------------------
(* The types, and no two operations on one connection: a reconnect of one    *)
(* call never disturbs another.                                              *)
LeasesExclusive ==
  /\ pool \subseteq Conns /\ conn \in [Conns -> [client : ClientStates, leased : BOOLEAN, warm : BOOLEAN]]
  /\ \A c, d \in Operations : c # d => op[c].on \cap op[d].on = {}
  /\ \A x \in Conns : conn[x].leased <=> \E c \in Operations : op[c].on = {x}

(* No socket is lost: what is open belongs to the pool, to a lease or to a   *)
(* rebuild, so when all is quiet no more than the pool is open.              *)
NoSocketLost ==
  /\ sockets = Cardinality({x \in Referenced : conn[x].client # "none"})
  /\ Cardinality(pool) <= PoolSize

(* The books of the pool under concurrent calls, failures and rebuilds.      *)
ConnectionsKept == LeasesExclusive /\ NoSocketLost

(* A tool that writes never runs twice for one call, nor a read more often   *)
(* than its attempts allow.                                                  *)
RunsAtMost == \A c \in Operations :
  op[c].ran <= (CASE op[c].kind = "write" -> 1 [] op[c].kind = "list" -> 4 [] OTHER -> 2)

(* Failures and rebuilds cost neither a connection nor a second write.       *)
PoolHonest == ConnectionsKept /\ RunsAtMost

(* The comment of withReconnect: a broken connection is reset either way, so *)
(* the pool heals even when the operation fails.  That is, an operation that *)
(* gave up for a transport error leaves no broken client in the pool.        *)
PoolHeals == [][\A c \in Operations :
                  op[c].on # {} /\ op'[c].on = {} /\ op'[c].step \in {"failed", "rebuilding"} =>
                    \A x \in op[c].on \cap pool' : conn'[x].client # "broken"]_poolVars
=============================================================================
