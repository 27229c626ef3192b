----------------------------- MODULE HarnessRun -----------------------------
(***************************************************************************)
(* One turn of the harness: the chain of an agent's patterns, the event    *)
(* log it commits to and the listener that hears the turn live             *)
(* (app/src/lib/harness-patterns/harness.server.ts, context.server.ts,     *)
(* live-event-context.server.ts and patterns/).                            *)
(*                                                                         *)
(* A pattern is a node of a tree.  It runs on a scope of its own, which    *)
(* holds the events it tracked and its copy of the data, and returns or    *)
(* throws; whoever called it collects the scope.  Only the chain at the    *)
(* top writes the log.  Every event of a turn is unique, so an event       *)
(* stands for its id.                                                      *)
(***************************************************************************)
EXTENDS Naturals, SequencesExt

CONSTANTS
  Top,          (* the agent's patterns, in order                              *)
  Kind,         (* the kind of every pattern                                   *)
  Children,     (* what a pattern wraps, in order                              *)
  RouteNames,   (* the routes the router may name; may exceed the map          *)
  Live,         (* patterns with liveEvents                                    *)
  Commit,       (* commitStrategy of the patterns at the top                   *)
  Severity,     (* errorSeverity of the patterns at the top                    *)
  MayThrow,     (* leaf patterns that may reject                               *)
  Responders,   (* leaf patterns that may make the response                    *)
  Stamps,       (* the severities a leaf pattern stamps on its errors          *)
  MaxTurns      (* bound: turns of the session                                 *)

Nodes == DOMAIN Kind
PatternKinds == {"leaf", "router", "routes", "chain", "parallel", "guardrail", "references", "hook",
          "compactExecution"}
Severities == {"none", "recoverable", "irrecoverable"}

(* The patterns of an agent are trees: everyone is at the top or wrapped by  *)
(* one other, and nobody wraps himself; a node is a place in them, and       *)
(* guardrail, withReferences and hook take one pattern each.                 *)
ASSUME TreesAssumption ==
  /\ Kind \in [Nodes -> PatternKinds] /\ Children \in [Nodes -> Seq(Nodes)] /\ Top \in Seq(Nodes)
  /\ IsInjective(Top) /\ \A n \in Nodes : IsInjective(Children[n])
  /\ \A m, n \in Nodes : m # n => ToSet(Children[m]) \cap ToSet(Children[n]) = {}
  /\ \A n \in Nodes : /\ ToSet(Children[n]) \cap ToSet(Top) = {}
                      /\ n \in ToSet(Top) \/ \E m \in Nodes : n \in ToSet(Children[m])
                      /\ Kind[n] \in {"guardrail", "references", "hook"} => Len(Children[n]) = 1
  /\ \A S \in SUBSET Nodes : S # {} => \E n \in S : \A m \in S : n \notin ToSet(Children[m])

(* "none" and "direct" are what data.route may be besides a name in the map. *)
ASSUME NamesAssumption ==
  /\ {"none", "direct"} \cap (Nodes \cup RouteNames) = {}
  /\ Stamps \in [Nodes -> SUBSET Severities] /\ MaxTurns \in Nat

VARIABLES
  log,      (* ctx.events of this turn                                         *)
  heard,    (* what onEvent was called with, in order                          *)
  emitted,  (* emittedIds of the live frame                                    *)
  live,     (* enabled of the live frame                                       *)
  phase,    (* each pattern: idle, running, returned, collected or threw       *)
  events,   (* the events of its scope                                         *)
  data,     (* the data of its scope                                           *)
  current,  (* currentData of the chain, ctx.data between turns                *)
  status,   (* ctx.status                                                      *)
  pos,      (* the place in Top, 0 between turns                               *)
  turn      (* turns started                                                   *)

harnessVars  == <<log, heard, emitted, live, phase, events, data, current, status, pos, turn>>
chain == <<log, live, current, status, pos, turn>>

Ev(type, by, sev) == [type |-> type, by |-> by, sev |-> sev]
Enter(n)    == Ev("pattern_enter", n, "none")
Exit(n)     == Ev("pattern_exit", n, "none")
Content(n)  == Ev("content", n, "none")
Error(n, s) == Ev("error", n, s)      (* s = "none": data.severity is absent   *)

(* The data the patterns hand on: the route and the turn it was set in, and  *)
(* the turn the response was made in, 0 when there is none or it is empty.   *)
NoData == [route |-> "none", routed |-> 0, response |-> 0]

(* filter: those of es that are not in S, in their order.                    *)
Without(es, S) ==
  LET kept[i \in 0..Len(es)] ==
        IF i = 0 THEN <<>> ELSE IF es[i] \in S THEN kept[i - 1] ELSE Append(kept[i - 1], es[i])
  IN  kept[Len(es)]

Holds(n, k) == Kind[n] = k /\ phase[n] = "running"
Settled(n)  == phase[n] \in {"returned", "threw"}

(* emitLive: the listener hears an event at once if the flag is up.          *)
EmitLive(es) ==
  /\ heard' = IF live THEN heard \o es ELSE heard
  /\ emitted' = IF live THEN emitted \cup ToSet(es) ELSE emitted

(* A pattern tracks es, a part of them live, and moves to phase p with d.    *)
Tracks(n, es, loud, p, d) ==
  /\ events' = [events EXCEPT ![n] = @ \o es]
  /\ phase' = [phase EXCEPT ![n] = p]
  /\ data' = [data EXCEPT ![n] = d]
  /\ EmitLive(loud)
  /\ UNCHANGED chain

Returns(n, es, d) == Tracks(n, es, es, "returned", d)

(* A pattern tracks es and calls the patterns cs, each on a scope of its own *)
(* that starts from the caller's data.                                       *)
CallsOut(n, es, loud, cs) ==
  /\ events' = [x \in Nodes |-> IF x \in cs THEN <<>> ELSE IF x = n THEN events[n] \o es ELSE events[x]]
  /\ phase' = [x \in Nodes |-> IF x \in cs THEN "running" ELSE phase[x]]
  /\ data' = [x \in Nodes |-> IF x \in cs THEN data[n] ELSE data[x]]
  /\ EmitLive(loud)
  /\ UNCHANGED chain

-----------------------------------------------------------------------------
HarnessInit ==
  /\ log = <<>> /\ heard = <<>> /\ emitted = {} /\ live = FALSE
  /\ phase = [n \in Nodes |-> "idle"]
  /\ events = [n \in Nodes |-> <<>>]
  /\ data = [n \in Nodes |-> NoData]
  /\ current = NoData /\ status = "running" /\ pos = 0 /\ turn = 0

(* harness() and continueSession(): the message is logged and heard, what    *)
(* the previous turn answered is deleted, its route is not.                  *)
User == Ev("user_message", "harness", "none")

StartTurn ==
  /\ pos = 0 /\ turn < MaxTurns
  /\ turn' = turn + 1 /\ pos' = 1 /\ status' = "running"
  /\ log' = <<User>> /\ heard' = <<User>> /\ emitted' = {} /\ live' = FALSE
  /\ current' = [current EXCEPT !.response = 0]
  /\ phase' = [n \in Nodes |-> "idle"]
  /\ events' = [n \in Nodes |-> <<>>]
  /\ data' = [n \in Nodes |-> NoData]

(* runChain: the next pattern is entered while the status is running.        *)
EnterTop ==
  /\ pos \in DOMAIN Top /\ status = "running"
  /\ LET p == Top[pos] IN
     /\ phase[p] = "idle"
     /\ log' = Append(log, Enter(p))
     /\ live' = (p \in Live)
     /\ heard' = IF p \in Live THEN Append(heard, Enter(p)) ELSE heard
     /\ emitted' = IF p \in Live THEN emitted \cup {Enter(p)} ELSE emitted
     /\ phase' = [phase EXCEPT ![p] = "running"]
     /\ data' = [data EXCEPT ![p] = current]
     /\ UNCHANGED <<events, current, status, pos, turn>>

(* commitEvents: the strategy drops content only.  The chain commits while   *)
(* its status is running, so 'on-success' commits everything.  Mutant:       *)
(* 'last' taken at its word.                                                 *)
Always == {"pattern_enter", "pattern_exit", "error"}
UncommittedButLast(p) == IF Commit[p] = "last" THEN ToSet(events[p]) \ {Last(events[p])} ELSE {}
Uncommitted(p) ==
  LET contents == {i \in DOMAIN events[p] : events[p][i].type \notin Always}
  IN  CASE Commit[p] = "last"  -> {events[p][i] : i \in {j \in contents : \E k \in contents : j < k}}
        [] Commit[p] = "never" -> {events[p][i] : i \in contents}
        [] OTHER               -> {}
Committed(p) == Without(events[p], Uncommitted(p))

(* firstIrrecoverable: an event without a severity has the pattern's.        *)
IsFatal(p, e) ==
  e.type = "error" /\ (IF e.sev = "none" THEN Severity[p] ELSE e.sev) = "irrecoverable"

(* What is delivered at the commit: what was not heard live.                 *)
Unheard(p) == Without(events[p], Uncommitted(p) \cup emitted)

(* The end of a pattern at the top.  One that returns is committed and its   *)
(* events delivered unless they were heard live; one that throws loses its   *)
(* scope, and the error logged in its place is not delivered.                *)
LeaveTop ==
  /\ pos \in DOMAIN Top
  /\ LET p    == Top[pos]
         ok   == phase[p] = "returned"
         es   == IF ok THEN Committed(p) ELSE <<Error(p, "none")>>
         last == IF live THEN <<Exit(p)>> ELSE <<>>
     IN /\ Settled(p)
        /\ log' = log \o es \o <<Exit(p)>>
        /\ heard' = heard \o (IF ok THEN Unheard(p) ELSE <<>>) \o last
        /\ emitted' = emitted \cup ToSet(last)
        /\ status' = IF ok /\ \A e \in ToSet(es) : ~IsFatal(p, e) THEN status ELSE "error"
        /\ current' = IF ok THEN data[p] ELSE current
        /\ phase' = [phase EXCEPT ![p] = IF ok THEN "collected" ELSE @]
  /\ live' = FALSE /\ pos' = pos + 1
  /\ UNCHANGED <<events, data, turn>>

(* settleTurn: no answer and an error this turn is a failed turn.            *)
SettleTurnTrusting ==
  /\ pos > Len(Top) \/ (pos > 0 /\ status = "error")
  /\ pos' = 0
  /\ UNCHANGED <<log, heard, emitted, live, phase, events, data, current, status, turn>>

SettleTurn ==
  /\ pos > Len(Top) \/ (pos > 0 /\ status = "error")
  /\ pos' = 0
  /\ status' = IF current.response = 0 /\ \E e \in ToSet(log) : e.type = "error"
               THEN "error" ELSE status
  /\ UNCHANGED <<log, heard, emitted, live, phase, events, data, current, turn>>

-----------------------------------------------------------------------------
(* A leaf pattern (a loop, judge, planner, retriever): it tracks content,    *)
(* then returns, some with an error or the response, or throws.              *)
Leaf(n) ==
  /\ Holds(n, "leaf")
  /\ \/ /\ events[n] = <<>>
        /\ Tracks(n, <<Content(n)>>, <<Content(n)>>, "running", data[n])
     \/ \E s \in Stamps[n] : Returns(n, <<Error(n, s)>>, data[n])
     \/ Returns(n, <<>>, data[n])
     \/ n \in Responders /\ Returns(n, <<>>, [data[n] EXCEPT !.response = turn])
     \/ n \in MayThrow /\ Tracks(n, <<>>, <<>>, "threw", data[n])

(* Mutant: a failed classification that leaves the data as it was.           *)
RouterKeepsRoute(n) ==
  /\ Holds(n, "router")
  /\ \/ \E r \in RouteNames :
          Returns(n, <<Content(n)>>, [data[n] EXCEPT !.route = r, !.routed = turn])
     \/ Returns(n, <<Error(n, "none")>>, data[n])

(* router(): it answers itself, names a route, or fails and clears the one   *)
(* that the data still has from the previous turn.                           *)
Router(n) ==
  /\ Holds(n, "router")
  /\ \/ \E a \in {0, turn} :
          Returns(n, <<Content(n)>>, [route |-> "direct", routed |-> turn, response |-> a])
     \/ \E r \in RouteNames, es \in {<<>>, <<Content(n)>>} :
          Returns(n, es, [data[n] EXCEPT !.route = r, !.routed = turn])
     \/ Returns(n, <<Error(n, "none")>>, [data[n] EXCEPT !.route = "none"])

(* routes(): no route throws, a direct answer passes, an unknown name is an  *)
(* error; else the child is entered live and its scope taken over.           *)
Routes(n) ==
  /\ Holds(n, "routes")
  /\ LET r == data[n].route IN
     \/ r = "none" /\ Tracks(n, <<>>, <<>>, "threw", data[n])
     \/ r = "direct" /\ Returns(n, <<>>, data[n])
     \/ r \notin ToSet(Children[n]) \cup {"none", "direct"} /\ Returns(n, <<Error(n, "none")>>, data[n])
     \/ r \in ToSet(Children[n]) /\ phase[r] = "idle" /\ CallsOut(n, <<Enter(r)>>, <<Enter(r)>>, {r})
     \/ /\ r \in ToSet(Children[n])
        /\ \/ phase[r] = "returned" /\ Tracks(n, Append(events[r], Exit(r)), <<Exit(r)>>, "returned", data[r])
           \/ phase[r] = "threw" /\ Tracks(n, <<>>, <<>>, "threw", data[n])

(* chain(): the children one after another, each on its predecessor's data;  *)
(* a child that throws ends it.                                              *)
ChainNode(n) ==
  /\ Holds(n, "chain")
  /\ \E i \in DOMAIN Children[n] :
       LET c == Children[n][i] IN
       /\ \A j \in 1..i - 1 : Exit(Children[n][j]) \in ToSet(events[n])
       /\ \/ phase[c] = "idle" /\ CallsOut(n, <<Enter(c)>>, <<>>, {c})
          \/ /\ phase[c] = "returned" /\ Exit(c) \notin ToSet(events[n])
             /\ Tracks(n, Append(events[c], Exit(c)), <<>>,
                       IF i = Len(Children[n]) THEN "returned" ELSE "running", data[c])
          \/ phase[c] = "threw" /\ Tracks(n, <<>>, <<>>, "threw", data[n])

(* The data each branch returns is spread over the parent's, in order, and a *)
(* key it does not have stays: the last that has one gives it.               *)
Spread(n, cs) ==
  LET back     == {i \in DOMAIN cs : phase[cs[i]] = "returned"}
      answered == {i \in back : data[cs[i]].response # 0}
      Of(I)    == IF I = {} THEN data[n] ELSE data[cs[Max(I)]]
  IN  [Of(back) EXCEPT !.response = Of(answered).response]

(* Mutant: branches that are awaited with all instead of allSettled.         *)
AllReturned(cs) == \A c \in cs : phase[c] = "returned"
AllSettled(cs)  == \A c \in cs : Settled(c)

BranchEvents(n, c, none) ==
  IF phase[c] = "returned" THEN <<Enter(c)>> \o events[c] \o <<Exit(c)>>
  ELSE <<Error(n, IF none THEN "irrecoverable" ELSE "none")>>

(* parallel(): the branches share the parent's data and run side by side;    *)
(* when all have settled they are collected in order.  The errors of         *)
(* rejected branches are alike, so one stands for all.                       *)
Parallel(n) ==
  /\ Holds(n, "parallel")
  /\ LET cs      == Children[n]
         none    == \A c \in ToSet(cs) : phase[c] = "threw"
         Told(i) == phase[cs[i]] = "threw" /\ \E j \in 1..i - 1 : phase[cs[j]] = "threw"
         es(i)   == IF Told(i) THEN <<>> ELSE BranchEvents(n, cs[i], none)
         loud(i) == IF phase[cs[i]] = "returned" THEN <<Enter(cs[i]), Exit(cs[i])>> ELSE es(i)
     IN \/ /\ \A c \in ToSet(cs) : phase[c] = "idle"
           /\ CallsOut(n, <<>>, <<>>, ToSet(cs))
        \/ /\ AllSettled(ToSet(cs))
           /\ Tracks(n, FlattenSeq([i \in DOMAIN cs |-> es(i)]), FlattenSeq([i \in DOMAIN cs |-> loud(i)]),
                     "returned", Spread(n, cs))

(* guardrail(), withReferences() and hook() call one child and bracket what  *)
(* it tracked.  What they do before it:                                      *)
Before(n) ==
  LET c == Head(Children[n]) IN
  /\ phase[n] = "running" /\ Kind[n] \in {"guardrail", "references", "hook"} /\ phase[c] = "idle"
  /\ \/ Kind[n] = "guardrail" /\ Returns(n, <<Error(n, "irrecoverable")>>, data[n])
     \/ Kind[n] = "references" /\ Returns(n, <<Error(n, "none")>>, data[n])
     \/ Kind[n] = "guardrail" /\ CallsOut(n, <<>>, <<>>, {c})
     \/ Kind[n] = "references" /\ CallsOut(n, <<Content(n)>>, <<Content(n)>>, {c})
     \/ /\ Kind[n] = "hook"   (* background: the child is on its own           *)
        /\ phase' = [phase EXCEPT ![n] = "returned", ![c] = "running"]
        /\ data' = [data EXCEPT ![c] = data[n]]
        /\ UNCHANGED <<events, heard, emitted, chain>>

(* and after it: an output rail may add a warning; a throw is an error.      *)
After(n) ==
  LET c    == Head(Children[n])
      mine == <<Enter(c)>> \o events[c] \o <<Exit(c)>>
      warn == <<Error(n, "none")>>
  IN /\ phase[n] = "running" /\ Kind[n] \in {"guardrail", "references"}
     /\ \/ phase[c] = "returned" /\ Tracks(n, mine, <<>>, "returned", data[c])
        \/ phase[c] = "returned" /\ Kind[n] = "guardrail" /\ Tracks(n, mine \o warn, warn, "returned", data[c])
        \/ phase[c] = "threw" /\ Returns(n, warn, data[n])

(* compactExecution(): the answer, unless the router gave it.                *)
Synthesize(n) ==
  /\ Holds(n, "compactExecution")
  /\ \/ data[n].route = "direct" /\ Returns(n, <<>>, data[n])
     \/ /\ data[n].route # "direct"
        /\ \/ \E a \in {0, turn} :
                Returns(n, <<Content(n)>>, [data[n] EXCEPT !.response = a])
           \/ Returns(n, <<Error(n, "irrecoverable")>>, data[n])

PatternStep ==
  \E n \in Nodes : \/ Leaf(n) \/ Router(n) \/ Routes(n) \/ ChainNode(n) \/ Parallel(n)
                   \/ Before(n) \/ After(n) \/ Synthesize(n)

HarnessNext == StartTurn \/ EnterTop \/ LeaveTop \/ SettleTurn \/ PatternStep

(* A turn that has started goes on: the calls a pattern waits for return or  *)
(* reject, they have time limits.  Nobody has to send a message.             *)
HarnessFairness == WF_harnessVars(EnterTop \/ LeaveTop \/ SettleTurn \/ PatternStep)

HarnessSpec == HarnessInit /\ [][HarnessNext]_harnessVars /\ HarnessFairness

-----------------------------------------------------------------------------
Tops  == {n \in Nodes : \E i \in DOMAIN Top : Top[i] = n}
InTop == pos \in DOMAIN Top /\ phase[Top[pos]] # "idle"

HarnessTypeOK ==
  /\ live \in BOOLEAN /\ status \in {"running", "error"}
  /\ pos \in 0..Len(Top) + 1 /\ turn \in 0..MaxTurns
  /\ phase \in [Nodes -> {"idle", "running", "returned", "collected", "threw"}]
  /\ emitted \subseteq ToSet(heard)

(* The log is well formed whenever no pattern at the top is running: every   *)
(* event once, every pattern_enter with its pattern_exit, the intervals      *)
(* nested, and what a pattern logged between its own two.  The waterfall and *)
(* every event view cut the log by these brackets, and five patterns collect *)
(* them each in its own way.                                                 *)
WellBracketed ==
  LET At(e)   == CHOOSE i \in DOMAIN log : log[i] = e
      In      == {n \in Nodes : Enter(n) \in ToSet(log)}
      Span(n) == At(Enter(n))..At(Exit(n))
  IN ~InTop =>
       /\ IsInjective(log)
       /\ \A e \in ToSet(log) \ {User} : /\ {Enter(e.by), Exit(e.by)} \subseteq ToSet(log)
                                         /\ At(e) \in Span(e.by)
       /\ \A m, n \in In : \/ Span(m) \cap Span(n) = {}
                           \/ Span(m) \subseteq Span(n) \/ Span(n) \subseteq Span(m)

(* The browser hears every event once, live or at the commit; what the log   *)
(* holds and nobody was told are the brackets of a pattern at the top        *)
(* without liveEvents and the error of one that threw.                       *)
DeliveredOnce ==
  /\ IsInjective(heard)
  /\ ~InTop => \A e \in ToSet(log) \ ToSet(heard) :
       /\ e.by \in Tops
       /\ \/ e.by \notin Live /\ e.type \in {"pattern_enter", "pattern_exit"}
          \/ phase[e.by] = "threw" /\ e.type = "error"

(* What is told of a turn, to the log and to the browser, is what happened.  *)
EventsFaithful == WellBracketed /\ DeliveredOnce

(* A route is acted on only in the turn it was set in: no child is called    *)
(* and no synthesis skipped for what an earlier turn asked, although the     *)
(* data and the route in it survive the turn.                                *)
RouteFresh ==
  \A n \in Nodes :
    \/ Kind[n] = "routes" /\ (\A c \in ToSet(Children[n]) : phase[c] = "idle")
    \/ Kind[n] = "compactExecution" /\ (events[n] # <<>> \/ phase[n] \in {"idle", "running"})
    \/ data[n].routed = turn
    \/ Kind[n] \notin {"routes", "compactExecution"}

(* What a hook wraps runs in the background, with all below it.              *)
Below(S) == \A n \in Nodes : Kind[n] = "hook" \/ n \in S => ToSet(Children[n]) \subseteq S
Background == {n \in Nodes : \A S \in SUBSET Nodes : Below(S) => n \in S}

(* A turn that ends without an answer and without status error is one in     *)
(* which nothing failed: no throw and no error event at any depth is lost on *)
(* its way up, but for what runs in the background.                          *)
FailureShows ==
  (pos = 0 /\ status = "running" /\ current.response = 0) =>
    \A n \in Nodes \ Background : /\ phase[n] # "threw"
                                 /\ \A e \in ToSet(events[n]) : e.type # "error"

(* What a turn does and how it ends come from this turn, and from all of it. *)
TurnIsItsOwn == RouteFresh /\ FailureShows

(* Every turn comes to its end, whichever pattern throws.                    *)
TurnSettles == pos > 0 ~> pos = 0

(* "withReferences failing means the inner pattern ran without curated prior *)
(* results" (types.ts): the pattern it wraps always runs.                    *)
ReferencesRan ==
  \A n \in Nodes : (Kind[n] = "references" /\ phase[n] \in {"returned", "collected"})
                    => phase[Head(Children[n])] # "idle"
=============================================================================
