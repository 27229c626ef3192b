-------------------------- MODULE SandboxScheduler --------------------------
(***************************************************************************)
(* The capacity gate in front of the compute sandboxes                     *)
(* (app/src/lib/sandbox/scheduler.server.ts).                              *)
(*                                                                         *)
(* withSandbox asks the scheduler for a slot before it touches a VM and    *)
(* gives it back in a finally block.  A request is one call of             *)
(* allocate(): it is admitted at once, or it joins a queue that every      *)
(* release drains in order, passing over the waiters whose own session is  *)
(* full.  The process is single threaded, so allocate and release (with    *)
(* its drain) are one step each; what interleaves is the order in which    *)
(* the turns call them.                                                    *)
(***************************************************************************)
EXTENDS Integers, FiniteSets

CONSTANTS
  Requests,       (* callers of allocate(), each reusable once its slot is freed *)
  Sessions,       (* the chat sessions the requests are made for                 *)
  SessionOf,      (* the session of every request                                *)
  GlobalCap,      (* globalCap: slots over all sessions                          *)
  PerSessionCap   (* perSessionCap: slots of any one session                     *)

ASSUME SchedulerAssumption ==
  /\ IsFiniteSet(Requests)
  /\ SessionOf \in [Requests -> Sessions]
  /\ GlobalCap \in Nat
  /\ PerSessionCap \in Nat

VARIABLES
  inflightGlobal,      (* the counter behind the global cap                   *)
  inflightPerSession,  (* the per-session counters; 0 is "no map entry"       *)
  slot,                (* each request: none, waiting, live or released       *)
  ahead                (* the queue: the waiters in front of each waiter      *)

schedulerVars == <<inflightGlobal, inflightPerSession, slot, ahead>>

-----------------------------------------------------------------------------
(* Holders are the requests whose slot is live; waiters those queued. *)
Holders      == {r \in Requests : slot[r] = "live"}
Waiters      == {r \in Requests : slot[r] = "waiting"}
OfSession(R, s) == {r \in R : SessionOf[r] = s}

(* Mutant: the caps are compared with <=. *)
CanAdmitAtCap(s) ==
  /\ inflightGlobal <= GlobalCap
  /\ inflightPerSession[s] <= PerSessionCap

CanAdmit(s) ==
  /\ inflightGlobal < GlobalCap
  /\ inflightPerSession[s] < PerSessionCap

(***************************************************************************)
(* The waiters G that one drain grants, given the counters g and per it    *)
(* starts from.  The loop of drainQueue goes through the queue in order    *)
(* and restarts after every grant; a waiter it passed over stays           *)
(* inadmissible because grants only use capacity up.  So a waiter is       *)
(* granted exactly when both caps still have room after the grants of      *)
(* waiters in front of it, which determines G.                             *)
(***************************************************************************)
(* Mutants of the drain: it stops at the first waiter that does not fit,   *)
(* or it looks at the queue from its end.                                  *)
FitsAfter(w, before, g, per) ==
  /\ g + Cardinality(before) < GlobalCap
  /\ per[SessionOf[w]] + Cardinality(OfSession(before, SessionOf[w])) < PerSessionCap

IsDrainNoSkip(G, g, per) ==
  \A w \in Waiters :
    w \in G <=> ahead[w] \subseteq G /\ FitsAfter(w, ahead[w], g, per)

IsDrainLifo(G, g, per) ==
  \A w \in Waiters :
    w \in G <=> FitsAfter(w, {q \in G : w \in ahead[q]}, g, per)

IsDrain(G, g, per) ==
  \A w \in Waiters :
    LET before == ahead[w] \cap G
        s      == SessionOf[w]
    IN w \in G <=> /\ g + Cardinality(before) < GlobalCap
                   /\ per[s] + Cardinality(OfSession(before, s)) < PerSessionCap

-----------------------------------------------------------------------------
SchedulerInit ==
  /\ inflightGlobal = 0
  /\ inflightPerSession = [s \in Sessions |-> 0]
  /\ slot = [r \in Requests |-> "none"]
  /\ ahead = [r \in Requests |-> {}]

(* allocate(), under both caps: the slot is granted before the call returns. *)
Grant(r) ==
  /\ slot[r] \in {"none", "released"}
  /\ CanAdmit(SessionOf[r])
  /\ inflightGlobal' = inflightGlobal + 1
  /\ inflightPerSession' = [inflightPerSession EXCEPT ![SessionOf[r]] = @ + 1]
  /\ slot' = [slot EXCEPT ![r] = "live"]
  /\ UNCHANGED ahead

(* allocate(), a cap reached: the call waits at the end of the queue. *)
Enqueue(r) ==
  /\ slot[r] \in {"none", "released"}
  /\ ~CanAdmit(SessionOf[r])
  /\ slot' = [slot EXCEPT ![r] = "waiting"]
  /\ ahead' = [ahead EXCEPT ![r] = Waiters]
  /\ UNCHANGED <<inflightGlobal, inflightPerSession>>

(* The per-session counters once s has one slot less; an emptied session   *)
(* leaves the map.                                                         *)
OneLess(s) == [inflightPerSession EXCEPT ![s] = IF @ - 1 <= 0 THEN 0 ELSE @ - 1]

(* Mutant: a release that wakes nobody. *)
FreeSlotNoDrain(r) ==
  /\ inflightGlobal' = inflightGlobal - 1
  /\ inflightPerSession' = OneLess(SessionOf[r])
  /\ slot' = [slot EXCEPT ![r] = "released"]
  /\ UNCHANGED ahead

(* The first release() of a slot: both counters fall and the queue is      *)
(* drained in the same step.                                               *)
FreeSlot(r) ==
  LET g   == inflightGlobal - 1
      per == OneLess(SessionOf[r])
  IN \E G \in SUBSET Waiters :
       /\ IsDrain(G, g, per)
       /\ inflightGlobal' = g + Cardinality(G)
       /\ inflightPerSession' = [t \in Sessions |-> per[t] + Cardinality(OfSession(G, t))]
       /\ slot' = [q \in Requests |-> IF q \in G THEN "live"
                                       ELSE IF q = r THEN "released" ELSE slot[q]]
       /\ ahead' = [q \in Requests |-> IF q \in G THEN {} ELSE ahead[q] \ G]

(* Mutant: a release without the released flag. *)
ReleaseTwice(r) == slot[r] \in {"live", "released"} /\ FreeSlot(r)

(* release(), which the caller may reach twice: the second call returns at *)
(* the released flag.                                                      *)
Release(r) ==
  \/ slot[r] = "live" /\ FreeSlot(r)
  \/ slot[r] = "released" /\ UNCHANGED schedulerVars

SchedulerNext == \E r \in Requests : Grant(r) \/ Enqueue(r) \/ Release(r)

(* A holder's turn ends and its finally block runs: the VM calls inside    *)
(* have time limits.  Nothing makes a session ask for a slot.              *)
SchedulerFairness == \A r \in Requests : WF_schedulerVars(slot[r] = "live" /\ FreeSlot(r))

SchedulerSpec == SchedulerInit /\ [][SchedulerNext]_schedulerVars /\ SchedulerFairness

-----------------------------------------------------------------------------
SchedulerTypeOK ==
  /\ inflightGlobal \in Nat
  /\ inflightPerSession \in [Sessions -> Nat]
  /\ slot \in [Requests -> {"none", "waiting", "live", "released"}]
  /\ ahead \in [Requests -> SUBSET Requests]

(* The queue is a line: of two waiters one is in front of the other, and   *)
(* those in front of a waiter are waiters.                                 *)
QueueIsLine ==
  /\ \A r \in Requests : ahead[r] \subseteq Waiters /\ r \notin ahead[r]
  /\ \A r, q \in Waiters : r = q \/ r \in ahead[q] \/ q \in ahead[r]
  /\ \A r, q \in Requests : q \in ahead[r] => ahead[q] \subseteq ahead[r]

(* The two counters are exactly the live slots, over all turns and per     *)
(* session: what makes a second release, or a release that drains, unable  *)
(* to make the gate forget or invent a sandbox.                            *)
CountersExact ==
  /\ inflightGlobal = Cardinality(Holders)
  /\ \A s \in Sessions : inflightPerSession[s] = Cardinality(OfSession(Holders, s))

(* "Two caps, both enforced": never more live slots than either cap,       *)
(* counted on the slots themselves and not on the counters.                *)
WithinCaps ==
  /\ Cardinality(Holders) <= GlobalCap
  /\ \A s \in Sessions : Cardinality(OfSession(Holders, s)) <= PerSessionCap

(* The books and what they are kept for: releases that come twice, drains  *)
(* that admit several waiters at once, and skips over full sessions leave  *)
(* the counters exact and both caps kept.                                  *)
CapsKept == SchedulerTypeOK /\ CountersExact /\ WithinCaps

(* No lost wake-up: nobody waits who could be admitted now.  Every step    *)
(* that frees capacity must hand it to every waiter it fits.               *)
NoAdmissibleWaiter == \A r \in Waiters : ~CanAdmit(SessionOf[r])

(* The capacity is neither exceeded nor left unused while somebody waits.  *)
GateKept == CapsKept /\ NoAdmissibleWaiter

(* Queue fairness, "FIFO with skip-on-session-cap": a request that gets a  *)
(* slot, from the queue or on arrival, passes an earlier waiter only if    *)
(* that waiter's session is at its own cap after the step.                 *)
Overtaken(q, r) == q \in Waiters /\ (r \in Waiters => q \in ahead[r])

FifoWithSkip ==
  [][\A q, r \in Requests :
        (r \in Holders' \ Holders /\ Overtaken(q, r) /\ q \notin Holders')
          => Cardinality(OfSession(Holders, SessionOf[q]))' >= PerSessionCap]_schedulerVars

(* Everyone who queues is admitted, whatever the other sessions do: the    *)
(* skip rule starves nobody.                                               *)
WaitersAdmitted == \A r \in Requests : (r \in Waiters) ~> (r \in Holders)
=============================================================================
