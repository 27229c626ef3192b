--------------------------- MODULE SandboxProofs ----------------------------
(***************************************************************************)
(* Proofs about what a turn may take of the sandbox, what it leaves in it, *)
(* and the VMs it runs on.                                                 *)
(*                                                                         *)
(* The capacity gate, for every set of requests and sessions and all caps: *)
(* the counters are exactly the live slots (CountersExact), the queue is a *)
(* line (QueueIsLine), and a drain grants a waiter only while the grants   *)
(* in front of it leave room.  Counting the granted along the line then    *)
(* bounds how many a drain admits.                                         *)
(*                                                                         *)
(* The workspace, for every set of files and any number of turns, versions *)
(* and documents: how far the one active turn has come says what of its    *)
(* work is written, waiting, stored or reported (TurnFits).                *)
(*                                                                         *)
(* The pool, for any number of pattern runs, VMs and any cap.  PoolInv     *)
(* names the five places a VM can be in (with a run, parked, in a release, *)
(* in the prewarm, dying) and says that they are apart, that each holds a  *)
(* VM once and that a running container is in one of them; each step moves *)
(* VMs between two of the five.                                            *)
(***************************************************************************)
EXTENDS SandboxScheduler, WorkspaceSync, WarmPool, SandboxVMsProofs

(* The inductive invariant. *)
IInv ==
  /\ SchedulerTypeOK
  /\ QueueIsLine
  /\ CountersExact
  /\ WithinCaps
  /\ NoAdmissibleWaiter

-----------------------------------------------------------------------------
(* A finite line in which everyone has fewer than n before it has at most  *)
(* n members.                                                              *)
LEMMA LineBound ==
  ASSUME NEW S, IsFiniteSet(S), NEW before \in [S -> SUBSET S], NEW n \in Nat,
         \A x \in S : x \notin before[x],
         \A x, y \in S : x = y \/ x \in before[y] \/ y \in before[x],
         \A x, y \in S : y \in before[x] => before[y] \subseteq before[x],
         \A x \in S : Cardinality(before[x]) < n
  PROVE  Cardinality(S) <= n
<1> DEFINE rank == [x \in S |-> Cardinality(before[x])]
<1>1. \A x \in S : IsFiniteSet(before[x]) /\ Cardinality(before[x]) \in Nat
  BY FS_Subset, FS_CardinalityType
<1>2. \A x, y \in S : y \in before[x] => Cardinality(before[y]) < Cardinality(before[x])
  <2> TAKE x, y \in S
  <2> HAVE y \in before[x]
  <2>1. before[y] \in SUBSET before[x] /\ before[y] # before[x]
    OBVIOUS
  <2>2. /\ Cardinality(before[y]) <= Cardinality(before[x])
        /\ Cardinality(before[x]) = Cardinality(before[y]) => before[x] = before[y]
    BY <1>1, <2>1, FS_Subset
  <2> QED
    BY <1>1, <2>1, <2>2
<1>3. rank \in [S -> 0..(n - 1)]
  BY <1>1
<1>4. \A x, y \in S : rank[x] = rank[y] => x = y
  BY <1>1, <1>2
<1>5. rank \in Injection(S, 0..(n - 1))
  BY <1>3, <1>4 DEF Injection, IsInjective
<1>6. IsFiniteSet(0..(n - 1)) /\ Cardinality(0..(n - 1)) = n
  BY FS_Interval
<1> QED
  BY <1>5, <1>6, FS_Injection

(* A drain that admits anyone ends within the global cap, and within the   *)
(* cap of every session it admits someone of.                              *)
LEMMA DrainFits ==
  ASSUME SchedulerTypeOK, QueueIsLine, NEW G \in SUBSET Waiters,
         NEW g \in Nat, NEW per \in [Sessions -> Nat], IsDrain(G, g, per)
  PROVE  /\ G # {} => g + Cardinality(G) <= GlobalCap
         /\ \A s \in Sessions : OfSession(G, s) # {}
              => per[s] + Cardinality(OfSession(G, s)) <= PerSessionCap
<1>1. IsFiniteSet(G) /\ Cardinality(G) \in Nat
  BY SchedulerAssumption, FS_Subset, FS_CardinalityType DEF Waiters
<1>2. ASSUME NEW w \in G
      PROVE  /\ g + Cardinality(ahead[w] \cap G) < GlobalCap
             /\ per[SessionOf[w]] + Cardinality(OfSession(ahead[w] \cap G, SessionOf[w]))
                  < PerSessionCap
  BY <1>2 DEF IsDrain
<1>3. ASSUME NEW T \in SUBSET G
      PROVE  IsFiniteSet(T) /\ Cardinality(T) \in Nat
  BY <1>1, FS_Subset, FS_CardinalityType
<1>4. ASSUME G # {}
      PROVE  g + Cardinality(G) <= GlobalCap
  <2> DEFINE before == [w \in G |-> ahead[w] \cap G]
             n      == GlobalCap - g
  <2>1. \A w \in G : Cardinality(before[w]) < n /\ Cardinality(before[w]) \in Nat
    BY <1>2, <1>3, SchedulerAssumption
  <2>2. n \in Nat
    <3>1. PICK w \in G : Cardinality(before[w]) < n /\ Cardinality(before[w]) \in Nat
      BY <1>4, <2>1
    <3>2. n \in Int
      BY SchedulerAssumption
    <3> QED
      BY <3>1, <3>2
  <2>3. before \in [G -> SUBSET G]
    OBVIOUS
  <2>4. /\ \A x \in G : x \notin before[x]
        /\ \A x, y \in G : x = y \/ x \in before[y] \/ y \in before[x]
        /\ \A x, y \in G : y \in before[x] => before[y] \subseteq before[x]
    BY DEF QueueIsLine, Waiters
  <2> HIDE DEF before, n
  <2>5. Cardinality(G) <= n
    BY <1>1, <2>1, <2>2, <2>3, <2>4, LineBound
  <2> QED
    BY <1>1, <2>5, SchedulerAssumption DEF n
<1>5. ASSUME NEW s \in Sessions, OfSession(G, s) # {}
      PROVE  per[s] + Cardinality(OfSession(G, s)) <= PerSessionCap
  <2> DEFINE S      == OfSession(G, s)
             before == [w \in S |-> OfSession(ahead[w] \cap G, s)]
             n      == PerSessionCap - per[s]
  <2>0. IsFiniteSet(S) /\ Cardinality(S) \in Nat
    BY <1>3 DEF OfSession
  <2>1. \A w \in S : Cardinality(before[w]) < n /\ Cardinality(before[w]) \in Nat
    <3> SUFFICES ASSUME NEW w \in S
                 PROVE  Cardinality(before[w]) < n /\ Cardinality(before[w]) \in Nat
      OBVIOUS
    <3>1. w \in G /\ SessionOf[w] = s /\ before[w] = OfSession(ahead[w] \cap G, s)
      BY DEF OfSession
    <3>2. OfSession(ahead[w] \cap G, s) \in SUBSET G
      BY DEF OfSession
    <3>3. per[s] + Cardinality(before[w]) < PerSessionCap
      BY <1>2, <3>1
    <3>4. Cardinality(before[w]) \in Nat
      BY <1>3, <3>1, <3>2
    <3> QED
      <4> DEFINE k == Cardinality(before[w])
      <4> HIDE DEF k
      <4>1. k \in Nat /\ per[s] + k < PerSessionCap
        BY <3>3, <3>4 DEF k
      <4>2. per[s] \in Nat
        OBVIOUS
      <4>3. k < n /\ k \in Nat
        BY <4>1, <4>2, SchedulerAssumption
      <4> QED
        BY <4>3 DEF k
  <2>2. n \in Nat
    <3>1. PICK w \in S : Cardinality(before[w]) < n /\ Cardinality(before[w]) \in Nat
      BY <1>5, <2>1
    <3>2. n \in Int
      BY SchedulerAssumption
    <3> QED
      BY <3>1, <3>2
  <2>3. before \in [S -> SUBSET S]
    BY DEF OfSession
  <2>4. /\ \A x \in S : x \notin before[x]
        /\ \A x, y \in S : x = y \/ x \in before[y] \/ y \in before[x]
        /\ \A x, y \in S : y \in before[x] => before[y] \subseteq before[x]
    BY DEF QueueIsLine, Waiters, OfSession
  <2> HIDE DEF S, before, n
  <2>5. Cardinality(S) <= n
    BY <2>0, <2>1, <2>2, <2>3, <2>4, LineBound
  <2> QED
    BY <2>0, <2>5, SchedulerAssumption DEF n, S
<1> QED
  BY <1>4, <1>5
-----------------------------------------------------------------------------
(* Sets of requests are finite, so the caps can count them. *)
LEMMA RequestSets ==
  ASSUME NEW R \in SUBSET Requests
  PROVE  IsFiniteSet(R) /\ Cardinality(R) \in Nat
BY SchedulerAssumption, FS_Subset, FS_CardinalityType

(* Adding requests that were not there adds their number. *)
LEMMA DisjointUnion ==
  ASSUME NEW S \in SUBSET Requests, NEW T \in SUBSET Requests, S \cap T = {}
  PROVE  Cardinality(S \cup T) = Cardinality(S) + Cardinality(T)
<1>1. IsFiniteSet(S) /\ IsFiniteSet(T) /\ Cardinality(S) \in Nat /\ Cardinality(T) \in Nat
  BY RequestSets
<1>2. Cardinality(S \cup T) = Cardinality(S) + Cardinality(T) - Cardinality(S \cap T)
  BY <1>1, FS_Union
<1>3. Cardinality(S \cap T) = 0
  BY FS_EmptySet
<1> QED
  BY <1>1, <1>2, <1>3

(* The gate opens empty. *)
LEMMA InitInv == SchedulerInit => IInv
<1> SUFFICES ASSUME SchedulerInit PROVE IInv
  OBVIOUS
<1>1. Holders = {} /\ Waiters = {} /\ \A s \in Sessions : OfSession(Holders, s) = {}
  BY DEF SchedulerInit, Holders, Waiters, OfSession
<1>2. SchedulerTypeOK
  BY DEF SchedulerInit, SchedulerTypeOK
<1>3. CountersExact
  BY <1>1, FS_EmptySet DEF SchedulerInit, CountersExact
<1>4. WithinCaps
  BY <1>1, FS_EmptySet, SchedulerAssumption DEF WithinCaps
<1>5. QueueIsLine /\ NoAdmissibleWaiter
  BY <1>1 DEF SchedulerInit, QueueIsLine, NoAdmissibleWaiter
<1> QED
  BY <1>2, <1>3, <1>4, <1>5 DEF IInv

(* A slot granted on arrival keeps the invariant. *)
LEMMA GrantInv ==
  ASSUME IInv, NEW r \in Requests, Grant(r)
  PROVE  IInv'
<1> DEFINE s == SessionOf[r]
<1>0. /\ s \in Sessions /\ r \notin Holders
      /\ Holders \in SUBSET Requests
      /\ \A t \in Sessions : OfSession(Holders, t) \in SUBSET Requests
  BY SchedulerAssumption DEF Grant, Holders, OfSession
<1>1. SchedulerTypeOK'
  BY <1>0 DEF IInv, SchedulerTypeOK, Grant
<1>2. Holders' = Holders \cup {r} /\ Waiters' = Waiters
  BY DEF IInv, SchedulerTypeOK, Grant, Holders, Waiters
<1>3. OfSession(Holders', s) = OfSession(Holders, s) \cup {r}
  BY <1>2, <1>0 DEF OfSession
<1>4. \A t \in Sessions \ {s} : OfSession(Holders', t) = OfSession(Holders, t)
  BY <1>2, <1>0 DEF OfSession
<1>5. CountersExact'
  <2>1. inflightGlobal' = Cardinality(Holders')
    BY <1>0, <1>2, RequestSets, FS_AddElement DEF IInv, CountersExact, Grant
  <2>2. r \notin OfSession(Holders, s)
    BY <1>0 DEF OfSession
  <2>3. Cardinality(OfSession(Holders', s)) = Cardinality(OfSession(Holders, s)) + 1
    BY <1>0, <1>3, <2>2, RequestSets, FS_AddElement
  <2>4. \A t \in Sessions : inflightPerSession'[t] = Cardinality(OfSession(Holders', t))
    BY <1>0, <1>4, <2>3 DEF IInv, SchedulerTypeOK, CountersExact, Grant
  <2> QED
    BY <2>1, <2>4 DEF CountersExact, Holders, OfSession
<1>6. WithinCaps'
  <2>1. inflightGlobal' <= GlobalCap
    BY SchedulerAssumption DEF IInv, SchedulerTypeOK, Grant, CanAdmit
  <2>2. \A t \in Sessions : inflightPerSession'[t] <= PerSessionCap
    BY <1>0, SchedulerAssumption DEF IInv, SchedulerTypeOK, CountersExact, WithinCaps, Grant, CanAdmit
  <2> QED
    BY <1>5, <2>1, <2>2 DEF WithinCaps, CountersExact
<1>7. QueueIsLine'
  BY <1>2 DEF IInv, QueueIsLine, Grant
<1>8. NoAdmissibleWaiter'
  <2> SUFFICES ASSUME NEW w \in Waiters PROVE ~CanAdmit(SessionOf[w])'
    BY <1>2 DEF NoAdmissibleWaiter
  <2>1. SessionOf[w] \in Sessions
    BY SchedulerAssumption DEF Waiters
  <2>2. ~CanAdmit(SessionOf[w])
    BY DEF IInv, NoAdmissibleWaiter
  <2> QED
    BY <1>0, <2>1, <2>2, SchedulerAssumption DEF IInv, SchedulerTypeOK, CanAdmit, Grant
<1> QED
  BY <1>1, <1>5, <1>6, <1>7, <1>8 DEF IInv

(* A request that queues does: it queues because it does not fit. *)
LEMMA EnqueueInv ==
  ASSUME IInv, NEW r \in Requests, Enqueue(r)
  PROVE  IInv'
<1>1. SchedulerTypeOK'
  BY DEF IInv, SchedulerTypeOK, Enqueue, Waiters
<1>2. Holders' = Holders /\ Waiters' = Waiters \cup {r} /\ r \notin Waiters
  BY DEF IInv, SchedulerTypeOK, Enqueue, Holders, Waiters
<1>3. CountersExact' /\ WithinCaps'
  BY <1>2 DEF IInv, CountersExact, WithinCaps, Enqueue, OfSession
<1>4. QueueIsLine'
  <2>1. ahead' = [ahead EXCEPT ![r] = Waiters] /\ ahead \in [Requests -> SUBSET Requests]
    BY DEF IInv, SchedulerTypeOK, Enqueue
  <2>2. \A q \in Requests : ahead'[q] \subseteq Waiters' /\ q \notin ahead'[q]
    BY <1>2, <2>1 DEF IInv, QueueIsLine
  <2>3. \A p, q \in Waiters' : p = q \/ p \in ahead'[q] \/ q \in ahead'[p]
    BY <1>2, <2>1 DEF IInv, QueueIsLine, Waiters
  <2>4. \A p, q \in Requests : q \in ahead'[p] => ahead'[q] \subseteq ahead'[p]
    BY <1>2, <2>1 DEF IInv, QueueIsLine
  <2> QED
    BY <2>2, <2>3, <2>4 DEF QueueIsLine
<1>5. NoAdmissibleWaiter'
  BY <1>2 DEF IInv, NoAdmissibleWaiter, Enqueue, CanAdmit
<1> QED
  BY <1>1, <1>3, <1>4, <1>5 DEF IInv
-----------------------------------------------------------------------------
(* What a release computes before and after its drain. *)
LEMMA FreeSlotCounts ==
  ASSUME IInv, NEW r \in Requests, slot[r] = "live", NEW G \in SUBSET Waiters
  PROVE  LET g   == inflightGlobal - 1
             per == OneLess(SessionOf[r])
             H   == (Holders \ {r}) \cup G
         IN /\ g \in Nat /\ per \in [Sessions -> Nat]
            /\ g < GlobalCap /\ \A t \in Sessions : per[t] <= PerSessionCap
            /\ Cardinality(H) = g + Cardinality(G)
            /\ \A t \in Sessions :
                 Cardinality(OfSession(H, t)) = per[t] + Cardinality(OfSession(G, t))
<1> DEFINE s   == SessionOf[r]
           g   == inflightGlobal - 1
           per == OneLess(s)
           K   == Holders \ {r}
           H   == K \cup G
<1>1. /\ r \in Holders /\ Holders \in SUBSET Requests /\ s \in Sessions
      /\ G \in SUBSET Requests /\ K \in SUBSET Requests /\ K \cap G = {}
  BY SchedulerAssumption DEF Holders, Waiters
<1>2. Cardinality(K) = inflightGlobal - 1 /\ Cardinality(K) \in Nat
  BY <1>1, RequestSets, FS_RemoveElement DEF IInv, CountersExact
<1>3. Cardinality(H) = Cardinality(K) + Cardinality(G)
  BY <1>1, DisjointUnion
<1>4. \A t \in Sessions : per[t] = Cardinality(OfSession(K, t)) /\ per[t] \in Nat
  <2> TAKE t \in Sessions
  <2>0. OfSession(Holders, t) \in SUBSET Requests /\ OfSession(K, t) \in SUBSET Requests
    BY <1>1 DEF OfSession
  <2>1. inflightPerSession[t] = Cardinality(OfSession(Holders, t))
    BY DEF IInv, CountersExact
  <2>2. CASE t = s
    <3>1. r \in OfSession(Holders, t) /\ OfSession(K, t) = OfSession(Holders, t) \ {r}
      BY <1>1, <2>2 DEF OfSession
    <3>2. Cardinality(OfSession(K, t)) = inflightPerSession[t] - 1
      <4>1. IsFiniteSet(OfSession(Holders, t))
        BY <2>0, RequestSets
      <4>2. Cardinality(OfSession(Holders, t) \ {r}) = Cardinality(OfSession(Holders, t)) - 1
        BY <3>1, <4>1, FS_RemoveElement
      <4> QED
        BY <2>1, <3>1, <4>2
    <3>3. Cardinality(OfSession(K, t)) \in Nat
      BY <2>0, RequestSets
    <3> QED
      BY <2>2, <3>2, <3>3 DEF IInv, SchedulerTypeOK, OneLess
  <2>3. CASE t # s
    <3>1. OfSession(K, t) = OfSession(Holders, t)
      BY <2>3 DEF OfSession
    <3> QED
      BY <2>1, <2>3, <3>1 DEF IInv, SchedulerTypeOK, OneLess
  <2> QED
    BY <2>2, <2>3
<1>5. \A t \in Sessions :
        Cardinality(OfSession(H, t)) = per[t] + Cardinality(OfSession(G, t))
  <2> TAKE t \in Sessions
  <2>1. /\ OfSession(H, t) = OfSession(K, t) \cup OfSession(G, t)
        /\ OfSession(K, t) \cap OfSession(G, t) = {}
        /\ OfSession(K, t) \in SUBSET Requests /\ OfSession(G, t) \in SUBSET Requests
    BY <1>1 DEF OfSession
  <2>2. Cardinality(OfSession(H, t)) =
          Cardinality(OfSession(K, t)) + Cardinality(OfSession(G, t))
    BY <2>1, DisjointUnion
  <2> QED
    BY <1>4, <2>2
<1>6. per \in [Sessions -> Nat]
  BY <1>1, <1>4 DEF IInv, SchedulerTypeOK, OneLess
<1>7. g < GlobalCap
  BY <1>2, SchedulerAssumption DEF IInv, SchedulerTypeOK, CountersExact, WithinCaps
<1>8. \A t \in Sessions : per[t] <= PerSessionCap
  <2> TAKE t \in Sessions
  <2>1. inflightPerSession[t] <= PerSessionCap
    BY DEF IInv, CountersExact, WithinCaps
  <2>2. inflightPerSession[t] \in Nat /\ per[t] <= inflightPerSession[t]
    BY <1>1 DEF IInv, SchedulerTypeOK, OneLess
  <2> QED
    BY <1>4, <2>1, <2>2, SchedulerAssumption
<1> QED
  BY <1>2, <1>3, <1>5, <1>6, <1>7, <1>8

(* A release with its drain does: whom it passes over still does not fit. *)
LEMMA FreeSlotInv ==
  ASSUME IInv, NEW r \in Requests, slot[r] = "live", FreeSlot(r)
  PROVE  IInv'
<1> DEFINE s   == SessionOf[r]
           g   == inflightGlobal - 1
           per == OneLess(s)
<1>0. PICK G \in SUBSET Waiters :
        /\ IsDrain(G, g, per)
        /\ inflightGlobal' = g + Cardinality(G)
        /\ inflightPerSession' = [t \in Sessions |-> per[t] + Cardinality(OfSession(G, t))]
        /\ slot' = [q \in Requests |-> IF q \in G THEN "live"
                                        ELSE IF q = r THEN "released" ELSE slot[q]]
        /\ ahead' = [q \in Requests |-> IF q \in G THEN {} ELSE ahead[q] \ G]
  BY DEF FreeSlot
<1> HIDE DEF g, per
<1>1. /\ Holders' = (Holders \ {r}) \cup G
      /\ Waiters' = Waiters \ G
  BY <1>0 DEF Holders, Waiters
<1>2. /\ g \in Nat /\ per \in [Sessions -> Nat]
      /\ g < GlobalCap /\ \A t \in Sessions : per[t] <= PerSessionCap
      /\ Cardinality(Holders') = g + Cardinality(G)
      /\ \A t \in Sessions :
           Cardinality(OfSession(Holders', t)) = per[t] + Cardinality(OfSession(G, t))
  BY <1>1, FreeSlotCounts DEF g, per
<1>3. /\ G # {} => g + Cardinality(G) <= GlobalCap
      /\ \A t \in Sessions : OfSession(G, t) # {}
           => per[t] + Cardinality(OfSession(G, t)) <= PerSessionCap
  BY <1>0, <1>2, DrainFits DEF IInv
<1>4. /\ Cardinality(G) \in Nat
      /\ \A t \in Sessions : Cardinality(OfSession(G, t)) \in Nat
  BY RequestSets DEF Waiters, OfSession
<1>5. SchedulerTypeOK'
  <2>1. inflightGlobal' \in Nat /\ inflightPerSession' \in [Sessions -> Nat]
    BY <1>0, <1>2, <1>4
  <2>2. slot' \in [Requests -> {"none", "waiting", "live", "released"}]
    BY <1>0 DEF IInv, SchedulerTypeOK
  <2>3. ahead' \in [Requests -> SUBSET Requests]
    BY <1>0 DEF IInv, SchedulerTypeOK
  <2> QED
    BY <2>1, <2>2, <2>3 DEF SchedulerTypeOK
<1>6. CountersExact'
  BY <1>0, <1>2 DEF CountersExact
<1>7. WithinCaps'
  <2>0. Cardinality({}) = 0
    BY FS_EmptySet
  <2>1. Cardinality(Holders') <= GlobalCap
    <3>1. CASE G = {}
      BY <1>2, <2>0, <3>1, SchedulerAssumption
    <3>2. CASE G # {}
      BY <1>2, <1>3, <3>2
    <3> QED
      BY <3>1, <3>2
  <2>2. \A t \in Sessions : Cardinality(OfSession(Holders', t)) <= PerSessionCap
    <3> TAKE t \in Sessions
    <3>1. CASE OfSession(G, t) = {}
      <4>1. Cardinality(OfSession(Holders', t)) = per[t]
        BY <1>2, <2>0, <3>1
      <4> QED
        BY <1>2, <4>1
    <3>2. CASE OfSession(G, t) # {}
      BY <1>2, <1>3, <3>2
    <3> QED
      BY <3>1, <3>2
  <2> QED
    BY <2>1, <2>2 DEF WithinCaps
<1>8. QueueIsLine'
  <2>1. \A q \in Requests : ahead'[q] \subseteq Waiters' /\ q \notin ahead'[q]
    BY <1>0, <1>1 DEF IInv, QueueIsLine
  <2>2. \A p, q \in Waiters' : p = q \/ p \in ahead'[q] \/ q \in ahead'[p]
    BY <1>0, <1>1 DEF IInv, QueueIsLine, Waiters
  <2>3. \A p, q \in Requests : q \in ahead'[p] => ahead'[q] \subseteq ahead'[p]
    BY <1>0 DEF IInv, QueueIsLine
  <2> QED
    BY <2>1, <2>2, <2>3 DEF QueueIsLine
<1>9. NoAdmissibleWaiter'
  <2> SUFFICES ASSUME NEW w \in Waiters \ G PROVE ~CanAdmit(SessionOf[w])'
    BY <1>1 DEF NoAdmissibleWaiter
  <2> DEFINE t == SessionOf[w]
             B == ahead[w] \cap G
  <2>1. t \in Sessions /\ G \in SUBSET Requests /\ OfSession(G, t) \in SUBSET Requests
    BY SchedulerAssumption DEF Waiters, OfSession
  <2>2. Cardinality(B) <= Cardinality(G) /\ Cardinality(B) \in Nat
    <3>1. B \in SUBSET G /\ B \in SUBSET Requests
      BY <2>1
    <3> QED
      BY <2>1, <3>1, RequestSets, FS_Subset
  <2>3. /\ Cardinality(OfSession(B, t)) <= Cardinality(OfSession(G, t))
        /\ Cardinality(OfSession(B, t)) \in Nat
    <3>1. OfSession(B, t) \in SUBSET OfSession(G, t) /\ OfSession(B, t) \in SUBSET Requests
      BY <2>1 DEF OfSession
    <3> QED
      BY <2>1, <3>1, RequestSets, FS_Subset
  <2>4. ~(/\ g + Cardinality(B) < GlobalCap
          /\ per[t] + Cardinality(OfSession(B, t)) < PerSessionCap)
    BY <1>0 DEF IsDrain
  <2>5. /\ inflightGlobal' = g + Cardinality(G)
        /\ inflightPerSession'[t] = per[t] + Cardinality(OfSession(G, t))
    BY <1>0, <2>1
  <2>6. per[t] \in Nat
    BY <1>2, <2>1
  <2> HIDE DEF B, t
  <2>7. ~(inflightGlobal' < GlobalCap /\ inflightPerSession'[t] < PerSessionCap)
    BY <1>2, <1>4, <2>1, <2>2, <2>3, <2>4, <2>5, <2>6, SchedulerAssumption
  <2> QED
    BY <2>7 DEF CanAdmit, t
<1> QED
  BY <1>5, <1>6, <1>7, <1>8, <1>9 DEF IInv

(* So every step does. *)
LEMMA StepInv == IInv /\ [SchedulerNext]_schedulerVars => IInv'
<1> SUFFICES ASSUME IInv, [SchedulerNext]_schedulerVars PROVE IInv'
  OBVIOUS
<1>1. ASSUME NEW r \in Requests, Grant(r) PROVE IInv'
  BY <1>1, GrantInv
<1>2. ASSUME NEW r \in Requests, Enqueue(r) PROVE IInv'
  BY <1>2, EnqueueInv
<1>3. ASSUME NEW r \in Requests, slot[r] = "live", FreeSlot(r) PROVE IInv'
  BY <1>3, FreeSlotInv
<1>4. CASE UNCHANGED schedulerVars
  BY <1>4 DEF schedulerVars, IInv, SchedulerTypeOK, QueueIsLine, CountersExact, WithinCaps,
              NoAdmissibleWaiter, Holders, Waiters, OfSession, CanAdmit
<1> QED
  BY <1>1, <1>2, <1>3, <1>4 DEF SchedulerNext, Release

-----------------------------------------------------------------------------
(* The scheduler's state is well typed and its counters, caps, queue and   *)
(* wake-ups are right in every reachable state, for any caps and callers.  *)
THEOREM SchedulerInvariant == SchedulerSpec => []IInv
BY InitInv, StepInv, PTL DEF SchedulerSpec

(* Every variable keeps its type. *)
THEOREM TypeCorrect == SchedulerSpec => []SchedulerTypeOK
<1>1. IInv => SchedulerTypeOK
  BY DEF IInv
<1> QED
  BY <1>1, SchedulerInvariant, PTL

(* The counters are the live slots, whatever is released twice. *)
THEOREM CountersAreExact == SchedulerSpec => []CountersExact
<1>1. IInv => CountersExact
  BY DEF IInv
<1> QED
  BY <1>1, SchedulerInvariant, PTL

(* Neither cap is ever exceeded by the slots that are live, and the counters *)
(* that say so are exact.                                                    *)
THEOREM CapsHold == SchedulerSpec => []CapsKept
<1>1. IInv => CapsKept
  BY DEF IInv, CapsKept
<1> QED
  BY <1>1, SchedulerInvariant, PTL

(* No wake-up is lost: whoever waits could not be admitted. *)
THEOREM NoLostWakeup == SchedulerSpec => []NoAdmissibleWaiter
<1>1. IInv => NoAdmissibleWaiter
  BY DEF IInv
<1> QED
  BY <1>1, SchedulerInvariant, PTL

(* Both at once: what the gate may lend is never exceeded and never withheld.*)
THEOREM GateIsKept == SchedulerSpec => []GateKept
<1>1. CapsKept /\ NoAdmissibleWaiter => GateKept
  BY DEF GateKept
<1> QED
  BY <1>1, CapsHold, NoLostWakeup, PTL

(* The queue's fairness, for any caps and callers: whoever gets a slot     *)
(* before an earlier waiter leaves that waiter's session at its cap.       *)
THEOREM QueueIsFair == SchedulerSpec => FifoWithSkip
<1> DEFINE Fair ==
      \A q, r \in Requests :
        (r \in Holders' \ Holders /\ Overtaken(q, r) /\ q \notin Holders')
          => Cardinality(OfSession(Holders, SessionOf[q]))' >= PerSessionCap
<1>1. ASSUME IInv, IInv', [SchedulerNext]_schedulerVars PROVE Fair
  <2> SUFFICES ASSUME NEW q \in Requests, NEW r \in Requests,
                      r \in Holders' \ Holders, Overtaken(q, r), q \notin Holders'
               PROVE  Cardinality(OfSession(Holders, SessionOf[q]))' >= PerSessionCap
    OBVIOUS
  <2> DEFINE t == SessionOf[q]
  <2>0. t \in Sessions /\ q \in Waiters
    BY SchedulerAssumption DEF Overtaken
  <2>1. inflightPerSession'[t] = Cardinality(OfSession(Holders, t))'
    BY <1>1, <2>0 DEF IInv, CountersExact, OfSession
  <2>2. ASSUME NEW x \in Requests, Grant(x)
        PROVE  inflightPerSession'[t] >= PerSessionCap
    <3>1. x = r /\ CanAdmit(SessionOf[r]) /\ ~CanAdmit(t)
      BY <1>1, <2>0, <2>2 DEF IInv, SchedulerTypeOK, NoAdmissibleWaiter, Grant, Holders
    <3>2. inflightPerSession[t] >= PerSessionCap /\ inflightPerSession[t] \in Nat
      BY <1>1, <2>0, <3>1, SchedulerAssumption DEF IInv, SchedulerTypeOK, CanAdmit
    <3> QED
      BY <1>1, <2>0, <2>2, <3>2, SchedulerAssumption DEF IInv, SchedulerTypeOK, Grant
  <2>3. ASSUME NEW x \in Requests, Enqueue(x)
        PROVE  inflightPerSession'[t] >= PerSessionCap
    BY <1>1, <2>3 DEF IInv, SchedulerTypeOK, Enqueue, Holders
  <2>4. ASSUME NEW x \in Requests, slot[x] = "live", FreeSlot(x)
        PROVE  inflightPerSession'[t] >= PerSessionCap
    <3> DEFINE g   == inflightGlobal - 1
               per == OneLess(SessionOf[x])
    <3>1. PICK G \in SUBSET Waiters :
            /\ IsDrain(G, g, per)
            /\ inflightPerSession' = [u \in Sessions |-> per[u] + Cardinality(OfSession(G, u))]
            /\ slot' = [p \in Requests |-> IF p \in G THEN "live"
                                            ELSE IF p = x THEN "released" ELSE slot[p]]
      BY <2>4 DEF FreeSlot
    <3> DEFINE B == ahead[q] \cap G
               C == ahead[r] \cap G
    <3>2. r \in G /\ r \in Waiters /\ q \notin G /\ q \in ahead[r]
      BY <3>1 DEF Overtaken, Holders
    <3>3. /\ g \in Nat /\ per \in [Sessions -> Nat]
          /\ \A u \in Sessions : per[u] <= PerSessionCap
      BY <1>1, <2>4, <3>1, FreeSlotCounts
    <3>4. g + Cardinality(C) < GlobalCap
      BY <3>1, <3>2 DEF IsDrain
    <3>5. Cardinality(B) <= Cardinality(C) /\ Cardinality(B) \in Nat /\ Cardinality(C) \in Nat
      <4>1. B \in SUBSET C /\ B \in SUBSET Requests /\ C \in SUBSET Requests
        BY <1>1, <3>2 DEF IInv, QueueIsLine, Waiters
      <4> QED
        BY <4>1, RequestSets, FS_Subset
    <3>6. ~(/\ g + Cardinality(B) < GlobalCap
            /\ per[t] + Cardinality(OfSession(B, t)) < PerSessionCap)
      BY <2>0, <3>1, <3>2 DEF IsDrain
    <3>7. /\ Cardinality(OfSession(B, t)) <= Cardinality(OfSession(G, t))
          /\ Cardinality(OfSession(B, t)) \in Nat /\ Cardinality(OfSession(G, t)) \in Nat
      <4>1. /\ OfSession(B, t) \in SUBSET OfSession(G, t)
            /\ OfSession(B, t) \in SUBSET Requests
            /\ OfSession(G, t) \in SUBSET Requests
        BY DEF OfSession, Waiters
      <4> QED
        BY <4>1, RequestSets, FS_Subset
    <3>8. inflightPerSession'[t] = per[t] + Cardinality(OfSession(G, t)) /\ per[t] \in Nat
      BY <2>0, <3>1, <3>3
    <3> HIDE DEF g, per, B, C, t
    <3>9. ~(per[t] + Cardinality(OfSession(B, t)) < PerSessionCap)
      BY <3>3, <3>4, <3>5, <3>6, SchedulerAssumption
    <3> QED
      BY <3>7, <3>8, <3>9, SchedulerAssumption
  <2>5. CASE UNCHANGED schedulerVars
    BY <2>5 DEF schedulerVars, Holders
  <2> QED
    BY <1>1, <2>1, <2>2, <2>3, <2>4, <2>5 DEF SchedulerNext, Release
<1>2. SchedulerSpec => [][Fair]_schedulerVars
  <2>1. IInv /\ IInv' /\ [SchedulerNext]_schedulerVars => Fair
    BY <1>1
  <2> QED
    BY <2>1, SchedulerInvariant, PTL DEF SchedulerSpec
<1> QED
  BY <1>2 DEF FifoWithSkip

-----------------------------------------------------------------------------
(* The workspace of a session, when its turns follow one another and the    *)
(* listing in the container answers; without either the exchange does lose  *)
(* and repeat work, as a run shows.                                         *)
Names(s) == {s[n] : n \in 1..Len(s)}

TurnRec ==
  [pc : {"idle", "hydrate", "snapshot", "pattern", "promote"},
   baseline : [Files -> Versions], todo : Seq(Doc) \cup Seq(Files),
   present : SUBSET Files, reported : SUBSET (Files \cup {"hydrate"}), wrote : SUBSET Files]

(* Versions are handed out in order, so what a turn writes is newer than    *)
(* the baseline, and of everything else out holds the baseline or nothing.  *)
SyncTypes ==
  /\ in \in [Files -> Versions] /\ out \in [Files -> Versions] /\ version \in Versions
  /\ docs \in Seq(Doc) /\ turn \in [Turns -> TurnRec]
  /\ \A f \in Files : out[f] <= version

OneActive == \A t, u \in Turns : t # u => turn[t].pc = "idle" \/ turn[u].pc = "idle"

(* How far a turn has come.  Hydrating, it knows what is in /work/in; from  *)
(* its snapshot on, wrote is what has changed under /work/out; promoting,   *)
(* what it wrote is waiting, stored or reported.                            *)
TurnFits(r) ==
  /\ \A f \in Files : r.baseline[f] <= version
  /\ r.pc = "hydrate" => r.todo \in Seq(Doc) /\ \A f \in Files : in[f] # 0 => f \in r.present
  /\ r.pc \in {"hydrate", "snapshot"} => r.wrote = {}
  /\ r.pc = "pattern" => \A f \in Files \ r.wrote : out[f] \in {0, r.baseline[f]}
  /\ r.pc \in {"pattern", "promote"} => \A f \in r.wrote : out[f] > r.baseline[f]
  /\ r.pc = "promote" =>
       /\ r.todo \in Seq(Files) /\ Names(r.todo) \subseteq r.wrote
       /\ \A f \in r.wrote : f \in Names(r.todo) \/ f \in r.reported \/ <<f, out[f]>> \in Stored

SyncInv == SyncTypes /\ OneActive /\ \A t \in Turns : TurnFits(turn[t])

(* A list is its head and the rest.                                         *)
LEMMA HeadAndRest ==
  ASSUME NEW S, NEW s \in Seq(S), s # << >>
  PROVE  /\ Head(s) \in S /\ Tail(s) \in Seq(S) /\ Len(Tail(s)) < Len(s)
         /\ Names(s) = {Head(s)} \cup Names(Tail(s))
<1>1. /\ Head(s) \in S /\ Tail(s) \in Seq(S) /\ Len(Tail(s)) = Len(s) - 1
      /\ \A i \in 1..Len(Tail(s)) : Tail(s)[i] = s[i + 1]
  BY HeadTailProperties
<1>2. Len(s) \in Nat \ {0} /\ Head(s) = s[1]
  BY EmptySeq
<1>3. \A n \in 1..Len(s) : n = 1 \/ (n - 1 \in 1..Len(Tail(s)) /\ s[n] = Tail(s)[n - 1])
  BY <1>1, <1>2
<1>4. \A i \in 1..Len(Tail(s)) : i + 1 \in 1..Len(s) /\ Tail(s)[i] = s[i + 1]
  BY <1>1, <1>2
<1>5. ASSUME NEW x \in Names(s) PROVE x \in {Head(s)} \cup Names(Tail(s))
  <2>1. PICK n \in 1..Len(s) : x = s[n]
    BY DEF Names
  <2>2. CASE n = 1
    BY <1>2, <2>1, <2>2
  <2>3. CASE n - 1 \in 1..Len(Tail(s)) /\ s[n] = Tail(s)[n - 1]
    BY <2>1, <2>3 DEF Names
  <2> QED
    BY <1>3, <2>2, <2>3
<1>6. {Head(s)} \cup Names(Tail(s)) \subseteq Names(s)
  BY <1>2, <1>4 DEF Names
<1> QED
  BY <1>1, <1>2, <1>5, <1>6

(* What is in the store stays there, and what is appended is in it.         *)
LEMMA StoreGrows ==
  ASSUME docs \in Seq(Doc), NEW d \in Doc, docs' = Append(docs, d)
  PROVE  /\ docs' \in Seq(Doc) /\ Len(docs') = Len(docs) + 1 /\ docs'[Len(docs')] = d
         /\ Stored' = Stored \cup {<<d.name, d.ver>>}
<1>1. /\ docs' \in Seq(Doc) /\ Len(docs') = Len(docs) + 1 /\ docs'[Len(docs) + 1] = d
      /\ \A i \in 1..Len(docs) : docs'[i] = docs[i]
  BY AppendProperties
<1>2. Len(docs) \in Nat /\ DOMAIN docs = 1..Len(docs) /\ DOMAIN docs' = 1..Len(docs')
  BY <1>1, LenProperties
<1>3. Stored' \subseteq Stored \cup {<<d.name, d.ver>>}
  <2>1. \A i \in DOMAIN docs' : (i \in DOMAIN docs /\ docs'[i] = docs[i]) \/ docs'[i] = d
    BY <1>1, <1>2
  <2> QED
    BY <2>1 DEF Stored
<1>4. Stored \cup {<<d.name, d.ver>>} \subseteq Stored'
  <2>1. /\ \A i \in DOMAIN docs : i \in DOMAIN docs' /\ docs'[i] = docs[i]
        /\ Len(docs') \in DOMAIN docs' /\ docs'[Len(docs')] = d
    BY <1>1, <1>2
  <2> QED
    BY <2>1 DEF Stored
<1> QED
  BY <1>1, <1>3, <1>4

LEMMA SyncInitInv == SyncInit => SyncInv
<1> SUFFICES ASSUME SyncInit PROVE SyncInv
  OBVIOUS
<1>1. NoFiles \in [Files -> Versions] /\ \A f \in Files : NoFiles[f] = 0
  BY SyncAssumption DEF NoFiles, Versions
<1>2. << >> \in Seq(Doc)
  OBVIOUS
<1>3. Idle \in TurnRec /\ Idle.pc = "idle" /\ Idle.baseline = NoFiles
  BY <1>1, <1>2 DEF Idle, TurnRec
<1>4. SyncTypes
  BY <1>1, <1>2, <1>3, SyncAssumption DEF SyncInit, SyncTypes, Versions
<1>5. OneActive /\ \A t \in Turns : TurnFits(turn[t])
  BY <1>1, <1>3 DEF SyncInit, OneActive, TurnFits
<1> QED
  BY <1>4, <1>5 DEF SyncInv

(* A step of one turn, the only one there is: the others are idle.          *)
LEMMA TurnTaken ==
  ASSUME SyncInv, NEW t \in Turns, NEW r \in TurnRec, turn' = [turn EXCEPT ![t] = r],
         turn[t].pc # "idle" \/ Active = {}, TurnFits(turn[t])',
         in' \in [Files -> Versions], out' \in [Files -> Versions], docs' \in Seq(Doc),
         version' \in Versions, version' >= version, \A f \in Files : out'[f] <= version'
  PROVE  SyncInv'
<1>1. turn'[t] = r /\ \A u \in Turns \ {t} : turn'[u] = turn[u] /\ turn[u].pc = "idle"
  BY DEF SyncInv, SyncTypes, OneActive, Active
<1>2. SyncTypes'
  BY DEF SyncInv, SyncTypes
<1>3. OneActive'
  BY <1>1 DEF OneActive
<1>4. ASSUME NEW u \in Turns PROVE TurnFits(turn[u])'
  <2>1. CASE u = t
    BY <2>1
  <2>2. CASE u # t
    <3>1. turn[u] \in TurnRec /\ turn[u].baseline \in [Files -> Versions]
      BY DEF SyncInv, SyncTypes, TurnRec
    <3>2. \A f \in Files : turn[u].baseline[f] <= version'
      BY <3>1, SyncAssumption DEF SyncInv, SyncTypes, TurnFits, Versions
    <3> QED
      BY <1>1, <2>2, <3>2 DEF TurnFits
  <2> QED
    BY <2>1, <2>2
<1> QED
  BY <1>2, <1>3, <1>4 DEF SyncInv

LEMMA TurnMoves ==
  ASSUME SyncInv, NEW t \in Turns, NEW r \in TurnRec, turn' = [turn EXCEPT ![t] = r],
         turn[t].pc # "idle" \/ Active = {}, TurnFits(turn[t])',
         in' \in [Files -> Versions], out' = out, docs' = docs, version' = version
  PROVE  SyncInv'
<1>1. /\ out \in [Files -> Versions] /\ docs \in Seq(Doc) /\ version \in Versions
      /\ version >= version /\ \A f \in Files : out[f] <= version
  BY SyncAssumption DEF SyncInv, SyncTypes, Versions
<1>2. /\ out' \in [Files -> Versions] /\ docs' \in Seq(Doc) /\ version' \in Versions
      /\ version' >= version /\ \A f \in Files : out'[f] <= version'
  BY <1>1
<1> QED
  BY <1>2, TurnTaken

(* A turn starts and hydrates; nothing has been written yet.                *)
LEMMA HydrationInv ==
  ASSUME SyncInv, ~Overlap, ~ListFails, NEW t \in Turns,
         StartTurn(t) \/ HydrateFile(t) \/ Hydrated(t) \/ Snapshot(t)
  PROVE  SyncInv'
<1> USE DEF Versions, Go
<1> DEFINE r == turn[t]
<1>1. /\ r \in TurnRec /\ TurnFits(r) /\ version \in Nat
      /\ in \in [Files -> Versions] /\ out \in [Files -> Versions] /\ version \in Versions
      /\ docs \in Seq(Doc) /\ turn \in [Turns -> TurnRec]
      /\ \A f \in Files : out[f] <= version
  BY SyncAssumption DEF SyncInv, SyncTypes
<1>2. Listings(in) = {in} /\ Listings(out) = {out}
  BY DEF Listings
<1>3. CASE StartTurn(t)
  <2>1. NoFiles \in [Files -> Versions] /\ \A f \in Files : NoFiles[f] = 0
    BY SyncAssumption DEF NoFiles
  <2>2. Reversed(docs) \in Seq(Doc)
    BY <1>1 DEF Reversed
  <2>3. << >> \in Seq(Doc)
    OBVIOUS
  <2>4. CASE turn' = [turn EXCEPT ![t] = [Idle EXCEPT !.pc = "hydrate", !.todo = Reversed(docs),
                                            !.present = {f \in Files : in[f] # 0}]]
    <3> DEFINE q == [Idle EXCEPT !.pc = "hydrate", !.todo = Reversed(docs), !.present = {f \in Files : in[f] # 0}]
    <3>1. q \in TurnRec
      BY <2>1, <2>2 DEF Idle, TurnRec
    <3>2. /\ q.pc = "hydrate" /\ q.baseline = NoFiles /\ q.todo = Reversed(docs) /\ q.wrote = {}
          /\ q.present = {f \in Files : in[f] # 0}
      BY DEF Idle
    <3> HIDE DEF q
    <3>3. turn'[t] = q /\ UNCHANGED <<in, out, docs, version>>
      BY <1>1, <1>3, <2>4 DEF StartTurn, q
    <3>4. TurnFits(turn[t])'
      BY <1>1, <2>1, <2>2, <3>2, <3>3 DEF TurnFits
    <3>5. turn' = [turn EXCEPT ![t] = q] /\ Active = {}
      BY <1>3, <2>4 DEF StartTurn, q
    <3> QED
      BY <1>1, <3>1, <3>3, <3>4, <3>5, TurnMoves
  <2>5. CASE turn' = [turn EXCEPT ![t] = [Idle EXCEPT !.pc = "snapshot", !.reported = {"hydrate"}]]
    <3> DEFINE q == [Idle EXCEPT !.pc = "snapshot", !.reported = {"hydrate"}]
    <3>1. q \in TurnRec
      BY <2>1, <2>3 DEF Idle, TurnRec
    <3>2. q.pc = "snapshot" /\ q.baseline = NoFiles /\ q.wrote = {}
      BY DEF Idle
    <3> HIDE DEF q
    <3>3. turn'[t] = q /\ UNCHANGED <<in, out, docs, version>>
      BY <1>1, <1>3, <2>5 DEF StartTurn, q
    <3>4. TurnFits(turn[t])'
      BY <1>1, <2>1, <3>2, <3>3 DEF TurnFits
    <3>5. turn' = [turn EXCEPT ![t] = q] /\ Active = {}
      BY <1>3, <2>5 DEF StartTurn, q
    <3> QED
      BY <1>1, <3>1, <3>3, <3>4, <3>5, TurnMoves
  <2> QED
    BY <1>2, <1>3, <2>4, <2>5 DEF StartTurn
<1>4. CASE HydrateFile(t)
  <2> DEFINE doc == Head(r.todo)
             rest == [r EXCEPT !.todo = Tail(@)]
  <2>1. /\ r.pc = "hydrate" /\ r.todo \in Seq(Doc) /\ r.todo # << >>
        /\ UNCHANGED <<out, docs, version>>
    BY <1>1, <1>4 DEF HydrateFile, TurnFits
  <2>2. doc \in Doc /\ Tail(r.todo) \in Seq(Doc)
    BY <2>1, HeadAndRest
  <2>3. doc.name \in Files /\ doc.ver \in Versions
    BY <2>2 DEF Doc
  <2>4. PICK q \in TurnRec :
          /\ turn' = [turn EXCEPT ![t] = q]
          /\ q.pc = "hydrate" /\ q.todo = Tail(r.todo) /\ q.wrote = r.wrote /\ q.baseline = r.baseline
          /\ r.present \subseteq q.present
          /\ in' = in \/ (in' = [in EXCEPT ![doc.name] = doc.ver] /\ doc.name \in q.present)
    <3>1. CASE turn' = [turn EXCEPT ![t] = rest] /\ in' = in
      <4>1. rest \in TurnRec
        BY <1>1, <2>2 DEF TurnRec
      <4> QED
        BY <1>1, <2>1, <3>1, <4>1 DEF TurnRec
    <3>2. CASE /\ turn' = [turn EXCEPT ![t] = [rest EXCEPT !.present = @ \cup {doc.name}]]
               /\ in' = [in EXCEPT ![doc.name] = doc.ver]
      <4>1. [rest EXCEPT !.present = @ \cup {doc.name}] \in TurnRec
        BY <1>1, <2>2, <2>3 DEF TurnRec
      <4> QED
        BY <1>1, <2>1, <3>2, <4>1 DEF TurnRec
    <3>3. CASE turn' = [turn EXCEPT ![t] = [rest EXCEPT !.reported = @ \cup {"hydrate"}]] /\ in' = in
      <4>1. [rest EXCEPT !.reported = @ \cup {"hydrate"}] \in TurnRec
        BY <1>1, <2>2 DEF TurnRec
      <4> QED
        BY <1>1, <2>1, <3>3, <4>1 DEF TurnRec
    <3> QED
      BY <1>4, <3>1, <3>2, <3>3 DEF HydrateFile
  <2>5. turn'[t] = q
    BY <1>1, <2>4
  <2>6. in' \in [Files -> Versions] /\ \A f \in Files : in'[f] # 0 => f \in q.present
    BY <1>1, <2>1, <2>3, <2>4 DEF TurnFits
  <2>7. TurnFits(turn[t])'
    BY <1>1, <2>1, <2>2, <2>4, <2>5, <2>6 DEF TurnFits
  <2> QED
    BY <1>1, <2>1, <2>4, <2>6, <2>7, TurnMoves
<1>5. CASE Hydrated(t)
  <2> DEFINE q == [r EXCEPT !.pc = "snapshot"]
  <2>1. q \in TurnRec /\ q.pc = "snapshot" /\ q.baseline = r.baseline /\ q.wrote = r.wrote
    BY <1>1 DEF TurnRec
  <2>2. turn' = [turn EXCEPT ![t] = q] /\ r.pc = "hydrate" /\ UNCHANGED <<in, out, docs, version>>
    BY <1>5 DEF Hydrated
  <2> HIDE DEF q
  <2>3. TurnFits(turn[t])'
    BY <1>1, <2>1, <2>2 DEF TurnFits
  <2> QED
    BY <1>1, <2>1, <2>2, <2>3, TurnMoves
<1>6. CASE Snapshot(t)
  <2> DEFINE q == [r EXCEPT !.pc = "pattern", !.baseline = out]
  <2>1. q \in TurnRec /\ q.pc = "pattern" /\ q.baseline = out /\ q.wrote = r.wrote
    BY <1>1 DEF TurnRec
  <2>2. turn' = [turn EXCEPT ![t] = q] /\ r.pc = "snapshot" /\ UNCHANGED <<in, out, docs, version>>
    BY <1>2, <1>6 DEF Snapshot
  <2> HIDE DEF q
  <2>3. TurnFits(turn[t])'
    BY <1>1, <2>1, <2>2 DEF TurnFits
  <2>4. turn[t].pc # "idle" \/ Active = {}
    BY <2>2
  <2> QED
    BY <1>1, <2>1, <2>2, <2>3, <2>4, TurnMoves
<1> QED
  BY <1>3, <1>4, <1>5, <1>6

(* What the agent does under /work/out is in wrote, and newer than all that *)
(* was there.                                                               *)
LEMMA WorkInv ==
  ASSUME SyncInv, NEW t \in Turns, Write(t) \/ Remove(t)
  PROVE  SyncInv'
<1> USE DEF Go
<1> DEFINE r == turn[t]
<1>1. /\ r \in TurnRec /\ TurnFits(r) /\ version \in Nat /\ r.baseline \in [Files -> Versions]
      /\ in \in [Files -> Versions] /\ out \in [Files -> Versions] /\ version \in Versions
      /\ docs \in Seq(Doc) /\ turn \in [Turns -> TurnRec] /\ Versions \subseteq Nat
      /\ \A f \in Files : out[f] <= version
  BY SyncAssumption DEF SyncInv, SyncTypes, Versions, TurnRec
<1>2. \A f \in Files : out[f] \in Nat /\ r.baseline[f] \in Nat
  BY <1>1
<1>3. CASE Write(t)
  <2>1. r.pc = "pattern" /\ version' = version + 1 /\ version' \in Versions /\ docs' = docs
    BY <1>1, <1>3, SyncAssumption DEF Write, Versions
  <2>2. CASE \E f \in Files : out' = [out EXCEPT ![f] = version'] /\ in' = in
                              /\ turn' = [turn EXCEPT ![t] = [r EXCEPT !.wrote = @ \cup {f}]]
    <3>1. PICK f \in Files : out' = [out EXCEPT ![f] = version'] /\ in' = in
                             /\ turn' = [turn EXCEPT ![t] = [r EXCEPT !.wrote = @ \cup {f}]]
      BY <2>2
    <3> DEFINE q == [r EXCEPT !.wrote = @ \cup {f}]
    <3>2. q \in TurnRec /\ q.pc = "pattern" /\ q.baseline = r.baseline /\ q.wrote = r.wrote \cup {f}
      BY <1>1, <2>1 DEF TurnRec
    <3>3. turn' = [turn EXCEPT ![t] = q] /\ turn[t].pc # "idle"
      BY <2>1, <3>1
    <3> HIDE DEF q
    <3>4. out' \in [Files -> Versions] /\ \A g \in Files : out'[g] = IF g = f THEN version' ELSE out[g]
      BY <1>1, <2>1, <3>1
    <3>5. turn'[t] = q
      BY <1>1, <3>3
    <3>6. TurnFits(turn[t])'
      <4>1. \A g \in Files : q.baseline[g] <= version /\ q.baseline[g] \in Nat /\ out[g] \in Nat
        BY <1>1, <3>2 DEF TurnFits
      <4>2. \A g \in Files \ r.wrote : out[g] \in {0, q.baseline[g]}
        BY <1>1, <2>1, <3>2 DEF TurnFits
      <4>3. r.wrote \subseteq Files /\ \A g \in r.wrote : out[g] > q.baseline[g]
        BY <1>1, <2>1, <3>2 DEF TurnFits, TurnRec
      <4>4. \A g \in Files \ q.wrote : out'[g] \in {0, q.baseline[g]}
        BY <3>2, <3>4, <4>2
      <4>5. \A g \in q.wrote : out'[g] > q.baseline[g]
        BY <1>1, <2>1, <3>2, <3>4, <4>1, <4>3
      <4>6. \A g \in Files : q.baseline[g] <= version'
        BY <1>1, <2>1, <4>1
      <4> QED
        BY <3>2, <3>5, <4>4, <4>5, <4>6 DEF TurnFits
    <3>7. version' >= version /\ \A g \in Files : out'[g] <= version'
      <4>1. version' \in Nat /\ version' >= version /\ \A g \in Files : out[g] <= version'
        BY <1>1, <1>2, <2>1
      <4> QED
        BY <3>4, <4>1
    <3>8. in' \in [Files -> Versions] /\ docs' \in Seq(Doc)
      BY <1>1, <2>1, <3>1
    <3> QED
      BY <2>1, <3>2, <3>3, <3>4, <3>6, <3>7, <3>8, TurnTaken
  <2>3. CASE \E f \in Files : in' = [in EXCEPT ![f] = version'] /\ out' = out /\ turn' = turn
    <3>1. PICK f \in Files : in' = [in EXCEPT ![f] = version'] /\ out' = out /\ turn' = turn
      BY <2>3
    <3>2. turn' = [turn EXCEPT ![t] = r] /\ turn[t].pc # "idle"
      BY <1>1, <2>1, <3>1
    <3>3. TurnFits(turn[t])'
      <4>1. \A g \in Files : r.baseline[g] <= version'
        BY <1>1, <1>2, <2>1 DEF TurnFits
      <4> QED
        BY <1>1, <2>1, <3>1, <4>1 DEF TurnFits
    <3>4. in' \in [Files -> Versions] /\ out' \in [Files -> Versions] /\ docs' \in Seq(Doc)
      BY <1>1, <2>1, <3>1
    <3>5. version' >= version /\ \A g \in Files : out'[g] <= version'
      BY <1>1, <1>2, <2>1, <3>1
    <3> QED
      BY <1>1, <2>1, <3>2, <3>3, <3>4, <3>5, TurnTaken
  <2> QED
    BY <1>3, <2>2, <2>3 DEF Write
<1>4. CASE Remove(t)
  <2>1. PICK f \in Files : /\ r.pc = "pattern" /\ out' = [out EXCEPT ![f] = 0]
                           /\ turn' = [turn EXCEPT ![t] = [r EXCEPT !.wrote = @ \ {f}]]
                           /\ in' = in /\ docs' = docs /\ version' = version
    BY <1>4 DEF Remove
  <2> DEFINE q == [r EXCEPT !.wrote = @ \ {f}]
  <2>2. q \in TurnRec /\ q.pc = "pattern" /\ q.baseline = r.baseline /\ q.wrote = r.wrote \ {f}
    BY <1>1, <2>1 DEF TurnRec
  <2>3. turn' = [turn EXCEPT ![t] = q] /\ turn[t].pc # "idle"
    BY <2>1
  <2> HIDE DEF q
  <2>4. /\ out' \in [Files -> Versions] /\ \A g \in Files : out'[g] = IF g = f THEN 0 ELSE out[g]
        /\ turn'[t] = q
    BY <1>1, <2>1, <2>3, SyncAssumption DEF Versions
  <2>5. TurnFits(turn[t])'
    <3>1. /\ \A g \in Files : q.baseline[g] <= version /\ q.baseline[g] \in Nat /\ out[g] \in Nat
          /\ \A g \in Files \ r.wrote : out[g] \in {0, q.baseline[g]}
          /\ r.wrote \subseteq Files /\ \A g \in r.wrote : out[g] > q.baseline[g]
      BY <1>1, <2>1, <2>2 DEF TurnFits, TurnRec
    <3>2. \A g \in Files \ q.wrote : out'[g] \in {0, q.baseline[g]}
      BY <2>2, <2>4, <3>1
    <3>3. \A g \in q.wrote : out'[g] > q.baseline[g]
      BY <2>2, <2>4, <3>1
    <3> QED
      BY <2>1, <2>2, <2>4, <3>1, <3>2, <3>3 DEF TurnFits
  <2>6. version' >= version /\ \A g \in Files : out'[g] <= version'
    BY <1>1, <2>1, <2>4
  <2>7. in' \in [Files -> Versions] /\ docs' \in Seq(Doc) /\ version' \in Versions
    BY <1>1, <2>1
  <2> QED
    BY <2>2, <2>3, <2>4, <2>5, <2>6, <2>7, TurnTaken
<1> QED
  BY <1>3, <1>4

(* The files that changed since the baseline are those the turn wrote, and  *)
(* each of them is stored or reported before the turn ends.                 *)
LEMMA PromotionInv ==
  ASSUME SyncInv, ~ListFails, NEW t \in Turns, EndPattern(t) \/ PromoteFile(t) \/ EndTurn(t)
  PROVE  SyncInv'
<1> USE DEF Go
<1> DEFINE r == turn[t]
<1>1. /\ r \in TurnRec /\ TurnFits(r) /\ version \in Nat /\ r.baseline \in [Files -> Versions]
      /\ r.wrote \subseteq Files
      /\ in \in [Files -> Versions] /\ out \in [Files -> Versions] /\ version \in Versions
      /\ docs \in Seq(Doc) /\ turn \in [Turns -> TurnRec] /\ Versions \subseteq Nat
      /\ \A f \in Files : out[f] <= version
  BY SyncAssumption DEF SyncInv, SyncTypes, Versions, TurnRec
<1>2. Listings(out) = {out}
  BY DEF Listings
<1>3. CASE EndPattern(t)
  <2> DEFINE S == Changed(r.baseline, out)
  <2>1. PICK order \in [1..Cardinality(S) -> S] :
          /\ IsOrderOf(order, S) /\ r.pc = "pattern"
          /\ turn' = [turn EXCEPT ![t] = [r EXCEPT !.pc = "promote", !.todo = order]]
          /\ UNCHANGED <<in, out, docs, version>>
    BY <1>2, <1>3 DEF EndPattern
  <2>2. S = r.wrote
    <3>1. \A f \in Files : out[f] \in Nat /\ r.baseline[f] \in Nat
      BY <1>1
    <3> QED
      BY <1>1, <2>1, <3>1 DEF TurnFits, Changed
  <2>3. Cardinality(S) \in Nat
    BY <1>1, <2>2, FS_Subset, FS_CardinalityType, SyncAssumption
  <2>4. order \in Seq(Files) /\ Names(order) = r.wrote
    <3>1. order \in Seq(S) /\ DOMAIN order = 1..Len(order)
      BY <2>1, <2>3
    <3>2. order \in Seq(Files)
      <4>1. S \subseteq Files
        BY DEF Changed
      <4>2. \A i \in 1..Cardinality(S) : order[i] \in Files
        BY <2>1, <4>1
      <4> HIDE DEF S
      <4> QED
        BY <2>1, <2>3, <4>2
    <3> QED
      BY <2>1, <2>2, <3>1, <3>2 DEF IsOrderOf, Names
  <2> HIDE DEF S
  <2> DEFINE q == [r EXCEPT !.pc = "promote", !.todo = order]
  <2>5. q \in TurnRec /\ q.pc = "promote" /\ q.baseline = r.baseline /\ q.wrote = r.wrote /\ q.todo = order
    BY <1>1, <2>4 DEF TurnRec
  <2>6. turn' = [turn EXCEPT ![t] = q] /\ turn[t].pc # "idle"
    BY <2>1
  <2> HIDE DEF q
  <2>7. turn'[t] = q
    BY <1>1, <2>6
  <2>8. TurnFits(turn[t])'
    BY <1>1, <2>1, <2>4, <2>5, <2>7 DEF TurnFits
  <2> QED
    BY <1>1, <2>1, <2>5, <2>6, <2>8, TurnMoves
<1>4. CASE PromoteFile(t)
  <2> DEFINE f    == Head(r.todo)
             rest == [r EXCEPT !.todo = Tail(@)]
  <2>1. /\ r.pc = "promote" /\ r.todo \in Seq(Files) /\ r.todo # << >>
        /\ UNCHANGED <<in, out, version>>
    BY <1>1, <1>4 DEF PromoteFile, TurnFits
  <2>2. f \in Files /\ Tail(r.todo) \in Seq(Files) /\ Names(r.todo) = {f} \cup Names(Tail(r.todo))
    BY <2>1, HeadAndRest
  <2>3. f \in r.wrote /\ out[f] \in 1..MaxVersion
    <3>1. f \in r.wrote /\ out[f] > r.baseline[f]
      BY <1>1, <2>1, <2>2 DEF TurnFits
    <3>2. r.baseline[f] \in Nat /\ out[f] \in Versions
      BY <1>1, <2>2
    <3> QED
      BY <3>1, <3>2, SyncAssumption DEF Versions
  <2>4. PICK q \in TurnRec :
          /\ turn' = [turn EXCEPT ![t] = q]
          /\ q.pc = "promote" /\ q.todo = Tail(r.todo) /\ q.wrote = r.wrote /\ q.baseline = r.baseline
          /\ r.reported \subseteq q.reported
          /\ docs' \in Seq(Doc) /\ Stored \subseteq Stored'
          /\ f \in q.reported \/ <<f, out[f]>> \in Stored'
    <3>1. CASE docs' = Append(docs, [name |-> f, ver |-> out[f]]) /\ turn' = [turn EXCEPT ![t] = rest]
      <4>1. rest \in TurnRec
        BY <1>1, <2>2 DEF TurnRec
      <4>2. [name |-> f, ver |-> out[f]] \in Doc
        BY <2>2, <2>3 DEF Doc
      <4>3. docs' \in Seq(Doc) /\ Stored' = Stored \cup {<<f, out[f]>>}
        BY <1>1, <3>1, <4>2, StoreGrows
      <4> QED
        BY <1>1, <2>1, <3>1, <4>1, <4>3 DEF TurnRec
    <3>2. CASE docs' = docs /\ turn' = [turn EXCEPT ![t] = [rest EXCEPT !.reported = @ \cup {f}]]
      <4>1. [rest EXCEPT !.reported = @ \cup {f}] \in TurnRec
        BY <1>1, <2>2 DEF TurnRec
      <4>2. Stored' = Stored
        BY <3>2 DEF Stored
      <4> QED
        BY <1>1, <2>1, <3>2, <4>1, <4>2 DEF TurnRec
    <3> QED
      BY <1>4, <3>1, <3>2 DEF PromoteFile
  <2>5. turn'[t] = q /\ turn[t].pc # "idle"
    BY <1>1, <2>1, <2>4
  <2> HIDE DEF f, rest
  <2>6. TurnFits(turn[t])'
    <3>1. \A g \in q.wrote : g \in Names(q.todo) \/ g \in q.reported \/ <<g, out[g]>> \in Stored'
      BY <1>1, <2>1, <2>2, <2>4 DEF TurnFits
    <3>2. Names(q.todo) \subseteq q.wrote /\ q.todo \in Seq(Files)
      BY <1>1, <2>1, <2>2, <2>4 DEF TurnFits
    <3> QED
      BY <1>1, <2>1, <2>4, <2>5, <3>1, <3>2 DEF TurnFits
  <2>7. /\ in' \in [Files -> Versions] /\ out' \in [Files -> Versions] /\ version' \in Versions
        /\ version' >= version /\ \A g \in Files : out'[g] <= version'
    BY <1>1, <2>1
  <2> QED
    BY <2>4, <2>5, <2>6, <2>7, TurnTaken
<1>5. CASE EndTurn(t)
  <2>1. NoFiles \in [Files -> Versions] /\ \A f \in Files : NoFiles[f] = 0
    BY SyncAssumption DEF NoFiles, Versions
  <2>2. << >> \in Seq(Doc)
    OBVIOUS
  <2>3. Idle \in TurnRec /\ Idle.pc = "idle" /\ Idle.baseline = NoFiles
    BY <2>1, <2>2 DEF Idle, TurnRec
  <2>4. turn' = [turn EXCEPT ![t] = Idle] /\ turn[t].pc # "idle" /\ UNCHANGED <<in, out, docs, version>>
    BY <1>5 DEF EndTurn
  <2>5. TurnFits(turn[t])'
    BY <1>1, <2>1, <2>3, <2>4 DEF TurnFits
  <2> QED
    BY <1>1, <2>3, <2>4, <2>5, TurnMoves
<1> QED
  BY <1>3, <1>4, <1>5

(* What happens to the files and the documents beside the turns.            *)
LEMMA BesideInv ==
  ASSUME SyncInv, Upload \/ NewContainer
  PROVE  SyncInv'
<1>1. /\ in \in [Files -> Versions] /\ out \in [Files -> Versions] /\ version \in Versions
      /\ docs \in Seq(Doc) /\ turn \in [Turns -> TurnRec] /\ Versions \subseteq Nat
      /\ \A f \in Files : out[f] <= version /\ out[f] \in Nat
  BY SyncAssumption DEF SyncInv, SyncTypes, Versions
<1>2. turn' = turn /\ OneActive'
  BY DEF SyncInv, OneActive, Upload, NewContainer
<1>3. CASE Upload
  <2>1. PICK f \in Files : /\ docs' = Append(docs, [name |-> f, ver |-> version']) /\ version' = version + 1
                           /\ version' \in 1..MaxVersion /\ version' \in Versions /\ UNCHANGED <<in, out, turn>>
    BY <1>1, <1>3, SyncAssumption DEF Upload, Versions
  <2>2. [name |-> f, ver |-> version'] \in Doc
    BY <2>1 DEF Doc
  <2>3. docs' \in Seq(Doc) /\ Stored \subseteq Stored'
    BY <1>1, <2>1, <2>2, StoreGrows
  <2>4. SyncTypes'
    BY <1>1, <2>1, <2>3 DEF SyncTypes
  <2>5. ASSUME NEW t \in Turns PROVE TurnFits(turn[t])'
    <3>1. TurnFits(turn[t]) /\ turn[t] \in TurnRec
      BY <1>1 DEF SyncInv
    <3>2. turn[t].baseline \in [Files -> Versions]
      BY <3>1 DEF TurnRec
    <3>3. \A g \in Files : turn[t].baseline[g] <= version'
      <4>1. \A g \in Files : turn[t].baseline[g] \in Nat /\ turn[t].baseline[g] <= version
        BY <1>1, <3>1, <3>2 DEF TurnFits
      <4> QED
        BY <1>1, <2>1, <4>1
    <3> QED
      BY <2>1, <2>3, <3>1, <3>3 DEF TurnFits
  <2> QED
    BY <1>2, <2>4, <2>5 DEF SyncInv
<1>4. CASE NewContainer
  <2>1. /\ in' = NoFiles /\ out' = NoFiles /\ version' = version /\ docs' = docs
        /\ \A t \in Turns : turn[t].pc = "idle"
    BY <1>4 DEF NewContainer, Active
  <2>2. NoFiles \in [Files -> Versions] /\ \A f \in Files : NoFiles[f] = 0
    BY SyncAssumption DEF NoFiles, Versions
  <2>3. SyncTypes'
    BY <1>1, <1>2, <2>1, <2>2 DEF SyncTypes
  <2>4. \A t \in Turns : TurnFits(turn[t])'
    BY <1>2, <2>1 DEF SyncInv, TurnFits
  <2> QED
    BY <1>2, <2>3, <2>4 DEF SyncInv
<1> QED
  BY <1>3, <1>4

LEMMA SyncStepInv ==
  ASSUME SyncInv, [SyncNext]_syncVars, ~Overlap, ~ListFails
  PROVE  SyncInv'
<1>1. CASE UNCHANGED syncVars
  BY <1>1 DEF SyncInv, SyncTypes, OneActive, TurnFits, Stored, syncVars
<1>2. CASE SyncNext
  BY <1>2, HydrationInv, WorkInv, PromotionInv, BesideInv DEF SyncNext
<1> QED
  BY <1>1, <1>2

(* The workspace invariant holds in every reachable state.                  *)
THEOREM WorkspaceInvariant ==
  ASSUME ~Overlap, ~ListFails PROVE SyncSpec => []SyncInv
<1>1. SyncInv /\ [SyncNext]_syncVars => SyncInv'
  BY SyncStepInv
<1> QED
  BY <1>1, SyncInitInv, PTL DEF SyncSpec

(* OwnWorkOnly: with turns one after another and listings that answer, a    *)
(* turn stores only files it wrote itself, and hydration leaves alone what  *)
(* is in /work/in (promoteOutputs, hydrateWorkspace).                       *)
THEOREM OnlyOwnWork ==
  ASSUME ~Overlap, ~ListFails PROVE SyncSpec => OwnWorkOnly
<1> DEFINE Promotes == \A t \in Turns :
             (turn[t].pc = "promote" /\ Len(docs') > Len(docs)
               /\ Len(turn'[t].todo) < Len(turn[t].todo)) => docs'[Len(docs')].name \in turn[t].wrote
           Hydrates == \A t \in Turns : \A f \in Files :
             (turn[t].pc = "hydrate" /\ turn'[t] # turn[t] /\ in[f] # 0) => in'[f] = in[f]
<1>1. ASSUME SyncInv, SyncNext PROVE Promotes
  <2> SUFFICES ASSUME NEW t \in Turns, turn[t].pc = "promote", Len(docs') > Len(docs),
                      Len(turn'[t].todo) < Len(turn[t].todo)
               PROVE  docs'[Len(docs')].name \in turn[t].wrote
    OBVIOUS
  <2>1. docs \in Seq(Doc) /\ Len(docs) \in Nat /\ turn \in [Turns -> TurnRec] /\ TurnFits(turn[t])
    BY <1>1 DEF SyncInv, SyncTypes
  <2>2. docs' # docs /\ turn' # turn
    <3>1. turn[t].todo \in Seq(Files) /\ Len(turn[t].todo) \in Nat
      BY <2>1 DEF TurnFits
    <3> QED
      BY <2>1, <3>1
  <2>3. PICK u \in Turns : PromoteFile(u)
    BY <1>1, <2>2 DEF SyncNext, StartTurn, HydrateFile, Hydrated, Snapshot, Write, Remove, EndPattern,
                      EndTurn, Upload, NewContainer
  <2>4. u = t
    BY <1>1, <2>3 DEF SyncInv, OneActive, PromoteFile
  <2>5. /\ turn[t].todo \in Seq(Files) /\ turn[t].todo # << >>
        /\ docs' = Append(docs, [name |-> Head(turn[t].todo), ver |-> out[Head(turn[t].todo)]])
    BY <2>1, <2>2, <2>3, <2>4 DEF PromoteFile, TurnFits
  <2>6. Head(turn[t].todo) \in turn[t].wrote
    BY <2>1, <2>5, HeadAndRest DEF TurnFits
  <2>7. docs'[Len(docs')] = [name |-> Head(turn[t].todo), ver |-> out[Head(turn[t].todo)]]
    BY <2>1, <2>5
  <2> QED
    BY <2>6, <2>7
<1>2. ASSUME SyncInv, SyncNext, ~Overlap PROVE Hydrates
  <2> SUFFICES ASSUME NEW t \in Turns, NEW f \in Files,
                      turn[t].pc = "hydrate", turn'[t] # turn[t], in[f] # 0
               PROVE  in'[f] = in[f]
    OBVIOUS
  <2>1. turn \in [Turns -> TurnRec] /\ in \in [Files -> Versions] /\ TurnFits(turn[t])
    BY <1>2 DEF SyncInv, SyncTypes
  <2>2. CASE in' = in
    BY <2>2
  <2>3. CASE in' # in
    <3>1. turn' # turn /\ Active # {}
      BY DEF Active
    <3>2. PICK u \in Turns : HydrateFile(u) \/ Write(u)
      BY <1>2, <2>3, <3>1 DEF SyncNext, StartTurn, Hydrated, Snapshot, Remove, EndPattern, PromoteFile,
                              EndTurn, Upload, NewContainer
    <3>3. u = t
      BY <1>2, <3>2 DEF SyncInv, OneActive, HydrateFile, Write
    <3>4. /\ turn[t].todo \in Seq(Doc) /\ turn[t].todo # << >> /\ Head(turn[t].todo).name \notin turn[t].present
          /\ in' = [in EXCEPT ![Head(turn[t].todo).name] = Head(turn[t].todo).ver]
      BY <2>1, <2>3, <3>2, <3>3 DEF HydrateFile, Write, TurnFits
    <3>5. Head(turn[t].todo).name # f
      BY <2>1, <3>4 DEF TurnFits
    <3> QED
      BY <2>1, <3>4, <3>5
  <2> QED
    BY <2>2, <2>3
<1>3. SyncInv /\ [SyncNext]_syncVars => [Promotes]_syncVars /\ [Hydrates]_syncVars
  BY <1>1, <1>2
<1> HIDE DEF Promotes, Hydrates
<1>4. SyncSpec => [][Promotes]_syncVars /\ [][Hydrates]_syncVars
  BY <1>3, WorkspaceInvariant, PTL DEF SyncSpec
<1> QED
  BY <1>4 DEF OwnWorkOnly, PromotesOwnWork, HydrateKeepsWork, Promotes, Hydrates

(* NoSilentLoss: under the same two conditions, what a turn wrote under     *)
(* /work/out is in the document store when the turn ends, or reported.      *)
THEOREM NothingLostSilently ==
  ASSUME ~Overlap, ~ListFails PROVE SyncSpec => NoSilentLoss
<1> DEFINE Reported == \A t \in Turns : (turn[t].pc = "promote" /\ turn'[t].pc = "idle")
                     => \A f \in turn[t].wrote : <<f, out[f]>> \in Stored \/ f \in turn[t].reported
<1>1. ASSUME SyncInv, SyncNext PROVE Reported
  <2> SUFFICES ASSUME NEW t \in Turns, turn[t].pc = "promote", turn'[t].pc = "idle", NEW f \in turn[t].wrote
               PROVE  <<f, out[f]>> \in Stored \/ f \in turn[t].reported
    OBVIOUS
  <2>1. turn \in [Turns -> TurnRec] /\ turn[t] \in TurnRec /\ TurnFits(turn[t])
    BY <1>1 DEF SyncInv, SyncTypes
  <2>2. turn' # turn
    OBVIOUS
  <2>3. PICK u \in Turns : StartTurn(u) \/ HydrateFile(u) \/ Hydrated(u) \/ Snapshot(u) \/ Write(u)
                           \/ Remove(u) \/ EndPattern(u) \/ PromoteFile(u) \/ EndTurn(u)
    BY <1>1, <2>2 DEF SyncNext, Upload, NewContainer
  <2>4. turn[t].todo = << >>
    <3>1. CASE u = t
      <4>1. PromoteFile(t) \/ EndTurn(t)
        BY <2>3, <3>1 DEF StartTurn, HydrateFile, Hydrated, Snapshot, Write, Remove, EndPattern
      <4>2. ASSUME PromoteFile(t) PROVE FALSE
        <5>1. CASE turn' = [turn EXCEPT ![t] = [turn[t] EXCEPT !.todo = Tail(@)]]
          <6>1. turn'[t] = [turn[t] EXCEPT !.todo = Tail(@)]
            BY <2>1, <5>1
          <6>2. turn'[t].pc = turn[t].pc
            BY <2>1, <6>1 DEF TurnRec
          <6> QED
            BY <6>2
        <5>2. CASE turn' = [turn EXCEPT ![t] = [[turn[t] EXCEPT !.todo = Tail(@)] EXCEPT
                                                 !.reported = @ \cup {Head(turn[t].todo)}]]
          <6>1. turn'[t] = [[turn[t] EXCEPT !.todo = Tail(@)] EXCEPT !.reported = @ \cup {Head(turn[t].todo)}]
            BY <2>1, <5>2
          <6>2. turn'[t].pc = turn[t].pc
            BY <2>1, <6>1 DEF TurnRec
          <6> QED
            BY <6>2
        <5> QED
          BY <4>2, <5>1, <5>2 DEF PromoteFile, Go
      <4> QED
        BY <4>1, <4>2 DEF EndTurn
    <3>2. CASE u # t
      <4>1. turn'[t] = turn[t]
        BY <2>1, <2>3, <3>2 DEF Go, StartTurn, HydrateFile, Hydrated, Snapshot, Write, Remove, EndPattern,
                                PromoteFile, EndTurn
      <4> QED
        BY <4>1
    <3> QED
      BY <3>1, <3>2
  <2>5. Names(turn[t].todo) = {}
    BY <2>4 DEF Names
  <2> QED
    BY <2>1, <2>5 DEF TurnFits
<1>2. SyncInv /\ [SyncNext]_syncVars => [Reported]_syncVars
  BY <1>1
<1> HIDE DEF Reported
<1>3. SyncSpec => [][Reported]_syncVars
  BY <1>2, WorkspaceInvariant, PTL DEF SyncSpec
<1> QED
  BY <1>3 DEF NoSilentLoss, Reported

-----------------------------------------------------------------------------
(* The pool.                                                                 *)
BorrowerRec == [pc : {"idle", "booting", "connecting", "running", "returning"}, vm : VMs \cup {NoVM}]

PoolTypes ==
  /\ container \in [VMs -> {"up", "gone"}]
  /\ parked \in Seq(VMs) /\ dying \in SUBSET VMs
  /\ borrower \in [Borrowers -> BorrowerRec]
  /\ release \in [Releasers -> ReleaseRec]
  /\ prewarm \in [running : BOOLEAN, left : 0..PoolCap, vms : Seq(VMs)]

(* Who has a VM, by what it is doing.                                       *)
PoolShapes ==
  /\ \A b \in Borrowers : borrower[b].vm # NoVM <=> borrower[b].pc \in {"connecting", "running"}
  /\ \A b \in Borrowers : borrower[b].pc # "returning" => release[b].vm = NoVM
  /\ \A x \in Releasers : release[x].vm # NoVM <=> release[x].step # "idle"
  /\ ~prewarm.running => prewarm.left = 0 /\ prewarm.vms = << >>

PoolUnique ==
  Unique(borrower, Borrowers) /\ Unique(release, Releasers) /\ Once(parked) /\ Once(prewarm.vms)

Apart(run, pool, rel, pre, dead) ==
  /\ run \cap pool = {} /\ run \cap rel = {} /\ run \cap pre = {} /\ run \cap dead = {}
  /\ pool \cap rel = {} /\ pool \cap pre = {} /\ pool \cap dead = {}
  /\ rel \cap pre = {} /\ rel \cap dead = {} /\ pre \cap dead = {}

Covers(up, run, pool, rel, pre, dead) == up \subseteq run \cup pool \cup rel \cup pre \cup dead

Run  == Held(borrower, Borrowers)
Pre  == Els(prewarm.vms)

PoolPlaces == Apart(Run, Pool, Rel, Pre, dying) /\ Covers(Up, Run, Pool, Rel, Pre, dying)

PoolInv == PoolTypes /\ PoolShapes /\ PoolUnique /\ PoolPlaces

-----------------------------------------------------------------------------
(* A place of a VM is one of the five kinds.                                *)
LEMMA PlaceForm ==
  ASSUME NEW v, NEW p
  PROVE  p \in Places(v) <=>
           \/ \E b \in Borrowers : borrower[b].vm = v /\ p = <<"run", b>>
           \/ \E n \in DOMAIN parked : parked[n] = v /\ p = <<"pool", n>>
           \/ \E x \in Releasers : release[x].vm = v /\ p = <<"release", x>>
           \/ \E n \in DOMAIN prewarm.vms : prewarm.vms[n] = v /\ p = <<"prewarm", n>>
           \/ v \in dying /\ p = <<"dying", v>>
<1> DEFINE A == {b \in Borrowers : borrower[b].vm = v}
           B == {n \in DOMAIN parked : parked[n] = v}
           C == {x \in Releasers : release[x].vm = v}
           D == {n \in DOMAIN prewarm.vms : prewarm.vms[n] = v}
           E == dying \cap {v}
<1>1. Places(v) = (({"run"} \X A) \cup ({"pool"} \X B)) \cup (({"release"} \X C) \cup ({"prewarm"} \X D))
                  \cup ({"dying"} \X E)
  BY DEF Places
<1> HIDE DEF A, B, C, D, E
<1>2. p \in Places(v) <=> \/ \E x \in A : p = <<"run", x>>
                          \/ \E x \in B : p = <<"pool", x>>
                          \/ \E x \in C : p = <<"release", x>>
                          \/ \E x \in D : p = <<"prewarm", x>>
                          \/ \E x \in E : p = <<"dying", x>>
  BY <1>1, PairForm
<1> QED
  BY <1>2 DEF A, B, C, D, E

(* One place for each VM: the reading the runs check.                       *)
LEMMA PoolInvHolds == PoolInv => VMsAccounted
<1> SUFFICES ASSUME PoolInv PROVE VMsAccounted
  OBVIOUS
<1>1. WarmPoolTypeOK
  BY DEF PoolInv, PoolTypes, WarmPoolTypeOK, VMTypeOK, BorrowerRec, ReleaseRec, Prewarmed
<1>2. ASSUME NEW v \in VMs, NEW p \in Places(v), NEW q \in Places(v) PROVE p = q
  <2>1. v # NoVM
    BY VMsAssumption
  <2>2. ASSUME NEW z \in Places(v)
        PROVE  \/ v \in Run /\ \E b \in Borrowers : borrower[b].vm = v /\ z = <<"run", b>>
               \/ v \in Pool /\ \E n \in DOMAIN parked : parked[n] = v /\ z = <<"pool", n>>
               \/ v \in Rel /\ \E x \in Releasers : release[x].vm = v /\ z = <<"release", x>>
               \/ v \in Pre /\ \E n \in DOMAIN prewarm.vms : prewarm.vms[n] = v /\ z = <<"prewarm", n>>
               \/ v \in dying /\ z = <<"dying", v>>
    BY <2>1, PlaceForm DEF Run, Pool, Rel, Pre, Held, Els
  <2>3. /\ v \in Run => v \notin Pool /\ v \notin Rel /\ v \notin Pre /\ v \notin dying
        /\ v \in Pool => v \notin Rel /\ v \notin Pre /\ v \notin dying
        /\ v \in Rel => v \notin Pre /\ v \notin dying
        /\ v \in Pre => v \notin dying
    BY DEF PoolInv, PoolPlaces, Apart
  <2>4. /\ \A b, c \in Borrowers : borrower[b].vm = v /\ borrower[c].vm = v => b = c
        /\ \A b, c \in Releasers : release[b].vm = v /\ release[c].vm = v => b = c
        /\ \A m, n \in DOMAIN parked : parked[m] = v /\ parked[n] = v => m = n
        /\ \A m, n \in DOMAIN prewarm.vms : prewarm.vms[m] = v /\ prewarm.vms[n] = v => m = n
    BY <2>1 DEF PoolInv, PoolUnique, Unique, Once
  <2>5. CASE v \in Run
    BY <2>2, <2>3, <2>4, <2>5
  <2>6. CASE v \in Pool
    BY <2>2, <2>3, <2>4, <2>6
  <2>7. CASE v \in Rel
    BY <2>2, <2>3, <2>4, <2>7
  <2>8. CASE v \in Pre
    BY <2>2, <2>3, <2>4, <2>8
  <2>9. CASE v \in dying
    BY <2>2, <2>3, <2>9
  <2> QED
    BY <2>2, <2>5, <2>6, <2>7, <2>8, <2>9
<1>3. SolePlace
  <2> SUFFICES ASSUME NEW v \in VMs PROVE Cardinality(Places(v)) <= 1
    BY DEF SolePlace
  <2>1. CASE Places(v) = {}
    BY <2>1, FS_EmptySet
  <2>2. CASE Places(v) # {}
    <3>1. PICK p : p \in Places(v)
      BY <2>2
    <3>2. Places(v) = {p}
      BY <1>2, <3>1
    <3>3. Cardinality({p}) = 1
      BY FS_Singleton
    <3> QED
      BY <3>2, <3>3
  <2> QED
    BY <2>1, <2>2
<1>4. NothingLost
  <2> SUFFICES ASSUME NEW v \in VMs, container[v] = "up" PROVE \E p : p \in Places(v)
    BY DEF NothingLost
  <2>1. v \in Run \cup Pool \cup Rel \cup Pre \cup dying
    BY DEF PoolInv, PoolPlaces, Covers, Up
  <2>2. ASSUME NEW b \in Borrowers, borrower[b].vm = v PROVE <<"run", b>> \in Places(v)
    BY <2>2, PlaceForm
  <2>3. ASSUME NEW x \in Releasers, release[x].vm = v PROVE <<"release", x>> \in Places(v)
    BY <2>3, PlaceForm
  <2>4. ASSUME NEW n \in DOMAIN parked, parked[n] = v PROVE <<"pool", n>> \in Places(v)
    BY <2>4, PlaceForm
  <2>5. ASSUME NEW n \in DOMAIN prewarm.vms, prewarm.vms[n] = v PROVE <<"prewarm", n>> \in Places(v)
    BY <2>5, PlaceForm
  <2>6. v \in dying => <<"dying", v>> \in Places(v)
    BY PlaceForm
  <2> QED
    BY <2>1, <2>2, <2>3, <2>4, <2>5, <2>6 DEF Run, Pool, Rel, Pre, Held, Els
<1> QED
  BY <1>1, <1>3, <1>4 DEF VMsAccounted

(* All the VMs are gone at the start, and none is anywhere.                 *)
LEMMA PoolInitInv == WarmPoolInit => PoolInv
<1> SUFFICES ASSUME WarmPoolInit PROVE PoolInv
  OBVIOUS
<1>1. PoolTypes
  BY VMsAssumption DEF WarmPoolInit, VMInit, PoolTypes, BorrowerRec, ReleaseRec, At, NoRelease, NotPrewarming
<1>2. /\ \A b \in Borrowers : borrower[b].vm = NoVM /\ borrower[b].pc = "idle"
      /\ \A x \in Releasers : release[x].vm = NoVM /\ release[x].step = "idle"
      /\ parked = << >> /\ prewarm.left = 0 /\ prewarm.vms = << >> /\ dying = {} /\ \A v \in VMs : container[v] = "gone"
  BY DEF WarmPoolInit, VMInit, At, NoRelease, NotPrewarming
<1>3. PoolShapes
  BY <1>2 DEF PoolShapes, Borrowers
<1>4. Els(<< >>) = {} /\ Once(<< >>)
  BY DEF Els, Once
<1>5. PoolUnique
  BY <1>2, <1>4 DEF PoolUnique, Unique
<1>6. Run = {} /\ Rel = {} /\ Pool = {} /\ Pre = {} /\ Up = {}
  BY <1>2, <1>4 DEF Run, Rel, Held, Pool, Pre, Up
<1>7. PoolPlaces
  BY <1>2, <1>6 DEF PoolPlaces, Apart, Covers
<1> QED
  BY <1>1, <1>3, <1>5, <1>7 DEF PoolInv

-----------------------------------------------------------------------------
(* The next places keep one for each VM, if the five keep apart and a       *)
(* container that runs, or has started, is in one of them.                  *)
LEMMA KeepsInv ==
  ASSUME PoolInv, PoolTypes', PoolShapes', PoolUnique', Apart(Run', Pool', Rel', Pre', dying'),
         Covers(Up', Run', Pool', Rel', Pre', dying')
  PROVE  PoolInv'
BY DEF PoolInv, PoolPlaces

(* The places keep the books of the pool.                                   *)
LEMMA InvBooks == PoolInv => VMBooks
BY DEF PoolInv, PoolTypes, PoolShapes, PoolUnique, PoolPlaces, Apart, VMBooks

(* A pattern run's entry changes: what it has now, and what the others have.*)
LEMMA BorrowerMoves ==
  ASSUME PoolInv, NEW b \in Borrowers, NEW w \in BorrowerRec, borrower' = [borrower EXCEPT ![b] = w],
         w.vm = NoVM \/ w.vm \notin Run \/ w.vm = borrower[b].vm
  PROVE  /\ borrower' \in [Borrowers -> BorrowerRec] /\ Unique(borrower', Borrowers)
         /\ Run' = (Run \ {borrower[b].vm}) \cup ({w.vm} \ {NoVM})
         /\ borrower'[b] = w /\ \A c \in Borrowers \ {b} : borrower'[c] = borrower[c]
<1>1. borrower \in [Borrowers -> BorrowerRec] /\ Unique(borrower, Borrowers)
  BY DEF PoolInv, PoolTypes, PoolUnique
<1>2. /\ borrower' \in [Borrowers -> BorrowerRec]
      /\ borrower'[b] = w /\ \A c \in Borrowers : c # b => borrower'[c] = borrower[c]
  BY <1>1
<1>3. \A c \in Borrowers : c # b => borrower'[c].vm = borrower[c].vm
  BY <1>2
<1> DEFINE f == borrower
           g == borrower'
<1>a. Unique(f, Borrowers) /\ \A j \in Borrowers : j # b => g[j].vm = f[j].vm
  BY <1>1, <1>3
<1> HIDE DEF f, g
<1>c. /\ Held(g, Borrowers) = (Held(f, Borrowers) \ {f[b].vm}) \cup ({g[b].vm} \ {NoVM})
      /\ g[b].vm = NoVM \/ g[b].vm \notin Held(f, Borrowers) \/ g[b].vm = f[b].vm => Unique(g, Borrowers)
  BY <1>a, HeldExcept
<1>4. /\ Held(borrower', Borrowers) = (Held(borrower, Borrowers) \ {borrower[b].vm}) \cup ({borrower'[b].vm} \ {NoVM})
      /\ borrower'[b].vm = NoVM \/ borrower'[b].vm \notin Held(borrower, Borrowers) \/ borrower'[b].vm = borrower[b].vm =>
           Unique(borrower', Borrowers)
  BY <1>c DEF f, g
<1>5. Run' = Held(borrower', Borrowers) /\ Run = Held(borrower, Borrowers)
  BY DEF Run
<1>6. borrower'[b].vm = w.vm
  BY <1>2
<1>7. Unique(borrower', Borrowers)
  BY <1>4, <1>5, <1>6
<1> QED
  BY <1>2, <1>4, <1>5, <1>6, <1>7

(* What the parts of the state say when they do not change.                 *)
LEMMA SameParts ==
  /\ UNCHANGED borrower => Run' = Run
  /\ UNCHANGED parked => Pool' = Pool
  /\ UNCHANGED release => Rel' = Rel
  /\ UNCHANGED prewarm => Pre' = Pre
  /\ UNCHANGED container => Up' = Up
BY DEF Run, Pool, Rel, Pre, Up, Held, Els

(* What the invariant says of who has which VM.                             *)
LEMMA Having ==
  ASSUME PoolInv
  PROVE  /\ NoVM \notin Run /\ NoVM \notin Rel /\ NoVM \notin Pool /\ NoVM \notin Pre /\ NoVM \notin dying
         /\ Run \subseteq VMs /\ Rel \subseteq VMs /\ Pool \subseteq VMs /\ Pre \subseteq VMs /\ dying \subseteq VMs
         /\ \A b \in Borrowers : borrower[b].vm \in Run \cup {NoVM}
         /\ \A x \in Releasers : release[x].vm \in Rel \cup {NoVM}
<1>1. NoVM \notin VMs
  BY VMsAssumption
<1>2. \A s \in Seq(VMs) : Els(s) \subseteq VMs
  BY LenProperties, ElementOfSeq DEF Els
<1>3. /\ \A b \in Borrowers : borrower[b].vm \in VMs \cup {NoVM}
      /\ \A x \in Releasers : release[x].vm \in VMs \cup {NoVM}
      /\ parked \in Seq(VMs) /\ prewarm.vms \in Seq(VMs) /\ dying \subseteq VMs
  BY DEF PoolInv, PoolTypes, BorrowerRec, ReleaseRec
<1> QED
  BY <1>1, <1>2, <1>3 DEF Run, Rel, Pool, Pre, Held

(* The places after a step, from what moved.                                *)
LEMMA PlacesMove ==
  ASSUME PoolInv, NEW v \in VMs
  PROVE  /\ Apart(Run, Pool, Rel, Pre, dying) /\ Covers(Up, Run, Pool, Rel, Pre, dying)
         /\ v \in FreshVMs => /\ v \notin Run /\ v \notin Pool /\ v \notin Rel /\ v \notin Pre /\ v \notin dying
                              /\ v \notin Up
         /\ Up \subseteq VMs
<1>1. Apart(Run, Pool, Rel, Pre, dying) /\ Covers(Up, Run, Pool, Rel, Pre, dying)
  BY DEF PoolInv, PoolPlaces
<1>2. Borrowed = Run /\ Prewarmed = Pre /\ Parked = Pool /\ Releasing = Rel
  BY DEF Borrowed, Prewarmed, Parked, Releasing, Run, Pre, Pool, Rel, Held, Els
<1> QED
  BY <1>1, <1>2 DEF FreshVMs, Up

(* A pattern run moves on with the VM it has, or with none.                 *)
LEMMA SameVMKeeps ==
  ASSUME PoolInv, NEW b \in Borrowers, NEW w \in BorrowerRec, borrower' = [borrower EXCEPT ![b] = w],
         w.vm = borrower[b].vm, w.vm # NoVM <=> w.pc \in {"connecting", "running"},
         w.pc # "returning" => release[b].vm = NoVM, UNCHANGED <<prewarm, vmVars>>
  PROVE  PoolInv'
<1>1. /\ PoolTypes /\ PoolShapes /\ PoolUnique
      /\ UNCHANGED <<prewarm, container, parked, release, dying>>
  BY DEF PoolInv, vmVars
<1>2. /\ borrower' \in [Borrowers -> BorrowerRec] /\ Unique(borrower', Borrowers)
      /\ Run' = (Run \ {borrower[b].vm}) \cup ({w.vm} \ {NoVM})
      /\ borrower'[b] = w /\ \A c \in Borrowers \ {b} : borrower'[c] = borrower[c]
  BY BorrowerMoves
<1>3. Run' = Run /\ Rel' = Rel /\ Pre' = Pre /\ Up' = Up /\ Pool' = Pool
  BY <1>1, <1>2, Having, SameParts
<1>4. Apart(Run', Pool', Rel', Pre', dying') /\ Covers(Up', Run', Pool', Rel', Pre', dying')
  BY <1>1, <1>3 DEF PoolInv, PoolPlaces
<1>5. PoolTypes'
  BY <1>1, <1>2 DEF PoolTypes
<1>6. PoolShapes'
  BY <1>1, <1>2 DEF PoolShapes
<1>7. PoolUnique'
  BY <1>1, <1>2 DEF PoolUnique
<1> QED
  BY <1>4, <1>5, <1>6, <1>7, KeepsInv

(* A VM of the pool goes to the run that takes it.                          *)
LEMMA AcquireKeeps ==
  ASSUME PoolInv, NEW b \in Borrowers, Acquire(b)
  PROVE  PoolInv'
<1>1. /\ PoolTypes /\ PoolShapes /\ PoolUnique /\ borrower[b].pc = "idle" /\ borrower[b].vm = NoVM
      /\ UNCHANGED <<prewarm, container, release, dying>>
  BY DEF PoolInv, PoolShapes, Acquire
<1>2. CASE parked # << >>
  <2>1. borrower' = [borrower EXCEPT ![b] = At("connecting", Head(parked))] /\ parked' = Tail(parked)
    BY <1>2 DEF Acquire
  <2>2. /\ Head(parked) \in Pool /\ Head(parked) \in VMs /\ Tail(parked) \in Seq(VMs)
        /\ Pool' = Pool \ {Head(parked)} /\ Once(parked')
    BY <1>1, <1>2, <2>1, ElsTail DEF PoolTypes, PoolUnique, Pool
  <2>3. At("connecting", Head(parked)) \in BorrowerRec
    BY <2>2 DEF At, BorrowerRec
  <2>4. Head(parked) \notin Run
    BY <2>2, PlacesMove DEF Apart
  <2> DEFINE w == At("connecting", Head(parked))
  <2>5. w.vm = Head(parked) /\ w.pc = "connecting" /\ w.vm # NoVM
    BY <2>2, VMsAssumption DEF At
  <2> HIDE DEF w
  <2>6. /\ borrower' \in [Borrowers -> BorrowerRec] /\ Unique(borrower', Borrowers)
        /\ Run' = (Run \ {borrower[b].vm}) \cup ({w.vm} \ {NoVM})
        /\ borrower'[b] = w /\ \A c \in Borrowers \ {b} : borrower'[c] = borrower[c]
    BY <2>1, <2>3, <2>4, <2>5, BorrowerMoves DEF w
  <2>7. Run' = Run \cup {Head(parked)} /\ Rel' = Rel /\ Pre' = Pre /\ Up' = Up
    BY <1>1, <2>5, <2>6, Having, SameParts
  <2>8. Apart(Run', Pool', Rel', Pre', dying') /\ Covers(Up', Run', Pool', Rel', Pre', dying')
    BY <1>1, <2>2, <2>7, PlacesMove DEF Apart, Covers
  <2>9. PoolTypes'
    BY <1>1, <2>1, <2>2, <2>6 DEF PoolTypes
  <2>10. PoolShapes'
    BY <1>1, <2>5, <2>6 DEF PoolShapes
  <2>11. PoolUnique'
    BY <1>1, <2>2, <2>6 DEF PoolUnique
  <2> QED
    BY <2>8, <2>9, <2>10, <2>11, KeepsInv
<1>3. CASE parked = << >>
  <2> DEFINE w == At("booting", NoVM)
  <2>1. borrower' = [borrower EXCEPT ![b] = w] /\ UNCHANGED <<prewarm, vmVars>>
    BY <1>3 DEF Acquire, vmVars
  <2>2. w \in BorrowerRec /\ w.vm = NoVM /\ w.pc = "booting"
    BY DEF At, BorrowerRec
  <2>3. release[b].vm = NoVM
    BY <1>1 DEF PoolShapes
  <2> HIDE DEF w
  <2> QED
    BY <1>1, <2>1, <2>2, <2>3, SameVMKeeps
<1> QED
  BY <1>2, <1>3

(* A fresh VM goes to the run that booted it.                               *)
LEMMA BootedKeeps ==
  ASSUME PoolInv, NEW b \in Borrowers, Booted(b)
  PROVE  PoolInv'
<1>1. PICK v \in FreshVMs : /\ container' = [container EXCEPT ![v] = "up"]
                            /\ borrower' = [borrower EXCEPT ![b] = At("connecting", v)]
  BY DEF Booted
<1>2. /\ PoolTypes /\ PoolShapes /\ PoolUnique /\ borrower[b].pc = "booting" /\ borrower[b].vm = NoVM
      /\ v \in VMs /\ v # NoVM /\ UNCHANGED <<prewarm, parked, release, dying>>
  BY VMsAssumption DEF PoolInv, PoolShapes, Booted, FreshVMs
<1> DEFINE w == At("connecting", v)
<1>3. w \in BorrowerRec /\ w.vm = v /\ w.pc = "connecting"
  BY <1>2 DEF At, BorrowerRec
<1>4. borrower' = [borrower EXCEPT ![b] = w]
  BY <1>1
<1> HIDE DEF w
<1>5. v \notin Run /\ v \notin Pool /\ v \notin Rel /\ v \notin Pre /\ v \notin dying
  BY <1>2, PlacesMove
<1>6. /\ borrower' \in [Borrowers -> BorrowerRec] /\ Unique(borrower', Borrowers)
      /\ Run' = (Run \ {borrower[b].vm}) \cup ({w.vm} \ {NoVM})
      /\ borrower'[b] = w /\ \A c \in Borrowers \ {b} : borrower'[c] = borrower[c]
  BY <1>3, <1>4, <1>5, BorrowerMoves
<1>7. container' \in [VMs -> {"up", "gone"}] /\ Up' = Up \cup {v}
  BY <1>1, <1>2, InvBooks, ContainerMoves
<1>8. Run' = Run \cup {v} /\ Rel' = Rel /\ Pre' = Pre /\ Pool' = Pool
  BY <1>2, <1>3, <1>6, Having, SameParts
<1>9. Apart(Run', Pool', Rel', Pre', dying') /\ Covers(Up', Run', Pool', Rel', Pre', dying')
  BY <1>2, <1>5, <1>7, <1>8, PlacesMove DEF Apart, Covers
<1>10. PoolTypes' /\ PoolUnique'
  BY <1>2, <1>6, <1>7 DEF PoolTypes, PoolUnique
<1>11. PoolShapes'
  BY <1>2, <1>3, <1>6 DEF PoolShapes
<1> QED
  BY <1>9, <1>10, <1>11, KeepsInv

(* A run gives its VM to the release it starts.                             *)
LEMMA ReturnKeeps ==
  ASSUME PoolInv, NEW b \in Borrowers, Return(b)
  PROVE  PoolInv'
<1> DEFINE v == borrower[b].vm
           w == At("returning", NoVM)
           r == [step |-> "remove", vm |-> v]
<1>1. /\ PoolTypes /\ PoolShapes /\ PoolUnique /\ borrower[b].pc \in {"connecting", "running"}
      /\ v # NoVM /\ release[b].vm = NoVM /\ UNCHANGED <<prewarm, container, parked, dying>>
  BY DEF PoolInv, PoolShapes, Return
<1>2. v \in Run /\ v \in VMs
  BY <1>1, Having
<1>3. borrower' = [borrower EXCEPT ![b] = w]
  BY DEF Return
<1>4. release' = [release EXCEPT ![b] = r]
  BY <1>1 DEF Return, Started, PoolTypes, Borrowers
<1>5. w \in BorrowerRec /\ w.vm = NoVM /\ w.pc = "returning"
  BY DEF At, BorrowerRec
<1>6. r \in ReleaseRec /\ r.vm = v /\ r.step = "remove"
  BY <1>2 DEF ReleaseRec
<1> HIDE DEF w, r
<1>7. v \notin Pool /\ v \notin Rel /\ v \notin Pre /\ v \notin dying
  BY <1>2, PlacesMove DEF Apart
<1>8. /\ borrower' \in [Borrowers -> BorrowerRec] /\ Unique(borrower', Borrowers)
      /\ Run' = (Run \ {v}) \cup ({w.vm} \ {NoVM})
      /\ borrower'[b] = w /\ \A c \in Borrowers \ {b} : borrower'[c] = borrower[c]
  BY <1>3, <1>5, BorrowerMoves
<1>9. /\ release' \in [Releasers -> ReleaseRec] /\ Unique(release', Releasers)
      /\ Rel' = (Rel \ {release[b].vm}) \cup ({r.vm} \ {NoVM})
      /\ release'[b] = r /\ \A y \in Releasers \ {b} : release'[y] = release[y]
  BY <1>4, <1>6, <1>7, InvBooks, ReleaseMoves DEF Borrowers
<1>10. Run' = Run \ {v} /\ Rel' = Rel \cup {v} /\ Pre' = Pre /\ Pool' = Pool /\ Up' = Up
  BY <1>1, <1>5, <1>6, <1>8, <1>9, Having, SameParts
<1> HIDE DEF v
<1>11. Apart(Run', Pool', Rel', Pre', dying') /\ Covers(Up', Run', Pool', Rel', Pre', dying')
  BY <1>1, <1>2, <1>7, <1>10, PlacesMove DEF Apart, Covers
<1>12. PoolTypes' /\ PoolUnique'
  BY <1>1, <1>8, <1>9 DEF PoolTypes, PoolUnique
<1>13. PoolShapes'
  BY <1>1, <1>5, <1>6, <1>8, <1>9 DEF PoolShapes, Borrowers
<1> QED
  BY <1>11, <1>12, <1>13, KeepsInv

(* The steps of a run that move no VM.                                      *)
LEMMA RunStepKeeps ==
  ASSUME PoolInv, NEW b \in Borrowers, BootFails(b) \/ Connected(b) \/ Returned(b)
  PROVE  PoolInv'
<1>1. borrower \in [Borrowers -> BorrowerRec] /\ PoolShapes
  BY DEF PoolInv, PoolTypes
<1>2. ASSUME NEW w \in BorrowerRec, borrower' = [borrower EXCEPT ![b] = w], w.vm = borrower[b].vm,
             w.vm # NoVM <=> w.pc \in {"connecting", "running"}, release[b].vm = NoVM,
             UNCHANGED <<prewarm, vmVars>>
      PROVE  PoolInv'
  BY <1>2, SameVMKeeps
<1>3. CASE BootFails(b)
  <2> DEFINE w == At("idle", NoVM)
  <2>1. w \in BorrowerRec /\ w.vm = borrower[b].vm /\ w.vm = NoVM /\ w.pc = "idle" /\ release[b].vm = NoVM
    BY <1>1, <1>3 DEF BootFails, At, BorrowerRec, PoolShapes
  <2>2. borrower' = [borrower EXCEPT ![b] = w] /\ UNCHANGED <<prewarm, vmVars>>
    BY <1>3 DEF BootFails
  <2> HIDE DEF w
  <2> QED
    BY <1>2, <2>1, <2>2
<1>4. ASSUME NEW p \in {"idle", "running"}, borrower' = [borrower EXCEPT ![b].pc = p], release[b].vm = NoVM,
             borrower[b].vm # NoVM <=> p = "running", UNCHANGED <<prewarm, vmVars>>
      PROVE  PoolInv'
  <2> DEFINE w == [borrower[b] EXCEPT !.pc = p]
  <2>1. w \in BorrowerRec /\ w.vm = borrower[b].vm /\ w.pc = p
    BY <1>1 DEF BorrowerRec
  <2>2. borrower' = [borrower EXCEPT ![b] = w]
    BY <1>1, <1>4
  <2> HIDE DEF w
  <2> QED
    BY <1>2, <1>4, <2>1, <2>2
<1>5. CASE Connected(b)
  BY <1>1, <1>4, <1>5 DEF Connected, PoolShapes
<1>6. CASE Returned(b)
  BY <1>1, <1>4, <1>6 DEF Returned, PoolShapes, NoRelease
<1> QED
  BY <1>3, <1>5, <1>6

-----------------------------------------------------------------------------
(* The prewarm holds what it has booted until it parks it.                  *)
LEMMA PrewarmKeeps ==
  ASSUME PoolInv, Prewarm \/ PrewarmBooted \/ PrewarmBootFails \/ PrewarmDone
  PROVE  PoolInv'
<1>1. /\ PoolTypes /\ PoolShapes /\ PoolUnique /\ UNCHANGED <<borrower, release, dying>>
      /\ PoolCap \in Nat /\ prewarm \in [running : BOOLEAN, left : 0..PoolCap, vms : Seq(VMs)]
  BY VMsAssumption DEF PoolInv, PoolTypes, Prewarm, PrewarmBooted, PrewarmBootFails, PrewarmDone, vmVars
<1>2. Run' = Run /\ Rel' = Rel
  BY <1>1, SameParts
<1>3. Apart(Run, Pool, Rel, Pre, dying) /\ Covers(Up, Run, Pool, Rel, Pre, dying)
  BY DEF PoolInv, PoolPlaces
<1>4. ASSUME prewarm'.vms = prewarm.vms, UNCHANGED <<parked, container>>,
             prewarm' \in [running : BOOLEAN, left : 0..PoolCap, vms : Seq(VMs)],
             ~prewarm'.running => prewarm'.left = 0 /\ prewarm'.vms = << >>
      PROVE  PoolInv'
  <2>1. Pre' = Pre /\ Pool' = Pool /\ Up' = Up
    BY <1>4, SameParts DEF Pre
  <2>2. PoolTypes' /\ PoolShapes' /\ PoolUnique'
    BY <1>1, <1>4 DEF PoolTypes, PoolShapes, PoolUnique
  <2> QED
    BY <1>1, <1>2, <1>3, <2>1, <2>2, KeepsInv
<1>5. CASE Prewarm
  <2>1. PICK count \in 1..PoolCap :
          LET room   == PoolCap - Len(parked)
              target == IF count < room THEN count ELSE room
          IN  target > 0 /\ prewarm' = [running |-> TRUE, left |-> target, vms |-> << >>]
    BY <1>5 DEF Prewarm
  <2> DEFINE target == IF count < PoolCap - Len(parked) THEN count ELSE PoolCap - Len(parked)
  <2>2. Len(parked) \in Nat
    BY <1>1, LenProperties DEF PoolTypes
  <2>3. target \in 0..PoolCap /\ prewarm' = [running |-> TRUE, left |-> target, vms |-> << >>]
    BY <1>1, <2>1, <2>2
  <2> HIDE DEF target
  <2>4. prewarm.vms = << >> /\ << >> \in Seq(VMs) /\ UNCHANGED <<parked, container>>
    BY <1>1, <1>5, EmptySeq DEF Prewarm, PoolShapes, vmVars
  <2> QED
    BY <1>4, <2>3, <2>4
<1>6. CASE PrewarmBooted
  <2>1. PICK v \in FreshVMs : /\ container' = [container EXCEPT ![v] = "up"]
                              /\ prewarm' = [prewarm EXCEPT !.left = @ - 1, !.vms = Append(@, v)]
    BY <1>6 DEF PrewarmBooted
  <2>a. v \in VMs
    BY DEF FreshVMs
  <2>b. prewarm.left > 0 /\ parked' = parked
    BY <1>6 DEF PrewarmBooted
  <2>c. prewarm.running
    BY <1>1, <2>b DEF PoolShapes
  <2>2. v \in VMs /\ prewarm.left > 0 /\ prewarm.running /\ parked' = parked
    BY <2>a, <2>b, <2>c
  <2>3. v \notin Run /\ v \notin Pool /\ v \notin Rel /\ v \notin Pre /\ v \notin dying
    BY <2>1, <2>2, PlacesMove
  <2>4. container' \in [VMs -> {"up", "gone"}] /\ Up' = Up \cup {v}
    BY <2>1, <2>2, InvBooks, ContainerMoves
  <2>5. /\ prewarm.vms \in Seq(VMs) /\ Append(prewarm.vms, v) \in Seq(VMs)
        /\ Els(Append(prewarm.vms, v)) = Els(prewarm.vms) \cup {v} /\ Once(Append(prewarm.vms, v))
    BY <1>1, <2>2, <2>3, ElsAppend DEF PoolUnique, Pre
  <2>6. /\ prewarm' \in [running : BOOLEAN, left : 0..PoolCap, vms : Seq(VMs)]
        /\ prewarm'.running /\ prewarm'.vms = Append(prewarm.vms, v)
    <3>1. prewarm.left \in 0..PoolCap /\ prewarm.left - 1 \in 0..PoolCap
      BY <1>1, <2>2
    <3>2. prewarm' = [running |-> prewarm.running, left |-> prewarm.left - 1, vms |-> Append(prewarm.vms, v)]
      BY <1>1, <2>1
    <3> QED
      BY <2>2, <2>5, <3>1, <3>2
  <2>7. Pre' = Pre \cup {v} /\ Pool' = Pool
    BY <2>2, <2>5, <2>6, SameParts DEF Pre
  <2>8. Apart(Run', Pool', Rel', Pre', dying') /\ Covers(Up', Run', Pool', Rel', Pre', dying')
    BY <1>1, <1>2, <1>3, <2>3, <2>4, <2>7 DEF Apart, Covers
  <2>9. PoolTypes' /\ PoolUnique'
    BY <1>1, <2>2, <2>4, <2>5, <2>6 DEF PoolTypes, PoolUnique
  <2>10. PoolShapes'
    BY <1>1, <2>6 DEF PoolShapes
  <2> QED
    BY <2>8, <2>9, <2>10, KeepsInv
<1>7. CASE PrewarmBootFails
  <2>1. prewarm' = [prewarm EXCEPT !.left = @ - 1] /\ prewarm.left > 0 /\ prewarm.running
    BY <1>1, <1>7 DEF PrewarmBootFails, PoolShapes
  <2>2. /\ prewarm' \in [running : BOOLEAN, left : 0..PoolCap, vms : Seq(VMs)]
        /\ prewarm'.running /\ prewarm'.vms = prewarm.vms
    BY <1>1, <2>1
  <2>3. UNCHANGED <<parked, container>>
    BY <1>7 DEF PrewarmBootFails, vmVars
  <2> QED
    BY <1>4, <2>2, <2>3
<1>8. CASE PrewarmDone
  <2>1. parked' = parked \o prewarm.vms /\ prewarm' = NotPrewarming /\ container' = container
    BY <1>8 DEF PrewarmDone
  <2>2. parked \in Seq(VMs) /\ prewarm.vms \in Seq(VMs) /\ Pool \cap Pre = {}
    BY <1>1, <1>3 DEF PoolTypes, Apart
  <2>3. /\ parked' \in Seq(VMs) /\ Els(parked') = Els(parked) \cup Els(prewarm.vms) /\ Once(parked')
    BY <1>1, <2>1, <2>2, ElsConcat DEF PoolUnique, Pool, Pre
  <2>4. /\ prewarm' \in [running : BOOLEAN, left : 0..PoolCap, vms : Seq(VMs)]
        /\ ~prewarm'.running /\ prewarm'.left = 0 /\ prewarm'.vms = << >>
    BY <1>1, <2>1, EmptySeq DEF NotPrewarming
  <2>5. Els(<< >>) = {} /\ Once(<< >>)
    BY DEF Els, Once
  <2>6. Pool' = Pool \cup Pre /\ Pre' = {} /\ Up' = Up
    BY <2>1, <2>3, <2>4, <2>5, SameParts DEF Pool, Pre
  <2>7. Apart(Run', Pool', Rel', Pre', dying') /\ Covers(Up', Run', Pool', Rel', Pre', dying')
    BY <1>1, <1>2, <1>3, <2>6 DEF Apart, Covers
  <2>8. PoolTypes' /\ PoolUnique'
    BY <1>1, <2>1, <2>3, <2>4, <2>5 DEF PoolTypes, PoolUnique
  <2>9. PoolShapes'
    BY <1>1, <2>4 DEF PoolShapes
  <2> QED
    BY <2>7, <2>8, <2>9, KeepsInv
<1> QED
  BY <1>5, <1>6, <1>7, <1>8

-----------------------------------------------------------------------------
(* The pool's own steps leave alone what the runs and the prewarm have.     *)
LEMMA PoolStepKeeps ==
  ASSUME PoolInv, PoolStep
  PROVE  PoolInv'
<1>1. UNCHANGED <<borrower, prewarm>>
  BY DEF PoolStep
<1>2. VMBooks /\ Outside(Run \cup Pre, Pool, Rel, dying) /\ Covered(Up, Run \cup Pre, Pool, Rel, dying)
  BY InvBooks DEF PoolInv, PoolPlaces, Apart, Covers, Outside, Covered
<1>3. Kept(Run \cup Pre)
  BY <1>2, ReleaseStepBooks, EvictionBooks DEF PoolStep
<1>4. Run' = Run /\ Pre' = Pre
  BY <1>1, SameParts
<1>5. Apart(Run', Pool', Rel', Pre', dying') /\ Covers(Up', Run', Pool', Rel', Pre', dying')
  BY ZenonT(30), <1>2, <1>3, <1>4 DEF Kept, VMBooks, Outside, Covered, Apart, Covers, PoolInv, PoolPlaces
<1>6. PoolTypes' /\ PoolUnique'
  BY <1>1, <1>3 DEF Kept, VMBooks, PoolInv, PoolTypes, PoolUnique
<1>7. PoolShapes'
  BY <1>1, <1>3 DEF Kept, VMBooks, PoolInv, PoolShapes, Borrowers
<1> QED
  BY <1>5, <1>6, <1>7, KeepsInv

-----------------------------------------------------------------------------
(* Every step of the pool and of its users keeps the places.                *)
LEMMA PoolStepInv == PoolInv /\ [WarmPoolNext]_warmPoolVars => PoolInv'
<1> SUFFICES ASSUME PoolInv, [WarmPoolNext]_warmPoolVars PROVE PoolInv'
  OBVIOUS
<1>1. CASE \E b \in Borrowers : \/ Acquire(b) \/ Booted(b) \/ BootFails(b) \/ Connected(b)
                                \/ Return(b) \/ Returned(b)
  BY <1>1, AcquireKeeps, BootedKeeps, RunStepKeeps, ReturnKeeps
<1>2. CASE Prewarm \/ PrewarmBooted \/ PrewarmBootFails \/ PrewarmDone
  BY <1>2, PrewarmKeeps
<1>3. CASE PoolStep
  BY <1>3, PoolStepKeeps
<1>4. CASE UNCHANGED warmPoolVars
  <2>1. UNCHANGED <<borrower, prewarm, container, parked, release, dying>>
    BY <1>4 DEF warmPoolVars
  <2>2. PoolTypes' /\ PoolShapes' /\ PoolUnique'
    BY <2>1 DEF PoolInv, PoolTypes, PoolShapes, PoolUnique
  <2>3. PoolPlaces'
    BY <2>1, SameParts DEF PoolInv, PoolPlaces
  <2> QED
    BY <2>2, <2>3 DEF PoolInv
<1> QED
  BY <1>1, <1>2, <1>3, <1>4 DEF WarmPoolNext

(* The places are kept at every moment.                                     *)
THEOREM PoolInvariant == WarmPoolSpec => []PoolInv
BY PoolInitInv, PoolStepInv, PTL DEF WarmPoolSpec

(* Every VM is accounted for: no VM is lent twice, parked twice, or parked   *)
(* while a run still has it, and none that runs is forgotten on the way back *)
(* or by a shutdown (warm-pool.server.ts, with-sandbox.server.ts).           *)
THEOREM NoVMLost == WarmPoolSpec => []VMsAccounted
BY PoolInvariant, PoolInvHolds, PTL

(* A release never takes the pool over its cap; only a prewarm that ends may *)
(* (release and prewarm in warm-pool.server.ts).                             *)
THEOREM CapHolds == WarmPoolSpec => ReleaseKeepsCap
<1> DEFINE Grows == (Len(parked') > Len(parked) /\ Len(parked') > PoolCap) => prewarm.running /\ ~prewarm'.running
<1>1. PoolInv /\ [WarmPoolNext]_warmPoolVars => [Grows]_warmPoolVars
  <2> SUFFICES ASSUME PoolInv, WarmPoolNext, parked' # parked PROVE Grows
    BY DEF warmPoolVars
  <2>1. parked \in Seq(VMs) /\ Len(parked) \in Nat /\ PoolCap \in Nat
    BY VMsAssumption, LenProperties DEF PoolInv, PoolTypes
  <2>2. ASSUME NEW x \in Releasers, ResetRun(x) PROVE Grows
    <3>1. Len(parked) < PoolCap /\ parked' = Append(parked, release[x].vm)
      BY <2>1, <2>2 DEF ResetRun
    <3>2. Len(parked') = Len(parked) + 1
      <4>1. release[x].vm \in VMs
        BY <2>2, VMsAssumption, Having DEF ResetRun, PoolInv, PoolShapes
      <4> QED
        BY <2>1, <3>1, <4>1, AppendProperties
    <3> QED
      BY <2>1, <3>1, <3>2
  <2>3. ASSUME NEW b \in Borrowers, Acquire(b) PROVE Grows
    <3>1. parked # << >> /\ parked' = Tail(parked)
      BY <2>3 DEF Acquire
    <3>2. Len(parked') = Len(parked) - 1
      BY <2>1, <3>1, HeadTailProperties
    <3> QED
      BY <2>1, <3>2
  <2>4. CASE EvictIdle
    <3>1. PICK n \in 1..Len(parked) : parked' = SubSeq(parked, n + 1, Len(parked))
      BY <2>4 DEF EvictIdle
    <3>2. parked' \in Seq(VMs) /\ DOMAIN parked' = 1..Len(parked) - n
      BY <2>1, <3>1, Cut
    <3>3. Len(parked') = Len(parked) - n
      <4>1. Len(parked') \in Nat /\ DOMAIN parked' = 1..Len(parked')
        BY <3>2, LenProperties
      <4> QED
        BY <2>1, <3>2, <4>1
    <3> QED
      BY <2>1, <3>3
  <2>5. CASE PoolShutdown
    BY <2>1, <2>5, EmptySeq DEF PoolShutdown
  <2>6. CASE PrewarmDone
    BY <2>6 DEF PrewarmDone, NotPrewarming
  <2>7. \/ \E x \in Releasers : ResetRun(x)
        \/ \E b \in Borrowers : Acquire(b)
        \/ EvictIdle \/ PoolShutdown \/ PrewarmDone
    BY DEF WarmPoolNext, PoolStep, ReleaseStep, ResetRemove, ResetFails, ReleaseDestroys, Booted, BootFails,
       Connected, Return, Returned, Prewarm, PrewarmBooted, PrewarmBootFails, Destroyed, ContainerDies, vmVars
  <2> HIDE DEF Grows
  <2> QED
    BY <2>2, <2>3, <2>4, <2>5, <2>6, <2>7
<1> QED
  BY <1>1, PoolInvariant, PTL DEF WarmPoolSpec, ReleaseKeepsCap
=============================================================================
