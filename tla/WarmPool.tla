------------------------------ MODULE WarmPool ------------------------------
(***************************************************************************)
(* The warm pool under anonymous sandboxes: withSandbox without an id      *)
(* takes a VM from the pool for one pattern run and gives it back          *)
(* (runWithPool in app/src/lib/sandbox/with-sandbox.server.ts), beside     *)
(* prewarm, the idle eviction and the shutdown of the pool itself.         *)
(***************************************************************************)
EXTENDS SandboxVMs

Borrowers == Releasers

VARIABLES
  borrower,   (* what each pattern run is doing, and with which VM           *)
  prewarm     (* the prewarm call: boots to come, VMs booted, or not running *)

warmPoolVars == <<borrower, prewarm, container, parked, release, dying>>

At(p, v) == [pc |-> p, vm |-> v]
NotPrewarming == [running |-> FALSE, left |-> 0, vms |-> << >>]

Borrowed   == {borrower[b].vm : b \in Borrowers} \ {NoVM}
Prewarmed  == {prewarm.vms[n] : n \in DOMAIN prewarm.vms}
FreshVMs   == {v \in VMs \ (Borrowed \cup Prewarmed \cup Parked \cup Releasing \cup dying) :
                 container[v] = "gone"}

-----------------------------------------------------------------------------
WarmPoolInit ==
  /\ VMInit
  /\ borrower = [b \in Borrowers |-> At("idle", NoVM)]
  /\ prewarm = NotPrewarming

(* Mutant: the VM handed out stays in the pool. *)
AcquirePeeks(b) ==
  /\ borrower[b].pc = "idle"
  /\ borrower' = [borrower EXCEPT ![b] = IF parked # << >> THEN At("connecting", Head(parked))
                                         ELSE At("booting", NoVM)]
  /\ UNCHANGED <<prewarm, container, parked, release, dying>>

(* acquire: the VM parked longest, or a cold boot. *)
Acquire(b) ==
  /\ borrower[b].pc = "idle"
  /\ IF parked # << >>
     THEN /\ borrower' = [borrower EXCEPT ![b] = At("connecting", Head(parked))]
          /\ parked' = Tail(parked)
     ELSE /\ borrower' = [borrower EXCEPT ![b] = At("booting", NoVM)]
          /\ UNCHANGED parked
  /\ UNCHANGED <<prewarm, container, release, dying>>

Booted(b) ==
  /\ borrower[b].pc = "booting"
  /\ \E v \in FreshVMs :
       /\ container' = [container EXCEPT ![v] = "up"]
       /\ borrower' = [borrower EXCEPT ![b] = At("connecting", v)]
  /\ UNCHANGED <<prewarm, parked, release, dying>>

BootFails(b) ==
  /\ borrower[b].pc = "booting"
  /\ borrower' = [borrower EXCEPT ![b] = At("idle", NoVM)]
  /\ UNCHANGED <<prewarm, vmVars>>

Connected(b) ==
  /\ borrower[b].pc = "connecting"
  /\ container[borrower[b].vm] = "up"
  /\ borrower' = [borrower EXCEPT ![b].pc = "running"]
  /\ UNCHANGED <<prewarm, vmVars>>

(* Mutant: the finally block has lost the VM it should give back. *)
ReturnNothing(b) ==
  /\ borrower[b].pc \in {"connecting", "running"}
  /\ release' = Started([x \in {b} |-> NoVM])
  /\ borrower' = [borrower EXCEPT ![b] = At("returning", NoVM)]
  /\ UNCHANGED <<prewarm, container, parked, dying>>

(* The finally block, reached when the pattern ends and when the connect   *)
(* failed: the VM is released, and the run ends once that has settled.     *)
Return(b) ==
  /\ borrower[b].pc \in {"connecting", "running"}
  /\ release' = Started([x \in {b} |-> borrower[b].vm])
  /\ borrower' = [borrower EXCEPT ![b] = At("returning", NoVM)]
  /\ UNCHANGED <<prewarm, container, parked, dying>>

Returned(b) ==
  /\ borrower[b].pc = "returning"
  /\ release[b] = NoRelease
  /\ borrower' = [borrower EXCEPT ![b].pc = "idle"]
  /\ UNCHANGED <<prewarm, vmVars>>

(* prewarm: the number of boots is settled from the pool's size now; what  *)
(* they produce is parked together when the last one has settled.          *)
Prewarm ==
  /\ ~prewarm.running
  /\ \E count \in 1..PoolCap :
       LET room   == PoolCap - Len(parked)
           target == IF count < room THEN count ELSE room
       IN target > 0 /\ prewarm' = [running |-> TRUE, left |-> target, vms |-> << >>]
  /\ UNCHANGED <<borrower, vmVars>>

PrewarmBooted ==
  /\ prewarm.left > 0
  /\ \E v \in FreshVMs :
       /\ container' = [container EXCEPT ![v] = "up"]
       /\ prewarm' = [prewarm EXCEPT !.left = @ - 1, !.vms = Append(@, v)]
  /\ UNCHANGED <<borrower, parked, release, dying>>

PrewarmBootFails ==
  /\ prewarm.left > 0
  /\ prewarm' = [prewarm EXCEPT !.left = @ - 1]
  /\ UNCHANGED <<borrower, vmVars>>

PrewarmDone ==
  /\ prewarm.running
  /\ prewarm.left = 0
  /\ parked' = parked \o prewarm.vms
  /\ prewarm' = NotPrewarming
  /\ UNCHANGED <<borrower, container, release, dying>>

PoolStep ==
  /\ \/ \E x \in Releasers : ReleaseStep(x)
     \/ EvictIdle
     \/ PoolShutdown
     \/ \E v \in VMs : Destroyed(v) \/ ContainerDies(v)
  /\ UNCHANGED <<borrower, prewarm>>

WarmPoolNext ==
  \/ \E b \in Borrowers :
       \/ Acquire(b) \/ Booted(b) \/ BootFails(b) \/ Connected(b)
       \/ Return(b) \/ Returned(b)
  \/ Prewarm \/ PrewarmBooted \/ PrewarmBootFails \/ PrewarmDone
  \/ PoolStep

(* Docker commands have a time limit, and a pattern run ends. *)
WarmPoolFairness ==
  /\ \A b \in Borrowers :
       WF_warmPoolVars(Booted(b) \/ BootFails(b) \/ Connected(b) \/ Return(b) \/ Returned(b))
  /\ \A x \in Releasers : WF_warmPoolVars(ReleaseStep(x) /\ UNCHANGED <<borrower, prewarm>>)
  /\ \A v \in VMs : WF_warmPoolVars(Destroyed(v) /\ UNCHANGED <<borrower, prewarm>>)

WarmPoolSpec == WarmPoolInit /\ [][WarmPoolNext]_warmPoolVars /\ WarmPoolFairness

-----------------------------------------------------------------------------
WarmPoolTypeOK ==
  /\ VMTypeOK
  /\ borrower \in [Borrowers -> [pc : {"idle", "booting", "connecting", "running", "returning"},
                                 vm : VMs \cup {NoVM}]]
  /\ prewarm.running \in BOOLEAN /\ prewarm.left \in 0..PoolCap /\ Prewarmed \subseteq VMs

(* A VM is in one place: with one pattern run, at one position of the      *)
(* pool, in one release, or in the prewarm.  Two runs never share one.     *)
Places(v) ==
  (({"run"} \X {b \in Borrowers : borrower[b].vm = v})
   \cup ({"pool"} \X {n \in DOMAIN parked : parked[n] = v}))
  \cup (({"release"} \X {x \in Releasers : release[x].vm = v})
        \cup ({"prewarm"} \X {n \in DOMAIN prewarm.vms : prewarm.vms[n] = v}))
  \cup ({"dying"} \X (dying \cap {v}))

SolePlace == \A v \in VMs : Cardinality(Places(v)) <= 1

(* A running container is always in some place: whatever fails on the way  *)
(* back to the pool, and whenever the pool is shut down, none is lost.     *)
NothingLost == \A v \in VMs : container[v] = "up" => Places(v) # {}

(* Every VM is accounted for: exactly one place while its container runs,   *)
(* and never two.                                                           *)
VMsAccounted == WarmPoolTypeOK /\ SolePlace /\ NothingLost

(* "capped by caps[rootfs]": a release never takes the pool over its cap.  *)
(* What does is a prewarm that ends, for it looked at the pool before its   *)
(* boots; while it parks nothing, no step parks beyond the cap.             *)
ReleaseKeepsCap ==
  [][(Len(parked') > Len(parked) /\ Len(parked') > PoolCap) => prewarm.running /\ ~prewarm'.running]_warmPoolVars

(* A VM on its way out of a run, or dying, does not stay there. *)
ReleaseSettles == \A b \in Borrowers : (borrower[b].pc = "returning") ~> (borrower[b].pc = "idle")
=============================================================================
