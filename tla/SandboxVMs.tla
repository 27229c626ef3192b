----------------------------- MODULE SandboxVMs -----------------------------
(***************************************************************************)
(* The VM handles of one root filesystem flavor, the containers behind     *)
(* them, and the warm pool that recycles them                              *)
(* (app/src/lib/sandbox/warm-pool.server.ts, docker-backend.server.ts).    *)
(*                                                                         *)
(* A handle outlives its container: reset removes the container and runs a *)
(* new one under the same handle.  Every backend call is asynchronous, so  *)
(* each is a step of its own and whatever else runs may come in between.   *)
(* The modules that use the pool extend this one: they decide who releases *)
(* a handle (Releasers) and which handles are still spoken for.            *)
(***************************************************************************)
EXTENDS Integers, Sequences, FiniteSets

CONSTANTS
  VMs,        (* VM handles; enough of them that a boot never runs out        *)
  Releasers,  (* whoever can have a pool.release() call in progress           *)
  PoolCap,    (* caps[rootfs]: how many VMs may be parked                     *)
  NoVM        (* no handle                                                    *)

ASSUME VMsAssumption ==
  /\ PoolCap \in Nat
  /\ NoVM \notin VMs

VARIABLES
  container,  (* per handle: is its container "up" or "gone"                  *)
  parked,     (* the pool, oldest first                                       *)
  release,    (* the release() call of each releaser, and where it has got to *)
  dying       (* handles being destroyed with nobody waiting                  *)

vmVars == <<container, parked, release, dying>>

NoRelease == [step |-> "idle", vm |-> NoVM]

Parked    == {parked[i] : i \in DOMAIN parked}
Releasing == {release[x].vm : x \in Releasers} \ {NoVM}

VMTypeOK ==
  /\ container \in [VMs -> {"up", "gone"}]
  /\ parked \in Seq(VMs)
  /\ release \in [Releasers -> [step : {"idle", "remove", "run", "destroy"},
                                vm   : VMs \cup {NoVM}]]
  /\ dying \in SUBSET VMs

VMInit ==
  /\ container = [v \in VMs |-> "gone"]
  /\ parked = << >>
  /\ release = [x \in Releasers |-> NoRelease]
  /\ dying = {}

-----------------------------------------------------------------------------
(* release(vm) begins: the calls in progress once every x in DOMAIN job    *)
(* has started releasing job[x].                                           *)
Started(job) ==
  [x \in Releasers |-> IF x \in DOMAIN job THEN [step |-> "remove", vm |-> job[x]]
                                           ELSE release[x]]

(* reset: the old container is removed ... *)
ResetRemove(x) ==
  /\ release[x].step = "remove"
  /\ container' = [container EXCEPT ![release[x].vm] = "gone"]
  /\ release' = [release EXCEPT ![x].step = "run"]
  /\ UNCHANGED <<parked, dying>>

(* Mutants: a VM the full pool cannot take is forgotten, or parked anyway. *)
ResetRunForgets(x) ==
  LET vm == release[x].vm
  IN /\ release[x].step = "run"
     /\ container' = [container EXCEPT ![vm] = "up"]
     /\ release' = [release EXCEPT ![x] = NoRelease]
     /\ parked' = IF Len(parked) >= PoolCap THEN parked ELSE Append(parked, vm)
     /\ UNCHANGED dying

ResetRunParks(x) ==
  LET vm == release[x].vm
  IN /\ release[x].step = "run"
     /\ container' = [container EXCEPT ![vm] = "up"]
     /\ release' = [release EXCEPT ![x] = NoRelease]
     /\ parked' = Append(parked, vm)
     /\ UNCHANGED dying

(* ... and a new one is run.  The handle is parked if the pool has room *)
(* when the reset returns, and destroyed if not.                        *)
ResetRun(x) ==
  LET vm == release[x].vm
  IN /\ release[x].step = "run"
     /\ container' = [container EXCEPT ![vm] = "up"]
     /\ IF Len(parked) >= PoolCap
        THEN release' = [release EXCEPT ![x].step = "destroy"] /\ UNCHANGED parked
        ELSE release' = [release EXCEPT ![x] = NoRelease] /\ parked' = Append(parked, vm)
     /\ UNCHANGED dying

(* Mutant: a reset that failed is tried again for as long as it takes. *)
ResetRetries(x) ==
  /\ release[x].step = "run"
  /\ release' = [release EXCEPT ![x].step = "remove"]
  /\ UNCHANGED <<container, parked, dying>>

(* The new container does not start: reset throws and the handle is destroyed. *)
ResetFails(x) ==
  /\ release[x].step = "run"
  /\ release' = [release EXCEPT ![x].step = "destroy"]
  /\ UNCHANGED <<container, parked, dying>>

ReleaseDestroys(x) ==
  /\ release[x].step = "destroy"
  /\ container' = [container EXCEPT ![release[x].vm] = "gone"]
  /\ release' = [release EXCEPT ![x] = NoRelease]
  /\ UNCHANGED <<parked, dying>>

ReleaseStep(x) == ResetRemove(x) \/ ResetRun(x) \/ ResetFails(x) \/ ReleaseDestroys(x)

(* evictIdle: the VMs parked longest leave the pool at once; their         *)
(* containers are destroyed in the background.  The idle threshold cuts    *)
(* the pool, which is in parking order, at some place n.                   *)
EvictIdle ==
  \E n \in 1..Len(parked) :
    /\ parked' = SubSeq(parked, n + 1, Len(parked))
    /\ dying' = dying \cup {parked[i] : i \in 1..n}
    /\ UNCHANGED <<container, release>>

(* shutdown of the pool: every parked VM is destroyed; releases in progress *)
(* go on and may park afterwards.                                           *)
PoolShutdown ==
  /\ parked # << >>
  /\ parked' = << >>
  /\ dying' = dying \cup Parked
  /\ UNCHANGED <<container, release>>

Destroyed(v) ==
  /\ v \in dying
  /\ container' = [container EXCEPT ![v] = "gone"]
  /\ dying' = dying \ {v}
  /\ UNCHANGED <<parked, release>>

(* A container dies on its own: host crash, an external docker rm, OOM. *)
ContainerDies(v) ==
  /\ container[v] = "up"
  /\ container' = [container EXCEPT ![v] = "gone"]
  /\ UNCHANGED <<parked, release, dying>>
=============================================================================
