-------------------------- MODULE AttachmentTable ---------------------------
(***************************************************************************)
(* The id-addressable, reference-counted table of live sandboxes           *)
(* (app/src/lib/sandbox/attachment-table.server.ts) over the warm pool.    *)
(*                                                                         *)
(* A caller is a turn, or a Shell, that acquires the sandbox of an id,     *)
(* works in it and releases it.  Nothing here is atomic across an await:   *)
(* acquire checks the health of the entry it found, tears stale ones down, *)
(* makes room, boots and connects, and between any two of these the other  *)
(* callers, the sweep timer and the evictions run.  An attachment is known *)
(* by its key, for a caller may hold one the table has since dropped.      *)
(***************************************************************************)
EXTENDS SandboxVMs

CONSTANTS
  Ids,             (* attachment ids, one per chat session                  *)
  Callers,         (* concurrent users of acquire()                         *)
  MayAcquire,      (* the ids each caller may ask for                       *)
  FreshCallers,    (* callers that may ask for a fresh sandbox              *)
  Keys,            (* identities of attachments                             *)
  NoId, NoKey,     (* no id, no attachment                                  *)
  MaxAttachments,  (* the at-rest cap                                       *)
  Deaths,          (* may containers die on their own                       *)
  Shutdowns        (* may the table be shut down                            *)

ASSUME TableAssumption ==
  /\ Releasers = Keys \cup Callers
  /\ Keys \cap Callers = {}
  /\ NoId \notin Ids
  /\ NoKey \notin Keys
  /\ MayAcquire \in [Callers -> SUBSET Ids]
  /\ FreshCallers \subseteq Callers /\ IsFiniteSet(Callers)
  /\ MaxAttachments \in Nat \ {0}
  /\ Deaths \in BOOLEAN
  /\ Shutdowns \in BOOLEAN

VARIABLES
  table,   (* the entries, least recently used first                           *)
  caller   (* what each caller is doing, for which id, attachment and VM       *)

tableVars == <<table, caller, container, parked, release, dying>>

Entry  == [key : Keys, id : Ids, vm : VMs, refs : Nat]

CallerAt(p, i, k, v) == [pc |-> p, id |-> i, key |-> k, vm |-> v]
Idle           == CallerAt("idle", NoId, NoKey, NoVM)

-----------------------------------------------------------------------------
TableEntries      == {table[n] : n \in DOMAIN table}
EntryOf(i)   == {e \in TableEntries : e.id = i}
WithKey(k)   == {e \in TableEntries : e.key = k}

(* T without the entries E: what is left keeps its order, so the n-th entry *)
(* stands at the place that has n of the places left up to itself.          *)
Left(T, E)    == {m \in DOMAIN T : T[m] \notin E}
Rank(m, N)    == Cardinality({k \in N : k <= m})
Without(T, E) ==
  LET N == Left(T, E)
  IN  [n \in 1..Cardinality(N) |-> T[CHOOSE m \in N : Rank(m, N) = n]]

(* The callers that run the boot of an id; inFlight has the id exactly while *)
(* there is one.                                                             *)
Booting  == {"evicting", "booting", "connecting", "returning"}
Booters(i) == {c \in Callers : caller[c].id = i /\ caller[c].pc \in Booting}
Joiners(i) == {c \in Callers : caller[c].id = i /\ caller[c].pc = "joining"}

(* What is spoken for: a new handle or attachment takes a name that is free. *)
VMsInUse  == {e.vm : e \in TableEntries} \cup {caller[c].vm : c \in Callers}
               \cup Parked \cup Releasing \cup dying
KeysInUse == {e.key : e \in TableEntries} \cup {caller[c].key : c \in Callers}
               \cup {k \in Keys : release[k] # NoRelease}
FreshVMs  == {v \in VMs \ VMsInUse : container[v] = "gone"}
FreshKeys == Keys \ KeysInUse

(* The entries E leave the table and their VMs are given to the pool. *)
Teardown(E) == Started([k \in {e.key : e \in E} |-> (CHOOSE e \in E : e.key = k).vm])

(* sweepIdle evicts the parked entries idle past the threshold: with the   *)
(* entries in order of last use, the parked ones among the first n.        *)
SweptAt(n) == {table[m] : m \in {m \in 1..n : table[m].refs = 0}}

-----------------------------------------------------------------------------
EvictableNone(T) == {n \in DOMAIN T : T[n].refs < 0}   (* mutant: never anything *)

(* What the cap may take: the entries nobody uses. *)
Evictable(T) == {n \in DOMAIN T : T[n].refs = 0}

(* enforceCap and pool.acquire, up to the first await, on the table T left *)
(* by the step so far, which has already dropped the entries E: evict the  *)
(* least recently used parked entry if the table is full, else take the VM *)
(* parked longest, else boot.                                              *)
MakeRoom(c, i, T, E) ==
  LET Idles == Evictable(T)
      lru   == T[CHOOSE n \in Idles : \A m \in Idles : n <= m]
      Room  == Len(T) < MaxAttachments \/ Idles = {}
  IN \/ /\ ~Room
        /\ table' = Without(T, {lru})
        /\ release' = Teardown(E \cup {lru})
        /\ caller' = [caller EXCEPT ![c] = CallerAt("evicting", i, lru.key, NoVM)]
        /\ UNCHANGED <<container, parked, dying>>
     \/ /\ Room
        /\ table' = T
        /\ release' = Teardown(E)
        /\ IF parked # << >>
           THEN /\ caller' = [caller EXCEPT ![c] = CallerAt("connecting", i, NoKey, Head(parked))]
                /\ parked' = Tail(parked)
           ELSE /\ caller' = [caller EXCEPT ![c] = CallerAt("booting", i, NoKey, NoVM)]
                /\ UNCHANGED parked
        /\ UNCHANGED <<container, dying>>

ShareNothing(c, i, T, E) == MakeRoom(c, i, T, E)   (* mutant: inFlight is not looked at *)

(* The rest of acquire once no live entry was found: share the boot that is *)
(* in flight for the id, or start one.                                      *)
ShareOrBoot(c, i, T, E) ==
  \/ /\ Booters(i) # {}
     /\ table' = T
     /\ release' = Teardown(E)
     /\ caller' = [caller EXCEPT ![c] = CallerAt("joining", i, NoKey, NoVM)]
     /\ UNCHANGED <<container, parked, dying>>
  \/ Booters(i) = {} /\ MakeRoom(c, i, T, E)

(* acquire(id) up to its first await: the lazy sweep drops what is idle,   *)
(* then the id is looked up in what is left.                               *)
EnterAcquire(c, i) ==
  \E n \in 0..Len(table) :
    LET E == SweptAt(n)
        T == Without(table, E)
        found == EntryOf(i) \ E
    IN \/ /\ found # {}
          /\ table' = T
          /\ release' = Teardown(E)
          /\ \E e \in found : caller' = [caller EXCEPT ![c] = CallerAt("health", i, e.key, e.vm)]
          /\ UNCHANGED <<container, parked, dying>>
       \/ found = {} /\ ShareOrBoot(c, i, T, E)

Acquire(c) ==
  /\ caller[c].pc = "idle"
  /\ \E i \in MayAcquire[c] : EnterAcquire(c, i)

(* withSandbox({ fresh: true }) first destroys the stored entry, whoever   *)
(* uses it, and waits until its VM is back in the pool.                    *)
DestroyById(c) ==
  /\ caller[c].pc = "idle"
  /\ c \in FreshCallers
  /\ \E i \in MayAcquire[c] :
       \/ /\ EntryOf(i) = {}
          /\ EnterAcquire(c, i)
       \/ \E e \in EntryOf(i) :
            /\ table' = Without(table, {e})
            /\ release' = Teardown({e})
            /\ caller' = [caller EXCEPT ![c] = CallerAt("clearing", i, e.key, NoVM)]
            /\ UNCHANGED <<container, parked, dying>>

Cleared(c) ==
  /\ caller[c].pc = "clearing"
  /\ release[caller[c].key] = NoRelease
  /\ EnterAcquire(c, caller[c].id)

(* The health check answers "healthy": the attachment found before the     *)
(* await is used, whatever became of its entry.                            *)
Reuse(c) ==
  LET k == caller[c].key
      bumped == {[e EXCEPT !.refs = @ + 1] : e \in WithKey(k)}
  IN /\ caller[c].pc = "health"
     /\ container[caller[c].vm] = "up"
     /\ caller' = [caller EXCEPT ![c].pc = "holding"]
     /\ table' = IF bumped = {} THEN table
                 ELSE Append(Without(table, WithKey(k)), CHOOSE e \in bumped : TRUE)
     /\ UNCHANGED vmVars

(* It answers otherwise: evictStale removes whatever entry the id has now  *)
(* and starts destroying the VM it checked.                                *)
EvictStale(c) ==
  /\ caller[c].pc = "health"
  /\ container[caller[c].vm] = "gone"
  /\ table' = Without(table, EntryOf(caller[c].id))
  /\ caller' = [caller EXCEPT ![c].pc = "discarding"]
  /\ UNCHANGED vmVars

Discarded(c) ==
  LET i == caller[c].id
      gone == [container EXCEPT ![caller[c].vm] = "gone"]
  IN /\ caller[c].pc = "discarding"
     /\ caller[c].vm # NoVM
     /\ container' = gone
     /\ caller' = [caller EXCEPT ![c] = CallerAt("discarding", i, NoKey, NoVM)]
     /\ UNCHANGED <<table, parked, release, dying>>

(* Once the stale VM is destroyed acquire goes on as if nothing was found. *)
BootAnew(c) ==
  /\ caller[c].pc = "discarding"
  /\ caller[c].vm = NoVM
  /\ ShareOrBoot(c, caller[c].id, table, {})

EvictedRoom(c) ==   (* mutant: the cap is hard *)
  /\ caller[c].pc = "evicting"
  /\ release[caller[c].key] = NoRelease
  /\ Len(table) < MaxAttachments
  /\ MakeRoom(c, caller[c].id, table, {})

(* The evicted entry's VM is back in the pool: look at the cap again. *)
Evicted(c) ==
  /\ caller[c].pc = "evicting"
  /\ release[caller[c].key] = NoRelease
  /\ MakeRoom(c, caller[c].id, table, {})

Booted(c) ==
  /\ caller[c].pc = "booting"
  /\ \E v \in FreshVMs :
       /\ container' = [container EXCEPT ![v] = "up"]
       /\ caller' = [caller EXCEPT ![c] = CallerAt("connecting", caller[c].id, NoKey, v)]
  /\ UNCHANGED <<table, parked, release, dying>>

(* The boot promise rejects: so do the acquires that share it. *)
Rejected(i) == [d \in Callers |-> IF d \in Booters(i) \cup Joiners(i) THEN Idle ELSE caller[d]]

BootFails(c) ==
  /\ caller[c].pc = "booting"
  /\ caller' = Rejected(caller[c].id)
  /\ UNCHANGED <<table, container, parked, release, dying>>

ConnectedAlone(c) ==   (* mutant: the acquires that joined are not counted *)
  LET i == caller[c].id
      v == caller[c].vm
  IN /\ caller[c].pc = "connecting"
     /\ container[v] = "up"
     /\ \E k \in FreshKeys :
          /\ table' = Append(Without(table, EntryOf(i)), [key |-> k, id |-> i, vm |-> v, refs |-> 1])
          /\ caller' = [d \in Callers |-> IF d \in Joiners(i) \cup {c}
                                          THEN CallerAt("holding", i, k, v) ELSE caller[d]]
     /\ UNCHANGED vmVars

ConnectedLate(c) ==   (* mutant: the record is cleared before it is stored *)
  LET i == caller[c].id
  IN /\ caller[c].pc = "connecting"
     /\ container[caller[c].vm] = "up"
     /\ \E k \in FreshKeys :
          /\ table' = Append(Without(table, EntryOf(i)), [key |-> k, id |-> i, vm |-> NoVM, refs |-> 1])
          /\ caller' = [caller EXCEPT ![c] = CallerAt("holding", i, k, NoVM)]
     /\ UNCHANGED vmVars

(* Connected: the entry is stored and the boot settles.  The acquires that *)
(* wait on its promise take their references before anything else runs.    *)
Connected(c) ==
  LET i == caller[c].id
      v == caller[c].vm
      J == Joiners(i)
  IN /\ caller[c].pc = "connecting"
     /\ container[v] = "up"
     /\ \E k \in FreshKeys :
          /\ table' = Append(Without(table, EntryOf(i)),
                             [key |-> k, id |-> i, vm |-> v, refs |-> 1 + Cardinality(J)])
          /\ caller' = [d \in Callers |-> IF d \in J \cup {c} THEN CallerAt("holding", i, k, v)
                                                             ELSE caller[d]]
     /\ UNCHANGED vmVars

(* Mutant: its VM is not given back. *)
ConnectFailsLeaks(c) ==
  /\ caller[c].pc = "connecting"
  /\ caller' = Rejected(caller[c].id)
  /\ UNCHANGED <<table, container, parked, release, dying>>

(* It cannot connect: the VM goes to the pool and the boot then rejects. *)
ConnectFails(c) ==
  /\ caller[c].pc = "connecting"
  /\ release' = Started([x \in {c} |-> caller[c].vm])
  /\ caller' = [caller EXCEPT ![c] = CallerAt("returning", caller[c].id, NoKey, NoVM)]
  /\ UNCHANGED <<table, container, parked, dying>>

Returned(c) ==
  /\ caller[c].pc = "returning"
  /\ release[c] = NoRelease
  /\ caller' = Rejected(caller[c].id)
  /\ UNCHANGED <<table, container, parked, release, dying>>

ReleaseById(c) ==   (* mutant: whatever entry the id has is credited *)
  LET i == caller[c].id
      dropped == {[e EXCEPT !.refs = IF @ = 0 THEN 0 ELSE @ - 1] : e \in EntryOf(i)}
  IN /\ caller[c].pc = "holding"
     /\ caller' = [caller EXCEPT ![c] = Idle]
     /\ table' = IF dropped = {} THEN table
                 ELSE Append(Without(table, EntryOf(i)), CHOOSE e \in dropped : TRUE)
     /\ UNCHANGED vmVars

(* The caller is done: its reference is dropped and the entry, if it is    *)
(* still in the table, becomes the most recently used.                     *)
Release(c) ==
  LET k == caller[c].key
      dropped == {[e EXCEPT !.refs = IF @ = 0 THEN 0 ELSE @ - 1] : e \in WithKey(k)}
  IN /\ caller[c].pc = "holding"
     /\ caller' = [caller EXCEPT ![c] = Idle]
     /\ table' = IF dropped = {} THEN table
                 ELSE Append(Without(table, WithKey(k)), CHOOSE e \in dropped : TRUE)
     /\ UNCHANGED vmVars

(* The sweep timer. *)
SweepIdle ==
  \E n \in 1..Len(table) :
    LET E == SweptAt(n)
    IN /\ E # {}
       /\ table' = Without(table, E)
       /\ release' = Teardown(E)
       /\ UNCHANGED <<caller, container, parked, dying>>

(* Mutant: the entries stay in the table. *)
ShutdownKeeps ==
  /\ Shutdowns
  /\ table # << >>
  /\ release' = Teardown(TableEntries)
  /\ UNCHANGED <<table, caller, container, parked, dying>>

(* Shutdown empties the table whoever uses it; boots in flight go on. *)
Shutdown ==
  /\ Shutdowns
  /\ table # << >>
  /\ table' = << >>
  /\ release' = Teardown(TableEntries)
  /\ UNCHANGED <<caller, container, parked, dying>>

(* The pool's own steps, and containers that die. *)
PoolStep ==
  /\ \/ \E x \in Releasers : ReleaseStep(x)
     \/ EvictIdle
     \/ \E v \in VMs : Destroyed(v)
     \/ Deaths /\ \E v \in VMs : ContainerDies(v)
  /\ UNCHANGED <<table, caller>>

-----------------------------------------------------------------------------
TableInit ==
  /\ VMInit
  /\ table = << >>
  /\ caller = [c \in Callers |-> Idle]

CallerAdvances(c) ==
  \/ Cleared(c) \/ Reuse(c) \/ EvictStale(c) \/ Discarded(c) \/ BootAnew(c)
  \/ Evicted(c) \/ Booted(c) \/ BootFails(c) \/ Connected(c) \/ ConnectFails(c) \/ Returned(c)

TableNext ==
  \/ \E c \in Callers : Acquire(c) \/ DestroyById(c) \/ CallerAdvances(c) \/ Release(c)
  \/ SweepIdle \/ Shutdown \/ PoolStep

(* Every docker command settles: each has a time limit, after which it     *)
(* rejects.  Nothing forces a caller to acquire, nor to stop working.      *)
TableFairness ==
  /\ \A c \in Callers : WF_tableVars(CallerAdvances(c))
  /\ \A x \in Releasers : WF_tableVars(ReleaseStep(x) /\ UNCHANGED <<table, caller>>)

TableSpec == TableInit /\ [][TableNext]_tableVars /\ TableFairness

-----------------------------------------------------------------------------
PCs == {"idle", "clearing", "health", "discarding", "joining", "holding"} \cup Booting

TableTypeOK ==
  /\ VMTypeOK
  /\ table \in Seq(Entry)
  /\ caller \in [Callers -> [pc : PCs, id : Ids \cup {NoId},
                          key : Keys \cup {NoKey}, vm : VMs \cup {NoVM}]]

(* Who may hand a VM on: a table entry, a place in the pool, a release or  *)
(* destroy in progress, a boot that has it.  A handle never has two of     *)
(* these, so no VM is parked twice, recycled twice, or given to two        *)
(* sessions, however sweeps, evictions and failures interleave.            *)
Owners(v) ==
  (({"table"} \X {n \in DOMAIN table : table[n].vm = v})
   \cup ({"pool"} \X {n \in DOMAIN parked : parked[n] = v}))
  \cup (({"release"} \X {x \in Releasers : release[x].vm = v})
        \cup ({"boot"} \X {c \in Callers : caller[c].pc = "connecting" /\ caller[c].vm = v}))
  \cup ({"dying"} \X (dying \cap {v}))

SoleOwner == \A v \in VMs : Cardinality(Owners(v)) <= 1

(* The reference count of an entry is the number of callers that work in   *)
(* it: a count too low lets a sweep reap a sandbox in use, one too high    *)
(* keeps a VM for ever.                                                    *)
RefsExact ==
  \A e \in TableEntries :
    e.refs = Cardinality({c \in Callers : caller[c].pc = "holding" /\ caller[c].key = e.key})

(* "only the first call does the work": an id never has two boots going.   *)
SingleFlight == \A i \in Ids : Cardinality(Booters(i)) <= 1

(* The soft cap: concurrent boots overflow the table by less than one      *)
(* entry per caller, never without bound.                                  *)
SoftCap == Len(table) <= MaxAttachments + Cardinality(Callers) - 1

(* Under any overlap of hits, boots, evictions and deaths one id has one    *)
(* boot, one VM has one owner, and only boots under way overflow the cap.   *)
OneBootOneOwner == TableTypeOK /\ SingleFlight /\ SoleOwner /\ SoftCap

(* The table's books are true of the sandboxes and of those who work in     *)
(* them: what an entry counts, who boots, who owns.                         *)
TableKept == RefsExact /\ OneBootOneOwner

(* Every running container is somebody's: one that nobody owns is never    *)
(* reaped while the process lives.  (Two callers that find one entry of    *)
(* the same id dead break it: see the README.)                             *)
BeingDiscarded == {caller[c].vm : c \in {c \in Callers : caller[c].pc = "discarding"}}
NoOrphan == \A v \in VMs : container[v] = "up" => Owners(v) # {} \/ v \in BeingDiscarded

(* "a hit reuses the live VM + transport": an attachment in use is still   *)
(* the table's entry of its id, unless its owner asked for a fresh one.    *)
HeldIsStored ==
  \A c \in Callers : caller[c].pc = "holding" =>
    \E e \in EntryOf(caller[c].id) : e.key = caller[c].key

(* Every acquire returns or throws once the other callers leave it alone:  *)
(* no caller waits for ever on a boot, an eviction, or a peer.  (While the *)
(* others keep filling the table, the eviction loop may start over and     *)
(* over: room made for this boot is taken by theirs.)                      *)
Waiting(c) == caller[c].pc \notin {"idle", "holding"}
AcquireSettles ==
  \A c \in Callers :
    <>[](\A d \in Callers \ {c} : ~Waiting(d)) => (Waiting(c) ~> ~Waiting(c))
=============================================================================
