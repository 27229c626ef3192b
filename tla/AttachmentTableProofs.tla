------------------------ MODULE AttachmentTableProofs ------------------------
(* The table's books are true of the sandboxes and of those who work in     *)
(* them, for any callers, ids, VMs and caps; and when no two callers share  *)
(* an id, every running container is somebody's.  The invariant adds to the *)
(* properties the runs check what they rest on: no two entries agree in     *)
(* key, id or VM, no entry is under teardown, and the boots under way are   *)
(* counted against the cap before they are entries.                         *)
EXTENDS AttachmentTable, SandboxVMsProofs

CallerRec == [pc : PCs, id : Ids \cup {NoId}, key : Keys \cup {NoKey}, vm : VMs \cup {NoVM}]

(* Who works in the sandbox of a key, who has a VM that is no entry yet, who *)
(* will add an entry; what the entries and the boots have.                   *)
Working(k) == {c \in Callers : caller[c].pc = "holding" /\ caller[c].key = k}
Boots      == {c \in Callers : caller[c].pc = "connecting"}
Growing    == {c \in Callers : caller[c].pc \in {"booting", "connecting"}}
Boot       == {caller[c].vm : c \in Boots}
VMsOf(E)   == {e.vm : e \in E}
Tab        == VMsOf(Els(table))

TableTypes ==
  /\ table \in Seq(Entry) /\ caller \in [Callers -> CallerRec]
  /\ \A c \in Callers : caller[c].pc # "idle" => caller[c].id \in Ids
  /\ \A c \in Boots : caller[c].vm # NoVM
  /\ \A c \in Callers : caller[c].pc # "returning" => release[c].vm = NoVM

(* A sequence of entries without two of a kind.                              *)
Distinct(T) ==
  /\ T \in Seq(Entry) /\ Once(T)
  /\ \A e, f \in Els(T) : e.key = f.key \/ e.id = f.id \/ e.vm = f.vm => e = f

EntriesKept ==
  /\ Distinct(table)
  /\ \A e \in Els(table) : release[e.key].vm = NoVM /\ e.refs = Cardinality(Working(e.key))

BootsKept ==
  /\ \A c, d \in Callers : caller[c].pc \in Booting /\ caller[d].pc \in Booting
                             /\ caller[c].id = caller[d].id => c = d
  /\ \A c, d \in Boots : caller[c].vm = caller[d].vm => c = d

CapKept == Len(table) + Cardinality(Growing) <= MaxAttachments + Cardinality(Callers) - 1

PlacesKept == VMBooks /\ Boot \cap Tab = {} /\ Outside(Boot \cup Tab, Pool, Rel, dying)

TableInv == TableTypes /\ EntriesKept /\ BootsKept /\ CapKept /\ PlacesKept

(* Each id has one caller that may ask for it.                               *)
OwnIds == \A c, d \in Callers : c # d => MayAcquire[c] \cap MayAcquire[d] = {}

(* Then what a caller found, or did not find, in the table stays so.         *)
OwnInv ==
  /\ Covered(Up, Boot \cup Tab \cup BeingDiscarded, Pool, Rel, dying)
  /\ \A c \in Callers : caller[c].pc # "idle" => caller[c].id \in MayAcquire[c]
  /\ \A c \in Callers : \A e \in Els(table) : e.id = caller[c].id =>
       /\ caller[c].pc = "health" => e.vm = caller[c].vm
       /\ caller[c].pc \notin Booting \cup {"discarding"}

-----------------------------------------------------------------------------
(* A table without some of its entries *)

(* The ranks of n places are 1 to n, each of one place.                      *)
LEMMA RanksCount ==
  ASSUME NEW L \in Nat, NEW N \in SUBSET (1..L)
  PROVE  /\ IsFiniteSet(N) /\ Cardinality(N) \in Nat /\ Cardinality(N) <= L
         /\ N # 1..L => Cardinality(N) < L
         /\ \A m \in N : Rank(m, N) \in 1..Cardinality(N)
         /\ \A m, k \in N : Rank(m, N) = Rank(k, N) => m = k
         /\ \A j \in 1..Cardinality(N) : \E m \in N : Rank(m, N) = j
<1> DEFINE n == Cardinality(N)
           upTo(m) == {k \in N : k <= m}
<1>1. /\ IsFiniteSet(1..L) /\ Cardinality(1..L) = L
      /\ IsFiniteSet(N) /\ n \in Nat /\ n <= L /\ (N # 1..L => n < L)
  <2>1. IsFiniteSet(1..L) /\ Cardinality(1..L) = L
    BY FS_Interval
  <2>2. IsFiniteSet(N) /\ Cardinality(N) <= Cardinality(1..L) /\ (Cardinality(1..L) = Cardinality(N) => 1..L = N)
    BY <2>1, FS_Subset
  <2>3. n \in Nat
    BY <2>2, FS_CardinalityType
  <2> QED
    BY <2>1, <2>2, <2>3
<1>2. ASSUME NEW m \in N
      PROVE  IsFiniteSet(upTo(m)) /\ Rank(m, N) = Cardinality(upTo(m)) /\ Rank(m, N) \in 1..n
  <2>1. upTo(m) \in SUBSET N /\ m \in upTo(m)
    OBVIOUS
  <2>2. IsFiniteSet(upTo(m)) /\ Cardinality(upTo(m)) <= n /\ Cardinality(upTo(m)) \in Nat
    BY <1>1, <2>1, FS_Subset, FS_CardinalityType
  <2>3. Cardinality(upTo(m)) # 0
    BY <2>1, <2>2, FS_EmptySet
  <2>4. Rank(m, N) = Cardinality(upTo(m))
    BY DEF Rank
  <2> HIDE DEF upTo, n
  <2> QED
    BY <1>1, <2>2, <2>3, <2>4
<1>3. ASSUME NEW m \in N, NEW k \in N, m < k
      PROVE  Rank(m, N) < Rank(k, N)
  <2>1. upTo(m) \in SUBSET upTo(k) /\ k \in upTo(k) /\ k \notin upTo(m)
    <3>1. m \in Int /\ k \in Int /\ \A j \in N : j \in Int
      OBVIOUS
    <3>2. \A j \in N : j <= m => j <= k
      BY <1>3, <3>1
    <3>3. ~(k <= m) /\ k <= k
      BY <1>3, <3>1
    <3> QED
      BY <3>2, <3>3
  <2>2. Cardinality(upTo(m)) <= Cardinality(upTo(k)) /\ Cardinality(upTo(k)) # Cardinality(upTo(m))
    <3> HIDE DEF upTo
    <3> QED
      BY <1>2, <2>1, FS_Subset
  <2> HIDE DEF upTo, n
  <2> QED
    BY <1>1, <1>2, <2>2
<1>4. ASSUME NEW m \in N, NEW k \in N, Rank(m, N) = Rank(k, N)
      PROVE  m = k
  <2>1. ~(m < k) /\ ~(k < m)
    <3> HIDE DEF n, upTo
    <3> QED
      BY <1>1, <1>2, <1>3, <1>4
  <2> QED
    BY <2>1
<1>5. ASSUME NEW j \in 1..n
      PROVE  \E m \in N : Rank(m, N) = j
  <2> SUFFICES ASSUME \A m \in N : Rank(m, N) # j PROVE FALSE
    OBVIOUS
  <2> DEFINE R == [m \in N |-> Rank(m, N)]
             T == (1..n) \ {j}
  <2>1. R \in [N -> T]
    BY <1>2
  <2>2. IsFiniteSet(T) /\ Cardinality(T) = n - 1
    <3>1. IsFiniteSet(1..n) /\ Cardinality(1..n) = n
      BY <1>1, FS_Interval
    <3> QED
      BY <3>1, FS_RemoveElement
  <2>3. Cardinality(T) < Cardinality(N)
    BY <1>1, <2>2
  <2> HIDE DEF T
  <2>4. \E m, k \in N : m # k /\ R[m] = R[k]
    <3> HIDE DEF R
    <3> QED
      BY <1>1, <2>1, <2>2, <2>3, FS_PigeonHole
  <2> QED
    BY <1>4, <2>4
<1> HIDE DEF n
<1>6. Cardinality(N) = n
  BY DEF n
<1> QED
  BY <1>1, <1>2, <1>4, <1>5, <1>6

(* Some places have a first one.                                             *)
LEMMA FirstPlace ==
  ASSUME NEW L \in Nat, NEW N \in SUBSET (1..L), N # {}
  PROVE  \E m \in N : \A k \in N : m <= k
<1>1. IsFiniteSet(N) /\ Cardinality(N) \in Nat /\ \A j \in 1..Cardinality(N) : \E m \in N : Rank(m, N) = j
  BY RanksCount
<1>2. Cardinality(N) # 0
  BY <1>1, FS_EmptySet
<1>3. PICK m \in N : Rank(m, N) = 1
  BY <1>1, <1>2
<1> DEFINE S == {k \in N : k <= m}
<1>4. Cardinality(S) = 1 /\ m \in S /\ S \in SUBSET N
  BY <1>3 DEF Rank
<1>5. IsFiniteSet(S)
  <2> HIDE DEF S
  <2> QED
    BY <1>1, <1>4, FS_Subset
<1>6. PICK x : S = {x}
  <2> HIDE DEF S
  <2> QED
    BY <1>4, <1>5, FS_Singleton
<1>7. \A k \in N : k <= m => k = m
  BY <1>4, <1>6
<1> QED
  BY <1>7

(* What is left is the other entries, in a table that is no longer.          *)
LEMMA WithoutKeeps ==
  ASSUME NEW T, Distinct(T), NEW E
  PROVE  /\ Distinct(Without(T, E)) /\ Els(Without(T, E)) = Els(T) \ E
         /\ Len(T) \in Nat /\ Len(Without(T, E)) \in Nat /\ Len(Without(T, E)) <= Len(T)
         /\ Els(T) \cap E # {} => Len(Without(T, E)) < Len(T)
<1> DEFINE L == Len(T)
           N == Left(T, E)
           n == Cardinality(N)
           at == [j \in 1..n |-> CHOOSE m \in N : Rank(m, N) = j]
           W == Without(T, E)
<1>1. T \in Seq(Entry) /\ Once(T) /\ L \in Nat /\ DOMAIN T = 1..L /\ N \in SUBSET (1..L)
      /\ \A m \in 1..L : T[m] \in Entry
  BY LenProperties, ElementOfSeq DEF Distinct, Left
<1>2. /\ n \in Nat /\ n <= L /\ (N # 1..L => n < L)
      /\ \A m \in N : Rank(m, N) \in 1..n
      /\ \A m, k \in N : Rank(m, N) = Rank(k, N) => m = k
      /\ \A j \in 1..n : \E m \in N : Rank(m, N) = j
  <2> HIDE DEF N, L
  <2> QED
    BY <1>1, RanksCount
<1>3. \A j \in 1..n : at[j] \in N /\ Rank(at[j], N) = j
  <2> HIDE DEF N, n
  <2> QED
    BY <1>2
<1>4. \A m \in N : at[Rank(m, N)] = m
  <2> HIDE DEF N, n, at
  <2> QED
    BY <1>2, <1>3
<1>5. W = [j \in 1..n |-> T[at[j]]]
  BY DEF Without
<1>6. W \in Seq(Entry) /\ Len(W) = n /\ DOMAIN W = 1..n /\ \A j \in 1..n : W[j] = T[at[j]]
  <2> HIDE DEF N, n, at, W, L
  <2>1. W \in [1..n -> Entry] /\ DOMAIN W = 1..n /\ \A j \in 1..n : W[j] = T[at[j]]
    BY <1>1, <1>3, <1>5
  <2>2. W \in Seq(Entry)
    BY <1>2, <2>1, SeqDef
  <2>3. Len(W) \in Nat /\ DOMAIN W = 1..Len(W)
    BY <2>2, LenProperties
  <2>4. Len(W) = n
    BY <1>2, <2>1, <2>3
  <2> QED
    BY <2>1, <2>2, <2>4
<1>7. \A m \in 1..L : m \in N <=> T[m] \notin E
  BY <1>1 DEF Left
<1> HIDE DEF N, n, at, W, L
<1>8. Els(W) = Els(T) \ E
  <2>1. ASSUME NEW e \in Els(W) PROVE e \in Els(T) \ E
    <3>1. PICK j \in 1..n : e = T[at[j]]
      BY <1>6, <2>1 DEF Els
    <3>2. at[j] \in N /\ at[j] \in 1..L
      BY <1>1, <1>3
    <3> QED
      BY <1>1, <1>7, <3>1, <3>2 DEF Els
  <2>2. ASSUME NEW e \in Els(T) \ E PROVE e \in Els(W)
    <3>1. PICK m \in 1..L : e = T[m]
      BY <1>1 DEF Els
    <3>2. m \in N /\ Rank(m, N) \in 1..n /\ at[Rank(m, N)] = m
      BY <1>2, <1>4, <1>7, <3>1
    <3>3. W[Rank(m, N)] = e
      BY <1>6, <3>1, <3>2
    <3> QED
      BY <1>6, <3>2, <3>3 DEF Els
  <2> QED
    BY <2>1, <2>2
<1>9. Once(W)
  <2>1. ASSUME NEW i \in 1..n, NEW j \in 1..n, W[i] = W[j] PROVE i = j
    <3>1. at[i] \in N /\ at[j] \in N /\ Rank(at[i], N) = i /\ Rank(at[j], N) = j
      BY <1>3
    <3>2. at[i] \in DOMAIN T /\ at[j] \in DOMAIN T /\ T[at[i]] = T[at[j]]
      BY <1>1, <1>6, <2>1, <3>1
    <3>3. at[i] = at[j]
      BY <1>1, <3>2 DEF Once
    <3> QED
      BY <3>1, <3>3
  <2> QED
    BY <1>6, <2>1 DEF Once
<1>10. Els(T) \cap E # {} => N # 1..L
  BY <1>1, <1>7 DEF Els
<1>11. Distinct(W)
  BY <1>6, <1>8, <1>9 DEF Distinct
<1> QED
  BY <1>1, <1>2, <1>6, <1>8, <1>10, <1>11 DEF W, L

(* A table with one more entry, which nothing in it is like.                 *)
LEMMA AppendKeeps ==
  ASSUME NEW T, Distinct(T), NEW g \in Entry,
         \A e \in Els(T) : e.key # g.key /\ e.id # g.id /\ e.vm # g.vm
  PROVE  /\ Distinct(Append(T, g)) /\ Els(Append(T, g)) = Els(T) \cup {g}
         /\ Len(Append(T, g)) = Len(T) + 1 /\ Len(T) \in Nat
<1>1. T \in Seq(Entry) /\ Once(T)
  BY DEF Distinct
<1>2. Append(T, g) \in Seq(Entry) /\ Len(Append(T, g)) = Len(T) + 1 /\ Len(T) \in Nat
  BY <1>1, AppendProperties, LenProperties
<1>3. g \notin Els(T)
  OBVIOUS
<1>4. Els(Append(T, g)) = Els(T) \cup {g} /\ Once(Append(T, g))
  BY <1>1, <1>3, ElsAppend
<1>5. Distinct(Append(T, g))
  BY <1>2, <1>4 DEF Distinct
<1> QED
  BY <1>2, <1>4, <1>5

-----------------------------------------------------------------------------
(* What the parts of the invariant say of one another *)

(* The entries and their VMs.                                                *)
LEMMA TabHolds ==
  ASSUME TableInv
  PROVE  /\ TableEntries = Els(table) /\ Tab \subseteq VMs /\ Boot \subseteq VMs /\ NoVM \notin VMs
         /\ \A e \in Els(table) : /\ e \in Entry /\ e.key \in Keys /\ e.id \in Ids /\ e.vm \in VMs /\ e.refs \in Nat
                                  /\ e.vm \in Tab /\ e.vm \notin Rel /\ e.vm \notin Pool /\ e.vm \notin dying
         /\ Keys \subseteq Releasers /\ Callers \subseteq Releasers /\ Keys \cap Callers = {}
         /\ IsFiniteSet(Callers) /\ NoId \notin Ids /\ NoKey \notin Keys
<1>1. \A e \in Els(table) : e \in Entry
  BY LenProperties, ElementOfSeq DEF TableInv, TableTypes, Els
<1>2. \A e \in Els(table) : e.key \in Keys /\ e.id \in Ids /\ e.vm \in VMs /\ e.refs \in Nat
  BY <1>1 DEF Entry
<1>3. Tab \subseteq VMs
  BY <1>2 DEF Tab, VMsOf
<1>4. Boot \subseteq VMs
  BY DEF TableInv, TableTypes, CallerRec, Boot, Boots
<1>5. \A e \in Els(table) : e.vm \in Tab
  BY DEF Tab, VMsOf
<1>6. Tab \cap Rel = {} /\ Tab \cap Pool = {} /\ Tab \cap dying = {}
  BY DEF TableInv, PlacesKept, Outside
<1>7. NoVM \notin VMs
  BY VMsAssumption
<1>8. /\ Keys \subseteq Releasers /\ Callers \subseteq Releasers /\ Keys \cap Callers = {}
      /\ IsFiniteSet(Callers) /\ NoId \notin Ids /\ NoKey \notin Keys
  BY TableAssumption
<1>9. TableEntries = Els(table)
  BY DEF TableEntries, Els
<1> QED
  BY <1>1, <1>2, <1>3, <1>4, <1>5, <1>6, <1>7, <1>8, <1>9

(* The entries F leave the table and are torn down.                          *)
Leaves(F) ==
  /\ F \subseteq Els(table) /\ release' = Teardown(F)
  /\ Distinct(table') /\ Els(table') = Els(table) \ F
  /\ Len(table') \in Nat /\ Len(table') <= Len(table)

(* Their VMs pass from the table to releases.                                *)
LEMMA TornDown ==
  ASSUME TableInv, NEW F, Leaves(F)
  PROVE  /\ release' \in [Releasers -> ReleaseRec] /\ Unique(release', Releasers)
         /\ \A x \in Releasers : release'[x].vm # NoVM <=> release'[x].step # "idle"
         /\ Rel' = Rel \cup VMsOf(F) /\ VMsOf(F) \subseteq Tab /\ Tab' = Tab \ VMsOf(F)
         /\ \A c \in Callers : release'[c] = release[c]
         /\ \A e \in Els(table') : release'[e.key] = release[e.key]
<1> DEFINE I == {e.key : e \in F}
           job == [k \in I |-> (CHOOSE e \in F : e.key = k).vm]
<1>1. F \subseteq Els(table) /\ release' = Started(job)
  BY DEF Leaves, Teardown
<1>2. \A e, f \in Els(table) : e.key = f.key \/ e.vm = f.vm => e = f
  BY DEF TableInv, EntriesKept, Distinct
<1>3. \A e \in F : job[e.key] = e.vm
  BY <1>1, <1>2
<1>4. /\ I \in SUBSET Keys /\ I \in SUBSET Releasers
      /\ \A e \in F : e.vm \in VMs /\ e.vm \notin Rel /\ release[e.key].vm = NoVM
  BY <1>1, TabHolds DEF TableInv, EntriesKept
<1>5. /\ job \in [I -> VMs]
      /\ \A x, y \in I : job[x] = job[y] => x = y
      /\ \A x \in I : release[x].vm = NoVM /\ job[x] \notin Rel
  <2>1. job \in [I -> VMs] /\ \A x \in I : release[x].vm = NoVM /\ job[x] \notin Rel
    BY <1>3, <1>4
  <2>2. \A x, y \in I : job[x] = job[y] => x = y
    BY <1>1, <1>2, <1>3
  <2> QED
    BY <2>1, <2>2
<1>6. {job[x] : x \in I} = VMsOf(F)
  <2> HIDE DEF job
  <2>1. \A v : v \in {job[x] : x \in I} <=> \E e \in F : v = job[e.key]
    OBVIOUS
  <2> QED
    BY <1>3, <2>1 DEF VMsOf
<1> HIDE DEF job
<1>7. VMBooks
  BY DEF TableInv, PlacesKept
<1>8. /\ release' \in [Releasers -> ReleaseRec] /\ Unique(release', Releasers)
      /\ \A x \in Releasers : release'[x].vm # NoVM <=> release'[x].step # "idle"
      /\ Rel' = Rel \cup {job[x] : x \in I}
      /\ \A x \in Releasers \ I : release'[x] = release[x]
  <2> HIDE DEF I
  <2> QED
    BY <1>1, <1>4, <1>5, <1>7, StartedBooks
<1>9. \A c \in Callers : release'[c] = release[c]
  BY <1>4, <1>8, TabHolds
<1>10. Els(table') = Els(table) \ F
  BY DEF Leaves
<1>11. \A e \in Els(table') : release'[e.key] = release[e.key]
  <2>1. SUFFICES ASSUME NEW e \in Els(table) \ F PROVE e.key \in Releasers \ I
    BY <1>8, <1>10
  <2> QED
    BY <1>1, <1>2, TabHolds
<1>12. VMsOf(F) \subseteq Tab /\ Tab' = Tab \ VMsOf(F)
  BY <1>1, <1>2, <1>10 DEF Tab, VMsOf
<1> QED
  BY <1>6, <1>8, <1>9, <1>11, <1>12

(* Nobody's VM is lost or shared when entries leave, and a boot that takes  *)
(* the VM parked longest has it alone.                                      *)
LEMMA LeavesPlaces ==
  ASSUME TableInv, NEW F, Leaves(F), UNCHANGED <<container, dying>>,
         \/ parked' = parked /\ Boot' = Boot
         \/ parked # << >> /\ parked' = Tail(parked) /\ Boot' = Boot \cup {Head(parked)}
  PROVE  /\ PlacesKept'
         /\ \A ws : Covered(Up, Boot \cup Tab \cup ws, Pool, Rel, dying)
                      => Covered(Up', Boot' \cup Tab' \cup ws, Pool', Rel', dying')
<1>1. /\ release' \in [Releasers -> ReleaseRec] /\ Unique(release', Releasers)
      /\ \A x \in Releasers : release'[x].vm # NoVM <=> release'[x].step # "idle"
      /\ Rel' = Rel \cup VMsOf(F) /\ VMsOf(F) \subseteq Tab /\ Tab' = Tab \ VMsOf(F)
  BY TornDown
<1>2. VMBooks /\ Boot \cap Tab = {} /\ Outside(Boot \cup Tab, Pool, Rel, dying)
  BY DEF TableInv, PlacesKept
<1>3. Up' = Up
  BY DEF Up
<1>4. /\ parked' \in Seq(VMs) /\ Once(parked')
      /\ \/ Pool' = Pool /\ Boot' = Boot
         \/ \E v \in Pool : Pool' = Pool \ {v} /\ Boot' = Boot \cup {v}
  <2>1. CASE parked' = parked /\ Boot' = Boot
    BY <1>2, <2>1 DEF VMBooks, Pool, Els
  <2>2. CASE parked # << >> /\ parked' = Tail(parked) /\ Boot' = Boot \cup {Head(parked)}
    <3>1. parked \in Seq(VMs) /\ Once(parked)
      BY <1>2 DEF VMBooks
    <3>2. /\ Head(parked) \in Els(parked) /\ Tail(parked) \in Seq(VMs) /\ Once(Tail(parked))
          /\ Els(Tail(parked)) = Els(parked) \ {Head(parked)}
      BY <2>2, <3>1, ElsTail
    <3> QED
      BY <2>2, <3>2 DEF Pool
  <2> QED
    BY <2>1, <2>2
<1>5. VMBooks'
  BY <1>1, <1>2, <1>3, <1>4 DEF VMBooks, Outside
<1>6. dying' = dying
  OBVIOUS
<1>7. PlacesKept'
  <2>1. CASE Pool' = Pool /\ Boot' = Boot
    BY <1>1, <1>2, <1>5, <1>6, <2>1 DEF PlacesKept, Outside
  <2>2. ASSUME NEW v \in Pool, Pool' = Pool \ {v}, Boot' = Boot \cup {v} PROVE PlacesKept'
    <3>1. v \notin Tab /\ v \notin Rel /\ v \notin dying
      BY <1>2, <2>2 DEF VMBooks, Outside
    <3> QED
      BY <1>1, <1>2, <1>5, <1>6, <2>2, <3>1 DEF PlacesKept, Outside
  <2> QED
    BY <1>4, <2>1, <2>2
<1>8. ASSUME NEW ws, Covered(Up, Boot \cup Tab \cup ws, Pool, Rel, dying)
      PROVE  Covered(Up', Boot' \cup Tab' \cup ws, Pool', Rel', dying')
  <2>1. \A v : v \in Boot \cup Tab \cup Pool \cup Rel => v \in Boot' \cup Tab' \cup Pool' \cup Rel'
    BY <1>1, <1>4
  <2> QED
    BY <1>3, <1>6, <1>8, <2>1 DEF Covered
<1> QED
  BY <1>7, <1>8

(* The entries that stay count whom they counted.                           *)
LEMMA LeavesEntries ==
  ASSUME TableInv, NEW F, Leaves(F), \A k \in Keys : Working(k)' = Working(k)
  PROVE  EntriesKept' /\ table' \in Seq(Entry)
<1>1. Distinct(table') /\ Els(table') = Els(table) \ F /\ table' \in Seq(Entry)
  BY DEF Leaves, Distinct
<1>2. \A e \in Els(table') : release'[e.key].vm = NoVM /\ e.refs = Cardinality(Working(e.key)')
  BY <1>1, TornDown, TabHolds DEF TableInv, EntriesKept
<1> QED
  BY <1>1, <1>2 DEF EntriesKept

-----------------------------------------------------------------------------
(* The cap *)

(* Sets of callers can be counted.                                           *)
LEMMA CallersCount ==
  ASSUME NEW S \in SUBSET Callers
  PROVE  /\ IsFiniteSet(S) /\ Cardinality(S) \in Nat /\ Cardinality(S) <= Cardinality(Callers)
         /\ Cardinality(Callers) \in Nat
         /\ \A c \in S : Cardinality(S \ {c}) = Cardinality(S) - 1 /\ Cardinality(S) > 0
         /\ \A c \in Callers \ S : Cardinality(S \cup {c}) = Cardinality(S) + 1
         /\ \A R \in SUBSET S : Cardinality(R) <= Cardinality(S) /\ Cardinality(R) \in Nat
<1>1. IsFiniteSet(Callers)
  BY TableAssumption
<1>2. IsFiniteSet(S) /\ Cardinality(S) \in Nat /\ Cardinality(S) <= Cardinality(Callers) /\ Cardinality(Callers) \in Nat
  BY <1>1, FS_Subset, FS_CardinalityType
<1>3. ASSUME NEW c \in S PROVE Cardinality(S \ {c}) = Cardinality(S) - 1 /\ Cardinality(S) > 0
  <2>1. Cardinality(S \ {c}) = Cardinality(S) - 1 /\ IsFiniteSet(S \ {c})
    BY <1>2, FS_RemoveElement
  <2>2. Cardinality(S \ {c}) \in Nat
    BY <2>1, FS_CardinalityType
  <2> QED
    BY <1>2, <2>1, <2>2
<1>4. ASSUME NEW c \in Callers \ S PROVE Cardinality(S \cup {c}) = Cardinality(S) + 1
  BY <1>2, FS_AddElement
<1>5. ASSUME NEW R \in SUBSET S PROVE Cardinality(R) <= Cardinality(S) /\ Cardinality(R) \in Nat
  BY <1>2, FS_Subset, FS_CardinalityType
<1> QED
  BY <1>2, <1>3, <1>4, <1>5

(* A table whose entries are all in use has no more of them than there are  *)
(* callers that work.                                                       *)
LEMMA InUseCount ==
  ASSUME TableInv, NEW T, Distinct(T), Els(T) \subseteq Els(table), \A e \in Els(T) : e.refs # 0
  PROVE  Len(T) <= Cardinality({c \in Callers : caller[c].pc = "holding"})
<1> DEFINE H == {c \in Callers : caller[c].pc = "holding"}
           D == 1..Len(T)
           user(n) == CHOOSE c \in Working(T[n].key) : TRUE
<1>1. /\ DOMAIN T = D /\ Len(T) \in Nat
      /\ \A m, n \in D : T[m] = T[n] => m = n
      /\ \A m, n \in D : T[m].key = T[n].key => T[m] = T[n]
  BY LenProperties DEF Distinct, Once, Els
<1>2. ASSUME NEW n \in D PROVE user(n) \in Working(T[n].key)
  <2>1. T[n] \in Els(table) /\ T[n].refs # 0
    BY <1>1 DEF Els
  <2>2. Cardinality(Working(T[n].key)) # 0
    BY <2>1 DEF TableInv, EntriesKept
  <2> QED
    BY <2>2, FS_EmptySet
<1>3. \A n \in D : user(n) \in H /\ caller[user(n)].key = T[n].key
  BY <1>2 DEF Working
<1> HIDE DEF user
<1> DEFINE f == [n \in D |-> user(n)]
<1>4. f \in [D -> H] /\ \A n \in D : f[n] = user(n)
  BY <1>3
<1>5. IsFiniteSet(D) /\ Cardinality(D) = Len(T)
  BY SMTT(30), <1>1, FS_Interval
<1>6. IsFiniteSet(H) /\ Cardinality(H) \in Nat
  BY CallersCount
<1> HIDE DEF D, H, f
<1>7. ASSUME Cardinality(H) < Cardinality(D) PROVE FALSE
  <2>1. \E m, n \in D : m # n /\ f[m] = f[n]
    BY <1>4, <1>5, <1>6, <1>7, FS_PigeonHole
  <2>2. PICK m, n \in D : m # n /\ user(m) = user(n)
    BY <1>4, <2>1
  <2> QED
    BY <1>1, <1>3, <2>2
<1> QED
  BY <1>1, <1>5, <1>6, <1>7 DEF H

(* Who boots when there is room, or nobody to evict, keeps to the soft cap.  *)
LEMMA RoomIsEnough ==
  ASSUME TableInv, NEW c \in Callers, caller[c].pc \notin {"booting", "connecting", "holding"},
         NEW T, Distinct(T), Els(T) \subseteq Els(table),
         Len(T) < MaxAttachments \/ \A e \in Els(T) : e.refs # 0
  PROVE  Len(T) + (Cardinality(Growing) + 1) <= MaxAttachments + Cardinality(Callers) - 1
<1> DEFINE H == {d \in Callers : caller[d].pc = "holding"}
           G == Growing
<1>1. Len(T) \in Nat /\ MaxAttachments \in Nat \ {0}
  BY LenProperties, TableAssumption DEF Distinct
<1>2. G \in SUBSET Callers /\ c \notin G /\ H \in SUBSET Callers /\ c \notin H /\ G \cap H = {}
  BY DEF Growing
<1>3. Cardinality(G \cup {c}) = Cardinality(G) + 1
  BY <1>2, CallersCount
<1>4. (G \cup {c}) \in SUBSET Callers /\ (G \cup {c}) \cap H = {}
  BY <1>2
<1>5. Len(T) < MaxAttachments \/ Len(T) <= Cardinality(H)
  BY InUseCount
<1> HIDE DEF G, H
<1> DEFINE S == G \cup {c}
<1>6. IsFiniteSet(S) /\ IsFiniteSet(H) /\ Cardinality(S) \in Nat /\ Cardinality(H) \in Nat
      /\ Cardinality(Callers) \in Nat /\ Cardinality(S) <= Cardinality(Callers) /\ Cardinality(G) \in Nat
  BY <1>2, <1>4, CallersCount
<1>7. Cardinality(S \cup H) = Cardinality(S) + Cardinality(H)
  <2>1. Cardinality(S \cup H) = Cardinality(S) + Cardinality(H) - Cardinality(S \cap H)
    BY <1>6, FS_Union
  <2>2. Cardinality(S \cap H) = 0
    BY <1>4, FS_EmptySet
  <2> QED
    BY <1>6, <2>1, <2>2
<1>8. Cardinality(S \cup H) <= Cardinality(Callers)
  <2>1. (S \cup H) \in SUBSET Callers
    BY <1>2, <1>4
  <2> HIDE DEF S
  <2> QED
    BY <2>1, CallersCount
<1>9. Cardinality(S) = Cardinality(G) + 1
  BY <1>3
<1> HIDE DEF S
<1> QED
  BY <1>1, <1>5, <1>6, <1>7, <1>8, <1>9 DEF G

-----------------------------------------------------------------------------
(* A caller gets on with its acquire *)

(* One caller moves.                                                         *)
LEMMA CallerMoves ==
  ASSUME TableTypes, NEW c \in Callers, NEW r \in CallerRec, caller' = [caller EXCEPT ![c] = r]
  PROVE  /\ caller' \in [Callers -> CallerRec] /\ caller'[c] = r
         /\ \A d \in Callers \ {c} : caller'[d] = caller[d]
         /\ r.pc \notin {"booting", "connecting"} /\ caller[c].pc \notin {"booting", "connecting"}
              => Growing' = Growing
         /\ r.pc \in {"booting", "connecting"} /\ caller[c].pc \notin {"booting", "connecting"}
              => Growing' = Growing \cup {c} /\ c \notin Growing
         /\ r.pc # "connecting" /\ caller[c].pc # "connecting" => Boots' = Boots /\ Boot' = Boot
         /\ r.pc = "connecting" /\ caller[c].pc # "connecting" => Boots' = Boots \cup {c} /\ Boot' = Boot \cup {r.vm}
         /\ r.pc # "holding" /\ caller[c].pc # "holding" => \A k : Working(k)' = Working(k)
<1>1. caller' \in [Callers -> CallerRec] /\ caller'[c] = r /\ \A d \in Callers \ {c} : caller'[d] = caller[d]
  BY DEF TableTypes
<1>2. ASSUME r.pc \notin {"booting", "connecting"}, caller[c].pc \notin {"booting", "connecting"}
      PROVE  Growing' = Growing
  BY <1>1, <1>2 DEF Growing
<1>3. ASSUME r.pc \in {"booting", "connecting"}, caller[c].pc \notin {"booting", "connecting"}
      PROVE  Growing' = Growing \cup {c} /\ c \notin Growing
  BY <1>1, <1>3 DEF Growing
<1>4. ASSUME r.pc # "connecting", caller[c].pc # "connecting" PROVE Boots' = Boots /\ Boot' = Boot
  <2>1. Boots' = Boots /\ c \notin Boots
    BY <1>1, <1>4 DEF Boots
  <2>2. \A d \in Boots : d \in Callers \ {c}
    BY <2>1 DEF Boots
  <2> QED
    BY <1>1, <2>1, <2>2 DEF Boot
<1>5. ASSUME r.pc = "connecting", caller[c].pc # "connecting"
      PROVE  Boots' = Boots \cup {c} /\ Boot' = Boot \cup {r.vm}
  <2>1. Boots' = Boots \cup {c} /\ c \notin Boots
    BY <1>1, <1>5 DEF Boots
  <2>2. \A d \in Boots : d \in Callers \ {c}
    BY <2>1 DEF Boots
  <2> QED
    BY <1>1, <2>1, <2>2 DEF Boot
<1>6. ASSUME r.pc # "holding", caller[c].pc # "holding", NEW k PROVE Working(k)' = Working(k)
  BY <1>1, <1>6 DEF Working
<1> QED
  BY <1>1, <1>2, <1>3, <1>4, <1>5, <1>6

(* The acquire of c, for the id i, lets the entries F go and is at r.        *)
Goes(c, i, F, r) ==
  /\ caller[c].pc \in {"idle", "clearing", "discarding", "evicting"}
  /\ i \in Ids /\ r \in CallerRec /\ r.id = i /\ caller' = [caller EXCEPT ![c] = r]
  /\ Leaves(F) /\ UNCHANGED <<container, dying>>
  /\ r.pc \in Booting => Booters(i) \subseteq {c}
  /\ r.pc \in {"booting", "connecting"} => Len(table') < MaxAttachments \/ \A e \in Els(table') : e.refs # 0
  /\ \/ r.pc \in {"health", "joining", "clearing", "evicting", "booting"} /\ parked' = parked
     \/ r.pc = "connecting" /\ parked # << >> /\ r.vm = Head(parked) /\ parked' = Tail(parked)

LEMMA GoesKeeps ==
  ASSUME TableInv, NEW c \in Callers, NEW i, NEW F, NEW r, Goes(c, i, F, r)
  PROVE  TableInv'
<1>1. /\ r \in CallerRec /\ caller' = [caller EXCEPT ![c] = r] /\ r.pc # "holding" /\ r.pc # "idle"
      /\ r.pc # "returning" /\ caller[c].pc \notin {"holding", "booting", "connecting"}
      /\ i \in Ids /\ r.id = i /\ Leaves(F) /\ TableTypes
  BY DEF Goes, TableInv
<1>2. /\ caller' \in [Callers -> CallerRec] /\ caller'[c] = r
      /\ \A d \in Callers \ {c} : caller'[d] = caller[d]
      /\ r.pc \notin {"booting", "connecting"} => Growing' = Growing
      /\ r.pc \in {"booting", "connecting"} => Growing' = Growing \cup {c} /\ c \notin Growing
      /\ r.pc # "connecting" => Boots' = Boots /\ Boot' = Boot
      /\ r.pc = "connecting" => Boots' = Boots \cup {c} /\ Boot' = Boot \cup {r.vm}
      /\ \A k : Working(k)' = Working(k)
  BY <1>1, CallerMoves
<1>3. EntriesKept' /\ table' \in Seq(Entry)
  BY <1>1, <1>2, LeavesEntries
<1>4. /\ \A d \in Callers : release'[d] = release[d]
      /\ Distinct(table') /\ Els(table') \subseteq Els(table) /\ Len(table') \in Nat /\ Len(table') <= Len(table)
  BY <1>1, TornDown DEF Leaves
<1>5. parked # << >> => Head(parked) \in Pool /\ Head(parked) \in VMs
  BY ElsTail DEF TableInv, PlacesKept, VMBooks, Pool
<1>6. r.pc = "connecting" => r.vm \in Pool /\ r.vm \in VMs
  BY <1>5 DEF Goes
<1>7. TableTypes'
  <2>1. \A d \in Callers : caller'[d].pc # "idle" => caller'[d].id \in Ids
    BY <1>1, <1>2 DEF TableTypes
  <2>2. \A d \in Boots' : caller'[d].vm # NoVM
    <3>1. SUFFICES ASSUME NEW d \in Callers, caller'[d].pc = "connecting" PROVE caller'[d].vm # NoVM
      BY DEF Boots
    <3>2. CASE d = c
      BY <1>2, <1>6, <3>1, <3>2, VMsAssumption
    <3>3. CASE d # c
      BY <1>1, <1>2, <3>1, <3>3 DEF TableTypes, Boots
    <3> QED
      BY <3>2, <3>3
  <2>3. \A d \in Callers : caller'[d].pc # "returning" => release'[d].vm = NoVM
    BY <1>1, <1>2, <1>4 DEF TableTypes, Goes
  <2> QED
    BY <1>2, <1>3, <2>1, <2>2, <2>3 DEF TableTypes
<1>8. BootsKept'
  <2>1. r.pc \in Booting => \A d \in Callers \ {c} : ~(caller[d].pc \in Booting /\ caller[d].id = r.id)
    BY <1>1 DEF Goes, Booters
  <2>2. r.pc = "connecting" => \A d \in Boots : caller[d].vm # r.vm
    BY <1>6 DEF TableInv, PlacesKept, Outside, Boot
  <2>3. \A d, f \in Callers : caller'[d].pc \in Booting /\ caller'[f].pc \in Booting
                                /\ caller'[d].id = caller'[f].id => d = f
    BY <1>2, <2>1 DEF TableInv, BootsKept
  <2>4. ASSUME NEW d \in Boots', NEW f \in Boots', caller'[d].vm = caller'[f].vm PROVE d = f
    BY <1>2, <2>2, <2>4 DEF TableInv, BootsKept, Boots
  <2> QED
    BY <2>3, <2>4 DEF BootsKept
<1>9. CapKept'
  <2>1. /\ Len(table) + Cardinality(Growing) <= MaxAttachments + Cardinality(Callers) - 1
        /\ Len(table) \in Nat /\ MaxAttachments \in Nat
    BY LenProperties, TableAssumption DEF TableInv, CapKept, TableTypes
  <2>2. Cardinality(Growing) \in Nat /\ Cardinality(Callers) \in Nat
    BY CallersCount DEF Growing
  <2>3. CASE r.pc \notin {"booting", "connecting"}
    BY <1>2, <1>4, <2>1, <2>2, <2>3 DEF CapKept
  <2>4. CASE r.pc \in {"booting", "connecting"}
    <3>1. Len(table') + (Cardinality(Growing) + 1) <= MaxAttachments + Cardinality(Callers) - 1
      BY <1>1, <1>4, <2>4, RoomIsEnough DEF Goes
    <3>2. Cardinality(Growing') = Cardinality(Growing) + 1
      <4>1. Growing \in SUBSET Callers /\ c \in Callers \ Growing
        BY <1>2, <2>4 DEF Growing
      <4> QED
        BY <1>2, <2>4, <4>1, CallersCount
    <3> QED
      BY <3>1, <3>2 DEF CapKept
  <2> QED
    BY <2>3, <2>4
<1>10. PlacesKept'
  <2>1. \/ parked' = parked /\ Boot' = Boot
        \/ parked # << >> /\ parked' = Tail(parked) /\ Boot' = Boot \cup {Head(parked)}
    BY <1>2 DEF Goes
  <2>2. UNCHANGED <<container, dying>>
    BY DEF Goes
  <2> QED
    BY <1>1, <2>1, <2>2, LeavesPlaces
<1> QED
  BY <1>3, <1>7, <1>8, <1>9, <1>10 DEF TableInv

(* What the acquire found, or did not find, stays so if nobody else asks for *)
(* its id.                                                                   *)
OwnGoes(c, i, r) ==
  /\ i \in MayAcquire[c]
  /\ caller[c].pc = "discarding" => caller[c].vm = NoVM
  /\ r.pc = "health" => \A e \in Els(table') : e.id = i => e.vm = r.vm
  /\ r.pc \in Booting => \A e \in Els(table') : e.id # i

LEMMA GoesOwns ==
  ASSUME TableInv, OwnInv, NEW c \in Callers, NEW i, NEW F, NEW r, Goes(c, i, F, r), OwnGoes(c, i, r)
  PROVE  OwnInv'
<1>1. /\ r \in CallerRec /\ caller' = [caller EXCEPT ![c] = r] /\ r.pc # "discarding"
      /\ caller[c].pc \notin {"holding", "booting", "connecting"} /\ r.pc # "holding"
      /\ i \in Ids /\ r.id = i /\ Leaves(F) /\ TableTypes
  BY DEF Goes, TableInv
<1>2. /\ caller' \in [Callers -> CallerRec] /\ caller'[c] = r
      /\ \A d \in Callers \ {c} : caller'[d] = caller[d]
      /\ r.pc # "connecting" => Boot' = Boot
      /\ r.pc = "connecting" => Boot' = Boot \cup {r.vm}
  BY <1>1, CallerMoves
<1>3. \A d \in Callers : \A e \in Els(table') : e.id = caller'[d].id =>
        /\ caller'[d].pc = "health" => e.vm = caller'[d].vm
        /\ caller'[d].pc \notin Booting \cup {"discarding"}
  <2>1. SUFFICES ASSUME NEW d \in Callers, NEW e \in Els(table'), e.id = caller'[d].id
                 PROVE  /\ caller'[d].pc = "health" => e.vm = caller'[d].vm
                        /\ caller'[d].pc \notin Booting \cup {"discarding"}
    OBVIOUS
  <2>2. CASE d = c
    BY <1>1, <1>2, <2>1, <2>2 DEF OwnGoes
  <2>3. CASE d # c
    <3>1. e \in Els(table) /\ caller'[d] = caller[d]
      BY <1>1, <1>2, <2>3 DEF Leaves
    <3> QED
      BY <2>1, <3>1 DEF OwnInv
  <2> QED
    BY <2>2, <2>3
<1>4. \A d \in Callers : caller'[d].pc # "idle" => caller'[d].id \in MayAcquire[d]
  BY <1>1, <1>2 DEF OwnInv, OwnGoes
<1>5. Covered(Up', Boot' \cup Tab' \cup BeingDiscarded, Pool', Rel', dying')
  <2>1. \/ parked' = parked /\ Boot' = Boot
        \/ parked # << >> /\ parked' = Tail(parked) /\ Boot' = Boot \cup {Head(parked)}
    BY <1>2 DEF Goes
  <2>2. UNCHANGED <<container, dying>>
    BY DEF Goes
  <2> QED
    BY <1>1, <2>1, <2>2, LeavesPlaces DEF OwnInv
<1>6. \A v \in BeingDiscarded : v # NoVM => v \in BeingDiscarded'
  <2>1. SUFFICES ASSUME NEW d \in Callers, caller[d].pc = "discarding", caller[d].vm # NoVM
                 PROVE  caller[d].vm \in BeingDiscarded'
    BY DEF BeingDiscarded
  <2>2. d # c
    BY <2>1 DEF OwnGoes
  <2>3. caller'[d] = caller[d]
    BY <1>2, <2>2
  <2> QED
    BY <2>1, <2>3 DEF BeingDiscarded
<1>7. NoVM \notin Up'
  BY VMsAssumption DEF Up
<1> QED
  BY <1>3, <1>4, <1>5, <1>6, <1>7 DEF OwnInv, Covered

(* The table T is what is left when the entries E have gone.                 *)
LeftOf(T, E) ==
  E \subseteq Els(table) /\ Distinct(T) /\ Els(T) = Els(table) \ E /\ Len(T) \in Nat /\ Len(T) <= Len(table)

(* Room is made and a boot is under way, or an entry is being evicted first. *)
LEMMA MakeRoomGoes ==
  ASSUME TableInv, NEW c \in Callers, caller[c].pc \in {"idle", "clearing", "discarding", "evicting"},
         NEW i \in Ids, Booters(i) \subseteq {c}, NEW T, NEW E, LeftOf(T, E), MakeRoom(c, i, T, E)
  PROVE  \E F, r : Goes(c, i, F, r) /\ E \subseteq F /\ r.pc \in Booting
<1> DEFINE Idles == Evictable(T)
           lru   == T[CHOOSE n \in Idles : \A m \in Idles : n <= m]
           Room  == Len(T) < MaxAttachments \/ Idles = {}
<1>1. Distinct(T) /\ E \subseteq Els(table) /\ Els(T) = Els(table) \ E /\ Len(T) \in Nat /\ Len(T) <= Len(table)
      /\ DOMAIN T = 1..Len(T)
  BY LenProperties DEF LeftOf, Distinct
<1>2. CASE ~Room
  <2>1. /\ table' = Without(T, {lru}) /\ release' = Teardown(E \cup {lru})
        /\ caller' = [caller EXCEPT ![c] = CallerAt("evicting", i, lru.key, NoVM)]
        /\ UNCHANGED <<container, parked, dying>>
    BY <1>2 DEF MakeRoom
  <2>2. lru \in Els(T)
    <3>1. Idles # {} /\ Idles \in SUBSET (1..Len(T))
      BY <1>1, <1>2 DEF Evictable
    <3>2. \E n \in Idles : \A m \in Idles : n <= m
      <4> HIDE DEF Idles
      <4> QED
        BY <1>1, <3>1, FirstPlace
    <3>3. (CHOOSE n \in Idles : \A m \in Idles : n <= m) \in 1..Len(T)
      <4> HIDE DEF Idles
      <4> QED
        BY <3>1, <3>2
    <3> QED
      BY <1>1, <3>3 DEF Els
  <2> HIDE DEF lru, Idles
  <2>3. Distinct(table') /\ Els(table') = Els(T) \ {lru} /\ Len(table') \in Nat /\ Len(table') <= Len(T)
    BY <1>1, <2>1, WithoutKeeps
  <2>4. lru \in Els(table) /\ lru.key \in Keys
    BY <1>1, <2>2, TabHolds
  <2> DEFINE F == E \cup {lru}
             r == CallerAt("evicting", i, lru.key, NoVM)
  <2>5. r \in CallerRec /\ r.id = i /\ r.pc = "evicting"
    BY <2>4 DEF CallerAt, CallerRec, PCs, Booting
  <2>6. Leaves(F)
    <3>1. Len(table') <= Len(table)
      BY <1>1, <2>3, LenProperties DEF TableInv, TableTypes
    <3> QED
      BY <1>1, <2>1, <2>3, <2>4, <3>1 DEF Leaves
  <2>7. caller' = [caller EXCEPT ![c] = r]
    BY <2>1
  <2> HIDE DEF F, r
  <2>8. Goes(c, i, F, r)
    BY <2>1, <2>5, <2>6, <2>7 DEF Goes
  <2>9. E \subseteq F /\ r.pc \in Booting
    BY <2>5 DEF F, Booting
  <2> QED
    BY <2>8, <2>9
<1>3. CASE Room
  <2>1. /\ table' = T /\ release' = Teardown(E) /\ UNCHANGED <<container, dying>>
        /\ \/ /\ parked # << >> /\ parked' = Tail(parked)
              /\ caller' = [caller EXCEPT ![c] = CallerAt("connecting", i, NoKey, Head(parked))]
           \/ /\ parked' = parked
              /\ caller' = [caller EXCEPT ![c] = CallerAt("booting", i, NoKey, NoVM)]
    BY <1>3 DEF MakeRoom
  <2>2. Leaves(E)
    BY <1>1, <2>1 DEF Leaves
  <2>3. Len(table') < MaxAttachments \/ \A e \in Els(table') : e.refs # 0
    BY <1>1, <1>3, <2>1 DEF Evictable, Els
  <2>4. CASE parked # << >> /\ parked' = Tail(parked)
             /\ caller' = [caller EXCEPT ![c] = CallerAt("connecting", i, NoKey, Head(parked))]
    <3> DEFINE r == CallerAt("connecting", i, NoKey, Head(parked))
    <3>1. Head(parked) \in VMs
      BY <2>4, ElsTail DEF TableInv, PlacesKept, VMBooks
    <3>2. r \in CallerRec /\ r.id = i /\ r.pc = "connecting" /\ r.vm = Head(parked)
      BY <3>1 DEF CallerAt, CallerRec, PCs, Booting
    <3>3. caller' = [caller EXCEPT ![c] = r]
      BY <2>4
    <3> HIDE DEF r
    <3>4. Goes(c, i, E, r)
      BY <2>1, <2>2, <2>3, <2>4, <3>2, <3>3 DEF Goes
    <3> QED
      BY <3>2, <3>4 DEF Booting
  <2>5. CASE parked' = parked /\ caller' = [caller EXCEPT ![c] = CallerAt("booting", i, NoKey, NoVM)]
    <3> DEFINE r == CallerAt("booting", i, NoKey, NoVM)
    <3>1. r \in CallerRec /\ r.id = i /\ r.pc = "booting"
      BY DEF CallerAt, CallerRec, PCs, Booting
    <3>2. caller' = [caller EXCEPT ![c] = r]
      BY <2>5
    <3> HIDE DEF r
    <3>3. Goes(c, i, E, r)
      BY <2>1, <2>2, <2>3, <2>5, <3>1, <3>2 DEF Goes
    <3> QED
      BY <3>1, <3>3 DEF Booting
  <2> QED
    BY <2>1, <2>4, <2>5
<1> QED
  BY <1>2, <1>3

(* Without a live entry, a boot is shared or begun.                          *)
LEMMA ShareGoes ==
  ASSUME TableInv, NEW c \in Callers, caller[c].pc \in {"idle", "clearing", "discarding"},
         NEW i \in Ids, NEW T, NEW E, LeftOf(T, E), ShareOrBoot(c, i, T, E)
  PROVE  \E F, r : Goes(c, i, F, r) /\ E \subseteq F /\ r.pc \in Booting \cup {"joining"}
<1>1. CASE Booters(i) = {} /\ MakeRoom(c, i, T, E)
  <2>1. Booters(i) \subseteq {c}
    BY <1>1
  <2> QED
    BY <1>1, <2>1, MakeRoomGoes
<1>2. CASE /\ table' = T /\ release' = Teardown(E)
           /\ caller' = [caller EXCEPT ![c] = CallerAt("joining", i, NoKey, NoVM)]
           /\ UNCHANGED <<container, parked, dying>>
  <2> DEFINE r == CallerAt("joining", i, NoKey, NoVM)
  <2>1. r \in CallerRec /\ r.id = i /\ r.pc = "joining"
    BY DEF CallerAt, CallerRec, PCs
  <2>2. caller' = [caller EXCEPT ![c] = r]
    BY <1>2
  <2> HIDE DEF r
  <2>3. Leaves(E)
    BY <1>2 DEF Leaves, LeftOf
  <2>4. Goes(c, i, E, r)
    BY <1>2, <2>1, <2>2, <2>3 DEF Goes, Booting
  <2> QED
    BY <2>1, <2>4
<1> QED
  BY <1>1, <1>2 DEF ShareOrBoot

(* An acquire enters: whatever it finds, the books are kept.                 *)
LEMMA EnterKeeps ==
  ASSUME TableInv, NEW c \in Callers, caller[c].pc \in {"idle", "clearing"}, NEW i \in Ids, EnterAcquire(c, i)
  PROVE  TableInv' /\ (OwnInv /\ i \in MayAcquire[c] => OwnInv')
<1> DEFINE Found(n) == EntryOf(i) \ SweptAt(n)
<1>1. PICK n \in 0..Len(table) :
        LET E == SweptAt(n)
            T == Without(table, E)
            found == EntryOf(i) \ E
        IN \/ /\ found # {} /\ table' = T /\ release' = Teardown(E)
              /\ \E e \in found : caller' = [caller EXCEPT ![c] = CallerAt("health", i, e.key, e.vm)]
              /\ UNCHANGED <<container, parked, dying>>
           \/ found = {} /\ ShareOrBoot(c, i, T, E)
  BY DEF EnterAcquire
<1> DEFINE E == SweptAt(n)
           T == Without(table, E)
<1>2. LeftOf(T, E)
  <2>1. E \subseteq Els(table)
    BY LenProperties DEF SweptAt, Els, TableInv, TableTypes
  <2>2. Distinct(table)
    BY DEF TableInv, EntriesKept
  <2> HIDE DEF E
  <2> QED
    BY <2>1, <2>2, WithoutKeeps DEF LeftOf
<1>3. \A e \in EntryOf(i) : e \in Els(table) /\ e.id = i
  BY TabHolds DEF EntryOf
<1>4. \A e \in Els(table) : e.id = i => e \in EntryOf(i)
  BY TabHolds DEF EntryOf
<1>5. CASE EntryOf(i) \ E = {} /\ ShareOrBoot(c, i, T, E)
  <2> HIDE DEF E, T
  <2>1. PICK F, r : Goes(c, i, F, r) /\ E \subseteq F /\ r.pc \in Booting \cup {"joining"}
    BY <1>2, <1>5, ShareGoes
  <2>2. \A e \in Els(table') : e.id # i
    BY <1>4, <1>5, <2>1 DEF Goes, Leaves
  <2>3. i \in MayAcquire[c] => OwnGoes(c, i, r)
    BY <2>1, <2>2 DEF OwnGoes, Booting
  <2> QED
    BY <2>1, <2>3, GoesKeeps, GoesOwns
<1>6. CASE /\ EntryOf(i) \ E # {} /\ table' = T /\ release' = Teardown(E)
           /\ \E e \in EntryOf(i) \ E : caller' = [caller EXCEPT ![c] = CallerAt("health", i, e.key, e.vm)]
           /\ UNCHANGED <<container, parked, dying>>
  <2> HIDE DEF E, T
  <2>1. PICK e \in EntryOf(i) \ E : caller' = [caller EXCEPT ![c] = CallerAt("health", i, e.key, e.vm)]
    BY <1>6
  <2> DEFINE r == CallerAt("health", i, e.key, e.vm)
  <2>2. r \in CallerRec /\ r.id = i /\ r.pc = "health" /\ r.vm = e.vm
    BY <1>3, TabHolds DEF CallerAt, CallerRec, PCs
  <2>3. caller' = [caller EXCEPT ![c] = r]
    BY <2>1
  <2> HIDE DEF r
  <2>4. Goes(c, i, E, r)
    BY <1>2, <1>6, <2>2, <2>3 DEF Goes, Leaves, LeftOf, Booting
  <2>5. \A f \in Els(table') : f.id = i => f.vm = r.vm
    BY <1>3, <2>2, <2>4 DEF Goes, Leaves, TableInv, EntriesKept, Distinct
  <2>6. i \in MayAcquire[c] => OwnGoes(c, i, r)
    BY <2>2, <2>5 DEF OwnGoes, Booting
  <2> QED
    BY <2>4, <2>6, GoesKeeps, GoesOwns
<1> QED
  BY <1>1, <1>5, <1>6

LEMMA AcquireKeeps ==
  ASSUME TableInv, NEW c \in Callers, Acquire(c)
  PROVE  TableInv' /\ (OwnInv => OwnInv')
<1>1. PICK i \in MayAcquire[c] : EnterAcquire(c, i)
  BY DEF Acquire
<1>2. i \in Ids /\ caller[c].pc \in {"idle", "clearing"}
  BY <1>1, TableAssumption DEF Acquire
<1> QED
  BY <1>1, <1>2, EnterKeeps

LEMMA ClearedKeeps ==
  ASSUME TableInv, NEW c \in Callers, Cleared(c)
  PROVE  TableInv' /\ (OwnInv => OwnInv')
<1>1. caller[c].pc = "clearing" /\ EnterAcquire(c, caller[c].id)
  BY DEF Cleared
<1>2. caller[c].id \in Ids /\ (OwnInv => caller[c].id \in MayAcquire[c])
  BY <1>1 DEF TableInv, TableTypes, OwnInv
<1> QED
  BY <1>1, <1>2, EnterKeeps

(* The stored entry is destroyed first.                                      *)
LEMMA DestroyKeeps ==
  ASSUME TableInv, NEW c \in Callers, DestroyById(c)
  PROVE  TableInv' /\ (OwnInv => OwnInv')
<1>1. PICK i \in MayAcquire[c] :
        \/ EntryOf(i) = {} /\ EnterAcquire(c, i)
        \/ \E e \in EntryOf(i) : /\ table' = Without(table, {e})
                                 /\ release' = Teardown({e})
                                 /\ caller' = [caller EXCEPT ![c] = CallerAt("clearing", i, e.key, NoVM)]
                                 /\ UNCHANGED <<container, parked, dying>>
  BY DEF DestroyById
<1>2. i \in Ids /\ caller[c].pc = "idle"
  BY <1>1, TableAssumption DEF DestroyById
<1>3. CASE EnterAcquire(c, i)
  BY <1>2, <1>3, EnterKeeps
<1>4. ASSUME NEW e \in EntryOf(i), table' = Without(table, {e}), release' = Teardown({e}),
             caller' = [caller EXCEPT ![c] = CallerAt("clearing", i, e.key, NoVM)],
             UNCHANGED <<container, parked, dying>>
      PROVE  TableInv' /\ (OwnInv => OwnInv')
  <2> DEFINE r == CallerAt("clearing", i, e.key, NoVM)
  <2>1. e \in Els(table)
    BY TabHolds DEF EntryOf
  <2>2. Leaves({e})
    <3>1. Distinct(table)
      BY DEF TableInv, EntriesKept
    <3> QED
      BY <1>4, <2>1, <3>1, WithoutKeeps DEF Leaves
  <2>3. r \in CallerRec /\ r.id = i /\ r.pc = "clearing"
    BY <1>2, <2>1, TabHolds DEF CallerAt, CallerRec, PCs
  <2>4. caller' = [caller EXCEPT ![c] = r]
    BY <1>4
  <2> HIDE DEF r
  <2>5. Goes(c, i, {e}, r)
    BY <1>2, <1>4, <2>2, <2>3, <2>4 DEF Goes, Booting
  <2>6. OwnGoes(c, i, r)
    BY <1>2, <2>3 DEF OwnGoes, Booting
  <2> QED
    BY <2>5, <2>6, GoesKeeps, GoesOwns
<1> QED
  BY <1>1, <1>3, <1>4

(* The stale VM is destroyed, or the evicted one is back: on with the boot.  *)
LEMMA BootAnewKeeps ==
  ASSUME TableInv, NEW c \in Callers, BootAnew(c) \/ Evicted(c)
  PROVE  TableInv' /\ (OwnInv => OwnInv')
<1> DEFINE i == caller[c].id
<1>1. /\ caller[c].pc \in {"discarding", "evicting"} /\ (caller[c].pc = "discarding" => caller[c].vm = NoVM)
      /\ i \in Ids /\ (OwnInv => i \in MayAcquire[c])
  BY DEF BootAnew, Evicted, TableInv, TableTypes, OwnInv
<1>2. LeftOf(table, {})
  BY LenProperties DEF LeftOf, TableInv, EntriesKept, Distinct
<1>3. \E F, r : Goes(c, i, F, r) /\ r.pc \in Booting \cup {"joining"}
  <2>1. CASE BootAnew(c)
    <3>1. caller[c].pc \in {"idle", "clearing", "discarding"} /\ ShareOrBoot(c, i, table, {})
      BY <2>1 DEF BootAnew
    <3> HIDE DEF i
    <3> QED
      BY <1>1, <1>2, <3>1, ShareGoes
  <2>2. CASE Evicted(c)
    <3>1. caller[c].pc = "evicting" /\ MakeRoom(c, i, table, {})
      BY <2>2 DEF Evicted
    <3>2. Booters(i) \subseteq {c}
      BY <3>1 DEF Booters, Booting, TableInv, BootsKept
    <3> HIDE DEF i
    <3> QED
      BY <1>1, <1>2, <3>1, <3>2, MakeRoomGoes
  <2> QED
    BY <2>1, <2>2
<1>4. PICK F, r : Goes(c, i, F, r) /\ r.pc \in Booting \cup {"joining"}
  BY <1>3
<1>5. OwnInv => OwnGoes(c, i, r)
  BY <1>1, <1>4 DEF OwnInv, OwnGoes, Booting, Goes, Leaves
<1> HIDE DEF i
<1> QED
  BY <1>4, <1>5, GoesKeeps, GoesOwns

-----------------------------------------------------------------------------
(* An entry is used, and given up *)

(* The entry of a key is counted anew and becomes the most recently used.    *)
LEMMA Recount ==
  ASSUME TableInv, NEW e \in Els(table), NEW j \in Nat,
         table' = Append(Without(table, WithKey(e.key)), [e EXCEPT !.refs = j])
  PROVE  /\ Distinct(table') /\ Len(table') \in Nat /\ Len(table') <= Len(table) /\ Tab' = Tab
         /\ Els(table') = (Els(table) \ {e}) \cup {[e EXCEPT !.refs = j]}
<1> DEFINE g == [e EXCEPT !.refs = j]
           W == Without(table, {e})
<1>1. /\ Distinct(table) /\ e \in Entry
      /\ \A f \in Els(table) : e.key = f.key \/ e.id = f.id \/ e.vm = f.vm => e = f
  BY TabHolds DEF TableInv, EntriesKept, Distinct
<1>2. WithKey(e.key) = {e}
  BY <1>1, TabHolds DEF WithKey
<1>3. g \in Entry /\ g.key = e.key /\ g.id = e.id /\ g.vm = e.vm
  BY <1>1 DEF Entry
<1>4. /\ Distinct(W) /\ Els(W) = Els(table) \ {e} /\ Len(W) \in Nat /\ Len(W) < Len(table)
      /\ Len(table) \in Nat
  <2>1. Els(table) \cap {e} # {}
    OBVIOUS
  <2> QED
    BY <1>1, <2>1, WithoutKeeps
<1>5. table' = Append(W, g)
  BY <1>2
<1> HIDE DEF W, g
<1>6. \A f \in Els(W) : f.key # g.key /\ f.id # g.id /\ f.vm # g.vm
  BY <1>1, <1>3, <1>4
<1>7. Distinct(table') /\ Els(table') = Els(W) \cup {g} /\ Len(table') = Len(W) + 1
  <2>1. Distinct(Append(W, g)) /\ Els(Append(W, g)) = Els(W) \cup {g} /\ Len(Append(W, g)) = Len(W) + 1
    BY <1>3, <1>4, <1>6, AppendKeeps
  <2> QED
    BY <1>5, <2>1
<1>8. Len(table') \in Nat /\ Len(table') <= Len(table)
  BY <1>4, <1>7
<1>9. Tab' = Tab
  BY <1>3, <1>4, <1>7 DEF Tab, VMsOf
<1> QED
  BY <1>4, <1>7, <1>8, <1>9 DEF g

(* Nothing of the pool changes.                                              *)
LEMMA SameVMs ==
  ASSUME UNCHANGED vmVars
  PROVE  Pool' = Pool /\ Rel' = Rel /\ Up' = Up /\ dying' = dying /\ (VMBooks => VMBooks')
<1>1. container' = container /\ parked' = parked /\ release' = release /\ dying' = dying
  BY DEF vmVars
<1>2. Pool' = Pool /\ Rel' = Rel /\ Up' = Up
  BY <1>1 DEF Pool, Els, Rel, Held, Up
<1> QED
  BY <1>1, <1>2 DEF VMBooks

(* A caller begins or ends its work in a sandbox, and is counted if its     *)
(* attachment is an entry still.                                            *)
Counts(c, k, r) ==
  /\ caller[c].pc \in {"health", "holding"} /\ r.pc \in {"holding", "idle"}
  /\ r \in CallerRec /\ caller' = [caller EXCEPT ![c] = r] /\ UNCHANGED vmVars
  /\ r.pc # "idle" => r.id = caller[c].id
  /\ \A l \in Keys : l # k => Working(l)' = Working(l)
  /\ \/ table' = table /\ \A e \in Els(table) : e.key # k
     \/ \E e \in Els(table), j \in Nat : /\ e.key = k /\ j = Cardinality(Working(k)')
                                          /\ table' = Append(Without(table, WithKey(k)), [e EXCEPT !.refs = j])

LEMMA CountsKeep ==
  ASSUME TableInv, NEW c \in Callers, NEW k, NEW r, Counts(c, k, r)
  PROVE  TableInv' /\ (OwnInv => OwnInv')
<1>1. /\ r \in CallerRec /\ caller' = [caller EXCEPT ![c] = r] /\ UNCHANGED vmVars
      /\ caller[c].pc \notin Booting \cup {"idle", "discarding"} /\ r.pc \in {"holding", "idle"}
      /\ r.pc # "idle" => r.id = caller[c].id
      /\ TableTypes
  BY DEF Counts, TableInv, Booting
<1>2. /\ caller' \in [Callers -> CallerRec] /\ caller'[c] = r
      /\ \A d \in Callers \ {c} : caller'[d] = caller[d]
      /\ Growing' = Growing /\ Boots' = Boots /\ Boot' = Boot
  BY <1>1, CallerMoves DEF Booting
<1> DEFINE Same == /\ Distinct(table') /\ Len(table') \in Nat /\ Len(table') <= Len(table) /\ Tab' = Tab
                   /\ \A f \in Els(table') :
                        /\ \E e \in Els(table) : e.key = f.key /\ e.id = f.id /\ e.vm = f.vm
                        /\ f.refs = Cardinality(Working(f.key)')
<1>3. Same
  <2>1. CASE table' = table /\ \A e \in Els(table) : e.key # k
    <3>1. Distinct(table') /\ Len(table') \in Nat /\ Len(table') <= Len(table)
      BY <2>1, LenProperties DEF TableInv, EntriesKept, Distinct
    <3>2. Tab' = Tab /\ Els(table') = Els(table)
      BY <2>1 DEF Tab, VMsOf, Els
    <3>3. \A f \in Els(table) : f.refs = Cardinality(Working(f.key)')
      BY <2>1, TabHolds DEF Counts, TableInv, EntriesKept
    <3> QED
      BY <3>1, <3>2, <3>3
  <2>2. ASSUME NEW e \in Els(table), NEW j \in Nat, e.key = k, j = Cardinality(Working(k)'),
               table' = Append(Without(table, WithKey(k)), [e EXCEPT !.refs = j])
        PROVE  Same
    <3> DEFINE g == [e EXCEPT !.refs = j]
    <3>1. g.key = e.key /\ g.id = e.id /\ g.vm = e.vm /\ g.refs = j
      BY TabHolds DEF Entry
    <3>2. table' = Append(Without(table, WithKey(e.key)), [e EXCEPT !.refs = j])
      BY <2>2
    <3>3. /\ Distinct(table') /\ Len(table') \in Nat /\ Len(table') <= Len(table) /\ Tab' = Tab
          /\ Els(table') = (Els(table) \ {e}) \cup {g}
      BY <3>2, Recount
    <3>4. \A f \in Els(table) \ {e} : f.key \in Keys /\ f.key # k /\ f.refs = Cardinality(Working(f.key))
      BY <2>2, TabHolds DEF TableInv, EntriesKept, Distinct
    <3>5. \A f \in Els(table) \ {e} : f.refs = Cardinality(Working(f.key)')
      BY <3>4 DEF Counts
    <3>6. g.refs = Cardinality(Working(g.key)')
      BY <2>2, <3>1
    <3> HIDE DEF g
    <3> QED
      BY <3>1, <3>3, <3>5, <3>6
  <2> QED
    BY <2>1, <2>2 DEF Counts
<1>4. Pool' = Pool /\ Rel' = Rel /\ Up' = Up /\ dying' = dying /\ VMBooks' /\ release' = release
  BY <1>1, SameVMs DEF TableInv, PlacesKept, vmVars
<1>5. EntriesKept'
  BY <1>3, <1>4 DEF EntriesKept, TableInv
<1>6. TableTypes'
  <2>1. \A d \in Callers : caller'[d].pc # "idle" => caller'[d].id \in Ids
    BY <1>1, <1>2 DEF TableTypes
  <2>2. \A d \in Boots' : caller'[d].vm # NoVM
    BY <1>1, <1>2 DEF TableTypes, Boots
  <2>3. \A d \in Callers : caller'[d].pc # "returning" => release'[d].vm = NoVM
    BY <1>1, <1>2, <1>4 DEF TableTypes, Booting
  <2> QED
    BY <1>2, <1>3, <2>1, <2>2, <2>3 DEF TableTypes, Distinct
<1>7. BootsKept'
  <2>1. \A d \in Callers : caller'[d].pc \in Booting => d # c /\ caller'[d] = caller[d]
    BY <1>1, <1>2 DEF Booting
  <2>2. \A d \in Boots : d \in Callers /\ caller'[d] = caller[d]
    BY <1>1, <1>2 DEF Boots, Booting
  <2> QED
    BY <1>2, <2>1, <2>2 DEF TableInv, BootsKept
<1>8. CapKept'
  <2>1. /\ Len(table) + Cardinality(Growing) <= MaxAttachments + Cardinality(Callers) - 1
        /\ Len(table) \in Nat /\ MaxAttachments \in Nat
    BY LenProperties, TableAssumption DEF TableInv, CapKept, TableTypes
  <2>2. Cardinality(Growing) \in Nat /\ Cardinality(Callers) \in Nat
    BY CallersCount DEF Growing
  <2> QED
    BY <1>2, <1>3, <2>1, <2>2 DEF CapKept
<1>9. PlacesKept'
  BY <1>2, <1>3, <1>4 DEF TableInv, PlacesKept
<1>10. ASSUME OwnInv PROVE OwnInv'
  <2>1. BeingDiscarded' = BeingDiscarded
    <3>1. \A d \in Callers : caller'[d].pc = "discarding" <=> caller[d].pc = "discarding"
      BY <1>1, <1>2
    <3>2. \A d \in Callers : caller[d].pc = "discarding" => caller'[d] = caller[d]
      BY <1>1, <1>2
    <3> QED
      BY <3>1, <3>2 DEF BeingDiscarded
  <2>2. \A d \in Callers : caller'[d].pc # "idle" => caller'[d].id \in MayAcquire[d]
    BY <1>1, <1>2, <1>10 DEF OwnInv
  <2>3. \A d \in Callers : \A f \in Els(table') : f.id = caller'[d].id =>
          /\ caller'[d].pc = "health" => f.vm = caller'[d].vm
          /\ caller'[d].pc \notin Booting \cup {"discarding"}
    <3>1. SUFFICES ASSUME NEW d \in Callers, NEW f \in Els(table'), f.id = caller'[d].id
                   PROVE  /\ caller'[d].pc = "health" => f.vm = caller'[d].vm
                          /\ caller'[d].pc \notin Booting \cup {"discarding"}
      OBVIOUS
    <3>2. PICK e \in Els(table) : e.id = f.id /\ e.vm = f.vm
      BY <1>3
    <3>3. CASE d = c
      BY <1>1, <1>2, <3>3 DEF Booting
    <3>4. CASE d # c
      BY <1>2, <1>10, <3>1, <3>2, <3>4 DEF OwnInv
    <3> QED
      BY <3>3, <3>4
  <2> QED
    BY <1>2, <1>3, <1>4, <1>10, <2>1, <2>2, <2>3 DEF OwnInv
<1> QED
  BY <1>5, <1>6, <1>7, <1>8, <1>9, <1>10 DEF TableInv

LEMMA ReuseKeeps ==
  ASSUME TableInv, NEW c \in Callers, Reuse(c)
  PROVE  TableInv' /\ (OwnInv => OwnInv')
<1>1. PICK k \in Keys \cup {NoKey} : k = caller[c].key
  BY DEF TableInv, TableTypes, CallerRec
<1> DEFINE r == [caller[c] EXCEPT !.pc = "holding"]
           bumped == {[e EXCEPT !.refs = @ + 1] : e \in WithKey(k)}
<1>2. /\ caller[c].pc = "health" /\ UNCHANGED vmVars /\ caller' = [caller EXCEPT ![c] = r]
      /\ table' = IF bumped = {} THEN table ELSE Append(Without(table, WithKey(k)), CHOOSE e \in bumped : TRUE)
  BY <1>1 DEF Reuse
<1>3. /\ caller \in [Callers -> CallerRec] /\ r \in CallerRec /\ r.pc = "holding" /\ r.id = caller[c].id /\ r.key = k
  BY <1>1, <1>2 DEF TableInv, TableTypes, CallerRec, PCs
<1>4. caller'[c] = r /\ \A d \in Callers \ {c} : caller'[d] = caller[d]
  BY <1>2, <1>3
<1>5. /\ Working(k)' = Working(k) \cup {c} /\ c \notin Working(k) /\ Working(k) \in SUBSET Callers
      /\ \A l \in Keys : l # k => Working(l)' = Working(l)
  BY <1>1, <1>2, <1>3, <1>4 DEF Working
<1>6. Cardinality(Working(k)') = Cardinality(Working(k)) + 1
  BY <1>5, CallersCount
<1>7. CASE WithKey(k) = {}
  <2>1. table' = table /\ \A e \in Els(table) : e.key # k
    BY <1>2, <1>7, TabHolds DEF WithKey
  <2> HIDE DEF r
  <2>2. Counts(c, k, r)
    BY <1>1, <1>2, <1>3, <1>5, <2>1 DEF Counts
  <2> QED
    BY <2>2, CountsKeep
<1>8. ASSUME NEW e \in WithKey(k) PROVE TableInv' /\ (OwnInv => OwnInv')
  <2>1. e \in Els(table) /\ e.key = k
    BY TabHolds DEF WithKey
  <2>2. e.refs \in Nat /\ e.refs = Cardinality(Working(k))
    BY <2>1, TabHolds DEF TableInv, EntriesKept
  <2>3. WithKey(k) = {e}
    BY <2>1, TabHolds DEF WithKey, TableInv, EntriesKept, Distinct
  <2>4. bumped = {[e EXCEPT !.refs = e.refs + 1]}
    BY <2>3
  <2>5. table' = Append(Without(table, WithKey(k)), [e EXCEPT !.refs = e.refs + 1])
    BY <1>2, <2>4
  <2> HIDE DEF r, bumped
  <2>6. e.refs + 1 = Cardinality(Working(k)') /\ e.refs + 1 \in Nat
    BY <1>6, <2>2
  <2>7. Counts(c, k, r)
    BY <1>1, <1>2, <1>3, <1>5, <2>1, <2>5, <2>6 DEF Counts
  <2> QED
    BY <2>7, CountsKeep
<1> QED
  BY <1>7, <1>8

LEMMA ReleaseKeeps ==
  ASSUME TableInv, NEW c \in Callers, Release(c)
  PROVE  TableInv' /\ (OwnInv => OwnInv')
<1>1. PICK k \in Keys \cup {NoKey} : k = caller[c].key
  BY DEF TableInv, TableTypes, CallerRec
<1> DEFINE dropped == {[e EXCEPT !.refs = IF @ = 0 THEN 0 ELSE @ - 1] : e \in WithKey(k)}
<1>2. /\ caller[c].pc = "holding" /\ UNCHANGED vmVars /\ caller' = [caller EXCEPT ![c] = Idle]
      /\ table' = IF dropped = {} THEN table ELSE Append(Without(table, WithKey(k)), CHOOSE e \in dropped : TRUE)
  BY <1>1 DEF Release
<1>3. caller \in [Callers -> CallerRec] /\ Idle \in CallerRec /\ Idle.pc = "idle"
  BY DEF TableInv, TableTypes, CallerRec, PCs, Idle, CallerAt
<1>4. caller'[c] = Idle /\ \A d \in Callers \ {c} : caller'[d] = caller[d]
  BY <1>2, <1>3
<1>5. /\ Working(k)' = Working(k) \ {c} /\ c \in Working(k) /\ Working(k) \in SUBSET Callers
      /\ \A l \in Keys : l # k => Working(l)' = Working(l)
  BY <1>1, <1>2, <1>3, <1>4 DEF Working
<1>6. /\ Cardinality(Working(k)') = Cardinality(Working(k)) - 1 /\ Cardinality(Working(k)) > 0
      /\ Cardinality(Working(k)) \in Nat
  BY <1>5, CallersCount
<1>7. CASE WithKey(k) = {}
  <2>1. table' = table /\ \A e \in Els(table) : e.key # k
    BY <1>2, <1>7, TabHolds DEF WithKey
  <2>2. Counts(c, k, Idle)
    BY <1>1, <1>2, <1>3, <1>5, <2>1 DEF Counts
  <2> QED
    BY <2>2, CountsKeep
<1>8. ASSUME NEW e \in WithKey(k) PROVE TableInv' /\ (OwnInv => OwnInv')
  <2>1. e \in Els(table) /\ e.key = k
    BY TabHolds DEF WithKey
  <2>2. e.refs \in Nat /\ e.refs = Cardinality(Working(k)) /\ e.refs # 0
    BY <1>6, <2>1, TabHolds DEF TableInv, EntriesKept
  <2>3. WithKey(k) = {e}
    BY <2>1, TabHolds DEF WithKey, TableInv, EntriesKept, Distinct
  <2>4. dropped = {[e EXCEPT !.refs = e.refs - 1]}
    BY <2>2, <2>3
  <2>5. table' = Append(Without(table, WithKey(k)), [e EXCEPT !.refs = e.refs - 1])
    BY <1>2, <2>4
  <2> HIDE DEF dropped
  <2>6. e.refs - 1 = Cardinality(Working(k)') /\ e.refs - 1 \in Nat
    BY <1>6, <2>2
  <2>7. Counts(c, k, Idle)
    BY <1>1, <1>2, <1>3, <1>5, <2>1, <2>5, <2>6 DEF Counts
  <2> QED
    BY <2>7, CountsKeep
<1> QED
  BY <1>7, <1>8

-----------------------------------------------------------------------------
(* Stale sandboxes, boots and their failures *)

(* Nobody new boots.                                                         *)
LEMMA BootsKeep ==
  ASSUME TableInv,
         \A d \in Callers : /\ caller'[d].pc \in Booting => caller[d].pc \in Booting /\ caller'[d].id = caller[d].id
                            /\ caller'[d].pc = "connecting" => caller'[d] = caller[d]
  PROVE  BootsKept' /\ Boots' \subseteq Boots
<1>1. \A d, f \in Callers : caller'[d].pc \in Booting /\ caller'[f].pc \in Booting
                              /\ caller'[d].id = caller'[f].id => d = f
  BY DEF TableInv, BootsKept
<1>2. \A d \in Boots' : d \in Boots /\ caller'[d] = caller[d]
  BY DEF Boots
<1> QED
  BY <1>1, <1>2 DEF TableInv, BootsKept

(* Neither the table nor the boots that will add to it grow.                 *)
LEMMA CapKeeps ==
  ASSUME TableInv, Len(table') \in Nat, Len(table') <= Len(table), Growing' \subseteq Growing
  PROVE  CapKept'
<1>1. /\ Len(table) + Cardinality(Growing) <= MaxAttachments + Cardinality(Callers) - 1
      /\ Len(table) \in Nat /\ MaxAttachments \in Nat
  BY LenProperties, TableAssumption DEF TableInv, CapKept, TableTypes
<1>2. /\ Cardinality(Growing) \in Nat /\ Cardinality(Callers) \in Nat
      /\ Cardinality(Growing') <= Cardinality(Growing) /\ Cardinality(Growing') \in Nat
  BY CallersCount DEF Growing
<1> QED
  BY <1>1, <1>2 DEF CapKept

LEMMA EvictStaleKeeps ==
  ASSUME TableInv, NEW c \in Callers, EvictStale(c)
  PROVE  TableInv' /\ (OwnInv => OwnInv')
<1>1. PICK i \in Ids : i = caller[c].id /\ caller[c].pc = "health"
  BY DEF EvictStale, TableInv, TableTypes
<1> DEFINE r == [caller[c] EXCEPT !.pc = "discarding"]
           E == EntryOf(i)
<1>2. /\ caller' = [caller EXCEPT ![c] = r] /\ UNCHANGED vmVars /\ table' = Without(table, E)
  BY <1>1 DEF EvictStale
<1>3. /\ r \in CallerRec /\ r.pc = "discarding" /\ r.id = i /\ r.vm = caller[c].vm /\ TableTypes
  BY <1>1 DEF TableInv, TableTypes, CallerRec, PCs
<1> HIDE DEF r
<1>4. /\ caller' \in [Callers -> CallerRec] /\ caller'[c] = r
      /\ \A d \in Callers \ {c} : caller'[d] = caller[d]
      /\ Growing' = Growing /\ Boots' = Boots /\ Boot' = Boot
      /\ \A k : Working(k)' = Working(k)
  BY <1>1, <1>2, <1>3, CallerMoves
<1>5. \A e : e \in E <=> e \in Els(table) /\ e.id = i
  BY TabHolds DEF EntryOf
<1>6. /\ Distinct(table') /\ Els(table') = Els(table) \ E /\ Len(table') \in Nat /\ Len(table') <= Len(table)
  <2>1. Distinct(table)
    BY DEF TableInv, EntriesKept
  <2> HIDE DEF E
  <2> QED
    BY <1>2, <2>1, WithoutKeeps
<1>7. Tab' \subseteq Tab /\ \A e \in Els(table) \ E : e.vm \in Tab'
  BY <1>6 DEF Tab, VMsOf
<1>8. Pool' = Pool /\ Rel' = Rel /\ Up' = Up /\ dying' = dying /\ VMBooks' /\ release' = release
  BY <1>2, SameVMs DEF TableInv, PlacesKept, vmVars
<1>9. TableTypes'
  <2>1. \A d \in Callers : caller'[d].pc # "idle" => caller'[d].id \in Ids
    BY <1>3, <1>4 DEF TableTypes
  <2>2. \A d \in Boots' : caller'[d].vm # NoVM
    BY <1>1, <1>3, <1>4 DEF TableTypes, Boots
  <2>3. \A d \in Callers : caller'[d].pc # "returning" => release'[d].vm = NoVM
    BY <1>1, <1>3, <1>4, <1>8 DEF TableTypes
  <2> QED
    BY <1>4, <1>6, <2>1, <2>2, <2>3 DEF TableTypes, Distinct
<1>10. EntriesKept'
  BY <1>4, <1>6, <1>8 DEF EntriesKept, TableInv
<1>11. BootsKept'
  BY <1>3, <1>4, BootsKeep DEF Booting
<1>12. CapKept'
  BY <1>4, <1>6, CapKeeps
<1>13. PlacesKept'
  BY <1>4, <1>7, <1>8 DEF TableInv, PlacesKept, Outside
<1>14. ASSUME OwnInv PROVE OwnInv'
  <2>1. \A d \in Callers : caller'[d].pc # "idle" => caller'[d].id \in MayAcquire[d]
    BY <1>1, <1>3, <1>4, <1>14 DEF OwnInv
  <2>2. \A d \in Callers : \A f \in Els(table') : f.id = caller'[d].id =>
          /\ caller'[d].pc = "health" => f.vm = caller'[d].vm
          /\ caller'[d].pc \notin Booting \cup {"discarding"}
    <3>1. SUFFICES ASSUME NEW d \in Callers, NEW f \in Els(table'), f.id = caller'[d].id
                   PROVE  /\ caller'[d].pc = "health" => f.vm = caller'[d].vm
                          /\ caller'[d].pc \notin Booting \cup {"discarding"}
      OBVIOUS
    <3>2. f \in Els(table) /\ f.id # i
      BY <1>5, <1>6
    <3> QED
      BY <1>3, <1>4, <1>14, <3>1, <3>2 DEF OwnInv
  <2>3. \A e \in E : e.vm = caller[c].vm
    BY <1>1, <1>5, <1>14 DEF OwnInv
  <2>4. caller[c].vm \in BeingDiscarded' /\ BeingDiscarded \subseteq BeingDiscarded'
    BY <1>1, <1>3, <1>4 DEF BeingDiscarded
  <2>5. \A v \in Tab : v \in Tab' \/ v \in BeingDiscarded'
    BY <1>7, <2>3, <2>4 DEF Tab, VMsOf
  <2>6. Covered(Up', Boot' \cup Tab' \cup BeingDiscarded', Pool', Rel', dying')
    BY <1>4, <1>8, <1>14, <2>4, <2>5 DEF OwnInv, Covered
  <2> QED
    BY <2>1, <2>2, <2>6 DEF OwnInv
<1> QED
  BY <1>9, <1>10, <1>11, <1>12, <1>13, <1>14 DEF TableInv

(* The table stays, and so do those who work in its sandboxes.               *)
LEMMA TableStays ==
  ASSUME TableInv, table' = table, \A k \in Keys : Working(k)' = Working(k),
         \A x \in Keys : release'[x] = release[x]
  PROVE  /\ EntriesKept' /\ Tab' = Tab /\ table' \in Seq(Entry) /\ Els(table') = Els(table)
         /\ Len(table') \in Nat /\ Len(table') <= Len(table)
<1>1. Els(table') = Els(table) /\ Tab' = Tab
  BY DEF Els, Tab, VMsOf
<1>2. table' \in Seq(Entry) /\ Len(table') \in Nat /\ Len(table') <= Len(table)
  BY LenProperties DEF TableInv, TableTypes
<1>3. \A e \in Els(table) : release'[e.key].vm = NoVM /\ e.refs = Cardinality(Working(e.key)')
  BY TabHolds DEF TableInv, EntriesKept
<1> QED
  BY <1>1, <1>2, <1>3 DEF TableInv, EntriesKept

(* The stale VM is gone.                                                     *)
LEMMA DiscardedKeeps ==
  ASSUME TableInv, NEW c \in Callers, Discarded(c)
  PROVE  TableInv' /\ (OwnInv => OwnInv')
<1>1. PICK i \in Ids, v \in VMs : i = caller[c].id /\ v = caller[c].vm /\ caller[c].pc = "discarding"
  BY DEF Discarded, TableInv, TableTypes, CallerRec
<1> DEFINE r == CallerAt("discarding", i, NoKey, NoVM)
<1>2. /\ container' = [container EXCEPT ![v] = "gone"] /\ caller' = [caller EXCEPT ![c] = r]
      /\ UNCHANGED <<table, parked, release, dying>>
  BY <1>1 DEF Discarded
<1>3. r \in CallerRec /\ r.pc = "discarding" /\ r.id = i /\ r.vm = NoVM /\ TableTypes
  BY DEF CallerAt, CallerRec, PCs, TableInv
<1> HIDE DEF r
<1>4. /\ caller' \in [Callers -> CallerRec] /\ caller'[c] = r
      /\ \A d \in Callers \ {c} : caller'[d] = caller[d]
      /\ Growing' = Growing /\ Boots' = Boots /\ Boot' = Boot
      /\ \A k : Working(k)' = Working(k)
  BY <1>1, <1>2, <1>3, CallerMoves
<1>5. /\ EntriesKept' /\ Tab' = Tab /\ table' \in Seq(Entry) /\ Els(table') = Els(table)
      /\ Len(table') \in Nat /\ Len(table') <= Len(table)
  BY <1>2, <1>4, TableStays
<1>6. VMBooks /\ container' \in [VMs -> {"up", "gone"}] /\ Up' = Up \ {v}
  BY <1>2, ContainerMoves DEF TableInv, PlacesKept
<1>7. Pool' = Pool /\ Rel' = Rel /\ dying' = dying /\ VMBooks'
  <2>1. Pool' = Pool /\ Rel' = Rel
    BY <1>2 DEF Pool, Els, Rel, Held
  <2> QED
    BY <1>2, <1>6, <2>1 DEF VMBooks
<1>8. TableTypes'
  <2>1. \A d \in Callers : caller'[d].pc # "idle" => caller'[d].id \in Ids
    BY <1>3, <1>4 DEF TableTypes
  <2>2. \A d \in Boots' : caller'[d].vm # NoVM
    BY <1>1, <1>3, <1>4 DEF TableTypes, Boots
  <2>3. \A d \in Callers : caller'[d].pc # "returning" => release'[d].vm = NoVM
    BY <1>1, <1>2, <1>3, <1>4 DEF TableTypes
  <2> QED
    BY <1>4, <1>5, <2>1, <2>2, <2>3 DEF TableTypes
<1>9. BootsKept'
  BY <1>3, <1>4, BootsKeep DEF Booting
<1>10. CapKept'
  BY <1>4, <1>5, CapKeeps
<1>11. PlacesKept'
  BY <1>4, <1>5, <1>7 DEF TableInv, PlacesKept
<1>12. ASSUME OwnInv PROVE OwnInv'
  <2>1. \A d \in Callers : caller'[d].pc # "idle" => caller'[d].id \in MayAcquire[d]
    BY <1>1, <1>3, <1>4, <1>12 DEF OwnInv
  <2>2. \A d \in Callers : /\ caller'[d].id = caller[d].id /\ caller'[d].pc = caller[d].pc
                           /\ caller'[d].pc = "health" => caller'[d].vm = caller[d].vm
    BY <1>1, <1>3, <1>4
  <2>3. \A d \in Callers : \A f \in Els(table') : f.id = caller'[d].id =>
          /\ caller'[d].pc = "health" => f.vm = caller'[d].vm
          /\ caller'[d].pc \notin Booting \cup {"discarding"}
    BY <1>5, <1>12, <2>2 DEF OwnInv
  <2>4. \A w \in BeingDiscarded : w = v \/ w \in BeingDiscarded'
    BY <1>1, <1>4 DEF BeingDiscarded
  <2>5. Covered(Up', Boot' \cup Tab' \cup BeingDiscarded', Pool', Rel', dying')
    BY <1>4, <1>5, <1>6, <1>7, <1>12, <2>4 DEF OwnInv, Covered
  <2> QED
    BY <2>1, <2>3, <2>5 DEF OwnInv
<1> QED
  BY <1>5, <1>8, <1>9, <1>10, <1>11, <1>12 DEF TableInv

(* A container has been started for the boot.                                *)
LEMMA BootedKeeps ==
  ASSUME TableInv, NEW c \in Callers, Booted(c)
  PROVE  TableInv' /\ (OwnInv => OwnInv')
<1>1. PICK i \in Ids : i = caller[c].id /\ caller[c].pc = "booting"
  BY DEF Booted, TableInv, TableTypes
<1>2. PICK v \in FreshVMs : /\ container' = [container EXCEPT ![v] = "up"]
                            /\ caller' = [caller EXCEPT ![c] = CallerAt("connecting", i, NoKey, v)]
                            /\ UNCHANGED <<table, parked, release, dying>>
  BY <1>1 DEF Booted
<1> DEFINE r == CallerAt("connecting", i, NoKey, v)
<1>3. v \in VMs /\ v \notin Tab /\ v \notin Boot /\ v \notin Pool /\ v \notin Rel /\ v \notin dying
  <2>1. v \in VMs /\ v \notin VMsInUse
    BY DEF FreshVMs
  <2>2. v \notin {e.vm : e \in TableEntries} /\ v \notin {caller[d].vm : d \in Callers}
        /\ v \notin Parked /\ v \notin Releasing /\ v \notin dying
    BY <2>1 DEF VMsInUse
  <2>3. v \notin Tab /\ v \notin Boot
    BY <2>2, TabHolds DEF Tab, VMsOf, Boot, Boots
  <2>4. v \notin Pool /\ v \notin Rel
    BY <2>2, BooksHold DEF TableInv, PlacesKept
  <2> QED
    BY <2>1, <2>2, <2>3, <2>4
<1>4. r \in CallerRec /\ r.pc = "connecting" /\ r.id = i /\ r.vm = v /\ TableTypes /\ v # NoVM
      /\ caller' = [caller EXCEPT ![c] = r]
  BY <1>2, <1>3, VMsAssumption DEF CallerAt, CallerRec, PCs, Booting, TableInv
<1> HIDE DEF r
<1>5. /\ caller' \in [Callers -> CallerRec] /\ caller'[c] = r
      /\ \A d \in Callers \ {c} : caller'[d] = caller[d]
      /\ Boots' = Boots \cup {c} /\ Boot' = Boot \cup {v}
  BY <1>1, <1>4, CallerMoves
<1>6. Growing' = Growing /\ \A k : Working(k)' = Working(k)
  BY <1>1, <1>4, <1>5 DEF Growing, Working
<1>7. /\ EntriesKept' /\ Tab' = Tab /\ table' \in Seq(Entry) /\ Els(table') = Els(table)
      /\ Len(table') \in Nat /\ Len(table') <= Len(table)
  BY <1>2, <1>6, TableStays
<1>8. VMBooks /\ container' \in [VMs -> {"up", "gone"}] /\ Up' = Up \cup {v}
  BY <1>2, <1>3, ContainerMoves DEF TableInv, PlacesKept
<1>9. Pool' = Pool /\ Rel' = Rel /\ dying' = dying /\ VMBooks'
  <2>1. Pool' = Pool /\ Rel' = Rel
    BY <1>2 DEF Pool, Els, Rel, Held
  <2> QED
    BY <1>2, <1>8, <2>1 DEF VMBooks
<1>10. TableTypes'
  <2>1. \A d \in Callers : caller'[d].pc # "idle" => caller'[d].id \in Ids
    BY <1>4, <1>5 DEF TableTypes
  <2>2. \A d \in Boots' : caller'[d].vm # NoVM
    BY <1>4, <1>5 DEF TableTypes, Boots
  <2>3. \A d \in Callers : caller'[d].pc # "returning" => release'[d].vm = NoVM
    BY <1>1, <1>2, <1>4, <1>5 DEF TableTypes
  <2> QED
    BY <1>5, <1>7, <2>1, <2>2, <2>3 DEF TableTypes
<1>11. BootsKept'
  <2>1. \A d \in Callers : caller'[d].id = caller[d].id /\ (caller'[d].pc \in Booting <=> caller[d].pc \in Booting)
    BY <1>1, <1>4, <1>5 DEF Booting
  <2>2. \A d \in Boots : caller[d].vm # v
    BY <1>3 DEF Boot
  <2>3. \A d \in Boots : d # c /\ d \in Callers
    BY <1>1 DEF Boots
  <2>4. ASSUME NEW d \in Boots', NEW f \in Boots', caller'[d].vm = caller'[f].vm PROVE d = f
    BY <1>4, <1>5, <2>2, <2>3, <2>4 DEF TableInv, BootsKept
  <2> QED
    BY <2>1, <2>4 DEF TableInv, BootsKept
<1>12. CapKept'
  BY <1>6, <1>7, CapKeeps
<1>13. PlacesKept'
  BY <1>3, <1>5, <1>7, <1>9 DEF TableInv, PlacesKept, Outside
<1>14. ASSUME OwnInv PROVE OwnInv'
  <2>1. \A d \in Callers : caller'[d].pc # "idle" => caller'[d].id \in MayAcquire[d]
    BY <1>1, <1>4, <1>5, <1>14 DEF OwnInv
  <2>2. \A d \in Callers : \A f \in Els(table') : f.id = caller'[d].id =>
          /\ caller'[d].pc = "health" => f.vm = caller'[d].vm
          /\ caller'[d].pc \notin Booting \cup {"discarding"}
    <3>1. SUFFICES ASSUME NEW d \in Callers, NEW f \in Els(table), f.id = caller'[d].id
                   PROVE  /\ caller'[d].pc = "health" => f.vm = caller'[d].vm
                          /\ caller'[d].pc \notin Booting \cup {"discarding"}
      BY <1>7
    <3>2. CASE d = c
      BY <1>1, <1>4, <1>5, <1>14, <3>1, <3>2 DEF OwnInv, Booting
    <3>3. CASE d # c
      BY <1>5, <1>14, <3>1, <3>3 DEF OwnInv
    <3> QED
      BY <3>2, <3>3
  <2>3. BeingDiscarded' = BeingDiscarded
    <3>1. \A d \in Callers : caller'[d].pc = "discarding" <=> caller[d].pc = "discarding"
      BY <1>1, <1>4, <1>5
    <3>2. \A d \in Callers : caller[d].pc = "discarding" => caller'[d] = caller[d]
      BY <1>1, <1>5
    <3> QED
      BY <3>1, <3>2 DEF BeingDiscarded
  <2>4. Covered(Up', Boot' \cup Tab' \cup BeingDiscarded', Pool', Rel', dying')
    BY <1>5, <1>7, <1>8, <1>9, <1>14, <2>3 DEF OwnInv, Covered
  <2> QED
    BY <2>1, <2>2, <2>4 DEF OwnInv
<1> QED
  BY <1>7, <1>10, <1>11, <1>12, <1>13, <1>14 DEF TableInv

(* The boot cannot connect: its VM goes to the pool.                         *)
LEMMA ConnectFailsKeeps ==
  ASSUME TableInv, NEW c \in Callers, ConnectFails(c)
  PROVE  TableInv' /\ (OwnInv => OwnInv')
<1>1. PICK i \in Ids, v \in VMs : i = caller[c].id /\ v = caller[c].vm /\ caller[c].pc = "connecting"
  BY DEF ConnectFails, TableInv, TableTypes, CallerRec, Boots
<1> DEFINE r == CallerAt("returning", i, NoKey, NoVM)
           job == [x \in {c} |-> v]
<1>2. /\ release' = Started(job) /\ caller' = [caller EXCEPT ![c] = r]
      /\ UNCHANGED <<table, container, parked, dying>>
  BY <1>1 DEF ConnectFails
<1>3. r \in CallerRec /\ r.pc = "returning" /\ r.id = i /\ TableTypes
  BY DEF CallerAt, CallerRec, PCs, Booting, TableInv
<1> HIDE DEF r
<1>4. caller' \in [Callers -> CallerRec] /\ caller'[c] = r /\ \A d \in Callers \ {c} : caller'[d] = caller[d]
  BY <1>2, <1>3 DEF TableTypes
<1>5. /\ Growing' \subseteq Growing /\ Boots' = Boots \ {c} /\ c \in Boots
      /\ \A k : Working(k)' = Working(k)
  BY <1>1, <1>3, <1>4 DEF Growing, Boots, Working
<1>6. Boot' = Boot \ {v} /\ v \in Boot
  <2>1. \A d \in Boots : caller[d].vm = v => d = c
    BY <1>1, <1>5 DEF TableInv, BootsKept
  <2>2. \A d \in Boots' : d # c /\ d \in Boots /\ d \in Callers /\ caller'[d] = caller[d]
    BY <1>4, <1>5 DEF Boots
  <2>3. Boot' = {caller[d].vm : d \in Boots \ {c}}
    BY <1>5, <2>2 DEF Boot
  <2> QED
    BY <1>1, <1>5, <2>1, <2>3 DEF Boot
<1>7. /\ release' \in [Releasers -> ReleaseRec] /\ Unique(release', Releasers)
      /\ \A x \in Releasers : release'[x].vm # NoVM <=> release'[x].step # "idle"
      /\ Rel' = Rel \cup {v} /\ \A x \in Releasers \ {c} : release'[x] = release[x]
  <2> DEFINE I == {c}
  <2>1. I \in SUBSET Releasers /\ job \in [I -> VMs] /\ \A x \in I : job[x] = v /\ x = c
    BY TabHolds
  <2>2. v \notin Rel /\ release[c].vm = NoVM /\ VMBooks
    BY <1>1, <1>6 DEF TableInv, TableTypes, PlacesKept, Outside
  <2>3. c \in I
    OBVIOUS
  <2> HIDE DEF job, I
  <2>4. /\ release' \in [Releasers -> ReleaseRec] /\ Unique(release', Releasers)
        /\ \A x \in Releasers : release'[x].vm # NoVM <=> release'[x].step # "idle"
        /\ Rel' = Rel \cup {job[x] : x \in I}
        /\ \A x \in Releasers \ I : release'[x] = release[x]
    BY <1>2, <2>1, <2>2, StartedBooks
  <2>5. {job[x] : x \in I} = {v}
    BY <2>1, <2>3
  <2> QED
    BY <2>1, <2>4, <2>5
<1>8. /\ EntriesKept' /\ Tab' = Tab /\ table' \in Seq(Entry) /\ Els(table') = Els(table)
      /\ Len(table') \in Nat /\ Len(table') <= Len(table)
  <2>1. \A x \in Keys : release'[x] = release[x]
    BY <1>7, TabHolds
  <2> QED
    BY <1>2, <1>5, <2>1, TableStays
<1>9. Pool' = Pool /\ Up' = Up /\ dying' = dying /\ VMBooks'
  <2>1. Pool' = Pool /\ Up' = Up
    BY <1>2 DEF Pool, Els, Up
  <2>2. VMBooks /\ v \notin Pool /\ v \notin dying
    BY <1>6 DEF TableInv, PlacesKept, Outside
  <2> QED
    BY <1>2, <1>7, <2>1, <2>2 DEF VMBooks
<1>10. TableTypes'
  <2>1. \A d \in Callers : caller'[d].pc # "idle" => caller'[d].id \in Ids
    BY <1>3, <1>4 DEF TableTypes
  <2>2. \A d \in Boots' : caller'[d].vm # NoVM
    <3>1. \A d \in Boots : d \in Callers \/ d = c
      BY DEF Boots
    <3> QED
      BY <1>3, <1>4, <1>5, <3>1 DEF TableTypes, Boots
  <2>3. \A d \in Callers : caller'[d].pc # "returning" => release'[d].vm = NoVM
    BY <1>3, <1>4, <1>7, TabHolds DEF TableTypes
  <2> QED
    BY <1>4, <1>8, <2>1, <2>2, <2>3 DEF TableTypes
<1>11. BootsKept'
  BY <1>1, <1>3, <1>4, BootsKeep DEF Booting
<1>12. CapKept'
  BY <1>5, <1>8, CapKeeps
<1>13. PlacesKept'
  BY <1>6, <1>7, <1>8, <1>9 DEF TableInv, PlacesKept, Outside
<1>14. ASSUME OwnInv PROVE OwnInv'
  <2>1. \A d \in Callers : caller'[d].pc # "idle" => caller'[d].id \in MayAcquire[d]
    BY <1>1, <1>3, <1>4, <1>14 DEF OwnInv
  <2>2. \A d \in Callers : \A f \in Els(table') : f.id = caller'[d].id =>
          /\ caller'[d].pc = "health" => f.vm = caller'[d].vm
          /\ caller'[d].pc \notin Booting \cup {"discarding"}
    <3>1. SUFFICES ASSUME NEW d \in Callers, NEW f \in Els(table), f.id = caller'[d].id
                   PROVE  /\ caller'[d].pc = "health" => f.vm = caller'[d].vm
                          /\ caller'[d].pc \notin Booting \cup {"discarding"}
      BY <1>8
    <3>2. CASE d = c
      BY <1>1, <1>3, <1>4, <1>14, <3>1, <3>2 DEF OwnInv, Booting
    <3>3. CASE d # c
      BY <1>4, <1>14, <3>1, <3>3 DEF OwnInv
    <3> QED
      BY <3>2, <3>3
  <2>3. BeingDiscarded' = BeingDiscarded
    <3>1. \A d \in Callers : caller'[d].pc = "discarding" <=> caller[d].pc = "discarding"
      BY <1>1, <1>3, <1>4
    <3>2. \A d \in Callers : caller[d].pc = "discarding" => caller'[d] = caller[d]
      BY <1>1, <1>4
    <3> QED
      BY <3>1, <3>2 DEF BeingDiscarded
  <2>4. Covered(Up', Boot' \cup Tab' \cup BeingDiscarded', Pool', Rel', dying')
    BY <1>6, <1>7, <1>8, <1>9, <1>14, <2>3 DEF OwnInv, Covered
  <2> QED
    BY <2>1, <2>2, <2>4 DEF OwnInv
<1> QED
  BY <1>8, <1>10, <1>11, <1>12, <1>13, <1>14 DEF TableInv

(* A boot rejects, and with it the acquires that share it.                   *)
LEMMA RejectedKeeps ==
  ASSUME TableInv, NEW c \in Callers, BootFails(c) \/ Returned(c)
  PROVE  TableInv' /\ (OwnInv => OwnInv')
<1>1. PICK i \in Ids : i = caller[c].id /\ caller[c].pc \in {"booting", "returning"}
  BY DEF BootFails, Returned, TableInv, TableTypes
<1>2. caller' = Rejected(i) /\ UNCHANGED <<table, container, parked, release, dying>>
  BY <1>1 DEF BootFails, Returned
<1>3. Booters(i) = {c}
  BY <1>1 DEF Booters, Booting, TableInv, BootsKept
<1>4. \A d \in Joiners(i) : d \in Callers /\ caller[d].pc = "joining"
  BY DEF Joiners
<1>5. Idle \in CallerRec /\ Idle.pc = "idle" /\ TableTypes
  BY DEF CallerRec, PCs, Idle, CallerAt, TableInv
<1> DEFINE R == Joiners(i) \cup {c}
<1>6. /\ caller' \in [Callers -> CallerRec]
      /\ \A d \in R : caller'[d] = Idle /\ caller[d].pc \in {"joining", "booting", "returning"}
      /\ \A d \in Callers \ R : caller'[d] = caller[d]
  <2>1. caller' = [d \in Callers |-> IF d \in R THEN Idle ELSE caller[d]]
    BY <1>2, <1>3 DEF Rejected
  <2>2. \A d \in R : d \in Callers /\ caller[d].pc \in {"joining", "booting", "returning"}
    BY <1>1, <1>4
  <2> HIDE DEF R
  <2> QED
    BY <1>5, <2>1, <2>2 DEF TableTypes
<1> HIDE DEF R
<1>7. /\ Growing' \subseteq Growing /\ Boots' = Boots /\ \A k : Working(k)' = Working(k)
      /\ \A d \in Boots : caller'[d] = caller[d]
  <2>1. \A d \in Callers : caller'[d].pc \in {"booting", "connecting", "holding"} => d \notin R /\ caller'[d] = caller[d]
    BY <1>5, <1>6
  <2>2. \A d \in Callers : caller[d].pc \in {"connecting", "holding"} => d \notin R /\ caller'[d] = caller[d]
    BY <1>6
  <2> QED
    BY <2>1, <2>2 DEF Growing, Boots, Working
<1>8. Boot' = Boot
  BY <1>7 DEF Boot
<1>9. /\ EntriesKept' /\ Tab' = Tab /\ table' \in Seq(Entry) /\ Els(table') = Els(table)
      /\ Len(table') \in Nat /\ Len(table') <= Len(table)
  BY <1>2, <1>7, TableStays
<1>10. Pool' = Pool /\ Rel' = Rel /\ Up' = Up /\ dying' = dying /\ VMBooks' /\ release' = release
  <2>1. UNCHANGED vmVars
    BY <1>2 DEF vmVars
  <2> QED
    BY <1>2, <2>1, SameVMs DEF TableInv, PlacesKept
<1>11. TableTypes'
  <2>1. \A d \in Callers : caller'[d].pc # "idle" => caller'[d].id \in Ids
    BY <1>5, <1>6 DEF TableTypes
  <2>2. \A d \in Boots' : caller'[d].vm # NoVM
    BY <1>5, <1>7 DEF TableTypes
  <2>3. \A d \in Callers : caller'[d].pc # "returning" => release'[d].vm = NoVM
    <3>1. SUFFICES ASSUME NEW d \in Callers, caller'[d].pc # "returning" PROVE release[d].vm = NoVM
      BY <1>10
    <3>2. CASE caller[d].pc # "returning"
      BY <1>5, <3>2 DEF TableTypes
    <3>3. CASE caller[d].pc = "returning"
      <4>1. d \in R /\ d \notin Joiners(i)
        BY <1>4, <1>6, <3>1, <3>3
      <4>2. d = c
        BY <4>1 DEF R
      <4>3. release[c] = NoRelease
        BY <3>3, <4>2 DEF BootFails, Returned
      <4> QED
        BY <4>2, <4>3 DEF NoRelease
    <3> QED
      BY <3>2, <3>3
  <2> QED
    BY <1>6, <1>9, <2>1, <2>2, <2>3 DEF TableTypes
<1>12. BootsKept'
  BY <1>5, <1>6, BootsKeep DEF Booting
<1>13. CapKept'
  BY <1>7, <1>9, CapKeeps
<1>14. PlacesKept'
  BY <1>8, <1>9, <1>10 DEF TableInv, PlacesKept
<1>15. ASSUME OwnInv PROVE OwnInv'
  <2>1. \A d \in Callers : caller'[d].pc # "idle" => caller'[d] = caller[d]
    BY <1>5, <1>6
  <2>2. \A d \in Callers : \A f \in Els(table') : f.id = caller'[d].id =>
          /\ caller'[d].pc = "health" => f.vm = caller'[d].vm
          /\ caller'[d].pc \notin Booting \cup {"discarding"}
    <3>1. \A d \in Callers : caller'[d].pc = "idle" \/ caller'[d] = caller[d]
      BY <2>1
    <3> QED
      BY <1>9, <1>15, <3>1 DEF OwnInv, Booting
  <2>3. BeingDiscarded' = BeingDiscarded
    <3>1. \A d \in Callers : caller'[d].pc = "discarding" => caller'[d] = caller[d]
      BY <2>1
    <3>2. \A d \in Callers : caller[d].pc = "discarding" => caller'[d] = caller[d]
      BY <1>6
    <3> QED
      BY <3>1, <3>2 DEF BeingDiscarded
  <2> QED
    BY <1>8, <1>9, <1>10, <1>15, <2>1, <2>2, <2>3 DEF OwnInv
<1> QED
  BY <1>9, <1>11, <1>12, <1>13, <1>14, <1>15 DEF TableInv

(* The boot has connected: the entry counts who booted and who shared.       *)
LEMMA ConnectedKeeps ==
  ASSUME TableInv, NEW c \in Callers, Connected(c)
  PROVE  TableInv' /\ (OwnInv /\ OwnIds => OwnInv')
<1>1. PICK i \in Ids, v \in VMs : i = caller[c].id /\ v = caller[c].vm /\ caller[c].pc = "connecting"
  BY DEF Connected, TableInv, TableTypes, CallerRec, Boots
<1>2. PICK k \in FreshKeys :
        /\ table' = Append(Without(table, EntryOf(i)),
                           [key |-> k, id |-> i, vm |-> v, refs |-> 1 + Cardinality(Joiners(i))])
        /\ caller' = [d \in Callers |-> IF d \in Joiners(i) \cup {c} THEN CallerAt("holding", i, k, v)
                                                                    ELSE caller[d]]
        /\ UNCHANGED vmVars
  BY <1>1 DEF Connected
<1> DEFINE J == Joiners(i)
           R == J \cup {c}
           r == CallerAt("holding", i, k, v)
           entry == [key |-> k, id |-> i, vm |-> v, refs |-> 1 + Cardinality(J)]
           W == Without(table, EntryOf(i))
<1>3. /\ J \in SUBSET Callers /\ c \notin J /\ R \in SUBSET Callers
      /\ \A d \in J : caller[d].pc = "joining" /\ caller[d].id = i
  BY <1>1 DEF Joiners
<1>4. /\ k \in Keys /\ release[k].vm = NoVM
      /\ \A e \in Els(table) : e.key # k
      /\ \A d \in Callers : caller[d].key # k
  <2>1. k \in Keys /\ k \notin KeysInUse
    BY DEF FreshKeys
  <2>2. k \notin {e.key : e \in TableEntries} /\ k \notin {caller[d].key : d \in Callers} /\ release[k] = NoRelease
    BY <2>1 DEF KeysInUse
  <2> QED
    BY <2>1, <2>2, TabHolds DEF NoRelease
<1>5. r \in CallerRec /\ r.pc = "holding" /\ r.id = i /\ r.key = k /\ r.vm = v /\ TableTypes
  BY <1>4 DEF CallerAt, CallerRec, PCs, TableInv
<1>6. caller' \in [Callers -> CallerRec] /\ (\A d \in R : caller'[d] = r) /\ \A d \in Callers \ R : caller'[d] = caller[d]
  <2>1. caller' = [d \in Callers |-> IF d \in R THEN r ELSE caller[d]]
    BY <1>2
  <2> HIDE DEF R, r
  <2> QED
    BY <1>3, <1>5, <2>1 DEF TableTypes
<1>7. Cardinality(R) = Cardinality(J) + 1 /\ Cardinality(J) \in Nat
  <2> HIDE DEF J
  <2> QED
    BY <1>3, CallersCount
<1>8. c \in R /\ \A d \in R : d \in Callers /\ (d = c \/ caller[d].pc = "joining")
  BY <1>3
<1>9. PICK g \in Entry : g = entry /\ g.key = k /\ g.id = i /\ g.vm = v /\ g.refs = Cardinality(R)
  <2>1. 1 + Cardinality(J) \in Nat /\ 1 + Cardinality(J) = Cardinality(R)
    <3> HIDE DEF J, R
    <3> QED
      BY <1>7
  <2> HIDE DEF J, R
  <2>2. entry \in Entry
    BY <1>4, <2>1 DEF Entry
  <2>3. entry.key = k /\ entry.id = i /\ entry.vm = v /\ entry.refs = Cardinality(R)
    BY <2>1
  <2> HIDE DEF entry
  <2> QED
    BY <2>2, <2>3
<1>10. table' = Append(W, g)
  BY <1>2, <1>9
<1> HIDE DEF J, R, r, entry, W
<1>11. Working(k)' = R /\ \A l \in Keys : l # k => Working(l)' = Working(l)
  <2>1. \A d \in Callers : caller'[d].pc = "holding" /\ caller'[d].key = k <=> d \in R
    BY <1>4, <1>5, <1>6
  <2>2. Working(k)' = R
    BY <1>8, <2>1 DEF Working
  <2>3. ASSUME NEW l \in Keys, l # k PROVE Working(l)' = Working(l)
    <3>1. \A d \in R : caller[d].pc # "holding" /\ caller'[d].key # l
      BY <1>1, <1>5, <1>6, <1>8, <2>3
    <3> QED
      BY <1>6, <3>1 DEF Working
  <2> QED
    BY <2>2, <2>3
<1>12. \A e : e \in EntryOf(i) <=> e \in Els(table) /\ e.id = i
  BY TabHolds DEF EntryOf
<1>13. /\ Distinct(W) /\ Els(W) = Els(table) \ EntryOf(i) /\ Len(W) \in Nat /\ Len(W) <= Len(table)
       /\ Len(table) \in Nat
  <2>1. Distinct(table)
    BY DEF TableInv, EntriesKept
  <2> QED
    BY <2>1, WithoutKeeps DEF W
<1>14. c \in Boots /\ v \in Boot /\ v \notin Tab
  <2>1. c \in Boots /\ v \in Boot
    BY <1>1 DEF Boots, Boot
  <2> QED
    BY <2>1 DEF TableInv, PlacesKept
<1>15. \A e \in Els(W) : e.key # g.key /\ e.id # g.id /\ e.vm # g.vm
  BY <1>4, <1>9, <1>12, <1>13, <1>14, TabHolds
<1>16. Distinct(table') /\ Els(table') = Els(W) \cup {g} /\ Len(table') = Len(W) + 1
  <2>1. Distinct(Append(W, g)) /\ Els(Append(W, g)) = Els(W) \cup {g} /\ Len(Append(W, g)) = Len(W) + 1
    BY <1>9, <1>13, <1>15, AppendKeeps
  <2> QED
    BY <1>10, <2>1
<1>17. Pool' = Pool /\ Rel' = Rel /\ Up' = Up /\ dying' = dying /\ VMBooks' /\ release' = release
  BY <1>2, SameVMs DEF TableInv, PlacesKept, vmVars
<1>18. EntriesKept'
  <2>1. \A e \in Els(W) : release[e.key].vm = NoVM /\ e.refs = Cardinality(Working(e.key)')
    BY <1>11, <1>13, <1>15, <1>9, TabHolds DEF TableInv, EntriesKept
  <2>2. release[g.key].vm = NoVM /\ g.refs = Cardinality(Working(g.key)')
    BY <1>4, <1>9, <1>11
  <2> QED
    BY <1>16, <1>17, <2>1, <2>2 DEF EntriesKept
<1>19. Boots' = Boots \ {c} /\ Growing' = Growing \ {c} /\ c \in Growing
  <2>1. \A d \in Callers : caller'[d].pc \in {"booting", "connecting"} => d \notin R
    BY <1>5, <1>6
  <2>2. \A d \in Callers : caller[d].pc \in {"booting", "connecting"} /\ d # c => d \notin R
    BY <1>8
  <2>3. \A d \in Callers : caller'[d].pc = "connecting" <=> (caller[d].pc = "connecting" /\ d # c)
    BY <1>6, <1>8, <2>1, <2>2
  <2>4. \A d \in Callers : caller'[d].pc \in {"booting", "connecting"}
                             <=> (caller[d].pc \in {"booting", "connecting"} /\ d # c)
    BY <1>6, <1>8, <2>1, <2>2
  <2>5. caller[c].pc \in {"booting", "connecting"}
    BY <1>1
  <2> QED
    BY <2>3, <2>4, <2>5 DEF Boots, Growing
<1>20. Boot' = Boot \ {v}
  <2>1. \A d \in Boots : caller[d].vm = v => d = c
    BY <1>1, <1>14 DEF TableInv, BootsKept
  <2>2. \A d \in Boots \ {c} : caller'[d] = caller[d]
    BY <1>6, <1>8 DEF Boots
  <2>3. Boot' = {caller[d].vm : d \in Boots \ {c}}
    BY <1>19, <2>2 DEF Boot
  <2> QED
    BY <1>1, <1>14, <2>1, <2>3 DEF Boot
<1>21. Tab' = VMsOf(Els(W)) \cup {v} /\ VMsOf(Els(W)) \subseteq Tab
  BY <1>9, <1>13, <1>16 DEF Tab, VMsOf
<1>22. TableTypes'
  <2>1. \A d \in Callers : caller'[d].pc # "idle" => caller'[d].id \in Ids
    BY <1>5, <1>6 DEF TableTypes
  <2>2. \A d \in Boots' : caller'[d].vm # NoVM
    BY <1>5, <1>6, <1>8, <1>19 DEF TableTypes, Boots
  <2>3. \A d \in Callers : caller'[d].pc # "returning" => release'[d].vm = NoVM
    BY <1>1, <1>5, <1>6, <1>8, <1>17 DEF TableTypes
  <2> QED
    BY <1>6, <1>16, <2>1, <2>2, <2>3 DEF TableTypes, Distinct
<1>23. BootsKept'
  BY <1>5, <1>6, BootsKeep DEF Booting
<1>24. CapKept'
  <2>1. /\ Len(table) + Cardinality(Growing) <= MaxAttachments + Cardinality(Callers) - 1
        /\ MaxAttachments \in Nat
    BY TableAssumption DEF TableInv, CapKept
  <2>2. Cardinality(Growing) \in Nat /\ Cardinality(Callers) \in Nat /\ Cardinality(Growing \ {c}) = Cardinality(Growing) - 1
    <3>1. Growing \in SUBSET Callers
      BY DEF Growing
    <3> QED
      BY <1>19, <3>1, CallersCount
  <2>3. Cardinality(Growing') = Cardinality(Growing) - 1
    BY <1>19, <2>2
  <2>4. Len(table') + Cardinality(Growing') <= MaxAttachments + Cardinality(Callers) - 1
    BY <1>13, <1>16, <2>1, <2>2, <2>3
  <2> QED
    BY <2>4 DEF CapKept
<1>25. PlacesKept'
  BY <1>14, <1>17, <1>20, <1>21 DEF TableInv, PlacesKept, Outside
<1>26. ASSUME OwnInv, OwnIds PROVE OwnInv'
  <2>1. i \in MayAcquire[c] /\ EntryOf(i) = {}
    BY <1>1, <1>12, <1>26 DEF OwnInv, Booting
  <2>2. \A d \in Callers : d # c /\ caller[d].pc # "idle" => caller[d].id # i
    BY <1>26, <2>1 DEF OwnInv, OwnIds
  <2>3. R = {c}
    BY <1>3, <1>8, <2>2 DEF R
  <2>4. \A d \in Callers : caller'[d].pc # "idle" => caller'[d].id \in MayAcquire[d]
    BY <1>5, <1>6, <1>26, <2>1, <2>3 DEF OwnInv
  <2>5. \A d \in Callers : \A f \in Els(table') : f.id = caller'[d].id =>
          /\ caller'[d].pc = "health" => f.vm = caller'[d].vm
          /\ caller'[d].pc \notin Booting \cup {"discarding"}
    <3>1. SUFFICES ASSUME NEW d \in Callers, NEW f \in Els(table'), f.id = caller'[d].id
                   PROVE  /\ caller'[d].pc = "health" => f.vm = caller'[d].vm
                          /\ caller'[d].pc \notin Booting \cup {"discarding"}
      OBVIOUS
    <3>2. CASE d = c
      BY <1>5, <1>6, <1>8, <3>2 DEF Booting
    <3>3. CASE d # c
      <4>1. caller'[d] = caller[d]
        BY <1>6, <2>3, <3>3
      <4>2. CASE f \in Els(W)
        BY <1>13, <1>26, <3>1, <4>1, <4>2 DEF OwnInv
      <4>3. CASE f = g
        BY <1>9, <2>2, <3>1, <3>3, <4>1, <4>3 DEF Booting
      <4> QED
        BY <1>16, <4>2, <4>3
    <3> QED
      BY <3>2, <3>3
  <2>6. BeingDiscarded \subseteq BeingDiscarded'
    <3>1. \A d \in Callers : caller[d].pc = "discarding" => caller'[d] = caller[d]
      BY <1>1, <1>6, <2>3
    <3> QED
      BY <3>1 DEF BeingDiscarded
  <2>7. Tab' = Tab \cup {v}
    BY <1>13, <1>21, <2>1 DEF Tab
  <2>8. Covered(Up', Boot' \cup Tab' \cup BeingDiscarded', Pool', Rel', dying')
    BY <1>17, <1>20, <1>26, <2>6, <2>7 DEF OwnInv, Covered
  <2> QED
    BY <2>4, <2>5, <2>8 DEF OwnInv
<1> QED
  BY <1>18, <1>22, <1>23, <1>24, <1>25, <1>26 DEF TableInv

-----------------------------------------------------------------------------
(* Sweeps, shutdown and the pool *)

(* Entries leave while the callers stay where they are.                      *)
LEMMA SweepKeeps ==
  ASSUME TableInv, NEW F, Leaves(F), UNCHANGED <<caller, container, parked, dying>>
  PROVE  TableInv' /\ (OwnInv => OwnInv')
<1>1. Boots' = Boots /\ Boot' = Boot /\ Growing' = Growing /\ BeingDiscarded' = BeingDiscarded
      /\ \A k \in Keys : Working(k)' = Working(k)
  BY DEF Boots, Boot, Growing, Working, BeingDiscarded
<1>2. EntriesKept' /\ table' \in Seq(Entry)
  BY <1>1, LeavesEntries
<1>3. /\ PlacesKept'
      /\ \A ws : Covered(Up, Boot \cup Tab \cup ws, Pool, Rel, dying)
                   => Covered(Up', Boot' \cup Tab' \cup ws, Pool', Rel', dying')
  BY <1>1, LeavesPlaces
<1>4. /\ \A c \in Callers : release'[c] = release[c]
      /\ Els(table') \subseteq Els(table) /\ Len(table') \in Nat /\ Len(table') <= Len(table)
  BY TornDown DEF Leaves
<1>5. TableTypes'
  BY <1>1, <1>2, <1>4 DEF TableInv, TableTypes
<1>6. BootsKept'
  BY <1>1 DEF TableInv, BootsKept
<1>7. CapKept'
  BY <1>1, <1>4, CapKeeps
<1>8. OwnInv => OwnInv'
  BY <1>1, <1>3, <1>4 DEF OwnInv
<1> QED
  BY <1>2, <1>3, <1>5, <1>6, <1>7, <1>8 DEF TableInv

LEMMA TimersKeep ==
  ASSUME TableInv, SweepIdle \/ Shutdown
  PROVE  TableInv' /\ (OwnInv => OwnInv')
<1>1. Distinct(table) /\ Els(table) = TableEntries
  BY TabHolds DEF TableInv, EntriesKept
<1>2. UNCHANGED <<caller, container, parked, dying>>
  BY DEF SweepIdle, Shutdown
<1>3. CASE SweepIdle
  <2>1. PICK n \in 1..Len(table) : table' = Without(table, SweptAt(n)) /\ release' = Teardown(SweptAt(n))
    BY <1>3 DEF SweepIdle
  <2>2. SweptAt(n) \subseteq Els(table)
    BY LenProperties DEF SweptAt, Els, TableInv, TableTypes
  <2>3. Leaves(SweptAt(n))
    BY <1>1, <2>1, <2>2, WithoutKeeps DEF Leaves
  <2> QED
    BY <1>2, <2>3, SweepKeeps
<1>4. CASE Shutdown
  <2>1. table' = << >> /\ release' = Teardown(Els(table))
    BY <1>1, <1>4 DEF Shutdown
  <2>2. Distinct(table') /\ Els(table') = {} /\ Len(table') = 0
    BY <2>1, EmptySeq DEF Distinct, Els, Once
  <2>3. Len(table) \in Nat
    BY LenProperties DEF TableInv, TableTypes
  <2>4. Leaves(Els(table))
    BY <2>1, <2>2, <2>3 DEF Leaves
  <2> QED
    BY <1>2, <2>4, SweepKeeps
<1> QED
  BY <1>3, <1>4

(* The pool's own steps, and containers that die.                            *)
LEMMA PoolStepKeeps ==
  ASSUME TableInv, PoolStep
  PROVE  TableInv' /\ (OwnInv => OwnInv')
<1>1. table' = table /\ caller' = caller
  BY DEF PoolStep
<1>2. /\ Boots' = Boots /\ Boot' = Boot /\ Growing' = Growing /\ BeingDiscarded' = BeingDiscarded
      /\ Tab' = Tab /\ Els(table') = Els(table) /\ \A k : Working(k)' = Working(k)
  BY <1>1 DEF Boots, Boot, Growing, Working, BeingDiscarded, Tab, VMsOf, Els
<1>3. VMBooks /\ Boot \cap Tab = {} /\ Outside(Boot \cup Tab, Pool, Rel, dying)
  BY DEF TableInv, PlacesKept
<1> DEFINE us == Boot \cup Tab
<1>4. Kept(us)
  <2>1. Outside(us, Pool, Rel, dying)
    BY <1>3
  <2> HIDE DEF us
  <2>2. ASSUME NEW x \in Releasers, ReleaseStep(x) PROVE Kept(us)
    BY <1>3, <2>1, <2>2, ReleaseStepBooks
  <2>3. CASE EvictIdle \/ PoolShutdown \/ \E v \in VMs : Destroyed(v) \/ ContainerDies(v)
    BY <1>3, <2>1, <2>3, EvictionBooks
  <2> QED
    BY <2>2, <2>3 DEF PoolStep
<1>5. /\ VMBooks' /\ Outside(us, Pool', Rel', dying')
      /\ \A ws : Covered(Up, ws, Pool, Rel, dying) => Covered(Up', ws, Pool', Rel', dying')
      /\ \A y \in Releasers : release[y].vm = NoVM => release'[y].vm = NoVM
  <2> HIDE DEF us
  <2> QED
    BY <1>4 DEF Kept
<1>6. TableTypes'
  BY <1>1, <1>2, <1>5, TabHolds DEF TableInv, TableTypes
<1>7. EntriesKept'
  BY <1>1, <1>2, <1>5, TabHolds DEF TableInv, EntriesKept
<1>8. BootsKept' /\ CapKept'
  BY <1>1, <1>2 DEF TableInv, BootsKept, CapKept
<1>9. PlacesKept'
  BY <1>2, <1>3, <1>5 DEF PlacesKept
<1>10. OwnInv => OwnInv'
  BY <1>1, <1>2, <1>5 DEF OwnInv
<1> QED
  BY <1>6, <1>7, <1>8, <1>9, <1>10 DEF TableInv

-----------------------------------------------------------------------------
LEMMA InitInv == TableInit => TableInv /\ OwnInv
<1> SUFFICES ASSUME TableInit PROVE TableInv /\ OwnInv
  OBVIOUS
<1>1. /\ container = [v \in VMs |-> "gone"] /\ parked = << >> /\ dying = {} /\ table = << >>
      /\ release = [x \in Releasers |-> NoRelease] /\ caller = [c \in Callers |-> Idle]
  BY DEF TableInit, VMInit
<1>2. Idle \in CallerRec /\ Idle.pc = "idle"
  BY DEF CallerRec, PCs, Idle, CallerAt
<1>3. NoRelease \in ReleaseRec /\ NoRelease.vm = NoVM /\ NoRelease.step = "idle"
  BY DEF ReleaseRec, NoRelease
<1>4. Callers \subseteq Releasers
  BY TableAssumption
<1>5. Pool = {} /\ Rel = {} /\ Els(table) = {} /\ Tab = {} /\ Up = {}
  BY <1>1, <1>3 DEF Pool, Els, Rel, Held, Tab, VMsOf, Up
<1>6. /\ caller \in [Callers -> CallerRec] /\ (\A c \in Callers : caller[c].pc = "idle")
      /\ release \in [Releasers -> ReleaseRec]
      /\ \A x \in Releasers : release[x].vm = NoVM /\ release[x].step = "idle"
  BY <1>1, <1>2, <1>3
<1>7. Boots = {} /\ Growing = {} /\ Boot = {}
  BY <1>6 DEF Boots, Growing, Boot
<1>8. TableTypes
  BY <1>1, <1>4, <1>6, <1>7, EmptySeq DEF TableTypes
<1>9. EntriesKept
  BY <1>1, <1>5, EmptySeq DEF EntriesKept, Distinct, Once
<1>10. BootsKept
  BY <1>6, <1>7 DEF BootsKept, Booting
<1>11. PlacesKept
  <2>1. VMBooks
    BY <1>1, <1>5, <1>6, EmptySeq DEF VMBooks, Unique, Once
  <2> QED
    BY <1>5, <1>7, <2>1 DEF PlacesKept, Outside
<1>12. Len(table) = 0 /\ Cardinality(Growing) = 0
  BY <1>1, <1>7, EmptySeq, FS_EmptySet
<1>13. OwnInv
  BY <1>5, <1>6 DEF OwnInv, Covered, Booting
<1> QED
  <2>1. CASE Callers # {}
    <3>1. MaxAttachments \in Nat \ {0} /\ Cardinality(Callers) \in Nat
      BY CallersCount, TableAssumption
    <3> QED
      BY <1>8, <1>9, <1>10, <1>11, <1>12, <1>13, <3>1 DEF TableInv, CapKept
  <2>2. CASE Callers = {}
    <3>1. Cardinality(Callers) = 0 /\ MaxAttachments \in Nat \ {0}
      BY <2>2, FS_EmptySet, TableAssumption
    <3> QED
      BY <1>8, <1>9, <1>10, <1>11, <1>12, <1>13, <3>1 DEF TableInv, CapKept
  <2> QED
    BY <2>1, <2>2

LEMMA StepInv ==
  ASSUME TableInv, [TableNext]_tableVars
  PROVE  TableInv' /\ (OwnInv /\ OwnIds => OwnInv')
<1>1. ASSUME NEW c \in Callers, CallerAdvances(c) PROVE TableInv' /\ (OwnInv /\ OwnIds => OwnInv')
  <2>1. CASE Cleared(c)
    BY <2>1, ClearedKeeps
  <2>2. CASE Reuse(c)
    BY <2>2, ReuseKeeps
  <2>3. CASE EvictStale(c)
    BY <2>3, EvictStaleKeeps
  <2>4. CASE Discarded(c)
    BY <2>4, DiscardedKeeps
  <2>5. CASE BootAnew(c) \/ Evicted(c)
    BY <2>5, BootAnewKeeps
  <2>6. CASE Booted(c)
    BY <2>6, BootedKeeps
  <2>7. CASE BootFails(c) \/ Returned(c)
    BY <2>7, RejectedKeeps
  <2>8. CASE Connected(c)
    BY <2>8, ConnectedKeeps
  <2>9. CASE ConnectFails(c)
    BY <2>9, ConnectFailsKeeps
  <2> QED
    BY <1>1, <2>1, <2>2, <2>3, <2>4, <2>5, <2>6, <2>7, <2>8, <2>9 DEF CallerAdvances
<1>2. ASSUME NEW c \in Callers, Acquire(c) PROVE TableInv' /\ (OwnInv /\ OwnIds => OwnInv')
  BY <1>2, AcquireKeeps
<1>3. ASSUME NEW c \in Callers, DestroyById(c) PROVE TableInv' /\ (OwnInv /\ OwnIds => OwnInv')
  BY <1>3, DestroyKeeps
<1>4. ASSUME NEW c \in Callers, Release(c) PROVE TableInv' /\ (OwnInv /\ OwnIds => OwnInv')
  BY <1>4, ReleaseKeeps
<1>5. CASE SweepIdle \/ Shutdown
  BY <1>5, TimersKeep
<1>6. CASE PoolStep
  BY <1>6, PoolStepKeeps
<1>7. CASE UNCHANGED tableVars
  <2>1. UNCHANGED vmVars /\ table' = table /\ caller' = caller
    BY <1>7 DEF tableVars, vmVars
  <2>2. Pool' = Pool /\ Rel' = Rel /\ Up' = Up /\ dying' = dying /\ (VMBooks => VMBooks') /\ release' = release
    BY <2>1, SameVMs DEF vmVars
  <2>3. /\ Boots' = Boots /\ Boot' = Boot /\ Growing' = Growing /\ BeingDiscarded' = BeingDiscarded
        /\ Tab' = Tab /\ Els(table') = Els(table) /\ \A k : Working(k)' = Working(k)
    BY <2>1 DEF Boots, Boot, Growing, Working, BeingDiscarded, Tab, VMsOf, Els
  <2>4. TableTypes' /\ EntriesKept' /\ BootsKept'
    BY <2>1, <2>2, <2>3 DEF TableInv, TableTypes, EntriesKept, BootsKept
  <2>5. CapKept' /\ PlacesKept'
    BY <2>1, <2>2, <2>3 DEF TableInv, CapKept, PlacesKept
  <2>6. OwnInv => OwnInv'
    BY <2>1, <2>2, <2>3 DEF OwnInv
  <2> QED
    BY <2>4, <2>5, <2>6 DEF TableInv
<1> QED
  BY <1>1, <1>2, <1>3, <1>4, <1>5, <1>6, <1>7 DEF TableNext

(* Every state of the table keeps its books.                                 *)
THEOREM TableInvariant == TableSpec => []TableInv
<1>1. TableInit => TableInv
  BY InitInv
<1>2. TableInv /\ [TableNext]_tableVars => TableInv'
  BY StepInv
<1> QED
  BY <1>1, <1>2, PTL DEF TableSpec

-----------------------------------------------------------------------------
(* What a member of Owners(v) is.                                            *)
LEMMA OwnerForm ==
  ASSUME NEW v, NEW p
  PROVE  p \in Owners(v) <=>
           \/ \E n \in {n \in DOMAIN table : table[n].vm = v} : p = <<"table", n>>
           \/ \E n \in {n \in DOMAIN parked : parked[n] = v} : p = <<"pool", n>>
           \/ \E x \in {x \in Releasers : release[x].vm = v} : p = <<"release", x>>
           \/ \E c \in {c \in Callers : caller[c].pc = "connecting" /\ caller[c].vm = v} : p = <<"boot", c>>
           \/ \E d \in dying \cap {v} : p = <<"dying", d>>
<1> DEFINE t == {n \in DOMAIN table : table[n].vm = v}
           q == {n \in DOMAIN parked : parked[n] = v}
           r == {x \in Releasers : release[x].vm = v}
           b == {c \in Callers : caller[c].pc = "connecting" /\ caller[c].vm = v}
           d == dying \cap {v}
<1>1. p \in Owners(v) <=> \/ p \in {"table"} \X t \/ p \in {"pool"} \X q \/ p \in {"release"} \X r
                          \/ p \in {"boot"} \X b \/ p \in {"dying"} \X d
  BY DEF Owners
<1> HIDE DEF t, q, r, b, d
<1>2. /\ p \in {"table"} \X t <=> \E n \in t : p = <<"table", n>>
      /\ p \in {"pool"} \X q <=> \E n \in q : p = <<"pool", n>>
      /\ p \in {"release"} \X r <=> \E x \in r : p = <<"release", x>>
      /\ p \in {"boot"} \X b <=> \E c \in b : p = <<"boot", c>>
      /\ p \in {"dying"} \X d <=> \E e \in d : p = <<"dying", e>>
  BY PairForm
<1> QED
  BY <1>1, <1>2 DEF t, q, r, b, d

(* The invariant gives what the runs check.                                  *)
LEMMA InvHolds == TableInv => TableKept
<1> SUFFICES ASSUME TableInv PROVE TableKept
  OBVIOUS
<1>1. RefsExact
  BY TabHolds DEF RefsExact, TableInv, EntriesKept, Working
<1>2. TableTypeOK
  BY DEF TableTypeOK, VMTypeOK, TableInv, TableTypes, CallerRec, PlacesKept, VMBooks, ReleaseRec
<1>3. SingleFlight
  <2>1. ASSUME NEW i \in Ids PROVE Cardinality(Booters(i)) <= 1
    <3>1. \A c, d \in Booters(i) : c = d
      BY DEF Booters, TableInv, BootsKept
    <3> QED
      BY <3>1, AtMostOne
  <2> QED
    BY <2>1 DEF SingleFlight
<1>4. SoftCap
  <2>1. /\ Len(table) + Cardinality(Growing) <= MaxAttachments + Cardinality(Callers) - 1
        /\ Len(table) \in Nat /\ MaxAttachments \in Nat
    BY LenProperties, TableAssumption DEF TableInv, CapKept, TableTypes
  <2>2. Cardinality(Growing) \in Nat /\ Cardinality(Callers) \in Nat
    BY CallersCount DEF Growing
  <2> QED
    BY <2>1, <2>2 DEF SoftCap
<1>5. SoleOwner
  <2> SUFFICES ASSUME NEW v \in VMs PROVE Cardinality(Owners(v)) <= 1
    BY DEF SoleOwner
  <2>1. v # NoVM
    BY VMsAssumption
(* Where the VM is decides which places can have it ...                      *)
  <2>2. /\ \A n \in DOMAIN table : table[n].vm = v => v \in Tab
        /\ \A n \in DOMAIN parked : parked[n] = v => v \in Pool
        /\ \A x \in Releasers : release[x].vm = v => v \in Rel
        /\ \A c \in Callers : caller[c].pc = "connecting" /\ caller[c].vm = v => v \in Boot
    BY <2>1 DEF Tab, VMsOf, Els, Pool, Rel, Held, Boot, Boots
  <2>3. /\ v \in Tab => v \notin Pool /\ v \notin Rel /\ v \notin Boot /\ v \notin dying
        /\ v \in Pool => v \notin Rel /\ v \notin Boot /\ v \notin dying
        /\ v \in Rel => v \notin Boot /\ v \notin dying
        /\ v \in Boot => v \notin dying
    BY DEF TableInv, PlacesKept, Outside, VMBooks
(* ... and no two places of one sort have it.                                *)
  <2>4. /\ \A m, n \in DOMAIN table : table[m].vm = v /\ table[n].vm = v => m = n
        /\ \A m, n \in DOMAIN parked : parked[m] = v /\ parked[n] = v => m = n
        /\ \A x, y \in Releasers : release[x].vm = v /\ release[y].vm = v => x = y
        /\ \A c, d \in Callers : caller[c].pc = "connecting" /\ caller[c].vm = v
                                 /\ caller[d].pc = "connecting" /\ caller[d].vm = v => c = d
    <3>1. \A m, n \in DOMAIN table : table[m].vm = v /\ table[n].vm = v => m = n
      BY DEF TableInv, EntriesKept, Distinct, Once, Els
    <3>2. \A m, n \in DOMAIN parked : parked[m] = v /\ parked[n] = v => m = n
      BY DEF TableInv, PlacesKept, VMBooks, Once
    <3>3. \A x, y \in Releasers : release[x].vm = v /\ release[y].vm = v => x = y
      BY <2>1 DEF TableInv, PlacesKept, VMBooks, Unique
    <3>4. \A c, d \in Callers : caller[c].pc = "connecting" /\ caller[c].vm = v
                                /\ caller[d].pc = "connecting" /\ caller[d].vm = v => c = d
      BY DEF TableInv, BootsKept, Boots
    <3> QED
      BY <3>1, <3>2, <3>3, <3>4
  <2>5. \A p, q \in Owners(v) : p = q
    <3>1. SUFFICES ASSUME NEW p \in Owners(v), NEW q \in Owners(v) PROVE p = q
      OBVIOUS
    <3>2. \/ v \in Tab /\ \E n \in {n \in DOMAIN table : table[n].vm = v} : p = <<"table", n>>
          \/ v \in Pool /\ \E n \in {n \in DOMAIN parked : parked[n] = v} : p = <<"pool", n>>
          \/ v \in Rel /\ \E x \in {x \in Releasers : release[x].vm = v} : p = <<"release", x>>
          \/ v \in Boot /\ \E c \in {c \in Callers : caller[c].pc = "connecting" /\ caller[c].vm = v} : p = <<"boot", c>>
          \/ v \in dying /\ p = <<"dying", v>>
      BY <2>2, OwnerForm
    <3>3. \/ v \in Tab /\ \E n \in {n \in DOMAIN table : table[n].vm = v} : q = <<"table", n>>
          \/ v \in Pool /\ \E n \in {n \in DOMAIN parked : parked[n] = v} : q = <<"pool", n>>
          \/ v \in Rel /\ \E x \in {x \in Releasers : release[x].vm = v} : q = <<"release", x>>
          \/ v \in Boot /\ \E c \in {c \in Callers : caller[c].pc = "connecting" /\ caller[c].vm = v} : q = <<"boot", c>>
          \/ v \in dying /\ q = <<"dying", v>>
      BY <2>2, OwnerForm
    <3>4. CASE v \in Tab
      BY <2>3, <2>4, <3>2, <3>3, <3>4
    <3>5. CASE v \in Pool
      BY <2>3, <2>4, <3>2, <3>3, <3>5
    <3>6. CASE v \in Rel
      BY <2>3, <2>4, <3>2, <3>3, <3>6
    <3>7. CASE v \in Boot
      BY <2>3, <2>4, <3>2, <3>3, <3>7
    <3>8. CASE v \in dying
      BY <2>3, <3>2, <3>3, <3>8
    <3> QED
      BY <3>2, <3>4, <3>5, <3>6, <3>7, <3>8
  <2> QED
    BY <2>5, AtMostOne
<1> QED
  BY <1>1, <1>2, <1>3, <1>4, <1>5 DEF TableKept, OneBootOneOwner

(* A container that runs is somebody's.                                      *)
LEMMA NoneLost == TableInv /\ OwnInv => NoOrphan
<1> SUFFICES ASSUME TableInv, OwnInv, NEW v \in VMs, container[v] = "up", v \notin BeingDiscarded
             PROVE  \E p : p \in Owners(v)
  BY DEF NoOrphan
<1>1. v \in Boot \/ v \in Tab \/ v \in Pool \/ v \in Rel \/ v \in dying
  BY DEF OwnInv, Covered, Up
<1>2. CASE v \in Boot
  <2>1. PICK c \in Callers : caller[c].pc = "connecting" /\ caller[c].vm = v
    BY <1>2 DEF Boot, Boots
  <2>2. <<"boot", c>> \in Owners(v)
    BY <2>1, OwnerForm
  <2> QED
    BY <2>2
<1>3. CASE v \in Tab
  <2>1. PICK n \in DOMAIN table : table[n].vm = v
    BY <1>3 DEF Tab, VMsOf, Els
  <2>2. <<"table", n>> \in Owners(v)
    BY <2>1, OwnerForm
  <2> QED
    BY <2>2
<1>4. CASE v \in Pool
  <2>1. PICK n \in DOMAIN parked : parked[n] = v
    BY <1>4 DEF Pool, Els
  <2>2. <<"pool", n>> \in Owners(v)
    BY <2>1, OwnerForm
  <2> QED
    BY <2>2
<1>5. CASE v \in Rel
  <2>1. PICK x \in Releasers : release[x].vm = v
    BY <1>5 DEF Rel, Held
  <2>2. <<"release", x>> \in Owners(v)
    BY <2>1, OwnerForm
  <2> QED
    BY <2>2
<1>6. CASE v \in dying
  <2>1. <<"dying", v>> \in Owners(v)
    BY <1>6, OwnerForm
  <2> QED
    BY <2>1
<1> QED
  BY <1>1, <1>2, <1>3, <1>4, <1>5, <1>6

(* For any callers, ids and caps: an entry counts who works in it, an id has *)
(* one boot, a VM one owner, and only boots under way overflow the cap.      *)
THEOREM TableIsKept == TableSpec => []TableKept
<1>1. TableSpec => []TableInv
  BY TableInvariant
<1>2. TableInv => TableKept
  BY InvHolds
<1> QED
  BY <1>1, <1>2, PTL

(* When each id has one caller, as a session that sends a turn at a time,    *)
(* every running container is somebody's.                                    *)
THEOREM NoVMOrphaned == ASSUME OwnIds PROVE TableSpec => []NoOrphan
<1>1. TableInit => TableInv /\ OwnInv
  BY InitInv
<1>2. TableInv /\ OwnInv /\ [TableNext]_tableVars => TableInv' /\ OwnInv'
  BY StepInv
<1>3. TableInv /\ OwnInv => NoOrphan
  BY NoneLost
<1> QED
  BY <1>1, <1>2, <1>3, PTL DEF TableSpec
=============================================================================
