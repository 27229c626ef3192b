-------------------------- MODULE SandboxVMsProofs ---------------------------
(* What the theorems about the users of the warm pool share: what sequences *)
(* and tables of VMs hold, and what the pool's own steps do to its books,   *)
(* whoever else has VMs.                                                    *)
EXTENDS SandboxVMs, TLAPS, FiniteSetTheorems, SequenceTheorems

ReleaseRec  == [step : {"idle", "remove", "run", "destroy"}, vm : VMs \cup {NoVM}]

(* What a table of records with a VM holds, and a sequence of VMs.          *)
Held(f, I)   == {f[i].vm : i \in I} \ {NoVM}
Unique(f, I) == \A i, j \in I : f[i].vm = f[j].vm /\ f[i].vm # NoVM => i = j
Els(s)       == {s[n] : n \in DOMAIN s}
Once(s)      == \A m, n \in DOMAIN s : s[m] = s[n] => m = n

(* Where the pool has VMs, beside those it destroys; the containers that run.*)
Pool == Els(parked)
Rel  == Held(release, Releasers)
Up   == {v \in VMs : container[v] = "up"}

(* The books of the pool: a VM is parked once, in one release, or dying.    *)
VMBooks ==
  /\ container \in [VMs -> {"up", "gone"}] /\ parked \in Seq(VMs) /\ dying \in SUBSET VMs
  /\ release \in [Releasers -> ReleaseRec]
  /\ \A x \in Releasers : release[x].vm # NoVM <=> release[x].step # "idle"
  /\ Unique(release, Releasers) /\ Once(parked)
  /\ Pool \cap Rel = {} /\ Pool \cap dying = {} /\ Rel \cap dying = {}

(* VMs others have, and a container that runs.                              *)
Outside(us, pool, rel, dead) == us \cap pool = {} /\ us \cap rel = {} /\ us \cap dead = {}
Covered(up, us, pool, rel, dead) == up \subseteq us \cup pool \cup rel \cup dead

-----------------------------------------------------------------------------
(* What a table holds after one of its entries has changed.                 *)
LEMMA HeldExcept ==
  ASSUME NEW f, NEW g, NEW I, NEW i \in I, Unique(f, I), \A j \in I : j # i => g[j].vm = f[j].vm
  PROVE  /\ Held(g, I) = (Held(f, I) \ {f[i].vm}) \cup ({g[i].vm} \ {NoVM})
         /\ g[i].vm = NoVM \/ g[i].vm \notin Held(f, I) \/ g[i].vm = f[i].vm => Unique(g, I)
<1>1. ASSUME NEW v PROVE v \in Held(g, I) <=> v \in (Held(f, I) \ {f[i].vm}) \cup ({g[i].vm} \ {NoVM})
  BY DEF Held, Unique
<1>2. ASSUME g[i].vm = NoVM \/ g[i].vm \notin Held(f, I) \/ g[i].vm = f[i].vm PROVE Unique(g, I)
  BY <1>2 DEF Held, Unique
<1> QED
  BY <1>1, <1>2

(* The elements of a sequence with one more.                                *)
LEMMA ElsAppend ==
  ASSUME NEW S, NEW s \in Seq(S), NEW v \in S
  PROVE  /\ Append(s, v) \in Seq(S) /\ Els(Append(s, v)) = Els(s) \cup {v}
         /\ Once(s) /\ v \notin Els(s) => Once(Append(s, v))
<1>1. /\ Append(s, v) \in Seq(S) /\ Len(s) \in Nat
      /\ DOMAIN s = 1..Len(s) /\ DOMAIN Append(s, v) = 1..Len(s) + 1
      /\ \A n \in 1..Len(s) : Append(s, v)[n] = s[n]
      /\ Append(s, v)[Len(s) + 1] = v
  BY AppendProperties, LenProperties
<1>2. ASSUME NEW w PROVE w \in Els(Append(s, v)) <=> w \in Els(s) \cup {v}
  BY <1>1 DEF Els
<1>3. ASSUME Once(s), v \notin Els(s) PROVE Once(Append(s, v))
  BY <1>1, <1>3 DEF Els, Once
<1> QED
  BY <1>1, <1>2, <1>3

(* Counting on from where a sequence is cut.                                *)
LEMMA Shift == \A a, b \in Int : (a + 1) + b - 1 = a + b
OBVIOUS

(* A sequence that continues another from place n on has the rest of its    *)
(* elements.                                                                *)
LEMMA CutOff ==
  ASSUME NEW L \in Nat, NEW n \in 1..L, NEW s, NEW r, DOMAIN s = 1..L, DOMAIN r = 1..L - n,
         \A k \in 1..L - n : r[k] = s[n + k], Once(s)
  PROVE  Once(r) /\ Els(r) = Els(s) \ {s[k] : k \in 1..n} /\ {s[k] : k \in 1..n} \subseteq Els(s)
<1>1. Once(r)
  <2>1. ASSUME NEW a \in 1..L - n, NEW b \in 1..L - n, r[a] = r[b] PROVE a = b
    <3>1. n + a \in DOMAIN s /\ n + b \in DOMAIN s
      OBVIOUS
    <3>2. n + a = n + b
      BY <2>1, <3>1 DEF Once
    <3> QED
      BY <3>2
  <2> QED
    BY <2>1 DEF Once
<1>2. ASSUME NEW w \in Els(r) PROVE w \in Els(s) \ {s[k] : k \in 1..n}
  <2>1. PICK m \in 1..L - n : w = s[n + m]
    BY DEF Els
  <2>2. n + m \in DOMAIN s /\ \A k \in 1..n : k \in DOMAIN s /\ k # n + m
    OBVIOUS
  <2> QED
    BY <2>1, <2>2 DEF Els, Once
<1>3. ASSUME NEW w \in Els(s) \ {s[k] : k \in 1..n} PROVE w \in Els(r)
  <2>1. PICK m \in 1..L : w = s[m]
    BY DEF Els
  <2>2. m - n \in DOMAIN r /\ n + (m - n) = m
    BY <2>1
  <2> QED
    BY <2>1, <2>2 DEF Els
<1>4. {s[k] : k \in 1..n} \subseteq Els(s)
  BY DEF Els
<1> QED
  BY <1>1, <1>2, <1>3, <1>4

(* SubSeq continues its sequence.                                           *)
LEMMA Cut ==
  ASSUME NEW S, NEW s \in Seq(S), NEW n \in 1..Len(s)
  PROVE  LET r == SubSeq(s, n + 1, Len(s))
         IN  r \in Seq(S) /\ DOMAIN r = 1..Len(s) - n /\ \A k \in 1..Len(s) - n : r[k] = s[n + k]
<1> DEFINE L == Len(s)
           r == SubSeq(s, n + 1, L)
<1>1. L \in Nat /\ n \in 1..L
  BY LenProperties
<1>2. \A k \in n + 1 .. L : s[k] \in S
  BY LenProperties, ElementOfSeq
<1> HIDE DEF L
<1>3. /\ r \in Seq(S) /\ Len(r) = IF n + 1 <= L THEN L - (n + 1) + 1 ELSE 0
      /\ \A k \in 1..L - (n + 1) + 1 : r[k] = s[(n + 1) + k - 1]
  BY <1>1, <1>2, SubSeqProperties
<1>4. DOMAIN r = 1..Len(r)
  BY <1>3, LenProperties
<1> HIDE DEF r
<1>5. L - (n + 1) + 1 = L - n /\ (IF n + 1 <= L THEN L - (n + 1) + 1 ELSE 0) = L - n
  BY <1>1
<1>6. ASSUME NEW k \in 1..L - n PROVE r[k] = s[n + k]
  <2>1. (n + 1) + k - 1 = n + k
    BY <1>1, Shift
  <2> QED
    BY <1>3, <1>5, <2>1
<1>7. r \in Seq(S) /\ DOMAIN r = 1..L - n /\ \A k \in 1..L - n : r[k] = s[n + k]
  BY <1>3, <1>4, <1>5, <1>6
<1> QED
  BY <1>7 DEF r, L

(* What is left when a front is cut off.                                    *)
LEMMA ElsCut ==
  ASSUME NEW S, NEW s \in Seq(S), Once(s), NEW n \in 1..Len(s)
  PROVE  /\ SubSeq(s, n + 1, Len(s)) \in Seq(S) /\ Once(SubSeq(s, n + 1, Len(s)))
         /\ Els(SubSeq(s, n + 1, Len(s))) = Els(s) \ {s[k] : k \in 1..n}
         /\ {s[k] : k \in 1..n} \subseteq Els(s)
<1> DEFINE L == Len(s)
           r == SubSeq(s, n + 1, L)
<1>1. L \in Nat /\ n \in 1..L /\ DOMAIN s = 1..L
  BY LenProperties
<1>2. r \in Seq(S) /\ DOMAIN r = 1..L - n /\ \A k \in 1..L - n : r[k] = s[n + k]
  BY Cut
<1> HIDE DEF L, r
<1>3. Once(r) /\ Els(r) = Els(s) \ {s[k] : k \in 1..n} /\ {s[k] : k \in 1..n} \subseteq Els(s)
  BY <1>1, <1>2, CutOff
<1> QED
  BY <1>2, <1>3 DEF L, r

(* What is left behind the head.                                            *)
LEMMA ElsTail ==
  ASSUME NEW S, NEW s \in Seq(S), s # << >>, Once(s)
  PROVE  /\ Head(s) \in Els(s) /\ Head(s) \in S /\ Tail(s) \in Seq(S)
         /\ Els(Tail(s)) = Els(s) \ {Head(s)} /\ Once(Tail(s))
<1>1. Len(s) \in Nat \ {0} /\ Head(s) = s[1] /\ Head(s) \in S
  BY EmptySeq, LenProperties, HeadTailProperties
<1>2. 1 \in 1..Len(s) /\ {s[k] : k \in 1..1} = {s[1]}
  BY <1>1
<1>3. Tail(s) = SubSeq(s, 1 + 1, Len(s))
  BY TailIsSubSeq
<1>4. \A n \in 1..Len(s) :
        /\ SubSeq(s, n + 1, Len(s)) \in Seq(S) /\ Once(SubSeq(s, n + 1, Len(s)))
        /\ Els(SubSeq(s, n + 1, Len(s))) = Els(s) \ {s[k] : k \in 1..n}
        /\ {s[k] : k \in 1..n} \subseteq Els(s)
  BY ElsCut
<1> QED
  BY <1>1, <1>2, <1>3, <1>4

(* The elements of two sequences in a row.                                  *)
LEMMA ElsConcat ==
  ASSUME NEW S, NEW s \in Seq(S), NEW t \in Seq(S)
  PROVE  /\ s \o t \in Seq(S) /\ Els(s \o t) = Els(s) \cup Els(t)
         /\ Once(s) /\ Once(t) /\ Els(s) \cap Els(t) = {} => Once(s \o t)
<1> DEFINE r == s \o t
<1>1. /\ r \in Seq(S) /\ Len(r) = Len(s) + Len(t) /\ Len(s) \in Nat /\ Len(t) \in Nat
      /\ DOMAIN s = 1..Len(s) /\ DOMAIN t = 1..Len(t) /\ DOMAIN r = 1..Len(s) + Len(t)
      /\ \A n \in 1..Len(s) : r[n] = s[n]
      /\ \A n \in 1..Len(s) + Len(t) : n > Len(s) => r[n] = t[n - Len(s)]
  <2>1. /\ r \in Seq(S) /\ Len(r) = Len(s) + Len(t)
        /\ \A n \in 1..Len(s) + Len(t) : r[n] = IF n <= Len(s) THEN s[n] ELSE t[n - Len(s)]
    BY ConcatProperties
  <2>2. Len(s) \in Nat /\ Len(t) \in Nat /\ DOMAIN s = 1..Len(s) /\ DOMAIN t = 1..Len(t) /\ DOMAIN r = 1..Len(r)
    BY <2>1, LenProperties
  <2> HIDE DEF r
  <2> QED
    BY <2>1, <2>2
<1> HIDE DEF r
<1>2. ASSUME NEW w PROVE w \in Els(r) <=> w \in Els(s) \cup Els(t)
  <2>1. ASSUME w \in Els(r) PROVE w \in Els(s) \cup Els(t)
    <3>1. PICK n \in 1..Len(s) + Len(t) : w = r[n]
      BY <1>1, <2>1 DEF Els
    <3>2. CASE n > Len(s)
      <4>1. n - Len(s) \in 1..Len(t) /\ w = t[n - Len(s)]
        BY <1>1, <3>1, <3>2
      <4> QED
        BY <1>1, <4>1 DEF Els
    <3>3. CASE ~(n > Len(s))
      BY <1>1, <3>1, <3>3 DEF Els
    <3> QED
      BY <3>2, <3>3
  <2>2. ASSUME w \in Els(s) PROVE w \in Els(r)
    BY <1>1, <2>2 DEF Els
  <2>3. ASSUME w \in Els(t) PROVE w \in Els(r)
    <3>1. PICK n \in 1..Len(t) : w = t[n]
      BY <1>1, <2>3 DEF Els
    <3>2. n + Len(s) \in 1..Len(s) + Len(t) /\ n + Len(s) > Len(s) /\ (n + Len(s)) - Len(s) = n
      BY <1>1, <3>1
    <3>3. r[n + Len(s)] = w
      BY <1>1, <3>1, <3>2
    <3> QED
      BY <1>1, <3>2, <3>3 DEF Els
  <2> QED
    BY <2>1, <2>2, <2>3
<1>3. ASSUME Once(s), Once(t), Els(s) \cap Els(t) = {} PROVE Once(r)
  <2>1. SUFFICES ASSUME NEW m \in 1..Len(s) + Len(t), NEW n \in 1..Len(s) + Len(t), r[m] = r[n]
                 PROVE  m = n
    BY <1>1 DEF Once
  <2>2. \A k \in 1..Len(s) + Len(t) :
          IF k > Len(s) THEN k - Len(s) \in DOMAIN t /\ r[k] = t[k - Len(s)] /\ r[k] \in Els(t)
                        ELSE k \in DOMAIN s /\ r[k] = s[k] /\ r[k] \in Els(s)
    <3>1. SUFFICES ASSUME NEW k \in 1..Len(s) + Len(t)
                   PROVE  IF k > Len(s) THEN k - Len(s) \in DOMAIN t /\ r[k] = t[k - Len(s)] /\ r[k] \in Els(t)
                                        ELSE k \in DOMAIN s /\ r[k] = s[k] /\ r[k] \in Els(s)
      OBVIOUS
    <3>2. CASE k > Len(s)
      <4>1. k - Len(s) \in DOMAIN t /\ r[k] = t[k - Len(s)]
        BY <1>1, <3>2
      <4> QED
        BY <3>2, <4>1 DEF Els
    <3>3. CASE ~(k > Len(s))
      <4>1. k \in DOMAIN s /\ r[k] = s[k]
        BY <1>1, <3>3
      <4> QED
        BY <3>3, <4>1 DEF Els
    <3> QED
      BY <3>2, <3>3
  <2>3. CASE m > Len(s) /\ n > Len(s)
    <3>1. m - Len(s) = n - Len(s)
      BY <1>3, <2>1, <2>2, <2>3 DEF Once
    <3> QED
      BY <1>1, <3>1
  <2>4. CASE ~(m > Len(s)) /\ ~(n > Len(s))
    BY <1>3, <2>1, <2>2, <2>4 DEF Once
  <2>5. CASE (m > Len(s)) # (n > Len(s))
    BY <1>3, <2>1, <2>2, <2>5
  <2> QED
    BY <2>3, <2>4, <2>5
<1> QED
  BY <1>1, <1>2, <1>3 DEF r

(* A set without two members has at most one.                               *)
LEMMA AtMostOne ==
  ASSUME NEW S, \A x, y \in S : x = y
  PROVE  Cardinality(S) <= 1
<1>1. CASE S = {}
  BY <1>1, FS_EmptySet
<1>2. CASE S # {}
  <2>1. PICK x \in S : TRUE
    BY <1>2
  <2>2. S = {x}
    BY <2>1
  <2> QED
    BY <2>2, FS_Singleton
<1> QED
  BY <1>1, <1>2

(* The members of a product with a fixed first part.                        *)
LEMMA PairForm ==
  ASSUME NEW k, NEW S, NEW p
  PROVE  p \in {k} \X S <=> \E x \in S : p = <<k, x>>
OBVIOUS

-----------------------------------------------------------------------------
(* Who is in the books is a VM.                                             *)
LEMMA BooksHold ==
  ASSUME VMBooks
  PROVE  /\ Pool \subseteq VMs /\ Rel \subseteq VMs /\ dying \subseteq VMs /\ Up \subseteq VMs
         /\ NoVM \notin VMs
         /\ \A x \in Releasers : release[x].vm \in Rel \cup {NoVM}
         /\ Parked = Pool /\ Releasing = Rel
<1>1. NoVM \notin VMs
  BY VMsAssumption
<1>2. Pool \subseteq VMs
  BY LenProperties, ElementOfSeq DEF VMBooks, Pool, Els
<1>3. /\ \A x \in Releasers : release[x].vm \in VMs \cup {NoVM}
      /\ dying \subseteq VMs
  BY DEF VMBooks, ReleaseRec
<1> QED
  BY <1>1, <1>2, <1>3 DEF Rel, Up, Held, Parked, Releasing, Pool, Els

(* A release moves on: what it has now, and what the others have.           *)
LEMMA ReleaseMoves ==
  ASSUME VMBooks, NEW x \in Releasers, NEW w \in ReleaseRec, release' = [release EXCEPT ![x] = w],
         w.vm = NoVM \/ w.vm \notin Rel \/ w.vm = release[x].vm
  PROVE  /\ release' \in [Releasers -> ReleaseRec] /\ Unique(release', Releasers)
         /\ Rel' = (Rel \ {release[x].vm}) \cup ({w.vm} \ {NoVM})
         /\ release'[x] = w /\ \A y \in Releasers \ {x} : release'[y] = release[y]
<1>1. release \in [Releasers -> ReleaseRec] /\ Unique(release, Releasers)
  BY DEF VMBooks
<1>2. /\ release' \in [Releasers -> ReleaseRec]
      /\ release'[x] = w /\ \A y \in Releasers : y # x => release'[y] = release[y]
  BY <1>1
<1> DEFINE f == release
           g == release'
<1>3. Unique(f, Releasers) /\ \A j \in Releasers : j # x => g[j].vm = f[j].vm
  BY <1>1, <1>2
<1> HIDE DEF f, g
<1>4. /\ Held(g, Releasers) = (Held(f, Releasers) \ {f[x].vm}) \cup ({g[x].vm} \ {NoVM})
      /\ g[x].vm = NoVM \/ g[x].vm \notin Held(f, Releasers) \/ g[x].vm = f[x].vm => Unique(g, Releasers)
  BY <1>3, HeldExcept
<1>5. Rel' = Held(g, Releasers) /\ Rel = Held(f, Releasers) /\ g[x].vm = w.vm /\ f[x].vm = release[x].vm
  BY <1>2 DEF Rel, f, g
<1>6. Unique(g, Releasers)
  BY <1>4, <1>5
<1> QED
  BY <1>2, <1>4, <1>5, <1>6 DEF g

(* Releases begin, of VMs that nobody releases.                             *)
LEMMA StartedBooks ==
  ASSUME VMBooks, NEW I \in SUBSET Releasers, NEW job \in [I -> VMs], release' = Started(job),
         \A x, y \in I : job[x] = job[y] => x = y,
         \A x \in I : release[x].vm = NoVM /\ job[x] \notin Rel
  PROVE  /\ release' \in [Releasers -> ReleaseRec] /\ Unique(release', Releasers)
         /\ \A x \in Releasers : release'[x].vm # NoVM <=> release'[x].step # "idle"
         /\ Rel' = Rel \cup {job[x] : x \in I}
         /\ \A x \in Releasers \ I : release'[x] = release[x]
<1>1. /\ release \in [Releasers -> ReleaseRec] /\ Unique(release, Releasers) /\ NoVM \notin VMs
      /\ \A x \in Releasers : release[x].vm # NoVM <=> release[x].step # "idle"
      /\ \A x \in Releasers : release[x].vm \in Rel \cup {NoVM}
  BY BooksHold DEF VMBooks
<1>2. release' = [x \in Releasers |-> IF x \in I THEN [step |-> "remove", vm |-> job[x]] ELSE release[x]]
  BY DEF Started
<1>3. /\ \A x \in I : release'[x] = [step |-> "remove", vm |-> job[x]]
      /\ \A x \in Releasers \ I : release'[x] = release[x]
  BY <1>2
<1>4. ASSUME NEW x \in I
      PROVE  release'[x].vm = job[x] /\ release'[x].step = "remove" /\ release'[x] \in ReleaseRec
  <2>1. release'[x] = [step |-> "remove", vm |-> job[x]] /\ job[x] \in VMs
    BY <1>3
  <2> QED
    BY <2>1 DEF ReleaseRec
<1>5. release' \in [Releasers -> ReleaseRec]
  <2> DEFINE f(x) == IF x \in I THEN [step |-> "remove", vm |-> job[x]] ELSE release[x]
  <2>1. \A x \in Releasers : f(x) \in ReleaseRec
    BY <1>1, <1>3, <1>4
  <2>2. release' = [x \in Releasers |-> f(x)]
    BY <1>2
  <2> HIDE DEF f
  <2> QED
    BY <2>1, <2>2
<1>6. Unique(release', Releasers)
  BY <1>1, <1>3, <1>4 DEF Unique
<1>7. Rel' = Rel \cup {job[x] : x \in I}
  BY <1>1, <1>3, <1>4 DEF Rel, Held
<1>8. \A x \in Releasers : release'[x].vm # NoVM <=> release'[x].step # "idle"
  BY <1>1, <1>3, <1>4
<1> QED
  BY <1>3, <1>5, <1>6, <1>7, <1>8

(* A container that starts, or goes.                                        *)
LEMMA ContainerMoves ==
  ASSUME VMBooks, NEW v \in VMs, NEW s \in {"up", "gone"}, container' = [container EXCEPT ![v] = s]
  PROVE  /\ container' \in [VMs -> {"up", "gone"}]
         /\ Up' = IF s = "up" THEN Up \cup {v} ELSE Up \ {v}
BY DEF VMBooks, Up

(* What a step keeps for those who have the VMs us: theirs and the pool's   *)
(* stay apart, a container that runs stays in the books, and a release that *)
(* is not under way does not begin.                                         *)
Kept(us) ==
  /\ VMBooks' /\ Outside(us, Pool', Rel', dying')
  /\ \A ws : Covered(Up, ws, Pool, Rel, dying) => Covered(Up', ws, Pool', Rel', dying')
  /\ \A y \in Releasers : release[y].vm = NoVM => release'[y].vm = NoVM

(* A release keeps its VM until it is parked or destroyed.                  *)
LEMMA ReleaseStepBooks ==
  ASSUME VMBooks, NEW us, Outside(us, Pool, Rel, dying), NEW x \in Releasers, ReleaseStep(x)
  PROVE  Kept(us)
<1> DEFINE v == release[x].vm
<1>1. /\ release \in [Releasers -> ReleaseRec] /\ UNCHANGED dying
      /\ release[x].step # "idle"
  BY DEF VMBooks, ReleaseStep, ResetRemove, ResetRun, ResetFails, ReleaseDestroys
<1>2. v # NoVM /\ v \in Rel /\ v \in VMs
  BY <1>1, BooksHold DEF VMBooks
<1>3. v \notin us /\ v \notin Pool /\ v \notin dying
  BY <1>2 DEF Outside, VMBooks
<1> HIDE DEF v
(* The VM stays with the release, whose container goes or not.              *)
<1>4. ASSUME NEW s \in {"run", "destroy"}, release' = [release EXCEPT ![x].step = s], parked' = parked,
             container' = container \/ container' = [container EXCEPT ![v] = "gone"]
                                    \/ container' = [container EXCEPT ![v] = "up"]
      PROVE  Kept(us)
  <2> DEFINE w == [release[x] EXCEPT !.step = s]
  <2>1. w \in ReleaseRec /\ w.vm = release[x].vm /\ w.step = s
    BY <1>1 DEF ReleaseRec
  <2>2. release' = [release EXCEPT ![x] = w]
    BY <1>1, <1>4
  <2> HIDE DEF w
  <2>3. /\ release' \in [Releasers -> ReleaseRec] /\ Unique(release', Releasers)
        /\ Rel' = (Rel \ {release[x].vm}) \cup ({w.vm} \ {NoVM})
        /\ release'[x] = w /\ \A y \in Releasers \ {x} : release'[y] = release[y]
    BY <2>1, <2>2, ReleaseMoves
  <2>4. Rel' = Rel /\ Pool' = Pool
    BY <1>2, <1>4, <2>1, <2>3 DEF v, Pool, Els
  <2>5. container' \in [VMs -> {"up", "gone"}] /\ Up' \subseteq Up \cup {v}
    BY <1>2, <1>4, ContainerMoves DEF VMBooks, Up
  <2>6. \A y \in Releasers : release[y].vm = NoVM => release'[y].vm = NoVM
    BY <1>2, <2>3 DEF v
  <2>7. VMBooks'
    BY <1>1, <1>2, <1>4, <2>1, <2>3, <2>4, <2>5 DEF VMBooks, v
  <2> QED
    BY <1>1, <1>2, <2>4, <2>5, <2>6, <2>7 DEF Kept, Outside, Covered
(* The release is over: its VM is parked, or gone.                          *)
<1>5. ASSUME release' = [release EXCEPT ![x] = NoRelease],
             \/ container' = [container EXCEPT ![v] = "up"] /\ parked' = Append(parked, v)
             \/ container' = [container EXCEPT ![v] = "gone"] /\ parked' = parked
      PROVE  Kept(us)
  <2>1. NoRelease \in ReleaseRec /\ NoRelease.vm = NoVM /\ NoRelease.step = "idle"
    BY DEF ReleaseRec, NoRelease
  <2>2. /\ release' \in [Releasers -> ReleaseRec] /\ Unique(release', Releasers)
        /\ Rel' = Rel \ {v}
        /\ release'[x] = NoRelease /\ \A y \in Releasers \ {x} : release'[y] = release[y]
    BY <1>5, <2>1, ReleaseMoves DEF v
  <2>3. \A y \in Releasers : release[y].vm = NoVM => release'[y].vm = NoVM
    BY <2>1, <2>2
  <2>4. \A y \in Releasers : release'[y].vm # NoVM <=> release'[y].step # "idle"
    BY <2>1, <2>2 DEF VMBooks
  <2>5. CASE container' = [container EXCEPT ![v] = "up"] /\ parked' = Append(parked, v)
    <3>1. container' \in [VMs -> {"up", "gone"}] /\ Up' = Up \cup {v}
      BY <1>2, <2>5, ContainerMoves
    <3>2. parked' \in Seq(VMs) /\ Els(parked') = Els(parked) \cup {v} /\ Once(parked')
      BY <1>2, <1>3, <2>5, ElsAppend DEF VMBooks, Pool
    <3>3. Pool' = Pool \cup {v}
      BY <3>2 DEF Pool
    <3>4. VMBooks'
      BY <1>1, <1>3, <2>2, <2>4, <3>1, <3>2, <3>3 DEF VMBooks
    <3> QED
      BY <1>1, <1>3, <2>2, <2>3, <3>1, <3>3, <3>4 DEF Kept, Outside, Covered
  <2>6. CASE container' = [container EXCEPT ![v] = "gone"] /\ parked' = parked
    <3>1. container' \in [VMs -> {"up", "gone"}] /\ Up' = Up \ {v}
      BY <1>2, <2>6, ContainerMoves
    <3>2. Pool' = Pool
      BY <2>6 DEF Pool, Els
    <3>3. VMBooks'
      BY <1>1, <2>2, <2>4, <2>6, <3>1, <3>2 DEF VMBooks
    <3> QED
      BY <1>1, <2>2, <2>3, <3>1, <3>2, <3>3 DEF Kept, Outside, Covered
  <2> QED
    BY <1>5, <2>5, <2>6
<1>6. CASE ResetRemove(x)
  BY <1>4, <1>6 DEF ResetRemove, v
<1>7. CASE ResetRun(x)
  BY <1>4, <1>5, <1>7 DEF ResetRun, v
<1>8. CASE ResetFails(x)
  BY <1>4, <1>8 DEF ResetFails, v
<1>9. CASE ReleaseDestroys(x)
  BY <1>5, <1>9 DEF ReleaseDestroys, v
<1> QED
  BY <1>6, <1>7, <1>8, <1>9 DEF ReleaseStep

(* VMs leave the pool to die, and die.                                      *)
LEMMA EvictionBooks ==
  ASSUME VMBooks, NEW us, Outside(us, Pool, Rel, dying),
         EvictIdle \/ PoolShutdown \/ (\E v \in VMs : Destroyed(v) \/ ContainerDies(v))
  PROVE  Kept(us)
<1>1. UNCHANGED release
  BY DEF EvictIdle, PoolShutdown, Destroyed, ContainerDies
<1>2. Rel' = Rel
  BY <1>1 DEF Rel, Held
<1>3. ASSUME NEW C \in SUBSET Pool, Pool' = Pool \ C, dying' = dying \cup C, parked' \in Seq(VMs),
             Once(parked'), container' = container
      PROVE  Kept(us)
  <2>1. Up' = Up /\ C \subseteq VMs
    BY <1>3, BooksHold DEF Up
  <2>2. VMBooks'
    BY <1>1, <1>2, <1>3, <2>1 DEF VMBooks
  <2> QED
    BY <1>1, <1>2, <1>3, <2>1, <2>2 DEF Kept, Outside, Covered
<1>4. CASE EvictIdle
  <2>1. PICK n \in 1..Len(parked) : /\ parked' = SubSeq(parked, n + 1, Len(parked))
                                    /\ dying' = dying \cup {parked[i] : i \in 1..n}
    BY <1>4 DEF EvictIdle
  <2>2. /\ parked' \in Seq(VMs) /\ Once(parked') /\ Els(parked') = Els(parked) \ {parked[i] : i \in 1..n}
        /\ {parked[i] : i \in 1..n} \subseteq Els(parked)
    BY <2>1, ElsCut DEF VMBooks
  <2>3. container' = container
    BY <1>4 DEF EvictIdle
  <2> DEFINE C == {parked[i] : i \in 1..n}
  <2>4. C \in SUBSET Pool /\ Pool' = Pool \ C /\ dying' = dying \cup C
    BY <2>1, <2>2 DEF Pool
  <2> HIDE DEF C
  <2> QED
    BY <1>3, <2>2, <2>3, <2>4
<1>5. CASE PoolShutdown
  <2>1. parked' = << >> /\ dying' = dying \cup Pool /\ container' = container
    BY <1>5 DEF PoolShutdown, Parked, Pool, Els
  <2>2. parked' \in Seq(VMs) /\ Once(parked') /\ Pool' = {}
    BY <2>1, EmptySeq DEF Once, Pool, Els
  <2>3. Pool \in SUBSET Pool /\ Pool' = Pool \ Pool
    BY <2>2
  <2> QED
    BY <1>3, <2>1, <2>2, <2>3
<1>6. ASSUME NEW v \in VMs, Destroyed(v) \/ ContainerDies(v) PROVE Kept(us)
  <2>1. container' = [container EXCEPT ![v] = "gone"] /\ parked' = parked
        /\ (dying' = dying \/ dying' = dying \ {v})
    BY <1>6 DEF Destroyed, ContainerDies
  <2>2. container' \in [VMs -> {"up", "gone"}] /\ Up' = Up \ {v} /\ Pool' = Pool
    BY <2>1, ContainerMoves DEF Pool, Els
  <2>3. VMBooks'
    BY <1>1, <1>2, <2>1, <2>2 DEF VMBooks
  <2> QED
    BY <1>1, <1>2, <2>1, <2>2, <2>3 DEF Kept, Outside, Covered
<1> QED
  BY <1>4, <1>5, <1>6
=============================================================================
