-------------------------- MODULE PseudonymProofs ----------------------------
(* A text comes back from the substitution as it was, and a second pass      *)
(* finds nothing, for any roster and any text of the assumed shape.          *)
(*                                                                           *)
(* A pass is followed by its walk: what is still to be put out at each place *)
(* (Walked), so that a text and what is made of it can be read side by side  *)
(* (Meets).  No literal stands free in the result: within a placeholder it   *)
(* would begin with a letter that is none, and outside it would have stood   *)
(* free before (NothingNew).  Each placeholder stands free in it and is the  *)
(* only form with that spelling, so the way back meets the text again        *)
(* (ComesBack).  Both need a table whose literals begin and end with a       *)
(* letter and whose entries differ in person, kind or number: the claims of  *)
(* one person after another keep it so (Claiming, Sorted).                   *)
EXTENDS Pseudonyms, FiniteSetTheorems, SequenceTheorems, WellFoundedInduction, TLAPS

(* A number that follows those before it is in every set they are in.       *)
LEMMA UpTo ==
  ASSUME NEW k \in Nat, NEW S, 0 \in S, \A i \in Nat : i \in S /\ i < k => i + 1 \in S
  PROVE  \A i \in 0..k : i \in S
<1> DEFINE R == OpToRel(<, Nat)
           Bad == {i \in 0..k : i \notin S}
<1>1. IsWellFoundedOn(R, Nat)
  BY NatLessThanWellFounded
<1>2. \A x, y \in Nat : x < y => <<x, y>> \in R
  BY DEF OpToRel
<1> HIDE DEF R
<1>3. ASSUME Bad # {} PROVE FALSE
  <2>1. Bad \subseteq Nat
    OBVIOUS
  <2> HIDE DEF Bad
  <2>2. PICK x \in Bad : \A y \in Bad : <<y, x>> \notin R
    BY <1>1, <1>3, <2>1, WFMin
  <2>3. x \in 0..k /\ x \notin S
    BY <2>2 DEF Bad
  <2>4. x - 1 \in Nat /\ x - 1 < x /\ x - 1 < k
    BY <2>3
  <2>5. x - 1 \in S
    <3>1. <<x - 1, x>> \in R
      <4>1. x \in Nat
        BY <2>3
      <4> QED
        BY <1>2, <2>4, <4>1
    <3>2. x - 1 \notin Bad
      BY <2>2, <3>1
    <3> QED
      BY <2>3, <2>4, <3>2 DEF Bad
  <2>6. x - 1 + 1 \in S
    BY <2>4, <2>5
  <2> QED
    BY <2>3, <2>6
<1> QED
  BY <1>3

-----------------------------------------------------------------------------
(* Of places in a sequence one is the last.                                  *)
LEMMA LastPlace ==
  ASSUME NEW k \in Nat, NEW I, I \subseteq 1..k, I # {}
  PROVE  Max(I) \in I /\ \A y \in I : y <= Max(I)
<1> DEFINE S == {j \in Nat : \A y \in I : y <= k - j}
<1>1. ASSUME \A x \in I : \E y \in I : x < y PROVE FALSE
  <2>1. 0 \in S
    OBVIOUS
  <2>2. \A i \in Nat : i \in S /\ i < k => i + 1 \in S
    BY <1>1
  <2> HIDE DEF S
  <2>3. \A i \in 0..k : i \in S
    BY <2>1, <2>2, UpTo
  <2>4. k \in S
    BY <2>3
  <2>5. PICK y \in I : y \in 1..k
    OBVIOUS
  <2>6. y <= k - k
    BY <2>4, <2>5 DEF S
  <2> QED
    BY <2>5, <2>6
<1>2. \E x \in I : \A y \in I : x >= y
  BY <1>1
<1> QED
  BY <1>2 DEF Max

(* What a fold does, told by a table of its steps: a step for each set of    *)
(* places, which takes the last of them.                                     *)
Folds(it, A, seq, base, step) ==
  /\ it \in [SUBSET (1..Len(seq)) -> A]
  /\ \A s \in SUBSET (1..Len(seq)) :
       it[s] = IF s = {} THEN base ELSE step[<<it[s \ {Max(s)}], seq[Max(s)]>>]

(* A fold over a sequence has a value for each set of its places.            *)
LEMMA FoldExists ==
  ASSUME NEW A, NEW B, NEW seq \in Seq(B), NEW base \in A, NEW step \in [A \X B -> A]
  PROVE  \E it : Folds(it, A, seq, base, step)
<1> DEFINE n == Len(seq)
           Up(m, it) == /\ it \in [SUBSET (1..m) -> A]
                        /\ \A s \in SUBSET (1..m) :
                             it[s] = IF s = {} THEN base ELSE step[<<it[s \ {Max(s)}], seq[Max(s)]>>]
           S == {m \in Nat : m <= n => \E it : Up(m, it)}
<1>1. n \in Nat /\ \A i \in 1..n : seq[i] \in B
  OBVIOUS
<1> HIDE DEF n
<1>2. 0 \in S
  <2> DEFINE it == [s \in SUBSET (1..0) |-> base]
  <2>1. \A s \in SUBSET (1..0) : s = {}
    OBVIOUS
  <2>2. Up(0, it)
    BY <2>1
  <2> HIDE DEF Up, it
  <2> QED
    BY <2>2
<1>3. ASSUME NEW m \in Nat, m \in S, m < n PROVE m + 1 \in S
  <2>0. \E it : Up(m, it)
    <3> HIDE DEF Up
    <3> QED
      BY <1>1, <1>3
  <2>1. PICK it : Up(m, it)
    BY <2>0
  <2> DEFINE h == [s \in SUBSET (1..(m + 1)) |->
                     IF m + 1 \notin s THEN it[s] ELSE step[<<it[s \ {m + 1}], seq[m + 1]>>]]
  <2>2. m + 1 \in 1..n /\ seq[m + 1] \in B
    BY <1>1, <1>3
  <2>3. ASSUME NEW s \in SUBSET (1..(m + 1))
        PROVE h[s] \in A /\ h[s] = IF s = {} THEN base ELSE step[<<h[s \ {Max(s)}], seq[Max(s)]>>]
    <3>1. CASE m + 1 \notin s
      <4>1. s \in SUBSET (1..m)
        BY <3>1
      <4>2. CASE s = {}
        BY <2>1, <3>1, <4>1, <4>2
      <4>3. CASE s # {}
        <5>1. Max(s) \in s
          BY <4>1, <4>3, LastPlace
        <5>2. s \ {Max(s)} \in SUBSET (1..m) /\ m + 1 \notin s \ {Max(s)} /\ s \ {Max(s)} \in SUBSET (1..(m + 1))
          BY <3>1, <4>1
        <5>3. h[s \ {Max(s)}] = it[s \ {Max(s)}] /\ h[s] = it[s]
          BY <3>1, <5>2
        <5> HIDE DEF h
        <5> QED
          BY <2>1, <4>1, <4>3, <5>3
      <4> QED
        BY <4>2, <4>3
    <3>2. CASE m + 1 \in s
      <4>1. Max(s) \in s /\ \A y \in s : y <= Max(s)
        <5>1. m + 1 \in Nat /\ s \subseteq 1..(m + 1) /\ s # {}
          BY <3>2
        <5> HIDE DEF h, Up
        <5> QED
          BY <5>1, LastPlace
      <4>2. Max(s) = m + 1
        <5>1. Max(s) \in 1..(m + 1) /\ m + 1 <= Max(s)
          BY <3>2, <4>1
        <5> QED
          BY <5>1
      <4>3. s \ {m + 1} \in SUBSET (1..m) /\ s \ {m + 1} \in SUBSET (1..(m + 1)) /\ m + 1 \notin s \ {m + 1} /\ s # {}
        BY <3>2
      <4>4. h[s \ {m + 1}] = it[s \ {m + 1}] /\ h[s] = step[<<it[s \ {m + 1}], seq[m + 1]>>]
        BY <3>2, <4>3
      <4>5. it[s \ {m + 1}] \in A
        BY <2>1, <4>3
      <4> HIDE DEF h
      <4> QED
        BY <2>2, <4>2, <4>3, <4>4, <4>5
    <3> QED
      BY <3>1, <3>2
  <2>4. Up(m + 1, h)
    BY <2>3
  <2> HIDE DEF h, Up
  <2> QED
    BY <2>4
<1>4. n \in S
  <2>1. \A i \in Nat : i \in S /\ i < n => i + 1 \in S
    BY <1>3
  <2> HIDE DEF S
  <2>2. \A i \in 0..n : i \in S
    BY <1>1, <1>2, <2>1, UpTo
  <2> QED
    BY <1>1, <2>2
<1>5. \E it : Up(n, it)
  <2> HIDE DEF Up
  <2> QED
    BY <1>1, <1>4
<1> QED
  BY <1>5 DEF Folds, n

(* Its steps for the places up to each are a chain.                          *)
LEMMA PlacesUpTo ==
  ASSUME NEW m \in Nat
  PROVE  /\ 1..0 = {} /\ 1..(m + 1) # {} /\ Max(1..(m + 1)) = m + 1 /\ (1..(m + 1)) \ {m + 1} = 1..m
         /\ \A n \in Nat : m < n => 1..(m + 1) \in SUBSET (1..n)
<1>1. 1..0 = {} /\ m + 1 \in 1..(m + 1) /\ (1..(m + 1)) \ {m + 1} = 1..m
  OBVIOUS
<1>2. Max(1..(m + 1)) \in 1..(m + 1) /\ \A y \in 1..(m + 1) : y <= Max(1..(m + 1))
  <2> DEFINE I == 1..(m + 1)
             k == m + 1
  <2>1. k \in Nat /\ I \subseteq 1..k /\ I # {}
    BY <1>1
  <2> HIDE DEF I, k
  <2>2. Max(I) \in I /\ \A y \in I : y <= Max(I)
    BY <2>1, LastPlace
  <2> QED
    BY <2>2 DEF I
<1>3. m + 1 <= Max(1..(m + 1))
  BY <1>1, <1>2
<1>4. \A n \in Nat : m < n => 1..(m + 1) \subseteq 1..n
  OBVIOUS
<1> QED
  BY <1>1, <1>2, <1>3, <1>4

-----------------------------------------------------------------------------
(* The letters of a literal are counted, and nothing has none.               *)
LEMMA LettersCount ==
  ASSUME NEW v \in Seq(Atoms)
  PROVE  Letters(v) \in Nat /\ (v = <<>> => Letters(v) = 0)
<1> DEFINE n == Len(v)
           step == [p \in Nat \X Atoms |-> p[1] + LettersOf(p[2])]
           Sums(c) == c = [s \in SUBSET (1..n) |-> IF s = {} THEN 0 ELSE c[s \ {Max(s)}] + LettersOf(v[Max(s)])]
           sum == CHOOSE c : Sums(c)
<1>1. n \in Nat /\ DOMAIN v = 1..n /\ \A i \in 1..n : v[i] \in Atoms
  OBVIOUS
<1>2. \A a : LettersOf(a) \in Nat
  BY DEF LettersOf
<1>3. \E c : Sums(c)
  <2>1. step \in [Nat \X Atoms -> Nat] /\ 0 \in Nat
    BY <1>2
  <2> HIDE DEF step
  <2>2. PICK c : Folds(c, Nat, v, 0, step)
    BY <2>1, FoldExists
  <2>3. ASSUME NEW s \in SUBSET (1..n), s # {}
        PROVE step[<<c[s \ {Max(s)}], v[Max(s)]>>] = c[s \ {Max(s)}] + LettersOf(v[Max(s)])
    <3>1. v[Max(s)] \in Atoms
      BY <1>1, <2>3, LastPlace
    <3>2. c[s \ {Max(s)}] \in Nat
      BY <2>2, <2>3 DEF Folds
    <3> QED
      BY <3>1, <3>2 DEF step
  <2>4. c = [s \in SUBSET (1..n) |-> c[s]]
    BY <2>2 DEF Folds
  <2>5. \A s \in SUBSET (1..n) : c[s] = IF s = {} THEN 0 ELSE c[s \ {Max(s)}] + LettersOf(v[Max(s)])
    BY <2>2, <2>3 DEF Folds
  <2> QED
    BY <2>4, <2>5
<1>4. Sums(sum) /\ Letters(v) = sum[1..n]
  <2>1. Sums(sum)
    BY <1>3
  <2>2. Letters(v) = sum[1..n]
    BY <1>1 DEF Letters, FoldLeft, MapThenFoldSet
  <2> QED
    BY <2>1, <2>2
<1> HIDE DEF sum
<1>5. sum[1..0] = 0
  <2>1. 1..0 \in SUBSET (1..n)
    BY <1>1
  <2> QED
    BY <1>4, <2>1, PlacesUpTo
<1>6. ASSUME NEW m \in Nat, m < n PROVE sum[1..(m + 1)] = sum[1..m] + LettersOf(v[m + 1])
  <2>1. 1..(m + 1) \in SUBSET (1..n)
    BY <1>1, <1>6, PlacesUpTo
  <2>2. \A s \in SUBSET (1..n) : s # {} => sum[s] = sum[s \ {Max(s)}] + LettersOf(v[Max(s)])
    BY <1>4
  <2> HIDE DEF n, Sums
  <2>3. 1..(m + 1) # {} /\ Max(1..(m + 1)) = m + 1 /\ (1..(m + 1)) \ {m + 1} = 1..m
    BY PlacesUpTo
  <2> QED
    BY <2>1, <2>2, <2>3, Zenon
<1> HIDE DEF Sums, n
<1> DEFINE S == {m \in Nat : m <= n => sum[1..m] \in Nat}
<1>7. n \in S
  <2>1. 0 \in S
    BY <1>5
  <2>2. \A m \in Nat : m \in S /\ m < n => m + 1 \in S
    BY <1>1, <1>2, <1>6
  <2> HIDE DEF S
  <2>3. \A m \in 0..n : m \in S
    BY <1>1, <2>1, <2>2, UpTo
  <2> QED
    BY <1>1, <2>3
<1>8. v = <<>> => n = 0
  BY DEF n
<1> QED
  BY <1>1, <1>4, <1>5, <1>7, <1>8

(* So of finitely many pairs one is the longest.                             *)
LEMMA LongestIn ==
  ASSUME NEW n \in Nat, NEW K, K \subseteq 1..n, K # {}, NEW f, NEW P, P = {f[k] : k \in K},
         \A k \in K : Letters(f[k].from) \in Nat
  PROVE  Longest(P) \in P
<1> DEFINE L(k) == Letters(f[k].from)
           S == {m \in Nat : (\E k \in K : k <= m) =>
                               \E k \in K : k <= m /\ \A j \in K : j <= m => L(k) >= L(j)}
<1>1. \A k \in K : k \in 1..n /\ L(k) \in Nat
  OBVIOUS
<1> HIDE DEF L
<1>2. 0 \in S
  BY <1>1
<1>3. ASSUME NEW m \in Nat, m \in S, m < n PROVE m + 1 \in S
  <2>1. \A j \in K : j <= m + 1 <=> j <= m \/ j = m + 1
    BY <1>1
  <2>2. CASE m + 1 \notin K
    BY <1>3, <2>1, <2>2
  <2>3. CASE m + 1 \in K
    <3>1. CASE \E k \in K : k <= m
      <4>1. PICK k \in K : k <= m /\ \A j \in K : j <= m => L(k) >= L(j)
        BY <1>3, <3>1
      <4>2. CASE L(k) >= L(m + 1)
        BY <2>1, <4>1, <4>2
      <4>3. CASE L(m + 1) >= L(k)
        <5>1. \A j \in K : j <= m + 1 => L(m + 1) >= L(j)
          BY <1>1, <2>1, <2>3, <4>1, <4>3
        <5> QED
          BY <2>3, <5>1
      <4>4. L(k) \in Nat /\ L(m + 1) \in Nat
        BY <1>1, <2>3
      <4> QED
        BY <4>2, <4>3, <4>4
    <3>2. CASE ~ \E k \in K : k <= m
      <4>1. \A j \in K : j <= m + 1 => L(m + 1) >= L(j)
        BY <1>1, <2>1, <2>3, <3>2
      <4> QED
        BY <2>3, <4>1
    <3> QED
      BY <3>1, <3>2
  <2> QED
    BY <2>2, <2>3
<1>4. n \in S
  <2>1. \A m \in Nat : m \in S /\ m < n => m + 1 \in S
    BY <1>3
  <2> HIDE DEF S
  <2>2. \A m \in 0..n : m \in S
    BY <1>2, <2>1, UpTo
  <2> QED
    BY <2>2
<1>5. PICK k \in K : \A j \in K : L(k) >= L(j)
  <2>1. \A j \in K : j <= n
    BY <1>1
  <2> HIDE DEF L
  <2> QED
    BY <1>4, <2>1
<1>6. f[k] \in P /\ \A q \in P : Letters(f[k].from) >= Letters(q.from)
  BY <1>5 DEF L
<1> QED
  BY <1>6 DEF Longest

-----------------------------------------------------------------------------
(* A walk over a text: at each place it puts something out and goes on       *)
(* behind what it has read.  There is one such walk.                         *)
Walks(w, n, next, out) ==
  /\ w[n + 1] = <<>>
  /\ \A i \in 1..n : w[i] = out[i] \o w[next[i]]

(* A walk that goes forward exists, and there is one only.                   *)
LEMMA OneWalk ==
  ASSUME NEW n \in Nat, NEW next \in [1..n -> Nat], \A i \in 1..n : i < next[i] /\ next[i] <= n + 1,
         NEW out \in [1..n -> Seq(Atoms)]
  PROVE  /\ \E w \in [1..(n + 1) -> Seq(Atoms)] : Walks(w, n, next, out)
         /\ \A w, x : Walks(w, n, next, out) /\ Walks(x, n, next, out) => \A i \in 1..(n + 1) : w[i] = x[i]
<1>1. \E w \in [1..(n + 1) -> Seq(Atoms)] : Walks(w, n, next, out)
  <2> DEFINE Part(m, w) == /\ w \in [1..(n + 1) -> Seq(Atoms)] /\ w[n + 1] = <<>>
                           /\ \A i \in 1..n : i > n - m => w[i] = out[i] \o w[next[i]]
             S == {m \in Nat : m <= n => \E w : Part(m, w)}
  <2>1. 0 \in S
    <3> DEFINE w == [i \in 1..(n + 1) |-> <<>>]
    <3>1. w \in [1..(n + 1) -> Seq(Atoms)] /\ w[n + 1] = <<>>
      OBVIOUS
    <3> HIDE DEF w
    <3>2. Part(0, w)
      BY <3>1
    <3> HIDE DEF Part
    <3> QED
      BY <3>2
  <2>2. ASSUME NEW m \in Nat, m \in S, m < n PROVE m + 1 \in S
    <3>1. \E w : Part(m, w)
      <4> HIDE DEF Part
      <4> QED
        BY <2>2
    <3>2. PICK w : Part(m, w)
      BY <3>1
    <3> DEFINE k == n - m
               x == [w EXCEPT ![k] = out[k] \o w[next[k]]]
    <3>3. k \in 1..n /\ k \in 1..(n + 1) /\ k # n + 1 /\ next[k] \in 1..(n + 1)
      <4>1. k \in 1..n /\ k \in 1..(n + 1) /\ k # n + 1
        BY <2>2
      <4> HIDE DEF k
      <4> QED
        BY <4>1
    <3> HIDE DEF k
    <3>4. out[k] \o w[next[k]] \in Seq(Atoms)
      <4>1. w[next[k]] \in Seq(Atoms) /\ out[k] \in Seq(Atoms)
        BY <3>2, <3>3
      <4> QED
        BY <4>1, ConcatProperties
    <3>5. x \in [1..(n + 1) -> Seq(Atoms)] /\ x[n + 1] = <<>>
      BY <3>2, <3>3, <3>4
    <3>6. ASSUME NEW i \in 1..n, i > n - (m + 1) PROVE x[i] = out[i] \o x[next[i]]
      <4>1. i >= k /\ next[i] \in 1..(n + 1) /\ next[i] # k
        <5>1. i >= k
          BY <2>2, <3>6 DEF k
        <5>2. next[i] \in Nat /\ i < next[i] /\ next[i] <= n + 1
          OBVIOUS
        <5>3. k \in Nat
          BY <3>3
        <5> HIDE DEF x, Part
        <5> QED
          BY <5>1, <5>2, <5>3
      <4>2. x[next[i]] = w[next[i]]
        BY <3>2, <4>1
      <4>3. CASE i = k
        BY <3>2, <3>3, <4>2, <4>3
      <4>4. CASE i # k
        <5>1. i > n - m /\ x[i] = w[i]
          BY <3>2, <3>6, <4>1, <4>4 DEF k
        <5> QED
          BY <3>2, <4>2, <5>1
      <4> QED
        BY <4>3, <4>4
    <3>7. Part(m + 1, x)
      BY <3>5, <3>6
    <3> HIDE DEF Part, x
    <3> QED
      BY <3>7
  <2>3. n \in S
    <3>1. \A m \in Nat : m \in S /\ m < n => m + 1 \in S
      BY <2>2
    <3> HIDE DEF S
    <3>2. \A m \in 0..n : m \in S
      BY <2>1, <3>1, UpTo
    <3> QED
      BY <3>2
  <2>4. \E w : Part(n, w)
    <3> HIDE DEF Part
    <3> QED
      BY <2>3
  <2>5. PICK w : Part(n, w)
    BY <2>4
  <2>6. \A i \in 1..n : i > n - n
    OBVIOUS
  <2> QED
    BY <2>5, <2>6 DEF Walks
<1>2. ASSUME NEW w, NEW x, Walks(w, n, next, out), Walks(x, n, next, out)
      PROVE \A i \in 1..(n + 1) : w[i] = x[i]
  <2> DEFINE S == {m \in Nat : \A i \in 1..(n + 1) : i > n - m => w[i] = x[i]}
  <2>1. 0 \in S
    <3>1. \A i \in 1..(n + 1) : i > n - 0 => i = n + 1
      OBVIOUS
    <3> QED
      BY <1>2, <3>1 DEF Walks
  <2>2. ASSUME NEW m \in Nat, m \in S, m < n PROVE m + 1 \in S
    <3>1. ASSUME NEW i \in 1..(n + 1), i > n - (m + 1) PROVE w[i] = x[i]
      <4>1. CASE i > n - m
        BY <2>2, <4>1
      <4>2. CASE i = n - m
        <5>1. i \in 1..n /\ next[i] \in 1..(n + 1) /\ next[i] > n - m
          BY <2>2, <4>2
        <5>2. w[next[i]] = x[next[i]]
          BY <2>2, <5>1
        <5> QED
          BY <1>2, <5>1, <5>2 DEF Walks
      <4>3. i > n - m \/ i = n - m
        BY <2>2, <3>1
      <4> QED
        BY <4>1, <4>2, <4>3
    <3> QED
      BY <3>1
  <2>3. n \in S
    <3>1. \A m \in Nat : m \in S /\ m < n => m + 1 \in S
      BY <2>2
    <3> HIDE DEF S
    <3>2. \A m \in 0..n : m \in S
      BY <2>1, <3>1, UpTo
    <3> QED
      BY <3>2
  <2> QED
    BY <2>3
<1> QED
  BY <1>1, <1>2

(* A substitution is the walk that puts out an atom where nothing is found   *)
(* and else what the longest pair has it replaced by.                        *)
Pairs == [from : Seq(Atoms) \ {<<>>}, to : Seq(Atoms)]
Fits(t, found) ==
  \A i \in 1..Len(t) : found[i] # {} => /\ Longest(found[i]) \in Pairs
                                        /\ i + Len(Longest(found[i]).from) <= Len(t) + 1
Behind(t, found) ==
  [i \in 1..Len(t) |-> IF found[i] = {} THEN i + 1 ELSE i + Len(Longest(found[i]).from)]
PutOut(t, found) ==
  [i \in 1..Len(t) |-> IF found[i] = {} THEN <<t[i]>> ELSE Longest(found[i]).to]

(* Where what is found fits, the pass goes forward to the end of the text.   *)
LEMMA WalkFits ==
  ASSUME NEW t \in Seq(Atoms), NEW found, Fits(t, found)
  PROVE  /\ Behind(t, found) \in [1..Len(t) -> Nat]
         /\ \A i \in 1..Len(t) : i < Behind(t, found)[i] /\ Behind(t, found)[i] <= Len(t) + 1
         /\ PutOut(t, found) \in [1..Len(t) -> Seq(Atoms)]
<1> DEFINE n == Len(t)
<1>1. n \in Nat /\ \A i \in 1..n : t[i] \in Atoms /\ <<t[i]>> \in Seq(Atoms)
  OBVIOUS
<1>2. ASSUME NEW i \in 1..n
      PROVE /\ Behind(t, found)[i] \in Nat /\ i < Behind(t, found)[i] /\ Behind(t, found)[i] <= n + 1
            /\ PutOut(t, found)[i] \in Seq(Atoms)
  <2>1. CASE found[i] = {}
    <3>1. Behind(t, found)[i] = i + 1 /\ PutOut(t, found)[i] = <<t[i]>>
      BY <2>1 DEF Behind, PutOut
    <3> HIDE DEF n
    <3> QED
      BY <1>1, <3>1
  <2>2. CASE found[i] # {}
    <3> DEFINE p == Longest(found[i])
    <3>1. p.from \in Seq(Atoms) /\ p.from # <<>> /\ p.to \in Seq(Atoms) /\ i + Len(p.from) <= n + 1
      BY <2>2 DEF Fits, Pairs
    <3>2. Len(p.from) \in Nat /\ Len(p.from) > 0
      BY <3>1
    <3>3. Behind(t, found)[i] = i + Len(p.from) /\ PutOut(t, found)[i] = p.to
      BY <2>2 DEF Behind, PutOut
    <3> HIDE DEF p, n
    <3> QED
      BY <3>1, <3>2, <3>3
  <2> QED
    BY <2>1, <2>2
<1>3. Behind(t, found) = [i \in 1..n |-> Behind(t, found)[i]] /\ PutOut(t, found) = [i \in 1..n |-> PutOut(t, found)[i]]
  BY DEF Behind, PutOut
<1> HIDE DEF n
<1>4. Behind(t, found) \in [1..n -> Nat] /\ PutOut(t, found) \in [1..n -> Seq(Atoms)]
  BY <1>2, <1>3
<1> QED
  BY <1>2, <1>4 DEF n

(* So the text is what the walk puts out from its first place.               *)
LEMMA ReplacedWalks ==
  ASSUME NEW t \in Seq(Atoms), NEW found, Fits(t, found)
  PROVE  \E w \in [1..(Len(t) + 1) -> Seq(Atoms)] :
           Walks(w, Len(t), Behind(t, found), PutOut(t, found)) /\ Replaced(t, found) = w[1]
<1> DEFINE n == Len(t)
           next == Behind(t, found)
           out == PutOut(t, found)
           Passes(p) == p = [i \in 1..(n + 1) |->
             IF i > n THEN <<>>
             ELSE IF found[i] = {} THEN <<t[i]>> \o p[i + 1]
                  ELSE Longest(found[i]).to \o p[i + Len(Longest(found[i]).from)]]
           pass == CHOOSE p : Passes(p)
<1>1. n \in Nat
  OBVIOUS
<1>2. /\ next \in [1..n -> Nat] /\ \A i \in 1..n : i < next[i] /\ next[i] <= n + 1
      /\ out \in [1..n -> Seq(Atoms)]
  BY WalkFits
<1>3. Replaced(t, found) = pass[1]
  BY DEF Replaced
<1>4. \A p : \A i \in 1..n : (IF found[i] = {} THEN <<t[i]>> \o p[i + 1] ELSE Longest(found[i]).to \o p[i + Len(Longest(found[i]).from)])
                               = out[i] \o p[next[i]]
  BY DEF Behind, PutOut
<1> HIDE DEF next, out, n
<1>5. PICK w \in [1..(n + 1) -> Seq(Atoms)] : Walks(w, n, next, out)
  BY <1>1, <1>2, OneWalk
<1>6. \A i \in 1..(n + 1) : i \in 1..n \/ (i = n + 1 /\ i > n)
  BY <1>1
<1>7. \A i \in 1..n : ~(i > n)
  BY <1>1
<1>8. Passes(w)
  <2>1. w = [i \in 1..(n + 1) |-> w[i]]
    BY <1>5
  <2>2. ASSUME NEW i \in 1..(n + 1)
        PROVE w[i] = IF i > n THEN <<>>
                     ELSE IF found[i] = {} THEN <<t[i]>> \o w[i + 1]
                          ELSE Longest(found[i]).to \o w[i + Len(Longest(found[i]).from)]
    <3>1. CASE i \in 1..n
      BY <1>4, <1>5, <1>7, <3>1 DEF Walks
    <3>2. CASE i = n + 1 /\ i > n
      BY <1>5, <3>2 DEF Walks
    <3> QED
      BY <1>6, <3>1, <3>2
  <2> QED
    BY <2>1, <2>2
<1>9. Passes(pass)
  BY <1>8
<1> HIDE DEF pass
<1>10. Walks(pass, n, next, out)
  <2>1. pass[n + 1] = <<>>
    <3>1. n + 1 \in 1..(n + 1) /\ n + 1 > n
      BY <1>1
    <3> QED
      BY <1>9, <3>1
  <2>2. ASSUME NEW i \in 1..n PROVE pass[i] = out[i] \o pass[next[i]]
    <3>1. i \in 1..(n + 1)
      BY <1>1
    <3> QED
      BY <1>4, <1>7, <1>9, <3>1
  <2> QED
    BY <2>1, <2>2 DEF Walks
<1>11. pass[1] = w[1]
  <2>1. 1 \in 1..(n + 1)
    BY <1>1
  <2>2. \A a, b : Walks(a, n, next, out) /\ Walks(b, n, next, out) => \A i \in 1..(n + 1) : a[i] = b[i]
    BY <1>1, <1>2, OneWalk
  <2>3. Walks(pass, n, next, out) /\ Walks(w, n, next, out)
    BY <1>5, <1>10
  <2>4. \A i \in 1..(n + 1) : pass[i] = w[i]
    BY <2>2, <2>3
  <2> QED
    BY <2>1, <2>4
<1> QED
  BY <1>3, <1>5, <1>11 DEF n, next, out

(* Where nothing is found nothing changes.                                   *)
LEMMA NothingReplaced ==
  ASSUME NEW t \in Seq(Atoms), NEW found, \A i \in 1..Len(t) : found[i] = {}
  PROVE  Replaced(t, found) = t
<1> DEFINE n == Len(t)
           next == Behind(t, found)
           out == PutOut(t, found)
           rest == [i \in 1..(n + 1) |-> SubSeq(t, i, n)]
<1>1. Fits(t, found)
  BY DEF Fits
<1>2. n \in Nat /\ /\ next \in [1..n -> Nat] /\ \A i \in 1..n : i < next[i] /\ next[i] <= n + 1
      /\ out \in [1..n -> Seq(Atoms)]
  BY <1>1, WalkFits
<1>3. PICK w \in [1..(n + 1) -> Seq(Atoms)] : Walks(w, n, next, out) /\ Replaced(t, found) = w[1]
  BY <1>1, ReplacedWalks
<1>4. Walks(rest, n, next, out)
  <2>1. rest[n + 1] = <<>>
    <3>1. n + 1 \in 1..(n + 1) /\ SubSeq(t, n + 1, n) = <<>>
      BY <1>2
    <3> QED
      BY <3>1
  <2>2. ASSUME NEW i \in 1..n PROVE rest[i] = out[i] \o rest[next[i]]
    <3>1. out[i] = <<t[i]>> /\ next[i] = i + 1 /\ i \in 1..(n + 1) /\ i + 1 \in 1..(n + 1)
      BY DEF Behind, PutOut
    <3>2. SubSeq(t, i, n) = <<t[i]>> \o SubSeq(t, i + 1, n)
      <4>1. n \in i..Len(t)
        OBVIOUS
      <4> HIDE DEF next, out, rest
      <4> QED
        BY <4>1, SubSeqRecursiveFirst
    <3> HIDE DEF n, next, out
    <3> QED
      BY <3>1, <3>2
  <2> QED
    BY <2>1, <2>2 DEF Walks
<1>5. rest[1] = t
  <2>1. SubSeq(t, 1, n) = t /\ 1 \in 1..(n + 1)
    BY <1>2
  <2> QED
    BY <2>1
<1> HIDE DEF rest, n, next, out
<1>6. 1 \in 1..(n + 1)
  BY <1>2
<1>7. rest[1] = w[1]
  <2>1. \A a, b : Walks(a, n, next, out) /\ Walks(b, n, next, out) => \A i \in 1..(n + 1) : a[i] = b[i]
    BY <1>2, OneWalk
  <2>2. Walks(rest, n, next, out) /\ Walks(w, n, next, out)
    BY <1>3, <1>4
  <2>3. \A i \in 1..(n + 1) : rest[i] = w[i]
    BY <2>1, <2>2
  <2> QED
    BY <1>6, <2>3
<1> QED
  BY <1>3, <1>5, <1>7

-----------------------------------------------------------------------------
(* Of a text t, where literals are found that stand free, what is put out for*)
(* it is u: placeholders for the literals, and the atoms between them.       *)
Literals == {v \in Seq(Natural) : Spelled(v)}
Marks    == {m \in Seq(PlaceWords \cup {"_"}) : m # <<>> /\ m[1] = "PERSON"}
Marked(t, found) ==
  \A i \in 1..Len(t) : found[i] # {} =>
    /\ Longest(found[i]).from \in Literals /\ Longest(found[i]).to \in Marks
    /\ Longest(found[i]) = [from |-> Longest(found[i]).from, to |-> Longest(found[i]).to]
    /\ Occurs(t, i, Longest(found[i]).from, Inside)

(* There may be one person at least.                                         *)
LEMMA MostIs == Most \in Nat /\ 1 \in 1..Most /\ 1 \in 0..Most /\ 0 \in 0..Most
<1>1. Most \in Nat \ {0}
  BY NymAssumption
<1> QED
  BY <1>1

(* The numerals are pieces of placeholders, and different.                   *)
LEMMA Digits ==
  /\ \A n \in 1..Most : Digit(n) \in PlaceWords
  /\ \A m, n \in 1..Most : Digit(m) = Digit(n) => m = n
BY NymAssumption DEF Digit, PlaceWords

(* Literals begin and end with letters, placeholders have none of them.      *)
LEMMA Letterings ==
  /\ Inside \subseteq Atoms /\ Words \subseteq Inside /\ "PERSON" \in Inside /\ "PERSON" \notin Words
  /\ \A v \in Literals : /\ v \in Seq(Atoms) /\ Len(v) \in Nat \ {0} /\ v[1] \in Words /\ v[Len(v)] \in Words
                         /\ \A i \in 1..Len(v) : v[i] # "PERSON"
  /\ \A m \in Marks : /\ m \in Seq(Atoms) /\ Len(m) \in Nat \ {0} /\ m[1] = "PERSON"
                      /\ \A i \in 1..Len(m) : m[i] \in Inside /\ m[i] \notin Words
<1>1. "PERSON" \in PlaceWords
  BY DEF PlaceWords
<1>2. Words \cap (PlaceWords \cup {"_"}) = {}
  BY NymAssumption
<1>3. /\ Inside \subseteq Atoms /\ Words \subseteq Inside /\ "PERSON" \in Inside /\ "PERSON" \notin Words
      /\ PlaceWords \cup {"_"} \subseteq Atoms
  BY <1>1, <1>2 DEF Inside, Atoms
<1>4. ASSUME NEW v \in Literals
      PROVE /\ v \in Seq(Atoms) /\ Len(v) \in Nat \ {0} /\ v[1] \in Words /\ v[Len(v)] \in Words
            /\ \A i \in 1..Len(v) : v[i] # "PERSON"
  <2>1. v \in Seq(Natural) /\ v # <<>> /\ v[1] \in Words /\ v[Len(v)] \in Words
    BY <1>4 DEF Literals, Spelled
  <2>2. \A i \in 1..Len(v) : v[i] \in Natural
    BY <2>1
  <2>3. \A i \in 1..Len(v) : v[i] \in Atoms /\ v[i] # "PERSON"
    BY <2>2 DEF Natural
  <2>4. v \in Seq(Atoms)
    BY <2>1 DEF Natural
  <2> QED
    BY <2>1, <2>3, <2>4
<1>5. ASSUME NEW m \in Marks
      PROVE /\ m \in Seq(Atoms) /\ Len(m) \in Nat \ {0} /\ m[1] = "PERSON"
            /\ \A i \in 1..Len(m) : m[i] \in Inside /\ m[i] \notin Words
  <2>1. m \in Seq(PlaceWords \cup {"_"}) /\ m # <<>> /\ m[1] = "PERSON"
    BY <1>5 DEF Marks
  <2>2. \A i \in 1..Len(m) : m[i] \in PlaceWords \cup {"_"}
    BY <2>1, ElementOfSeq
  <2>3. \A i \in 1..Len(m) : m[i] \in Inside /\ m[i] \notin Words
    BY <1>2, <2>2 DEF Inside
  <2>4. m \in Seq(Atoms)
    BY <1>3, <2>1, SeqMonotonic
  <2>5. Len(m) \in Nat \ {0}
    BY <2>1, EmptySeq
  <2> QED
    BY <2>1, <2>3, <2>4, <2>5
<1> QED
  BY <1>3, <1>4, <1>5

(* Literals that stand at a place fit there.                                 *)
LEMMA MarkedFits ==
  ASSUME NEW t \in Seq(Atoms), NEW found, Marked(t, found)
  PROVE  Fits(t, found)
<1> SUFFICES ASSUME NEW i \in 1..Len(t), found[i] # {}
             PROVE  Longest(found[i]) \in Pairs /\ i + Len(Longest(found[i]).from) <= Len(t) + 1
  BY DEF Fits
<1> DEFINE p == Longest(found[i])
<1>1. p = [from |-> p.from, to |-> p.to] /\ p.from \in Literals /\ p.to \in Marks /\ Occurs(t, i, p.from, Inside)
  BY DEF Marked
<1> HIDE DEF p
<1>2. p.from \in Seq(Atoms) /\ Len(p.from) # 0 /\ p.to \in Seq(Atoms)
  BY <1>1, Letterings
<1>3. i + Len(p.from) <= Len(t) + 1
  BY <1>1 DEF Occurs
<1>4. p.from # <<>>
  BY <1>2
<1>5. p \in Pairs
  BY <1>1, <1>2, <1>4 DEF Pairs
<1> QED
  BY <1>3, <1>5 DEF p

(* A place of t and the place of u where what comes from there begins.  Of   *)
(* the atoms before them, if there are any, both belong to words or they are *)
(* the same.                                                                 *)
RestOf(u, j) == SubSeq(u, j, Len(u))
SameAtom(u, j, t, i) == u[j] = t[i]
IsPut(s, a, b) == s = a \o b
Meets(t, w, u, i, j) ==
  /\ i \in 1..(Len(t) + 1) /\ j \in 1..(Len(u) + 1)
  /\ RestOf(u, j) = w[i]
  /\ i = 1 <=> j = 1
  /\ i > 1 => u[j - 1] = t[i - 1] \/ (u[j - 1] \in Inside /\ t[i - 1] \in Inside)

(* What is put out at a place stands there, and the rest behind it.          *)
LEMMA Remainder ==
  ASSUME NEW u \in Seq(Atoms), NEW j \in 1..(Len(u) + 1), NEW a \in Seq(Atoms), NEW b \in Seq(Atoms),
         IsPut(RestOf(u, j), a, b), NEW h, h = j + Len(a)
  PROVE  /\ h \in 1..(Len(u) + 1)
         /\ RestOf(u, h) = b
         /\ \A k \in 1..Len(a) : j + k - 1 \in 1..Len(u) /\ u[j + k - 1] = a[k]
<1> DEFINE n == Len(u)
           r == SubSeq(u, j, n)
<1>1. n \in Nat /\ Len(a) \in Nat /\ Len(b) \in Nat /\ \A i \in 1..n : u[i] \in Atoms
  OBVIOUS
<1>0. r = a \o b
  BY DEF RestOf, IsPut
<1>2. Len(r) = n - j + 1 /\ \A k \in 1..(n - j + 1) : r[k] = u[j + k - 1]
  OBVIOUS
<1>3. Len(r) = Len(a) + Len(b)
  BY <1>0, ConcatProperties
<1>4. \A k \in 1..Len(a) : r[k] = a[k]
  BY <1>0, ConcatProperties
<1>5. \A k \in 1..Len(b) : r[Len(a) + k] = b[k]
  BY <1>0, ConcatProperties
<1> HIDE DEF r
<1>6. j + Len(a) \in 1..(n + 1)
  BY <1>1, <1>2, <1>3
<1>7. SubSeq(u, j + Len(a), n) = b
  <2> DEFINE s == SubSeq(u, j + Len(a), n)
  <2>1. s \in Seq(Atoms) /\ Len(s) = n - (j + Len(a)) + 1 /\ \A k \in 1..Len(s) : s[k] = u[j + Len(a) + k - 1]
    <3> DEFINE x == j + Len(a)
    <3>1. x \in 1..(n + 1)
      BY <1>6
    <3> HIDE DEF x
    <3>2. SubSeq(u, x, n) \in Seq(Atoms) /\ Len(SubSeq(u, x, n)) = n - x + 1
          /\ \A k \in 1..(n - x + 1) : SubSeq(u, x, n)[k] = u[x + k - 1]
      BY <3>1
    <3> QED
      BY <3>2 DEF x
  <2> HIDE DEF s
  <2>2. Len(s) = Len(b)
    <3>1. j \in Nat
      OBVIOUS
    <3> HIDE DEF n
    <3>2. n - j + 1 = Len(a) + Len(b)
      BY <1>2, <1>3
    <3>3. Len(s) = n - (j + Len(a)) + 1
      BY <2>1
    <3> QED
      BY <1>1, <3>1, <3>2, <3>3
  <2>3. ASSUME NEW k \in 1..Len(b) PROVE s[k] = b[k]
    <3>1. Len(a) + k \in 1..(n - j + 1) /\ j + (Len(a) + k) - 1 = j + Len(a) + k - 1
      BY <1>1, <1>2, <1>3
    <3> QED
      BY <1>2, <1>5, <2>1, <2>2, <2>3, <3>1
  <2>4. s = b
    BY <1>1, <2>1, <2>2, <2>3, SeqEqual
  <2> QED
    BY <2>4 DEF s
<1>8. ASSUME NEW k \in 1..Len(a) PROVE j + k - 1 \in 1..n /\ u[j + k - 1] = a[k]
  <2> HIDE DEF n
  <2>1. k \in 1..(n - j + 1) /\ j + k - 1 \in 1..n
    BY <1>1, <1>2, <1>3
  <2> QED
    BY <1>2, <1>4, <2>1
<1> QED
  BY <1>6, <1>7, <1>8 DEF RestOf

Walked(t, found, w) ==
  /\ Marked(t, found)
  /\ w \in [1..(Len(t) + 1) -> Seq(Atoms)]
  /\ Walks(w, Len(t), Behind(t, found), PutOut(t, found))

(* Text and result meet at their first places.                               *)
LEMMA MeetsFirst ==
  ASSUME NEW t \in Seq(Atoms), NEW found, NEW w, Walked(t, found, w)
  PROVE  w[1] \in Seq(Atoms) /\ Meets(t, w, w[1], 1, 1)
<1>1. 1 \in 1..(Len(t) + 1)
  OBVIOUS
<1>2. w[1] \in Seq(Atoms)
  BY <1>1 DEF Walked
<1>3. SubSeq(w[1], 1, Len(w[1])) = w[1] /\ 1 \in 1..(Len(w[1]) + 1)
  BY <1>2
<1> QED
  BY <1>1, <1>2, <1>3 DEF Meets, RestOf

(* Where nothing is found they agree, and meet one atom further.             *)
LEMMA MeetsPlain ==
  ASSUME NEW t \in Seq(Atoms), NEW found, NEW w, Walked(t, found, w), NEW u \in Seq(Atoms),
         NEW i, NEW j, Meets(t, w, u, i, j), i # Len(t) + 1, found[i] = {}
  PROVE  j \in 1..Len(u) /\ SameAtom(u, j, t, i) /\ Meets(t, w, u, i + 1, j + 1)
<1>1. i \in 1..Len(t) /\ i + 1 \in 1..(Len(t) + 1) /\ j \in 1..(Len(u) + 1)
  BY DEF Meets
<1>2. t[i] \in Atoms /\ <<t[i]>> \in Seq(Atoms) /\ Len(<<t[i]>>) = 1 /\ <<t[i]>>[1] = t[i]
  BY <1>1
<1>3. w[i] = <<t[i]>> \o w[i + 1] /\ w[i + 1] \in Seq(Atoms)
  BY <1>1 DEF Walked, Walks, Behind, PutOut
<1>4. RestOf(u, j) = <<t[i]>> \o w[i + 1]
  BY <1>3 DEF Meets
<1>5. /\ j + 1 \in 1..(Len(u) + 1) /\ RestOf(u, j + 1) = w[i + 1]
      /\ \A k \in 1..1 : j + k - 1 \in 1..Len(u) /\ u[j + k - 1] = <<t[i]>>[k]
  <2> DEFINE a == <<t[i]>>
             b == w[i + 1]
  <2>1. a \in Seq(Atoms) /\ b \in Seq(Atoms) /\ IsPut(RestOf(u, j), a, b) /\ Len(a) = 1
    BY <1>2, <1>3, <1>4 DEF IsPut
  <2> HIDE DEF a, b
  <2>2. /\ j + Len(a) \in 1..(Len(u) + 1) /\ RestOf(u, j + Len(a)) = b
        /\ \A k \in 1..Len(a) : j + k - 1 \in 1..Len(u) /\ u[j + k - 1] = a[k]
    <3> DEFINE h == j + Len(a)
    <3>1. h = j + Len(a)
      OBVIOUS
    <3> HIDE DEF h
    <3>2. h \in 1..(Len(u) + 1) /\ RestOf(u, h) = b
      <4>1. j \in 1..(Len(u) + 1) /\ a \in Seq(Atoms) /\ b \in Seq(Atoms) /\ IsPut(RestOf(u, j), a, b)
        BY <1>1, <2>1
      <4> QED
        BY <3>1, <4>1, Remainder
    <3>3. \A k \in 1..Len(a) : j + k - 1 \in 1..Len(u) /\ u[j + k - 1] = a[k]
      BY <1>1, <2>1, <3>1, Remainder
    <3> QED
      BY <3>1, <3>2, <3>3
  <2>3. /\ j + 1 \in 1..(Len(u) + 1) /\ RestOf(u, j + 1) = b
        /\ \A k \in 1..1 : j + k - 1 \in 1..Len(u) /\ u[j + k - 1] = a[k]
    BY <2>1, <2>2
  <2> QED
    BY <2>3 DEF a, b
<1>6. j \in 1..Len(u) /\ u[j] = t[i]
  <2>1. j + 1 - 1 = j /\ 1 \in 1..1
    BY <1>1
  <2> QED
    BY <1>2, <1>5, <2>1
<1>7. i + 1 # 1 /\ j + 1 # 1 /\ (i + 1) - 1 = i /\ (j + 1) - 1 = j
  BY <1>1
<1> QED
  BY <1>1, <1>5, <1>6, <1>7 DEF Meets, SameAtom

(* Where a literal is found its placeholder stands; they meet behind both.   *)
LEMMA MeetsMarked ==
  ASSUME NEW t \in Seq(Atoms), NEW found, NEW w, Walked(t, found, w), NEW u \in Seq(Atoms),
         NEW i, NEW j, Meets(t, w, u, i, j), i # Len(t) + 1, found[i] # {},
         NEW p, p = Longest(found[i])
  PROVE  /\ j \in 1..Len(u) /\ u[j] = "PERSON"
         /\ \A k \in 1..Len(p.to) : j + k - 1 \in 1..Len(u) /\ u[j + k - 1] = p.to[k]
         /\ i + Len(p.from) \in (i + 1)..(Len(t) + 1)
         /\ Meets(t, w, u, i + Len(p.from), j + Len(p.to))
<1>1. i \in 1..Len(t) /\ j \in 1..(Len(u) + 1)
  BY DEF Meets
<1>2. p.from \in Literals /\ p.to \in Marks /\ Occurs(t, i, p.from, Inside)
  BY <1>1 DEF Walked, Marked
<1> DEFINE a == Len(p.from)
           b == Len(p.to)
<1>3. a \in Nat \ {0} /\ b \in Nat \ {0} /\ p.to \in Seq(Atoms) /\ p.from \in Seq(Atoms) /\ p.to[1] = "PERSON"
      /\ p.to[b] \in Inside /\ p.from[a] \in Inside
  <2>1. \A k \in 1..b : p.to[k] \in Inside
    BY <1>2, Letterings
  <2>2. b \in Nat \ {0}
    BY <1>2, Letterings
  <2>3. b \in 1..b
    BY <2>2
  <2> QED
    BY <1>2, <2>1, <2>3, Letterings
<1>4. i + a <= Len(t) + 1 /\ SubSeq(t, i, i + a - 1) = p.from
  BY <1>2 DEF Occurs
<1> HIDE DEF a, b
<1>5. i + a \in (i + 1)..(Len(t) + 1) /\ i + a \in 1..(Len(t) + 1)
  BY <1>1, <1>3, <1>4
<1>6. w[i] = p.to \o w[i + a] /\ w[i + a] \in Seq(Atoms)
  BY <1>1, <1>5 DEF Walked, Walks, Behind, PutOut, a
<1>7. RestOf(u, j) = p.to \o w[i + a]
  BY <1>6 DEF Meets
<1>8. /\ j + b \in 1..(Len(u) + 1) /\ RestOf(u, j + b) = w[i + a]
      /\ \A k \in 1..b : j + k - 1 \in 1..Len(u) /\ u[j + k - 1] = p.to[k]
  <2> DEFINE o == p.to
             r == w[i + a]
  <2>1. o \in Seq(Atoms) /\ r \in Seq(Atoms) /\ IsPut(RestOf(u, j), o, r) /\ Len(o) = b
    BY <1>3, <1>6, <1>7 DEF b, IsPut
  <2> HIDE DEF o, r
  <2>2. /\ j + Len(o) \in 1..(Len(u) + 1) /\ RestOf(u, j + Len(o)) = r
        /\ \A k \in 1..Len(o) : j + k - 1 \in 1..Len(u) /\ u[j + k - 1] = o[k]
    <3> DEFINE h == j + Len(o)
    <3>1. h = j + Len(o)
      OBVIOUS
    <3> HIDE DEF h
    <3>2. h \in 1..(Len(u) + 1) /\ RestOf(u, h) = r
      BY <1>1, <2>1, <3>1, Remainder
    <3>3. \A k \in 1..Len(o) : j + k - 1 \in 1..Len(u) /\ u[j + k - 1] = o[k]
      BY <1>1, <2>1, <3>1, Remainder
    <3> QED
      BY <3>1, <3>2, <3>3
  <2>3. /\ j + b \in 1..(Len(u) + 1) /\ RestOf(u, j + b) = r
        /\ \A k \in 1..b : j + k - 1 \in 1..Len(u) /\ u[j + k - 1] = o[k]
    BY <2>1, <2>2
  <2> QED
    BY <2>3 DEF o, r
<1>9. j \in 1..Len(u) /\ u[j] = "PERSON"
  <2>1. j + 1 - 1 = j /\ 1 \in 1..b
    BY <1>1, <1>3
  <2> QED
    BY <1>3, <1>8, <2>1
<1>10. u[j + b - 1] \in Inside /\ t[i + a - 1] \in Inside
  <2>1. b \in 1..b
    BY <1>3
  <2>2. u[j + b - 1] = p.to[b]
    BY <1>8, <2>1
  <2>3. p.from[a] = t[i + a - 1]
    <3>1. a \in 1..((i + a - 1) - i + 1) /\ i + a - 1 \in 1..Len(t) /\ i - 1 + a = i + a - 1
      BY <1>1, <1>3, <1>5
    <3>2. \A k \in i..(i + a - 1) : t[k] \in Atoms
      <4>1. \A k \in 1..Len(t) : t[k] \in Atoms
        OBVIOUS
      <4>2. \A k \in i..(i + a - 1) : k \in 1..Len(t)
        BY <1>1, <3>1
      <4> QED
        BY <4>1, <4>2
    <3>3. SubSeq(t, i, i + a - 1)[a] = t[i + a - 1]
      BY <1>1, <1>3, <3>1, <3>2, SubSeqProperties
    <3> QED
      BY <1>4, <3>3
  <2> QED
    BY <1>3, <2>2, <2>3
<1>11. i + a # 1 /\ j + b # 1
  BY <1>1, <1>3
<1>12. Meets(t, w, u, i + a, j + b)
  <2> DEFINE x == i + a
             y == j + b
  <2>1. /\ x \in 1..(Len(t) + 1) /\ y \in 1..(Len(u) + 1) /\ RestOf(u, y) = w[x]
        /\ x # 1 /\ y # 1 /\ u[y - 1] \in Inside /\ t[x - 1] \in Inside
    <3>1. x \in 1..(Len(t) + 1) /\ y \in 1..(Len(u) + 1) /\ x # 1 /\ y # 1
      BY <1>5, <1>8, <1>11
    <3>2. RestOf(u, y) = w[x]
      BY <1>8
    <3>3. u[y - 1] \in Inside /\ t[x - 1] \in Inside
      <4>1. y - 1 = j + b - 1 /\ x - 1 = i + a - 1
        BY <1>1, <1>3
      <4> HIDE DEF x, y
      <4> QED
        BY <1>10, <4>1
    <3> QED
      BY <3>1, <3>2, <3>3
  <2> HIDE DEF x, y
  <2>2. Meets(t, w, u, x, y)
    BY <2>1 DEF Meets
  <2> QED
    BY <2>2 DEF x, y
<1> QED
  BY <1>5, <1>8, <1>9, <1>12 DEF a, b

(* They end together.                                                        *)
LEMMA MeetsEnd ==
  ASSUME NEW t \in Seq(Atoms), NEW found, NEW w, Walked(t, found, w), NEW u \in Seq(Atoms),
         NEW j, Meets(t, w, u, Len(t) + 1, j)
  PROVE  j = Len(u) + 1
<1>1. j \in 1..(Len(u) + 1) /\ RestOf(u, j) = <<>>
  BY DEF Meets, Walked, Walks
<1>2. ASSUME j \in 1..Len(u) PROVE FALSE
  <2>1. Len(RestOf(u, j)) = Len(u) - j + 1
    BY <1>2 DEF RestOf
  <2>2. Len(<<>>) = 0
    OBVIOUS
  <2> QED
    BY <1>1, <1>2, <2>1, <2>2
<1> QED
  BY <1>1, <1>2

(* A text does not lose its place: each atom of u is an atom of t that       *)
(* nothing was found at, or of a placeholder.                                *)
LEMMA Unreplaced ==
  ASSUME NEW t \in Seq(Atoms), NEW found, NEW w, Walked(t, found, w), NEW u, u = w[1],
         NEW j \in 1..Len(u), u[j] \in Words
  PROVE  \E i \in 1..Len(t) : Meets(t, w, u, i, j) /\ found[i] = {}
<1> DEFINE P(i) == Longest(found[i])
           In(m) == \E i \in 1..(Len(t) + 1), d \in Nat :
                      /\ Meets(t, w, u, i, m - d)
                      /\ d = 0 \/ (i # Len(t) + 1 /\ found[i] # {} /\ d < Len(P(i).to))
           S == {m \in Nat : m < Len(u) => In(m + 1)}
<1>1. u \in Seq(Atoms) /\ Meets(t, w, u, 1, 1)
  BY MeetsFirst
<1>2. Len(u) \in Nat /\ Len(t) \in Nat
  BY <1>1
<1>3. 0 \in S
  <2>1. 1 \in 1..(Len(t) + 1) /\ 1 - 0 = 1
    BY <1>2
  <2>2. In(1)
    BY <1>1, <2>1
  <2> QED
    BY <2>2
<1>4. ASSUME NEW m \in Nat, m \in S, m < Len(u) PROVE m + 1 \in S
  <2> SUFFICES ASSUME m + 1 < Len(u) PROVE In(m + 2)
    <3> HIDE DEF In
    <3> QED
      BY <1>2
  <2>1. In(m + 1)
    <3> HIDE DEF In
    <3> QED
      BY <1>4
  <2>2. PICK i \in 1..(Len(t) + 1), d \in Nat :
               /\ Meets(t, w, u, i, (m + 1) - d)
               /\ d = 0 \/ (i # Len(t) + 1 /\ found[i] # {} /\ d < Len(P(i).to))
    BY <2>1
  <2>3. i # Len(t) + 1
    <3>1. CASE i = Len(t) + 1
      <4>1. (m + 1) - d = Len(u) + 1
        BY <1>1, <2>2, <3>1, MeetsEnd
      <4> QED
        BY <1>2, <1>4, <4>1
    <3> QED
      BY <3>1
  <2>4. CASE found[i] = {}
    <3>1. d = 0 /\ (m + 1) - 0 = m + 1
      BY <2>2, <2>4
    <3>2. Meets(t, w, u, i + 1, (m + 1) + 1)
      BY <1>1, <2>2, <2>3, <2>4, <3>1, MeetsPlain
    <3>3. i + 1 \in 1..(Len(t) + 1) /\ (m + 2) - 0 = (m + 1) + 1
      BY <1>2, <2>3
    <3> QED
      BY <3>2, <3>3
  <2>5. CASE found[i] # {}
    <3> DEFINE b == Len(P(i).to)
               a == Len(P(i).from)
               j0 == (m + 1) - d
    <3>1. i + a \in 1..(Len(t) + 1) /\ Meets(t, w, u, i + a, j0 + b)
      <4>1. i + a \in (i + 1)..(Len(t) + 1) /\ Meets(t, w, u, i + a, j0 + b)
        <5> HIDE DEF j0
        <5>1. Meets(t, w, u, i, j0)
          BY <2>2 DEF j0
        <5> QED
          BY <1>1, <2>3, <2>5, <5>1, MeetsMarked
      <4>2. \A x \in (i + 1)..(Len(t) + 1) : x \in 1..(Len(t) + 1)
        BY <1>2
      <4> HIDE DEF a, b, j0
      <4> QED
        BY <4>1, <4>2
    <3>2. b \in Nat \ {0}
      <4>1. P(i).to \in Marks
        <5>1. i \in 1..Len(t) /\ Marked(t, found)
          BY <1>2, <2>3 DEF Walked
        <5> QED
          BY <2>5, <5>1 DEF Marked
      <4> QED
        BY <4>1, Letterings
    <3> HIDE DEF b, a
    <3>3. d < b
      BY <2>2, <3>2 DEF b
    <3>4. CASE d + 1 < b
      <4>1. (m + 2) - (d + 1) = j0 /\ d + 1 \in Nat
        OBVIOUS
      <4> QED
        BY <2>2, <2>3, <2>5, <3>4, <4>1 DEF b
    <3>5. CASE d + 1 = b
      <4>1. j0 + b = (m + 2) - 0
        BY <3>5
      <4>2. Meets(t, w, u, i + a, (m + 2) - 0)
        BY <3>1, <4>1
      <4> QED
        BY <3>1, <4>2
    <3>6. d + 1 < b \/ d + 1 = b
      BY <3>2, <3>3
    <3> QED
      BY <3>4, <3>5, <3>6
  <2> QED
    BY <2>4, <2>5
<1> HIDE DEF In
<1>5. In(j)
  <2>1. \A m \in Nat : m \in S /\ m < Len(u) => m + 1 \in S
    BY <1>4
  <2> HIDE DEF S
  <2>2. \A m \in 0..Len(u) : m \in S
    BY <1>2, <1>3, <2>1, UpTo
  <2>3. j - 1 \in S /\ j - 1 < Len(u) /\ (j - 1) + 1 = j
    BY <1>2, <2>2
  <2> QED
    BY <2>3 DEF S
<1>6. PICK i \in 1..(Len(t) + 1), d \in Nat :
             /\ Meets(t, w, u, i, j - d)
             /\ d = 0 \/ (i # Len(t) + 1 /\ found[i] # {} /\ d < Len(P(i).to))
  BY <1>5 DEF In
<1>7. ASSUME i # Len(t) + 1, found[i] # {}, d < Len(P(i).to) PROVE FALSE
  <2>1. P(i).to \in Marks
    <3>1. i \in 1..Len(t) /\ Marked(t, found)
      BY <1>2, <1>7 DEF Walked
    <3> QED
      BY <1>7, <3>1 DEF Marked
  <2>2. Len(P(i).to) \in Nat \ {0} /\ \A k \in 1..Len(P(i).to) : P(i).to[k] \notin Words
    BY <2>1, Letterings
  <2>3. \A k \in 1..Len(P(i).to) : u[(j - d) + k - 1] = P(i).to[k]
    <3> DEFINE j0 == j - d
    <3>1. Meets(t, w, u, i, j0)
      BY <1>6
    <3> HIDE DEF j0
    <3>2. \A k \in 1..Len(P(i).to) : u[j0 + k - 1] = P(i).to[k]
      BY SMTT(30), <1>1, <1>7, <3>1, MeetsMarked
    <3> QED
      BY <3>2 DEF j0
  <2>4. d + 1 \in 1..Len(P(i).to) /\ (j - d) + (d + 1) - 1 = j
    BY <1>7, <2>2
  <2> QED
    BY <2>2, <2>3, <2>4
<1>8. d = 0 /\ Meets(t, w, u, i, j)
  <2>1. d = 0
    BY <1>6, <1>7
  <2> QED
    BY <1>6, <2>1
<1>9. i # Len(t) + 1
  <2>1. CASE i = Len(t) + 1
    <3>1. j = Len(u) + 1
      BY <1>1, <1>8, <2>1, MeetsEnd
    <3> QED
      BY <1>2, <3>1
  <2> QED
    BY <2>1
<1>10. found[i] = {}
  <2>1. CASE found[i] # {}
    <3>1. u[j] = "PERSON"
      BY <1>1, <1>8, <1>9, <2>1, MeetsMarked
    <3> QED
      BY <3>1, Letterings
  <2> QED
    BY <2>1
<1> QED
  BY <1>8, <1>9, <1>10

(* What occurs at a place is there atom by atom,                             *)
LEMMA OccursAtoms ==
  ASSUME NEW u \in Seq(Atoms), NEW j \in 1..Len(u), NEW v \in Seq(Atoms), NEW F, Occurs(u, j, v, F)
  PROVE  /\ j + Len(v) <= Len(u) + 1
         /\ \A k \in 1..Len(v) : j + k - 1 \in 1..Len(u) /\ u[j + k - 1] = v[k]
<1> DEFINE L == Len(v)
           n == Len(u)
<1>1. L \in Nat /\ n \in Nat /\ \A k \in 1..n : u[k] \in Atoms
  OBVIOUS
<1>2. j + L <= n + 1 /\ SubSeq(u, j, j + L - 1) = v
  BY DEF Occurs
<1> HIDE DEF L, n
<1>3. ASSUME NEW k \in 1..L PROVE j + k - 1 \in 1..n /\ u[j + k - 1] = v[k]
  <2>1. j + k - 1 \in 1..n /\ j \in Int /\ j + L - 1 \in Int /\ k \in 1..((j + L - 1) - j + 1)
    BY <1>1, <1>2 DEF n
  <2>2. \A x \in j..(j + L - 1) : u[x] \in Atoms
    <3>1. \A x \in j..(j + L - 1) : x \in 1..n
      BY <1>1, <1>2 DEF n
    <3> QED
      BY <1>1, <3>1
  <2>3. SubSeq(u, j, j + L - 1)[k] = u[j + k - 1]
    BY <2>1, <2>2, SubSeqProperties
  <2> QED
    BY <1>2, <2>1, <2>3
<1> QED
  BY <1>2, <1>3 DEF L, n

(* and the other way round.                                                  *)
LEMMA AtomsOccur ==
  ASSUME NEW t \in Seq(Atoms), NEW i \in 1..Len(t), NEW v \in Seq(Atoms), i + Len(v) <= Len(t) + 1,
         \A k \in 1..Len(v) : t[i + k - 1] = v[k]
  PROVE  SubSeq(t, i, i + Len(v) - 1) = v
<1> DEFINE L == Len(v)
           n == Len(t)
           s == SubSeq(t, i, i + L - 1)
<1>1. L \in Nat /\ n \in Nat /\ (\A k \in 1..n : t[k] \in Atoms) /\ i + L <= n + 1 /\ i \in 1..n
  OBVIOUS
<1>2. \A k \in 1..L : t[i + k - 1] = v[k]
  OBVIOUS
<1> HIDE DEF L, n
<1>3. \A x \in i..(i + L - 1) : t[x] \in Atoms
  <2>1. \A x \in i..(i + L - 1) : x \in 1..n
    BY <1>1
  <2> QED
    BY <1>1, <2>1
<1>4. i \in Int /\ i + L - 1 \in Int /\ (i + L - 1) - i + 1 = L
  BY <1>1
<1>5. s \in Seq(Atoms) /\ Len(s) = (IF i <= i + L - 1 THEN (i + L - 1) - i + 1 ELSE 0)
      /\ \A k \in 1..((i + L - 1) - i + 1) : s[k] = t[i + k - 1]
  BY <1>3, <1>4, SubSeqProperties
<1> HIDE DEF s
<1>6. Len(s) = L
  BY <1>1, <1>4, <1>5
<1>7. \A k \in 1..Len(s) : s[k] = v[k]
  BY <1>2, <1>4, <1>5, <1>6
<1>8. s = v
  BY <1>5, <1>6, <1>7, SeqEqual DEF L
<1> QED
  BY <1>8 DEF s, L

(* So a literal that stands free in u stands as free in t, where nothing was *)
(* found.                                                                    *)
LEMMA NothingNew ==
  ASSUME NEW t \in Seq(Atoms), NEW found, NEW w, Walked(t, found, w), NEW u, u = w[1],
         NEW F, Inside \subseteq F, NEW v \in Literals, NEW j \in 1..Len(u), Occurs(u, j, v, F)
  PROVE  \E i \in 1..Len(t) : found[i] = {} /\ Occurs(t, i, v, F)
<1> DEFINE L == Len(v)
<1>1. u \in Seq(Atoms)
  BY MeetsFirst
<1>2. v \in Seq(Atoms) /\ L \in Nat \ {0} /\ v[1] \in Words /\ \A k \in 1..L : v[k] # "PERSON"
  BY Letterings
<1>3. j + L <= Len(u) + 1 /\ \A k \in 1..L : j + k - 1 \in 1..Len(u) /\ u[j + k - 1] = v[k]
  BY <1>1, <1>2, OccursAtoms
<1>4. Fenced(u, j, L, F)
  BY DEF Occurs
<1>5. Len(u) \in Nat /\ Len(t) \in Nat
  BY <1>1
<1> HIDE DEF L
<1>6. u[j] = v[1]
  <2>1. 1 \in 1..L /\ j + 1 - 1 = j
    BY <1>2, <1>5
  <2> QED
    BY <1>3, <2>1
<1>7. PICK i \in 1..Len(t) : Meets(t, w, u, i, j) /\ found[i] = {}
  BY <1>2, <1>6, Unreplaced
<1> DEFINE G(m) == /\ Meets(t, w, u, i + m, j + m) /\ i + m # Len(t) + 1 /\ found[i + m] = {}
                   /\ t[i + m] = v[m + 1]
           S == {m \in Nat : m < L => \A k \in 0..m : G(k)}
<1>8. ASSUME NEW m \in Nat, m < L, Meets(t, w, u, i + m, j + m) PROVE G(m)
  <2> DEFINE x == i + m
             y == j + m
  <2>1. x \in Int /\ y \in 1..Len(u) /\ Meets(t, w, u, x, y) /\ u[y] = v[m + 1] /\ v[m + 1] # "PERSON"
    <3>1. m + 1 \in 1..L /\ j + (m + 1) - 1 = y
      BY <1>2, <1>5, <1>8
    <3> QED
      BY <1>2, <1>3, <1>8, <3>1
  <2> HIDE DEF x, y
  <2>2. x # Len(t) + 1
    <3>1. CASE x = Len(t) + 1
      <4>1. y = Len(u) + 1
        BY <1>1, <2>1, <3>1, MeetsEnd
      <4> QED
        BY <1>5, <2>1, <4>1
    <3> QED
      BY <3>1
  <2>3. found[x] = {}
    <3>1. CASE found[x] # {}
      <4>1. u[y] = "PERSON"
        BY <1>1, <2>1, <2>2, <3>1, MeetsMarked
      <4> QED
        BY <2>1, <4>1
    <3> QED
      BY <3>1
  <2>4. u[y] = t[x]
    <3>1. SameAtom(u, y, t, x)
      BY <1>1, <2>1, <2>2, <2>3, MeetsPlain
    <3> QED
      BY <3>1 DEF SameAtom
  <2> QED
    BY <2>1, <2>2, <2>3, <2>4 DEF x, y
<1>9. ASSUME NEW m \in Nat, G(m) PROVE Meets(t, w, u, i + (m + 1), j + (m + 1))
  <2> DEFINE x == i + m
             y == j + m
  <2>1. Meets(t, w, u, x, y) /\ x # Len(t) + 1 /\ found[x] = {}
    BY <1>9
  <2>2. i + (m + 1) = x + 1 /\ j + (m + 1) = y + 1
    BY <1>5
  <2> HIDE DEF x, y
  <2>3. Meets(t, w, u, x + 1, y + 1)
    BY <1>1, <2>1, MeetsPlain
  <2> QED
    BY <2>2, <2>3
<1> HIDE DEF G
<1>10. \A m \in 0..(L - 1) : G(m)
  <2>1. 0 \in S
    <3>1. i + 0 = i /\ j + 0 = j /\ 0 < L
      BY <1>2, <1>5
    <3>2. G(0)
      BY <1>7, <1>8, <3>1
    <3>3. \A k \in 0..0 : k = 0
      OBVIOUS
    <3> QED
      BY <3>2, <3>3
  <2>2. ASSUME NEW m \in Nat, m \in S, m < L PROVE m + 1 \in S
    <3>1. \A k \in 0..m : G(k)
      BY <2>2
    <3>2. G(m)
      BY <3>1
    <3>3. m + 1 < L => G(m + 1)
      BY <1>8, <1>9, <3>2
    <3>4. \A k \in 0..(m + 1) : k \in 0..m \/ k = m + 1
      OBVIOUS
    <3> QED
      BY <3>1, <3>3, <3>4
  <2> HIDE DEF S
  <2>3. \A m \in 0..L : m \in S
    BY <1>2, <2>1, <2>2, UpTo
  <2>4. L - 1 \in S /\ L - 1 < L
    BY <1>2, <2>3
  <2> QED
    BY <2>4 DEF S
<1>11. Meets(t, w, u, i + L, j + L)
  <2>1. L - 1 \in Nat /\ L - 1 \in 0..(L - 1) /\ (L - 1) + 1 = L
    BY <1>2
  <2> QED
    BY <1>9, <1>10, <2>1
<1>12. i + L <= Len(t) + 1 /\ SubSeq(t, i, i + L - 1) = v
  <2>1. i + L <= Len(t) + 1
    <3>1. i + L \in 1..(Len(t) + 1)
      BY <1>11 DEF Meets
    <3> QED
      BY <1>5, <3>1
  <2>2. ASSUME NEW k \in 1..L PROVE t[i + k - 1] = v[k]
    <3>1. k - 1 \in 0..(L - 1) /\ i + (k - 1) = i + k - 1 /\ (k - 1) + 1 = k
      BY <1>2
    <3>2. t[i + (k - 1)] = v[(k - 1) + 1]
      BY <1>10, <3>1 DEF G
    <3> QED
      BY <3>1, <3>2
  <2> QED
    BY <1>2, <2>1, <2>2, AtomsOccur DEF L
<1>13. i > 1 => t[i - 1] \notin F
  <2> SUFFICES ASSUME i > 1 PROVE t[i - 1] \notin F
    OBVIOUS
  <2>1. j > 1 /\ (u[j - 1] = t[i - 1] \/ u[j - 1] \in Inside)
    BY <1>7 DEF Meets
  <2>2. u[j - 1] \notin F
    BY <1>4, <2>1 DEF Fenced
  <2> QED
    BY <2>1, <2>2
<1>14. i + L <= Len(t) => t[i + L] \notin F
  <2> DEFINE x == i + L
             y == j + L
  <2> SUFFICES ASSUME x <= Len(t) PROVE t[x] \notin F
    OBVIOUS
  <2>1. x # Len(t) + 1 /\ Meets(t, w, u, x, y) /\ (y <= Len(u) => u[y] \notin F)
    BY <1>2, <1>4, <1>5, <1>11 DEF Fenced
  <2> HIDE DEF x, y
  <2>2. CASE found[x] = {}
    <3>1. y \in 1..Len(u) /\ SameAtom(u, y, t, x)
      BY <1>1, <2>1, <2>2, MeetsPlain
    <3> QED
      BY <1>5, <2>1, <3>1 DEF SameAtom
  <2>3. CASE found[x] # {}
    <3>1. y \in 1..Len(u) /\ u[y] = "PERSON"
      BY <1>1, <2>1, <2>3, MeetsMarked
    <3> QED
      BY <1>5, <2>1, <3>1, Letterings
  <2> QED
    BY <2>2, <2>3
<1>15. Occurs(t, i, v, F)
  BY <1>12, <1>13, <1>14 DEF Occurs, Fenced, L
<1> QED
  BY <1>7, <1>15

(* And a pass over u that finds the placeholders where they are, and nothing *)
(* between them, puts t together again.                                      *)
Reverses(t, found, w, u, back) ==
  \A i, j : Meets(t, w, u, i, j) /\ i # Len(t) + 1 =>
    /\ found[i] = {} => back[j] = {}
    /\ found[i] # {} => back[j] = {[from |-> Longest(found[i]).to, to |-> Longest(found[i]).from]}

(* A text from a place on is what stands there and the rest.                 *)
LEMMA RestSplits ==
  ASSUME NEW t \in Seq(Atoms), NEW i \in 1..Len(t), NEW L \in Nat \ {0}, i + L <= Len(t) + 1
  PROVE  SubSeq(t, i, i + L - 1) \o RestOf(t, i + L) = RestOf(t, i)
<1>1. /\ i \in 1..(Len(t) + 1) /\ i + L - 1 \in (i - 1)..Len(t) /\ Len(t) \in (i + L - 1)..Len(t)
      /\ (i + L - 1) + 1 = i + L
  OBVIOUS
<1>2. SubSeq(t, i, i + L - 1) \o SubSeq(t, (i + L - 1) + 1, Len(t)) = SubSeq(t, i, Len(t))
  BY <1>1, ConcatAdjacentSubSeq
<1> QED
  BY <1>1, <1>2 DEF RestOf

(* Of one pair the longest is that pair.                                     *)
LEMMA LongestOfOne ==
  ASSUME NEW p
  PROVE  Letters(p.from) \in Nat => Longest({p}) = p
<1> SUFFICES ASSUME Letters(p.from) \in Nat PROVE Longest({p}) = p
  OBVIOUS
<1>1. Letters(p.from) >= Letters(p.from)
  OBVIOUS
<1>2. \E x \in {p} : \A q \in {p} : Letters(x.from) >= Letters(q.from)
  BY <1>1
<1>3. Longest({p}) \in {p}
  BY <1>2 DEF Longest
<1> QED
  BY <1>3

(* A pass that finds at each placeholder its literal brings the text back.   *)
LEMMA ComesBack ==
  ASSUME NEW t \in Seq(Atoms), NEW found, NEW w, Walked(t, found, w), NEW u, u = w[1],
         NEW back, Fits(u, back), Reverses(t, found, w, u, back)
  PROVE  Replaced(u, back) = t
<1> DEFINE n == Len(t)
           P(i) == Longest(found[i])
<1>1. u \in Seq(Atoms) /\ Meets(t, w, u, 1, 1) /\ n \in Nat
  BY MeetsFirst
<1>2. PICK r \in [1..(Len(u) + 1) -> Seq(Atoms)] :
           Walks(r, Len(u), Behind(u, back), PutOut(u, back)) /\ Replaced(u, back) = r[1]
  BY <1>1, ReplacedWalks
<1> DEFINE S == {m \in Nat : \A i, j : Meets(t, w, u, i, j) /\ i + m > n => r[j] = RestOf(t, i)}
<1>3. 0 \in S
  <2>1. ASSUME NEW i, NEW j, Meets(t, w, u, i, j), i + 0 > n PROVE r[j] = RestOf(t, i)
    <3>1. i = n + 1
      <4>1. i \in 1..(n + 1)
        BY <2>1 DEF Meets
      <4> QED
        BY <1>1, <2>1, <4>1
    <3>2. j = Len(u) + 1
      BY <1>1, <2>1, <3>1, MeetsEnd
    <3>3. r[j] = <<>>
      BY <1>2, <3>2 DEF Walks
    <3>4. RestOf(t, i) = <<>>
      BY <3>1 DEF RestOf
    <3> QED
      BY <3>3, <3>4
  <2> QED
    BY <2>1
<1>4. ASSUME NEW m \in Nat, m \in S, m < n PROVE m + 1 \in S
  <2>1. ASSUME NEW i, NEW j, Meets(t, w, u, i, j), i + (m + 1) > n PROVE r[j] = RestOf(t, i)
    <3>1. i \in 1..(n + 1) /\ j \in 1..(Len(u) + 1)
      BY <2>1 DEF Meets
    <3>2. \A x, y : Meets(t, w, u, x, y) /\ x > i => r[y] = RestOf(t, x)
      <4>1. ASSUME NEW x, NEW y, Meets(t, w, u, x, y), x > i PROVE r[y] = RestOf(t, x)
        <5>1. x \in 1..(n + 1)
          BY <4>1 DEF Meets
        <5>2. x + m > n
          BY <1>1, <2>1, <3>1, <4>1, <5>1
        <5> QED
          BY <1>4, <4>1, <5>2
      <4> QED
        BY <4>1
    <3>3. CASE i = n + 1
      <4>1. i + m > n
        BY <1>1, <3>3
      <4> QED
        BY <1>4, <2>1, <4>1
    <3>4. CASE i # n + 1 /\ found[i] = {}
      <4>1. j \in 1..Len(u) /\ SameAtom(u, j, t, i) /\ Meets(t, w, u, i + 1, j + 1)
        BY <1>1, <2>1, <3>4, MeetsPlain
      <4>2. back[j] = {}
        BY <2>1, <3>4 DEF Reverses
      <4>3. r[j] = <<u[j]>> \o r[j + 1]
        BY <1>2, <4>1, <4>2 DEF Walks, Behind, PutOut
      <4>4. i + 1 > i /\ i \in 1..n
        BY <1>1, <3>1, <3>4
      <4>5. r[j + 1] = RestOf(t, i + 1)
        BY <3>2, <4>1, <4>4
      <4>6. r[j] = <<t[i]>> \o RestOf(t, i + 1)
        BY <4>1, <4>3, <4>5 DEF SameAtom
      <4>7. RestOf(t, i) = <<t[i]>> \o RestOf(t, i + 1)
        <5>1. n \in i..Len(t)
          BY <1>1, <4>4
        <5> QED
          BY <4>4, <5>1, SubSeqRecursiveFirst DEF RestOf
      <4> QED
        BY <4>6, <4>7
    <3>5. CASE i # n + 1 /\ found[i] # {}
      <4> DEFINE a == Len(P(i).from)
                 b == Len(P(i).to)
                 q == [from |-> P(i).to, to |-> P(i).from]
      <4>0. i \in 1..n
        BY <1>1, <3>1, <3>5
      <4>1. P(i).from \in Literals /\ P(i).to \in Marks /\ Occurs(t, i, P(i).from, Inside)
        BY <3>5, <4>0 DEF Walked, Marked
      <4>2. P(i).from \in Seq(Atoms) /\ a \in Nat \ {0} /\ P(i).to \in Seq(Atoms)
        BY <4>1, Letterings
      <4>3. j \in 1..Len(u) /\ i + a \in (i + 1)..(n + 1) /\ Meets(t, w, u, i + a, j + b)
        BY <1>1, <2>1, <3>5, MeetsMarked
      <4>4. back[j] = {q}
        BY <2>1, <3>5 DEF Reverses
      <4>5. Longest(back[j]) = q
        <5>1. q.from = P(i).to
          OBVIOUS
        <5>2. Letters(q.from) \in Nat
          BY <4>2, <5>1, LettersCount
        <5> HIDE DEF q
        <5> QED
          BY <4>4, <5>2, LongestOfOne
      <4>6. r[j] = q.to \o r[j + Len(q.from)]
        <5> HIDE DEF q
        <5>1. back[j] # {}
          BY <4>4
        <5> QED
          BY <1>2, <4>3, <4>5, <5>1 DEF Walks, Behind, PutOut
      <4>7. q.to = P(i).from /\ Len(q.from) = b
        OBVIOUS
      <4>8. r[j] = P(i).from \o r[j + b]
        BY <4>6, <4>7
      <4> HIDE DEF a, b, q
      <4>9. r[j + b] = RestOf(t, i + a)
        <5>1. i + a > i
          BY <1>1, <4>0, <4>2
        <5> QED
          BY <3>2, <4>3, <5>1
      <4>10. SubSeq(t, i, i + a - 1) = P(i).from /\ i + a <= n + 1
        BY <4>1 DEF Occurs, a
      <4>11. SubSeq(t, i, i + a - 1) \o RestOf(t, i + a) = RestOf(t, i)
        BY <4>0, <4>2, <4>10, RestSplits
      <4> QED
        BY <4>8, <4>9, <4>10, <4>11
    <3> QED
      BY <3>3, <3>4, <3>5
  <2> QED
    BY <2>1
<1>5. n \in S
  <2>1. \A m \in Nat : m \in S /\ m < n => m + 1 \in S
    BY <1>4
  <2> HIDE DEF S
  <2>2. \A m \in 0..n : m \in S
    BY <1>1, <1>3, <2>1, UpTo
  <2> QED
    BY <1>1, <2>2
<1>6. r[1] = RestOf(t, 1)
  <2>1. 1 + n > n
    BY <1>1
  <2> QED
    BY <1>1, <1>5, <2>1
<1>7. RestOf(t, 1) = t
  BY DEF RestOf
<1> QED
  BY <1>2, <1>6, <1>7

-----------------------------------------------------------------------------
(* What a table is: no two of its forms have one placeholder.                *)
Kinds == {"", "NAME", "EMAIL", "SLUG", "LOCAL", "GIVEN", "FAMILY"}
Forms == {f \in [id : 1..Most, value : Literals, part : BOOLEAN, kind : Kinds, n : 1..Most] : f.kind = "" => f.n = 1}
IsTable(table) ==
  /\ table \in Seq(Forms)
  /\ \A j, k \in 1..Len(table) :
       table[j].id = table[k].id /\ table[j].kind = table[k].kind /\ table[j].n = table[k].n => j = k

(* The pieces of a placeholder, put together.                                *)
LEMMA TuplesJoined ==
  ASSUME NEW a, NEW b, NEW c, NEW d, NEW e, NEW g
  PROVE  /\ <<a, b, c>> \o <<>> = <<a, b, c>>
         /\ <<a, b, c>> \o (<<d, e>> \o <<>>) = <<a, b, c, d, e>>
         /\ <<a, b, c>> \o (<<d, e>> \o <<g>>) = <<a, b, c, d, e, g>>
<1> DEFINE T == {a, b, c, d, e, g}
<1>1. <<a, b, c>> \in Seq(T) /\ <<d, e>> \in Seq(T) /\ <<g>> \in Seq(T)
  OBVIOUS
<1>2. <<a, b, c>> \o <<>> = <<a, b, c>> /\ <<d, e>> \o <<>> = <<d, e>>
  BY <1>1, ConcatEmptySeq
<1>3. <<a, b, c>> \o <<d, e>> = <<a, b, c, d, e>>
  <2> DEFINE s == <<a, b, c>> \o <<d, e>>
             r == <<a, b, c, d, e>>
  <2>1. s \in Seq(T) /\ Len(s) = 5 /\ s[1] = a /\ s[2] = b /\ s[3] = c /\ s[4] = d /\ s[5] = e
    OBVIOUS
  <2>2. r \in Seq(T) /\ Len(r) = 5 /\ r[1] = a /\ r[2] = b /\ r[3] = c /\ r[4] = d /\ r[5] = e
    OBVIOUS
  <2>3. \A i \in 1..5 : i = 1 \/ i = 2 \/ i = 3 \/ i = 4 \/ i = 5
    OBVIOUS
  <2> HIDE DEF s, r
  <2>4. \A i \in 1..5 : s[i] = r[i]
    BY <2>1, <2>2, <2>3
  <2>5. s = r
    BY <2>1, <2>2, <2>4, SeqEqual
  <2> QED
    BY <2>5 DEF s, r
<1>4. <<d, e>> \o <<g>> = <<d, e, g>>
  <2> DEFINE s == <<d, e>> \o <<g>>
             r == <<d, e, g>>
  <2>1. s \in Seq(T) /\ Len(s) = 3 /\ s[1] = d /\ s[2] = e /\ s[3] = g
    OBVIOUS
  <2>2. r \in Seq(T) /\ Len(r) = 3 /\ r[1] = d /\ r[2] = e /\ r[3] = g
    OBVIOUS
  <2>3. \A i \in 1..3 : i = 1 \/ i = 2 \/ i = 3
    OBVIOUS
  <2> HIDE DEF s, r
  <2>4. \A i \in 1..3 : s[i] = r[i]
    BY <2>1, <2>2, <2>3
  <2>5. s = r
    BY <2>1, <2>2, <2>4, SeqEqual
  <2> QED
    BY <2>5 DEF s, r
<1>5. <<a, b, c>> \o <<d, e, g>> = <<a, b, c, d, e, g>>
  <2> DEFINE s == <<a, b, c>> \o <<d, e, g>>
             r == <<a, b, c, d, e, g>>
  <2>1. s \in Seq(T) /\ Len(s) = 6 /\ s[1] = a /\ s[2] = b /\ s[3] = c /\ s[4] = d /\ s[5] = e /\ s[6] = g
    OBVIOUS
  <2>2. r \in Seq(T) /\ Len(r) = 6 /\ r[1] = a /\ r[2] = b /\ r[3] = c /\ r[4] = d /\ r[5] = e /\ r[6] = g
    OBVIOUS
  <2>3. \A i \in 1..6 : i = 1 \/ i = 2 \/ i = 3 \/ i = 4 \/ i = 5 \/ i = 6
    OBVIOUS
  <2> HIDE DEF s, r
  <2>4. \A i \in 1..6 : s[i] = r[i]
    BY <2>1, <2>2, <2>3
  <2>5. s = r
    BY <2>1, <2>2, <2>4, SeqEqual
  <2> QED
    BY <2>5 DEF s, r
<1> QED
  BY <1>2, <1>3, <1>4, <1>5

(* How a placeholder is spelled, by kind and number.                         *)
LEMMA PlaceholderIs ==
  ASSUME NEW f \in Forms
  PROVE  /\ f.kind = "" => Placeholder(f) = <<"PERSON", "_", Digit(f.id)>>
         /\ f.kind # "" /\ f.n = 1 => Placeholder(f) = <<"PERSON", "_", Digit(f.id), "_", f.kind>>
         /\ f.kind # "" /\ f.n # 1 => Placeholder(f) = <<"PERSON", "_", Digit(f.id), "_", f.kind, Digit(f.n)>>
<1>1. CASE f.kind = ""
  <2>1. Placeholder(f) = <<"PERSON", "_", Digit(f.id)>> \o <<>>
    BY <1>1 DEF Placeholder, Bare
  <2> QED
    BY <1>1, <2>1, TuplesJoined
<1>2. CASE f.kind # "" /\ f.n = 1
  <2>1. Placeholder(f) = <<"PERSON", "_", Digit(f.id)>> \o (<<"_", f.kind>> \o <<>>)
    BY <1>2 DEF Placeholder, Bare
  <2> QED
    BY ZenonT(30), <1>2, <2>1, TuplesJoined
<1>3. CASE f.kind # "" /\ f.n # 1
  <2>1. Placeholder(f) = <<"PERSON", "_", Digit(f.id)>> \o (<<"_", f.kind>> \o <<Digit(f.n)>>)
    BY <1>3 DEF Placeholder, Bare
  <2> QED
    BY <1>3, <2>1, TuplesJoined
<1> QED
  BY <1>1, <1>2, <1>3

(* Each begins with PERSON and is made of pieces of placeholders.            *)
LEMMA PlaceholderMarks ==
  /\ \A f \in Forms : Placeholder(f) \in Marks
  /\ \A id \in 1..Most : Bare(id) \in Marks
<1> DEFINE T == PlaceWords \cup {"_"}
<1>1. "PERSON" \in T /\ "_" \in T /\ (\A n \in 1..Most : Digit(n) \in T) /\ \A k \in Kinds : k # "" => k \in T
  <2>1. \A n \in 1..Most : Digit(n) \in T
    BY Digits
  <2> QED
    BY <2>1 DEF PlaceWords, Kinds
<1> HIDE DEF T
<1>2. \A a, b, c, d, e, g \in T : <<a, b, c>> \in Seq(T) /\ <<a, b, c, d, e>> \in Seq(T) /\ <<a, b, c, d, e, g>> \in Seq(T)
  OBVIOUS
<1>3. ASSUME NEW id \in 1..Most PROVE Bare(id) \in Marks
  <2>1. Bare(id) = <<"PERSON", "_", Digit(id)>>
    BY DEF Bare
  <2>2. <<"PERSON", "_", Digit(id)>> \in Seq(T)
    BY <1>1, <1>2
  <2>3. <<"PERSON", "_", Digit(id)>> # <<>> /\ <<"PERSON", "_", Digit(id)>>[1] = "PERSON"
    OBVIOUS
  <2> QED
    BY <2>1, <2>2, <2>3 DEF Marks, T
<1>4. ASSUME NEW f \in Forms PROVE Placeholder(f) \in Marks
  <2>1. f.id \in 1..Most /\ f.kind \in Kinds /\ f.n \in 1..Most
    BY DEF Forms
  <2>2. Digit(f.id) \in T /\ Digit(f.n) \in T /\ (f.kind # "" => f.kind \in T)
    BY <1>1, <2>1
  <2>3. CASE f.kind = ""
    <3>1. Placeholder(f) = <<"PERSON", "_", Digit(f.id)>>
      BY <2>3, PlaceholderIs
    <3>2. <<"PERSON", "_", Digit(f.id)>> \in Seq(T)
      BY <1>1, <1>2, <2>2
    <3>3. <<"PERSON", "_", Digit(f.id)>> # <<>> /\ <<"PERSON", "_", Digit(f.id)>>[1] = "PERSON"
      OBVIOUS
    <3> QED
      BY <3>1, <3>2, <3>3 DEF Marks, T
  <2>4. CASE f.kind # "" /\ f.n = 1
    <3> DEFINE m == <<"PERSON", "_", Digit(f.id), "_", f.kind>>
    <3>1. Placeholder(f) = m
      BY <2>4, PlaceholderIs
    <3>2. m \in Seq(T)
      BY <1>1, <1>2, <2>2, <2>4
    <3>3. m # <<>> /\ m[1] = "PERSON"
      OBVIOUS
    <3> QED
      BY <3>1, <3>2, <3>3 DEF Marks, T
  <2>5. CASE f.kind # "" /\ f.n # 1
    <3> DEFINE m == <<"PERSON", "_", Digit(f.id), "_", f.kind, Digit(f.n)>>
    <3>1. Placeholder(f) = m
      BY <2>5, PlaceholderIs
    <3>2. m \in Seq(T)
      BY <1>1, <1>2, <2>2, <2>5
    <3>3. m # <<>> /\ m[1] = "PERSON"
      OBVIOUS
    <3> QED
      BY <3>1, <3>2, <3>3 DEF Marks, T
  <2> QED
    BY <2>3, <2>4, <2>5
<1> QED
  BY <1>3, <1>4

(* Its spelling tells person, kind and number.                               *)
LEMMA PlaceholderOnce ==
  ASSUME NEW f \in Forms, NEW g \in Forms, Placeholder(f) = Placeholder(g)
  PROVE  f.id = g.id /\ f.kind = g.kind /\ f.n = g.n
<1> DEFINE p == Placeholder(f)
           Reads(h) == /\ p[3] = Digit(h.id)
                       /\ Len(p) = 3 <=> h.kind = ""
                       /\ h.kind # "" => p[5] = h.kind /\ (Len(p) = 5 <=> h.n = 1) /\ (h.n # 1 => p[6] = Digit(h.n))
<1>1. ASSUME NEW h \in Forms, p = Placeholder(h) PROVE Reads(h)
  <2> HIDE DEF p
  <2>1. CASE h.kind = ""
    <3>1. p = <<"PERSON", "_", Digit(h.id)>>
      BY <1>1, <2>1, PlaceholderIs
    <3> QED
      BY <2>1, <3>1
  <2>2. CASE h.kind # "" /\ h.n = 1
    <3>1. p = <<"PERSON", "_", Digit(h.id), "_", h.kind>>
      BY <1>1, <2>2, PlaceholderIs
    <3>2. Len(p) = 5 /\ p[3] = Digit(h.id) /\ p[5] = h.kind
      BY <3>1
    <3>3. Len(p) # 3
      BY <3>2
    <3>4. /\ Len(p) = 3 <=> h.kind = ""
          /\ Len(p) = 5 <=> h.n = 1
          /\ h.n # 1 => p[6] = Digit(h.n)
      BY <2>2, <3>2, <3>3
    <3> QED
      BY <3>2, <3>4
  <2>3. CASE h.kind # "" /\ h.n # 1
    <3>1. p = <<"PERSON", "_", Digit(h.id), "_", h.kind, Digit(h.n)>>
      BY <1>1, <2>3, PlaceholderIs
    <3>2. Len(p) = 6 /\ p[3] = Digit(h.id) /\ p[5] = h.kind /\ p[6] = Digit(h.n)
      BY <3>1
    <3>3. Len(p) # 3 /\ Len(p) # 5
      BY <3>2
    <3>4. /\ Len(p) = 3 <=> h.kind = ""
          /\ Len(p) = 5 <=> h.n = 1
      BY <2>3, <3>3
    <3> QED
      BY <3>2, <3>4
  <2> QED
    BY <2>1, <2>2, <2>3
<1>2. Reads(f) /\ Reads(g)
  <2> HIDE DEF Reads
  <2> QED
    BY <1>1
<1>3. \A h \in Forms : h.id \in 1..Most /\ h.n \in 1..Most /\ (h.kind = "" => h.n = 1)
  BY DEF Forms
<1> HIDE DEF p
<1>4. f.kind = g.kind
  <2>1. CASE f.kind = ""
    BY <1>2, <2>1
  <2>2. CASE f.kind # ""
    <3>1. g.kind # ""
      BY <1>2, <2>2
    <3>2. p[5] = f.kind
      BY <1>2, <2>2
    <3>3. p[5] = g.kind
      BY <1>2, <3>1
    <3> QED
      BY <3>2, <3>3
  <2> QED
    BY <2>1, <2>2
<1>5. f.id = g.id
  <2>1. Digit(f.id) = Digit(g.id)
    BY <1>2
  <2> QED
    BY <1>3, <2>1, Digits
<1>6. f.n = g.n
  <2>1. CASE f.kind = ""
    BY <1>3, <1>4, <2>1
  <2>2. CASE f.kind # "" /\ f.n = 1
    BY <1>2, <1>4, <2>2
  <2>3. CASE f.kind # "" /\ f.n # 1
    <3>1. Digit(f.n) = Digit(g.n)
      BY <1>2, <1>4, <2>3
    <3> QED
      BY <1>3, <3>1, Digits
  <2> QED
    BY <2>1, <2>2, <2>3
<1> QED
  BY <1>4, <1>5, <1>6

-----------------------------------------------------------------------------
(* What a table finds at a place: it marks the text, and where it finds      *)
(* nothing none of its literals stands free.                                 *)
FenceOf(form) == IF form.part THEN Inside \cup {"-"} ELSE Inside
WholesAt(table, t, i) == {k \in DOMAIN table : table[k].part = FALSE /\ Occurs(t, i, table[k].value, Inside)}
PartsAt(table, t, i) == {k \in DOMAIN table : table[k].part = TRUE /\ Occurs(t, i, table[k].value, Inside \cup {"-"})}
PairsOf(table, K) == {[from |-> table[k].value, to |-> Placeholder(table[k])] : k \in K}
FoundAt(table, t, i) ==
  IF PairsOf(table, WholesAt(table, t, i)) # {} THEN PairsOf(table, WholesAt(table, t, i))
  ELSE PairsOf(table, PartsAt(table, t, i))
Found(table, t) == [i \in DOMAIN t |-> FoundAt(table, t, i)]

(* Apply is the pass over what the table finds.                              *)
LEMMA ApplyIs ==
  ASSUME NEW t, NEW table
  PROVE  Apply(t, table) = Replaced(t, Found(table, t))
BY DEF Apply, Found, FoundAt, PairsOf, WholesAt, PartsAt

(* What the entries of a table are.                                          *)
LEMMA FormsAre ==
  ASSUME NEW table, IsTable(table)
  PROVE  /\ Len(table) \in Nat /\ DOMAIN table = 1..Len(table)
         /\ \A k \in 1..Len(table) : /\ table[k] \in Forms /\ table[k].value \in Literals /\ table[k].part \in BOOLEAN
                                     /\ Placeholder(table[k]) \in Marks
                                     /\ Letters(table[k].value) \in Nat
<1>1. table \in Seq(Forms)
  BY DEF IsTable
<1>2. \A k \in 1..Len(table) : table[k] \in Forms
  BY <1>1
<1>3. \A f \in Forms : f.value \in Literals /\ f.part \in BOOLEAN
  BY DEF Forms
<1>4. \A v \in Literals : Letters(v) \in Nat
  BY Letterings, LettersCount
<1> QED
  BY <1>1, <1>2, <1>3, <1>4, PlaceholderMarks

(* The longest of what is found is an entry.                                 *)
LEMMA PairsFound ==
  ASSUME NEW table, IsTable(table), NEW K, K \subseteq 1..Len(table), PairsOf(table, K) # {}
  PROVE  \E k \in K : Longest(PairsOf(table, K)) = [from |-> table[k].value, to |-> Placeholder(table[k])]
<1> DEFINE f == [k \in 1..Len(table) |-> [from |-> table[k].value, to |-> Placeholder(table[k])]]
           P == PairsOf(table, K)
<1>1. P = {f[k] : k \in K}
  BY DEF PairsOf
<1>2. K # {} /\ Len(table) \in Nat
  BY <1>1, FormsAre
<1>3. \A k \in K : Letters(f[k].from) \in Nat
  BY FormsAre
<1> HIDE DEF P, f
<1>4. Longest(P) \in P
  BY <1>1, <1>2, <1>3, LongestIn
<1>5. PICK k \in K : Longest(P) = f[k]
  BY <1>1, <1>4
<1> QED
  BY <1>5 DEF P, f

(* It occurs within its fence, and where nothing is found no entry does.     *)
LEMMA FoundFits ==
  ASSUME NEW table, IsTable(table), NEW t \in Seq(Atoms), NEW i \in 1..Len(t)
  PROVE  /\ Found(table, t)[i] # {} => \E k \in 1..Len(table) :
              /\ Longest(Found(table, t)[i]) = [from |-> table[k].value, to |-> Placeholder(table[k])]
              /\ Occurs(t, i, table[k].value, FenceOf(table[k]))
         /\ Found(table, t)[i] = {} => \A k \in 1..Len(table) : ~ Occurs(t, i, table[k].value, FenceOf(table[k]))
<1> DEFINE W == PairsOf(table, WholesAt(table, t, i))
           Q == PairsOf(table, PartsAt(table, t, i))
           Stands(k) == Occurs(t, i, table[k].value, FenceOf(table[k]))
<1>1. Found(table, t)[i] = IF W # {} THEN W ELSE Q
  <2>1. DOMAIN t = 1..Len(t)
    OBVIOUS
  <2> QED
    BY <2>1 DEF Found, FoundAt
<1>2. /\ WholesAt(table, t, i) \subseteq 1..Len(table) /\ PartsAt(table, t, i) \subseteq 1..Len(table)
      /\ \A k \in WholesAt(table, t, i) \cup PartsAt(table, t, i) : Stands(k)
      /\ \A k \in 1..Len(table) : Stands(k) => k \in WholesAt(table, t, i) \cup PartsAt(table, t, i)
  BY FormsAre DEF WholesAt, PartsAt, FenceOf
<1>3. \A k \in WholesAt(table, t, i) \cup PartsAt(table, t, i) : W # {} \/ Q # {}
  BY DEF PairsOf
<1>4. ASSUME W # {}
      PROVE  \E k \in WholesAt(table, t, i) : Longest(W) = [from |-> table[k].value, to |-> Placeholder(table[k])]
  BY <1>2, <1>4, PairsFound
<1>5. ASSUME Q # {}
      PROVE  \E k \in PartsAt(table, t, i) : Longest(Q) = [from |-> table[k].value, to |-> Placeholder(table[k])]
  BY <1>2, <1>5, PairsFound
<1> HIDE DEF W, Q, Stands
<1> QED
  BY <1>1, <1>2, <1>3, <1>4, <1>5 DEF Stands

(* A fence with a hyphen is a fence.                                         *)
LEMMA FenceHolds ==
  ASSUME NEW t, NEW i, NEW v, NEW form, Occurs(t, i, v, FenceOf(form))
  PROVE  Occurs(t, i, v, Inside)
BY DEF Occurs, Fenced, FenceOf

(* So what is found are literals that stand free, and their placeholders.    *)
LEMMA FoundMarks ==
  ASSUME NEW table, IsTable(table), NEW t \in Seq(Atoms)
  PROVE  Marked(t, Found(table, t))
<1> SUFFICES ASSUME NEW i \in 1..Len(t), Found(table, t)[i] # {}
             PROVE  /\ Longest(Found(table, t)[i]).from \in Literals /\ Longest(Found(table, t)[i]).to \in Marks
                    /\ Longest(Found(table, t)[i])
                         = [from |-> Longest(Found(table, t)[i]).from, to |-> Longest(Found(table, t)[i]).to]
                    /\ Occurs(t, i, Longest(Found(table, t)[i]).from, Inside)
  BY DEF Marked
<1> DEFINE p == Longest(Found(table, t)[i])
<1>1. PICK k \in 1..Len(table) : /\ p = [from |-> table[k].value, to |-> Placeholder(table[k])]
                                 /\ Occurs(t, i, table[k].value, Inside)
  BY FoundFits, FenceHolds
<1>2. p.from = table[k].value /\ p.to = Placeholder(table[k])
  BY <1>1
<1>3. table[k].value \in Literals /\ Placeholder(table[k]) \in Marks
  BY FormsAre
<1> HIDE DEF p
<1>4. p.from \in Literals /\ p.to \in Marks /\ p = [from |-> p.from, to |-> p.to] /\ Occurs(t, i, p.from, Inside)
  BY <1>1, <1>2, <1>3
<1> QED
  BY <1>4 DEF p

(* The walk a table makes over a text.                                       *)
LEMMA ApplyWalks ==
  ASSUME NEW table, IsTable(table), NEW t \in Seq(Atoms)
  PROVE  \E w : Walked(t, Found(table, t), w) /\ Apply(t, table) = w[1]
<1>1. Marked(t, Found(table, t)) /\ Fits(t, Found(table, t))
  BY FoundMarks, MarkedFits
<1>2. PICK w \in [1..(Len(t) + 1) -> Seq(Atoms)] :
        Walks(w, Len(t), Behind(t, Found(table, t)), PutOut(t, Found(table, t))) /\ Replaced(t, Found(table, t)) = w[1]
  BY <1>1, ReplacedWalks
<1> QED
  BY <1>1, <1>2, ApplyIs DEF Walked

(* A second pass finds nothing.                                              *)
LEMMA AppliedOnce ==
  ASSUME NEW table, IsTable(table), NEW t \in Seq(Atoms)
  PROVE  Apply(Apply(t, table), table) = Apply(t, table)
<1> DEFINE found == Found(table, t)
           u == Apply(t, table)
<1>1. PICK w : Walked(t, found, w) /\ u = w[1]
  BY ApplyWalks
<1> HIDE DEF found, u
<1>2. u \in Seq(Atoms)
  BY <1>1, MeetsFirst
<1>3. ASSUME NEW j \in 1..Len(u), Found(table, u)[j] # {} PROVE FALSE
  <2>1. PICK k \in 1..Len(table) : Occurs(u, j, table[k].value, FenceOf(table[k]))
    BY <1>2, <1>3, FoundFits
  <2>2. table[k].value \in Literals /\ Inside \subseteq FenceOf(table[k])
    BY FormsAre DEF FenceOf
  <2>3. \E i \in 1..Len(t) : found[i] = {} /\ Occurs(t, i, table[k].value, FenceOf(table[k]))
    BY <1>1, <2>1, <2>2, NothingNew
  <2> QED
    BY <2>3, FoundFits DEF found
<1>4. Replaced(u, Found(table, u)) = u
  BY <1>2, <1>3, NothingReplaced
<1> QED
  BY <1>4, ApplyIs DEF u

-----------------------------------------------------------------------------
(* Putting back: each placeholder of the table stands for one literal, and   *)
(* where one stands free no other does.                                      *)
Turned(table) == {[from |-> Placeholder(table[k]), to |-> table[k].value] : k \in DOMAIN table}
Others(table, people) ==
  {[from |-> Bare(id), to |-> Fallback(people[id])] : id \in {p \in DOMAIN people : \A l \in Turned(table) : l.from # Bare(p)}}
BackAt(table, people, u, i) ==
  {p \in Turned(table) \cup Others(table, people) : p.to # <<>> /\ Occurs(u, i, p.from, Inside)}
Back(table, people, u) == [i \in DOMAIN u |-> BackAt(table, people, u, i)]

(* No two entries have one placeholder.                                      *)
LEMMA OneForm ==
  ASSUME NEW table, IsTable(table), NEW j \in 1..Len(table), NEW k \in 1..Len(table),
         Placeholder(table[j]) = Placeholder(table[k])
  PROVE  j = k
<1>1. table[j] \in Forms /\ table[k] \in Forms
  BY FormsAre
<1>2. table[j].id = table[k].id /\ table[j].kind = table[k].kind /\ table[j].n = table[k].n
  BY <1>1, PlaceholderOnce
<1> QED
  BY <1>2 DEF IsTable

(* Restore is the pass over what is found on the way back.                   *)
LEMMA RestoreIs ==
  ASSUME NEW table, IsTable(table), NEW people, NEW u
  PROVE  Restore(u, table, people) = Replaced(u, Back(table, people, u))
<1> DEFINE firsts == {k \in DOMAIN table : \A j \in 1..(k - 1) : Placeholder(table[j]) # Placeholder(table[k])}
<1>1. firsts = DOMAIN table
  <2>1. ASSUME NEW k \in 1..Len(table), NEW j \in 1..(k - 1), Placeholder(table[j]) = Placeholder(table[k]) PROVE FALSE
    <3>1. j \in 1..Len(table) /\ j # k
      BY <2>1, FormsAre
    <3> QED
      BY <2>1, <3>1, OneForm
  <2> QED
    BY <2>1, FormsAre
<1>2. Restore(u, table, people) =
        LET literals == {[from |-> Placeholder(table[k]), to |-> table[k].value] : k \in firsts}
            others   == {[from |-> Bare(id), to |-> Fallback(people[id])] :
                           id \in {p \in DOMAIN people : \A l \in literals : l.from # Bare(p)}}
            found(i) == {p \in literals \cup others : p.to # <<>> /\ Occurs(u, i, p.from, Inside)}
        IN  Replaced(u, [i \in DOMAIN u |-> found(i)])
  BY DEF Restore
<1> HIDE DEF firsts
<1> QED
  BY <1>1, <1>2 DEF Back, BackAt, Others, Turned

(* What is put back for is a placeholder.                                    *)
LEMMA BackPairs ==
  ASSUME NEW table, IsTable(table), NEW people, IsPeople(people), NEW p \in Turned(table) \cup Others(table, people)
  PROVE  p = [from |-> p.from, to |-> p.to] /\ p.from \in Marks /\ p.to \in Seq(Atoms)
<1>1. CASE p \in Turned(table)
  <2>1. PICK k \in 1..Len(table) : p = [from |-> Placeholder(table[k]), to |-> table[k].value]
    BY <1>1, FormsAre DEF Turned
  <2>2. Placeholder(table[k]) \in Marks /\ table[k].value \in Seq(Atoms)
    BY FormsAre, Letterings
  <2> QED
    BY <2>1, <2>2
<1>2. CASE p \in Others(table, people)
  <2>1. PICK id \in 1..Len(people) : p = [from |-> Bare(id), to |-> Fallback(people[id])]
    BY <1>2 DEF Others, IsPeople
  <2>2. id \in 1..Most /\ IsPerson(people[id])
    <3>1. Len(people) \in 0..Most /\ IsPerson(people[id])
      BY DEF IsPeople
    <3> DEFINE n == Len(people)
    <3>2. n \in 0..Most /\ id \in 1..n
      BY <3>1
    <3> HIDE DEF n
    <3>3. id \in 1..Most
      BY <3>2, MostIs
    <3> QED
      BY <3>1, <3>3
  <2>3. Bare(id) \in Marks
    BY <2>2, PlaceholderMarks
  <2>4. Fallback(people[id]) \in Seq(Natural)
    <3> DEFINE q == people[id]
    <3>1. q.variants \in Seq(Seq(Natural)) /\ (q.address = <<>> \/ q.address \in Seq(Natural))
      BY <2>2 DEF IsPerson, IsAddress, Spelled
    <3>2. q.variants # <<>> => q.variants[1] \in Seq(Natural)
      BY <3>1
    <3>3. q.address \in Seq(Natural)
      <4>1. <<>> \in Seq(Natural)
        BY EmptySeq
      <4> HIDE DEF q
      <4> QED
        BY <3>1, <4>1
    <3> QED
      BY <3>2, <3>3 DEF Fallback
  <2>5. Seq(Natural) \subseteq Seq(Atoms)
    BY SeqMonotonic DEF Natural
  <2> QED
    BY <2>1, <2>3, <2>4, <2>5
<1> QED
  BY <1>1, <1>2

(* Of two placeholders that stand free at a place none is longer,            *)
LEMMA MarksApart ==
  ASSUME NEW u \in Seq(Atoms), NEW j \in 1..Len(u), NEW a \in Marks, NEW b \in Marks,
         Occurs(u, j, a, Inside), Occurs(u, j, b, Inside)
  PROVE  Len(a) <= Len(b)
<1> SUFFICES ASSUME Len(b) < Len(a) PROVE FALSE
  BY Letterings
<1>1. a \in Seq(Atoms) /\ b \in Seq(Atoms) /\ Len(a) \in Nat \ {0} /\ Len(b) \in Nat \ {0}
  BY Letterings
<1> DEFINE k == Len(b) + 1
<1>2. k \in 1..Len(a) /\ j + k - 1 = j + Len(b) /\ a[k] \in Inside
  <2>1. k \in 1..Len(a) /\ j + k - 1 = j + Len(b)
    BY <1>1
  <2> QED
    BY <2>1, Letterings
<1> HIDE DEF k
<1>3. j + k - 1 \in 1..Len(u) /\ u[j + k - 1] = a[k]
  BY <1>1, <1>2, OccursAtoms
<1>4. j + Len(b) <= Len(u) /\ u[j + Len(b)] \in Inside
  BY <1>2, <1>3
<1> QED
  BY <1>4 DEF Occurs, Fenced

(* so they are the same.                                                     *)
LEMMA OneMark ==
  ASSUME NEW u \in Seq(Atoms), NEW j \in 1..Len(u), NEW a \in Marks, NEW b \in Marks,
         Occurs(u, j, a, Inside), Occurs(u, j, b, Inside)
  PROVE  a = b
<1>1. a \in Seq(Atoms) /\ b \in Seq(Atoms) /\ Len(a) \in Nat /\ Len(b) \in Nat
  BY Letterings
<1>2. Len(a) = Len(b)
  <2>1. Len(a) <= Len(b)
    BY MarksApart
  <2>2. Len(b) <= Len(a)
    BY MarksApart
  <2> QED
    BY <1>1, <2>1, <2>2
<1>3. /\ \A k \in 1..Len(a) : u[j + k - 1] = a[k]
      /\ \A k \in 1..Len(b) : u[j + k - 1] = b[k]
  BY <1>1, OccursAtoms
<1> QED
  BY <1>1, <1>2, <1>3, SeqEqual

(* What is found on the way back fits.                                       *)
LEMMA BackFits ==
  ASSUME NEW table, IsTable(table), NEW people, IsPeople(people), NEW u \in Seq(Atoms)
  PROVE  Fits(u, Back(table, people, u))
<1> SUFFICES ASSUME NEW j \in 1..Len(u), Back(table, people, u)[j] # {}
             PROVE  /\ Longest(Back(table, people, u)[j]) \in Pairs
                    /\ j + Len(Longest(Back(table, people, u)[j]).from) <= Len(u) + 1
  BY DEF Fits
<1> DEFINE B == Back(table, people, u)[j]
<1>1. B = BackAt(table, people, u, j)
  <2>1. DOMAIN u = 1..Len(u)
    OBVIOUS
  <2> QED
    BY <2>1 DEF Back
<1> HIDE DEF B
<1>2. PICK p \in B : TRUE
  BY DEF B
<1>3. \A q \in B : /\ q \in Turned(table) \cup Others(table, people) /\ Occurs(u, j, q.from, Inside)
                   /\ q = [from |-> q.from, to |-> q.to] /\ q.from \in Marks /\ q.to \in Seq(Atoms)
  BY <1>1, BackPairs DEF BackAt
<1>4. \A q \in B : q.from = p.from
  BY <1>3, OneMark
<1>5. Letters(p.from) \in Nat /\ p.from \in Seq(Atoms) /\ p.from # <<>>
  <2>1. p.from \in Marks
    BY <1>3
  <2> QED
    BY <2>1, Letterings, LettersCount DEF Marks
<1>6. \E x \in B : \A q \in B : Letters(x.from) >= Letters(q.from)
  <2>1. Letters(p.from) >= Letters(p.from)
    BY <1>5
  <2> QED
    BY <1>4, <2>1
<1>7. Longest(B) \in B
  BY <1>6 DEF Longest
<1> DEFINE r == Longest(B)
<1>8. r = [from |-> r.from, to |-> r.to] /\ r.from = p.from /\ r.to \in Seq(Atoms) /\ Occurs(u, j, r.from, Inside)
  BY <1>3, <1>4, <1>7
<1> HIDE DEF r
<1>9. r \in Pairs
  BY <1>5, <1>8 DEF Pairs
<1>10. j + Len(r.from) <= Len(u) + 1
  BY <1>8 DEF Occurs
<1> QED
  BY <1>9, <1>10 DEF r, B

(* Where the walk of a table puts a placeholder out, that placeholder is     *)
(* found, and nothing else; and where it puts out an atom of the text nothing*)
(* is, for no placeholder begins with one.                                   *)
LEMMA NoneBack ==
  ASSUME NEW table, IsTable(table), NEW people, IsPeople(people), NEW u \in Seq(Atoms), NEW j \in 1..Len(u),
         u[j] # "PERSON"
  PROVE  Back(table, people, u)[j] = {}
<1>1. Back(table, people, u)[j] = BackAt(table, people, u, j)
  <2>1. DOMAIN u = 1..Len(u)
    OBVIOUS
  <2> QED
    BY <2>1 DEF Back
<1>2. ASSUME NEW p \in BackAt(table, people, u, j) PROVE FALSE
  <2>1. p.from \in Marks /\ Occurs(u, j, p.from, Inside)
    BY <1>2, BackPairs DEF BackAt
  <2>2. p.from \in Seq(Atoms) /\ 1 \in 1..Len(p.from) /\ p.from[1] = "PERSON" /\ j + 1 - 1 = j
    BY <2>1, Letterings
  <2>3. u[j + 1 - 1] = p.from[1]
    BY <2>1, <2>2, OccursAtoms
  <2> QED
    BY <2>2, <2>3
<1> QED
  BY <1>1, <1>2

(* Where the placeholder of an entry stands free, only its literal is found. *)
LEMMA OneBack ==
  ASSUME NEW table, IsTable(table), NEW people, IsPeople(people), NEW u \in Seq(Atoms), NEW j \in 1..Len(u),
         NEW k \in 1..Len(table), Occurs(u, j, Placeholder(table[k]), Inside)
  PROVE  Back(table, people, u)[j] = {[from |-> Placeholder(table[k]), to |-> table[k].value]}
<1> DEFINE q == [from |-> Placeholder(table[k]), to |-> table[k].value]
<1>1. Back(table, people, u)[j] = BackAt(table, people, u, j)
  <2>1. DOMAIN u = 1..Len(u)
    OBVIOUS
  <2> QED
    BY <2>1 DEF Back
<1>2. table[k].value \in Literals /\ Placeholder(table[k]) \in Marks /\ DOMAIN table = 1..Len(table)
  BY FormsAre
<1>3. table[k].value # <<>>
  BY <1>2 DEF Literals, Spelled
<1>4. q \in Turned(table)
  BY <1>2 DEF Turned
<1>5. q \in BackAt(table, people, u, j)
  BY <1>3, <1>4 DEF BackAt
<1>6. ASSUME NEW p \in BackAt(table, people, u, j) PROVE p = q
  <2>1. p \in Turned(table) \cup Others(table, people) /\ p.from \in Marks /\ Occurs(u, j, p.from, Inside)
    BY <1>6, BackPairs DEF BackAt
  <2>2. p.from = Placeholder(table[k])
    BY <1>2, <2>1, OneMark
  <2>3. CASE p \in Turned(table)
    <3>1. PICK h \in 1..Len(table) : p = [from |-> Placeholder(table[h]), to |-> table[h].value]
      BY <1>2, <2>3 DEF Turned
    <3>2. h = k
      BY <2>2, <3>1, OneForm
    <3> QED
      BY <3>1, <3>2
  <2>4. CASE p \in Others(table, people)
    <3>1. PICK id : p = [from |-> Bare(id), to |-> Fallback(people[id])] /\ \A l \in Turned(table) : l.from # Bare(id)
      BY <2>4 DEF Others
    <3>2. q.from # Bare(id)
      BY <1>4, <3>1
    <3> QED
      BY <2>2, <3>1, <3>2
  <2> QED
    BY <2>1, <2>3, <2>4
<1> QED
  BY <1>1, <1>5, <1>6

(* A placeholder that is put in stands free in the result.                   *)
LEMMA PutFree ==
  ASSUME NEW table, IsTable(table), NEW t \in Seq(Atoms), NEW w, Walked(t, Found(table, t), w), NEW u \in Seq(Atoms),
         NEW i, NEW j, Meets(t, w, u, i, j), i # Len(t) + 1, Found(table, t)[i] # {},
         NEW p, p = Longest(Found(table, t)[i])
  PROVE  j \in 1..Len(u) /\ Occurs(u, j, p.to, Inside)
<1> DEFINE found == Found(table, t)
<1>1. i \in 1..Len(t) /\ j \in 1..(Len(u) + 1) /\ (i = 1 <=> j = 1)
      /\ (i > 1 => u[j - 1] = t[i - 1] \/ (u[j - 1] \in Inside /\ t[i - 1] \in Inside))
  BY DEF Meets
<1>2. p.from \in Literals /\ p.to \in Marks /\ Occurs(t, i, p.from, Inside)
  BY <1>1 DEF Walked, Marked
<1>3. /\ j \in 1..Len(u) /\ u[j] = "PERSON"
      /\ \A k \in 1..Len(p.to) : j + k - 1 \in 1..Len(u) /\ u[j + k - 1] = p.to[k]
      /\ i + Len(p.from) \in (i + 1)..(Len(t) + 1)
      /\ Meets(t, w, u, i + Len(p.from), j + Len(p.to))
  BY MeetsMarked
<1>4. p.to \in Seq(Atoms) /\ Len(p.to) \in Nat \ {0} /\ Len(p.from) \in Nat \ {0}
  BY <1>2, Letterings
<1>5. j + Len(p.to) <= Len(u) + 1
  BY <1>3 DEF Meets
<1>6. SubSeq(u, j, j + Len(p.to) - 1) = p.to
  BY <1>3, <1>4, <1>5, AtomsOccur
<1>7. j > 1 => u[j - 1] \notin Inside
  <2> SUFFICES ASSUME j > 1 PROVE u[j - 1] \notin Inside
    OBVIOUS
  <2>1. i > 1
    BY <1>1
  <2>2. t[i - 1] \notin Inside
    BY <1>2, <2>1 DEF Occurs, Fenced
  <2> QED
    BY <1>1, <2>1, <2>2
<1>8. j + Len(p.to) <= Len(u) => u[j + Len(p.to)] \notin Inside
  <2> DEFINE x == i + Len(p.from)
             y == j + Len(p.to)
  <2> SUFFICES ASSUME y <= Len(u) PROVE u[y] \notin Inside
    OBVIOUS
  <2>1. Meets(t, w, u, x, y) /\ x \in 1..(Len(t) + 1) /\ (x <= Len(t) => t[x] \notin Inside)
    <3>1. Meets(t, w, u, x, y) /\ (x <= Len(t) => t[x] \notin Inside)
      BY <1>2, <1>3 DEF Occurs, Fenced
    <3> QED
      BY <3>1 DEF Meets
  <2> HIDE DEF x, y
  <2>2. x # Len(t) + 1
    <3>1. ASSUME x = Len(t) + 1 PROVE FALSE
      <4>1. y = Len(u) + 1
        BY <2>1, <3>1, MeetsEnd
      <4> QED
        BY <4>1
    <3> QED
      BY <3>1
  <2>3. x \in 1..Len(t) /\ t[x] \notin Inside
    BY <2>1, <2>2
  <2>4. Found(table, t)[x] = {}
    <3>1. ASSUME Found(table, t)[x] # {} PROVE FALSE
      <4>1. PICK v \in Literals : Occurs(t, x, v, Inside)
        BY <2>3, <3>1 DEF Walked, Marked
      <4>2. v \in Seq(Atoms) /\ 1 \in 1..Len(v) /\ v[1] \in Inside /\ x + 1 - 1 = x
        BY <2>3, <4>1, Letterings
      <4>3. t[x + 1 - 1] = v[1]
        BY <2>3, <4>1, <4>2, OccursAtoms
      <4> QED
        BY <2>3, <4>2, <4>3
    <3> QED
      BY <3>1
  <2>5. SameAtom(u, y, t, x)
    BY <2>1, <2>2, <2>4, MeetsPlain
  <2> QED
    BY <2>3, <2>5 DEF SameAtom
<1> QED
  BY <1>3, <1>5, <1>6, <1>7, <1>8 DEF Occurs, Fenced

(* So the way back finds each literal at its placeholder, and no other.      *)
LEMMA BackReverses ==
  ASSUME NEW table, IsTable(table), NEW people, IsPeople(people), NEW t \in Seq(Natural),
         NEW w, Walked(t, Found(table, t), w), NEW u \in Seq(Atoms)
  PROVE  Reverses(t, Found(table, t), w, u, Back(table, people, u))
<1>1. t \in Seq(Atoms)
  BY SeqMonotonic DEF Natural
<1> SUFFICES ASSUME NEW i, NEW j, Meets(t, w, u, i, j), i # Len(t) + 1
             PROVE  /\ Found(table, t)[i] = {} => Back(table, people, u)[j] = {}
                    /\ Found(table, t)[i] # {} => Back(table, people, u)[j] =
                         {[from |-> Longest(Found(table, t)[i]).to, to |-> Longest(Found(table, t)[i]).from]}
  BY DEF Reverses
<1>2. i \in 1..Len(t)
  BY DEF Meets
<1>3. CASE Found(table, t)[i] = {}
  <2>1. j \in 1..Len(u) /\ SameAtom(u, j, t, i)
    BY <1>1, <1>3, MeetsPlain
  <2>2. t[i] # "PERSON"
    BY <1>2 DEF Natural
  <2>3. u[j] # "PERSON"
    BY <2>1, <2>2 DEF SameAtom
  <2> QED
    BY <1>3, <2>1, <2>3, NoneBack
<1>4. CASE Found(table, t)[i] # {}
  <2> DEFINE p == Longest(Found(table, t)[i])
  <2>1. PICK k \in 1..Len(table) : p = [from |-> table[k].value, to |-> Placeholder(table[k])]
    BY <1>1, <1>2, <1>4, FoundFits
  <2>2. p.from = table[k].value /\ p.to = Placeholder(table[k])
    BY <2>1
  <2>3. j \in 1..Len(u) /\ Occurs(u, j, p.to, Inside)
    BY <1>1, <1>4, PutFree
  <2> HIDE DEF p
  <2>4. Back(table, people, u)[j] = {[from |-> p.to, to |-> p.from]}
    BY <2>2, <2>3, OneBack
  <2> QED
    BY <1>4, <2>4 DEF p
<1> QED
  BY <1>3, <1>4

(* So a table in which no placeholder stands for two literals restores.      *)
LEMMA Restores ==
  ASSUME NEW table, IsTable(table), NEW people, IsPeople(people), NEW t \in Seq(Natural)
  PROVE  Restore(Apply(t, table), table, people) = t /\ Apply(Apply(t, table), table) = Apply(t, table)
<1>1. t \in Seq(Atoms)
  BY SeqMonotonic DEF Natural
<1>2. PICK w : Walked(t, Found(table, t), w) /\ Apply(t, table) = w[1]
  BY <1>1, ApplyWalks
<1> DEFINE u == Apply(t, table)
           back == Back(table, people, u)
<1>3. u = w[1] /\ u \in Seq(Atoms)
  BY <1>1, <1>2, MeetsFirst
<1> HIDE DEF u
<1>4. Fits(u, back) /\ Reverses(t, Found(table, t), w, u, back)
  BY <1>2, <1>3, BackFits, BackReverses
<1> HIDE DEF back
<1>5. Replaced(u, back) = t
  BY <1>1, <1>2, <1>3, <1>4, ComesBack
<1> QED
  BY <1>1, <1>5, AppliedOnce, RestoreIs DEF u, back

-----------------------------------------------------------------------------
(* The words of a name begin and end with a letter, and so does what is put  *)
(* together of them.                                                         *)
OneSplit(literal, acc, i) ==
  IF literal[i] \in {Space} THEN acc
  ELSE IF acc = <<>> \/ literal[i - 1] \in {Space} THEN Append(acc, <<literal[i]>>)
  ELSE [acc EXCEPT ![Len(acc)] = Append(@, literal[i])]

(* A step of the split leaves a sequence of words.                           *)
LEMMA OneSplitParts ==
  ASSUME NEW literal \in Seq(Natural), NEW acc \in Seq(Seq(Natural)), NEW i \in 1..Len(literal)
  PROVE  OneSplit(literal, acc, i) \in Seq(Seq(Natural))
<1>1. literal[i] \in Natural /\ <<literal[i]>> \in Seq(Natural)
  OBVIOUS
<1>2. Append(acc, <<literal[i]>>) \in Seq(Seq(Natural))
  BY <1>1, AppendProperties
<1>3. ASSUME acc # <<>> PROVE [acc EXCEPT ![Len(acc)] = Append(@, literal[i])] \in Seq(Seq(Natural))
  <2>1. Len(acc) \in 1..Len(acc) /\ acc[Len(acc)] \in Seq(Natural)
    BY <1>3
  <2>2. Append(acc[Len(acc)], literal[i]) \in Seq(Natural)
    BY <1>1, <2>1, AppendProperties
  <2> QED
    BY <2>1, <2>2, ExceptSeq
<1> QED
  BY <1>2, <1>3 DEF OneSplit

Places(n) == [i \in 1..n |-> i]
(* The split of a name is such steps, one for each atom.                     *)
LEMMA SplitSteps ==
  ASSUME NEW literal \in Seq(Natural)
  PROVE  \E c : /\ c[0] = <<>> /\ SplitOn({Space}, literal) = c[Len(literal)]
                /\ \A m \in Nat : m < Len(literal) => c[m + 1] = OneSplit(literal, c[m], Places(Len(literal))[m + 1])
<1> DEFINE n == Len(literal)
           A == Seq(Seq(Natural))
           B == 1..Len(literal)
           step == [p \in A \X B |-> OneSplit(literal, p[1], p[2])]
           Sums(c) == c = [s \in SUBSET (1..n) |-> IF s = {} THEN <<>> ELSE OneSplit(literal, c[s \ {Max(s)}], Places(Len(literal))[Max(s)])]
           sum == CHOOSE c : Sums(c)
<1>1. n \in Nat /\ DOMAIN literal = 1..n /\ Places(n) = [i \in DOMAIN literal |-> i] /\ Places(n) \in Seq(B)
      /\ Len(Places(n)) = n /\ DOMAIN Places(n) = 1..n /\ \A i \in 1..n : Places(n)[i] \in B
  BY DEF Places
<1>2. SplitOn({Space}, literal) = sum[1..n]
  BY <1>1 DEF SplitOn, FoldLeft, MapThenFoldSet, OneSplit
<1>3. \E c : Sums(c)
  <2>1. step \in [A \X B -> A] /\ <<>> \in A
    BY OneSplitParts, EmptySeq
  <2> HIDE DEF step, A, B
  <2>2. PICK c : Folds(c, A, Places(Len(literal)), <<>>, step)
    BY <1>1, <2>1, FoldExists
  <2>3. ASSUME NEW s \in SUBSET (1..n), s # {}
        PROVE step[<<c[s \ {Max(s)}], Places(Len(literal))[Max(s)]>>] = OneSplit(literal, c[s \ {Max(s)}], Places(Len(literal))[Max(s)])
    <3>1. Places(Len(literal))[Max(s)] \in B
      BY <1>1, <2>3, LastPlace
    <3>2. c[s \ {Max(s)}] \in A
      BY <1>1, <2>2, <2>3 DEF Folds
    <3> QED
      BY <3>1, <3>2 DEF step
  <2>4. c = [s \in SUBSET (1..n) |-> c[s]]
    BY <1>1, <2>2 DEF Folds
  <2>5. \A s \in SUBSET (1..n) : c[s] = IF s = {} THEN <<>> ELSE OneSplit(literal, c[s \ {Max(s)}], Places(Len(literal))[Max(s)])
    BY <1>1, <2>2, <2>3 DEF Folds
  <2> QED
    BY <2>4, <2>5
<1>4. Sums(sum)
  BY <1>3
<1> HIDE DEF sum
<1>5. sum[1..0] = <<>>
  <2>1. 1..0 \in SUBSET (1..n)
    BY <1>1
  <2> QED
    BY <1>4, <2>1, PlacesUpTo
<1>6. ASSUME NEW m \in Nat, m < n PROVE sum[1..(m + 1)] = OneSplit(literal, sum[1..m], Places(Len(literal))[m + 1])
  <2>1. \A s \in SUBSET (1..n) : s # {} => sum[s] = OneSplit(literal, sum[s \ {Max(s)}], Places(Len(literal))[Max(s)])
    BY <1>4
  <2> HIDE DEF n, Sums
  <2>2. 1..(m + 1) \in SUBSET (1..n)
    BY <1>1, <1>6, PlacesUpTo
  <2>3. 1..(m + 1) # {} /\ Max(1..(m + 1)) = m + 1 /\ (1..(m + 1)) \ {m + 1} = 1..m
    BY PlacesUpTo
  <2> QED
    BY <2>1, <2>2, <2>3, Zenon
<1> HIDE DEF n, Sums
<1> DEFINE c == [m \in 0..n |-> sum[1..m]]
<1>7. c[0] = <<>> /\ c[n] = sum[1..n] /\ \A m \in Nat : m < n => c[m + 1] = sum[1..(m + 1)] /\ c[m] = sum[1..m]
  BY <1>1, <1>5
<1> HIDE DEF c
<1>8. \A m \in Nat : m < n => c[m + 1] = OneSplit(literal, c[m], Places(Len(literal))[m + 1])
  BY <1>6, <1>7
<1>9. c[0] = <<>> /\ SplitOn({Space}, literal) = c[n]
  BY <1>2, <1>7
<1> QED
  BY <1>8, <1>9 DEF n

(* A sequence is over what its members are in.                               *)
LEMMA SeqNarrows ==
  ASSUME NEW S, NEW T, NEW s \in Seq(S), \A i \in 1..Len(s) : s[i] \in T
  PROVE  s \in Seq(T)
OBVIOUS

Begun(p) == p \in Seq(Natural) /\ p # <<>> /\ p[1] \in Words
Ended(p) == p[Len(p)] \in Words
(* What is made of a name up to a place: words, of which the last may still  *)
(* be growing.                                                               *)
PartsAre(name, m, parts) ==
  /\ parts \in Seq(Seq(Natural)) /\ (m > 0 => parts # <<>>) /\ (m = 0 => parts = <<>>)
  /\ \A k \in 1..Len(parts) : Begun(parts[k]) /\ (k < Len(parts) \/ name[m] = Space => Ended(parts[k]))
  /\ m > 0 /\ name[m] # Space => parts[Len(parts)][Len(parts[Len(parts)])] = name[m]

(* A word that begins with a letter and gets an atom still does.             *)
LEMMA PartGrows ==
  ASSUME NEW p, Begun(p), NEW x \in Natural
  PROVE  LET q == Append(p, x) IN Begun(q) /\ q[Len(q)] = x
<1>1. p \in Seq(Natural) /\ Len(p) \in Nat \ {0} /\ p[1] \in Words
  BY DEF Begun
<1> DEFINE q == Append(p, x)
<1>2. q \in Seq(Natural) /\ Len(q) = Len(p) + 1 /\ q[Len(p) + 1] = x /\ \A i \in 1..Len(p) : q[i] = p[i]
  BY <1>1, AppendProperties
<1>3. 1 \in 1..Len(p)
  BY <1>1
<1>4. q # <<>>
  BY <1>1, <1>2
<1> QED
  BY <1>1, <1>2, <1>3, <1>4 DEF Begun

(* After each step all words but the last end with a letter.                 *)
LEMMA OneSplitAre ==
  ASSUME NEW name, IsName(name), NEW m \in Nat, m < Len(name), NEW parts, PartsAre(name, m, parts)
  PROVE  PartsAre(name, m + 1, OneSplit(name, parts, m + 1))
<1> DEFINE x == name[m + 1]
           L == Len(parts)
<1>1. /\ name \in Seq(Natural) /\ Len(name) \in Nat /\ name[1] \in Words /\ DOMAIN name = 1..Len(name)
      /\ m + 1 \in 1..Len(name) /\ x \in Natural /\ Space \notin Words
  <2>1. name \in Seq(Natural) /\ name[1] \in Words
    BY DEF IsName, Spelled
  <2>2. m + 1 \in 1..Len(name) /\ DOMAIN name = 1..Len(name) /\ Len(name) \in Nat
    BY <2>1
  <2>3. Space \notin Words
    BY NymAssumption
  <2> QED
    BY <2>1, <2>2, <2>3
<1>2. parts \in Seq(Seq(Natural)) /\ L \in Nat /\ (m > 0 => L > 0) /\ (m = 0 => L = 0)
      /\ (\A k \in 1..L : parts[k] \in Seq(Natural) /\ Begun(parts[k]))
      /\ (\A k \in 1..L : k < L \/ name[m] = Space => Ended(parts[k]))
      /\ (m > 0 /\ name[m] # Space => parts[L][Len(parts[L])] = name[m])
  BY DEF PartsAre, Begun
<1>3. \A i \in 1..Len(name) : name[i] = Space => i > 1 /\ i < Len(name) /\ name[i - 1] \in Words /\ name[i + 1] \in Words
  BY <1>1 DEF IsName
<1>4. CASE x = Space
  <2>1. OneSplit(name, parts, m + 1) = parts
    BY <1>4 DEF OneSplit
  <2>2. m > 0 /\ name[m] \in Words
    <3>1. m + 1 > 1 /\ name[(m + 1) - 1] \in Words
      BY <1>1, <1>3, <1>4
    <3>2. (m + 1) - 1 = m
      OBVIOUS
    <3> QED
      BY <3>1, <3>2
  <2>3. Ended(parts[L])
    BY <1>1, <1>2, <2>2 DEF Ended
  <2>4. \A k \in 1..L : Ended(parts[k])
    BY <1>2, <2>3
  <2>5. parts # <<>> /\ m + 1 > 0 /\ m + 1 # 0
    BY <1>2, <2>2
  <2> QED
    BY <1>2, <1>4, <2>1, <2>4, <2>5 DEF PartsAre
<1>5. CASE x # Space /\ (parts = <<>> \/ name[m] = Space)
  <2>1. OneSplit(name, parts, m + 1) = Append(parts, <<x>>)
    <3>1. (m + 1) - 1 = m
      OBVIOUS
    <3> QED
      BY <1>5, <3>1 DEF OneSplit
  <2>2. x \in Words
    <3>1. CASE m = 0
      BY <1>1, <3>1
    <3>2. CASE m > 0
      <4>1. name[m] = Space /\ m \in 1..Len(name)
        BY <1>2, <1>5, <3>2
      <4> QED
        BY <1>3, <4>1
    <3> QED
      BY <3>1, <3>2
  <2>3. \A k \in 1..L : Ended(parts[k])
    BY <1>2, <1>5
  <2> DEFINE q == Append(parts, <<x>>)
             y == <<x>>
  <2>4. y \in Seq(Natural) /\ y # <<>> /\ y[1] = x /\ Len(y) = 1
    BY <1>1
  <2>5. q \in Seq(Seq(Natural)) /\ Len(q) = L + 1 /\ q[L + 1] = y /\ \A k \in 1..L : q[k] = parts[k]
    BY <1>2, <2>4, AppendProperties
  <2>6. Begun(y) /\ y[Len(y)] = x
    BY <2>2, <2>4 DEF Begun
  <2> HIDE DEF q, y
  <2>7. ASSUME NEW k \in 1..Len(q) PROVE Begun(q[k]) /\ (k < Len(q) \/ x = Space => Ended(q[k]))
    <3>1. CASE k \in 1..L
      BY <1>2, <2>3, <2>5, <3>1
    <3>2. CASE k = L + 1
      BY <1>2, <1>5, <2>5, <2>6, <3>2
    <3>3. k \in 1..L \/ k = L + 1
      BY <1>2, <2>5
    <3> QED
      BY <3>1, <3>2, <3>3
  <2>8. q # <<>> /\ m + 1 # 0 /\ q[Len(q)][Len(q[Len(q)])] = x
    <3>1. Len(q) # 0
      BY <1>2, <2>5
    <3> QED
      BY <2>5, <2>6, <3>1
  <2>9. PartsAre(name, m + 1, q)
    BY <2>5, <2>7, <2>8 DEF PartsAre
  <2> QED
    BY <2>1, <2>9 DEF q
<1>6. CASE x # Space /\ parts # <<>> /\ name[m] # Space
  <2> DEFINE y == Append(parts[L], x)
             q == [parts EXCEPT ![L] = y]
  <2>1. OneSplit(name, parts, m + 1) = q
    <3>1. (m + 1) - 1 = m
      OBVIOUS
    <3> QED
      BY <1>6, <3>1 DEF OneSplit
  <2>2. L \in 1..L
    BY <1>2, <1>6
  <2>3. y \in Seq(Natural) /\ Begun(y) /\ y[Len(y)] = x
    <3>1. Begun(y) /\ y[Len(y)] = x
      BY <1>1, <1>2, <2>2, PartGrows
    <3> QED
      BY <3>1 DEF Begun
  <2> HIDE DEF y
  <2>4. q \in Seq(Seq(Natural)) /\ Len(q) = L /\ q[L] = y /\ \A k \in 1..L : k # L => q[k] = parts[k]
    BY <1>2, <2>2, <2>3, ExceptSeq
  <2> HIDE DEF q
  <2>5. ASSUME NEW k \in 1..Len(q) PROVE Begun(q[k]) /\ (k < Len(q) \/ x = Space => Ended(q[k]))
    <3>1. CASE k = L
      BY <1>2, <1>6, <2>3, <2>4, <3>1
    <3>2. CASE k # L
      <4>1. k \in 1..L /\ k < L
        BY <1>2, <2>4, <3>2
      <4> QED
        BY <1>2, <2>4, <4>1
    <3> QED
      BY <3>1, <3>2
  <2>6. q # <<>> /\ m + 1 # 0
    <3>1. Len(q) # 0
      BY <2>2, <2>4
    <3> QED
      BY <3>1
  <2>7. q[Len(q)][Len(q[Len(q)])] = x
    BY <2>3, <2>4
  <2>8. PartsAre(name, m + 1, q)
    BY <2>4, <2>5, <2>6, <2>7 DEF PartsAre
  <2> QED
    BY <2>1, <2>8
<1> QED
  BY <1>4, <1>5, <1>6

(* The words of a name begin and end with letters.                           *)
LEMMA WordsSpelled ==
  ASSUME NEW name, IsName(name)
  PROVE  SplitOn({Space}, name) \in Seq(Literals)
<1> DEFINE n == Len(name)
<1>1. name \in Seq(Natural) /\ n \in Nat /\ n > 0 /\ name[n] \in Words /\ Space \notin Words
  <2>1. name \in Seq(Natural) /\ name # <<>> /\ name[n] \in Words
    BY DEF IsName, Spelled
  <2>2. Space \notin Words
    BY NymAssumption
  <2> QED
    BY <2>1, <2>2
<1>2. PICK c : /\ c[0] = <<>> /\ SplitOn({Space}, name) = c[n]
               /\ \A m \in Nat : m < n => c[m + 1] = OneSplit(name, c[m], Places(n)[m + 1])
  BY <1>1, SplitSteps
<1>3. \A m \in Nat : m < n => c[m + 1] = OneSplit(name, c[m], m + 1)
  <2>1. \A m \in Nat : m < n => m + 1 \in 1..n
    BY <1>1
  <2>2. \A i \in 1..n : Places(n)[i] = i
    BY DEF Places
  <2> HIDE DEF n
  <2> QED
    BY <1>2, <2>1, <2>2
<1> DEFINE S == {m \in Nat : PartsAre(name, m, c[m])}
<1>4. 0 \in S
  <2>1. <<>> \in Seq(Seq(Natural)) /\ Len(<<>>) = 0
    BY EmptySeq
  <2>2. PartsAre(name, 0, <<>>)
    BY <2>1 DEF PartsAre
  <2> QED
    BY <1>2, <2>2
<1>5. \A m \in Nat : m \in S /\ m < n => m + 1 \in S
  BY <1>3, OneSplitAre
<1>6. n \in S
  <2> HIDE DEF S, n
  <2>1. \A m \in 0..n : m \in S
    BY <1>1, <1>4, <1>5, UpTo
  <2> QED
    BY <1>1, <2>1
<1> DEFINE parts == c[n]
<1>7. PartsAre(name, n, parts)
  BY <1>6
<1> HIDE DEF parts
<1>8. ASSUME NEW k \in 1..Len(parts) PROVE parts[k] \in Literals
  <2>1. Begun(parts[k]) /\ parts[Len(parts)][Len(parts[Len(parts)])] = name[n] /\ (k < Len(parts) => Ended(parts[k]))
    BY <1>1, <1>7 DEF PartsAre
  <2>2. Len(parts) \in Nat
    BY <1>7 DEF PartsAre
  <2>3. parts[k][Len(parts[k])] \in Words
    <3>1. CASE k = Len(parts)
      BY <1>1, <2>1, <3>1
    <3>2. CASE k < Len(parts)
      BY <2>1, <3>2 DEF Ended
    <3> QED
      BY <2>2, <3>1, <3>2
  <2> QED
    BY <2>1, <2>3 DEF Begun, Literals, Spelled
<1>9. parts \in Seq(Literals)
  <2>1. parts \in Seq(Seq(Natural))
    BY <1>7 DEF PartsAre
  <2>2. \A k \in 1..Len(parts) : parts[k] \in Literals
    BY <1>8
  <2> QED
    BY <2>1, <2>2, SeqNarrows
<1> QED
  BY <1>2, <1>9 DEF parts

OneJoin(between, acc, p) == IF acc = <<>> THEN p ELSE acc \o between \o p

(* A step of putting words together.                                         *)
LEMMA OneJoinIs ==
  ASSUME NEW acc \in Seq(Natural), NEW between \in Seq(Natural), NEW p \in Seq(Natural)
  PROVE  OneJoin(between, acc, p) \in Seq(Natural)
BY ConcatProperties DEF OneJoin

(* Words are put together in such steps, one for each word.                  *)
LEMMA JoinSteps ==
  ASSUME NEW parts \in Seq(Seq(Natural)), NEW between \in Seq(Natural)
  PROVE  \E c : /\ c[0] = <<>> /\ Joined(parts, between) = c[Len(parts)]
                /\ \A m \in Nat : m < Len(parts) => c[m + 1] = OneJoin(between, c[m], parts[m + 1])
<1> DEFINE n == Len(parts)
           A == Seq(Natural)
           B == Seq(Natural)
           step == [p \in A \X B |-> OneJoin(between, p[1], p[2])]
           Sums(c) == c = [s \in SUBSET (1..n) |-> IF s = {} THEN <<>> ELSE OneJoin(between, c[s \ {Max(s)}], parts[Max(s)])]
           sum == CHOOSE c : Sums(c)
<1>1. n \in Nat /\ DOMAIN parts = 1..n /\ Len(parts) = n /\ parts \in Seq(B) /\ \A i \in 1..n : parts[i] \in B
  OBVIOUS
<1>2. Joined(parts, between) = sum[1..n]
  BY <1>1 DEF Joined, FoldLeft, MapThenFoldSet, OneJoin
<1>3. \E c : Sums(c)
  <2>1. step \in [A \X B -> A] /\ <<>> \in A
    BY OneJoinIs, EmptySeq
  <2> HIDE DEF step, A, B
  <2>2. PICK c : Folds(c, A, parts, <<>>, step)
    BY <1>1, <2>1, FoldExists
  <2>3. ASSUME NEW s \in SUBSET (1..n), s # {}
        PROVE step[<<c[s \ {Max(s)}], parts[Max(s)]>>] = OneJoin(between, c[s \ {Max(s)}], parts[Max(s)])
    <3>1. parts[Max(s)] \in B
      BY <1>1, <2>3, LastPlace
    <3>2. c[s \ {Max(s)}] \in A
      BY <1>1, <2>2, <2>3 DEF Folds
    <3> QED
      BY <3>1, <3>2 DEF step
  <2>4. c = [s \in SUBSET (1..n) |-> c[s]]
    BY <1>1, <2>2 DEF Folds
  <2>5. \A s \in SUBSET (1..n) : c[s] = IF s = {} THEN <<>> ELSE OneJoin(between, c[s \ {Max(s)}], parts[Max(s)])
    BY <1>1, <2>2, <2>3 DEF Folds
  <2> QED
    BY <2>4, <2>5
<1>4. Sums(sum)
  BY <1>3
<1> HIDE DEF sum
<1>5. sum[1..0] = <<>>
  <2>1. 1..0 \in SUBSET (1..n)
    BY <1>1
  <2> QED
    BY <1>4, <2>1, PlacesUpTo
<1>6. ASSUME NEW m \in Nat, m < n PROVE sum[1..(m + 1)] = OneJoin(between, sum[1..m], parts[m + 1])
  <2>1. \A s \in SUBSET (1..n) : s # {} => sum[s] = OneJoin(between, sum[s \ {Max(s)}], parts[Max(s)])
    BY <1>4
  <2> HIDE DEF n, Sums
  <2>2. 1..(m + 1) \in SUBSET (1..n)
    BY <1>1, <1>6, PlacesUpTo
  <2>3. 1..(m + 1) # {} /\ Max(1..(m + 1)) = m + 1 /\ (1..(m + 1)) \ {m + 1} = 1..m
    BY PlacesUpTo
  <2> QED
    BY <2>1, <2>2, <2>3, Zenon
<1> HIDE DEF n, Sums
<1> DEFINE c == [m \in 0..n |-> sum[1..m]]
<1>7. c[0] = <<>> /\ c[n] = sum[1..n] /\ \A m \in Nat : m < n => c[m + 1] = sum[1..(m + 1)] /\ c[m] = sum[1..m]
  BY <1>1, <1>5
<1> HIDE DEF c
<1>8. \A m \in Nat : m < n => c[m + 1] = OneJoin(between, c[m], parts[m + 1])
  BY <1>6, <1>7
<1>9. c[0] = <<>> /\ Joined(parts, between) = c[n]
  BY <1>2, <1>7
<1> QED
  BY <1>8, <1>9 DEF n

(* With letters at both ends it matters not what stands between.             *)
LEMMA BetweenSpelled ==
  ASSUME NEW a \in Literals, NEW b \in Seq(Natural), NEW p \in Literals
  PROVE  a \o b \o p \in Literals
<1> DEFINE q == a \o b
           r == q \o p
<1>1. /\ a \in Seq(Natural) /\ Len(a) \in Nat \ {0} /\ a[1] \in Words
      /\ p \in Seq(Natural) /\ Len(p) \in Nat \ {0} /\ p[Len(p)] \in Words
      /\ Len(b) \in Nat
  BY Letterings DEF Literals
<1>2. q \in Seq(Natural) /\ Len(q) = Len(a) + Len(b) /\ \A i \in 1..Len(a) : q[i] = a[i]
  BY <1>1, ConcatProperties
<1>3. 1 \in 1..Len(a) /\ 1 \in 1..Len(q) /\ Len(p) \in 1..Len(p) /\ Len(q) \in Nat
  BY <1>1, <1>2
<1> HIDE DEF q
<1>4. r \in Seq(Natural) /\ Len(r) = Len(q) + Len(p) /\ r[1] = q[1] /\ r[Len(q) + Len(p)] = p[Len(p)]
  <2>1. /\ r \in Seq(Natural) /\ Len(r) = Len(q) + Len(p)
        /\ \A i \in 1..(Len(q) + Len(p)) : r[i] = IF i <= Len(q) THEN q[i] ELSE p[i - Len(q)]
    BY ZenonT(30), <1>1, <1>2, ConcatProperties
  <2> HIDE DEF r
  <2>2. Len(q) + Len(p) \in 1..(Len(q) + Len(p)) /\ ~ (Len(q) + Len(p) <= Len(q)) /\ (Len(q) + Len(p)) - Len(q) = Len(p)
        /\ 1 \in 1..(Len(q) + Len(p)) /\ 1 <= Len(q)
    BY <1>1, <1>3
  <2> QED
    BY <2>1, <2>2
<1> HIDE DEF r
<1>5. r # <<>>
  <2>1. Len(r) # 0
    BY <1>1, <1>3, <1>4
  <2> QED
    BY <2>1
<1>6. r \in Literals
  BY <1>1, <1>2, <1>3, <1>4, <1>5 DEF Literals, Spelled
<1> QED
  BY <1>6 DEF q, r

(* Words put together begin and end with letters.                            *)
LEMMA JoinedSpelled ==
  ASSUME NEW parts \in Seq(Literals), NEW between \in Seq(Natural)
  PROVE  Joined(parts, between) \in Literals \cup {<<>>}
<1> DEFINE n == Len(parts)
<1>1. n \in Nat /\ \A i \in 1..n : parts[i] \in Literals
  OBVIOUS
<1>2. parts \in Seq(Seq(Natural))
  <2>1. Literals \subseteq Seq(Natural)
    BY DEF Literals
  <2> QED
    BY <2>1, SeqMonotonic
<1>3. PICK c : /\ c[0] = <<>> /\ Joined(parts, between) = c[n]
               /\ \A m \in Nat : m < n => c[m + 1] = OneJoin(between, c[m], parts[m + 1])
  BY <1>2, JoinSteps
<1> DEFINE S == {m \in Nat : c[m] \in Literals \cup {<<>>}}
<1>4. 0 \in S
  BY <1>3
<1>5. ASSUME NEW m \in Nat, m \in S, m < n PROVE m + 1 \in S
  <2>1. m + 1 \in 1..n
    BY <1>1, <1>5
  <2>2. parts[m + 1] \in Literals /\ c[m + 1] = OneJoin(between, c[m], parts[m + 1])
    BY <1>1, <1>3, <1>5, <2>1
  <2>3. CASE c[m] = <<>>
    <3>1. c[m + 1] = parts[m + 1]
      BY <2>2, <2>3 DEF OneJoin
    <3> QED
      BY <2>2, <3>1
  <2>4. CASE c[m] # <<>>
    <3>1. c[m] \in Literals
      BY <1>5, <2>4
    <3>2. c[m] \o between \o parts[m + 1] \in Literals
      BY <2>2, <3>1, BetweenSpelled
    <3>3. OneJoin(between, c[m], parts[m + 1]) \in Literals
      BY <2>4, <3>2 DEF OneJoin
    <3> QED
      BY <2>2, <3>3
  <2> QED
    BY <2>3, <2>4
<1>6. n \in S
  <2> HIDE DEF S, n
  <2>1. \A m \in 0..n : m \in S
    BY <1>1, <1>4, <1>5, UpTo
  <2> QED
    BY <1>1, <2>1
<1> QED
  BY <1>3, <1>6

(* Of places in a sequence one is the first.                                 *)
LEMMA FirstPlace ==
  ASSUME NEW k \in Nat, NEW I, I \subseteq 1..k, I # {}
  PROVE  Min(I) \in I
<1> DEFINE S == {j \in Nat : \A y \in I : y > j}
<1>1. ASSUME \A x \in I : \E y \in I : y < x PROVE FALSE
  <2>1. 0 \in S
    OBVIOUS
  <2>2. ASSUME NEW i \in Nat, i \in S, i < k PROVE i + 1 \in S
    <3>1. \A y \in I : y \in Nat /\ y > i
      BY <2>2
    <3>2. \A y \in I : y # i + 1
      BY <1>1, <3>1
    <3> QED
      BY <3>1, <3>2
  <2> HIDE DEF S
  <2>3. \A i \in 0..k : i \in S
    BY <2>1, <2>2, UpTo
  <2>4. k \in S
    BY <2>3
  <2>5. PICK y \in I : y \in 1..k
    OBVIOUS
  <2>6. y > k
    BY <2>4, <2>5 DEF S
  <2> QED
    BY <2>5, <2>6
<1>2. \E x \in I : \A y \in I : x <= y
  BY <1>1
<1> QED
  BY <1>2 DEF Min

(* A given name begins and ends with a letter, if there is one;              *)
LEMMA GivenSpelled ==
  ASSUME NEW name, IsName(name)
  PROVE  GivenName(name) \in Literals \cup {<<>>}
<1> DEFINE parts == SplitOn({Space}, name)
           fit   == {i \in DOMAIN parts : Letters(parts[i]) >= 3 /\ ~IsParticle(parts[i])}
<1>1. parts \in Seq(Literals)
  BY WordsSpelled
<1>2. GivenName(name) = IF Len(parts) < 2 \/ fit = {} THEN <<>> ELSE parts[Min(fit)]
  BY DEF GivenName
<1>3. fit \subseteq 1..Len(parts) /\ Len(parts) \in Nat
  BY <1>1
<1> HIDE DEF fit, parts
<1>4. fit # {} => Min(fit) \in 1..Len(parts)
  BY <1>3, FirstPlace
<1>5. fit # {} => parts[Min(fit)] \in Literals
  BY <1>1, <1>4, ElementOfSeq
<1> QED
  BY <1>2, <1>5

(* and so does a family name,                                                *)
LEMMA FamilySpelled ==
  ASSUME NEW name, IsName(name)
  PROVE  FamilyName(name) \in Literals \cup {<<>>}
<1> DEFINE parts  == SplitOn({Space}, name)
           n      == Len(parts)
           starts == {i \in DOMAIN parts : \A j \in i..(n - 1) : IsParticle(parts[j])}
           family == Joined(SubSeq(parts, Min(starts), n), <<Space>>)
<1>1. parts \in Seq(Literals)
  BY WordsSpelled
<1>2. FamilyName(name) = IF n < 2 \/ Letters(family) < 3 \/ family = GivenName(name) THEN <<>> ELSE family
  BY DEF FamilyName
<1> HIDE DEF parts
<1>3. n \in Nat /\ starts \subseteq 1..n /\ (n >= 2 => n \in starts)
  BY <1>1
<1> HIDE DEF starts
<1>4. n >= 2 => Min(starts) \in 1..n
  BY <1>3, FirstPlace
<1>5. n >= 2 => SubSeq(parts, Min(starts), n) \in Seq(Literals)
  <2>1. \A i \in 1..n : SubSeq(parts, i, n) \in Seq(Literals)
    BY <1>1
  <2> QED
    BY <1>4, <2>1
<1>6. <<Space>> \in Seq(Natural)
  <2>1. Space # "PERSON"
    BY Zenon DEF Space
  <2>2. Space \in Natural
    BY <2>1 DEF Natural, Atoms
  <2> QED
    BY <2>2
<1>7. n >= 2 => family \in Literals \cup {<<>>}
  BY <1>5, <1>6, JoinedSpelled
<1> HIDE DEF family, n
<1>8. n >= 2 \/ n < 2
  BY <1>3
<1> QED
  BY <1>2, <1>7, <1>8

(* the slug of an address,                                                   *)
LEMMA SlugSpelled ==
  ASSUME NEW address \in Literals
  PROVE  AddressSlug(address) \in Literals
<1> DEFINE n == Len(address)
           slug == AddressSlug(address)
<1>1. address \in Seq(Natural) /\ n \in Nat \ {0} /\ DOMAIN address = 1..n /\ address[1] \in Words /\ address[n] \in Words
      /\ \A i \in 1..n : address[i] \in Natural
  BY Letterings DEF Literals
<1>2. "_" \in Natural /\ \A a \in Words : a \notin {"@", "."}
  BY NymAssumption DEF Natural, Atoms
<1>3. slug = [i \in 1..n |-> IF address[i] \in {"@", "."} THEN "_" ELSE address[i]]
  BY <1>1 DEF AddressSlug
<1> HIDE DEF slug, n
<1>4. \A i \in 1..n : slug[i] \in Natural
  BY <1>1, <1>2, <1>3
<1>5. slug \in Seq(Natural) /\ Len(slug) = n
  <2>1. slug \in [1..n -> Natural]
    BY <1>3, <1>4
  <2> QED
    BY <1>1, <2>1
<1>6. 1 \in 1..n /\ n \in 1..n
  BY <1>1
<1>7. slug[1] = address[1] /\ slug[n] = address[n]
  BY <1>1, <1>2, <1>3, <1>6
<1>8. slug # <<>>
  BY <1>1, <1>5
<1> QED
  BY <1>1, <1>5, <1>7, <1>8 DEF Literals, Spelled, slug

(* and a local part that is an identity.                                     *)
LEMMA LocalSpelled ==
  ASSUME NEW person, IsPerson(person), person.address # <<>>, IsIdentity(LocalPart(person.address), person)
  PROVE  LocalPart(person.address) \in Literals \cup {<<>>}
<1> DEFINE address == person.address
           at == CHOOSE i \in DOMAIN address : address[i] = "@"
           local == LocalPart(address)
<1>1. address \in Seq(Natural) /\ \E i \in DOMAIN address : address[i] = "@"
  BY DEF IsPerson, IsAddress, Spelled
<1>2. at \in 1..Len(address)
  BY <1>1
<1>3. local = SubSeq(address, 1, at - 1)
  BY DEF LocalPart
<1> HIDE DEF address, at
<1>4. local \in Seq(Natural)
  BY <1>1, <1>2, <1>3
<1> HIDE DEF local
<1>5. CASE /\ Len(local) > 1 /\ \A i \in DOMAIN local : (i % 2 = 1) <=> local[i] \in Words
           /\ local[Len(local)] \in Words
  <2>1. 1 \in DOMAIN local /\ 1 % 2 = 1
    BY <1>4, <1>5
  <2>2. local # <<>>
    BY <1>4, <1>5
  <2>3. local[1] \in Words
    BY <1>5, <2>1
  <2> QED
    BY <1>4, <1>5, <2>2, <2>3 DEF Literals, Spelled, local, address
<1>6. CASE \E i \in DOMAIN person.variants : Joined(SplitOn({Space}, person.variants[i]), <<>>) = local
  <2>1. PICK i \in DOMAIN person.variants : Joined(SplitOn({Space}, person.variants[i]), <<>>) = local
    BY <1>6
  <2>2. IsName(person.variants[i])
    BY <2>1 DEF IsPerson
  <2>3. SplitOn({Space}, person.variants[i]) \in Seq(Literals) /\ <<>> \in Seq(Natural)
    BY <2>2, WordsSpelled, EmptySeq
  <2>4. local \in Literals \cup {<<>>}
    BY <2>1, <2>3, JoinedSpelled
  <2> QED
    BY <2>4 DEF local, address
<1> QED
  BY <1>5, <1>6 DEF IsIdentity, local, address

-----------------------------------------------------------------------------
(* What a person may be called, in order: whole identities, each of a kind   *)
(* and a number of its own, and then by turns given and family names.        *)
Claimed == [value : Literals \cup {<<>>}, kind : Kinds, n : 0..Most, part : BOOLEAN]
IsWhole(form) ==
  /\ form.part = FALSE /\ form.n \in 1..Most /\ form.kind \in {"", "NAME", "EMAIL", "SLUG", "LOCAL"}
  /\ form.kind = "" => form.n = 1
Ordered(claims, h) ==
  /\ claims \in Seq(Claimed) /\ h \in Nat /\ h <= Len(claims) /\ Len(claims) <= h + 2 * Most
  /\ \A k \in 1..h : IsWhole(claims[k])
  /\ \A j, k \in 1..h : claims[j].kind = claims[k].kind /\ claims[j].n = claims[k].n => j = k
  /\ \A k \in 1..Len(claims) : k > h =>
       claims[k].part = TRUE /\ claims[k].kind = IF (k - h) % 2 = 1 THEN "GIVEN" ELSE "FAMILY"

Names(person) == [i \in DOMAIN person.variants |-> Form(person.variants[i], IF i = 1 THEN "" ELSE "NAME", i, FALSE)]
Mails(person) ==
  IF person.address = <<>> THEN <<>>
  ELSE <<Form(person.address, "EMAIL", 1, FALSE), Form(AddressSlug(person.address), "SLUG", 1, FALSE)>>
       \o IF IsIdentity(LocalPart(person.address), person)
          THEN <<Form(LocalPart(person.address), "LOCAL", 1, FALSE)>> ELSE <<>>

(* What a form is made of.                                                   *)
LEMMA FormIs ==
  ASSUME NEW v \in Literals \cup {<<>>}, NEW k \in Kinds, NEW n \in 0..Most
  PROVE  /\ Form(v, k, n, FALSE) \in Claimed /\ Form(v, k, n, FALSE).part = FALSE
         /\ Form(v, k, n, FALSE).kind = k /\ Form(v, k, n, FALSE).n = n
         /\ Form(v, k, n, TRUE) \in Claimed /\ Form(v, k, n, TRUE).part = TRUE
         /\ Form(v, k, n, TRUE).kind = k /\ Form(v, k, n, TRUE).n = n
<1> HIDE DEF Kinds
<1> QED
  BY DEF Form, Claimed

(* Whole names are numbered by their places.                                 *)
LEMMA NamesAre ==
  ASSUME NEW person, IsPerson(person)
  PROVE  /\ Names(person) \in Seq(Claimed) /\ Len(Names(person)) = Len(person.variants) /\ Len(person.variants) \in 0..Most
         /\ \A k \in 1..Len(person.variants) :
              /\ IsWhole(Names(person)[k]) /\ Names(person)[k].n = k /\ Names(person)[k].kind \in {"", "NAME"}
<1> DEFINE V == Len(person.variants)
           s == Names(person)
<1>1. V \in 0..Most /\ DOMAIN person.variants = 1..V /\ \A i \in 1..V : IsName(person.variants[i])
  <2>1. person.variants \in Seq(Seq(Natural)) /\ V <= Most /\ \A i \in DOMAIN person.variants : IsName(person.variants[i])
    BY DEF IsPerson
  <2>2. V \in Nat /\ DOMAIN person.variants = 1..V
    BY <2>1
  <2> HIDE DEF V
  <2>3. V \in 0..Most
    BY <2>1, <2>2, MostIs
  <2> QED
    BY <2>1, <2>2, <2>3
<1>2. s = [i \in 1..V |-> Form(person.variants[i], IF i = 1 THEN "" ELSE "NAME", i, FALSE)]
  BY <1>1 DEF Names
<1> HIDE DEF s, V
<1>3. ASSUME NEW k \in 1..V
      PROVE  s[k] \in Claimed /\ IsWhole(s[k]) /\ s[k].n = k /\ s[k].kind \in {"", "NAME"}
  <2> DEFINE q == IF k = 1 THEN "" ELSE "NAME"
  <2>0. k \in 0..Most /\ k \in 1..Most
    BY <1>1, MostIs
  <2>1. person.variants[k] \in Literals /\ k \in 0..Most /\ k \in 1..Most
    BY <1>1, <2>0 DEF IsName, Literals, Spelled
  <2>2. q \in Kinds /\ q \in {"", "NAME"} /\ (q = "" => k = 1)
    BY DEF Kinds
  <2>3. s[k] = Form(person.variants[k], q, k, FALSE)
    BY <1>2 
  <2> HIDE DEF q
  <2>4. s[k] \in Claimed /\ s[k].kind = q /\ s[k].n = k /\ s[k].part = FALSE
    <3>1. person.variants[k] \in Literals \cup {<<>>}
      BY <2>1
    <3> DEFINE v == person.variants[k]
    <3>2. v \in Literals \cup {<<>>} /\ q \in Kinds /\ k \in 0..Most
      BY <2>1, <2>2, <3>1
    <3> HIDE DEF v
    <3>3. Form(v, q, k, FALSE) \in Claimed /\ Form(v, q, k, FALSE).part = FALSE
          /\ Form(v, q, k, FALSE).kind = q /\ Form(v, q, k, FALSE).n = k
      BY ONLY <3>2, FormIs
    <3> QED
      BY <2>3, <3>3 DEF v
  <2> QED
    BY <2>1, <2>2, <2>4 DEF IsWhole
<1>4. s \in Seq(Claimed) /\ Len(s) = V
  <2>1. s \in [1..V -> Claimed]
    BY <1>2, <1>3
  <2> QED
    BY <1>1, <2>1
<1> QED
  BY <1>1, <1>3, <1>4 DEF s, V

(* An address gives at most three forms, each of another kind.               *)
LEMMA MailsAre ==
  ASSUME NEW person, IsPerson(person)
  PROVE  /\ Mails(person) \in Seq(Claimed) /\ Len(Mails(person)) \in 0..3
         /\ \A k \in 1..Len(Mails(person)) :
              /\ IsWhole(Mails(person)[k])
              /\ k = 1 => Mails(person)[k].kind = "EMAIL"
              /\ k = 2 => Mails(person)[k].kind = "SLUG"
              /\ k = 3 => Mails(person)[k].kind = "LOCAL"
<1> DEFINE e == Form(person.address, "EMAIL", 1, FALSE)
           s == Form(AddressSlug(person.address), "SLUG", 1, FALSE)
           l == Form(LocalPart(person.address), "LOCAL", 1, FALSE)
<1>1. CASE person.address = <<>>
  <2>1. Mails(person) = <<>> /\ <<>> \in Seq(Claimed) /\ Len(<<>>) = 0
    BY <1>1, EmptySeq DEF Mails
  <2> QED
    BY <2>1
<1>2. CASE person.address # <<>>
  <2>1. person.address \in Literals /\ AddressSlug(person.address) \in Literals
    <3>1. person.address \in Literals
      BY <1>2 DEF IsPerson, IsAddress, Literals, Spelled
    <3> QED
      BY <3>1, SlugSpelled
  <2>2. "EMAIL" \in Kinds /\ "SLUG" \in Kinds /\ "LOCAL" \in Kinds
    BY DEF Kinds
  <2>3. e \in Claimed /\ IsWhole(e) /\ e.kind = "EMAIL" /\ s \in Claimed /\ IsWhole(s) /\ s.kind = "SLUG"
    BY <2>1, <2>2, MostIs DEF Form, Claimed, IsWhole
  <2>4. CASE IsIdentity(LocalPart(person.address), person)
    <3>1. LocalPart(person.address) \in Literals \cup {<<>>}
      BY <1>2, <2>4, LocalSpelled
    <3>2. l \in Claimed /\ IsWhole(l) /\ l.kind = "LOCAL"
      BY <2>2, <3>1, MostIs DEF Form, Claimed, IsWhole
    <3>3. Mails(person) = <<e, s>> \o <<l>>
      BY <1>2, <2>4 DEF Mails
    <3> HIDE DEF e, s, l
    <3> DEFINE m == <<e, s>> \o <<l>>
    <3>4. m \in Seq(Claimed) /\ Len(m) = 3 /\ m[1] = e /\ m[2] = s /\ m[3] = l
      BY <2>3, <3>2
    <3>5. \A k \in 1..3 : k = 1 \/ k = 2 \/ k = 3
      OBVIOUS
    <3> HIDE DEF m
    <3>6. \A k \in 1..3 : IsWhole(m[k]) /\ (k = 1 => m[k].kind = "EMAIL") /\ (k = 2 => m[k].kind = "SLUG")
                                         /\ (k = 3 => m[k].kind = "LOCAL")
      BY <2>3, <3>2, <3>4, <3>5
    <3>7. Mails(person) = m
      BY <3>3 DEF m
    <3>8. Len(m) \in 0..3 /\ 1..Len(m) = 1..3
      BY <3>4
    <3> QED
      BY <3>4, <3>6, <3>7, <3>8
  <2>5. CASE ~ IsIdentity(LocalPart(person.address), person)
    <3>1. Mails(person) = <<e, s>> \o <<>>
      BY <1>2, <2>5 DEF Mails
    <3> HIDE DEF e, s, l
    <3> DEFINE m == <<e, s>>
    <3>2. m \in Seq(Claimed) /\ Len(m) = 2 /\ m[1] = e /\ m[2] = s
      BY <2>3
    <3>3. \A k \in 1..2 : k = 1 \/ k = 2
      OBVIOUS
    <3> HIDE DEF m
    <3>4. \A k \in 1..2 : IsWhole(m[k]) /\ (k = 1 => m[k].kind = "EMAIL") /\ (k = 2 => m[k].kind = "SLUG") /\ k # 3
      BY <2>3, <3>2, <3>3
    <3>5. Mails(person) = m
      BY <3>1, <3>2, ConcatEmptySeq DEF m
    <3>6. Len(m) \in 0..3 /\ 1..Len(m) = 1..2
      BY <3>2
    <3> QED
      BY <3>2, <3>4, <3>5, <3>6
  <2> QED
    BY <2>4, <2>5
<1> QED
  BY <1>1, <1>2

(* So no two whole identities of a person agree in kind and number.          *)
LEMMA WholesAre ==
  ASSUME NEW person, IsPerson(person)
  PROVE  /\ Wholes(person) \in Seq(Claimed)
         /\ \A k \in 1..Len(Wholes(person)) : IsWhole(Wholes(person)[k])
         /\ \A j, k \in 1..Len(Wholes(person)) :
              Wholes(person)[j].kind = Wholes(person)[k].kind /\ Wholes(person)[j].n = Wholes(person)[k].n => j = k
<1> DEFINE a == Names(person)
           b == Mails(person)
           V == Len(person.variants)
           w == a \o b
<1>1. Wholes(person) = w
  BY DEF Wholes, Names, Mails
<1>2. /\ a \in Seq(Claimed) /\ Len(a) = V /\ V \in 0..Most
      /\ \A k \in 1..V : IsWhole(a[k]) /\ a[k].n = k /\ a[k].kind \in {"", "NAME"}
  BY NamesAre
<1>3. /\ b \in Seq(Claimed) /\ Len(b) \in 0..3
      /\ \A k \in 1..Len(b) : /\ IsWhole(b[k]) /\ (k = 1 => b[k].kind = "EMAIL") /\ (k = 2 => b[k].kind = "SLUG")
                              /\ (k = 3 => b[k].kind = "LOCAL")
  BY MailsAre
<1> HIDE DEF a, b, V
<1>0. V \in Nat /\ Len(b) \in Nat
  <2>1. V \in 0..Most /\ a \in Seq(Claimed)
    BY <1>2
  <2>2. Len(b) \in 0..3 /\ b \in Seq(Claimed)
    BY <1>3
  <2> QED
    BY <2>1, <2>2
<1>4. /\ w \in Seq(Claimed) /\ Len(w) = V + Len(b)
      /\ \A k \in 1..(V + Len(b)) : w[k] = IF k <= V THEN a[k] ELSE b[k - V]
  <2>1. /\ w \in Seq(Claimed) /\ Len(w) = Len(a) + Len(b)
        /\ \A k \in 1..(Len(a) + Len(b)) : w[k] = IF k <= Len(a) THEN a[k] ELSE b[k - Len(a)]
    <3>1. a \in Seq(Claimed) /\ b \in Seq(Claimed)
      BY <1>2, <1>3
    <3> QED
      BY <3>1, ConcatProperties
  <2>2. Len(a) = V
    BY <1>2
  <2> HIDE DEF w
  <2> QED
    BY <2>1, <2>2, Zenon
<1> HIDE DEF w
<1>5. ASSUME NEW k \in 1..(V + Len(b))
      PROVE  \/ k \in 1..V /\ w[k] = a[k]
             \/ k - V \in 1..Len(b) /\ k > V /\ w[k] = b[k - V]
  <2>1. k <= V => k \in 1..V
    BY <1>0
  <2>2. ~ (k <= V) => k - V \in 1..Len(b) /\ k > V
    BY <1>0
  <2> QED
    BY <1>4, <2>1, <2>2
<1>6. ASSUME NEW k \in 1..(V + Len(b)) PROVE IsWhole(w[k])
  BY ZenonT(30), <1>2, <1>3, <1>5
<1>7. ASSUME NEW j \in 1..(V + Len(b)), NEW k \in 1..(V + Len(b)), w[j].kind = w[k].kind, w[j].n = w[k].n PROVE j = k
  <2>1. \A i \in 1..Len(b) : /\ i = 1 \/ i = 2 \/ i = 3
                             /\ i = 1 => b[i].kind = "EMAIL"
                             /\ i = 2 => b[i].kind = "SLUG"
                             /\ i = 3 => b[i].kind = "LOCAL"
    BY <1>3
  <2>2. CASE j \in 1..V /\ w[j] = a[j]
    <3>1. CASE k \in 1..V /\ w[k] = a[k]
      BY <1>2, <1>7, <2>2, <3>1
    <3>2. CASE k - V \in 1..Len(b) /\ k > V /\ w[k] = b[k - V]
      <4> DEFINE y == k - V
      <4>1. a[j].kind = b[y].kind /\ y \in 1..Len(b) /\ a[j].kind \in {"", "NAME"}
        BY <1>2, <1>7, <2>2, <3>2
      <4> HIDE DEF y
      <4> QED
        BY <2>1, <4>1
    <3> QED
      BY <1>5, <3>1, <3>2
  <2>3. CASE j - V \in 1..Len(b) /\ j > V /\ w[j] = b[j - V]
    <3>1. CASE k \in 1..V /\ w[k] = a[k]
      <4> DEFINE y == j - V
      <4>1. a[k].kind = b[y].kind /\ y \in 1..Len(b) /\ a[k].kind \in {"", "NAME"}
        BY <1>2, <1>7, <2>3, <3>1
      <4> HIDE DEF y
      <4> QED
        BY <2>1, <4>1
    <3>2. CASE k - V \in 1..Len(b) /\ k > V /\ w[k] = b[k - V]
      <4> DEFINE x == j - V
                 y == k - V
      <4>1. x \in 1..Len(b) /\ y \in 1..Len(b) /\ b[x].kind = b[y].kind
        BY <1>7, <2>3, <3>2
      <4> HIDE DEF x, y
      <4>2. x = y
        BY <2>1, <4>1
      <4>3. j - V = k - V
        BY <4>2 DEF x, y
      <4> QED
        BY <1>0, <4>3
    <3> QED
      BY <1>5, <3>1, <3>2
  <2> QED
    BY <1>5, <2>2, <2>3
<1> QED
  BY <1>1, <1>4, <1>6, <1>7

(* Given and family names come by turns.                                     *)
LEMMA PartsAreClaims ==
  ASSUME NEW person, IsPerson(person)
  PROVE  /\ NameParts(person) \in Seq(Claimed) /\ Len(NameParts(person)) \in 0..(2 * Most)
         /\ \A k \in 1..Len(NameParts(person)) :
              /\ NameParts(person)[k].part = TRUE
              /\ NameParts(person)[k].kind = IF k % 2 = 1 THEN "GIVEN" ELSE "FAMILY"
<1> DEFINE V == Len(person.variants)
           s == NameParts(person)
<1>1. V \in 0..Most /\ \A i \in 1..V : IsName(person.variants[i])
  <2>1. person.variants \in Seq(Seq(Natural)) /\ V <= Most /\ \A i \in DOMAIN person.variants : IsName(person.variants[i])
    BY DEF IsPerson
  <2>2. V \in Nat /\ DOMAIN person.variants = 1..V
    BY <2>1
  <2>3. \A i \in 1..V : IsName(person.variants[i])
    BY ONLY <2>1, <2>2
  <2> HIDE DEF V
  <2>4. V \in 0..Most
    BY <2>1, <2>2, MostIs
  <2> QED
    BY <2>3, <2>4
<1>2. s = [i \in 1..(2 * V) |->
             LET name == person.variants[(i + 1) \div 2]
             IN  IF i % 2 = 1 THEN Form(GivenName(name), "GIVEN", 0, TRUE) ELSE Form(FamilyName(name), "FAMILY", 0, TRUE)]
  BY DEF NameParts
<1> HIDE DEF s, V
<1>3. ASSUME NEW k \in 1..(2 * V)
      PROVE  s[k] \in Claimed /\ s[k].part = TRUE /\ s[k].kind = IF k % 2 = 1 THEN "GIVEN" ELSE "FAMILY"
  <2> DEFINE name == person.variants[(k + 1) \div 2]
  <2>1. (k + 1) \div 2 \in 1..V
    BY <1>1
  <2>2. IsName(name)
    BY <1>1, <2>1
  <2>3. s[k] = IF k % 2 = 1 THEN Form(GivenName(name), "GIVEN", 0, TRUE) ELSE Form(FamilyName(name), "FAMILY", 0, TRUE)
    BY <1>2
  <2> HIDE DEF name
  <2> DEFINE g == GivenName(name)
             f == FamilyName(name)
  <2>4. g \in Literals \cup {<<>>} /\ f \in Literals \cup {<<>>}
    BY <2>2, GivenSpelled, FamilySpelled
  <2>5. "GIVEN" \in Kinds /\ "FAMILY" \in Kinds /\ 0 \in 0..Most
    BY MostIs DEF Kinds
  <2> HIDE DEF g, f
  <2>6. /\ Form(g, "GIVEN", 0, TRUE) \in Claimed /\ Form(g, "GIVEN", 0, TRUE).part = TRUE
        /\ Form(g, "GIVEN", 0, TRUE).kind = "GIVEN"
    BY ONLY <2>4, <2>5, FormIs
  <2>7. /\ Form(f, "FAMILY", 0, TRUE) \in Claimed /\ Form(f, "FAMILY", 0, TRUE).part = TRUE
        /\ Form(f, "FAMILY", 0, TRUE).kind = "FAMILY"
    BY ONLY <2>4, <2>5, FormIs
  <2>8. CASE k % 2 = 1
    <3>1. s[k] = Form(g, "GIVEN", 0, TRUE)
      BY <2>3, <2>8 DEF g
    <3> QED
      BY <2>6, <2>8, <3>1
  <2>9. CASE ~ (k % 2 = 1)
    <3>1. s[k] = Form(f, "FAMILY", 0, TRUE)
      BY <2>3, <2>9 DEF f
    <3> QED
      BY <2>7, <2>9, <3>1
  <2> QED
    BY <2>8, <2>9
<1>4. s \in Seq(Claimed) /\ Len(s) = 2 * V /\ 2 * V \in 0..(2 * Most)
  <2>1. s \in [1..(2 * V) -> Claimed]
    BY <1>2, <1>3
  <2>2. 2 * V \in 0..(2 * Most)
    BY <1>1, MostIs
  <2> DEFINE d == 2 * V
  <2>3. s \in [1..d -> Claimed] /\ d \in 0..(2 * Most)
    BY <2>1, <2>2
  <2> HIDE DEF d
  <2>4. s \in Seq(Claimed) /\ Len(s) = d
    BY <2>3
  <2> QED
    BY <2>2, <2>4 DEF d
<1>5. Len(s) \in 0..(2 * Most) /\ \A k \in 1..Len(s) : s[k].part = TRUE /\ s[k].kind = IF k % 2 = 1 THEN "GIVEN" ELSE "FAMILY"
  BY <1>3, <1>4
<1> QED
  BY <1>4, <1>5 DEF s

(* All that a person claims, in the order of the claims.                     *)
LEMMA ClaimsOrdered ==
  ASSUME NEW person, IsPerson(person)
  PROVE  Ordered(Wholes(person) \o NameParts(person), Len(Wholes(person)))
<1> DEFINE a == Wholes(person)
           b == NameParts(person)
           h == Len(a)
           w == a \o b
<1>1. /\ a \in Seq(Claimed)
      /\ \A k \in 1..h : IsWhole(a[k])
      /\ \A j, k \in 1..h : a[j].kind = a[k].kind /\ a[j].n = a[k].n => j = k
  BY WholesAre
<1>2. /\ b \in Seq(Claimed) /\ Len(b) \in 0..(2 * Most)
      /\ \A k \in 1..Len(b) : b[k].part = TRUE /\ b[k].kind = IF k % 2 = 1 THEN "GIVEN" ELSE "FAMILY"
  BY PartsAreClaims
<1> HIDE DEF a, b
<1>3. a \in Seq(Claimed) /\ b \in Seq(Claimed)
  BY <1>1, <1>2
<1>4. /\ w \in Seq(Claimed) /\ Len(w) = h + Len(b)
      /\ \A k \in 1..(h + Len(b)) : w[k] = IF k <= h THEN a[k] ELSE b[k - h]
  BY <1>3, ConcatProperties
<1>5. h \in Nat /\ Len(b) \in 0..(2 * Most)
  BY <1>2, <1>3
<1> HIDE DEF w, h
<1>6. h <= Len(w) /\ Len(w) <= h + 2 * Most
  <2>1. Len(w) = h + Len(b)
    BY <1>4
  <2>2. Len(b) \in Nat /\ Len(b) <= 2 * Most /\ h \in Nat
    <3> DEFINE y == Len(b)
    <3>1. y \in 0..(2 * Most)
      BY <1>2
    <3> HIDE DEF y
    <3>2. y \in Nat /\ y <= 2 * Most
      BY <3>1, MostIs
    <3> QED
      BY <1>5, <3>2 DEF y
  <2>3. \A x \in Nat, y \in Nat : y <= 2 * Most => x <= x + y /\ x + y <= x + 2 * Most
    BY MostIs
  <2> QED
    BY <2>1, <2>2, <2>3
<1>7. \A k \in 1..h : w[k] = a[k]
  BY <1>4, <1>5
<1>8. ASSUME NEW k \in 1..Len(w), k > h
      PROVE w[k].part = TRUE /\ w[k].kind = IF (k - h) % 2 = 1 THEN "GIVEN" ELSE "FAMILY"
  <2> DEFINE y == k - h
  <2>1. y \in 1..Len(b) /\ k \in 1..(h + Len(b)) /\ ~ (k <= h)
    BY <1>4, <1>5, <1>8
  <2>2. w[k] = b[y]
    BY <1>4, <2>1
  <2> HIDE DEF y
  <2>3. w[k].part = TRUE /\ w[k].kind = IF y % 2 = 1 THEN "GIVEN" ELSE "FAMILY"
    BY <1>2, <2>1, <2>2
  <2> QED
    BY <2>3 DEF y
<1>9. Ordered(w, h)
  BY <1>1, <1>4, <1>5, <1>6, <1>7, <1>8 DEF Ordered
<1> QED
  BY <1>9 DEF a, b, h, w

-----------------------------------------------------------------------------
(* What is claimed is entered, unless it is nothing or another's.            *)
Entered == [id : 1..Most, value : Literals, part : BOOLEAN, kind : Kinds, n : Nat]
Kin(forms, id, kind) == {i \in DOMAIN forms : forms[i].id = id /\ forms[i].kind = kind}
Entry(forms, form, id) ==
  [id |-> id, value |-> form.value, part |-> form.part, kind |-> form.kind, n |-> Numbered(forms, form, id)]

(* The entries of one person and kind are finitely many.                     *)
LEMMA KinCount ==
  ASSUME NEW forms \in Seq(Entered), NEW id, NEW kind
  PROVE  IsFiniteSet(Kin(forms, id, kind)) /\ Cardinality(Kin(forms, id, kind)) \in Nat /\ Kin(forms, id, kind) \subseteq 1..Len(forms)
<1>1. Len(forms) \in Nat /\ DOMAIN forms = 1..Len(forms)
  OBVIOUS
<1>2. IsFiniteSet(1..Len(forms))
  BY <1>1, FS_Interval
<1>3. Kin(forms, id, kind) \subseteq 1..Len(forms)
  BY <1>1 DEF Kin
<1> QED
  BY <1>2, <1>3, FS_Subset, FS_CardinalityType

(* What is entered for a claim, and its number.                              *)
LEMMA EntryIs ==
  ASSUME NEW forms \in Seq(Entered), NEW id \in 1..Most, NEW form \in Claimed, form.value # <<>>
  PROVE  /\ Entry(forms, form, id) \in Entered
         /\ form.part = TRUE => Numbered(forms, form, id) = Cardinality(Kin(forms, id, form.kind)) + 1
         /\ form.part = FALSE => Numbered(forms, form, id) = form.n
<1>1. /\ form.value \in Literals /\ form.kind \in Kinds /\ form.n \in Nat /\ form.part \in BOOLEAN
  BY DEF Claimed
<1>2. Numbered(forms, form, id) = IF form.part THEN Cardinality(Kin(forms, id, form.kind)) + 1 ELSE form.n
  BY DEF Numbered, Kin
<1>3. Numbered(forms, form, id) \in Nat
  BY <1>1, <1>2, KinCount
<1> QED
  BY <1>1, <1>2, <1>3 DEF Entry, Entered

(* A claim adds its entry, or nothing.                                       *)
LEMMA ClaimIs ==
  ASSUME NEW forms \in Seq(Entered), NEW id, NEW form
  PROVE  \/ Claim(forms, form, id) = forms
         \/ form.value # <<>> /\ Claim(forms, form, id) = Append(forms, Entry(forms, form, id))
BY DEF Claim, Entry

(* Either way the table holds entries.                                       *)
LEMMA ClaimEnters ==
  ASSUME NEW forms \in Seq(Entered), NEW id \in 1..Most, NEW form \in Claimed
  PROVE  Claim(forms, form, id) \in Seq(Entered)
<1>1. CASE Claim(forms, form, id) = forms
  BY <1>1
<1>2. CASE form.value # <<>> /\ Claim(forms, form, id) = Append(forms, Entry(forms, form, id))
  <2>1. Entry(forms, form, id) \in Entered
    BY <1>2, EntryIs
  <2>2. Append(forms, Entry(forms, form, id)) \in Seq(Entered)
    BY <2>1, AppendProperties
  <2> QED
    BY <1>2, <2>2
<1> QED
  BY <1>1, <1>2, ClaimIs

(* What the claims of a person, of which the first h are whole identities,   *)
(* have made of the table: the person's whole identities are among the claims*)
(* so far, and its parts are numbered, by twos at most.                      *)
Sorted(forms, id) ==
  /\ forms \in Seq(Entered)
  /\ \A k \in 1..Len(forms) : /\ forms[k].n \in 1..Most /\ (forms[k].kind = "" => forms[k].n = 1) /\ forms[k].id <= id
  /\ \A j, k \in 1..Len(forms) :
       forms[j].id = forms[k].id /\ forms[j].kind = forms[k].kind /\ forms[j].n = forms[k].n => j = k
Backed(form, claims, h, m) ==
  \E j \in 1..h : j <= m /\ claims[j].kind = form.kind /\ claims[j].n = form.n
IsPart(form) == form.kind \in {"GIVEN", "FAMILY"}
Counted(forms, id, h, m) ==
  /\ 2 * Cardinality(Kin(forms, id, "GIVEN")) <= IF m <= h THEN 0 ELSE m - h + 1
  /\ 2 * Cardinality(Kin(forms, id, "FAMILY")) <= IF m <= h THEN 0 ELSE m - h
Claiming(forms, id, claims, h, m) ==
  /\ Sorted(forms, id) /\ Counted(forms, id, h, m)
  /\ \A k \in 1..Len(forms) : forms[k].id = id =>
       /\ IsPart(forms[k]) => forms[k].n <= Cardinality(Kin(forms, id, forms[k].kind))
       /\ ~ IsPart(forms[k]) => Backed(forms[k], claims, h, m)

(* An entry counts among its own person and kind.                            *)
LEMMA KinGrows ==
  ASSUME NEW forms \in Seq(Entered), NEW e \in Entered, NEW id, NEW kind
  PROVE  Cardinality(Kin(Append(forms, e), id, kind))
           = IF e.id = id /\ e.kind = kind THEN Cardinality(Kin(forms, id, kind)) + 1 ELSE Cardinality(Kin(forms, id, kind))
<1> DEFINE L == Len(forms)
           q == Append(forms, e)
<1>1. L \in Nat /\ DOMAIN forms = 1..L
  OBVIOUS
<1>2. q \in Seq(Entered) /\ Len(q) = L + 1 /\ q[L + 1] = e /\ \A i \in 1..L : q[i] = forms[i]
  BY AppendProperties
<1> HIDE DEF q, L
<1>3. DOMAIN q = 1..(L + 1) /\ L + 1 \notin 1..L /\ 1..(L + 1) = 1..L \cup {L + 1}
  BY <1>1, <1>2
<1>4. L + 1 \notin Kin(forms, id, kind)
  BY <1>1, <1>3 DEF Kin
<1>5. CASE e.id = id /\ e.kind = kind
  <2>1. Kin(q, id, kind) = Kin(forms, id, kind) \cup {L + 1}
    BY <1>1, <1>2, <1>3, <1>5 DEF Kin
  <2>2. Cardinality(Kin(forms, id, kind) \cup {L + 1}) = Cardinality(Kin(forms, id, kind)) + 1
    BY <1>4, KinCount, FS_AddElement
  <2> QED
    BY <1>5, <2>1, <2>2 DEF q
<1>6. CASE ~ (e.id = id /\ e.kind = kind)
  <2>1. Kin(q, id, kind) = Kin(forms, id, kind)
    BY <1>1, <1>2, <1>3, <1>6 DEF Kin
  <2> QED
    BY <1>6, <2>1 DEF q
<1> QED
  BY <1>5, <1>6

(* A claim that adds nothing leaves the table in order.                      *)
LEMMA ClaimsStay ==
  ASSUME NEW forms, NEW id, NEW claims, NEW h \in Nat, NEW m \in Nat, Claiming(forms, id, claims, h, m)
  PROVE  Claiming(forms, id, claims, h, m + 1)
<1>1. Sorted(forms, id) /\ Counted(forms, id, h, m) /\ forms \in Seq(Entered)
  BY DEF Claiming, Sorted
<1> DEFINE g == Cardinality(Kin(forms, id, "GIVEN"))
           f == Cardinality(Kin(forms, id, "FAMILY"))
<1>2. g \in Nat /\ f \in Nat
  BY <1>1, KinCount
<1>3. 2 * g <= (IF m <= h THEN 0 ELSE m - h + 1) /\ 2 * f <= (IF m <= h THEN 0 ELSE m - h)
  BY <1>1 DEF Counted
<1> HIDE DEF g, f
<1>4. 2 * g <= (IF m + 1 <= h THEN 0 ELSE m + 1 - h + 1) /\ 2 * f <= (IF m + 1 <= h THEN 0 ELSE m + 1 - h)
  BY <1>2, <1>3
<1>5. Counted(forms, id, h, m + 1)
  BY <1>4 DEF Counted, g, f
<1>6. ASSUME NEW form, Backed(form, claims, h, m) PROVE Backed(form, claims, h, m + 1)
  <2>1. \A j \in 1..h : j <= m => j <= m + 1
    OBVIOUS
  <2> QED
    BY <1>6, <2>1 DEF Backed
<1> QED
  BY <1>1, <1>5, <1>6 DEF Claiming

(* All claims of a person are steps of one claim each.                       *)
LEMMA ClaimSteps ==
  ASSUME NEW forms \in Seq(Entered), NEW id \in 1..Most, NEW claims \in Seq(Claimed)
  PROVE  \E c : /\ c[0] = forms /\ ClaimAll(forms, id, claims) = c[Len(claims)]
                /\ \A m \in Nat : m < Len(claims) => c[m + 1] = Claim(c[m], claims[m + 1], id)
<1> DEFINE n == Len(claims)
           A == Seq(Entered)
           B == Claimed
           step == [p \in A \X B |-> Claim(p[1], p[2], id)]
           Sums(c) == c = [s \in SUBSET (1..n) |-> IF s = {} THEN forms ELSE Claim(c[s \ {Max(s)}], claims[Max(s)], id)]
           sum == CHOOSE c : Sums(c)
<1>1. n \in Nat /\ DOMAIN claims = 1..n /\ Len(claims) = n /\ claims \in Seq(B) /\ \A i \in 1..n : claims[i] \in B
  OBVIOUS
<1>2. ClaimAll(forms, id, claims) = sum[1..n]
  BY <1>1 DEF ClaimAll, FoldLeft, MapThenFoldSet
<1>3. \E c : Sums(c)
  <2>1. step \in [A \X B -> A] /\ forms \in A
    BY ClaimEnters
  <2> HIDE DEF step, A, B
  <2>2. PICK c : Folds(c, A, claims, forms, step)
    BY <1>1, <2>1, FoldExists
  <2>3. ASSUME NEW s \in SUBSET (1..n), s # {}
        PROVE step[<<c[s \ {Max(s)}], claims[Max(s)]>>] = Claim(c[s \ {Max(s)}], claims[Max(s)], id)
    <3>1. claims[Max(s)] \in B
      BY <1>1, <2>3, LastPlace
    <3>2. c[s \ {Max(s)}] \in A
      BY <1>1, <2>2, <2>3 DEF Folds
    <3> QED
      BY <3>1, <3>2 DEF step
  <2>4. c = [s \in SUBSET (1..n) |-> c[s]]
    BY <1>1, <2>2 DEF Folds
  <2>5. \A s \in SUBSET (1..n) : c[s] = IF s = {} THEN forms ELSE Claim(c[s \ {Max(s)}], claims[Max(s)], id)
    BY <1>1, <2>2, <2>3 DEF Folds
  <2> QED
    BY <2>4, <2>5
<1>4. Sums(sum)
  BY <1>3
<1> HIDE DEF sum
<1>5. sum[1..0] = forms
  <2>1. 1..0 \in SUBSET (1..n)
    BY <1>1
  <2> QED
    BY <1>4, <2>1, PlacesUpTo
<1>6. ASSUME NEW m \in Nat, m < n PROVE sum[1..(m + 1)] = Claim(sum[1..m], claims[m + 1], id)
  <2>1. \A s \in SUBSET (1..n) : s # {} => sum[s] = Claim(sum[s \ {Max(s)}], claims[Max(s)], id)
    BY <1>4
  <2> HIDE DEF n, Sums
  <2>2. 1..(m + 1) \in SUBSET (1..n)
    BY <1>1, <1>6, PlacesUpTo
  <2>3. 1..(m + 1) # {} /\ Max(1..(m + 1)) = m + 1 /\ (1..(m + 1)) \ {m + 1} = 1..m
    BY PlacesUpTo
  <2> QED
    BY <2>1, <2>2, <2>3, Zenon
<1> HIDE DEF n, Sums
<1> DEFINE c == [m \in 0..n |-> sum[1..m]]
<1>7. c[0] = forms /\ c[n] = sum[1..n] /\ \A m \in Nat : m < n => c[m + 1] = sum[1..(m + 1)] /\ c[m] = sum[1..m]
  BY <1>1, <1>5
<1> HIDE DEF c
<1>8. \A m \in Nat : m < n => c[m + 1] = Claim(c[m], claims[m + 1], id)
  BY <1>6, <1>7
<1>9. c[0] = forms /\ ClaimAll(forms, id, claims) = c[n]
  BY <1>2, <1>7
<1> QED
  BY <1>8, <1>9 DEF n

Enters(e, forms, id, claims, h, m) ==
  /\ e \in Entered /\ id \in Nat /\ e.id = id /\ e.n \in 1..Most /\ (e.kind = "" => e.n = 1)
  /\ Counted(Append(forms, e), id, h, m)
  /\ \A j \in 1..Len(forms) : ~ (forms[j].id = id /\ forms[j].kind = e.kind /\ forms[j].n = e.n)
  /\ IsPart(e) => e.n <= Cardinality(Kin(Append(forms, e), id, e.kind))
  /\ ~ IsPart(e) => Backed(e, claims, h, m)

(* An entry of a new number leaves the table in order.                       *)
LEMMA EntryStays ==
  ASSUME NEW forms, NEW id, NEW claims, NEW h \in Nat, NEW m \in Nat, Claiming(forms, id, claims, h, m),
         NEW e, Enters(e, forms, id, claims, h, m + 1)
  PROVE  Claiming(Append(forms, e), id, claims, h, m + 1)
<1> DEFINE L == Len(forms)
           q == Append(forms, e)
<1>1. forms \in Seq(Entered) /\ Sorted(forms, id)
  BY DEF Claiming, Sorted
<1>0. e \in Entered /\ e.id = id /\ e.n \in 1..Most /\ (e.kind = "" => e.n = 1) /\ id \in Nat
  BY DEF Enters
<1>2. L \in Nat /\ q \in Seq(Entered) /\ Len(q) = L + 1 /\ q[L + 1] = e /\ \A i \in 1..L : q[i] = forms[i]
  <2>1. L \in Nat
    BY <1>1
  <2>2. q \in Seq(Entered) /\ Len(q) = L + 1 /\ q[L + 1] = e /\ \A i \in 1..L : q[i] = forms[i]
    <3>1. forms \in Seq(Entered) /\ e \in Entered
      BY <1>0, <1>1
    <3> QED
      BY ONLY <3>1, AppendProperties
  <2> QED
    BY <2>1, <2>2
<1>3. \A kind : Cardinality(Kin(forms, id, kind)) <= Cardinality(Kin(q, id, kind))
  <2> SUFFICES ASSUME NEW kind PROVE Cardinality(Kin(forms, id, kind)) <= Cardinality(Kin(q, id, kind))
    OBVIOUS
  <2> DEFINE a == Cardinality(Kin(forms, id, kind))
             b == Cardinality(Kin(q, id, kind))
  <2>1. a \in Nat
    BY <1>1, KinCount
  <2>2. b = a + 1 \/ b = a
    BY <1>0, <1>1, KinGrows
  <2> HIDE DEF a, b
  <2>3. a <= b
    BY <2>1, <2>2
  <2> QED
    BY <2>3 DEF a, b
<1>3a. \A kind : Cardinality(Kin(forms, id, kind)) \in Nat /\ Cardinality(Kin(q, id, kind)) \in Nat
  BY <1>1, <1>2, KinCount
<1> HIDE DEF q, L
<1>4. \A k \in 1..(L + 1) : k \in 1..L \/ k = L + 1
  BY <1>2
<1>5. \A k \in 1..Len(q) : (k \in 1..L /\ q[k] = forms[k]) \/ (k = L + 1 /\ q[k] = e)
  BY <1>2, <1>4
<1>6. Sorted(q, id)
  <2>1. \A k \in 1..L : /\ forms[k].n \in 1..Most /\ (forms[k].kind = "" => forms[k].n = 1) /\ forms[k].id <= id
    BY <1>1 DEF Sorted, L
  <2>2. \A j, k \in 1..L :
          forms[j].id = forms[k].id /\ forms[j].kind = forms[k].kind /\ forms[j].n = forms[k].n => j = k
    BY <1>1 DEF Sorted, L
  <2>3. e.id <= id
    <3>1. id \in Nat => id <= id
      OBVIOUS
    <3> QED
      BY <1>0, <3>1, Zenon
  <2>4. ASSUME NEW k \in 1..Len(q) PROVE q[k].n \in 1..Most /\ (q[k].kind = "" => q[k].n = 1) /\ q[k].id <= id
    BY <1>0, <1>5, <2>1, <2>3
  <2>5. ASSUME NEW j \in 1..Len(q), NEW k \in 1..Len(q), q[j].id = q[k].id, q[j].kind = q[k].kind, q[j].n = q[k].n
        PROVE  j = k
    <3>1. \A i \in 1..L : ~ (forms[i].id = id /\ forms[i].kind = e.kind /\ forms[i].n = e.n)
      BY DEF L, Enters
    <3>2. CASE j \in 1..L /\ q[j] = forms[j] /\ k \in 1..L /\ q[k] = forms[k]
      BY <2>2, <2>5, <3>2
    <3>3. CASE j \in 1..L /\ q[j] = forms[j] /\ k = L + 1 /\ q[k] = e
      BY <1>0, <2>5, <3>1, <3>3
    <3>4. CASE k \in 1..L /\ q[k] = forms[k] /\ j = L + 1 /\ q[j] = e
      BY <1>0, <2>5, <3>1, <3>4
    <3>5. CASE j = L + 1 /\ k = L + 1
      BY <3>5
    <3> QED
      BY <1>5, <3>2, <3>3, <3>4, <3>5
  <2> QED
    BY <1>2, <2>4, <2>5 DEF Sorted
<1>7. ASSUME NEW k \in 1..Len(q), q[k].id = id
      PROVE  /\ IsPart(q[k]) => q[k].n <= Cardinality(Kin(q, id, q[k].kind))
             /\ ~ IsPart(q[k]) => Backed(q[k], claims, h, m + 1)
  <2>1. CASE k \in 1..L /\ q[k] = forms[k]
    <3>1. Claiming(forms, id, claims, h, m + 1)
      BY ClaimsStay
    <3>2. ~ IsPart(forms[k]) => Backed(forms[k], claims, h, m + 1)
      BY <1>7, <2>1, <3>1 DEF Claiming, L
    <3>3. IsPart(forms[k]) => forms[k].n <= Cardinality(Kin(forms, id, forms[k].kind))
      BY <1>7, <2>1, <3>1 DEF Claiming, L
    <3>4. forms[k].n \in Nat
      <4>1. forms[k].n \in 1..Most
        BY <1>1, <2>1 DEF Sorted, L
      <4> QED
        BY <4>1
    <3> DEFINE a == Cardinality(Kin(forms, id, forms[k].kind))
               b == Cardinality(Kin(q, id, forms[k].kind))
    <3>5. a <= b /\ a \in Nat /\ b \in Nat
      BY <1>3, <1>3a
    <3>6. IsPart(forms[k]) => forms[k].n <= a
      BY <3>3
    <3> HIDE DEF a, b
    <3>7. IsPart(forms[k]) => forms[k].n <= b
      BY <3>4, <3>5, <3>6
    <3> QED
      BY <2>1, <3>2, <3>7 DEF b
  <2>2. CASE k = L + 1 /\ q[k] = e
    BY <2>2 DEF q, Enters
  <2> QED
    BY <1>5, <2>1, <2>2
<1>8. Counted(q, id, h, m + 1)
  BY DEF q, Enters
<1>9. Claiming(q, id, claims, h, m + 1)
  BY <1>6, <1>7, <1>8 DEF Claiming
<1> QED
  BY <1>9 DEF q

(* So does each claim, for the number of a part is beyond those before it.   *)
LEMMA ClaimStep ==
  ASSUME NEW forms, NEW id \in 1..Most, NEW claims, NEW h \in Nat, Ordered(claims, h), NEW m \in Nat, m < Len(claims),
         Claiming(forms, id, claims, h, m)
  PROVE  Claiming(Claim(forms, claims[m + 1], id), id, claims, h, m + 1)
<1> DEFINE f == claims[m + 1]
           e == Entry(forms, f, id)
           q == Append(forms, e)
           g == Cardinality(Kin(forms, id, "GIVEN"))
           y == Cardinality(Kin(forms, id, "FAMILY"))
<1>1a. forms \in Seq(Entered) /\ Sorted(forms, id) /\ id \in Nat
  <2>1. id \in Nat
    OBVIOUS
  <2> QED
    BY <2>1 DEF Claiming, Sorted
<1>1. forms \in Seq(Entered) /\ claims \in Seq(Claimed) /\ Len(claims) \in Nat /\ Sorted(forms, id) /\ id \in Nat
  <2>1. claims \in Seq(Claimed)
    BY DEF Ordered
  <2>2. Len(claims) \in Nat
    BY <2>1
  <2> QED
    BY <2>1, <2>2, <1>1a
<1>2. m + 1 \in 1..Len(claims) /\ f \in Claimed
  BY <1>1
<1>3. CASE Claim(forms, f, id) = forms
  BY <1>3, ClaimsStay
<1>4. CASE f.value # <<>> /\ Claim(forms, f, id) = q
  <2>1. e \in Entered /\ e.id = id /\ e.kind = f.kind /\ e.part = f.part /\ e.n = Numbered(forms, f, id)
    BY <1>1, <1>2, <1>4, EntryIs DEF Entry
  <2>2. /\ f.part = TRUE => e.n = Cardinality(Kin(forms, id, f.kind)) + 1
        /\ f.part = FALSE => e.n = f.n
    BY <1>1, <1>2, <1>4, <2>1, EntryIs
  <2>3. g \in Nat /\ y \in Nat
    BY <1>1, KinCount
  <2>4. \A kind : Cardinality(Kin(q, id, kind)) =
          IF f.kind = kind THEN Cardinality(Kin(forms, id, kind)) + 1 ELSE Cardinality(Kin(forms, id, kind))
    BY <1>1, <2>1, KinGrows
  <2>5. 2 * g <= (IF m <= h THEN 0 ELSE m - h + 1) /\ 2 * y <= (IF m <= h THEN 0 ELSE m - h)
    BY DEF Claiming, Counted
  <2>6. \A k \in 1..Len(forms) : forms[k].id = id =>
          /\ IsPart(forms[k]) => forms[k].n <= Cardinality(Kin(forms, id, forms[k].kind))
          /\ ~ IsPart(forms[k]) => Backed(forms[k], claims, h, m)
    BY DEF Claiming
  <2> HIDE DEF e, q, f, g, y
  <2>7. CASE m + 1 <= h
    <3>1. m + 1 \in 1..h /\ m <= h
      BY <2>7
    <3>2. IsWhole(f)
      BY <3>1 DEF Ordered, f
    <3>3. ~ IsPart(e) /\ e.n = f.n /\ e.n \in 1..Most /\ (e.kind = "" => e.n = 1) /\ f.kind # "GIVEN" /\ f.kind # "FAMILY"
      BY <2>1, <2>2, <3>2 DEF IsWhole, IsPart
    <3>4. Backed(e, claims, h, m + 1)
      <4>1. claims[m + 1].kind = e.kind /\ claims[m + 1].n = e.n /\ m + 1 <= m + 1
        <5>1. m + 1 <= m + 1
          OBVIOUS
        <5>2. f.kind = e.kind /\ f.n = e.n
          BY <2>1, <3>3
        <5> QED
          BY <5>1, <5>2 DEF f
      <4> QED
        BY <3>1, <4>1 DEF Backed
    <3>5. Cardinality(Kin(q, id, "GIVEN")) = g /\ Cardinality(Kin(q, id, "FAMILY")) = y
      BY <2>4, <3>3 DEF g, y
    <3>6. 2 * g <= 0 /\ 2 * y <= 0
      BY <2>5, <3>1
    <3>7. Counted(q, id, h, m + 1)
      BY <2>7, <3>5, <3>6 DEF Counted
    <3>8. ASSUME NEW j \in 1..Len(forms), forms[j].id = id, forms[j].kind = e.kind, forms[j].n = e.n
          PROVE  FALSE
      <4>1. ~ IsPart(forms[j])
        BY <3>3, <3>8 DEF IsPart
      <4>2. PICK i \in 1..h : i <= m /\ claims[i].kind = forms[j].kind /\ claims[i].n = forms[j].n
        BY <2>6, <3>8, <4>1 DEF Backed
      <4>3. claims[i].kind = claims[m + 1].kind /\ claims[i].n = claims[m + 1].n
        BY <2>1, <3>3, <3>8, <4>2 DEF f
      <4>4. i = m + 1
        BY <3>1, <4>3 DEF Ordered
      <4> QED
        BY <4>2, <4>4
    <3>9. Claiming(q, id, claims, h, m + 1)
      <4>1. Enters(e, forms, id, claims, h, m + 1)
        BY <1>1, <2>1, <3>3, <3>4, <3>7, <3>8 DEF q, Enters
      <4> QED
        BY <4>1, EntryStays DEF q
    <3> QED
      BY <1>4, <3>9 DEF f
  <2>8. CASE ~ (m + 1 <= h)
    <3> DEFINE p == m - h
    <3>1. p \in 0..(2 * Most - 1)
      <4>1. Len(claims) <= h + 2 * Most
        BY DEF Ordered
      <4> QED
        BY <1>1, <2>8, <4>1, MostIs
    <3>2. f.part = TRUE /\ f.kind = IF (m + 1 - h) % 2 = 1 THEN "GIVEN" ELSE "FAMILY"
      BY <1>2, <2>8 DEF Ordered, f
    <3>3. f.kind = IF (p + 1) % 2 = 1 THEN "GIVEN" ELSE "FAMILY"
      <4>1. m + 1 - h = p + 1
        OBVIOUS
      <4> QED
        BY <3>2, <4>1
    <3>4. 2 * g <= p + 1 /\ 2 * y <= p
      BY <2>3, <2>5, <2>8
    <3>6. ASSUME 2 * Cardinality(Kin(q, id, "GIVEN")) <= p + 2, 2 * Cardinality(Kin(q, id, "FAMILY")) <= p + 1
          PROVE  Counted(q, id, h, m + 1)
      <4> DEFINE a == Cardinality(Kin(q, id, "GIVEN"))
                 b == Cardinality(Kin(q, id, "FAMILY"))
      <4>1. 2 * a <= (IF m + 1 <= h THEN 0 ELSE m + 1 - h + 1) /\ 2 * b <= (IF m + 1 <= h THEN 0 ELSE m + 1 - h)
        <5>1. p + 2 = m + 1 - h + 1 /\ p + 1 = m + 1 - h
          OBVIOUS
        <5> QED
          BY <2>8, <3>6, <5>1
      <4> QED
        BY <4>1 DEF Counted
    <3> HIDE DEF p
    <3>7. /\ e.n \in 1..Most /\ IsPart(e) /\ e.kind # "" /\ Counted(q, id, h, m + 1)
          /\ e.n = Cardinality(Kin(forms, id, e.kind)) + 1
      <4>1. CASE (p + 1) % 2 = 1
        <5>1. f.kind = "GIVEN" /\ f.kind # "FAMILY" /\ f.kind # ""
          BY <3>3, <4>1
        <5>2. Cardinality(Kin(q, id, "GIVEN")) = g + 1 /\ Cardinality(Kin(q, id, "FAMILY")) = y /\ e.n = g + 1
          BY <2>2, <2>4, <3>2, <5>1 DEF g, y
        <5>3. 2 * (g + 1) <= p + 2 /\ g + 1 \in 1..Most /\ 2 * y <= p + 1
          BY <2>3, <3>1, <3>4, <4>1, MostIs
        <5>4. Counted(q, id, h, m + 1)
          BY <3>6, <5>2, <5>3
        <5> QED
          BY <2>1, <5>1, <5>2, <5>3, <5>4 DEF IsPart, g
      <4>2. CASE ~ ((p + 1) % 2 = 1)
        <5>1. f.kind = "FAMILY" /\ f.kind # "GIVEN" /\ f.kind # ""
          BY <3>3, <4>2
        <5>2. Cardinality(Kin(q, id, "GIVEN")) = g /\ Cardinality(Kin(q, id, "FAMILY")) = y + 1 /\ e.n = y + 1
          BY <2>2, <2>4, <3>2, <5>1 DEF g, y
        <5>3. 2 * (y + 1) <= p + 1 /\ y + 1 \in 1..Most /\ 2 * g <= p + 2
          BY <2>3, <3>1, <3>4, <4>2, MostIs
        <5>4. Counted(q, id, h, m + 1)
          BY <3>6, <5>2, <5>3
        <5> QED
          BY <2>1, <5>1, <5>2, <5>3, <5>4 DEF IsPart, y
      <4> QED
        BY <4>1, <4>2
    <3>8. e.n = Cardinality(Kin(q, id, e.kind)) /\ Cardinality(Kin(forms, id, e.kind)) \in Nat
      BY <1>1, <2>1, <2>4, <3>7, KinCount
    <3>9. ASSUME NEW j \in 1..Len(forms), forms[j].id = id, forms[j].kind = e.kind, forms[j].n = e.n
          PROVE  FALSE
      <4>1. IsPart(forms[j])
        BY <3>7, <3>9 DEF IsPart
      <4>2. forms[j].n <= Cardinality(Kin(forms, id, e.kind))
        BY <2>6, <3>9, <4>1
      <4> DEFINE c == Cardinality(Kin(forms, id, e.kind))
      <4>3. c \in Nat /\ c + 1 <= c
        BY <3>7, <3>8, <3>9, <4>2
      <4> HIDE DEF c
      <4> QED
        BY <4>3
    <3>10. e.n <= Cardinality(Kin(q, id, e.kind))
      <4> DEFINE c == Cardinality(Kin(q, id, e.kind))
                 d == Cardinality(Kin(forms, id, e.kind))
      <4>1. e.n = c /\ c = d + 1 /\ d \in Nat
        BY <3>7, <3>8
      <4> HIDE DEF c, d
      <4>2. e.n <= c
        BY <4>1
      <4> QED
        BY <4>2 DEF c
    <3>11. Claiming(q, id, claims, h, m + 1)
      <4>1. Enters(e, forms, id, claims, h, m + 1)
        BY <1>1, <2>1, <3>7, <3>9, <3>10 DEF q, Enters
      <4> QED
        BY <4>1, EntryStays DEF q
    <3> QED
      BY <1>4, <3>11 DEF f
  <2> QED
    BY <2>7, <2>8
<1> QED
  BY <1>1, <1>3, <1>4, ClaimIs

(* A person's claims leave the table as it should be.                        *)
ClaimsOf(people, acc, id) == ClaimAll(acc, id, Wholes(people[id]) \o NameParts(people[id]))

(* Before its first claim a person is not in the table.                      *)
LEMMA ClaimsBegin ==
  ASSUME NEW forms, NEW id \in 1..Most, Sorted(forms, id - 1), NEW claims, NEW h \in Nat
  PROVE  Claiming(forms, id, claims, h, 0)
<1>1. forms \in Seq(Entered) /\ \A k \in 1..Len(forms) : forms[k] \in Entered
  <2>1. forms \in Seq(Entered)
    BY DEF Sorted
  <2> QED
    BY <2>1
<1>2. ASSUME NEW k \in 1..Len(forms) PROVE forms[k].id <= id /\ forms[k].id # id
  <2> DEFINE x == forms[k].id
  <2>1. x \in 1..Most /\ x <= id - 1
    BY <1>1 DEF Sorted, Entered
  <2> HIDE DEF x
  <2>2. x <= id /\ x # id
    BY <2>1
  <2> QED
    BY <2>2 DEF x
<1>3. Sorted(forms, id)
  BY <1>1, <1>2 DEF Sorted
<1>4. ASSUME NEW kind PROVE Cardinality(Kin(forms, id, kind)) = 0
  <2>1. Kin(forms, id, kind) = {}
    BY <1>1, <1>2 DEF Kin
  <2> QED
    BY <2>1, FS_EmptySet
<1>5. Counted(forms, id, h, 0)
  <2> DEFINE g == Cardinality(Kin(forms, id, "GIVEN"))
             f == Cardinality(Kin(forms, id, "FAMILY"))
  <2>1. g = 0 /\ f = 0
    BY <1>4
  <2> HIDE DEF g, f
  <2>2. 2 * g <= (IF 0 <= h THEN 0 ELSE 0 - h + 1) /\ 2 * f <= (IF 0 <= h THEN 0 ELSE 0 - h)
    BY <2>1
  <2> QED
    BY <2>2 DEF Counted, g, f
<1> QED
  BY <1>2, <1>3, <1>5 DEF Claiming

(* After its last the table is in order for the people up to it.             *)
LEMMA ClaimsEnter ==
  ASSUME NEW people, IsPeople(people), NEW forms \in Seq(Entered), NEW id \in 1..Len(people)
  PROVE  /\ ClaimsOf(people, forms, id) \in Seq(Entered)
         /\ Sorted(forms, id - 1) => Sorted(ClaimsOf(people, forms, id), id)
<1> DEFINE person == people[id]
           claims == Wholes(person) \o NameParts(person)
           h == Len(Wholes(person))
           n == Len(claims)
<1>1. id \in 1..Most /\ IsPerson(person)
  <2>1. Len(people) \in 0..Most /\ IsPerson(person)
    BY DEF IsPeople
  <2> DEFINE p == Len(people)
  <2>2. p \in 0..Most /\ id \in 1..p
    BY <2>1
  <2> HIDE DEF p
  <2>3. id \in 1..Most
    BY <2>2, MostIs
  <2> QED
    BY <2>1, <2>3
<1>2. Ordered(claims, h)
  BY <1>1, ClaimsOrdered
<1> HIDE DEF person
<1>3. ClaimsOf(people, forms, id) = ClaimAll(forms, id, claims)
  BY DEF ClaimsOf, person
<1> HIDE DEF claims, h
<1>4. claims \in Seq(Claimed) /\ h \in Nat
  BY <1>2 DEF Ordered
<1>5. n \in Nat
  BY <1>4
<1>6. PICK c : /\ c[0] = forms /\ ClaimAll(forms, id, claims) = c[n]
               /\ \A m \in Nat : m < n => c[m + 1] = Claim(c[m], claims[m + 1], id)
  BY <1>1, <1>4, ClaimSteps
<1>7. \A m \in Nat : m < n => claims[m + 1] \in Claimed
  <2>1. ASSUME NEW m \in Nat, m < n PROVE claims[m + 1] \in Claimed
    <3>1. m + 1 \in 1..n
      BY <1>5, <2>1
    <3> QED
      BY <1>4, <3>1
  <2> QED
    BY <2>1
<1> HIDE DEF n
<1>8. c[n] \in Seq(Entered)
  <2> DEFINE S == {m \in Nat : c[m] \in Seq(Entered)}
  <2>1. 0 \in S
    BY <1>6
  <2>2. ASSUME NEW m \in Nat, m \in S, m < n PROVE m + 1 \in S
    <3>1. c[m] \in Seq(Entered) /\ claims[m + 1] \in Claimed /\ c[m + 1] = Claim(c[m], claims[m + 1], id)
      BY <1>6, <1>7, <2>2
    <3>2. c[m + 1] \in Seq(Entered)
      BY <1>1, <3>1, ClaimEnters
    <3> QED
      BY <3>2
  <2> HIDE DEF S
  <2>3. \A m \in 0..n : m \in S
    BY <1>5, <2>1, <2>2, UpTo
  <2> QED
    BY <1>5, <2>3 DEF S
<1>9. ASSUME Sorted(forms, id - 1) PROVE Sorted(c[n], id)
  <2> DEFINE S == {m \in Nat : Claiming(c[m], id, claims, h, m)}
  <2>1. 0 \in S
    <3>1. Claiming(forms, id, claims, h, 0)
      BY <1>1, <1>4, <1>9, ClaimsBegin
    <3> QED
      BY <1>6, <3>1
  <2>2. ASSUME NEW m \in Nat, m \in S, m < n PROVE m + 1 \in S
    <3>1. Claiming(c[m], id, claims, h, m) /\ c[m + 1] = Claim(c[m], claims[m + 1], id)
      BY <1>6, <2>2
    <3>2. m < Len(claims)
      BY <2>2 DEF n
    <3>3. Claiming(c[m + 1], id, claims, h, m + 1)
      BY <1>1, <1>2, <1>4, <3>1, <3>2, ClaimStep
    <3> QED
      BY <3>3
  <2> HIDE DEF S
  <2>3. \A m \in 0..n : m \in S
    BY <1>5, <2>1, <2>2, UpTo
  <2>4. n \in S
    BY <1>5, <2>3
  <2> QED
    BY <2>4 DEF S, Claiming
<1> QED
  BY <1>3, <1>6, <1>8, <1>9

(* The table is built person by person.                                      *)
LEMMA BuildSteps ==
  ASSUME NEW people, IsPeople(people)
  PROVE  \E c : /\ c[0] = <<>> /\ BuildTable(people) = c[Len(people)]
                /\ \A m \in Nat : m < Len(people) => c[m + 1] = ClaimsOf(people, c[m], Places(Len(people))[m + 1])
<1> DEFINE n == Len(people)
           A == Seq(Entered)
           B == 1..Len(people)
           step == [p \in A \X B |-> ClaimsOf(people, p[1], p[2])]
           Sums(c) == c = [s \in SUBSET (1..n) |-> IF s = {} THEN <<>> ELSE ClaimsOf(people, c[s \ {Max(s)}], Places(Len(people))[Max(s)])]
           sum == CHOOSE c : Sums(c)
<1>1. n \in Nat /\ DOMAIN people = 1..n /\ Places(n) = [i \in DOMAIN people |-> i] /\ Places(n) \in Seq(B)
      /\ Len(Places(n)) = n /\ DOMAIN Places(n) = 1..n /\ \A i \in 1..n : Places(n)[i] \in B
  BY DEF IsPeople, Places
<1>2. BuildTable(people) = sum[1..n]
  BY <1>1 DEF BuildTable, FoldLeft, MapThenFoldSet, ClaimsOf
<1>3. \E c : Sums(c)
  <2>1. step \in [A \X B -> A] /\ <<>> \in A
    BY ClaimsEnter, EmptySeq
  <2> HIDE DEF step, A, B
  <2>2. PICK c : Folds(c, A, Places(Len(people)), <<>>, step)
    BY <1>1, <2>1, FoldExists
  <2>3. ASSUME NEW s \in SUBSET (1..n), s # {}
        PROVE step[<<c[s \ {Max(s)}], Places(Len(people))[Max(s)]>>] = ClaimsOf(people, c[s \ {Max(s)}], Places(Len(people))[Max(s)])
    <3>1. Places(Len(people))[Max(s)] \in B
      BY <1>1, <2>3, LastPlace
    <3>2. c[s \ {Max(s)}] \in A
      BY <1>1, <2>2, <2>3 DEF Folds
    <3> QED
      BY <3>1, <3>2 DEF step
  <2>4. c = [s \in SUBSET (1..n) |-> c[s]]
    BY <1>1, <2>2 DEF Folds
  <2>5. \A s \in SUBSET (1..n) : c[s] = IF s = {} THEN <<>> ELSE ClaimsOf(people, c[s \ {Max(s)}], Places(Len(people))[Max(s)])
    BY <1>1, <2>2, <2>3 DEF Folds
  <2> QED
    BY <2>4, <2>5
<1>4. Sums(sum)
  BY <1>3
<1> HIDE DEF sum
<1>5. sum[1..0] = <<>>
  <2>1. 1..0 \in SUBSET (1..n)
    BY <1>1
  <2> QED
    BY <1>4, <2>1, PlacesUpTo
<1>6. ASSUME NEW m \in Nat, m < n PROVE sum[1..(m + 1)] = ClaimsOf(people, sum[1..m], Places(Len(people))[m + 1])
  <2>1. \A s \in SUBSET (1..n) : s # {} => sum[s] = ClaimsOf(people, sum[s \ {Max(s)}], Places(Len(people))[Max(s)])
    BY <1>4
  <2> HIDE DEF n, Sums
  <2>2. 1..(m + 1) \in SUBSET (1..n)
    BY <1>1, <1>6, PlacesUpTo
  <2>3. 1..(m + 1) # {} /\ Max(1..(m + 1)) = m + 1 /\ (1..(m + 1)) \ {m + 1} = 1..m
    BY PlacesUpTo
  <2> QED
    BY <2>1, <2>2, <2>3, Zenon
<1> HIDE DEF n, Sums
<1> DEFINE c == [m \in 0..n |-> sum[1..m]]
<1>7. c[0] = <<>> /\ c[n] = sum[1..n] /\ \A m \in Nat : m < n => c[m + 1] = sum[1..(m + 1)] /\ c[m] = sum[1..m]
  BY <1>1, <1>5
<1> HIDE DEF c
<1>8. \A m \in Nat : m < n => c[m + 1] = ClaimsOf(people, c[m], Places(Len(people))[m + 1])
  BY <1>6, <1>7
<1>9. c[0] = <<>> /\ BuildTable(people) = c[n]
  BY <1>2, <1>7
<1> QED
  BY <1>8, <1>9 DEF n

(* A table in order for all is a table.                                      *)
LEMMA SortedIsTable ==
  ASSUME NEW forms, NEW id \in Nat, Sorted(forms, id)
  PROVE  IsTable(forms)
<1>1. forms \in Seq(Entered)
  BY DEF Sorted
<1>2. ASSUME NEW k \in 1..Len(forms) PROVE forms[k] \in Forms
  <2>1. forms[k] \in Entered
    BY <1>1
  <2>2. forms[k].n \in 1..Most /\ (forms[k].kind = "" => forms[k].n = 1)
    BY DEF Sorted
  <2> QED
    BY <2>1, <2>2 DEF Entered, Forms
<1>3. forms \in Seq(Forms)
  BY <1>1, <1>2, SeqNarrows
<1> QED
  BY <1>3 DEF Sorted, IsTable

(* The table of any roster tells its placeholders apart.                     *)
LEMMA TableBuilt ==
  ASSUME NEW people, IsPeople(people)
  PROVE  IsTable(BuildTable(people))
<1> DEFINE n == Len(people)
<1>1. n \in Nat
  <2>1. n \in 0..Most
    BY DEF IsPeople
  <2> HIDE DEF n
  <2> QED
    BY <2>1
<1>2. PICK c : /\ c[0] = <<>> /\ BuildTable(people) = c[n]
               /\ \A m \in Nat : m < n => c[m + 1] = ClaimsOf(people, c[m], Places(n)[m + 1])
  BY BuildSteps
<1> DEFINE S == {m \in Nat : Sorted(c[m], m)}
<1>3. 0 \in S
  <2>1. <<>> \in Seq(Entered) /\ Len(<<>>) = 0 /\ 1..0 = {}
    BY EmptySeq
  <2>2. Sorted(<<>>, 0)
    BY <2>1 DEF Sorted
  <2> QED
    BY <1>2, <2>2
<1>4. ASSUME NEW m \in Nat, m \in S, m < n PROVE m + 1 \in S
  <2>1. Sorted(c[m], m) /\ c[m] \in Seq(Entered)
    BY <1>4 DEF Sorted
  <2>2. m + 1 \in 1..Len(people) /\ m + 1 - 1 = m
    <3> HIDE DEF n
    <3>1. m + 1 \in 1..n /\ m + 1 - 1 = m
      BY <1>1, <1>4
    <3> QED
      BY <3>1 DEF n
  <2>3. c[m + 1] = ClaimsOf(people, c[m], m + 1)
    <3>1. Places(n)[m + 1] = m + 1
      BY <2>2 DEF Places
    <3> QED
      BY <1>2, <1>4, <3>1
  <2>4. Sorted(ClaimsOf(people, c[m], m + 1), m + 1)
    <3>1. Sorted(c[m], m + 1 - 1)
      BY <2>1, <2>2
    <3> QED
      BY <2>1, <2>2, <3>1, ClaimsEnter
  <2> QED
    BY <2>3, <2>4
<1>5. n \in S
  <2> HIDE DEF S, n
  <2>1. \A m \in 0..n : m \in S
    BY <1>1, <1>3, <1>4, UpTo
  <2> QED
    BY <1>1, <2>1
<1> QED
  BY <1>1, <1>2, <1>5, SortedIsTable

-----------------------------------------------------------------------------
(* The roster is one of those given, and the text holds no placeholder.      *)
NymInv == roster \in Rosters /\ text \in Seq(Natural)

(* The roster stays as it is given, and the text natural (apply).            *)
THEOREM NymInvariant == NymSpec => []NymInv
<1>1. NymInit => NymInv
  <2>1. <<>> \in Seq(Natural)
    BY EmptySeq
  <2> QED
    BY <2>1 DEF NymInit, NymInv
<1>2. NymInv /\ [NymNext]_nymVars => NymInv'
  <2> SUFFICES ASSUME NymInv, [NymNext]_nymVars PROVE NymInv'
    OBVIOUS
  <2>1. CASE NymNext
    <3>1. PICK s \in Snippets : text' = text \o s
      BY <2>1 DEF NymNext
    <3>2. s \in Seq(Natural) /\ text \in Seq(Natural)
      BY NymAssumption DEF NymInv
    <3>3. text \o s \in Seq(Natural)
      BY <3>2, ConcatProperties
    <3> QED
      BY <2>1, <3>1, <3>3 DEF NymInv, NymNext
  <2>2. CASE UNCHANGED nymVars
    BY <2>2 DEF NymInv, nymVars
  <2> QED
    BY <2>1, <2>2
<1> QED
  BY <1>1, <1>2, PTL DEF NymSpec

(* Putting the identities back restores the text, and a second pass finds    *)
(* nothing, whatever the rosters and the texts (pseudonymise.ts, reverse).   *)
THEOREM SubstitutionRoundTrips == NymSpec => []RoundTrips
<1>1. NymInv => RoundTrips
  <2> SUFFICES ASSUME NymInv PROVE RoundTrips
    OBVIOUS
  <2>1. IsPeople(roster) /\ text \in Seq(Natural)
    BY NymAssumption DEF NymInv
  <2>2. IsTable(BuildTable(roster))
    BY <2>1, TableBuilt
  <2> QED
    BY <2>1, <2>2, Restores DEF RoundTrips
<1> QED
  BY <1>1, NymInvariant, PTL
=============================================================================
