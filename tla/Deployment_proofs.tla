--------------------------- MODULE Deployment_proofs ---------------------------
(***************************************************************************)
(* Proofs about Deployment, for every project and every configuration that *)
(* CasesAssumption admits, on all four providers.                          *)
(*                                                                         *)
(* What is asked of a plan is asked of each of its resources (Sound), so   *)
(* that the plan of a deployment is put together from pieces (Piece) as    *)
(* the code puts it together: every renderer of a provider has a lemma     *)
(* that says its plan is one.  What relates two resources, a service and   *)
(* those it waits for, is found in the piece of the service and those      *)
(* before it (Leads).  DeploymentInv is the inductive invariant; the       *)
(* theorems are at the end.  The providers' modules are instances with     *)
(* operators of their own, so that each has a lemma (GcpAlike, ...) saying *)
(* that the operators of Compose, Plan and Sizes are the same in it.       *)
(***************************************************************************)
EXTENDS Deployment, Sizes, SequenceTheorems, FiniteSetTheorems, WellFoundedInduction, TLAPS

-----------------------------------------------------------------------------
(* Induction, and what recursive functions on an interval are.             *)

\* A set with 0 and the successor of each of its elements is that of the naturals: the
\* least number outside, if any, ends a minimal interval.
LEMMA Induction ==
  ASSUME NEW T \in SUBSET Nat, 0 \in T, \A n \in T : n + 1 \in T
  PROVE  T = Nat
  <1> SUFFICES ASSUME NEW m \in Nat \ T PROVE FALSE
    OBVIOUS
  <1> DEFINE Family == {0 .. k : k \in (0 .. m) \ T}
  <1>1. PICK X \in Family : \A Y \in Family : <<Y, X>> \notin StrictSubsetOrdering(0 .. m)
    <2>1. FiniteSubsetsOf(0 .. m) = SUBSET (0 .. m)
      <3>1. IsFiniteSet(0 .. m)
        BY FS_Interval
      <3> QED BY <3>1, FS_FiniteSubsetsOfFinite
    <2>2. Family \subseteq SUBSET (0 .. m) /\ Family # {}
      OBVIOUS
    <2>3. IsWellFoundedOn(StrictSubsetOrdering(0 .. m), FiniteSubsetsOf(0 .. m))
      BY FS_StrictSubsetOrderingWellFounded
    <2> HIDE DEF Family
    <2>4. Family \subseteq FiniteSubsetsOf(0 .. m) /\ Family # {}
      BY <2>1, <2>2
    <2> QED BY <2>3, <2>4, WFMin
  <1>2. PICK k \in (0 .. m) \ T : X = 0 .. k
    BY <1>1
  <1>3. k # 0 /\ k - 1 \in (0 .. m) \ T
    BY <1>2
  <1>4. /\ (0 .. k - 1) \subseteq 0 .. k /\ k \in 0 .. k /\ k \notin 0 .. k - 1
        /\ 0 .. k \subseteq 0 .. m
    BY <1>3
  <1>5. <<0 .. k - 1, 0 .. k>> \in StrictSubsetOrdering(0 .. m)
    BY <1>4 DEF StrictSubsetOrdering
  <1> QED BY <1>1, <1>2, <1>3, <1>5

\* Two functions start alike at m and go on alike to n: they are alike from m to n.
AlikeFrom(f, g, m, n) ==
  /\ f[m] = g[m]
  /\ \A i \in m .. n : i # m /\ f[i - 1] = g[i - 1] => f[i] = g[i]

\* Alike at m and from then on: alike everywhere from m to n.
LEMMA Agree ==
  ASSUME NEW m \in Nat, NEW n \in Nat, NEW f, NEW g, AlikeFrom(f, g, m, n)
  PROVE  \A i \in m .. n : f[i] = g[i]
  <1> DEFINE T == {i \in Nat : m + i <= n => f[m + i] = g[m + i]}
  <1>1. 0 \in T
    BY DEF AlikeFrom
  <1>2. ASSUME NEW i \in T PROVE i + 1 \in T
    <2>1. i \in Nat /\ i + 1 \in Nat /\ m + (i + 1) = (m + i) + 1
      OBVIOUS
    <2>2. SUFFICES ASSUME m + (i + 1) <= n PROVE f[m + (i + 1)] = g[m + (i + 1)]
      BY <2>1
    <2>3. m + (i + 1) \in m .. n /\ (m + (i + 1)) - 1 = m + i /\ m + (i + 1) # m
      BY <2>1, <2>2
    <2>4. f[m + i] = g[m + i]
      BY <1>2, <2>2
    <2> QED BY <2>3, <2>4 DEF AlikeFrom
  <1>3. T = Nat
    <2>1. T \in SUBSET Nat
      OBVIOUS
    <2> HIDE DEF T
    <2> QED BY <1>1, <1>2, <2>1, Induction
  <1>4. ASSUME NEW i \in m .. n PROVE f[i] = g[i]
    <2>1. i - m \in Nat /\ m + (i - m) = i
      OBVIOUS
    <2>2. i - m \in T
      BY <1>3, <2>1
    <2> QED BY <2>1, <2>2
  <1> QED BY <1>4

\* The recursion that starts at base and takes the i-th step at i.
Unfolds(f, S, base, step, n) ==
  /\ f \in [0 .. n -> S]
  /\ f[0] = base /\ \A i \in 1 .. n : f[i] = step[i][f[i - 1]]

\* A recursion over 0 .. n has a solution.
LEMMA Recursion ==
  ASSUME NEW S, NEW base \in S, NEW step \in [Nat -> [S -> S]], NEW n \in Nat
  PROVE  \E f : Unfolds(f, S, base, step, n)
  <1> DEFINE Solves(f, m) == f[0] = base /\ \A i \in 1 .. m : f[i] = step[i][f[i - 1]]
             T == {m \in Nat : \E f \in [0 .. m -> S] : Solves(f, m)}
  <1>1. 0 \in T
    <2>1. [i \in 0 .. 0 |-> base] \in [0 .. 0 -> S] 
      OBVIOUS
    <2>2. Solves([i \in 0 .. 0 |-> base], 0)
      OBVIOUS
    <2> QED BY <2>1, <2>2
  <1>2. ASSUME NEW m \in T PROVE m + 1 \in T
    <2>1. PICK f \in [0 .. m -> S] : Solves(f, m)
      BY <1>2
    <2> DEFINE g == [i \in 0 .. m + 1 |-> IF i \in 0 .. m THEN f[i] ELSE step[m + 1][f[m]]]
    <2>2. m \in Nat /\ m + 1 \in Nat /\ f[m] \in S /\ step[m + 1][f[m]] \in S
      BY <1>2
    <2>3. g \in [0 .. m + 1 -> S]
      BY <2>2
    <2>4. ASSUME NEW i \in 1 .. m + 1 PROVE g[i] = step[i][g[i - 1]]
      <3>1. CASE i \in 1 .. m
        <4>1. f[i] = step[i][f[i - 1]]
          BY <2>1, <3>1
        <4> QED BY <2>2, <3>1, <4>1
      <3>2. CASE i = m + 1
        BY <2>2, <3>2
      <3> QED BY <2>2, <3>1, <3>2
    <2>5. Solves(g, m + 1)
      BY <2>1, <2>2, <2>4
    <2> HIDE DEF g
    <2> QED BY <2>2, <2>3, <2>5
  <1>3. T = Nat
    <2> HIDE DEF T
    <2>1. T \in SUBSET Nat
      BY DEF T
    <2> QED BY <1>1, <1>2, <2>1, Induction
  <1> QED BY <1>3 DEF Unfolds

\* What FlattenSeq is defined by.
LEMMA Flattened ==
  ASSUME NEW B, NEW s \in Seq(Seq(B)), s # <<>>
  PROVE  \E g \in [0 .. Len(s) -> Seq(B)] :
           /\ g[0] = <<>>
           /\ \A i \in 1 .. Len(s) : g[i] = g[i - 1] \o s[i]
           /\ FlattenSeq(s) = g[Len(s)]
  <1> DEFINE flatten[i \in 1 .. Len(s)] == IF i = 1 THEN s[i] ELSE flatten[i - 1] \o s[i]
             step == [i \in Nat |->
                        [w \in Seq(B) |-> IF i \in 1 .. Len(s) THEN w \o s[i] ELSE <<>>]]
  <1>1. Len(s) \in Nat \ {0} /\ FlattenSeq(s) = flatten[Len(s)]
    BY EmptySeq DEF FlattenSeq
  <1> HIDE DEF flatten
  <1>2. PICK f : Unfolds(f, Seq(B), <<>>, step, Len(s))
    <2>1. <<>> \in Seq(B) /\ \A i \in 1 .. Len(s) : s[i] \in Seq(B)
      BY <1>1, ElementOfSeq, EmptySeq
    <2>2. step \in [Nat -> [Seq(B) -> Seq(B)]]
      BY <2>1, ConcatProperties
    <2> HIDE DEF step
    <2> QED BY <1>1, <2>1, <2>2, Recursion
  <1>3. /\ f \in [0 .. Len(s) -> Seq(B)] /\ f[0] = <<>>
        /\ \A i \in 1 .. Len(s) : f[i] = f[i - 1] \o s[i]
    <2>1. f \in [0 .. Len(s) -> Seq(B)] /\ f[0] = <<>>
      BY <1>2 DEF Unfolds
    <2>2. ASSUME NEW i \in 1 .. Len(s) PROVE f[i] = f[i - 1] \o s[i]
      <3>1. i - 1 \in 0 .. Len(s) /\ i \in Nat
        BY <1>1
      <3>2. f[i] = step[i][f[i - 1]] /\ f[i - 1] \in Seq(B)
        BY <1>2, <2>1, <3>1 DEF Unfolds
      <3> QED BY <3>1, <3>2
    <2> QED BY <2>1, <2>2
  <1> DEFINE h == [i \in 1 .. Len(s) |-> f[i]]
  <1>4. h = [i \in 1 .. Len(s) |-> IF i = 1 THEN s[i] ELSE h[i - 1] \o s[i]]
    <2>1. f[1] = s[1]
      <3>1. 1 \in 1 .. Len(s)
        BY <1>1
      <3>2. f[1] = f[0] \o s[1] /\ f[0] = <<>>
        BY <1>3, <3>1
      <3>3. s[1] \in Seq(B)
        BY <3>1, ElementOfSeq
      <3> QED BY <3>2, <3>3, ConcatEmptySeq
    <2>2. ASSUME NEW i \in 1 .. Len(s)
          PROVE  h[i] = IF i = 1 THEN s[i] ELSE h[i - 1] \o s[i]
      <3>1. CASE i = 1
        BY <2>1, <3>1
      <3>2. CASE i # 1
        <4>1. i - 1 \in 1 .. Len(s) /\ h[i] = f[i] /\ h[i - 1] = f[i - 1]
          BY <1>1, <3>2
        <4> QED BY <1>3, <3>2, <4>1
      <3> QED BY <3>1, <3>2
    <2> QED BY <2>2
  <1> HIDE DEF h
  <1>5. PICK u : /\ u = [i \in 1 .. Len(s) |-> IF i = 1 THEN s[i] ELSE u[i - 1] \o s[i]]
                 /\ FlattenSeq(s) = u[Len(s)]
    <2>1. flatten = [i \in 1 .. Len(s) |->
                       IF i = 1 THEN s[i] ELSE flatten[i - 1] \o s[i]]
      BY <1>4, Zenon DEF flatten
    <2> QED BY <1>1, <2>1, Zenon
  <1>6. \A i \in 1 .. Len(s) : u[i] = f[i]
    <2>1. u[1] = f[1]
      <3>1. u[1] = s[1] /\ h[1] = s[1]
        BY <1>1, <1>4, <1>5
      <3>2. h[1] = f[1]
        BY <1>1 DEF h
      <3> QED BY <3>1, <3>2
    <2>2. \A i \in 1 .. Len(s) : i # 1 /\ u[i - 1] = f[i - 1] => u[i] = f[i]
      BY <1>3, <1>5, Zenon
    <2>3. 1 \in Nat /\ Len(s) \in Nat
      BY <1>1
    <2>4. AlikeFrom(u, f, 1, Len(s))
      BY <2>1, <2>2 DEF AlikeFrom
    <2> QED BY <2>3, <2>4, Agree
  <1>7. FlattenSeq(s) = f[Len(s)]
    <2>1. FlattenSeq(s) = u[Len(s)] /\ Len(s) \in 1 .. Len(s)
      BY <1>1, <1>5
    <2> QED BY <1>6, <2>1
  <1> QED BY <1>3, <1>7

\* Nothing flattened is nothing.
LEMMA FlatEmpty == FlattenSeq(<<>>) = <<>>
  BY DEF FlattenSeq

\* What sequences flatten to is a sequence over the same set.
LEMMA FlatType ==
  ASSUME NEW B, NEW s \in Seq(Seq(B))
  PROVE  FlattenSeq(s) \in Seq(B)
  <1>1. CASE s = <<>>
    BY <1>1, FlatEmpty, EmptySeq
  <1>2. CASE s # <<>>
    <2>1. PICK g \in [0 .. Len(s) -> Seq(B)] : FlattenSeq(s) = g[Len(s)]
      BY <1>2, Flattened
    <2>2. Len(s) \in 0 .. Len(s)
      BY LenProperties
    <2> QED BY <2>1, <2>2
  <1> QED BY <1>1, <1>2

-----------------------------------------------------------------------------
\* A sequence over S is one over what it contains.
LEMMA ASequence ==
  ASSUME NEW S, NEW p \in Seq(S)
  PROVE  IsASequence(p) /\ ToSet(p) \subseteq S
  <1>1. p \in [1 .. Len(p) -> S] /\ DOMAIN p = 1 .. Len(p) /\ Len(p) \in Nat
    BY LenProperties
  <1>2. ToSet(p) \subseteq S /\ \A i \in 1 .. Len(p) : p[i] \in ToSet(p)
    BY <1>1 DEF ToSet
  <1>3. p \in [1 .. Len(p) -> ToSet(p)]
    BY <1>1, <1>2
  <1> QED BY <1>1, <1>2, <1>3, SeqDef DEF IsASequence

\* A sequence is indexed from 1 to its length.
LEMMA Indices ==
  ASSUME NEW p, IsASequence(p)
  PROVE  Len(p) \in Nat /\ DOMAIN p = 1 .. Len(p)
  BY LenProperties DEF IsASequence

\* What a concatenation is at each index, and what it contains.
LEMMA ConcatSequence ==
  ASSUME NEW p, NEW q, IsASequence(p), IsASequence(q)
  PROVE  /\ IsASequence(p \o q) /\ Len(p \o q) = Len(p) + Len(q)
         /\ \A i \in 1 .. Len(p) : (p \o q)[i] = p[i]
         /\ \A i \in 1 .. Len(q) : (p \o q)[Len(p) + i] = q[i]
         /\ ToSet(p \o q) = ToSet(p) \cup ToSet(q)
  <1> DEFINE S == ToSet(p) \cup ToSet(q)
  <1>1. p \in Seq(S) /\ q \in Seq(S)
    BY SeqMonotonic DEF IsASequence
  <1>2. Len(p) \in Nat /\ Len(q) \in Nat /\ DOMAIN p = 1 .. Len(p) /\ DOMAIN q = 1 .. Len(q)
    BY Indices
  <1> HIDE DEF S
  <1>3. /\ p \o q \in Seq(S) /\ Len(p \o q) = Len(p) + Len(q)
        /\ \A i \in 1 .. Len(p) + Len(q) :
             (p \o q)[i] = IF i <= Len(p) THEN p[i] ELSE q[i - Len(p)]
    BY <1>1, ConcatProperties
  <1>4. IsASequence(p \o q) /\ DOMAIN (p \o q) = 1 .. Len(p) + Len(q)
    BY <1>3, ASequence, Indices
  <1>5. \A i \in 1 .. Len(p) : (p \o q)[i] = p[i]
    BY <1>2, <1>3
  <1>6. \A i \in 1 .. Len(q) : (p \o q)[Len(p) + i] = q[i]
    BY <1>2, <1>3
  <1>7. ToSet(p \o q) \subseteq ToSet(p) \cup ToSet(q)
    <2> SUFFICES ASSUME NEW i \in 1 .. Len(p) + Len(q)
                 PROVE  (p \o q)[i] \in ToSet(p) \cup ToSet(q)
      BY <1>4 DEF ToSet
    <2>1. CASE i <= Len(p)
      BY <1>2, <1>5, <2>1 DEF ToSet
    <2>2. CASE ~(i <= Len(p))
      <3>1. i - Len(p) \in 1 .. Len(q) /\ (p \o q)[i] = q[i - Len(p)]
        BY <1>2, <1>3, <2>2
      <3> QED BY <1>2, <3>1 DEF ToSet
    <2> QED BY <2>1, <2>2
  <1>8. ToSet(p) \cup ToSet(q) \subseteq ToSet(p \o q)
    <2>1. \A i \in 1 .. Len(p) : i \in 1 .. Len(p) + Len(q)
      BY <1>2
    <2>2. \A i \in 1 .. Len(q) : Len(p) + i \in 1 .. Len(p) + Len(q)
      BY <1>2
    <2>3. \A i \in 1 .. Len(p) : p[i] \in ToSet(p \o q)
      BY <1>4, <1>5, <2>1 DEF ToSet
    <2>4. \A i \in 1 .. Len(q) : q[i] \in ToSet(p \o q)
      BY <1>4, <1>6, <2>2 DEF ToSet
    <2> QED BY <1>2, <2>3, <2>4 DEF ToSet
  <1> QED BY <1>3, <1>4, <1>5, <1>6, <1>7, <1>8

\* Tuples are sequences.
LEMMA Tuples ==
  ASSUME NEW a, NEW b, NEW c, NEW d, NEW e
  PROVE  /\ IsASequence(<< >>) /\ IsASequence(<<a>>) /\ IsASequence(<<a, b>>)
         /\ IsASequence(<<a, b, c>>) /\ IsASequence(<<a, b, c, d>>)
         /\ IsASequence(<<a, b, c, d, e>>)
  BY DEF IsASequence, ToSet

\* A function on an interval from 1 is a sequence.
LEMMA MapSequence ==
  ASSUME NEW n \in Nat, NEW f, f = [i \in 1 .. n |-> f[i]]
  PROVE  IsASequence(f) /\ Len(f) = n
  <1>1. f \in [1 .. n -> ToSet(f)]
    BY DEF ToSet
  <1> QED BY <1>1, SeqDef DEF IsASequence

\* What sequences flatten to contains what each of them does.
LEMMA FlatKeeps ==
  ASSUME NEW B, NEW s \in Seq(Seq(B)), NEW k \in 1 .. Len(s)
  PROVE  ToSet(s[k]) \subseteq ToSet(FlattenSeq(s))
  <1>1. Len(s) \in Nat /\ s # << >> /\ \A i \in 1 .. Len(s) : s[i] \in Seq(B)
    BY LenProperties, EmptySeq, ElementOfSeq
  <1>2. PICK g \in [0 .. Len(s) -> Seq(B)] :
          /\ \A i \in 1 .. Len(s) : g[i] = g[i - 1] \o s[i]
          /\ FlattenSeq(s) = g[Len(s)]
    BY <1>1, Flattened
  <1>3. \A i \in 1 .. Len(s) : ToSet(g[i]) = ToSet(g[i - 1]) \cup ToSet(s[i])
    <2> SUFFICES ASSUME NEW i \in 1 .. Len(s) PROVE ToSet(g[i]) = ToSet(g[i - 1]) \cup ToSet(s[i])
      OBVIOUS
    <2>1. i - 1 \in 0 .. Len(s)
      BY <1>1
    <2>2. g[i - 1] \in Seq(B) /\ s[i] \in Seq(B) /\ g[i] = g[i - 1] \o s[i]
      BY <1>1, <1>2, <2>1
    <2>3. IsASequence(g[i - 1]) /\ IsASequence(s[i])
      BY <2>2, ASequence
    <2>4. ToSet(g[i - 1] \o s[i]) = ToSet(g[i - 1]) \cup ToSet(s[i])
      BY <2>3, ConcatSequence
    <2> QED BY <2>2, <2>4
  <1> DEFINE T == {i \in Nat : k + i <= Len(s) => ToSet(s[k]) \subseteq ToSet(g[k + i])}
  <1>4. 0 \in T
    <2>1. k + 0 = k /\ k \in 1 .. Len(s)
      BY <1>1
    <2> QED BY <1>3, <2>1
  <1>5. ASSUME NEW i \in T PROVE i + 1 \in T
    <2>1. SUFFICES ASSUME k + (i + 1) <= Len(s) PROVE ToSet(s[k]) \subseteq ToSet(g[k + (i + 1)])
      BY <1>5
    <2>2. k + (i + 1) \in 1 .. Len(s) /\ (k + (i + 1)) - 1 = k + i /\ k + i <= Len(s)
      BY <1>1, <1>5, <2>1
    <2>3. ToSet(s[k]) \subseteq ToSet(g[k + i])
      BY <1>5, <2>2
    <2> QED BY <1>3, <2>2, <2>3
  <1>6. T = Nat
    <2>1. T \in SUBSET Nat
      OBVIOUS
    <2> HIDE DEF T
    <2> QED BY <1>4, <1>5, <2>1, Induction
  <1>7. Len(s) - k \in Nat /\ k + (Len(s) - k) = Len(s)
    BY <1>1
  <1>8. Len(s) - k \in T
    BY <1>6, <1>7
  <1>9. ToSet(s[k]) \subseteq ToSet(g[Len(s)])
    BY <1>1, <1>7, <1>8
  <1> QED BY <1>2, <1>9

\* Flattened sequences are a sequence of their elements, and of nothing else.
LEMMA FlatSequence ==
  ASSUME NEW s, IsASequence(s), NEW f, f = [i \in DOMAIN s |-> f[i]],
         \A i \in DOMAIN s : IsASequence(f[i])
  PROVE  /\ IsASequence(FlattenSeq(f))
         /\ ToSet(FlattenSeq(f)) \subseteq UNION {ToSet(f[i]) : i \in DOMAIN s}
         /\ \A i \in DOMAIN s : ToSet(f[i]) \subseteq ToSet(FlattenSeq(f))
  <1> DEFINE B == UNION {ToSet(f[i]) : i \in DOMAIN s}
  <1>1. Len(s) \in Nat /\ DOMAIN s = 1 .. Len(s)
    BY Indices
  <1>2. \A i \in DOMAIN s : f[i] \in Seq(B)
    <2> SUFFICES ASSUME NEW i \in DOMAIN s PROVE f[i] \in Seq(B)
      OBVIOUS
    <2>1. f[i] \in Seq(ToSet(f[i])) /\ ToSet(f[i]) \subseteq B
      BY DEF IsASequence
    <2> HIDE DEF B
    <2> QED BY <2>1, SeqMonotonic
  <1> HIDE DEF B
  <1>4. f \in [1 .. Len(s) -> Seq(B)]
    BY <1>1, <1>2
  <1>5. f \in Seq(Seq(B))
    BY <1>1, <1>4, SeqDef
  <1>6. FlattenSeq(f) \in Seq(B)
    BY <1>5, FlatType
  <1>7. IsASequence(FlattenSeq(f)) /\ ToSet(FlattenSeq(f)) \subseteq B
    BY <1>6, ASequence
  <1>8. \A i \in DOMAIN s : ToSet(f[i]) \subseteq ToSet(FlattenSeq(f))
    <2>1. Len(f) = Len(s)
      BY <1>1, <1>4, <1>5, LenProperties
    <2> QED BY <1>1, <1>5, <2>1, FlatKeeps
  <1> QED BY <1>7, <1>8 DEF B

\* What a test leaves of a sequence.
LEMMA Filtered ==
  ASSUME NEW s, IsASequence(s), NEW f, f = [i \in DOMAIN s |-> f[i]],
         \A i \in DOMAIN s : f[i] = <<s[i]>> \/ f[i] = << >>
  PROVE  /\ IsASequence(FlattenSeq(f)) /\ ToSet(FlattenSeq(f)) \subseteq ToSet(s)
         /\ \A e \in ToSet(FlattenSeq(f)) : \E i \in DOMAIN s : s[i] = e /\ f[i] = <<e>>
         /\ \A i \in DOMAIN s : f[i] = <<s[i]>> => s[i] \in ToSet(FlattenSeq(f))
  <1>1. \A a : /\ IsASequence(<<a>>) /\ ToSet(<<a>>) = {a}
               /\ IsASequence(<< >>) /\ ToSet(<< >>) = {}
    BY DEF IsASequence, ToSet
  <1>2. \A i \in DOMAIN s : IsASequence(f[i]) /\ ToSet(f[i]) \subseteq {s[i]}
    BY <1>1
  <1>3. /\ IsASequence(FlattenSeq(f))
        /\ ToSet(FlattenSeq(f)) \subseteq UNION {ToSet(f[i]) : i \in DOMAIN s}
    BY <1>2, FlatSequence
  <1>4. \A i \in DOMAIN s : s[i] \in ToSet(s)
    BY DEF ToSet
  <1>5. ASSUME NEW e \in ToSet(FlattenSeq(f))
        PROVE  \E i \in DOMAIN s : s[i] = e /\ f[i] = <<e>>
    <2>1. PICK i \in DOMAIN s : e \in ToSet(f[i])
      BY <1>3
    <2>2. f[i] = <<s[i]>> /\ e = s[i]
      BY <1>1, <2>1
    <2> QED BY <2>2
  <1>6. ASSUME NEW i \in DOMAIN s, f[i] = <<s[i]>> PROVE s[i] \in ToSet(FlattenSeq(f))
    <2>1. ToSet(f[i]) \subseteq ToSet(FlattenSeq(f))
      BY <1>2, FlatSequence
    <2> QED BY <1>1, <1>6, <2>1
  <1> QED BY <1>2, <1>3, <1>4, <1>5, <1>6

\* The values of a function on a finite set are finitely many.
LEMMA FiniteImage ==
  ASSUME NEW S, IsFiniteSet(S), NEW f
  PROVE  IsFiniteSet({f[x] : x \in S})
  <1>1. [x \in S |-> f[x]] \in Surjection(S, {f[x] : x \in S})
    BY DEF Surjection
  <1> QED BY <1>1, FS_Surjection

-----------------------------------------------------------------------------
(* What is asked of every resource, and of the plans the renderers return. *)

Fits(fit) == (\E size \in fit.offered : Suffices(size, fit.asked)) => Suffices(fit.size, fit.asked)

\* The rounding of Google's databases loses part of a CPU and part of a GiB.
Rounded == {"sql.DatabaseInstance", "redis.Instance"}
Whole(svc) ==
  /\ svc.kind = "postgres" => GetCPUs(svc) <= 100 \/ GetCPUs(svc) % 100 = 0
  /\ svc.kind = "redis" => GetMemoryMiB(svc) < 1024 \/ GetMemoryMiB(svc) % 1024 = 0
WholeSizes(pr) == provider = "gcp" => \A name \in DOMAIN pr.services : Whole(pr.services[name])

Special ==
  Rounded \cup {"lb.TargetGroup", "app.ContainerApp", "ecs.TaskDefinition", "ecs.Service",
                "ec2.SecurityGroup", "lb.LoadBalancer",
                "compute.Address", "compute.BackendService", "compute.ForwardingRule"}

SizeSound(pr, r) ==
  "fit" \in DOMAIN r.args /\ (TypeOf(r.urn) \in Rounded => WholeSizes(pr)) => Fits(r.args.fit)

CheckSound(check) == check[1] \in 5 .. 300 /\ check[2] \in 2 .. 120 /\ check[2] < check[1]
BudgetSound(asked, probe) ==
  LET failures == IF asked.retries > 0 THEN asked.retries ELSE 3
  IN  probe.threshold < 10 =>
        probe.delay + probe.threshold * probe.period >= asked.start + failures * probe.period
ProbeSound(r) ==
  /\ TypeOf(r.urn) = "lb.TargetGroup" => CheckSound(r.args.check)
  /\ TypeOf(r.urn) = "app.ContainerApp" =>
       \A probe \in r.args.probes : probe.type = "http" => BudgetSound(r.args.asked, probe)

\* A task runs the containers of its service, and reads their secrets; the service
\* watches these.
TaskSound(pr, r) ==
  /\ TypeOf(r.urn) = "ecs.TaskDefinition" => provider = "aws" /\
       \E name \in DOMAIN pr.services :
         LET svc == Aws!Normalized(pr).services[name] IN
         /\ r.urn = Aws!TaskDef(name) /\ r.args.secrets = Aws!Secrets(name, svc)
         /\ r.args.containers = Aws!Containers(name, svc)
  /\ TypeOf(r.urn) = "ecs.Service" =>
       \E name \in DOMAIN pr.services :
         /\ r.args.triggers = Aws!Secrets(name, Aws!Normalized(pr).services[name])
         /\ \A u \in r.after : TypeOf(u) = "ecs.TaskDefinition" => u = Aws!TaskDef(name)

\* On AWS nobody gets in from outside but to the load balancer and to services, and to
\* these, when there is a load balancer, on ports that are none of ingress.
Balanced(pr) == Aws!NeedIngress(Aws!Normalized(pr).services)
Guarded(pr, urn, ingress) ==
  \A rule \in ingress : rule.from = Aws!Anyone /\ urn # Aws!AlbSg =>
    /\ ParentOf(urn) = "Service"
    /\ Balanced(pr) => \E port \in PortsOf(Aws!Normalized(pr).services[urn[3]]) :
                          port.target = rule.port /\ ~IsIngress(port)
DoorSound(pr, r) ==
  /\ TypeOf(r.urn) = "ec2.SecurityGroup" => Guarded(pr, r.urn, r.args.ingress)
  /\ TypeOf(r.urn) = "lb.LoadBalancer" => Balanced(pr)

\* On Google Cloud, a private instance group gets a passthrough load balancer, at an address
\* of its own, unless its one port is of ingress.  Its forwarding rules are for ports it has,
\* and a backend that balances by utilization is never one of such a group.
OneIngress(svc) == Len(svc.ports) = 1 /\ IsIngress(svc.ports[1])
PassedThrough(svc) == Gcp!KindOf(svc) = "group" /\ HasHostPorts(svc) /\ ~OneIngress(svc)
Ported(svc, proto) == {port.target : port \in {p \in PortsOf(svc) : GetProtocol(p) = proto}}
BalancerSound(pr, r) ==
  /\ TypeOf(r.urn) = "compute.Address" =>
       \E name \in DOMAIN pr.services :
         r.urn = Gcp!B("compute.Address", name) /\ PassedThrough(Gcp!Normalized(pr).services[name])
  /\ TypeOf(r.urn) = "compute.BackendService" /\ r.args.balancing = "UTILIZATION" =>
       OneIngress(Gcp!Normalized(pr).services[r.args.service])
  /\ TypeOf(r.urn) = "compute.ForwardingRule" /\ "service" \in DOMAIN r.args =>
       r.args.ports \subseteq Ported(Gcp!Normalized(pr).services[r.args.service], r.args.proto)

Sound(pr, r) ==
  /\ DOMAIN r = {"urn", "after", "args"} /\ Len(r.urn) = 3
  /\ SizeSound(pr, r)
  /\ ProbeSound(r)
  /\ TaskSound(pr, r)
  /\ DoorSound(pr, r)
  /\ BalancerSound(pr, r)

\* A plan of sound resources.
Piece(pr, p) == IsASequence(p) /\ \A r \in ToSet(p) : Sound(pr, r)

\* A resource of no special type, without inputs or without a size, asks for nothing.
LEMMA Plain ==
  ASSUME NEW pr, NEW parent, NEW type, NEW name, NEW after, type \notin Special
  PROVE  Sound(pr, [urn |-> <<parent, type, name>>, after |-> after, args |-> [of |-> "none"]])
  BY DEF Sound, SizeSound, ProbeSound, TaskSound, DoorSound, BalancerSound, Special, TypeOf

\* So it is with inputs, when none is a size.
LEMMA Unsized ==
  ASSUME NEW pr, NEW parent, NEW type, NEW name, NEW after, NEW args,
         type \notin Special, "fit" \notin DOMAIN args
  PROVE  Sound(pr, [urn |-> <<parent, type, name>>, after |-> after, args |-> args])
  BY DEF Sound, SizeSound, ProbeSound, TaskSound, DoorSound, BalancerSound, Special, TypeOf

\* A size that fits is sound.
LEMMA Fitting ==
  ASSUME NEW pr, NEW parent, NEW type, NEW name, NEW after, NEW args,
         type \notin Special, Fits(args.fit)
  PROVE  Sound(pr, [urn |-> <<parent, type, name>>, after |-> after, args |-> args])
  BY DEF Sound, SizeSound, ProbeSound, TaskSound, DoorSound, BalancerSound, Special, TypeOf

\* A size of Google's databases fits if what they ask for is whole.
LEMMA Roughly ==
  ASSUME NEW pr, NEW parent, NEW type \in Rounded, NEW name, NEW after, NEW args,
         WholeSizes(pr) => Fits(args.fit)
  PROVE  Sound(pr, [urn |-> <<parent, type, name>>, after |-> after, args |-> args])
  BY DEF Sound, SizeSound, ProbeSound, TaskSound, DoorSound, BalancerSound, Rounded, TypeOf

\* An empty plan.
LEMMA None == ASSUME NEW pr PROVE Piece(pr, << >>)
  <1>1. ToSet(<< >>) = {}
    BY DEF ToSet
  <1>2. IsASequence(<< >>)
    BY <1>1 DEF IsASequence
  <1> QED BY <1>1, <1>2 DEF Piece

\* What a tuple contains.
LEMMA Literals ==
  ASSUME NEW a, NEW b, NEW c, NEW d, NEW e
  PROVE  /\ ToSet(<<a>>) = {a} /\ ToSet(<<a, b>>) = {a, b} /\ ToSet(<<a, b, c>>) = {a, b, c}
         /\ ToSet(<<a, b, c, d>>) = {a, b, c, d} /\ ToSet(<<a, b, c, d, e>>) = {a, b, c, d, e}
  BY DEF ToSet

\* The same of one or two, for the provers to find.
LEMMA Two == ASSUME NEW a, NEW b PROVE ToSet(<<a>>) = {a} /\ ToSet(<<a, b>>) = {a, b}
  BY DEF ToSet

\* The same of four.
LEMMA Four == ASSUME NEW a, NEW b, NEW c, NEW d PROVE ToSet(<<a, b, c, d>>) = {a, b, c, d}
  BY DEF ToSet

\* A plan of up to five sound resources.
LEMMA Some ==
  ASSUME NEW pr, NEW a, NEW b, NEW c, NEW d, NEW e
  PROVE  /\ Sound(pr, a) => Piece(pr, <<a>>)
         /\ Sound(pr, a) /\ Sound(pr, b) => Piece(pr, <<a, b>>)
         /\ Sound(pr, a) /\ Sound(pr, b) /\ Sound(pr, c) => Piece(pr, <<a, b, c>>)
         /\ Sound(pr, a) /\ Sound(pr, b) /\ Sound(pr, c) /\ Sound(pr, d)
              => Piece(pr, <<a, b, c, d>>)
         /\ Sound(pr, a) /\ Sound(pr, b) /\ Sound(pr, c) /\ Sound(pr, d) /\ Sound(pr, e)
              => Piece(pr, <<a, b, c, d, e>>)
  <1>1. /\ ToSet(<<a>>) = {a} /\ ToSet(<<a, b>>) = {a, b} /\ ToSet(<<a, b, c>>) = {a, b, c}
        /\ ToSet(<<a, b, c, d>>) = {a, b, c, d} /\ ToSet(<<a, b, c, d, e>>) = {a, b, c, d, e}
    BY Literals
  <1> QED BY <1>1, Tuples DEF Piece

\* The same of a sequence that is not written out.
LEMMA Made ==
  ASSUME NEW pr, NEW q, IsASequence(q), Len(q) <= 5, Len(q) >= 1 => Sound(pr, q[1]),
         Len(q) >= 2 => Sound(pr, q[2]), Len(q) >= 3 => Sound(pr, q[3]),
         Len(q) >= 4 => Sound(pr, q[4]), Len(q) = 5 => Sound(pr, q[5])
  PROVE  Piece(pr, q) /\ \A i \in 1 .. Len(q) : q[i] \in ToSet(q)
  <1>1. Len(q) \in Nat /\ DOMAIN q = 1 .. Len(q)
    BY Indices
  <1>2. \A i \in 1 .. Len(q) : i = 1 \/ i = 2 \/ i = 3 \/ i = 4 \/ i = 5
    BY <1>1
  <1>3. \A i \in 1 .. Len(q) : Sound(pr, q[i])
    BY <1>1, <1>2
  <1> QED BY <1>1, <1>3 DEF Piece, ToSet

\* Two plans in a row.
LEMMA Then ==
  ASSUME NEW pr, NEW p, NEW q, Piece(pr, p), Piece(pr, q)
  PROVE  Piece(pr, p \o q) /\ ToSet(p \o q) = ToSet(p) \cup ToSet(q)
  BY ConcatSequence DEF Piece

\* Two plans in a row have the resources of both.
LEMMA Keeps ==
  ASSUME NEW pr, NEW p, NEW q, Piece(pr, p), Piece(pr, q), NEW t, t \in ToSet(p) \/ t \in ToSet(q)
  PROVE  Piece(pr, p \o q) /\ t \in ToSet(p \o q)
  <1>1. Piece(pr, p \o q) /\ ToSet(p \o q) = ToSet(p) \cup ToSet(q)
    BY ConcatSequence DEF Piece
  <1> QED BY <1>1

\* A loop over a sequence: f[i] is what its i-th round registers.
LEMMA Each ==
  ASSUME NEW pr, NEW s, IsASequence(s), NEW f, f = [i \in DOMAIN s |-> f[i]],
         \A i \in DOMAIN s : Piece(pr, f[i])
  PROVE  Piece(pr, FlattenSeq(f)) /\ \A i \in DOMAIN s : ToSet(f[i]) \subseteq ToSet(FlattenSeq(f))
  <1>1. /\ IsASequence(FlattenSeq(f))
        /\ ToSet(FlattenSeq(f)) \subseteq UNION {ToSet(f[i]) : i \in DOMAIN s}
        /\ \A i \in DOMAIN s : ToSet(f[i]) \subseteq ToSet(FlattenSeq(f))
    BY FlatSequence DEF Piece
  <1> QED BY <1>1 DEF Piece

\* A finite set in some order.
LEMMA Ordered ==
  ASSUME NEW S, IsFiniteSet(S)
  PROVE  IsASequence(InOrder(S)) /\ ToSet(InOrder(S)) \subseteq S
  <1>1. PICK g \in Bijection(1 .. Cardinality(S), S) : TRUE
    BY FS_CardinalityType DEF ExistsBijection
  <1>2. Cardinality(S) \in Nat
    BY FS_CardinalityType
  <1>3. g \in [1 .. Cardinality(S) -> S] /\ IsInjective(g)
    BY <1>1 DEF Bijection, Injection, IsInjective
  <1>4. InOrder(S) \in [1 .. Cardinality(S) -> S] /\ IsInjective(InOrder(S))
    BY <1>3 DEF InOrder, SetToSeq
  <1>5. InOrder(S) \in Seq(S)
    BY <1>2, <1>4, SeqDef
  <1> QED BY <1>5, ASequence

\* A component's children refer to it.
Adopts(p, comp) == [i \in DOMAIN p |-> [p[i] EXCEPT !.after = @ \cup {comp}]]

\* Every resource of p is in q, with a reference to comp more.
Referring(p, q, comp) ==
  \A r \in ToSet(p) : \E s \in ToSet(q) : s.urn = r.urn /\ s.after = r.after \cup {comp}

\* Children of a component are as sound as they were.
LEMMA Adopted ==
  ASSUME NEW pr, NEW p, NEW comp, Piece(pr, p), TypeOf(comp) # "ecs.TaskDefinition"
  PROVE  Piece(pr, Adopts(p, comp)) /\ Referring(p, Adopts(p, comp), comp)
  <1> DEFINE q == Adopts(p, comp)
  <1> USE DEF Adopts
  <1>1. Len(p) \in Nat /\ DOMAIN p = 1 .. Len(p) /\ \A i \in 1 .. Len(p) : Sound(pr, p[i])
    BY Indices DEF Piece, ToSet
  <1>2. IsASequence(q) /\ DOMAIN q = DOMAIN p
    <2>1. q = [i \in 1 .. Len(p) |-> q[i]]
      BY <1>1
    <2> HIDE DEF q
    <2>2. IsASequence(q)
      BY <1>1, <2>1, MapSequence
    <2> QED BY <1>1, <2>1, <2>2
  <1>3. \A i \in DOMAIN p : /\ DOMAIN q[i] = DOMAIN p[i] /\ q[i].urn = p[i].urn /\ q[i].args = p[i].args
                            /\ q[i].after = p[i].after \cup {comp}
    BY <1>1 DEF Sound
  <1> HIDE DEF q
  <1>4. \A i \in DOMAIN p : Sound(pr, q[i])
    BY <1>1, <1>3 DEF Sound, SizeSound, ProbeSound, TaskSound, DoorSound, BalancerSound
  <1>5. Piece(pr, q)
    BY <1>2, <1>4 DEF Piece, ToSet
  <1>6. Referring(p, q, comp)
    BY <1>2, <1>3 DEF ToSet, Referring
  <1> QED BY <1>5, <1>6 DEF q, Adopts

-----------------------------------------------------------------------------
(* Who waits for whom.                                                     *)

\* In p, the resource u refers to v, or to an earlier resource that does.
Leads(p, u, v) ==
  \E i \in DOMAIN p :
    /\ p[i].urn = u
    /\ \/ v \in p[i].after
       \/ \E j \in 1 .. (i - 1) : p[j].urn \in p[i].after /\ v \in p[j].after

\* What a part of a plan leads to, all of it does.
LEMMA StillLeads ==
  ASSUME NEW p, NEW q, IsASequence(p), IsASequence(q), NEW u, NEW v, Leads(p, u, v) \/ Leads(q, u, v)
  PROVE  Leads(p \o q, u, v)
  <1>1. /\ Len(p) \in Nat /\ DOMAIN p = 1 .. Len(p) /\ Len(q) \in Nat /\ DOMAIN q = 1 .. Len(q)
        /\ DOMAIN (p \o q) = 1 .. Len(p) + Len(q)
    BY Indices, ConcatSequence
  <1>2. /\ \A i \in 1 .. Len(p) : (p \o q)[i] = p[i]
        /\ \A i \in 1 .. Len(q) : (p \o q)[Len(p) + i] = q[i]
    BY ConcatSequence
  <1>3. CASE Leads(p, u, v)
    BY <1>1, <1>2, <1>3 DEF Leads
  <1>4. CASE Leads(q, u, v)
    <2>1. PICK i \in 1 .. Len(q) :
            /\ q[i].urn = u
            /\ \/ v \in q[i].after
               \/ \E j \in 1 .. (i - 1) : q[j].urn \in q[i].after /\ v \in q[j].after
      BY <1>1, <1>4 DEF Leads
    <2>2. Len(p) + i \in 1 .. Len(p) + Len(q) /\ (p \o q)[Len(p) + i] = q[i]
      BY <1>1, <1>2
    <2>3. CASE v \in q[i].after
      BY <1>1, <2>1, <2>2, <2>3 DEF Leads
    <2>4. ASSUME NEW j \in 1 .. (i - 1), q[j].urn \in q[i].after, v \in q[j].after
          PROVE  Leads(p \o q, u, v)
      <3>1. Len(p) + j \in 1 .. ((Len(p) + i) - 1) /\ (p \o q)[Len(p) + j] = q[j]
        BY <1>1, <1>2, <2>4
      <3> QED BY <1>1, <2>1, <2>2, <2>4, <3>1 DEF Leads
    <2> QED BY <2>1, <2>3, <2>4
  <1> QED BY <1>3, <1>4

\* What one part of a plan registers leads the next one's resources to what it
\* refers to.
LEMMA LeadsOver ==
  ASSUME NEW p, NEW q, IsASequence(p), IsASequence(q), NEW r \in ToSet(p), NEW s \in ToSet(q),
         r.urn \in s.after, NEW v \in r.after
  PROVE  Leads(p \o q, s.urn, v)
  <1>1. /\ Len(p) \in Nat /\ DOMAIN p = 1 .. Len(p) /\ Len(q) \in Nat /\ DOMAIN q = 1 .. Len(q)
        /\ DOMAIN (p \o q) = 1 .. Len(p) + Len(q)
    BY Indices, ConcatSequence
  <1>2. PICK j \in 1 .. Len(p) : p[j] = r
    BY <1>1 DEF ToSet
  <1>3. PICK i \in 1 .. Len(q) : q[i] = s
    BY <1>1 DEF ToSet
  <1>4. (p \o q)[j] = r /\ (p \o q)[Len(p) + i] = s
    BY <1>2, <1>3, ConcatSequence
  <1>5. Len(p) + i \in 1 .. Len(p) + Len(q) /\ j \in 1 .. ((Len(p) + i) - 1)
    BY <1>1
  <1> QED BY <1>1, <1>4, <1>5 DEF Leads

-----------------------------------------------------------------------------
(* The sizes on offer.                                                     *)

\* A set of numbers has a least one.
LEMMA Least ==
  ASSUME NEW S \in SUBSET Nat, S # {}
  PROVE  \E x \in S : \A y \in S : x <= y
  <1> SUFFICES ASSUME \A x \in S : \E y \in S : ~(x <= y) PROVE FALSE
    OBVIOUS
  <1> DEFINE T == {n \in Nat : \A m \in 0 .. n : m \notin S}
  <1>1. 0 \in T
    OBVIOUS
  <1>2. \A n \in T : n + 1 \in T
    OBVIOUS
  <1>3. T \in SUBSET Nat
    OBVIOUS
  <1> HIDE DEF T
  <1>4. T = Nat
    BY <1>1, <1>2, <1>3, Induction
  <1>5. PICK x \in S : x \in Nat
    OBVIOUS
  <1>6. x \in T /\ x \in 0 .. x
    BY <1>4, <1>5
  <1> QED BY <1>6 DEF T

\* What is chosen from a catalogue suffices, or nothing in it does.
LEMMA Chosen ==
  ASSUME NEW asked, NEW catalogue, NEW fallback, IsASequence(catalogue)
  PROVE  Fits(Fit(asked, catalogue, fallback))
  <1> DEFINE I == {i \in 1 .. Len(catalogue) : Covers(catalogue[i], asked)}
  <1>1. Len(catalogue) \in Nat /\ DOMAIN catalogue = 1 .. Len(catalogue)
    BY Indices
  <1>2. FirstMatch(catalogue, asked, fallback) = IF I # {} THEN catalogue[Min(I)] ELSE fallback
    <2>1. I # {} => Min(I) \in I
      <3>1. I \in SUBSET Nat
        BY <1>1
      <3> HIDE DEF I
      <3> QED BY <3>1, Least DEF Min
    <2> QED BY <1>1, <2>1 DEF FirstMatch, SelectInSeq
  <1>3. I # {} => Covers(catalogue[Min(I)], asked)
    <2>1. I \in SUBSET Nat
      BY <1>1
    <2>2. I # {} => Min(I) \in I
      <3> HIDE DEF I
      <3> QED BY <2>1, Least DEF Min
    <2> QED BY <2>2
  <1>4. ASSUME NEW size \in ToSet(catalogue), Suffices(size, asked) PROVE I # {}
    <2>1. PICK i \in 1 .. Len(catalogue) : size = catalogue[i]
      BY <1>1 DEF ToSet
    <2> QED BY <1>4, <2>1 DEF Suffices, Covers
  <1> QED BY <1>2, <1>3, <1>4 DEF Fits, Fit, Suffices, Covers

\* Sizes that double are a sequence.
LEMMA DoublingIsASequence ==
  ASSUME NEW first, NEW n \in Nat PROVE IsASequence(Doubling(first, n))
  <1> DEFINE f == Doubling(first, n)
  <1>1. f = [i \in 1 .. n |-> f[i]]
    BY DEF Doubling
  <1> HIDE DEF f
  <1>2. IsASequence(f)
    BY <1>1, MapSequence
  <1> QED BY <1>2 DEF f

\* Multiples of a size are a sequence.
LEMMA TimesIsASequence ==
  ASSUME NEW first, NEW factors, IsASequence(factors) PROVE IsASequence(Times(first, factors))
  <1> DEFINE f == Times(first, factors)
  <1>1. Len(factors) \in Nat /\ f = [i \in 1 .. Len(factors) |-> f[i]]
    BY Indices DEF Times
  <1> HIDE DEF f
  <1>2. IsASequence(f)
    BY <1>1, MapSequence
  <1> QED BY <1>2 DEF f

\* What Scaleway offers fits.
LEMMA ScalewaySizes ==
  /\ \A asked, family : Fits(PostgresNodeType(asked, family))
  /\ \A memory : Fits(RedisNodeType(memory))
  /\ \A memory, family : family \in DOMAIN BuildInstanceFamilies =>
       Fits(SelectBuildInstanceType(memory, family))
  <1>1. IsASequence(PgDevNodes) /\ IsASequence(PgGpNodes)
    BY DEF PgDevNodes, PgGpNodes, IsASequence, ToSet
  <1>2. \A family : IsASequence(IF family = "general" THEN PgGpNodes ELSE PgDevNodes \o PgGpNodes)
    BY <1>1, ConcatSequence
  <1>3. ASSUME NEW gibs, IsASequence(gibs) PROVE IsASequence(MemorySizes(gibs))
    <2> DEFINE f == MemorySizes(gibs)
    <2>1. Len(gibs) \in Nat /\ f = [i \in 1 .. Len(gibs) |-> f[i]]
      BY <1>3, Indices DEF MemorySizes
    <2> HIDE DEF f
    <2>2. IsASequence(f)
      BY <2>1, MapSequence
    <2> QED BY <2>2 DEF f
  <1>4. \A asked, family : Fits(PostgresNodeType(asked, family))
    BY <1>2, Chosen DEF PostgresNodeType
  <1>5. IsASequence(<<2, 4, 8, 12, 16, 32, 64>>)
    BY DEF IsASequence, ToSet
  <1>6. \A memory : Fits(RedisNodeType(memory))
    BY <1>3, <1>5, Chosen DEF RedisNodeType, RedisNodeTypes
  <1>7. \A family \in DOMAIN BuildInstanceFamilies : IsASequence(BuildInstanceFamilies[family])
    BY DEF BuildInstanceFamilies, IsASequence, ToSet
  <1>8. ASSUME NEW memory, NEW family \in DOMAIN BuildInstanceFamilies
        PROVE  Fits(SelectBuildInstanceType(memory, family))
    BY <1>3, <1>7, Chosen DEF SelectBuildInstanceType
  <1> QED BY <1>4, <1>6, <1>8

\* Catalogues, one after the other.
LEMMA Catalogues ==
  ASSUME NEW catalogues, IsASequence(catalogues), \A i \in DOMAIN catalogues : IsASequence(catalogues[i])
  PROVE  IsASequence(FlattenSeq(catalogues))
  <1>1. catalogues = [i \in DOMAIN catalogues |-> catalogues[i]]
    <2>1. catalogues \in Seq(ToSet(catalogues))
      BY DEF IsASequence
    <2>2. catalogues \in [1 .. Len(catalogues) -> ToSet(catalogues)]
      BY <2>1, LenProperties
    <2> QED BY <2>2
  <1> QED BY <1>1, FlatSequence

\* The tiers from one on, one after the other.
LEMMA Shelves ==
  ASSUME NEW a, NEW b, NEW c, IsASequence(a), IsASequence(b), IsASequence(c)
  PROVE  /\ IsASequence(FlattenSeq(<<a, b, c>>)) /\ IsASequence(FlattenSeq(<<b, c>>))
         /\ IsASequence(FlattenSeq(<<c>>))
  <1>1. IsASequence(<<a, b, c>>) /\ IsASequence(<<b, c>>) /\ IsASequence(<<c>>)
    BY Tuples
  <1>2. /\ \A i \in DOMAIN <<a, b, c>> : IsASequence(<<a, b, c>>[i])
        /\ \A i \in DOMAIN <<b, c>> : IsASequence(<<b, c>>[i])
        /\ \A i \in DOMAIN <<c>> : IsASequence(<<c>>[i])
    OBVIOUS
  <1> DEFINE x == <<a, b, c>>
             y == <<b, c>>
             z == <<c>>
  <1> HIDE DEF x, y, z
  <1>3. IsASequence(FlattenSeq(x)) /\ IsASequence(FlattenSeq(y)) /\ IsASequence(FlattenSeq(z))
    BY <1>1, <1>2, Catalogues DEF x, y, z
  <1> QED BY <1>3 DEF x, y, z


-----------------------------------------------------------------------------
(* A project with its UDP ports taken out of ingress.                      *)

Hosted(pr) == [pr EXCEPT !.services = UDPIngressAsHost(@)]

\* What the renderers of a service read of it.
Readable(svc) ==
  /\ IsASequence(svc.ports) /\ IsASequence(svc.aliases)
  /\ IsASequence(svc.policies) /\ IsASequence(svc.sidecars)
  /\ {svc.replicas, svc.cpus, svc.memory, svc.shm} \subseteq Nat
  /\ svc.health \in [{"start", "interval", "timeout", "retries"} -> Nat] /\ svc.test \in BOOLEAN
  /\ IsFiniteSet(DOMAIN svc.env)
  /\ \A sidecar \in ToSet(svc.sidecars) : IsFiniteSet(DOMAIN sidecar.env)

\* Taking UDP ports out of ingress changes nothing but the ports.
LEMMA Normal ==
  ASSUME NEW pr, "services" \in DOMAIN pr, NEW name \in DOMAIN pr.services,
         "ports" \in DOMAIN pr.services[name], IsASequence(pr.services[name].ports)
  PROVE  LET svc == Hosted(pr).services[name]
         IN  /\ DOMAIN Hosted(pr).services = DOMAIN pr.services
             /\ DOMAIN svc = DOMAIN pr.services[name]
             /\ IsASequence(svc.ports) /\ DOMAIN svc.ports = DOMAIN pr.services[name].ports
             /\ \A field \in DOMAIN svc \ {"ports"} : svc[field] = pr.services[name][field]
  <1> DEFINE svc == pr.services[name]
             AsHost(port) == IF GetProtocol(port) = "udp" /\ IsIngress(port)
                             THEN [port EXCEPT !.mode = "host"] ELSE port
             ports == [i \in DOMAIN svc.ports |-> AsHost(svc.ports[i])]
  <1>1. /\ Hosted(pr).services = UDPIngressAsHost(pr.services)
        /\ DOMAIN Hosted(pr).services = DOMAIN pr.services
    BY DEF Hosted, UDPIngressAsHost
  <1>2. Hosted(pr).services[name] = [svc EXCEPT !.ports = ports]
    BY <1>1 DEF UDPIngressAsHost
  <1>3. Len(svc.ports) \in Nat /\ DOMAIN svc.ports = 1 .. Len(svc.ports)
    BY Indices
  <1> HIDE DEF AsHost
  <1>4. ports = [i \in 1 .. Len(svc.ports) |-> ports[i]]
    BY <1>3
  <1>5. DOMAIN ports = DOMAIN svc.ports
    OBVIOUS
  <1> HIDE DEF ports
  <1>6. IsASequence(ports)
    BY <1>3, <1>4, MapSequence
  <1> QED BY <1>1, <1>2, <1>5, <1>6

\* A parsed project has what the renderers read, before and after.
LEMMA ReadableServices ==
  ASSUME NEW pr, ParsedProject(pr), NEW name \in DOMAIN pr.services
  PROVE  LET svc == pr.services[name]
             hosted == Hosted(pr).services[name]
         IN  /\ Readable(svc) /\ Readable(hosted)
             /\ hosted.kind = svc.kind /\ hosted.image = svc.image /\ hosted.build = svc.build
             /\ hosted.domain = svc.domain /\ hosted.env = svc.env
             /\ hosted.sidecars = svc.sidecars /\ hosted.awaits = svc.awaits
             /\ hosted.needs = svc.needs /\ hosted.cpus = svc.cpus /\ hosted.memory = svc.memory
             /\ hosted.health = svc.health
             /\ DOMAIN Hosted(pr).services = DOMAIN pr.services
  <1> DEFINE svc == pr.services[name]
             hosted == Hosted(pr).services[name]
  <1>1. ServiceFields \subseteq DOMAIN svc /\ Readable(svc)
    BY DEF ParsedProject, Parsed, Readable
  <1>2. /\ DOMAIN Hosted(pr).services = DOMAIN pr.services /\ DOMAIN hosted = DOMAIN svc
        /\ IsASequence(hosted.ports)
        /\ \A field \in DOMAIN hosted \ {"ports"} : hosted[field] = svc[field]
    <2>1. "services" \in DOMAIN pr /\ "ports" \in DOMAIN svc /\ IsASequence(svc.ports)
      BY <1>1 DEF ParsedProject, Readable, ServiceFields
    <2> QED BY <2>1, Normal
  <1>3. /\ hosted.kind = svc.kind /\ hosted.image = svc.image /\ hosted.build = svc.build
        /\ hosted.domain = svc.domain /\ hosted.env = svc.env
        /\ hosted.sidecars = svc.sidecars /\ hosted.awaits = svc.awaits
        /\ hosted.needs = svc.needs /\ hosted.cpus = svc.cpus /\ hosted.memory = svc.memory
        /\ hosted.health = svc.health /\ hosted.aliases = svc.aliases /\ hosted.policies = svc.policies
        /\ hosted.replicas = svc.replicas /\ hosted.shm = svc.shm /\ hosted.test = svc.test
    BY <1>1, <1>2 DEF ServiceFields
  <1> HIDE DEF hosted, svc
  <1>4. Readable(hosted)
    BY <1>1, <1>2, <1>3 DEF Readable
  <1> QED BY <1>1, <1>2, <1>3, <1>4 DEF hosted, svc

-----------------------------------------------------------------------------
(* Google Cloud.                                                           *)

\* The operators of Compose, Plan and Sizes are the same inside GcpProject.
LEMMA GcpAlike ==
  /\ \A s : Gcp!FlattenSeq(s) = FlattenSeq(s) /\ Gcp!ToSet(s) = ToSet(s) /\ Gcp!InOrder(s) = InOrder(s)
  /\ \A asked, arm : Gcp!GetComputeMachineType(asked, arm) = GetComputeMachineType(asked, arm)
  /\ \A memory : Gcp!CloudBuildMachineType(memory) = CloudBuildMachineType(memory)
  /\ \A asked : Gcp!CloudSqlTier(asked) = CloudSqlTier(asked)
  /\ \A asked : Gcp!CloudRunLimits(asked) = CloudRunLimits(asked)
  /\ \A memory : Gcp!GetRedisMemoryGiB(memory) = GetRedisMemoryGiB(memory)
  <1>1. \A s : Gcp!FlattenSeq(s) = FlattenSeq(s)
    BY DEF FlattenSeq, Gcp!FlattenSeq
  <1>2. \A s : Gcp!ToSet(s) = ToSet(s) /\ Gcp!InOrder(s) = InOrder(s)
    BY DEF ToSet, InOrder, SetToSeq, IsInjective, Cardinality, Gcp!ToSet, Gcp!InOrder, Gcp!SetToSeq,
       Gcp!IsInjective, Gcp!Cardinality
  <1>3. \A a, c, f : Gcp!Fit(a, c, f) = Fit(a, c, f)
    BY DEF Fit, FirstMatch, SelectInSeq, Min, Covers, ToSet, Gcp!Fit, Gcp!FirstMatch,
       Gcp!SelectInSeq, Gcp!Min, Gcp!Covers, Gcp!ToSet
  <1>4. Gcp!E2 = E2 /\ Gcp!T2A = T2A
    BY DEF E2, T2A, Doubling, Gcp!E2, Gcp!T2A, Gcp!Doubling
  <1>5. \A asked, arm : Gcp!GetComputeMachineType(asked, arm) = GetComputeMachineType(asked, arm)
    BY <1>3, <1>4 DEF GetComputeMachineType, Gcp!GetComputeMachineType
  <1>6. \A memory : Gcp!CloudBuildMachineType(memory) = CloudBuildMachineType(memory)
    BY <1>3 DEF CloudBuildMachineType, Gcp!CloudBuildMachineType
  <1>7. /\ \A asked : Gcp!CloudSqlTier(asked) = CloudSqlTier(asked)
        /\ \A asked : Gcp!CloudRunLimits(asked) = CloudRunLimits(asked)
        /\ \A memory : Gcp!GetRedisMemoryGiB(memory) = GetRedisMemoryGiB(memory)
    BY DEF CloudSqlTier, CustomCpu, MakeMinMaxCeil, RoundUp, CloudRunLimits, AtLeast, GetRedisMemoryGiB,
       Gcp!CloudSqlTier, Gcp!CustomCpu, Gcp!MakeMinMaxCeil, Gcp!RoundUp, Gcp!CloudRunLimits, Gcp!AtLeast,
       Gcp!GetRedisMemoryGiB
  <1> QED BY <1>1, <1>2, <1>5, <1>6, <1>7

\* What Google offers fits, a database's whole sizes too.
LEMMA GcpSizes ==
  /\ \A asked, arm : Fits(GetComputeMachineType(asked, arm))
  /\ \A memory : Fits(CloudBuildMachineType(memory))
  /\ \A c, m \in Nat : Fits(CloudRunLimits(<<c, m>>))
  /\ \A c, m \in Nat : c <= 100 \/ c % 100 = 0 => Fits(CloudSqlTier(<<c, m>>))
  /\ \A m \in Nat : m < 1024 \/ m % 1024 = 0 => Fits(GetRedisMemoryGiB(m))
  <1>1. IsASequence(E2) /\ IsASequence(T2A)
    <2>1. /\ IsASequence(<<<<200, 16384>>, <<400, 32768>>, <<800, 65536>>, <<1600, 131072>>>>)
          /\ IsASequence(<<<<4800, 196608>>>>)
      BY DEF IsASequence, ToSet
    <2>2. \A first : /\ IsASequence(Doubling(first, 8)) /\ IsASequence(Doubling(first, 5))
                     /\ IsASequence(Doubling(first, 6))
      BY DoublingIsASequence
    <2> QED BY <2>1, <2>2, ConcatSequence DEF E2, T2A
  <1>2. \A asked, arm : Fits(GetComputeMachineType(asked, arm))
    BY <1>1, Chosen DEF GetComputeMachineType
  <1>3. \A memory : Fits(CloudBuildMachineType(memory))
    <2>1. IsASequence(<<<<0, 4096>>, <<0, 8192>>>>)
      BY DEF IsASequence, ToSet
    <2> QED BY <2>1, Chosen DEF CloudBuildMachineType
  <1>4. \A c, m \in Nat : Fits(CloudRunLimits(<<c, m>>))
    BY DEF CloudRunLimits, AtLeast, Fits, Suffices
  <1>5. \A n \in Nat : RoundUp(n, 2) >= n /\ RoundUp(n, 256) >= n /\ RoundUp(n, 1024) >= n
    BY DEF RoundUp
  <1>6. ASSUME NEW c \in Nat, NEW m \in Nat, c <= 100 \/ c % 100 = 0, c <= 9600, m <= 98304
        PROVE  CloudSqlTier(<<c, m>>).size[1] >= c /\ CloudSqlTier(<<c, m>>).size[2] >= m
    <2>1. CASE c <= 100 /\ m <= 1700
      BY <2>1 DEF CloudSqlTier
    <2>2. CASE ~(c <= 100 /\ m <= 1700)
      <3>1. CloudSqlTier(<<c, m>>).size = <<CustomCpu(<<c, m>>), MakeMinMaxCeil(m, 3840, 98304, 256)>>
        BY <2>2 DEF CloudSqlTier
      <3>2. CustomCpu(<<c, m>>) >= c
        <4>1. c <= 100 \/ c = (c \div 100) * 100
          BY <1>6
        <4>2. c \div 100 \in Nat /\ c \div 100 <= 96 /\ RoundUp(c \div 100, 2) >= c \div 100
              /\ RoundUp(c \div 100, 2) \in Nat
          BY <1>5, <1>6 DEF RoundUp
        <4> QED BY <4>1, <4>2, <1>6 DEF CustomCpu
      <3>3. MakeMinMaxCeil(m, 3840, 98304, 256) >= m
        BY <1>5, <1>6 DEF MakeMinMaxCeil
      <3> QED BY <3>1, <3>2, <3>3
    <2> QED BY <2>1, <2>2
  <1>7. \A c, m \in Nat : c <= 100 \/ c % 100 = 0 => Fits(CloudSqlTier(<<c, m>>))
    <2> SUFFICES ASSUME NEW c \in Nat, NEW m \in Nat, c <= 100 \/ c % 100 = 0,
                        Suffices(<<9600, 98304>>, <<c, m>>)
                 PROVE  Suffices(CloudSqlTier(<<c, m>>).size, <<c, m>>)
      BY DEF Fits, CloudSqlTier
    <2> QED BY <1>6 DEF Suffices
  <1>8. \A m \in Nat : m < 1024 \/ m % 1024 = 0 => Fits(GetRedisMemoryGiB(m))
    <2> SUFFICES ASSUME NEW m \in Nat, m < 1024 \/ m % 1024 = 0
                 PROVE  Fits(GetRedisMemoryGiB(m))
      OBVIOUS
    <2>1. m < 1024 \/ m = (m \div 1024) * 1024
      OBVIOUS
    <2> QED BY <2>1 DEF Fits, GetRedisMemoryGiB, Suffices
  <1> QED BY <1>2, <1>3, <1>4, <1>7, <1>8

\* The resources GcpProject makes are sound unless their type is special.
LEMMA GcpMade ==
  ASSUME NEW pr
  PROVE  /\ \A parent, type, name, after : type \notin Special =>
              Sound(pr, Gcp!Res(Gcp!Urn(parent, type, name), after))
         /\ \A parent, type, name, after, args : type \notin Special /\ "fit" \notin DOMAIN args =>
              Sound(pr, Gcp!ResWith(Gcp!Urn(parent, type, name), after, args))
         /\ \A parent, type, name, after, args : type \notin Special /\ Fits(args.fit) =>
              Sound(pr, Gcp!ResWith(Gcp!Urn(parent, type, name), after, args))
         /\ \A parent, type, name, after, args :
              type \in Rounded /\ (WholeSizes(pr) => Fits(args.fit)) =>
                Sound(pr, Gcp!ResWith(Gcp!Urn(parent, type, name), after, args))
         /\ \A cond, p : (cond => Piece(pr, p)) => Piece(pr, Gcp!When(cond, p))
  <1>1. \A cond, p : (cond => Piece(pr, p)) => Piece(pr, Gcp!When(cond, p))
    BY None DEF Gcp!When
  <1> QED BY <1>1, Plain, Unsized, Fitting, Roughly DEF Gcp!Res, Gcp!ResWith, Gcp!Urn

\* The project's shared infrastructure (gcp/config.go).
LEMMA GcpInfra ==
  ASSUME NEW pr, NEW prj, NEW cfg, IsFiniteSet(DOMAIN prj.services)
  PROVE  /\ Piece(pr, Gcp!BuildGlobalConfig(prj, cfg)) /\ Piece(pr, Gcp!EnableGcpApis)
         /\ Piece(pr, Gcp!EnableLlmApi(prj)) /\ Piece(pr, Gcp!CreateNat)
  <1> USE DEF Special, Rounded, Gcp!P
  <1>1. Piece(pr, Gcp!Network)
    <2>1. /\ Piece(pr, <<Gcp!Res(Gcp!Vpc, {}), Gcp!Res(Gcp!Subnet, {Gcp!Vpc}), Gcp!Res(Gcp!PublicIp, {})>>)
          /\ Piece(pr, <<Gcp!Res(Gcp!PrivateZone, {Gcp!Vpc})>>)
      BY GcpMade, Some DEF Gcp!Vpc, Gcp!Subnet, Gcp!PublicIp, Gcp!PrivateZone
    <2>2. \A name, tag, ports, from : Piece(pr, Gcp!Firewall(Gcp!P("compute.Firewall", name), tag, ports, from))
      BY GcpMade, Some DEF Gcp!Firewall
    <2> QED BY <2>1, <2>2, Then DEF Gcp!Network
  <1>2. \A domain : Piece(pr, Gcp!CreateWildcardCert(domain))
    <2>1. \A after, host, type :
            /\ Sound(pr, Gcp!Res(Gcp!PublicZone, after)) /\ Sound(pr, Gcp!Res(Gcp!WildcardCert, after))
            /\ Sound(pr, Gcp!Res(Gcp!RecordUrn(host, type), after))
            /\ Sound(pr, Gcp!Res(Gcp!P("certificatemanager.DnsAuthorization", host), after))
      BY GcpMade DEF Gcp!PublicZone, Gcp!RecordUrn, Gcp!WildcardCert
    <2> HIDE DEF Gcp!P
    <2> SUFFICES ASSUME NEW domain PROVE Piece(pr, Gcp!CreateWildcardCert(domain))
      OBVIOUS
    <2>2. \E caa, authz, at :
            Gcp!CreateWildcardCert(domain)
              = <<Gcp!Res(Gcp!PublicZone, {}), Gcp!Res(Gcp!RecordUrn(<< <<"caa">> >>, caa), {Gcp!PublicZone}),
                  Gcp!Res(Gcp!P("certificatemanager.DnsAuthorization", authz), {}),
                  Gcp!Res(Gcp!RecordUrn(at, "CNAME"),
                          {Gcp!PublicZone, Gcp!P("certificatemanager.DnsAuthorization", authz)}),
                  Gcp!Res(Gcp!WildcardCert, {Gcp!P("certificatemanager.DnsAuthorization", authz)})>>
      BY Zenon DEF Gcp!CreateWildcardCert
    <2> QED BY <2>1, <2>2, Some
  <1>3. Piece(pr, Gcp!CreateBuildInfra(cfg))
    <2>1. \A type, name, account, after : type \notin Special =>
            Piece(pr, Gcp!Grant(Gcp!P(type, name), account, after))
      BY GcpMade, Some DEF Gcp!Grant
    <2>2. /\ Piece(pr, <<Gcp!Res(Gcp!Builder, {}), Gcp!Res(Gcp!BuildRepo, {})>>)
          /\ Piece(pr, Gcp!When(cfg.sourceBucket, Gcp!Grant(Gcp!SourceViewer, Gcp!Builder, {})))
      BY <2>1, GcpMade, Some DEF Gcp!Builder, Gcp!BuildRepo, Gcp!SourceViewer
    <2> QED BY <2>1, <2>2, Then DEF Gcp!CreateBuildInfra
  <1>4. Piece(pr, Gcp!CreateRemoteRepos(prj))
    <2> DEFINE repos == InOrder(Gcp!ExternalRegistries(prj))
               f == [i \in DOMAIN repos |-> <<Gcp!Res(Gcp!RemoteRepo(repos[i]), {})>>]
    <2>1. IsFiniteSet(Gcp!ExternalRegistries(prj))
      <3> DEFINE h == [name \in DOMAIN prj.services |-> prj.services[name].registry]
      <3>1. IsFiniteSet({h[name] : name \in DOMAIN prj.services})
        BY FiniteImage
      <3>2. ASSUME NEW x \in Gcp!ExternalRegistries(prj)
            PROVE  \E name \in DOMAIN prj.services : x = h[name]
        <4>1. \E name \in DOMAIN prj.services : x = prj.services[name].registry
          BY Zenon DEF Gcp!ExternalRegistries
        <4> QED BY <4>1
      <3> HIDE DEF h
      <3>3. Gcp!ExternalRegistries(prj) \subseteq {h[name] : name \in DOMAIN prj.services}
        BY <3>2
      <3> QED BY <3>1, <3>3, FS_Subset
    <2>2. IsASequence(repos)
      BY <2>1, Ordered
    <2>3. Gcp!CreateRemoteRepos(prj) = FlattenSeq(f)
      BY GcpAlike DEF Gcp!CreateRemoteRepos, Gcp!ForEach
    <2> HIDE DEF repos
    <2>4. \A i \in DOMAIN repos : Piece(pr, f[i])
      BY GcpMade, Some DEF Gcp!RemoteRepo
    <2>5. f = [i \in DOMAIN repos |-> f[i]]
      OBVIOUS
    <2> HIDE DEF f
    <2> QED BY <2>2, <2>3, <2>4, <2>5, Each
  <1>5. Piece(pr, Gcp!CreateVpcPeeringInfra) /\ Piece(pr, Gcp!CreateNat)
    BY GcpMade, Some DEF Gcp!CreateVpcPeeringInfra, Gcp!ServiceConnection, Gcp!CreateNat
  <1>6. Piece(pr, Gcp!EnableGcpApis)
    <2> DEFINE f == [i \in DOMAIN Gcp!Apis |-> <<Gcp!Res(Gcp!Api(Gcp!Apis[i]), {})>>]
    <2>1. IsASequence(Gcp!Apis)
      BY DEF IsASequence, ToSet, Gcp!Apis
    <2>2. Gcp!EnableGcpApis = FlattenSeq(f) /\ f = [i \in DOMAIN Gcp!Apis |-> f[i]]
      BY GcpAlike DEF Gcp!EnableGcpApis, Gcp!ForEach
    <2>3. \A i \in DOMAIN Gcp!Apis : Piece(pr, f[i])
      BY GcpMade, Some DEF Gcp!Api
    <2> HIDE DEF f
    <2> QED BY <2>1, <2>2, <2>3, Each
  <1>7. Piece(pr, Gcp!EnableLlmApi(prj))
    BY GcpMade, Some DEF Gcp!EnableLlmApi, Gcp!Api
  <1>8. Piece(pr, Gcp!BuildOptionalInfra(prj, cfg))
    BY <1>3, <1>4, <1>5, GcpMade, Then DEF Gcp!BuildOptionalInfra
  <1>9. Piece(pr, Gcp!BuildGlobalConfig(prj, cfg))
    BY <1>1, <1>2, <1>8, GcpMade, Then DEF Gcp!BuildGlobalConfig
  <1> QED BY <1>5, <1>6, <1>7, <1>9

GcpComposed(name, env) ==
  Gcp!ForEach(Gcp!InOrder(Gcp!Composed(env)), LAMBDA key : Gcp!NewComposedEnvSecret(name, key))

\* The secrets of a service and the grants to read them.
LEMMA GcpSecrets ==
  ASSUME NEW pr, NEW name, NEW env, NEW owner, IsFiniteSet(DOMAIN env)
  PROVE  /\ Piece(pr, Gcp!GrantSecretAccess(name, env, owner))
         /\ Piece(pr, GcpComposed(name, env))
  <1> USE DEF Special, Rounded
  <1>1. \A type, n, account, after : type \notin Special =>
          Piece(pr, Gcp!Grant(Gcp!S(type, n), account, after))
    BY GcpMade, Some DEF Gcp!Grant, Gcp!S
  <1>2. IsFiniteSet(Gcp!Composed(env)) /\ IsFiniteSet(Gcp!References(env))
    BY FS_Subset DEF Gcp!Composed, Gcp!References
  <1> DEFINE keys == InOrder(Gcp!Composed(env))
             stored == Gcp!StoredSecrets(name, env)
  <1>3. IsASequence(keys) /\ Gcp!InOrder(Gcp!Composed(env)) = keys
    BY <1>2, Ordered, GcpAlike
  <1>4. IsASequence(stored)
    <2> DEFINE h == [key \in Gcp!References(env) |-> Gcp!SecretOf(env, key)]
    <2>1. IsFiniteSet({h[key] : key \in Gcp!References(env)})
      BY <1>2, FiniteImage
    <2>2. {h[key] : key \in Gcp!References(env)}
            = {Gcp!SecretOf(env, key) : key \in Gcp!References(env)}
      OBVIOUS
    <2> QED BY <2>1, <2>2, Ordered, GcpAlike DEF Gcp!StoredSecrets
  <1> HIDE DEF keys, stored
  <1>5. Piece(pr, Gcp!ForEach(keys, LAMBDA key : Gcp!NewComposedEnvSecret(name, key)))
    <2> DEFINE f == [i \in DOMAIN keys |-> Gcp!NewComposedEnvSecret(name, keys[i])]
    <2>1. /\ Gcp!ForEach(keys, LAMBDA key : Gcp!NewComposedEnvSecret(name, key)) = FlattenSeq(f)
          /\ f = [i \in DOMAIN keys |-> f[i]]
      BY GcpAlike DEF Gcp!ForEach
    <2>2. \A key : Piece(pr, Gcp!NewComposedEnvSecret(name, key))
      BY GcpMade, Some DEF Gcp!NewComposedEnvSecret, Gcp!ComposedSecret, Gcp!ComposedVersion, Gcp!S
    <2>3. \A i \in DOMAIN keys : Piece(pr, f[i])
      BY <2>2
    <2> HIDE DEF f
    <2> QED BY <1>3, <2>1, <2>3, Each
  <1>6. \A id, after : Piece(pr, Gcp!Grant(Gcp!SecretMember(name, id), Gcp!Account(name), after))
    BY <1>1 DEF Gcp!SecretMember
  <1>7. Piece(pr, Gcp!ForEach(stored, LAMBDA id :
          Gcp!Grant(Gcp!SecretMember(name, <<"secret", id>>), Gcp!Account(name), {})))
    <2> DEFINE f == [i \in DOMAIN stored |->
                       Gcp!Grant(Gcp!SecretMember(name, <<"secret", stored[i]>>), Gcp!Account(name), {})]
    <2>1. /\ Gcp!ForEach(stored, LAMBDA id :
               Gcp!Grant(Gcp!SecretMember(name, <<"secret", id>>), Gcp!Account(name), {})) = FlattenSeq(f)
          /\ f = [i \in DOMAIN stored |-> f[i]]
      BY GcpAlike DEF Gcp!ForEach
    <2>2. \A i \in DOMAIN stored : Piece(pr, f[i])
      BY <1>6
    <2> HIDE DEF f
    <2> QED BY <1>4, <2>1, <2>2, Each
  <1>8. Piece(pr, Gcp!ForEach(keys, LAMBDA key :
          Gcp!Grant(Gcp!SecretMember(name, owner \o <<"env", key>>), Gcp!Account(name),
                    {Gcp!ComposedSecret(name, key)})))
    <2> DEFINE f == [i \in DOMAIN keys |->
                       Gcp!Grant(Gcp!SecretMember(name, owner \o <<"env", keys[i]>>), Gcp!Account(name),
                                 {Gcp!ComposedSecret(name, keys[i])})]
    <2>1. /\ Gcp!ForEach(keys, LAMBDA key :
               Gcp!Grant(Gcp!SecretMember(name, owner \o <<"env", key>>), Gcp!Account(name),
                         {Gcp!ComposedSecret(name, key)})) = FlattenSeq(f)
          /\ f = [i \in DOMAIN keys |-> f[i]]
      BY GcpAlike DEF Gcp!ForEach
    <2>2. \A i \in DOMAIN keys : Piece(pr, f[i])
      BY <1>6
    <2> HIDE DEF f
    <2> QED BY <1>3, <2>1, <2>2, Each
  <1>9. Piece(pr, Gcp!GrantSecretAccess(name, env, owner))
    BY <1>3, <1>7, <1>8, Then DEF stored, Gcp!GrantSecretAccess
  <1>10. Piece(pr, GcpComposed(name, env))
    BY <1>3, <1>5 DEF GcpComposed
  <1> QED BY <1>9, <1>10

\* A Cloud Run service or an instance group, with its main resource.
LEMMA GcpService ==
  ASSUME NEW pr, NEW name, NEW svc, Readable(svc)
  PROVE  LET p == Gcp!CreateService(name, svc)
         IN  /\ Piece(pr, p)
             /\ \E r \in ToSet(p) : r.urn = IF Gcp!IsCloudRunService(svc) THEN Gcp!RunService(name)
                                                                        ELSE Gcp!InstanceGroup(name)
  <1> USE DEF Special, Rounded
  <1>1. \A type, n, account, after : type \notin Special =>
          Piece(pr, Gcp!Grant(Gcp!S(type, n), account, after))
    BY GcpMade, Some DEF Gcp!Grant, Gcp!S
  <1>2. /\ Piece(pr, GcpComposed(name, svc.env))
        /\ \A owner : Piece(pr, Gcp!GrantSecretAccess(name, svc.env, owner))
    <2>1. IsFiniteSet(DOMAIN svc.env)
      BY DEF Readable
    <2> QED BY <2>1, GcpSecrets
  <1>3. ASSUME NEW t, NEW p, NEW u, Piece(pr, p), t \in ToSet(p), t.urn = u, NEW q, Piece(pr, q)
        PROVE  Piece(pr, q \o p) /\ \E r \in ToSet(q \o p) : r.urn = u
    BY <1>3, Then, ConcatSequence DEF Piece
  <1>4. LET p == Gcp!CreateCloudRunService(name, svc)
        IN  Piece(pr, p) /\ \E r \in ToSet(p) : r.urn = Gcp!RunService(name)
    <2>1. PICK after, role, reads :
            Gcp!CreateCloudRunService(name, svc)
              = (GcpComposed(name, svc.env) \o Gcp!GrantSecretAccess(name, svc.env, << >>))
                \o <<Gcp!ResWith(Gcp!RunService(name), after,
                       [role |-> role, fit |-> Gcp!CloudRunLimits(Gcp!Asked(svc)), reads |-> reads])>>
      BY Zenon DEF Gcp!CreateCloudRunService, GcpComposed
    <2>2. Gcp!Asked(svc)[1] \in Nat /\ Gcp!Asked(svc)[2] \in Nat
          /\ Gcp!Asked(svc) = <<Gcp!Asked(svc)[1], Gcp!Asked(svc)[2]>>
      BY DEF Gcp!Asked, Gcp!GetCPUs, Gcp!GetMemoryMiB, Readable
    <2>3. Fits(Gcp!CloudRunLimits(Gcp!Asked(svc)))
      BY <2>2, GcpAlike, GcpSizes
    <2> DEFINE t == Gcp!ResWith(Gcp!RunService(name), after,
                       [role |-> role, fit |-> Gcp!CloudRunLimits(Gcp!Asked(svc)), reads |-> reads])
    <2>4. Sound(pr, t) /\ t.urn = Gcp!RunService(name)
      BY <2>3, GcpMade DEF Gcp!RunService, Gcp!S, Gcp!ResWith
    <2>5. Piece(pr, <<t>>) /\ t \in ToSet(<<t>>)
      BY <2>4, Some, Literals
    <2> HIDE DEF t
    <2>6. Piece(pr, GcpComposed(name, svc.env) \o Gcp!GrantSecretAccess(name, svc.env, << >>))
      BY <1>2, Then
    <2>7. Gcp!CreateCloudRunService(name, svc)
            = (GcpComposed(name, svc.env) \o Gcp!GrantSecretAccess(name, svc.env, << >>)) \o <<t>>
      BY <2>1 DEF t
    <2> QED BY <1>3, <2>4, <2>5, <2>6, <2>7
  <1>5. LET p == Gcp!CreateComputeEngine(name, svc)
        IN  Piece(pr, p) /\ \E r \in ToSet(p) : r.urn = Gcp!InstanceGroup(name)
    <2> DEFINE roles == Gcp!AddRolesToServiceAccount(name)
               secrets == GcpComposed(name, svc.env)
               members == Gcp!GrantSecretAccess(name, svc.env, <<"secret">> \o name)
               healing == Gcp!CreateMigAutoHealing(name, svc)
    <2>1. Piece(pr, roles)
      <3> DEFINE f == [i \in DOMAIN Gcp!InstanceRoles |->
                         Gcp!Grant(Gcp!RoleMember(name, Gcp!InstanceRoles[i]), Gcp!Account(name), {})]
      <3>1. IsASequence(Gcp!InstanceRoles)
        BY DEF IsASequence, ToSet, Gcp!InstanceRoles
      <3>2. roles = FlattenSeq(f) /\ f = [i \in DOMAIN Gcp!InstanceRoles |-> f[i]]
        BY GcpAlike DEF Gcp!ForEach, Gcp!AddRolesToServiceAccount
      <3>3. \A i \in DOMAIN Gcp!InstanceRoles : Piece(pr, f[i])
        BY <1>1 DEF Gcp!RoleMember
      <3> HIDE DEF f, roles
      <3> QED BY <3>1, <3>2, <3>3, Each
    <2>2. Piece(pr, healing)
      BY GcpMade, Some, Then DEF Gcp!CreateMigAutoHealing, Gcp!Firewall, Gcp!S
    <2>3. Piece(pr, secrets) /\ Piece(pr, members)
      BY <1>2
    <2> HIDE DEF roles, secrets, members, healing
    <2>4. PICK after, role, reads, since, opened :
            Gcp!CreateComputeEngine(name, svc)
              = ((((roles \o secrets) \o members)
                   \o <<Gcp!ResWith(Gcp!Template(name), after,
                          [role |-> role, fit |-> Gcp!GetComputeMachineType(Gcp!Asked(svc), svc.arm),
                           reads |-> reads])>>) \o healing)
                \o <<Gcp!ResWith(Gcp!InstanceGroup(name), since, [ports |-> opened])>>
      BY Zenon DEF Gcp!CreateComputeEngine, roles, secrets, members, healing, GcpComposed
    <2> DEFINE template == Gcp!ResWith(Gcp!Template(name), after,
                 [role |-> role, fit |-> Gcp!GetComputeMachineType(Gcp!Asked(svc), svc.arm), reads |-> reads])
    <2>5. Piece(pr, <<template>>)
      <3>1. Fits(Gcp!GetComputeMachineType(Gcp!Asked(svc), svc.arm))
        BY GcpAlike, GcpSizes
      <3> QED BY <3>1, GcpMade, Some DEF Gcp!Template, Gcp!S
    <2> DEFINE t == Gcp!ResWith(Gcp!InstanceGroup(name), since, [ports |-> opened])
    <2>6. Sound(pr, t) /\ t.urn = Gcp!InstanceGroup(name)
      BY GcpMade DEF Gcp!InstanceGroup, Gcp!S, Gcp!ResWith
    <2>7. Piece(pr, <<t>>) /\ t \in ToSet(<<t>>)
      BY <2>6, Some, Literals
    <2> DEFINE front == (((roles \o secrets) \o members) \o <<template>>) \o healing
    <2>8. Gcp!CreateComputeEngine(name, svc) = front \o <<t>>
      BY <2>4
    <2> HIDE DEF t, template
    <2>9. Piece(pr, front)
      BY <2>1, <2>2, <2>3, <2>5, Then
    <2> HIDE DEF front
    <2> QED BY <1>3, <2>6, <2>7, <2>8, <2>9
  <1>6. Piece(pr, <<Gcp!Res(Gcp!Account(name), {})>>) /\ Piece(pr, Gcp!EnableLlm(name))
    BY <1>1, GcpMade, Some DEF Gcp!Account, Gcp!EnableLlm, Gcp!S
  <1>7. Piece(pr, Gcp!GrantPolicies(name, svc))
    <2> DEFINE policies == InOrder(Gcp!PolicyRoles(svc))
               f == [i \in DOMAIN policies |->
                       Gcp!Grant(Gcp!PolicyMember(name, policies[i]), Gcp!Account(name), {})]
    <2>1. IsASequence(policies)
      <3> DEFINE h == [i \in DOMAIN svc.policies |-> svc.policies[i].name]
      <3>1. IsFiniteSet(DOMAIN svc.policies)
        <4>1. DOMAIN svc.policies = 1 .. Len(svc.policies) /\ Len(svc.policies) \in Int
          <5>1. IsASequence(svc.policies)
            BY DEF Readable
          <5> QED BY <5>1, Indices
        <4>2. \A n \in Int : IsFiniteSet(1 .. n)
          BY FS_Interval
        <4> QED BY <4>1, <4>2
      <3>2. IsFiniteSet({h[i] : i \in DOMAIN svc.policies})
        BY <3>1, FiniteImage
      <3>3. {h[i] : i \in DOMAIN svc.policies} = Gcp!PolicyRoles(svc)
        BY DEF Gcp!PolicyRoles, Gcp!ToSet
      <3> QED BY <3>2, <3>3, Ordered
    <2>2. Gcp!GrantPolicies(name, svc) = FlattenSeq(f) /\ f = [i \in DOMAIN policies |-> f[i]]
      BY GcpAlike DEF Gcp!GrantPolicies, Gcp!ForEach
    <2> HIDE DEF policies
    <2>3. \A i \in DOMAIN policies : Piece(pr, f[i])
      BY <1>1 DEF Gcp!PolicyMember
    <2> HIDE DEF f
    <2> QED BY <2>1, <2>2, <2>3, Each
  <1>8. Piece(pr, (<<Gcp!Res(Gcp!Account(name), {})>> \o Gcp!GrantPolicies(name, svc))
                    \o Gcp!When(svc.llm, Gcp!EnableLlm(name)))
    BY <1>6, <1>7, GcpMade, Then
  <1> QED BY <1>3, <1>4, <1>5, <1>8 DEF Gcp!CreateService

\* GcpProject normalizes projects as Hosted does.
LEMMA GcpNormal ==
  /\ \A pr : Gcp!Normalized(pr) = Hosted(pr)
  /\ \A svc : Gcp!Asked(svc) = Asked(svc) /\ Gcp!GetMemoryMiB(svc) = GetMemoryMiB(svc)
  /\ \A port : Gcp!IsIngress(port) = IsIngress(port) /\ Gcp!GetProtocol(port) = GetProtocol(port)
  /\ \A svc : Gcp!PortsOf(svc) = PortsOf(svc) /\ Gcp!HasHostPorts(svc) = HasHostPorts(svc)
  <1>1. \A port : Gcp!IsIngress(port) = IsIngress(port) /\ Gcp!GetProtocol(port) = GetProtocol(port)
    BY Zenon DEF IsIngress, GetProtocol, Gcp!IsIngress, Gcp!GetProtocol
  <1>2. \A services : Gcp!UDPIngressAsHost(services) = UDPIngressAsHost(services)
    BY <1>1 DEF UDPIngressAsHost, Gcp!UDPIngressAsHost
  <1>3. \A pr : Gcp!Normalized(pr) = Hosted(pr)
    BY <1>2 DEF Gcp!Normalized, Hosted
  <1>4. \A svc : Gcp!PortsOf(svc) = PortsOf(svc)
    BY GcpAlike DEF PortsOf, Gcp!PortsOf
  <1>5. \A svc : Gcp!HasHostPorts(svc) = HasHostPorts(svc)
    BY <1>4, Zenon DEF HasHostPorts, Gcp!HasHostPorts, IsHost, Gcp!IsHost
  <1> QED BY <1>1, <1>3, <1>4, <1>5 DEF Asked, GetCPUs, GetMemoryMiB, Gcp!Asked, Gcp!GetCPUs, Gcp!GetMemoryMiB

\* A Cloud SQL database, with its main resource.
LEMMA GcpSql ==
  ASSUME NEW pr, NEW name, NEW svc, svc.kind = "postgres", WholeSizes(pr) => Whole(svc),
         GetCPUs(svc) \in Nat, GetMemoryMiB(svc) \in Nat
  PROVE  /\ Piece(pr, Gcp!CreateCloudSql(name, svc))
         /\ \E r \in ToSet(Gcp!CreateCloudSql(name, svc)) : r.urn = Gcp!SqlInstance(name)
  <1> DEFINE children == Gcp!CreateCloudSql(name, svc)
  <1>1. WholeSizes(pr) => Fits(Gcp!CloudSqlTier(Gcp!Asked(svc)))
    BY GcpAlike, GcpNormal, GcpSizes DEF Whole, Asked
  <1> DEFINE literal(key) == Gcp!Literal(svc, key)
  <1>2. PICK args :
          /\ args.fit = Gcp!CloudSqlTier(Gcp!Asked(svc))
          /\ children
               = (<<Gcp!ResWith(Gcp!SqlInstance(name), {Gcp!ServiceConnection, Gcp!Vpc}, args)>>
                  \o Gcp!When(literal("POSTGRES_PASSWORD"),
                       <<Gcp!Res(Gcp!Urn("Postgres", "sql.User", name \o <<"user">>), {Gcp!SqlInstance(name)})>>))
                 \o Gcp!When(literal("POSTGRES_DB"),
                       <<Gcp!Res(Gcp!Urn("Postgres", "sql.Database", name \o <<"db">>), {Gcp!SqlInstance(name)})>>)
    <2> DEFINE args == [public |-> "private" \notin svc.networks, fit |-> Gcp!CloudSqlTier(Gcp!Asked(svc))]
    <2>1. args.fit = Gcp!CloudSqlTier(Gcp!Asked(svc))
      OBVIOUS
    <2>2. children
               = (<<Gcp!ResWith(Gcp!SqlInstance(name), {Gcp!ServiceConnection, Gcp!Vpc}, args)>>
                  \o Gcp!When(literal("POSTGRES_PASSWORD"),
                       <<Gcp!Res(Gcp!Urn("Postgres", "sql.User", name \o <<"user">>), {Gcp!SqlInstance(name)})>>))
                 \o Gcp!When(literal("POSTGRES_DB"),
                       <<Gcp!Res(Gcp!Urn("Postgres", "sql.Database", name \o <<"db">>), {Gcp!SqlInstance(name)})>>)
      BY DEF Gcp!CreateCloudSql
    <2> HIDE DEF args
    <2> QED BY <2>1, <2>2
  <1> DEFINE r == Gcp!ResWith(Gcp!SqlInstance(name), {Gcp!ServiceConnection, Gcp!Vpc}, args)
             user == Gcp!When(literal("POSTGRES_PASSWORD"),
                       <<Gcp!Res(Gcp!Urn("Postgres", "sql.User", name \o <<"user">>), {Gcp!SqlInstance(name)})>>)
             database == Gcp!When(literal("POSTGRES_DB"),
                       <<Gcp!Res(Gcp!Urn("Postgres", "sql.Database", name \o <<"db">>), {Gcp!SqlInstance(name)})>>)
  <1>3. Sound(pr, r)
    BY <1>1, <1>2, GcpMade DEF Rounded, Gcp!SqlInstance
  <1>4. Piece(pr, user) /\ Piece(pr, database)
    BY GcpMade, Some DEF Special, Rounded
  <1>5. r.urn = Gcp!SqlInstance(name)
    BY DEF Gcp!ResWith
  <1>6. children = (<<r>> \o user) \o database
    BY <1>2
  <1> HIDE DEF r, user, database, children
  <1> DEFINE single == <<r>>
  <1>7. Piece(pr, single) /\ r \in ToSet(single)
    BY <1>3, Some, Literals
  <1> HIDE DEF single
  <1> DEFINE front == single \o user
  <1>8. Piece(pr, front) /\ r \in ToSet(front)
    BY <1>4, <1>7, Keeps
  <1> HIDE DEF front
  <1>9. Piece(pr, front \o database) /\ r \in ToSet(front \o database)
    BY <1>4, <1>8, Keeps
  <1>10. children = front \o database
    BY <1>6 DEF front, single
  <1> QED BY <1>5, <1>9, <1>10 DEF children

\* What is registered under the component of a service, with its main resource.
LEMMA GcpChildren ==
  ASSUME provider = "gcp", NEW pr, ParsedProject(pr), NEW name \in DOMAIN pr.services
  PROVE  LET children == Gcp!Children(name, Hosted(pr).services[name])
         IN  /\ Piece(pr, children)
             /\ \A cfg : \E r \in ToSet(children) : r.urn = Gcp!Main(name, pr, cfg)
  <1> DEFINE svc == Hosted(pr).services[name]
             children == Gcp!Children(name, svc)
  <1>1. Readable(svc) /\ svc.kind = pr.services[name].kind /\ svc.cpus = pr.services[name].cpus
        /\ svc.memory = pr.services[name].memory
    BY ReadableServices
  <1>2. \A cfg : Gcp!Main(name, pr, cfg) =
          CASE svc.kind = "postgres" -> Gcp!SqlInstance(name)
            [] svc.kind = "redis" -> Gcp!RedisInstance(name)
            [] OTHER -> IF Gcp!IsCloudRunService(svc) THEN Gcp!RunService(name) ELSE Gcp!InstanceGroup(name)
    BY GcpNormal DEF Gcp!Main
  <1>3. /\ GetCPUs(svc) \in Nat /\ GetMemoryMiB(svc) \in Nat
        /\ GetCPUs(pr.services[name]) = GetCPUs(svc) /\ GetMemoryMiB(pr.services[name]) = GetMemoryMiB(svc)
    BY <1>1 DEF GetCPUs, GetMemoryMiB, Readable
  <1>4. WholeSizes(pr) => Whole(svc)
    BY <1>1, <1>3 DEF WholeSizes, Whole
  <1> HIDE DEF svc
  <1>5. CASE svc.kind = "postgres"
    <2>1. children = Gcp!CreateCloudSql(name, svc)
      BY <1>5 DEF Gcp!Children
    <2> HIDE DEF children
    <2>2. Piece(pr, children) /\ \E r \in ToSet(children) : r.urn = Gcp!SqlInstance(name)
      BY <1>3, <1>4, <1>5, <2>1, GcpSql
    <2>3. \A cfg : Gcp!Main(name, pr, cfg) = Gcp!SqlInstance(name)
      BY <1>2, <1>5
    <2> QED BY <2>2, <2>3 DEF children, svc
  <1>6. CASE svc.kind = "redis"
    <2>1. WholeSizes(pr) => Fits(Gcp!GetRedisMemoryGiB(Gcp!GetMemoryMiB(svc)))
      BY <1>3, <1>4, <1>6, GcpAlike, GcpNormal, GcpSizes DEF Whole
    <2> DEFINE r == Gcp!ResWith(Gcp!RedisInstance(name), {Gcp!ServiceConnection, Gcp!Vpc},
                      [public |-> FALSE, fit |-> Gcp!GetRedisMemoryGiB(Gcp!GetMemoryMiB(svc))])
    <2>2. Sound(pr, r)
      BY <2>1, GcpMade DEF Rounded, Gcp!RedisInstance
    <2>3. children = <<r>>
      BY <1>6 DEF Gcp!Children, Gcp!CreateMemoryStore
    <2>4. r.urn = Gcp!RedisInstance(name)
      BY DEF Gcp!ResWith
    <2> HIDE DEF r, children
    <2>5. Piece(pr, <<r>>) /\ r \in ToSet(<<r>>)
      BY <2>2, Some, Literals
    <2> QED BY <1>2, <1>6, <2>3, <2>4, <2>5 DEF children, svc
  <1>7. CASE svc.kind \notin {"postgres", "redis"}
    <2>1. children = Gcp!CreateService(name, svc)
      BY <1>7 DEF Gcp!Children
    <2>2. \A cfg : Gcp!Main(name, pr, cfg)
                     = IF Gcp!IsCloudRunService(svc) THEN Gcp!RunService(name) ELSE Gcp!InstanceGroup(name)
      BY <1>2, <1>7
    <2> HIDE DEF children
    <2>3. Piece(pr, children) /\ \E r \in ToSet(children) :
             r.urn = IF Gcp!IsCloudRunService(svc) THEN Gcp!RunService(name) ELSE Gcp!InstanceGroup(name)
      BY <1>1, <2>1, GcpService
    <2> QED BY <2>2, <2>3 DEF children, svc
  <1> QED BY <1>5, <1>6, <1>7

\* All of a service: its main resource leads to those it depends on.
LEMMA GcpServicePlan ==
  ASSUME provider = "gcp", NEW pr, ParsedProject(pr), NEW cfg, NEW name \in DOMAIN pr.services,
         pr.services[name].needs \subseteq DOMAIN pr.services
  PROVE  LET p == Gcp!ServicePlan(name, pr, cfg)
         IN  /\ Piece(pr, p)
             /\ \A d \in pr.services[name].needs : Leads(p, Gcp!Main(name, pr, cfg), Gcp!Main(d, pr, cfg))
  <1> DEFINE svc == Hosted(pr).services[name]
             comp == Gcp!Component(name, svc)
             deps == Gcp!Deps(name, Hosted(pr))
             image == Gcp!When(svc.kind \notin {"postgres", "redis"}, Gcp!GetServiceImage(name, svc, cfg, deps))
             children == Gcp!Children(name, svc)
             adopted == Adopts(children, comp)
             head == Gcp!Res(comp, deps)
  <1>1. Gcp!ServicePlan(name, pr, cfg) = (<<head>> \o image) \o adopted
    <2>1. Gcp!ServicePlan(name, pr, cfg) = Gcp!BuildService(name, Hosted(pr), cfg)
      BY GcpNormal DEF Gcp!ServicePlan
    <2>2. Gcp!BuildService(name, Hosted(pr), cfg) = (<<head>> \o image) \o adopted
      BY Zenon DEF Gcp!BuildService, Adopts
    <2> QED BY <2>1, <2>2
  <1>2. /\ head.urn = comp /\ head.after = deps
        /\ Piece(pr, <<head>>) /\ head \in ToSet(<<head>>)
    <2>1. Sound(pr, head)
      BY GcpMade DEF Special, Rounded, Gcp!Component, Gcp!B
    <2>2. head.urn = comp /\ head.after = deps
      BY DEF Gcp!Res, Gcp!ResWith
    <2> HIDE DEF head
    <2> QED BY <2>1, <2>2, Some, Literals
  <1>3. Piece(pr, image)
    <2>1. Fits(Gcp!CloudBuildMachineType(Gcp!GetBuildMemoryMiB(svc)))
      BY GcpAlike, GcpSizes
    <2>2. Piece(pr, Gcp!BuildServiceImage(name, svc, cfg, deps))
      BY <2>1, GcpMade, Some DEF Special, Rounded, Gcp!BuildServiceImage, Gcp!BuildUrn
    <2> HIDE DEF deps
    <2> QED BY <2>2, GcpMade DEF Gcp!GetServiceImage
  <1>4. Piece(pr, children) /\ \E r \in ToSet(children) : r.urn = Gcp!Main(name, pr, cfg)
    BY GcpChildren
  <1>5. /\ Piece(pr, adopted)
        /\ \E s \in ToSet(adopted) : s.urn = Gcp!Main(name, pr, cfg) /\ comp \in s.after
    <2>1. TypeOf(comp) # "ecs.TaskDefinition"
      BY DEF Gcp!Component, Gcp!B, Gcp!Urn, TypeOf
    <2> HIDE DEF children, comp
    <2>2. Piece(pr, adopted) /\ Referring(children, adopted, comp)
      BY <2>1, <1>4, Adopted
    <2> HIDE DEF adopted
    <2> QED BY <1>4, <2>2 DEF Referring
  <1>6. \A d \in pr.services[name].needs : Gcp!Main(d, pr, cfg) \in deps
    <2> SUFFICES ASSUME NEW d \in pr.services[name].needs PROVE Gcp!Main(d, pr, cfg) \in deps
      OBVIOUS
    <2> DEFINE q == Gcp!Children(d, Hosted(pr).services[d])
    <2>1. Piece(pr, q) /\ \E r \in ToSet(q) : r.urn = Gcp!Main(d, pr, cfg)
      BY GcpChildren
    <2>2. Gcp!Registered(q) \subseteq deps
      BY ReadableServices DEF Gcp!Deps, Gcp!Handle
    <2> HIDE DEF q, deps
    <2> QED BY <2>1, <2>2 DEF Gcp!Registered, ToSet
  <1> HIDE DEF svc, comp, deps, image, children, adopted, head
  <1>7. /\ Piece(pr, <<head>> \o image) /\ head \in ToSet(<<head>> \o image)
        /\ IsASequence(<<head>> \o image) /\ IsASequence(adopted)
    BY <1>2, <1>3, <1>5, Then, ConcatSequence DEF Piece
  <1>8. Piece(pr, (<<head>> \o image) \o adopted)
    BY <1>5, <1>7, Then
  <1>9. ASSUME NEW d \in pr.services[name].needs
        PROVE  Leads((<<head>> \o image) \o adopted, Gcp!Main(name, pr, cfg), Gcp!Main(d, pr, cfg))
    <2>1. PICK s \in ToSet(adopted) : s.urn = Gcp!Main(name, pr, cfg) /\ comp \in s.after
      BY <1>5
    <2>2. Gcp!Main(d, pr, cfg) \in head.after /\ head.urn \in s.after
      BY <1>2, <1>6, <2>1
    <2>3. Leads((<<head>> \o image) \o adopted, s.urn, Gcp!Main(d, pr, cfg))
      BY <1>7, <2>2, LeadsOver
    <2> QED BY <2>1, <2>3
  <1> QED BY <1>1, <1>8, <1>9

\* Chunks of five make up the sequence they are of.
LEMMA GcpChunks ==
  ASSUME NEW targets, IsASequence(targets)
  PROVE  LET chunks == Gcp!Chunks(targets)
         IN  /\ IsASequence(chunks)
             /\ \A i \in DOMAIN chunks : ToSet(chunks[i]) \subseteq ToSet(targets)
             /\ \A t \in ToSet(targets) : \E i \in DOMAIN chunks : t \in ToSet(chunks[i])
  <1> DEFINE chunks == Gcp!Chunks(targets)
             size == Len(targets)
             n == (size + 4) \div 5
             end(i) == IF 5 * i < size THEN 5 * i ELSE size
  <1>1. size \in Nat /\ DOMAIN targets = 1 .. size /\ targets \in Seq(ToSet(targets))
    BY Indices DEF IsASequence
  <1>2. n \in Nat /\ \A i \in 1 .. n : 5 * i - 4 \in 1 .. size /\ end(i) \in 5 * i - 4 .. size
    BY <1>1
  <1>3. chunks = [i \in 1 .. n |-> SubSeq(targets, 5 * i - 4, end(i))]
    BY Zenon DEF Gcp!Chunks
  <1> HIDE DEF chunks, n
  <1>4. IsASequence(chunks) /\ DOMAIN chunks = 1 .. n
    BY <1>2, <1>3, MapSequence
  <1>5. ASSUME NEW i \in 1 .. n
        PROVE  /\ DOMAIN chunks[i] = 1 .. end(i) - (5 * i - 4) + 1
               /\ \A k \in DOMAIN chunks[i] : chunks[i][k] = targets[(5 * i - 4) + k - 1]
    <2> DEFINE first == 5 * i - 4
               last == end(i)
    <2>1. chunks[i] = SubSeq(targets, first, last)
      BY <1>3
    <2>2. first \in 1 .. size + 1 /\ last \in first - 1 .. size
      BY <1>1, <1>2
    <2> HIDE DEF first, last
    <2>3. /\ SubSeq(targets, first, last) \in Seq(ToSet(targets))
          /\ Len(SubSeq(targets, first, last)) = last - first + 1
          /\ \A k \in 1 .. last - first + 1 : SubSeq(targets, first, last)[k] = targets[first + k - 1]
      BY <1>1, <2>2, SubSeqProperties
    <2>4. DOMAIN chunks[i] = 1 .. last - first + 1
      BY <2>1, <2>3, LenProperties
    <2> QED BY <2>1, <2>3, <2>4 DEF first, last
  <1>6. ASSUME NEW i \in 1 .. n PROVE ToSet(chunks[i]) \subseteq ToSet(targets)
    <2> DEFINE first == 5 * i - 4
               last == end(i)
    <2>1. first \in 1 .. size /\ last \in first .. size
      BY <1>2
    <2>2. /\ DOMAIN chunks[i] = 1 .. last - first + 1
          /\ \A k \in DOMAIN chunks[i] : chunks[i][k] = targets[first + k - 1]
      BY <1>5
    <2> HIDE DEF first, last
    <2>3. \A k \in DOMAIN chunks[i] : first + k - 1 \in DOMAIN targets
      BY <1>1, <2>1, <2>2
    <2> QED BY <2>2, <2>3 DEF ToSet
  <1>7. ASSUME NEW j \in 1 .. size PROVE \E i \in 1 .. n : targets[j] \in ToSet(chunks[i])
    <2> DEFINE i == (j + 4) \div 5
               k == j - (5 * i - 4) + 1
    <2>1. i \in 1 .. n /\ k \in 1 .. end(i) - (5 * i - 4) + 1 /\ (5 * i - 4) + k - 1 = j
      BY <1>1 DEF n
    <2> HIDE DEF i, k
    <2>2. k \in DOMAIN chunks[i] /\ chunks[i][k] = targets[j]
      BY <1>5, <2>1
    <2> QED BY <2>1, <2>2 DEF ToSet
  <1>8. \A t \in ToSet(targets) : \E i \in DOMAIN chunks : t \in ToSet(chunks[i])
    BY <1>1, <1>4, <1>7 DEF ToSet
  <1> QED BY <1>4, <1>6, <1>8 DEF chunks

\* Ports, filtered and in chunks, are still a sequence, and the chunks of a protocol's are
\* all of its ports.
LEMMA GcpPorts ==
  ASSUME NEW svc, IsASequence(svc.ports)
  PROVE  /\ IsASequence(Gcp!IngressPorts(svc))
         /\ \A proto : LET chunks == Gcp!Chunks(Gcp!PortsWith(svc, proto)) IN
              /\ IsASequence(chunks)
              /\ \A i \in DOMAIN chunks : ToSet(chunks[i]) \subseteq Ported(svc, proto)
              /\ \A t \in Ported(svc, proto) : \E i \in DOMAIN chunks : t \in ToSet(chunks[i])
  <1> DEFINE ports == svc.ports
  <1>0. IsASequence(ports)
    OBVIOUS
  <1>1. IsASequence(Gcp!IngressPorts(svc))
    <2> DEFINE f == [i \in DOMAIN ports |-> IF Gcp!IsIngress(ports[i]) THEN <<ports[i]>> ELSE << >>]
    <2>1. Gcp!IngressPorts(svc) = FlattenSeq(f) /\ f = [i \in DOMAIN ports |-> f[i]]
      BY GcpAlike DEF Gcp!IngressPorts, Gcp!Selected
    <2>2. \A i \in DOMAIN ports : f[i] = <<ports[i]>> \/ f[i] = << >>
      OBVIOUS
    <2> HIDE DEF f, ports
    <2>3. IsASequence(FlattenSeq(f))
      BY <1>0, <2>1, <2>2, Filtered
    <2> QED BY <2>1, <2>3
  <1>2. ASSUME NEW proto
        PROVE  IsASequence(Gcp!PortsWith(svc, proto)) /\ ToSet(Gcp!PortsWith(svc, proto)) = Ported(svc, proto)
    <2> DEFINE f == [i \in DOMAIN ports |->
                       IF Gcp!GetProtocol(ports[i]) = proto THEN <<ports[i]>> ELSE << >>]
               kept == FlattenSeq(f)
               targets == [i \in DOMAIN kept |-> kept[i].target]
    <2>1. Gcp!PortsWith(svc, proto) = targets /\ f = [i \in DOMAIN ports |-> f[i]]
      BY GcpAlike DEF Gcp!PortsWith, Gcp!Selected
    <2>2. \A i \in DOMAIN ports : f[i] = <<ports[i]>> \/ f[i] = << >>
      OBVIOUS
    <2>3. \A i \in DOMAIN ports : f[i] = <<ports[i]>> <=> GetProtocol(ports[i]) = proto
      <3>1. \A port : Gcp!GetProtocol(port) = GetProtocol(port)
        BY GcpNormal
      <3>2. \A a : <<a>> # << >>
        OBVIOUS
      <3> QED BY <3>1, <3>2
    <2> HIDE DEF f
    <2>4. /\ IsASequence(kept) /\ ToSet(kept) \subseteq ToSet(ports)
          /\ \A e \in ToSet(kept) : \E i \in DOMAIN ports : ports[i] = e /\ f[i] = <<e>>
          /\ \A i \in DOMAIN ports : f[i] = <<ports[i]>> => ports[i] \in ToSet(kept)
      BY <2>1, <2>2, Filtered
    <2> HIDE DEF kept
    <2>5. ToSet(kept) = {p \in PortsOf(svc) : GetProtocol(p) = proto}
      BY <2>3, <2>4 DEF ToSet, PortsOf
    <2>6. Len(kept) \in Nat /\ DOMAIN kept = 1 .. Len(kept)
      BY <2>4, Indices
    <2>7. ToSet(targets) = {p.target : p \in ToSet(kept)}
      BY DEF ToSet
    <2>8. targets = [i \in 1 .. Len(kept) |-> targets[i]]
      BY <2>6
    <2> HIDE DEF targets
    <2>9. IsASequence(targets)
      BY <2>6, <2>8, MapSequence
    <2> QED BY <2>1, <2>5, <2>7, <2>9 DEF Ported
  <1> QED BY <1>1, <1>2, GcpChunks

\* The records of a host.
LEMMA GcpRecords ==
  ASSUME NEW pr
  PROVE  /\ \A name, target : Piece(pr, Gcp!InternalRecord(name, target))
         /\ \A host, name : Piece(pr, Gcp!PublicRecord(host, name))
  <1> USE DEF Special, Rounded
  <1>1. \A host, type, after, args : "fit" \notin DOMAIN args =>
          Sound(pr, Gcp!ResWith(Gcp!RecordUrn(host, type), after, args))
    BY GcpMade DEF Gcp!RecordUrn
  <1>2. \A name : \E type : Gcp!ServiceRecord(name) = Gcp!RecordUrn(<<name>>, type)
    BY Zenon DEF Gcp!ServiceRecord
  <1> QED BY <1>1, <1>2, Some DEF Gcp!InternalRecord, Gcp!PublicRecord

GcpForwarding(entry, address, probe) ==
  Gcp!ForEach(<<"tcp", "udp">>, LAMBDA proto : Gcp!ForwardingRules(entry, proto, address, probe))

\* What a service leaves behind for the load balancers.
Entered(pr, entry) ==
  /\ entry.name \in DOMAIN pr.services /\ entry.svc = Gcp!Normalized(pr).services[entry.name]
  /\ entry.kind = Gcp!KindOf(entry.svc) /\ entry.private = HasHostPorts(entry.svc)
  /\ IsASequence(entry.svc.ports)

\* A rule for a port of a service, and a plan with one for each of its ports.
RuleFor(r, name, proto, port) ==
  /\ TypeOf(r.urn) = "compute.ForwardingRule" /\ "service" \in DOMAIN r.args
  /\ r.args.service = name /\ r.args.proto = proto /\ port \in r.args.ports
AllForwarded(p, name, svc) ==
  \A proto \in {"tcp", "udp"} : \A port \in Ported(svc, proto) :
    \E r \in ToSet(p) : RuleFor(r, name, proto, port)

\* The forwarding of private instance groups: of every port they have.
LEMMA GcpHostMode ==
  ASSUME NEW pr, NEW entry, Entered(pr, entry), PassedThrough(entry.svc)
  PROVE  /\ Piece(pr, Gcp!InternalHostMode(entry))
         /\ AllForwarded(Gcp!InternalHostMode(entry), entry.name, entry.svc)
  <1> USE DEF Special, Rounded
  <1>1. \A parent, type, name, after : type \notin Special =>
          Piece(pr, <<Gcp!Res(Gcp!Urn(parent, type, name), after)>>)
    BY GcpMade, Some
  <1>2. \A n, tag, ports, from : Piece(pr, Gcp!Firewall(Gcp!B("compute.Firewall", n), tag, ports, from))
    BY GcpMade, Some DEF Gcp!Firewall, Gcp!B
  <1>3. \A proto, address, probe :
          /\ Piece(pr, Gcp!ForwardingRules(entry, proto, address, probe))
          /\ \A port \in Ported(entry.svc, proto) :
               \E r \in ToSet(Gcp!ForwardingRules(entry, proto, address, probe)) :
                 RuleFor(r, entry.name, proto, port)
    <2> SUFFICES ASSUME NEW proto, NEW address, NEW probe
                 PROVE  /\ Piece(pr, Gcp!ForwardingRules(entry, proto, address, probe))
                        /\ \A port \in Ported(entry.svc, proto) :
                             \E r \in ToSet(Gcp!ForwardingRules(entry, proto, address, probe)) :
                               RuleFor(r, entry.name, proto, port)
      OBVIOUS
    <2> DEFINE chunks == Gcp!Chunks(Gcp!PortsWith(entry.svc, proto))
               Rules(name, chunk) ==
                 <<Gcp!Res(Gcp!RegionBackend(name), {Gcp!TargetOf(entry), probe}),
                   Gcp!ResWith(Gcp!B("compute.ForwardingRule", name),
                     {Gcp!RegionBackend(name), address, Gcp!Vpc, Gcp!Subnet},
                     [service |-> entry.name, proto |-> proto, ports |-> Gcp!ToSet(chunk)])>>
               f == [i \in DOMAIN chunks |->
                       Rules(Gcp!ForwardingName(entry, proto, chunks[i]), chunks[i])]
    <2>1. /\ IsASequence(chunks)
          /\ \A i \in DOMAIN chunks : ToSet(chunks[i]) \subseteq Ported(entry.svc, proto)
          /\ \A t \in Ported(entry.svc, proto) : \E i \in DOMAIN chunks : t \in ToSet(chunks[i])
      BY GcpPorts DEF Entered
    <2>2. Gcp!ForwardingRules(entry, proto, address, probe) = FlattenSeq(f)
          /\ f = [i \in DOMAIN chunks |-> f[i]]
      BY GcpAlike DEF Gcp!ForwardingRules, Gcp!ForEach
    <2>3. ASSUME NEW name, NEW chunk, ToSet(chunk) \subseteq Ported(entry.svc, proto)
          PROVE  /\ Piece(pr, Rules(name, chunk))
                 /\ \A port \in ToSet(chunk) :
                      \E r \in ToSet(Rules(name, chunk)) : RuleFor(r, entry.name, proto, port)
      <3> DEFINE args == [service |-> entry.name, proto |-> proto, ports |-> Gcp!ToSet(chunk)]
                 backend == Gcp!Res(Gcp!RegionBackend(name), {Gcp!TargetOf(entry), probe})
                 rule == Gcp!ResWith(Gcp!B("compute.ForwardingRule", name),
                           {Gcp!RegionBackend(name), address, Gcp!Vpc, Gcp!Subnet}, args)
      <3>1. Sound(pr, backend)
        BY GcpMade DEF Gcp!RegionBackend, Gcp!B
      <3>2. /\ DOMAIN args = {"service", "proto", "ports"} /\ args.service = entry.name
            /\ args.proto = proto /\ args.ports = ToSet(chunk)
        BY GcpAlike
      <3> HIDE DEF args
      <3>3. /\ DOMAIN rule = {"urn", "after", "args"} /\ Len(rule.urn) = 3 /\ rule.args = args
            /\ TypeOf(rule.urn) = "compute.ForwardingRule"
        BY DEF Gcp!ResWith, Gcp!B, Gcp!Urn, TypeOf
      <3> HIDE DEF rule, backend
      <3>4. Sound(pr, rule)
        BY <2>3, <3>2, <3>3
           DEF Sound, SizeSound, ProbeSound, TaskSound, DoorSound, BalancerSound, Entered
      <3>5. Rules(name, chunk) = <<backend, rule>>
        BY DEF backend, rule, args
      <3> HIDE DEF Rules
      <3>6. Piece(pr, <<backend, rule>>) /\ ToSet(<<backend, rule>>) = {backend, rule}
        <4>1. Piece(pr, <<backend, rule>>)
          BY <3>1, <3>4, Some
        <4> QED BY <4>1, Two
      <3> QED BY <3>2, <3>3, <3>5, <3>6 DEF RuleFor
    <2> HIDE DEF Rules
    <2>4. \A i \in DOMAIN chunks :
            /\ Piece(pr, f[i])
            /\ \A port \in ToSet(chunks[i]) :
                 \E r \in ToSet(f[i]) : RuleFor(r, entry.name, proto, port)
      BY <2>1, <2>3
    <2> HIDE DEF f, chunks
    <2>5. Piece(pr, FlattenSeq(f)) /\ \A i \in DOMAIN chunks : ToSet(f[i]) \subseteq ToSet(FlattenSeq(f))
      BY <2>1, <2>2, <2>4, Each
    <2>6. ASSUME NEW port \in Ported(entry.svc, proto)
          PROVE  \E r \in ToSet(FlattenSeq(f)) : RuleFor(r, entry.name, proto, port)
      <3>1. PICK i \in DOMAIN chunks : port \in ToSet(chunks[i])
        BY <2>1
      <3>2. PICK r \in ToSet(f[i]) : RuleFor(r, entry.name, proto, port)
        BY <2>4, <3>1
      <3> QED BY <2>5, <3>2
    <2> QED BY <2>2, <2>5, <2>6
  <1>4. \A address, probe : /\ Piece(pr, GcpForwarding(entry, address, probe))
                            /\ AllForwarded(GcpForwarding(entry, address, probe), entry.name, entry.svc)
    <2> SUFFICES ASSUME NEW address, NEW probe
                 PROVE  /\ Piece(pr, GcpForwarding(entry, address, probe))
                        /\ AllForwarded(GcpForwarding(entry, address, probe), entry.name, entry.svc)
      OBVIOUS
    <2> DEFINE protos == <<"tcp", "udp">>
               f == [i \in DOMAIN protos |-> Gcp!ForwardingRules(entry, protos[i], address, probe)]
    <2>1. GcpForwarding(entry, address, probe) = FlattenSeq(f) /\ f = [i \in DOMAIN protos |-> f[i]]
      BY GcpAlike DEF Gcp!ForEach, GcpForwarding
    <2>2. /\ IsASequence(protos)
          /\ \A proto \in {"tcp", "udp"} : \E i \in DOMAIN protos : protos[i] = proto
      <3>1. DOMAIN protos = {1, 2} /\ protos[1] = "tcp" /\ protos[2] = "udp"
        OBVIOUS
      <3>2. IsASequence(protos)
        BY Tuples
      <3> HIDE DEF protos
      <3> QED BY <3>1, <3>2
    <2> HIDE DEF protos
    <2>3. \A i \in DOMAIN protos :
            /\ Piece(pr, f[i])
            /\ \A port \in Ported(entry.svc, protos[i]) :
                 \E r \in ToSet(f[i]) : RuleFor(r, entry.name, protos[i], port)
      BY <1>3
    <2> HIDE DEF f
    <2>4. Piece(pr, FlattenSeq(f)) /\ \A i \in DOMAIN protos : ToSet(f[i]) \subseteq ToSet(FlattenSeq(f))
      BY <2>1, <2>2, <2>3, Each
    <2>5. AllForwarded(FlattenSeq(f), entry.name, entry.svc)
      BY <2>2, <2>3, <2>4 DEF AllForwarded
    <2> QED BY <2>1, <2>4, <2>5
  <1> DEFINE address == Gcp!B("compute.Address", entry.name)
             traffic == Gcp!B("compute.Firewall", entry.name)
             checks == Gcp!B("compute.Firewall", entry.name \o <<"hc">>)
             probe == Gcp!B("compute.HealthCheck", entry.name)
             p1 == <<Gcp!Res(address, {Gcp!Subnet})>>
             p2 == Gcp!Firewall(traffic, entry.name,
                     {port.target : port \in Gcp!PortsOf(entry.svc)}, Gcp!Anyone)
             p3 == Gcp!Firewall(checks, entry.name,
                     {Head(Gcp!TcpPorts(entry.svc)).target}, Gcp!HealthChecks)
             p4 == <<Gcp!Res(probe, {checks})>>
             p5 == GcpForwarding(entry, address, probe)
             p6 == Gcp!InternalRecord(entry.name, {address, traffic})
  <1>5. Gcp!InternalHostMode(entry) = ((((p1 \o p2) \o p3) \o p4) \o p5) \o p6
    BY DEF Gcp!InternalHostMode, GcpForwarding
  <1>6. Piece(pr, p1) /\ Piece(pr, p2) /\ Piece(pr, p3) /\ Piece(pr, p4)
    <2>1. Sound(pr, Gcp!Res(address, {Gcp!Subnet}))
      <3>1. PassedThrough(Gcp!Normalized(pr).services[entry.name]) /\ entry.name \in DOMAIN pr.services
        BY DEF Entered
      <3> QED BY <3>1 DEF Sound, SizeSound, ProbeSound, TaskSound, DoorSound, BalancerSound, TypeOf,
                          Gcp!Res, Gcp!ResWith, Gcp!B, Gcp!Urn
    <2>2. Piece(pr, p1)
      BY <2>1, Some
    <2> QED BY <1>1, <1>2, <2>2 DEF Gcp!B
  <1>7. Piece(pr, p5) /\ Piece(pr, p6) /\ AllForwarded(p5, entry.name, entry.svc)
    BY <1>4, GcpRecords
  <1> HIDE DEF p1, p2, p3, p4, p5, p6
  <1> DEFINE front == ((p1 \o p2) \o p3) \o p4
  <1>8. Piece(pr, front)
    BY <1>6, Then
  <1>9. Gcp!InternalHostMode(entry) = (front \o p5) \o p6
    BY <1>5
  <1> HIDE DEF front
  <1>10. Piece(pr, front \o p5) /\ ToSet(p5) \subseteq ToSet(front \o p5)
    BY <1>7, <1>8, Keeps, Then
  <1> DEFINE most == front \o p5
  <1> HIDE DEF most
  <1>11. Piece(pr, most \o p6) /\ ToSet(most) \subseteq ToSet(most \o p6)
    <2>1. Piece(pr, most)
      BY <1>10 DEF most
    <2> QED BY <1>7, <2>1, Keeps, Then
  <1> QED BY <1>7, <1>9, <1>10, <1>11 DEF AllForwarded, most

\* The backends and the records of an entry of a load balancer.
LEMMA GcpEntry ==
  ASSUME NEW pr, NEW entry, Entered(pr, entry)
  PROVE  /\ Piece(pr, Gcp!InternalEntry(entry)) /\ Piece(pr, Gcp!BuildLbEntry(entry))
         /\ PassedThrough(entry.svc) => AllForwarded(Gcp!InternalEntry(entry), entry.name, entry.svc)
         /\ \A cfg : Piece(pr, Gcp!PublicRecords(entry, cfg))
  <1> USE DEF Special, Rounded
  <1> DEFINE ports == Gcp!IngressPorts(entry.svc)
  <1>1. IsASequence(ports)
    BY GcpPorts DEF Entered
  <1>2. Piece(pr, Gcp!InternalCloudRun(entry))
    BY GcpMade, Some DEF Gcp!InternalCloudRun, Gcp!RegionBackend, Gcp!B
  <1>3. Piece(pr, Gcp!InternalSinglePort(entry))
    <2>1. \A tag, p, from : Piece(pr, Gcp!Firewall(Gcp!B("compute.Firewall", entry.name), tag, p, from))
      BY GcpMade, Some DEF Gcp!Firewall, Gcp!B
    <2>2. \A after, target : Piece(pr, <<Gcp!Res(Gcp!B("compute.HealthCheck", entry.name), after),
                                         Gcp!Res(Gcp!RegionBackend(entry.name), target)>>)
      BY GcpMade, Some DEF Gcp!RegionBackend, Gcp!B
    <2> QED BY <2>1, <2>2, Then DEF Gcp!InternalSinglePort
  <1> DEFINE hosted == Gcp!When(entry.kind = "group" /\ entry.private, Gcp!InternalHostMode(entry))
  <1>4. Gcp!OnePort(entry) <=> OneIngress(entry.svc)
    BY GcpNormal DEF Gcp!OnePort, OneIngress
  <1>5. PassedThrough(entry.svc) <=> (entry.kind = "group" /\ entry.private /\ ~Gcp!OnePort(entry))
    BY <1>4 DEF PassedThrough, Entered
  <1>6. PassedThrough(entry.svc) => /\ ~Gcp!HasStore(entry) /\ ~Gcp!OnInternalAlb(entry)
                                     /\ hosted = Gcp!InternalHostMode(entry)
    BY <1>5 DEF Gcp!HasStore, Gcp!OnInternalAlb, Gcp!When
  <1>7. PassedThrough(entry.svc) => AllForwarded(Gcp!InternalEntry(entry), entry.name, entry.svc)
    BY <1>6, GcpHostMode DEF Gcp!InternalEntry
  <1>8. Piece(pr, Gcp!InternalEntry(entry))
    <2>1. ~Gcp!HasStore(entry) /\ ~Gcp!OnInternalAlb(entry) => Piece(pr, hosted)
      <3>1. ~Gcp!HasStore(entry) /\ ~Gcp!OnInternalAlb(entry) /\ entry.kind = "group" /\ entry.private
              => PassedThrough(entry.svc)
        BY <1>5 DEF Gcp!OnInternalAlb
      <3> QED BY <3>1, GcpHostMode, GcpMade
    <2>2. Gcp!HasStore(entry) \in BOOLEAN /\ Gcp!OnInternalAlb(entry) \in BOOLEAN
      BY DEF Gcp!HasStore, Gcp!OnInternalAlb
    <2>3. CASE Gcp!HasStore(entry)
      BY <2>3, GcpRecords DEF Gcp!InternalEntry
    <2>4. CASE ~Gcp!HasStore(entry) /\ Gcp!OnInternalAlb(entry)
      BY <1>2, <1>3, <2>4 DEF Gcp!InternalEntry
    <2>5. CASE ~Gcp!HasStore(entry) /\ ~Gcp!OnInternalAlb(entry)
      BY <2>1, <2>5 DEF Gcp!InternalEntry
    <2> QED BY <2>2, <2>3, <2>4, <2>5
  <1>9. Piece(pr, Gcp!BuildMigLbEntry(entry))
    <2> DEFINE Backend(name) ==
                 <<Gcp!Res(Gcp!B("compute.HealthCheck", name), {}),
                   Gcp!ResWith(Gcp!PublicBackend(name),
                     {Gcp!TargetOf(entry), Gcp!B("compute.HealthCheck", name)},
                     [service |-> entry.name, balancing |-> Gcp!MigBackend(entry)])>>
               f == [i \in DOMAIN ports |-> Backend(Gcp!MigBackendName(entry, ports[i]))]
    <2>1. Gcp!BuildMigLbEntry(entry) = FlattenSeq(f) /\ f = [i \in DOMAIN ports |-> f[i]]
      BY GcpAlike DEF Gcp!BuildMigLbEntry, Gcp!ForEach
    <2>2. \A name : Piece(pr, Backend(name))
      <3> SUFFICES ASSUME NEW name PROVE Piece(pr, Backend(name))
        OBVIOUS
      <3> DEFINE args == [service |-> entry.name, balancing |-> Gcp!MigBackend(entry)]
                 after == {Gcp!TargetOf(entry), Gcp!B("compute.HealthCheck", name)}
                 backend == Gcp!ResWith(Gcp!PublicBackend(name), after, args)
                 check == Gcp!Res(Gcp!B("compute.HealthCheck", name), {})
      <3>1. Sound(pr, check)
        BY GcpMade DEF Gcp!B
      <3>2. Gcp!MigBackend(entry) = "UTILIZATION" => OneIngress(Gcp!Normalized(pr).services[entry.name])
        BY <1>4 DEF Gcp!MigBackend, Gcp!OnePort, Entered
      <3>3. "fit" \notin DOMAIN args /\ args.service = entry.name /\ args.balancing = Gcp!MigBackend(entry)
        OBVIOUS
      <3> HIDE DEF args, after
      <3>4. Sound(pr, backend)
        BY <3>2, <3>3 DEF Sound, SizeSound, ProbeSound, TaskSound, DoorSound, BalancerSound, TypeOf,
                          Gcp!ResWith, Gcp!PublicBackend, Gcp!B, Gcp!Urn
      <3>5. Backend(name) = <<check, backend>>
        BY DEF args, after
      <3> HIDE DEF check, backend, Backend
      <3> QED BY <3>1, <3>4, <3>5, Some
    <2> HIDE DEF Backend, ports
    <2>3. \A i \in DOMAIN ports : Piece(pr, f[i])
      BY <2>2
    <2> HIDE DEF f
    <2> QED BY <1>1, <2>1, <2>3, Each
  <1>10. Piece(pr, Gcp!BuildCloudRunLbEntry(entry))
    <2> DEFINE name == Gcp!PublicLbName(entry.name)
               neg == Gcp!B("compute.RegionNetworkEndpointGroup", name)
               args == [service |-> entry.name, balancing |-> "none"]
    <2>1. Sound(pr, Gcp!Res(neg, {Gcp!TargetOf(entry)}))
      BY GcpMade DEF Gcp!B
    <2>2. Sound(pr, Gcp!ResWith(Gcp!PublicBackend(name), {neg}, args))
      <3>1. "fit" \notin DOMAIN args /\ args.balancing # "UTILIZATION"
        OBVIOUS
      <3> HIDE DEF args
      <3> QED BY <3>1 DEF Sound, SizeSound, ProbeSound, TaskSound, DoorSound, BalancerSound, TypeOf,
                          Gcp!ResWith, Gcp!PublicBackend, Gcp!B, Gcp!Urn
    <2>3. Gcp!BuildCloudRunLbEntry(entry)
            = <<Gcp!Res(neg, {Gcp!TargetOf(entry)}), Gcp!ResWith(Gcp!PublicBackend(name), {neg}, args)>>
      BY Zenon DEF Gcp!BuildCloudRunLbEntry
    <2> HIDE DEF name, neg, args
    <2> QED BY <2>1, <2>2, <2>3, Some
  <1>11. ASSUME NEW cfg PROVE Piece(pr, Gcp!PublicRecords(entry, cfg))
    <2> DEFINE f == [i \in DOMAIN ports |->
                       Gcp!PublicRecord(Gcp!PortHost(entry.name, ports[i], cfg), entry.name)]
    <2>1. Gcp!PublicRecords(entry, cfg)
            = Gcp!PublicRecord(<<Gcp!ServiceLabel(entry.name)>> \o cfg.domain, entry.name) \o FlattenSeq(f)
          /\ f = [i \in DOMAIN ports |-> f[i]]
      BY GcpAlike DEF Gcp!PublicRecords, Gcp!ForEach
    <2> HIDE DEF ports
    <2>2. \A i \in DOMAIN ports : Piece(pr, f[i])
      BY GcpRecords
    <2> HIDE DEF f
    <2>3. Piece(pr, FlattenSeq(f))
      BY <1>1, <2>1, <2>2, Each
    <2> QED BY <2>1, <2>3, GcpRecords, Then
  <1> QED BY <1>7, <1>8, <1>9, <1>10, <1>11 DEF Gcp!BuildLbEntry

\* What services leave behind.
Entries(pr, entries) == IsASequence(entries) /\ \A entry \in ToSet(entries) : Entered(pr, entry)

\* The internal load balancer.
LEMMA GcpInternal ==
  ASSUME NEW pr, NEW cfg, NEW entries, Entries(pr, entries)
  PROVE  LET p == Gcp!CreateInternalLoadBalancer(entries, cfg)
         IN  /\ Piece(pr, p)
             /\ \A entry \in ToSet(entries) :
                  PassedThrough(entry.svc) => AllForwarded(p, entry.name, entry.svc)
  <1> USE DEF Special, Rounded
  <1> DEFINE all == [i \in DOMAIN entries |-> Gcp!InternalEntry(entries[i])]
             kept == [i \in DOMAIN entries |->
                        IF Gcp!OnInternalAlb(entries[i]) THEN <<entries[i]>> ELSE << >>]
             onAlb == FlattenSeq(kept)
             names == [i \in DOMAIN onAlb |-> onAlb[i].name]
  <1>1. Gcp!CreateInternalLoadBalancer(entries, cfg)
          = FlattenSeq(all) \o Gcp!When(names # << >>, Gcp!PrivateAlb(names, cfg))
    BY GcpAlike DEF Gcp!CreateInternalLoadBalancer, Gcp!ForEach, Gcp!Selected
  <1>2. IsASequence(entries) /\ \A i \in DOMAIN entries : Entered(pr, entries[i])
    BY DEF Entries, ToSet
  <1>3. /\ Piece(pr, FlattenSeq(all))
        /\ \A i \in DOMAIN entries : LET entry == entries[i] IN
             PassedThrough(entry.svc) => AllForwarded(FlattenSeq(all), entry.name, entry.svc)
    <2>1. /\ all = [i \in DOMAIN entries |-> all[i]] /\ \A i \in DOMAIN entries : Piece(pr, all[i])
          /\ \A i \in DOMAIN entries : LET entry == entries[i] IN
               PassedThrough(entry.svc) => AllForwarded(all[i], entry.name, entry.svc)
      BY <1>2, GcpEntry
    <2> HIDE DEF all
    <2>2. /\ Piece(pr, FlattenSeq(all))
          /\ \A i \in DOMAIN entries : ToSet(all[i]) \subseteq ToSet(FlattenSeq(all))
      BY <1>2, <2>1, Each
    <2> QED BY <2>1, <2>2 DEF AllForwarded
  <1>4. IsASequence(onAlb)
    <2>1. /\ kept = [i \in DOMAIN entries |-> kept[i]]
          /\ \A i \in DOMAIN entries : kept[i] = <<entries[i]>> \/ kept[i] = << >>
      OBVIOUS
    <2> HIDE DEF kept
    <2> QED BY <1>2, <2>1, Filtered
  <1>5. IsASequence(names)
    <2>1. Len(onAlb) \in Nat /\ names = [i \in 1 .. Len(onAlb) |-> names[i]]
      BY <1>4, Indices
    <2> HIDE DEF names
    <2> QED BY <2>1, MapSequence
  <1> HIDE DEF all, kept, onAlb, names
  <1>6. Piece(pr, Gcp!PrivateAlb(names, cfg))
    <2> DEFINE rule == Gcp!P("compute.ForwardingRule", "private-lb-forwarding-rule")
               f == [i \in DOMAIN names |-> Gcp!InternalRecord(names[i], {rule})]
    <2>1. PICK after, urns :
            Gcp!PrivateAlb(names, cfg)
              = <<Gcp!Res(Gcp!ProxySubnet, after),
                  Gcp!Res(Gcp!P("compute.RegionUrlMap", "private-lb-urlmap"), urns),
                  Gcp!Res(Gcp!P("compute.RegionTargetHttpProxy", "private-lb-http-proxy"),
                          {Gcp!P("compute.RegionUrlMap", "private-lb-urlmap"), Gcp!ProxySubnet}),
                  Gcp!Res(rule, {Gcp!P("compute.RegionTargetHttpProxy", "private-lb-http-proxy"),
                                 Gcp!ProxySubnet, Gcp!Vpc, Gcp!Subnet})>>
                \o FlattenSeq(f)
      <3>1. Gcp!ForEach(names, LAMBDA name : Gcp!InternalRecord(name, {rule})) = FlattenSeq(f)
        BY GcpAlike DEF Gcp!ForEach
      <3> QED BY Zenon, <3>1 DEF Gcp!PrivateAlb
    <2>2. \A a, b, c, d :
            Piece(pr, <<Gcp!Res(Gcp!ProxySubnet, a),
                        Gcp!Res(Gcp!P("compute.RegionUrlMap", "private-lb-urlmap"), b),
                        Gcp!Res(Gcp!P("compute.RegionTargetHttpProxy", "private-lb-http-proxy"), c),
                        Gcp!Res(rule, d)>>)
      <3>1. \A d : Sound(pr, Gcp!Res(rule, d))
        BY DEF Sound, SizeSound, ProbeSound, TaskSound, DoorSound, BalancerSound, TypeOf,
               Gcp!Res, Gcp!ResWith, Gcp!P, Gcp!Urn
      <3>2. \A type, name, refs : type \notin Special => Sound(pr, Gcp!Res(Gcp!P(type, name), refs))
        BY GcpMade DEF Gcp!P
      <3> HIDE DEF rule
      <3> QED BY <3>1, <3>2, Some DEF Gcp!ProxySubnet
    <2>3. f = [i \in DOMAIN names |-> f[i]] /\ \A i \in DOMAIN names : Piece(pr, f[i])
      BY GcpRecords
    <2> HIDE DEF f
    <2>4. Piece(pr, FlattenSeq(f))
      BY <1>5, <2>3, Each
    <2> HIDE DEF rule
    <2> QED BY <2>1, <2>2, <2>4, Then
  <1> DEFINE first == FlattenSeq(all)
             alb == Gcp!When(names # << >>, Gcp!PrivateAlb(names, cfg))
  <1>7. Piece(pr, alb)
    BY <1>6, GcpMade
  <1>8. /\ Gcp!CreateInternalLoadBalancer(entries, cfg) = first \o alb /\ Piece(pr, first)
        /\ \A i \in DOMAIN entries : LET entry == entries[i] IN
             PassedThrough(entry.svc) => AllForwarded(first, entry.name, entry.svc)
    BY <1>1, <1>3
  <1> HIDE DEF first, alb
  <1>9. Piece(pr, first \o alb) /\ ToSet(first) \subseteq ToSet(first \o alb)
    BY <1>7, <1>8, Keeps, Then
  <1>10. ASSUME NEW entry \in ToSet(entries), PassedThrough(entry.svc)
         PROVE  AllForwarded(first \o alb, entry.name, entry.svc)
    <2>1. AllForwarded(first, entry.name, entry.svc)
      BY <1>8, <1>10 DEF ToSet
    <2> QED BY <1>9, <2>1 DEF AllForwarded
  <1> QED BY <1>8, <1>9, <1>10

\* The external load balancer.
LEMMA GcpExternal ==
  ASSUME NEW pr, NEW cfg, NEW entries, Entries(pr, entries)
  PROVE  Piece(pr, Gcp!CreateExternalLoadBalancers(entries, cfg))
  <1> USE DEF Special, Rounded
  <1> DEFINE kept == [i \in DOMAIN entries |->
                        IF Gcp!Ingress(entries[i]) THEN <<entries[i]>> ELSE << >>]
             ingress == FlattenSeq(kept)
             records == [i \in DOMAIN ingress |-> Gcp!PublicRecords(ingress[i], cfg)]
             built == [i \in DOMAIN ingress |-> Gcp!BuildLbEntry(ingress[i])]
             q1 == Gcp!When(cfg.domain # << >>, FlattenSeq(records))
             q2 == <<Gcp!Res(Gcp!CertMap, {})>>
             q3 == Gcp!When(cfg.domain # << >>,
                     <<Gcp!Res(Gcp!P("certificatemanager.CertificateMapEntry", "cert-map-entry"),
                               {Gcp!CertMap, Gcp!WildcardCert})>>)
             q4 == Gcp!BuildUrlMap(ingress)
  <1>1. Gcp!CreateExternalLoadBalancers(entries, cfg)
          = Gcp!When(ingress # << >>,
              ((((q1 \o q2) \o q3) \o q4) \o Gcp!HttpsForwardingRule) \o Gcp!HttpRedirectForwardingRule)
    BY GcpAlike DEF Gcp!CreateExternalLoadBalancers, Gcp!ForEach, Gcp!Selected
  <1>2. IsASequence(ingress) /\ \A i \in DOMAIN ingress : Entered(pr, ingress[i])
    <2>1. /\ kept = [i \in DOMAIN entries |-> kept[i]]
          /\ \A i \in DOMAIN entries : kept[i] = <<entries[i]>> \/ kept[i] = << >>
      OBVIOUS
    <2> HIDE DEF kept
    <2>2. IsASequence(ingress) /\ ToSet(ingress) \subseteq ToSet(entries)
      BY <2>1, Filtered DEF Entries
    <2> HIDE DEF ingress
    <2> QED BY <2>2 DEF Entries, ToSet
  <1> HIDE DEF kept, ingress
  <1>3. Piece(pr, FlattenSeq(records))
    <2>1. /\ records = [i \in DOMAIN ingress |-> records[i]]
          /\ \A i \in DOMAIN ingress : Piece(pr, records[i])
      BY <1>2, GcpEntry
    <2> HIDE DEF records
    <2> QED BY <1>2, <2>1, Each
  <1>4. Piece(pr, FlattenSeq(built))
    <2>1. /\ built = [i \in DOMAIN ingress |-> built[i]]
          /\ \A i \in DOMAIN ingress : Piece(pr, built[i])
      BY <1>2, GcpEntry
    <2> HIDE DEF built
    <2> QED BY <1>2, <2>1, Each
  <1> HIDE DEF records
  <1>5. Piece(pr, q1) /\ Piece(pr, q2) /\ Piece(pr, q3)
    BY <1>3, GcpMade, Some DEF Gcp!CertMap, Gcp!P
  <1>6. Piece(pr, q4)
    <2>1. \E urns, first, routes :
            Gcp!BuildUrlMap(ingress)
              = FlattenSeq(built)
                \o <<Gcp!ResWith(Gcp!UrlMap, urns, [default |-> first, routes |-> routes])>>
      <3>1. Gcp!FlattenSeq([i \in DOMAIN ingress |-> Gcp!BuildLbEntry(ingress[i])]) = FlattenSeq(built)
        BY GcpAlike
      <3> QED BY Zenon, <3>1 DEF Gcp!BuildUrlMap
    <2>2. \A urns, first, routes :
            Piece(pr, <<Gcp!ResWith(Gcp!UrlMap, urns, [default |-> first, routes |-> routes])>>)
      BY GcpMade, Some DEF Gcp!UrlMap, Gcp!P
    <2> HIDE DEF built
    <2> QED BY <1>4, <2>1, <2>2, Then
  <1>7. Piece(pr, Gcp!HttpsForwardingRule) /\ Piece(pr, Gcp!HttpRedirectForwardingRule)
    <2>1. /\ \A type, name, refs : type \notin Special => Sound(pr, Gcp!Res(Gcp!P(type, name), refs))
          /\ \A type, name, after, port : type \notin Special =>
               Sound(pr, Gcp!ResWith(Gcp!P(type, name), after, [port |-> port]))
      BY GcpMade DEF Gcp!P
    <2>2. Piece(pr, Gcp!HttpsForwardingRule)
      <3> DEFINE proxy == Gcp!Res(Gcp!P("compute.TargetHttpsProxy", "https-proxy"), {Gcp!UrlMap, Gcp!CertMap})
                 rule == Gcp!ResWith(Gcp!P("compute.GlobalForwardingRule", "https-rule"),
                           {Gcp!P("compute.TargetHttpsProxy", "https-proxy"), Gcp!PublicIp}, [port |-> 443])
      <3>1. Sound(pr, proxy) /\ Sound(pr, rule)
        BY <2>1
      <3>2. Gcp!HttpsForwardingRule = <<proxy, rule>>
        BY DEF Gcp!HttpsForwardingRule
      <3> HIDE DEF proxy, rule
      <3> QED BY <3>1, <3>2, Some
    <2>3. Piece(pr, Gcp!HttpRedirectForwardingRule)
      BY <2>1, Some DEF Gcp!HttpRedirectForwardingRule
    <2> QED BY <2>2, <2>3
  <1> HIDE DEF q1, q2, q3, q4
  <1>8. Piece(pr, ((q1 \o q2) \o q3) \o q4)
    BY <1>5, <1>6, Then
  <1> DEFINE front == ((q1 \o q2) \o q3) \o q4
  <1>9. Piece(pr, front)
    BY <1>8
  <1>10. Gcp!CreateExternalLoadBalancers(entries, cfg)
           = Gcp!When(ingress # << >>, (front \o Gcp!HttpsForwardingRule) \o Gcp!HttpRedirectForwardingRule)
    BY <1>1
  <1> HIDE DEF front
  <1>11. Piece(pr, (front \o Gcp!HttpsForwardingRule) \o Gcp!HttpRedirectForwardingRule)
    BY <1>7, <1>9, Then
  <1> QED BY <1>10, <1>11, GcpMade

\* The services behind a passthrough load balancer, all of whose ports have a rule.
Balancing(pr, p, names) ==
  \A name \in names : LET svc == Gcp!Normalized(pr).services[name] IN
    PassedThrough(svc) => AllForwarded(p, name, svc)

\* The load balancers of the services deployed.
LEMMA GcpFinalPlan ==
  ASSUME NEW pr, ParsedProject(pr), NEW cfg, NEW order \in Seq(DOMAIN pr.services)
  PROVE  /\ Piece(pr, Gcp!FinalPlan(pr, cfg, order))
         /\ Balancing(pr, Gcp!FinalPlan(pr, cfg, order), ToSet(order))
  <1> DEFINE Entry(name) ==
               [name |-> name, kind |-> Gcp!KindOf(Hosted(pr).services[name]),
                svc |-> Hosted(pr).services[name],
                private |-> Gcp!HasHostPorts(Hosted(pr).services[name])]
             all == [i \in DOMAIN order |-> Entry(order[i])]
             kept == [i \in DOMAIN all |-> IF all[i].kind # "none" THEN <<all[i]>> ELSE << >>]
             entries == FlattenSeq(kept)
  <1>1. Gcp!LbEntries(Hosted(pr), order) = entries
    BY GcpAlike DEF Gcp!LbEntries, Gcp!Selected
  <1>2. Len(order) \in Nat /\ DOMAIN order = 1 .. Len(order)
        /\ \A i \in 1 .. Len(order) : order[i] \in DOMAIN pr.services
    BY LenProperties
  <1>3. \A i \in DOMAIN all : all[i] = Entry(order[i]) /\ order[i] \in DOMAIN pr.services
    BY <1>2
  <1>4. \A i \in DOMAIN all : Entered(pr, all[i])
    <2>1. ASSUME NEW name \in DOMAIN pr.services PROVE Entered(pr, Entry(name))
      <3>1. IsASequence(Hosted(pr).services[name].ports)
        BY ReadableServices DEF Readable
      <3> QED BY <3>1, GcpNormal DEF Entered
    <2> HIDE DEF Entry
    <2> QED BY <1>3, <2>1
  <1>5. IsASequence(all)
    <2>1. all = [i \in 1 .. Len(order) |-> all[i]]
      BY <1>2
    <2> HIDE DEF all
    <2> QED BY <1>2, <2>1, MapSequence
  <1> HIDE DEF all
  <1>6. Entries(pr, entries) /\ \A i \in DOMAIN all : all[i].kind # "none" => all[i] \in ToSet(entries)
    <2>1. /\ kept = [i \in DOMAIN all |-> kept[i]]
          /\ \A i \in DOMAIN all : kept[i] = <<all[i]>> \/ kept[i] = << >>
      OBVIOUS
    <2>2. \A i \in DOMAIN all : all[i].kind # "none" => kept[i] = <<all[i]>>
      OBVIOUS
    <2> HIDE DEF kept
    <2>3. /\ IsASequence(entries) /\ ToSet(entries) \subseteq ToSet(all)
          /\ \A i \in DOMAIN all : kept[i] = <<all[i]>> => all[i] \in ToSet(entries)
      BY <1>5, <2>1, Filtered
    <2> HIDE DEF entries
    <2> QED BY <1>4, <2>2, <2>3 DEF Entries, ToSet
  <1> HIDE DEF entries
  <1>7. Gcp!FinalPlan(pr, cfg, order)
          = Gcp!When(Gcp!NeedNat(Hosted(pr)), Gcp!CreateNat)
            \o (Gcp!CreateInternalLoadBalancer(entries, cfg) \o Gcp!CreateExternalLoadBalancers(entries, cfg))
    BY Zenon, <1>1, GcpNormal DEF Gcp!FinalPlan, Gcp!CreateLoadBalancers
  <1>8. Piece(pr, Gcp!When(Gcp!NeedNat(Hosted(pr)), Gcp!CreateNat))
    <2>1. IsFiniteSet(DOMAIN pr.services)
      BY DEF ParsedProject
    <2> QED BY <2>1, GcpInfra, GcpMade
  <1> DEFINE nat == Gcp!When(Gcp!NeedNat(Hosted(pr)), Gcp!CreateNat)
             inside == Gcp!CreateInternalLoadBalancer(entries, cfg)
             outside == Gcp!CreateExternalLoadBalancers(entries, cfg)
  <1>9. /\ Piece(pr, nat) /\ Piece(pr, inside) /\ Piece(pr, outside)
        /\ \A entry \in ToSet(entries) :
             PassedThrough(entry.svc) => AllForwarded(inside, entry.name, entry.svc)
    BY <1>6, <1>8, GcpInternal, GcpExternal
  <1> HIDE DEF nat, inside, outside
  <1>10. Piece(pr, inside \o outside) /\ ToSet(inside) \subseteq ToSet(inside \o outside)
    BY <1>9, Keeps, Then
  <1> DEFINE both == inside \o outside
  <1> HIDE DEF both
  <1>11. Piece(pr, nat \o both) /\ ToSet(both) \subseteq ToSet(nat \o both)
    <2>1. Piece(pr, both)
      BY <1>10 DEF both
    <2> QED BY <1>9, <2>1, Keeps, Then
  <1>12. Gcp!FinalPlan(pr, cfg, order) = nat \o both
    BY <1>7 DEF nat, inside, outside, both
  <1>13. Balancing(pr, nat \o both, ToSet(order))
    <2> SUFFICES ASSUME NEW i \in DOMAIN order, PassedThrough(Gcp!Normalized(pr).services[order[i]])
                 PROVE  AllForwarded(nat \o both, order[i], Gcp!Normalized(pr).services[order[i]])
      BY DEF Balancing, ToSet
    <2> DEFINE svc == Gcp!Normalized(pr).services[order[i]]
    <2>1. i \in DOMAIN all /\ all[i] = Entry(order[i])
      BY <1>2, <1>3 DEF all
    <2>2. all[i].name = order[i] /\ all[i].svc = svc /\ all[i].kind = Gcp!KindOf(svc)
      BY <2>1, GcpNormal
    <2>3. all[i] \in ToSet(entries)
      BY <1>6, <2>1, <2>2 DEF PassedThrough
    <2> HIDE DEF svc
    <2>4. AllForwarded(inside, order[i], svc)
      BY <1>9, <2>2, <2>3 DEF svc
    <2>5. ToSet(inside) \subseteq ToSet(nat \o both)
      BY <1>10, <1>11 DEF both
    <2> QED BY <2>4, <2>5 DEF AllForwarded, svc
  <1> QED BY <1>11, <1>12, <1>13

-----------------------------------------------------------------------------
(* Scaleway.                                                               *)

\* The operators of Compose and Plan are the same inside ScalewayProject.
LEMMA ScalewayAlike ==
  /\ \A asked, family : Scaleway!PostgresNodeType(asked, family) = PostgresNodeType(asked, family)
  /\ \A memory : Scaleway!RedisNodeType(memory) = RedisNodeType(memory)
  /\ \A memory, family :
       Scaleway!SelectBuildInstanceType(memory, family) = SelectBuildInstanceType(memory, family)
  /\ \A family : ~Scaleway!BuildFamilyFails(family) => family \in DOMAIN BuildInstanceFamilies
  /\ \A set : Scaleway!ToSet(set) = ToSet(set)
  <1>1. /\ \A a, c, f : Scaleway!Fit(a, c, f) = Fit(a, c, f)
        /\ \A c : Scaleway!Last(c) = Last(c)
    BY DEF Fit, FirstMatch, SelectInSeq, Min, Covers, ToSet, Last, Scaleway!Fit, Scaleway!FirstMatch,
       Scaleway!SelectInSeq, Scaleway!Min, Scaleway!Covers, Scaleway!ToSet, Scaleway!Last
  <1>2. Scaleway!PgDevNodes = PgDevNodes /\ Scaleway!PgGpNodes = PgGpNodes
    BY DEF PgDevNodes, PgGpNodes, Scaleway!PgDevNodes, Scaleway!PgGpNodes
  <1>3. \A asked, family : Scaleway!PostgresNodeType(asked, family) = PostgresNodeType(asked, family)
    BY <1>1, <1>2 DEF PostgresNodeType, Scaleway!PostgresNodeType
  <1>4. \A gibs : Scaleway!MemorySizes(gibs) = MemorySizes(gibs)
    BY DEF MemorySizes, Scaleway!MemorySizes
  <1>5. Scaleway!RedisNodeTypes = RedisNodeTypes
    BY <1>4 DEF RedisNodeTypes, Scaleway!RedisNodeTypes
  <1>6. \A memory : Scaleway!RedisNodeType(memory) = RedisNodeType(memory)
    BY <1>1, <1>5 DEF RedisNodeType, Scaleway!RedisNodeType
  <1>7. Scaleway!BuildInstanceFamilies = BuildInstanceFamilies
    BY DEF BuildInstanceFamilies, Scaleway!BuildInstanceFamilies
  <1>8. \A memory, family :
          Scaleway!SelectBuildInstanceType(memory, family) = SelectBuildInstanceType(memory, family)
    BY <1>1, <1>4, <1>7 DEF SelectBuildInstanceType, Scaleway!SelectBuildInstanceType
  <1>9. \A family : ~Scaleway!BuildFamilyFails(family) => family \in DOMAIN BuildInstanceFamilies
    BY <1>7 DEF Scaleway!BuildFamilyFails
  <1>10. \A set : Scaleway!ToSet(set) = ToSet(set)
    BY DEF ToSet, Scaleway!ToSet
  <1> QED BY <1>3, <1>6, <1>8, <1>9, <1>10

\* The project's shared infrastructure.
LEMMA ScalewayInfra == ASSUME NEW pr, NEW cfg PROVE Piece(pr, Scaleway!InfraPlan(pr, cfg))
  <1>1. \A type, name : type \notin Special =>
          Sound(pr, [urn |-> <<"Project", type, name>>, after |-> {}, args |-> [of |-> "none"]])
    BY Plain
  <1> USE DEF Scaleway!Namespace, Scaleway!PrivateNetwork, Scaleway!Registry, Scaleway!LogSource,
          Scaleway!LogToken, Scaleway!P, Scaleway!Urn, Scaleway!Res, Scaleway!ResWith
  <1>2. /\ Sound(pr, Scaleway!Res(Scaleway!Namespace, {}))
        /\ Sound(pr, Scaleway!Res(Scaleway!PrivateNetwork, {}))
        /\ Sound(pr, Scaleway!Res(Scaleway!Registry, {}))
        /\ Sound(pr, Scaleway!Res(Scaleway!LogSource, {}))
        /\ Sound(pr, Scaleway!Res(Scaleway!LogToken, {}))
    BY <1>1 DEF Special, Rounded
  <1> HIDE DEF Scaleway!Res
  <1>3. /\ Piece(pr, <<Scaleway!Res(Scaleway!Namespace, {}), Scaleway!Res(Scaleway!PrivateNetwork, {})>>)
        /\ Piece(pr, <<Scaleway!Res(Scaleway!Registry, {})>>)
        /\ Piece(pr, <<Scaleway!Res(Scaleway!LogSource, {}), Scaleway!Res(Scaleway!LogToken, {})>>)
    BY <1>2, Some
  <1>4. Piece(pr, Scaleway!When(Scaleway!HasBuild(pr), <<Scaleway!Res(Scaleway!Registry, {})>>))
    BY <1>3, None DEF Scaleway!When
  <1> QED BY <1>3, <1>4, Then DEF Scaleway!InfraPlan

\* What is registered under the component of a service, with its main resource.
LEMMA ScalewayChildren ==
  ASSUME NEW name, NEW pr, NEW cfg, NEW order, ~Scaleway!ServiceFails(name, pr, cfg)
  PROVE  LET children == Scaleway!Children(name, pr, cfg, order)
         IN  Piece(pr, children) /\ \E r \in ToSet(children) : r.urn = Scaleway!Main(name, pr)
  <1> DEFINE svc == pr.services[name]
             plain(type) == \A parent, n, after : 
               Sound(pr, [urn |-> <<parent, type, n>>, after |-> after, args |-> [of |-> "none"]])
  <1>1. \A type : type \notin Special => plain(type)
    BY Plain
  <1>2. CASE svc.kind = "postgres"
    <2> DEFINE q == Scaleway!CreatePostgres(name, svc, cfg)
    <2> USE DEF Scaleway!CreatePostgres
    <2>1. IsASequence(q) /\ Len(q) = 3
      BY Tuples
    <2>2. q[1].urn = Scaleway!PgInstance(name) /\ Sound(pr, q[2]) /\ Sound(pr, q[3])
      BY <1>1 DEF Special, Rounded, Scaleway!Res, Scaleway!ResWith,
         Scaleway!PgDatabase, Scaleway!PgPrivilege, Scaleway!Urn
    <2>3. Sound(pr, q[1])
      BY Fitting, ScalewaySizes, ScalewayAlike
      DEF Special, Rounded, Scaleway!ResWith, Scaleway!PgInstance, Scaleway!Urn
    <2> HIDE DEF q
    <2>4. Piece(pr, q) /\ q[1] \in ToSet(q)
      <3>1. Len(q) <= 5 /\ ~(Len(q) >= 4) /\ Len(q) # 5 /\ 1 \in 1 .. Len(q)
        BY <2>1
      <3>2. Piece(pr, q) /\ \A i \in 1 .. Len(q) : q[i] \in ToSet(q)
        BY <2>1, <2>2, <2>3, <3>1, Made
      <3> QED BY <3>1, <3>2
    <2> QED BY <1>2, <2>2, <2>4 DEF q, Scaleway!Children, Scaleway!Main
  <1>3. CASE svc.kind = "redis"
    <2> DEFINE q == Scaleway!CreateRedis(name, svc)
    <2> USE DEF Scaleway!CreateRedis
    <2>1. IsASequence(q) /\ Len(q) = 1
      BY Tuples
    <2>2. q[1].urn = Scaleway!RedisCluster(name)
      BY DEF Scaleway!ResWith
    <2>3. Sound(pr, q[1])
      BY Fitting, ScalewaySizes, ScalewayAlike
      DEF Special, Rounded, Scaleway!ResWith, Scaleway!RedisCluster, Scaleway!Urn
    <2> HIDE DEF q
    <2>4. Piece(pr, q) /\ q[1] \in ToSet(q)
      <3>1. Len(q) <= 5 /\ ~(Len(q) >= 2) /\ ~(Len(q) >= 3) /\ ~(Len(q) >= 4) /\ Len(q) # 5
            /\ 1 \in 1 .. Len(q)
        BY <2>1
      <3>2. Piece(pr, q) /\ \A i \in 1 .. Len(q) : q[i] \in ToSet(q)
        BY <2>1, <2>3, <3>1, Made
      <3> QED BY <3>1, <3>2
    <2> QED BY <1>3, <2>2, <2>4 DEF q, Scaleway!Children, Scaleway!Main
  <1>4. CASE svc.kind \notin {"postgres", "redis"}
    <2> DEFINE image == Scaleway!BuildServiceImage(name, svc, cfg)
               app == Scaleway!CreateContainerService(name, svc, pr, order)
               domain == <<Scaleway!Res(Scaleway!Urn("containers.Container", "containers.Domain",
                             name \o <<"domain">>), {Scaleway!Container(name)})>>
    <2>1. svc.build => Piece(pr, image)
      <3> SUFFICES ASSUME svc.build PROVE Piece(pr, image)
        OBVIOUS
      <3>1. cfg.machines \in DOMAIN BuildInstanceFamilies
        BY <1>4, ScalewayAlike DEF Scaleway!ServiceFails
      <3>2. Len(image) = 1 /\ image = <<image[1]>>
        BY DEF Scaleway!BuildServiceImage
      <3>3. Sound(pr, image[1])
        BY <3>1, Fitting, ScalewaySizes, ScalewayAlike
        DEF Special, Rounded, Scaleway!BuildServiceImage, Scaleway!ResWith, Scaleway!BuildUrn,
            Scaleway!S, Scaleway!Urn
      <3> HIDE DEF image
      <3> QED BY <3>2, <3>3, Some
    <2>2. Piece(pr, Scaleway!GetServiceImage(name, svc, cfg))
      BY <2>1, None DEF Scaleway!GetServiceImage, Scaleway!When
    <2>3. Piece(pr, Scaleway!When(svc.domain # << >>, domain))
      <3>1. Piece(pr, domain)
        BY <1>1, Some DEF Special, Rounded, Scaleway!Res, Scaleway!ResWith, Scaleway!Urn
      <3> HIDE DEF domain
      <3> QED BY <3>1, None DEF Scaleway!When
    <2>4. Piece(pr, app) /\ \E r \in ToSet(app) : r.urn = Scaleway!Container(name)
      <3>1. PICK r : /\ app = <<r>> \o Scaleway!When(svc.domain # << >>, domain)
                     /\ r.urn = Scaleway!Container(name) /\ Sound(pr, r)
        BY Unsized DEF Special, Rounded, Scaleway!CreateContainerService, Scaleway!ResWith,
           Scaleway!Container, Scaleway!S, Scaleway!Urn
      <3>2. Piece(pr, <<r>>) /\ r \in ToSet(<<r>>)
        BY <3>1, Some, Literals
      <3> QED BY <2>3, <3>1, <3>2, Then, ConcatSequence DEF Piece
    <2> HIDE DEF app
    <2>5. /\ Piece(pr, Scaleway!GetServiceImage(name, svc, cfg) \o app)
          /\ ToSet(app) \subseteq ToSet(Scaleway!GetServiceImage(name, svc, cfg) \o app)
      BY <2>2, <2>4, Then, ConcatSequence DEF Piece
    <2>6. /\ Scaleway!Children(name, pr, cfg, order)
               = Scaleway!GetServiceImage(name, svc, cfg) \o app
          /\ Scaleway!Main(name, pr) = Scaleway!Container(name)
      BY <1>4 DEF app, Scaleway!Children, Scaleway!Main
    <2> QED BY <2>4, <2>5, <2>6
  <1> QED BY <1>2, <1>3, <1>4

\* All of a service that does not fail: its main resource leads to those it depends on.
LEMMA ScalewayServicePlan ==
  ASSUME NEW pr, NEW cfg, NEW order, NEW name, ~Scaleway!ServiceFails(name, pr, cfg),
         \A d \in pr.services[name].needs : ~Scaleway!ServiceFails(d, pr, cfg)
  PROVE  LET p == Scaleway!ServicePlan(name, pr, cfg, order)
         IN  /\ Piece(pr, p)
             /\ \A d \in pr.services[name].needs : Leads(p, Scaleway!Main(name, pr), Scaleway!Main(d, pr))
  <1> DEFINE svc == pr.services[name]
             comp == Scaleway!Component(name, svc)
             deps == Scaleway!Deps(name, pr, cfg, order)
             children == Scaleway!Children(name, pr, cfg, order)
             adopted == Adopts(children, comp)
             head == Scaleway!Res(comp, deps)
             front == <<head>>
  <1>1. Scaleway!ServicePlan(name, pr, cfg, order) = front \o adopted
    BY Zenon DEF Scaleway!ServicePlan, Adopts
  <1>2. /\ head.urn = comp /\ head.after = deps
        /\ Piece(pr, front) /\ head \in ToSet(front)
    <2>1. Sound(pr, head)
      BY Plain DEF Special, Rounded, Scaleway!Component, Scaleway!P, Scaleway!Urn, Scaleway!Res, Scaleway!ResWith
    <2>2. head.urn = comp /\ head.after = deps
      BY DEF Scaleway!Res, Scaleway!ResWith
    <2> HIDE DEF head
    <2> QED BY <2>1, <2>2, Some, Literals
  <1>3. Piece(pr, children) /\ \E r \in ToSet(children) : r.urn = Scaleway!Main(name, pr)
    BY ScalewayChildren
  <1>4. /\ Piece(pr, adopted)
        /\ \E s \in ToSet(adopted) : s.urn = Scaleway!Main(name, pr) /\ comp \in s.after
    <2>1. TypeOf(comp) # "ecs.TaskDefinition"
      BY DEF Scaleway!Component, Scaleway!P, Scaleway!Urn, TypeOf
    <2> HIDE DEF children, comp
    <2>2. Piece(pr, adopted) /\ Referring(children, adopted, comp)
      BY <2>1, <1>3, Adopted
    <2> HIDE DEF adopted
    <2> QED BY <1>3, <2>2 DEF Referring
  <1>5. \A d \in pr.services[name].needs : Scaleway!Main(d, pr) \in deps
    <2> SUFFICES ASSUME NEW d \in pr.services[name].needs PROVE Scaleway!Main(d, pr) \in deps
      OBVIOUS
    <2> DEFINE q == Scaleway!Children(d, pr, cfg, order)
    <2>1. Piece(pr, q) /\ \E r \in ToSet(q) : r.urn = Scaleway!Main(d, pr)
      BY ScalewayChildren
    <2>2. Scaleway!Registered(q) \subseteq deps
      BY DEF Scaleway!Deps
    <2> HIDE DEF q, deps
    <2> QED BY <2>1, <2>2 DEF Scaleway!Registered, ToSet
  <1> HIDE DEF svc, comp, deps, children, adopted, head, front
  <1>6. Piece(pr, front \o adopted)
    BY <1>2, <1>4, Then
  <1>7. ASSUME NEW d \in pr.services[name].needs
        PROVE  Leads(front \o adopted, Scaleway!Main(name, pr), Scaleway!Main(d, pr))
    <2>1. PICK s \in ToSet(adopted) : s.urn = Scaleway!Main(name, pr) /\ comp \in s.after
      BY <1>4
    <2>2. Scaleway!Main(d, pr) \in head.after /\ head.urn \in s.after
      BY <1>2, <1>5, <2>1
    <2>3. IsASequence(front) /\ IsASequence(adopted)
      BY <1>2, <1>4 DEF Piece
    <2>4. Leads(front \o adopted, s.urn, Scaleway!Main(d, pr))
      BY <1>2, <2>2, <2>3, LeadsOver
    <2> QED BY <2>1, <2>4
  <1> QED BY <1>1, <1>6, <1>7

-----------------------------------------------------------------------------
(* Azure.                                                                  *)

\* What Azure offers fits.
LEMMA AzureSizes ==
  /\ \A asked, tier : Fits(PostgresFlexibleSku(asked, tier))
  /\ \A memory : Fits(SelectEnterpriseSkuName(memory))
  /\ \A asked : Fits(ContainerAppCpuMemory(asked))
  /\ \A asked : Fits(VirtualMachineSize(asked))
  <1>1. IsASequence(PgBurstable) /\ IsASequence(PgGeneral) /\ IsASequence(PgMemory)
    <2>1. IsASequence(PgBurstable)
      BY DEF PgBurstable, IsASequence, ToSet
    <2>2. /\ IsASequence(<<1, 2, 4, 8, 16, 24, 32, 48>>) /\ IsASequence(<<1, 2, 4, 8, 10, 16, 24, 32>>)
          /\ IsASequence(<<<<9600, 688128>>>>)
      BY DEF IsASequence, ToSet
    <2> QED BY <2>1, <2>2, TimesIsASequence, ConcatSequence DEF PgGeneral, PgMemory
  <1>2. \A tier : IsASequence(Searched(TierCatalogs, tier))
    <2>1. \A tier : \/ Searched(TierCatalogs, tier) = FlattenSeq(<<PgBurstable, PgGeneral, PgMemory>>)
                    \/ Searched(TierCatalogs, tier) = FlattenSeq(<<PgGeneral, PgMemory>>)
                    \/ Searched(TierCatalogs, tier) = FlattenSeq(<<PgMemory>>)
      BY DEF Searched, TierCatalogs
    <2>2. /\ IsASequence(FlattenSeq(<<PgBurstable, PgGeneral, PgMemory>>))
          /\ IsASequence(FlattenSeq(<<PgGeneral, PgMemory>>)) /\ IsASequence(FlattenSeq(<<PgMemory>>))
      BY <1>1, Shelves
    <2> QED BY <2>1, <2>2
  <1>3. IsASequence(EnterpriseSkus)
    <2>1. 9 \in Nat /\ EnterpriseSkus = [i \in 1 .. 9 |-> EnterpriseSkus[i]]
      BY DEF EnterpriseSkus
    <2> QED BY <2>1, MapSequence
  <1>4. IsASequence(ContainerAppTiers)
    <2> DEFINE f == [i \in 1 .. 8 |-> i]
    <2>1. 8 \in Nat /\ f = [i \in 1 .. 8 |-> f[i]]
      OBVIOUS
    <2>2. ContainerAppTiers = Times(<<25, 512>>, f)
      BY DEF ContainerAppTiers
    <2> HIDE DEF f
    <2>3. IsASequence(f)
      BY <2>1, MapSequence
    <2> QED BY <2>2, <2>3, TimesIsASequence
  <1>5. IsASequence(VmSizes)
    <2>1. IsASequence(<<<<100, 2048>>, <<200, 4096>>>>) /\ IsASequence(Doubling(<<200, 8192>>, 4))
      <3>1. IsASequence(<<<<100, 2048>>, <<200, 4096>>>>)
        BY DEF IsASequence, ToSet
      <3> QED BY <3>1, DoublingIsASequence
    <2> QED BY <2>1, ConcatSequence DEF VmSizes
  <1>6. \A asked, tier : Fits(PostgresFlexibleSku(asked, tier))
    BY <1>2, Chosen DEF PostgresFlexibleSku
  <1>7. \A memory : Fits(SelectEnterpriseSkuName(memory))
    BY <1>3, Chosen DEF SelectEnterpriseSkuName
  <1>8. /\ \A asked : Fits(ContainerAppCpuMemory(asked)) /\ Fits(VirtualMachineSize(asked))
    BY <1>4, <1>5, Chosen DEF ContainerAppCpuMemory, VirtualMachineSize
  <1> QED BY <1>6, <1>7, <1>8

\* The operators of Compose, Plan and Sizes are the same inside AzureProject.
LEMMA AzureAlike ==
  /\ \A s : Azure!FlattenSeq(s) = FlattenSeq(s) /\ Azure!ToSet(s) = ToSet(s) /\ Azure!InOrder(s) = InOrder(s)
  /\ \A asked, tier : Azure!PostgresFlexibleSku(asked, tier) = PostgresFlexibleSku(asked, tier)
  /\ \A memory : Azure!SelectEnterpriseSkuName(memory) = SelectEnterpriseSkuName(memory)
  /\ \A asked : Azure!ContainerAppCpuMemory(asked) = ContainerAppCpuMemory(asked)
  /\ \A asked : Azure!VirtualMachineSize(asked) = VirtualMachineSize(asked)
  /\ \A svc : Azure!IsManagedService(svc) = IsManagedService(svc)
  <1>1. \A s : Azure!FlattenSeq(s) = FlattenSeq(s)
    BY DEF FlattenSeq, Azure!FlattenSeq
  <1>2. \A s : Azure!ToSet(s) = ToSet(s) /\ Azure!InOrder(s) = InOrder(s)
    BY DEF ToSet, InOrder, SetToSeq, IsInjective, Cardinality, Azure!ToSet, Azure!InOrder, Azure!SetToSeq,
       Azure!IsInjective, Azure!Cardinality
  <1>3. /\ \A a, c, f : Azure!Fit(a, c, f) = Fit(a, c, f)
        /\ \A c : Azure!Last(c) = Last(c)
    BY DEF Fit, FirstMatch, SelectInSeq, Min, Covers, ToSet, Last, Azure!Fit, Azure!FirstMatch,
       Azure!SelectInSeq, Azure!Min, Azure!Covers, Azure!ToSet, Azure!Last
  <1>4. \A first, factors : Azure!Times(first, factors) = Times(first, factors)
    BY DEF Times, Azure!Times
  <1>5. Azure!PgBurstable = PgBurstable /\ Azure!PgGeneral = PgGeneral /\ Azure!PgMemory = PgMemory
    <2>1. Azure!PgBurstable = PgBurstable
      BY DEF PgBurstable, Azure!PgBurstable
    <2>2. Azure!PgGeneral = PgGeneral
      BY <1>4 DEF PgGeneral, Azure!PgGeneral
    <2>3. Azure!PgMemory = PgMemory
      <3> DEFINE first == <<200, 16384>>
                 factors == <<1, 2, 4, 8, 10, 16, 24, 32>>
                 largest == <<<<9600, 688128>>>>
      <3>1. /\ PgMemory = Times(first, factors) \o largest
            /\ Azure!PgMemory = Azure!Times(first, factors) \o largest
        BY DEF PgMemory, Azure!PgMemory
      <3> HIDE DEF first, factors, largest
      <3> QED BY <1>4, <3>1
    <2> QED BY <2>1, <2>2, <2>3
  <1>6. Azure!TierCatalogs = TierCatalogs
    BY <1>5 DEF TierCatalogs, Azure!TierCatalogs
  <1>7. \A catalogues, tier : Azure!Searched(catalogues, tier) = Searched(catalogues, tier)
    BY <1>1 DEF Searched, Azure!Searched
  <1>8. \A asked, tier : Azure!PostgresFlexibleSku(asked, tier) = PostgresFlexibleSku(asked, tier)
    BY <1>3, <1>6, <1>7 DEF PostgresFlexibleSku, Azure!PostgresFlexibleSku
  <1>9. Azure!EnterpriseSkus = EnterpriseSkus
    BY DEF EnterpriseSkus, Azure!EnterpriseSkus
  <1>10. \A memory : Azure!SelectEnterpriseSkuName(memory) = SelectEnterpriseSkuName(memory)
    BY <1>3, <1>9 DEF SelectEnterpriseSkuName, Azure!SelectEnterpriseSkuName
  <1>11. Azure!ContainerAppTiers = ContainerAppTiers /\ Azure!VmSizes = VmSizes
    BY <1>4 DEF ContainerAppTiers, VmSizes, Doubling, Azure!ContainerAppTiers, Azure!VmSizes, Azure!Doubling
  <1>12. /\ \A asked : Azure!ContainerAppCpuMemory(asked) = ContainerAppCpuMemory(asked)
         /\ \A asked : Azure!VirtualMachineSize(asked) = VirtualMachineSize(asked)
    BY <1>3, <1>11 DEF ContainerAppCpuMemory, VirtualMachineSize, Azure!ContainerAppCpuMemory,
       Azure!VirtualMachineSize
  <1>13. \A svc : Azure!IsManagedService(svc) = IsManagedService(svc)
    BY DEF IsManagedService, Azure!IsManagedService
  <1> QED BY <1>1, <1>2, <1>8, <1>10, <1>12, <1>13

\* The resources AzureProject makes are sound unless their type is special.
LEMMA AzureMade ==
  ASSUME NEW pr
  PROVE  /\ \A parent, type, name, after : type \notin Special =>
              /\ Sound(pr, Azure!Res(Azure!Urn(parent, type, name), after))
              /\ Sound(pr, Azure!Plainly(Azure!Urn(parent, type, name), after))
         /\ \A parent, type, name, after, args : type \notin Special /\ "fit" \notin DOMAIN args =>
              /\ Sound(pr, Azure!ResWith(Azure!Urn(parent, type, name), after, args))
              /\ Sound(pr, Azure!InGroup(Azure!Urn(parent, type, name), after, args))
         /\ \A parent, type, name, after, args : type \notin Special /\ Fits(args.fit) =>
              Sound(pr, Azure!InGroup(Azure!Urn(parent, type, name), after, args))
         /\ \A cond, p : (cond => Piece(pr, p)) => Piece(pr, Azure!When(cond, p))
  <1>1. \A cond, p : (cond => Piece(pr, p)) => Piece(pr, Azure!When(cond, p))
    BY None DEF Azure!When
  <1> QED BY <1>1, Plain, Unsized, Fitting
      DEF Azure!Res, Azure!ResWith, Azure!Urn, Azure!InGroup, Azure!Plainly

\* A probe with a test gives the start period, and then the failures, that it is asked
\* for.
LEMMA AzureProbe ==
  ASSUME NEW health \in [{"start", "interval", "timeout", "retries"} -> Nat], NEW probe,
         probe = Azure!HttpProbe(health)
  PROVE  BudgetSound(health, probe)
  <1> DEFINE start == health.start
             period == Azure!PeriodOf(health)
             failures == Azure!ThresholdOf(health)
             extra == Azure!ExtraFailures(health)
  <1>1. /\ start \in Nat /\ period \in Nat \ {0} /\ failures \in Nat
        /\ failures = IF health.retries > 0 THEN health.retries ELSE 3
    BY DEF Azure!PeriodOf, Azure!ThresholdOf
  <1>2. /\ probe.delay = IF start > 60 THEN 60 ELSE start
        /\ probe.period = period
        /\ probe.threshold
             = IF start > 60 THEN (IF failures + extra > 10 THEN 10 ELSE failures + extra) ELSE failures
    BY DEF Azure!HttpProbe, Azure!AtMost, Azure!MaxDelay, Azure!MaxThreshold
  <1>3. extra = (start - 60 + period - 1) \div period
    BY DEF Azure!ExtraFailures, Azure!MaxDelay
  <1> HIDE DEF start, period, failures, extra
  <1>4. CASE ~(start > 60)
    <2>1. /\ probe.delay = start /\ probe.period = period /\ probe.threshold = failures
      BY <1>2, <1>4
    <2>2. failures * period \in Nat
      BY <1>1
    <2> QED BY <1>1, <2>1, <2>2 DEF BudgetSound, start, failures
  <1>5. CASE start > 60 /\ probe.threshold < 10
    <2> DEFINE n == start - 60 + period - 1
    <2>1. n \in Nat /\ n - period + 1 = start - 60
      BY <1>1, <1>5
    <2>2. extra = n \div period
      BY <1>3
    <2> HIDE DEF n
    <2>3. extra \in Nat /\ extra * period > n - period
      BY <1>1, <2>1, <2>2
    <2>4. /\ probe.delay = 60 /\ probe.period = period
          /\ probe.threshold = failures + extra
      BY <1>1, <1>2, <1>5, <2>3
    <2>5. (failures + extra) * period = failures * period + extra * period
          /\ failures * period \in Nat /\ extra * period \in Nat
      BY <1>1, <2>3
    <2>6. extra * period >= start - 60
      BY <1>1, <2>1, <2>3, <2>5
    <2>7. 60 + (failures + extra) * period >= start + failures * period
      BY <1>1, <2>5, <2>6
    <2> QED BY <1>1, <2>4, <2>7 DEF BudgetSound, start, failures
  <1>6. CASE ~(probe.threshold < 10)
    BY <1>6 DEF BudgetSound
  <1> QED BY <1>4, <1>5, <1>6

\* The project's shared infrastructure.
LEMMA AzureInfra ==
  ASSUME NEW pr, NEW prj, NEW cfg
  PROVE  Piece(pr, Azure!InfraPlan(prj, cfg))
  <1> USE DEF Special, Rounded, Azure!P
  <1>1. Piece(pr, Azure!CreateNetworking)
    <2> DEFINE uses == <<"apps", "postgres", "endpoints", "compute">>
               f == [i \in DOMAIN uses |-> <<Azure!Plainly(Azure!SubnetOf(uses[i]), {Azure!VNet})>>]
    <2>1. IsASequence(uses)
      BY Tuples
    <2>2. /\ Azure!CreateNetworking = <<Azure!Plainly(Azure!VNet, {})>> \o FlattenSeq(f)
          /\ f = [i \in DOMAIN uses |-> f[i]]
      BY AzureAlike DEF Azure!CreateNetworking, Azure!ForEach
    <2> HIDE DEF uses
    <2>3. \A i \in DOMAIN uses : Piece(pr, f[i])
      BY AzureMade, Some DEF Azure!SubnetOf
    <2>4. Piece(pr, <<Azure!Plainly(Azure!VNet, {})>>)
      BY AzureMade, Some DEF Azure!VNet
    <2> HIDE DEF f
    <2>5. Piece(pr, FlattenSeq(f))
      BY <2>1, <2>2, <2>3, Each
    <2> QED BY <2>2, <2>4, <2>5, Then
  <1>2. Piece(pr, Azure!CreateDnsZones(prj))
    <2>1. \A name : Piece(pr, Azure!LinkedZone(name))
      BY AzureMade, Some DEF Azure!LinkedZone, Azure!PrivateZone, Azure!VNetLink
    <2>2. \A kind, name : Piece(pr, Azure!When(Azure!HasKind(prj, kind), Azure!LinkedZone(name)))
      BY <2>1, AzureMade
    <2> QED BY <2>2, Then DEF Azure!CreateDnsZones
  <1>3. Piece(pr, Azure!CreateManagedEnvironment(prj))
    <2>1. \A a, b, c, d :
            Piece(pr, <<Azure!Plainly(Azure!Workspace, a), Azure!Plainly(Azure!Environment, b),
                        Azure!Res(Azure!LogSetting, c), Azure!Plainly(Azure!LogTable, d)>>)
      BY AzureMade, Some DEF Azure!Workspace, Azure!Environment, Azure!LogSetting, Azure!LogTable
    <2> QED BY <2>1 DEF Azure!CreateManagedEnvironment
  <1>4. Piece(pr, Azure!EnsureFrontDoor(prj))
    BY AzureMade, Some DEF Azure!EnsureFrontDoor, Azure!Profile, Azure!Endpoint
  <1>5. Piece(pr, Azure!CreateLlmPrivateEndpoint)
    <2> DEFINE zones == <<"cs", "openai">>
               f == [i \in DOMAIN zones |->
                       <<Azure!Plainly(Azure!LlmZone(zones[i]), {}),
                         Azure!Plainly(Azure!LlmLink(zones[i]), {Azure!LlmZone(zones[i]), Azure!VNet})>>]
               first == <<Azure!Plainly(Azure!LlmEndpoint, {Azure!LlmAccount, Azure!SubnetOf("endpoints")})>>
               last == <<Azure!Plainly(Azure!LlmZoneGroup,
                           {Azure!LlmEndpoint, Azure!LlmZone("cs"), Azure!LlmZone("openai")})>>
    <2>1. IsASequence(zones)
      BY Tuples
    <2>2. /\ Azure!CreateLlmPrivateEndpoint = (first \o FlattenSeq(f)) \o last
          /\ f = [i \in DOMAIN zones |-> f[i]]
      BY AzureAlike DEF Azure!CreateLlmPrivateEndpoint, Azure!ForEach
    <2> HIDE DEF zones
    <2>3. \A i \in DOMAIN zones : Piece(pr, f[i])
      BY AzureMade, Some DEF Azure!LlmZone, Azure!LlmLink
    <2>4. Piece(pr, first) /\ Piece(pr, last)
      BY AzureMade, Some DEF Azure!LlmEndpoint, Azure!LlmZoneGroup
    <2> HIDE DEF f, first, last
    <2>5. Piece(pr, FlattenSeq(f))
      BY <2>1, <2>2, <2>3, Each
    <2> QED BY <2>2, <2>4, <2>5, Then
  <1>6. Piece(pr, Azure!CreateLlmInfra(prj))
    <2>1. \A suffix, public :
            Sound(pr, Azure!InGroup(Azure!LlmAccount, {suffix}, [public |-> public]))
      BY AzureMade DEF Azure!LlmAccount
    <2>2. Sound(pr, Azure!Res(Azure!Urn("Project", "random.String", <<"project", "subdomain">>), {}))
      BY AzureMade
    <2>3. Piece(pr, Azure!When(Azure!Networked(prj), Azure!CreateLlmPrivateEndpoint))
      BY <1>5, AzureMade
    <2>4. \E suffix, public :
            Azure!CreateLlmInfra(prj)
              = <<Azure!Res(Azure!Urn("Project", "random.String", <<"project", "subdomain">>), {}),
                  Azure!InGroup(Azure!LlmAccount, {suffix}, [public |-> public])>>
                \o Azure!When(Azure!Networked(prj), Azure!CreateLlmPrivateEndpoint)
      BY Zenon DEF Azure!CreateLlmInfra
    <2>5. \A suffix, public :
            Piece(pr, <<Azure!Res(Azure!Urn("Project", "random.String", <<"project", "subdomain">>), {}),
                        Azure!InGroup(Azure!LlmAccount, {suffix}, [public |-> public])>>)
      BY <2>1, <2>2, Some
    <2> QED BY <2>3, <2>4, <2>5, Then
  <1>7. \A name, n, after :
          Piece(pr, Azure!Assignment(Azure!P("authorization.RoleAssignment", name), n, after))
    BY AzureMade, Some DEF Azure!Assignment
  <1>8. Piece(pr, Azure!CreateBuildInfra)
    <2>1. Piece(pr, <<Azure!Plainly(Azure!Registry, {}), Azure!Plainly(Azure!AcrIdentity, {})>>)
      BY AzureMade, Some DEF Azure!Registry, Azure!AcrIdentity
    <2>2. Piece(pr, Azure!Assignment(Azure!AcrPull, Azure!AcrIdentity, {Azure!Registry}))
      BY <1>7 DEF Azure!AcrPull
    <2> QED BY <2>1, <2>2, Then DEF Azure!CreateBuildInfra
  <1>9. Piece(pr, Azure!EnsureKeyVault)
    <2>1. Piece(pr, <<Azure!Plainly(Azure!Vault, {}), Azure!Plainly(Azure!KvIdentity, {})>>)
      BY AzureMade, Some DEF Azure!Vault, Azure!KvIdentity
    <2>2. Piece(pr, Azure!Assignment(Azure!KvReader, Azure!KvIdentity, {Azure!Vault}))
      BY <1>7 DEF Azure!KvReader
    <2> QED BY <2>1, <2>2, Then DEF Azure!EnsureKeyVault
  <1> DEFINE q1 == <<Azure!Res(Azure!Group, {})>>
             q2 == Azure!EnsureDomainZone(cfg)
             q3 == Azure!When(Azure!Networked(prj), Azure!CreateNetworking \o Azure!CreateDnsZones(prj))
             q4 == Azure!When(Azure!HasContainerApp(prj), Azure!CreateManagedEnvironment(prj))
             q5 == Azure!EnsureFrontDoor(prj)
             q6 == Azure!When(Azure!HasKind(prj, "llm"), Azure!CreateLlmInfra(prj))
             q7 == Azure!When(Azure!HasBuild(prj), Azure!CreateBuildInfra)
             q8 == Azure!When(cfg.vault = "found", Azure!EnsureKeyVault)
  <1>10. Azure!InfraPlan(prj, cfg) = ((((((q1 \o q2) \o q3) \o q4) \o q5) \o q6) \o q7) \o q8
    BY DEF Azure!InfraPlan, Azure!SetupSharedInfra
  <1>11. Piece(pr, q1) /\ Piece(pr, q2)
    <2>1. Piece(pr, q1)
      BY AzureMade, Some DEF Azure!Group
    <2>2. Piece(pr, <<Azure!Plainly(Azure!DomainZone, {})>>)
      BY AzureMade, Some DEF Azure!DomainZone
    <2> QED BY <2>1, <2>2, AzureMade DEF Azure!EnsureDomainZone
  <1>12. Piece(pr, q3)
    <2>1. Piece(pr, Azure!CreateNetworking \o Azure!CreateDnsZones(prj))
      BY <1>1, <1>2, Then
    <2> QED BY <2>1, AzureMade
  <1>13. Piece(pr, q4) /\ Piece(pr, q5) /\ Piece(pr, q6) /\ Piece(pr, q7) /\ Piece(pr, q8)
    BY <1>3, <1>4, <1>6, <1>8, <1>9, AzureMade
  <1> HIDE DEF q1, q2, q3, q4, q5, q6, q7, q8
  <1> DEFINE front == ((q1 \o q2) \o q3) \o q4
  <1>14. Piece(pr, front)
    BY <1>11, <1>12, <1>13, Then
  <1>15. Azure!InfraPlan(prj, cfg) = (((front \o q5) \o q6) \o q7) \o q8
    BY <1>10
  <1> HIDE DEF front
  <1> QED BY <1>13, <1>14, <1>15, Then

\* A record set.
LEMMA AzureRecords ==
  ASSUME NEW pr
  PROVE  \A h, t, host, type, after :
           Piece(pr, Azure!RecordSet(Azure!RecordUrn(h, t), host, type, after))
  BY AzureMade, Some DEF Special, Rounded, Azure!RecordSet, Azure!RecordUrn, Azure!S

\* The host names of a service are sequences.
LEMMA AzureHosts ==
  ASSUME NEW svc, Readable(svc)
  PROVE  IsASequence(Azure!WildcardHostnames(svc)) /\ IsASequence(Azure!ByodNames(svc))
  <1> DEFINE hosts == Azure!ByodHostnames(svc)
             f == [i \in DOMAIN hosts |-> IF Azure!IsWildcardHost(hosts[i]) THEN <<hosts[i]>> ELSE << >>]
             g == [i \in DOMAIN hosts |-> IF ~Azure!IsWildcardHost(hosts[i]) THEN <<hosts[i]>> ELSE << >>]
  <1>1. IsASequence(hosts)
    <2>1. IsASequence(svc.aliases) /\ IsASequence(<<svc.domain>>) /\ IsASequence(<< >>)
      BY Tuples DEF Readable
    <2> QED BY <2>1, ConcatSequence DEF Azure!ByodHostnames
  <1>2. /\ Azure!WildcardHostnames(svc) \in {FlattenSeq(f), << >>} /\ f = [i \in DOMAIN hosts |-> f[i]]
        /\ Azure!ByodNames(svc) = FlattenSeq(g) /\ g = [i \in DOMAIN hosts |-> g[i]]
    BY AzureAlike DEF Azure!WildcardHostnames, Azure!ByodNames, Azure!Selected, Azure!When
  <1>3. /\ \A i \in DOMAIN hosts : f[i] = <<hosts[i]>> \/ f[i] = << >>
        /\ \A i \in DOMAIN hosts : g[i] = <<hosts[i]>> \/ g[i] = << >>
    OBVIOUS
  <1> HIDE DEF hosts, f, g
  <1>4. IsASequence(FlattenSeq(f)) /\ IsASequence(FlattenSeq(g)) /\ IsASequence(<< >>)
    BY <1>1, <1>2, <1>3, Filtered, Tuples
  <1> QED BY <1>2, <1>4

\* The records of a container app and the custom domains it is given.
LEMMA AzureAppDomains ==
  ASSUME NEW pr, NEW name, NEW svc, NEW cfg, Readable(svc)
  PROVE  Piece(pr, Azure!CreateAppDomains(name, svc, cfg))
  <1> USE DEF Special, Rounded
  <1>1. Piece(pr, Azure!CreateCustomDomain(name, svc, cfg))
    <2>1. \A use : \E h, t : Azure!ServiceRecord(name, use) = Azure!RecordUrn(h, t)
      BY Zenon DEF Azure!ServiceRecord
    <2>2. \A use, host, type, after :
            Piece(pr, Azure!RecordSet(Azure!ServiceRecord(name, use), host, type, after))
      BY <2>1, AzureRecords
    <2>3. \A a, b, host, at, since, x, y :
            Piece(pr, Azure!RecordSet(Azure!ServiceRecord(name, a), host, x, at)
                      \o Azure!RecordSet(Azure!ServiceRecord(name, b), Azure!Asuid(host), y, since))
      BY <2>2, Then
    <2>4. \E host, after, since, cond :
            Azure!CreateCustomDomain(name, svc, cfg)
              = Azure!When(cond,
                  Azure!RecordSet(Azure!ServiceRecord(name, "cname"), host, "CNAME", after)
                  \o Azure!RecordSet(Azure!ServiceRecord(name, "asuid"), Azure!Asuid(host), "TXT", since))
      BY Zenon DEF Azure!CreateCustomDomain
    <2> QED BY <2>3, <2>4, AzureMade
  <1>2. Piece(pr, Azure!CreateByodDomain(name, svc, cfg))
    <2> DEFINE hosts == Azure!ByodNames(svc)
               Records(host) == Azure!When(Azure!ZoneOf(host, cfg) # << >>,
                                  Azure!CreateByodRecords(name, host, Azure!ZoneOf(host, cfg)))
               f == [i \in DOMAIN hosts |-> Records(hosts[i])]
    <2>1. \A host, zone : Piece(pr, Azure!CreateByodRecords(name, host, zone))
      <3> SUFFICES ASSUME NEW host, NEW zone PROVE Piece(pr, Azure!CreateByodRecords(name, host, zone))
        OBVIOUS
      <3>1. PICK type, after :
              Azure!CreateByodRecords(name, host, zone)
                = Azure!RecordSet(Azure!RecordUrn(host, type), host, type, after)
                  \o Azure!RecordSet(Azure!RecordUrn(Azure!Asuid(host), "TXT"), Azure!Asuid(host), "TXT",
                                     {Azure!App(name)})
        BY Zenon DEF Azure!CreateByodRecords
      <3>2. /\ Piece(pr, Azure!RecordSet(Azure!RecordUrn(host, type), host, type, after))
            /\ Piece(pr, Azure!RecordSet(Azure!RecordUrn(Azure!Asuid(host), "TXT"), Azure!Asuid(host), "TXT",
                                         {Azure!App(name)}))
        BY AzureRecords
      <3> QED BY <3>1, <3>2, Then
    <2>2. Azure!ForEach(hosts, LAMBDA host :
             Azure!When(Azure!ZoneOf(host, cfg) # << >>,
                        Azure!CreateByodRecords(name, host, Azure!ZoneOf(host, cfg)))) = FlattenSeq(f)
          /\ f = [i \in DOMAIN hosts |-> f[i]]
      BY AzureAlike DEF Azure!ForEach
    <2>3. \A host : Piece(pr, Records(host))
      BY <2>1, AzureMade
    <2>4. Azure!CreateByodDomain(name, svc, cfg) = Azure!When(Azure!HasIngressPorts(svc), FlattenSeq(f))
      BY <2>2 DEF Azure!CreateByodDomain
    <2> HIDE DEF Records
    <2>5. \A i \in DOMAIN hosts : Piece(pr, f[i])
      BY <2>3
    <2>6. IsASequence(hosts) /\ f = [i \in DOMAIN hosts |-> f[i]]
      BY AzureHosts
    <2> HIDE DEF f, hosts
    <2>7. Piece(pr, FlattenSeq(f))
      BY <2>5, <2>6, Each
    <2> QED BY <2>4, <2>7, AzureMade
  <1>3. Piece(pr, Azure!CreateWildcardDomain(name, svc, cfg))
    <2> DEFINE hosts == Azure!WildcardHostnames(svc)
               domains == [i \in DOMAIN hosts |-> Azure!AfdDomain(name, i - 1)]
               f == [i \in DOMAIN hosts |->
                       <<Azure!Plainly(domains[i], {Azure!Profile})>>
                       \o Azure!PublishValidation(name, hosts[i], domains[i], cfg)]
               origin(after) == <<Azure!Plainly(Azure!OriginGroup(name), {Azure!Profile}),
                           Azure!Plainly(Azure!S("cdn.AFDOrigin", name \o <<"origin">>), after)>>
               route(after, serves) == <<Azure!InGroup(Azure!S("cdn.Route", name \o <<"route">>), after,
                                           [serves |-> serves])>>
    <2>1. \A host, domain : Piece(pr, Azure!PublishValidation(name, host, domain, cfg))
      <3> SUFFICES ASSUME NEW host, NEW domain
                   PROVE  Piece(pr, Azure!PublishValidation(name, host, domain, cfg))
        OBVIOUS
      <3>1. PICK a, b, u, v, base, since, after :
              Azure!PublishValidation(name, host, domain, cfg)
                = Azure!When(Azure!Published(base, host, cfg),
                    Azure!RecordSet(Azure!RecordUrn(a, u), << <<"_dnsauth">> >> \o base, "TXT", since)
                    \o Azure!RecordSet(Azure!RecordUrn(b, v), host, "CNAME", after))
        BY Zenon DEF Azure!PublishValidation
      <3>2. /\ Piece(pr, Azure!RecordSet(Azure!RecordUrn(a, u), << <<"_dnsauth">> >> \o base, "TXT", since))
            /\ Piece(pr, Azure!RecordSet(Azure!RecordUrn(b, v), host, "CNAME", after))
        BY AzureRecords
      <3>3. Piece(pr, Azure!RecordSet(Azure!RecordUrn(a, u), << <<"_dnsauth">> >> \o base, "TXT", since)
                    \o Azure!RecordSet(Azure!RecordUrn(b, v), host, "CNAME", after))
        BY <3>2, Then
      <3> QED BY <3>1, <3>3, AzureMade
    <2>2. \A i : Piece(pr, <<Azure!Plainly(Azure!AfdDomain(name, i), {Azure!Profile})>>)
      BY AzureMade, Some DEF Azure!AfdDomain, Azure!S
    <2>3. \A i \in DOMAIN hosts : Piece(pr, f[i])
      BY <2>1, <2>2, Then
    <2>4. \A after, serves : Piece(pr, origin(after)) /\ Piece(pr, route(after, serves))
      BY AzureMade, Some DEF Azure!OriginGroup, Azure!S
    <2>5. \E cond, at, after, serves :
            Azure!CreateWildcardDomain(name, svc, cfg)
              = Azure!When(cond, (origin(at) \o FlattenSeq(f)) \o route(after, serves))
      <3>1. Azure!FlattenSeq(f) = FlattenSeq(f)
        BY AzureAlike
      <3> QED BY Zenon, <3>1 DEF Azure!CreateWildcardDomain
    <2>6. IsASequence(hosts) /\ f = [i \in DOMAIN hosts |-> f[i]]
      BY AzureHosts
    <2> HIDE DEF hosts, domains, f, origin, route
    <2>7. Piece(pr, FlattenSeq(f))
      BY <2>3, <2>6, Each
    <2>8. \A at, after, serves : Piece(pr, (origin(at) \o FlattenSeq(f)) \o route(after, serves))
      BY <2>4, <2>7, Then
    <2> QED BY <2>5, <2>8, AzureMade
  <1> QED BY <1>1, <1>2, <1>3, Then DEF Azure!CreateAppDomains

\* The databases, with their main resources, and the models.
LEMMA AzureManaged ==
  ASSUME NEW pr, NEW name, NEW svc, NEW cfg
  PROVE  /\ LET p == Azure!CreatePostgresFlexible(name, svc, cfg)
            IN  Piece(pr, p) /\ \E r \in ToSet(p) : r.urn = Azure!PgServer(name)
         /\ LET p == Azure!CreateRedisEnterprise(name, svc)
            IN  Piece(pr, p) /\ \E r \in ToSet(p) : r.urn = Azure!RedisCluster(name)
         /\ \A prj, order : Piece(pr, Azure!CreateLlmDeployment(svc, prj, order))
  <1> USE DEF Special, Rounded
  <1>1. \A type, n, after : type \notin Special =>
          /\ Sound(pr, Azure!Res(Azure!Pg(type, n), after))
          /\ Sound(pr, Azure!Plainly(Azure!Pg(type, n), after))
    BY AzureMade DEF Azure!Pg
  <1>2. LET p == Azure!CreatePostgresFlexible(name, svc, cfg)
        IN  Piece(pr, p) /\ \E r \in ToSet(p) : r.urn = Azure!PgServer(name)
    <2> DEFINE Server(after) == Azure!InGroup(Azure!PgServer(name), after,
                 [public |-> FALSE, fit |-> Azure!PostgresFlexibleSku(Azure!Asked(svc), cfg.tier)])
               suffix == Azure!Pg("random.String", name \o <<"server", "suffix">>)
               last == Azure!When("POSTGRES_DB" \in DOMAIN svc.env,
                         <<Azure!Plainly(Azure!PgDatabase(name), {Azure!PgServer(name)})>>)
    <2>1. \A after : Sound(pr, Server(after)) /\ Server(after).urn = Azure!PgServer(name)
      <3>1. Fits(Azure!PostgresFlexibleSku(Azure!Asked(svc), cfg.tier))
        BY AzureAlike, AzureSizes
      <3> QED BY <3>1, AzureMade DEF Azure!PgServer, Azure!Pg, Azure!InGroup, Azure!ResWith
    <2>2. PICK after :
            Azure!CreatePostgresFlexible(name, svc, cfg)
              = <<Azure!Res(suffix, {}), Server(after), Azure!Plainly(Azure!PgExtensions, {Azure!PgServer(name)}),
                  Azure!Plainly(Azure!PgNoTls, Azure!PgNoTlsAfter(name))>> \o last
      BY DEF Azure!CreatePostgresFlexible
    <2>3. Piece(pr, last)
      BY <1>1, Some, AzureMade DEF Azure!PgDatabase
    <2> DEFINE a == Azure!Res(suffix, {})
               b == Server(after)
               c == Azure!Plainly(Azure!PgExtensions, {Azure!PgServer(name)})
               d == Azure!Plainly(Azure!PgNoTls, Azure!PgNoTlsAfter(name))
    <2>4. Sound(pr, a) /\ Sound(pr, b) /\ Sound(pr, c) /\ Sound(pr, d) /\ b.urn = Azure!PgServer(name)
      BY <1>1, <2>1 DEF Azure!PgExtensions, Azure!PgNoTls
    <2> DEFINE front == <<a, b, c, d>>
    <2>5. Azure!CreatePostgresFlexible(name, svc, cfg) = front \o last
      BY <2>2
    <2> HIDE DEF a, b, c, d, last
    <2>6. Piece(pr, front) /\ b \in ToSet(front)
      <3>1. Piece(pr, front)
        BY <2>4, Some
      <3>2. ToSet(front) = {a, b, c, d}
        BY Four
      <3> QED BY <3>1, <3>2
    <2> HIDE DEF front
    <2>7. Piece(pr, front \o last) /\ b \in ToSet(front \o last)
      BY <2>3, <2>6, Keeps
    <2> QED BY <2>4, <2>5, <2>7
  <1>3. LET p == Azure!CreateRedisEnterprise(name, svc)
        IN  Piece(pr, p) /\ \E r \in ToSet(p) : r.urn = Azure!RedisCluster(name)
    <2> DEFINE a == Azure!InGroup(Azure!RedisCluster(name), {},
                 [public |-> FALSE, fit |-> Azure!SelectEnterpriseSkuName(Azure!GetMemoryMiB(svc))])
               b == Azure!Plainly(Azure!Urn("redis.RedisEnterprise", "redis.Database", name),
                                  {Azure!RedisCluster(name)})
               c == Azure!Plainly(Azure!RedisEndpoint(name),
                                  {Azure!SubnetOf("endpoints"), Azure!RedisCluster(name)})
               d == Azure!Plainly(Azure!RedisZoneGroup(name),
                                  {Azure!RedisEndpoint(name), Azure!PrivateZone("redis")})
    <2>1. Sound(pr, a) /\ a.urn = Azure!RedisCluster(name)
      <3>1. Fits(Azure!SelectEnterpriseSkuName(Azure!GetMemoryMiB(svc)))
        BY AzureAlike, AzureSizes
      <3> QED BY <3>1, AzureMade DEF Azure!RedisCluster, Azure!InGroup, Azure!ResWith
    <2>2. Sound(pr, b) /\ Sound(pr, c) /\ Sound(pr, d)
      BY AzureMade DEF Azure!RedisEndpoint, Azure!RedisZoneGroup
    <2>3. Azure!CreateRedisEnterprise(name, svc) = <<a, b, c, d>>
      BY DEF Azure!CreateRedisEnterprise
    <2> HIDE DEF a, b, c, d
    <2>4. Piece(pr, <<a, b, c, d>>)
      BY <2>1, <2>2, Some
    <2>5. ToSet(<<a, b, c, d>>) = {a, b, c, d}
      BY Four
    <2> QED BY <2>1, <2>3, <2>4, <2>5
  <1>4. \A prj, order : Piece(pr, Azure!CreateLlmDeployment(svc, prj, order))
    BY AzureMade, Some DEF Azure!CreateLlmDeployment, Azure!LlmDeployment
  <1> QED BY <1>2, <1>3, <1>4

\* The image of a service and the identity for its policies.
LEMMA AzureImage ==
  ASSUME NEW pr, NEW name, NEW svc, Readable(svc)
  PROVE  Piece(pr, Azure!GetServiceImage(name, svc)) /\ Piece(pr, Azure!CreatePolicyIdentity(name, svc))
  <1> USE DEF Special, Rounded
  <1>1. Piece(pr, Azure!GetServiceImage(name, svc))
    BY AzureMade, Some DEF Azure!GetServiceImage, Azure!BuildTask, Azure!BuildUrn, Azure!S
  <1>2. Piece(pr, Azure!CreatePolicyIdentity(name, svc))
    <2> DEFINE policies == svc.policies
               f == [i \in DOMAIN policies |->
                       Azure!Assignment(Azure!PolicyAssignment(name, i - 1), Azure!PolicyIdentity(name),
                                        {Azure!Group})]
               first == <<Azure!Plainly(Azure!PolicyIdentity(name), {})>>
    <2>1. Azure!CreatePolicyIdentity(name, svc) = Azure!When(policies # << >>, first \o FlattenSeq(f))
          /\ f = [i \in DOMAIN policies |-> f[i]]
      BY AzureAlike DEF Azure!CreatePolicyIdentity
    <2>2. Piece(pr, first)
      BY AzureMade, Some DEF Azure!PolicyIdentity, Azure!S
    <2>3. \A i, identity, after : Piece(pr, Azure!Assignment(Azure!PolicyAssignment(name, i), identity, after))
      BY AzureMade, Some DEF Azure!Assignment, Azure!PolicyAssignment, Azure!S
    <2>4. IsASequence(policies)
      BY DEF Readable
    <2> HIDE DEF policies, first
    <2>5. \A i \in DOMAIN policies : Piece(pr, f[i])
      BY <2>3
    <2> HIDE DEF f
    <2>6. Piece(pr, FlattenSeq(f))
      BY <2>1, <2>4, <2>5, Each
    <2>7. Piece(pr, first \o FlattenSeq(f))
      BY <2>2, <2>6, Then
    <2> QED BY <2>1, <2>7, AzureMade
  <1> QED BY <1>1, <1>2

\* A scale set, with its main resource.
LEMMA AzureVm ==
  ASSUME NEW pr, NEW name, NEW svc, NEW cfg
  PROVE  Piece(pr, Azure!CreateVirtualMachineService(name, svc, cfg))
  <1> USE DEF Special, Rounded, Azure!S
  <1>1. PICK a, after, b, identities :
          Azure!CreateVirtualMachineService(name, svc, cfg)
            = <<Azure!Plainly(Azure!S("network.PublicIPAddress", name), {}),
                Azure!InGroup(Azure!Nsg(name), {}, [rules |-> a]), Azure!Plainly(Azure!LoadBalancer(name), b),
                Azure!Res(Azure!S("random.Password", name \o <<"vm">>), {}),
                Azure!InGroup(Azure!ScaleSet(name), after,
                  [identities |-> identities, uses |-> {}, fit |-> Azure!VirtualMachineSize(Azure!Asked(svc))])>>
    BY Zenon DEF Azure!CreateVirtualMachineService
  <1>2. Fits(Azure!VirtualMachineSize(Azure!Asked(svc)))
    BY AzureAlike, AzureSizes
  <1>3. Sound(pr, Azure!InGroup(Azure!ScaleSet(name), after,
                    [identities |-> identities, uses |-> {}, fit |-> Azure!VirtualMachineSize(Azure!Asked(svc))]))
    BY <1>2, AzureMade DEF Azure!ScaleSet
  <1>4. /\ Sound(pr, Azure!Plainly(Azure!S("network.PublicIPAddress", name), {}))
        /\ Sound(pr, Azure!InGroup(Azure!Nsg(name), {}, [rules |-> a]))
        /\ Sound(pr, Azure!Plainly(Azure!LoadBalancer(name), b))
        /\ Sound(pr, Azure!Res(Azure!S("random.Password", name \o <<"vm">>), {}))
    BY AzureMade DEF Azure!Nsg, Azure!LoadBalancer
  <1> QED BY <1>1, <1>3, <1>4, Some

\* A container app, with its main resource, which refers to the managed services' addresses.
LEMMA AzureApp ==
  ASSUME NEW pr, NEW name, NEW svc, NEW prj, NEW cfg, NEW order, Readable(svc)
  PROVE  /\ Piece(pr, Azure!CreateContainerApp(name, svc, prj, cfg, order))
         /\ \E r \in ToSet(Azure!CreateContainerApp(name, svc, prj, cfg, order)) :
              r.urn = Azure!App(name) /\ Azure!EndpointsAfter(svc, prj, order) \subseteq r.after
  <1> DEFINE after == Azure!AppAfter(name, svc, prj, cfg, order)
             args == [identities |-> Azure!IdentitiesOf(after), uses |-> svc.uses, asked |-> svc.health,
                      probes |-> Azure!BuildProbes(svc), ingress |-> Azure!BuildIngress(svc),
                      fit |-> Azure!ContainerAppCpuMemory(Azure!Asked(svc))]
             r == Azure!InGroup(Azure!App(name), after, args)
  <1>1. Azure!CreateContainerApp(name, svc, prj, cfg, order) = <<r>>
    BY DEF Azure!CreateContainerApp
  <1>2. r.urn = Azure!App(name) /\ Azure!EndpointsAfter(svc, prj, order) \subseteq r.after
    BY DEF Azure!InGroup, Azure!ResWith, Azure!AppAfter
  <1>3. Fits(args.fit)
    BY AzureAlike, AzureSizes
  <1>4. args.asked = svc.health /\ args.probes = Azure!BuildProbes(svc)
    OBVIOUS
  <1> HIDE DEF args, after
  <1>5. ASSUME NEW probe \in args.probes, probe.type = "http" PROVE BudgetSound(args.asked, probe)
    <2>1. svc.health \in [{"start", "interval", "timeout", "retries"} -> Nat] /\ svc.test \in BOOLEAN
      BY DEF Readable
    <2>2. probe = Azure!HttpProbe(svc.health)
      BY <1>4, <1>5, <2>1 DEF Azure!BuildProbes
    <2> QED BY <1>4, <2>1, <2>2, AzureProbe
  <1>6. Sound(pr, r)
    <2>1. /\ DOMAIN r = {"urn", "after", "args"} /\ Len(r.urn) = 3 /\ r.args = args
          /\ TypeOf(r.urn) = "app.ContainerApp"
      BY DEF Azure!InGroup, Azure!ResWith, Azure!App, Azure!S, Azure!Urn, TypeOf
    <2> HIDE DEF r
    <2> QED BY <1>3, <1>5, <2>1 DEF Sound, SizeSound, ProbeSound, TaskSound, DoorSound, BalancerSound
  <1> HIDE DEF r
  <1>7. Piece(pr, <<r>>) /\ r \in ToSet(<<r>>)
    BY <1>6, Some, Literals
  <1> QED BY <1>1, <1>2, <1>7

\* All of a service: a container app leads to the managed services it uses.
LEMMA AzureServicePlan ==
  ASSUME NEW pr, ParsedProject(pr), NEW cfg, NEW order, NEW name \in DOMAIN pr.services
  PROVE  LET p == Azure!ServicePlan(name, pr, cfg, order)
         IN  /\ Piece(pr, p)
             /\ \A d \in Azure!WaitsFor(name, pr) \cap ToSet(order) :
                  Leads(p, Azure!Main(name, pr), Azure!Main(d, pr))
  <1> DEFINE svc == pr.services[name]
             first == <<Azure!Res(Azure!Component(name, svc), {})>>
             service == Azure!CreateContainerService(name, svc, pr, cfg, order)
             parts == (CASE svc.kind = "postgres" -> Azure!CreatePostgresFlexible(name, svc, cfg)
                         [] svc.kind = "redis" -> Azure!CreateRedisEnterprise(name, svc)
                         [] svc.kind = "llm" -> Azure!CreateLlmDeployment(svc, pr, order)
                         [] OTHER -> service)
             waits == Azure!WaitsFor(name, pr) \cap ToSet(order)
  <1>1. Azure!ServicePlan(name, pr, cfg, order) = first \o parts
    BY DEF Azure!ServicePlan, Azure!CreateServiceResources
  <1>2. Piece(pr, first)
    BY AzureMade, Some DEF Special, Rounded, Azure!Component
  <1>3. Readable(svc)
    BY ReadableServices
  <1>4. /\ Piece(pr, service)
        /\ ~Azure!IsVirtualMachineService(svc) =>
             \E r \in ToSet(service) :
               r.urn = Azure!App(name) /\ Azure!EndpointsAfter(svc, pr, order) \subseteq r.after
    <2> DEFINE image == Azure!GetServiceImage(name, svc)
               policies == Azure!CreatePolicyIdentity(name, svc)
               app == Azure!CreateContainerApp(name, svc, pr, cfg, order)
               domains == Azure!CreateAppDomains(name, svc, cfg)
               vm == Azure!CreateVirtualMachineService(name, svc, cfg)
    <2>1. /\ Piece(pr, image) /\ Piece(pr, policies) /\ Piece(pr, app) /\ Piece(pr, domains)
          /\ Piece(pr, vm)
      BY <1>3, AzureImage, AzureApp, AzureAppDomains, AzureVm
    <2>2. service = (image \o policies)
                    \o (IF Azure!IsVirtualMachineService(svc) THEN vm ELSE app \o domains)
      BY DEF Azure!CreateContainerService
    <2>3. PICK r \in ToSet(app) :
            r.urn = Azure!App(name) /\ Azure!EndpointsAfter(svc, pr, order) \subseteq r.after
      BY <1>3, AzureApp
    <2> HIDE DEF image, policies, app, domains, vm, service, svc
    <2> DEFINE front == image \o policies
               named == app \o domains
    <2>4. Piece(pr, front)
      BY <2>1, Then
    <2>5. Piece(pr, named) /\ r \in ToSet(named)
      BY <2>1, <2>3, Keeps
    <2>6. service = front \o (IF Azure!IsVirtualMachineService(svc) THEN vm ELSE named)
      BY <2>2
    <2> HIDE DEF front, named
    <2>7. Piece(pr, front \o vm) /\ Piece(pr, front \o named) /\ r \in ToSet(front \o named)
      BY <2>1, <2>4, <2>5, Then, Keeps
    <2> QED BY <2>3, <2>6, <2>7
  <1>5. Piece(pr, parts)
    <2> HIDE DEF service
    <2> QED BY <1>4, AzureManaged
  <1>6. ASSUME NEW d \in waits
        PROVE  Leads(parts, Azure!Main(name, pr), Azure!Main(d, pr))
    <2>1. ~Azure!IsVirtualMachineService(svc) /\ svc.kind \notin {"postgres", "redis", "llm"}
      BY DEF Azure!WaitsFor, Azure!IsContainerApp, Azure!IsManaged, Azure!IsManagedService, Azure!IsLlm
    <2>2. d \in svc.uses \cap ToSet(order) /\ pr.services[d].kind \in {"postgres", "redis"}
      BY DEF Azure!WaitsFor, Azure!IsManagedService
    <2>3. Azure!Main(name, pr) = Azure!App(name)
      BY <2>1 DEF Azure!Main
    <2>4. Azure!Main(d, pr) \in Azure!EndpointsAfter(svc, pr, order)
      <3>1. Azure!Main(d, pr) \in Azure!EndpointAfter(d, pr.services[d])
        BY <2>2 DEF Azure!Main, Azure!EndpointAfter, Azure!PgReadiness, Azure!RedisReadiness
      <3>2. Azure!EndpointAfter(d, pr.services[d]) \subseteq Azure!EndpointsAfter(svc, pr, order)
        BY <2>2, AzureAlike DEF Azure!EndpointsAfter
      <3> QED BY <3>1, <3>2
    <2>5. parts = service
      BY <2>1
    <2> HIDE DEF parts, service, svc
    <2>6. PICK r \in ToSet(parts) : r.urn = Azure!App(name) /\ Azure!Main(d, pr) \in r.after
      BY <1>4, <2>1, <2>4, <2>5
    <2> QED BY <2>3, <2>6 DEF Leads, ToSet
  <1> HIDE DEF parts, first
  <1>7. Piece(pr, first \o parts)
    BY <1>2, <1>5, Then
  <1>8. IsASequence(first) /\ IsASequence(parts)
    BY <1>2, <1>5 DEF Piece
  <1>9. \A d \in waits : Leads(first \o parts, Azure!Main(name, pr), Azure!Main(d, pr))
    BY <1>6, <1>8, StillLeads
  <1> QED BY <1>1, <1>7, <1>9

\* The certificates of the container apps.
LEMMA AzureFinalPlan ==
  ASSUME NEW pr, ParsedProject(pr), NEW cfg, NEW p
  PROVE  Piece(pr, Azure!ProvisionCerts(pr, cfg, p))
  <1> DEFINE jobs == InOrder(Azure!CollectCertJobs(pr, cfg))
             f == [i \in DOMAIN jobs |->
                     <<Azure!ResWith(Azure!Certificate(jobs[i].hostname), Azure!Registered(p),
                         [service |-> jobs[i].service, host |-> jobs[i].hostname])>>]
  <1>1. Azure!ProvisionCerts(pr, cfg, p) = FlattenSeq(f) /\ f = [i \in DOMAIN jobs |-> f[i]]
    BY AzureAlike DEF Azure!ProvisionCerts, Azure!ForEach
  <1>2. IsFiniteSet(Azure!CollectCertJobs(pr, cfg))
    <2> DEFINE names == Azure!Certified(pr)
               own == [name \in names |-> Azure!Job(name, <<name>> \o cfg.domain)]
               Hosts(name) == ToSet(Azure!ByodHostnames(pr.services[name]))
    <2>1. IsFiniteSet(names) /\ names \subseteq DOMAIN pr.services
      <3>1. IsFiniteSet(DOMAIN pr.services)
        BY DEF ParsedProject
      <3> QED BY <3>1, FS_Subset DEF Azure!Certified
    <2>2. IsFiniteSet({own[name] : name \in names})
      BY <2>1, FiniteImage
    <2>3. \A name \in names : IsFiniteSet({Azure!Job(name, host) : host \in Hosts(name)})
      <3> SUFFICES ASSUME NEW name \in names
                   PROVE  IsFiniteSet({Azure!Job(name, host) : host \in Hosts(name)})
        OBVIOUS
      <3> DEFINE hosts == Azure!ByodHostnames(pr.services[name])
                 made == [i \in DOMAIN hosts |-> Azure!Job(name, hosts[i])]
      <3>1. IsASequence(hosts)
        <4>1. Readable(pr.services[name])
          BY <2>1, ReadableServices
        <4>2. /\ IsASequence(pr.services[name].aliases) /\ IsASequence(<<pr.services[name].domain>>)
              /\ IsASequence(<< >>)
          BY <4>1, Tuples DEF Readable
        <4> QED BY <4>2, ConcatSequence DEF Azure!ByodHostnames
      <3>2. IsFiniteSet(DOMAIN hosts)
        <4>1. DOMAIN hosts = 1 .. Len(hosts) /\ Len(hosts) \in Int
          BY <3>1, Indices
        <4>2. \A n \in Int : IsFiniteSet(1 .. n)
          BY FS_Interval
        <4> QED BY <4>1, <4>2
      <3>3. IsFiniteSet({made[i] : i \in DOMAIN hosts})
        BY <3>2, FiniteImage
      <3>4. {made[i] : i \in DOMAIN hosts} = {Azure!Job(name, host) : host \in Hosts(name)}
        BY DEF ToSet
      <3> QED BY <3>3, <3>4
    <2> DEFINE all == {{Azure!Job(name, host) : host \in Hosts(name)} : name \in names}
               sets == [name \in names |-> {Azure!Job(name, host) : host \in Hosts(name)}]
    <2>4. IsFiniteSet({sets[name] : name \in names})
      BY <2>1, FiniteImage
    <2>5. \A set \in {sets[name] : name \in names} : IsFiniteSet(set)
      BY <2>3
    <2>6. IsFiniteSet(UNION {sets[name] : name \in names})
      BY <2>4, <2>5, FS_UNION
    <2>7. Azure!CollectCertJobs(pr, cfg)
            \subseteq {own[name] : name \in names} \cup UNION {sets[name] : name \in names}
      BY AzureAlike DEF Azure!CollectCertJobs
    <2> HIDE DEF sets, own, names
    <2>8. IsFiniteSet({own[name] : name \in names} \cup UNION {sets[name] : name \in names})
      BY <2>2, <2>6, FS_Union
    <2> QED BY <2>7, <2>8, FS_Subset
  <1>3. IsASequence(jobs)
    BY <1>2, Ordered
  <1> HIDE DEF jobs
  <1>4. \A host, after, service :
          Piece(pr, <<Azure!ResWith(Azure!Certificate(host), after, [service |-> service, host |-> host])>>)
    BY AzureMade, Some DEF Special, Rounded, Azure!Certificate
  <1>5. \A i \in DOMAIN jobs : Piece(pr, f[i])
    BY <1>4
  <1> HIDE DEF f
  <1> QED BY <1>1, <1>3, <1>5, Each

-----------------------------------------------------------------------------
(* AWS.                                                                    *)

\* Fargate has a size for whatever one of its tiers has.
LEMMA FargateFits ==
  ASSUME NEW cpus \in Nat, NEW memory \in Nat
  PROVE  Fits(FargateResources(<<cpus, memory>>))
  <1> DEFINE T == FargateTiers
             asked == <<cpus, memory>>
             byCpu == {i \in 1 .. Len(T) : T[i].cpu >= asked[1]}
             match == IF byCpu # {} THEN Min(byCpu) ELSE 0
             first == IF match = 0 THEN Len(T) ELSE match
             both == {i \in first .. Len(T) : T[i].max >= asked[2]}
             chosen == T[IF both # {} THEN Min(both) ELSE 0]
             fit == FargateResources(asked)
  <1>1. Len(T) = 7 /\ DOMAIN T = 1 .. 7
    BY DEF FargateTiers
  <1>2. /\ fit.asked = <<cpus, memory>>
        /\ fit.size = <<chosen.cpu, FixupFargateMemory(chosen, memory)>>
        /\ fit.offered = {<<tier.cpu, tier.max>> : tier \in ToSet(T)}
    <2>1. FargateResources(asked)
            = [asked |-> asked, size |-> <<chosen.cpu, FixupFargateMemory(chosen, asked[2])>>,
               offered |-> {<<tier.cpu, tier.max>> : tier \in ToSet(T)}]
      BY Zenon DEF FargateResources, SelectInSeq, SelectInSubSeq
    <2> HIDE DEF T, chosen
    <2> QED BY <2>1
  <1>3. SUFFICES ASSUME NEW k \in 1 .. 7, T[k].cpu >= cpus, T[k].max >= memory
                 PROVE  chosen.cpu >= cpus /\ FixupFargateMemory(chosen, memory) >= memory
    <2> HIDE DEF T, chosen, fit, byCpu
    <2>1. \A tier \in ToSet(T) : \E k \in 1 .. 7 : T[k] = tier
      BY <1>1 DEF ToSet
    <2>2. ASSUME NEW size \in fit.offered, Suffices(size, fit.asked)
          PROVE  \E k \in 1 .. 7 : T[k].cpu >= cpus /\ T[k].max >= memory
      <3>1. PICK k \in 1 .. 7 : size = <<T[k].cpu, T[k].max>>
        BY <1>2, <2>1, <2>2
      <3>2. size[1] >= fit.asked[1] /\ size[2] >= fit.asked[2]
        BY <2>2 DEF Suffices
      <3> QED BY <1>2, <3>1, <3>2
    <2>3. fit.size[1] >= fit.asked[1] /\ fit.size[2] >= fit.asked[2] => Suffices(fit.size, fit.asked)
      <3>1. \A k \in 1 .. 2 : k = 1 \/ k = 2
        OBVIOUS
      <3> QED BY <3>1 DEF Suffices
    <2>4. chosen.cpu >= cpus /\ FixupFargateMemory(chosen, memory) >= memory => Suffices(fit.size, fit.asked)
      BY <1>2, <2>3
    <2> QED BY <2>2, <2>4 DEF Fits, fit
  <1>4. first \in 1 .. 7 /\ first <= k /\ T[first].cpu >= cpus
    <2>1. byCpu \in SUBSET Nat /\ k \in byCpu /\ 0 \notin byCpu
      BY <1>1, <1>3
    <2>2. Min(byCpu) \in byCpu /\ \A i \in byCpu : Min(byCpu) <= i
      <3> HIDE DEF byCpu
      <3> QED BY <2>1, Least DEF Min
    <2> QED BY <1>1, <2>1, <2>2
  <1> HIDE DEF first
  <1>5. PICK i \in first .. 7 : chosen = T[i] /\ T[i].max >= memory
    <2>1. both \in SUBSET Nat /\ k \in both
      BY <1>1, <1>3, <1>4
    <2>2. Min(both) \in both
      <3> HIDE DEF both
      <3> QED BY <2>1, Least DEF Min
    <2> QED BY <1>1, <2>1, <2>2
  <1>6. T[i].cpu >= cpus
    <2>1. \A m \in 1 .. 7 : \A n \in m .. 7 : T[m].cpu \in Nat /\ T[m].cpu <= T[n].cpu
      BY DEF FargateTiers
    <2> HIDE DEF T
    <2>2. T[first].cpu <= T[i].cpu /\ T[first].cpu \in Nat /\ T[i].cpu \in Nat
      BY <1>4, <2>1
    <2> QED BY <1>4, <2>2
  <1>7. FixupFargateMemory(T[i], memory) >= memory
    <2>1. T[i].min \in Nat /\ T[i].max \in Nat /\ T[i].step \in Nat \ {0}
      BY <1>4 DEF FargateTiers
    <2> DEFINE step == T[i].step
    <2>2. RoundUp(memory, step) >= memory
      <3>1. step \in Nat \ {0}
        BY <2>1
      <3> HIDE DEF step
      <3> DEFINE n == memory + step - 1
      <3>2. n \in Nat
        BY <3>1
      <3>3. (n \div step) * step > n - step
        <4> HIDE DEF n
        <4> QED BY <3>1, <3>2
      <3>4. (n \div step) * step \in Int
        BY <3>1, <3>2
      <3> QED BY <3>1, <3>3, <3>4 DEF RoundUp
    <2> HIDE DEF T
    <2> QED BY <1>5, <2>1, <2>2 DEF FixupFargateMemory, MakeMinMaxCeil
  <1> QED BY <1>5, <1>6, <1>7

\* The catalogues of AWS are sequences.
LEMMA AwsCatalogues ==
  /\ IsASequence(RdsBurstable) /\ IsASequence(RdsGeneral) /\ IsASequence(RdsMemory)
  /\ IsASequence(CacheBurstable) /\ IsASequence(CacheGeneralSmall) /\ IsASequence(CacheGeneral)
  /\ IsASequence(CacheMemory) /\ IsASequence(CacheTiering) /\ IsASequence(CacheNetwork)
  /\ IsASequence(MemoryDBMemory) /\ IsASequence(Tail(CacheBurstable))
  <1>1. IsASequence(RdsBurstable)
    <2>1. IsASequence(<<<<200, 1024>>, <<200, 2048>>, <<200, 4096>>>>) /\ IsASequence(Doubling(<<200, 8192>>, 3))
      <3>1. IsASequence(<<<<200, 1024>>, <<200, 2048>>, <<200, 4096>>>>)
        BY DEF IsASequence, ToSet
      <3> QED BY <3>1, DoublingIsASequence
    <2> QED BY <2>1, ConcatSequence DEF RdsBurstable
  <1>2. IsASequence(RdsGeneral) /\ IsASequence(RdsMemory)
    <2>1. IsASequence(<<1, 2, 4, 8, 16, 24, 32, 48, 64>>)
      BY DEF IsASequence, ToSet
    <2> QED BY <2>1, TimesIsASequence DEF RdsGeneral, RdsMemory
  <1>3. IsASequence(CacheBurstable) /\ IsASequence(CacheGeneralSmall)
    BY DEF CacheBurstable, CacheGeneralSmall, IsASequence, ToSet
  <1>4. /\ CacheMemory = [i \in 1 .. 8 |-> CacheMemory[i]]
        /\ CacheTiering = [i \in 1 .. 6 |-> CacheTiering[i]]
        /\ CacheNetwork = [i \in 1 .. 7 |-> CacheNetwork[i]]
    BY DEF CacheMemory, CacheTiering, CacheNetwork
  <1>5. IsASequence(CacheGeneral)
    <2> DEFINE large == <<<<400, 13240>>, <<400, 14622>>, <<800, 26664>>, <<800, 30412>>, <<1600, 53514>>,
                          <<1600, 62238>>, <<3200, 106168>>, <<4000, 158351>>, <<4800, 160890>>,
                          <<6400, 214579>>, <<9600, 321863>>>>
    <2>1. 11 \in Nat /\ large = [i \in 1 .. 11 |-> large[i]]
      OBVIOUS
    <2>2. CacheGeneral = CacheGeneralSmall \o large
      BY DEF CacheGeneral
    <2> HIDE DEF large
    <2>3. IsASequence(large)
      BY <2>1, MapSequence
    <2> QED BY <1>3, <2>2, <2>3, ConcatSequence
  <1>6. IsASequence(CacheMemory) /\ IsASequence(CacheTiering) /\ IsASequence(CacheNetwork)
    <2>1. 6 \in Nat /\ 7 \in Nat /\ 8 \in Nat
      OBVIOUS
    <2> QED BY <1>4, <2>1, MapSequence
  <1>7. IsASequence(Tail(CacheBurstable))
    <2> DEFINE s == CacheBurstable
    <2>1. s \in Seq(ToSet(s)) /\ s # << >>
      BY <1>3 DEF CacheBurstable, IsASequence
    <2> HIDE DEF s
    <2>2. Tail(s) \in Seq(ToSet(s))
      BY <2>1, HeadTailProperties
    <2> QED BY <2>2, ASequence DEF s
  <1>8. IsASequence(MemoryDBMemory)
    <2> DEFINE s == CacheMemory
    <2>1. s \in Seq(ToSet(s)) /\ Len(s) = 8
      <3>1. s \in Seq(ToSet(s))
        BY <1>6 DEF IsASequence
      <3>2. Len(s) = 8
        BY DEF CacheMemory
      <3> QED BY <3>1, <3>2
    <2> HIDE DEF s
    <2>2. SubSeq(s, 1, 7) \in Seq(ToSet(s))
      <3>1. \A i \in 1 .. 7 : s[i] \in ToSet(s)
        <4>1. DOMAIN s = 1 .. 8
          BY <2>1, LenProperties
        <4>2. \A i \in 1 .. 7 : i \in 1 .. 8
          OBVIOUS
        <4> QED BY <4>1, <4>2 DEF ToSet
      <3> QED BY <3>1, SubSeqProperties
    <2> QED BY <2>2, ASequence DEF MemoryDBMemory, s
  <1> QED BY <1>1, <1>2, <1>3, <1>5, <1>6, <1>7, <1>8

\* What AWS offers fits: tasks, builds and databases.
LEMMA AwsSizes ==
  /\ \A asked, tier : /\ Fits(RdsInstanceClass(asked, tier)) /\ Fits(CacheNodeType(asked, tier))
                      /\ Fits(MemoryDBNodeType(asked, tier))
  /\ \A memory : Fits(CodeBuildComputeType(memory))
  <1>1. \A tier : \/ Searched(NodeTypeCatalogs, tier) = FlattenSeq(<<RdsBurstable, RdsGeneral, RdsMemory>>)
                  \/ Searched(NodeTypeCatalogs, tier) = FlattenSeq(<<RdsGeneral, RdsMemory>>)
                  \/ Searched(NodeTypeCatalogs, tier) = FlattenSeq(<<RdsMemory>>)
    BY DEF Searched, NodeTypeCatalogs
  <1>2. \A tier : IsASequence(Searched(NodeTypeCatalogs, tier))
    <2>1. /\ IsASequence(FlattenSeq(<<RdsBurstable, RdsGeneral, RdsMemory>>))
          /\ IsASequence(FlattenSeq(<<RdsGeneral, RdsMemory>>)) /\ IsASequence(FlattenSeq(<<RdsMemory>>))
      BY AwsCatalogues, Shelves
    <2> QED BY <1>1, <2>1
  <1>3. \A tier :
          \/ Searched(CacheNodeTypeCatalogs, tier) = FlattenSeq(<<CacheBurstable, CacheGeneral, CacheMemory>>)
          \/ Searched(CacheNodeTypeCatalogs, tier) = FlattenSeq(<<CacheGeneral, CacheMemory>>)
          \/ Searched(CacheNodeTypeCatalogs, tier) = FlattenSeq(<<CacheGeneralSmall>>)
          \/ Searched(CacheNodeTypeCatalogs, tier) = FlattenSeq(<<CacheMemory>>)
          \/ Searched(CacheNodeTypeCatalogs, tier) = FlattenSeq(<<CacheTiering>>)
          \/ Searched(CacheNodeTypeCatalogs, tier) = FlattenSeq(<<CacheNetwork>>)
    BY DEF Searched, CacheNodeTypeCatalogs
  <1>4. \A tier : IsASequence(Searched(CacheNodeTypeCatalogs, tier))
    <2>1. /\ IsASequence(FlattenSeq(<<CacheBurstable, CacheGeneral, CacheMemory>>))
          /\ IsASequence(FlattenSeq(<<CacheGeneral, CacheMemory>>)) /\ IsASequence(FlattenSeq(<<CacheMemory>>))
          /\ IsASequence(FlattenSeq(<<CacheGeneralSmall>>)) /\ IsASequence(FlattenSeq(<<CacheTiering>>))
          /\ IsASequence(FlattenSeq(<<CacheNetwork>>))
      BY AwsCatalogues, Shelves
    <2> QED BY <1>3, <2>1
  <1>5. \A tier :
          \/ Searched(MemoryDBNodeTypeCatalogs, tier) = FlattenSeq(<<Tail(CacheBurstable), MemoryDBMemory>>)
          \/ Searched(MemoryDBNodeTypeCatalogs, tier) = FlattenSeq(<<MemoryDBMemory>>)
    <2>1. /\ DOMAIN MemoryDBNodeTypeCatalogs = {"burstable", "memory"}
          /\ MemoryDBNodeTypeCatalogs.burstable = <<Tail(CacheBurstable), MemoryDBMemory>>
          /\ MemoryDBNodeTypeCatalogs.memory = <<MemoryDBMemory>>
      BY Zenon DEF MemoryDBNodeTypeCatalogs
    <2> QED BY <2>1 DEF Searched
  <1>6. \A tier : IsASequence(Searched(MemoryDBNodeTypeCatalogs, tier))
    <2>1. /\ IsASequence(FlattenSeq(<<Tail(CacheBurstable), MemoryDBMemory>>))
          /\ IsASequence(FlattenSeq(<<MemoryDBMemory>>))
      BY AwsCatalogues, Shelves
    <2> QED BY <1>5, <2>1
  <1>7. \A asked, tier : /\ Fits(RdsInstanceClass(asked, tier)) /\ Fits(CacheNodeType(asked, tier))
                         /\ Fits(MemoryDBNodeType(asked, tier))
    BY <1>2, <1>4, <1>6, Chosen DEF RdsInstanceClass, CacheNodeType, MemoryDBNodeType
  <1>8. \A memory : Fits(CodeBuildComputeType(memory))
    <2>1. IsASequence(<<<<0, 4096>>, <<0, 8192>>, <<0, 16384>>, <<0, 65536>>>>)
      <3> DEFINE q == <<<<0, 4096>>, <<0, 8192>>, <<0, 16384>>, <<0, 65536>>>>
      <3>1. 4 \in Nat /\ q = [i \in 1 .. 4 |-> q[i]]
        OBVIOUS
      <3> HIDE DEF q
      <3>2. IsASequence(q)
        BY <3>1, MapSequence
      <3> QED BY <3>2 DEF q
    <2> QED BY <2>1, Chosen DEF CodeBuildComputeType
  <1> QED BY <1>7, <1>8

\* The operators of Compose, Plan and Sizes are the same inside AwsProject.
LEMMA AwsAlike ==
  /\ \A s : Aws!FlattenSeq(s) = FlattenSeq(s) /\ Aws!ToSet(s) = ToSet(s) /\ Aws!InOrder(s) = InOrder(s)
  /\ \A asked, tier : /\ Aws!RdsInstanceClass(asked, tier) = RdsInstanceClass(asked, tier)
                      /\ Aws!CacheNodeType(asked, tier) = CacheNodeType(asked, tier)
                      /\ Aws!MemoryDBNodeType(asked, tier) = MemoryDBNodeType(asked, tier)
  /\ \A memory : Aws!CodeBuildComputeType(memory) = CodeBuildComputeType(memory)
  /\ \A asked : Aws!FargateResources(asked) = FargateResources(asked)
  /\ \A pr : Aws!Normalized(pr) = Hosted(pr)
  <1>1. \A s : Aws!FlattenSeq(s) = FlattenSeq(s)
    BY DEF FlattenSeq, Aws!FlattenSeq
  <1>2. \A s : Aws!ToSet(s) = ToSet(s) /\ Aws!InOrder(s) = InOrder(s)
    BY DEF ToSet, InOrder, SetToSeq, IsInjective, Cardinality, Aws!ToSet, Aws!InOrder, Aws!SetToSeq,
       Aws!IsInjective, Aws!Cardinality
  <1>3. \A a, c, f : Aws!Fit(a, c, f) = Fit(a, c, f)
    BY DEF Fit, FirstMatch, SelectInSeq, Min, Covers, ToSet, Aws!Fit, Aws!FirstMatch,
       Aws!SelectInSeq, Aws!Min, Aws!Covers, Aws!ToSet
  <1>4. \A first, factors, n : Aws!Times(first, factors) = Times(first, factors)
                               /\ Aws!Doubling(first, n) = Doubling(first, n)
    BY DEF Times, Doubling, Aws!Times, Aws!Doubling
  <1>5. /\ Aws!RdsBurstable = RdsBurstable /\ Aws!RdsGeneral = RdsGeneral /\ Aws!RdsMemory = RdsMemory
        /\ Aws!CacheBurstable = CacheBurstable /\ Aws!CacheGeneralSmall = CacheGeneralSmall
        /\ Aws!CacheMemory = CacheMemory /\ Aws!CacheTiering = CacheTiering
        /\ Aws!CacheNetwork = CacheNetwork
    <2>1. Aws!RdsBurstable = RdsBurstable
      BY <1>4 DEF RdsBurstable, Aws!RdsBurstable
    <2>2. Aws!RdsGeneral = RdsGeneral /\ Aws!RdsMemory = RdsMemory
      BY <1>4 DEF RdsGeneral, RdsMemory, Aws!RdsGeneral, Aws!RdsMemory
    <2>3. Aws!CacheBurstable = CacheBurstable /\ Aws!CacheGeneralSmall = CacheGeneralSmall
      BY DEF CacheBurstable, CacheGeneralSmall, Aws!CacheBurstable, Aws!CacheGeneralSmall
    <2>4. Aws!CacheMemory = CacheMemory
      BY DEF CacheMemory, Aws!CacheMemory
    <2>5. Aws!CacheTiering = CacheTiering
      BY DEF CacheTiering, Aws!CacheTiering
    <2>6. Aws!CacheNetwork = CacheNetwork
      BY DEF CacheNetwork, Aws!CacheNetwork
    <2> QED BY <2>1, <2>2, <2>3, <2>4, <2>5, <2>6
  <1>6. Aws!CacheGeneral = CacheGeneral /\ Aws!MemoryDBMemory = MemoryDBMemory
    <2>1. Aws!CacheGeneral = CacheGeneral
      <3> DEFINE large == <<<<400, 13240>>, <<400, 14622>>, <<800, 26664>>, <<800, 30412>>, <<1600, 53514>>,
                            <<1600, 62238>>, <<3200, 106168>>, <<4000, 158351>>, <<4800, 160890>>,
                            <<6400, 214579>>, <<9600, 321863>>>>
      <3>1. CacheGeneral = CacheGeneralSmall \o large
        BY DEF CacheGeneral
      <3>2. Aws!CacheGeneral = Aws!CacheGeneralSmall \o large
        BY DEF Aws!CacheGeneral
      <3> HIDE DEF large
      <3> QED BY <1>5, <3>1, <3>2
    <2>2. Aws!MemoryDBMemory = MemoryDBMemory
      BY <1>5, Zenon DEF MemoryDBMemory, Aws!MemoryDBMemory
    <2> QED BY <2>1, <2>2
  <1>7. /\ Aws!NodeTypeCatalogs = NodeTypeCatalogs
        /\ Aws!CacheNodeTypeCatalogs = CacheNodeTypeCatalogs
        /\ Aws!MemoryDBNodeTypeCatalogs = MemoryDBNodeTypeCatalogs
    <2>1. Aws!NodeTypeCatalogs = NodeTypeCatalogs
      BY <1>5, Zenon DEF NodeTypeCatalogs, Aws!NodeTypeCatalogs
    <2>2. Aws!CacheNodeTypeCatalogs = CacheNodeTypeCatalogs
      BY <1>5, <1>6, Zenon DEF CacheNodeTypeCatalogs, Aws!CacheNodeTypeCatalogs
    <2>3. Aws!MemoryDBNodeTypeCatalogs = MemoryDBNodeTypeCatalogs
      BY <1>5, <1>6, Zenon DEF MemoryDBNodeTypeCatalogs, Aws!MemoryDBNodeTypeCatalogs
    <2> QED BY <2>1, <2>2, <2>3
  <1>8. \A catalogues, tier : Aws!Searched(catalogues, tier) = Searched(catalogues, tier)
    BY <1>1 DEF Searched, Aws!Searched
  <1>9. \A asked, tier : /\ Aws!RdsInstanceClass(asked, tier) = RdsInstanceClass(asked, tier)
                         /\ Aws!CacheNodeType(asked, tier) = CacheNodeType(asked, tier)
                         /\ Aws!MemoryDBNodeType(asked, tier) = MemoryDBNodeType(asked, tier)
    BY <1>3, <1>7, <1>8 DEF RdsInstanceClass, CacheNodeType, MemoryDBNodeType,
       Aws!RdsInstanceClass, Aws!CacheNodeType, Aws!MemoryDBNodeType
  <1>10. \A memory : Aws!CodeBuildComputeType(memory) = CodeBuildComputeType(memory)
    BY <1>3 DEF CodeBuildComputeType, Aws!CodeBuildComputeType
  <1>11. \A asked : Aws!FargateResources(asked) = FargateResources(asked)
    <2>1. Aws!FargateTiers = FargateTiers
      BY DEF FargateTiers, Aws!FargateTiers
    <2>2. \A tier, memory : Aws!FixupFargateMemory(tier, memory) = FixupFargateMemory(tier, memory)
      BY DEF FixupFargateMemory, MakeMinMaxCeil, RoundUp, Aws!FixupFargateMemory, Aws!MakeMinMaxCeil, Aws!RoundUp
    <2>3. \A set : Aws!Min(set) = Min(set)
      BY DEF Min, Aws!Min
    <2> QED BY <1>2, <2>1, <2>2, <2>3, Zenon DEF FargateResources, SelectInSeq, SelectInSubSeq,
         Aws!FargateResources, Aws!SelectInSeq, Aws!SelectInSubSeq
  <1>12. \A pr : Aws!Normalized(pr) = Hosted(pr)
    BY DEF Hosted, UDPIngressAsHost, GetProtocol, IsIngress, Aws!Normalized, Aws!UDPIngressAsHost,
       Aws!GetProtocol, Aws!IsIngress
  <1> QED BY <1>1, <1>2, <1>9, <1>10, <1>11, <1>12

\* The resources AwsProject makes are sound unless their type is special.
LEMMA AwsMade ==
  ASSUME NEW pr
  PROVE  /\ \A parent, type, name, after : type \notin Special =>
              Sound(pr, Aws!Res(Aws!Urn(parent, type, name), after))
         /\ \A parent, type, name, after, args : type \notin Special /\ "fit" \notin DOMAIN args =>
              Sound(pr, Aws!ResWith(Aws!Urn(parent, type, name), after, args))
         /\ \A parent, type, name, after, args : type \notin Special /\ Fits(args.fit) =>
              Sound(pr, Aws!ResWith(Aws!Urn(parent, type, name), after, args))
         /\ \A cond, p : (cond => Piece(pr, p)) => Piece(pr, Aws!When(cond, p))
  <1>1. \A cond, p : (cond => Piece(pr, p)) => Piece(pr, Aws!When(cond, p))
    BY None DEF Aws!When
  <1> QED BY <1>1, Plain, Unsized, Fitting DEF Aws!Res, Aws!ResWith, Aws!Urn

\* The load balancer's probe.
LEMMA AwsTiming ==
  ASSUME NEW health \in [{"start", "interval", "timeout", "retries"} -> Nat]
  PROVE  CheckSound(Aws!TgHealthCheckTiming(health))
  <1> DEFINE interval == Aws!ClampInt(health.interval, 5, 300, Aws!HealthCheckInterval)
             most == IF interval - 1 > 120 THEN 120 ELSE interval - 1
             timeout == Aws!ClampInt(health.timeout, 2, most, most)
  <1>1. interval \in 5 .. 300
    BY DEF Aws!ClampInt, Aws!HealthCheckInterval
  <1> HIDE DEF interval
  <1>2. most \in 4 .. 120 /\ most < interval
    BY <1>1
  <1> HIDE DEF most
  <1>3. timeout \in 2 .. most
    BY <1>2 DEF Aws!ClampInt
  <1> HIDE DEF timeout
  <1>4. Aws!TgHealthCheckTiming(health) = <<interval, timeout>>
    BY Zenon DEF Aws!TgHealthCheckTiming, interval, most, timeout
  <1> QED BY <1>1, <1>2, <1>3, <1>4 DEF CheckSound

\* A sequence contains finitely many elements.
LEMMA FiniteElements ==
  ASSUME NEW s, IsASequence(s)
  PROVE  IsFiniteSet(ToSet(s)) /\ \A f : IsFiniteSet({f[i] : i \in DOMAIN s})
  <1>1. IsFiniteSet(DOMAIN s)
    <2>1. DOMAIN s = 1 .. Len(s) /\ Len(s) \in Int
      BY Indices
    <2>2. \A n \in Int : IsFiniteSet(1 .. n)
      BY FS_Interval
    <2> QED BY <2>1, <2>2
  <1>2. \A f : IsFiniteSet({f[i] : i \in DOMAIN s})
    BY <1>1, FiniteImage
  <1>3. ToSet(s) = {s[i] : i \in DOMAIN s}
    BY DEF ToSet
  <1> QED BY <1>2, <1>3

\* A record of a hosted zone.
LEMMA AwsRecord ==
  ASSUME NEW pr
  PROVE  \A parent, host, type, after, target :
           /\ Piece(pr, Aws!CreateRecord(parent, host, type, after, target))
           /\ \E r \in ToSet(Aws!CreateRecord(parent, host, type, after, target)) :
                r.urn = Aws!RecordUrn(parent, host, type) /\ r.after = after
  <1> SUFFICES ASSUME NEW parent, NEW host, NEW type, NEW after, NEW target
               PROVE  /\ Piece(pr, Aws!CreateRecord(parent, host, type, after, target))
                      /\ \E r \in ToSet(Aws!CreateRecord(parent, host, type, after, target)) :
                           r.urn = Aws!RecordUrn(parent, host, type) /\ r.after = after
    OBVIOUS
  <1> DEFINE r == Aws!ResWith(Aws!RecordUrn(parent, host, type), after, [host |-> host, target |-> target])
  <1>1. Aws!CreateRecord(parent, host, type, after, target) = <<r>>
    BY DEF Aws!CreateRecord
  <1>2. Sound(pr, r)
    BY AwsMade DEF Special, Rounded, Aws!RecordUrn
  <1>3. r.urn = Aws!RecordUrn(parent, host, type) /\ r.after = after
    BY DEF Aws!ResWith
  <1> HIDE DEF r
  <1>4. Piece(pr, <<r>>) /\ r \in ToSet(<<r>>)
    BY <1>2, Some, Literals
  <1> QED BY <1>1, <1>3, <1>4

\* A certificate, the records that validate it and the wait for them.
LEMMA AwsCertificate ==
  ASSUME NEW pr, NEW parent, NEW hosts, IsASequence(hosts), NEW cfg
  PROVE  Piece(pr, Aws!CreateCertificateDNS(parent, hosts, cfg))
  <1> USE DEF Special, Rounded
  <1> DEFINE bases == InOrder(Aws!CertBases(hosts))
             f == [i \in DOMAIN hosts |->
                     Aws!CreateRecord(parent, hosts[i], "CAA", Aws!ThroughDns(cfg), "issuers")]
             g == [i \in DOMAIN bases |->
                     Aws!CreateRecord(parent, Aws!ValidationHost(bases[i]), "CNAME",
                                      Aws!ThroughDns(cfg) \cup {Aws!CertUrn(parent, hosts)}, "token")]
             first == <<Aws!ResWith(Aws!CertUrn(parent, hosts), {}, [hosts |-> ToSet(hosts)])>>
  <1>1. \E a, b : Aws!CreateCertificateDNS(parent, hosts, cfg)
                    = ((first \o FlattenSeq(f)) \o FlattenSeq(g)) \o Aws!CertValidation(parent, hosts, a, b)
    BY AwsAlike, Zenon DEF Aws!CreateCertificateDNS, Aws!ForEach
  <1>2. f = [i \in DOMAIN hosts |-> f[i]] /\ g = [i \in DOMAIN bases |-> g[i]]
    OBVIOUS
  <1>3. IsASequence(bases)
    <2> DEFINE b == [i \in DOMAIN hosts |-> Aws!BaseOf(hosts[i])]
    <2>1. IsFiniteSet({b[i] : i \in DOMAIN hosts})
      BY FiniteElements
    <2>2. Aws!CertBases(hosts) = {b[i] : i \in DOMAIN hosts}
      BY AwsAlike DEF Aws!CertBases, ToSet
    <2> QED BY <2>1, <2>2, Ordered
  <1>4. Piece(pr, first)
    BY AwsMade, Some DEF Aws!CertUrn
  <1>5. \A a, b : Piece(pr, Aws!CertValidation(parent, hosts, a, b))
    BY AwsMade, Some DEF Aws!CertValidation, Aws!ValidationUrn
  <1> HIDE DEF bases, first
  <1>6. (\A i \in DOMAIN hosts : Piece(pr, f[i])) /\ \A i \in DOMAIN bases : Piece(pr, g[i])
    BY AwsRecord
  <1> HIDE DEF f, g
  <1>7. Piece(pr, FlattenSeq(f)) /\ Piece(pr, FlattenSeq(g))
    BY <1>2, <1>3, <1>6, Each
  <1> QED BY <1>1, <1>4, <1>5, <1>7, Then

\* A security group, which lets in whom it should, and a grant.
LEMMA AwsGroup ==
  ASSUME NEW pr
  PROVE  /\ \A parent, name, cfg, ingress :
              LET urn == Aws!Urn(parent, "ec2.SecurityGroup", name) IN
              Guarded(pr, urn, ingress) => Piece(pr, Aws!SecurityGroup(urn, cfg, ingress))
         /\ \A parent, type, name, role, after : type \notin Special =>
              Piece(pr, Aws!Grant(Aws!Urn(parent, type, name), role, after))
  <1>1. ASSUME NEW parent, NEW name, NEW cfg, NEW ingress,
               Guarded(pr, Aws!Urn(parent, "ec2.SecurityGroup", name), ingress)
        PROVE  Piece(pr, Aws!SecurityGroup(Aws!Urn(parent, "ec2.SecurityGroup", name), cfg, ingress))
    <2> DEFINE urn == Aws!Urn(parent, "ec2.SecurityGroup", name)
               after == Aws!InVpc(cfg) \cup ({rule.from : rule \in ingress} \ {Aws!Anyone})
               r == Aws!ResWith(urn, after, [ingress |-> ingress])
    <2>1. Len(urn) = 3 /\ TypeOf(urn) = "ec2.SecurityGroup"
      BY DEF Aws!Urn, TypeOf
    <2>2. Guarded(pr, urn, ingress)
      BY <1>1
    <2> HIDE DEF urn, after
    <2>3. r = [urn |-> urn, after |-> after, args |-> [ingress |-> ingress]]
      BY DEF Aws!ResWith
    <2>4. Sound(pr, r)
      BY <2>1, <2>2, <2>3 DEF Sound, SizeSound, ProbeSound, TaskSound, DoorSound, BalancerSound
    <2>5. Aws!SecurityGroup(urn, cfg, ingress) = <<r>>
      BY Zenon DEF Aws!SecurityGroup, after
    <2> HIDE DEF r
    <2> QED BY <2>4, <2>5, Some DEF urn
  <1>2. \A parent, type, name, role, after : type \notin Special =>
          Piece(pr, Aws!Grant(Aws!Urn(parent, type, name), role, after))
    BY AwsMade, Some DEF Aws!Grant
  <1> QED BY <1>1, <1>2

\* A private bucket, which refers to what its service depends on.
LEMMA AwsBucket ==
  ASSUME NEW pr
  PROVE  \A parent, name, deps :
           /\ Piece(pr, Aws!CreatePrivateBucket(parent, name, deps))
           /\ \E r \in ToSet(Aws!CreatePrivateBucket(parent, name, deps)) :
                r.urn = Aws!BucketUrn(parent, name) /\ r.after = deps
  <1> SUFFICES ASSUME NEW parent, NEW name, NEW deps
               PROVE  /\ Piece(pr, Aws!CreatePrivateBucket(parent, name, deps))
                      /\ \E r \in ToSet(Aws!CreatePrivateBucket(parent, name, deps)) :
                           r.urn = Aws!BucketUrn(parent, name) /\ r.after = deps
    OBVIOUS
  <1> USE DEF Special, Rounded
  <1> DEFINE r == Aws!Res(Aws!BucketUrn(parent, name), deps)
             after == {Aws!BucketUrn(parent, name)} \cup deps
             s == Aws!Res(Aws!Urn(parent, "s3.BucketEncryption", name), after)
             t == Aws!Res(Aws!Urn(parent, "s3.BucketPublicAccessBlock", name), after)
  <1>1. Aws!CreatePrivateBucket(parent, name, deps) = <<r, s>> \o <<t>>
    BY Zenon DEF Aws!CreatePrivateBucket, Aws!CreateBucket
  <1>2. Sound(pr, r) /\ Sound(pr, s) /\ Sound(pr, t)
    BY AwsMade DEF Aws!BucketUrn
  <1>3. r.urn = Aws!BucketUrn(parent, name) /\ r.after = deps
    BY DEF Aws!Res, Aws!ResWith
  <1> HIDE DEF r, s, t
  <1>4. Piece(pr, <<r, s>>) /\ Piece(pr, <<t>>) /\ r \in ToSet(<<r, s>>)
    <2>1. Piece(pr, <<r, s>>) /\ Piece(pr, <<t>>)
      BY <1>2, Some
    <2>2. ToSet(<<r, s>>) = {r, s}
      BY Two
    <2> QED BY <2>1, <2>2
  <1> DEFINE p == <<r, s>>
             q == <<t>>
  <1> HIDE DEF p, q
  <1>5. Piece(pr, p \o q) /\ r \in ToSet(p \o q)
    <2>1. Piece(pr, p) /\ Piece(pr, q) /\ r \in ToSet(p)
      BY <1>4 DEF p, q
    <2> QED BY <2>1, Keeps
  <1> QED BY <1>1, <1>3, <1>5 DEF p, q

\* The load balancer with its listeners and its access logs.
LEMMA AwsIngress ==
  ASSUME NEW pr, Balanced(pr), NEW cfg
  PROVE  Piece(pr, Aws!CreateIngress(cfg))
  <1> USE DEF Special, Rounded, Aws!P
  <1>1. \A secure, cert : Piece(pr, Aws!CreateALB(cfg, secure, cert))
    <2> SUFFICES ASSUME NEW secure, NEW cert PROVE Piece(pr, Aws!CreateALB(cfg, secure, cert))
      OBVIOUS
    <2> DEFINE a == {[port |-> 80, from |-> Aws!Anyone], [port |-> 443, from |-> Aws!Anyone]}
               b == {Aws!BucketUrn("Project", <<"alb-logs">>), Aws!AlbSg} \cup Aws!InVpc(cfg)
               c == {Aws!Alb} \cup cert
               d == "404"
               e == {Aws!Alb}
               f == Aws!HttpDefault(secure)
    <2>1. Aws!CreateALB(cfg, secure, cert)
            = (((Aws!SecurityGroup(Aws!AlbSg, cfg, a) \o Aws!CreateLbLogsBucket)
                  \o <<Aws!Res(Aws!Alb, b)>>)
                  \o Aws!When(secure, <<Aws!ResWith(Aws!Https, c, [default |-> d])>>))
                  \o <<Aws!ResWith(Aws!Http, e, [default |-> f])>>
      BY DEF Aws!CreateALB
    <2> HIDE DEF a, b, c, d, e, f
    <2>2. Piece(pr, Aws!SecurityGroup(Aws!AlbSg, cfg, a))
      BY AwsGroup DEF Aws!AlbSg, Guarded
    <2>3. Piece(pr, Aws!CreateLbLogsBucket)
      <3>1. \E bucket, name :
              Aws!CreateLbLogsBucket
                = Aws!CreatePrivateBucket("Project", name, {})
                  \o <<Aws!Res(Aws!Urn("Project", "s3.BucketLifecycle", name), {bucket}),
                       Aws!Res(Aws!Urn("Project", "s3.BucketPolicy", name), {bucket})>>
        BY Zenon DEF Aws!CreateLbLogsBucket
      <3>2. \A bucket, name :
              Piece(pr, <<Aws!Res(Aws!Urn("Project", "s3.BucketLifecycle", name), {bucket}),
                          Aws!Res(Aws!Urn("Project", "s3.BucketPolicy", name), {bucket})>>)
        BY AwsMade, Some
      <3> QED BY <3>1, <3>2, AwsBucket, Then
    <2>4. Piece(pr, <<Aws!Res(Aws!Alb, b)>>)
      <3>1. Sound(pr, Aws!Res(Aws!Alb, b))
        BY DEF Sound, SizeSound, ProbeSound, TaskSound, DoorSound, BalancerSound, TypeOf, Aws!Res, Aws!ResWith,
               Aws!Alb, Aws!Urn
      <3> QED BY <3>1, Some
    <2>5. Piece(pr, Aws!When(secure, <<Aws!ResWith(Aws!Https, c, [default |-> d])>>))
      BY AwsMade, Some DEF Aws!Https
    <2>6. Piece(pr, <<Aws!ResWith(Aws!Http, e, [default |-> f])>>)
      BY AwsMade, Some DEF Aws!Http
    <2> QED BY <2>1, <2>2, <2>3, <2>4, <2>5, <2>6, Then
  <1> DEFINE hosts == Aws!ProjectHosts(cfg)
             h == [i \in DOMAIN hosts |->
                     Aws!CreateRecord("Project", hosts[i], "A", Aws!ThroughDns(cfg) \cup {Aws!Alb}, "alb")]
             cert == Aws!CreateCertificateDNS("Project", hosts, cfg)
             alb == Aws!CreateALB(cfg, TRUE, {Aws!ValidationUrn("Project", hosts)})
  <1>2. /\ Aws!CreateIngress(cfg) = (IF Aws!OwnDomain(cfg) THEN (cert \o alb) \o FlattenSeq(h)
                                     ELSE Aws!CreateALB(cfg, cfg.albCert, {}))
        /\ h = [i \in DOMAIN hosts |-> h[i]]
    BY AwsAlike DEF Aws!CreateIngress, Aws!ForEach
  <1>3. IsASequence(hosts)
    <2> DEFINE wild == << <<"*">> >> \o cfg.projectDomain
               apex == IF cfg.apex THEN <<cfg.projectDomain>> ELSE << >>
    <2>1. hosts = IF ~Aws!OwnDomain(cfg) THEN << >> ELSE <<wild>> \o apex
      BY Zenon DEF Aws!ProjectHosts
    <2> HIDE DEF wild, hosts
    <2>2. IsASequence(<< >>) /\ IsASequence(<<wild>>) /\ IsASequence(apex)
      <3>1. \A a : IsASequence(<< >>) /\ IsASequence(<<a>>)
        BY Tuples
      <3> QED BY <3>1
    <2> HIDE DEF apex
    <2> QED BY <2>1, <2>2, ConcatSequence
  <1>4. Piece(pr, cert) /\ Piece(pr, alb)
    BY <1>1, <1>3, AwsCertificate
  <1> HIDE DEF cert, alb, hosts
  <1>5. \A i \in DOMAIN hosts : Piece(pr, h[i])
    BY AwsRecord
  <1> HIDE DEF h
  <1>6. Piece(pr, FlattenSeq(h))
    BY <1>2, <1>3, <1>5, Each
  <1>7. Piece(pr, (cert \o alb) \o FlattenSeq(h))
    BY <1>4, <1>6, Then
  <1> QED BY <1>1, <1>2, <1>7

\* The project's shared infrastructure.
LEMMA AwsInfra ==
  ASSUME NEW pr, NEW cfg
  PROVE  Piece(pr, Aws!InfraPlan(pr, cfg))
  <1> USE DEF Special, Rounded, Aws!P
  <1> DEFINE services == Aws!Normalized(pr).services
             builds == \E name \in DOMAIN services : Aws!NeedsBuild(services[name])
             q1 == Aws!ResolveNetworking(cfg)
             q2 == Aws!SecurityGroup(Aws!SvcSg, cfg, {})
             q3 == <<Aws!Res(Aws!Cluster, {}), Aws!Res(Aws!LogGroup, {})>>
             q4 == Aws!CreateECSLifecycleToCWLogs
             q5 == Aws!CreateExecutionRole
             q6 == Aws!When(builds, Aws!CreateBuildInfra)
             q7 == Aws!CreateEcrPullThroughCache
             q8 == Aws!AttachPullThroughCachePolicy
             q9 == Aws!When(cfg.dnsRole, <<Aws!Res(Aws!DnsProvider, {})>>)
             q10 == Aws!When(Aws!NeedIngress(services), Aws!CreateIngress(cfg))
             q11 == Aws!When(Aws!IsProjectUsingLLM(services), <<Aws!Res(Aws!BedrockPolicy, {})>>)
             q12 == <<Aws!Res(Aws!Route53SidecarPolicy, {Aws!PrivateZone})>>
  <1>1. Aws!InfraPlan(pr, cfg)
          = ((((((((((q1 \o q2) \o q3) \o q4) \o q5) \o q6) \o q7) \o q8) \o q9) \o q10) \o q11) \o q12
    BY DEF Aws!InfraPlan, Aws!CreateProjectInfra
  <1>2. Piece(pr, q1)
    <2> DEFINE a == Aws!When(cfg.vpc = "new", <<Aws!Res(Aws!Vpc, {})>>)
               options == Aws!P("ec2.VpcDhcpOptions", "dhcp-options")
               c == Aws!When(cfg.vpc = "new",
                      <<Aws!Res(options, {}),
                        Aws!Res(Aws!P("ec2.VpcDhcpOptionsAssociation", "dhcp-options-association"),
                                {options, Aws!Vpc})>>)
    <2>1. q1 = (a \o Aws!CreatePrivateZone(cfg)) \o c
      BY Zenon DEF Aws!ResolveNetworking
    <2>2. Piece(pr, a) /\ Piece(pr, c)
      <3>1. Piece(pr, <<Aws!Res(Aws!Vpc, {})>>)
        BY AwsMade, Some DEF Aws!Vpc
      <3>2. Piece(pr, <<Aws!Res(options, {}),
                        Aws!Res(Aws!P("ec2.VpcDhcpOptionsAssociation", "dhcp-options-association"),
                                {options, Aws!Vpc})>>)
        BY AwsMade, Some
      <3> QED BY <3>1, <3>2, AwsMade
    <2>3. Piece(pr, Aws!CreatePrivateZone(cfg))
      <3>1. Piece(pr, <<Aws!Res(Aws!PrivateZone, Aws!InVpc(cfg))>>)
        BY AwsMade, Some DEF Aws!PrivateZone
      <3>2. Piece(pr, Aws!CreateRecord("Project", Aws!PrivateDomain, "SOA", {Aws!PrivateZone}, "zone"))
        BY AwsRecord
      <3> QED BY <3>1, <3>2, Then DEF Aws!CreatePrivateZone
    <2> HIDE DEF a, c, q1
    <2> QED BY <2>1, <2>2, <2>3, Then
  <1>3. Piece(pr, q2)
    BY AwsGroup DEF Aws!SvcSg, Guarded
  <1>4. Piece(pr, q3)
    BY AwsMade, Some DEF Aws!Cluster, Aws!LogGroup
  <1>5. Piece(pr, q4)
    <2>1. \A a, b, c : /\ Sound(pr, Aws!Res(Aws!EventLogs, {})) /\ Sound(pr, Aws!Res(Aws!EventPolicy, a))
                       /\ Sound(pr, Aws!Res(Aws!EventRule, b)) /\ Sound(pr, Aws!Res(Aws!EventTarget, c))
      BY AwsMade DEF Aws!EventLogs, Aws!EventPolicy, Aws!EventRule, Aws!EventTarget
    <2> QED BY <2>1, Some DEF Aws!CreateECSLifecycleToCWLogs
  <1>6. Piece(pr, q5)
    <2>1. Piece(pr, <<Aws!Res(Aws!ExecRole, {})>>)
      BY AwsMade, Some DEF Aws!ExecRole
    <2>2. /\ Piece(pr, Aws!Grant(Aws!P("iam.RolePolicyAttachment", "exec-policy"), Aws!ExecRole, {}))
          /\ Piece(pr, Aws!Grant(Aws!P("iam.RolePolicy", "exec-get-secrets"), Aws!ExecRole, {}))
      BY AwsGroup
    <2> QED BY <2>1, <2>2, Then DEF Aws!CreateExecutionRole
  <1>7. Piece(pr, q6)
    <2>1. Piece(pr, <<Aws!Res(Aws!BuildRepo, {})>>) /\ Piece(pr, <<Aws!Res(Aws!BuildRole, {})>>)
      BY AwsMade, Some DEF Aws!BuildRepo, Aws!BuildRole
    <2>2. Piece(pr, Aws!Grant(Aws!P("iam.RolePolicy", "codebuild-role-policy"), Aws!BuildRole,
                              {Aws!LogGroup, Aws!BuildRepo}))
      BY AwsGroup
    <2>3. Piece(pr, Aws!CreateCodeBuildRole)
      BY <2>1, <2>2, Then DEF Aws!CreateCodeBuildRole
    <2>4. Piece(pr, Aws!CreateBuildInfra)
      BY <2>1, <2>3, Then DEF Aws!CreateBuildInfra
    <2> QED BY <2>4, AwsMade
  <1>8. Piece(pr, q7)
    BY AwsMade, Some DEF Aws!CreateEcrPullThroughCache, Aws!CacheRule
  <1>9. Piece(pr, q8)
    BY AwsGroup DEF Aws!AttachPullThroughCachePolicy
  <1>10. Piece(pr, q9)
    <2>1. Piece(pr, <<Aws!Res(Aws!DnsProvider, {})>>)
      BY AwsMade, Some DEF Aws!DnsProvider
    <2> QED BY <2>1, AwsMade
  <1>11. Piece(pr, q10)
    <2>1. Aws!NeedIngress(services) => Balanced(pr)
      BY DEF Balanced
    <2> HIDE DEF services
    <2> QED BY <2>1, AwsIngress, AwsMade
  <1>12. Piece(pr, q11)
    <2>1. Piece(pr, <<Aws!Res(Aws!BedrockPolicy, {})>>)
      BY AwsMade, Some DEF Aws!BedrockPolicy
    <2> QED BY <2>1, AwsMade
  <1>13. Piece(pr, q12)
    BY AwsMade, Some DEF Aws!Route53SidecarPolicy
  <1> HIDE DEF q1, q2, q3, q4, q5, q6, q7, q8, q9, q10, q11, q12
  <1> DEFINE a == ((q1 \o q2) \o q3) \o q4
             b == ((a \o q5) \o q6) \o q7
             c == ((b \o q8) \o q9) \o q10
  <1>14. Piece(pr, a)
    BY <1>2, <1>3, <1>4, <1>5, Then
  <1>15. Aws!InfraPlan(pr, cfg) = (c \o q11) \o q12
    BY <1>1
  <1> HIDE DEF a
  <1>16. Piece(pr, b)
    BY <1>6, <1>7, <1>8, <1>14, Then
  <1> HIDE DEF b
  <1>17. Piece(pr, c)
    BY <1>9, <1>10, <1>11, <1>16, Then
  <1> HIDE DEF c
  <1> QED BY <1>12, <1>13, <1>15, <1>17, Then

-----------------------------------------------------------------------------
\* A database's alarms.
LEMMA AwsAlarms ==
  ASSUME NEW pr, NEW parent, NEW name, NEW suffixes, IsASequence(suffixes), NEW main, NEW cfg
  PROVE  Piece(pr, Aws!CreateDBAlarms(parent, name, suffixes, main, cfg))
  <1> DEFINE f == [i \in DOMAIN suffixes |->
                     <<Aws!Res(Aws!Urn(parent, "cloudwatch.MetricAlarm", name \o suffixes[i]), {main})>>]
  <1>1. /\ Aws!CreateDBAlarms(parent, name, suffixes, main, cfg) = Aws!When(cfg.alarms, FlattenSeq(f))
        /\ f = [i \in DOMAIN suffixes |-> f[i]]
    BY AwsAlike DEF Aws!CreateDBAlarms, Aws!ForEach
  <1>2. \A i \in DOMAIN suffixes : Piece(pr, f[i])
    BY AwsMade, Some DEF Special, Rounded
  <1> HIDE DEF f
  <1>3. Piece(pr, FlattenSeq(f))
    BY <1>1, <1>2, Each
  <1> QED BY <1>1, <1>3, AwsMade

\* The resource that a database is, its name and what they refer to.
LEMMA AwsStore ==
  ASSUME NEW pr, NEW parent, NEW name, NEW svc, NEW cfg, NEW default, NEW front, Piece(pr, front),
         NEW main, Sound(pr, main), NEW back, Piece(pr, back)
  PROVE  LET p == (((front \o Aws!StoreSg(parent, name, svc, cfg, default)) \o <<main>>) \o back)
                  \o Aws!StoreRecord(parent, name, main.urn)
         IN  /\ Piece(pr, p) /\ main \in ToSet(p)
             /\ \E r \in ToSet(p) : /\ r.urn = Aws!RecordUrn(parent, <<Aws!ServiceLabel(name)>>, "CNAME")
                                    /\ main.urn \in r.after
  <1> DEFINE sg == Aws!StoreSg(parent, name, svc, cfg, default)
             record == Aws!StoreRecord(parent, name, main.urn)
             own == <<main>>
  <1>1. Piece(pr, sg)
    <2> DEFINE ingress == {[port |-> Aws!FirstPort(svc, default), from |-> Aws!SvcSg]}
    <2>1. \A urn : Guarded(pr, urn, ingress)
      BY DEF Guarded, Aws!SvcSg, Aws!Anyone, Aws!P, Aws!Urn
    <2>2. sg = Aws!SecurityGroup(Aws!Urn(parent, "ec2.SecurityGroup", name), cfg, ingress)
      BY Zenon DEF Aws!StoreSg
    <2> HIDE DEF sg, ingress
    <2> QED BY <2>1, <2>2, AwsGroup
  <1>2. PICK r \in ToSet(record) : /\ r.urn = Aws!RecordUrn(parent, <<Aws!ServiceLabel(name)>>, "CNAME")
                                   /\ main.urn \in r.after
    BY AwsRecord DEF Aws!StoreRecord
  <1>3. Piece(pr, record)
    BY AwsRecord DEF Aws!StoreRecord
  <1>4. Piece(pr, own) /\ main \in ToSet(own)
    BY Some, Two
  <1> HIDE DEF sg, record, own
  <1> DEFINE a == front \o sg
             b == a \o own
             c == b \o back
  <1>5. Piece(pr, a)
    BY <1>1, Then
  <1> HIDE DEF a
  <1>6. Piece(pr, b) /\ main \in ToSet(b)
    BY <1>4, <1>5, Keeps
  <1> HIDE DEF b
  <1>7. Piece(pr, c) /\ main \in ToSet(c)
    BY <1>6, Keeps
  <1> HIDE DEF c
  <1>8. Piece(pr, c \o record) /\ main \in ToSet(c \o record) /\ r \in ToSet(c \o record)
    BY <1>2, <1>3, <1>7, Keeps
  <1> QED BY <1>2, <1>8 DEF a, b, c, sg, own, record

\* A plan with the service's resource, which follows deps, and what its dependents
\* wait for: that resource, or one that refers to it.
Provides(pr, p, main, deps, handle) ==
  /\ Piece(pr, p)
  /\ \E r \in ToSet(p) : r.urn = main /\ deps \subseteq r.after
  /\ \E r \in ToSet(p) : r.urn = handle /\ (handle = main \/ main \in r.after)

\* A Postgres database.
LEMMA AwsPostgres ==
  ASSUME NEW pr, NEW name, NEW svc, Readable(svc), NEW cfg, NEW deps
  PROVE  Provides(pr, Aws!CreatePostgres(name, svc, cfg, deps), Aws!RdsInstance(name), deps,
                  Aws!RecordUrn("Postgres", <<Aws!ServiceLabel(name)>>, "CNAME"))
  <1> USE DEF Special, Rounded
  <1>1. \A parent, type, after, fit : type \notin Special /\ Fits(fit) =>
          LET r == Aws!ResWith(Aws!Urn(parent, type, name), after, [public |-> FALSE, fit |-> fit])
          IN  Sound(pr, r) /\ r.urn = Aws!Urn(parent, type, name) /\ r.after = after
    BY AwsMade DEF Aws!ResWith
  <1>2. \A a, b : IsASequence(<<a, b>>)
    BY Tuples
  <1> DEFINE group == Aws!Urn("Postgres", "rds.SubnetGroup", name)
             front == <<Aws!Res(group, Aws!InVpc(cfg))>>
             main == Aws!ResWith(Aws!RdsInstance(name),
                       {group, Aws!Urn("Postgres", "ec2.SecurityGroup", name)} \cup deps,
                       [public |-> FALSE, fit |-> Aws!RdsInstanceClass(Aws!Asked(svc), cfg.tier)])
             suffixes == << <<"cpu", "usage">>, <<"free", "storage">> >>
             back == Aws!CreateDBAlarms("Postgres", name, suffixes, Aws!RdsInstance(name), cfg)
             sg == Aws!StoreSg("Postgres", name, svc, cfg, 5432)
             record == Aws!StoreRecord("Postgres", name, Aws!RdsInstance(name))
  <1>3. Aws!CreatePostgres(name, svc, cfg, deps) = (((front \o sg) \o <<main>>) \o back) \o record
    BY DEF Aws!CreatePostgres, Aws!CreateRDS
  <1>4. Piece(pr, front)
    BY AwsMade, Some
  <1>5. Sound(pr, main) /\ main.urn = Aws!RdsInstance(name) /\ deps \subseteq main.after
    <2>1. Fits(Aws!RdsInstanceClass(Aws!Asked(svc), cfg.tier))
      BY AwsAlike, AwsSizes
    <2> QED BY <1>1, <2>1 DEF Aws!RdsInstance
  <1>6. Piece(pr, back)
    BY <1>2, AwsAlarms
  <1> HIDE DEF front, main, back
  <1> DEFINE p == (((front \o Aws!StoreSg("Postgres", name, svc, cfg, 5432)) \o <<main>>) \o back)
                  \o Aws!StoreRecord("Postgres", name, main.urn)
  <1>7. /\ Piece(pr, p) /\ main \in ToSet(p)
        /\ \E r \in ToSet(p) : /\ r.urn = Aws!RecordUrn("Postgres", <<Aws!ServiceLabel(name)>>, "CNAME")
                               /\ main.urn \in r.after
    BY <1>4, <1>5, <1>6, AwsStore
  <1>8. Aws!CreatePostgres(name, svc, cfg, deps) = p
    BY <1>3, <1>5
  <1> HIDE DEF p
  <1> QED BY <1>5, <1>7, <1>8 DEF Provides

\* A Redis database, of either engine.
LEMMA AwsRedis ==
  ASSUME NEW pr, NEW name, NEW svc, Readable(svc), NEW cfg, NEW deps
  PROVE  Provides(pr, Aws!CreateRedis(name, svc, cfg, deps), Aws!RedisMain(name, cfg), deps,
                  Aws!RecordUrn("Redis", <<Aws!ServiceLabel(name)>>, "CNAME"))
  <1> USE DEF Special, Rounded
  <1>1. \A parent, type, after, fit : type \notin Special /\ Fits(fit) =>
          LET r == Aws!ResWith(Aws!Urn(parent, type, name), after, [public |-> FALSE, fit |-> fit])
          IN  Sound(pr, r) /\ r.urn = Aws!Urn(parent, type, name) /\ r.after = after
    BY AwsMade DEF Aws!ResWith
  <1>2. \A a, b : IsASequence(<<a, b>>)
    BY Tuples
  <1>3. ASSUME cfg.redisEngine = "memorydb"
        PROVE  Provides(pr, Aws!CreateRedis(name, svc, cfg, deps), Aws!RedisMain(name, cfg), deps,
                        Aws!RecordUrn("Redis", <<Aws!ServiceLabel(name)>>, "CNAME"))
    <2> DEFINE group == Aws!Urn("Redis", "memorydb.SubnetGroup", name)
               parameters == Aws!Urn("Redis", "memorydb.ParameterGroup", name)
               front == <<Aws!Res(group, Aws!InVpc(cfg)), Aws!Res(parameters, {})>>
               main == Aws!ResWith(Aws!MemoryDBCluster(name),
                         {group, parameters, Aws!Urn("Redis", "ec2.SecurityGroup", name)} \cup deps,
                         [public |-> FALSE, fit |-> Aws!MemoryDBNodeType(Aws!Asked(svc), cfg.tier)])
               suffixes == << <<"memory", "usage">>, <<"cpu", "usage">> >>
               back == Aws!CreateDBAlarms("Redis", name, suffixes, Aws!MemoryDBCluster(name), cfg)
               sg == Aws!StoreSg("Redis", name, svc, cfg, 6379)
               record == Aws!StoreRecord("Redis", name, Aws!MemoryDBCluster(name))
    <2>1. Aws!CreateRedis(name, svc, cfg, deps) = (((front \o sg) \o <<main>>) \o back) \o record
      BY <1>3 DEF Aws!CreateRedis, Aws!CreateMemoryDB, Aws!RedisMain
    <2>2. Piece(pr, front)
      BY AwsMade, Some
    <2>3. Sound(pr, main) /\ main.urn = Aws!MemoryDBCluster(name) /\ deps \subseteq main.after
      <3>1. Fits(Aws!MemoryDBNodeType(Aws!Asked(svc), cfg.tier))
        BY AwsAlike, AwsSizes
      <3> QED BY <1>1, <3>1 DEF Aws!MemoryDBCluster
    <2>4. Piece(pr, back)
      BY <1>2, AwsAlarms
    <2>5. Aws!RedisMain(name, cfg) = Aws!MemoryDBCluster(name)
      BY <1>3 DEF Aws!RedisMain
    <2> HIDE DEF front, main, back
    <2> DEFINE p == (((front \o Aws!StoreSg("Redis", name, svc, cfg, 6379)) \o <<main>>) \o back)
                    \o Aws!StoreRecord("Redis", name, main.urn)
    <2>6. /\ Piece(pr, p) /\ main \in ToSet(p)
          /\ \E r \in ToSet(p) : /\ r.urn = Aws!RecordUrn("Redis", <<Aws!ServiceLabel(name)>>, "CNAME")
                                 /\ main.urn \in r.after
      BY <2>2, <2>3, <2>4, AwsStore
    <2>7. Aws!CreateRedis(name, svc, cfg, deps) = p
      BY <2>1, <2>3
    <2> HIDE DEF p
    <2> QED BY <2>3, <2>5, <2>6, <2>7 DEF Provides
  <1>4. ASSUME cfg.redisEngine # "memorydb"
        PROVE  Provides(pr, Aws!CreateRedis(name, svc, cfg, deps), Aws!RedisMain(name, cfg), deps,
                        Aws!RecordUrn("Redis", <<Aws!ServiceLabel(name)>>, "CNAME"))
    <2> DEFINE group == Aws!Urn("Redis", "elasticache.SubnetGroup", name)
               front == <<Aws!Res(group, Aws!InVpc(cfg))>>
               main == Aws!ResWith(Aws!ReplicationGroup(name),
                         {group, Aws!Urn("Redis", "ec2.SecurityGroup", name)} \cup deps,
                         [public |-> FALSE, fit |-> Aws!CacheNodeType(Aws!Asked(svc), cfg.tier)])
               suffixes == << <<"memory", "usage">>, <<"cpu", "usage">> >>
               nodes == [i \in 1 .. Aws!GetReplicas(svc) |-> i]
               f == [i \in DOMAIN nodes |->
                       Aws!CreateDBAlarms("Redis", name \o Aws!NodeSuffix(nodes[i]), suffixes,
                                          Aws!ReplicationGroup(name), cfg)]
               back == FlattenSeq(f)
               sg == Aws!StoreSg("Redis", name, svc, cfg, 6379)
               record == Aws!StoreRecord("Redis", name, Aws!ReplicationGroup(name))
    <2>1. Aws!CreateRedis(name, svc, cfg, deps) = (((front \o sg) \o <<main>>) \o back) \o record
      <3>1. Aws!CreateRedis(name, svc, cfg, deps) = Aws!CreateElasticache(name, svc, cfg, deps) \o record
        BY <1>4, Zenon DEF Aws!CreateRedis, Aws!RedisMain
      <3>2. Aws!CreateElasticache(name, svc, cfg, deps)
              = ((front \o sg) \o <<main>>) \o Aws!FlattenSeq(f)
        BY Zenon DEF Aws!CreateElasticache, Aws!ForEach
      <3>3. Aws!FlattenSeq(f) = back
        BY AwsAlike, Zenon
      <3> HIDE DEF front, sg, main, back, record, f
      <3> QED BY <3>1, <3>2, <3>3
    <2>2. Piece(pr, front)
      BY AwsMade, Some
    <2>3. Sound(pr, main) /\ main.urn = Aws!ReplicationGroup(name) /\ deps \subseteq main.after
      <3>1. Fits(Aws!CacheNodeType(Aws!Asked(svc), cfg.tier))
        BY AwsAlike, AwsSizes
      <3> QED BY <1>1, <3>1 DEF Aws!ReplicationGroup
    <2>4. Piece(pr, back)
      <3>1. IsASequence(nodes) /\ f = [i \in DOMAIN nodes |-> f[i]]
        <4>1. Aws!GetReplicas(svc) \in Nat
          BY DEF Aws!GetReplicas, Readable
        <4>2. nodes = [i \in 1 .. Aws!GetReplicas(svc) |-> nodes[i]]
          OBVIOUS
        <4> HIDE DEF nodes
        <4>3. IsASequence(nodes)
          BY <4>1, <4>2, MapSequence
        <4> QED BY <4>3
      <3>2. \A i \in DOMAIN nodes : Piece(pr, f[i])
        BY <1>2, AwsAlarms
      <3> HIDE DEF nodes, f
      <3> QED BY <3>1, <3>2, Each
    <2>5. Aws!RedisMain(name, cfg) = Aws!ReplicationGroup(name)
      BY <1>4 DEF Aws!RedisMain
    <2> HIDE DEF front, main, back
    <2> DEFINE p == (((front \o Aws!StoreSg("Redis", name, svc, cfg, 6379)) \o <<main>>) \o back)
                    \o Aws!StoreRecord("Redis", name, main.urn)
    <2>6. /\ Piece(pr, p) /\ main \in ToSet(p)
          /\ \E r \in ToSet(p) : /\ r.urn = Aws!RecordUrn("Redis", <<Aws!ServiceLabel(name)>>, "CNAME")
                                 /\ main.urn \in r.after
      BY <2>2, <2>3, <2>4, AwsStore
    <2>7. Aws!CreateRedis(name, svc, cfg, deps) = p
      BY <2>1, <2>3
    <2> HIDE DEF p
    <2> QED BY <2>3, <2>5, <2>6, <2>7 DEF Provides
  <1> QED BY <1>3, <1>4

\* The host names of a service, grouped by certificate, are sequences.
LEMMA AwsHosts ==
  ASSUME NEW svc, Readable(svc), NEW base
  PROVE  IsASequence(Aws!ByodHostnames(svc)) /\ IsASequence(Aws!GroupHostnamesByCert(Aws!ByodHostnames(svc), base))
  <1> DEFINE hosts == Aws!ByodHostnames(svc)
             f == [i \in DOMAIN hosts |-> IF hosts[i] = base THEN <<hosts[i]>> ELSE << >>]
             g == [i \in DOMAIN hosts |-> IF hosts[i] # base /\ Aws!BaseOf(hosts[i]) = base
                                          THEN <<hosts[i]>> ELSE << >>]
  <1>1. IsASequence(hosts)
    <2>1. IsASequence(svc.aliases) /\ IsASequence(<<svc.domain>>) /\ IsASequence(<< >>)
      BY Tuples DEF Readable
    <2> QED BY <2>1, ConcatSequence DEF Aws!ByodHostnames
  <1>2. Aws!GroupHostnamesByCert(hosts, base) = FlattenSeq(f) \o FlattenSeq(g)
    BY AwsAlike DEF Aws!GroupHostnamesByCert, Aws!Selected
  <1>3. /\ f = [i \in DOMAIN hosts |-> f[i]] /\ g = [i \in DOMAIN hosts |-> g[i]]
        /\ \A i \in DOMAIN hosts : f[i] = <<hosts[i]>> \/ f[i] = << >>
        /\ \A i \in DOMAIN hosts : g[i] = <<hosts[i]>> \/ g[i] = << >>
    OBVIOUS
  <1> HIDE DEF hosts, f, g
  <1>4. IsASequence(FlattenSeq(f)) /\ IsASequence(FlattenSeq(g))
    BY <1>1, <1>3, Filtered
  <1> QED BY <1>1, <1>2, <1>4, ConcatSequence DEF hosts

\* The certificates and records of a service.
LEMMA AwsDomains ==
  ASSUME NEW pr, NEW name, NEW svc, Readable(svc), NEW cfg, NEW infra
  PROVE  Piece(pr, Aws!CreateCertsAndRoute53Dns(name, svc, cfg, infra))
  <1> USE DEF Special, Rounded
  <1> DEFINE hosts == Aws!ByodHostnames(svc)
             bases == InOrder(Aws!ByodBases(svc, infra))
             Group(base) == Aws!GroupHostnamesByCert(hosts, base)
             Records(group) == [i \in DOMAIN group |->
                Aws!CreateRecord("Service", group[i], "A", Aws!ThroughDns(cfg) \cup infra.alb, "alb")]
             Parts(base) == (Aws!CreateCertificateDNS("Service", Group(base), cfg)
                             \o Aws!ListenerCertificate(name, base, Group(base), infra))
                            \o FlattenSeq(Records(Group(base)))
             f == [i \in DOMAIN bases |->
                     Aws!When(Aws!GetHostedZoneForHost(cfg, bases[i]) = "found", Parts(bases[i]))]
  <1>1. Aws!CreateCertsAndRoute53Dns(name, svc, cfg, infra) = FlattenSeq(f) /\ f = [i \in DOMAIN bases |-> f[i]]
    BY AwsAlike DEF Aws!CreateCertsAndRoute53Dns, Aws!ForEach
  <1>2. IsASequence(bases)
    <2> DEFINE b == [i \in DOMAIN hosts |-> Aws!BaseOf(hosts[i])]
    <2>1. IsASequence(hosts)
      BY AwsHosts
    <2> HIDE DEF hosts
    <2>2. IsFiniteSet({b[i] : i \in DOMAIN hosts}) /\ IsFiniteSet({})
      BY <2>1, FiniteElements, FS_EmptySet, Zenon
    <2>3. Aws!ByodBases(svc, infra) = {} \/ Aws!ByodBases(svc, infra) = {b[i] : i \in DOMAIN hosts}
      BY AwsAlike DEF Aws!ByodBases, Aws!CertBases, ToSet, hosts
    <2> QED BY <2>2, <2>3, Ordered
  <1>3. \A group : IsASequence(group) => Piece(pr, FlattenSeq(Records(group)))
    <2> SUFFICES ASSUME NEW group, IsASequence(group) PROVE Piece(pr, FlattenSeq(Records(group)))
      OBVIOUS
    <2> DEFINE h == Records(group)
    <2>1. h = [i \in DOMAIN group |-> h[i]] /\ \A i \in DOMAIN group : Piece(pr, h[i])
      BY AwsRecord
    <2> HIDE DEF h
    <2>2. Piece(pr, FlattenSeq(h))
      BY <2>1, Each
    <2> QED BY <2>2 DEF h
  <1>4. \A base, group : Piece(pr, Aws!ListenerCertificate(name, base, group, infra))
    BY AwsMade, Some DEF Aws!ListenerCertificate, Aws!ListenerCertUrn
  <1>5. \A base : Piece(pr, Parts(base))
    <2> SUFFICES ASSUME NEW base PROVE Piece(pr, Parts(base))
      OBVIOUS
    <2> DEFINE group == Group(base)
               records == FlattenSeq(Records(group))
    <2>1. IsASequence(group)
      BY AwsHosts
    <2> HIDE DEF group
    <2>2. Piece(pr, records)
      BY <1>3, <2>1
    <2> HIDE DEF records, Records
    <2>3. /\ Piece(pr, Aws!CreateCertificateDNS("Service", group, cfg))
          /\ Piece(pr, Aws!ListenerCertificate(name, base, group, infra))
      BY <1>4, <2>1, AwsCertificate
    <2>4. Piece(pr, (Aws!CreateCertificateDNS("Service", group, cfg)
                     \o Aws!ListenerCertificate(name, base, group, infra)) \o records)
      BY <2>2, <2>3, Then
    <2> QED BY <2>4 DEF group, records
  <1> HIDE DEF bases, Parts
  <1>6. \A i \in DOMAIN bases : Piece(pr, f[i])
    BY <1>5, AwsMade
  <1> HIDE DEF f
  <1> QED BY <1>1, <1>2, <1>6, Each

-----------------------------------------------------------------------------
\* The build of an image.
LEMMA AwsImage ==
  ASSUME NEW pr, NEW name, NEW svc
  PROVE  Piece(pr, Aws!GetServiceImage(name, svc))
  <1> USE DEF Special, Rounded
  <1>1. Fits(Aws!CodeBuildComputeType(Aws!GetBuildMemoryMiB(svc)))
    BY AwsAlike, AwsSizes
  <1>2. Piece(pr, Aws!CreateCodeBuildProject(name, svc))
    BY <1>1, AwsMade, Some DEF Aws!CreateCodeBuildProject, Aws!S
  <1>3. \A after : Piece(pr, <<Aws!ResWith(Aws!BuildUrn(name), after, [role |-> Aws!BuildRole])>>)
    BY AwsMade, Some DEF Aws!BuildUrn, Aws!S
  <1>4. Piece(pr, Aws!BuildServiceImage(name, svc))
    BY <1>2, <1>3, Then DEF Aws!BuildServiceImage
  <1> QED BY <1>4, AwsMade DEF Aws!GetServiceImage

\* The policies of a task role.
LEMMA AwsGrants ==
  ASSUME NEW pr, NEW name, NEW svc, Readable(svc), NEW stores, IsFiniteSet(stores)
  PROVE  /\ Piece(pr, Aws!TaskRoleGrants(name, svc, stores))
         /\ \A u \in Aws!Registered(Aws!TaskRoleGrants(name, svc, stores)) : TypeOf(u) # "ecs.TaskDefinition"
  <1>0. \A p, q : Piece(pr, p) /\ Piece(pr, q) => /\ Piece(pr, p \o q)
                                                   /\ ToSet(p \o q) = ToSet(p) \cup ToSet(q)
    BY Then
  <1> USE DEF Special, Rounded, Aws!S
  <1> DEFINE Modest(p) == Piece(pr, p) /\ \A r \in ToSet(p) : TypeOf(r.urn) # "ecs.TaskDefinition"
  <1>1. \A parent, type, n, role, after : type \notin Special =>
          Modest(Aws!Grant(Aws!Urn(parent, type, n), role, after))
    <2> SUFFICES ASSUME NEW parent, NEW type, NEW n, NEW role, NEW after, type \notin Special
                 PROVE  Modest(Aws!Grant(Aws!Urn(parent, type, n), role, after))
      OBVIOUS
    <2> DEFINE r == Aws!ResWith(Aws!Urn(parent, type, n), {role} \cup after, [role |-> role])
    <2>1. Aws!Grant(Aws!Urn(parent, type, n), role, after) = <<r>>
      BY DEF Aws!Grant
    <2>2. Sound(pr, r) /\ TypeOf(r.urn) # "ecs.TaskDefinition"
      BY AwsMade DEF Aws!ResWith, Aws!Urn, TypeOf
    <2> HIDE DEF r
    <2>3. Piece(pr, <<r>>) /\ ToSet(<<r>>) = {r}
      BY <2>2, Some, Two
    <2> QED BY <2>1, <2>2, <2>3
  <1>2. \A cond, p : Modest(p) => Modest(Aws!When(cond, p))
    <2>1. ToSet(<< >>) = {}
      BY DEF ToSet
    <2> QED BY <2>1, None DEF Aws!When
  <1>3. \A p, q : Modest(p) /\ Modest(q) => Modest(p \o q)
    BY <1>0
  <1>4. \A s, f : IsASequence(s) /\ f = [i \in DOMAIN s |-> f[i]] /\ (\A i \in DOMAIN s : Modest(f[i]))
                    => Modest(FlattenSeq(f))
    <2> SUFFICES ASSUME NEW s, NEW f, IsASequence(s), f = [i \in DOMAIN s |-> f[i]],
                        \A i \in DOMAIN s : Modest(f[i])
                 PROVE  Modest(FlattenSeq(f))
      BY Zenon
    <2>1. Piece(pr, FlattenSeq(f))
      BY Each
    <2>2. ToSet(FlattenSeq(f)) \subseteq UNION {ToSet(f[i]) : i \in DOMAIN s}
      BY FlatSequence DEF Piece
    <2> QED BY <2>1, <2>2
  <1> DEFINE kept == InOrder(stores)
             policies == InOrder(ToSet(svc.policies))
             a == Aws!When(Aws!HasHostPorts(svc),
                    Aws!Grant(Aws!S("iam.RolePolicyAttachment", name \o <<"AllowRoute53Sidecar">>),
                              Aws!TaskRole(name), {Aws!Route53SidecarPolicy}))
             b == Aws!When(svc.llm,
                    Aws!Grant(Aws!S("iam.RolePolicyAttachment", name \o <<"BedrockPolicy">>),
                              Aws!TaskRole(name), {Aws!BedrockPolicy}))
             f == [i \in DOMAIN kept |-> Aws!AttachObjectStorePolicy(name, kept[i])]
             g == [i \in DOMAIN policies |->
                     Aws!Grant(Aws!AttachmentUrn(name, policies[i]), Aws!TaskRole(name), {})]
  <1>5. Aws!TaskRoleGrants(name, svc, stores) = ((a \o b) \o FlattenSeq(f)) \o FlattenSeq(g)
        /\ f = [i \in DOMAIN kept |-> f[i]] /\ g = [i \in DOMAIN policies |-> g[i]]
    BY AwsAlike DEF Aws!TaskRoleGrants, Aws!ForEach, Aws!Policies
  <1>6. IsASequence(kept) /\ IsASequence(policies)
    <2>1. IsFiniteSet(ToSet(svc.policies))
      BY FiniteElements DEF Readable
    <2> QED BY <2>1, Ordered
  <1>7. \A i \in DOMAIN kept : Modest(f[i])
    <2> HIDE DEF kept, Modest
    <2> QED BY <1>1 DEF Aws!AttachObjectStorePolicy
  <1>8. \A i \in DOMAIN policies : Modest(g[i])
    <2> HIDE DEF policies, Modest
    <2> QED BY <1>1 DEF Aws!AttachmentUrn
  <1>9. Modest(a) /\ Modest(b)
    <2> HIDE DEF Modest
    <2> QED BY <1>1, <1>2
  <1> HIDE DEF f, g, a, b, kept, policies, Modest
  <1>10. Modest(FlattenSeq(f)) /\ Modest(FlattenSeq(g))
    BY <1>4, <1>5, <1>6, <1>7, <1>8
  <1>11. Modest(((a \o b) \o FlattenSeq(f)) \o FlattenSeq(g))
    BY <1>3, <1>9, <1>10
  <1> QED BY <1>5, <1>11 DEF Modest, Aws!Registered, ToSet

\* The environments of the containers read finitely many parameters.
LEMMA AwsSecrets ==
  ASSUME NEW name, NEW svc, Readable(svc)
  PROVE  LET environments == Aws!Environments(name, svc)
         IN  /\ IsASequence(environments)
             /\ \A i \in DOMAIN environments :
                  /\ IsFiniteSet(environments[i])
                  /\ \A u \in environments[i] : \E n : u = Aws!Urn("Service", "ssm.Parameter", n)
  <1>1. \A container, env : IsFiniteSet(DOMAIN env) =>
          /\ IsFiniteSet(Aws!ComposedSecrets(container, env))
          /\ \A u \in Aws!ComposedSecrets(container, env) : \E n : u = Aws!Urn("Service", "ssm.Parameter", n)
    <2> SUFFICES ASSUME NEW container, NEW env, IsFiniteSet(DOMAIN env)
                 PROVE  /\ IsFiniteSet(Aws!ComposedSecrets(container, env))
                        /\ \A u \in Aws!ComposedSecrets(container, env) :
                             \E n : u = Aws!Urn("Service", "ssm.Parameter", n)
      OBVIOUS
    <2> DEFINE keys == {k \in DOMAIN env : env[k] = "mixed"}
               urn == [key \in keys |-> Aws!SecretUrn(container, key)]
    <2>1. IsFiniteSet(keys)
      BY FS_Subset
    <2>2. IsFiniteSet({urn[key] : key \in keys})
      BY <2>1, FiniteImage
    <2>3. Aws!ComposedSecrets(container, env) = {urn[key] : key \in keys}
      BY DEF Aws!ComposedSecrets
    <2>4. \A key : Aws!SecretUrn(container, key) = Aws!Urn("Service", "ssm.Parameter", container \o <<"env", key>>)
      BY DEF Aws!SecretUrn, Aws!S
    <2> QED BY <2>2, <2>3, <2>4
  <1> DEFINE own == <<Aws!ComposedSecrets(name, svc.env)>>
             n == Len(svc.sidecars)
             others == [i \in DOMAIN svc.sidecars |->
                          Aws!ComposedSecrets(Aws!SidecarContainer(name, svc.sidecars[i]), svc.sidecars[i].env)]
             Good(set) == IsFiniteSet(set) /\ \A u \in set : \E m : u = Aws!Urn("Service", "ssm.Parameter", m)
  <1>2. Aws!Environments(name, svc) = own \o others
    BY DEF Aws!Environments
  <1>3. n \in Nat /\ DOMAIN svc.sidecars = 1 .. n
    BY Indices DEF Readable
  <1>4. IsASequence(own) /\ Len(own) = 1
    <2>1. \A a : IsASequence(<<a>>) /\ Len(<<a>>) = 1
      BY Tuples
    <2> QED BY <2>1
  <1>5. \A i \in 1 .. 1 : Good(own[i])
    <2>1. IsFiniteSet(DOMAIN svc.env)
      BY DEF Readable
    <2>2. own[1] = Aws!ComposedSecrets(name, svc.env) /\ \A i \in 1 .. 1 : i = 1
      OBVIOUS
    <2> HIDE DEF own
    <2> QED BY <1>1, <2>1, <2>2
  <1>6. IsASequence(others) /\ Len(others) = n
    <2>1. others = [i \in 1 .. n |-> others[i]]
      BY <1>3
    <2> HIDE DEF others
    <2> QED BY <1>3, <2>1, MapSequence
  <1>7. \A i \in 1 .. n : Good(others[i])
    <2>1. \A i \in 1 .. n : IsFiniteSet(DOMAIN svc.sidecars[i].env)
      BY <1>3 DEF Readable, ToSet
    <2> QED BY <1>1, <1>3, <2>1
  <1> HIDE DEF own, others, n, Good
  <1>8. /\ IsASequence(own \o others) /\ Len(own \o others) = 1 + n
        /\ \A i \in 1 .. 1 : (own \o others)[i] = own[i]
        /\ \A i \in 1 .. n : (own \o others)[1 + i] = others[i]
    <2>1. /\ IsASequence(own \o others) /\ Len(own \o others) = Len(own) + Len(others)
          /\ \A i \in 1 .. Len(own) : (own \o others)[i] = own[i]
          /\ \A i \in 1 .. Len(others) : (own \o others)[Len(own) + i] = others[i]
      <3>1. IsASequence(own) /\ IsASequence(others)
        BY <1>4, <1>6
      <3> QED BY <3>1, ConcatSequence
    <2>2. Len(own) = 1 /\ Len(others) = n
      BY <1>4, <1>6
    <2> QED BY <2>1, <2>2
  <1>9. DOMAIN (own \o others) = 1 .. 1 + n
    BY <1>8, Indices
  <1>10. \A i \in 1 .. 1 + n : Good((own \o others)[i])
    <2> SUFFICES ASSUME NEW i \in 1 .. 1 + n PROVE Good((own \o others)[i])
      OBVIOUS
    <2>1. i = 1 \/ \E j \in 1 .. n : i = 1 + j
      <3>1. i = 1 \/ (i - 1 \in 1 .. n /\ i = 1 + (i - 1))
        BY <1>3
      <3> QED BY <3>1
    <2> QED BY <1>5, <1>7, <1>8, <2>1
  <1> QED BY <1>2, <1>8, <1>9, <1>10 DEF Good

\* The task definition: it has a size that fits and runs the containers of its service.
LEMMA AwsTask ==
  ASSUME provider = "aws", NEW pr, ParsedProject(pr), NEW name \in DOMAIN pr.services
  PROVE  Piece(pr, Aws!TaskDefinition(name, Hosted(pr).services[name]))
  <1> USE DEF Special, Rounded
  <1> DEFINE svc == Hosted(pr).services[name]
             environments == Aws!Environments(name, svc)
             Params(set) == LET urns == InOrder(set) IN [j \in DOMAIN urns |-> <<Aws!Res(urns[j], {})>>]
             f == [i \in DOMAIN environments |-> FlattenSeq(Params(environments[i]))]
             args == [fit |-> Aws!FargateResources(Aws!Asked(svc)), secrets |-> Aws!Secrets(name, svc),
                      containers |-> Aws!Containers(name, svc)]
  <1>1. PICK after : Aws!TaskDefinition(name, svc)
                       = FlattenSeq(f) \o <<Aws!ResWith(Aws!TaskDef(name), after, args)>>
    <2> DEFINE h == [i \in DOMAIN environments |->
                       Aws!FlattenSeq([j \in DOMAIN Aws!InOrder(environments[i]) |->
                                         <<Aws!Res(Aws!InOrder(environments[i])[j], {})>>])]
    <2>1. \E after : Aws!TaskDefinition(name, svc)
                       = Aws!FlattenSeq(h) \o <<Aws!ResWith(Aws!TaskDef(name), after, args)>>
      BY Zenon DEF Aws!TaskDefinition, Aws!ForEach
    <2>2. \A s : /\ Aws!FlattenSeq([j \in DOMAIN Aws!InOrder(s) |-> <<Aws!Res(Aws!InOrder(s)[j], {})>>])
                    = FlattenSeq(Params(s))
      BY AwsAlike
    <2> HIDE DEF environments, Params
    <2>3. h = f
      BY <2>2
    <2> HIDE DEF h, f, args
    <2> QED BY <2>1, <2>3, AwsAlike
  <1>2. Readable(svc)
    BY ReadableServices
  <1>3. \A set : IsFiniteSet(set) /\ (\A u \in set : \E n : u = Aws!Urn("Service", "ssm.Parameter", n))
          => Piece(pr, FlattenSeq(Params(set)))
    <2> SUFFICES ASSUME NEW set, IsFiniteSet(set),
                        \A u \in set : \E n : u = Aws!Urn("Service", "ssm.Parameter", n)
                 PROVE  Piece(pr, FlattenSeq(Params(set)))
      OBVIOUS
    <2> DEFINE urns == InOrder(set)
               g == Params(set)
    <2>1. IsASequence(urns) /\ ToSet(urns) \subseteq set
      BY Ordered
    <2>2. g = [j \in DOMAIN urns |-> g[j]] /\ \A j \in DOMAIN urns : g[j] = <<Aws!Res(urns[j], {})>>
      OBVIOUS
    <2>3. \A n : Piece(pr, <<Aws!Res(Aws!Urn("Service", "ssm.Parameter", n), {})>>)
      BY AwsMade, Some
    <2> HIDE DEF g, urns, Params
    <2>4. \A j \in DOMAIN urns : Piece(pr, g[j])
      BY <2>1, <2>2, <2>3 DEF ToSet
    <2>5. Piece(pr, FlattenSeq(g))
      BY <2>1, <2>2, <2>4, Each
    <2> QED BY <2>5 DEF g
  <1>4. f = [i \in DOMAIN environments |-> f[i]]
    OBVIOUS
  <1>5. IsASequence(environments) /\ \A i \in DOMAIN environments : Piece(pr, f[i])
    <2>1. /\ IsASequence(environments)
          /\ \A i \in DOMAIN environments :
               /\ IsFiniteSet(environments[i])
               /\ \A u \in environments[i] : \E n : u = Aws!Urn("Service", "ssm.Parameter", n)
      BY <1>2, AwsSecrets
    <2> HIDE DEF environments, Params
    <2> QED BY <1>3, <2>1
  <1> HIDE DEF environments, Params, f
  <1>6. Piece(pr, FlattenSeq(f))
    BY <1>4, <1>5, Each
  <1>7. Fits(args.fit)
    <2>1. Aws!Asked(svc) = <<Aws!GetCPUs(svc), Aws!GetMemoryMiB(svc)>>
          /\ Aws!GetCPUs(svc) \in Nat /\ Aws!GetMemoryMiB(svc) \in Nat
      BY <1>2 DEF Aws!Asked, Aws!GetCPUs, Aws!GetMemoryMiB, Readable
    <2> QED BY <2>1, AwsAlike, FargateFits
  <1>8. args.secrets = Aws!Secrets(name, svc) /\ args.containers = Aws!Containers(name, svc)
    OBVIOUS
  <1> HIDE DEF args
  <1> DEFINE r == Aws!ResWith(Aws!TaskDef(name), after, args)
  <1>9. Sound(pr, r)
    <2>1. /\ DOMAIN r = {"urn", "after", "args"} /\ Len(r.urn) = 3 /\ r.args = args
          /\ TypeOf(r.urn) = "ecs.TaskDefinition" /\ r.urn = Aws!TaskDef(name)
      BY DEF Aws!ResWith, Aws!TaskDef, Aws!S, Aws!Urn, TypeOf
    <2> HIDE DEF r
    <2>2. Aws!Normalized(pr).services[name] = svc
      BY AwsAlike
    <2> HIDE DEF svc
    <2> QED BY <1>7, <1>8, <2>1, <2>2 DEF Sound, SizeSound, ProbeSound, TaskSound, DoorSound, BalancerSound
  <1> HIDE DEF r
  <1>10. Piece(pr, <<r>>)
    BY <1>9, Some
  <1>11. Piece(pr, FlattenSeq(f) \o <<r>>)
    BY <1>6, <1>10, Then
  <1> QED BY <1>1, <1>11 DEF r

\* The target groups and rules of a service, port by port.
AwsPairs(name, svc, cfg, infra) ==
  Aws!ForEach([i \in DOMAIN svc.ports |-> i], LAMBDA i : Aws!CreateTgLrPair(name, svc, cfg, infra, i))

\* The target groups and listener rules of the ports.
LEMMA AwsTargets ==
  ASSUME NEW pr, NEW name, NEW svc, Readable(svc), NEW cfg, NEW infra
  PROVE  Piece(pr, AwsPairs(name, svc, cfg, infra))
  <1> DEFINE indices == [i \in DOMAIN svc.ports |-> i]
             f == [i \in DOMAIN indices |-> Aws!CreateTgLrPair(name, svc, cfg, infra, indices[i])]
  <1>1. AwsPairs(name, svc, cfg, infra) = FlattenSeq(f) /\ f = [i \in DOMAIN indices |-> f[i]]
    BY AwsAlike DEF AwsPairs, Aws!ForEach
  <1>2. IsASequence(indices)
    <2>1. Len(svc.ports) \in Nat /\ DOMAIN svc.ports = 1 .. Len(svc.ports)
      BY Indices DEF Readable
    <2>2. indices = [i \in 1 .. Len(svc.ports) |-> indices[i]]
      BY <2>1
    <2> HIDE DEF indices
    <2> QED BY <2>1, <2>2, MapSequence
  <1>3. ASSUME NEW i PROVE Piece(pr, Aws!CreateTgLrPair(name, svc, cfg, infra, i))
    <2>1. PICK a, b, listener, hosts :
            Aws!CreateTgLrPair(name, svc, cfg, infra, i)
              = Aws!When(Aws!Routed(svc.ports[i]),
                  <<Aws!ResWith(Aws!TgUrn(name, svc.ports[i]), a, [check |-> Aws!TgHealthCheckTiming(svc.health)]),
                    Aws!ResWith(Aws!RuleUrn(name, svc.ports[i]), b,
                      [service |-> name, port |-> i, listener |-> listener, hosts |-> hosts])>>)
      BY Zenon DEF Aws!CreateTgLrPair
    <2> DEFINE r == Aws!ResWith(Aws!TgUrn(name, svc.ports[i]), a, [check |-> Aws!TgHealthCheckTiming(svc.health)])
               s == Aws!ResWith(Aws!RuleUrn(name, svc.ports[i]), b,
                      [service |-> name, port |-> i, listener |-> listener, hosts |-> hosts])
    <2>2. CheckSound(Aws!TgHealthCheckTiming(svc.health))
      BY AwsTiming DEF Readable
    <2>3. Sound(pr, r)
      <3>1. /\ DOMAIN r = {"urn", "after", "args"} /\ Len(r.urn) = 3 /\ TypeOf(r.urn) = "lb.TargetGroup"
            /\ r.args.check = Aws!TgHealthCheckTiming(svc.health) /\ "fit" \notin DOMAIN r.args
        BY DEF Aws!ResWith, Aws!TgUrn, Aws!S, Aws!Urn, TypeOf
      <3> HIDE DEF r
      <3> QED BY <2>2, <3>1 DEF Sound, SizeSound, ProbeSound, TaskSound, DoorSound, BalancerSound
    <2>4. Sound(pr, s)
      BY AwsMade DEF Special, Rounded, Aws!RuleUrn, Aws!S
    <2>5. Aws!CreateTgLrPair(name, svc, cfg, infra, i) = Aws!When(Aws!Routed(svc.ports[i]), <<r, s>>)
      BY <2>1
    <2> HIDE DEF r, s
    <2> QED BY <2>3, <2>4, <2>5, Some, AwsMade
  <1> HIDE DEF indices
  <1>4. \A i \in DOMAIN indices : Piece(pr, f[i])
    BY <1>3
  <1> HIDE DEF f
  <1>5. Piece(pr, FlattenSeq(f))
    BY <1>1, <1>2, <1>4, Each
  <1> QED BY <1>1, <1>5

\* A container service, which watches the parameters its task reads.
LEMMA AwsEcsService ==
  ASSUME provider = "aws", NEW pr, ParsedProject(pr), NEW name \in DOMAIN pr.services, NEW cfg, NEW infra,
         Balanced(pr) => infra.alb # {}, NEW stores, IsFiniteSet(stores),
         NEW deps, \A u \in deps : TypeOf(u) # "ecs.TaskDefinition"
  PROVE  LET p == Aws!CreateECSService(name, Hosted(pr), Hosted(pr).services[name], cfg, infra, stores, deps)
         IN  Piece(pr, p) /\ \E r \in ToSet(p) : r.urn = Aws!EcsService(name) /\ deps \subseteq r.after
  <1> USE DEF Special, Rounded
  <1> DEFINE svc == Hosted(pr).services[name]
             grants == Aws!TaskRoleGrants(name, svc, stores)
             args == [role |-> Aws!TaskRole(name), triggers |-> Aws!Triggers(name, svc),
                      public |-> Aws!AssignPublicIp(Hosted(pr), svc, infra),
                      endpoint |-> Aws!EcsEndpoint(name, svc, infra)]
             after == ((({Aws!Cluster, Aws!TaskDef(name), Aws!ServiceSg(name), Aws!SvcSg} \cup Aws!InVpc(cfg))
                          \cup {Aws!TgUrn(name, port) : port \in Aws!LoadBalanced(svc, infra)})
                         \cup Aws!LbDependsOn(name, svc, stores, infra)) \cup deps
             main == Aws!ResWith(Aws!EcsService(name), after, args)
             q1 == Aws!CreateTaskRole(name)
             q3 == Aws!TaskDefinition(name, svc)
             q4 == Aws!When(infra.alb # {}, AwsPairs(name, svc, cfg, infra))
             q5 == Aws!CreateServiceSG(name, Hosted(pr), svc, cfg, infra)
             q6 == <<main>>
             q7 == Aws!CreateCertsAndRoute53Dns(name, svc, cfg, infra)
             q8 == Aws!When(svc.scales, Aws!CreateCPUAutoscaling(name))
             whole == Aws!CreateECSService(name, Hosted(pr), svc, cfg, infra, stores, deps)
  <1>1. whole = ((((((q1 \o grants) \o q3) \o q4) \o q5) \o q6) \o q7) \o q8
    BY Zenon DEF Aws!CreateECSService, AwsPairs
  <1>2. Readable(svc)
    BY ReadableServices
  <1>3. Piece(pr, q1)
    BY AwsMade, Some DEF Aws!CreateTaskRole, Aws!TaskRole, Aws!S
  <1>4. Piece(pr, grants) /\ \A u \in Aws!Registered(grants) : TypeOf(u) # "ecs.TaskDefinition"
    BY <1>2, AwsGrants
  <1>5. Piece(pr, q3)
    BY AwsTask
  <1>6. Piece(pr, q4)
    BY <1>2, AwsTargets, AwsMade
  <1>7. Piece(pr, q5)
    <2> DEFINE ingress == {[port |-> port.target, from |-> Aws!IngressFrom(Hosted(pr), svc, port, infra)] :
                             port \in Aws!PortsOf(svc)}
    <2>1. ASSUME NEW port \in Aws!PortsOf(svc),
                 Aws!IngressFrom(Hosted(pr), svc, port, infra) = Aws!Anyone, infra.alb # {}
          PROVE  ~IsIngress(port)
      <3>1. Aws!AlbSg # Aws!Anyone
        BY DEF Aws!AlbSg, Aws!Anyone, Aws!P, Aws!Urn
      <3>2. ~Aws!IsIngress(port)
        BY <2>1, <3>1 DEF Aws!IngressFrom
      <3> QED BY <3>2, Zenon DEF Aws!IsIngress, IsIngress
    <2>2. /\ Aws!Normalized(pr).services[name] = svc /\ Aws!PortsOf(svc) = PortsOf(svc)
          /\ ParentOf(Aws!ServiceSg(name)) = "Service" /\ Aws!ServiceSg(name)[3] = name
      BY AwsAlike DEF ParentOf, Aws!ServiceSg, Aws!S, Aws!Urn, Aws!PortsOf, PortsOf
    <2>3. q5 = Aws!SecurityGroup(Aws!ServiceSg(name), cfg, ingress)
      BY Zenon DEF Aws!CreateServiceSG
    <2>4. \A rule \in ingress : \E port \in Aws!PortsOf(svc) :
            rule.port = port.target /\ rule.from = Aws!IngressFrom(Hosted(pr), svc, port, infra)
      OBVIOUS
    <2> HIDE DEF ingress, svc, q5
    <2>5. Guarded(pr, Aws!ServiceSg(name), ingress)
      BY <2>1, <2>2, <2>4 DEF Guarded
    <2> QED BY <2>3, <2>5, AwsGroup DEF Aws!ServiceSg, Aws!S
  <1>8. Piece(pr, q7)
    BY <1>2, AwsDomains
  <1>9. Piece(pr, q8)
    <2>1. \A a, b : Piece(pr, <<Aws!Res(Aws!S("appautoscaling.Target", name \o <<"scaling">>), a),
                                Aws!Res(Aws!S("appautoscaling.Policy", name \o <<"scaling", "cpu">>), b)>>)
      BY AwsMade, Some DEF Aws!S
    <2>2. Piece(pr, Aws!CreateCPUAutoscaling(name))
      BY <2>1 DEF Aws!CreateCPUAutoscaling
    <2> QED BY <2>2, AwsMade
  <1>10. \A u \in after : TypeOf(u) = "ecs.TaskDefinition" => u = Aws!TaskDef(name)
    <2>1. \A u \in {Aws!Cluster, Aws!TaskDef(name), Aws!ServiceSg(name), Aws!SvcSg} \cup Aws!InVpc(cfg) :
            TypeOf(u) = "ecs.TaskDefinition" => u = Aws!TaskDef(name)
      BY DEF Aws!Cluster, Aws!ServiceSg, Aws!SvcSg, Aws!InVpc, Aws!Vpc, Aws!P, Aws!S, Aws!Urn, TypeOf
    <2>2. \A port : /\ TypeOf(Aws!TgUrn(name, port)) # "ecs.TaskDefinition"
                    /\ TypeOf(Aws!RuleUrn(name, port)) # "ecs.TaskDefinition"
      BY DEF Aws!TgUrn, Aws!RuleUrn, Aws!S, Aws!Urn, TypeOf
    <2>3. \A u \in Aws!LbDependsOn(name, svc, stores, infra) : TypeOf(u) # "ecs.TaskDefinition"
      BY <1>4, <2>2 DEF Aws!LbDependsOn
    <2> HIDE DEF svc
    <2> QED BY <2>1, <2>2, <2>3
  <1>11. args.triggers = Aws!Secrets(name, svc) /\ "fit" \notin DOMAIN args
    BY DEF Aws!Triggers
  <1>12. deps \subseteq after
    OBVIOUS
  <1> HIDE DEF args, after
  <1>13. Sound(pr, main) /\ main.urn = Aws!EcsService(name) /\ deps \subseteq main.after
    <2>1. /\ DOMAIN main = {"urn", "after", "args"} /\ Len(main.urn) = 3 /\ main.args = args
          /\ TypeOf(main.urn) = "ecs.Service" /\ main.urn = Aws!EcsService(name) /\ main.after = after
      BY DEF Aws!ResWith, Aws!EcsService, Aws!S, Aws!Urn, TypeOf
    <2>2. Aws!Normalized(pr).services[name] = svc
      BY AwsAlike
    <2> HIDE DEF svc, main
    <2> QED BY <1>10, <1>11, <1>12, <2>1, <2>2 DEF Sound, SizeSound, ProbeSound, TaskSound, DoorSound, BalancerSound
  <1> HIDE DEF main
  <1>14. Piece(pr, q6) /\ main \in ToSet(q6)
    BY <1>13, Some, Two
  <1> HIDE DEF svc, grants, q1, q3, q4, q5, q6, q7, q8
  <1> DEFINE a == ((q1 \o grants) \o q3) \o q4
             b == a \o q5
             c == b \o q6
             d == c \o q7
  <1>15. whole = d \o q8
    BY <1>1
  <1>16. Piece(pr, a)
    BY <1>3, <1>4, <1>5, <1>6, Then
  <1> HIDE DEF a, whole
  <1>17. Piece(pr, b)
    BY <1>7, <1>16, Then
  <1> HIDE DEF b
  <1>18. Piece(pr, c) /\ main \in ToSet(c)
    BY <1>14, <1>17, Keeps
  <1> HIDE DEF c
  <1>19. Piece(pr, d) /\ main \in ToSet(d)
    BY <1>8, <1>18, Keeps
  <1> HIDE DEF d
  <1>20. Piece(pr, d \o q8) /\ main \in ToSet(d \o q8)
    BY <1>9, <1>19, Keeps
  <1> QED BY <1>13, <1>15, <1>20 DEF whole, svc

\* What the dependents of a service wait for is the service, or refers to it.
LEMMA AwsServicePlan ==
  ASSUME provider = "aws", NEW pr, ParsedProject(pr), NEW cfg, NEW name \in DOMAIN pr.services,
         \A s \in DOMAIN pr.services : pr.services[s].kind \in {"container", "postgres", "redis", "store"},
         pr.services[name].needs \subseteq DOMAIN pr.services
  PROVE  LET p == Aws!ServicePlan(name, pr, cfg)
             main == Aws!Main(name, pr, cfg)
             handle == Aws!Handle(name, pr, cfg)
         IN  /\ Piece(pr, p)
             /\ \E r \in ToSet(p) : /\ r.urn = main
                                    /\ \A d \in pr.services[name].needs : Aws!Handle(d, pr, cfg) \in r.after
             /\ \E r \in ToSet(p) : r.urn = handle /\ (handle = main \/ main \in r.after)
  <1> DEFINE svc == Hosted(pr).services[name]
             deps == Aws!CollectDeps(name, Hosted(pr), cfg)
             infra == Aws!SharedInfra(Hosted(pr), cfg, Aws!ApexServiceName(Hosted(pr)))
             stores == Aws!StoresOf(name, Hosted(pr))
             first == <<Aws!Res(Aws!Urn("Project", Aws!ComponentOf(svc.kind), name), {})>>
             ecs == Aws!CreateECSService(name, Hosted(pr), svc, cfg, infra, stores, deps)
             image == Aws!GetServiceImage(name, svc)
             bucket == Aws!CreateObjectStore(name, deps)
             parts == (CASE svc.kind = "postgres" -> Aws!CreatePostgres(name, svc, cfg, deps)
                         [] svc.kind = "redis" -> Aws!CreateRedis(name, svc, cfg, deps)
                         [] svc.kind = "store" -> bucket
                         [] OTHER -> image \o ecs)
             main == Aws!Main(name, pr, cfg)
             handle == Aws!Handle(name, pr, cfg)
  <1>1. Aws!ServicePlan(name, pr, cfg) = first \o parts
    BY AwsAlike DEF Aws!ServicePlan, Aws!NewService
  <1>2. Readable(svc) /\ svc.kind = pr.services[name].kind /\ svc.needs = pr.services[name].needs
    BY ReadableServices
  <1>3. \A d \in pr.services[name].needs : Hosted(pr).services[d].kind = pr.services[d].kind
    BY ReadableServices
  <1>4. \A d \in pr.services[name].needs : Aws!Handle(d, pr, cfg) \in deps
    <2>1. \A d \in pr.services[name].needs : Aws!Handle(d, Hosted(pr), cfg) = Aws!Handle(d, pr, cfg)
      BY <1>3 DEF Aws!Handle
    <2>2. deps = {Aws!Handle(d, Hosted(pr), cfg) : d \in svc.needs}
      BY DEF Aws!CollectDeps
    <2> HIDE DEF deps, svc
    <2> QED BY <1>2, <2>1, <2>2
  <1>5. \A u \in deps : TypeOf(u) # "ecs.TaskDefinition"
    BY DEF Aws!CollectDeps, Aws!Handle, Aws!RecordUrn, Aws!BucketUrn, Aws!EcsService, Aws!S, Aws!Urn, TypeOf
  <1>6. IsFiniteSet(stores)
    <2>1. stores \subseteq DOMAIN pr.services
      BY <1>2 DEF Aws!StoresOf
    <2> HIDE DEF stores
    <2> QED BY <2>1, FS_Subset DEF ParsedProject
  <1>7. Piece(pr, first)
    <2>1. \A kind : Aws!ComponentOf(kind) \notin Special
      BY DEF Special, Rounded, Aws!ComponentOf
    <2> QED BY <2>1, AwsMade, Some
  <1>8. Provides(pr, parts, main, deps, handle)
    <2>1. CASE svc.kind = "postgres"
      <3>1. main = Aws!RdsInstance(name) /\ handle = Aws!RecordUrn("Postgres", <<Aws!ServiceLabel(name)>>, "CNAME")
        BY <1>2, <2>1 DEF Aws!Main, Aws!Handle
      <3>2. parts = Aws!CreatePostgres(name, svc, cfg, deps)
        BY <2>1
      <3> HIDE DEF parts, main, handle, svc, deps
      <3> QED BY <1>2, <3>1, <3>2, AwsPostgres
    <2>2. CASE svc.kind = "redis"
      <3>1. main = Aws!RedisMain(name, cfg) /\ handle = Aws!RecordUrn("Redis", <<Aws!ServiceLabel(name)>>, "CNAME")
        BY <1>2, <2>2 DEF Aws!Main, Aws!Handle
      <3>2. parts = Aws!CreateRedis(name, svc, cfg, deps)
        BY <2>2
      <3> HIDE DEF parts, main, handle, svc, deps
      <3> QED BY <1>2, <3>1, <3>2, AwsRedis
    <2>3. CASE svc.kind = "store"
      <3>1. main = Aws!BucketUrn("ObjectStore", name) /\ handle = main
        BY <1>2, <2>3 DEF Aws!Main, Aws!Handle
      <3>2. parts = Aws!CreatePrivateBucket("ObjectStore", name, deps)
        BY <2>3 DEF Aws!CreateObjectStore
      <3> HIDE DEF parts, main, handle, svc, deps
      <3> QED BY <3>1, <3>2, AwsBucket DEF Provides
    <2>4. CASE svc.kind = "container"
      <3>1. main = Aws!EcsService(name) /\ handle = main
        BY <1>2, <2>4 DEF Aws!Main, Aws!Handle
      <3>2. parts = image \o ecs
        BY <2>4
      <3>3. Piece(pr, ecs) /\ \E r \in ToSet(ecs) : r.urn = Aws!EcsService(name) /\ deps \subseteq r.after
        <4>2. Balanced(pr) => infra.alb # {}
          BY AwsAlike DEF Balanced, Aws!SharedInfra
        <4> HIDE DEF deps, stores, infra, parts, main, handle, image
        <4>1. LET p == Aws!CreateECSService(name, Hosted(pr), Hosted(pr).services[name], cfg, infra, stores, deps)
              IN  Piece(pr, p) /\ \E r \in ToSet(p) : r.urn = Aws!EcsService(name) /\ deps \subseteq r.after
          BY <1>5, <1>6, <4>2, AwsEcsService, Zenon
        <4> QED BY <4>1
      <3>4. Piece(pr, image)
        BY AwsImage
      <3>5. PICK r \in ToSet(ecs) : r.urn = Aws!EcsService(name) /\ deps \subseteq r.after
        BY <3>3
      <3> HIDE DEF parts, main, handle, svc, deps, ecs, image
      <3>6. Piece(pr, image \o ecs) /\ r \in ToSet(image \o ecs)
        BY <3>3, <3>4, Keeps
      <3> QED BY <3>1, <3>2, <3>5, <3>6 DEF Provides
    <2> QED BY <1>2, <2>1, <2>2, <2>3, <2>4
  <1> HIDE DEF first, parts, main, handle, deps
  <1>9. PICK r \in ToSet(parts) : r.urn = main /\ deps \subseteq r.after
    BY <1>8 DEF Provides
  <1>10. PICK s \in ToSet(parts) : s.urn = handle /\ (handle = main \/ main \in s.after)
    BY <1>8 DEF Provides
  <1>11. Piece(pr, parts)
    BY <1>8 DEF Provides
  <1>12. Piece(pr, first \o parts) /\ r \in ToSet(first \o parts)
    BY <1>7, <1>11, Keeps
  <1>13. s \in ToSet(first \o parts)
    BY <1>7, <1>11, Keeps
  <1> QED BY <1>1, <1>4, <1>9, <1>10, <1>12, <1>13 DEF main, handle

-----------------------------------------------------------------------------
(* One step of a deployment.                                               *)

Given == provider \in DOMAIN Cases /\ case \in Cases[provider]

\* What the assumption on Cases says of the project deployed.
LEMMA GivenProject ==
  ASSUME Given
  PROVE  /\ provider \in {"aws", "gcp", "azure", "scaleway"}
         /\ ParsedProject(Project)
         /\ provider = "aws" => \A name \in DOMAIN Services :
              Services[name].kind \in {"container", "postgres", "redis", "store"}
  BY CasesAssumption DEF CasesAssumption, Given, Project, Services

\* What CreateInfra adds to the plan.
LEMMA InfraPiece == ASSUME Given PROVE Piece(Project, InfraPlan)
  <1>1. provider \in {"aws", "gcp", "azure", "scaleway"} /\ ParsedProject(Project)
    BY GivenProject
  <1>2. CASE provider = "aws"
    BY <1>2, AwsInfra DEF InfraPlan
  <1>3. CASE provider = "gcp"
    <2> DEFINE prj == Hosted(Project)
               a == Gcp!BuildGlobalConfig(prj, Config)
               b == Gcp!EnableLlmApi(Project)
    <2>1. DOMAIN prj.services = DOMAIN Project.services
      BY DEF Hosted, UDPIngressAsHost, ParsedProject
    <2>2. Piece(Project, a) /\ Piece(Project, Gcp!EnableGcpApis) /\ Piece(Project, b)
      BY <1>1, <2>1, GcpInfra DEF ParsedProject
    <2>3. InfraPlan = (a \o Gcp!EnableGcpApis) \o b
      BY <1>3, GcpNormal DEF InfraPlan, Gcp!InfraPlan
    <2> HIDE DEF a, b
    <2>4. Piece(Project, a \o Gcp!EnableGcpApis)
      BY <2>2, Then
    <2>5. Piece(Project, (a \o Gcp!EnableGcpApis) \o b)
      BY <2>2, <2>4, Then
    <2> QED BY <2>3, <2>5
  <1>4. CASE provider = "azure"
    BY <1>4, AzureInfra DEF InfraPlan
  <1>5. CASE provider = "scaleway"
    BY <1>5, ScalewayInfra DEF InfraPlan
  <1> QED BY <1>1, <1>2, <1>3, <1>4, <1>5

\* What the turn of a service adds to the plan.
LEMMA ServicePiece ==
  ASSUME Given, deployed \in Seq(DOMAIN Services), NEW name \in DOMAIN Services, InTurn(name),
         ~ServiceFails(name),
         provider = "scaleway" => \A d \in ToSet(deployed) : ~ServiceFails(d)
  PROVE  /\ Piece(Project, ServicePlan(name))
         /\ provider # "aws" =>
              \A d \in WaitsFor(name) : Leads(ServicePlan(name), Main(name), Main(d))
         /\ provider = "aws" =>
              /\ \E r \in ToSet(ServicePlan(name)) : /\ r.urn = Main(name)
                   /\ \A d \in WaitsFor(name) : Aws!Handle(d, Project, Config) \in r.after
              /\ \E r \in ToSet(ServicePlan(name)) :
                   /\ r.urn = Aws!Handle(name, Project, Config)
                   /\ Aws!Handle(name, Project, Config) = Main(name) \/ Main(name) \in r.after
         /\ WaitsFor(name) \subseteq ToSet(deployed)
  <1>1. /\ provider \in {"aws", "gcp", "azure", "scaleway"} /\ ParsedProject(Project)
        /\ provider = "aws" => \A s \in DOMAIN Services :
             Services[s].kind \in {"container", "postgres", "redis", "store"}
    BY GivenProject
  <1>2. ToSet(deployed) \subseteq DOMAIN Project.services /\ name \in DOMAIN Project.services
    BY ASequence DEF Services
  <1>3. ASSUME provider # "azure"
        PROVE  /\ WaitsFor(name) = Project.services[name].needs
               /\ WaitsFor(name) \subseteq ToSet(deployed)
    BY <1>3 DEF InTurn, WaitsFor, Services
  <1>4. CASE provider = "aws"
    <2>1. \A s \in DOMAIN Project.services :
            Project.services[s].kind \in {"container", "postgres", "redis", "store"}
      BY <1>1, <1>4 DEF Services
    <2>2. /\ ServicePlan(name) = Aws!ServicePlan(name, Project, Config)
          /\ Main(name) = Aws!Main(name, Project, Config)
      BY <1>4 DEF ServicePlan, Main
    <2>3. Project.services[name].needs \subseteq DOMAIN Project.services
      BY <1>2, <1>3, <1>4
    <2>4. LET p == Aws!ServicePlan(name, Project, Config)
              main == Aws!Main(name, Project, Config)
              handle == Aws!Handle(name, Project, Config)
          IN  /\ Piece(Project, p)
              /\ \E r \in ToSet(p) : /\ r.urn = main
                                     /\ \A d \in Project.services[name].needs :
                                          Aws!Handle(d, Project, Config) \in r.after
              /\ \E r \in ToSet(p) : r.urn = handle /\ (handle = main \/ main \in r.after)
      BY <1>1, <1>2, <1>4, <2>1, <2>3, AwsServicePlan
    <2> QED BY <1>3, <1>4, <2>2, <2>4
  <1>5. CASE provider = "gcp"
    <2>1. /\ ServicePlan(name) = Gcp!ServicePlan(name, Project, Config)
          /\ \A s : Main(s) = Gcp!Main(s, Project, Config)
      BY <1>5 DEF ServicePlan, Main
    <2>2. Project.services[name].needs \subseteq DOMAIN Project.services
      BY <1>2, <1>3, <1>5
    <2> QED BY <1>1, <1>2, <1>3, <1>5, <2>1, <2>2, GcpServicePlan
  <1>6. CASE provider = "azure"
    <2>1. /\ ServicePlan(name) = Azure!ServicePlan(name, Project, Config, deployed)
          /\ \A s : Main(s) = Azure!Main(s, Project)
          /\ WaitsFor(name) = Azure!WaitsFor(name, Project)
          /\ Azure!InTurn(name, Project, deployed)
      BY <1>6 DEF ServicePlan, Main, WaitsFor, InTurn
    <2>2. Project.services[name].uses \subseteq DOMAIN Project.services
      BY <1>1, <1>2 DEF ParsedProject
    <2>3. Azure!WaitsFor(name, Project) \subseteq ToSet(deployed)
      <3>1. CASE Azure!IsContainerApp(Project.services[name])
        <4>1. \A other \in DOMAIN Project.services :
                Azure!IsManaged(Project.services[other]) => other \in ToSet(deployed)
          BY <2>1, <3>1, Zenon DEF Azure!InTurn, Azure!IsContainerApp, ToSet, Azure!ToSet
        <4>2. Azure!WaitsFor(name, Project) =
                {used \in Project.services[name].uses : Azure!IsManagedService(Project.services[used])}
          BY <3>1, Zenon DEF Azure!WaitsFor
        <4> QED BY <2>2, <4>1, <4>2 DEF Azure!IsManaged
      <3>2. CASE ~Azure!IsContainerApp(Project.services[name])
        BY <3>2 DEF Azure!WaitsFor
      <3> QED BY <3>1, <3>2
    <2> QED BY <1>1, <1>2, <1>6, <2>1, <2>3, AzureServicePlan
  <1>7. CASE provider = "scaleway"
    <2>1. /\ ServicePlan(name) = Scaleway!ServicePlan(name, Project, Config, deployed)
          /\ \A s : Main(s) = Scaleway!Main(s, Project)
          /\ \A s : ServiceFails(s) = Scaleway!ServiceFails(s, Project, Config)
      BY <1>7 DEF ServicePlan, Main, ServiceFails
    <2>2. /\ ~Scaleway!ServiceFails(name, Project, Config)
          /\ \A d \in Project.services[name].needs : ~Scaleway!ServiceFails(d, Project, Config)
      BY <1>3, <1>7, <2>1
    <2> QED BY <1>3, <1>7, <2>1, <2>2, ScalewayServicePlan
  <1> QED BY <1>1, <1>4, <1>5, <1>6, <1>7

\* What Finish adds to the plan.
LEMMA FinalPiece ==
  ASSUME Given, deployed \in Seq(DOMAIN Services)
  PROVE  /\ Piece(Project, FinalPlan)
         /\ provider = "gcp" => Balancing(Project, FinalPlan, ToSet(deployed))
  <1>1. provider \in {"aws", "gcp", "azure", "scaleway"} /\ ParsedProject(Project)
    BY GivenProject
  <1>2. CASE provider = "gcp"
    <2>1. FinalPlan = Gcp!FinalPlan(Project, Config, deployed)
      BY <1>2 DEF FinalPlan
    <2> QED BY <1>1, <2>1, GcpFinalPlan DEF Services
  <1>3. CASE provider = "azure"
    BY <1>1, <1>3, AzureFinalPlan DEF FinalPlan
  <1>4. CASE provider \in {"aws", "scaleway"}
    BY <1>4, None DEF FinalPlan
  <1> QED BY <1>1, <1>2, <1>3, <1>4

-----------------------------------------------------------------------------
(* The inductive invariant.                                                *)

\* What waits for a service on AWS is told to wait for a resource of the plan, which
\* is the service's or refers to it.
HandleMade(p, name) ==
  \E r \in ToSet(p) :
    /\ r.urn = Aws!Handle(name, Project, Config)
    /\ Aws!Handle(name, Project, Config) = Main(name) \/ Main(name) \in r.after

\* The services deployed are led to those they wait for.
LedIn(p, name) == \A d \in WaitsFor(name) : Leads(p, Main(name), Main(d))

DeploymentInv ==
  /\ Given
  /\ stage \in {"infra", "services", "done", "failed"}
  /\ deployed \in Seq(DOMAIN Services) /\ IsInjective(deployed)
  /\ stage = "infra" => deployed = << >>
  /\ stage = "done" => ToSet(deployed) = DOMAIN Services
  /\ Piece(Project, plan)
  /\ provider = "scaleway" => \A d \in ToSet(deployed) : ~ServiceFails(d)
  /\ \A name \in ToSet(deployed) : LedIn(plan, name)
  /\ provider = "aws" => \A name \in ToSet(deployed) : HandleMade(plan, name)
  /\ stage = "done" /\ provider = "gcp" => Balancing(Project, plan, DOMAIN Services)

\* What is in the plan stays there.
LEMMA StillMade ==
  ASSUME NEW q, Piece(Project, plan), Piece(Project, q), NEW name
  PROVE  /\ LedIn(plan, name) => LedIn(plan \o q, name)
         /\ HandleMade(plan, name) => HandleMade(plan \o q, name)
  <1>1. IsASequence(plan) /\ IsASequence(q)
    BY DEF Piece
  <1>2. ToSet(plan) \subseteq ToSet(plan \o q)
    BY <1>1, ConcatSequence
  <1>3. LedIn(plan, name) => LedIn(plan \o q, name)
    BY <1>1, StillLeads DEF LedIn
  <1>4. HandleMade(plan, name) => HandleMade(plan \o q, name)
    BY <1>2, Zenon DEF HandleMade
  <1> QED BY <1>3, <1>4

\* A sequence without repetition and something new.
LEMMA Appended ==
  ASSUME NEW S, NEW s \in Seq(S), NEW e \in S
  PROVE  /\ Append(s, e) \in Seq(S) /\ ToSet(Append(s, e)) = ToSet(s) \cup {e}
         /\ IsInjective(s) /\ e \notin ToSet(s) => IsInjective(Append(s, e))
  <1>1. /\ Len(s) \in Nat /\ DOMAIN s = 1 .. Len(s)
        /\ DOMAIN Append(s, e) = 1 .. Len(s) + 1
        /\ \A i \in 1 .. Len(s) : Append(s, e)[i] = s[i]
        /\ Append(s, e)[Len(s) + 1] = e
        /\ Append(s, e) \in Seq(S)
    BY LenProperties, AppendProperties
  <1>2. 1 .. Len(s) + 1 = (1 .. Len(s)) \cup {Len(s) + 1}
    BY <1>1
  <1> DEFINE t == Append(s, e)
  <1> HIDE DEF t
  <1>3. ToSet(t) = ToSet(s) \cup {e}
    BY <1>1, <1>2 DEF ToSet, t
  <1>4. ASSUME IsInjective(s), e \notin ToSet(s) PROVE IsInjective(t)
    BY <1>1, <1>2, <1>4 DEF ToSet, IsInjective, t
  <1> QED BY <1>1, <1>3, <1>4 DEF t

\* What a plan balances, a longer one does.
LEMMA StillBalanced ==
  ASSUME NEW pr, NEW p, NEW q, ToSet(p) \subseteq ToSet(q), NEW names, Balancing(pr, p, names)
  PROVE  Balancing(pr, q, names)
  BY DEF Balancing, AllForwarded

\* The invariant holds of a deployment that starts,
LEMMA InvInit == Init => DeploymentInv
  <1> SUFFICES ASSUME Init PROVE DeploymentInv
    OBVIOUS
  <1>1. deployed \in Seq(DOMAIN Services) /\ ToSet(deployed) = {} /\ IsInjective(deployed)
    BY DEF Init, ToSet, IsInjective
  <1>2. Piece(Project, plan)
    BY None DEF Init
  <1> QED BY <1>1, <1>2 DEF Init, DeploymentInv, Given

\* and is kept by every step of it.
LEMMA InvStep == DeploymentInv /\ [Next]_vars => DeploymentInv'
  <1> SUFFICES ASSUME DeploymentInv, [Next]_vars PROVE DeploymentInv'
    OBVIOUS
  <1>1. /\ Given /\ deployed \in Seq(DOMAIN Services) /\ IsInjective(deployed)
        /\ Piece(Project, plan)
        /\ provider = "scaleway" => \A d \in ToSet(deployed) : ~ServiceFails(d)
    BY DEF DeploymentInv
  <1>2. ASSUME UNCHANGED <<provider, case>>
        PROVE  /\ Given' /\ Project' = Project /\ Config' = Config /\ Services' = Services
               /\ \A s : Main(s)' = Main(s) /\ WaitsFor(s)' = WaitsFor(s)
               /\ \A s : (provider = "scaleway" /\ ServiceFails(s)') => ServiceFails(s)
    <2>1. Given' /\ Project' = Project /\ Config' = Config /\ Services' = Services
      BY <1>1, <1>2 DEF Given, Project, Config, Services
    <2> QED BY <1>2, <2>1 DEF Main, WaitsFor, ServiceFails
  <1>3. ASSUME UNCHANGED <<provider, case>>, NEW q, plan' = q, NEW s
        PROVE  (LedIn(plan, s)' <=> LedIn(q, s)) /\ (HandleMade(plan, s)' <=> HandleMade(q, s))
    BY <1>2, <1>3 DEF LedIn, HandleMade
  <1>4. ASSUME UNCHANGED <<provider, case>>, NEW q, plan' = q, Piece(Project, q)
        PROVE  Piece(Project, plan)'
    BY <1>4, <1>2 DEF Piece, Sound, SizeSound, WholeSizes, TaskSound, DoorSound, BalancerSound
  <1>5. ASSUME CreateInfra PROVE DeploymentInv'
    <2>1. /\ UNCHANGED <<provider, case>> /\ plan' = InfraPlan /\ deployed' = << >>
          /\ stage' = "services"
      BY <1>5 DEF CreateInfra, DeploymentInv
    <2>2. Piece(Project, InfraPlan)
      BY <1>1, InfraPiece
    <2>3. ToSet(<< >>) = {} /\ IsInjective(<< >>) /\ << >> \in Seq(DOMAIN Services)
      BY DEF ToSet, IsInjective
    <2> QED BY <1>2, <1>4, <2>1, <2>2, <2>3 DEF DeploymentInv
  <1>6. ASSUME NEW name \in DOMAIN Services, Deploy(name) PROVE DeploymentInv'
    <2> DEFINE sp == ServicePlan(name)
               new == plan \o sp
    <2>1. /\ UNCHANGED <<provider, case, stage>> /\ plan' = new /\ deployed' = Append(deployed, name)
          /\ InTurn(name) /\ name \notin ToSet(deployed) /\ ~ServiceFails(name) /\ stage = "services"
      BY <1>6 DEF Deploy, Ready
    <2>2. /\ Append(deployed, name) \in Seq(DOMAIN Services) /\ IsInjective(Append(deployed, name))
          /\ ToSet(Append(deployed, name)) = ToSet(deployed) \cup {name}
      BY <1>1, <2>1, Appended
    <2>3. /\ Piece(Project, sp) /\ WaitsFor(name) \subseteq ToSet(deployed)
          /\ provider # "aws" => LedIn(sp, name)
          /\ provider = "aws" => HandleMade(sp, name)
          /\ provider = "aws" => \E r \in ToSet(sp) : /\ r.urn = Main(name)
               /\ \A d \in WaitsFor(name) : Aws!Handle(d, Project, Config) \in r.after
      BY <1>1, <2>1, ServicePiece DEF LedIn, HandleMade
    <2> HIDE DEF sp
    <2>4. Piece(Project, new) /\ IsASequence(plan) /\ IsASequence(sp) /\ ToSet(sp) \subseteq ToSet(new)
      BY <1>1, <2>3, ConcatSequence DEF Piece
    <2>5. \A s : /\ LedIn(plan, s) => LedIn(new, s)
                 /\ HandleMade(plan, s) => HandleMade(new, s)
      BY <1>1, <2>3, StillMade
    <2>6. LedIn(new, name)
      <3>1. CASE provider # "aws"
        BY <2>3, <2>4, <3>1, StillLeads DEF LedIn
      <3>2. CASE provider = "aws"
        <4>1. SUFFICES ASSUME NEW d \in WaitsFor(name) PROVE Leads(new, Main(name), Main(d))
          BY DEF LedIn
        <4>2. PICK r \in ToSet(sp) : r.urn = Main(name) /\ Aws!Handle(d, Project, Config) \in r.after
          BY <2>3, <3>2, <4>1
        <4>3. HandleMade(plan, d)
          BY <2>3, <3>2, <4>1 DEF DeploymentInv
        <4>4. PICK h \in ToSet(plan) :
                /\ h.urn = Aws!Handle(d, Project, Config)
                /\ h.urn = Main(d) \/ Main(d) \in h.after
          BY <4>3 DEF HandleMade
        <4>5. CASE h.urn = Main(d)
          <5>1. Leads(sp, Main(name), Main(d))
            BY <4>2, <4>4, <4>5 DEF Leads, ToSet
          <5> QED BY <2>4, <5>1, StillLeads
        <4>6. CASE Main(d) \in h.after
          <5>1. h.urn \in r.after
            BY <4>2, <4>4
          <5>2. Leads(new, r.urn, Main(d))
            BY <2>4, <4>2, <4>4, <4>6, <5>1, LeadsOver
          <5> QED BY <4>2, <5>2
        <4> QED BY <4>4, <4>5, <4>6
      <3> QED BY <3>1, <3>2
    <2>7. provider = "aws" => HandleMade(new, name)
      BY <2>3, <2>4, Zenon DEF HandleMade
    <2> HIDE DEF new
    <2>8. \A s \in ToSet(deployed)' : LedIn(plan, s)' /\ (provider = "aws" => HandleMade(plan, s)')
      BY <1>3, <2>1, <2>2, <2>5, <2>6, <2>7 DEF DeploymentInv
    <2>9. (provider = "scaleway" => \A d \in ToSet(deployed) : ~ServiceFails(d))'
      BY <1>1, <1>2, <2>1, <2>2
    <2> QED BY <1>2, <1>4, <2>1, <2>2, <2>4, <2>8, <2>9 DEF DeploymentInv
  <1>7. ASSUME Finish PROVE DeploymentInv'
    <2> DEFINE new == plan \o FinalPlan
    <2>1. /\ UNCHANGED <<provider, case, deployed>> /\ plan' = new /\ stage' = "done"
          /\ ToSet(deployed) = DOMAIN Services
      BY <1>7 DEF Finish, AllDeployed
    <2>2. Piece(Project, FinalPlan)
      BY <1>1, FinalPiece
    <2>3. Piece(Project, new)
      BY <1>1, <2>2, ConcatSequence DEF Piece
    <2>4. \A s : /\ LedIn(plan, s) => LedIn(new, s)
                 /\ HandleMade(plan, s) => HandleMade(new, s)
      BY <1>1, <2>2, StillMade
    <2> HIDE DEF new
    <2>5. \A s \in ToSet(deployed)' : LedIn(plan, s)' /\ (provider = "aws" => HandleMade(plan, s)')
      BY <1>3, <2>1, <2>4 DEF DeploymentInv
    <2>6. (provider = "scaleway" => \A d \in ToSet(deployed) : ~ServiceFails(d))'
      BY <1>1, <1>2, <2>1
    <2>7. provider = "gcp" => Balancing(Project, new, DOMAIN Services)
      <3>1. ToSet(FinalPlan) \subseteq ToSet(new)
        BY <1>1, <2>2, ConcatSequence DEF Piece, new
      <3>2. provider = "gcp" => Balancing(Project, FinalPlan, DOMAIN Services)
        BY <1>1, <2>1, FinalPiece
      <3> QED BY <3>1, <3>2, StillBalanced
    <2>8. (stage = "done" /\ provider = "gcp" => Balancing(Project, plan, DOMAIN Services))'
      BY <1>2, <2>1, <2>7
    <2> QED BY <1>1, <1>2, <1>4, <2>1, <2>3, <2>5, <2>6, <2>8 DEF DeploymentInv
  <1>8. ASSUME UNCHANGED <<provider, case, plan, deployed>>, stage' = stage \/ stage' = "failed"
        PROVE  DeploymentInv'
    <2>1. \A s \in ToSet(deployed)' : LedIn(plan, s)' /\ (provider = "aws" => HandleMade(plan, s)')
      BY <1>3, <1>8 DEF DeploymentInv
    <2>2. (provider = "scaleway" => \A d \in ToSet(deployed) : ~ServiceFails(d))'
      BY <1>1, <1>2, <1>8
    <2>3. (stage = "done" /\ provider = "gcp" => Balancing(Project, plan, DOMAIN Services))'
      BY <1>2, <1>8 DEF DeploymentInv
    <2> QED BY <1>1, <1>2, <1>4, <1>8, <2>1, <2>2, <2>3 DEF DeploymentInv
  <1>9. CASE Fail
    BY <1>8, <1>9 DEF Fail
  <1>10. CASE UNCHANGED vars
    BY <1>8, <1>10 DEF vars
  <1> QED BY <1>5, <1>6, <1>7, <1>9, <1>10 DEF Next

-----------------------------------------------------------------------------
(* The theorems.                                                           *)

\* Every service is deployed at most once, and what is registered has a URN, at every
\* step of every deployment.
THEOREM DeploymentInvariant == Spec => []DeploymentInv
  BY InvInit, InvStep, PTL DEF Spec

\* What it says of the plan, for the theorems to use.
LEMMA SoundPlan ==
  ASSUME DeploymentInv
  PROVE  /\ IsASequence(plan) /\ Given
         /\ \A i \in DOMAIN plan : plan[i] \in ToSet(plan)
         /\ \A r \in ToSet(plan) : Sound(Project, r)
         /\ \A type : OfType(plan, type) = {r \in ToSet(plan) : TypeOf(r.urn) = type}
  BY DEF DeploymentInv, Piece, ToSet, OfType

\* Every service is deployed at most once, and what is registered has a URN (the loops
\* of the buildProject functions over the sorted services).
THEOREM DeploymentTypeOK == Spec => []TypeOK
  <1>1. ASSUME DeploymentInv PROVE TypeOK
    BY <1>1, SoundPlan DEF TypeOK, DeploymentInv, Sound
  <1> QED BY <1>1, DeploymentInvariant, PTL

\* The databases of Google Cloud are asked for in whole CPUs and whole GiB.
RoundSizes ==
  "gcp" \in DOMAIN Cases =>
    \A given \in Cases["gcp"] : \A name \in DOMAIN given.project.services :
      Whole(given.project.services[name])

\* A service gets the CPUs and the memory it reserves, if there is a machine that has
\* them: for every reservation and every catalogue of the AWS, Azure and Scaleway
\* providers, and on Google Cloud unless its rounding costs a database part of a CPU
\* or of a GiB.
THEOREM SizesFit == ASSUME RoundSizes PROVE Spec => []SizeFits
  <1>1. ASSUME DeploymentInv PROVE SizeFits
    <2>1. WholeSizes(Project)
      BY <1>1 DEF DeploymentInv, Given, RoundSizes, WholeSizes, Project
    <2>2. \A r \in ToSet(plan) : "fit" \in DOMAIN r.args => Fits(r.args.fit)
      BY <1>1, <2>1, SoundPlan DEF Sound, SizeSound
    <2> QED BY <2>2 DEF SizeFits, Fits
  <1> QED BY <1>1, DeploymentInvariant, PTL

\* What is probed is probed in time: the timeout of a target group's check is less
\* than its interval, and the start-up budget of a container app is kept, whatever
\* health check the compose file asks for.
LEMMA ProbesKept == ASSUME DeploymentInv PROVE ProbesInTime
  <1>1. \A r \in ToSet(plan) : ProbeSound(r)
    BY SoundPlan DEF Sound
  <1>2. ProbeTimesOut
    BY <1>1, SoundPlan DEF ProbeTimesOut, ProbeSound, CheckSound
  <1>3. StartupBudgetKept
    BY <1>1, SoundPlan DEF StartupBudgetKept, ProbeSound, BudgetSound
  <1> QED BY <1>2, <1>3 DEF ProbesInTime

\* A task definition is of one service.
LEMMA AwsTaskDefs == \A a, b : Aws!TaskDef(a) = Aws!TaskDef(b) => a = b
  BY DEF Aws!TaskDef, Aws!S, Aws!Urn

\* On AWS, a service watches every parameter that its task's containers read, the
\* sidecars among them.
LEMMA Watched == ASSUME DeploymentInv PROVE RedeployedOnChange
  <1> SUFFICES ASSUME NEW task \in OfType(plan, "ecs.TaskDefinition"),
                      NEW r \in OfType(plan, "ecs.Service"), task.urn \in r.after
               PROVE  task.args.secrets \subseteq r.args.triggers
    BY DEF RedeployedOnChange
  <1>1. /\ TypeOf(task.urn) = "ecs.TaskDefinition" /\ TypeOf(r.urn) = "ecs.Service"
        /\ TaskSound(Project, task) /\ TaskSound(Project, r)
    BY SoundPlan DEF Sound
  <1>2. PICK name \in DOMAIN Project.services :
          /\ task.urn = Aws!TaskDef(name)
          /\ task.args.secrets = Aws!Secrets(name, Aws!Normalized(Project).services[name])
    BY <1>1 DEF TaskSound
  <1>3. PICK other \in DOMAIN Project.services :
          /\ r.args.triggers = Aws!Secrets(other, Aws!Normalized(Project).services[other])
          /\ \A u \in r.after : TypeOf(u) = "ecs.TaskDefinition" => u = Aws!TaskDef(other)
    BY <1>1 DEF TaskSound
  <1>4. name = other
    BY <1>1, <1>2, <1>3, AwsTaskDefs
  <1> QED BY <1>2, <1>3, <1>4

-----------------------------------------------------------------------------
(* The containers of a task.                                               *)

Names(s) == {c.name : c \in ToSet(s)}
NamesApart(s) == \A i, j \in DOMAIN s : s[i].name = s[j].name => i = j

\* What a tuple of one and the empty one contain.
LEMMA Single ==
  ASSUME NEW a
  PROVE  /\ IsASequence(<<a>>) /\ ToSet(<<a>>) = {a} /\ DOMAIN <<a>> = {1}
         /\ IsASequence(<< >>) /\ ToSet(<< >>) = {} /\ DOMAIN << >> = {}
  BY DEF IsASequence, ToSet

\* Two sequences whose names are all different, one after the other.
LEMMA ApartTogether ==
  ASSUME NEW p, NEW q, IsASequence(p), IsASequence(q), NamesApart(p), NamesApart(q),
         Names(p) \cap Names(q) = {}
  PROVE  /\ IsASequence(p \o q) /\ NamesApart(p \o q)
         /\ ToSet(p \o q) = ToSet(p) \cup ToSet(q) /\ Names(p \o q) = Names(p) \cup Names(q)
  <1> DEFINE s == p \o q
             m == Len(p)
             n == Len(q)
  <1>1. /\ m \in Nat /\ DOMAIN p = 1 .. m /\ n \in Nat /\ DOMAIN q = 1 .. n
        /\ IsASequence(s) /\ DOMAIN s = 1 .. m + n /\ ToSet(s) = ToSet(p) \cup ToSet(q)
        /\ \A i \in 1 .. m : s[i] = p[i]
        /\ \A i \in 1 .. n : s[m + i] = q[i]
    BY Indices, ConcatSequence
  <1>2. \A i \in 1 .. m + n : i \in 1 .. m \/ (i - m \in 1 .. n /\ m + (i - m) = i)
    BY <1>1
  <1>3. \A i \in 1 .. m : p[i].name \in Names(p)
    BY <1>1 DEF Names, ToSet
  <1>4. \A i \in 1 .. n : q[i].name \in Names(q)
    BY <1>1 DEF Names, ToSet
  <1> HIDE DEF s, m, n
  <1>5. ASSUME NEW i \in DOMAIN s, NEW j \in DOMAIN s, s[i].name = s[j].name PROVE i = j
    <2>1. CASE i \in 1 .. m /\ j \in 1 .. m
      BY <1>1, <1>5, <2>1 DEF NamesApart
    <2>2. CASE i - m \in 1 .. n /\ m + (i - m) = i /\ j - m \in 1 .. n /\ m + (j - m) = j
      <3>1. s[i] = q[i - m] /\ s[j] = q[j - m]
        BY <1>1, <2>2
      <3>2. i - m = j - m
        BY <1>1, <1>5, <2>2, <3>1 DEF NamesApart
      <3> QED BY <2>2, <3>2
    <2>3. CASE i \in 1 .. m /\ j - m \in 1 .. n /\ m + (j - m) = j
      <3>1. s[i] = p[i] /\ s[j] = q[j - m]
        BY <1>1, <2>3
      <3> QED BY <1>3, <1>4, <1>5, <2>3, <3>1
    <2>4. CASE j \in 1 .. m /\ i - m \in 1 .. n /\ m + (i - m) = i
      <3>1. s[j] = p[j] /\ s[i] = q[i - m]
        BY <1>1, <2>4
      <3> QED BY <1>3, <1>4, <1>5, <2>4, <3>1
    <2> QED BY <1>1, <1>2, <2>1, <2>2, <2>3, <2>4
  <1>6. Names(s) = Names(p) \cup Names(q)
    BY <1>1 DEF Names
  <1> QED BY <1>1, <1>5, <1>6 DEF NamesApart, s

\* Different names are counted by the sequence.
LEMMA ApartCount ==
  ASSUME NEW s, IsASequence(s), NamesApart(s)
  PROVE  Cardinality(Names(s)) = Len(s)
  <1> DEFINE f == [i \in 1 .. Len(s) |-> s[i].name]
  <1>1. Len(s) \in Nat /\ DOMAIN s = 1 .. Len(s)
    BY Indices
  <1>2. Names(s) = {s[i].name : i \in 1 .. Len(s)}
    BY <1>1 DEF Names, ToSet
  <1>3. f \in Bijection(1 .. Len(s), Names(s))
    <2>1. f \in [1 .. Len(s) -> Names(s)] /\ \A i \in 1 .. Len(s) : f[i] = s[i].name
      BY <1>2
    <2>2. \A i, j \in 1 .. Len(s) : f[i] = f[j] => i = j
      BY <1>1, <2>1 DEF NamesApart
    <2>3. \A n \in Names(s) : \E i \in 1 .. Len(s) : f[i] = n
      BY <1>2, <2>1
    <2> HIDE DEF f
    <2> QED BY <2>1, <2>2, <2>3 DEF Bijection, Injection, Surjection, IsInjective
  <1>4. IsFiniteSet(1 .. Len(s)) /\ Cardinality(1 .. Len(s)) = Len(s)
    <2> DEFINE n == Len(s)
    <2> HIDE DEF n
    <2>1. n \in Nat
      BY <1>1 DEF n
    <2>2. IsFiniteSet(1 .. n) /\ Cardinality(1 .. n) = IF 1 > n THEN 0 ELSE n - 1 + 1
      BY <2>1, FS_Interval
    <2>3. IsFiniteSet(1 .. n) /\ Cardinality(1 .. n) = n
      BY <2>1, <2>2
    <2> QED BY <2>3 DEF n
  <1> QED BY <1>3, <1>4, FS_Bijection DEF ExistsBijection

\* What the containers of s with a name in set wait for.
Waited(s, set) ==
  UNION {{await[1] : await \in c.awaits} : c \in {k \in ToSet(s) : k.name \in set}}

\* The sidecars of a service have names of their own, and do not wait for each other in
\* a circle, which the loader of compose files refuses before this code sees them.
SidecarsApart(name, svc) ==
  /\ NamesApart(svc.sidecars)
  /\ name # Aws!Route53Sidecar
  /\ name \notin Names(svc.sidecars) /\ Aws!Route53Sidecar \notin Names(svc.sidecars)
NoCircle(svc) ==
  \A set \in (SUBSET Names(svc.sidecars)) \ {{}} : ~(set \subseteq Waited(svc.sidecars, set))

TaskStarts(s) ==
  /\ Cardinality(Names(s)) = Len(s)
  /\ Waited(s, Names(s)) \subseteq Names(s)
  /\ \A set \in (SUBSET Names(s)) \ {{}} : ~(set \subseteq Waited(s, set))

\* The containers of a task can start when the sidecars are as they should be.
LEMMA ContainersStart ==
  ASSUME NEW name, NEW svc, IsASequence(svc.sidecars), SidecarsApart(name, svc), NoCircle(svc)
  PROVE  TaskStarts(Aws!Containers(name, svc))
  <1> DEFINE sidecars == svc.sidecars
             own == Names(sidecars)
             main == [name |-> name, essential |-> TRUE, awaits |-> Aws!BuildDependsOn(svc.awaits, svc)]
             a == <<main>>
             b == [i \in DOMAIN sidecars |->
                     [name |-> sidecars[i].name, essential |-> ~sidecars[i].once,
                      awaits |-> Aws!BuildDependsOn(sidecars[i].awaits, svc)]]
             last == [name |-> Aws!Route53Sidecar, essential |-> FALSE,
                      awaits |-> {<<name, "service_started">>}]
             c == Aws!When(Aws!HasHostPorts(svc), <<last>>)
             s == (a \o b) \o c
  <1>1. Aws!Containers(name, svc) = s
    BY DEF Aws!Containers
  <1>2. \A awaits : \A await \in Aws!BuildDependsOn(awaits, svc) : await[1] \in own /\ await \in awaits
    BY DEF Aws!BuildDependsOn, Names, ToSet, Aws!ToSet
  <1>3. /\ IsASequence(a) /\ ToSet(a) = {main} /\ NamesApart(a) /\ Names(a) = {name}
        /\ \A k \in ToSet(a) : \A await \in k.awaits : await[1] \in own
    <2>1. IsASequence(a) /\ ToSet(a) = {main} /\ DOMAIN a = {1} /\ main.name = name
      BY Single
    <2>2. \A await \in main.awaits : await[1] \in own
      BY <1>2
    <2> HIDE DEF main
    <2> QED BY <2>1, <2>2 DEF NamesApart, Names
  <1>4. Len(sidecars) \in Nat /\ DOMAIN sidecars = 1 .. Len(sidecars)
    BY Indices
  <1>5. b = [i \in 1 .. Len(sidecars) |-> b[i]]
    BY <1>4
  <1>6. \A i \in 1 .. Len(sidecars) :
          b[i].name = sidecars[i].name /\ b[i].awaits = Aws!BuildDependsOn(sidecars[i].awaits, svc)
    BY <1>4
  <1> HIDE DEF main, b
  <1>7. IsASequence(b) /\ DOMAIN b = 1 .. Len(sidecars)
    BY <1>4, <1>5, MapSequence
  <1>8. NamesApart(b)
    BY <1>4, <1>6, <1>7 DEF NamesApart, SidecarsApart
  <1>9. Names(b) = own
    BY <1>4, <1>6, <1>7 DEF Names, ToSet
  <1>10. \A k \in ToSet(b) : /\ \A await \in k.awaits : await[1] \in own
                             /\ \E t \in ToSet(sidecars) : t.name = k.name /\ k.awaits \subseteq t.awaits
    <2>1. \A i \in 1 .. Len(sidecars) :
            /\ \A await \in b[i].awaits : await[1] \in own
            /\ b[i].awaits \subseteq sidecars[i].awaits
      BY <1>2, <1>6
    <2> QED BY <1>4, <1>6, <1>7, <2>1 DEF ToSet
  <1>11. /\ IsASequence(c) /\ NamesApart(c) /\ Names(c) \subseteq {Aws!Route53Sidecar}
         /\ \A k \in ToSet(c) : \A await \in k.awaits : await[1] = name
    <2>1. /\ IsASequence(<<last>>) /\ ToSet(<<last>>) = {last} /\ DOMAIN <<last>> = {1}
          /\ IsASequence(<< >>) /\ ToSet(<< >>) = {} /\ DOMAIN << >> = {}
      BY Single
    <2>2. last.name = Aws!Route53Sidecar /\ \A await \in last.awaits : await[1] = name
      OBVIOUS
    <2>3. c = <<last>> \/ c = << >>
      BY DEF Aws!When
    <2> HIDE DEF last, c
    <2> QED BY <2>1, <2>2, <2>3 DEF NamesApart, Names
  <1>12. name \notin own /\ Aws!Route53Sidecar \notin own /\ name # Aws!Route53Sidecar
    BY DEF SidecarsApart
  <1> HIDE DEF a, c, sidecars, own
  <1>13. /\ IsASequence(a \o b) /\ NamesApart(a \o b) /\ ToSet(a \o b) = ToSet(a) \cup ToSet(b)
         /\ Names(a \o b) = {name} \cup own
    BY <1>3, <1>7, <1>8, <1>9, <1>12, ApartTogether
  <1> DEFINE ab == a \o b
  <1> HIDE DEF ab
  <1>14. /\ IsASequence(ab \o c) /\ NamesApart(ab \o c)
         /\ ToSet(ab \o c) = (ToSet(a) \cup ToSet(b)) \cup ToSet(c)
         /\ Names(ab \o c) = ({name} \cup own) \cup Names(c)
    BY <1>11, <1>12, <1>13, ApartTogether DEF ab
  <1>15. /\ IsASequence(s) /\ NamesApart(s) /\ ToSet(s) = (ToSet(a) \cup ToSet(b)) \cup ToSet(c)
         /\ Names(s) = ({name} \cup own) \cup Names(c)
    BY <1>14 DEF ab
  <1> HIDE DEF s
  <1>16. Waited(s, Names(s)) \subseteq Names(s)
    BY <1>3, <1>10, <1>11, <1>15 DEF Waited
  <1>17. ASSUME NEW set \in SUBSET Names(s), set # {}, set \subseteq Waited(s, set) PROVE FALSE
    <2>1. \A n \in set : \E k \in ToSet(s) : k.name \in set /\ \E await \in k.awaits : await[1] = n
      BY <1>17 DEF Waited
    <2>2. Aws!Route53Sidecar \notin set
      BY <1>3, <1>10, <1>11, <1>12, <1>15, <2>1
    <2>3. \A k \in ToSet(s) : k.name \in set => k \notin ToSet(c)
      BY <1>11, <2>2 DEF Names
    <2>4. name \notin set
      BY <1>3, <1>10, <1>12, <1>15, <2>1, <2>3
    <2>5. \A k \in ToSet(s) : k.name \in set => k \in ToSet(b)
      BY <1>3, <1>15, <2>3, <2>4 DEF Names
    <2>6. set \in (SUBSET own) \ {{}}
      <3>1. \A n \in set : n \in own
        BY <1>11, <1>15, <1>17, <2>2, <2>4
      <3>2. set \in SUBSET own /\ set \notin {{}}
        BY <1>17, <3>1
      <3> QED BY <3>2, Zenon
    <2>7. set \subseteq Waited(sidecars, set)
      <3>1. SUFFICES ASSUME NEW n \in set PROVE n \in Waited(sidecars, set)
        OBVIOUS
      <3>2. PICK k \in ToSet(b) : k.name \in set /\ \E await \in k.awaits : await[1] = n
        BY <2>1, <2>5
      <3>3. PICK t \in ToSet(sidecars) : t.name = k.name /\ k.awaits \subseteq t.awaits
        BY <1>10
      <3> QED BY <3>2, <3>3 DEF Waited
    <2> QED BY <2>6, <2>7 DEF NoCircle, own, sidecars
  <1>18. \A set \in (SUBSET Names(s)) \ {{}} : ~(set \subseteq Waited(s, set))
    BY <1>17, Zenon
  <1>19. TaskStarts(s)
    BY <1>15, <1>16, <1>18, ApartCount DEF TaskStarts
  <1> QED BY <1>1, <1>19

\* What every AWS service's sidecars have to be for its task to start.
SidecarsStart ==
  "aws" \in DOMAIN Cases =>
    \A given \in Cases["aws"] : \A name \in DOMAIN given.project.services :
      LET svc == given.project.services[name] IN SidecarsApart(name, svc) /\ NoCircle(svc)

\* AwsProject normalizes projects as Hosted does.
LEMMA NormalizedForAws == \A pr : Aws!Normalized(pr) = Hosted(pr)
  BY AwsAlike

\* The tasks of a plan can start.
LEMMA CanStart == ASSUME DeploymentInv, SidecarsStart PROVE TaskCanStart
  <1> SUFFICES ASSUME NEW task \in OfType(plan, "ecs.TaskDefinition")
               PROVE  TaskStarts(task.args.containers)
    BY DEF TaskCanStart, TaskStarts, Waited, Names
  <1>1. /\ TypeOf(task.urn) = "ecs.TaskDefinition" /\ TaskSound(Project, task) /\ Given
        /\ provider = "aws"
    BY SoundPlan DEF Sound, TaskSound
  <1>2. PICK name \in DOMAIN Project.services :
          task.args.containers = Aws!Containers(name, Aws!Normalized(Project).services[name])
    BY <1>1 DEF TaskSound
  <1> DEFINE svc == Project.services[name]
             hosted == Hosted(Project).services[name]
  <1>3. hosted.sidecars = svc.sidecars /\ IsASequence(svc.sidecars)
    BY <1>1, GivenProject, ReadableServices DEF Readable
  <1>4. SidecarsApart(name, svc) /\ NoCircle(svc)
    BY <1>1 DEF SidecarsStart, Given, Project
  <1> HIDE DEF svc, hosted
  <1>5. SidecarsApart(name, hosted) /\ NoCircle(hosted) /\ IsASequence(hosted.sidecars)
    BY <1>3, <1>4 DEF SidecarsApart, NoCircle
  <1>6. TaskStarts(Aws!Containers(name, hosted))
    BY <1>5, ContainersStart
  <1> QED BY <1>2, <1>6, NormalizedForAws DEF hosted

\* What is deployed comes up: its tasks can start and are started anew when a parameter
\* they read changes, a probe of a load balancer times out in time, and on Azure the
\* probe of a health check with a test leaves it the start period.  (One without a test
\* is probed as Azure does by default; see StartupBudgetKept.)
THEOREM DeployedStart == ASSUME SidecarsStart PROVE Spec => []ServicesStart
  <1>1. ASSUME DeploymentInv PROVE ServicesStart
    <2>1. ProbesInTime
      BY <1>1, ProbesKept
    <2>2. RedeployedOnChange
      BY <1>1, Watched
    <2>3. TaskCanStart
      BY <1>1, CanStart
    <2> QED BY <2>1, <2>2, <2>3 DEF ServicesStart, TasksRun
  <1> QED BY <1>1, DeploymentInvariant, PTL

-----------------------------------------------------------------------------
(* What the engine has created when it starts on a resource.               *)

\* One step of Above.
Found(r, g) == r.after \cup UNION {g[u] : u \in r.after}
Grown(r, g) ==
  [urn \in {r.urn} \cup DOMAIN g |-> IF urn = r.urn THEN Found(r, g) ELSE g[urn]]

\* A step changes what is above one URN, and nothing else.
LEMMA GrownAt ==
  ASSUME NEW r, NEW g
  PROVE  /\ DOMAIN Grown(r, g) = {r.urn} \cup DOMAIN g
         /\ Grown(r, g)[r.urn] = Found(r, g)
         /\ \A u \in DOMAIN g : u # r.urn => Grown(r, g)[u] = g[u]
  BY DEF Grown

\* The recursion in Above, which has a solution.
Rises(f, p, m) ==
  /\ f = [i \in 0 .. m |-> f[i]]
  /\ f[0] = << >> /\ \A i \in 1 .. m : f[i] = Grown(p[i], f[i - 1])

\* By induction on the length of the recursion.
LEMMA Risen == ASSUME NEW p, NEW n \in Nat PROVE \E f : Rises(f, p, n)
  <1> DEFINE T == {m \in Nat : \E f : Rises(f, p, m)}
  <1>1. 0 \in T
    <2>1. Rises([i \in 0 .. 0 |-> << >>], p, 0)
      BY DEF Rises
    <2> QED BY <2>1
  <1>2. ASSUME NEW m \in T PROVE m + 1 \in T
    <2>1. PICK f : Rises(f, p, m)
      BY <1>2
    <2>2. m \in Nat /\ m + 1 \in Nat
      BY <1>2
    <2> DEFINE g == [i \in 0 .. m + 1 |-> IF i \in 0 .. m THEN f[i] ELSE Grown(p[m + 1], f[m])]
    <2>3. g[0] = << >> /\ g = [i \in 0 .. m + 1 |-> g[i]]
      BY <2>1, <2>2 DEF Rises
    <2>4. ASSUME NEW i \in 1 .. m + 1 PROVE g[i] = Grown(p[i], g[i - 1])
      <3>1. CASE i \in 1 .. m
        <4>1. g[i] = f[i] /\ g[i - 1] = f[i - 1]
          BY <2>2, <3>1
        <4> QED BY <2>1, <3>1, <4>1 DEF Rises
      <3>2. CASE i = m + 1
        BY <2>2, <3>2
      <3> QED BY <2>2, <3>1, <3>2
    <2> HIDE DEF g
    <2>5. Rises(g, p, m + 1)
      BY <2>3, <2>4 DEF Rises
    <2> QED BY <2>2, <2>5
  <1>3. T = Nat
    <2>1. T \in SUBSET Nat
      OBVIOUS
    <2> HIDE DEF T
    <2> QED BY <1>1, <1>2, <2>1, Induction
  <1> QED BY <1>3

\* Above is what the recursion ends with.
LEMMA AboveRises ==
  ASSUME NEW p, Len(p) \in Nat
  PROVE  \E f : Rises(f, p, Len(p)) /\ Above(p) = f[Len(p)]
  <1> DEFINE n == Len(p)
             Is(f) == f = [i \in 0 .. n |-> IF i = 0 THEN << >> ELSE Grown(p[i], f[i - 1])]
  <1>1. PICK f : Rises(f, p, n)
    BY Risen
  <1>2. Is(f)
    BY <1>1 DEF Rises
  <1>3. Above(p) = (CHOOSE h : Is(h))[n]
    BY DEF Above, Grown, Found
  <1> DEFINE h == CHOOSE h : Is(h)
  <1>4. Is(h)
    BY <1>2
  <1> HIDE DEF h
  <1>5. Rises(h, p, n)
    BY <1>4 DEF Rises
  <1> QED BY <1>3, <1>5 DEF h

\* What a resource refers to is there when the engine starts on it, and so is what that
\* refers to: no later resource takes its place, if none has its URN.
LEMMA LeadsAbove ==
  ASSUME NEW p, IsASequence(p), NEW u, NEW v, Leads(p, u, v),
         \A i, j \in DOMAIN p : p[i].urn = p[j].urn => i = j
  PROVE  v \in Above(p)[u]
  <1> DEFINE n == Len(p)
  <1>1. n \in Nat /\ DOMAIN p = 1 .. n
    BY Indices
  <1>2. PICK f : Rises(f, p, n) /\ Above(p) = f[n]
    BY <1>1, AboveRises
  <1>3. PICK i \in 1 .. n :
          /\ p[i].urn = u
          /\ \/ v \in p[i].after
             \/ \E j \in 1 .. (i - 1) : p[j].urn \in p[i].after /\ v \in p[j].after
    BY <1>1 DEF Leads
  <1> HIDE DEF n
  <1>4. \A k \in 1 .. n : k - 1 \in 0 .. n /\ f[k] = Grown(p[k], f[k - 1])
    BY <1>1, <1>2 DEF Rises
  <1>5. ASSUME NEW k \in 1 .. n, NEW m \in k .. n
        PROVE  /\ p[k].urn \in DOMAIN f[m]
               /\ f[m][p[k].urn] = Found(p[k], f[k - 1])
    <2> DEFINE x == p[k].urn
               value == Found(p[k], f[k - 1])
               a == [l \in k .. n |-> <<x \in DOMAIN f[l], f[l][x]>>]
               b == [l \in k .. n |-> <<TRUE, value>>]
    <2>1. f[k] = Grown(p[k], f[k - 1])
      BY <1>4
    <2>2. x \in DOMAIN f[k] /\ f[k][x] = value
      <3>1. /\ DOMAIN Grown(p[k], f[k - 1]) = {p[k].urn} \cup DOMAIN f[k - 1]
            /\ Grown(p[k], f[k - 1])[p[k].urn] = Found(p[k], f[k - 1])
        BY GrownAt, Zenon
      <3> QED BY <2>1, <3>1
    <2> HIDE DEF value
    <2>3. ASSUME NEW l \in k .. n, l # k, x \in DOMAIN f[l - 1], f[l - 1][x] = value
          PROVE  x \in DOMAIN f[l] /\ f[l][x] = value
      <3>1. l \in 1 .. n /\ f[l] = Grown(p[l], f[l - 1])
        BY <1>1, <1>4, <2>3
      <3>2. x # p[l].urn
        BY <1>1, <2>3, <3>1
      <3>3. DOMAIN Grown(p[l], f[l - 1]) = {p[l].urn} \cup DOMAIN f[l - 1]
        BY GrownAt, Zenon
      <3>4. x \in DOMAIN f[l - 1] /\ x # p[l].urn => Grown(p[l], f[l - 1])[x] = f[l - 1][x]
        BY DEF Grown
      <3> QED BY <2>3, <3>1, <3>2, <3>3, <3>4
    <2> DEFINE T == {d \in Nat : k + d <= n => x \in DOMAIN f[k + d] /\ f[k + d][x] = value}
    <2>4. 0 \in T
      BY <1>1, <2>2
    <2>5. ASSUME NEW d \in T PROVE d + 1 \in T
      <3>1. SUFFICES ASSUME k + (d + 1) <= n
                     PROVE  x \in DOMAIN f[k + (d + 1)] /\ f[k + (d + 1)][x] = value
        OBVIOUS
      <3>2. /\ k + (d + 1) \in k .. n /\ k + (d + 1) # k /\ (k + (d + 1)) - 1 = k + d
            /\ k + d <= n
        BY <1>1, <3>1
      <3>3. x \in DOMAIN f[k + d] /\ f[k + d][x] = value
        BY <2>5, <3>2
      <3> HIDE DEF x, T
      <3> QED BY <2>3, <3>2, <3>3
    <2>6. T = Nat
      <3>1. T \in SUBSET Nat
        OBVIOUS
      <3> HIDE DEF T
      <3> QED BY <2>4, <2>5, <3>1, Induction
    <2>7. m - k \in Nat /\ k + (m - k) = m /\ m <= n
      BY <1>1
    <2>8. m - k \in T
      BY <2>6, <2>7
    <2>9. x \in DOMAIN f[m] /\ f[m][x] = value
      BY <2>7, <2>8
    <2> QED BY <2>9 DEF value
  <1>6. f[n][u] = Found(p[i], f[i - 1])
    <2>1. n \in i .. n
      BY <1>1
    <2> QED BY <1>3, <1>5, <2>1
  <1>7. CASE v \in p[i].after
    BY <1>2, <1>6, <1>7 DEF Found
  <1>8. ASSUME NEW j \in 1 .. (i - 1), p[j].urn \in p[i].after, v \in p[j].after
        PROVE  v \in f[n][u]
    <2>1. j \in 1 .. n /\ i - 1 \in j .. n
      BY <1>1
    <2>2. v \in f[i - 1][p[j].urn]
      <3>1. f[i - 1][p[j].urn] = Found(p[j], f[j - 1])
        BY <1>5, <2>1
      <3> QED BY <1>8, <3>1 DEF Found
    <2> QED BY <1>6, <1>8, <2>2 DEF Found
  <1> QED BY <1>2, <1>3, <1>7, <1>8

\* Without a clash, a URN is that of one resource.
LEMMA Apart ==
  ASSUME NoClash, IsASequence(plan)
  PROVE  \A i, j \in DOMAIN plan : plan[i].urn = plan[j].urn => i = j
  <1> DEFINE n == Len(plan)
             f == [i \in 1 .. n |-> plan[i].urn]
  <1>1. n \in Nat /\ DOMAIN plan = 1 .. n
    BY Indices
  <1>2. Registered(plan) = {plan[i].urn : i \in 1 .. n}
    BY <1>1 DEF Registered
  <1>3. Cardinality(Registered(plan)) = n
    BY DEF NoClash
  <1> HIDE DEF n
  <1>4. f \in Surjection(1 .. n, Registered(plan))
    BY <1>2 DEF Surjection
  <1>5. IsFiniteSet(1 .. n) /\ Cardinality(1 .. n) = IF 1 > n THEN 0 ELSE n - 1 + 1
    BY <1>1, FS_Interval
  <1>6. Cardinality(1 .. n) = n
    BY <1>1, <1>5
  <1> HIDE DEF f
  <1>7. f \in Injection(1 .. n, Registered(plan))
    BY <1>3, <1>4, <1>5, <1>6, FS_SurjSameCardinalityImpliesInj
  <1>8. \A i, j \in 1 .. n : f[i] = f[j] => i = j
    BY <1>7 DEF Injection, IsInjective
  <1> QED BY <1>1, <1>8 DEF f

\* A service's resource is made after that of every service it waits for (depends_on,
\* and on Azure the address of a managed service in the environment), in every plan
\* without two resources of one URN, which the engine refuses.
THEOREM DependentsFollow == Spec => [](NoClash => DependentsWait)
  <1>1. ASSUME DeploymentInv, NoClash PROVE DependentsWait
    <2>1. SUFFICES ASSUME Done, NEW name \in DOMAIN Services, NEW d \in WaitsFor(name)
                   PROVE  Main(d) \in Above(plan)[Main(name)]
      BY DEF DependentsWait
    <2>2. Leads(plan, Main(name), Main(d))
      BY <1>1, <2>1 DEF DeploymentInv, Done, LedIn
    <2>3. IsASequence(plan)
      BY <1>1, SoundPlan
    <2>4. \A i, j \in DOMAIN plan : plan[i].urn = plan[j].urn => i = j
      BY <1>1, <2>3, Apart
    <2> QED BY <2>2, <2>3, <2>4, LeadsAbove
  <1> QED BY <1>1, DeploymentInvariant, PTL

\* On AWS, with a load balancer nobody from outside reaches a service's ingress port
\* except through it, and nobody ever reaches a database but the services (CreateServiceSG
\* and the security groups of the databases): for every project, whatever its ports.
THEOREM DoorsGuarded == Spec => []BehindTheBalancer
  <1>1. DeploymentInv => BehindTheBalancer
    <2> SUFFICES ASSUME DeploymentInv, NEW sg \in OfType(plan, "ec2.SecurityGroup"),
                        NEW rule \in sg.args.ingress, rule.from = Aws!Anyone, sg.urn # Aws!AlbSg
                 PROVE  /\ ParentOf(sg.urn) = "Service"
                        /\ Aws!Alb \in Registered(plan) =>
                             \E port \in PortsOf(Aws!Normalized(Project).services[sg.urn[3]]) :
                               port.target = rule.port /\ ~IsIngress(port)
      BY DEF BehindTheBalancer
    <2>1. Guarded(Project, sg.urn, sg.args.ingress)
      <3>1. sg \in ToSet(plan) /\ TypeOf(sg.urn) = "ec2.SecurityGroup"
        BY SoundPlan
      <3> QED BY <3>1, SoundPlan DEF Sound, DoorSound
    <2>2. Aws!Alb \in Registered(plan) => Balanced(Project)
      <3> SUFFICES ASSUME NEW r \in ToSet(plan), r.urn = Aws!Alb PROVE Balanced(Project)
        BY SoundPlan DEF Registered
      <3>1. TypeOf(r.urn) = "lb.LoadBalancer"
        BY DEF TypeOf, Aws!Alb, Aws!P, Aws!Urn
      <3> QED BY <3>1, SoundPlan DEF Sound, DoorSound
    <2> QED BY <2>1, <2>2 DEF Guarded
  <1> QED BY <1>1, DeploymentInvariant, PTL

\* Taking UDP ports out of ingress leaves every protocol the ports it had.
LEMMA StillPorted ==
  ASSUME NEW pr, ParsedProject(pr), NEW name \in DOMAIN pr.services, NEW proto
  PROVE  Ported(Hosted(pr).services[name], proto) = Ported(pr.services[name], proto)
  <1> DEFINE svc == pr.services[name]
             AsHost(port) == IF GetProtocol(port) = "udp" /\ IsIngress(port)
                             THEN [port EXCEPT !.mode = "host"] ELSE port
             ports == [i \in DOMAIN svc.ports |-> AsHost(svc.ports[i])]
  <1>1. /\ "ports" \in DOMAIN svc
        /\ \A port \in PortsOf(svc) : {"target", "mode", "proto", "app"} \subseteq DOMAIN port
    BY DEF ParsedProject, Parsed, ServiceFields, PortsOf
  <1>2. Hosted(pr).services[name].ports = ports
    <2>1. Hosted(pr).services[name] = [svc EXCEPT !.ports = ports]
      BY DEF Hosted, UDPIngressAsHost, ParsedProject
    <2> QED BY <1>1, <2>1
  <1>3. \A port \in PortsOf(svc) : /\ AsHost(port).target = port.target
                                   /\ GetProtocol(AsHost(port)) = GetProtocol(port)
    BY <1>1 DEF GetProtocol
  <1>4. PortsOf(Hosted(pr).services[name]) = {AsHost(port) : port \in PortsOf(svc)}
    <2> HIDE DEF AsHost
    <2> QED BY <1>2 DEF PortsOf, ToSet
  <1> HIDE DEF AsHost
  <1> QED BY <1>3, <1>4 DEF Ported

\* On Google Cloud a service's instances are served on all their ports, by balancers that
\* accept them: a forwarding rule takes five ports, and the rest get rules of their own
\* (createInternalLoadBalancer); for every project and any number of ports.
THEOREM GroupsBalanced == Spec => []InstancesBalanced
  <1> DEFINE svc(name) == Gcp!Normalized(Project).services[name]
  <1>1. ASSUME DeploymentInv, provider = "gcp", NEW name,
               Gcp!B("compute.Address", name) \in Registered(plan)
        PROVE  name \in DOMAIN Services /\ PassedThrough(svc(name))
    <2>1. PICK r \in ToSet(plan) : r.urn = Gcp!B("compute.Address", name)
      BY <1>1, SoundPlan DEF Registered
    <2>2. TypeOf(r.urn) = "compute.Address"
      BY <2>1 DEF TypeOf, Gcp!B, Gcp!Urn
    <2>3. PICK other \in DOMAIN Services :
            r.urn = Gcp!B("compute.Address", other) /\ PassedThrough(svc(other))
      BY <1>1, <2>1, <2>2, SoundPlan DEF Sound, BalancerSound, Services
    <2>4. other = name
      BY <2>1, <2>3 DEF Gcp!B, Gcp!Urn
    <2> QED BY <2>3, <2>4
  <1>2. ASSUME DeploymentInv PROVE BalancingConsistent
    <2> SUFFICES ASSUME provider = "gcp", NEW r \in OfType(plan, "compute.BackendService"),
                        Gcp!B("compute.Address", r.args.service) \in Registered(plan),
                        r.args.balancing = "UTILIZATION"
                 PROVE  FALSE
      BY DEF BalancingConsistent
    <2>1. OneIngress(svc(r.args.service))
      BY <1>2, SoundPlan DEF Sound, BalancerSound
    <2>2. PassedThrough(svc(r.args.service))
      BY <1>1, <1>2
    <2> QED BY <2>1, <2>2 DEF PassedThrough
  <1>3. ASSUME DeploymentInv PROVE AllPortsForwarded
    <2> SUFFICES ASSUME provider = "gcp", Done, NEW name \in DOMAIN Services,
                        Gcp!B("compute.Address", name) \in Registered(plan),
                        NEW proto \in {"tcp", "udp"}
                 PROVE  Forwarded(name, proto) = Ported(Services[name], proto)
      BY DEF AllPortsForwarded, Ported
    <2>1. PassedThrough(svc(name))
      BY <1>1, <1>3
    <2>2. Ported(svc(name), proto) = Ported(Services[name], proto)
      BY <1>3, GivenProject, SoundPlan, StillPorted, GcpNormal DEF Services
    <2>3. AllForwarded(plan, name, svc(name))
      BY <1>3, <2>1 DEF DeploymentInv, Balancing, Done
    <2>4. Ported(svc(name), proto) \subseteq Forwarded(name, proto)
      <3> SUFFICES ASSUME NEW port \in Ported(svc(name), proto) PROVE port \in Forwarded(name, proto)
        OBVIOUS
      <3>1. PICK r \in ToSet(plan) : RuleFor(r, name, proto, port)
        BY <2>3 DEF AllForwarded
      <3>2. r \in OfType(plan, "compute.ForwardingRule")
        BY <1>3, <3>1, SoundPlan DEF RuleFor
      <3> QED BY <3>1, <3>2 DEF RuleFor, Forwarded
    <2>5. Forwarded(name, proto) \subseteq Ported(svc(name), proto)
      <3> SUFFICES ASSUME NEW r \in OfType(plan, "compute.ForwardingRule"), "service" \in DOMAIN r.args,
                          r.args.service = name, r.args.proto = proto
                   PROVE  r.args.ports \subseteq Ported(svc(name), proto)
        BY DEF Forwarded
      <3> QED BY <1>3, SoundPlan DEF Sound, BalancerSound
    <2> QED BY <2>2, <2>4, <2>5
  <1>4. ASSUME DeploymentInv PROVE InstancesBalanced
    BY <1>2, <1>3, <1>4 DEF InstancesBalanced
  <1> QED BY <1>4, DeploymentInvariant, PTL
================================================================================
