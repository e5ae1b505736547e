----------------------- MODULE TopologicalSort_proofs -----------------------
(***************************************************************************)
(* Proofs that the walk of common.TopologicalSort, on any depends_on map,  *)
(* emits every key once and after its dependencies, cycles excepted, in a  *)
(* bounded number of steps.                                                *)
(***************************************************************************)
EXTENDS TopologicalSort, SequenceTheorems, FiniteSetTheorems, TLAPS

\* All that the proofs carry from step to step.
IInv == TypeOK /\ WalkInv /\ EmittedOnce /\ DependenciesFirst

-----------------------------------------------------------------------------
\* A stack that differs from the current one in the pending names of its frames
\* only: what visit is called from.
SameCalls(callers) ==
  /\ callers \in Seq(Frame)
  /\ Len(callers) = Len(stack)
  /\ \A k \in 1 .. Len(stack) : callers[k].name = stack[k].name

\* A dependency's name is a name.
LEMMA DependsOnNames ==
  ASSUME TypeOK, NEW n
  PROVE  DependsOn(n) \subseteq Names
BY DEF TypeOK, DependsOn

\* The top of a nonempty stack is one of its frames.
LEMMA TopFrame ==
  ASSUME TypeOK, stack # <<>>
  PROVE  /\ Len(stack) \in Nat \ {0}
         /\ Top \in Frame
         /\ Top.name \in OnStack
<1>1. Len(stack) \in Nat \ {0}
  BY EmptySeq DEF TypeOK
<1>2. Top \in Frame
  BY <1>1, ElementOfSeq DEF TypeOK, Top
<1> QED
  BY <1>1, <1>2 DEF OnStack, Top

\* A call of visit leaves a stack of frames and visits names only.
LEMMA VisitType ==
  ASSUME TypeOK, NEW name \in Names, NEW STATE callers, callers \in Seq(Frame), Visit(name, callers)
  PROVE  stack' \in Seq(Frame) /\ visited' \subseteq Names
<1>1. [name |-> name, pending |-> DependsOn(name)] \in Frame
  BY DependsOnNames DEF Frame
<1>2. Append(callers, [name |-> name, pending |-> DependsOn(name)]) \in Seq(Frame)
  BY <1>1, AppendProperties
<1> QED
  BY <1>2 DEF Visit, TypeOK

\* Type correctness of the walk, one step at a time.
LEMMA TypeStep ==
  ASSUME TypeOK, [Next]_vars
  PROVE  TypeOK'
<1>1. CASE VisitNode
  <2>1. PICK name \in unvisited : unvisited' = unvisited \ {name} /\ Visit(name, stack)
    BY <1>1 DEF VisitNode
  <2>2. stack' \in Seq(Frame) /\ visited' \subseteq Names
    BY <2>1, VisitType DEF TypeOK
  <2> QED
    BY <1>1, <2>1, <2>2 DEF VisitNode, TypeOK
<1>2. CASE VisitDependency
  <2> DEFINE Callers(dep) ==
        [stack EXCEPT ![Len(stack)] = [name |-> Top.name, pending |-> Top.pending \ {dep}]]
  <2>1. PICK dep \in Top.pending : Visit(dep, Callers(dep))
    BY <1>2 DEF VisitDependency
  <2>2. Top \in Frame /\ Len(stack) \in Nat \ {0}
    BY <1>2, TopFrame DEF VisitDependency
  <2>3. [name |-> Top.name, pending |-> Top.pending \ {dep}] \in Frame
    BY <2>2 DEF Frame
  <2>4. Callers(dep) \in Seq(Frame)
    BY <2>2, <2>3, ExceptSeq DEF TypeOK
  <2>5. dep \in Names
    BY <2>1, <2>2 DEF Frame
  <2>6. stack' \in Seq(Frame) /\ visited' \subseteq Names
    BY <2>1, <2>4, <2>5, VisitType
  <2> QED
    BY <1>2, <2>6 DEF VisitDependency, TypeOK
<1>3. CASE Finish
  <2>1. Len(stack) \in Nat \ {0} /\ Top \in Frame
    BY <1>3, TopFrame DEF Finish
  <2>2. stack' \in Seq(Frame)
    <3>1. \A i \in 1 .. Len(stack) - 1 : stack[i] \in Frame
      BY <2>1, ElementOfSeq DEF TypeOK
    <3> QED
      BY <1>3, <2>1, <3>1, SubSeqProperties DEF Finish
  <2>3. sorted' \in Seq(Names)
    BY <1>3, <2>1, AppendProperties DEF Finish, Frame, TypeOK
  <2> QED
    BY <1>3, <2>2, <2>3 DEF Finish, TypeOK
<1>4. CASE UNCHANGED vars
  BY <1>4 DEF vars, TypeOK
<1> QED
  BY <1>1, <1>2, <1>3, <1>4 DEF Next

\* Every state of the walk is well typed.
THEOREM TypeCorrect == Spec => []TypeOK
<1>1. Init => TypeOK
  BY GraphsAssumption, EmptySeq DEF Init, TypeOK
<1>2. TypeOK /\ [Next]_vars => TypeOK'
  BY TypeStep
<1> QED
  BY <1>1, <1>2, PTL DEF Spec

-----------------------------------------------------------------------------
\* Reachability is reflexive, follows depends_on and is transitive.
LEMMA ReachesSelf == \A a : Reaches(a, a)
BY DEF Reaches

LEMMA ReachesStep == \A a, b : b \in DependsOn(a) => Reaches(a, b)
BY DEF Reaches, Closed

LEMMA ReachesTransitive == \A a, b, c : Reaches(a, b) /\ Reaches(b, c) => Reaches(a, c)
BY DEF Reaches

\* The map is never written, so the active calls may be compared by what was
\* reachable before the step.
LEMMA PathKept ==
  ASSUME nodes' = nodes,
         \A k, m \in 1 .. Len(stack') : k <= m => Reaches(stack'[k].name, stack'[m].name)
  PROVE  PathInv'
BY DEF PathInv, Reaches, Closed, DependsOn

-----------------------------------------------------------------------------
\* visit(name), called from callers, keeps the walk's invariant: callers' loops
\* are done with no name but those visited and this one, and the innermost
\* caller depends on it.
LEMMA VisitStep ==
  ASSUME TypeOK, WalkInv, TypeOK',
         NEW name \in Names, NEW STATE callers, SameCalls(callers),
         \A k \in 1 .. Len(stack) :
           /\ callers[k].pending \subseteq DependsOn(stack[k].name)
           /\ DependsOn(stack[k].name) \subseteq callers[k].pending \union visited \union {name},
         stack # <<>> => name \in DependsOn(Top.name),
         Visit(name, callers), nodes' = nodes, sorted' = sorted
  PROVE  /\ VisitedInv' /\ CallInv' /\ PathInv'
         /\ visited' = visited \union {name}
<1> USE DEF SameCalls
<1>t. /\ stack \in Seq(Frame) /\ stack' \in Seq(Frame)
      /\ Len(stack) \in Nat /\ Len(stack') \in Nat
  BY LenProperties DEF TypeOK
<1>e. Emitted' = Emitted
  BY DEF Emitted
<1>d. \A n : DependsOn(n)' = DependsOn(n)
  BY DEF DependsOn
<1>1. CASE name \in visited
  <2>1. stack' = callers /\ visited' = visited
    BY <1>1 DEF Visit
  <2>2. OnStack' = OnStack
    BY <2>1 DEF OnStack
  <2>3. VisitedInv'
    BY <2>1, <2>2, <1>e DEF VisitedInv, WalkInv
  <2>4. CallInv'
    BY <2>1, <1>1, <1>d DEF CallInv
  <2>5. PathInv'
    BY <2>1, PathKept DEF PathInv, WalkInv
  <2> QED
    BY <1>1, <2>1, <2>3, <2>4, <2>5
<1>2. CASE name \notin visited
  <2> DEFINE new == [name |-> name, pending |-> DependsOn(name)]
  <2>1. stack' = Append(callers, new) /\ visited' = visited \union {name}
    BY <1>2 DEF Visit
  <2>2. /\ Len(stack') = Len(stack) + 1
        /\ \A k \in 1 .. Len(stack) : stack'[k] = callers[k]
        /\ stack'[Len(stack) + 1] = new
    <3>1. new \in Frame
      BY DependsOnNames DEF Frame
    <3> QED
      BY <2>1, <3>1, AppendProperties
  <2>3. \A k \in 1 .. Len(stack') :
          k \in 1 .. Len(stack) \/ (k = Len(stack) + 1 /\ stack'[k] = new)
    BY <2>2, <1>t
  <2>4. OnStack' = OnStack \union {name}
    BY <2>2, <2>3, <1>t DEF OnStack
  <2>5. name \notin Emitted /\ name \notin OnStack
    BY <1>2 DEF WalkInv, VisitedInv
  <2>6. VisitedInv'
    <3>1. visited' = Emitted' \union OnStack' /\ Emitted' \intersect OnStack' = {}
      BY <2>1, <2>4, <2>5, <1>e DEF WalkInv, VisitedInv
    <3>2. \A k, m \in 1 .. Len(stack') : stack'[k].name = stack'[m].name => k = m
      BY <2>2, <2>3, <2>5, <1>t DEF WalkInv, VisitedInv, OnStack
    <3> QED
      BY <3>1, <3>2 DEF VisitedInv
  <2>7. CallInv'
    BY <2>1, <2>2, <2>3, <1>d DEF CallInv
  <2>8. PathInv'
    <3> SUFFICES ASSUME NEW k \in 1 .. Len(stack'), NEW m \in 1 .. Len(stack'), k <= m
                 PROVE  Reaches(stack'[k].name, stack'[m].name)
      BY PathKept
    <3>1. CASE m \in 1 .. Len(stack)
      <4>1. k \in 1 .. Len(stack)
        BY <3>1, <1>t
      <4>2. Reaches(stack[k].name, stack[m].name)
        BY <3>1, <4>1 DEF WalkInv, PathInv
      <4>3. stack'[k].name = stack[k].name /\ stack'[m].name = stack[m].name
        BY <2>2, <3>1, <4>1
      <4> QED
        BY <4>2, <4>3
    <3>2. CASE m = Len(stack) + 1 /\ k = m
      BY <2>2, <3>2, ReachesSelf
    <3>3. CASE m = Len(stack) + 1 /\ k \in 1 .. Len(stack)
      <4>1. Len(stack) \in 1 .. Len(stack) /\ stack # <<>>
        BY <3>3, <1>t, EmptySeq
      <4>2. Reaches(stack[k].name, Top.name)
        BY <3>3, <4>1 DEF WalkInv, PathInv, Top
      <4>3. Reaches(stack[k].name, name)
        BY <4>1, <4>2, ReachesStep, ReachesTransitive
      <4>4. stack'[k].name = stack[k].name /\ stack'[m].name = name
        BY <2>2, <3>3
      <4> QED
        BY <4>3, <4>4
    <3> QED
      BY <2>3, <3>1, <3>2, <3>3
  <2> QED
    BY <2>1, <2>6, <2>7, <2>8
<1> QED
  BY <1>1, <1>2

-----------------------------------------------------------------------------
\* A step that emits nothing disturbs neither property of the result.
LEMMA ResultKept ==
  ASSUME EmittedOnce, DependenciesFirst, nodes' = nodes, sorted' = sorted
  PROVE  EmittedOnce' /\ DependenciesFirst'
BY DEF EmittedOnce, DependenciesFirst, Reaches, Closed, DependsOn

LEMMA VisitNodeStep ==
  ASSUME IInv, TypeOK', VisitNode
  PROVE  IInv'
<1>1. PICK name \in unvisited : unvisited' = unvisited \ {name} /\ Visit(name, stack)
  BY DEF VisitNode
<1>2. stack = <<>> /\ Len(stack) = 0 /\ nodes' = nodes /\ sorted' = sorted
  BY EmptySeq DEF VisitNode
<1>3. name \in Names /\ SameCalls(stack)
  BY DEF IInv, TypeOK, SameCalls
<1>4. /\ VisitedInv' /\ CallInv' /\ PathInv'
      /\ visited' = visited \union {name}
  BY <1>1, <1>2, <1>3, VisitStep DEF IInv, WalkInv, CallInv
<1>5. RangedInv'
  BY <1>1, <1>2, <1>4 DEF IInv, WalkInv, RangedInv
<1> QED
  BY <1>2, <1>4, <1>5, ResultKept DEF IInv, WalkInv

LEMMA VisitDependencyStep ==
  ASSUME IInv, TypeOK', VisitDependency
  PROVE  IInv'
<1> DEFINE Callers(dep) ==
      [stack EXCEPT ![Len(stack)] = [name |-> Top.name, pending |-> Top.pending \ {dep}]]
<1>1. PICK dep \in Top.pending : Visit(dep, Callers(dep))
  BY DEF VisitDependency
<1>2. stack # <<>> /\ nodes' = nodes /\ sorted' = sorted /\ unvisited' = unvisited
  BY DEF VisitDependency
<1>3. Top \in Frame /\ Len(stack) \in 1 .. Len(stack) /\ stack \in Seq(Frame)
  BY <1>2, TopFrame DEF IInv, TypeOK
<1>4. [name |-> Top.name, pending |-> Top.pending \ {dep}] \in Frame /\ dep \in Names
  BY <1>3 DEF Frame
<1>5. /\ Callers(dep) \in Seq(Frame)
      /\ Len(Callers(dep)) = Len(stack)
      /\ \A k \in 1 .. Len(stack) :
           Callers(dep)[k] = IF k = Len(stack)
                             THEN [name |-> Top.name, pending |-> Top.pending \ {dep}]
                             ELSE stack[k]
  BY <1>3, <1>4, ExceptSeq
<1>6. SameCalls(Callers(dep))
  BY <1>5 DEF SameCalls, Top
<1>7. \A k \in 1 .. Len(stack) :
        /\ Callers(dep)[k].pending \subseteq DependsOn(stack[k].name)
        /\ DependsOn(stack[k].name) \subseteq Callers(dep)[k].pending \union visited \union {dep}
  BY <1>5 DEF IInv, WalkInv, CallInv, Top
<1>8. dep \in DependsOn(Top.name)
  BY <1>1, <1>3 DEF IInv, WalkInv, CallInv, Top
<1>9. /\ VisitedInv' /\ CallInv' /\ PathInv'
      /\ visited' = visited \union {dep}
  BY <1>1, <1>2, <1>4, <1>6, <1>7, <1>8, VisitStep DEF IInv
<1>10. RangedInv'
  BY <1>2, <1>9 DEF IInv, WalkInv, RangedInv
<1> QED
  BY <1>2, <1>9, <1>10, ResultKept DEF IInv, WalkInv

\* A sequence without its last element.
LEMMA WithoutLast ==
  ASSUME NEW S, NEW s \in Seq(S), Len(s) \in Nat \ {0}
  PROVE  /\ Len(SubSeq(s, 1, Len(s) - 1)) = Len(s) - 1
         /\ \A k \in 1 .. Len(s) - 1 : SubSeq(s, 1, Len(s) - 1)[k] = s[k]
<1> DEFINE m == Len(s) - 1
<1>1. m \in Nat /\ m \in Int /\ 1 \in Int
  OBVIOUS
<1>2. \A i \in 1 .. m : s[i] \in S
  BY ElementOfSeq
<1>3. /\ Len(SubSeq(s, 1, m)) = IF 1 <= m THEN m - 1 + 1 ELSE 0
      /\ \A k \in 1 .. m - 1 + 1 : SubSeq(s, 1, m)[k] = s[1 + k - 1]
  <2> HIDE DEF m
  <2> QED
    BY <1>1, <1>2, SubSeqProperties
<1>4. Len(SubSeq(s, 1, m)) = m
  BY <1>1, <1>3
<1>5. \A k \in 1 .. m : SubSeq(s, 1, m)[k] = s[k]
  <2> HIDE DEF m
  <2> SUFFICES ASSUME NEW k \in 1 .. m PROVE SubSeq(s, 1, m)[k] = s[k]
    OBVIOUS
  <2>1. k \in 1 .. m - 1 + 1 /\ 1 + k - 1 = k
    BY <1>1
  <2> QED
    BY <1>3, <2>1, Zenon
<1> QED
  BY <1>4, <1>5

\* The top call returns: its name leaves the stack and joins the result.
LEMMA FinishFacts ==
  ASSUME IInv, TypeOK', Finish
  PROVE  /\ Len(stack) \in Nat \ {0} /\ Len(sorted) \in Nat
         /\ Len(stack') = Len(stack) - 1
         /\ \A k \in 1 .. Len(stack') :
              k \in 1 .. Len(stack) /\ k # Len(stack) /\ stack'[k] = stack[k]
         /\ Len(sorted') = Len(sorted) + 1
         /\ \A i \in 1 .. Len(sorted) : sorted'[i] = sorted[i]
         /\ sorted'[Len(sorted) + 1] = Top.name
<1>1. Len(stack) \in Nat \ {0} /\ Top.name \in Names
  BY TopFrame DEF Finish, IInv, Frame
<1>3. Len(stack') = Len(stack) - 1 /\ \A k \in 1 .. Len(stack) - 1 : stack'[k] = stack[k]
  BY <1>1, WithoutLast DEF Finish, IInv, TypeOK
<1>4. sorted \in Seq(Names) /\ Len(sorted) \in Nat
  BY LenProperties DEF IInv, TypeOK
<1> QED
  BY <1>1, <1>3, <1>4, AppendProperties DEF Finish

\* Every active call leads to the innermost one.
LEMMA OnStackReachesTop ==
  ASSUME IInv, stack # <<>>, NEW name \in OnStack
  PROVE  Reaches(name, Top.name)
<1>1. PICK k \in 1 .. Len(stack) : stack[k].name = name
  BY DEF OnStack
<1>2. Len(stack) \in 1 .. Len(stack) /\ k <= Len(stack)
  BY TopFrame DEF IInv
<1>3. Reaches(stack[k].name, stack[Len(stack)].name)
  BY <1>2 DEF IInv, WalkInv, PathInv
<1> QED
  BY <1>1, <1>3 DEF Top

\* A call that has ranged over its dependencies has visited them all.
LEMMA TopDependencies ==
  ASSUME IInv, Finish
  PROVE  DependsOn(Top.name) \subseteq Emitted \union OnStack
<1>1. Len(stack) \in 1 .. Len(stack) /\ Top.pending = {}
  BY TopFrame DEF Finish, IInv
<1>2. DependsOn(Top.name) \subseteq Top.pending \union visited
  BY <1>1 DEF IInv, WalkInv, CallInv, Top
<1> QED
  BY <1>1, <1>2 DEF IInv, WalkInv, VisitedInv

LEMMA FinishStep ==
  ASSUME IInv, TypeOK', Finish
  PROVE  IInv'
<1>1. /\ Top.pending = {} /\ nodes' = nodes /\ visited' = visited /\ unvisited' = unvisited
  BY DEF Finish
<1>d. \A n : DependsOn(n)' = DependsOn(n)
  BY <1>1 DEF DependsOn
<1>s. stack # <<>>
  BY DEF Finish
<1>2. /\ Emitted' = Emitted \union {Top.name}
      /\ \A i \in 1 .. Len(sorted') :
           i \in 1 .. Len(sorted) \/ (i = Len(sorted) + 1 /\ sorted'[i] = Top.name)
  BY FinishFacts DEF Emitted
<1>3. OnStack' = OnStack \ {Top.name} /\ Top.name \in OnStack
  <2>1. Top.name \in OnStack
    BY FinishFacts DEF OnStack, Top
  <2>2. \A k \in 1 .. Len(stack') : stack[k].name # Top.name
    BY FinishFacts DEF Top, IInv, WalkInv, VisitedInv
  <2>3. \A k \in 1 .. Len(stack) : k \in 1 .. Len(stack') \/ k = Len(stack)
    BY FinishFacts
  <2> QED
    BY <2>1, <2>2, <2>3, FinishFacts DEF OnStack, Top
<1>4. Top.name \notin Emitted
  BY <1>3 DEF IInv, WalkInv, VisitedInv
<1>5. VisitedInv'
  <2>1. \A k, m \in 1 .. Len(stack') : stack'[k].name = stack'[m].name => k = m
    BY FinishFacts DEF IInv, WalkInv, VisitedInv
  <2>2. visited' = Emitted' \union OnStack' /\ Emitted' \intersect OnStack' = {}
    BY <1>1, <1>2, <1>3 DEF IInv, WalkInv, VisitedInv
  <2> QED
    BY <2>1, <2>2 DEF VisitedInv
<1>6. CallInv'
  BY FinishFacts, <1>1, <1>d DEF IInv, WalkInv, CallInv
<1>7. PathInv'
  BY FinishFacts, <1>1, PathKept DEF IInv, WalkInv, PathInv
<1>8. RangedInv'
  BY <1>1 DEF IInv, WalkInv, RangedInv
<1>9. EmittedOnce'
  BY FinishFacts, <1>2, <1>4 DEF IInv, EmittedOnce, Emitted
<1>10. \A i \in 1 .. Len(sorted') : \A dep \in DependsOn(sorted'[i]) :
         (\E j \in 1 .. i - 1 : sorted'[j] = dep) \/ Reaches(dep, sorted'[i])
  <2> SUFFICES ASSUME NEW i \in 1 .. Len(sorted'), NEW dep \in DependsOn(sorted'[i])
               PROVE  (\E j \in 1 .. i - 1 : sorted'[j] = dep) \/ Reaches(dep, sorted'[i])
    OBVIOUS
  <2>1. CASE i \in 1 .. Len(sorted)
    <3>1. sorted'[i] = sorted[i] /\ \A j \in 1 .. i - 1 : sorted'[j] = sorted[j]
      BY <2>1, FinishFacts
    <3> QED
      BY <2>1, <3>1 DEF IInv, DependenciesFirst
  <2>2. CASE i = Len(sorted) + 1 /\ sorted'[i] = Top.name
    <3>1. dep \in Emitted \/ dep \in OnStack
      BY <2>2, TopDependencies
    <3>2. CASE dep \in Emitted
      BY <2>2, <3>2, FinishFacts DEF Emitted
    <3>3. CASE dep \in OnStack
      <4>1. Reaches(dep, Top.name)
        BY <1>s, <3>3, OnStackReachesTop
      <4> QED
        BY <2>2, <4>1
    <3> QED
      BY <3>1, <3>2, <3>3
  <2> QED
    BY <1>2, <2>1, <2>2
<1>11. DependenciesFirst'
  BY <1>1, <1>10 DEF DependenciesFirst, Reaches, Closed, DependsOn
<1> QED
  BY <1>5, <1>6, <1>7, <1>8, <1>9, <1>11 DEF IInv, WalkInv

\* The inductive invariant holds initially and is kept by every step.
LEMMA InitIInv == Init => IInv
<1> SUFFICES ASSUME Init PROVE IInv
  OBVIOUS
<1>1. Len(stack) = 0 /\ Len(sorted) = 0
  BY EmptySeq DEF Init
<1>2. TypeOK
  BY GraphsAssumption, EmptySeq DEF Init, TypeOK
<1> QED
  BY <1>1, <1>2 DEF Init, IInv, WalkInv, VisitedInv, CallInv, PathInv, RangedInv,
                    EmittedOnce, DependenciesFirst, Emitted, OnStack

LEMMA NextIInv ==
  ASSUME IInv, [Next]_vars
  PROVE  IInv'
<1>1. TypeOK'
  BY TypeStep DEF IInv
<1>2. CASE VisitNode
  BY <1>1, <1>2, VisitNodeStep
<1>3. CASE VisitDependency
  BY <1>1, <1>3, VisitDependencyStep
<1>4. CASE Finish
  BY <1>1, <1>4, FinishStep
<1>5. CASE UNCHANGED vars
  <2>1. nodes' = nodes /\ unvisited' = unvisited /\ stack' = stack /\ visited' = visited /\ sorted' = sorted
    BY <1>5 DEF vars
  <2>2. VisitedInv'
    BY <2>1 DEF IInv, WalkInv, VisitedInv, Emitted, OnStack
  <2>3. CallInv' /\ RangedInv'
    BY <2>1 DEF IInv, WalkInv, CallInv, RangedInv, DependsOn
  <2>4. PathInv'
    BY <2>1, PathKept DEF IInv, WalkInv, PathInv
  <2> QED
    BY <1>1, <2>1, <2>2, <2>3, <2>4, ResultKept DEF IInv, WalkInv
<1> QED
  BY <1>2, <1>3, <1>4, <1>5 DEF Next

LEMMA Invariant == Spec => []IInv
<1>1. IInv /\ [Next]_vars => IInv'
  BY NextIInv
<1> QED
  BY InitIInv, <1>1, PTL DEF Spec

-----------------------------------------------------------------------------
\* Dependencies come first: on every map, a name emitted before one of its
\* dependencies is on a cycle with it.
THEOREM DependenciesComeFirst == Spec => []DependenciesFirst
<1>1. IInv => DependenciesFirst
  BY DEF IInv
<1> QED
  BY Invariant, <1>1, PTL

\* No name is emitted, and so no component registered, twice.
THEOREM EmittedAtMostOnce == Spec => []EmittedOnce
<1>1. IInv => EmittedOnce
  BY DEF IInv
<1> QED
  BY Invariant, <1>1, PTL

\* The walk's own invariant: what is visited has been emitted or is active.
THEOREM WalkInvariant == Spec => []WalkInv
<1>1. IInv => WalkInv
  BY DEF IInv
<1> QED
  BY Invariant, <1>1, PTL

\* A walk that has returned has emitted every key of the map.
THEOREM AllEmitted == Spec => []NoneForgotten
<1>1. IInv => NoneForgotten
  <2> SUFFICES ASSUME IInv, Returned PROVE DOMAIN nodes \subseteq Emitted
    BY DEF NoneForgotten
  <2>1. OnStack = {}
    BY EmptySeq DEF OnStack, Returned
  <2> QED
    BY <2>1 DEF IInv, WalkInv, RangedInv, VisitedInv, Returned
<1> QED
  BY Invariant, <1>1, PTL

-----------------------------------------------------------------------------
(* Every step uses up some of the work.                                    *)

\* The entries of depends_on that no call has ranged over yet, and the names that
\* have not been emitted.
Unranged ==
  {e \in Names \X Names :
     /\ e[2] \in DependsOn(e[1])
     /\ \/ e[1] \notin visited
        \/ \E k \in 1 .. Len(stack) : stack[k].name = e[1] /\ e[2] \in stack[k].pending}
Unsorted == Names \ Emitted

\* How many steps the walk can still take.
Left == Cardinality(unvisited) + Cardinality(Unranged) + Cardinality(Unsorted)

LEMMA Fewer ==
  ASSUME NEW S, NEW T, IsFiniteSet(S), T \subseteq S
  PROVE  /\ Cardinality(T) \in Nat /\ Cardinality(S) \in Nat
         /\ Cardinality(T) <= Cardinality(S)
         /\ T # S => Cardinality(T) < Cardinality(S)
<1>1. /\ IsFiniteSet(T) /\ Cardinality(T) <= Cardinality(S)
      /\ Cardinality(S) = Cardinality(T) => S = T
  BY FS_Subset
<1>2. Cardinality(T) \in Nat /\ Cardinality(S) \in Nat
  BY <1>1, FS_CardinalityType
<1> QED
  BY <1>1, <1>2

LEMMA WorkIsFinite ==
  ASSUME IsFiniteSet(Names), TypeOK
  PROVE  IsFiniteSet(unvisited) /\ IsFiniteSet(Unranged) /\ IsFiniteSet(Unsorted)
<1>1. IsFiniteSet(Names \X Names)
  BY FS_Product
<1>2. unvisited \in SUBSET Names /\ Unsorted \in SUBSET Names
  BY DEF TypeOK, Unsorted
<1>3. Unranged \in SUBSET (Names \X Names)
  BY DEF Unranged
<1> QED
  BY <1>1, <1>2, <1>3, FS_Subset

\* A call of visit ranges over what its callers have left.
LEMMA VisitLeaves ==
  ASSUME TypeOK, TypeOK', NEW name \in Names, NEW STATE callers, SameCalls(callers),
         Visit(name, callers), nodes' = nodes, NEW e \in Unranged'
  PROVE  /\ e \in Names \X Names /\ e[2] \in DependsOn(e[1])
         /\ \/ e[1] \notin visited
            \/ \E k \in 1 .. Len(stack) : stack[k].name = e[1] /\ e[2] \in callers[k].pending
<1>1. e \in Names \X Names /\ e[2] \in DependsOn(e[1])
  BY DEF Unranged, DependsOn
<1>2. CASE e[1] \notin visited'
  BY <1>1, <1>2 DEF Visit
<1>3. CASE e[1] \in visited'
  <2>1. PICK k \in 1 .. Len(stack') : stack'[k].name = e[1] /\ e[2] \in stack'[k].pending
    BY <1>3 DEF Unranged
  <2>2. CASE name \in visited
    BY <1>1, <2>1, <2>2 DEF Visit, SameCalls
  <2>3. CASE name \notin visited
    <3> DEFINE new == [name |-> name, pending |-> DependsOn(name)]
    <3>1. stack' = Append(callers, new)
      BY <2>3 DEF Visit
    <3>2. new \in Frame /\ new.name = name
      BY DependsOnNames DEF Frame
    <3> HIDE DEF new
    <3>3. /\ Len(stack) \in Nat /\ Len(stack') = Len(stack) + 1
          /\ \A m \in 1 .. Len(stack) : stack'[m] = callers[m]
          /\ stack'[Len(stack) + 1] = new
      BY <3>1, <3>2, AppendProperties, LenProperties DEF SameCalls
    <3>4. CASE k \in 1 .. Len(stack)
      BY <1>1, <2>1, <3>3, <3>4 DEF SameCalls
    <3>5. CASE k = Len(stack) + 1
      BY <1>1, <2>1, <2>3, <3>2, <3>3, <3>5
    <3> QED
      BY <3>3, <3>4, <3>5
  <2> QED
    BY <2>2, <2>3
<1> QED
  BY <1>2, <1>3

\* Each step leaves less of one kind of work and no more of the others.
LEMMA NextShrinks ==
  ASSUME IInv, IInv', Next
  PROVE  /\ unvisited' \subseteq unvisited
         /\ Unranged' \subseteq Unranged
         /\ Unsorted' \subseteq Unsorted
         /\ \/ unvisited' # unvisited \/ Unranged' # Unranged \/ Unsorted' # Unsorted
<1>1. CASE VisitNode
  <2>1. PICK name \in unvisited : unvisited' = unvisited \ {name} /\ Visit(name, stack)
    BY <1>1 DEF VisitNode
  <2>2. nodes' = nodes /\ sorted' = sorted /\ name \in Names /\ SameCalls(stack)
    BY <1>1 DEF VisitNode, IInv, TypeOK, SameCalls
  <2>3. Unranged' \subseteq Unranged
    <3> SUFFICES ASSUME NEW e \in Unranged' PROVE e \in Unranged
      OBVIOUS
    <3> QED
      BY <2>1, <2>2, VisitLeaves DEF IInv, Unranged
  <2>4. Unsorted' = Unsorted
    BY <2>2 DEF Unsorted, Emitted
  <2> QED
    BY <2>1, <2>3, <2>4
<1>2. CASE VisitDependency
  <2> DEFINE Callers(dep) ==
        [stack EXCEPT ![Len(stack)] = [name |-> Top.name, pending |-> Top.pending \ {dep}]]
  <2>1. PICK dep \in Top.pending : Visit(dep, Callers(dep))
    BY <1>2 DEF VisitDependency
  <2>2. stack # <<>> /\ nodes' = nodes /\ sorted' = sorted /\ unvisited' = unvisited
    BY <1>2 DEF VisitDependency
  <2>3. /\ Top \in Frame /\ Len(stack) \in 1 .. Len(stack) /\ Top.name \in OnStack
        /\ stack \in Seq(Frame)
    BY <2>2, TopFrame DEF IInv, TypeOK
  <2>4. [name |-> Top.name, pending |-> Top.pending \ {dep}] \in Frame /\ dep \in Names
    BY <2>3 DEF Frame
  <2>5. /\ Callers(dep) \in Seq(Frame)
        /\ Len(Callers(dep)) = Len(stack)
        /\ \A k \in 1 .. Len(stack) :
             Callers(dep)[k] = IF k = Len(stack)
                               THEN [name |-> Top.name, pending |-> Top.pending \ {dep}]
                               ELSE stack[k]
    BY <2>3, <2>4, ExceptSeq
  <2>6. SameCalls(Callers(dep))
    BY <2>5 DEF SameCalls, Top
  <2>7. \A k \in 1 .. Len(stack) :
          /\ Callers(dep)[k].pending \subseteq stack[k].pending
          /\ k = Len(stack) => dep \notin Callers(dep)[k].pending
    BY <2>5 DEF Top
  <2>8. ASSUME NEW e \in Unranged'
        PROVE  /\ e \in Names \X Names /\ e[2] \in DependsOn(e[1])
               /\ \/ e[1] \notin visited
                  \/ \E k \in 1 .. Len(stack) :
                       stack[k].name = e[1] /\ e[2] \in Callers(dep)[k].pending
    <3> HIDE DEF Callers
    <3> QED
      BY <2>1, <2>2, <2>4, <2>6, VisitLeaves DEF IInv
  <2> HIDE DEF Callers
  <2>9. Unranged' \subseteq Unranged
    BY <2>7, <2>8 DEF Unranged
  <2>10. <<Top.name, dep>> \in Unranged
    <3>1. Top.name \in Names /\ dep \in DependsOn(Top.name)
      BY <2>1, <2>3 DEF IInv, WalkInv, CallInv, Top, Frame
    <3>2. stack[Len(stack)].name = Top.name /\ dep \in stack[Len(stack)].pending
      BY <2>1 DEF Top
    <3> QED
      BY <2>3, <2>4, <3>1, <3>2 DEF Unranged
  <2>11. <<Top.name, dep>> \notin Unranged'
    <3> SUFFICES ASSUME <<Top.name, dep>> \in Unranged' PROVE FALSE
      OBVIOUS
    <3>1. Top.name \in visited
      BY <2>3 DEF IInv, WalkInv, VisitedInv
    <3>2. PICK k \in 1 .. Len(stack) :
            stack[k].name = Top.name /\ dep \in Callers(dep)[k].pending
      BY <2>8, <3>1
    <3>3. k = Len(stack)
      BY <2>3, <3>2 DEF IInv, WalkInv, VisitedInv, Top
    <3> QED
      BY <2>7, <3>2, <3>3
  <2>12. Unsorted' = Unsorted
    BY <2>2 DEF Unsorted, Emitted
  <2> QED
    BY <2>2, <2>9, <2>10, <2>11, <2>12
<1>3. CASE Finish
  <2>1. nodes' = nodes /\ visited' = visited /\ unvisited' = unvisited
    BY <1>3 DEF Finish
  <2>2. /\ \A k \in 1 .. Len(stack') : k \in 1 .. Len(stack) /\ stack'[k] = stack[k]
        /\ Len(sorted) \in Nat /\ Len(sorted') = Len(sorted) + 1
        /\ \A i \in 1 .. Len(sorted) : sorted'[i] = sorted[i]
        /\ sorted'[Len(sorted) + 1] = Top.name
    BY <1>3, FinishFacts DEF IInv
  <2>3. Unranged' \subseteq Unranged
    BY <2>1, <2>2 DEF Unranged, DependsOn
  <2>4. Emitted \subseteq Emitted' /\ Top.name \in Emitted'
    BY <2>2 DEF Emitted
  <2>5. Top.name \in Names /\ Top.name \notin Emitted
    BY <1>3, TopFrame DEF Finish, IInv, WalkInv, VisitedInv, Frame
  <2> QED
    BY <2>1, <2>3, <2>4, <2>5 DEF Unsorted
<1> QED
  BY <1>1, <1>2, <1>3 DEF Next

\* The walk is over after a bounded number of steps, cycles or not: every one leaves
\* fewer of the keys, of the depends_on entries and of the names (both loops of
\* TopologicalSort and visit's return).  That it takes them is Terminates.
THEOREM WalkProgresses ==
  ASSUME IsFiniteSet(Names)
  PROVE  Spec => [](Left \in Nat) /\ [][Left' < Left]_vars
<1>1. IInv => Left \in Nat
  <2> SUFFICES ASSUME IInv PROVE Left \in Nat
    OBVIOUS
  <2>1. /\ Cardinality(unvisited) \in Nat /\ Cardinality(Unranged) \in Nat
        /\ Cardinality(Unsorted) \in Nat
    BY WorkIsFinite, FS_CardinalityType DEF IInv
  <2> QED
    BY <2>1 DEF Left
<1>2. IInv /\ IInv' /\ [Next]_vars => [Left' < Left]_vars
  <2> SUFFICES ASSUME IInv, IInv', Next PROVE Left' < Left
    OBVIOUS
  <2>1. IsFiniteSet(unvisited) /\ IsFiniteSet(Unranged) /\ IsFiniteSet(Unsorted)
    BY WorkIsFinite DEF IInv
  <2>2. /\ Cardinality(unvisited') \in Nat /\ Cardinality(unvisited) \in Nat
        /\ Cardinality(unvisited') <= Cardinality(unvisited)
        /\ unvisited' # unvisited => Cardinality(unvisited') < Cardinality(unvisited)
    BY <2>1, NextShrinks, Fewer
  <2>3. /\ Cardinality(Unranged') \in Nat /\ Cardinality(Unranged) \in Nat
        /\ Cardinality(Unranged') <= Cardinality(Unranged)
        /\ Unranged' # Unranged => Cardinality(Unranged') < Cardinality(Unranged)
    BY <2>1, NextShrinks, Fewer
  <2>4. /\ Cardinality(Unsorted') \in Nat /\ Cardinality(Unsorted) \in Nat
        /\ Cardinality(Unsorted') <= Cardinality(Unsorted)
        /\ Unsorted' # Unsorted => Cardinality(Unsorted') < Cardinality(Unsorted)
    BY <2>1, NextShrinks, Fewer
  <2>5. unvisited' # unvisited \/ Unranged' # Unranged \/ Unsorted' # Unsorted
    BY NextShrinks
  <2>6. Left' = Cardinality(unvisited') + Cardinality(Unranged') + Cardinality(Unsorted')
    BY DEF Left
  <2> QED
    BY <2>2, <2>3, <2>4, <2>5, <2>6 DEF Left
<1> QED
  BY Invariant, <1>1, <1>2, PTL DEF Spec

-----------------------------------------------------------------------------
\* A returning call emits a name that the abstract order may take next.
LEMMA FinishEmits ==
  ASSUME IInv, TypeOK', Finish
  PROVE  Order!Emit(Top.name)
<1>1. Top.name \in OnStack /\ nodes' = nodes /\ sorted' = Append(sorted, Top.name)
  BY TopFrame DEF Finish, IInv
<1>2. Top.name \notin Order!Ordered
  BY <1>1 DEF IInv, WalkInv, VisitedInv, Emitted, Order!Ordered
<1>3. ASSUME NEW dep \in Order!DependsOn(Top.name)
      PROVE  dep \in Order!Ordered \/ Order!Reaches(dep, Top.name)
  <2>1. dep \in Emitted \/ dep \in OnStack
    BY <1>3, TopDependencies DEF DependsOn, Order!DependsOn
  <2>2. CASE dep \in Emitted
    BY <2>2 DEF Emitted, Order!Ordered
  <2>3. CASE dep \in OnStack
    <3>1. Reaches(dep, Top.name)
      BY <2>3, OnStackReachesTop DEF Finish
    <3> QED
      BY <3>1 DEF Reaches, Closed, DependsOn, Order!Reaches, Order!Closed, Order!DependsOn
  <2> QED
    BY <2>1, <2>2, <2>3
<1> QED
  BY <1>1, <1>2, <1>3 DEF Order!Emit, Order!Ready

\* The walk implements the abstract order that the projects rely on.
THEOREM Refinement == Spec => ImplementsOrder
<1>1. Init => Order!Init
  BY DEF Init, Order!Init
<1>2. IInv /\ IInv' /\ [Next]_vars => [Order!Next]_<<nodes, sorted>>
  <2> SUFFICES ASSUME IInv, IInv', [Next]_vars
               PROVE  Order!Next \/ UNCHANGED <<nodes, sorted>>
    OBVIOUS
  <2>1. CASE Finish
    <3>1. Top.name \in Names
      BY <2>1, TopFrame DEF Finish, IInv, Frame
    <3> QED
      BY <2>1, <3>1, FinishEmits DEF IInv, Order!Next
  <2>2. CASE VisitNode \/ VisitDependency \/ UNCHANGED vars
    BY <2>2 DEF VisitNode, VisitDependency, vars
  <2> QED
    BY <2>1, <2>2 DEF Next
<1> QED
  BY Invariant, <1>1, <1>2, PTL DEF Spec, ImplementsOrder, Order!Spec

=============================================================================
