-------------------------- MODULE TopologicalSort --------------------------
(***************************************************************************)
(* common.TopologicalSort (provider/common/topo.go): the depth-first walk  *)
(* over depends_on that fixes the order in which the AWS, GCP and Scaleway *)
(* projects create their services.  Both loops of the code, over nodes and *)
(* over nodes[name].DependsOn, range over a Go map, so the next name is    *)
(* any one not taken yet; each iteration of either loop is one step here.  *)
(*                                                                         *)
(* nodes is the argument: a function from the service names of the map to  *)
(* the names their depends_on mentions, which need not be keys of the map. *)
(***************************************************************************)
EXTENDS Naturals, Sequences

CONSTANTS
  Names,   \* every name a compose file may mention
  Graphs   \* the arguments TopologicalSort is called with

\* A map's keys and its depends_on entries are names; the map is never nil.
ASSUME GraphsAssumption ==
  \A g \in Graphs : DOMAIN g \subseteq Names /\ \A n \in DOMAIN g : g[n] \subseteq Names

VARIABLES
  nodes,      \* the map being sorted, never written
  unvisited,  \* the keys the outer loop has still to range over
  stack,      \* the active calls of visit, innermost last
  visited,    \* the visited set
  sorted      \* the result so far

vars == <<nodes, unvisited, stack, visited, sorted>>

\* An active call of visit: its name, and what its loop has still to range over.
Frame == [name : Names, pending : SUBSET Names]

\* nodes[name].DependsOn: a missing key yields the zero ServiceConfig, whose
\* DependsOn is empty.
DependsOn(name) == IF name \in DOMAIN nodes THEN nodes[name] ELSE {}

Top == stack[Len(stack)]

Emitted == {sorted[i] : i \in 1 .. Len(sorted)}

Init ==
  /\ nodes \in Graphs
  /\ unvisited = DOMAIN nodes
  /\ stack = <<>>
  /\ visited = {}
  /\ sorted = <<>>

\* Mutant: visit does not look whether the name was visited.
VisitAgain(name, callers) ==
  /\ stack' = Append(callers, [name |-> name, pending |-> DependsOn(name)])
  /\ visited' = visited \union {name}

\* The call visit(name), with callers the stack it is made from: it returns at
\* once when the name was visited, else marks it and starts its loop.
Visit(name, callers) ==
  IF name \in visited
  THEN stack' = callers /\ visited' = visited
  ELSE /\ stack' = Append(callers, [name |-> name, pending |-> DependsOn(name)])
       /\ visited' = visited \union {name}

\* Mutant: the outer loop ends after its first iteration.
VisitOnlyNode ==
  /\ stack = <<>>
  /\ \E name \in unvisited : unvisited' = {} /\ Visit(name, stack)
  /\ UNCHANGED <<nodes, sorted>>

\* One iteration of the outer loop.
VisitNode ==
  /\ stack = <<>>
  /\ \E name \in unvisited :
       /\ unvisited' = unvisited \ {name}
       /\ Visit(name, stack)
  /\ UNCHANGED <<nodes, sorted>>

\* Mutant: the inner loop starts over with every iteration.
VisitSameDependency ==
  /\ stack # <<>>
  /\ \E dep \in Top.pending : Visit(dep, stack)
  /\ UNCHANGED <<nodes, unvisited, sorted>>

\* One iteration of the innermost active call's loop over depends_on.
VisitDependency ==
  /\ stack # <<>>
  /\ \E dep \in Top.pending :
       Visit(dep, [stack EXCEPT ![Len(stack)] = [name |-> Top.name, pending |-> Top.pending \ {dep}]])
  /\ UNCHANGED <<nodes, unvisited, sorted>>

\* Mutant: a call appends its name before it has ranged over its depends_on.
FinishEarly ==
  /\ stack # <<>>
  /\ sorted' = Append(sorted, Top.name)
  /\ stack' = SubSeq(stack, 1, Len(stack) - 1)
  /\ UNCHANGED <<nodes, unvisited, visited>>

\* The innermost call has ranged over its depends_on: it appends its own name
\* and returns to its caller.
Finish ==
  /\ stack # <<>>
  /\ Top.pending = {}
  /\ sorted' = Append(sorted, Top.name)
  /\ stack' = SubSeq(stack, 1, Len(stack) - 1)
  /\ UNCHANGED <<nodes, unvisited, visited>>

Next == VisitNode \/ VisitDependency \/ Finish

\* The walk is one goroutine that never blocks, so it always takes its next step.
Spec == Init /\ [][Next]_vars
FairSpec == Spec /\ WF_vars(Next)

\* TopologicalSort has returned.
Returned == unvisited = {} /\ stack = <<>>

-----------------------------------------------------------------------------
TypeOK ==
  /\ DOMAIN nodes \subseteq Names
  /\ \A n \in DOMAIN nodes : nodes[n] \subseteq Names
  /\ unvisited \subseteq DOMAIN nodes
  /\ stack \in Seq(Frame)
  /\ visited \subseteq Names
  /\ sorted \in Seq(Names)

\* Following depends_on from a can lead to b: b is in every set of names that
\* holds a and, with a name, all it depends on.
Closed(S) == \A n \in S : DependsOn(n) \subseteq S
Reaches(a, b) == \A S \in SUBSET Names : a \in S /\ Closed(S) => b \in S

\* Every name is emitted after the names it depends on, and the only excuse for
\* an exception is a cycle through both.  The projects rely on it: a service is
\* created with the resources its dependencies left behind (AWS project.go
\* "the topological sort guarantees a store is created before any service that
\* depends_on it").
DependenciesFirst ==
  \A i \in 1 .. Len(sorted) : \A dep \in DependsOn(sorted[i]) :
    \/ \E j \in 1 .. i - 1 : sorted[j] = dep
    \/ Reaches(dep, sorted[i])

\* No name is emitted twice, however many paths and cycles lead to it: each
\* emitted name registers a component with the engine, which refuses a second
\* of the same URN.
EmittedOnce ==
  \A i, j \in 1 .. Len(sorted) : sorted[i] = sorted[j] => i = j

\* When the walk returns, every key of the map has been emitted.
NoneForgotten == Returned => DOMAIN nodes \subseteq Emitted

-----------------------------------------------------------------------------
\* Why the above holds: a visited name has either been emitted or has an active
\* call, and the active calls are of different names.
OnStack == {stack[k].name : k \in 1 .. Len(stack)}

VisitedInv ==
  /\ visited = Emitted \union OnStack
  /\ Emitted \intersect OnStack = {}
  /\ \A k, m \in 1 .. Len(stack) : stack[k].name = stack[m].name => k = m

\* An active call has dependencies only to range over, and has visited every
\* one its loop is done with.
CallInv ==
  \A k \in 1 .. Len(stack) :
    /\ stack[k].pending \subseteq DependsOn(stack[k].name)
    /\ DependsOn(stack[k].name) \subseteq stack[k].pending \union visited

\* An active call was reached through depends_on from each of its callers, so a
\* dependency that is still active closes a cycle.
PathInv ==
  \A k, m \in 1 .. Len(stack) : k <= m => Reaches(stack[k].name, stack[m].name)

\* The outer loop has visited the keys it is done with.
RangedInv == DOMAIN nodes \subseteq unvisited \union visited

\* The inductive invariant of the walk.
WalkInv == VisitedInv /\ CallInv /\ PathInv /\ RangedInv

-----------------------------------------------------------------------------
\* The walk implements the abstract order: a name joins the result only after
\* everything it depends on, cycles excepted.
Order == INSTANCE DependencyOrder WITH order <- sorted
ImplementsOrder == Order!Spec

\* The walk always returns, on cyclic maps too.
Terminates == <>Returned

============================================================================
