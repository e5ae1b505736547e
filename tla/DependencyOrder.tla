--------------------------- MODULE DependencyOrder ---------------------------
(***************************************************************************)
(* What the callers of common.TopologicalSort rely on, without saying how  *)
(* it is computed: names join the order one at a time, never twice, and    *)
(* never before a name they depend on unless a cycle runs through both.    *)
(***************************************************************************)
EXTENDS Naturals, Sequences

CONSTANT
  Names    \* every name a compose file may mention

VARIABLES
  nodes,   \* service name -> the names its depends_on mentions
  order    \* the names emitted so far

DependsOn(name) == IF name \in DOMAIN nodes THEN nodes[name] ELSE {}

Closed(S) == \A n \in S : DependsOn(n) \subseteq S
Reaches(a, b) == \A S \in SUBSET Names : a \in S /\ Closed(S) => b \in S

Ordered == {order[i] : i \in 1 .. Len(order)}

\* Any map may be ordered.
Init == order = <<>>

\* Name may be next: all it depends on is there, or it is on a cycle with it.
Ready(name) ==
  \A dep \in DependsOn(name) : dep \in Ordered \/ Reaches(dep, name)

Emit(name) ==
  /\ name \notin Ordered
  /\ Ready(name)
  /\ order' = Append(order, name)
  /\ nodes' = nodes

Next == \E name \in Names : Emit(name)

Spec == Init /\ [][Next]_<<nodes, order>>

==============================================================================
