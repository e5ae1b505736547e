---------------------------------- MODULE Plan ----------------------------------
(***************************************************************************)
(* What a deployment program hands to the Pulumi engine: a sequence of     *)
(* resource registrations.  A resource is known by its URN, of which the   *)
(* component type it is a child of, its own type and its logical name      *)
(* matter here (the name of the parent component is NOT part of a child's  *)
(* URN), and it is created once the resources it refers to, through an     *)
(* input or through DependsOn, are.  "args" keeps the inputs that the      *)
(* properties speak of.                                                    *)
(*                                                                         *)
(* A logical name is the sequence of the words the code joins with "-", so *)
(* that names made in different ways can meet.  A host name is a sequence  *)
(* of labels, each a name, a wildcard starting with <<"*">>; a record set  *)
(* is named by its host and its type.                                      *)
(***************************************************************************)
EXTENDS Naturals, Sequences, FiniteSets, SequencesExt, TLC

Urn(parent, type, name) == <<parent, type, name>>
ParentOf(urn) == urn[1]
TypeOf(urn) == urn[2]

ResWith(urn, after, args) == [urn |-> urn, after |-> after, args |-> args]
Res(urn, after) == ResWith(urn, after, [of |-> "none"])

\* Registrations made under a condition, and those made in a loop.
When(cond, plan) == IF cond THEN plan ELSE << >>
ForEach(seq, Body(_)) == FlattenSeq([i \in DOMAIN seq |-> Body(seq[i])])

\* The elements of a set in some fixed order, for the loops whose order the
\* properties do not see.
InOrder(set) == SetToSeq(set)

Registered(plan) == {plan[i].urn : i \in DOMAIN plan}
OfType(plan, type) == {plan[i] : i \in {j \in DOMAIN plan : TypeOf(plan[j].urn) = type}}

(***************************************************************************)
(* Everything the engine has created when it starts on a resource: what    *)
(* the resource refers to, what that refers to, and so on.  A resource     *)
(* refers only to resources registered before it, so that one pass over    *)
(* the plan finds them all.                                                *)
(***************************************************************************)
Above(plan) ==
  LET above[i \in 0..Len(plan)] ==
        IF i = 0 THEN << >>
        ELSE LET earlier == above[i - 1]
                 r == plan[i]
                 found == r.after \cup UNION {earlier[u] : u \in r.after}
             IN  [urn \in {r.urn} \cup DOMAIN earlier |-> IF urn = r.urn THEN found ELSE earlier[urn]]
  IN  above[Len(plan)]

================================================================================
