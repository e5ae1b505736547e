------------------------ MODULE ServiceGraph_proofs ------------------------
(***************************************************************************)
(* For any compose file on any of the three clouds: the services are       *)
(* created in an order that DependencyOrder allows, the roles are granted  *)
(* the stores their services name and no others, only a cycle makes        *)
(* collectDeps fail, and a project that is in order can only end deployed. *)
(* What TopologicalSort does is taken from its proofs.                     *)
(***************************************************************************)
EXTENDS ServiceGraph, SequenceTheorems, TLAPS

\* The depends_on maps as the walk sees them, and the walk with its proofs.
Graph == [n \in DOMAIN nodes |-> DOMAIN nodes[n]]
Sorting == INSTANCE TopologicalSort_proofs WITH Graphs <- {}, nodes <- Graph

-----------------------------------------------------------------------------
(* The inductive invariant.                                                *)

Prepared == stage # "prepare" /\ failure # "sidecar"

Entries == [name : Standalone, after : SUBSET Standalone, grants : SUBSET Standalone,
            waits : BOOLEAN]

Types ==
  /\ provider \in DOMAIN Projects /\ project \in Projects[provider]
  /\ stage \in {"prepare", "sort", "dispatch", "done", "failed"}
  /\ failure \in {"", "sidecar", "dependency", "image"}
  /\ (failure # "") = (stage = "failed")
  /\ created \in Seq(Entries)

\* The map that is sorted is that of the services' dependencies.
Mapped ==
  /\ ~Prepared => /\ nodes = <<>> /\ unvisited = {} /\ stack = <<>>
                  /\ visited = {} /\ sorted = <<>>
  /\ Prepared => /\ DOMAIN nodes = Standalone
                 /\ \A n \in Standalone : nodes[n] \in [DependencyMap[n] -> Dependency]

\* The walk has come as far as it could.
Sorted == Prepared => Sorting!IInv

\* The loop takes the names in their order, when all of them are there.
InTurn ==
  /\ stage \in {"dispatch", "done"} \/ failure \in {"dependency", "image"} =>
       unvisited = {} /\ stack = <<>>
  /\ stage \in {"prepare", "sort"} \/ failure = "sidecar" => created = <<>>
  /\ Len(created) <= Len(sorted)
  /\ \A i \in 1 .. Len(created) : created[i].name = sorted[i]
  /\ stage = "done" => Len(created) = Len(sorted)
  /\ failure = "dependency" => Len(created) < Len(sorted) /\ MissingRequired(Current) # {}

\* What a service was handed: the names before it that it wants, and the stores
\* among them.
Earlier(i) == {created[j].name : j \in 1 .. i - 1}
Handed(i) ==
  LET n == created[i].name
  IN /\ created[i].after = External(n) \intersect Earlier(i)
     /\ created[i].grants = IF provider = "aws" /\ project[n].kind = "container"
                            THEN DOMAIN Wanted(n) \intersect
                                   {m \in Earlier(i) : project[m].kind = "store"}
                            ELSE {}
     /\ provider = "aws" => \A d \in External(n) \ Earlier(i) : ~Wanted(n)[d].required
HandedOn == \A i \in 1 .. Len(created) : Handed(i)

IInv == Types /\ Mapped /\ Sorted /\ InTurn /\ HandedOn

-----------------------------------------------------------------------------
(* The compose file and its map.                                           *)

LEMMA ProjectFacts ==
  ASSUME Types
  PROVE  /\ DOMAIN project \subseteq Names
         /\ \A n \in DOMAIN project :
              IsService(project[n]) /\ DOMAIN project[n].dependsOn \subseteq Names
         /\ Standalone \subseteq DOMAIN project /\ Sidecars \subseteq DOMAIN project
  <1>1. project \in UNION {Projects[v] : v \in DOMAIN Projects}
    BY DEF Types
  <1>2. DOMAIN project \subseteq Names /\ \A n \in DOMAIN project : IsService(project[n])
    BY <1>1, ProjectsAssumption DEF ProjectsAssumption
  <1> QED BY <1>2 DEF IsService, Standalone, Sidecars

\* The names of a service's dependencies are names.
LEMMA MapFacts ==
  ASSUME Types
  PROVE  \A n \in Standalone : DependencyMap[n] \subseteq Names
  BY ProjectFacts DEF DependencyMap, FoldedNames, SidecarsOf

\* The folded entries of a sidecar's name come from one that has it.
LEMMA FoldedTyped ==
  ASSUME Types, NEW n \in Standalone, NEW f \in Folded(n)
  PROVE  f \in [FoldedNames(n) -> Dependency]
  BY DEF Folded

LEMMA GraphIsMap ==
  ASSUME Mapped, Prepared
  PROVE  /\ Graph = DependencyMap /\ DOMAIN Graph = Standalone
         /\ \A n : Sorting!DependsOn(n) = (IF n \in Standalone THEN DependencyMap[n] ELSE {})
         /\ \A n \in Standalone : DOMAIN nodes[n] = DependencyMap[n] /\ Wanted(n) = nodes[n]
         /\ \A n : n \notin Standalone => Wanted(n) = NoDependencies
  <1>1. DOMAIN nodes = Standalone /\ \A n \in Standalone : DOMAIN nodes[n] = DependencyMap[n]
    BY DEF Mapped
  <1>2. Graph = DependencyMap
    BY <1>1 DEF Graph, DependencyMap
  <1> QED BY <1>1, <1>2 DEF Sorting!DependsOn, Wanted, DependencyMap

\* Reaching means the same to the walk and to the order.
LEMMA SameReach ==
  ASSUME Mapped, Prepared
  PROVE  \A a, b : Sorting!Reaches(a, b) <=> Cyclic(a, b)
  BY GraphIsMap DEF Sorting!Reaches, Sorting!Closed, Cyclic, Order!Reaches, Order!Closed,
     Order!DependsOn, Sorting!DependsOn, DependencyMap

LEMMA WalkIsSorting == (Topo!Next => Sorting!Next) /\ (Topo!Returned => Sorting!Returned)
  BY DEF Topo!Next, Sorting!Next, Topo!VisitNode, Sorting!VisitNode, Topo!VisitDependency,
     Sorting!VisitDependency, Topo!Finish, Sorting!Finish, Topo!Visit, Sorting!Visit,
     Topo!DependsOn, Sorting!DependsOn, Topo!Top, Sorting!Top, Topo!Returned,
     Sorting!Returned, Graph

\* The names are sorted.
LEMMA SortedFacts ==
  ASSUME IInv, Prepared
  PROVE  /\ sorted \in Seq(Names) /\ Len(sorted) \in Nat
         /\ \A i \in 1 .. Len(sorted) : sorted[i] \in Names
         /\ \A i, j \in 1 .. Len(sorted) : sorted[i] = sorted[j] => i = j
         /\ \A i \in 1 .. Len(sorted) : \A d \in Sorting!DependsOn(sorted[i]) :
              (\E j \in 1 .. i - 1 : sorted[j] = d) \/ Cyclic(d, sorted[i])
  <1>1. Sorting!TypeOK /\ Sorting!EmittedOnce /\ Sorting!DependenciesFirst
    BY DEF IInv, Sorted, Sorting!IInv
  <1>2. sorted \in Seq(Names)
    BY <1>1 DEF Sorting!TypeOK
  <1>3. \A a, b : Sorting!Reaches(a, b) <=> Cyclic(a, b)
    BY SameReach DEF IInv
  <1>4. \A i \in 1 .. Len(sorted) : \A d \in Sorting!DependsOn(sorted[i]) :
          (\E j \in 1 .. i - 1 : sorted[j] = d) \/ Cyclic(d, sorted[i])
    BY <1>1, <1>3 DEF Sorting!DependenciesFirst
  <1> QED BY <1>1, <1>2, <1>4 DEF Sorting!EmittedOnce

\* What the loop has gone through are the names before the current one.
LEMMA CreatedFacts ==
  ASSUME IInv
  PROVE  /\ Len(created) \in Nat
         /\ \A i \in 1 .. Len(created) :
              created[i] \in Entries /\ created[i].name \in Standalone
         /\ Created \subseteq Standalone
         /\ Earlier(Len(created) + 1) = Created
  <1>1. Len(created) \in Nat /\ \A i \in 1 .. Len(created) : created[i] \in Entries
    <2>1. created \in Seq(Entries)
      BY DEF IInv, Types
    <2> QED BY <2>1, ElementOfSeq
  <1>2. Len(created) + 1 - 1 = Len(created)
    BY <1>1
  <1> QED BY <1>1, <1>2 DEF Entries, Created, Earlier

-----------------------------------------------------------------------------
(* Every step keeps the invariant.                                         *)

LEMMA InitIInv == Init => IInv
  <1> SUFFICES ASSUME Init PROVE IInv
    OBVIOUS
  <1>1. created = <<>> /\ created \in Seq(Entries) /\ Len(created) = 0 /\ Len(sorted) = 0
    BY EmptySeq DEF Init
  <1>2. Types
    BY <1>1 DEF Init, Types
  <1>3. Mapped /\ Sorted
    BY DEF Init, Mapped, Prepared, Sorted
  <1>4. InTurn
    <2>1. stage = "prepare" /\ failure = ""
      BY DEF Init
    <2>2. \A i \in 1 .. Len(created) : created[i].name = sorted[i]
      BY <1>1
    <2>3. Len(created) <= Len(sorted)
      BY <1>1
    <2>4. failure # "dependency" /\ stage # "done"
      BY <2>1
    <2> QED BY <1>1, <2>1, <2>2, <2>3, <2>4 DEF InTurn
  <1>5. HandedOn
    BY <1>1 DEF HandedOn
  <1> QED BY <1>2, <1>3, <1>4, <1>5 DEF IInv

\* The compose file stays as it is.
LEMMA Fixed ==
  ASSUME UNCHANGED <<provider, project>>
  PROVE  /\ Standalone' = Standalone /\ DependencyMap' = DependencyMap /\ Entries' = Entries
         /\ \A n : SidecarsOf(n)' = SidecarsOf(n)
  <1>1. Sidecars' = Sidecars /\ Standalone' = Standalone
    BY DEF Sidecars, Parent, Standalone
  <1>2. \A n : SidecarsOf(n)' = SidecarsOf(n)
    BY <1>1 DEF SidecarsOf, Parent
  <1>3. \A n : FoldedNames(n)' = FoldedNames(n)
    BY <1>2 DEF FoldedNames, Group
  <1> QED BY <1>1, <1>2, <1>3 DEF DependencyMap, Entries

\* TopologicalSort is called: with an empty stack and nothing visited.
LEMMA SortIInv ==
  ASSUME IInv, stage = "prepare", NEW graphs, Sort(graphs),
         \A g \in graphs : /\ DOMAIN g = Standalone
                           /\ \A n \in Standalone : g[n] \in [DependencyMap[n] -> Dependency]
  PROVE  IInv'
  <1>1. /\ stage' = "sort" /\ unvisited' = Standalone /\ failure = "" /\ failure' = ""
        /\ stack' = <<>> /\ visited' = {} /\ sorted' = <<>> /\ created' = <<>>
        /\ UNCHANGED <<provider, project>>
    BY DEF Sort, IInv, Types, Mapped, Prepared, InTurn
  <1>2. /\ DOMAIN nodes' = Standalone
        /\ \A n \in Standalone : nodes'[n] \in [DependencyMap[n] -> Dependency]
    BY DEF Sort
  <1>3. Types'
    BY <1>1, EmptySeq DEF IInv, Types
  <1>4. Mapped'
    BY <1>1, <1>2, Fixed DEF Mapped, Prepared
  <1>5. Sorted'
    <2>1. Len(stack') = 0 /\ Len(sorted') = 0
      BY <1>1
    <2>2. DOMAIN Graph' = Standalone /\ \A n \in Standalone : Graph'[n] = DependencyMap[n]
      BY <1>2 DEF Graph
    <2>3. \A n \in Standalone : DependencyMap[n] \subseteq Names
      BY MapFacts DEF IInv
    <2>4. Standalone \subseteq Names
      BY ProjectFacts DEF IInv
    <2>5. Sorting!TypeOK'
      BY <1>1, <2>2, <2>3, <2>4, EmptySeq DEF Sorting!TypeOK
    <2>6. Sorting!WalkInv'
      <3>1. Sorting!VisitedInv'
        <4>1. Sorting!Emitted' = {} /\ Sorting!OnStack' = {}
          BY <2>1 DEF Sorting!Emitted, Sorting!OnStack
        <4>2. \A k, m \in 1 .. Len(stack') : stack'[k].name = stack'[m].name => k = m
          BY <2>1
        <4> QED BY <1>1, <4>1, <4>2 DEF Sorting!VisitedInv
      <3>2. Sorting!CallInv' /\ Sorting!PathInv'
        BY <2>1 DEF Sorting!CallInv, Sorting!PathInv
      <3>3. Sorting!RangedInv'
        BY <1>1, <2>2 DEF Sorting!RangedInv
      <3> QED BY <3>1, <3>2, <3>3 DEF Sorting!WalkInv
    <2>7. Sorting!EmittedOnce' /\ Sorting!DependenciesFirst'
      BY <2>1 DEF Sorting!EmittedOnce, Sorting!DependenciesFirst
    <2> QED BY <2>5, <2>6, <2>7 DEF Sorted, Sorting!IInv
  <1>6. Len(created') = 0 /\ Len(sorted') = 0
    BY <1>1
  <1>7. InTurn'
    <2>1. \A i \in 1 .. Len(created') : created'[i].name = sorted'[i]
      BY <1>6
    <2>2. Len(created') <= Len(sorted')
      BY <1>6
    <2>3. /\ stage' \notin {"dispatch", "done"} /\ failure' \notin {"dependency", "image"}
          /\ created' = <<>>
      BY <1>1
    <2> QED BY <2>1, <2>2, <2>3 DEF InTurn
  <1>8. HandedOn'
    BY <1>6 DEF HandedOn
  <1> QED BY <1>3, <1>4, <1>5, <1>7, <1>8 DEF IInv

LEMMA FoldSidecarsIInv == ASSUME IInv, FoldSidecars PROVE IInv'
  <1> DEFINE graphs == {g \in [Standalone -> UNION {Folded(n) : n \in Standalone}] :
                          \A n \in Standalone : g[n] \in Folded(n)}
  <1>1. Sort(graphs) /\ stage = "prepare" /\ provider = "aws"
    BY DEF FoldSidecars
  <1>2. \A n \in Standalone : Folded(n) \subseteq [DependencyMap[n] -> Dependency]
    BY <1>1, FoldedTyped DEF IInv, DependencyMap
  <1>3. \A g \in graphs : /\ DOMAIN g = Standalone
                          /\ \A n \in Standalone : g[n] \in [DependencyMap[n] -> Dependency]
    BY <1>2
  <1> HIDE DEF graphs
  <1> QED BY <1>1, <1>3, SortIInv

LEMMA TakeAllIInv == ASSUME IInv, TakeAll PROVE IInv'
  <1> DEFINE graph == [n \in Standalone |-> project[n].dependsOn]
  <1>1. Sort({graph}) /\ stage = "prepare" /\ provider # "aws"
    BY DEF TakeAll
  <1>2. \A n \in Standalone : project[n].dependsOn \in [DependencyMap[n] -> Dependency]
    <2>1. \A n \in Standalone : /\ IsService(project[n])
                                /\ DependencyMap[n] = DOMAIN project[n].dependsOn
      BY <1>1, ProjectFacts DEF IInv, DependencyMap
    <2>2. \A n \in Standalone : project[n].dependsOn \in
            [DOMAIN project[n].dependsOn -> Dependency]
      BY <2>1 DEF IsService
    <2> QED BY <2>1, <2>2
  <1>3. /\ DOMAIN graph = Standalone
        /\ \A n \in Standalone : graph[n] \in [DependencyMap[n] -> Dependency]
    BY <1>2
  <1> HIDE DEF graph
  <1> QED BY <1>1, <1>3, SortIInv

\* A step of the walk.
LEMMA WalkIInv == ASSUME IInv, Walk PROVE IInv'
  <1>1. /\ stage = "sort" /\ failure = "" /\ Prepared /\ created = <<>>
        /\ UNCHANGED <<provider, project, stage, failure, nodes, created>>
    BY DEF Walk, IInv, Types, Prepared, InTurn
  <1>2. Sorting!Next
    BY WalkIsSorting DEF Walk
  <1>3. Sorting!IInv'
    BY <1>1, <1>2, Sorting!NextIInv DEF IInv, Sorted
  <1>4. Types'
    BY <1>1, Fixed DEF IInv, Types
  <1>5. Mapped'
    BY <1>1, Fixed DEF IInv, Mapped, Prepared
  <1>6. Len(created') = 0 /\ Len(sorted') \in Nat
    <2>1. sorted' \in Seq(Names)
      BY <1>3 DEF Sorting!IInv, Sorting!TypeOK
    <2>2. Len(sorted') \in Nat
      BY <2>1
    <2>3. created' = <<>>
      BY <1>1
    <2> QED BY <2>2, <2>3
  <1>7. InTurn'
    <2>1. \A i \in 1 .. Len(created') : created'[i].name = sorted'[i]
      BY <1>6
    <2>2. Len(created') <= Len(sorted')
      BY <1>6
    <2>3. /\ stage' \notin {"dispatch", "done"} /\ failure' \notin {"dependency", "image"}
          /\ created' = <<>>
      BY <1>1
    <2> QED BY <2>1, <2>2, <2>3 DEF InTurn
  <1>8. HandedOn'
    BY <1>6 DEF HandedOn
  <1> QED BY <1>3, <1>4, <1>5, <1>7, <1>8 DEF IInv, Sorted

\* What is unchanged keeps the walk's invariant.
LEMMA WalkStays ==
  ASSUME UNCHANGED <<nodes, walk>>, Sorting!IInv
  PROVE  Sorting!IInv'
  <1>1. UNCHANGED Sorting!vars
    BY DEF walk, Sorting!vars, Graph
  <1> QED BY <1>1, Sorting!NextIInv

\* Steps that only say how far the project is.
Unsaid == UNCHANGED <<provider, project, nodes, walk, created>>

LEMMA UnsaidKeeps ==
  ASSUME IInv, Unsaid
  PROVE  /\ created' \in Seq(Entries')
         /\ Sorting!IInv => Sorting!IInv'
         /\ HandedOn'
         /\ Current' = Current /\ MissingRequired(Current)' = MissingRequired(Current)
  <1> USE DEF Unsaid, walk
  <1>1. created' \in Seq(Entries')
    BY Fixed DEF IInv, Types
  <1>3. Sorting!IInv => Sorting!IInv'
    BY WalkStays
  <1>4. \A n : External(n)' = External(n) /\ Wanted(n)' = Wanted(n)
    BY Fixed DEF External, Wanted
  <1>5. Created' = Created /\ \A i : Earlier(i)' = Earlier(i)
    BY DEF Created, Earlier
  <1>6. HandedOn'
    BY <1>4, <1>5 DEF IInv, HandedOn, Handed
  <1>7. Current' = Current /\ MissingRequired(Current)' = MissingRequired(Current)
    BY <1>4, <1>5 DEF Current, MissingRequired
  <1> QED BY <1>1, <1>3, <1>6, <1>7

LEMMA StageIInv ==
  ASSUME IInv, Unsaid,
         \/ RefuseSidecar \/ StartDispatch \/ FailDependency \/ FailImage \/ Finish
         \/ UNCHANGED <<stage, failure>>
  PROVE  IInv'
  <1> USE DEF RefuseSidecar, StartDispatch, FailDependency, FailImage, Finish, Fail,
              Dispatching, Topo!Returned
  <1>1. Types'
    BY UnsaidKeeps DEF IInv, Types, Unsaid
  <1>2. Mapped'
    BY Fixed DEF IInv, Types, Mapped, Prepared, Unsaid, walk
  <1>3. Sorted'
    BY UnsaidKeeps DEF IInv, Types, Sorted, Prepared
  <1>4. InTurn'
    BY UnsaidKeeps DEF IInv, Types, InTurn, Unsaid, walk
  <1> QED BY <1>1, <1>2, <1>3, <1>4, UnsaidKeeps DEF IInv

\* One service is created.
LEMMA DispatchIInv == ASSUME IInv, Dispatch PROVE IInv'
  <1>1. /\ stage = "dispatch" /\ failure = "" /\ Prepared /\ Len(created) < Len(sorted)
        /\ UNCHANGED <<provider, project, stage, failure, nodes, walk>>
        /\ MissingRequired(Current) = {} /\ Current \in Standalone
    BY DEF Dispatch, Dispatching, IInv, Types, Prepared
  <1> DEFINE container == project[Current].kind = "container"
             entry == [name   |-> Current,
                       after  |-> External(Current) \intersect Created,
                       grants |-> IF provider = "aws" /\ container
                                  THEN DOMAIN Wanted(Current) \intersect Stores ELSE {},
                       waits  |-> /\ provider = "aws" /\ container
                                  /\ Current \in NeedSteadyState \/ WaitForSteadyState]
  <1>2. created' = Append(created, entry)
    BY DEF Dispatch
  <1>3. entry \in Entries
    <2>1. Created \subseteq Standalone /\ Stores \subseteq Standalone
      BY CreatedFacts DEF Stores
    <2> QED BY <1>1, <2>1, ProjectsAssumption DEF Entries, ProjectsAssumption
  <1>4. /\ entry.name = Current /\ entry.after = External(Current) \intersect Created
        /\ entry.grants = IF provider = "aws" /\ container
                          THEN DOMAIN Wanted(Current) \intersect Stores ELSE {}
    OBVIOUS
  <1> HIDE DEF entry
  <1>5. /\ created' \in Seq(Entries) /\ Len(created') = Len(created) + 1
        /\ \A i \in 1 .. Len(created) : created'[i] = created[i]
        /\ created'[Len(created) + 1] = entry
    <2>1. created \in Seq(Entries)
      BY DEF IInv, Types
    <2> QED BY <1>2, <1>3, <2>1, AppendProperties
  <1>6. Types'
    BY <1>1, <1>5, Fixed DEF IInv, Types
  <1>7. Mapped'
    BY <1>1, Fixed DEF IInv, Mapped, Prepared, walk
  <1>8. Sorted'
    BY <1>1, WalkStays DEF IInv, Sorted
  <1>9. Len(created) \in Nat /\ Len(sorted) \in Nat
    BY <1>1, CreatedFacts, SortedFacts
  <1>10. InTurn'
    <2>1. unvisited' = {} /\ stack' = <<>> /\ sorted' = sorted
      BY <1>1 DEF IInv, InTurn, walk
    <2>2. ASSUME NEW i \in 1 .. Len(created') PROVE created'[i].name = sorted[i]
      <3>1. CASE i \in 1 .. Len(created)
        BY <1>5, <3>1 DEF IInv, InTurn
      <3>2. CASE i = Len(created) + 1
        BY <1>4, <1>5, <3>2 DEF Current
      <3> QED BY <1>5, <1>9, <3>1, <3>2
    <2>3. Len(created') <= Len(sorted')
      <3>1. Len(created) < Len(sorted)
        BY <1>1
      <3>2. Len(created') = Len(created) + 1 /\ Len(sorted') = Len(sorted)
        BY <1>5, <2>1
      <3> QED BY <1>9, <3>1, <3>2
    <2>4. \A i \in 1 .. Len(created') : created'[i].name = sorted'[i]
      BY <2>1, <2>2
    <2>5. stage' = "dispatch" /\ failure' = ""
      BY <1>1
    <2> QED BY <2>1, <2>3, <2>4, <2>5 DEF InTurn
  <1>11. HandedOn'
    <2> SUFFICES ASSUME NEW i \in 1 .. Len(created') PROVE Handed(i)'
      BY DEF HandedOn
    <2>1. \A n : External(n)' = External(n) /\ Wanted(n)' = Wanted(n)
      BY <1>1, Fixed DEF External, Wanted
    <2>2. i \in 1 .. Len(created) \/ i = Len(created) + 1
      BY <1>5, <1>9
    <2>3. Earlier(i)' = Earlier(i)
      BY <1>5, <1>9, <2>2 DEF Earlier
    <2>4. CASE i \in 1 .. Len(created)
      <3>1. created'[i] = created[i] /\ Handed(i)
        BY <1>5, <2>4 DEF IInv, HandedOn
      <3> QED BY <1>1, <2>1, <2>3, <3>1 DEF Handed
    <2>5. CASE i = Len(created) + 1
      <3>1. Earlier(i) = Created
        BY <2>5, CreatedFacts
      <3>2. /\ created'[i].name = Current /\ created'[i].after = entry.after
            /\ created'[i].grants = entry.grants
        BY <1>4, <1>5, <2>5
      <3>3. provider = "aws" =>
              \A d \in External(Current) \ Created : ~Wanted(Current)[d].required
        BY <1>1 DEF MissingRequired
      <3>4. Stores = {m \in Earlier(i) : project[m].kind = "store"}
        BY <3>1 DEF Stores
      <3>5. UNCHANGED <<provider, project>>
        BY <1>1
      <3> QED BY <1>4, <2>1, <2>3, <3>1, <3>2, <3>3, <3>4, <3>5 DEF Handed
    <2> QED BY <2>2, <2>4, <2>5
  <1> QED BY <1>6, <1>7, <1>8, <1>10, <1>11 DEF IInv

LEMMA NextIInv == ASSUME IInv, [Next]_vars PROVE IInv'
  <1>1. CASE RefuseSidecar \/ StartDispatch \/ FailDependency \/ FailImage \/ Finish
    <2>1. Unsaid
      BY <1>1 DEF RefuseSidecar, StartDispatch, FailDependency, FailImage, Finish, Unsaid
    <2> QED BY <1>1, <2>1, StageIInv
  <1>2. CASE UNCHANGED vars
    BY <1>2, StageIInv DEF vars, Unsaid
  <1> QED BY <1>1, <1>2, FoldSidecarsIInv, TakeAllIInv, WalkIInv, DispatchIInv DEF Next

LEMMA Always == Spec => []IInv
  <1>1. IInv /\ [Next]_vars => IInv'
    BY NextIInv
  <1> QED BY <1>1, InitIInv, PTL DEF Spec

-----------------------------------------------------------------------------
(* What it shows.                                                          *)

\* The state of the dispatch stays within its types, for any compose files.
THEOREM ProjectTypeCorrect == Spec => []TypeOK
  <1>1. IInv => TypeOK
    <2> SUFFICES ASSUME IInv PROVE TypeOK
      OBVIOUS
    <2>1. \A n \in DOMAIN project : IsService(project[n])
      BY ProjectFacts DEF IInv
    <2>2. \A n \in DOMAIN nodes :
            n \in Standalone /\ nodes[n] \in [DependencyMap[n] -> Dependency]
      BY DEF IInv, Mapped
    <2>3. unvisited \subseteq Standalone /\ visited \subseteq Names
      <3>1. CASE Prepared
        BY <3>1, GraphIsMap DEF IInv, Sorted, Sorting!IInv, Sorting!TypeOK
      <3>2. CASE ~Prepared
        BY <3>2 DEF IInv, Mapped
      <3> QED BY <3>1, <3>2
    <2>4. \A i \in 1 .. Len(created) : /\ created[i].name \in Standalone
                                      /\ created[i].after \subseteq Standalone
                                      /\ created[i].grants \subseteq Standalone
                                      /\ created[i].waits \in BOOLEAN
      BY CreatedFacts DEF Entries
    <2> QED BY <2>1, <2>2, <2>3, <2>4 DEF IInv, Types, TypeOK
  <1> QED BY <1>1, Always, PTL

\* Where the loop is, the names are there and the map is sorted.
LEMMA CreatedIsSorted ==
  ASSUME IInv, NEW i \in 1 .. Len(created)
  PROVE  /\ Prepared /\ i \in 1 .. Len(sorted) /\ created[i].name = sorted[i]
         /\ created[i].name \in Standalone
         /\ \A j \in 1 .. i - 1 : sorted[j] \in Earlier(i)
  <1>1. created # <<>> /\ Len(created) \in Nat /\ created[i].name \in Standalone
    BY CreatedFacts
  <1>2. Prepared
    BY <1>1 DEF IInv, InTurn, Types, Prepared
  <1>3. Len(sorted) \in Nat /\ Len(created) <= Len(sorted)
    BY <1>2, SortedFacts DEF IInv, InTurn
  <1>4. \A j \in 1 .. Len(created) : created[j].name = sorted[j]
    BY DEF IInv, InTurn
  <1>5. \A j \in 1 .. i - 1 : sorted[j] \in Earlier(i)
    BY <1>1, <1>4 DEF Earlier
  <1> QED BY <1>1, <1>2, <1>3, <1>4, <1>5

LEMMA Granted ==
  ASSUME IInv
  PROVE  StoresGranted
  <1> SUFFICES ASSUME stage = "done", provider = "aws", NEW i \in 1 .. Len(created),
                      project[created[i].name].kind = "container",
                      NEW m \in Group(created[i].name),
                      NEW d \in DOMAIN project[m].dependsOn \ Group(created[i].name)
               PROVE  \/ d \in created[i].grants
                      \/ d \in DOMAIN project /\ project[d].kind # "store"
                      \/ Cyclic(d, created[i].name) /\ ~nodes[created[i].name][d].required
    BY DEF StoresGranted
  <1> DEFINE n == created[i].name
  <1>1. /\ Prepared /\ i \in 1 .. Len(sorted) /\ n = sorted[i] /\ n \in Standalone
        /\ \A j \in 1 .. i - 1 : sorted[j] \in Earlier(i)
    BY CreatedIsSorted
  <1>2. d \in DependencyMap[n]
    BY <1>1 DEF DependencyMap, FoldedNames, Group
  <1>3. d \in DOMAIN Wanted(n) /\ Wanted(n) = nodes[n] /\ d \in Sorting!DependsOn(n)
    BY <1>1, <1>2, GraphIsMap DEF IInv
  <1>4. Handed(i)
    BY DEF IInv, HandedOn
  <1>5. CASE d \in Earlier(i)
    <2>1. d \in Standalone
      BY <1>5, CreatedFacts DEF Earlier
    <2>2. d \in DOMAIN project
      BY <2>1, ProjectFacts DEF IInv
    <2> QED BY <1>3, <1>4, <1>5, <2>2 DEF Handed
  <1>6. CASE d \notin Earlier(i)
    <2>1. Cyclic(d, n)
      BY <1>1, <1>3, <1>6, SortedFacts
    <2>2. d \in External(n)
      BY <1>3 DEF External, Group
    <2> QED BY <1>3, <1>4, <1>6, <2>1, <2>2 DEF Handed
  <1> QED BY <1>5, <1>6

LEMMA NoneElse ==
  ASSUME IInv
  PROVE  NoOtherGrants
  <1> SUFFICES ASSUME NEW i \in 1 .. Len(created), NEW d \in created[i].grants
               PROVE  \E m \in Group(created[i].name) : d \in DOMAIN project[m].dependsOn
    BY DEF NoOtherGrants
  <1> DEFINE n == created[i].name
  <1>1. Handed(i) /\ Prepared /\ n \in Standalone
    BY CreatedIsSorted DEF IInv, HandedOn
  <1>2. provider = "aws" /\ d \in DOMAIN Wanted(n)
    BY <1>1 DEF Handed
  <1>3. d \in FoldedNames(n)
    BY <1>1, <1>2, GraphIsMap DEF IInv, DependencyMap
  <1> QED BY <1>3 DEF FoldedNames, Group

\* On any project that deploys, every task role reaches the stores that its service
\* or a sidecar of it names, cycles excepted, and no role reaches another store
\* (objectStoreGrants).
THEOREM GrantsAreRight == Spec => []GrantsMatch
  <1>1. IInv => GrantsMatch
    BY Granted, NoneElse DEF GrantsMatch
  <1> QED BY <1>1, Always, PTL

LEMMA CyclesOnly ==
  ASSUME IInv, failure = "dependency"
  PROVE  \E d \in MissingRequired(Current) : d \in Standalone /\ Cyclic(d, Current)
  <1>1. Prepared /\ Len(created) < Len(sorted) /\ MissingRequired(Current) # {}
    BY DEF IInv, InTurn, Prepared, Types
  <1>2. PICK d \in MissingRequired(Current) : TRUE
    BY <1>1
  <1>3. d \in DOMAIN Wanted(Current) /\ d \notin Created
    BY <1>2 DEF MissingRequired, External
  <1>4. Current \in Standalone /\ d \in Sorting!DependsOn(Current)
    BY <1>1, <1>3, GraphIsMap DEF IInv, NoDependencies
  <1> DEFINE k == Len(created) + 1
  <1>5. k \in 1 .. Len(sorted) /\ Current = sorted[k]
    BY <1>1, CreatedFacts, SortedFacts DEF Current
  <1>6. \A j \in 1 .. k - 1 : sorted[j] \in Created
    BY CreatedFacts DEF IInv, InTurn, Created
  <1>7. Cyclic(d, Current)
    BY <1>1, <1>3, <1>4, <1>5, <1>6, SortedFacts
  <1>8. d \in Standalone
    <2>1. SUFFICES ASSUME d \notin Standalone PROVE FALSE
      OBVIOUS
    <2>2. Order!Closed({d})
      BY <2>1 DEF Order!Closed, Order!DependsOn, DependencyMap
    <2>3. d \in Names
      BY <1>1, <1>4, GraphIsMap, MapFacts DEF IInv
    <2>4. Current \in {d}
      BY <1>7, <2>2, <2>3 DEF Cyclic, Order!Reaches
    <2> QED BY <1>4, <2>1, <2>4
  <1> QED BY <1>2, <1>7, <1>8

\* Whatever the project, only a cycle makes collectDeps miss a required dependency.
THEOREM OnlyCyclesFail == Spec => []DependencyErrorMeansCycle
  <1>1. IInv => DependencyErrorMeansCycle
    BY CyclesOnly DEF DependencyErrorMeansCycle
  <1> QED BY <1>1, Always, PTL

-----------------------------------------------------------------------------
(* A project in order deploys.                                             *)

\* The names the walk can come to.
Known == Standalone \union UNION {DependencyMap[n] : n \in Standalone}

\* The walk comes to nothing else, and a project fails for a reason.
Reasons ==
  /\ Prepared => visited \subseteq Known
  /\ failure = "sidecar" => provider = "aws" /\ \E n \in Sidecars : BadSidecar(n)
  /\ failure = "image" => Len(created) < Len(sorted) /\ Current \notin Standalone

\* A step of the walk visits a key of the map or a dependency of a visited name.
LEMMA WalkKnown ==
  ASSUME IInv, Reasons, Walk
  PROVE  visited' \subseteq Known
  <1>1. Prepared /\ Sorting!Next /\ Sorting!IInv
    BY WalkIsSorting DEF Walk, IInv, Types, Prepared, Sorted
  <1>2. PICK n \in Known : visited' \subseteq visited \union {n}
    <2>1. CASE Sorting!VisitNode
      <3>1. PICK n \in unvisited : Sorting!Visit(n, stack)
        BY <2>1 DEF Sorting!VisitNode
      <3>2. n \in Standalone
        BY <1>1, GraphIsMap DEF IInv, Sorting!IInv, Sorting!TypeOK
      <3> QED BY <3>1, <3>2 DEF Sorting!Visit, Known
    <2>2. CASE Sorting!VisitDependency
      <3> DEFINE top == Sorting!Top
      <3>1. PICK d, callers : d \in top.pending /\ Sorting!Visit(d, callers)
        BY <2>2 DEF Sorting!VisitDependency
      <3>2. top.pending \subseteq Sorting!DependsOn(top.name)
        <4>1. Len(stack) \in 1 .. Len(stack)
          <5>1. stack \in Seq(Sorting!Frame) /\ stack # <<>>
            BY <1>1, <2>2 DEF Sorting!IInv, Sorting!TypeOK, Sorting!VisitDependency
          <5> QED BY <5>1, EmptySeq, LenProperties
        <4> QED BY <1>1, <4>1 DEF Sorting!IInv, Sorting!WalkInv, Sorting!CallInv, Sorting!Top
      <3>3. top.name \in Standalone /\ d \in DependencyMap[top.name]
        BY <1>1, <3>1, <3>2, GraphIsMap DEF IInv
      <3>4. d \in Known
        BY <3>3 DEF Known
      <3> QED BY <3>1, <3>4 DEF Sorting!Visit
    <2>3. CASE Sorting!Finish
      <3>1. visited' = visited
        BY <2>3 DEF Sorting!Finish
      <3>2. Known # {}
        <4> SUFFICES ASSUME Standalone = {} PROVE FALSE
          BY DEF Known
        <4>1. stack \in Seq(Sorting!Frame) /\ stack # <<>>
          BY <1>1, <2>3 DEF Sorting!IInv, Sorting!TypeOK, Sorting!Finish
        <4>2. stack[1].name \in visited
          <5>1. 1 \in 1 .. Len(stack)
            BY <4>1, EmptySeq, LenProperties
          <5> QED
            BY <1>1, <5>1 DEF Sorting!IInv, Sorting!WalkInv, Sorting!VisitedInv, Sorting!OnStack
        <4> QED BY <1>1, <4>2 DEF Reasons, Known
      <3> QED BY <3>1, <3>2
    <2> QED BY <1>1, <2>1, <2>2, <2>3 DEF Sorting!Next
  <1> QED BY <1>1, <1>2 DEF Reasons

LEMMA NextReasons ==
  ASSUME IInv, Reasons, [Next]_vars
  PROVE  Reasons'
  <1>1. /\ UNCHANGED <<provider, project>>
        /\ Known' = Known /\ Standalone' = Standalone
        /\ (provider = "aws" /\ \E n \in Sidecars : BadSidecar(n))' <=>
             (provider = "aws" /\ \E n \in Sidecars : BadSidecar(n))
    <2>1. UNCHANGED <<provider, project>>
      BY DEF Next, vars, RefuseSidecar, FoldSidecars, TakeAll, Sort, Walk, StartDispatch,
         FailDependency, FailImage, Dispatch, Finish
    <2> QED BY <2>1, Fixed DEF Known, Sidecars, BadSidecar, Parent, Managed
  <1>2. CASE RefuseSidecar
    BY <1>1, <1>2 DEF RefuseSidecar, Fail, Reasons, Prepared
  <1>3. CASE FoldSidecars \/ TakeAll
    <2>1. visited = {} /\ visited' = visited /\ failure' = "" /\ UNCHANGED created
      BY <1>3 DEF FoldSidecars, TakeAll, Sort, IInv, Types, Mapped, Prepared
    <2> QED BY <2>1 DEF Reasons
  <1>4. CASE Walk
    <2>1. failure' = ""
      BY <1>4 DEF Walk, IInv, Types
    <2> QED BY <1>1, <1>4, <2>1, WalkKnown DEF Reasons
  <1>5. CASE FailImage
    <2>1. Unsaid /\ Prepared /\ UNCHANGED <<visited, sorted, created>>
      BY <1>5 DEF FailImage, Unsaid, Dispatching, IInv, Types, Prepared, walk
    <2>2. Current' = Current /\ failure' = "image"
      BY <1>5, <2>1 DEF Current, FailImage, Fail
    <2> QED BY <1>1, <1>5, <2>1, <2>2 DEF Reasons, FailImage, Dispatching
  <1>6. CASE StartDispatch \/ FailDependency \/ Dispatch \/ Finish
    <2>1. UNCHANGED visited /\ failure' \in {"", "dependency"} /\ Prepared
      BY <1>6 DEF StartDispatch, FailDependency, Dispatch, Finish, Fail, Dispatching, walk,
         IInv, Types, Prepared
    <2> QED BY <1>1, <2>1 DEF Reasons
  <1>7. CASE UNCHANGED vars
    BY <1>1, <1>7 DEF vars, walk, Reasons, Prepared, Current
  <1> QED BY <1>2, <1>3, <1>4, <1>5, <1>6, <1>7 DEF Next

\* In a project in order every name that is emitted is a service of its own, and
\* each comes after all that it depends on.
LEMMA OrderFacts ==
  ASSUME IInv, Reasons, InOrder, Prepared
  PROVE  /\ \A i \in 1 .. Len(sorted) : sorted[i] \in Standalone
         /\ \A i \in 1 .. Len(sorted) : \A d \in DependencyMap[sorted[i]] :
              \E j \in 1 .. i - 1 : sorted[j] = d
         /\ \A n \in Standalone : External(n) = DependencyMap[n]
  <1>1. Known = Standalone
    BY DEF Known, InOrder
  <1>2. \A i \in 1 .. Len(sorted) : sorted[i] \in Standalone
    BY <1>1 DEF Reasons, IInv, Sorted, Sorting!IInv, Sorting!WalkInv, Sorting!VisitedInv,
       Sorting!Emitted
  <1>3. ASSUME NEW i \in 1 .. Len(sorted), NEW d \in DependencyMap[sorted[i]]
        PROVE  \E j \in 1 .. i - 1 : sorted[j] = d
    <2>1. sorted[i] \in Standalone /\ ~Cyclic(d, sorted[i])
      BY <1>2, <1>3 DEF InOrder
    <2>2. d \in Sorting!DependsOn(sorted[i])
      BY <1>3, <2>1, GraphIsMap DEF IInv
    <2> QED BY <2>1, <2>2, SortedFacts
  <1>4. ASSUME NEW n \in Standalone PROVE External(n) = DependencyMap[n]
    <2>1. DOMAIN Wanted(n) = DependencyMap[n]
      BY GraphIsMap DEF IInv
    <2>2. provider = "aws" => DependencyMap[n] \intersect SidecarsOf(n) = {}
      BY DEF InOrder, Standalone, SidecarsOf
    <2> QED BY <2>1, <2>2 DEF External
  <1> QED BY <1>2, <1>3, <1>4

LEMMA NoneFails ==
  ASSUME IInv, Reasons, InOrder
  PROVE  stage # "failed"
  <1> SUFFICES ASSUME stage = "failed" PROVE FALSE
    OBVIOUS
  <1>1. failure \in {"dependency", "image"}
    BY DEF IInv, Types, Reasons, InOrder
  <1>2. Prepared /\ Len(created) < Len(sorted)
    BY <1>1 DEF IInv, InTurn, Prepared, Reasons
  <1>3. Current \in Standalone
    <2>1. Len(created) \in Nat /\ Len(sorted) \in Nat
      BY <1>2, CreatedFacts, SortedFacts
    <2>2. Len(created) + 1 \in 1 .. Len(sorted)
      <3>1. Len(created) < Len(sorted)
        BY <1>2
      <3> QED BY <2>1, <3>1
    <2> QED BY <1>2, <2>2, OrderFacts DEF Current
  <1>4. failure = "dependency"
    BY <1>1, <1>3 DEF Reasons
  <1>5. PICK d \in MissingRequired(Current) : Cyclic(d, Current)
    BY <1>4, CyclesOnly
  <1>6. d \in DependencyMap[Current]
    BY <1>2, <1>3, <1>5, OrderFacts DEF MissingRequired
  <1> QED BY <1>3, <1>5, <1>6 DEF InOrder

LEMMA DoneIsDeployed ==
  ASSUME IInv, Reasons, InOrder, stage = "done"
  PROVE  Deployed
  <1>1. /\ Prepared /\ unvisited = {} /\ stack = <<>> /\ Len(created) = Len(sorted)
        /\ \A i \in 1 .. Len(created) : created[i].name = sorted[i]
    BY DEF IInv, InTurn, Types, Prepared
  <1>2. Standalone \subseteq Created
    <2>1. Standalone \subseteq visited
      BY <1>1, GraphIsMap DEF IInv, Sorted, Sorting!IInv, Sorting!WalkInv, Sorting!RangedInv
    <2>2. Len(stack) = 0
      BY <1>1
    <2>3. visited = Sorting!Emitted
      <3>1. Sorting!OnStack = {}
        BY <2>2 DEF Sorting!OnStack
      <3>2. visited = Sorting!Emitted \union Sorting!OnStack
        BY <1>1 DEF IInv, Sorted, Sorting!IInv, Sorting!WalkInv, Sorting!VisitedInv
      <3> QED BY <3>1, <3>2
    <2>4. Sorting!Emitted = Created
      BY <1>1 DEF Sorting!Emitted, Created
    <2> QED BY <2>1, <2>3, <2>4
  <1>3. ASSUME NEW i \in 1 .. Len(created)
        PROVE  created[i].after = DependencyMap[created[i].name]
    <2> DEFINE n == created[i].name
    <2>1. /\ i \in 1 .. Len(sorted) /\ n = sorted[i] /\ n \in Standalone
          /\ \A j \in 1 .. i - 1 : sorted[j] \in Earlier(i)
      BY CreatedIsSorted
    <2>2. DependencyMap[n] \subseteq Earlier(i)
      BY <1>1, <2>1, OrderFacts
    <2>3. created[i].after = External(n) \intersect Earlier(i)
      BY DEF IInv, HandedOn, Handed
    <2>4. External(n) = DependencyMap[n]
      BY <1>1, <2>1, OrderFacts
    <2> QED BY <2>2, <2>3, <2>4
  <1> QED BY <1>2, <1>3, CreatedFacts DEF Deployed

\* No iteration order of Go's maps makes a project fail that is in order: on all
\* three clouds its loop can only end with every service created after everything it
\* depends on (buildProject, collectDeps).  That it ends is InOrderDeploys, which the
\* run checks.
THEOREM InOrderEndsDeployed ==
  Spec => [](InOrder /\ stage \in {"done", "failed"} => Deployed)
  <1>1. Init => Reasons
    BY DEF Init, Reasons, Prepared
  <1>2. (IInv /\ Reasons) /\ [Next]_vars => (IInv /\ Reasons)'
    BY NextIInv, NextReasons
  <1>3. IInv /\ Reasons => (InOrder /\ stage \in {"done", "failed"} => Deployed)
    BY NoneFails, DoneIsDeployed
  <1> QED BY <1>1, <1>2, <1>3, InitIInv, PTL DEF Spec

-----------------------------------------------------------------------------
(* The loop implements the abstract order.                                 *)

\* The names that were dispatched.
Given == [i \in 1 .. Len(created) |-> created[i].name]

LEMMA DispatchEmits ==
  ASSUME IInv, IInv', Dispatch
  PROVE  Order!Next
  <1>1. /\ stage = "dispatch" /\ failure = "" /\ Prepared /\ Len(created) < Len(sorted)
        /\ UNCHANGED <<provider, project>> /\ Current \in Standalone
    BY DEF Dispatch, Dispatching, IInv, Types, Prepared
  <1>2. PICK e : created' = Append(created, e) /\ e.name = Current
    BY DEF Dispatch
  <1> DEFINE order == Given
             k == Len(created) + 1
  <1>3. Len(created) \in Nat /\ created \in Seq(Entries) /\ k \in 1 .. Len(sorted)
    <2>1. Len(created) \in Nat /\ Len(sorted) \in Nat
      BY <1>1, CreatedFacts, SortedFacts
    <2>2. created \in Seq(Entries)
      BY DEF IInv, Types
    <2>3. k \in 1 .. Len(sorted)
      <3>1. Len(created) < Len(sorted)
        BY <1>1
      <3> QED BY <2>1, <3>1
    <2> QED BY <2>1, <2>2, <2>3
  <1>4. /\ Len(created') = k /\ created'[k] = e
        /\ \A i \in 1 .. Len(created) : created'[i] = created[i]
    BY <1>2, <1>3, AppendProperties
  <1>5. order' = Append(order, Current)
    BY <1>2, <1>3, <1>4 DEF Given
  <1>6. Order!Ordered = Created
    BY <1>3 DEF Order!Ordered, Created
  <1>7. \A j \in 1 .. Len(created) : created[j].name = sorted[j]
    BY DEF IInv, InTurn
  <1>8. Current = sorted[k]
    BY DEF Current
  <1>9. Current \notin Created
    <2> SUFFICES ASSUME NEW j \in 1 .. Len(created), sorted[j] = sorted[k] PROVE FALSE
      BY <1>7, <1>8 DEF Created
    <2>1. j \in 1 .. Len(sorted) /\ j # k
      <3>1. Len(created) < Len(sorted) /\ Len(created) \in Nat /\ Len(sorted) \in Nat
        BY <1>1, CreatedFacts, SortedFacts
      <3> QED BY <3>1
    <2> QED BY <1>1, <1>3, <2>1, SortedFacts
  <1>10. \A d \in Order!DependsOn(Current) : d \in Created \/ Order!Reaches(d, Current)
    <2>1. Order!DependsOn(Current) = Sorting!DependsOn(Current)
      BY <1>1, GraphIsMap DEF IInv, Order!DependsOn, DependencyMap
    <2>2. \A j \in 1 .. k - 1 : sorted[j] \in Created
      BY <1>3, <1>7 DEF Created
    <2> QED BY <1>1, <1>3, <1>8, <2>1, <2>2, SortedFacts DEF Cyclic
  <1>11. DependencyMap' = DependencyMap
    BY <1>1, Fixed
  <1>12. PICK n \in Names : n = Current
    BY <1>1, ProjectFacts DEF IInv
  <1>13. Order!Emit(n)
    BY <1>5, <1>6, <1>9, <1>10, <1>11, <1>12 DEF Order!Emit, Order!Ready, Given
  <1> QED BY <1>13 DEF Order!Next

LEMMA OtherSteps ==
  ASSUME [Next]_vars, ~Dispatch
  PROVE  UNCHANGED <<DependencyMap, Given>>
  <1>1. UNCHANGED <<provider, project, created>>
    BY DEF Next, vars, RefuseSidecar, FoldSidecars, TakeAll, Sort, Walk, StartDispatch,
       FailDependency, FailImage, Finish
  <1> QED BY <1>1, Fixed DEF Given

\* On any project and cloud the services are created in an order that
\* DependencyOrder allows: the folding and the loop keep what the walk gives.
THEOREM ProjectRefinement == Spec => ImplementsOrder
  <1>1. Init => Order!Init
    <2> SUFFICES ASSUME Init PROVE Given = <<>>
      BY DEF Order!Init, Given
    <2>1. Len(created) = 0
      BY DEF Init
    <2> QED BY <2>1 DEF Given
  <1>2. IInv /\ IInv' /\ [Next]_vars => [Order!Next]_<<DependencyMap, Given>>
    BY DispatchEmits, OtherSteps
  <1> QED
    BY <1>1, <1>2, Always, PTL DEF Spec, ImplementsOrder, Order!Spec, Given

============================================================================
