---------------------------- MODULE ServiceGraph ----------------------------
(***************************************************************************)
(* How a Project component turns a compose file into cloud services        *)
(* (buildProject of provider/defang{aws,gcp,scaleway}/project.go): AWS     *)
(* folds sidecars into their parents, orders the services with             *)
(* TopologicalSort and dispatches them one by one, handing each the        *)
(* resources its depends_on left behind and the buckets its task role may  *)
(* reach; GCP and Scaleway order and dispatch without the folding.         *)
(***************************************************************************)
EXTENDS Naturals, Sequences, FiniteSets

CONSTANTS
  Names,               \* names a compose file may mention
  NoParent,            \* SidecarParent() of a service without network_mode: service:...
  Projects,            \* provider -> compose files: service name -> service
  WaitForSteadyState   \* ProjectInputs.WaitForSteadyState

Kinds == {"container", "datastore", "store"}

\* depends_on: a function on the names an entry exists for.
Dependency == [required : BOOLEAN, healthy : BOOLEAN]

IsService(s) ==
  /\ s.kind \in Kinds
  /\ s.parent \in Names \union {NoParent}
  /\ DOMAIN s.dependsOn \subseteq Names
  /\ s.dependsOn \in [DOMAIN s.dependsOn -> Dependency]

ASSUME ProjectsAssumption ==
  /\ DOMAIN Projects \subseteq {"aws", "gcp", "scaleway"}
  /\ NoParent \notin Names
  /\ WaitForSteadyState \in BOOLEAN
  /\ \A p \in UNION {Projects[v] : v \in DOMAIN Projects} :
       DOMAIN p \subseteq Names /\ \A n \in DOMAIN p : IsService(p[n])

VARIABLES
  provider,    \* which of the three loops runs, never written
  project,     \* the compose file, never written
  stage,       \* "prepare", "sort", "dispatch", "done" or "failed"
  failure,     \* why the project failed: "" or the sentinel error's subject
  nodes,       \* the argument of TopologicalSort, as depends_on maps
  unvisited, stack, visited, sorted,  \* the walk, see TopologicalSort
  created      \* the services dispatched so far, in order

walk == <<unvisited, stack, visited, sorted>>
vars == <<provider, project, stage, failure, nodes, walk, created>>

NoDependencies == [d \in {} |-> [required |-> FALSE, healthy |-> FALSE]]

-----------------------------------------------------------------------------
\* Sidecars.
Parent(n) == project[n].parent
Sidecars == {n \in DOMAIN project : Parent(n) # NoParent}

\* The services that become cloud resources of their own; only AWS folds.
Standalone == IF provider = "aws" THEN DOMAIN project \ Sidecars ELSE DOMAIN project

SidecarsOf(n) == {s \in Sidecars : Parent(s) = n}
Managed(n) == project[n].kind # "container"

\* The group that shares a task definition and a task role with n.
Group(n) == SidecarsOf(n) \union {n}

BadSidecar(n) ==
  IF Parent(n) \in DOMAIN project THEN Parent(n) \in Sidecars \/ Managed(Parent(n)) ELSE TRUE

\* What n and its sidecars depend on outside of their group.  The parent's own
\* entries are kept as they are, those on its sidecars included.
FoldedNames(n) ==
  DOMAIN project[n].dependsOn
    \union UNION {DOMAIN project[s].dependsOn \ Group(n) : s \in SidecarsOf(n)}

\* The entry a folded name gets: the parent's own, else that of whichever of
\* the sidecars the map iteration meets first.
FoldedEntries(n, d) ==
  IF d \in DOMAIN project[n].dependsOn
  THEN {project[n].dependsOn[d]}
  ELSE {project[s].dependsOn[d] : s \in {t \in SidecarsOf(n) : d \in DOMAIN project[t].dependsOn}}

\* Mutant: the depends_on of the sidecars is not folded.
FoldedOwn(n) == {project[n].dependsOn}

\* foldSidecarDeps for one service: the merged depends_on is one of these.
Folded(n) ==
  {f \in [FoldedNames(n) -> Dependency] : \A d \in FoldedNames(n) : f[d] \in FoldedEntries(n, d)}

\* Services another standalone service depends on with service_healthy.
NeedSteadyState ==
  {d \in Names : \E n \in Standalone :
     d \in DOMAIN project[n].dependsOn /\ project[n].dependsOn[d].healthy}

\* Mutant: the error is noted and the loop goes on.
FailOn(why) == stage' = stage /\ failure' = why

\* buildProject returns an error.
Fail(why) == stage' = "failed" /\ failure' = why

-----------------------------------------------------------------------------
Init ==
  /\ provider \in DOMAIN Projects
  /\ project \in Projects[provider]
  /\ stage = "prepare"
  /\ failure = ""
  /\ nodes = <<>>
  /\ unvisited = {} /\ stack = <<>> /\ visited = {} /\ sorted = <<>>
  /\ created = <<>>

\* partitionSidecars refuses the project.
RefuseSidecar ==
  /\ stage = "prepare" /\ provider = "aws"
  /\ \E n \in Sidecars : BadSidecar(n)
  /\ Fail("sidecar")
  /\ UNCHANGED <<provider, project, nodes, walk, created>>

\* The services to order are set aside and TopologicalSort is called.
Sort(graphs) ==
  /\ stage' = "sort"
  /\ nodes' \in graphs
  /\ unvisited' = Standalone
  /\ UNCHANGED <<provider, project, failure, stack, visited, sorted, created>>

\* AWS: partitionSidecars, then foldSidecarDeps.
FoldSidecars ==
  /\ stage = "prepare" /\ provider = "aws"
  /\ \A n \in Sidecars : ~BadSidecar(n)
  /\ Sort({g \in [Standalone -> UNION {Folded(n) : n \in Standalone}] :
              \A n \in Standalone : g[n] \in Folded(n)})

\* Mutant: the services are taken in any order.
TakeUnordered ==
  /\ stage = "prepare" /\ provider \in {"gcp", "scaleway"}
  /\ Sort({[n \in Standalone |-> NoDependencies]})

\* GCP and Scaleway: every service is ordered, network_mode is not looked at.
TakeAll ==
  /\ stage = "prepare" /\ provider \in {"gcp", "scaleway"}
  /\ Sort({[n \in Standalone |-> project[n].dependsOn]})

Topo == INSTANCE TopologicalSort
          WITH Graphs <- {}, nodes <- [n \in DOMAIN nodes |-> DOMAIN nodes[n]]

Walk ==
  /\ stage = "sort"
  /\ UNCHANGED <<provider, project, stage, failure, nodes, created>>
  /\ Topo!Next

StartDispatch ==
  /\ stage = "sort" /\ Topo!Returned
  /\ stage' = "dispatch"
  /\ UNCHANGED <<provider, project, failure, nodes, walk, created>>

-----------------------------------------------------------------------------
\* Dispatch.  The services created so far that left a resource to depend on,
\* and those of them that are object stores.
Created == {created[i].name : i \in 1 .. Len(created)}
Stores == {n \in Created : project[n].kind = "store"}

\* Mutant: the result of the sort is read from its end.
CurrentBackwards == sorted[Len(sorted) - Len(created)]

\* The name the loop is at.
Current == sorted[Len(created) + 1]

\* depGraph[name].DependsOn, with a zero ServiceConfig for a name it lacks.
Wanted(name) == IF name \in DOMAIN nodes THEN nodes[name] ELSE NoDependencies

\* collectDeps: own sidecars are skipped, the rest is wanted.
External(name) == DOMAIN Wanted(name) \ (IF provider = "aws" THEN SidecarsOf(name) ELSE {})

MissingRequired(name) ==
  {d \in External(name) \ Created : provider = "aws" /\ Wanted(name)[d].required}

Dispatching ==
  stage = "dispatch" /\ Len(created) < Len(sorted)

\* A required dependency has no resource yet.
FailDependency ==
  /\ Dispatching
  /\ MissingRequired(Current) # {}
  /\ Fail("dependency")
  /\ UNCHANGED <<provider, project, nodes, walk, created>>

\* TopologicalSort also emits names that are not standalone services; they are
\* dispatched with the zero ServiceConfig: a container without image or build.
FailImage ==
  /\ Dispatching
  /\ MissingRequired(Current) = {}
  /\ Current \notin Standalone
  /\ Fail("image")
  /\ UNCHANGED <<provider, project, nodes, walk, created>>

\* Mutant: every container service is granted every store.
DispatchGrantAll ==
  /\ Dispatching
  /\ MissingRequired(Current) = {}
  /\ Current \in Standalone
  /\ created' = Append(created,
       [name |-> Current, after |-> External(Current) \intersect Created,
        grants |-> IF project[Current].kind = "container" THEN Stores ELSE {}, waits |-> FALSE])
  /\ UNCHANGED <<provider, project, stage, failure, nodes, walk>>

\* One service: the resources it is created after, the buckets its task role is
\* granted, and whether the deployment waits until it is steady.
Dispatch ==
  /\ Dispatching
  /\ MissingRequired(Current) = {}
  /\ Current \in Standalone
  /\ LET container == project[Current].kind = "container"
     IN created' = Append(created,
          [name   |-> Current,
           after  |-> External(Current) \intersect Created,
           grants |-> IF provider = "aws" /\ container
                      THEN DOMAIN Wanted(Current) \intersect Stores ELSE {},
           waits  |-> /\ provider = "aws" /\ container
                      /\ Current \in NeedSteadyState \/ WaitForSteadyState])
  /\ UNCHANGED <<provider, project, stage, failure, nodes, walk>>

\* The loop is over and the Project's outputs are returned.
Finish ==
  /\ stage = "dispatch"
  /\ Len(created) = Len(sorted)
  /\ stage' = "done"
  /\ UNCHANGED <<provider, project, failure, nodes, walk, created>>

Next ==
  \/ RefuseSidecar \/ FoldSidecars \/ TakeAll
  \/ Walk \/ StartDispatch
  \/ FailDependency \/ FailImage \/ Dispatch
  \/ Finish

\* One goroutine runs Construct to its end.
Spec == Init /\ [][Next]_vars /\ WF_vars(Next)

-----------------------------------------------------------------------------
\* What a service depends on: on AWS its own depends_on and, outside of the
\* group, those of its sidecars; elsewhere its own.
DependencyMap ==
  [n \in Standalone |-> IF provider = "aws" THEN FoldedNames(n) ELSE DOMAIN project[n].dependsOn]

TypeOK ==
  /\ \A n \in DOMAIN project : IsService(project[n])
  /\ stage \in {"prepare", "sort", "dispatch", "done", "failed"}
  /\ failure \in {"", "sidecar", "dependency", "image"}
  /\ (failure # "") = (stage = "failed")
  /\ \A n \in DOMAIN nodes : n \in Standalone /\ nodes[n] \in [DependencyMap[n] -> Dependency]
  /\ unvisited \subseteq Standalone
  /\ visited \subseteq Names
  /\ \A i \in 1 .. Len(created) :
       /\ created[i].name \in Standalone
       /\ created[i].after \subseteq Standalone
       /\ created[i].grants \subseteq Standalone
       /\ created[i].waits \in BOOLEAN

Order == INSTANCE DependencyOrder
           WITH nodes <- DependencyMap, order <- [i \in 1 .. Len(created) |-> created[i].name]

Cyclic(dep, n) == Order!Reaches(dep, n)

\* Services are created in an order that DependencyOrder allows: the sidecars'
\* dependencies count as their parent's, and only a cycle lets a service come
\* before one it depends on.
ImplementsOrder == Order!Spec

\* A project is in order when its sidecars have a container of their own to
\* join, every dependency is a service of its own, and nothing is on a cycle.
InOrder ==
  /\ \A n \in Sidecars : provider = "aws" => ~BadSidecar(n)
  /\ \A n \in Standalone : \A d \in DependencyMap[n] : d \in Standalone /\ ~Cyclic(d, n)

\* All of the project is there, each service created after the resources of
\* everything it depends on.
Deployed ==
  /\ stage = "done"
  /\ Created = Standalone
  /\ \A i \in 1 .. Len(created) : created[i].after = DependencyMap[created[i].name]

\* A project in order deploys: no iteration order of Go's maps makes it fail, and
\* each service is created after the resources of everything it depends on
\* (pulumi.DependsOn orders nothing it is not handed).
InOrderDeploys == InOrder ~> Deployed

\* project.go on foldSidecarDeps: without it "the grant would be silently
\* skipped".  In a deployed project the task role of every container service
\* reaches each store that the service or a sidecar of it depends on; only an
\* optional entry on a cycle may be missing.
StoresGranted ==
  stage = "done" /\ provider = "aws" =>
    \A i \in 1 .. Len(created) : project[created[i].name].kind = "container" =>
      \A m \in Group(created[i].name) :
        \A d \in DOMAIN project[m].dependsOn \ Group(created[i].name) :
          \/ d \in created[i].grants
          \/ d \in DOMAIN project /\ project[d].kind # "store"
          \/ Cyclic(d, created[i].name) /\ ~nodes[created[i].name][d].required

\* A bucket is reached through depends_on only: no role is granted a store that
\* neither the service nor a sidecar of it names.
NoOtherGrants ==
  \A i \in 1 .. Len(created) : \A d \in created[i].grants :
    \E m \in Group(created[i].name) : d \in DOMAIN project[m].dependsOn

\* The roles are granted the stores their services name, and no others.
GrantsMatch == StoresGranted /\ NoOtherGrants

\* collectDeps can fail on a cycle only: TopologicalSort emits a missing service
\* too, before its dependents, so its dispatch fails first.
DependencyErrorMeansCycle ==
  failure = "dependency" =>
    \E d \in MissingRequired(Current) : d \in Standalone /\ Cyclic(d, Current)

============================================================================
