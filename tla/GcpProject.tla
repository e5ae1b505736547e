------------------------------- MODULE GcpProject -------------------------------
(***************************************************************************)
(* The Google Cloud project as its loop sees it                            *)
(* (provider/defanggcp/project.go).  A service's resources are children of *)
(* a component that waits for the components of what the service depends   *)
(* on, and for their children.                                             *)
(***************************************************************************)
EXTENDS GcpLb

Normalized(pr) == [pr EXCEPT !.services = UDPIngressAsHost(@)]

InfraPlan(pr, cfg) ==
  BuildGlobalConfig(Normalized(pr), cfg) \o EnableGcpApis \o EnableLlmApi(pr)
InfraFails(pr, cfg) == FALSE

Component(name, svc) ==
  B(CASE svc.kind = "postgres" -> "Postgres" [] svc.kind = "redis" -> "Redis" [] OTHER -> "Service",
    name)

\* What is registered under the service's component.
Children(name, svc) ==
  CASE svc.kind = "postgres" -> CreateCloudSql(name, svc)
    [] svc.kind = "redis" -> CreateMemoryStore(name, svc)
    [] OTHER -> CreateService(name, svc)

Handle(name, pr) ==
  {Component(name, pr.services[name])} \cup Registered(Children(name, pr.services[name]))

\* Mutant: the components of what a service depends on are not passed on.
DepsNone(name, pr) == {}
Deps(name, pr) == UNION {Handle(d, pr) : d \in pr.services[name].needs}

BuildService(name, pr, cfg) ==
  LET svc == pr.services[name]
      comp == Component(name, svc)
      children == Children(name, svc)
  IN  <<Res(comp, Deps(name, pr))>>
      \o When(svc.kind \notin {"postgres", "redis"}, GetServiceImage(name, svc, cfg, Deps(name, pr)))
      \o [i \in DOMAIN children |-> [children[i] EXCEPT !.after = @ \cup {comp}]]

ServicePlan(name, pr, cfg) == BuildService(name, Normalized(pr), cfg)
ServiceFails(name, pr, cfg) ==
  pr.services[name].kind \notin {"postgres", "redis"} /\ ServiceRefused(Normalized(pr).services[name])

\* The resource that is the service.
Main(name, pr, cfg) ==
  LET svc == Normalized(pr).services[name] IN
  CASE svc.kind = "postgres" -> SqlInstance(name)
    [] svc.kind = "redis" -> RedisInstance(name)
    [] OTHER -> IF IsCloudRunService(svc) THEN RunService(name) ELSE InstanceGroup(name)

--------------------------------------------------------------------------------
(* What is left to do after the services.                                   *)

KindOf(svc) ==
  CASE svc.kind \in {"postgres", "redis"} -> svc.kind
    [] OTHER -> IF IsCloudRunService(svc) THEN "run"
                ELSE IF svc.ports = << >> THEN "none" ELSE "group"

\* In the order the services were made in, which the load balancer's default
\* depends on.
LbEntries(pr, order) ==
  LET EntryOf(name) ==
        [name |-> name, kind |-> KindOf(pr.services[name]), svc |-> pr.services[name],
         private |-> HasHostPorts(pr.services[name])]
      entries == [i \in DOMAIN order |-> EntryOf(order[i])]
  IN  Selected(entries, LAMBDA entry : entry.kind # "none")

FinalPlan(pr, cfg, order) ==
  LET normalized == Normalized(pr) IN
  When(NeedNat(normalized), CreateNat)
  \o CreateLoadBalancers(LbEntries(normalized, order), cfg)
FinalFails(pr, cfg, order) ==
  \E entry \in ToSet(LbEntries(Normalized(pr), order)) : InternalEntryFails(entry)

--------------------------------------------------------------------------------
(* What has to be there when the engine starts on a resource.               *)

\* Not the grant for the language models: it is given, and nothing waits for it
\* (a TODO of enableLLM).
GrantsOf(plan, account) ==
  {plan[i].urn : i \in {j \in DOMAIN plan :
     "role" \in DOMAIN plan[j].args /\ plan[j].args.role = account /\ Last(plan[j].urn[3]) # "llm"
       /\ TypeOf(plan[j].urn) \in {"projects.IAMMember", "secretmanager.SecretIamMember",
                                    "storage.BucketIAMMember", "artifactregistry.RepositoryIamBinding"}}}

Needs(plan, r) ==
  CASE TypeOf(r.urn) \in {"cloudrunv2.Service", "compute.InstanceTemplate"} ->
         GrantsOf(plan, r.args.role) \cup r.args.reads
    [] TypeOf(r.urn) = "defang.Build" ->
         {grant \in GrantsOf(plan, r.args.role) : TypeOf(grant) = "storage.BucketIAMMember"}
    [] TypeOf(r.urn) \in {"sql.DatabaseInstance", "redis.Instance"} -> {ServiceConnection}
    [] OTHER -> {}

================================================================================
