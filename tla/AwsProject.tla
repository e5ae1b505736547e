------------------------------- MODULE AwsProject -------------------------------
(***************************************************************************)
(* The AWS project as its loop sees it (provider/defangaws/project.go):    *)
(* the shared infrastructure, and per service the dispatch to a backend,   *)
(* the handle its dependents wait for and the ways it can fail.  Sidecars  *)
(* are folded and services ordered by ServiceGraph.                        *)
(***************************************************************************)
EXTENDS AwsEcs, AwsData

\* The project, its UDP ports taken out of ingress.
Normalized(pr) == [pr EXCEPT !.services = UDPIngressAsHost(@)]

\* The service with the only ingress port of the project, if there is one.
IngressPorts(pr) ==
  {owner \in UNION {{name} \X DOMAIN pr.services[name].ports : name \in DOMAIN pr.services} :
     LET svc == pr.services[owner[1]] IN
     svc.kind = "container" /\ IsIngress(svc.ports[owner[2]])}
ApexServiceName(pr) ==
  IF Cardinality(IngressPorts(pr)) = 1 THEN (CHOOSE owner \in IngressPorts(pr) : TRUE)[1]
                                       ELSE << >>

Infra(pr, cfg) == SharedInfra(Normalized(pr), cfg, ApexServiceName(Normalized(pr)))
InfraPlan(pr, cfg) == CreateProjectInfra(Normalized(pr), cfg)
InfraFails(pr, cfg) == NetworkingFails(cfg)

ComponentOf(kind) ==
  CASE kind = "postgres" -> "Postgres" [] kind = "redis" -> "Redis"
    [] kind = "store" -> "ObjectStore" [] OTHER -> "Service"

\* What a dependent of the service is told to wait for.
Handle(name, pr, cfg) ==
  CASE pr.services[name].kind = "postgres" -> RecordUrn("Postgres", <<ServiceLabel(name)>>, "CNAME")
    [] pr.services[name].kind = "redis" -> RecordUrn("Redis", <<ServiceLabel(name)>>, "CNAME")
    [] pr.services[name].kind = "store" -> BucketUrn("ObjectStore", name)
    [] OTHER -> EcsService(name)

\* The resource that is the service.
Main(name, pr, cfg) ==
  CASE pr.services[name].kind = "postgres" -> RdsInstance(name)
    [] pr.services[name].kind = "redis" -> RedisMain(name, cfg)
    [] pr.services[name].kind = "store" -> BucketUrn("ObjectStore", name)
    [] OTHER -> EcsService(name)

\* Mutant: the handles of what a service depends on are not passed on.
CollectNone(name, pr, cfg) == {}
CollectDeps(name, pr, cfg) == {Handle(d, pr, cfg) : d \in pr.services[name].needs}

StoresOf(name, pr) == {d \in pr.services[name].needs : pr.services[d].kind = "store"}

NewService(name, pr, cfg) ==
  LET svc == pr.services[name]
      deps == CollectDeps(name, pr, cfg)
      infra == SharedInfra(pr, cfg, ApexServiceName(pr))
  IN  <<Res(Urn("Project", ComponentOf(svc.kind), name), {})>>
      \o CASE svc.kind = "postgres" -> CreatePostgres(name, svc, cfg, deps)
           [] svc.kind = "redis" -> CreateRedis(name, svc, cfg, deps)
           [] svc.kind = "store" -> CreateObjectStore(name, deps)
           [] OTHER -> GetServiceImage(name, svc)
                       \o CreateECSService(name, pr, svc, cfg, infra, StoresOf(name, pr), deps)

ServicePlan(name, pr, cfg) == NewService(name, Normalized(pr), cfg)
ServiceFails(name, pr, cfg) ==
  pr.services[name].kind = "container"
    /\ EcsFails(Normalized(pr).services[name], cfg, Infra(pr, cfg))

--------------------------------------------------------------------------------
(* What has to be there when the engine starts on a resource, besides what  *)
(* its inputs name.                                                         *)

GrantsOf(plan, role) ==
  {plan[i].urn : i \in {j \in DOMAIN plan :
     "role" \in DOMAIN plan[j].args /\ TypeOf(plan[j].urn) \in {"iam.RolePolicy", "iam.RolePolicyAttachment"}
       /\ plan[j].args.role = role}}

RecordsOf(plan, parent, hosts, type) ==
  {plan[i].urn : i \in {j \in DOMAIN plan :
     /\ TypeOf(plan[j].urn) = "route53.Record" /\ ParentOf(plan[j].urn) = parent
     /\ plan[j].urn[3][1] \in hosts /\ plan[j].urn[3][2] = type}}

CertOf(plan, validation) ==
  CHOOSE r \in OfType(plan, "acm.Certificate") :
    ParentOf(r.urn) = ParentOf(validation) /\ r.urn[3] = validation[3]

RulesOf(plan, name) == {r \in OfType(plan, "lb.ListenerRule") : r.args.service = name}

Needs(plan, r) ==
  CASE TypeOf(r.urn) = "cloudwatch.EventTarget" -> {EventPolicy}
    [] TypeOf(r.urn) = "acm.CertificateValidation" ->
         LET hosts == CertOf(plan, r.urn).args.hosts IN
         RecordsOf(plan, ParentOf(r.urn), hosts, "CAA")
           \cup RecordsOf(plan, ParentOf(r.urn), {ValidationHost(BaseOf(h)) : h \in hosts}, "CNAME")
    [] TypeOf(r.urn) = "lb.ListenerCertificate" ->
         {v.urn : v \in {c \in OfType(plan, "acm.CertificateValidation") :
            ParentOf(c.urn) = "Service" /\ BaseOf(c.urn[3]) = r.urn[3][2]}}
    [] TypeOf(r.urn) = "ecs.Service" ->
         GrantsOf(plan, r.args.role)
           \cup {rule.urn : rule \in RulesOf(plan, Tail(r.urn[3]))}
    [] OTHER -> {}

================================================================================
