------------------------------ MODULE AzureProject ------------------------------
(***************************************************************************)
(* The Azure project as its loops see it (provider/defangazure/project.go, *)
(* service.go): the managed services in any order, then the others in any  *)
(* order.  depends_on plays no part; a container app waits for the managed *)
(* services whose addresses its environment names.                         *)
(***************************************************************************)
EXTENDS AzureDomains

InfraPlan(pr, cfg) == SetupSharedInfra(pr, cfg)
InfraFails(pr, cfg) == SetupFails(cfg)

\* Mutant: one loop over all the services.
InTurnAny(name, pr, order) == TRUE

\* The second loop starts when the first is done.
InTurn(name, pr, order) ==
  IsManaged(pr.services[name])
    \/ \A other \in DOMAIN pr.services : IsManaged(pr.services[other]) => other \in ToSet(order)

Component(name, svc) ==
  Urn("Project", CASE svc.kind = "postgres" -> "Postgres" [] svc.kind = "redis" -> "Redis"
                   [] svc.kind = "llm" -> "LLM" [] OTHER -> "Service", name)

CreateContainerService(name, svc, pr, cfg, order) ==
  GetServiceImage(name, svc) \o CreatePolicyIdentity(name, svc)
  \o (IF IsVirtualMachineService(svc) THEN CreateVirtualMachineService(name, svc, cfg)
      ELSE CreateContainerApp(name, svc, pr, cfg, order) \o CreateAppDomains(name, svc, cfg))

CreateServiceResources(name, svc, pr, cfg, order) ==
  <<Res(Component(name, svc), {})>>
  \o (CASE svc.kind = "postgres" -> CreatePostgresFlexible(name, svc, cfg)
        [] svc.kind = "redis" -> CreateRedisEnterprise(name, svc)
        [] svc.kind = "llm" -> CreateLlmDeployment(svc, pr, order)
        [] OTHER -> CreateContainerService(name, svc, pr, cfg, order))

ServicePlan(name, pr, cfg, order) == CreateServiceResources(name, pr.services[name], pr, cfg, order)
ServiceFails(name, pr, cfg) ==
  ~IsManaged(pr.services[name]) /\ ServiceRefused(pr.services[name], pr, cfg)

\* The resource that is the service, and the services it waits for.
Main(name, pr) ==
  LET svc == pr.services[name] IN
  CASE svc.kind = "postgres" -> PgServer(name)
    [] svc.kind = "redis" -> RedisCluster(name)
    [] svc.kind = "llm" -> LlmDeployment(svc.alias)
    [] OTHER -> IF IsVirtualMachineService(svc) THEN ScaleSet(name) ELSE App(name)
WaitsFor(name, pr) ==
  IF IsContainerApp(pr.services[name])
  THEN {used \in pr.services[name].uses : IsManagedService(pr.services[used])} ELSE {}

--------------------------------------------------------------------------------
(* What has to be there when the engine starts on a resource.               *)

GrantsOf(plan, identities) ==
  {plan[i].urn : i \in {j \in DOMAIN plan :
     "role" \in DOMAIN plan[j].args /\ plan[j].args.role \in identities}}

\* Whatever a service is made of, and what makes its name resolve.
Settled(used, pr) ==
  LET svc == pr.services[used] IN
  CASE svc.kind = "postgres" ->
         {PgExtensions, PgNoTls, VNetLink("postgres")}
           \cup IF "POSTGRES_DB" \in DOMAIN svc.env THEN {PgDatabase(used)} ELSE {}
    [] svc.kind = "redis" -> {RedisZoneGroup(used), VNetLink("redis")}
    [] svc.kind = "llm" ->
         {LlmDeployment(svc.alias)}
           \cup IF Networked(pr) THEN {LlmEndpoint, LlmZoneGroup, LlmLink("cs"), LlmLink("openai")} ELSE {}
    [] OTHER -> {}

\* Of that, what the code lets a container start without: a PostgreSQL service's own
\* database, and all there is of a model but its account.
NotAwaited(used, pr) ==
  LET svc == pr.services[used] IN
  CASE svc.kind = "postgres" -> {PgDatabase(used), VNetLink("postgres")}
    [] svc.kind = "llm" -> Settled(used, pr)
    [] OTHER -> {}

\* And of the grants of a service's policies, all but the last.
EarlierPolicies(pr) ==
  UNION {{PolicyAssignment(name, i - 1) : i \in 1..(Len(pr.services[name].policies) - 1)} :
           name \in DOMAIN pr.services}

Needs(plan, r, pr) ==
  CASE TypeOf(r.urn) \in {"app.ContainerApp", "compute.VirtualMachineScaleSet"} ->
         (GrantsOf(plan, r.args.identities) \ EarlierPolicies(pr))
           \cup UNION {Settled(used, pr) \ NotAwaited(used, pr) : used \in r.args.uses}
    [] r.urn = LogTable -> {LogSetting}
    [] OTHER -> {}

\* What takes one change at a time: the settings of a server, the deployments of
\* an account.
OneAtATime == {"dbforpostgresql.Configuration", "cognitiveservices.Deployment"}

================================================================================
