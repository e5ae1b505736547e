----------------------------- MODULE ScalewayProject ----------------------------
(***************************************************************************)
(* The Scaleway project (provider/defangscaleway/project.go, service.go,   *)
(* postgres.go, redis.go, scaleway/containers.go, scaleway/postgres.go,    *)
(* scaleway/redis.go, scaleway/image.go, scaleway/buildinstance.go): a     *)
(* namespace of serverless containers, a private network, and for each     *)
(* service a component that waits for those it depends on.                 *)
(* A configuration is                                                      *)
(*   versions  the Redis versions on offer: "some", none ("none"), none    *)
(*             recent enough ("old") or an error ("failed")                *)
(*   nodes     the family of the PostgreSQL nodes, machines that of the    *)
(*             build machines                                              *)
(***************************************************************************)
EXTENDS Compose, Plan, Sizes

P(type, name) == Urn("Project", type, name)
S(type, name) == Urn("Service", type, name)

--------------------------------------------------------------------------------
(* buildSharedInfra.                                                        *)

Namespace == P("containers.Namespace", <<"project", "namespace">>)
PrivateNetwork == P("network.PrivateNetwork", <<"project", "private", "network">>)
Registry == P("registry.Namespace", <<"project", "registry">>)
LogSource == P("observability.Source", <<"project", "build", "logs">>)
LogToken == P("observability.Token", <<"project", "build", "logs">>)

HasBuild(pr) == \E name \in DOMAIN pr.services : NeedsBuild(pr.services[name])
InfraPlan(pr, cfg) ==
  <<Res(Namespace, {}), Res(PrivateNetwork, {})>>
  \o When(HasBuild(pr), <<Res(Registry, {})>>)
  \o <<Res(LogSource, {}), Res(LogToken, {})>>
InfraFails(pr, cfg) == FALSE

--------------------------------------------------------------------------------
(* Managed databases, on the private network.                               *)

PgInstance(name) == Urn("Postgres", "databases.Instance", name)
PgDatabase(name) == Urn("databases.Instance", "databases.Database", name \o <<"db">>)
PgPrivilege(name) == Urn("databases.Instance", "databases.Privilege", name \o <<"privilege">>)

\* Mutant: the privilege names the database without waiting for it.
PrivilegeAfterEager(name) == {PgInstance(name)}
PrivilegeAfter(name) == {PgInstance(name), PgDatabase(name)}

CreatePostgres(name, svc, cfg) ==
  <<ResWith(PgInstance(name), {PrivateNetwork},
            [public |-> FALSE, fit |-> PostgresNodeType(Asked(svc), cfg.nodes)]),
    Res(PgDatabase(name), {PgInstance(name)}), Res(PgPrivilege(name), PrivilegeAfter(name))>>

RedisCluster(name) == Urn("Redis", "redis.Cluster", name)
CreateRedis(name, svc) ==
  <<ResWith(RedisCluster(name), {PrivateNetwork},
            [public |-> FALSE, fit |-> RedisNodeType(GetMemoryMiB(svc))])>>
RedisFails(cfg) == cfg.versions # "some"

\* The resources whose outputs make up a service's address or connection URL.
Address(name, svc) ==
  IF svc.kind = "postgres" THEN {PgInstance(name), PgDatabase(name)} ELSE {RedisCluster(name)}

--------------------------------------------------------------------------------
(* Containers.                                                              *)

BuildUrn(name) == S("defang.Build", name)
BuildServiceImage(name, svc, cfg) ==
  LET memory == GetBuildMemoryMiB(svc)
      machine == SelectBuildInstanceType(memory, cfg.machines)
  IN  <<ResWith(BuildUrn(name), {Registry, LogSource, LogToken},
                [fit |-> machine, disk |-> BuildDiskSizeGB(machine, memory, cfg.machines)])>>
GetServiceImage(name, svc, cfg) == When(svc.build, BuildServiceImage(name, svc, cfg))

ReservedPorts == {8008, 8012, 8013, 8022, 9090, 9091}
IngressPorts(svc) == Selected(svc.ports, IsIngress)

\* In millicores and MiB.
CpuLimit(svc) == IF svc.cpus = 0 THEN 140 ELSE svc.cpus * 10
MemoryLimit(svc) ==
  CASE svc.memory = 0 -> 256 [] svc.memory \in 1..127 -> 128 [] OTHER -> svc.memory

ValidateContainerService(svc) ==
  /\ CpuLimit(svc) \in 70..6000 /\ MemoryLimit(svc) \in 128..12228 /\ GetReplicas(svc) \in 1..50
  /\ ~HasHostPorts(svc) /\ Len(IngressPorts(svc)) <= 1
  /\ \A port \in PortsOf(svc) : port.target \notin ReservedPorts
  /\ "PORT" \notin DOMAIN svc.env
  /\ ~svc.llm /\ ~svc.arm

\* A value that names a managed service is replaced if that was made before; a
\* connection URL is a secret.
Resolved(svc, pr, order) == {used \in svc.uses \cap ToSet(order) : IsManagedService(pr.services[used])}

\* Without ports something has to answer the health checks, so one instance runs.
MinScale(svc) == IF svc.ports = << >> \/ GetReplicas(svc) > 1 THEN 1 ELSE 0

Container(name) == S("containers.Container", name)
ContainerAfter(name, svc, pr, order) ==
  {Namespace, PrivateNetwork} \cup (IF svc.build THEN {BuildUrn(name)} ELSE {})
    \cup UNION {Address(used, pr.services[used]) : used \in Resolved(svc, pr, order)}

CreateContainerService(name, svc, pr, order) ==
  <<ResWith(Container(name), ContainerAfter(name, svc, pr, order),
      [ingress |-> [external |-> {port.target : port \in ToSet(IngressPorts(svc))}, internal |-> {}],
       uses |-> svc.uses \cap svc.needs, scale |-> <<MinScale(svc), GetReplicas(svc)>>])>>
  \o When(svc.domain # << >>,
          <<Res(Urn("containers.Container", "containers.Domain", name \o <<"domain">>), {Container(name)})>>)

--------------------------------------------------------------------------------
(* buildService.  What depends on a component waits for its children.       *)

Component(name, svc) ==
  P(CASE svc.kind = "postgres" -> "Postgres" [] svc.kind = "redis" -> "Redis" [] OTHER -> "Service", name)

Children(name, pr, cfg, order) ==
  LET svc == pr.services[name] IN
  CASE svc.kind = "postgres" -> CreatePostgres(name, svc, cfg)
    [] svc.kind = "redis" -> CreateRedis(name, svc)
    [] OTHER -> GetServiceImage(name, svc, cfg) \o CreateContainerService(name, svc, pr, order)

\* Mutant: the components of what a service depends on are not passed on.
DepsNone(name, pr, cfg, order) == {}
Deps(name, pr, cfg, order) ==
  UNION {{Component(d, pr.services[d])} \cup Registered(Children(d, pr, cfg, order)) :
           d \in pr.services[name].needs}

ServicePlan(name, pr, cfg, order) ==
  LET comp == Component(name, pr.services[name])
      children == Children(name, pr, cfg, order)
  IN  <<Res(comp, Deps(name, pr, cfg, order))>>
      \o [i \in DOMAIN children |-> [children[i] EXCEPT !.after = @ \cup {comp}]]

ServiceFails(name, pr, cfg) ==
  LET svc == pr.services[name] IN
  CASE svc.kind = "postgres" -> FALSE
    [] svc.kind = "redis" -> RedisFails(cfg)
    [] OTHER -> (~svc.build /\ ~svc.image) \/ (svc.build /\ BuildFamilyFails(cfg.machines))
                \/ ~ValidateContainerService(svc)

Main(name, pr) ==
  CASE pr.services[name].kind = "postgres" -> PgInstance(name)
    [] pr.services[name].kind = "redis" -> RedisCluster(name)
    [] OTHER -> Container(name)

\* What has to be there when the engine starts on a resource.
Settled(used, pr) ==
  IF pr.services[used].kind = "postgres" THEN {PgPrivilege(used)} ELSE {}
Needs(plan, r, pr) ==
  CASE TypeOf(r.urn) = "containers.Container" -> UNION {Settled(used, pr) : used \in r.args.uses}
    [] TypeOf(r.urn) = "databases.Privilege" ->
         {plan[i].urn : i \in {j \in DOMAIN plan : plan[j].urn = Urn("databases.Instance", "databases.Database",
             SubSeq(r.urn[3], 1, Len(r.urn[3]) - 1) \o <<"db">>)}}
    [] OTHER -> {}

================================================================================
