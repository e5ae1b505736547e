----------------------------- MODULE AzureServices ------------------------------
(***************************************************************************)
(* A service on Azure: a flexible PostgreSQL server, a managed Redis       *)
(* cluster, a deployment of a language model, a container app or a scale   *)
(* set of virtual machines (azure/postgres.go, redis.go, llm.go,           *)
(* containerapp.go, virtualmachine.go, policies.go, image.go, acr.go).     *)
(***************************************************************************)
EXTENDS AzureShared

S(type, name) == Urn("Service", type, name)

--------------------------------------------------------------------------------
(* PostgreSQL.  Applications wait for the settings of the server.           *)

Pg(type, name) == Urn("Postgres", type, name)
PgServer(name) == Pg("dbforpostgresql.Server", name)
PgExtensions == Pg("dbforpostgresql.Configuration", <<"extensions">>)
PgNoTls == Pg("dbforpostgresql.Configuration", <<"no-tls">>)
PgDatabase(name) == Pg("dbforpostgresql.Database", name)

\* Mutant: the server gets both settings at once, and refuses one.
PgNoTlsAfterEager(name) == {PgServer(name)}
PgNoTlsAfter(name) == {PgServer(name), PgExtensions}

CreatePostgresFlexible(name, svc, cfg) ==
  LET suffix == Pg("random.String", name \o <<"server", "suffix">>) IN
  <<Res(suffix, {}),
    InGroup(PgServer(name), {suffix, SubnetOf("postgres"), PrivateZone("postgres")},
            [public |-> FALSE, fit |-> PostgresFlexibleSku(Asked(svc), cfg.tier)]),
    Plainly(PgExtensions, {PgServer(name)}), Plainly(PgNoTls, PgNoTlsAfter(name))>>
  \o When("POSTGRES_DB" \in DOMAIN svc.env,
          <<Plainly(PgDatabase(name), {PgServer(name)})>>)

PgReadiness(name) == {PgServer(name), PgExtensions, PgNoTls}

--------------------------------------------------------------------------------
(* Redis.  Applications wait until its name resolves in the network.        *)

RedisCluster(name) == Urn("Redis", "redis.RedisEnterprise", name)
RedisEndpoint(name) == Urn("Redis", "network.PrivateEndpoint", name)
RedisZoneGroup(name) == Urn("network.PrivateEndpoint", "network.PrivateDnsZoneGroup", name)

\* The private zone is made when there is a Redis service, so always.
CreateRedisEnterprise(name, svc) ==
  <<InGroup(RedisCluster(name), {},
            [public |-> FALSE, fit |-> SelectEnterpriseSkuName(GetMemoryMiB(svc))]),
    Plainly(Urn("redis.RedisEnterprise", "redis.Database", name), {RedisCluster(name)}),
    Plainly(RedisEndpoint(name), {SubnetOf("endpoints"), RedisCluster(name)}),
    Plainly(RedisZoneGroup(name), {RedisEndpoint(name), PrivateZone("redis")})>>

\* Mutant: the address is handed out as soon as the cluster is there.
RedisReadinessEager(name) == {RedisCluster(name)}
RedisReadiness(name) == {RedisCluster(name), RedisZoneGroup(name), VNetLink("redis")}

--------------------------------------------------------------------------------
(* A model, under its alias.  The account takes one deployment at a time.   *)

LlmDeployment(alias) == Urn("cognitiveservices.Account", "cognitiveservices.Deployment", alias)

\* Mutant: the deployments of one account are not put in a line.
PreviousDeploymentNone(pr, order) == {}
PreviousDeployment(pr, order) ==
  LET models == Selected(order, LAMBDA name : IsLlm(pr.services[name])) IN
  IF models = << >> THEN {} ELSE {LlmDeployment(pr.services[Last(models)].alias)}

CreateLlmDeployment(svc, pr, order) ==
  <<Plainly(LlmDeployment(svc.alias), {LlmAccount} \cup PreviousDeployment(pr, order))>>

--------------------------------------------------------------------------------
(* The image.                                                               *)

BuildTask(name) == S("containerregistry.Task", name)
BuildUrn(name) == S("defang.Build", name)
GetServiceImage(name, svc) ==
  When(svc.build, <<Plainly(BuildTask(name), {Registry}),
                    Plainly(BuildUrn(name), {Registry, BuildTask(name)})>>)
ImageOf(name, svc) == IF svc.build THEN {BuildUrn(name)} ELSE {}

--------------------------------------------------------------------------------
(* x-defang-policies: an identity and an assignment for each.               *)

ParsePoliciesFails(svc) == \E policy \in ToSet(svc.policies) : policy.foreign

PolicyIdentity(name) == S("managedidentity.Identity", name \o <<"policy">>)
PolicyAssignment(name, i) == S("authorization.RoleAssignment", name \o <<"policy", ToString(i)>>)
CreatePolicyIdentity(name, svc) ==
  When(svc.policies # << >>,
       <<Plainly(PolicyIdentity(name), {})>>
       \o FlattenSeq([i \in DOMAIN svc.policies |->
            Assignment(PolicyAssignment(name, i - 1), PolicyIdentity(name), {Group})]))

\* What a user of the identity waits for: the last of the assignments.
PolicyAfter(name, svc) ==
  IF svc.policies = << >> THEN {}
  ELSE {PolicyIdentity(name), PolicyAssignment(name, Len(svc.policies) - 1)}

IdentitiesOf(after) == {urn \in after : TypeOf(urn) = "managedidentity.Identity"}

--------------------------------------------------------------------------------
(* The environment.                                                         *)

\* A bare reference is read from the vault by the vault's identity.
KeyVaultRefs(env) == {key \in DOMAIN env : env[key] \in {"config", "shared"}}

\* What a user of the vault waits for; without a vault there is no identity to
\* read it with, and the reference is made all the same.
VaultAfter(svc, cfg) ==
  IF KeyVaultRefs(svc.env) # {} /\ cfg.vault = "found" THEN {KvIdentity, KvReader} ELSE {}

\* The addresses that its values name, with what makes them usable: those of the
\* managed services made so far, any other name stays as it is.
EndpointAfter(name, svc) ==
  CASE svc.kind = "postgres" -> PgReadiness(name)
    [] svc.kind = "redis" -> RedisReadiness(name)
    [] svc.kind = "llm" -> {LlmAccount}
    [] OTHER -> {}
EndpointsAfter(svc, pr, order) ==
  UNION {EndpointAfter(used, pr.services[used]) : used \in svc.uses \cap ToSet(order)}

--------------------------------------------------------------------------------
(* Ports and probes of a container app.                                     *)

IngressPorts(svc) == Selected(svc.ports, IsIngress)
HostPorts(svc) == Selected(svc.ports, IsHost)

\* The first ingress port is the main one, any further one is dropped.  The
\* networks of the project are not passed.
External(svc) == HasIngressPorts(svc) /\ InPublicNetwork([networks |-> {}, internal |-> {}], svc)
BuildIngress(svc) ==
  [external |-> IF External(svc) THEN {Head(IngressPorts(svc)).target} ELSE {},
   internal |-> (IF HasIngressPorts(svc) /\ ~External(svc) THEN {Head(IngressPorts(svc)).target} ELSE {})
                \cup {port.target : port \in ToSet(HostPorts(svc))}]

MaxDelay == 60
MaxThreshold == 10
PeriodOf(health) == IF health.interval > 0 THEN health.interval ELSE 10
ThresholdOf(health) == IF health.retries > 0 THEN health.retries ELSE 3
AtMost(n, bound) == IF n > bound THEN bound ELSE n

\* Mutant: the periods lost to the clamp are rounded down.
ExtraFailuresFloor(health) == (health.start - MaxDelay) \div PeriodOf(health)
ExtraFailures(health) == (health.start - MaxDelay + PeriodOf(health) - 1) \div PeriodOf(health)

\* A start period beyond what Azure allows becomes failures to tolerate.
HttpProbe(health) ==
  [type |-> "http", delay |-> AtMost(health.start, MaxDelay), period |-> PeriodOf(health),
   threshold |-> IF health.start > MaxDelay
                 THEN AtMost(ThresholdOf(health) + ExtraFailures(health), MaxThreshold)
                 ELSE ThresholdOf(health)]

\* Without a test the first port is probed the way Azure does by default, whatever
\* else the health check says, and without a port nothing is.
BuildProbes(svc) ==
  CASE svc.ports = << >> -> {}
    [] svc.ports # << >> /\ ~svc.test -> {[type |-> "tcp", port |-> svc.ports[1].target]}
    [] svc.ports # << >> /\ svc.test -> {HttpProbe(svc.health)}

--------------------------------------------------------------------------------
(* The container app.                                                       *)

App(name) == S("app.ContainerApp", name)
AppAfter(name, svc, pr, cfg, order) ==
  {Environment} \cup ImageOf(name, svc) \cup PullerAfter(pr) \cup VaultAfter(svc, cfg)
    \cup PolicyAfter(name, svc) \cup EndpointsAfter(svc, pr, order)

CreateContainerApp(name, svc, pr, cfg, order) ==
  LET after == AppAfter(name, svc, pr, cfg, order) IN
  <<InGroup(App(name), after,
      [identities |-> IdentitiesOf(after), uses |-> svc.uses, asked |-> svc.health,
       probes |-> BuildProbes(svc), ingress |-> BuildIngress(svc),
       fit |-> ContainerAppCpuMemory(Asked(svc))])>>

--------------------------------------------------------------------------------
(* The scale set, for a service with a UDP port.                            *)

Nsg(name) == S("network.NetworkSecurityGroup", name)
LoadBalancer(name) == S("network.LoadBalancer", name)
ScaleSet(name) == S("compute.VirtualMachineScaleSet", name)
HealthPort == 65535

\* The machines are probed by the load balancer and opened to the Internet on
\* the ports of the service.
SecurityRules(svc) ==
  {[port |-> HealthPort, from |-> "AzureLoadBalancer"]}
    \cup {[port |-> port.target, from |-> "Internet"] : port \in PortsOf(svc)}

VmAfter(name, svc, cfg) ==
  {LoadBalancer(name), Nsg(name), SubnetOf("compute"), S("random.Password", name \o <<"vm">>)}
    \cup ImageOf(name, svc) \cup (IF svc.build THEN {Registry, AcrIdentity, AcrPull} ELSE {})
    \cup VaultAfter(svc, cfg) \cup PolicyAfter(name, svc)

\* Its values are written out as they are: a config value inside other text is
\* not filled in, an address not replaced.
CreateVirtualMachineService(name, svc, cfg) ==
  LET after == VmAfter(name, svc, cfg)
      ip == S("network.PublicIPAddress", name)
  IN  <<Plainly(ip, {}), InGroup(Nsg(name), {}, [rules |-> SecurityRules(svc)]),
        Plainly(LoadBalancer(name), {ip}), Res(S("random.Password", name \o <<"vm">>), {}),
        InGroup(ScaleSet(name), after,
          [identities |-> IdentitiesOf(after), uses |-> {}, fit |-> VirtualMachineSize(Asked(svc))])>>

VirtualMachineFails(svc, pr, cfg) ==
  \/ ~InPublicNetwork(pr, svc)
  \/ HasHostPorts(svc)
  \/ svc.arm
  \/ KeyVaultRefs(svc.env) # {} /\ cfg.vault # "found"

--------------------------------------------------------------------------------
(* The early returns of GetServiceImage and createContainerService.         *)

ServiceRefused(svc, pr, cfg) ==
  \/ ~svc.build /\ ~svc.image
  \/ ParsePoliciesFails(svc)
  \/ IsVirtualMachineService(svc) /\ VirtualMachineFails(svc, pr, cfg)

================================================================================
