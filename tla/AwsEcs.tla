--------------------------------- MODULE AwsEcs ---------------------------------
(***************************************************************************)
(* A container service on AWS (aws/ecs.go, aws/image.go, aws/codebuild.go, *)
(* aws/iam.go, aws/lb.go): its task definition, its image, its task role   *)
(* and what that may do, its target groups and rules, its security group   *)
(* and the ECS service that waits for them.  Containers are known by the   *)
(* service or the sidecar they run; the suffix of a deployment in their    *)
(* names is left out.                                                      *)
(***************************************************************************)
EXTENDS AwsShared

S(type, name) == Urn("Service", type, name)
BuildUrn(name) == S("defang.Build", name)
TaskRole(name) == S("iam.Role", name)
TaskDef(name) == S("ecs.TaskDefinition", name)

--------------------------------------------------------------------------------
(* The environment.                                                         *)

\* A value that a config value is part of becomes a parameter of its own.
SecretUrn(container, key) == S("ssm.Parameter", container \o <<"env", key>>)
ComposedSecrets(container, env) ==
  {SecretUrn(container, key) : key \in {k \in DOMAIN env : env[k] = "mixed"}}

\* The owner is part of the name: parents are no part of a URN.
SidecarContainer(name, sidecar) == name \o <<"sidecar">> \o sidecar.name

\* The containers with an environment of their own, and the parameters of each.
Environments(name, svc) ==
  <<ComposedSecrets(name, svc.env)>>
  \o [i \in DOMAIN svc.sidecars |->
        ComposedSecrets(SidecarContainer(name, svc.sidecars[i]), svc.sidecars[i].env)]
Secrets(name, svc) == UNION ToSet(Environments(name, svc))

\* Mutant: only the parameters of the service's own container are watched.
TriggersOwn(name, svc) == ComposedSecrets(name, svc.env)

\* The task definition holds where a value is, not the value: a new version of any
\* of the parameters forces a new deployment.
Triggers(name, svc) == Secrets(name, svc)

--------------------------------------------------------------------------------
(* The containers.                                                          *)

\* Mutant: a container waits for the other services too.
BuildDependsOnAll(awaits, svc) == awaits

\* A container waits for the sidecars of its own task, and for nothing else.
BuildDependsOn(awaits, svc) ==
  {await \in awaits : \E sidecar \in ToSet(svc.sidecars) : sidecar.name = await[1]}

Route53Sidecar == <<"route53-sidecar">>
Containers(name, svc) ==
  <<[name |-> name, essential |-> TRUE, awaits |-> BuildDependsOn(svc.awaits, svc)]>>
  \o [i \in DOMAIN svc.sidecars |->
        [name |-> svc.sidecars[i].name, essential |-> ~svc.sidecars[i].once,
         awaits |-> BuildDependsOn(svc.sidecars[i].awaits, svc)]]
  \o When(HasHostPorts(svc),
          <<[name |-> Route53Sidecar, essential |-> FALSE, awaits |-> {<<name, "service_started">>}]>>)

TaskDefinition(name, svc) ==
  ForEach(Environments(name, svc), LAMBDA secrets :
    ForEach(InOrder(secrets), LAMBDA urn : <<Res(urn, {})>>))
  \o <<ResWith(TaskDef(name),
         {ExecRole, TaskRole(name), LogGroup, PrivateZone} \cup Secrets(name, svc)
           \cup (IF NeedsBuild(svc) THEN {BuildUrn(name)} ELSE {}),
         [fit |-> FargateResources(Asked(svc)), secrets |-> Secrets(name, svc),
          containers |-> Containers(name, svc)])>>

--------------------------------------------------------------------------------
(* The image.                                                               *)

CreateCodeBuildProject(name, svc) ==
  <<ResWith(S("codebuild.Project", name \o <<"image">>), {BuildRole, LogGroup, BuildRepo},
            [fit |-> CodeBuildComputeType(GetBuildMemoryMiB(svc))])>>
BuildServiceImage(name, svc) ==
  CreateCodeBuildProject(name, svc)
  \o <<ResWith(BuildUrn(name), {S("codebuild.Project", name \o <<"image">>), BuildRepo},
               [role |-> BuildRole])>>
GetServiceImage(name, svc) == When(NeedsBuild(svc), BuildServiceImage(name, svc))

--------------------------------------------------------------------------------
(* The task role.                                                           *)

CreateTaskRole(name) == <<Res(TaskRole(name), {})>>

\* An x-defang-policies entry is an ARN or a bare name; the attachment is named
\* after the last segment of either.
AttachmentUrn(name, policy) ==
  S("iam.RolePolicyAttachment", name \o <<"task", "role", policy.name>>)

ParsePoliciesFails(svc) == \E policy \in ToSet(svc.policies) : policy.foreign

\* Mutant: an entry given twice is attached twice.
PoliciesKept(svc) == svc.policies

\* Each entry counts once.
Policies(svc) == InOrder(ToSet(svc.policies))

AttachObjectStorePolicy(name, store) ==
  Grant(S("iam.RolePolicy", name \o <<"objectstore">> \o store), TaskRole(name),
        {BucketUrn("ObjectStore", store)})

TaskRoleGrants(name, svc, stores) ==
  When(HasHostPorts(svc),
       Grant(S("iam.RolePolicyAttachment", name \o <<"AllowRoute53Sidecar">>),
             TaskRole(name), {Route53SidecarPolicy}))
  \o When(svc.llm,
       Grant(S("iam.RolePolicyAttachment", name \o <<"BedrockPolicy">>),
             TaskRole(name), {BedrockPolicy}))
  \o ForEach(InOrder(stores), LAMBDA store : AttachObjectStorePolicy(name, store))
  \o ForEach(Policies(svc), LAMBDA policy : Grant(AttachmentUrn(name, policy), TaskRole(name), {}))

--------------------------------------------------------------------------------
(* Target groups and listener rules.                                        *)

Routed(port) == IsIngress(port) /\ GetAppProtocol(port) \in {"http", "http2", "grpc"}

\* The short form of a long service name is not modelled.
TargetGroupName(name, port) ==
  name \o <<ToString(port.target)
              \o (IF GetAppProtocol(port) = "http" THEN "" ELSE GetAppProtocol(port))>>
       \o (IF port.listener \in {"", "https"} THEN << >> ELSE <<port.listener>>)

TgUrn(name, port) == S("lb.TargetGroup", TargetGroupName(name, port))
RuleUrn(name, port) == S("lb.ListenerRule", TargetGroupName(name, port) \o <<"rule">>)

\* The default of the recipe.
HealthCheckInterval == 5

ClampInt(n, low, high, fallback) ==
  CASE n = 0 -> fallback [] n \in 1..(low - 1) -> low [] n > high -> high [] OTHER -> n

\* Mutant: without a timeout of its own a check gets the interval as it is.
TgHealthCheckTimingRaw(health) ==
  LET interval == ClampInt(health.interval, 5, 300, HealthCheckInterval)
      most == IF interval - 1 > 120 THEN 120 ELSE interval - 1
  IN  <<interval, ClampInt(health.timeout, 2, most, interval)>>

\* The interval of the balancer's probe and its timeout, unless given the longest
\* that is allowed.
TgHealthCheckTiming(health) ==
  LET interval == ClampInt(health.interval, 5, 300, HealthCheckInterval)
      most == IF interval - 1 > 120 THEN 120 ELSE interval - 1
  IN  <<interval, ClampInt(health.timeout, 2, most, most)>>

\* A port may force the HTTP listener; the others take HTTPS where there is one.
ListenerOf(port, infra) ==
  IF port.listener = "http" \/ infra.https = {} THEN infra.http ELSE infra.https

PortHost(name, port, infra) == <<ServiceLabel(name) \o <<"", ToString(port.target)>> >> \o infra.projectDomain
ServiceHost(name, infra) == <<ServiceLabel(name)>> \o infra.projectDomain

\* The hosts that are routed to the i-th port.
Endpoints(name, svc, infra, i) ==
  LET owned == infra.projectDomain # << >>
      first == SelectInSeq(svc.ports, IsIngress)
  IN  (IF owned THEN {PortHost(name, svc.ports[i], infra)} ELSE {})
      \cup (CASE svc.domain # << >> -> {svc.domain}
              [] svc.domain = << >> /\ owned ->
                   {ServiceHost(name, infra)}
                     \cup (IF infra.apexService = name THEN {infra.projectDomain} ELSE {})
              [] OTHER -> {})
      \cup (IF i = first THEN ToSet(svc.aliases) ELSE {})

\* Mutant: the rules of a service are created all at once.
PrevRuleNone(name, svc, i) == {}

\* Rules get their priorities in the order they are created in.
PrevRule(name, svc, i) ==
  LET earlier == SelectLastInSubSeq(svc.ports, 1, i - 1, Routed)
  IN  IF earlier = 0 THEN {} ELSE {RuleUrn(name, svc.ports[earlier])}

AlbHost == << <<"alb">> >>
CreateTgLrPair(name, svc, cfg, infra, i) ==
  LET port == svc.ports[i]
      hosts == Endpoints(name, svc, infra, i)
      prev == PrevRule(name, svc, i)
  IN  When(Routed(port),
        <<ResWith(TgUrn(name, port), InVpc(cfg) \cup prev, [check |-> TgHealthCheckTiming(svc.health)]),
          ResWith(RuleUrn(name, port),
                  {TgUrn(name, port)} \cup ListenerOf(port, infra) \cup prev,
                  [service |-> name, port |-> i, listener |-> ListenerOf(port, infra),
                   hosts |-> IF hosts = {} THEN {AlbHost} ELSE hosts])>>)

LoadBalanced(svc, infra) == IF infra.alb = {} THEN {} ELSE {p \in PortsOf(svc) : Routed(p)}

--------------------------------------------------------------------------------
(* The security group and the service.                                      *)

IsPrivate(pr, svc) == ~AcceptPublicTraffic(pr, svc)
AssignPublicIp(pr, svc, infra) == (infra.skipNat /\ AllowEgress(pr, svc)) \/ ~IsPrivate(pr, svc)

\* Mutant: a port behind the load balancer is open to everyone.
IngressFromAny(pr, svc, port, infra) == IF IsPrivate(pr, svc) /\ ~IsIngress(port) THEN SvcSg ELSE Anyone

IngressFrom(pr, svc, port, infra) ==
  CASE IsIngress(port) /\ infra.alb # {} -> AlbSg
    [] ~IsIngress(port) /\ IsPrivate(pr, svc) -> SvcSg
    [] IsIngress(port) /\ infra.alb = {} /\ IsPrivate(pr, svc) -> SvcSg
    [] OTHER -> Anyone

ServiceSg(name) == S("ec2.SecurityGroup", name)
CreateServiceSG(name, pr, svc, cfg, infra) ==
  SecurityGroup(ServiceSg(name), cfg,
    {[port |-> port.target, from |-> IngressFrom(pr, svc, port, infra)] : port \in PortsOf(svc)})

\* Mutant: the service does not wait for what its role may do.
WaitsForRulesOnly(name, svc, stores, infra) == {RuleUrn(name, p) : p \in LoadBalanced(svc, infra)}

LbDependsOn(name, svc, stores, infra) ==
  Registered(TaskRoleGrants(name, svc, stores))
    \cup {RuleUrn(name, port) : port \in LoadBalanced(svc, infra)}

EcsService(name) == S("ecs.Service", <<"project_">> \o name)
CreateCPUAutoscaling(name) ==
  <<Res(S("appautoscaling.Target", name \o <<"scaling">>), {Cluster, EcsService(name)}),
    Res(S("appautoscaling.Policy", name \o <<"scaling", "cpu">>),
        {S("appautoscaling.Target", name \o <<"scaling">>)})>>

\* The URL the Project reports for the service.
EcsEndpoint(name, svc, infra) ==
  CASE HasIngressPorts(svc) /\ infra.projectDomain # << >> -> <<"https", ServiceHost(name, infra)>>
    [] HasIngressPorts(svc) /\ infra.projectDomain = << >> /\ infra.alb # {} -> <<"http", AlbHost>>
    [] OTHER -> <<"none", IF HasHostPorts(svc) THEN <<ServiceLabel(name)>> \o PrivateDomain ELSE <<name>> >>

CreateECSService(name, pr, svc, cfg, infra, stores, deps) ==
  CreateTaskRole(name)
  \o TaskRoleGrants(name, svc, stores)
  \o TaskDefinition(name, svc)
  \o When(infra.alb # {}, ForEach([i \in DOMAIN svc.ports |-> i], LAMBDA i :
       CreateTgLrPair(name, svc, cfg, infra, i)))
  \o CreateServiceSG(name, pr, svc, cfg, infra)
  \o <<ResWith(EcsService(name),
         {Cluster, TaskDef(name), ServiceSg(name), SvcSg} \cup InVpc(cfg)
           \cup {TgUrn(name, port) : port \in LoadBalanced(svc, infra)}
           \cup LbDependsOn(name, svc, stores, infra) \cup deps,
         [role |-> TaskRole(name), triggers |-> Triggers(name, svc), public |-> AssignPublicIp(pr, svc, infra),
          endpoint |-> EcsEndpoint(name, svc, infra)])>>
  \o CreateCertsAndRoute53Dns(name, svc, cfg, infra)
  \o When(svc.scales, CreateCPUAutoscaling(name))

\* The early returns of GetServiceImage and CreateECSService, and its panic.
EcsFails(svc, cfg, infra) ==
  \/ ~NeedsBuild(svc) /\ ~svc.image
  \/ ParsePoliciesFails(svc)
  \/ \E sidecar \in ToSet(svc.sidecars) : ~sidecar.image
  \/ FargateFails(Asked(svc))
  \/ ByodFails(svc, cfg, infra)

================================================================================
