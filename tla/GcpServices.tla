------------------------------- MODULE GcpServices ------------------------------
(***************************************************************************)
(* A service on Google Cloud: a Cloud SQL or Memorystore instance, a Cloud *)
(* Run service or a managed instance group, the account it runs as and     *)
(* the secrets it reads (service.go, gcp/cloudrun.go, gcp/compute.go,      *)
(* gcp/iam.go, gcp/image.go, gcp/cloudsql.go, gcp/memorystore.go).         *)
(***************************************************************************)
EXTENDS GcpShared

S(type, name) == Urn("Service", type, name)

--------------------------------------------------------------------------------
(* The image: built under the project, once the service's dependencies are. *)

BuildUrn(name) == Urn("Project", "defang.Build", name)
\* Mutant: the build does not wait until its account can read the source.
BuildEager(name, svc, cfg, deps) ==
  <<ResWith(BuildUrn(name), {Builder, BuildRepo} \cup deps,
            [role |-> Builder, fit |-> CloudBuildMachineType(GetBuildMemoryMiB(svc))])>>

BuildServiceImage(name, svc, cfg, deps) ==
  <<ResWith(BuildUrn(name),
            {Builder, BuildRepo} \cup deps \cup (IF cfg.sourceBucket THEN {SourceViewer} ELSE {}),
            [role |-> Builder, fit |-> CloudBuildMachineType(GetBuildMemoryMiB(svc))])>>
GetServiceImage(name, svc, cfg, deps) == When(svc.build, BuildServiceImage(name, svc, cfg, deps))

ImageOf(name, svc) ==
  CASE svc.build -> {BuildUrn(name)}
    [] ~svc.build /\ svc.registry # "" -> {RemoteRepo(svc.registry)}
    [] OTHER -> {}

--------------------------------------------------------------------------------
(* The account and what it may do.                                          *)

Account(name) == S("serviceaccount.Account", name)

ParsePoliciesFails(svc) == \E policy \in ToSet(svc.policies) : policy.foreign

\* An entry counts once, a bare name as the custom role of the project.
PolicyRoles(svc) == {policy.name : policy \in ToSet(svc.policies)}
PolicyMember(name, role) == S("projects.IAMMember", name \o <<"policy", role>>)
GrantPolicies(name, svc) ==
  ForEach(InOrder(PolicyRoles(svc)), LAMBDA role :
    Grant(PolicyMember(name, role), Account(name), {}))
PolicyDeps(name, svc) == {PolicyMember(name, role) : role \in PolicyRoles(svc)}

\* Nothing waits for it.
EnableLlm(name) == Grant(S("projects.IAMMember", name \o <<"defang", "llm">>), Account(name), {})

--------------------------------------------------------------------------------
(* The environment.                                                         *)

\* The stored secret a bare reference is about: that of the variable's own name,
\* or one that several variables refer to.
SecretOf(env, key) == IF env[key] = "shared" THEN "SHARED" ELSE key

\* A value that a config value is part of becomes a secret of its own.
ComposedSecret(name, key) == S("secretmanager.Secret", name \o <<"env", key>>)
ComposedVersion(name, key) == S("secretmanager.SecretVersion", name \o <<"env", key>>)
NewComposedEnvSecret(name, key) ==
  <<Res(ComposedSecret(name, key), {}),
    Res(ComposedVersion(name, key), {ComposedSecret(name, key)})>>

Composed(env) == {key \in DOMAIN env : env[key] = "mixed"}
References(env) == {key \in DOMAIN env : env[key] \in {"config", "shared"}}
Versions(name, env) == {ComposedVersion(name, key) : key \in Composed(env)}

StoredSecrets(name, env) == InOrder({SecretOf(env, key) : key \in References(env)})

\* May read each secret, on Cloud Run and (owner) on Compute Engine.
SecretMember(name, id) == S("secretmanager.SecretIamMember", name \o id)
GrantSecretAccess(name, env, owner) ==
  ForEach(StoredSecrets(name, env), LAMBDA id :
    Grant(SecretMember(name, <<"secret", id>>), Account(name), {}))
  \o ForEach(InOrder(Composed(env)), LAMBDA key :
    Grant(SecretMember(name, owner \o <<"env", key>>), Account(name), {ComposedSecret(name, key)}))

--------------------------------------------------------------------------------
(* Cloud Run.                                                               *)

RunService(name) == S("cloudrunv2.Service", name)

\* Mutant: the service does not wait for the policies it was given.
RunDepsNoPolicies(name, svc, members) == Registered(members)
RunDeps(name, svc, members) == Registered(members) \cup PolicyDeps(name, svc)

CreateCloudRunService(name, svc) ==
  LET members == GrantSecretAccess(name, svc.env, << >>)
  IN  ForEach(InOrder(Composed(svc.env)), LAMBDA key : NewComposedEnvSecret(name, key))
      \o members
      \o <<ResWith(RunService(name),
             {Account(name), Vpc, Subnet} \cup ImageOf(name, svc) \cup Versions(name, svc.env)
               \cup RunDeps(name, svc, members),
             [role |-> Account(name), fit |-> CloudRunLimits(Asked(svc)),
              reads |-> Versions(name, svc.env)])>>

--------------------------------------------------------------------------------
(* Compute Engine.                                                          *)

TcpPorts(svc) == Selected(svc.ports, LAMBDA port : GetProtocol(port) = "tcp")

\* Probed on the last TCP port, or on a sidecar's when there is none.
HealthCheckPort(svc) == IF TcpPorts(svc) = << >> THEN 8080 ELSE Last(TcpPorts(svc)).target
CreateMigAutoHealing(name, svc) ==
  LET probed == name \o <<ToString(HealthCheckPort(svc))>> IN
  <<Res(S("compute.HealthCheck", probed), {})>>
  \o Firewall(S("compute.Firewall", probed), name, {HealthCheckPort(svc)}, HealthChecks)

RoleMember(name, role) == S("projects.IAMMember", <<"account">> \o name \o <<role>>)
InstanceRoles == <<"artifactregistry.reader", "logging.logWriter", "monitoring.metricWriter",
                   "cloudtrace.agent">>
AddRolesToServiceAccount(name) ==
  ForEach(InstanceRoles, LAMBDA role : Grant(RoleMember(name, role), Account(name), {}))

Template(name) == S("compute.InstanceTemplate", name)
InstanceGroup(name) == S("compute.RegionInstanceGroupManager", name)

TemplateDeps(name, svc, members) ==
  Registered(members) \cup PolicyDeps(name, svc) \cup Versions(name, svc.env)

CreateComputeEngine(name, svc) ==
  LET members == GrantSecretAccess(name, svc.env, <<"secret">> \o name)
      roles == AddRolesToServiceAccount(name)
  IN  roles
      \o ForEach(InOrder(Composed(svc.env)), LAMBDA key : NewComposedEnvSecret(name, key))
      \o members
      \o <<ResWith(Template(name),
             {Account(name), Subnet} \cup ImageOf(name, svc) \cup Registered(roles)
               \cup {ComposedSecret(name, key) : key \in Composed(svc.env)}
               \cup TemplateDeps(name, svc, members),
             [role |-> Account(name), fit |-> GetComputeMachineType(Asked(svc), svc.arm),
              reads |-> Versions(name, svc.env)])>>
      \o CreateMigAutoHealing(name, svc)
      \o <<ResWith(InstanceGroup(name),
             {Template(name), S("compute.HealthCheck", name \o <<ToString(HealthCheckPort(svc))>>)},
             [ports |-> {port.target : port \in PortsOf(svc)}])>>

--------------------------------------------------------------------------------
(* createService.                                                           *)

CreateService(name, svc) ==
  <<Res(Account(name), {})>>
  \o GrantPolicies(name, svc)
  \o When(svc.llm, EnableLlm(name))
  \o (IF IsCloudRunService(svc) THEN CreateCloudRunService(name, svc)
                                ELSE CreateComputeEngine(name, svc))

\* The early returns of GetServiceImage and createService.
ServiceRefused(svc) ==
  \/ ~svc.build /\ ~svc.image
  \/ ParsePoliciesFails(svc)
  \/ IsCloudRunService(svc) /\ svc.volumes

--------------------------------------------------------------------------------
(* Databases.                                                               *)

SqlInstance(name) == Urn("Postgres", "sql.DatabaseInstance", name)
Literal(svc, key) == key \in DOMAIN svc.env /\ svc.env[key] = "literal"
CreateCloudSql(name, svc) ==
  <<ResWith(SqlInstance(name), {ServiceConnection, Vpc},
            [public |-> "private" \notin svc.networks, fit |-> CloudSqlTier(Asked(svc))])>>
  \o When(Literal(svc, "POSTGRES_PASSWORD"),
          <<Res(Urn("Postgres", "sql.User", name \o <<"user">>), {SqlInstance(name)})>>)
  \o When(Literal(svc, "POSTGRES_DB"),
          <<Res(Urn("Postgres", "sql.Database", name \o <<"db">>), {SqlInstance(name)})>>)

RedisInstance(name) == Urn("Redis", "redis.Instance", name)
CreateMemoryStore(name, svc) ==
  <<ResWith(RedisInstance(name), {ServiceConnection, Vpc},
            [public |-> FALSE, fit |-> GetRedisMemoryGiB(GetMemoryMiB(svc))])>>

================================================================================
