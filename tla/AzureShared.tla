------------------------------- MODULE AzureShared ------------------------------
(***************************************************************************)
(* What the services of one project share on Azure                         *)
(* (provider/defangazure/project.go, azure/network.go, dns.go, image.go,   *)
(* keyvault.go, llm.go, frontdoor.go, customdomain.go).                    *)
(* A configuration is                                                      *)
(*   domain  the delegate domain, << >> without one                        *)
(*   vault   what looking up the Key Vault of the config values finds:     *)
(*           "found", "none" or an error ("failed")                        *)
(*   tier    the recipe's tier of the PostgreSQL servers                   *)
(*   zones   the zones of the user's                                       *)
(***************************************************************************)
EXTENDS Compose, Plan, Sizes

P(type, name) == Urn("Project", type, <<name>>)

\* Nearly everything is put in the project's resource group.
Group == P("resources.ResourceGroup", "project")
InGroup(urn, after, args) == ResWith(urn, {Group} \cup after, args)
Plainly(urn, after) == InGroup(urn, after, [of |-> "none"])

--------------------------------------------------------------------------------
(* What the services are (detectServiceTypes).                              *)

IsLlm(svc) == svc.kind = "llm"
IsManaged(svc) == IsManagedService(svc) \/ IsLlm(svc)

\* A service with a UDP port cannot be a container app.
IsVirtualMachineService(svc) == \E port \in PortsOf(svc) : GetProtocol(port) = "udp"
IsContainerApp(svc) == ~IsManaged(svc) /\ ~IsVirtualMachineService(svc)

HasKind(pr, kind) == \E name \in DOMAIN pr.services : pr.services[name].kind = kind
HasVm(pr) == \E name \in DOMAIN pr.services : IsVirtualMachineService(pr.services[name])
HasBuild(pr) == \E name \in DOMAIN pr.services : NeedsBuild(pr.services[name])
HasContainerApp(pr) == \E name \in DOMAIN pr.services : IsContainerApp(pr.services[name])

Networked(pr) == HasKind(pr, "postgres") \/ HasKind(pr, "redis") \/ HasVm(pr)

--------------------------------------------------------------------------------
(* The virtual network and the private zones of the databases.              *)

VNet == P("network.VirtualNetwork", "project")
SubnetOf(use) == P("network.Subnet", use)
CreateNetworking ==
  <<Plainly(VNet, {})>>
  \o ForEach(<<"apps", "postgres", "endpoints", "compute">>, LAMBDA use :
       <<Plainly(SubnetOf(use), {VNet})>>)

PrivateZone(name) == P("privatedns.PrivateZone", name)
\* Mutant: a link is named for what it is, not for its zone.
VNetLinkByRole(name) == Urn("privatedns.PrivateZone", "privatedns.VirtualNetworkLink", <<"link">>)

VNetLink(name) == Urn("privatedns.PrivateZone", "privatedns.VirtualNetworkLink", <<name>>)

LinkedZone(name) == <<Plainly(PrivateZone(name), {}), Plainly(VNetLink(name), {PrivateZone(name), VNet})>>

CreateDnsZones(pr) ==
  When(HasKind(pr, "postgres"), LinkedZone("postgres"))
  \o When(HasKind(pr, "redis"), LinkedZone("redis"))

--------------------------------------------------------------------------------
(* The environment of the container apps and its logs.                      *)

Workspace == P("operationalinsights.Workspace", "project")
Environment == P("app.ManagedEnvironment", "project")
LogSetting == Urn("app.ManagedEnvironment", "monitor.DiagnosticSetting", <<"project", "aca-logs">>)
LogTable == Urn("operationalinsights.Workspace", "operationalinsights.Table", <<"project", "console-logs">>)

LogTableAfter == {Workspace, LogSetting}

CreateManagedEnvironment(pr) ==
  <<Plainly(Workspace, {}),
    Plainly(Environment, IF Networked(pr) THEN {SubnetOf("apps")} ELSE {}),
    Res(LogSetting, {Environment, Workspace}),
    Plainly(LogTable, LogTableAfter)>>

--------------------------------------------------------------------------------
(* Front Door, for the host names no container app can be bound to.         *)

Profile == P("cdn.Profile", "front-door")
Endpoint == P("cdn.AFDEndpoint", "front-door")

\* What needs a public origin to be forwarded to, which a managed service with
\* ingress ports is taken to have.
WildcardHostnames(svc) ==
  When(HasIngressPorts(svc) /\ ~IsVirtualMachineService(svc), Selected(ByodHostnames(svc), IsWildcardHost))
HasWildcardHostname(pr) == \E name \in DOMAIN pr.services : WildcardHostnames(pr.services[name]) # << >>

EnsureFrontDoor(pr) ==
  When(HasWildcardHostname(pr), <<Plainly(Profile, {}), Plainly(Endpoint, {Profile})>>)

--------------------------------------------------------------------------------
(* The account of the language models.                                      *)

LlmAccount == P("cognitiveservices.Account", "project")
LlmEndpoint == Urn("Project", "network.PrivateEndpoint", <<"project", "llm">>)
LlmZone(of) == Urn("Project", "privatedns.PrivateZone", <<"project", of>>)
LlmLink(of) == Urn("privatedns.PrivateZone", "privatedns.VirtualNetworkLink", <<"project", of>>)
LlmZoneGroup == Urn("network.PrivateEndpoint", "network.PrivateDnsZoneGroup", <<"project", "llm">>)

CreateLlmPrivateEndpoint ==
  <<Plainly(LlmEndpoint, {LlmAccount, SubnetOf("endpoints")})>>
  \o ForEach(<<"cs", "openai">>, LAMBDA of :
       <<Plainly(LlmZone(of), {}), Plainly(LlmLink(of), {LlmZone(of), VNet})>>)
  \o <<Plainly(LlmZoneGroup, {LlmEndpoint, LlmZone("cs"), LlmZone("openai")})>>

CreateLlmInfra(pr) ==
  LET suffix == Urn("Project", "random.String", <<"project", "subdomain">>) IN
  <<Res(suffix, {}), InGroup(LlmAccount, {suffix}, [public |-> ~Networked(pr)])>>
  \o When(Networked(pr), CreateLlmPrivateEndpoint)

--------------------------------------------------------------------------------
(* The registry of the images that are built, and who may pull from it.     *)

\* A role assignment names the identity it is for.
Assignment(urn, identity, after) == <<ResWith(urn, {identity} \cup after, [role |-> identity])>>

Registry == P("containerregistry.Registry", "project")
AcrIdentity == P("managedidentity.Identity", "acr")
AcrPull == P("authorization.RoleAssignment", "acr-pull")
CreateBuildInfra ==
  <<Plainly(Registry, {}), Plainly(AcrIdentity, {})>> \o Assignment(AcrPull, AcrIdentity, {Registry})

\* What a user of the registry's identity waits for.
PullerAfter(pr) == IF HasBuild(pr) THEN {Registry, AcrIdentity, AcrPull} ELSE {}

--------------------------------------------------------------------------------
(* The Key Vault of the config values, which the CLI made.                  *)

Vault == P("keyvault.Vault", "config-vault")
KvIdentity == P("managedidentity.Identity", "kv")
KvReader == P("authorization.RoleAssignment", "kv-secrets-user")
EnsureKeyVault ==
  <<Plainly(Vault, {}), Plainly(KvIdentity, {})>> \o Assignment(KvReader, KvIdentity, {Vault})

--------------------------------------------------------------------------------
(* The delegate domain's zone, which the CLI made too.                      *)

DomainZone == P("dns.Zone", "domain-zone")
EnsureDomainZone(cfg) == When(cfg.domain # << >>, <<Plainly(DomainZone, {})>>)

--------------------------------------------------------------------------------
(* setupSharedInfra.  Without a vault it goes on; any other failure ends it. *)

SetupSharedInfra(pr, cfg) ==
  <<Res(Group, {})>>
  \o EnsureDomainZone(cfg)
  \o When(Networked(pr), CreateNetworking \o CreateDnsZones(pr))
  \o When(HasContainerApp(pr), CreateManagedEnvironment(pr))
  \o EnsureFrontDoor(pr)
  \o When(HasKind(pr, "llm"), CreateLlmInfra(pr))
  \o When(HasBuild(pr), CreateBuildInfra)
  \o When(cfg.vault = "found", EnsureKeyVault)
SetupFails(cfg) == cfg.vault = "failed"

================================================================================
