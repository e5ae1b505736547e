-------------------------------- MODULE GcpShared -------------------------------
(***************************************************************************)
(* What the services of one project share on Google Cloud: the network and *)
(* its zones, the certificate of the delegate domain, the build            *)
(* infrastructure, the mirrors of foreign registries, the peering with     *)
(* the managed databases and the NAT (gcp/gcp.go, gcp/algo.go, gcp/nat.go, *)
(* gcp/vpc_peering.go, gcp/artifact_registry.go).  A configuration is      *)
(*   domain        the delegate domain, << >> without one                  *)
(*   sourceBucket  the bucket with the build contexts is known             *)
(*   proxySubnet   a proxy subnet to use instead of a new one              *)
(***************************************************************************)
EXTENDS Compose, Plan, Sizes

P(type, name) == Urn("Project", type, <<name>>)

\* Who a firewall rule lets in: everyone, or Google's health checks.
Anyone == Urn("Internet", "any", << >>)
HealthChecks == Urn("Internet", "healthchecks", << >>)

--------------------------------------------------------------------------------
(* Which backend takes a service (algo.go).                                 *)

IsCloudRunService(svc) == Len(svc.ports) = 1 /\ IsIngress(svc.ports[1])
NeedNatGateway(pr, svc) ==
  /\ ~AcceptPublicTraffic(pr, svc) /\ AllowEgress(pr, svc)
  /\ ~IsManagedService(svc) /\ ~IsCloudRunService(svc) /\ ~svc.once

--------------------------------------------------------------------------------
(* Network.                                                                 *)

Vpc == P("compute.Network", "vpc")
Subnet == P("compute.Subnetwork", "subnet")
PublicIp == P("compute.GlobalAddress", "ip")
PrivateZone == P("dns.ManagedZone", "private-dns")
PublicZone == P("dns.ManagedZone", "public-dns")

\* A firewall rule: the instances with the tag accept the ports from a source.
Firewall(urn, tag, ports, from) ==
  <<ResWith(urn, {Vpc}, [tag |-> tag, ports |-> ports, from |-> from])>>

Network ==
  <<Res(Vpc, {}), Res(Subnet, {Vpc}), Res(PublicIp, {})>>
  \o Firewall(P("compute.Firewall", "allow-ssh"), << >>, {22}, Anyone)
  \o Firewall(P("compute.Firewall", "allow-icmp"), << >>, {}, Anyone)
  \o <<Res(PrivateZone, {Vpc})>>

\* A record set is named by its host and its type, or by a service alone.
RecordUrn(host, type) == Urn("Project", "dns.RecordSet", <<host, type>>)
ServiceRecord(name) == RecordUrn(<<name>>, "")

WildcardCert == P("certificatemanager.Certificate", "wildcard-cert")
CreateWildcardCert(domain) ==
  LET authz == P("certificatemanager.DnsAuthorization", "cert-authz") IN
  <<Res(PublicZone, {}), Res(RecordUrn(<< <<"caa">> >>, ""), {PublicZone}), Res(authz, {}),
    Res(RecordUrn(<< <<"_acme">> >> \o domain, "CNAME"), {PublicZone, authz}),
    Res(WildcardCert, {authz})>>

ServiceConnection == P("servicenetworking.Connection", "svc-conn")
NeedsVpcPeering(pr) == \E name \in DOMAIN pr.services : IsManagedService(pr.services[name])
CreateVpcPeeringInfra ==
  <<Res(P("compute.GlobalAddress", "peering-ip"), {Vpc}),
    Res(ServiceConnection, {Vpc, P("compute.GlobalAddress", "peering-ip")})>>

NeedNat(pr) == \E name \in DOMAIN pr.services : NeedNatGateway(pr, pr.services[name])
CreateNat ==
  <<Res(P("compute.Router", "nat-router"), {Vpc}),
    Res(P("compute.RouterNat", "nat"), {P("compute.Router", "nat-router")})>>

--------------------------------------------------------------------------------
(* Images.                                                                  *)

\* Whatever gives an account its permissions names the account.
Grant(urn, account, after) == <<ResWith(urn, {account} \cup after, [role |-> account])>>

Builder == P("serviceaccount.Account", "builder")
BuildRepo == P("artifactregistry.Repository", "repo")
SourceViewer == P("storage.BucketIAMMember", "source-viewer")
CreateBuildInfra(cfg) ==
  <<Res(Builder, {}), Res(BuildRepo, {})>>
  \o Grant(P("artifactregistry.RepositoryIamBinding", "registry-admin"), Builder, {BuildRepo})
  \o When(cfg.sourceBucket, Grant(SourceViewer, Builder, {}))
  \o Grant(P("projects.IAMMember", "logWriter"), Builder, {})
  \o Grant(P("projects.IAMMember", "bucketWriter"), Builder, {})

\* The registries that Cloud Run cannot pull from, of images that are not built.
ExternalRegistries(pr) ==
  {pr.services[name].registry : name \in {n \in DOMAIN pr.services :
     pr.services[n].image /\ ~pr.services[n].build}} \ {""}
RemoteRepo(registry) == P("artifactregistry.Repository", registry)
CreateRemoteRepos(pr) ==
  ForEach(InOrder(ExternalRegistries(pr)), LAMBDA registry : <<Res(RemoteRepo(registry), {})>>)

BuildOptionalInfra(pr, cfg) ==
  When(\E name \in DOMAIN pr.services : pr.services[name].build, CreateBuildInfra(cfg))
  \o CreateRemoteRepos(pr)
  \o When(NeedsVpcPeering(pr), CreateVpcPeeringInfra)

--------------------------------------------------------------------------------
(* BuildGlobalConfig and the APIs.                                          *)

BuildGlobalConfig(pr, cfg) ==
  Network
  \o When(cfg.domain # << >>, CreateWildcardCert(cfg.domain))
  \o BuildOptionalInfra(pr, cfg)

\* An API is a resource of its own.
Api(name) == P("projects.Service", name)
Apis == <<"storage", "artifactregistry", "run", "iam", "cloudresourcemanager", "cloudbuild",
          "compute", "dns", "secretmanager", "sqladmin", "servicenetworking", "redis",
          "certificatemanager", "firestore">>
EnableGcpApis == ForEach(Apis, LAMBDA api : <<Res(Api(api), {})>>)

EnableLlmApi(pr) == When(IsProjectUsingLLM(pr.services), <<Res(Api("defang-llm"), {})>>)

================================================================================
