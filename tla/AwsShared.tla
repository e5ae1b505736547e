-------------------------------- MODULE AwsShared -------------------------------
(***************************************************************************)
(* What the services of one project share on AWS: the network, the roles,  *)
(* the build infrastructure, the load balancer and its certificate         *)
(* (aws/infra.go and the functions it calls).  A configuration is          *)
(*   vpc           "new" or "adopted", with publicSubnets, privateSubnets  *)
(*   publicZone, projectDomain, albCert, dnsRole     of the AWSConfig      *)
(*   apex, nat, alarms, redisEngine, tier            of the recipe         *)
(*   zones         what a zone lookup answers                              *)
(***************************************************************************)
EXTENDS AwsDns, Sizes

P(type, name) == Urn("Project", type, <<name>>)

--------------------------------------------------------------------------------
(* Network (aws/networking.go).                                             *)

Vpc == P("awsx.Vpc", "shared-vpc")
PrivateZone == P("route53.Zone", "internal")
PrivateDomain == << <<"project">>, <<"internal">> >>

NetworkingFails(cfg) == cfg.vpc = "adopted" /\ ~cfg.publicSubnets
\* Mutant: an adopted network is waited for too.
InVpcAlways(cfg) == {Vpc}

InVpc(cfg) == IF cfg.vpc = "new" THEN {Vpc} ELSE {}
UseNatGW(cfg) == IF cfg.vpc = "new" THEN cfg.nat ELSE cfg.privateSubnets

CreatePrivateZone(cfg) ==
  <<Res(PrivateZone, InVpc(cfg))>>
  \o CreateRecord("Project", PrivateDomain, "SOA", {PrivateZone}, "zone")

ResolveNetworking(cfg) ==
  When(cfg.vpc = "new", <<Res(Vpc, {})>>)
  \o CreatePrivateZone(cfg)
  \o When(cfg.vpc = "new",
       <<Res(P("ec2.VpcDhcpOptions", "dhcp-options"), {}),
         Res(P("ec2.VpcDhcpOptionsAssociation", "dhcp-options-association"),
             {P("ec2.VpcDhcpOptions", "dhcp-options"), Vpc})>>)

\* A security group: which ports it opens, to which groups or to everyone.
Anyone == Urn("Internet", "any", << >>)
SecurityGroup(urn, cfg, ingress) ==
  <<ResWith(urn, InVpc(cfg) \cup ({rule.from : rule \in ingress} \ {Anyone}),
            [ingress |-> ingress])>>

SvcSg == P("ec2.SecurityGroup", "svc-sg")
Cluster == P("ecs.Cluster", "cluster")
LogGroup == P("cloudwatch.LogGroup", "logs")

--------------------------------------------------------------------------------
(* Lifecycle events to a log group (aws/events.go).                         *)

EventLogs == P("cloudwatch.LogGroup", "ecs-events")
EventPolicy == P("cloudwatch.LogResourcePolicy", "ecs-events")
EventRule == P("cloudwatch.EventRule", "ecs-lifecycle")
EventTarget == P("cloudwatch.EventTarget", "ecs-lifecycle-cw")

CreateECSLifecycleToCWLogs ==
  <<Res(EventLogs, {}), Res(EventPolicy, {EventLogs}), Res(EventRule, {Cluster}),
    Res(EventTarget, {EventLogs, EventRule, EventPolicy})>>

--------------------------------------------------------------------------------
(* Roles (aws/iam.go) and image builds (aws/image.go, ecr.go, codebuild.go).*)

\* Whatever gives a role its permissions names the role it is about.
Grant(urn, role, after) == <<ResWith(urn, {role} \cup after, [role |-> role])>>

ExecRole == P("iam.Role", "exec-role")
CreateExecutionRole ==
  <<Res(ExecRole, {})>>
  \o Grant(P("iam.RolePolicyAttachment", "exec-policy"), ExecRole, {})
  \o Grant(P("iam.RolePolicy", "exec-get-secrets"), ExecRole, {})

CacheRule == P("ecr.PullThroughCacheRule", "ecr-public")
CreateEcrPullThroughCache == <<Res(CacheRule, {})>>
AttachPullThroughCachePolicy ==
  Grant(P("iam.RolePolicy", "ecr-pull-through"), ExecRole, {CacheRule})

BuildRepo == P("ecr.Repository", "build")
BuildRole == P("iam.Role", "codebuild-role")
CreateCodeBuildRole ==
  <<Res(BuildRole, {})>>
  \o Grant(P("iam.RolePolicy", "codebuild-role-policy"), BuildRole, {LogGroup, BuildRepo})
CreateBuildInfra == <<Res(BuildRepo, {})>> \o CreateCodeBuildRole

BedrockPolicy == P("iam.Policy", "BedrockPolicy")
Route53SidecarPolicy == P("iam.Policy", "AllowRoute53Sidecar")

--------------------------------------------------------------------------------
(* The load balancer (aws/alb.go, aws/lb.go, aws/s3.go).                    *)

Alb == P("lb.LoadBalancer", "alb")
AlbSg == P("ec2.SecurityGroup", "alb-sg")
Https == P("lb.Listener", "alb-https")
Http == P("lb.Listener", "alb-http")

BucketUrn(parent, name) == Urn(parent, "s3.Bucket", name)
CreateBucket(parent, name, deps) ==
  <<Res(BucketUrn(parent, name), deps),
    Res(Urn(parent, "s3.BucketEncryption", name), {BucketUrn(parent, name)} \cup deps)>>
CreatePrivateBucket(parent, name, deps) ==
  CreateBucket(parent, name, deps)
  \o <<Res(Urn(parent, "s3.BucketPublicAccessBlock", name), {BucketUrn(parent, name)} \cup deps)>>

CreateLbLogsBucket ==
  LET name == <<"alb-logs">> bucket == BucketUrn("Project", name)
  IN  CreatePrivateBucket("Project", name, {})
      \o <<Res(Urn("Project", "s3.BucketLifecycle", name), {bucket}),
           Res(Urn("Project", "s3.BucketPolicy", name), {bucket})>>

\* With a certificate everything that no rule takes is sent to HTTPS.
HttpDefault(secure) == IF secure THEN "redirect" ELSE "404"

CreateALB(cfg, secure, cert) ==
  SecurityGroup(AlbSg, cfg, {[port |-> 80, from |-> Anyone], [port |-> 443, from |-> Anyone]})
  \o CreateLbLogsBucket
  \o <<Res(Alb, {BucketUrn("Project", <<"alb-logs">>), AlbSg} \cup InVpc(cfg))>>
  \o When(secure, <<ResWith(Https, {Alb} \cup cert, [default |-> "404"])>>)
  \o <<ResWith(Http, {Alb}, [default |-> HttpDefault(secure)])>>

--------------------------------------------------------------------------------
(* CreateProjectInfra.                                                      *)

\* The project has a zone and a domain of its own.
OwnDomain(cfg) == cfg.publicZone /\ cfg.projectDomain # << >>
ProjectHosts(cfg) ==
  IF ~OwnDomain(cfg) THEN << >>
  ELSE << << <<"*">> >> \o cfg.projectDomain >>
       \o (IF cfg.apex THEN <<cfg.projectDomain>> ELSE << >>)

CreateIngress(cfg) ==
  CASE OwnDomain(cfg) ->
         CreateCertificateDNS("Project", ProjectHosts(cfg), cfg)
         \o CreateALB(cfg, TRUE, {ValidationUrn("Project", ProjectHosts(cfg))})
         \o ForEach(ProjectHosts(cfg), LAMBDA host :
              CreateRecord("Project", host, "A", ThroughDns(cfg) \cup {Alb}, "alb"))
    [] OTHER -> CreateALB(cfg, cfg.albCert, {})

CreateProjectInfra(pr, cfg) ==
  LET services == pr.services IN
  ResolveNetworking(cfg)
  \o SecurityGroup(SvcSg, cfg, {})
  \o <<Res(Cluster, {}), Res(LogGroup, {})>>
  \o CreateECSLifecycleToCWLogs
  \o CreateExecutionRole
  \o When(\E name \in DOMAIN services : NeedsBuild(services[name]), CreateBuildInfra)
  \o CreateEcrPullThroughCache
  \o AttachPullThroughCachePolicy
  \o When(cfg.dnsRole, <<Res(DnsProvider, {})>>)
  \o When(NeedIngress(services), CreateIngress(cfg))
  \o When(IsProjectUsingLLM(services), <<Res(BedrockPolicy, {})>>)
  \o <<Res(Route53SidecarPolicy, {PrivateZone})>>

\* The SharedInfra the services get, as far as they look at it.
SharedInfra(pr, cfg, apexService) ==
  LET ingress == NeedIngress(pr.services) IN
  [alb |-> IF ingress THEN {Alb} ELSE {},
   http |-> IF ingress THEN {Http} ELSE {},
   https |-> IF ingress /\ (OwnDomain(cfg) \/ cfg.albCert) THEN {Https} ELSE {},
   projectDomain |-> IF ingress /\ OwnDomain(cfg) THEN cfg.projectDomain ELSE << >>,
   apexService |-> apexService,
   skipNat |-> ~UseNatGW(cfg)]

================================================================================
