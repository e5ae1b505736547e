------------------------------- MODULE Deployment -------------------------------
(***************************************************************************)
(* A deployment of one compose project (buildProject of the providers):    *)
(* the shared infrastructure is registered first, then the services, each  *)
(* after those it depends on, as TopologicalSort orders them; an error     *)
(* ends it.  "plan" is what the Pulumi engine has been asked for, which it *)
(* creates in any order that follows the references (see Engine).          *)
(***************************************************************************)
EXTENDS Compose, Plan

CONSTANT Cases   \* provider -> the projects and configurations it is given

\* A compose file is parsed into services with all the fields of Compose: lists are
\* lists, numbers are natural, and there are finitely many of everything.  What AWS
\* has no resources for is a container to it.
IsASequence(s) == s \in Seq(ToSet(s))
ServiceFields ==
  {"kind", "image", "build", "registry", "ports", "domain", "aliases", "networks", "env", "uses",
   "needs", "awaits", "policies", "llm", "scales", "once", "volumes", "arm", "alias", "replicas",
   "cpus", "memory", "shm", "health", "test", "healthPort", "sidecars"}
Parsed(svc) ==
  /\ ServiceFields \subseteq DOMAIN svc
  /\ IsASequence(svc.ports) /\ IsASequence(svc.aliases)
  /\ \A port \in ToSet(svc.ports) : {"target", "mode", "proto", "app"} \subseteq DOMAIN port
  /\ IsASequence(svc.policies) /\ IsASequence(svc.sidecars)
  /\ {svc.replicas, svc.cpus, svc.memory, svc.shm} \subseteq Nat
  /\ svc.health \in [{"start", "interval", "timeout", "retries"} -> Nat] /\ svc.test \in BOOLEAN
  /\ IsFiniteSet(DOMAIN svc.env)
  /\ \A sidecar \in ToSet(svc.sidecars) : IsFiniteSet(DOMAIN sidecar.env)
ParsedProject(pr) ==
  /\ "services" \in DOMAIN pr /\ IsFiniteSet(DOMAIN pr.services)
  /\ \A name \in DOMAIN pr.services :
       Parsed(pr.services[name]) /\ pr.services[name].uses \subseteq DOMAIN pr.services
CasesAssumption ==
  /\ DOMAIN Cases \subseteq {"aws", "gcp", "azure", "scaleway"}
  /\ \A prov \in DOMAIN Cases : \A given \in Cases[prov] :
       /\ ParsedProject(given.project)
       /\ prov = "aws" => \A name \in DOMAIN given.project.services :
            given.project.services[name].kind \in {"container", "postgres", "redis", "store"}
ASSUME CasesAssumption

VARIABLES provider, case, stage, plan, deployed   \* the services, in their order

vars == <<provider, case, stage, plan, deployed>>

Aws == INSTANCE AwsProject
Gcp == INSTANCE GcpProject
Azure == INSTANCE AzureProject
Scaleway == INSTANCE ScalewayProject

Project == case.project
Config == case.config
Services == Project.services

InfraFails ==
  CASE provider = "aws" -> Aws!InfraFails(Project, Config)
    [] provider = "gcp" -> Gcp!InfraFails(Project, Config)
    [] provider = "azure" -> Azure!InfraFails(Project, Config)
    [] provider = "scaleway" -> Scaleway!InfraFails(Project, Config)
InfraPlan ==
  CASE provider = "aws" -> Aws!InfraPlan(Project, Config)
    [] provider = "gcp" -> Gcp!InfraPlan(Project, Config)
    [] provider = "azure" -> Azure!InfraPlan(Project, Config)
    [] provider = "scaleway" -> Scaleway!InfraPlan(Project, Config)
ServiceFails(name) ==
  CASE provider = "aws" -> Aws!ServiceFails(name, Project, Config)
    [] provider = "gcp" -> Gcp!ServiceFails(name, Project, Config)
    [] provider = "azure" -> Azure!ServiceFails(name, Project, Config)
    [] provider = "scaleway" -> Scaleway!ServiceFails(name, Project, Config)
ServicePlan(name) ==
  CASE provider = "aws" -> Aws!ServicePlan(name, Project, Config)
    [] provider = "gcp" -> Gcp!ServicePlan(name, Project, Config)
    [] provider = "azure" -> Azure!ServicePlan(name, Project, Config, deployed)
    [] provider = "scaleway" -> Scaleway!ServicePlan(name, Project, Config, deployed)

\* What is left to do after the services: Google's load balancers, and the
\* certificates of Azure's container apps.
FinalFails == provider = "gcp" /\ Gcp!FinalFails(Project, Config, deployed)
FinalPlan ==
  CASE provider = "gcp" -> Gcp!FinalPlan(Project, Config, deployed)
    [] provider = "azure" -> Azure!ProvisionCerts(Project, Config, plan)
    [] OTHER -> << >>

Main(name) ==
  CASE provider = "aws" -> Aws!Main(name, Project, Config)
    [] provider = "gcp" -> Gcp!Main(name, Project, Config)
    [] provider = "azure" -> Azure!Main(name, Project)
    [] provider = "scaleway" -> Scaleway!Main(name, Project)
Needs(r) ==
  CASE provider = "aws" -> Aws!Needs(plan, r)
    [] provider = "gcp" -> Gcp!Needs(plan, r)
    [] provider = "azure" -> Azure!Needs(plan, r, Project)
    [] provider = "scaleway" -> Scaleway!Needs(plan, r, Project)

\* When the turn of a service comes, and whom it waits for.  Azure ignores
\* depends_on.
InTurn(name) ==
  IF provider = "azure" THEN Azure!InTurn(name, Project, deployed)
  ELSE Services[name].needs \subseteq ToSet(deployed)
WaitsFor(name) ==
  IF provider = "azure" THEN Azure!WaitsFor(name, Project) ELSE Services[name].needs

--------------------------------------------------------------------------------
Init ==
  /\ provider \in DOMAIN Cases
  /\ case \in Cases[provider]
  /\ stage = "infra"
  /\ plan = << >>
  /\ deployed = << >>

CreateInfra ==
  /\ stage = "infra" /\ ~InfraFails
  /\ stage' = "services"
  /\ plan' = InfraPlan
  /\ UNCHANGED <<provider, case, deployed>>

\* Mutant: a service that was deployed already gets another turn.
ReadyAgain == {name \in DOMAIN Services : Len(deployed) < Cardinality(DOMAIN Services) /\ InTurn(name)}

Ready == {name \in DOMAIN Services \ ToSet(deployed) : InTurn(name)}

Deploy(name) ==
  /\ stage = "services" /\ name \in Ready /\ ~ServiceFails(name)
  /\ plan' = plan \o ServicePlan(name)
  /\ deployed' = Append(deployed, name)
  /\ UNCHANGED <<provider, case, stage>>

AllDeployed == stage = "services" /\ ToSet(deployed) = DOMAIN Services

Finish ==
  /\ AllDeployed /\ ~FinalFails
  /\ stage' = "done"
  /\ plan' = plan \o FinalPlan
  /\ UNCHANGED <<provider, case, deployed>>

Fail ==
  /\ \/ stage = "infra" /\ InfraFails
     \/ stage = "services" /\ \E name \in Ready : ServiceFails(name)
     \/ AllDeployed /\ FinalFails
  /\ stage' = "failed"
  /\ UNCHANGED <<provider, case, plan, deployed>>

Next == CreateInfra \/ (\E name \in DOMAIN Services : Deploy(name)) \/ Finish \/ Fail

Spec == Init /\ [][Next]_vars

--------------------------------------------------------------------------------
(* Properties.  Those of a whole deployment are looked at when it is done.  *)

Done == stage = "done"
Certificates == OfType(plan, "acm.Certificate")

\* Every service is deployed at most once, and what is registered has a URN.
TypeOK ==
  /\ stage \in {"infra", "services", "done", "failed"}
  /\ deployed \in Seq(DOMAIN Services) /\ IsInjective(deployed)
  /\ \A i \in DOMAIN plan : Len(plan[i].urn) = 3

\* No two resources get the same URN, which the engine refuses: the code makes
\* names out of service, policy, port, listener, host and sidecar names.
NoClash == Cardinality(Registered(plan)) = Len(plan)

\* A resource refers only to resources registered before it: what is made under
\* one condition is not referred to under another.
NoDangling ==
  \A i \in DOMAIN plan : plan[i].after \subseteq {plan[j].urn : j \in 1..(i - 1)}

\* What has to be there before a resource works (a grant, a validated certificate,
\* a private name) is there when the engine starts on it, whatever else it makes
\* in the meantime.  On Azure, containers do start without what NotAwaited and
\* EarlierPolicies of AzureProject list: a grant but the last of their policies (see
\* GrantsAwaited), the own database of a PostgreSQL service, and a model.
StartsAfterNeeds ==
  LET above == Above(plan) IN
  Done => \A r \in ToSet(plan) : Needs(r) \subseteq above[r.urn]

\* "A caller using the identity (...) implicitly waits for every grant to be created
\* first" (CreatePolicyIdentity): on Azure a container is made after all the grants
\* of its policies.  It does not hold: it waits for the last of them alone.
GrantsAwaited ==
  LET above == Above(plan) IN
  provider = "azure" /\ Done =>
    \A r \in OfType(plan, "app.ContainerApp") :
      Azure!GrantsOf(plan, r.args.identities) \subseteq above[r.urn]

\* A service's resource is made after that of every service it waits for, through
\* whatever records, components and addresses the wait goes.
DependentsWait ==
  LET above == Above(plan) IN
  Done =>
    \A name \in DOMAIN Services : \A d \in WaitsFor(name) : Main(d) \in above[Main(name)]

\* What the cloud takes one at a time is never in flight twice: the rules of a
\* service, whose order decides which of two that match wins, the settings of a
\* database server and the deployments of a model account.
InLine(r) ==
  CASE TypeOf(r.urn) = "lb.ListenerRule" -> <<"rules", r.args.service>>
    [] TypeOf(r.urn) \in Azure!OneAtATime -> <<"changes", ParentOf(r.urn)>>
    [] OTHER -> << >>
Serialized ==
  LET above == Above(plan) IN
  Done =>
    \A i \in DOMAIN plan : InLine(plan[i]) # << >> =>
      \A j \in 1..(i - 1) :
        InLine(plan[j]) = InLine(plan[i]) => plan[j].urn \in above[plan[i].urn]

\* A record set of a zone has one resource that writes it, although a host can be a
\* service's own name, the project's, an alias and the base of a wildcard.
Writes(r) ==
  CASE TypeOf(r.urn) = "dns.RecordSet" /\ "record" \in DOMAIN r.args -> r.args.record
    [] TypeOf(r.urn) = "route53.Record" -> <<r.args.host, r.urn[3][2]>>
    [] TypeOf(r.urn) = "dns.RecordSet" /\ "host" \in DOMAIN r.args -> <<r.args.host, "A">>
    [] OTHER -> << >>
OneWriterPerRecord ==
  \A i, j \in DOMAIN plan :
    i # j /\ Writes(plan[i]) # << >> => Writes(plan[i]) # Writes(plan[j])

\* A plan the engine can carry out, now and again: nothing is made twice, nothing
\* refers to what is not made.
PlanIsSound == NoClash /\ NoDangling /\ OneWriterPerRecord

\* On Azure, a host name has both of a container app's records when the program
\* asks for its certificate, which else waits for them in vain, and no host gets
\* the records without a certificate.  Two kinds of jobs are left out, which wait for
\* nothing: those of managed services with ingress ports, and those in the delegate
\* domain of services whose names are no labels.
Relabelled ==
  UNION {{<<name>> \o Config.domain, <<ServiceLabel(name)>> \o Config.domain} :
           name \in {n \in DOMAIN Services : ServiceLabel(n) # n}}
CertJobsHaveRecords ==
  LET above == Above(plan)
      Has(host, type, urns) == \E i \in DOMAIN plan : Writes(plan[i]) = <<host, type>> /\ plan[i].urn \in urns
  IN  provider = "azure" /\ Done =>
        /\ \A job \in OfType(plan, "aca.IssueCert") :
             ~Azure!IsManaged(Services[job.args.service]) /\ job.args.host \notin Relabelled =>
               /\ Azure!App(job.args.service) \in above[job.urn]
               /\ Has(Azure!Asuid(job.args.host), "TXT", above[job.urn])
               /\ \E type \in {"CNAME", "A"} : Has(job.args.host, type, above[job.urn])
        /\ \A i \in DOMAIN plan : Writes(plan[i]) # << >> =>
             LET host == Tail(Writes(plan[i])[1]) IN
             Writes(plan[i]) = <<Azure!Asuid(host), "TXT">> /\ host \notin Relabelled =>
               Azure!Certificate(host) \in Registered(plan)

\* On AWS, the containers of a task have names of their own and wait only for
\* containers of the task, not in a circle: anything else is refused or hangs.  That an
\* awaited container can get into the awaited state, as one without a health check
\* cannot be healthy, is up to the compose file, and not looked at.
TaskCanStart ==
  \A task \in OfType(plan, "ecs.TaskDefinition") :
    LET containers == task.args.containers
        names == {c.name : c \in ToSet(containers)}
        Awaited(set) == UNION {{await[1] : await \in c.awaits} : c \in {k \in ToSet(containers) : k.name \in set}}
    IN  /\ Cardinality(names) = Len(containers)
        /\ Awaited(names) \subseteq names
        /\ \A set \in (SUBSET names) \ {{}} : ~(set \subseteq Awaited(set))

\* On AWS, a service is deployed anew when a parameter that any of its containers
\* reads gets another value.
RedeployedOnChange ==
  \A task \in OfType(plan, "ecs.TaskDefinition") : \A r \in OfType(plan, "ecs.Service") :
    task.urn \in r.after => task.args.secrets \subseteq r.args.triggers

\* The tasks of a service can start, and are started anew when they have to be.
TasksRun == TaskCanStart /\ RedeployedOnChange

\* On AWS, a probe of the load balancer times out before the next one is due, which
\* the cloud insists on.
ProbeTimesOut ==
  \A r \in OfType(plan, "lb.TargetGroup") :
    r.args.check[1] \in 5..300 /\ r.args.check[2] \in 2..120 /\ r.args.check[2] < r.args.check[1]

\* On Azure, a container whose health check has a test is given the start period it
\* asks for and then as many failures as it asks for, unless the probe is at the limit
\* of what it can tolerate.  A health check without a test gives a probe of the port
\* that is allowed what Azure allows by default, whatever start period it asks for.
StartupBudgetKept ==
  \A r \in OfType(plan, "app.ContainerApp") : \A probe \in r.args.probes :
    LET asked == r.args.asked
        failures == IF asked.retries > 0 THEN asked.retries ELSE 3
    IN  probe.type = "http" /\ probe.threshold < 10 =>
          probe.delay + probe.threshold * probe.period >= asked.start + failures * probe.period

\* What is probed is probed in time, and what has a test is not given up on before it
\* could start.
ProbesInTime == ProbeTimesOut /\ StartupBudgetKept

\* What is deployed comes up: its tasks can start, and its probes let it.
ServicesStart == TasksRun /\ ProbesInTime

\* On AWS, with a load balancer nobody from outside reaches a service's ingress port
\* except through it, and nobody ever reaches a database but the services.
BehindTheBalancer ==
  provider = "aws" =>
    \A sg \in OfType(plan, "ec2.SecurityGroup") : \A rule \in sg.args.ingress :
      rule.from = Aws!Anyone /\ sg.urn # Aws!AlbSg =>
        /\ ParentOf(sg.urn) = "Service"
        /\ Aws!Alb \in Registered(plan) =>
             \E port \in PortsOf(Aws!Normalized(Project).services[sg.urn[3]]) :
               port.target = rule.port /\ ~IsIngress(port)

\* On AWS, a host that a service is reached at over HTTPS is on a certificate the
\* listener has, the wildcards among them too, unless its zone is not the user's:
\* aliases without a domainname get none.
Certifies(hosts, host) == host \in hosts \/ << <<"*">> >> \o Tail(host) \in hosts
OnListener(cert) ==
  ParentOf(cert.urn) = "Project"
    \/ \E c \in OfType(plan, "lb.ListenerCertificate") : c.args.hosts = cert.args.hosts
ListenersCertified ==
  provider = "aws" /\ Done =>
    \A rule \in OfType(plan, "lb.ListenerRule") : rule.args.listener = {Aws!Https} =>
      \A host \in rule.args.hosts \ {Aws!AlbHost} :
        \/ \E cert \in Certificates : OnListener(cert) /\ Certifies(cert.args.hosts, host)
        \/ Aws!GetHostedZoneForHost(Config, BaseOf(host)) # "found"

\* A host that is served gets its certificate, on AWS and on Azure.
HostsCertified == ListenersCertified /\ CertJobsHaveRecords

\* On Google Cloud, the instances behind a passthrough load balancer take no
\* backend that balances by utilization, which the cloud refuses for them.
BalancingConsistent ==
  provider = "gcp" /\ Done =>
    \A r \in OfType(plan, "compute.BackendService") :
      Gcp!B("compute.Address", r.args.service) \in Registered(plan)
        => r.args.balancing # "UTILIZATION"

\* On Google Cloud, every port of a private instance group is forwarded, whatever
\* number of them each protocol has: a rule takes five.
Forwarded(name, proto) ==
  UNION {r.args.ports : r \in {f \in OfType(plan, "compute.ForwardingRule") :
     "service" \in DOMAIN f.args /\ f.args.service = name /\ f.args.proto = proto}}
AllPortsForwarded ==
  provider = "gcp" /\ Done =>
    \A name \in DOMAIN Services :
      Gcp!B("compute.Address", name) \in Registered(plan) =>
        \A proto \in {"tcp", "udp"} :
          Forwarded(name, proto) =
            {port.target : port \in {p \in PortsOf(Services[name]) : GetProtocol(p) = proto}}

\* An instance group is served on all its ports, by balancers that accept it.
InstancesBalanced == BalancingConsistent /\ AllPortsForwarded

\* Traffic gets to a service, under every name and on every port it has, and only
\* the way it should.
TrafficArrives == BehindTheBalancer /\ HostsCertified /\ InstancesBalanced

\* A service gets the CPUs and the memory it reserves if there is a machine that
\* has them: what is left of a tier, a catalogue or a step never costs it any.
Suffices(size, asked) == \A k \in 1..2 : size[k] >= asked[k]
SizeFits ==
  \A r \in ToSet(plan) : "fit" \in DOMAIN r.args =>
    LET fit == r.args.fit IN
    (\E size \in fit.offered : Suffices(size, fit.asked)) => Suffices(fit.size, fit.asked)

================================================================================
