------------------------------ MODULE MCDeployment ------------------------------
(***************************************************************************)
(* Small projects that between them use every branch of the renderers.     *)
(***************************************************************************)
EXTENDS Deployment

N(word) == <<word>>
Host(words) == [i \in DOMAIN words |-> N(words[i])]

NoEnv == [key \in {} |-> "literal"]
Port(target, mode, proto, app, listener) ==
  [target |-> target, mode |-> mode, proto |-> proto, app |-> app, listener |-> listener]
Web(target) == Port(target, "ingress", "", "", "")

Plain ==
  [kind |-> "container", image |-> TRUE, build |-> FALSE, ports |-> << >>, domain |-> << >>,
   aliases |-> << >>, networks |-> {}, env |-> NoEnv, policies |-> << >>, llm |-> FALSE,
   scales |-> FALSE, needs |-> {}, replicas |-> 0, sidecars |-> << >>, once |-> FALSE,
   registry |-> "", volumes |-> FALSE, healthPort |-> 0, awaits |-> {}, uses |-> {}, alias |-> << >>,
   arm |-> FALSE, test |-> FALSE, health |-> [start |-> 0, interval |-> 0, timeout |-> 0, retries |-> 0],
   cpus |-> 0, memory |-> 0, shm |-> 0]
Managed(kind) == [Plain EXCEPT !.kind = kind, !.image = FALSE]
Of(services) == [services |-> services, networks |-> {}, internal |-> {}]

Policy(arn, name) == [arn |-> arn, name |-> name, foreign |-> FALSE]

--------------------------------------------------------------------------------
(* AWS.                                                                     *)

\* Three tiers with every kind of store, domains, and ports that share a number.
Shop == Of(
  N("web") :> [Plain EXCEPT
      !.image = FALSE, !.build = TRUE, !.needs = {N("db"), N("cache"), N("assets"), N("api")},
      !.ports = <<Port(80, "ingress", "", "grpc", ""), Web(80), Port(80, "ingress", "", "", "http"),
                  Port(90, "host", "", "", "")>>,
      !.domain = Host(<<"shop", "com">>), !.aliases = <<Host(<<"www", "shop", "com">>), Host(<<"*", "shop", "com">>)>>,
      !.env = ("A" :> "literal" @@ "B" :> "config" @@ "C" :> "mixed")]
  @@ N("api") :> [Plain EXCEPT !.ports = <<Web(80)>>, !.needs = {N("db")}, !.scales = TRUE,
      !.domain = Host(<<"api", "shop", "com">>)]
  @@ N("db") :> [Managed("postgres") EXCEPT !.ports = <<Port(5432, "host", "", "", "")>>]
  @@ N("cache") :> [Managed("redis") EXCEPT !.replicas = 2]
  @@ N("assets") :> Managed("store"))

Log == [name |-> N("log"), image |-> TRUE, env |-> "C" :> "mixed", once |-> FALSE, awaits |-> {}]

\* Sidecars, policies, models and ports of every mode.
Agent == Of(
  N("agent") :> [Plain EXCEPT
      !.llm = TRUE, !.policies = <<Policy(TRUE, "P"), Policy(FALSE, "Q"), Policy(TRUE, "P")>>,
      !.sidecars = <<Log, [Log EXCEPT !.name = N("migrate"), !.once = TRUE, !.awaits = {<<N("log"), "service_healthy">>}]>>,
      !.awaits = {<<N("log"), "service_started">>, <<N("migrate"), "service_completed_successfully">>},
      !.ports = <<Port(53, "ingress", "udp", "", "")>>]
  @@ N("a_b") :> [Plain EXCEPT !.ports = <<Web(8080)>>, !.needs = {N("agent")},
      !.sidecars = <<Log>>, !.awaits = {<<N("agent"), "service_started">>},
      !.health = [start |-> 0, interval |-> 5, timeout |-> 0, retries |-> 0]]
  @@ N("job") :> [Plain EXCEPT !.needs = {N("a_b")}, !.ports = <<Port(7, "host", "", "", "")>>,
      !.networks = {"back"}])

Closed == [services |-> N("in") :> [Plain EXCEPT !.ports = <<Port(80, "host", "", "", "")>>,
                                      !.networks = {"default"}],
           networks |-> {"default"}, internal |-> {"default"}]

Refused == Of(N("a") :> [Plain EXCEPT !.policies = <<[Policy(FALSE, "R") EXCEPT !.foreign = TRUE]>>])

Base ==
  [vpc |-> "new", publicSubnets |-> TRUE, privateSubnets |-> TRUE, publicZone |-> FALSE,
   projectDomain |-> << >>, albCert |-> FALSE, dnsRole |-> FALSE, apex |-> TRUE, nat |-> TRUE,
   alarms |-> TRUE, redisEngine |-> "elasticache", tier |-> "burstable", zones |-> (Host(<<"shop", "com">>) :> "found")]

Networks(cfg) ==
  {[cfg EXCEPT !.vpc = v, !.nat = n, !.privateSubnets = n] : v \in {"new", "adopted"}, n \in BOOLEAN}
Domains(cfg) ==
  {cfg, [cfg EXCEPT !.albCert = TRUE],
   [cfg EXCEPT !.publicZone = TRUE, !.projectDomain = Host(<<"me", "app">>)]}
AwsConfigs ==
  UNION {Domains(cfg) : cfg \in Networks(Base)}
  \cup UNION {Domains(cfg) : cfg \in
      {[Base EXCEPT !.dnsRole = d, !.apex = ~d, !.alarms = d,
                    !.redisEngine = IF d THEN "memorydb" ELSE "elasticache",
                    !.zones = (Host(<<"shop", "com">>) :> z)] :
         d \in BOOLEAN, z \in {"found", "none", "failed"}}}
  \cup {[Base EXCEPT !.vpc = "adopted", !.publicSubnets = FALSE]}

AwsCases ==
  [project : {Shop, Agent, Closed}, config : AwsConfigs] \cup [project : {Refused}, config : {Base}]

--------------------------------------------------------------------------------
(* Google Cloud.                                                            *)

Store == Of(
  N("web") :> [Plain EXCEPT
      !.image = FALSE, !.build = TRUE, !.needs = {N("db"), N("cache"), N("api")}, !.ports = <<Web(80)>>,
      !.domain = Host(<<"shop", "com">>), !.policies = <<Policy(FALSE, "P"), Policy(FALSE, "P"), Policy(FALSE, "Q")>>,
      !.env = ("A" :> "literal" @@ "B" :> "config" @@ "C" :> "mixed" @@ "D" :> "shared" @@ "E" :> "shared")]
  @@ N("api") :> [Plain EXCEPT !.needs = {N("db")}, !.registry = "ghcr.io", !.llm = TRUE,
      !.ports = <<Web(80), Web(90), Port(53, "ingress", "udp", "", ""), Port(80, "host", "udp", "", "")>>,
      !.env = ("C" :> "mixed" @@ "D" :> "shared" @@ "E" :> "shared"), !.policies = <<Policy(FALSE, "P")>>]
  @@ N("db") :> [Managed("postgres") EXCEPT !.env = ("POSTGRES_DB" :> "literal" @@ "POSTGRES_PASSWORD" :> "literal"),
      !.networks = {"private"}]
  @@ N("cache") :> Managed("redis"))

Queue == Of(
  N("queue") :> [Plain EXCEPT !.ports = [i \in 1..6 |-> Port(i, "host", "", "", "")], !.volumes = TRUE]
  @@ N("a_b") :> [Plain EXCEPT !.needs = {N("queue")}, !.ports = <<Web(80)>>, !.registry = "ghcr.io"]
  @@ N("worker") :> [Plain EXCEPT !.needs = {N("queue")}, !.networks = {"back"},
      !.ports = <<Port(53, "host", "", "", ""), Port(53, "host", "udp", "", "")>>])

Refusals ==
  {Refused, Of(N("a") :> [Plain EXCEPT !.ports = <<Port(53, "host", "udp", "", "")>>]),
   Of(N("a") :> [Plain EXCEPT !.ports = <<Web(80)>>, !.volumes = TRUE])}

GcpConfigs ==
  [domain : {<< >>, Host(<<"me", "app">>)}, sourceBucket : BOOLEAN, proxySubnet : {FALSE}]
GcpCases == [project : {Store, Queue} \cup Refusals, config : GcpConfigs]

--------------------------------------------------------------------------------
(* Azure.                                                                   *)

Model(alias) == [Managed("llm") EXCEPT !.alias = N(alias)]

\* Apps that name databases and models, with a build, policies, slow starts and the
\* user's own names; a database whose port is public.
Site == Of(
  N("web") :> [Plain EXCEPT
      !.image = FALSE, !.build = TRUE, !.uses = {N("db"), N("cache"), N("chat"), N("api")},
      !.ports = <<Web(80), Web(81)>>, !.policies = <<Policy(FALSE, "P"), Policy(FALSE, "Q")>>,
      !.domain = Host(<<"shop", "com">>), !.aliases = <<Host(<<"www", "shop", "com">>), Host(<<"*", "shop", "com">>)>>,
      !.env = ("A" :> "literal" @@ "B" :> "config" @@ "C" :> "mixed"), !.test = TRUE,
      !.health = [start |-> 95, interval |-> 20, timeout |-> 0, retries |-> 3]]
  @@ N("api") :> [Plain EXCEPT !.uses = {N("db")}, !.networks = {"back"},
      !.ports = <<Web(80), Port(90, "host", "", "", "")>>, !.env = "C" :> "mixed", !.test = TRUE,
      !.health = [start |-> 300, interval |-> 0, timeout |-> 0, retries |-> 0]]
  @@ N("db") :> [Managed("postgres") EXCEPT !.env = "POSTGRES_DB" :> "literal", !.ports = <<Web(5432)>>]
  @@ N("cache") :> Managed("redis")
  @@ N("chat") :> Model("small")
  @@ N("think") :> Model("large"))

\* A service with a UDP port, and no managed service; a name that is no label, a health
\* check without a test, and a service without a port.
Game == Of(
  N("game") :> [Plain EXCEPT !.image = FALSE, !.build = TRUE, !.policies = <<Policy(FALSE, "P")>>,
      !.ports = <<Port(53, "ingress", "udp", "", ""), Web(80)>>, !.env = "B" :> "config"]
  @@ N("lobby") :> [Plain EXCEPT !.ports = <<Web(80)>>, !.domain = Host(<<"*", "me", "app">>)]
  @@ N("a_b") :> [Plain EXCEPT !.ports = <<Web(80)>>,
      !.health = [start |-> 120, interval |-> 20, timeout |-> 0, retries |-> 0]]
  @@ N("tick") :> Plain)

\* A model that asks for a wildcard.
Alone == Of(N("chat") :> [Model("small") EXCEPT !.ports = <<Web(80)>>, !.domain = Host(<<"*", "me", "app">>)])

AzureRefusals ==
  {Refused, Of(N("a") :> [Plain EXCEPT !.image = FALSE]),
   Of(N("a") :> [Plain EXCEPT !.ports = <<Port(53, "ingress", "udp", "", "")>>, !.networks = {"back"}]),
   Of(N("a") :> [Plain EXCEPT !.ports = <<Port(53, "host", "udp", "", "")>>]),
   Of(N("a") :> [Plain EXCEPT !.ports = <<Port(53, "ingress", "udp", "", "")>>, !.arm = TRUE])}

AzureConfigs ==
  [domain : {<< >>, Host(<<"me", "app">>)}, vault : {"found", "none", "failed"}, tier : {"burstable"},
   zones : {{}, {Host(<<"shop", "com">>)}, {Host(<<"shop", "com">>), Host(<<"www", "shop", "com">>)}}]
AzureCases == [project : {Site, Game, Alone} \cup AzureRefusals, config : AzureConfigs]

--------------------------------------------------------------------------------
(* Scaleway.                                                                *)

Stall == Of(
  N("web") :> [Plain EXCEPT
      !.image = FALSE, !.build = TRUE, !.needs = {N("db"), N("cache"), N("api")},
      !.uses = {N("db"), N("cache"), N("api")}, !.ports = <<Web(80)>>, !.domain = Host(<<"shop", "com">>),
      !.env = ("A" :> "literal" @@ "B" :> "config" @@ "C" :> "mixed")]
  @@ N("api") :> [Plain EXCEPT !.needs = {N("db")}, !.uses = {N("db"), N("cache")}, !.replicas = 2,
      !.env = "C" :> "mixed"]
  @@ N("db") :> Managed("postgres")
  @@ N("cache") :> Managed("redis"))

ScalewayRefusals ==
  {Of(N("a") :> svc) : svc \in
     {[Plain EXCEPT !.image = FALSE], [Plain EXCEPT !.cpus = 700], [Plain EXCEPT !.cpus = 6],
      [Plain EXCEPT !.memory = 16384], [Plain EXCEPT !.replicas = 51],
      [Plain EXCEPT !.ports = <<Port(80, "host", "", "", "")>>], [Plain EXCEPT !.ports = <<Web(80), Web(81)>>],
      [Plain EXCEPT !.ports = <<Web(9090)>>], [Plain EXCEPT !.env = "PORT" :> "literal"],
      [Plain EXCEPT !.llm = TRUE], [Plain EXCEPT !.arm = TRUE]}}

ScalewayConfigs ==
  [versions : {"some", "none", "old", "failed"}, nodes : {"any"}, machines : {"dev"}]
  \cup [versions : {"some"}, nodes : {"any"}, machines : {"none"}]
ScalewayCases ==
  [project : {Stall} \cup ScalewayRefusals, config : ScalewayConfigs]
--------------------------------------------------------------------------------
(* Every kind of service at every size.  Left out is what Google's databases   *)
(* do not give: a part of a CPU beyond the first, a part of a GiB.             *)

CpuSizes == {0, 50, 100, 200, 300, 400, 800, 1600, 3200}
MemorySizesMiB == {0, 1024, 2048, 3072, 4096, 8192, 12288, 16384, 65536, 131072}
Sized(cpus, memory) == Of(
  N("app") :> [Plain EXCEPT !.cpus = cpus, !.memory = memory, !.shm = memory, !.ports = <<Web(80)>>,
      !.image = FALSE, !.build = TRUE, !.needs = {N("db")}, !.uses = {N("db")}]
  @@ N("work") :> [Plain EXCEPT !.cpus = cpus, !.memory = memory, !.needs = {N("app")},
      !.ports = <<Port(53, "ingress", "udp", "", ""), Port(80, "host", "", "", "")>>]
  @@ N("db") :> [Managed("postgres") EXCEPT !.cpus = cpus, !.memory = memory, !.needs = {N("cache")}]
  @@ N("cache") :> [Managed("redis") EXCEPT !.cpus = cpus, !.memory = memory])
Sizings == {Sized(cpus, memory) : cpus \in CpuSizes, memory \in MemorySizesMiB}

AwsSizings ==
  [project : Sizings, config : {[Base EXCEPT !.tier = t, !.redisEngine = IF t = "memory" THEN "memorydb" ELSE @] :
                                  t \in {"burstable", "general", "memory"}}]
GcpSizings == [project : Sizings, config : {[domain |-> << >>, sourceBucket |-> TRUE, proxySubnet |-> FALSE]}]
AzureSizings ==
  [project : Sizings, config : [domain : {<< >>}, vault : {"found"}, tier : {"burstable", "memory"}, zones : {{}}]]
ScalewaySizings ==
  [project : Sizings, config : [versions : {"some"}, nodes : {"any", "general"}, machines : {"dev"}]]

AllCases ==
  "aws" :> (AwsCases \cup AwsSizings) @@ "gcp" :> (GcpCases \cup GcpSizings)
  @@ "azure" :> (AzureCases \cup AzureSizings) @@ "scaleway" :> (ScalewayCases \cup ScalewaySizings)

\* A service with two policies, and nothing else.
GrantCases ==
  "azure" :> [project : {Of(N("web") :> [Plain EXCEPT !.policies = <<Policy(FALSE, "P"), Policy(FALSE, "Q")>>])},
              config : AzureConfigs]
================================================================================
