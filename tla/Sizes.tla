---------------------------------- MODULE Sizes ---------------------------------
(***************************************************************************)
(* How much machine a service gets for the CPUs and the memory it reserves *)
(* on each cloud (aws/rds.go, aws/elasticache.go, aws/memorydb.go,         *)
(* aws/ecs.go, aws/codebuild.go, gcp/compute.go, gcp/cloudsql.go,          *)
(* gcp/memorystore.go, gcp/cloudrun.go, gcp/image.go,                      *)
(* azure/postgres_sku.go, azure/redis.go, azure/containerapp.go,           *)
(* azure/virtualmachine.go, scaleway/postgres.go, scaleway/redis.go,       *)
(* scaleway/buildinstance.go).  A size is <<CPUs, memory>>, in hundredths  *)
(* of a CPU and in MiB.  A catalogue lists the sizes on offer in the order *)
(* of their prices, those left out that a cheaper one covers; a machine is *)
(* known by its size.                                                      *)
(***************************************************************************)
EXTENDS Naturals, Sequences, SequencesExt

\* Mutant: part of a CPU is rounded away.
CoversFloor(size, asked) == size[1] \div 100 >= asked[1] \div 100 /\ size[2] >= asked[2]

Covers(size, asked) == size[1] >= asked[1] /\ size[2] >= asked[2]

\* The first entry that covers what is asked for, else the fallback.
FirstMatch(catalogue, asked, fallback) ==
  LET match == SelectInSeq(catalogue, LAMBDA size : Covers(size, asked))
  IN  IF match = 0 THEN fallback ELSE catalogue[match]

\* A size with what it was chosen from.
Fit(asked, catalogue, fallback) ==
  [asked |-> asked, size |-> FirstMatch(catalogue, asked, fallback), offered |-> ToSet(catalogue)]

\* The catalogues a recipe's tier searches; an unknown tier means "burstable".
Searched(catalogues, tier) ==
  FlattenSeq(catalogues[IF tier \in DOMAIN catalogues THEN tier ELSE "burstable"])

Doubling(first, n) == [i \in 1..n |-> [k \in 1..2 |-> first[k] * 2 ^ (i - 1)]]
Times(first, factors) == [i \in DOMAIN factors |-> [k \in 1..2 |-> first[k] * factors[i]]]

--------------------------------------------------------------------------------
(* AWS.                                                                     *)

RdsBurstable ==
  <<<<200, 1024>>, <<200, 2048>>, <<200, 4096>>>> \o Doubling(<<200, 8192>>, 3)
RdsGeneral == Times(<<200, 8192>>, <<1, 2, 4, 8, 16, 24, 32, 48, 64>>)
RdsMemory == Times(<<200, 16384>>, <<1, 2, 4, 8, 16, 24, 32, 48, 64>>)
NodeTypeCatalogs ==
  [burstable |-> <<RdsBurstable, RdsGeneral, RdsMemory>>,
   general |-> <<RdsGeneral, RdsMemory>>, memory |-> <<RdsMemory>>]
RdsInstanceClass(asked, tier) == Fit(asked, Searched(NodeTypeCatalogs, tier), <<200, 1024>>)

CacheBurstable == <<<<200, 512>>, <<200, 1402>>, <<200, 3164>>>>
CacheGeneralSmall == <<<<200, 6533>>, <<200, 6574>>>>
CacheGeneral ==
  CacheGeneralSmall
  \o <<<<400, 13240>>, <<400, 14622>>, <<800, 26664>>, <<800, 30412>>, <<1600, 53514>>,
       <<1600, 62238>>, <<3200, 106168>>, <<4000, 158351>>, <<4800, 160890>>, <<6400, 214579>>,
       <<9600, 321863>>>>
CacheMemory ==
  <<<<200, 13383>>, <<400, 26951>>, <<800, 54087>>, <<1600, 108349>>, <<3200, 214579>>,
    <<4800, 325396>>, <<6400, 429148>>, <<9600, 650864>>>>
CacheTiering ==
  <<<<400, 101713>>, <<800, 203847>>, <<1600, 407695>>, <<3200, 815390>>, <<4800, 1223086>>,
    <<6400, 1630781>>>>
CacheNetwork ==
  <<<<200, 3164>>, <<400, 6533>>, <<800, 13250>>, <<1600, 26675>>, <<3200, 53514>>,
    <<4800, 80445>>, <<6400, 108349>>>>
CacheNodeTypeCatalogs ==
  [burstable |-> <<CacheBurstable, CacheGeneral, CacheMemory>>,
   general |-> <<CacheGeneral, CacheMemory>>, small |-> <<CacheGeneralSmall>>,
   memory |-> <<CacheMemory>>, tiering |-> <<CacheTiering>>, network |-> <<CacheNetwork>>]
CacheNodeType(asked, tier) == Fit(asked, Searched(CacheNodeTypeCatalogs, tier), <<200, 512>>)

MemoryDBMemory == SubSeq(CacheMemory, 1, 7)
MemoryDBNodeTypeCatalogs ==
  [burstable |-> <<Tail(CacheBurstable), MemoryDBMemory>>, memory |-> <<MemoryDBMemory>>]
MemoryDBNodeType(asked, tier) == Fit(asked, Searched(MemoryDBNodeTypeCatalogs, tier), <<200, 1402>>)

\* Fargate: each power of two of CPUs has its range of memory, in steps.
FargateTiers ==
  <<[cpu |-> 25, min |-> 512, max |-> 2048, step |-> 1024],
    [cpu |-> 50, min |-> 1024, max |-> 4096, step |-> 1024],
    [cpu |-> 100, min |-> 2048, max |-> 8192, step |-> 1024],
    [cpu |-> 200, min |-> 4096, max |-> 16384, step |-> 1024],
    [cpu |-> 400, min |-> 8192, max |-> 30720, step |-> 1024],
    [cpu |-> 800, min |-> 16384, max |-> 61440, step |-> 4096],
    [cpu |-> 1600, min |-> 32768, max |-> 122880, step |-> 4096]>>

RoundUp(n, step) == ((n + step - 1) \div step) * step
MakeMinMaxCeil(value, min, max, step) ==
  CASE value <= min -> min [] value >= max -> max [] OTHER -> RoundUp(value, step)
FixupFargateMemory(tier, memory) == MakeMinMaxCeil(memory, tier.min, tier.max, tier.step)

\* The first tier with the CPUs, the last when there is none, or a later one
\* with the memory; beyond all of them the provider panics.
FargateFails(asked) == asked[2] > 122880
FargateResources(asked) ==
  LET byCpu == SelectInSeq(FargateTiers, LAMBDA tier : tier.cpu >= asked[1])
      first == IF byCpu = 0 THEN Len(FargateTiers) ELSE byCpu
      chosen == FargateTiers[SelectInSubSeq(FargateTiers, first, Len(FargateTiers),
                               LAMBDA tier : tier.max >= asked[2])]
  IN  [asked |-> asked, size |-> <<chosen.cpu, FixupFargateMemory(chosen, asked[2])>>,
       offered |-> {<<tier.cpu, tier.max>> : tier \in ToSet(FargateTiers)}]

\* A build machine is known by the most it is chosen for, the largest by its own
\* 145 GB.
CodeBuildComputeType(memory) ==
  LET sizes == <<<<0, 4096>>, <<0, 8192>>, <<0, 16384>>, <<0, 65536>>>>
  IN  Fit(<<0, memory>>, sizes, <<0, 148480>>)

--------------------------------------------------------------------------------
(* Google Cloud.                                                            *)

E2 == Doubling(<<25, 1024>>, 8)
      \o <<<<200, 16384>>, <<400, 32768>>, <<800, 65536>>, <<1600, 131072>>>>
      \o Doubling(<<200, 2048>>, 5)
T2A == Doubling(<<100, 4096>>, 6) \o <<<<4800, 196608>>>>
GetComputeMachineType(asked, arm) == Fit(asked, IF arm THEN T2A ELSE E2, <<200, 8192>>)

\* One CPU or an even number of them, whole CPUs only.
CustomCpu(asked) ==
  CASE asked[1] \div 100 <= 1 -> 100
    [] asked[1] \div 100 > 96 -> 9600
    [] OTHER -> RoundUp(asked[1] \div 100, 2) * 100
CloudSqlTier(asked) ==
  [asked |-> asked, offered |-> {<<9600, 98304>>},
   size |-> CASE asked[1] <= 100 /\ asked[2] <= 600 -> <<100, 600>>
              [] asked[1] <= 100 /\ asked[2] \in 601..1700 -> <<100, 1700>>
              [] OTHER -> <<CustomCpu(asked), MakeMinMaxCeil(asked[2], 3840, 98304, 256)>>]

GetRedisMemoryGiB(memory) ==
  [asked |-> <<0, memory>>, offered |-> {<<0, RoundUp(memory, 1024)>>},
   size |-> <<0, IF memory < 1024 THEN 1024 ELSE (memory \div 1024) * 1024>>]

AtLeast(n, bound) == IF n < bound THEN bound ELSE n
CloudRunLimits(asked) ==
  [asked |-> asked, offered |-> {asked}, size |-> <<AtLeast(asked[1], 100), AtLeast(asked[2], 512)>>]

CloudBuildMachineType(memory) == Fit(<<0, memory>>, <<<<0, 4096>>, <<0, 8192>>>>, <<0, 32768>>)

--------------------------------------------------------------------------------
(* Azure.                                                                   *)

PgBurstable ==
  <<<<100, 2048>>, <<200, 4096>>, <<200, 8192>>, <<400, 16384>>, <<800, 32768>>,
    <<1200, 49152>>, <<1600, 65536>>, <<2000, 81920>>>>
PgGeneral == Times(<<200, 8192>>, <<1, 2, 4, 8, 16, 24, 32, 48>>)
PgMemory == Times(<<200, 16384>>, <<1, 2, 4, 8, 10, 16, 24, 32>>) \o <<<<9600, 688128>>>>
TierCatalogs ==
  [burstable |-> <<PgBurstable, PgGeneral, PgMemory>>,
   general |-> <<PgGeneral, PgMemory>>, memory |-> <<PgMemory>>]
PostgresFlexibleSku(asked, tier) == Fit(asked, Searched(TierCatalogs, tier), <<100, 2048>>)

EnterpriseSkus ==
  [i \in 1..9 |-> <<0, <<512, 1024, 3072, 6144, 12288, 24576, 61440, 122880, 179200>>[i]>>]
SelectEnterpriseSkuName(memory) == Fit(<<0, memory>>, EnterpriseSkus, <<0, 240640>>)

ContainerAppTiers == Times(<<25, 512>>, [i \in 1..8 |-> i])
ContainerAppCpuMemory(asked) == Fit(asked, ContainerAppTiers, Last(ContainerAppTiers))

VmSizes == <<<<100, 2048>>, <<200, 4096>>>> \o Doubling(<<200, 8192>>, 4)
VirtualMachineSize(asked) == Fit(asked, VmSizes, Last(VmSizes))

--------------------------------------------------------------------------------
(* Scaleway.                                                                *)

PgDevNodes == <<<<200, 2048>>, <<300, 4096>>, <<400, 8192>>, <<400, 12288>>>>
PgGpNodes ==
  <<<<400, 16384>>, <<800, 32768>>, <<1600, 65536>>, <<3200, 131072>>, <<4800, 262144>>>>
PostgresNodeType(asked, family) ==
  LET nodes == IF family = "general" THEN PgGpNodes ELSE PgDevNodes \o PgGpNodes
  IN  Fit(asked, nodes, Last(nodes))

MemorySizes(gibs) == [i \in DOMAIN gibs |-> <<0, gibs[i] * 1024>>]
RedisNodeTypes == MemorySizes(<<2, 4, 8, 12, 16, 32, 64>>)
RedisNodeType(memory) == Fit(<<0, memory>>, RedisNodeTypes, Last(RedisNodeTypes))

BuildInstanceFamilies ==
  [dev |-> <<2, 4, 8, 12, 16, 32, 64, 128, 256>>, basic3 |-> <<4, 8, 12, 16, 24, 32, 48, 64>>,
   standard3 |-> <<8, 16, 24, 32, 48, 64, 96, 128, 192, 256>>,
   pop2 |-> <<8, 16, 24, 32, 48, 64, 96, 128, 192, 256>>]
BuildFamilyFails(family) == family \notin DOMAIN BuildInstanceFamilies
SelectBuildInstanceType(memory, family) ==
  LET types == MemorySizes(BuildInstanceFamilies[family]) IN Fit(<<0, memory>>, types, Last(types))

\* In GB: twice the memory, at least 16, what fits on the machine.
LocalDisks == <<20, 40, 80, 120, 150, 300, 600, 600, 600>>
BuildDiskSizeGB(fit, memory, family) ==
  LET disk == AtLeast((memory * 2) \div 1024, 16)
      i == SelectInSeq(BuildInstanceFamilies[family], LAMBDA gib : gib * 1024 = fit.size[2])
  IN  IF family # "dev" \/ disk <= LocalDisks[i] THEN disk ELSE LocalDisks[i]

================================================================================
