--------------------------------- MODULE AwsData --------------------------------
(***************************************************************************)
(* The managed services of a project on AWS: RDS for x-defang-postgres,    *)
(* ElastiCache or MemoryDB for x-defang-redis, S3 for x-defang-s3          *)
(* (postgres.go, redis.go, objectstore.go, aws/rds.go, aws/elasticache.go, *)
(* aws/memorydb.go, aws/alarms.go).                                        *)
(***************************************************************************)
EXTENDS AwsShared

\* An alarm per suffix, when the recipe asks for alarms.
CreateDBAlarms(parent, name, suffixes, of, cfg) ==
  When(cfg.alarms, ForEach(suffixes, LAMBDA suffix :
    <<Res(Urn(parent, "cloudwatch.MetricAlarm", name \o suffix), {of})>>))

\* The port of the first entry, else the engine's own.
FirstPort(svc, default) == IF svc.ports = << >> THEN default ELSE Head(svc.ports).target

\* Only what carries the project's shared group may connect.
StoreSg(parent, name, svc, cfg, default) ==
  SecurityGroup(Urn(parent, "ec2.SecurityGroup", name), cfg,
                {[port |-> FirstPort(svc, default), from |-> SvcSg]})

\* The name of the store in the private zone, which its dependents wait for.
StoreRecord(parent, name, main) ==
  CreateRecord(parent, <<ServiceLabel(name)>>, "CNAME", {PrivateZone, main}, "store")

RdsInstance(name) == Urn("Postgres", "rds.Instance", name)
CreateRDS(name, svc, cfg, deps) ==
  LET group == Urn("Postgres", "rds.SubnetGroup", name) IN
  <<Res(group, InVpc(cfg))>>
  \o StoreSg("Postgres", name, svc, cfg, 5432)
  \o <<ResWith(RdsInstance(name), {group, Urn("Postgres", "ec2.SecurityGroup", name)} \cup deps,
               [public |-> FALSE, fit |-> RdsInstanceClass(Asked(svc), cfg.tier)])>>
  \o CreateDBAlarms("Postgres", name, << <<"cpu", "usage">>, <<"free", "storage">> >>,
                    RdsInstance(name), cfg)

CreatePostgres(name, svc, cfg, deps) ==
  CreateRDS(name, svc, cfg, deps) \o StoreRecord("Postgres", name, RdsInstance(name))

ReplicationGroup(name) == Urn("Redis", "elasticache.ReplicationGroup", name)
NodeSuffix(i) == <<"00" \o ToString(i)>>
CreateElasticache(name, svc, cfg, deps) ==
  LET group == Urn("Redis", "elasticache.SubnetGroup", name) IN
  <<Res(group, InVpc(cfg))>>
  \o StoreSg("Redis", name, svc, cfg, 6379)
  \o <<ResWith(ReplicationGroup(name), {group, Urn("Redis", "ec2.SecurityGroup", name)} \cup deps,
               [public |-> FALSE, fit |-> CacheNodeType(Asked(svc), cfg.tier)])>>
  \o ForEach([i \in 1..GetReplicas(svc) |-> i], LAMBDA i :
       CreateDBAlarms("Redis", name \o NodeSuffix(i), << <<"memory", "usage">>, <<"cpu", "usage">> >>,
                      ReplicationGroup(name), cfg))

MemoryDBCluster(name) == Urn("Redis", "memorydb.Cluster", name)
CreateMemoryDB(name, svc, cfg, deps) ==
  LET group == Urn("Redis", "memorydb.SubnetGroup", name)
      parameters == Urn("Redis", "memorydb.ParameterGroup", name)
  IN
  <<Res(group, InVpc(cfg)), Res(parameters, {})>>
  \o StoreSg("Redis", name, svc, cfg, 6379)
  \o <<ResWith(MemoryDBCluster(name),
               {group, parameters, Urn("Redis", "ec2.SecurityGroup", name)} \cup deps,
               [public |-> FALSE, fit |-> MemoryDBNodeType(Asked(svc), cfg.tier)])>>
  \o CreateDBAlarms("Redis", name, << <<"memory", "usage">>, <<"cpu", "usage">> >>,
                    MemoryDBCluster(name), cfg)

RedisMain(name, cfg) ==
  IF cfg.redisEngine = "memorydb" THEN MemoryDBCluster(name) ELSE ReplicationGroup(name)
CreateRedis(name, svc, cfg, deps) ==
  (IF cfg.redisEngine = "memorydb" THEN CreateMemoryDB(name, svc, cfg, deps)
                                   ELSE CreateElasticache(name, svc, cfg, deps))
  \o StoreRecord("Redis", name, RedisMain(name, cfg))

CreateObjectStore(name, deps) == CreatePrivateBucket("ObjectStore", name, deps)

================================================================================
