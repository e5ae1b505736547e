# TLA+ models and proofs for pulumi-defang

This directory holds a formal model of pulumi-defang: the Pulumi component
providers that turn a compose file into AWS, GCP, Azure and Scaleway resources
(`provider/`), the virtual machines that some of these resources boot, and the
continuous-deployment program that runs the providers inside the customer's
cloud account (`cd/`). The modules are written from the Go source; line numbers
below refer to it, and `PROJECT.json` maps each definition to its lines.

Run a model with `tlc -config <X>.cfg <MCModule>.tla`, check proofs with
`tlapm <Module>_proofs.tla`.

## 1. Inventory

### The system and its interactions

`cd up` (or `preview`, `down`, `destroy`, `refresh`, `cancel`) is one process
with a deadline. It runs the Pulumi engine on an inline program
(`cd/program`), which creates one *Project* component of the chosen cloud and,
when the stack has a time to live, a trigger that will start `cd down`. The
Project component's `Construct` (one goroutine) registers the infrastructure
that the services share, sorts the services and dispatches them. What it
registers the engine creates concurrently, in any order that follows the
references and the `DependsOn` options: an order that the code gets wrong is
not corrected later. Among the resources are *Build*s, whose `Create` and
`Update` run long remote work, one for each service with a build section; the
services deploy the image that their Build answers with. A service that a
serverless platform cannot take gets virtual machines, which boot a document
that the provider wrote and which nobody looks at again but the load balancer's
probes.

| Component | Source | State it keeps | Operations | What is hard | What makes it correct | Status and modules |
|---|---|---|---|---|---|---|
| Topological sort | `provider/common/topo.go` | visited set, call stack, result | `visit` | both loops range over Go maps; nothing validates against cycles or dangling names | every name once; dependencies first unless cyclic; none forgotten; it returns | modelled, proved: `TopologicalSort`, `DependencyOrder` |
| Project components (AWS, GCP, Scaleway) | `provider/defang{aws,gcp,scaleway}/project.go` | what was created so far: dependencies, bucket ARNs | partition and fold sidecars, sort, dispatch | reads of maps filled by earlier iterations; names that are no service | dependents after dependencies; grants complete and minimal; a project in order deploys | partly, proved: `ServiceGraph` |
| Deployment of a project | `provider/defang*/project.go` | the resources registered | infrastructure, turns of the services, load balancers and certificates at the end | names that meet, references under different conditions, orders only the engine sees | the plan can be carried out, in whatever order the engine takes | modelled, proved: `Plan`, `Deployment` |
| AWS networking, load balancer, certificates, DNS | `provider/defangaws/aws/{networking,lb,alb,cert,route53}.go` | none during a run | group names, choose zones, write records | hosts that are aliases, apexes and wildcards at once | each served name certified; one writer per record | partly: `AwsDns`, `AwsShared` |
| AWS services | `provider/defangaws/aws/{ecs,rds,elasticache,memorydb,s3,iam}.go` | none during a run | render a service | containers that await one another; glued names; catalogues | tasks can start; nothing is reachable past the balancer; sizes suffice | partly: `AwsEcs`, `AwsData`, `AwsProject`, `Sizes` |
| GCP project and services | `provider/defanggcp/*.go`, `gcp/*.go` | none during a run | render a service, two kinds of load balancers | limits of a forwarding rule, one group behind two balancers | every port forwarded; balancers take their backends | partly: `GcpShared`, `GcpServices`, `GcpLb`, `GcpProject`, `Sizes` |
| Azure project and services | `provider/defangazure/*.go`, `azure/*.go` | addresses of managed services | two loops, render a service | changes a server takes one at a time; addresses read later | serialized changes; addresses resolved; start periods kept where a health check has a test | partly: `AzureShared`, `AzureServices`, `AzureProject`, `Sizes` |
| Azure domains, Front Door, certificate jobs | `azure/{customdomain,dnszone,frontdoor,dns}.go`, `cd/program/azure.go` | jobs, a pool of eight | records, wildcards, collect jobs | two programs must agree on who gets records | a certificate is asked for exactly the names with records, managed services and names that are no labels excepted | partly: `AzureDomains` |
| Scaleway project | `provider/defangscaleway/project.go`, `scaleway/*.go` | addresses of earlier services | render a service | addresses and databases of other services' turns | what is named is there | partly: `ScalewayProject`, `Sizes` |
| Compose helpers | `provider/compose/*.go`, `common/{dns,algo}.go` | none | predicates | - | - | partly: `Compose` |
| Virtual machines (GCP, Azure) | `gcp/compute.go`, `azure/virtualmachine.go` | units, containers, secrets, health | boot, fetch, run, restart, heal | grants that arrive late, starts that are refused, restarts that rerun migrations, health without a container | no service without secrets or before its migration; a broken one is told; a good one recovers | partly, proved: `Machine` |
| AWS Build | `provider/defangaws/build.go`, `aws/image.go`, `common/build.go` | attempt, build id; one ECR repository per project | start, poll, retry, digest by tag | concurrent builds, abandoned builds that push later | a call answers with its own finished image or fails; it returns | partly, proved: `AwsBuild`, `BuildContract` |
| Scaleway Build | `provider/defangscaleway/build.go` | an instance, its volume and address; a shared log | create, boot, poll the log, tear down | lossy log, skewed clocks, page limit, earlier instances still writing, non-atomic teardown | as above for a call that begins in quiet; nothing left to be billed, or a warning says so | modelled, proved: `ScalewayBuild`, `ScalewayInstance` |
| Self-destruct | `cd/program/ttl.go`, `selfdestruct_*.go`, `cd/triggerdown.go` | the stack's trigger | compute, create, fire, delete | two runs of one stack; cron without a year or seconds; partial failure | never early; never silently missing | partly, proved: `SelfDestruct` |
| CD driver | `cd/{main,cd_main,upload,errors,fetch}.go` | context and cause, event channel, exit code | run, collect events, upload | a signal, the timeout and a failure race; uploads must outlive the context | state and events uploaded on every path; no deadlock with the engine; a true exit status | modelled, proved: `CdRun` |
| CD log streams | `cd/log.go` | partial line | `Write`, `Flush` | lines cut by chunks, a sink that fails | no byte lost, no line split | partly: `LineWriter` |
| Azure Build, GCP Build | `provider/defangazure/build.go`, `provider/defanggcp/build.go` | one remote operation | schedule, wait | nothing shared between calls | - | not modelled |
| CD configuration; provider choice and argument translation | `cd/{config,envs}.go`, `cd/program/{program,project_pb,aws,gcp,scaleway}.go` | none | translate | - | - | not modelled |
| Recipes, parameters, names, labels, aliases | `common/{recipe,autonaming}.go`, ... | none | tables | - | - | not modelled |
| Plugin entry points, SDKs | `provider/cmd`, `*/provider.go`, `sdk/` | none | wiring, generated | - | - | not modelled |

"Partly" means that an operation is left out or that only its decisions are
kept; section 8 says which. The hazards of this code, each at its line and with
the properties that would catch it going wrong, are listed under `hazards` in
`PROJECT.json`.

## 2. Plan

The order was: what decides the order and content of a deployment, then the
long-running remote work (builds), then what happens to a stack when nobody
watches (self-destruct, virtual machines), then the driver that carries it all.

Done:

1. `DependencyOrder` (abstract) and `TopologicalSort`.
2. `ServiceGraph`, which composes `TopologicalSort` (its steps are `Walk`) and
   implements `DependencyOrder` a second time, for whole projects.
3. `BuildContract` (abstract), implemented by `ScalewayBuild` and `AwsBuild`;
   `ScalewayInstance` for the teardown.
4. `SelfDestruct`.
5. `CdRun`, composed with `LineWriter`.
6. `Plan`, `Compose`, `Sizes` and the renderers of the four clouds, composed by
   `Deployment`, with the certificate jobs of the CD program.
7. `Machine`.
8. Proofs for `TopologicalSort`, `ServiceGraph`, `AwsBuild`, `ScalewayBuild`,
   `ScalewayInstance`, `SelfDestruct`, `CdRun`, `Machine` and `Deployment`.

What is left, in the order of its worth:

- the Azure and GCP builds against `BuildContract`, if they ever share state;
- update and rollout policies of the instance groups and scale sets, which
  replace machines while others serve;
- two runs of `CdRun` on one stack, with the lock and the trigger of
  `SelfDestruct` between them (each module has the other's part as a choice);
- theorems about what remains of `Deployment`: `PlanIsSound` under a hypothesis on
  names, the orders of `StartsAfterNeeds` and `Serialized`, and of `TrafficArrives`
  the certificates (`HostsCertified`).

## 3. The modules

### DependencyOrder and TopologicalSort

`DependencyOrder` says what the callers of `common.TopologicalSort` rely on: an
order grows by one name at a time, no name twice, and a name before one it
depends on only when both lie on a cycle.

`TopologicalSort` is `provider/common/topo.go`. The recursion of `visit` is the
variable `stack`, one frame per active call, each with the dependencies its
loop has still to look at; `unvisited` is what remains of the outer loop, and
`visited` and `sorted` are the closure's variables. An iteration order of a Go
map is arbitrary, so `VisitNode` and `VisitDependency` take any remaining
element. A name without an entry in the map has no dependencies, as a missing
key's zero value has none, and is still emitted.

### ServiceGraph

`buildProject` of the AWS, GCP and Scaleway projects. `RefuseSidecar` and
`FoldSidecars` are `partitionSidecars` and `foldSidecarDeps`; when two sidecars
name one dependency with different entries, the first that the map iteration
meets wins, so the folded map is any element of a set. `Walk` is a step of
`TopologicalSort`. `Dispatch` is one turn of the loop: `collectDeps` with its
error (`FailDependency`), the grants of `objectStoreGrants`,
`servicesNeedingSteadyState`. A name that is not a service reaches the loop as a
zero `ServiceConfig` and is refused for having neither image nor build
(`FailImage`). A resource is created where its name is appended to `created`,
with the names it is ordered after (`after`).

### Plan, Deployment and the renderers

A deployment program's effect is the sequence of resources it registers. `Plan`
keeps of a resource its URN (the component type above it, its type, its logical
name), what it refers to through inputs or `DependsOn`, and those of its
arguments that a property speaks of. A logical name is the sequence of the words
that the code joins with "-", so that names made in different ways can meet.
`Above` is what the engine has created when it starts on a resource: the
engine's concurrency is not a state but this partial order, so one check of a
finished plan speaks of all the orders in which the engine may create it.

`Deployment` has the control: `CreateInfra`, one `Deploy(name)` for each service
in any order that the sort (or Azure's two loops) allows, `Finish`, and `Fail`
where the code returns an error. The plan of each step is an operator of the
cloud's module, which follows the provider function by function:

- AWS: `AwsShared` (network, balancer, listeners, repositories), `AwsDns` (host
  names into certificates, zones, records), `AwsEcs` (containers of a task, what
  they await, secrets, groups, rules, roles, the service),
  `AwsData` (RDS, ElastiCache, MemoryDB, S3), `AwsProject` (the loop's body).
- GCP: `GcpShared`, `GcpServices` (Cloud Run, instance groups, Cloud SQL,
  Memorystore), `GcpLb` (internal passthrough and external balancers),
  `GcpProject`.
- Azure: `AzureShared`, `AzureServices` (container apps, virtual machines,
  Postgres, Redis, models), `AzureDomains` (records, Front Door,
  `collectCertJobs`), `AzureProject` (the two loops).
- Scaleway: `ScalewayProject`.

`Compose` has the predicates on services that all of them use, and describes the
record a service is. A service's name is a word, or several joined; `ServiceLabel` is
`common.ServiceLabel`, which turns `_` and `.` into `-`, so that `a_b` is a word as a
name and two as a label, and a host made of the raw name differs from one made of the label.
`Sizes` has the rules that choose a tier, a node, a machine
or a step from the CPUs and the memory a service reserves, with the catalogue
each chose from.

On Azure, `BuildProbes` has the three outcomes of `buildProbes`: none without a port,
a TCP probe with Azure's defaults for a health check without a test (`test`), an HTTP
probe otherwise. What a container needs of the services it names is `Settled`: all
the resources that such a service consists of, whether or not the code waits for
them. `NotAwaited` names those for which the code does not (a PostgreSQL service's own
database and VNet link, a model's deployment and private endpoint), `EarlierPolicies` the
grants of a service's policies but the last.

### BuildContract, AwsBuild, ScalewayBuild

`BuildContract`: a call of Create or Update fails, or answers with an image
that this very call had built and pushed. An image may arrive after its call
has given up.

`AwsBuild` is `Create` for any number of services at once. A CodeBuild build
(external: `PushImage`, `End`) runs on its own, whether or not a call still
waits for it; all of them push to one repository under `Tag`, which is what
`BuildTriggerHash` makes of a service. A start whose answer is lost
(`StartFails`) leaves a build that nobody waits for. `Retry` is the loop of two
attempts, `Poll`, `GiveUp` and `Cancel` are the ways out of the wait, `Resolve`
is the digest lookup after it.

`ScalewayBuild` is the protocol between the instance's script and the call that
waits for it: the script's steps, each pushing log lines that may be lost, and
`waitForInstanceBuild`, which queries a window and a page of a log shared by
all builds of the destination. The instance's clock differs from the
provider's by a skew. Calls for one destination are made one after the other
(Pulumi does not update one resource twice at a time), at any distance: `Tick` lets
time pass between them, or not. Any call may be cancelled, and the teardown of any
may fail; either way its script runs on beside the later calls, pushes to the same
destination and writes to the same log (`build.go:382-383`). The code does nothing
to keep such lines out of a later call's window, so what a call answers can be
trusted only if it began to wait in quiet: no earlier script running and none of
its lines in the window. The history variable `quiet` notes that of each call,
and changes nothing.

### ScalewayInstance

One call's instance, request by request. Each request ends `ok`, in a `fault`
that changed nothing, or `lost`: carried out, without an answer.
`ListResources`, `Terminate`, `Delete`, `DeleteVolume` and `DeleteIP` are the
requests of `teardownServer`, each group under `retryCleanup`. Scaleway stops a
terminated server on its own (`Stopped`), somebody may remove it in the console
(`RemoveServer`), and the context may be cancelled at any time.

### SelfDestruct

Its definitions carry the prefix `Ttl`, as one module checks it with `CdRun`. The life of a stack's trigger over deployments and downs. One run of `cd`
holds the stack's lock; a run that finds it held fails at once. `RunProgram`
computes the trigger, which is created beside the project on AWS and GCP and
after it on Azure (`Arm`); a deployment succeeds (`FinishUp`) only with it. A
clock counts seconds; a cron expression keeps month, day, hour and minute, so
it is rounded up to a minute and fires every year, while the AWS schedule fires
once. `Tick` moves the clock and lets a due trigger start a down.

### CdRun and LineWriter

`CdRun` is one run of the CD program. `phase` is where its main goroutine is,
from `fetch` to `exited`; the other goroutines have variables of their own: the
signal listener (`inbox`, a channel of one place, and `listening`), the
context's timeout (`TimeOut`), the engine (`DoResource`, `FailResource`,
`Locked`, `EngineDone`, `EngineInterrupted`), the SDK's forwarder of events
(`Forward`, over a channel without a buffer) and the collector. `cause` is the
context's cause, which the first to cancel it sets. The uploads end `delivered`
or `refused`, in their detached context, whatever the cause; `ExitStatus` is
`run`'s. The engine writes to two streams, each with a `LineWriter` of its own
(`cd_main.go:143-146`); they share nothing, and one of them is modelled, with the
engine as its only writer (`Writers`). `BeginWrite` takes the lock with a chunk,
`EmitLine` and `SinkFails` hand one line on or fail to, `EndWrite` keeps the partial
line and unlocks, and `Flush` sends what is left, or loses it with the sink's error
(`failed` remembers either); `lwvars` are its variables and `Output` is its next-state
relation while the engine runs.

### Machine

The boot of one virtual machine. `unit` is the state of each container's systemd
unit, `starting` the units that cloud-init's `runcmd` has still to start in
order, `pending` what the service's start job waits for; `Enter` is a start job
with what it pulls in. `Fetch`, `FetchFails` and `PreDone` are `ExecStartPre`
with the fetch script's retries, `Create`, `Run`, `RunFails` and `Crash` are
docker's. `Age` and `Healthy` are the health scripts of the two clouds, `Tick` is
one probe, `Replace` the group's autohealing. systemd, docker and the cloud are
external and do what the documents the code writes ask of them.

## 4. The runs

| Run | What it checks and shows | Bounds, and why they are enough |
|---|---|---|
| `topological_sort` | The walk emits every name once, dependencies first, and returns; it implements `DependencyOrder` | every map over three services and one missing name with at most two entries: self-loops, cycles of two and three, diamonds, dangling names, all iteration orders; the proofs cover the rest |
| `projects` | Grants are complete and minimal (`GrantsMatch` = `StoresGranted` and `NoOtherGrants`), the order is kept through the folding, a dependency error means a cycle, a project in order deploys with every dependency handed over | four families of projects: one sidecar, two sidecars that disagree, three plain services with any entries, and for GCP the plain ones and two that share a network (Scaleway's loop takes the same actions as GCP's). Two sidecars are the fewest that can disagree; a cycle needs two services |
| `scaleway` | Of the calls: a call that began in quiet reports a failure only of its own failed script (`FailureIsOwn`), and such calls implement `BuildContract`; a call that times out had no RESULT line of its own to read but one that `Unreadable` excepts; each call returns (`Answered`). Of an instance: fewer faults than attempts leave nothing billed (`NothingBilled`); what is left was reported (`LeftIsReported`); the call returns (`Returns`) | two calls of one destination, each of which may be cancelled or leave its instance running, clocks level or one poll behind, a window and a wait of one poll, up to one line of output and pages of one line: a build without output fills its page and one with output overflows it. The second call begins at once or up to `Horizon` = 3 polls on, before and after the first one's lines have left the window, so that it is quiet or not. One instance with three attempts as in the code and four faults, one more than an attempt count can absorb; cancellation, a slow stop and somebody else's deletion |
| `scaleway_signal` (violation) | `SignalIsOwn`: a call returns on the RESULT line of an earlier one, against the comments on `buildScript` and `waitForInstanceBuild` | two calls, no losses, clocks level |
| `scaleway_cancelled` (violation) | A cancelled context leaves the instance running, against the comment on `Delete` | no other fault |
| `aws_builds` | Two concurrent builds with contexts of their own implement the contract, answer with no unfinished image, and return | two services, two attempts each (the code's number), all end states at every moment |
| `aws_shared_tag` (violation) | Two services differing in platform only are given each other's image | two services |
| `cd` | Of a run: what the Portal is to be told is uploaded whatever fails (`Uploaded` = `EventsUploaded` and `StateUploaded`), no stack is removed with resources left, the exit status is true, the output arrives whole (`OutputWhole` = `LinesWhole` and `OutputComplete`), the run ends. Of a stack: a deployed TTL always has a trigger ahead (`Armed`); none fires early (`NeverEarly`) | six invocations that take every branch (up, targeted up, preview, list, down, targeted destroy), two resources so that one can fail and the other not, two signals so that the second is dropped or kept, two writes of chunks that leave a partial line. Two deployments on each cloud; a minute of two and a year of eight units keep rounding and recurrence apart, the clock runs for almost two years; TTLs from the CLI's floor to a minute less than a year |
| `deployments` | Whole deployments on four clouds; see below | a few projects and configurations for each cloud, chosen for the branches they take (`MCDeployment`), and a grid of sizes; every order of the services that the code allows |
| `azure_grants` (violation) | `GrantsAwaited`: a container app can be made before the first of its two grants, against the comment in `CreatePolicyIdentity` | a service with two policies |
| `machines` | No container without its secrets, no service before its migrations, none of them run twice, a broken service is reported and a good one comes up again | three machines on GCP (awaiting a migration and mounting volumes; awaiting a lasting sidecar; broken) and two on Azure; three faults of any kind, which is what it takes to fail a fetch of two attempts and crash besides |
| `restart_grace` (violation) | After a crash on Azure the health script has no container to ask and falls back on its own uptime: the restart has no start period, against the comment on `renderDefangHealthScript` | the same machines, two faults |

`scaleway` and `cd` each check two systems that have no step in common: the variable
`part` (`MCScaleway`, `MCCd`) says in the initial state which of them moves, the
other stays as it is, and the fairness of each is stated of its own steps. `part` is
no program state.

`deployments` checks, of every plan that comes about:

- `PlanIsSound`: no two resources get one URN, none refers to what is not
  registered, no DNS record has two writers (`NoClash`, `NoDangling`,
  `OneWriterPerRecord`).
- `StartsAfterNeeds`, `DependentsWait`, `Serialized`: the orders that the engine
  has to be told. Of a container's needs on Azure, the first leaves out what
  `NotAwaited` and `EarlierPolicies` name; with any one of these put back it is
  violated by the run's cases.
- `ServicesStart`: the tasks can start and are deployed anew when a parameter
  changes (`TaskCanStart`, `RedeployedOnChange`), probes time out in time and the
  HTTP probe of a health check with a test keeps its start period (`ProbeTimesOut`,
  `StartupBudgetKept`). That an awaited container can get into the awaited state is
  not looked at: the code leaves it to the compose file.
- `TrafficArrives`: nothing gets past the balancer (`BehindTheBalancer`), served
  hosts are certified and asked-for certificates have records
  (`ListenersCertified`, `CertJobsHaveRecords`, the second without the jobs of managed
  services and of names that are no labels, `Relabelled`), the balancers fit their
  backends and forward every port (`BalancingConsistent`, `AllPortsForwarded`).
- `SizeFits`: a machine that suffices is chosen if one is on offer.

Its cases leave out what is known to fail, each of which section 6 lists: two
Postgres services on Azure, one model alias twice,
names that glue together alike or have one label, one ingress target twice on GCP, a service's
domainname inside Azure's delegate zone, aliases without a domainname on AWS,
more than one CPU in fractions on Cloud SQL, fractions of a GiB for GCP's Redis.

Deadlock is not checked where the system stops by itself: a finished walk, a
project that is deployed or failed, calls that have all returned, a clock at
its horizon, a program that has exited. A machine never stops, and there it is
checked.

The type invariants of `TopologicalSort`, `AwsBuild`, `ScalewayBuild`,
`ScalewayInstance`, `SelfDestruct` and `Machine` are theorems and not repeated
as properties of their runs.

The bounds `Horizon` (of calls in one module, of a stack's clock in the other), `MaxUps`, `MaxFaults`, `MaxSignals`, `MaxWrites`,
`MaxAge` and `Calls` exist for TLC only. `Limit` (1000 in the code), `Window`,
`MaxWait`, `Minute`, `Year`, `CdTimeout`, `MaxAttempts`, `Threshold` and
`MaxDelay` are the code's values scaled down; what matters is how they compare,
which the configurations keep: a page that output may or may not overflow, a second
call inside the window of the first one's lines or past it, a TTL no shorter than a run.

### Fairness

- `TopologicalSort!FairSpec`, `ServiceGraph!Spec`: weak fairness of the next
  step. One goroutine runs Construct and never blocks in these steps.
- `ScalewayBuild`: weak fairness of `Poll \/ TimeOut`. The loop sleeps, queries
  and compares with its deadline. Nothing is assumed of the instance, the lines
  that reach the log, or a cancellation.
- `ScalewayInstance`: weak fairness of the call's next request and of
  `Stopped`, which the API promises.
- Both take for granted that a request ends, with an answer or an error:
  `doRequest` and `queryLoki` use `http.DefaultClient`, which has no timeout, so
  one that hangs is ended by nothing but the call's context.
- `AwsBuild`: weak fairness of each call, whose loop has a deadline. Nothing is
  assumed of CodeBuild: `GiveUp` is always possible while polling.
- `CdRun`: weak fairness of the main goroutine's and the collector's next steps,
  of the timeout, of the SDK's interrupt of a cancelled engine, and of the
  writer that holds the lock. The engine itself may hang: `RunEnds` rests on the
  timeout.
- `Machine!FairSpec`: cloud-init, systemd and docker go on, fetch scripts end,
  probes are made, the group heals on GCP, a grant arrives; crashes and lost
  requests are bounded by `MaxFaults`. `Recovers` on GCP asks besides that a
  boot is over before the probes have failed (`prompt`), without which the group
  can replace a machine for ever.
- `SelfDestruct` and `Deployment` have no liveness property and no fairness.

## 5. The proofs

Eight modules of proofs, for all values of the constants. Each argues by an
inductive invariant; the runs find its consequences on small instances.

**`TopologicalSort_proofs`**: for any set of names and any map. The invariant
`WalkInv` says that a visited name is emitted or on the stack, that frames
follow a dependency path, and that what a frame no longer has pending is
visited. Without the path, `DependenciesFirst` is not inductive: when a frame
finishes, a dependency that is not emitted can only be on the stack below it,
and it is the path between them that closes the cycle. Proved: `TypeCorrect`,
`WalkInvariant`, `EmittedAtMostOnce`, `DependenciesComeFirst`, `AllEmitted`, and
`Refinement` (the walk implements `DependencyOrder`). `WalkProgresses`, for
finitely many names, is the safety half of `Terminates`: `Left` counts the keys
not yet started on, the `depends_on` entries not yet looked at and the names not
yet emitted, and every step makes it smaller. The entries need `WalkInv` too,
which says that a visited name's frame, if it is still there, is the only one.

**`ServiceGraph_proofs`**: for any compose files. `Sorted` is `WalkInv`,
instantiated with the folded map (`Mapped`), so that what the walk does is taken from the theorems
above; `InTurn` says that what has been created is what the loop has passed of
the sorted names, and `HandedOn` that each creation was given what
`collectDeps` and `objectStoreGrants` find among the earlier ones. Proved:
`ProjectTypeCorrect`, `GrantsAreRight`, `OnlyCyclesFail` and `ProjectRefinement`
(the loop implements `DependencyOrder`). `InOrderEndsDeployed` is the safety half
of `InOrderDeploys`: a project whose dependencies are services and without a cycle
can end only with all of it deployed, each service after all it names. Its
invariant `Reasons` keeps, of a failed project, the turn it failed in and why;
each reason then contradicts `InOrder`.

**`AwsBuild_proofs`**: for any services. The invariant `CallInv` adds to
the types that a build not yet started is untouched, that a call looks an image
up only when its build ended well, that a call that has not returned has no
answer, and that a tag names an image pushed under it. `NoneUnfinished` needs the
first to see that no later step restarts a build that succeeded. `Refinement`
(`AwsBuild` implements `BuildContract`) assumes `OwnTags`, that tags of
different services differ: exactly what `aws_shared_tag` shows to be needed. Without `OwnTags` there is still
`TagsMatch`, that an image which a call is given was pushed under the call's own
tag (`AnswerInv`), and with it `ImagesAreOwn`, the property that
`aws_shared_tag` violates.
`NamesApart` only says that the two other answers are not the name of a build.

**`ScalewayBuild_proofs`**: for any number of calls at any distance, any of them cancelled or
leaving its instance running, any page limit, window, skews and losses; nothing is
assumed but the types of the constants. `FailuresAreOwn` and `BuildRefinement` speak of
the calls that began in quiet. While such a call waits, no other script runs, as
one that has ended never starts again (`Scripts`), and their earlier lines stay out of a window that does
not move, so every line in the window of the wait is the call's own (`Waits`) and what it read
is what its script found (`Told`). Without quiet the same statement is violated, as
`scaleway_signal` shows. That one of several lines is the first to be read comes from the library's
well-foundedness of strict subsets. `ResultsAreRead` is about every call, in quiet or not: at its last query
a call that times out was given no RESULT line at all (`Unread`), so one of its own that had arrived was
outside the window, by a clock that is behind or by coming late, or hidden by a page full of
lines before it. The theorem does not say that such pages are rare: more than 1000 lines
of output suffice (`build.go:871`).

**`ScalewayBuild_proofs`**, second half, on `ScalewayInstance`: for any numbers of
faults and attempts.
`NothingIsBilled` charges each failed attempt to a fault of its own (`Paid`),
except one to delete a server that is already on its way; `VolumeGone` says that an
attempt which gave a volume up remembers it, and `Created` what exists at which
request. `LeftoversAreReported` rests on `Reported`: what a finished step of the
teardown left, it has warned about.

**`SelfDestruct_proofs`**: for any lengths of minute, year and run, any clocks
and any number of deployments. `AlwaysArmed` assumes `Floor`, that no TTL is
shorter than a run (the CLI's floor): its invariant `ArmedInv` adds that a
running deployment's trigger is due no earlier than that run's timeout
(`AfterUp`), that it is the stack's trigger once armed (`Registered`), and that
it lies in the minute after its promise (`Rounded`). `NeverFiresEarly` assumes
`Ceiling`, that a TTL is shorter than a year by a minute at least: its invariant
`RecentInv` says that an armed trigger is a year ahead at most, so that no
earlier year's match lies between.

**`CdRun_proofs`**: for any resources, invocations and number of signals.
`Signals` says that the listener takes the first signal sent, `Together` where
engine and collector can be while the main goroutine is where it is, `Sent` what
has been uploaded when, `Kept` that a stack is there while resources are and
that an engine without an error leaves nothing out. Proved: `RunTypeCorrect`,
`AllUploaded`, `NoneOrphaned`, `StatusIsTrue`. `NoneApart` says that the model
value `None` is none of the strings it stands beside. `OutputIsWhole` is for any
number of writers, of which the program has one a stream, and chunks of any bytes: what the sink was given, the buffer and the
holder's remaining lines together are the chunks in the order of the lock
(`Whole`), and each string the sink was given but the last is one line (`Written`).
It rests on what `SplitAfter` and `FlattenSeq` do to any sequence: their defining
equations and what follows from them are proved by inductions whose hypothesis is a
set of lengths (`Induction`, `Recursion`), as the library's take an operator.

**`Machine_proofs`**: for any machines with any containers. `Fetched` says that
a unit past its `ExecStartPre` has all it must get, and that only such a unit has
a container to run; `MainUp` that the service has a container only while its unit
is up, `DoneMeans` that a run-once unit counts as started only after its success,
and `Waits` that the service is past its wait only when all of them do. Proved: `MachineTypeCorrect`,
`MachineSecretsWhole`, `MachineAwaitedFirst`, `MachineMigratedOnce`.

**`Deployment_proofs`**: for every project and configuration that
`CasesAssumption` admits, which are the compose files that the parser can have
made (each service with all of its fields, finitely many services, on AWS kinds
the provider knows), any number of services and any of their orders. A plan is made by
some sixty renderers, and each has a lemma: what it registers is a `Piece`, a
sequence of resources each of which is `Sound`, and for the resource a service goes
by, what it is ordered after (`Leads`). `Sound` says of a single resource what
the properties ask of its type: a machine that suffices if one was on offer
(`SizeSound`), probes that time out in time and, for a health check with a test, keep the start period (`ProbeSound`),
a task whose containers start and which is deployed anew when a parameter changes
(`TaskSound`), a security group that lets in from outside only what it may
(`DoorSound`), and on Google Cloud an address, backend and forwarding rule that fit the
service's ports (`BalancerSound`). The invariant `DeploymentInv` adds to `Piece` of the whole
plan that the services deployed so far are distinct, that each one's resource leads to those of all
it waits for (`LedIn`), that on AWS the resource whose handle the next services
await was made (`HandleMade`), and that on Scaleway only services that
can be deployed are among the deployed ones, whose addresses later services read, and that on Google Cloud, at the
end, every port of a service behind a passthrough balancer has its rule (`Balancing`).
Proved:

- `DeploymentInvariant` and `DeploymentTypeOK`.
- `SizesFit`, for every reservation and catalogue. It assumes `RoundSizes`, that the
  databases of GCP projects ask for whole CPUs and GiB: section 6 says what happens
  to the others.
- `DeployedStart` (`ServicesStart`). It assumes `SidecarsStart`: a service's sidecars
  have names of their own, different from the containers the code adds, and
  contain no circle, a set each of which waits for one of the set. Without the second the
  containers may await one another, which is the compose file's fault: the loader of
  compose files, which is not in this repository, refuses circles, and this code looks for none.
  Its part on start periods is about the HTTP probe, which a health check with a test gets; for one
  without, the code gives a TCP probe that ignores the start period, and the theorem claims nothing.
- `DependentsFollow`: in a plan without two resources of one URN, a service's
  resource is made after that of each service it waits for. `Leads` gives the path
  from one to the other; `Above` is a function on the plan's URNs, unrolled as often
  as there are resources, and `Rises` and `AboveRises` show that what a path reaches
  is in it, by an induction over sets of lengths. `NoClash` is a hypothesis because a URN then
  names one resource; the engine refuses a plan with two.
- `DoorsGuarded` (`BehindTheBalancer`): a balancer is made only when some service has
  an ingress port (`Balanced`), and then a service's own group lets in anyone only
  on its other ports; the databases' groups never do.
- `GroupsBalanced` (`InstancesBalanced`): the address of a passthrough balancer is made
  only for a group that cannot balance by utilization (`PassedThrough`), and the rules of
  a protocol, five ports each, make up its ports, of which `GcpChunks` shows that none is
  lost and none made up where they do not divide by five. It needs a conjunct of its own in the invariant since
  the ports are counted at the end, and it is about the services as the
  compose file has them: `StillPorted` shows that taking UDP ports out of ingress loses none.

Each cloud's module is an instance of its own inside `Deployment`, as is the `Compose`
that each of those extends, so some facts are stated as the equality of two instances'
operators (the `Alike` lemmas). The lemmas on inductions and on flattened sequences
stand in this module and in `CdRun_proofs`, as neither module needs the other's constants.

Model-checked only:

- liveness: the prover has no fairness or ENABLED. Of `Terminates` and `InOrderDeploys`
  the theorems above have the part that is about steps;
- the violated properties of the five findings;
- `PlanIsSound`, `StartsAfterNeeds`, `Serialized` and the part `HostsCertified` of
  `TrafficArrives`, of `Deployment`. They relate any two resources of a plan, and so any two renderers, by how
  their names are glued or by what lies between them in the order, where the theorems above
  need one renderer at a time. `PlanIsSound` is also false for the
  projects that section 6 lists, and the weakest hypothesis that excludes these
  would repeat the renderers' naming.
  `HostsCertified` would need hypotheses of the same kind: names that do not meet and no alias
  without a domainname.

The walk of the sort is modelled step by step, and so proved by an invariant, instead
of as a recursive function. `Above` and `Selected` are explicit functions for the
same reason: the provers can unfold those and not the library's `SelectSeq`.

## 6. What the models show about the code

Five disagreements between the code and what it says of itself have a run and
are listed under `findings`: a cancelled context leaves a Scaleway instance
(`scaleway_cancelled`), a call returns on an earlier build's RESULT line
(`scaleway_signal`), services that differ in their platform share an image tag
(`aws_shared_tag`), a container on Azure does not wait for all of its grants
(`azure_grants`), and a restart there has no start period (`restart_grace`).

Met while modelling, without a run of their own:

*Builds and self-destruct*

- The earlier line that `scaleway_signal` reads may be that of a build which ended less than
  a minute before, as the window starts a minute before the wait, or of an
  instance that a cancelled call, or a failed teardown, left running. If it says
  success, the call answers with an image that its own script has not pushed yet.
- With more output than the page holds, the RESULT line is never read, and a build
  that worked is reported as timed out (`Unreadable` excepts it in `ResultIsRead`).
- A line of build output that contains the RESULT text ends the wait. Output
  lines have no such text in the model.
- A `createServer` that loses its answer leaves an instance that no teardown
  knows (`Terminated` with `MaxFaults = 1`).
- On AWS the image of an attempt that was given up on may arrive after the
  second attempt's and be the one the digest names. It is the same call's
  build of the same context, so the contract holds.
- A TTL shorter than a CD run can be over before its trigger exists, and one of
  a year fires within a minute on GCP and Azure: `Floor` and `Ceiling` are needed.
- A trigger that fires while a redeployment holds the lock is spent on AWS. If
  that redeployment fails, the stack stays.
- A down deletes the trigger among the first resources. When it then fails, the
  yearly recurrence that `ttl.go:55-56` counts on as a retry is gone too.

*Projects*

- A service that depends on its own sidecar is refused (`collectDeps`).
- A sidecar's `service_healthy` does not make its target wait for a steady state.

*AWS*

- The execution role's grants (`iam.go`) are not waited for by the service.
- A host that is in two certificates has its validation record registered twice
  (`cert.go:152-171`).
- RDS's security group lets in the service's first port while the server listens
  on 5432 when another one is given.
- `rds.go:135` falls back to a small node for a request that no node fits;
  `fargateResources` panics (`ecs.go:258`).
- The aliases of a service without a domainname are routed (`ecs.go:1033`) but get
  neither certificate nor record (`dns.go:95`).
- An endpoint is not routed when a service has a domainname and the project has
  a domain (`ecs.go:1182-1187`).

*GCP*

- Nothing waits for the enabling of the APIs (a FIXME in `project.go:130` says so),
  and a build not for its grants (`image.go:308-312`).
- `getComputeMachineType` falls back to a small machine; `cloudSQLTier` cuts
  fractions of a CPU and `getRedisMemoryGiB` those of a GiB.

*Azure*

- Containers are not made to wait for all that they name: not for the own database
  of a PostgreSQL service (`postgres.go:245-254`) and the link of its private zone,
  and not for a model's deployment and private endpoint; `postgres.go:64` lists two of four.
- A health check without a test gets a TCP probe with Azure's defaults, whatever start
  period, interval and retries it asks for (`containerapp.go:705-716`).
- Two Postgres services give their settings one URN (`postgres.go:203, 233`), two
  models of one alias likewise.
- `depends_on` is ignored.
- A service's domainname inside the delegate zone is written twice; further
  ingress ports of a service are dropped.
- A certificate job is made for managed services with ingress ports, which get no
  records and whose job waits out its timeout; the comments at `azure.go:222-227` and
  `customdomain.go:392-397` say that jobs are made only where records are. A wildcard
  of such a service gets a front door. (A case of `deployments` has both; the
  property excepts the job.)
- The job of a service whose name is no label asks for the raw name (`azure.go:213`)
  where the records have the label (`customdomain.go:155`). Azure takes no app of
  such a name, so the deployment fails before that.
- Services `a_b` and `a-b` of one project have one label, so one host and one record;
  on AWS the two records have one URN besides.
- On virtual machines a variable with a reference inside other text is passed as
  it stands.

*Scaleway*

- A service that names a database without depending on it is not made to wait for
  its privilege, and addresses are put in only for services made before.

## 7. Reading the models

A definition that starts with "Mutant:" in its comment is no part of the model: it
is the form that a plausible mistake in the code would give to the definition after
it, and exists to show that the property named with it in `PROJECT.json` notices.
The MC modules give the constants; no configuration replaces a definition.

## 8. What is not modelled

- *Azure and GCP Build*: each call schedules one remote operation and waits for
  it, with a tag or digest of its own. No call shares state with another.
- *CD configuration, provider choice, argument translation*: text into
  configuration and fields into fields, without state. A model would restate the
  copies.
- *Recipes, parameters, labels, legacy aliases*: tables of defaults and rules for
  text. Logical names, which decide clashes, are in the plans.
- *Entry points, provider servers, SDKs*: wiring of Pulumi's plugin protocol, and
  generated code. The standalone Service, Postgres and Redis components take the
  same functions as the project's loop.
- Of what is modelled partly: plain arguments of resources (tags, versions,
  names of log streams, alarm thresholds, CIDR arithmetic), scaling, update and
  rollout policies, the model catalogue of Azure, the text of build and cloud-init
  documents, the API requests and the environment of the scheduled down, the
  filter of ignored log lines.
- `provisionCerts`' pool of eight: its jobs are library calls of up to 45 minutes
  whose failures are warnings; the code bounds neither their number nor their sum.
- The Pulumi engine, the cloud APIs, systemd, docker and the compose parser are
  external and appear as what their answers can be. Text is abstracted to what the
  code tells apart: a cron expression to when it fires, a log line to whether it
  is a RESULT line, a hash to what it is computed from, a host name to its labels.
