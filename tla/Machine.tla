--------------------------------- MODULE Machine --------------------------------
(***************************************************************************)
(* The virtual machine that runs a service, as its cloud-init document     *)
(* makes it boot: an instance of a managed group on Google Cloud           *)
(* (getCloudInitConfig of gcp/compute.go) or of a scale set on Azure       *)
(* (virtualMachineCloudInit of azure/virtualmachine.go).  systemd has a    *)
(* unit for the service and, on Google Cloud, one for every sidecar.  A    *)
(* unit fetches what it needs before it starts its container.  A health    *)
(* endpoint on the machine is probed from outside, and what the group      *)
(* answers to a machine that stays unhealthy is in the code too.           *)
(*                                                                         *)
(* A unit's Type=simple start is over when its process is forked, that of  *)
(* a Type=oneshot when its container has exited.                           *)
(***************************************************************************)
EXTENDS Naturals, Sequences, FiniteSets

CONSTANTS
  Machines,      \* the machines: [cloud, order, containers, startPeriod, built, good]
  Names,         \* the names of containers
  Keys,          \* the environment variables
  Main,          \* the service's own container, last of a machine's order
  MaxAttempts,   \* requests for a secret before its fetch fails
  Threshold,     \* probes in a row that must fail before a machine is unhealthy
  MaxDelay,      \* the longest delay the managed group accepts, in probe intervals
  MaxAge,        \* a bound on the clocks, in probe intervals
  MaxFaults      \* a bound on the crashes and lost requests

Registry == "registry"
Kinds == {"literal", "config", "mixed"}

ASSUME MachineAssumption ==
  /\ MaxAttempts \in Nat \ {0} /\ Threshold \in Nat \ {0}
  /\ MaxDelay \in Nat /\ MaxAge \in Nat \ {0} /\ MaxFaults \in Nat
  /\ Main \in Names /\ Registry \notin Keys
  /\ \A m \in Machines :
       /\ m.cloud \in {"gcp", "azure"} /\ m.built \in BOOLEAN /\ m.good \in BOOLEAN
       /\ m.startPeriod \in Nat
       /\ DOMAIN m.containers \subseteq Names /\ Main \in DOMAIN m.containers
       /\ m.order \in Seq(DOMAIN m.containers) /\ m.order # << >>
       /\ \A name \in DOMAIN m.containers :
            LET c == m.containers[name] IN
            /\ c.once \in BOOLEAN /\ c.awaited \in BOOLEAN /\ c.mounted \in BOOLEAN
            /\ DOMAIN c.env \subseteq Keys /\ \A key \in DOMAIN c.env : c.env[key] \in Kinds
       /\ ~m.containers[Main].once /\ ~m.containers[Main].awaited
       /\ ~m.containers[Main].mounted

VARIABLES
  machine,    \* which one this is
  prompt,     \* it does all it can between two probes
  access,     \* its identity's grants have reached the secret store
  starting,   \* the units that runcmd has yet to start
  unit,       \* container -> the state of its unit
  pending,    \* the sidecars whose start the service's start waits for
  attempt,    \* container -> requests made for the secret it is fetching
  fetched,    \* container -> what its ExecStartPre has got so far
  container,  \* container -> what docker has by its name
  env,        \* container -> the secrets its process was started with
  succeeded,  \* the run-once sidecars that have exited with 0 since the boot
  since,      \* probe intervals since the service's container was started
  up,         \* probe intervals since the boot
  misses,     \* probes that have failed in a row
  faults      \* crashes and lost requests so far

work == <<unit, pending, attempt, fetched, container, env, succeeded>>
clock == <<since, up, misses>>
vars == <<machine, prompt, access, starting, work, clock, faults>>

All == DOMAIN machine.containers
OnGcp == machine.cloud = "gcp"
Once(u) == machine.containers[u].once
Awaited == {u \in All : machine.containers[u].awaited}
Mounted == {u \in All : machine.containers[u].mounted}

\* What is fetched when a container starts: the configuration that a variable is,
\* and, on Google Cloud only, the secret composed for one that it is a part of.
Secrets(u) ==
  LET e == machine.containers[u].env IN
  {key \in DOMAIN e : e[key] = "config" \/ (OnGcp /\ e[key] = "mixed")}

\* What ExecStartPre must get: the secrets and, for an image that was built, a
\* login of Azure's registry, for which it asks once.
Obtains(u) == Secrets(u) \cup (IF ~OnGcp /\ machine.built THEN {Registry} ELSE {})

AttemptsFor(thing) == IF thing = Registry THEN 1 ELSE MaxAttempts

--------------------------------------------------------------------------------
(* Units.                                                                   *)

\* Mutant: the unit of a sidecar that has exited counts as stopped.
AfterExitForgotten == "inactive"

\* RemainAfterExit: the sidecar that has exited with 0 counts as started.
AfterExit == "done"

\* Mutant: ordered after the sidecars, and started whether they have or not.
PendingNone == {}

\* The required sidecars that have to be started first.
Pending == {u \in Awaited : unit[u] \notin {"up", "done"}}

\* What a start job does, with the jobs it pulls in for what the unit requires.
Enter(u, gone) ==
  /\ unit' = [v \in All |->
       IF v = u THEN (IF u = Main /\ Pending # {} THEN "waiting" ELSE "pre")
       ELSE IF u = Main /\ v \in Pending /\ unit[v] \in {"inactive", "failed", "restarting", "due"}
            THEN "pre" ELSE unit[v]]
  /\ pending' = IF u = Main THEN Pending ELSE pending
  /\ attempt' = [v \in All |-> IF unit'[v] = "pre" /\ unit[v] # "pre" THEN 0 ELSE attempt[v]]
  /\ fetched' = [v \in All |-> IF unit'[v] = "pre" /\ unit[v] # "pre" THEN {} ELSE fetched[v]]
  /\ container' = [v \in All |-> IF v \in gone THEN "none" ELSE container[v]]
  /\ UNCHANGED <<env, succeeded>>

\* Restart=always, which does not apply to a oneshot unit.
AfterFailure(u) == IF Once(u) THEN "failed" ELSE "restarting"

\* The start of a unit fails, and with it the start that waits for it: that one is
\* over, Restart=always applies to a process that has run.
FailStart(u) ==
  /\ unit' = [v \in All |->
       IF v = u THEN AfterFailure(u)
       ELSE IF v = Main /\ u \in pending THEN "inactive" ELSE unit[v]]
  /\ pending' = IF u \in pending THEN {} ELSE pending

\* cloud-init goes on with the next unit when the start of the last one is over,
\* however it ended.
Start ==
  /\ starting # << >>
  /\ LET done == Len(machine.order) - Len(starting) IN
     done > 0 => unit[machine.order[done]] \notin {"waiting", "pre", "working"}
  /\ starting' = Tail(starting)
  /\ IF unit[Head(starting)] \in {"inactive", "failed"} THEN Enter(Head(starting), {}) ELSE UNCHANGED work
  /\ UNCHANGED <<machine, prompt, access, clock, faults>>

\* What the service requires has been started.
Admit ==
  /\ unit[Main] = "waiting" /\ pending = {}
  /\ unit' = [unit EXCEPT ![Main] = "pre"]
  /\ attempt' = [attempt EXCEPT ![Main] = 0]
  /\ fetched' = [fetched EXCEPT ![Main] = {}]
  /\ UNCHANGED <<machine, prompt, access, starting, pending, container, env, succeeded, clock, faults>>

--------------------------------------------------------------------------------
(* ExecStartPre: the fetch script, the login and docker rm.                 *)

Fetch(u) ==
  /\ unit[u] = "pre" /\ access
  /\ \E thing \in Obtains(u) \ fetched[u] : fetched' = [fetched EXCEPT ![u] = @ \cup {thing}]
  /\ attempt' = [attempt EXCEPT ![u] = 0]
  /\ UNCHANGED <<machine, prompt, access, starting, unit, pending, container, env, succeeded, clock, faults>>

\* Mutant: a fetch that has failed is only logged.
FetchLostIgnored(u) ==
  /\ unit' = [unit EXCEPT ![u] = IF Once(u) THEN "working" ELSE "up"]
  /\ pending' = IF Once(u) THEN pending ELSE pending \ {u}

\* set -e: the script fails, the unit with it, and no container is started.
FetchLost(u) == FailStart(u)

\* A request that gets no answer, or is refused: the grant that the machine waited
\* for is made, and takes its time to arrive.
FetchFails(u) ==
  /\ unit[u] = "pre"
  /\ \/ ~access /\ UNCHANGED faults
     \/ access /\ faults < MaxFaults /\ faults' = faults + 1
  /\ \E thing \in Obtains(u) \ fetched[u] :
       IF attempt[u] + 1 < AttemptsFor(thing)
       THEN /\ attempt' = [attempt EXCEPT ![u] = @ + 1]
            /\ UNCHANGED <<unit, pending>>
       ELSE /\ attempt' = [attempt EXCEPT ![u] = 0]
            /\ FetchLost(u)
  /\ UNCHANGED <<machine, prompt, access, starting, fetched, container, env, succeeded, clock>>

PreDone(u) ==
  /\ unit[u] = "pre" /\ Obtains(u) \subseteq fetched[u]
  /\ unit' = [unit EXCEPT ![u] = IF Once(u) THEN "working" ELSE "up"]
  /\ pending' = IF Once(u) THEN pending ELSE pending \ {u}
  /\ container' = [container EXCEPT ![u] = "none"]
  /\ UNCHANGED <<machine, prompt, access, starting, attempt, fetched, env, succeeded, clock, faults>>

--------------------------------------------------------------------------------
(* ExecStart: docker run.                                                   *)

Launching(u) == unit[u] \in {"up", "working"}
\* --volumes-from names containers that docker must know.
MountsExist(u) == u # Main \/ \A v \in Mounted : container[v] # "none"

Create(u) ==
  /\ Launching(u) /\ container[u] = "none"
  /\ MountsExist(u) /\ (u = Main => machine.good)
  /\ container' = [container EXCEPT ![u] = "created"]
  /\ UNCHANGED <<machine, prompt, access, starting, unit, pending, attempt, fetched, env, succeeded, clock, faults>>

Run(u) ==
  /\ container[u] = "created"
  /\ container' = [container EXCEPT ![u] = "running"]
  /\ env' = [env EXCEPT ![u] = fetched[u] \ {Registry}]
  /\ since' = IF u = Main THEN 0 ELSE since
  /\ UNCHANGED <<machine, prompt, access, starting, unit, pending, attempt, fetched, succeeded, up, misses, faults>>

\* The image cannot be pulled or run, or a container to mount from is not there.
\* The start of a oneshot unit fails; that of another was over.
RunFails(u) ==
  /\ Launching(u) /\ container[u] = "none"
  /\ \/ ~MountsExist(u) /\ UNCHANGED faults
     \/ u = Main /\ ~machine.good /\ UNCHANGED faults
     \/ faults < MaxFaults /\ faults' = faults + 1
  /\ FailStart(u)
  /\ UNCHANGED <<machine, prompt, access, starting, attempt, fetched, container, env, succeeded, clock>>

\* A run-once sidecar is done.
Succeed(u) ==
  /\ Once(u) /\ container[u] = "running"
  /\ container' = [container EXCEPT ![u] = "exited"]
  /\ unit' = [unit EXCEPT ![u] = AfterExit]
  /\ pending' = pending \ {u}
  /\ succeeded' = succeeded \cup {u}
  /\ UNCHANGED <<machine, prompt, access, starting, attempt, fetched, env, clock, faults>>

\* A container exits with an error; --rm takes the service's away (Reap).
Crash(u) ==
  /\ container[u] = "running" /\ faults < MaxFaults
  /\ faults' = faults + 1
  /\ container' = [container EXCEPT ![u] = "exited"]
  /\ IF u = Main THEN UNCHANGED <<unit, pending>> ELSE FailStart(u)
  /\ UNCHANGED <<machine, prompt, access, starting, attempt, fetched, env, succeeded, clock>>

Reap ==
  /\ container[Main] = "exited"
  /\ container' = [container EXCEPT ![Main] = "none"]
  /\ unit' = [unit EXCEPT ![Main] = AfterFailure(Main)]
  /\ UNCHANGED <<machine, prompt, access, starting, pending, attempt, fetched, env, succeeded, clock, faults>>

\* RestartSec has passed, which is about what a probe interval is.
Restart(u) ==
  /\ unit[u] = "due"
  /\ Enter(u, {})
  /\ UNCHANGED <<machine, prompt, access, starting, clock, faults>>

\* The restart of a sidecar that the service requires restarts the service, which
\* docker stop and --rm take away, and which starts again after it.
RestartWithMain(u) ==
  /\ unit[u] = "due" /\ u \in Awaited /\ unit[Main] = "up"
  /\ Enter(Main, {Main})
  /\ UNCHANGED <<machine, prompt, access, starting, clock, faults>>

--------------------------------------------------------------------------------
(* The health endpoint, the probes and the group.                           *)

\* Mutant: nothing to measure is no age at all.
AgeNone ==
  CASE container[Main] = "none" -> 0
    [] container[Main] = "created" -> MaxAge
    [] OTHER -> since

\* How long the service has been started: as long as the endpoint runs when docker
\* knows no such container, and since the year 1 when it was never started.
Age ==
  CASE container[Main] = "none" -> up
    [] container[Main] = "created" -> MaxAge
    [] OTHER -> since

\* Google Cloud's script, or a TCP port, tells whether the container runs; Azure's
\* has a start period.
Healthy == container[Main] = "running" \/ (~OnGcp /\ Age < machine.startPeriod)

AtMost(n, cap) == IF n <= cap THEN n ELSE cap

Busy ==
  \/ starting # << >>
  \/ \E u \in All : \/ unit[u] \in {"due", "pre", "working", "waiting"}
                    \/ Launching(u) /\ container[u] # "running"

Tick ==
  /\ ~(prompt /\ Busy)
  /\ since' = AtMost(since + 1, MaxAge)
  /\ up' = AtMost(up + 1, MaxAge)
  /\ misses' = IF Healthy THEN 0 ELSE AtMost(misses + 1, Threshold)
  /\ unit' = [u \in All |-> IF unit[u] = "restarting" THEN "due" ELSE unit[u]]
  /\ UNCHANGED <<machine, prompt, access, starting, pending, attempt, fetched, container, env, succeeded, faults>>

Boot(kept) ==
  /\ unit' = [u \in All |-> "inactive"]
  /\ attempt' = [u \in All |-> 0]
  /\ fetched' = [u \in All |-> {}]
  /\ env' = [u \in All |-> {}]
  /\ container' = kept
  /\ pending' = {} /\ succeeded' = {}
  /\ starting' = machine.order
  /\ since' = 0 /\ up' = 0

\* Mutant: the group only watches.
HealsNever == FALSE

\* The managed group is told to heal, after the start period that it can wait for.
Heals == OnGcp /\ misses = Threshold /\ up >= AtMost(machine.startPeriod, MaxDelay)

Replace ==
  /\ Heals
  /\ Boot([u \in All |-> "none"])
  /\ misses' = 0
  /\ UNCHANGED <<machine, prompt, access, faults>>

\* Container-Optimized OS runs the document on every boot; on Azure the unit is
\* enabled.  The environment files were in memory, --rm still holds.
Reboot ==
  /\ faults < MaxFaults /\ faults' = faults + 1
  /\ Boot([u \in All |-> IF u = Main \/ container[u] = "none" THEN "none" ELSE "exited"])
  /\ UNCHANGED <<machine, prompt, access, misses>>

\* The grant has arrived.
Grant ==
  /\ ~access
  /\ access' = TRUE
  /\ UNCHANGED <<machine, prompt, starting, work, clock, faults>>

--------------------------------------------------------------------------------
Init ==
  /\ machine \in Machines
  /\ prompt \in BOOLEAN /\ access \in BOOLEAN
  /\ starting = machine.order
  /\ unit = [u \in All |-> "inactive"]
  /\ pending = {} /\ succeeded = {}
  /\ attempt = [u \in All |-> 0]
  /\ fetched = [u \in All |-> {}]
  /\ container = [u \in All |-> "none"]
  /\ env = [u \in All |-> {}]
  /\ since = 0 /\ up = 0 /\ misses = 0 /\ faults = 0

Next ==
  \/ Start \/ Admit \/ Reap \/ Tick \/ Replace \/ Reboot \/ Grant
  \/ \E u \in All : \/ Fetch(u) \/ FetchFails(u) \/ PreDone(u)
                    \/ Create(u) \/ Run(u) \/ RunFails(u) \/ Succeed(u) \/ Crash(u)
                    \/ Restart(u) \/ RestartWithMain(u)

Spec == Init /\ [][Next]_vars

\* cloud-init, systemd, docker and the scripts go on, the group probes and heals,
\* a container that is to exit does, and a grant arrives in the end.  Requests that
\* could be answered are answered in the end: the faults are bounded.
Fairness ==
  /\ WF_vars(Start) /\ WF_vars(Admit) /\ WF_vars(Reap) /\ WF_vars(Tick)
  /\ WF_vars(Replace) /\ WF_vars(Grant)
  /\ \A u \in Names :
       /\ WF_vars(u \in All /\ (Fetch(u) \/ FetchFails(u) \/ PreDone(u)))
       /\ WF_vars(u \in All /\ (Create(u) \/ RunFails(u))) /\ WF_vars(u \in All /\ Run(u))
       /\ WF_vars(u \in All /\ Succeed(u)) /\ WF_vars(u \in All /\ (Restart(u) \/ RestartWithMain(u)))

FairSpec == Spec /\ Fairness

--------------------------------------------------------------------------------
(* Properties.                                                              *)

\* The state's parts keep their shapes, and what the service's start waits for is
\* being started.
TypeOK ==
  /\ machine \in Machines /\ prompt \in BOOLEAN /\ access \in BOOLEAN
  /\ starting \in Seq(All)
  /\ unit \in [All -> {"inactive", "waiting", "pre", "working", "up", "done", "failed", "restarting", "due"}]
  /\ pending \subseteq Awaited
  /\ attempt \in [All -> 0..(MaxAttempts - 1)]
  /\ fetched \in [All -> SUBSET (Keys \cup {Registry})]
  /\ container \in [All -> {"none", "created", "running", "exited"}]
  /\ env \in [All -> SUBSET Keys]
  /\ succeeded \subseteq All
  /\ since \in 0..MaxAge /\ up \in 0..MaxAge /\ misses \in 0..Threshold /\ faults \in 0..MaxFaults

\* No container ever runs without one of its secrets, however many requests were
\* lost, in which order the units restarted and how often the machine booted.
SecretsWhole == \A u \in All : container[u] = "running" => env[u] = Secrets(u)

\* The service runs only when every run-once sidecar it depends on has exited with
\* 0 since the boot: a migration that has failed keeps the service down.
AwaitedFirst == container[Main] = "running" => \A u \in Awaited : Once(u) => u \in succeeded

\* A run-once sidecar that has succeeded is not run again before the next boot, not
\* by the restarts of the service that requires it either.
MigratedOnce == \A u \in succeeded : container[u] # "running"

\* A service that cannot run is reported: no start period, and no age that starts
\* again with every attempt, hides it for ever.
BrokenIsTold == ~machine.good => []<>~Healthy

\* With the grants there and no more faults the service runs in the end, on its
\* own on Azure, and on Google Cloud because the group replaces a machine whose
\* service was refused: provided that a boot is over before the probes have failed.
Recovers == machine.good /\ (prompt \/ ~OnGcp) => <>[](container[Main] = "running")

\* "a restart after a crash deserves its own start_period, not zero grace because
\* the health endpoint has been up a while" (renderDefangHealthScript): between a
\* crash and the restart Azure's endpoint does not fail before a start period has
\* passed since the start that crashed.
GraceHonored ==
  ~OnGcp /\ container[Main] = "none" /\ ~Healthy => since >= machine.startPeriod

================================================================================
