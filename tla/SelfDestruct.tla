----------------------------- MODULE SelfDestruct -----------------------------
(***************************************************************************)
(* The time to live of a stack (cd/program/ttl.go, selfdestruct_*.go and   *)
(* cd/triggerdown.go): a deployment creates, as a resource of the stack, a *)
(* trigger that starts `cd down` on the stack at the end of its TTL.  On   *)
(* AWS it is a one-time schedule; on GCP and Azure a cron expression of    *)
(* month, day, hour and minute, which recurs every year.                   *)
(*                                                                         *)
(* Time is counted in seconds, with minutes and years scaled down.         *)
(***************************************************************************)
EXTENDS Integers

CONSTANTS
  Clouds,     \* the clouds to look at
  Minute,     \* the seconds of a minute
  Year,       \* the seconds of a year, whole minutes
  CdTimeout,  \* the longest one CD run lasts
  TTLs,       \* the values of defang:ttl, 0 for never
  Horizon,    \* bound: when the clock stops
  MaxUps,     \* bound: how many deployments are made
  NoTrigger   \* the stack has no trigger

ASSUME SelfDestructAssumption ==
  /\ Clouds \subseteq {"aws", "gcp", "azure"}
  /\ {Minute, Year, CdTimeout} \subseteq Nat \ {0} /\ Year % Minute = 0
  /\ TTLs \subseteq Nat /\ Horizon \in Nat /\ MaxUps \in Nat
  /\ NoTrigger \notin [at : Nat, promise : Nat]

VARIABLES
  cloud,     \* never written
  now,       \* the clock
  ups,       \* how many deployments were started
  up,        \* the running deployment: "none", "started", "registering" or "deployed"
  began,     \* when its process started
  next,      \* the trigger it registers
  armed,     \* whether that is done
  trigger,   \* the stack's trigger
  down,      \* the running `cd down`: "none" or "running"
  exists,    \* whether the stack has resources besides the trigger
  owed       \* whether the last deployment to succeed had a TTL, and no down was
             \* started since
upvars == <<up, began, next, armed>>
ttlVars == <<cloud, now, ups, upvars, trigger, down, exists, owed>>

Trigger == [at : Nat, promise : Nat]

TtlInit ==
  /\ cloud \in Clouds /\ now = 0 /\ ups = 0
  /\ up = "none" /\ began = 0 /\ next = NoTrigger /\ armed = FALSE
  /\ trigger = NoTrigger /\ down = "none" /\ exists = FALSE
  /\ owed = FALSE

-----------------------------------------------------------------------------
\* Mutant: the minute is truncated.
FireAtTruncated(ttl) == IF cloud = "aws" THEN now + ttl ELSE ((now + ttl) \div Minute) * Minute

\* now + TTL; for a cron expression, rounded up to the next whole minute.
FireAt(ttl) == IF cloud = "aws" THEN now + ttl ELSE ((now + ttl) \div Minute) * Minute + Minute

\* Whether t fires at time: once, or (selfDestructCron) every year.
Fires(t, time) ==
  t # NoTrigger /\ IF cloud = "aws" THEN time = t.at ELSE (time - t.at) % Year = 0

-----------------------------------------------------------------------------
\* The context of a CD run has not reached its timeout.
InTime == now < began + CdTimeout

\* cd up takes the stack's lock.
StartUp ==
  /\ up = "none" /\ down = "none" /\ ups < MaxUps
  /\ ups' = ups + 1
  /\ up' = "started" /\ began' = now /\ next' = NoTrigger /\ armed' = FALSE
  /\ UNCHANGED <<cloud, now, trigger, down, exists, owed>>

\* The program reads the TTL and computes the trigger; resources are registered.
RunProgram ==
  /\ up = "started" /\ InTime
  /\ \E ttl \in TTLs : next' = IF ttl = 0 THEN NoTrigger ELSE [at |-> FireAt(ttl), promise |-> now + ttl]
  /\ up' = "registering"
  /\ exists' = TRUE
  /\ UNCHANGED <<cloud, now, ups, began, armed, trigger, down, owed>>

\* The trigger is created or updated: on Azure after the project, on AWS and GCP
\* beside it; AWS refuses a time in the past.
Arm ==
  /\ up \in {"registering", "deployed"} /\ next # NoTrigger /\ ~armed /\ InTime
  /\ cloud = "azure" => up = "deployed"
  /\ cloud = "aws" => now < next.at
  /\ armed' = TRUE /\ trigger' = next
  /\ UNCHANGED <<cloud, now, ups, up, began, next, down, exists, owed>>

\* The project component and its services are up.
ProjectDone ==
  /\ up = "registering" /\ InTime
  /\ up' = "deployed"
  /\ UNCHANGED <<cloud, now, ups, began, next, armed, trigger, down, exists, owed>>

\* Mutant: the deployment succeeds without its trigger.
FinishUnarmed ==
  /\ up = "deployed" /\ InTime
  /\ up' = "none"
  /\ trigger' = IF next = NoTrigger THEN NoTrigger ELSE trigger
  /\ owed' = (next # NoTrigger)
  /\ UNCHANGED <<cloud, now, ups, began, next, armed, down, exists>>

\* The deployment succeeds; without a TTL the old trigger is deleted.
FinishUp ==
  /\ up = "deployed" /\ InTime /\ (next # NoTrigger => armed)
  /\ up' = "none"
  /\ trigger' = IF next = NoTrigger THEN NoTrigger ELSE trigger
  /\ owed' = (next # NoTrigger)
  /\ UNCHANGED <<cloud, now, ups, began, next, armed, down, exists>>

\* A resource fails, the trigger for one, or the run is cancelled or times out.
FailUp ==
  /\ up # "none"
  /\ up' = "none"
  /\ UNCHANGED <<cloud, now, ups, began, next, armed, trigger, down, exists, owed>>

-----------------------------------------------------------------------------
\* A second passes.  A trigger that is due starts `cd down`, which fails at once
\* when another run holds the stack's lock.  A run is over by its timeout.
Tick ==
  /\ now < Horizon
  /\ up # "none" => InTime
  /\ now' = now + 1
  /\ IF Fires(trigger, now')
     THEN /\ down' = IF up = "none" THEN "running" ELSE down
          /\ owed' = FALSE
     ELSE UNCHANGED <<down, owed>>
  /\ UNCHANGED <<cloud, ups, upvars, trigger, exists>>

\* The user runs `defang cd down`.
StartDown ==
  /\ down = "none" /\ up = "none" /\ exists
  /\ down' = "running"
  /\ owed' = FALSE
  /\ UNCHANGED <<cloud, now, ups, upvars, trigger, exists>>

\* The destroy deletes the trigger, on Azure before what it depends on.
DeleteTrigger ==
  /\ down = "running" /\ trigger # NoTrigger
  /\ trigger' = NoTrigger
  /\ UNCHANGED <<cloud, now, ups, upvars, down, exists, owed>>

DeleteProject ==
  /\ down = "running" /\ exists
  /\ cloud = "azure" => trigger = NoTrigger
  /\ exists' = FALSE
  /\ UNCHANGED <<cloud, now, ups, upvars, trigger, down, owed>>

\* The down ends, done or failed.
FinishDown ==
  /\ down = "running"
  /\ down' = "none"
  /\ UNCHANGED <<cloud, now, ups, upvars, trigger, exists, owed>>

TtlNext ==
  \/ StartUp \/ RunProgram \/ Arm \/ ProjectDone \/ FinishUp \/ FailUp
  \/ StartDown \/ DeleteTrigger \/ DeleteProject \/ FinishDown
  \/ Tick

TtlSpec == TtlInit /\ [][TtlNext]_ttlVars

-----------------------------------------------------------------------------
TtlTypeOK ==
  /\ cloud \in Clouds /\ now \in 0 .. Horizon /\ ups \in 0 .. MaxUps
  /\ up \in {"none", "started", "registering", "deployed"} /\ began \in Nat
  /\ next \in Trigger \union {NoTrigger} /\ trigger \in Trigger \union {NoTrigger}
  /\ armed \in BOOLEAN /\ exists \in BOOLEAN /\ owed \in BOOLEAN
  /\ down \in {"none", "running"}
  /\ up = "none" \/ down = "none"

\* "Truncating would fire up to 59s before now + TTL": no scheduled down starts
\* before the TTL of the deployment that set it is over.
NeverEarly == [][Fires(trigger, now') /\ now' # now => now' >= trigger.promise]_ttlVars

\* "A stack that silently outlives its requested TTL is the exact failure mode this
\* feature exists to prevent": while a stack deployed with a TTL has seen no
\* scheduled down, its trigger is ahead, by a minute more than the TTL at most.
Armed ==
  owed =>
    trigger # NoTrigger /\ now < trigger.at /\ trigger.at <= trigger.promise + Minute

==============================================================================
