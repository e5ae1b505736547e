------------------------------ MODULE AwsBuild ------------------------------
(***************************************************************************)
(* Create of the AWS Build resource (provider/defangaws/build.go), called  *)
(* concurrently for the services of one project: it starts a CodeBuild     *)
(* build, polls it, starts a second one after a retryable error, and then  *)
(* looks up by tag, in the project's one ECR repository, the digest of the *)
(* image that was pushed.  The tag is BuildTriggerHash of the build        *)
(* configuration.                                                          *)
(***************************************************************************)
EXTENDS Naturals

CONSTANTS
  Services,   \* name -> the service's build configuration and platform
  NoBuild,    \* the tag names no image yet
  NoAnswer, Failed  \* see BuildContract

Calls == DOMAIN Services

\* A service: its build's context and platforms, and its own platform.
ASSUME ServicesAssumption ==
  \A c \in Calls : DOMAIN Services[c] = {"context", "platforms", "platform"}

VARIABLES
  phase,     \* where each call is: "start", "poll", "resolve" or "done"
  attempt,   \* its attempt, 0 or 1
  status,    \* CodeBuild's status of each build
  pushed,    \* the builds whose image reached the repository
  tagged,    \* tag -> the build whose image it names
  answer     \* what each call returned

vars == <<phase, attempt, status, pushed, tagged, answer>>

\* A build is named by its call and attempt.
Builds == Calls \X {0, 1}
Current(c) == <<c, attempt[c]>>

\* Mutant: the hash leaves the build context out.
TagWithoutContext(c) == <<Services[c].platforms>>

\* BuildTriggerHash: the service's platform is not part of it.
Tag(c) == <<Services[c].context, Services[c].platforms>>
Tags == {Tag(c) : c \in Calls}

Statuses == {"none", "running", "succeeded", "buildx", "stopped", "faulted", "timedout"}

Init ==
  /\ phase = [c \in Calls |-> "start"]
  /\ attempt = [c \in Calls |-> 0]
  /\ status = [b \in Builds |-> "none"]
  /\ pushed = {}
  /\ tagged = [t \in Tags |-> NoBuild]
  /\ answer = [c \in Calls |-> NoAnswer]

-----------------------------------------------------------------------------
\* CodeBuild: a running build pushes its image under the tag of its project, and
\* ends.  Only a build that pushed succeeds; the buildx command fails before.
PushImage(b) ==
  /\ status[b] = "running" /\ b \notin pushed
  /\ pushed' = pushed \union {b}
  /\ tagged' = [tagged EXCEPT ![Tag(b[1])] = b]
  /\ UNCHANGED <<phase, attempt, status, answer>>

End(b) ==
  /\ status[b] = "running"
  /\ \E s \in IF b \in pushed THEN {"succeeded", "stopped", "faulted", "timedout"}
                               ELSE {"buildx", "stopped", "faulted", "timedout"} :
       status' = [status EXCEPT ![b] = s]
  /\ UNCHANGED <<phase, attempt, pushed, tagged, answer>>

-----------------------------------------------------------------------------
Return(c, what) ==
  /\ answer' = [answer EXCEPT ![c] = what]
  /\ phase' = [phase EXCEPT ![c] = "done"]
  /\ UNCHANGED attempt

\* Mutant: the attempts are not counted.
RetryForever(c, retryable) ==
  IF retryable
  THEN /\ phase' = [phase EXCEPT ![c] = "start"]
       /\ UNCHANGED <<attempt, answer>>
  ELSE Return(c, Failed)

\* runCodeBuildBuild returned an error: retried once, unless it is final.
Retry(c, retryable) ==
  IF retryable /\ attempt[c] = 0
  THEN /\ attempt' = [attempt EXCEPT ![c] = 1]
       /\ phase' = [phase EXCEPT ![c] = "start"]
       /\ UNCHANGED answer
  ELSE Return(c, Failed)

StartBuild(c) ==
  /\ phase[c] = "start"
  /\ status' = [status EXCEPT ![Current(c)] = "running"]
  /\ phase' = [phase EXCEPT ![c] = "poll"]
  /\ UNCHANGED <<attempt, pushed, tagged, answer>>

\* No build id comes back, whether or not the build was started.
StartFails(c) ==
  /\ phase[c] = "start"
  /\ status' \in {status, [status EXCEPT ![Current(c)] = "running"]}
  /\ Retry(c, TRUE)
  /\ UNCHANGED <<pushed, tagged>>

\* isRetryable: neither an aborted build nor a failed docker buildx build is.
Retryable(s) == s \notin {"stopped", "buildx"}

\* Mutant: a faulted build is taken for one that has ended well.
PollFaulted(c) ==
  /\ phase[c] = "poll" /\ status[Current(c)] # "running"
  /\ IF status[Current(c)] \in {"succeeded", "faulted"}
     THEN phase' = [phase EXCEPT ![c] = "resolve"] /\ UNCHANGED <<attempt, answer>>
     ELSE Retry(c, Retryable(status[Current(c)]))
  /\ UNCHANGED <<status, pushed, tagged>>

\* A poll that finds the build ended.
Poll(c) ==
  /\ phase[c] = "poll" /\ status[Current(c)] # "running"
  /\ IF status[Current(c)] = "succeeded"
     THEN phase' = [phase EXCEPT ![c] = "resolve"] /\ UNCHANGED <<attempt, answer>>
     ELSE Retry(c, Retryable(status[Current(c)]))
  /\ UNCHANGED <<status, pushed, tagged>>

\* A poll that fails, or the deadline: the build goes on by itself.
GiveUp(c) ==
  /\ phase[c] = "poll"
  /\ Retry(c, TRUE)
  /\ UNCHANGED <<status, pushed, tagged>>

\* The context is cancelled in one of the sleeps; no build is stopped.
Cancel(c) ==
  /\ phase[c] \in {"start", "poll"}
  /\ Return(c, Failed)
  /\ UNCHANGED <<status, pushed, tagged>>

\* resolveECRDigest: the digest that the tag names now.
Resolve(c) ==
  /\ phase[c] = "resolve"
  /\ \E found \in ({tagged[Tag(c)]} \ {NoBuild}) \union {Failed} : Return(c, found)
  /\ UNCHANGED <<status, pushed, tagged>>

Create(c) == StartBuild(c) \/ StartFails(c) \/ Poll(c) \/ GiveUp(c) \/ Cancel(c) \/ Resolve(c)

Next ==
  \/ \E c \in Calls : Create(c)
  \/ \E b \in Builds : PushImage(b) \/ End(b)

\* A call runs on until its deadline at the latest; nothing is assumed of CodeBuild.
Spec ==
  /\ Init /\ [][Next]_vars
  /\ \A c \in Calls : WF_vars(Create(c))

-----------------------------------------------------------------------------
TypeOK ==
  /\ phase \in [Calls -> {"start", "poll", "resolve", "done"}]
  /\ attempt \in [Calls -> {0, 1}]
  /\ status \in [Builds -> Statuses]
  /\ pushed \subseteq {b \in Builds : status[b] # "none"}
  /\ tagged \in [Tags -> pushed \union {NoBuild}]
  /\ answer \in [Calls -> pushed \union {NoAnswer, Failed}]

\* The Build contract, for services whose builds have tags of their own.
Contract == INSTANCE BuildContract
              WITH Images <- Builds,
                   made <- [c \in Calls |-> {b \in pushed : b[1] = c}]
ImplementsContract == Contract!Spec

\* The image is looked up when the build awaited is known to have ended well, so a
\* call answers with a failed or running build's image only when another build of
\* the tag, such as an attempt it gave up on, has pushed since.
NoUnfinishedImage ==
  \A c \in Calls : answer[c] \in Builds =>
    \/ status[answer[c]] = "succeeded"
    \/ answer[c] # Current(c) /\ status[Current(c)] = "succeeded"

\* Every call returns.
Answered == \A c \in Calls : <>(phase[c] = "done")

\* image.go: "a tag no other build could have overwritten": no service is
\* given the image that was built for another one.
OwnTag == \A c \in Calls : answer[c] \in Builds => answer[c][1] = c

==============================================================================
