--------------------------------- MODULE MCCd ---------------------------------
(***************************************************************************)
(* The CD program: one run of it, with two resources, two signals and      *)
(* chunks of output with and without a newline; or the runs that deploy a  *)
(* stack with a TTL and take it down, in minutes of two seconds, years of  *)
(* four minutes and CD runs of at most a minute, two deployments watched   *)
(* for almost two years.  part says which, and the other stays as it is.   *)
(***************************************************************************)
EXTENDS CdRun, SelfDestruct

VARIABLE part

Run(c, t, e, s, l) == [cmd |-> c, targets |-> t, events |-> e, states |-> s, live |-> l]

MCInvocations == {
  Run("up", {}, TRUE, TRUE, {}), Run("up", {"r1"}, FALSE, TRUE, {"r2"}),
  Run("preview", {}, TRUE, TRUE, {}), Run("list", {}, TRUE, TRUE, {}),
  Run("down", {}, TRUE, TRUE, Resources), Run("destroy", {"r1"}, FALSE, FALSE, Resources)}
MCChunks == {<<"x">>, <<"y", NL, "z">>}

MCClouds == {"aws", "gcp", "azure"}

\* From the CLI's floor, which is CdTimeout, to a minute less than a year.
MCTTLs == {0, CdTimeout, CdTimeout + 1, Year - Minute}

\* A run that was not started, and a stack that was not deployed.
NoRun ==
  /\ cmd = "list" /\ targets = {} /\ eventsUrl = TRUE /\ statesUrl = TRUE
  /\ live = {} /\ stack = "absent" /\ phase = "fetch"
  /\ cause = None /\ inbox = <<>> /\ listening = TRUE /\ arrived = <<>>
  /\ engine = "idle" /\ work = {} /\ made = 0 /\ got = 0 /\ collector = "none"
  /\ events = [how |-> None, count |-> 0] /\ state = [how |-> None, said |-> {}]
  /\ err = None /\ status = None
  /\ LineInit
NoStack ==
  /\ cloud = "aws" /\ now = 0 /\ ups = 0
  /\ up = "none" /\ began = 0 /\ next = NoTrigger /\ armed = FALSE
  /\ trigger = NoTrigger /\ down = "none" /\ exists = FALSE
  /\ owed = FALSE

MCInit ==
  \/ part = "run" /\ Init /\ NoStack
  \/ part = "stack" /\ NoRun /\ TtlInit

MCVars == <<vars, ttlVars, part>>

OfRun(A) == part = "run" /\ A /\ UNCHANGED <<ttlVars, part>>
OfStack(A) == part = "stack" /\ A /\ UNCHANGED <<vars, part>>

\* The fairness of Spec; TtlSpec has none.
MCSpec ==
  /\ MCInit /\ [][OfRun(Next) \/ OfStack(TtlNext)]_MCVars
  /\ WF_MCVars(OfRun(MainStep)) /\ WF_MCVars(OfRun(CollectorStep))
  /\ WF_MCVars(OfRun(TimeOut)) /\ WF_MCVars(OfRun(EngineInterrupted))
  /\ WF_MCVars(OfRun(lock # Nobody /\ Output))

===============================================================================
