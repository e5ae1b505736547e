-------------------------------- MODULE CdRun --------------------------------
(***************************************************************************)
(* One run of the CD program (cd/main.go, cd_main.go, upload.go, errors.go):*)
(* it fetches the payload, selects and configures the stack, has Pulumi's  *)
(* engine do the command, uploads the state and the engine's events, and   *)
(* exits with a status.  Signals and the run's timeout arrive at any time. *)
(*                                                                         *)
(* The goroutines: the main one (phase), the signal listener, Pulumi's     *)
(* engine and the forwarder of its events (SDK), the collector of the      *)
(* events, and the writer of the engine's output.  The engine has two      *)
(* streams, each with a LineWriter and a writer of its own (cd_main.go:    *)
(* 143-146); one of the two is modelled.                                   *)
(***************************************************************************)
EXTENDS LineWriter, FiniteSets

CONSTANTS
  Resources,  \* the resources of the program
  Invocations, \* the runs to look at: the command, its targets, whether the URLs for
               \* the events and for the state are set, and the resources there are
  MaxSignals, \* bound: how many signals are sent to the process
  None        \* no cause, no error, no upload

Mutating == {"up", "down", "destroy", "refresh"}
Destroying == {"down", "destroy"}
Operations == Mutating \union {"preview"}
UserSignals == {"SIGINT", "SIGTERM"}
Causes == UserSignals \union {"SIGXCPU", None}

ASSUME CdRunAssumption ==
  /\ Invocations \subseteq [cmd : Operations \union {"cancel", "outputs", "list"},
                            targets : SUBSET Resources, events : BOOLEAN, states : BOOLEAN,
                            live : SUBSET Resources]
  /\ IsFiniteSet(Resources) /\ MaxSignals \in Nat

VARIABLES
  cmd, targets, eventsUrl, statesUrl, \* the arguments and the environment; never written
  phase,     \* where the main goroutine is
  cause,     \* why the context is cancelled
  inbox,     \* the signal channel, of one place
  listening, \* whether the signal listener still waits
  arrived,   \* the signals sent to the process
  stack,     \* "absent" or "there"
  live,      \* the resources that exist
  engine,    \* "idle", "running" or "ended"
  work,      \* the resources the engine has still to do
  made, got, \* events the engine has logged, and of these the collector has
  collector, \* "none", "receiving", "sending" or "done"
  events,    \* the upload of the events: how it ended and how many
  state,     \* the upload of the state: how it ended and what it said
  err,       \* the kind of the error
  status     \* the exit status
input == <<cmd, targets, eventsUrl, statesUrl>>
signals == <<cause, inbox, listening, arrived>>
world == <<stack, live>>
engineVars == <<engine, work, made>>
uploads == <<events, state>>
vars == <<input, phase, signals, world, engineVars, got, collector, uploads, err, status, lwvars>>

Init ==
  /\ \E i \in Invocations :
       /\ cmd = i.cmd /\ targets = i.targets /\ eventsUrl = i.events /\ statesUrl = i.states
       /\ live = i.live /\ stack \in {"absent", "there"} /\ (stack = "absent" => live = {})
  /\ phase = "fetch" /\ cause = None /\ inbox = <<>> /\ listening = TRUE /\ arrived = <<>>
  /\ engine = "idle" /\ work = {} /\ made = 0 /\ got = 0 /\ collector = "none"
  /\ events = [how |-> None, count |-> 0] /\ state = [how |-> None, said |-> {}]
  /\ err = None /\ status = None
  /\ LineInit

-----------------------------------------------------------------------------
(* Signals and the timeout: the first to reach the context is its cause.   *)

\* Mutant: every signal is kept.
SignalKept ==
  /\ phase # "exited" /\ Len(arrived) < MaxSignals
  /\ \E s \in UserSignals : arrived' = Append(arrived, s) /\ inbox' = Append(inbox, s)
  /\ UNCHANGED <<input, phase, cause, listening, world, engineVars, got, collector, uploads, err, status, lwvars>>

\* signal.Notify does not block: a signal that finds the channel full is lost.
Signal ==
  /\ phase # "exited" /\ Len(arrived) < MaxSignals
  /\ \E s \in UserSignals :
       /\ arrived' = Append(arrived, s)
       /\ inbox' = IF inbox = <<>> THEN <<s>> ELSE inbox
  /\ UNCHANGED <<input, phase, cause, listening, world, engineVars, got, collector, uploads, err, status, lwvars>>

\* The listener takes one signal and cancels the context with it.
Listen ==
  /\ phase # "exited" /\ listening /\ inbox # <<>>
  /\ listening' = FALSE /\ inbox' = <<>>
  /\ cause' = IF cause = None THEN Head(inbox) ELSE cause
  /\ UNCHANGED <<input, phase, arrived, world, engineVars, got, collector, uploads, err, status, lwvars>>

\* The context's timeout.
TimeOut ==
  /\ phase # "exited" /\ cause = None
  /\ cause' = "SIGXCPU"
  /\ UNCHANGED <<input, phase, inbox, listening, arrived, world, engineVars, got, collector, uploads, err, status, lwvars>>

-----------------------------------------------------------------------------
(* The main goroutine up to the engine.                                    *)

Fails(kind) == err' = kind /\ phase' = "report"

\* Arguments are checked and, for up and preview, the payload is fetched.
Fetch ==
  /\ phase = "fetch"
  /\ \/ phase' = "select" /\ UNCHANGED err
     \/ Fails("usage")
     \/ cmd \in {"up", "preview"} /\ Fails("plain")
  /\ UNCHANGED <<input, signals, world, engineVars, got, collector, uploads, status, lwvars>>

\* UpsertStack for up and preview, SelectStack for the others, which need one;
\* list goes on without.
Select ==
  /\ phase = "select"
  /\ \/ /\ stack = "there" \/ cmd \in {"up", "preview", "list"}
        /\ phase' = "configure" /\ UNCHANGED err
        /\ stack' = IF cmd \in {"up", "preview"} THEN "there" ELSE stack
     \/ cmd # "list" /\ Fails("pulumi") /\ UNCHANGED stack
  /\ UNCHANGED <<input, signals, live, engineVars, got, collector, uploads, status, lwvars>>

\* The stack's configuration, for up and preview, and the project's settings.
Configure ==
  /\ phase = "configure"
  /\ \/ phase' = (IF cmd \in Operations THEN "start" ELSE "report") /\ UNCHANGED err
     \/ cmd \in {"up", "preview"} /\ Fails("usage")
     \/ \E kind \in {"pulumi", "plain"} : Fails(kind)
  /\ UNCHANGED <<input, signals, world, engineVars, got, collector, uploads, status, lwvars>>

\* Mutant: no collector where nobody wants the events.
StartCollectorOnDemand == collector' = IF eventsUrl THEN "receiving" ELSE "none"

\* collectEvents: always a real channel, and a goroutine that receives from it.
StartCollector == collector' = "receiving"

\* What the engine is to do: the targets, or everything.
Asked == IF targets = {} THEN Resources ELSE targets
Work ==
  CASE cmd \in {"up", "preview"} -> Asked
    [] OTHER -> Asked \intersect live

Start ==
  /\ phase = "start"
  /\ StartCollector
  /\ engine' = "running" /\ work' = Work
  /\ phase' = "operate"
  /\ UNCHANGED <<input, signals, world, made, got, uploads, err, status, lwvars>>

-----------------------------------------------------------------------------
(* The engine, and the SDK's forwarder.                                    *)

\* One resource done, and an event logged.
DoResource ==
  /\ engine = "running" /\ (err = None \/ cmd \in Destroying)
  /\ \E r \in work :
       /\ live' = CASE cmd = "up" -> live \union {r}
                    [] cmd \in Destroying -> live \ {r}
                    [] OTHER -> live
       /\ work' = work \ {r}
  /\ made' = made + 1
  /\ UNCHANGED <<input, phase, signals, stack, engine, got, collector, uploads, err, status, lwvars>>

\* One fails: the engine goes on with the others only when it destroys (ContinueOnError).
FailResource ==
  /\ engine = "running" /\ (err = None \/ cmd \in Destroying)
  /\ \E r \in work : work' = IF cmd \in Destroying THEN work \ {r} ELSE {}
  /\ made' = made + 1 /\ err' = "pulumi"
  /\ UNCHANGED <<input, phase, signals, world, engine, got, collector, uploads, status, lwvars>>

\* Another run holds the stack's lock.
Locked ==
  /\ engine = "running" /\ made = 0 /\ err = None
  /\ engine' = "ended" /\ work' = {} /\ err' = "pulumi"
  /\ UNCHANGED <<input, phase, signals, world, made, got, collector, uploads, status, lwvars>>

\* Mutant: a targeted destroy removes the stack too.
RemovesAlways == cmd \in Destroying

\* optdestroy.Remove: the stack goes with its last resource.
Removes == cmd \in Destroying /\ targets = {}

EngineDone ==
  /\ engine = "running" /\ work = {}
  /\ engine' = "ended"
  /\ stack' = IF err = None /\ Removes THEN "absent" ELSE stack
  /\ UNCHANGED <<input, phase, signals, live, work, made, got, collector, uploads, err, status, lwvars>>

\* The context is cancelled: the SDK interrupts the engine.
EngineInterrupted ==
  /\ engine = "running" /\ cause # None
  /\ engine' = "ended" /\ work' = {}
  /\ \E kind \in {"pulumi", "plain"} : err' = kind
  /\ UNCHANGED <<input, phase, signals, world, made, got, collector, uploads, status, lwvars>>

\* The channel has no buffer: an event is sent when the collector receives it.
Forward ==
  /\ got < made /\ collector = "receiving"
  /\ got' = got + 1
  /\ UNCHANGED <<input, phase, signals, world, engineVars, collector, uploads, err, status, lwvars>>

\* The SDK closes the channel when the engine is done and its events are sent.
Closed == engine = "ended" /\ got = made

\* One stream of the engine's output.
Output ==
  /\ LineNext
  /\ engine = "running" \/ lock # Nobody
  /\ UNCHANGED <<input, phase, signals, world, engineVars, got, collector, uploads, err, status>>

-----------------------------------------------------------------------------
(* The uploads and the exit.                                               *)

\* Mutant: the uploads inherit the cancellation of the run.
UploadOutcomesAttached == IF cause = None THEN {"delivered", "refused"} ELSE {"aborted"}

\* detachUploadContext: an upload has its own half minute whatever the cause.
UploadOutcomes == {"delivered", "refused"}

\* Mutant: a failed operation returns before the state is uploaded.
ReturnedFirst ==
  /\ phase = "operate" /\ Closed /\ lock = Nobody
  /\ phase' = IF cmd \in Mutating /\ err = None THEN "upload" ELSE "wait"
  /\ UNCHANGED <<input, signals, world, engineVars, got, collector, uploads, err, status, lwvars>>

\* stack.Up, Preview, Destroy or Refresh returns.
Returned ==
  /\ phase = "operate" /\ Closed /\ lock = Nobody
  /\ phase' = IF cmd \in Mutating THEN "upload" ELSE "wait"
  /\ UNCHANGED <<input, signals, world, engineVars, got, collector, uploads, err, status, lwvars>>

UploadState ==
  /\ phase = "upload"
  /\ phase' = "wait"
  /\ IF statesUrl
     THEN \E how \in UploadOutcomes : state' = [how |-> how, said |-> live]
     ELSE UNCHANGED state
  /\ UNCHANGED <<input, signals, world, engineVars, got, collector, events, err, status, lwvars>>

\* The collector has drained the channel.
Drained ==
  /\ collector = "receiving" /\ Closed
  /\ collector' = "sending"
  /\ UNCHANGED <<input, phase, signals, world, engineVars, got, uploads, err, status, lwvars>>

UploadEvents ==
  /\ collector = "sending"
  /\ collector' = "done"
  /\ IF eventsUrl
     THEN \E how \in UploadOutcomes : events' = [how |-> how, count |-> got]
     ELSE UNCHANGED events
  /\ UNCHANGED <<input, phase, signals, world, engineVars, got, state, err, status, lwvars>>

\* The deferred waitEvents, and then the deferred Flush of the streams.
Wait ==
  /\ phase = "wait" /\ collector = "done"
  /\ phase' = "flush"
  /\ UNCHANGED <<input, signals, world, engineVars, got, collector, uploads, err, status, lwvars>>

\* Mutant: the streams are not flushed.
NoFlush ==
  /\ phase = "flush" /\ UNCHANGED lwvars
  /\ phase' = "report"
  /\ UNCHANGED <<input, signals, world, engineVars, got, collector, uploads, err, status>>

FlushStreams ==
  /\ phase = "flush" /\ Flush
  /\ phase' = "report"
  /\ UNCHANGED <<input, signals, world, engineVars, got, collector, uploads, err, status>>

\* Mutant: a cancelled context is reported also when all was done.
ExitStatusCancelled ==
  IF err = "usage" THEN {"2"} ELSE IF cause # None THEN {cause} ELSE IF err = None THEN {"0"} ELSE {"1", "255"}

\* run: 2 for a usage error, else 128 and the number of the cause (written as its
\* name), else the nested status, which an error may hide, else 1.
ExitStatus ==
  CASE err = None -> {"0"}
    [] err = "usage" -> {"2"}
    [] err \in {"pulumi", "plain"} /\ cause # None -> {cause}
    [] err = "pulumi" /\ cause = None -> {"1", "255"}
    [] err = "plain" /\ cause = None -> {"1"}

Exit ==
  /\ phase = "report"
  /\ status' \in ExitStatus
  /\ phase' = "exited"
  /\ UNCHANGED <<input, signals, world, engineVars, got, collector, uploads, err, lwvars>>

MainStep == Fetch \/ Select \/ Configure \/ Start \/ Returned \/ UploadState \/ Wait \/ FlushStreams \/ Exit
CollectorStep == Forward \/ Drained \/ UploadEvents

Next ==
  \/ MainStep \/ CollectorStep \/ Signal \/ Listen \/ TimeOut
  \/ DoResource \/ FailResource \/ Locked \/ EngineDone \/ EngineInterrupted
  \/ Output

\* The timeout comes, a cancelled engine stops, and the SDK closes the channel.  The
\* engine itself may hang.
Spec ==
  /\ Init /\ [][Next]_vars
  /\ WF_vars(MainStep) /\ WF_vars(CollectorStep)
  /\ WF_vars(TimeOut) /\ WF_vars(EngineInterrupted)
  /\ WF_vars(lock # Nobody /\ Output)

-----------------------------------------------------------------------------
TypeOK ==
  /\ \E i \in Invocations :
       cmd = i.cmd /\ targets = i.targets /\ eventsUrl = i.events /\ statesUrl = i.states
  /\ phase \in {"fetch", "select", "configure", "start", "operate", "upload", "wait", "flush", "report", "exited"}
  /\ cause \in Causes /\ Len(inbox) <= 1 /\ listening \in BOOLEAN
  /\ live \subseteq Resources /\ work \subseteq Resources /\ got <= made
  /\ engine \in {"idle", "running", "ended"}
  /\ collector \in {"none", "receiving", "sending", "done"}
  /\ events.how \in {None, "delivered", "refused", "aborted"} /\ events.count \in Nat
  /\ err \in {None, "usage", "pulumi", "plain"}
  /\ status \in {None, "0", "1", "2", "255"} \union Causes
  /\ lock \in Writers \union {Nobody}

Operated == engine # "idle"

\* "The final upload is exactly the thing we still want to happen on cancellation": a
\* run that started the engine does not exit before the upload of its events, all of
\* them, ended for a reason of its own.
EventsUploaded ==
  phase = "exited" /\ Operated /\ eventsUrl =>
    events.how \in {"delivered", "refused"} /\ events.count = made

\* A run that may have changed the stack, also one that failed or was cancelled, has
\* told the Portal the state it left.
StateUploaded ==
  phase = "exited" /\ Operated /\ cmd \in Mutating /\ statesUrl =>
    state.how \in {"delivered", "refused"} /\ state.said = live

\* What the Portal is to be told, it is told.
Uploaded == EventsUploaded /\ StateUploaded

\* "A targeted destroy leaves resources in the stack, so only remove the stack when
\* destroying everything": no stack is removed with resources left.
NothingOrphaned == stack = "absent" => live = {}

\* The status means something to the CLI: 0 only when all that was asked was done, 2
\* only when nothing was touched, 128 + n only for the first signal that was sent or
\* the timeout.
StatusTellsTruth ==
  phase = "exited" =>
    /\ status = "0" /\ cmd = "up" => Asked \subseteq live
    /\ status = "0" /\ cmd \in Destroying => Asked \intersect live = {}
    /\ err = None => status = "0"
    /\ status = "2" => ~Operated
    /\ status \in UserSignals => status = arrived[1]

IsWholeLine(s) == s # <<>> /\ \A i \in DOMAIN s : s[i] = NL <=> i = Len(s)

\* "A downstream WriteString call always receives a complete line": but for the last
\* string of a flush, however the output is cut into chunks.
LinesWhole ==
  ~failed => \A i \in DOMAIN sink :
               IsWholeLine(sink[i]) \/ (i = Len(sink) /\ phase \in {"report", "exited"})

\* "So trailing output without a newline isn't dropped": at the exit every byte went
\* out, in the order it was written.
OutputComplete ==
  phase = "exited" /\ ~failed => FlattenSeq(sink) = FlattenSeq(taken)

\* The output arrives whole, in lines and to its last byte.
OutputWhole == LinesWhole /\ OutputComplete

\* A run that started the engine ends, by the timeout at the latest: no send to the
\* event channel and no wait for the collector blocks for ever.
RunEnds == phase = "operate" ~> phase = "exited"

==============================================================================
