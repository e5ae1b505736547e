---------------------------- MODULE ScalewayBuild ----------------------------
(***************************************************************************)
(* Create and Update of the Scaleway Build resource (provider/             *)
(* defangscaleway/build.go), called one after the other for one            *)
(* destination: each boots an instance whose script builds and pushes the  *)
(* image and relays its output, line by line and ending in a RESULT line,  *)
(* to a log that the call polls for that line.  Calls for one destination  *)
(* share the log's source label and the image's tag, and the instance of a *)
(* call that was cancelled, or whose teardown failed, goes on.             *)
(*                                                                         *)
(* Time is counted in polls.  The call's clock is now; an instance's clock *)
(* is ahead of it by a skew.                                               *)
(***************************************************************************)
EXTENDS Integers, Sequences, FiniteSets

CONSTANTS
  Calls,         \* how many calls are made
  Limit,         \* lines a log query returns at most
  Window,        \* how far before the wait the queries start
  MaxWait,       \* maxWaitTime
  OutputLines,   \* how many lines a script may relay before its RESULT line
  Skews,         \* by how much an instance's clock may be ahead
  Lossy,         \* whether push_log may lose a line
  Horizon,       \* bound: the callers begin no call after this time
  NoAnswer, Failed  \* see BuildContract

ASSUME ConstantsAssumption ==
  /\ {Calls, Limit, Window, MaxWait, Horizon} \subseteq Nat
  /\ OutputLines \subseteq Nat
  /\ Skews \subseteq Int
  /\ Lossy \in BOOLEAN

VARIABLES
  now,      \* the provider's clock
  call,     \* the call that is waiting, 0 between calls
  start,    \* where its log queries start
  deadline, \* when it gives up
  answer,   \* how each call returned
  image,    \* what the destination named when it did
  inst,     \* each call's instance
  tag,      \* the call whose image the destination names, 0 at first
  log,      \* the lines of the shared source, in the order they arrived
  seen,     \* how many of them had arrived at the last query
  quiet     \* history: which calls began to wait with no earlier call's script
            \* running and none of its lines in their window

vars == <<now, call, start, deadline, answer, image, inst, tag, log, seen, quiet>>

\* The calls, in the order they are made.
Builds == 1 .. Calls

\* An instance: where its script is, its clock, whether its image was pushed,
\* and the lines it has still to relay.
Steps == {"none", "fetch", "build", "relay", "off"}
Instance == [step : Steps, skew : Skews \union {0}, pushed : BOOLEAN, left : Nat]

Line == [build : Builds, at : Int, text : {"output", "success", "failure"}]

Answers == {"none", "image", "failed", "timeout", "error"}

Init ==
  /\ now = 0 /\ call = 0 /\ start = 0 /\ deadline = 0
  /\ answer = [b \in Builds |-> "none"]
  /\ image = [b \in Builds |-> 0]
  /\ inst = [b \in Builds |-> [step |-> "none", skew |-> 0, pushed |-> FALSE, left |-> 0]]
  /\ tag = 0
  /\ log = <<>>
  /\ seen = 0
  /\ quiet = [b \in Builds |-> FALSE]

-----------------------------------------------------------------------------
\* The instance's script (buildScript).
At(b, step) == inst[b].step = step

\* push_log: curl's failures are ignored.
Push(b, text) ==
  \/ log' = Append(log, [build |-> b, at |-> now + inst[b].skew, text |-> text])
  \/ Lossy /\ log' = log

\* The build context arrives, or the script gives up and powers off.
Fetch(b) ==
  /\ At(b, "fetch")
  /\ \/ inst' = [inst EXCEPT ![b].step = "build"] /\ log' = log
     \/ inst' = [inst EXCEPT ![b].step = "off"] /\ Push(b, "failure")
  /\ UNCHANGED <<now, call, start, deadline, answer, image, tag, seen, quiet>>

\* docker buildx build --push, whose output and exit status go to a file.
BuildImage(b) ==
  /\ At(b, "build")
  /\ \E ok \in BOOLEAN, n \in OutputLines :
       /\ inst' = [inst EXCEPT ![b].step = "relay", ![b].pushed = ok, ![b].left = n]
       /\ tag' = IF ok THEN b ELSE tag
  /\ UNCHANGED <<now, call, start, deadline, answer, image, log, seen, quiet>>

\* One line of that file.
Relay(b) ==
  /\ At(b, "relay") /\ inst[b].left > 0
  /\ Push(b, "output")
  /\ inst' = [inst EXCEPT ![b].left = @ - 1]
  /\ UNCHANGED <<now, call, start, deadline, answer, image, tag, seen, quiet>>

\* Mutant: the RESULT line does not look at the exit status.
ReportSuccess(b) ==
  /\ At(b, "relay") /\ inst[b].left = 0
  /\ Push(b, "success")
  /\ inst' = [inst EXCEPT ![b].step = "off"]
  /\ UNCHANGED <<now, call, start, deadline, answer, image, tag, seen, quiet>>

\* The RESULT line, and poweroff.
Report(b) ==
  /\ At(b, "relay") /\ inst[b].left = 0
  /\ Push(b, IF inst[b].pushed THEN "success" ELSE "failure")
  /\ inst' = [inst EXCEPT ![b].step = "off"]
  /\ UNCHANGED <<now, call, start, deadline, answer, image, tag, seen, quiet>>

Script(b) == Fetch(b) \/ BuildImage(b) \/ Relay(b) \/ Report(b)

-----------------------------------------------------------------------------
\* The provider (runInstanceBuild).
Due(b) == answer[b] = "none" /\ \A c \in 1 .. b - 1 : answer[c] # "none"

Running(b) == inst[b].step \in {"fetch", "build", "relay"}

\* Nothing of an earlier call can still be taken for one of a wait from time t on.
QuietFrom(t) ==
  /\ \A c \in Builds : ~Running(c)
  /\ \A i \in 1 .. Len(log) : log[i].at < t

\* The instance is created and booted with the script, and the wait starts.
Boot(b) ==
  /\ call = 0 /\ Due(b)
  /\ \E skew \in Skews : inst' = [inst EXCEPT ![b].step = "fetch", ![b].skew = skew]
  /\ call' = b
  /\ start' = now - Window
  /\ deadline' = now + MaxWait
  /\ seen' = Len(log)
  /\ quiet' = [quiet EXCEPT ![b] = QuietFrom(now - Window)]
  /\ UNCHANGED <<now, answer, image, tag, log>>

\* Creating, preparing or booting it fails; what was created is torn down.  (A
\* power-on that worked but lost its answer is Boot, then PollFails.)
BootFails(b) ==
  /\ call = 0 /\ Due(b)
  /\ answer' = [answer EXCEPT ![b] = "error"]
  /\ UNCHANGED <<now, call, start, deadline, image, inst, tag, log, seen, quiet>>

\* The call returns, after teardownServer has terminated the instance or given up.
Return(what, removed) ==
  /\ answer' = [answer EXCEPT ![call] = what]
  /\ image' = [image EXCEPT ![call] = tag]
  /\ inst' = IF removed THEN [inst EXCEPT ![call].step = "off"] ELSE inst
  /\ call' = 0 /\ start' = 0 /\ deadline' = 0 /\ seen' = 0
  /\ UNCHANGED <<tag, log, quiet>>

\* A query at time end: the indices of the lines in its window, and of the first
\* Limit of them by time.  Mutant InWindowAll: the window has no start.
InWindowAll(end) == {i \in 1 .. Len(log) : log[i].at < end}
InWindow(end) == {i \in 1 .. Len(log) : log[i].at >= start /\ log[i].at < end}
Before(i, j) == log[i].at < log[j].at \/ (log[i].at = log[j].at /\ i < j)

\* Mutant: the query asks for one line less than its reader needs.
PageShort(end) ==
  {i \in InWindow(end) : Cardinality({j \in InWindow(end) : Before(j, i)}) < Limit - 1}

Page(end) ==
  {i \in InWindow(end) : Cardinality({j \in InWindow(end) : Before(j, i)}) < Limit}

Results(end) == {i \in Page(end) : log[i].text # "output"}

\* The first RESULT line decides.
Verdict(end) ==
  LET first == CHOOSE i \in Results(end) : \A j \in Results(end) \ {i} : Before(i, j)
  IN log[first].text

\* One turn of waitForInstanceBuild's loop: sleep, then query.
Poll ==
  /\ call # 0 /\ now <= deadline
  /\ now' = now + 1
  /\ IF Results(now') = {}
     THEN seen' = Len(log) /\ UNCHANGED <<call, start, deadline, answer, image, inst, tag, log, quiet>>
     ELSE \E removed \in BOOLEAN :
            Return(IF Verdict(now') = "success" THEN "image" ELSE "failed", removed)

PollFails ==
  /\ call # 0 /\ now <= deadline
  /\ now' = now + 1
  /\ \E removed \in BOOLEAN : Return("error", removed)

\* Mutant: the loop goes on after the deadline.
TimeOutNever ==
  /\ call # 0 /\ now > deadline
  /\ UNCHANGED vars

TimeOut ==
  /\ call # 0 /\ now > deadline
  /\ UNCHANGED now
  /\ \E removed \in BOOLEAN : Return("timeout", removed)

\* The context is cancelled: the sleep returns its error, and teardownServer,
\* which uses the same context, can do nothing.
Cancel ==
  /\ call # 0
  /\ UNCHANGED now
  /\ Return("error", FALSE)

\* Time passes between calls.
Tick ==
  /\ call = 0 /\ now < Horizon /\ (\E b \in Builds : Due(b))
  /\ now' = now + 1
  /\ UNCHANGED <<call, start, deadline, answer, image, inst, tag, log, seen, quiet>>

Wait == Poll \/ PollFails \/ TimeOut \/ Cancel

Next ==
  \/ \E b \in Builds : Script(b) \/ Boot(b) \/ BootFails(b)
  \/ Wait
  \/ Tick

\* The provider keeps polling, which assumes that each query ends: the client has
\* no timeout.  Nothing is assumed of the instance.
Spec == Init /\ [][Next]_vars /\ WF_vars(Poll \/ TimeOut)

-----------------------------------------------------------------------------
TypeOK ==
  /\ now \in Nat /\ start \in Int /\ deadline \in Nat
  /\ call \in Builds \union {0} /\ tag \in Builds \union {0}
  /\ answer \in [Builds -> Answers]
  /\ image \in [Builds -> Builds \union {0}]
  /\ inst \in [Builds -> Instance]
  /\ \A i \in 1 .. Len(log) : log[i] \in Line
  /\ seen \in 0 .. Len(log)
  /\ quiet \in [Builds -> BOOLEAN]
  /\ call # 0 => answer[call] = "none"

\* The Build contract, for the calls that began in quiet: one that answers with its
\* destination had pushed what the destination then names.  Others may answer on an
\* earlier call's RESULT line (see SignalIsOwn) and count as not having answered.
Contract == INSTANCE BuildContract
              WITH Calls <- Builds, Images <- Builds,
                   made <- [b \in Builds |-> IF inst[b].pushed THEN {b} ELSE {}],
                   answer <- [b \in Builds |->
                     CASE answer[b] = "none" \/ (answer[b] = "image" /\ ~quiet[b]) -> NoAnswer
                       [] answer[b] = "image" /\ quiet[b] -> image[b]
                       [] OTHER -> Failed]
ImplementsContract == Contract!Spec

\* A call that began in quiet reports RESULT:FAILURE only of a script that pushed no
\* image, whatever the calls before it left in the log: the user is not sent looking
\* for a failure in the log of a build that worked (waitForInstanceBuild).
FailureIsOwn == \A b \in Builds : answer[b] = "failed" /\ quiet[b] => ~inst[b].pushed

Own(b, i) == log[i].build = b /\ log[i].text # "output"

\* A call that times out has no RESULT line of its own to read at its last query:
\* none has come in time, or a whole page of the window's lines is before it
\* (queryLoki asks for one page, from a start that does not move).
Earlier(i) == {j \in 1 .. Len(log) : log[j].at >= start /\ Before(j, i)}
Unreadable(i) ==
  \/ ~(start <= log[i].at /\ log[i].at <= deadline)
  \/ Cardinality(Earlier(i)) >= Limit
ResultIsRead ==
  [][\A b \in Builds : answer[b] # "timeout" /\ answer'[b] = "timeout" =>
       \A i \in 1 .. seen : Own(b, i) => Unreadable(i)]_vars

\* "finishing with a RESULT:SUCCESS/RESULT:FAILURE line that doubles as the
\* completion signal for waitForInstanceBuild" (buildScript): a call that returns
\* because of a RESULT line returns because of its own script's.  It does not hold:
\* an earlier call's line may be in the window.
SignalIsOwn ==
  \A b \in Builds : answer[b] \in {"image", "failed"} => \E i \in 1 .. Len(log) : Own(b, i)

\* Every call returns, whatever its instance does.
Answered == []<>(call = 0)

==============================================================================
