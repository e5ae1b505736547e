-------------------------- MODULE CdRun_proofs -----------------------------
(***************************************************************************)
(* For any runs, resources and number of signals: what a run of the CD     *)
(* program is to tell the Portal it tells it, it orphans no resource, its  *)
(* exit status is true, and its output arrives whole, in lines and to its  *)
(* last byte.  That the run ends is only model-checked.                    *)
(***************************************************************************)
EXTENDS CdRun, TLAPS, SequenceTheorems, FiniteSetTheorems, WellFoundedInduction

\* None is none of the kinds, causes and states it stands beside.
NoneApart ==
  /\ None \notin {"usage", "pulumi", "plain"} /\ None \notin {"0", "1", "2", "255"}
  /\ None \notin UserSignals \union {"SIGXCPU"}
  /\ None \notin {"delivered", "refused", "aborted"}

-----------------------------------------------------------------------------
(* The inductive invariant.                                                *)

Before == {"fetch", "select", "configure", "start"}
Phases == Before \union {"operate", "upload", "wait", "flush", "report", "exited"}
Started == {"operate", "upload", "wait", "flush"}

Types ==
  /\ \E i \in Invocations :
       cmd = i.cmd /\ targets = i.targets /\ eventsUrl = i.events /\ statesUrl = i.states
  /\ phase \in Phases /\ cause \in Causes /\ listening \in BOOLEAN
  /\ live \subseteq Resources /\ work \subseteq Resources
  /\ made \in Nat /\ got \in Nat /\ got <= made
  /\ engine \in {"idle", "running", "ended"}
  /\ collector \in {"none", "receiving", "sending", "done"}
  /\ events.how \in {None, "delivered", "refused", "aborted"} /\ events.count \in Nat
  /\ err \in {None, "usage", "pulumi", "plain"}
  /\ status \in {None, "0", "1", "2", "255"} \union Causes
  /\ lock \in Writers \union {Nobody}

\* The listener takes the first signal that was sent.
Signals ==
  /\ arrived \in Seq(UserSignals) /\ inbox \in Seq(UserSignals) /\ Len(inbox) <= 1
  /\ listening => \/ inbox = <<>> /\ arrived = <<>>
                  \/ inbox # <<>> /\ arrived # <<>> /\ inbox[1] = arrived[1]
  /\ cause \in UserSignals => arrived # <<>> /\ cause = arrived[1]

\* Where the engine and the collector are while the main goroutine is where it is.
Together ==
  /\ collector = "none" <=> engine = "idle"
  /\ engine = "running" => phase = "operate" /\ cmd \in Operations
  /\ engine # "idle" => err # "usage"
  /\ collector \in {"sending", "done"} => Closed
  /\ phase \in Before => engine = "idle" /\ err = None /\ made = 0
  /\ phase = "start" => cmd \in Operations
  /\ phase \in Started => engine # "idle"
  /\ phase \in {"upload", "wait", "flush"} => Closed
  /\ phase = "flush" => collector = "done"
  /\ phase \in {"report", "exited"} =>
       \/ engine = "idle" /\ (cmd \in Operations => err # None)
       \/ Closed /\ collector = "done"

\* What has been uploaded when.
Sent ==
  /\ collector = "done" /\ eventsUrl =>
       events.how \in {"delivered", "refused"} /\ events.count = got
  /\ phase \in {"wait", "flush", "report", "exited"} /\ Operated
     /\ cmd \in Mutating /\ statesUrl =>
       state.how \in {"delivered", "refused"} /\ state.said = live

\* There is a stack while the engine runs, which leaves nothing out unless it fails.
Kept ==
  /\ stack = "absent" => live = {}
  /\ phase \in {"configure", "start"} /\ cmd \in Operations => stack = "there"
  /\ engine = "running" => stack = "there"
  /\ engine # "idle" /\ err = None /\ cmd = "up" => Asked \ live \subseteq work
  /\ engine # "idle" /\ err = None /\ cmd \in Destroying =>
       Asked \intersect live \subseteq work
  /\ engine = "ended" => work = {}

Left == phase = "exited" => status \in ExitStatus

IInv == Types /\ Signals /\ Together /\ Sent /\ Kept /\ Left

-----------------------------------------------------------------------------
LEMMA Inputs ==
  ASSUME Types
  PROVE  /\ targets \subseteq Resources /\ Asked \subseteq Resources
         /\ eventsUrl \in BOOLEAN /\ statesUrl \in BOOLEAN
         /\ cmd \in Operations \union {"cancel", "outputs", "list"}
  <1>1. PICK i \in Invocations :
          cmd = i.cmd /\ targets = i.targets /\ eventsUrl = i.events /\ statesUrl = i.states
    BY DEF Types
  <1>2. /\ i.targets \subseteq Resources /\ i.events \in BOOLEAN /\ i.states \in BOOLEAN
        /\ i.cmd \in Operations \union {"cancel", "outputs", "list"}
    BY CdRunAssumption DEF CdRunAssumption
  <1> QED BY <1>1, <1>2 DEF Asked

LEMMA InitIInv == NoneApart /\ Init => IInv
  <1> SUFFICES ASSUME NoneApart, Init PROVE IInv
    OBVIOUS
  <1>1. Types
    <2>1. PICK i \in Invocations :
            /\ cmd = i.cmd /\ targets = i.targets
            /\ eventsUrl = i.events /\ statesUrl = i.states
            /\ live = i.live
      BY DEF Init
    <2>2. i.live \subseteq Resources
      BY CdRunAssumption DEF CdRunAssumption
    <2> QED BY <2>1, <2>2 DEF Init, Types, Phases, Before, Causes, LineInit
  <1>2. Signals
    BY DEF Init, Signals, NoneApart
  <1>3. Together /\ Sent /\ Kept /\ Left
    BY DEF Init, Together, Sent, Kept, Left, Before, Started, Closed, Operated
  <1> QED BY <1>1, <1>2, <1>3 DEF IInv

-----------------------------------------------------------------------------
(* Every step keeps the invariant.                                         *)

LEMMA SignalIInv == ASSUME NoneApart, IInv, Signal PROVE IInv'
  <1> USE Inputs DEF Signal, IInv, NoneApart, input, signals, world, engineVars,
     uploads, lwvars
  <1>1. Types' BY DEF Types
  <1>2. Signals'
    <2>1. PICK s \in UserSignals :
            arrived' = Append(arrived, s) /\ inbox' = IF inbox = <<>> THEN <<s>> ELSE inbox
      OBVIOUS
    <2>2. arrived \in Seq(UserSignals) /\ inbox \in Seq(UserSignals) /\ Len(inbox) <= 1
      BY DEF Signals
    <2>3. /\ arrived' \in Seq(UserSignals) /\ arrived' # <<>>
          /\ arrived # <<>> => arrived'[1] = arrived[1]
          /\ arrived = <<>> => arrived'[1] = s
      BY <2>1, <2>2
    <2>4. CASE inbox = <<>>
      <3>1. inbox' = <<s>>
        BY <2>1, <2>4
      <3>2. <<s>> \in Seq(UserSignals) /\ Len(<<s>>) = 1 /\ <<s>>[1] = s /\ <<s>> # <<>>
        OBVIOUS
      <3> QED BY <2>3, <2>4, <3>1, <3>2 DEF Signals
    <2>5. CASE inbox # <<>>
      <3>1. inbox' = inbox
        BY <2>1, <2>5
      <3> QED BY <2>2, <2>3, <2>5, <3>1 DEF Signals
    <2> QED BY <2>4, <2>5
  <1>3. Together' BY DEF Together, Closed
  <1>4. Sent' BY DEF Sent, Operated
  <1>5. Kept' BY DEF Kept, Asked
  <1>6. Left' BY DEF Left
  <1> QED BY <1>1, <1>2, <1>3, <1>4, <1>5, <1>6

LEMMA ListenIInv == ASSUME NoneApart, IInv, Listen PROVE IInv'
  <1> USE Inputs DEF Listen, IInv, NoneApart, input, signals, world, engineVars,
     uploads, lwvars
  <1>0. /\ arrived \in Seq(UserSignals) /\ arrived # <<>> /\ Head(inbox) = arrived[1]
        /\ Head(inbox) \in UserSignals
    BY DEF Signals
  <1>1. Types'
    <2>1. cause' \in Causes
      BY <1>0 DEF Types, Causes
    <2> QED BY <2>1 DEF Types
  <1>2. Signals'
    <2>1. inbox' \in Seq(UserSignals) /\ Len(inbox') = 0
      OBVIOUS
    <2> QED BY <1>0, <2>1 DEF Signals
  <1>3. Together' BY DEF Together, Closed
  <1>4. Sent' BY DEF Sent, Operated
  <1>5. Kept' BY DEF Kept, Asked
  <1>6. Left' BY DEF Left
  <1> QED BY <1>1, <1>2, <1>3, <1>4, <1>5, <1>6

LEMMA TimeOutIInv == ASSUME NoneApart, IInv, TimeOut PROVE IInv'
  <1> USE Inputs DEF TimeOut, IInv, NoneApart, input, signals, world, engineVars,
     uploads, lwvars
  <1>1. Types' BY DEF Types, Causes, Signals, UserSignals
  <1>2. Signals' BY DEF Signals, UserSignals, Causes
  <1>3. Together' BY DEF Together, Closed
  <1>4. Sent' BY DEF Sent, Operated
  <1>5. Kept' BY DEF Kept, Asked
  <1>6. Left' BY DEF Left
  <1> QED BY <1>1, <1>2, <1>3, <1>4, <1>5, <1>6

LEMMA FetchIInv == ASSUME NoneApart, IInv, Fetch PROVE IInv'
  <1> USE Inputs DEF Fetch, IInv, NoneApart, input, signals, world, engineVars, uploads,
     lwvars, Fails
  <1>1. Types' BY DEF Types, Phases, Before
  <1>2. Signals' BY DEF Signals
  <1>3. Together' BY DEF Together, Before, Started, Asked
  <1>4. Sent' BY DEF Together, Sent, Before, Operated
  <1>5. Kept' BY DEF Kept, Asked
  <1>6. Left' BY DEF Left
  <1> QED BY <1>1, <1>2, <1>3, <1>4, <1>5, <1>6

LEMMA SelectIInv == ASSUME NoneApart, IInv, Select PROVE IInv'
  <1> USE Inputs DEF Select, IInv, NoneApart, input, signals, world, engineVars,
     uploads, lwvars, Fails
  <1>1. Types' BY DEF Types, Phases, Before
  <1>2. Signals' BY DEF Signals
  <1>3. Together' BY DEF Together, Before, Started
  <1>4. Sent' BY DEF Together, Sent, Before, Operated
  <1>5. Kept' BY DEF Kept, Operations, Mutating, Asked
  <1>6. Left' BY DEF Left
  <1> QED BY <1>1, <1>2, <1>3, <1>4, <1>5, <1>6

LEMMA ConfigureIInv == ASSUME NoneApart, IInv, Configure PROVE IInv'
  <1> USE Inputs DEF Configure, IInv, NoneApart, input, signals, world, engineVars,
     uploads, lwvars, Fails
  <1>1. Types' BY DEF Types, Phases, Before
  <1>2. Signals' BY DEF Signals
  <1>3. Together' BY DEF Together, Before, Started
  <1>4. Sent' BY DEF Together, Sent, Before, Operated
  <1>5. Kept' BY DEF Kept, Asked
  <1>6. Left' BY DEF Left
  <1> QED BY <1>1, <1>2, <1>3, <1>4, <1>5, <1>6

LEMMA StartIInv == ASSUME NoneApart, IInv, Start PROVE IInv'
  <1> USE Inputs DEF Start, IInv, NoneApart, input, signals, world, engineVars, uploads,
     lwvars, StartCollector, Work
  <1>1. Types' BY DEF Types, Phases
  <1>2. Signals' BY DEF Signals
  <1>3. Together' BY DEF Together, Before
  <1>4. Sent' BY DEF Sent
  <1>5. Kept' BY DEF Together, Kept, Asked
  <1>6. Left' BY DEF Left
  <1> QED BY <1>1, <1>2, <1>3, <1>4, <1>5, <1>6

LEMMA DoResourceIInv == ASSUME NoneApart, IInv, DoResource PROVE IInv'
  <1> USE Inputs DEF DoResource, IInv, NoneApart, input, signals, world, engineVars,
     uploads, lwvars
  <1>1. Types' BY DEF Types
  <1>2. Signals' BY DEF Signals
  <1>3. Together' BY DEF Together, Closed
  <1>4. Sent' BY DEF Together, Sent
  <1>5. Kept' BY DEF Kept, Destroying, Asked
  <1>6. Left' BY DEF Left, ExitStatus
  <1> QED BY <1>1, <1>2, <1>3, <1>4, <1>5, <1>6

LEMMA FailResourceIInv == ASSUME NoneApart, IInv, FailResource PROVE IInv'
  <1> USE Inputs DEF FailResource, IInv, NoneApart, input, signals, world, engineVars,
     uploads, lwvars
  <1>1. Types' BY DEF Types
  <1>2. Signals' BY DEF Signals
  <1>3. Together' BY DEF Together, Closed
  <1>4. Sent' BY DEF Sent, Operated
  <1>5. Kept' BY DEF Kept
  <1>6. Left' BY DEF Together, Left
  <1> QED BY <1>1, <1>2, <1>3, <1>4, <1>5, <1>6

LEMMA LockedIInv == ASSUME NoneApart, IInv, Locked PROVE IInv'
  <1> USE Inputs DEF Locked, IInv, NoneApart, input, signals, world, engineVars,
     uploads, lwvars
  <1>1. Types' BY DEF Types
  <1>2. Signals' BY DEF Signals
  <1>3. Together' BY DEF Together, Closed
  <1>4. Sent' BY DEF Sent, Operated
  <1>5. Kept' BY DEF Kept
  <1>6. Left' BY DEF Together, Left
  <1> QED BY <1>1, <1>2, <1>3, <1>4, <1>5, <1>6

LEMMA EngineDoneIInv == ASSUME NoneApart, IInv, EngineDone PROVE IInv'
  <1> USE Inputs DEF EngineDone, IInv, NoneApart, input, signals, world, engineVars,
     uploads, lwvars, Removes
  <1>1. Types' BY DEF Types
  <1>2. Signals' BY DEF Signals
  <1>3. Together' BY DEF Together, Closed
  <1>4. Sent' BY DEF Sent, Operated
  <1>5. Kept' BY DEF Types, Together, Kept, Asked
  <1>6. Left' BY DEF Left, ExitStatus
  <1> QED BY <1>1, <1>2, <1>3, <1>4, <1>5, <1>6

LEMMA EngineInterruptedIInv == ASSUME NoneApart, IInv, EngineInterrupted PROVE IInv'
  <1> USE Inputs DEF EngineInterrupted, IInv, NoneApart, input, signals, world,
     engineVars, uploads, lwvars
  <1>1. Types' BY DEF Types
  <1>2. Signals' BY DEF Signals
  <1>3. Together' BY DEF Together, Closed
  <1>4. Sent' BY DEF Sent, Operated
  <1>5. Kept' BY DEF Kept
  <1>6. Left' BY DEF Together, Left
  <1> QED BY <1>1, <1>2, <1>3, <1>4, <1>5, <1>6

LEMMA ForwardIInv == ASSUME NoneApart, IInv, Forward PROVE IInv'
  <1> USE Inputs DEF Forward, IInv, NoneApart, input, signals, world, engineVars,
     uploads, lwvars
  <1>1. Types' BY DEF Types
  <1>2. Signals' BY DEF Signals
  <1>3. Together' BY DEF Types, Together, Closed
  <1>4. Sent' BY DEF Sent, Operated
  <1>5. Kept' BY DEF Kept, Asked
  <1>6. Left' BY DEF Left, ExitStatus
  <1> QED BY <1>1, <1>2, <1>3, <1>4, <1>5, <1>6

LEMMA OutputIInv == ASSUME NoneApart, IInv, Output PROVE IInv'
  <1> USE Inputs DEF Output, IInv, NoneApart, input, signals, world, engineVars,
     uploads, lwvars
  <1>1. Types'
    BY DEF Types, Causes, Signals, UserSignals, LineNext, BeginWrite, EmitLine,
       SinkFails, EndWrite
  <1>2. Signals' BY DEF Signals
  <1>3. Together' BY DEF Together, Closed
  <1>4. Sent' BY DEF Sent, Operated
  <1>5. Kept' BY DEF Kept, Asked
  <1>6. Left' BY DEF Left, ExitStatus
  <1> QED BY <1>1, <1>2, <1>3, <1>4, <1>5, <1>6

LEMMA ReturnedIInv == ASSUME NoneApart, IInv, Returned PROVE IInv'
  <1> USE Inputs DEF Returned, IInv, NoneApart, input, signals, world, engineVars,
     uploads, lwvars
  <1>1. Types' BY DEF Types, Phases
  <1>2. Signals' BY DEF Signals
  <1>3. Together' BY DEF Together, Before, Closed
  <1>4. Sent' BY DEF Sent
  <1>5. Kept' BY DEF Kept, Asked
  <1>6. Left' BY DEF Left
  <1> QED BY <1>1, <1>2, <1>3, <1>4, <1>5, <1>6

LEMMA UploadStateIInv == ASSUME NoneApart, IInv, UploadState PROVE IInv'
  <1> USE Inputs DEF UploadState, IInv, NoneApart, input, signals, world, engineVars,
     uploads, lwvars, UploadOutcomes
  <1>1. Types' BY DEF Types, Phases
  <1>2. Signals' BY DEF Signals
  <1>3. Together' BY DEF Together, Before, Closed
  <1>4. Sent' BY DEF Sent
  <1>5. Kept' BY DEF Kept, Asked
  <1>6. Left' BY DEF Left
  <1> QED BY <1>1, <1>2, <1>3, <1>4, <1>5, <1>6

LEMMA DrainedIInv == ASSUME NoneApart, IInv, Drained PROVE IInv'
  <1> USE Inputs DEF Drained, IInv, NoneApart, input, signals, world, engineVars,
     uploads, lwvars
  <1>1. Types' BY DEF Types
  <1>2. Signals' BY DEF Signals
  <1>3. Together' BY DEF Together, Closed
  <1>4. Sent' BY DEF Sent, Operated
  <1>5. Kept' BY DEF Kept, Asked
  <1>6. Left' BY DEF Left, ExitStatus
  <1> QED BY <1>1, <1>2, <1>3, <1>4, <1>5, <1>6

LEMMA UploadEventsIInv == ASSUME NoneApart, IInv, UploadEvents PROVE IInv'
  <1> USE Inputs DEF UploadEvents, IInv, NoneApart, input, signals, world, engineVars,
     uploads, lwvars, UploadOutcomes
  <1>1. Types' BY DEF Types
  <1>2. Signals' BY DEF Signals
  <1>3. Together' BY DEF Together, Closed
  <1>4. Sent' BY DEF Sent, Operated
  <1>5. Kept' BY DEF Kept, Asked
  <1>6. Left' BY DEF Left, ExitStatus
  <1> QED BY <1>1, <1>2, <1>3, <1>4, <1>5, <1>6

LEMMA WaitIInv == ASSUME NoneApart, IInv, Wait PROVE IInv'
  <1> USE Inputs DEF Wait, IInv, NoneApart, input, signals, world, engineVars, uploads,
     lwvars
  <1>1. Types' BY DEF Types, Phases
  <1>2. Signals' BY DEF Signals
  <1>3. Together' BY DEF Together, Before, Closed
  <1>4. Sent' BY DEF Sent, Operated
  <1>5. Kept' BY DEF Kept, Asked
  <1>6. Left' BY DEF Left
  <1> QED BY <1>1, <1>2, <1>3, <1>4, <1>5, <1>6

LEMMA FlushStreamsIInv == ASSUME NoneApart, IInv, FlushStreams PROVE IInv'
  <1> USE Inputs DEF FlushStreams, IInv, NoneApart, input, signals, world, engineVars,
     uploads, lwvars
  <1>1. Types' BY DEF Types, Phases, Causes, Signals, UserSignals, Flush
  <1>2. Signals' BY DEF Signals
  <1>3. Together' BY DEF Together, Before, Closed
  <1>4. Sent' BY DEF Sent, Operated
  <1>5. Kept' BY DEF Kept, Asked
  <1>6. Left' BY DEF Left
  <1> QED BY <1>1, <1>2, <1>3, <1>4, <1>5, <1>6

LEMMA ExitIInv == ASSUME NoneApart, IInv, Exit PROVE IInv'
  <1> USE Inputs DEF Exit, IInv, NoneApart, input, signals, world, engineVars, uploads,
     lwvars, ExitStatus
  <1>1. Types' BY DEF Types, Phases
  <1>2. Signals' BY DEF Signals
  <1>3. Together' BY DEF Together, Before, Started, Closed
  <1>4. Sent' BY DEF Sent, Operated
  <1>5. Kept' BY DEF Kept, Asked
  <1>6. Left' BY DEF Left
  <1> QED BY <1>1, <1>2, <1>3, <1>4, <1>5, <1>6

LEMMA NextIInv == ASSUME NoneApart, IInv, [Next]_vars PROVE IInv'
  <1>1. CASE MainStep
    BY <1>1, NoneApart, FetchIInv, SelectIInv, ConfigureIInv, StartIInv, ReturnedIInv,
       UploadStateIInv, WaitIInv, FlushStreamsIInv, ExitIInv DEF MainStep
  <1>2. CASE CollectorStep
    BY <1>2, NoneApart, ForwardIInv, DrainedIInv, UploadEventsIInv DEF CollectorStep
  <1>3. CASE Signal \/ Listen \/ TimeOut
    BY <1>3, NoneApart, SignalIInv, ListenIInv, TimeOutIInv
  <1>4. CASE \/ DoResource \/ FailResource \/ Locked
             \/ EngineDone \/ EngineInterrupted \/ Output
    BY <1>4, NoneApart, DoResourceIInv, FailResourceIInv, LockedIInv, EngineDoneIInv,
       EngineInterruptedIInv, OutputIInv
  <1>5. CASE UNCHANGED vars
    <2> USE <1>5 DEF vars, input, signals, world, engineVars, uploads, lwvars
    <2>1. Types' /\ Signals' /\ Together'
      BY DEF IInv, Types, Signals, Together, Closed
    <2>2. Sent' /\ Kept' /\ Left'
      BY DEF IInv, Sent, Operated, Kept, Asked, Left, ExitStatus
    <2> QED BY <2>1, <2>2 DEF IInv
  <1> QED BY <1>1, <1>2, <1>3, <1>4, <1>5 DEF Next

LEMMA Always == ASSUME NoneApart PROVE Spec => []IInv
  <1>1. IInv /\ [Next]_vars => IInv'
    BY NextIInv, NoneApart
  <1> QED BY <1>1, InitIInv, NoneApart, PTL DEF Spec

-----------------------------------------------------------------------------
(* Induction and recursion, from the well-foundedness of the finite sets.  *)

\* A set with 0 and the successor of each of its elements is that of the naturals: the
\* least number outside, if any, ends a minimal interval.
LEMMA Induction ==
  ASSUME NEW T \in SUBSET Nat, 0 \in T, \A n \in T : n + 1 \in T
  PROVE  T = Nat
  <1> SUFFICES ASSUME NEW m \in Nat \ T PROVE FALSE
    OBVIOUS
  <1> DEFINE Family == {0 .. k : k \in (0 .. m) \ T}
  <1>1. PICK X \in Family : \A Y \in Family : <<Y, X>> \notin StrictSubsetOrdering(0 .. m)
    <2>1. FiniteSubsetsOf(0 .. m) = SUBSET (0 .. m)
      <3>1. IsFiniteSet(0 .. m)
        BY FS_Interval
      <3> QED BY <3>1, FS_FiniteSubsetsOfFinite
    <2>2. Family \subseteq SUBSET (0 .. m) /\ Family # {}
      OBVIOUS
    <2>3. IsWellFoundedOn(StrictSubsetOrdering(0 .. m), FiniteSubsetsOf(0 .. m))
      BY FS_StrictSubsetOrderingWellFounded
    <2> HIDE DEF Family
    <2>4. Family \subseteq FiniteSubsetsOf(0 .. m) /\ Family # {}
      BY <2>1, <2>2
    <2> QED BY <2>3, <2>4, WFMin
  <1>2. PICK k \in (0 .. m) \ T : X = 0 .. k
    BY <1>1
  <1>3. k # 0 /\ k - 1 \in (0 .. m) \ T
    BY <1>2
  <1>4. /\ (0 .. k - 1) \subseteq 0 .. k /\ k \in 0 .. k /\ k \notin 0 .. k - 1
        /\ 0 .. k \subseteq 0 .. m
    BY <1>3
  <1>5. <<0 .. k - 1, 0 .. k>> \in StrictSubsetOrdering(0 .. m)
    BY <1>4 DEF StrictSubsetOrdering
  <1> QED BY <1>1, <1>2, <1>3, <1>5

\* Two functions start alike at m and go on alike to n: they are alike from m to n.
AlikeFrom(f, g, m, n) ==
  /\ f[m] = g[m]
  /\ \A i \in m .. n : i # m /\ f[i - 1] = g[i - 1] => f[i] = g[i]

LEMMA Agree ==
  ASSUME NEW m \in Nat, NEW n \in Nat, NEW f, NEW g, AlikeFrom(f, g, m, n)
  PROVE  \A i \in m .. n : f[i] = g[i]
  <1> DEFINE T == {i \in Nat : m + i <= n => f[m + i] = g[m + i]}
  <1>1. 0 \in T
    BY DEF AlikeFrom
  <1>2. ASSUME NEW i \in T PROVE i + 1 \in T
    <2>1. i \in Nat /\ i + 1 \in Nat /\ m + (i + 1) = (m + i) + 1
      OBVIOUS
    <2>2. SUFFICES ASSUME m + (i + 1) <= n PROVE f[m + (i + 1)] = g[m + (i + 1)]
      BY <2>1
    <2>3. m + (i + 1) \in m .. n /\ (m + (i + 1)) - 1 = m + i /\ m + (i + 1) # m
      BY <2>1, <2>2
    <2>4. f[m + i] = g[m + i]
      BY <1>2, <2>2
    <2> QED BY <2>3, <2>4 DEF AlikeFrom
  <1>3. T = Nat
    <2>1. T \in SUBSET Nat
      OBVIOUS
    <2> HIDE DEF T
    <2> QED BY <1>1, <1>2, <2>1, Induction
  <1>4. ASSUME NEW i \in m .. n PROVE f[i] = g[i]
    <2>1. i - m \in Nat /\ m + (i - m) = i
      OBVIOUS
    <2>2. i - m \in T
      BY <1>3, <2>1
    <2> QED BY <2>1, <2>2
  <1> QED BY <1>4

\* The recursion that starts at base and takes the i-th step at i.
Unfolds(f, S, base, step, n) ==
  /\ f \in [0 .. n -> S]
  /\ f[0] = base /\ \A i \in 1 .. n : f[i] = step[i][f[i - 1]]

\* A recursion over 0 .. n has a solution.
LEMMA Recursion ==
  ASSUME NEW S, NEW base \in S, NEW step \in [Nat -> [S -> S]], NEW n \in Nat
  PROVE  \E f : Unfolds(f, S, base, step, n)
  <1> DEFINE Solves(f, m) == f[0] = base /\ \A i \in 1 .. m : f[i] = step[i][f[i - 1]]
             T == {m \in Nat : \E f \in [0 .. m -> S] : Solves(f, m)}
  <1>1. 0 \in T
    <2>1. [i \in 0 .. 0 |-> base] \in [0 .. 0 -> S] 
      OBVIOUS
    <2>2. Solves([i \in 0 .. 0 |-> base], 0)
      OBVIOUS
    <2> QED BY <2>1, <2>2
  <1>2. ASSUME NEW m \in T PROVE m + 1 \in T
    <2>1. PICK f \in [0 .. m -> S] : Solves(f, m)
      BY <1>2
    <2> DEFINE g == [i \in 0 .. m + 1 |-> IF i \in 0 .. m THEN f[i] ELSE step[m + 1][f[m]]]
    <2>2. m \in Nat /\ m + 1 \in Nat /\ f[m] \in S /\ step[m + 1][f[m]] \in S
      BY <1>2
    <2>3. g \in [0 .. m + 1 -> S]
      BY <2>2
    <2>4. ASSUME NEW i \in 1 .. m + 1 PROVE g[i] = step[i][g[i - 1]]
      <3>1. CASE i \in 1 .. m
        <4>1. f[i] = step[i][f[i - 1]]
          BY <2>1, <3>1
        <4> QED BY <2>2, <3>1, <4>1
      <3>2. CASE i = m + 1
        BY <2>2, <3>2
      <3> QED BY <2>2, <3>1, <3>2
    <2>5. Solves(g, m + 1)
      BY <2>1, <2>2, <2>4
    <2> HIDE DEF g
    <2> QED BY <2>2, <2>3, <2>5
  <1>3. T = Nat
    <2> HIDE DEF T
    <2>1. T \in SUBSET Nat
      BY DEF T
    <2> QED BY <1>1, <1>2, <2>1, Induction
  <1> QED BY <1>3 DEF Unfolds

\* What FlattenSeq is defined by.
LEMMA Flattened ==
  ASSUME NEW B, NEW s \in Seq(Seq(B)), s # <<>>
  PROVE  \E g \in [0 .. Len(s) -> Seq(B)] :
           /\ g[0] = <<>>
           /\ \A i \in 1 .. Len(s) : g[i] = g[i - 1] \o s[i]
           /\ FlattenSeq(s) = g[Len(s)]
  <1> DEFINE flatten[i \in 1 .. Len(s)] == IF i = 1 THEN s[i] ELSE flatten[i - 1] \o s[i]
             step == [i \in Nat |->
                        [w \in Seq(B) |-> IF i \in 1 .. Len(s) THEN w \o s[i] ELSE <<>>]]
  <1>1. Len(s) \in Nat \ {0} /\ FlattenSeq(s) = flatten[Len(s)]
    BY EmptySeq DEF FlattenSeq
  <1> HIDE DEF flatten
  <1>2. PICK f : Unfolds(f, Seq(B), <<>>, step, Len(s))
    <2>1. <<>> \in Seq(B) /\ \A i \in 1 .. Len(s) : s[i] \in Seq(B)
      BY <1>1, ElementOfSeq, EmptySeq
    <2>2. step \in [Nat -> [Seq(B) -> Seq(B)]]
      BY <2>1, ConcatProperties
    <2> HIDE DEF step
    <2> QED BY <1>1, <2>1, <2>2, Recursion
  <1>3. /\ f \in [0 .. Len(s) -> Seq(B)] /\ f[0] = <<>>
        /\ \A i \in 1 .. Len(s) : f[i] = f[i - 1] \o s[i]
    <2>1. f \in [0 .. Len(s) -> Seq(B)] /\ f[0] = <<>>
      BY <1>2 DEF Unfolds
    <2>2. ASSUME NEW i \in 1 .. Len(s) PROVE f[i] = f[i - 1] \o s[i]
      <3>1. i - 1 \in 0 .. Len(s) /\ i \in Nat
        BY <1>1
      <3>2. f[i] = step[i][f[i - 1]] /\ f[i - 1] \in Seq(B)
        BY <1>2, <2>1, <3>1 DEF Unfolds
      <3> QED BY <3>1, <3>2
    <2> QED BY <2>1, <2>2
  <1> DEFINE h == [i \in 1 .. Len(s) |-> f[i]]
  <1>4. h = [i \in 1 .. Len(s) |-> IF i = 1 THEN s[i] ELSE h[i - 1] \o s[i]]
    <2>1. f[1] = s[1]
      <3>1. 1 \in 1 .. Len(s)
        BY <1>1
      <3>2. f[1] = f[0] \o s[1] /\ f[0] = <<>>
        BY <1>3, <3>1
      <3>3. s[1] \in Seq(B)
        BY <3>1, ElementOfSeq
      <3> QED BY <3>2, <3>3, ConcatEmptySeq
    <2>2. ASSUME NEW i \in 1 .. Len(s)
          PROVE  h[i] = IF i = 1 THEN s[i] ELSE h[i - 1] \o s[i]
      <3>1. CASE i = 1
        BY <2>1, <3>1
      <3>2. CASE i # 1
        <4>1. i - 1 \in 1 .. Len(s) /\ h[i] = f[i] /\ h[i - 1] = f[i - 1]
          BY <1>1, <3>2
        <4> QED BY <1>3, <3>2, <4>1
      <3> QED BY <3>1, <3>2
    <2> QED BY <2>2
  <1> HIDE DEF h
  <1>5. PICK u : /\ u = [i \in 1 .. Len(s) |-> IF i = 1 THEN s[i] ELSE u[i - 1] \o s[i]]
                 /\ FlattenSeq(s) = u[Len(s)]
    <2>1. flatten = [i \in 1 .. Len(s) |->
                       IF i = 1 THEN s[i] ELSE flatten[i - 1] \o s[i]]
      BY <1>4 DEF flatten
    <2> QED BY <1>1, <2>1
  <1>6. \A i \in 1 .. Len(s) : u[i] = f[i]
    <2>1. u[1] = f[1]
      <3>1. u[1] = s[1] /\ h[1] = s[1]
        BY <1>1, <1>4, <1>5
      <3>2. h[1] = f[1]
        BY <1>1 DEF h
      <3> QED BY <3>1, <3>2
    <2>2. \A i \in 1 .. Len(s) : i # 1 /\ u[i - 1] = f[i - 1] => u[i] = f[i]
      BY <1>3, <1>5
    <2>3. 1 \in Nat /\ Len(s) \in Nat
      BY <1>1
    <2>4. AlikeFrom(u, f, 1, Len(s))
      BY <2>1, <2>2 DEF AlikeFrom
    <2> QED BY <2>3, <2>4, Agree
  <1>7. FlattenSeq(s) = f[Len(s)]
    <2>1. FlattenSeq(s) = u[Len(s)] /\ Len(s) \in 1 .. Len(s)
      BY <1>1, <1>5
    <2> QED BY <1>6, <2>1
  <1> QED BY <1>3, <1>7

LEMMA FlatEmpty == FlattenSeq(<<>>) = <<>>
  BY DEF FlattenSeq

\* What it flattens to is a sequence of the same bytes.
LEMMA FlatType ==
  ASSUME NEW B, NEW s \in Seq(Seq(B))
  PROVE  FlattenSeq(s) \in Seq(B)
  <1>1. CASE s = <<>>
    BY <1>1, FlatEmpty, EmptySeq
  <1>2. CASE s # <<>>
    <2>1. PICK g \in [0 .. Len(s) -> Seq(B)] : FlattenSeq(s) = g[Len(s)]
      BY <1>2, Flattened
    <2>2. Len(s) \in 0 .. Len(s)
      BY LenProperties
    <2> QED BY <2>1, <2>2
  <1> QED BY <1>1, <1>2

\* The last string comes out last.
LEMMA FlatAppend ==
  ASSUME NEW B, NEW s \in Seq(Seq(B)), NEW x \in Seq(B)
  PROVE  FlattenSeq(Append(s, x)) = FlattenSeq(s) \o x
  <1> DEFINE t == Append(s, x)
  <1>1. /\ t \in Seq(Seq(B)) /\ t # <<>> /\ Len(t) = Len(s) + 1
        /\ \A i \in 1 .. Len(s) : t[i] = s[i]
        /\ t[Len(s) + 1] = x /\ Len(s) \in Nat
    BY AppendProperties, LenProperties
  <1> HIDE DEF t
  <1>2. PICK g \in [0 .. Len(t) -> Seq(B)] :
          /\ g[0] = <<>> /\ \A i \in 1 .. Len(t) : g[i] = g[i - 1] \o t[i]
          /\ FlattenSeq(t) = g[Len(t)]
    BY <1>1, Flattened
  <1>3. FlattenSeq(t) = g[Len(s)] \o x
    <2>1. Len(t) \in 1 .. Len(t) /\ Len(t) - 1 = Len(s) /\ t[Len(t)] = x
      BY <1>1
    <2> QED BY <1>2, <2>1
  <1>4. FlattenSeq(s) = g[Len(s)]
    <2>1. CASE s = <<>>
      BY <1>2, <2>1, FlatEmpty, EmptySeq
    <2>2. CASE s # <<>>
      <3>1. PICK f \in [0 .. Len(s) -> Seq(B)] :
              /\ f[0] = <<>> /\ \A i \in 1 .. Len(s) : f[i] = f[i - 1] \o s[i]
              /\ FlattenSeq(s) = f[Len(s)]
        BY <2>2, Flattened
      <3>2. ASSUME NEW i \in 0 .. Len(s), i # 0 /\ f[i - 1] = g[i - 1]
            PROVE  f[i] = g[i]
        <4>1. i \in 1 .. Len(s) /\ i \in 1 .. Len(t)
          BY <1>1, <3>2
        <4> QED BY <1>1, <1>2, <3>1, <3>2, <4>1
      <3>3. 0 \in Nat /\ Len(s) \in Nat /\ f[0] = g[0]
        BY <1>1, <1>2, <3>1
      <3>4. \A i \in 0 .. Len(s) : f[i] = g[i]
        <4>1. AlikeFrom(f, g, 0, Len(s))
          BY <3>2, <3>3 DEF AlikeFrom
        <4> QED BY <3>3, <4>1, Agree
      <3> QED BY <1>1, <3>1, <3>4
    <2> QED BY <2>1, <2>2
  <1> QED BY <1>3, <1>4 DEF t

LEMMA NonEmpty == \A S : \A s \in Seq(S) : Len(s) # 0 => s # <<>>
  BY EmptySeq

LEMMA ConcatAppend ==
  ASSUME NEW B, NEW u \in Seq(B), NEW v \in Seq(B), NEW b \in B
  PROVE  u \o Append(v, b) = Append(u \o v, b)
  <1>1. <<b>> \in Seq(B)
    OBVIOUS
  <1>2. Append(v, b) = v \o <<b>>
    BY AppendIsConcat
  <1>3. u \o v \in Seq(B)
    BY ConcatProperties
  <1>4. Append(u \o v, b) = (u \o v) \o <<b>>
    BY <1>3, AppendIsConcat
  <1> QED BY <1>1, <1>2, <1>4, ConcatAssociative

LEMMA AppendNothing ==
  ASSUME NEW B, NEW s \in Seq(Seq(B))
  PROVE  Append(s, <<>>) \in Seq(Seq(B)) /\ Append(s, <<>>) # <<>>
  <1>1. <<>> \in Seq(B)
    BY EmptySeq
  <1> QED BY <1>1, AppendProperties

\* The step of the induction below.
LEMMA FlatStep ==
  ASSUME NEW B, NEW h \in Seq(Seq(B)), NEW x \in Seq(B), h # <<>>,
         FlattenSeq(h) = Head(h) \o FlattenSeq(Tail(h)), NEW t, t = Append(h, x)
  PROVE  FlattenSeq(t) = Head(t) \o FlattenSeq(Tail(t))
  <1>1. Head(h) \in Seq(B) /\ Tail(h) \in Seq(Seq(B))
    BY HeadTailProperties
  <1>2. FlattenSeq(Tail(h)) \in Seq(B)
    BY <1>1, FlatType
  <1>3. Head(t) = Head(h) /\ Tail(t) = Append(Tail(h), x)
    BY HeadTailAppend
  <1>4. FlattenSeq(Tail(t)) = FlattenSeq(Tail(h)) \o x
    BY <1>1, <1>3, FlatAppend
  <1>5. FlattenSeq(t) = (Head(h) \o FlattenSeq(Tail(h))) \o x
    BY FlatAppend
  <1>6. PICK u, v : u = Head(h) /\ v = FlattenSeq(Tail(h))
    OBVIOUS
  <1>7. (u \o v) \o x = u \o (v \o x)
    <2>1. u \in Seq(B) /\ v \in Seq(B) /\ x \in Seq(B)
      BY <1>1, <1>2, <1>6
    <2> QED BY ONLY <2>1, ConcatAssociative
  <1> QED BY <1>3, <1>4, <1>5, <1>6, <1>7

\* The first string comes out first.
LEMMA FlatHeadTail ==
  ASSUME NEW B, NEW s \in Seq(Seq(B)), s # <<>>
  PROVE  FlattenSeq(s) = Head(s) \o FlattenSeq(Tail(s))
  <1> DEFINE T == {n \in Nat : \A t \in Seq(Seq(B)) :
                     Len(t) = n + 1 => FlattenSeq(t) = Head(t) \o FlattenSeq(Tail(t))}
  <1>1. 0 \in T
    <2>1. SUFFICES ASSUME NEW t \in Seq(Seq(B)), Len(t) = 1
                   PROVE  FlattenSeq(t) = Head(t) \o FlattenSeq(Tail(t))
      OBVIOUS
    <2>2. t # <<>> /\ <<>> \in Seq(Seq(B)) /\ <<>> \in Seq(B)
      <3>1. <<>> \in Seq(Seq(B)) /\ <<>> \in Seq(B)
        BY EmptySeq
      <3>2. t # <<>>
        <4>1. Len(t) # 0
          BY <2>1
        <4> QED BY <4>1, NonEmpty, Zenon
      <3> QED BY <3>1, <3>2
    <2>3. PICK h \in Seq(Seq(B)), x \in Seq(B) : t = Append(h, x)
      BY <2>2, SequenceEmptyOrAppend
    <2>4. h = <<>>
      BY <2>1, <2>3, AppendProperties, LenProperties, EmptySeq
    <2>5. Head(t) = x /\ Tail(t) = <<>>
      BY <2>2, <2>3, <2>4, HeadTailAppend
    <2>6. FlattenSeq(t) = <<>> \o x
      BY <2>2, <2>3, <2>4, FlatAppend, FlatEmpty
    <2> QED BY <2>5, <2>6, FlatEmpty, ConcatEmptySeq
  <1>2. ASSUME NEW n \in T PROVE n + 1 \in T
    <2>0. n \in Nat /\ n + 1 \in Nat
      OBVIOUS
    <2>1. SUFFICES ASSUME NEW t \in Seq(Seq(B)), Len(t) = (n + 1) + 1
                   PROVE  FlattenSeq(t) = Head(t) \o FlattenSeq(Tail(t))
      BY <2>0
    <2>2. PICK h \in Seq(Seq(B)), x \in Seq(B) : t = Append(h, x)
      <3>1. t # <<>>
        BY <2>0, <2>1
      <3> QED BY <3>1, SequenceEmptyOrAppend
    <2>3. Len(h) = n + 1
      BY <2>0, <2>1, <2>2, AppendProperties, LenProperties
    <2>4. h # <<>>
      BY <2>0, <2>3, EmptySeq
    <2>5. FlattenSeq(h) = Head(h) \o FlattenSeq(Tail(h))
      BY <1>2, <2>3
    <2> QED BY <2>2, <2>4, <2>5, FlatStep
  <1>3. T = Nat
    <2>1. T \in SUBSET Nat
      OBVIOUS
    <2> HIDE DEF T
    <2> QED BY <1>1, <1>2, <2>1, Induction
  <1>4. Len(s) - 1 \in Nat /\ Len(s) = (Len(s) - 1) + 1
    BY EmptySeq
  <1>5. Len(s) - 1 \in T
    BY <1>3, <1>4
  <1> QED BY <1>4, <1>5

LEMMA FrontLast ==
  ASSUME NEW S, NEW s \in Seq(S), s # <<>>
  PROVE  Front(s) \in Seq(S) /\ Last(s) \in S /\ s = Append(Front(s), Last(s))
  <1>1. PICK t \in Seq(S), x \in S : s = Append(t, x)
    BY SequenceEmptyOrAppend
  <1>2. Len(s) = Len(t) + 1 /\ Len(t) \in Nat /\ s[Len(t) + 1] = x
        /\ \A i \in 1 .. Len(t) : s[i] = t[i]
    BY <1>1, AppendProperties, LenProperties
  <1>3. SubSeq(s, 1, Len(s) - 1) = t
    <2>1. Len(s) - 1 = Len(t) /\ 1 \in Int /\ Len(t) \in Int
      BY <1>2
    <2>2. \A i \in 1 .. Len(t) : s[i] \in S
      BY <1>2, ElementOfSeq
    <2>3. /\ SubSeq(s, 1, Len(t)) \in Seq(S)
          /\ Len(SubSeq(s, 1, Len(t))) = Len(t)
          /\ \A i \in 1 .. Len(t) : SubSeq(s, 1, Len(t))[i] = t[i]
      BY <1>2, <2>1, <2>2, SubSeqProperties
    <2> QED BY <2>1, <2>3, SeqEqual
  <1> QED BY <1>1, <1>2, <1>3 DEF Front, Last

NoNewline(s) == \A i \in DOMAIN s : s[i] # NL

\* Whole lines, and a last one without its newline.
Pieces(q) ==
  /\ q # <<>>
  /\ \A i \in 1 .. Len(q) : i < Len(q) => IsWholeLine(q[i])
  /\ NoNewline(q[Len(q)])

\* Pieces with one more.
LEMMA PiecesAppend ==
  ASSUME NEW B, NEW s \in Seq(Seq(B)), NEW x \in Seq(B)
  PROVE  Pieces(Append(s, x)) <=> (\A i \in 1 .. Len(s) : IsWholeLine(s[i])) /\ NoNewline(x)
  <1> DEFINE q == Append(s, x)
  <1>1. /\ q # <<>> /\ Len(q) = Len(s) + 1 /\ q[Len(s) + 1] = x
        /\ \A i \in 1 .. Len(s) : q[i] = s[i]
        /\ Len(s) \in Nat
    BY AppendProperties, LenProperties
  <1> HIDE DEF q
  <1>2. Pieces(q) <=> /\ \A i \in 1 .. Len(s) + 1 : i < Len(s) + 1 => IsWholeLine(q[i])
                      /\ NoNewline(x)
    BY <1>1 DEF Pieces
  <1>3. (\A i \in 1 .. Len(s) + 1 : i < Len(s) + 1 => IsWholeLine(q[i]))
        <=> \A i \in 1 .. Len(s) : IsWholeLine(q[i])
    <2>1. \A i : i \in 1 .. Len(s) + 1 /\ i < Len(s) + 1 <=> i \in 1 .. Len(s)
      BY <1>1
    <2> QED BY <2>1, Zenon
  <1>4. (\A i \in 1 .. Len(s) : IsWholeLine(q[i]))
        <=> \A i \in 1 .. Len(s) : IsWholeLine(s[i])
    BY <1>1
  <1> QED BY <1>2, <1>3, <1>4 DEF q

\* A line without a newline becomes whole when one is joined to it.
LEMMA LineAppend ==
  ASSUME NEW B, NEW s \in Seq(B), NEW b \in B, NoNewline(s)
  PROVE  IF b = NL THEN IsWholeLine(Append(s, b)) ELSE NoNewline(Append(s, b))
  <1> DEFINE q == Append(s, b)
  <1>1. /\ q # <<>> /\ Len(q) = Len(s) + 1 /\ q[Len(s) + 1] = b
        /\ \A i \in 1 .. Len(s) : q[i] = s[i]
        /\ Len(s) \in Nat /\ DOMAIN q = 1 .. Len(s) + 1 /\ DOMAIN s = 1 .. Len(s)
    BY AppendProperties, LenProperties
  <1> HIDE DEF q
  <1>2. IF b = NL THEN IsWholeLine(q) ELSE NoNewline(q)
    BY <1>1 DEF IsWholeLine, NoNewline
  <1> QED BY <1>2 DEF q

\* And also when a whole line is.
LEMMA LineConcat ==
  ASSUME NEW B, NEW s \in Seq(B), NEW t \in Seq(B), NoNewline(s)
  PROVE  /\ IsWholeLine(t) => IsWholeLine(s \o t)
         /\ NoNewline(t) => NoNewline(s \o t)
  <1> DEFINE q == s \o t
  <1>1. /\ q \in Seq(B) /\ Len(q) = Len(s) + Len(t) /\ DOMAIN q = 1 .. Len(s) + Len(t)
        /\ \A i \in 1 .. Len(s) : q[i] = s[i]
        /\ \A i \in 1 .. Len(s) + Len(t) : i > Len(s) => q[i] = t[i - Len(s)]
        /\ Len(s) \in Nat /\ Len(t) \in Nat
        /\ DOMAIN s = 1 .. Len(s) /\ DOMAIN t = 1 .. Len(t)
    BY ConcatProperties, LenProperties
  <1> HIDE DEF q
  <1>2. ASSUME IsWholeLine(t) PROVE IsWholeLine(q)
    <2>1. Len(t) > 0 /\ q # <<>>
      BY <1>1, <1>2 DEF IsWholeLine
    <2>2. ASSUME NEW i \in DOMAIN q PROVE q[i] = NL <=> i = Len(q)
      <3>1. CASE i <= Len(s)
        BY <1>1, <2>1, <3>1 DEF NoNewline
      <3>2. CASE i > Len(s)
        <4>1. i - Len(s) \in 1 .. Len(t) /\ q[i] = t[i - Len(s)]
          BY <1>1, <3>2
        <4>2. t[i - Len(s)] = NL <=> i - Len(s) = Len(t)
          BY <1>1, <1>2, <4>1 DEF IsWholeLine
        <4> QED BY <1>1, <3>2, <4>1, <4>2
      <3> QED BY <1>1, <3>1, <3>2
    <2> QED BY <2>1, <2>2 DEF IsWholeLine
  <1>3. ASSUME NoNewline(t) PROVE NoNewline(q)
    <2>1. ASSUME NEW i \in DOMAIN q PROVE q[i] # NL
      <3>1. CASE i <= Len(s)
        BY <1>1, <3>1 DEF NoNewline
      <3>2. CASE i > Len(s)
        <4>1. i - Len(s) \in 1 .. Len(t) /\ q[i] = t[i - Len(s)]
          BY <1>1, <3>2
        <4> QED BY <1>1, <1>3, <4>1 DEF NoNewline
      <3> QED BY <1>1, <3>1, <3>2
    <2> QED BY <2>1 DEF NoNewline
  <1> QED BY <1>2, <1>3 DEF q

\* What SplitAfter returns: the bytes of p, cut behind every newline.
LEMMA Splits ==
  ASSUME NEW B, NEW p \in Seq(B)
  PROVE  /\ SplitAfter(p) \in Seq(Seq(B)) /\ Pieces(SplitAfter(p))
         /\ FlattenSeq(SplitAfter(p)) = p
  <1> DEFINE Add(q, b) == LET longer == Append(Front(q), Append(Last(q), b))
                          IN IF b = NL THEN Append(longer, <<>>) ELSE longer
             split[n \in 0 .. Len(p)] ==
               IF n = 0 THEN << <<>> >> ELSE Add(split[n - 1], p[n])
             Some == Seq(Seq(B)) \ {<<>>}
             step == [i \in Nat |->
                        [q \in Some |-> IF i \in 1 .. Len(p) THEN Add(q, p[i]) ELSE q]]
  <1>1. ASSUME NEW q \in Some, NEW b \in B
        PROVE  /\ Add(q, b) \in Some
               /\ FlattenSeq(Add(q, b)) = Append(FlattenSeq(q), b)
               /\ Pieces(q) => Pieces(Add(q, b))
    <2> DEFINE front == Front(q)
               line == Last(q)
               longer == Append(front, Append(line, b))
    <2>1. front \in Seq(Seq(B)) /\ line \in Seq(B) /\ q = Append(front, line)
      BY FrontLast
    <2>2. Append(line, b) \in Seq(B) /\ <<>> \in Seq(B)
      BY <2>1, AppendProperties, EmptySeq
    <2>3. longer \in Seq(Seq(B)) /\ longer # <<>>
      BY <2>1, <2>2, AppendProperties
    <2>4. Add(q, b) = IF b = NL THEN Append(longer, <<>>) ELSE longer
      OBVIOUS
    <2> HIDE DEF Add, front, line
    <2>5. Add(q, b) \in Some
      <3> HIDE DEF longer
      <3>1. Append(longer, <<>>) \in Seq(Seq(B)) /\ Append(longer, <<>>) # <<>>
        BY <2>3, AppendNothing
      <3> QED BY <2>3, <2>4, <3>1
    <2>6. FlattenSeq(longer) = Append(FlattenSeq(q), b)
      <3>1. FlattenSeq(longer) = FlattenSeq(front) \o Append(line, b)
        BY <2>1, <2>2, FlatAppend
      <3>2. FlattenSeq(q) = FlattenSeq(front) \o line
        BY <2>1, FlatAppend
      <3>3. FlattenSeq(front) \in Seq(B)
        BY <2>1, FlatType
      <3>4. PICK u : u = FlattenSeq(front)
        OBVIOUS
      <3>5. u \o Append(line, b) = Append(u \o line, b)
        BY <2>1, <3>3, <3>4, ConcatAppend
      <3> QED BY <3>1, <3>2, <3>4, <3>5
    <2>7. FlattenSeq(Append(longer, <<>>)) = FlattenSeq(longer)
      <3> HIDE DEF longer
      <3>1. FlattenSeq(longer) \in Seq(B)
        BY <2>3, FlatType
      <3> QED BY <2>2, <2>3, <3>1, FlatAppend, ConcatEmptySeq
    <2>8. ASSUME Pieces(q) PROVE Pieces(Add(q, b))
      <3>1. (\A i \in 1 .. Len(front) : IsWholeLine(front[i])) /\ NoNewline(line)
        BY <2>1, <2>8, PiecesAppend
      <3>2. IF b = NL THEN IsWholeLine(Append(line, b)) ELSE NoNewline(Append(line, b))
        BY <2>1, <3>1, LineAppend
      <3>3. CASE b # NL
        BY <2>1, <2>2, <2>4, <3>1, <3>2, <3>3, PiecesAppend
      <3>4. CASE b = NL
        <4>1. NoNewline(<<>>)
          BY DEF NoNewline
        <4>2. \A i \in 1 .. Len(longer) : IsWholeLine(longer[i])
          <5>1. /\ Len(longer) = Len(front) + 1 /\ Len(front) \in Nat
                /\ \A i \in 1 .. Len(front) : longer[i] = front[i]
                /\ longer[Len(front) + 1] = Append(line, b)
            BY <2>1, <2>2, AppendProperties, LenProperties
          <5> HIDE DEF longer
          <5>2. ASSUME NEW i \in 1 .. Len(longer) PROVE IsWholeLine(longer[i])
            <6>1. CASE i = Len(front) + 1
              BY <3>2, <3>4, <5>1, <6>1
            <6>2. CASE i \in 1 .. Len(front)
              BY <3>1, <5>1, <6>2
            <6> QED BY <5>1, <6>1, <6>2
          <5> QED BY <5>2
        <4>3. Pieces(Append(longer, <<>>))
          <5> HIDE DEF longer
          <5> QED BY <2>2, <2>3, <4>1, <4>2, PiecesAppend
        <4> QED BY <2>4, <3>4, <4>3
      <3> QED BY <3>3, <3>4
    <2> QED BY <2>4, <2>5, <2>6, <2>7, <2>8
  <1>2. SplitAfter(p) = split[Len(p)]
    BY DEF SplitAfter
  <1> HIDE DEF Add
  <1>3. << <<>> >> \in Some /\ Len(p) \in Nat /\ \A i \in 1 .. Len(p) : p[i] \in B
    <2>1. << <<>> >> \in Seq(Seq(B)) /\ << <<>> >> # <<>>
      BY EmptySeq
    <2> QED BY <2>1, LenProperties, ElementOfSeq
  <1>4. PICK f : Unfolds(f, Some, << <<>> >>, step, Len(p))
    <2>1. step \in [Nat -> [Some -> Some]]
      BY <1>1, <1>3
    <2> HIDE DEF step, Some, split
    <2> QED BY <1>3, <2>1, Recursion
  <1>5. \E u : u = [n \in 0 .. Len(p) |-> IF n = 0 THEN << <<>> >> ELSE Add(u[n - 1], p[n])]
    <2> DEFINE h == [n \in 0 .. Len(p) |-> f[n]]
    <2>1. ASSUME NEW n \in 0 .. Len(p)
          PROVE  h[n] = IF n = 0 THEN << <<>> >> ELSE Add(h[n - 1], p[n])
      <3>1. CASE n = 0
        BY <1>4, <3>1 DEF Unfolds
      <3>2. CASE n # 0
        <4>1. n \in 1 .. Len(p) /\ n - 1 \in 0 .. Len(p) /\ n \in Nat
          BY <1>3, <3>2
        <4>2. f[n] = step[n][f[n - 1]] /\ f[n - 1] \in Some
          <5> HIDE DEF step, Some
          <5> QED BY <1>4, <4>1 DEF Unfolds
        <4> HIDE DEF Some
        <4> QED BY <3>2, <4>1, <4>2
      <3> QED BY <3>1, <3>2
    <2> QED BY <2>1
  <1>6. PICK u : /\ u = [n \in 0 .. Len(p) |->
                         IF n = 0 THEN << <<>> >> ELSE Add(u[n - 1], p[n])]
                 /\ SplitAfter(p) = u[Len(p)]
    <2>1. split = [n \in 0 .. Len(p) |->
                     IF n = 0 THEN << <<>> >> ELSE Add(split[n - 1], p[n])]
      BY <1>5
    <2> QED BY <1>2, <2>1
  <1> HIDE DEF split, step, Some
  <1> DEFINE Cut(n) == u[n] \in Some /\ Pieces(u[n]) /\ FlattenSeq(u[n]) = SubSeq(p, 1, n)
             T == {n \in Nat : n <= Len(p) => Cut(n)}
  <1>7. 0 \in T
    <2>1. u[0] = << <<>> >> /\ Len(p) \in Nat
      BY <1>3, <1>6
    <2>2. Pieces(<< <<>> >>)
      BY DEF Pieces, NoNewline
    <2>3. FlattenSeq(<< <<>> >>) = <<>>
      BY DEF FlattenSeq
    <2>4. SubSeq(p, 1, 0) = <<>>
      BY SubSeqEmpty
    <2> QED BY <1>3, <2>1, <2>2, <2>3, <2>4
  <1>8. ASSUME NEW n \in T PROVE n + 1 \in T
    <2>1. n \in Nat /\ n + 1 \in Nat
      OBVIOUS
    <2>2. SUFFICES ASSUME n + 1 <= Len(p) PROVE Cut(n + 1)
      BY <2>1
    <2>3. Cut(n) /\ n + 1 \in 1 .. Len(p) /\ p[n + 1] \in B
      BY <1>3, <1>8, <2>1, <2>2
    <2>4. u[n + 1] = Add(u[n], p[n + 1])
      <3>1. n + 1 \in 0 .. Len(p) /\ n + 1 # 0 /\ (n + 1) - 1 = n
        BY <2>1, <2>3
      <3> QED BY <1>6, <3>1
    <2>5. /\ Add(u[n], p[n + 1]) \in Some
          /\ FlattenSeq(Add(u[n], p[n + 1])) = Append(SubSeq(p, 1, n), p[n + 1])
          /\ Pieces(Add(u[n], p[n + 1]))
      BY <1>1, <2>3
    <2>6. Append(SubSeq(p, 1, n), p[n + 1]) = SubSeq(p, 1, n + 1)
      <3>1. 1 \in Int /\ n \in Int /\ n + 1 \in Int /\ (n + 1) - 1 = n
            /\ 1 \in 1 .. Len(p) /\ n + 1 \in 1 .. Len(p)
        BY <1>3, <2>1, <2>3
      <3>2. SubSeq(p, 1, n + 1) = SubSeq(p, 1, n) \o <<p[n + 1]>>
        BY <3>1, SubSeqRecursiveSecond
      <3>3. SubSeq(p, 1, n) \in Seq(B)
        <4>1. \A i \in 1 .. n : p[i] \in B
          BY <1>3, <2>1, <2>2
        <4> QED BY <3>1, <4>1, SubSeqProperties
      <3> QED BY <2>3, <3>2, <3>3, AppendIsConcat
    <2> QED BY <2>4, <2>5, <2>6
  <1>9. T = Nat
    <2>1. T \in SUBSET Nat
      OBVIOUS
    <2> HIDE DEF T
    <2> QED BY <1>7, <1>8, <2>1, Induction
  <1>10. Cut(Len(p))
    BY <1>3, <1>9
  <1>11. SubSeq(p, 1, Len(p)) = p
    BY SubSeqFull
  <1> QED BY <1>6, <1>10, <1>11 DEF Some

\* The first piece, and the others.
LEMMA PiecesTail ==
  ASSUME NEW B, NEW q \in Seq(Seq(B)), Pieces(q)
  PROVE  /\ Head(q) = q[1] /\ Head(q) \in Seq(B) /\ Tail(q) \in Seq(Seq(B))
         /\ IF Tail(q) = <<>> THEN NoNewline(Head(q))
            ELSE IsWholeLine(Head(q)) /\ Pieces(Tail(q))
  <1>1. q # <<>>
    BY DEF Pieces
  <1>2. /\ Head(q) = q[1] /\ Head(q) \in Seq(B) /\ Tail(q) \in Seq(Seq(B))
        /\ Len(Tail(q)) = Len(q) - 1 /\ Len(q) \in Nat /\ Len(q) > 0
        /\ \A i \in 1 .. Len(Tail(q)) : Tail(q)[i] = q[i + 1]
    BY <1>1, HeadTailProperties, EmptySeq
  <1> DEFINE t == Tail(q)
  <1>21. Len(t) = Len(q) - 1
    BY <1>2
  <1> HIDE DEF t
  <1>3. CASE t = <<>>
    <2>1. Len(q) = 1
      <3>1. Len(t) = 0
        BY <1>3, EmptySeq
      <3>2. Len(q) \in Nat
        BY <1>2
      <3> QED BY <1>21, <3>1, <3>2
    <2> QED BY <1>2, <1>3, <2>1 DEF Pieces, t
  <1>4. CASE t # <<>>
    <2>1. /\ Len(t) \in Nat /\ Len(t) > 0 /\ Len(q) = Len(t) + 1
          /\ \A i \in 1 .. Len(t) : t[i] = q[i + 1]
      BY <1>2, <1>4, EmptySeq DEF t
    <2>2. IsWholeLine(q[1])
      BY <1>2, <2>1 DEF Pieces
    <2>3. ASSUME NEW i \in 1 .. Len(t), i < Len(t) PROVE IsWholeLine(t[i])
      <3>1. i + 1 \in 1 .. Len(q) /\ i + 1 < Len(q)
        BY <2>1, <2>3
      <3> QED BY <2>1, <3>1 DEF Pieces
    <2>4. NoNewline(t[Len(t)])
      <3>1. t[Len(t)] = q[Len(q)]
        BY <2>1
      <3> QED BY <3>1 DEF Pieces
    <2>5. Pieces(t)
      BY <1>4, <2>3, <2>4 DEF Pieces
    <2> QED BY <1>2, <1>4, <2>2, <2>5 DEF t
  <1> QED BY <1>3, <1>4

-----------------------------------------------------------------------------
(* The output: an invariant of its own, beside the one above.              *)

Over == {"upload", "wait", "flush", "report", "exited"}

Written ==
  /\ buf \in Seq(Bytes) /\ lines \in Seq(Seq(Bytes)) /\ sink \in Seq(Seq(Bytes))
  /\ taken \in Seq(Seq(Bytes)) /\ failed \in BOOLEAN

\* Who may still write.
Held ==
  /\ lock = Nobody => lines = <<>>
  /\ engine = "idle" => lock = Nobody /\ buf = <<>>
  /\ phase \in Over => lock = Nobody
  /\ phase \in {"report", "exited"} => buf = <<>>

\* What went out, the partial line and what the holder has still to append are the
\* chunks that were taken; a line in the buffer is whole only when another follows.
Whole ==
  ~failed =>
    /\ FlattenSeq(sink) \o (buf \o FlattenSeq(lines)) = FlattenSeq(taken)
    /\ IF lines = <<>> THEN NoNewline(buf) ELSE IsWholeLine(buf) /\ Pieces(lines)
    /\ \A i \in 1 .. Len(sink) :
         IsWholeLine(sink[i]) \/ (i = Len(sink) /\ phase \in {"report", "exited"})

LineInv == Written /\ Held /\ Whole

\* Nothing is written at the start.
LEMMA InitLineInv == Init => LineInv
  <1> SUFFICES ASSUME Init PROVE LineInv
    OBVIOUS
  <1>1. /\ buf = <<>> /\ lines = <<>> /\ sink = <<>> /\ taken = <<>> /\ failed = FALSE
        /\ lock = Nobody /\ phase = "fetch"
    BY DEF Init, LineInit
  <1>2. Written
    <2>1. <<>> \in Seq(Bytes) /\ <<>> \in Seq(Seq(Bytes))
      BY EmptySeq
    <2> QED BY <1>1, <2>1 DEF Written
  <1>3. Held
    BY <1>1 DEF Held, Over
  <1>4. Whole
    <2>1. FlattenSeq(sink) = <<>> /\ FlattenSeq(lines) = <<>> /\ FlattenSeq(taken) = <<>>
      BY <1>1, FlatEmpty
    <2>2. FlattenSeq(sink) \o (buf \o FlattenSeq(lines)) = FlattenSeq(taken)
      BY <1>1, <2>1, ConcatEmptySeq, EmptySeq
    <2>3. NoNewline(buf) /\ 1 .. Len(sink) = {}
      BY <1>1 DEF NoNewline
    <2> QED BY <1>1, <2>2, <2>3 DEF Whole
  <1> QED BY <1>2, <1>3, <1>4 DEF LineInv

\* A writer's step before the end.
LEMMA OutputLineInv == ASSUME LineInv, Output, phase \notin Over PROVE LineInv'
  <1>0. phase' = phase /\ engine' = engine /\ (engine = "running" \/ lock # Nobody)
    BY DEF Output, engineVars
  <1>1. PICK w \in Writers : BeginWrite(w) \/ EmitLine(w) \/ SinkFails(w) \/ EndWrite(w)
    BY DEF Output, LineNext
  <1>2. w # Nobody /\ Chunks \subseteq Seq(Bytes)
    BY LineWriterAssumption DEF LineWriterAssumption
  <1>3. engine # "idle"
    BY <1>0 DEF LineInv, Held
  <1>4. CASE BeginWrite(w)
    <2>1. PICK p \in Chunks : /\ buf' = buf \o SplitAfter(p)[1]
                             /\ lines' = Tail(SplitAfter(p))
                             /\ taken' = Append(taken, p)
      BY <1>4 DEF BeginWrite
    <2>2. lock = Nobody /\ lock' = w /\ UNCHANGED <<sink, failed>>
      BY <1>4 DEF BeginWrite
    <2>3. PICK q : q = SplitAfter(p)
      OBVIOUS
    <2>4. p \in Seq(Bytes) /\ q \in Seq(Seq(Bytes)) /\ Pieces(q) /\ FlattenSeq(q) = p
      BY <1>2, <2>3, Splits
    <2>5. /\ Head(q) = q[1] /\ Head(q) \in Seq(Bytes) /\ Tail(q) \in Seq(Seq(Bytes))
          /\ IF Tail(q) = <<>> THEN NoNewline(Head(q))
             ELSE IsWholeLine(Head(q)) /\ Pieces(Tail(q))
      BY <2>4, PiecesTail
    <2>6. /\ buf \in Seq(Bytes) /\ sink \in Seq(Seq(Bytes)) /\ taken \in Seq(Seq(Bytes))
          /\ lines = <<>> /\ failed \in BOOLEAN
      BY <2>2 DEF LineInv, Written, Held
    <2>7. buf' = buf \o Head(q) /\ lines' = Tail(q)
      BY <2>1, <2>3, <2>5
    <2>8. Written'
      <3>1. buf \o Head(q) \in Seq(Bytes)
        BY <2>5, <2>6, ConcatProperties
      <3>2. Append(taken, p) \in Seq(Seq(Bytes))
        BY <2>4, <2>6, AppendProperties
      <3> QED BY <2>1, <2>2, <2>5, <2>6, <2>7, <3>1, <3>2 DEF Written
    <2>9. Held'
      BY <1>0, <1>2, <1>3, <2>2 DEF LineInv, Held, Over
    <2>10. ASSUME ~failed
           PROVE  FlattenSeq(sink) \o (buf' \o FlattenSeq(Tail(q)))
                    = FlattenSeq(Append(taken, p))
      <3>1. FlattenSeq(sink) \o (buf \o <<>>) = FlattenSeq(taken)
        BY <2>6, <2>10, FlatEmpty DEF LineInv, Whole
      <3>2. buf \o <<>> = buf
        BY <2>6, ConcatEmptySeq
      <3>3. FlattenSeq(Append(taken, p)) = FlattenSeq(taken) \o p
        BY <2>4, <2>6, FlatAppend
      <3>4. p = Head(q) \o FlattenSeq(Tail(q))
        BY <2>4, FlatHeadTail DEF Pieces
      <3>5. PICK u, b, x, y :
              u = FlattenSeq(sink) /\ b = buf /\ x = Head(q) /\ y = FlattenSeq(Tail(q))
        OBVIOUS
      <3>6. /\ u \in Seq(Bytes) /\ b \in Seq(Bytes)
            /\ x \in Seq(Bytes) /\ y \in Seq(Bytes)
        BY <2>5, <2>6, <3>5, FlatType
      <3>7. u \o ((b \o x) \o y) = (u \o b) \o (x \o y)
        <4>1. (b \o x) \o y = b \o (x \o y)
          BY ONLY <3>6, ConcatAssociative
        <4>2. PICK z : z = x \o y
          OBVIOUS
        <4>3. u \in Seq(Bytes) /\ b \in Seq(Bytes) /\ z \in Seq(Bytes)
          BY <3>6, <4>2, ConcatProperties
        <4>4. (u \o b) \o z = u \o (b \o z)
          BY ONLY <4>3, ConcatAssociative
        <4> QED BY <4>1, <4>2, <4>4
      <3> QED BY <2>7, <3>1, <3>2, <3>3, <3>4, <3>5, <3>7
    <2>11. ASSUME ~failed
           PROVE  IF Tail(q) = <<>> THEN NoNewline(buf')
                  ELSE IsWholeLine(buf') /\ Pieces(Tail(q))
      <3>1. NoNewline(buf)
        BY <2>6, <2>11 DEF LineInv, Whole
      <3> QED BY <2>5, <2>6, <2>7, <3>1, LineConcat
    <2>12. Whole'
      BY <1>0, <2>1, <2>2, <2>7, <2>10, <2>11 DEF LineInv, Whole
    <2> QED BY <2>8, <2>9, <2>12 DEF LineInv
  <1>5. CASE EmitLine(w)
    <2>1. /\ lock = w /\ lines # <<>> /\ sink' = Append(sink, buf)
          /\ buf' = Head(lines) /\ lines' = Tail(lines) /\ UNCHANGED <<lock, taken, failed>>
      BY <1>5 DEF EmitLine
    <2>2. /\ buf \in Seq(Bytes) /\ sink \in Seq(Seq(Bytes)) /\ taken \in Seq(Seq(Bytes))
          /\ lines \in Seq(Seq(Bytes)) /\ failed \in BOOLEAN
      BY DEF LineInv, Written
    <2>3. Head(lines) \in Seq(Bytes) /\ Tail(lines) \in Seq(Seq(Bytes))
      BY <2>1, <2>2, HeadTailProperties
    <2>4. Written'
      <3>1. Append(sink, buf) \in Seq(Seq(Bytes))
        BY <2>2, AppendProperties
      <3> QED BY <2>1, <2>2, <2>3, <3>1 DEF Written
    <2>5. Held'
      BY <1>0, <1>2, <1>3, <2>1 DEF LineInv, Held, Over
    <2>6. ASSUME ~failed
          PROVE  FlattenSeq(Append(sink, buf)) \o (Head(lines) \o FlattenSeq(Tail(lines)))
                   = FlattenSeq(taken)
      <3>1. FlattenSeq(sink) \o (buf \o FlattenSeq(lines)) = FlattenSeq(taken)
        BY <2>6 DEF LineInv, Whole
      <3>2. FlattenSeq(lines) = Head(lines) \o FlattenSeq(Tail(lines))
        BY <2>1, <2>2, FlatHeadTail
      <3>3. FlattenSeq(Append(sink, buf)) = FlattenSeq(sink) \o buf
        BY <2>2, FlatAppend
      <3>4. PICK u, y : u = FlattenSeq(sink) /\ y = FlattenSeq(lines)
        OBVIOUS
      <3>5. u \in Seq(Bytes) /\ y \in Seq(Bytes)
        BY <2>2, <3>4, FlatType
      <3>6. PICK b : b = buf
        OBVIOUS
      <3>7. u \o (b \o y) = (u \o b) \o y
        <4>1. u \in Seq(Bytes) /\ b \in Seq(Bytes) /\ y \in Seq(Bytes)
          BY <2>2, <3>5, <3>6
        <4> QED BY ONLY <4>1, ConcatAssociative
      <3> QED BY <3>1, <3>2, <3>3, <3>4, <3>6, <3>7
    <2>7. ASSUME ~failed
          PROVE  IF Tail(lines) = <<>> THEN NoNewline(Head(lines))
                 ELSE IsWholeLine(Head(lines)) /\ Pieces(Tail(lines))
      <3>1. Pieces(lines)
        BY <2>1, <2>7 DEF LineInv, Whole
      <3> QED BY <2>2, <3>1, PiecesTail
    <2>8. ASSUME ~failed
          PROVE  \A i \in 1 .. Len(sink') : IsWholeLine(sink'[i])
      <3>1. IsWholeLine(buf) /\ \A i \in 1 .. Len(sink) : IsWholeLine(sink[i])
        BY <2>1, <2>8 DEF LineInv, Whole, Over
      <3>2. /\ Len(sink') = Len(sink) + 1 /\ Len(sink) \in Nat /\ sink'[Len(sink) + 1] = buf
            /\ \A i \in 1 .. Len(sink) : sink'[i] = sink[i]
        BY <2>1, <2>2, AppendProperties, LenProperties
      <3> QED BY <3>1, <3>2
    <2>9. Whole'
      BY <2>1, <2>6, <2>7, <2>8 DEF Whole
    <2> QED BY <2>4, <2>5, <2>9 DEF LineInv
  <1>6. CASE SinkFails(w)
    <2>1. <<>> \in Seq(Seq(Bytes))
      BY EmptySeq
    <2> QED BY <1>0, <1>3, <1>6, <2>1 DEF SinkFails, LineInv, Written, Held, Whole, Over
  <1>7. CASE EndWrite(w)
    BY <1>0, <1>3, <1>7 DEF EndWrite, LineInv, Written, Held, Whole, Over
  <1> QED BY <1>1, <1>4, <1>5, <1>6, <1>7

\* The flush empties the buffer into the sink.
LEMMA FlushLineInv == ASSUME LineInv, FlushStreams PROVE LineInv'
  <1>1. /\ phase = "flush" /\ phase' = "report" /\ lock = Nobody /\ buf' = <<>>
        /\ UNCHANGED <<lock, lines, taken, engine>>
    BY DEF FlushStreams, Flush, engineVars
  <1>2. /\ buf \in Seq(Bytes) /\ sink \in Seq(Seq(Bytes)) /\ taken \in Seq(Seq(Bytes))
        /\ lines = <<>> /\ failed \in BOOLEAN
    BY <1>1 DEF LineInv, Written, Held
  <1>3. <<>> \in Seq(Bytes) /\ <<>> \in Seq(Seq(Bytes)) /\ NoNewline(<<>>)
    BY EmptySeq DEF NoNewline
  <1>4. Held'
    BY <1>1, <1>2 DEF Held, Over
  <1>5. CASE UNCHANGED <<sink, failed>> /\ buf = <<>>
    <2>1. Written'
      BY <1>1, <1>2, <1>3, <1>5 DEF Written
    <2>2. Whole'
      BY <1>1, <1>2, <1>5 DEF LineInv, Whole
    <2> QED BY <1>4, <2>1, <2>2 DEF LineInv
  <1>6. CASE sink' = Append(sink, buf) /\ UNCHANGED failed
    <2>1. /\ sink' \in Seq(Seq(Bytes)) /\ Len(sink') = Len(sink) + 1 /\ Len(sink) \in Nat
          /\ \A i \in 1 .. Len(sink) : sink'[i] = sink[i]
      BY <1>2, <1>6, AppendProperties, LenProperties
    <2>2. Written'
      BY <1>1, <1>2, <1>3, <1>6, <2>1 DEF Written
    <2>3. ASSUME ~failed
          PROVE  FlattenSeq(sink') \o (<<>> \o FlattenSeq(lines)) = FlattenSeq(taken)
      <3>1. FlattenSeq(sink) \o (buf \o <<>>) = FlattenSeq(taken)
        BY <1>2, <2>3, FlatEmpty DEF LineInv, Whole
      <3>2. buf \o <<>> = buf
        BY <1>2, ConcatEmptySeq
      <3>3. FlattenSeq(sink') = FlattenSeq(sink) \o buf
        BY <1>2, <1>6, FlatAppend
      <3>4. FlattenSeq(sink') \in Seq(Bytes)
        BY <2>1, FlatType
      <3>5. FlattenSeq(sink') \o (<<>> \o FlattenSeq(lines)) = FlattenSeq(sink')
        BY <1>2, <1>3, <3>4, FlatEmpty, ConcatEmptySeq
      <3> QED BY <3>1, <3>2, <3>3, <3>5
    <2>4. ASSUME ~failed, NEW i \in 1 .. Len(sink')
          PROVE  IsWholeLine(sink'[i]) \/ i = Len(sink')
      <3>1. CASE i \in 1 .. Len(sink)
        BY <1>1, <2>1, <2>4, <3>1 DEF LineInv, Whole
      <3> QED BY <2>1, <3>1
    <2>5. Whole'
      BY <1>1, <1>2, <1>3, <1>6, <2>3, <2>4 DEF Whole
    <2> QED BY <1>4, <2>2, <2>5 DEF LineInv
  <1>7. CASE UNCHANGED sink /\ failed' = TRUE
    BY <1>1, <1>2, <1>3, <1>4, <1>7 DEF LineInv, Written, Whole
  <1> QED BY <1>5, <1>6, <1>7 DEF FlushStreams, Flush

\* The other steps write nothing, and none of them reopens the output.
LEMMA Moves ==
  ASSUME IInv, [Next]_vars, ~Output, ~FlushStreams
  PROVE  /\ UNCHANGED lwvars
         /\ engine' = "idle" => engine = "idle"
         /\ phase' \in Over => phase \in Over \/ engine = "idle" \/ lock = Nobody
         /\ phase' \in {"report", "exited"} =>
              phase \in {"report", "exited"} \/ engine = "idle"
         /\ phase \in {"report", "exited"} => phase' \in {"report", "exited"}
  <1> USE DEF Over, engineVars
  <1>1. phase \in Before => engine = "idle"
    BY DEF IInv, Together
  <1>2. CASE Fetch \/ Select \/ Configure
    BY <1>1, <1>2 DEF Fetch, Select, Configure, Fails, Before
  <1>3. CASE Start \/ Returned \/ UploadState \/ Wait \/ Exit
    BY <1>1, <1>3 DEF Start, Returned, UploadState, Wait, Exit, Before
  <1>4. CASE Signal \/ Listen \/ TimeOut \/ CollectorStep
    BY <1>4 DEF Signal, Listen, TimeOut, CollectorStep, Forward, Drained, UploadEvents
  <1>5. CASE DoResource \/ FailResource \/ Locked \/ EngineDone \/ EngineInterrupted
    BY <1>5 DEF DoResource, FailResource, Locked, EngineDone, EngineInterrupted
  <1>6. CASE UNCHANGED vars
    BY <1>6 DEF vars
  <1> QED BY <1>2, <1>3, <1>4, <1>5, <1>6 DEF Next, MainStep

\* Every step keeps the invariant of the output.
LEMMA NextLineInv == ASSUME IInv, LineInv, [Next]_vars PROVE LineInv'
  <1>1. CASE Output
    <2>1. phase \notin Over
      BY <1>1 DEF Output, IInv, Together, LineInv, Held, Over
    <2> QED BY <1>1, <2>1, OutputLineInv
  <1>2. CASE FlushStreams
    BY <1>2, FlushLineInv
  <1>3. CASE ~Output /\ ~FlushStreams
    <2>1. /\ UNCHANGED <<lock, buf, lines, sink, taken, failed>>
          /\ engine' = "idle" => engine = "idle"
          /\ phase' \in Over => phase \in Over \/ engine = "idle" \/ lock = Nobody
          /\ phase' \in {"report", "exited"} =>
               phase \in {"report", "exited"} \/ engine = "idle"
          /\ phase \in {"report", "exited"} => phase' \in {"report", "exited"}
      BY <1>3, Moves DEF lwvars
    <2>2. Written'
      BY <2>1 DEF LineInv, Written
    <2>3. Held'
      BY <2>1 DEF LineInv, Held
    <2>4. Whole'
      BY <2>1 DEF LineInv, Whole
    <2> QED BY <2>2, <2>3, <2>4 DEF LineInv
  <1> QED BY <1>1, <1>2, <1>3

-----------------------------------------------------------------------------
(* What it shows.                                                          *)

\* The state of a run stays within its types (main.go, cd_main.go).
THEOREM RunTypeCorrect ==
  ASSUME NoneApart
  PROVE  Spec => []TypeOK
  <1>1. IInv => TypeOK
    BY DEF IInv, Types, Signals, Phases, Before, TypeOK
  <1> QED BY <1>1, Always, NoneApart, PTL

\* Whatever fails and whichever signal comes when, a run that started the engine
\* exits only after its state and all its events were uploaded (upload.go).
THEOREM AllUploaded ==
  ASSUME NoneApart
  PROVE  Spec => []Uploaded
  <1>1. IInv => EventsUploaded
    BY DEF IInv, Types, Together, Sent, Closed, Operated, EventsUploaded
  <1>2. IInv => StateUploaded
    BY DEF IInv, Sent, StateUploaded
  <1> QED BY <1>1, <1>2, Always, NoneApart, PTL DEF Uploaded

\* Whatever the targets and the failures, no stack is removed with resources left.
THEOREM NoneOrphaned ==
  ASSUME NoneApart
  PROVE  Spec => []NothingOrphaned
  <1>1. IInv => NothingOrphaned
    BY DEF IInv, Kept, NothingOrphaned
  <1> QED BY <1>1, Always, NoneApart, PTL

\* The exit status says what was done, or why it was not (errors.go).
THEOREM StatusIsTrue ==
  ASSUME NoneApart
  PROVE  Spec => []StatusTellsTruth
  <1>1. ASSUME NoneApart, IInv, phase = "exited" PROVE StatusTellsTruth
    <2>1. status \in ExitStatus
      BY <1>1 DEF IInv, Left
    <2>2. err \in {None, "usage", "pulumi", "plain"} /\ cause \in Causes
      BY <1>1 DEF IInv, Types
    <2>3. /\ status = "0" => err = None
          /\ err = None => status = "0"
          /\ status = "2" => err = "usage"
          /\ status \in UserSignals => status = cause
      BY <1>1, <2>1, <2>2 DEF ExitStatus, Causes, UserSignals, NoneApart
    <2>4. /\ cause \in UserSignals => cause = arrived[1]
          /\ Operated => err # "usage"
      BY <1>1 DEF IInv, Signals, Together, Operated
    <2>5. ASSUME err = None, cmd \in Operations
          PROVE  /\ cmd = "up" => Asked \subseteq live
                 /\ cmd \in Destroying => Asked \intersect live = {}
      <3>1. engine # "idle" /\ work = {}
        BY <1>1, <2>5 DEF IInv, Together, Closed, Kept
      <3> QED BY <1>1, <2>5, <3>1 DEF IInv, Kept
    <2>6. {"up"} \union Destroying \subseteq Operations
      BY DEF Operations, Mutating, Destroying
    <2> QED BY <2>3, <2>4, <2>5, <2>6 DEF StatusTellsTruth
  <1>2. NoneApart /\ IInv => StatusTellsTruth
    BY <1>1 DEF StatusTellsTruth
  <1> QED BY <1>2, Always, NoneApart, PTL

\* However the output is cut into chunks, unless the sink fails: it is given one whole
\* line a call, but for the last, and at the exit it was given every byte in the order
\* in which it was written (log.go).  The CD program has one writer a stream; any
\* number would do.
THEOREM OutputIsWhole ==
  ASSUME NoneApart
  PROVE  Spec => []OutputWhole
  <1>1. IInv /\ LineInv /\ [Next]_vars => (IInv /\ LineInv)'
    BY NextIInv, NextLineInv, NoneApart
  <1>2. ASSUME LineInv PROVE LinesWhole
    <2>1. DOMAIN sink = 1 .. Len(sink)
      BY <1>2, LenProperties DEF LineInv, Written
    <2> QED BY <1>2, <2>1 DEF LineInv, Whole, LinesWhole
  <1>3. ASSUME LineInv PROVE OutputComplete
    <2>1. SUFFICES ASSUME phase = "exited", ~failed
                   PROVE  FlattenSeq(sink) = FlattenSeq(taken)
      BY DEF OutputComplete
    <2>2. lines = <<>> /\ buf = <<>> /\ FlattenSeq(sink) \in Seq(Bytes)
      BY <1>3, <2>1, FlatType DEF LineInv, Written, Held, Over
    <2>3. FlattenSeq(sink) \o (<<>> \o <<>>) = FlattenSeq(taken)
      BY <1>3, <2>1, <2>2, FlatEmpty DEF LineInv, Whole
    <2> QED BY <2>2, <2>3, ConcatEmptySeq, EmptySeq
  <1>4. LineInv => OutputWhole
    BY <1>2, <1>3 DEF OutputWhole
  <1> QED BY <1>1, <1>4, InitIInv, InitLineInv, NoneApart, PTL DEF Spec

==============================================================================
