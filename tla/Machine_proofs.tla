----------------------------- MODULE Machine_proofs -----------------------------
(***************************************************************************)
(* For every machine (any sidecars, secrets and start periods), any number *)
(* of attempts, crashes and reboots: no container runs without one of its  *)
(* secrets, the service runs only after the run-once sidecars it depends   *)
(* on have succeeded, and these are not run a second time.                 *)
(***************************************************************************)
EXTENDS Machine, TLAPS

\* What a machine's description says, for the machine of a state.
LEMMA Described ==
  ASSUME machine \in Machines
  PROVE /\ Main \in All /\ All \subseteq Names
        /\ machine.order \in Seq(All)
        /\ \A u \in All : Once(u) \in BOOLEAN
        /\ ~Once(Main) /\ Main \notin Awaited /\ Awaited \subseteq All
        /\ \A u \in All : Secrets(u) \subseteq Keys /\ Obtains(u) \subseteq Keys \cup {Registry}
                          /\ Obtains(u) \ {Registry} = Secrets(u)
  BY MachineAssumption DEF MachineAssumption, All, Once, Awaited, Secrets, Obtains

-----------------------------------------------------------------------------
(* The inductive invariant.                                                *)

Types ==
  /\ machine \in Machines
  /\ unit \in [All -> {"inactive", "waiting", "pre", "working", "up", "done", "failed", "restarting", "due"}]
  /\ pending \subseteq Awaited
  /\ fetched \in [All -> SUBSET (Keys \cup {Registry})]
  /\ container \in [All -> {"none", "created", "running", "exited"}]
  /\ env \in [All -> SUBSET Keys]
  /\ succeeded \subseteq All

\* What a unit has fetched is what it must get, all of it once its process is
\* started, and only then does docker have a container of which it is not done.
Fetched ==
  \A u \in All :
    /\ fetched[u] \subseteq Obtains(u)
    /\ unit[u] \in {"up", "working"} => fetched[u] = Obtains(u)
    /\ container[u] \in {"created", "running"} => unit[u] \in {"up", "working"}

\* The service has a container only while its unit is up.
MainUp == container[Main] # "none" => unit[Main] = "up"

\* What "done" means: exited with 0, and still there.
DoneMeans ==
  \A u \in All :
    /\ u \in succeeded <=> unit[u] = "done"
    /\ unit[u] = "done" => container[u] = "exited"
    /\ Once(u) => unit[u] # "up"
    /\ ~Once(u) => unit[u] # "working"

\* The service's start waits for each run-once sidecar that it requires, until
\* that one is done; it is past waiting only when all are.
Waits ==
  /\ pending # {} => unit[Main] = "waiting"
  /\ \A s \in Awaited : Once(s) =>
       /\ unit[Main] \in {"pre", "up"} => unit[s] = "done"
       /\ unit[Main] = "waiting" => s \in pending \/ unit[s] = "done"

IInv == Types /\ Fetched /\ SecretsWhole /\ MainUp /\ DoneMeans /\ Waits

-----------------------------------------------------------------------------
LEMMA InitIInv == Init => IInv
  BY Described DEF Init, IInv, Types, Fetched, SecretsWhole, MainUp, DoneMeans, Waits

\* The description does not change, nor does what follows from it.
LEMMA SameMachine ==
  ASSUME UNCHANGED machine
  PROVE /\ All' = All /\ Awaited' = Awaited
        /\ \A u \in All : Secrets(u)' = Secrets(u) /\ Obtains(u)' = Obtains(u) /\ Once(u)' = Once(u)
  BY DEF All, Awaited, Secrets, Obtains, OnGcp, Once

\* What is kept of a unit that a step leaves alone, and shown of the one it changes.
FetchedAt(u, f, n, c) ==
  /\ f \subseteq Obtains(u)
  /\ n \in {"up", "working"} => f = Obtains(u)
  /\ c \in {"created", "running"} => n \in {"up", "working"}

LEMMA FetchedStep ==
  ASSUME IInv, UNCHANGED machine, NEW u \in All,
         \A v \in All \ {u} : fetched'[v] = fetched[v] /\ unit'[v] = unit[v] /\ container'[v] = container[v],
         FetchedAt(u, fetched'[u], unit'[u], container'[u])
  PROVE Fetched'
  <1> SUFFICES ASSUME NEW v \in All
               PROVE FetchedAt(v, fetched'[v], unit'[v], container'[v])
    BY SameMachine DEF Fetched, FetchedAt
  <1>1. CASE v = u
    BY <1>1
  <1>2. CASE v # u
    <2>1. FetchedAt(v, fetched[v], unit[v], container[v])
      BY DEF IInv, Fetched, FetchedAt
    <2> QED BY <1>2, <2>1
  <1> QED BY <1>1, <1>2

\* The state that every boot starts in.
LEMMA BootIInv ==
  ASSUME IInv, UNCHANGED machine, NEW kept \in [All -> {"none", "exited"}], kept[Main] = "none", Boot(kept)
  PROVE IInv'
  <1>1. /\ machine \in Machines
        /\ unit' = [u \in All |-> "inactive"] /\ fetched' = [u \in All |-> {}]
        /\ env' = [u \in All |-> {}] /\ container' = kept /\ pending' = {} /\ succeeded' = {}
    BY DEF Boot, IInv, Types
  <1> QED
    BY <1>1, SameMachine, Described DEF IInv, Types, Fetched, SecretsWhole, MainUp,
       DoneMeans, Waits

\* A start job, of a unit that is not started; "gone" is the service's container
\* when the service is stopped first.
LEMMA EnterIInv ==
  ASSUME IInv, UNCHANGED machine, NEW u \in All, NEW gone \in SUBSET All, Enter(u, gone),
         \/ gone = {} /\ unit[u] \in {"inactive", "failed", "due"}
         \/ u = Main /\ gone = {Main} /\ unit[Main] = "up"
  PROVE IInv'
  <1>1. /\ machine \in Machines /\ UNCHANGED <<env, succeeded>>
        /\ pending' = IF u = Main THEN Pending ELSE pending
        /\ unit' = [v \in All |->
             IF v = u THEN (IF u = Main /\ Pending # {} THEN "waiting" ELSE "pre")
             ELSE IF u = Main /\ v \in Pending /\ unit[v] \in {"inactive", "failed", "restarting", "due"}
                  THEN "pre" ELSE unit[v]]
        /\ fetched' = [v \in All |-> IF unit'[v] = "pre" /\ unit[v] # "pre" THEN {} ELSE fetched[v]]
        /\ container' = [v \in All |-> IF v \in gone THEN "none" ELSE container[v]]
    BY DEF Enter, IInv, Types
  <1>2. Pending \subseteq Awaited /\ \A s \in Awaited \ Pending : unit[s] \in {"up", "done"}
    BY DEF Pending
  <1>3. \A s \in Pending : unit[s] # "done" /\ unit[s] # "up"
    BY DEF Pending
  <1>4. Types'
    BY <1>1, <1>2, SameMachine, Described DEF IInv, Types
  <1>5. Fetched'
    BY <1>1, SameMachine, Described DEF IInv, Types, Fetched
  <1>6. SecretsWhole'
    BY <1>1, SameMachine, Described DEF IInv, Types, SecretsWhole
  <1>7. MainUp'
    BY <1>1, SameMachine, Described DEF IInv, Types, MainUp
  <1>8. DoneMeans'
    BY <1>1, <1>3, SameMachine, Described DEF IInv, Types, DoneMeans, MainUp
  <1>9. Waits'
    <2>1. CASE u = Main
      BY <1>1, <1>2, <1>3, <2>1, SameMachine, Described DEF IInv, Types, Waits, DoneMeans
    <2>2. CASE u # Main
      BY <1>1, <2>2, SameMachine, Described DEF IInv, Types, Waits, DoneMeans
    <2> QED BY <2>1, <2>2
  <1> QED BY <1>4, <1>5, <1>6, <1>7, <1>8, <1>9 DEF IInv

\* The start of a unit that is being started, or has a process, fails, while its
\* container, if docker has one, is left exited.
LEMMA FailStartIInv ==
  ASSUME IInv, UNCHANGED <<machine, fetched, env, succeeded>>, NEW u \in All, FailStart(u),
         unit[u] \in {"pre", "working", "up"},
         container' = container \/ container' = [container EXCEPT ![u] = "exited"],
         container'[u] \in {"none", "exited"}, u = Main => container'[u] = "none"
  PROVE IInv'
  <1>1. /\ machine \in Machines
        /\ unit' = [v \in All |->
             IF v = u THEN (IF Once(u) THEN "failed" ELSE "restarting")
             ELSE IF v = Main /\ u \in pending THEN "inactive" ELSE unit[v]]
        /\ pending' = IF u \in pending THEN {} ELSE pending
    BY DEF FailStart, AfterFailure, IInv, Types
  <1>2. \A v \in All : v # u => container'[v] = container[v]
    BY DEF IInv, Types
  <1>3. container' \in [All -> {"none", "created", "running", "exited"}]
    BY DEF IInv, Types
  <1>4. Types'
    BY <1>1, <1>3, SameMachine, Described DEF IInv, Types
  <1>5. u \in pending => unit[Main] = "waiting" /\ container[Main] = "none"
    BY Described DEF IInv, Types, Waits, MainUp
  <1>6. Fetched' /\ SecretsWhole'
    BY <1>1, <1>2, <1>3, <1>5, SameMachine, Described DEF IInv, Types, Fetched, SecretsWhole
  <1>7. MainUp'
    BY <1>1, <1>2, <1>3, <1>5, SameMachine, Described DEF IInv, Types, MainUp
  <1>8. DoneMeans'
    BY <1>1, <1>2, <1>3, <1>5, SameMachine, Described DEF IInv, Types, DoneMeans
  <1>9. Waits'
    BY <1>1, <1>5, SameMachine, Described DEF IInv, Types, Waits, DoneMeans
  <1> QED BY <1>4, <1>6, <1>7, <1>8, <1>9 DEF IInv

-----------------------------------------------------------------------------
(* One step per action.                                                    *)

LEMMA FetchIInv == ASSUME IInv, NEW u \in All, Fetch(u) PROVE IInv'
  <1>1. PICK thing \in Obtains(u) \ fetched[u] : fetched' = [fetched EXCEPT ![u] = @ \cup {thing}]
    BY DEF Fetch
  <1>2. /\ UNCHANGED <<machine, unit, pending, container, env, succeeded>> /\ unit[u] = "pre"
        /\ machine \in Machines
    BY DEF Fetch, IInv, Types
  <1>t. Types'
    BY <1>1, <1>2, SameMachine, Described DEF IInv, Types
  <1>f. Fetched'
    <2>1. FetchedAt(u, fetched'[u], unit'[u], container'[u])
      BY <1>1, <1>2, Described DEF IInv, Types, Fetched, FetchedAt
    <2> QED BY <1>1, <1>2, <2>1, Described, FetchedStep DEF IInv, Types
  <1>s. SecretsWhole'
    BY <1>1, <1>2, SameMachine, Described DEF IInv, Types, SecretsWhole
  <1>b. MainUp' /\ DoneMeans'
    BY <1>1, <1>2, SameMachine, Described DEF IInv, Types, MainUp, DoneMeans
  <1>c. Waits'
    BY <1>1, <1>2, SameMachine, Described DEF IInv, Types, DoneMeans, Waits
  <1> QED BY <1>t, <1>f, <1>s, <1>b, <1>c DEF IInv

LEMMA FetchFailsIInv == ASSUME IInv, NEW u \in All, FetchFails(u) PROVE IInv'
  <1>1. /\ UNCHANGED <<machine, fetched, container, env, succeeded>> /\ unit[u] = "pre"
        /\ FailStart(u) \/ UNCHANGED <<unit, pending>>
    BY DEF FetchFails, FetchLost
  <1>2. container[u] \in {"none", "exited"} /\ (u = Main => container[u] = "none")
    BY <1>1 DEF IInv, Types, Fetched, MainUp
  <1>3. CASE FailStart(u)
    BY <1>1, <1>2, <1>3, FailStartIInv
  <1>4. CASE UNCHANGED <<unit, pending>>
    BY <1>1, <1>4, SameMachine, Described DEF IInv, Types, Fetched, SecretsWhole,
       MainUp, DoneMeans, Waits
  <1> QED BY <1>1, <1>3, <1>4

LEMMA PreDoneIInv == ASSUME IInv, NEW u \in All, PreDone(u) PROVE IInv'
  <1>1. /\ UNCHANGED <<machine, fetched, env, succeeded>> /\ unit[u] = "pre" /\ machine \in Machines
        /\ Obtains(u) \subseteq fetched[u]
        /\ unit' = [unit EXCEPT ![u] = IF Once(u) THEN "working" ELSE "up"]
        /\ pending' = IF Once(u) THEN pending ELSE pending \ {u}
        /\ container' = [container EXCEPT ![u] = "none"]
    BY DEF PreDone, IInv, Types
  <1>f. Fetched'
    <2>1. FetchedAt(u, fetched'[u], unit'[u], container'[u])
      BY <1>1, Described DEF IInv, Types, Fetched, FetchedAt
    <2> QED BY <1>1, <2>1, Described, FetchedStep DEF IInv, Types
  <1>2. Types' /\ SecretsWhole' /\ MainUp'
    BY <1>1, SameMachine, Described DEF IInv, Types, SecretsWhole, MainUp
  <1>3. DoneMeans' /\ Waits'
    BY <1>1, SameMachine, Described DEF IInv, Types, DoneMeans, Waits
  <1> QED BY <1>f, <1>2, <1>3 DEF IInv

LEMMA CreateIInv == ASSUME IInv, NEW u \in All, Create(u) PROVE IInv'
  <1>1. /\ UNCHANGED <<machine, unit, pending, fetched, env, succeeded>> /\ machine \in Machines
        /\ unit[u] \in {"up", "working"} /\ container[u] = "none"
        /\ container' = [container EXCEPT ![u] = "created"]
    BY DEF Create, Launching, IInv, Types
  <1>t. Types'
    BY <1>1, SameMachine, Described DEF IInv, Types
  <1>f. Fetched'
    <2>1. FetchedAt(u, fetched'[u], unit'[u], container'[u])
      BY <1>1, Described DEF IInv, Types, Fetched, FetchedAt
    <2> QED BY <1>1, <2>1, Described, FetchedStep DEF IInv, Types
  <1>s. SecretsWhole'
    BY <1>1, SameMachine, Described DEF IInv, Types, SecretsWhole
  <1>b. MainUp' /\ DoneMeans'
    BY <1>1, SameMachine, Described DEF IInv, Types, MainUp, DoneMeans
  <1>c. Waits'
    BY <1>1, SameMachine, Described DEF IInv, Types, DoneMeans, Waits
  <1> QED BY <1>t, <1>f, <1>s, <1>b, <1>c DEF IInv

LEMMA RunIInv == ASSUME IInv, NEW u \in All, Run(u) PROVE IInv'
  <1>1. /\ UNCHANGED <<machine, unit, pending, fetched, succeeded>> /\ machine \in Machines
        /\ container[u] = "created"
        /\ container' = [container EXCEPT ![u] = "running"]
        /\ env' = [env EXCEPT ![u] = fetched[u] \ {Registry}]
    BY DEF Run, IInv, Types
  <1>2. fetched[u] \ {Registry} = Secrets(u) /\ Secrets(u) \subseteq Keys
    BY <1>1, Described DEF IInv, Fetched
  <1>t. Types'
    BY <1>1, <1>2, SameMachine, Described DEF IInv, Types
  <1>f. Fetched'
    <2>1. FetchedAt(u, fetched'[u], unit'[u], container'[u])
      BY <1>1, <1>2, Described DEF IInv, Types, Fetched, FetchedAt
    <2> QED BY <1>1, <1>2, <2>1, Described, FetchedStep DEF IInv, Types
  <1>s. SecretsWhole'
    BY <1>1, <1>2, SameMachine, Described DEF IInv, Types, SecretsWhole
  <1>b. MainUp' /\ DoneMeans'
    BY <1>1, <1>2, SameMachine, Described DEF IInv, Types, MainUp, DoneMeans
  <1>c. Waits'
    BY <1>1, <1>2, SameMachine, Described DEF IInv, Types, DoneMeans, Waits
  <1> QED BY <1>t, <1>f, <1>s, <1>b, <1>c DEF IInv

LEMMA RunFailsIInv == ASSUME IInv, NEW u \in All, RunFails(u) PROVE IInv'
  BY FailStartIInv DEF RunFails, Launching

LEMMA SucceedIInv == ASSUME IInv, NEW u \in All, Succeed(u) PROVE IInv'
  <1>1. /\ UNCHANGED <<machine, fetched, env>> /\ machine \in Machines
        /\ Once(u) /\ container[u] = "running" /\ u # Main
        /\ container' = [container EXCEPT ![u] = "exited"]
        /\ unit' = [unit EXCEPT ![u] = "done"]
        /\ pending' = pending \ {u} /\ succeeded' = succeeded \cup {u}
    BY Described DEF Succeed, AfterExit, IInv, Types
  <1>f. Fetched'
    <2>1. FetchedAt(u, fetched'[u], unit'[u], container'[u])
      BY <1>1, Described DEF IInv, Types, Fetched, FetchedAt
    <2> QED BY <1>1, <2>1, Described, FetchedStep DEF IInv, Types
  <1>2. Types' /\ SecretsWhole' /\ MainUp'
    BY <1>1, SameMachine, Described DEF IInv, Types, SecretsWhole, MainUp
  <1>3. DoneMeans' /\ Waits'
    BY <1>1, SameMachine, Described DEF IInv, Types, DoneMeans, Waits
  <1> QED BY <1>f, <1>2, <1>3 DEF IInv

LEMMA CrashIInv == ASSUME IInv, NEW u \in All, Crash(u) PROVE IInv'
  <1>1. /\ UNCHANGED <<machine, fetched, env, succeeded>> /\ machine \in Machines
        /\ container[u] = "running" /\ unit[u] \in {"up", "working"}
        /\ container' = [container EXCEPT ![u] = "exited"]
    BY DEF Crash, IInv, Types, Fetched
  <1>2. CASE u = Main
    <2>1. UNCHANGED <<unit, pending>>
      BY <1>2 DEF Crash
    <2>t. Types'
      BY <1>1, <1>2, <2>1, SameMachine, Described DEF IInv, Types
    <2>f. Fetched'
      <3>1. FetchedAt(u, fetched'[u], unit'[u], container'[u])
        BY <1>1, <1>2, <2>1, Described DEF IInv, Types, Fetched, FetchedAt
      <3> QED BY <1>1, <1>2, <2>1, <3>1, Described, FetchedStep DEF IInv, Types
    <2>s. SecretsWhole'
      BY <1>1, <1>2, <2>1, SameMachine, Described DEF IInv, Types, SecretsWhole
    <2>b. MainUp' /\ DoneMeans'
      BY <1>1, <1>2, <2>1, SameMachine, Described DEF IInv, Types, MainUp, DoneMeans
    <2>c. Waits'
      BY <1>1, <1>2, <2>1, SameMachine, Described DEF IInv, Types, DoneMeans, Waits
    <2> QED BY <2>t, <2>f, <2>s, <2>b, <2>c DEF IInv
  <1>3. CASE u # Main
    <2>1. FailStart(u) /\ container'[u] = "exited"
      BY <1>1, <1>3 DEF Crash, IInv, Types
    <2> QED BY <1>1, <1>3, <2>1, FailStartIInv
  <1> QED BY <1>2, <1>3

LEMMA ReapIInv == ASSUME IInv, Reap PROVE IInv'
  <1>1. /\ UNCHANGED <<machine, pending, fetched, env, succeeded>> /\ machine \in Machines
        /\ container[Main] = "exited" /\ unit[Main] = "up"
        /\ container' = [container EXCEPT ![Main] = "none"]
        /\ unit' = [unit EXCEPT ![Main] = "restarting"]
    BY Described DEF Reap, AfterFailure, IInv, Types, MainUp
  <1>t. Types'
    BY <1>1, SameMachine, Described DEF IInv, Types
  <1>f. Fetched'
    <2>1. FetchedAt(Main, fetched'[Main], unit'[Main], container'[Main])
      BY <1>1, Described DEF IInv, Types, Fetched, FetchedAt
    <2> QED BY <1>1, <2>1, Described, FetchedStep DEF IInv, Types
  <1>s. SecretsWhole'
    BY <1>1, SameMachine, Described DEF IInv, Types, SecretsWhole
  <1>b. MainUp' /\ DoneMeans'
    BY <1>1, SameMachine, Described DEF IInv, Types, MainUp, DoneMeans
  <1>c. Waits'
    BY <1>1, SameMachine, Described DEF IInv, Types, DoneMeans, Waits
  <1> QED BY <1>t, <1>f, <1>s, <1>b, <1>c DEF IInv

LEMMA AdmitIInv == ASSUME IInv, Admit PROVE IInv'
  <1>1. /\ UNCHANGED <<machine, pending, container, env, succeeded>> /\ machine \in Machines
        /\ unit[Main] = "waiting" /\ pending = {}
        /\ unit' = [unit EXCEPT ![Main] = "pre"]
        /\ fetched' = [fetched EXCEPT ![Main] = {}]
    BY DEF Admit, IInv, Types
  <1>t. Types'
    BY <1>1, SameMachine, Described DEF IInv, Types
  <1>f. Fetched'
    <2>1. FetchedAt(Main, fetched'[Main], unit'[Main], container'[Main])
      BY <1>1, Described DEF IInv, Types, Fetched, FetchedAt
    <2> QED BY <1>1, <2>1, Described, FetchedStep DEF IInv, Types
  <1>s. SecretsWhole'
    BY <1>1, SameMachine, Described DEF IInv, Types, SecretsWhole
  <1>b. MainUp' /\ DoneMeans'
    BY <1>1, SameMachine, Described DEF IInv, Types, MainUp, DoneMeans
  <1>c. Waits'
    BY <1>1, SameMachine, Described DEF IInv, Types, DoneMeans, Waits
  <1> QED BY <1>t, <1>f, <1>s, <1>b, <1>c DEF IInv

LEMMA TickIInv == ASSUME IInv, Tick PROVE IInv'
  <1>1. /\ UNCHANGED <<machine, pending, fetched, container, env, succeeded>> /\ machine \in Machines
        /\ unit' = [u \in All |-> IF unit[u] = "restarting" THEN "due" ELSE unit[u]]
    BY DEF Tick, IInv, Types
  <1>t. Types'
    BY <1>1, SameMachine, Described DEF IInv, Types
  <1>f. Fetched'
    BY <1>1, SameMachine, Described DEF IInv, Types, Fetched
  <1>s. SecretsWhole'
    BY <1>1, SameMachine, Described DEF IInv, Types, SecretsWhole
  <1>b. MainUp' /\ DoneMeans'
    BY <1>1, SameMachine, Described DEF IInv, Types, MainUp, DoneMeans
  <1>c. Waits'
    BY <1>1, SameMachine, Described DEF IInv, Types, DoneMeans, Waits
  <1> QED BY <1>t, <1>f, <1>s, <1>b, <1>c DEF IInv

LEMMA StutterIInv ==
  ASSUME IInv, UNCHANGED <<machine, unit, pending, fetched, container, env, succeeded>>
  PROVE IInv'
  <1>1. machine \in Machines
    BY DEF IInv, Types
  <1>2. Types' /\ Fetched' /\ SecretsWhole'
    BY <1>1, SameMachine, Described DEF IInv, Types, Fetched, SecretsWhole
  <1>3. MainUp' /\ DoneMeans' /\ Waits'
    BY <1>1, SameMachine, Described DEF IInv, Types, MainUp, DoneMeans, Waits
  <1> QED BY <1>2, <1>3 DEF IInv

LEMMA StartIInv == ASSUME IInv, starting \in Seq(All), Start PROVE IInv'
  <1>1. UNCHANGED machine /\ Head(starting) \in All
    BY DEF Start
  <1>2. CASE unit[Head(starting)] \in {"inactive", "failed"}
    BY <1>1, <1>2, EnterIInv DEF Start
  <1>3. CASE unit[Head(starting)] \notin {"inactive", "failed"}
    BY <1>1, <1>3, StutterIInv DEF Start, work
  <1> QED BY <1>2, <1>3

LEMMA NextIInv ==
  ASSUME IInv, starting \in Seq(All), [Next]_vars
  PROVE IInv'
  <1>1. CASE Replace
    <2>1. Main \in All
      BY Described DEF IInv, Types
    <2> QED BY <1>1, <2>1, BootIInv DEF Replace
  <1>2. CASE Reboot
    <2> DEFINE kept == [u \in All |-> IF u = Main \/ container[u] = "none" THEN "none" ELSE "exited"]
    <2>1. kept \in [All -> {"none", "exited"}] /\ kept[Main] = "none"
      BY Described DEF IInv, Types
    <2>2. Boot(kept) /\ UNCHANGED machine
      BY <1>2 DEF Reboot
    <2> QED BY <2>1, <2>2, BootIInv
  <1>3. ASSUME NEW u \in All, Restart(u) PROVE IInv'
    BY <1>3, EnterIInv DEF Restart
  <1>4. ASSUME NEW u \in All, RestartWithMain(u) PROVE IInv'
    <2>1. Main \in All
      BY Described DEF IInv, Types
    <2> QED BY <1>4, <2>1, EnterIInv DEF RestartWithMain
  <1>5. CASE Grant
    BY <1>5, StutterIInv DEF Grant, work
  <1>6. CASE UNCHANGED vars
    BY <1>6, StutterIInv DEF vars, work
  <1> QED
    BY <1>1, <1>2, <1>3, <1>4, <1>5, <1>6, StartIInv, AdmitIInv, ReapIInv, TickIInv, FetchIInv,
       FetchFailsIInv, PreDoneIInv, CreateIInv, RunIInv, RunFailsIInv, SucceedIInv, CrashIInv DEF Next

-----------------------------------------------------------------------------
(* The rest of the type invariant.                                         *)

Rest ==
  /\ prompt \in BOOLEAN /\ access \in BOOLEAN
  /\ starting \in Seq(All)
  /\ attempt \in [All -> 0..(MaxAttempts - 1)]
  /\ since \in 0..MaxAge /\ up \in 0..MaxAge /\ misses \in 0..Threshold /\ faults \in 0..MaxFaults

\* No action gets a counter past its bound.
LEMMA RestStep ==
  ASSUME IInv, Rest, [Next]_vars
  PROVE Rest'
  <1>1. /\ MaxAttempts \in Nat \ {0} /\ Threshold \in Nat \ {0}
        /\ MaxAge \in Nat \ {0} /\ MaxFaults \in Nat
    BY MachineAssumption
  <1>2. UNCHANGED machine
    BY DEF Next, vars, Start, Admit, Reap, Tick, Replace, Reboot, Grant, Fetch,
       FetchFails, PreDone,
           Create, Run, RunFails, Succeed, Crash, Restart, RestartWithMain
  <1>3. machine \in Machines /\ machine.order \in Seq(All) /\ Main \in All /\ All' = All
    BY <1>2, Described, SameMachine DEF IInv, Types
  <1>4. attempt' \in [All -> 0..(MaxAttempts - 1)]
    <2>1. ASSUME NEW u \in All, NEW gone, Enter(u, gone) PROVE attempt' \in [All -> 0..(MaxAttempts - 1)]
      BY <1>1, <2>1 DEF Enter, Rest
    <2>2. ASSUME NEW kept, Boot(kept) PROVE attempt' \in [All -> 0..(MaxAttempts - 1)]
      BY <1>1, <2>2 DEF Boot
    <2>3. ASSUME NEW u \in All, FetchFails(u) PROVE attempt' \in [All -> 0..(MaxAttempts - 1)]
      <3>1. PICK thing \in Obtains(u) \ fetched[u] :
              IF attempt[u] + 1 < AttemptsFor(thing)
              THEN attempt' = [attempt EXCEPT ![u] = @ + 1]
              ELSE attempt' = [attempt EXCEPT ![u] = 0]
        BY <2>3 DEF FetchFails
      <3>2. AttemptsFor(thing) \in 1..MaxAttempts
        BY <1>1 DEF AttemptsFor
      <3>3. attempt \in [All -> 0..(MaxAttempts - 1)] /\ 0 \in 0..(MaxAttempts - 1)
        BY <1>1 DEF Rest
      <3>4. attempt[u] + 1 < AttemptsFor(thing) => attempt[u] + 1 \in 0..(MaxAttempts - 1)
        BY <1>1, <2>3, <3>2, <3>3
      <3> QED BY <3>1, <3>3, <3>4
    <2>4. CASE Start
      <3>1. Head(starting) \in All
        BY <2>4 DEF Start, Rest
      <3>2. Enter(Head(starting), {}) \/ attempt' = attempt
        BY <2>4 DEF Start, work
      <3> QED BY <3>1, <3>2, <2>1 DEF Rest
    <2>5. CASE Admit
      <3>1. attempt' = [attempt EXCEPT ![Main] = 0] /\ 0 \in 0..(MaxAttempts - 1)
        BY <1>1, <2>5 DEF Admit
      <3> QED BY <3>1 DEF Rest
    <2>6. CASE Replace \/ Reboot
      BY <2>2, <2>6 DEF Replace, Reboot
    <2>7. CASE Reap \/ Tick \/ Grant \/ UNCHANGED vars
      BY <2>7 DEF Reap, Tick, Grant, vars, work, Rest
    <2>8. ASSUME NEW u \in All, Fetch(u) PROVE attempt' \in [All -> 0..(MaxAttempts - 1)]
      BY <1>1, <2>8 DEF Fetch, Rest
    <2>9. ASSUME NEW u \in All, PreDone(u) \/ Create(u) \/ Run(u) \/ RunFails(u) \/ Succeed(u) \/ Crash(u)
          PROVE attempt' \in [All -> 0..(MaxAttempts - 1)]
      BY <2>9 DEF PreDone, Create, Run, RunFails, Succeed, Crash, Rest
    <2>10. ASSUME NEW u \in All, Restart(u) \/ RestartWithMain(u)
           PROVE attempt' \in [All -> 0..(MaxAttempts - 1)]
      BY <1>3, <2>1, <2>10 DEF Restart, RestartWithMain
    <2> QED BY <2>3, <2>4, <2>5, <2>6, <2>7, <2>8, <2>9, <2>10 DEF Next
  <1>5. starting' \in Seq(All)
    <2>1. ASSUME NEW kept, Boot(kept) PROVE starting' \in Seq(All)
      BY <1>3, <2>1 DEF Boot
    <2>2. Start => starting' \in Seq(All)
      BY DEF Start, Rest
    <2> QED
      BY <2>1, <2>2
      DEF Rest, Next, vars, work, Admit, Reap, Tick, Replace, Reboot, Grant, Fetch,
         FetchFails, PreDone,
          Create, Run, RunFails, Succeed, Crash, Restart, RestartWithMain
  <1>6. prompt' \in BOOLEAN /\ access' \in BOOLEAN
    BY DEF Rest, Next, vars, work, clock, Start, Admit, Reap, Tick, Replace, Reboot,
       Grant, Fetch, FetchFails,
           PreDone, Create, Run, RunFails, Succeed, Crash, Restart, RestartWithMain
  <1>7. since' \in 0..MaxAge /\ up' \in 0..MaxAge /\ misses' \in 0..Threshold
    <2>1. ASSUME NEW n \in Nat, NEW cap \in Nat PROVE AtMost(n, cap) \in 0..cap
      BY DEF AtMost
    <2>2. CASE Tick
      <3>1. since + 1 \in Nat /\ up + 1 \in Nat /\ misses + 1 \in Nat /\ MaxAge \in Nat /\ Threshold \in Nat
        BY <1>1 DEF Rest
      <3>2. /\ AtMost(since + 1, MaxAge) \in 0..MaxAge /\ AtMost(up + 1, MaxAge) \in 0..MaxAge
            /\ AtMost(misses + 1, Threshold) \in 0..Threshold
        BY <2>1, <3>1
      <3> QED BY <2>2, <3>1, <3>2 DEF Tick
    <2>3. ASSUME NEW kept, Boot(kept) PROVE since' = 0 /\ up' = 0
      BY <2>3 DEF Boot
    <2> QED
      BY <1>1, <2>2, <2>3
      DEF Rest, Next, vars, work, clock, Start, Admit, Reap, Replace, Reboot, Grant,
         Fetch, FetchFails, PreDone,
          Create, Run, RunFails, Succeed, Crash, Restart, RestartWithMain
  <1>8. faults' \in 0..MaxFaults
    BY <1>1 DEF Rest, Next, vars, work, clock, Start, Admit, Reap, Tick, Replace,
       Reboot, Grant, Fetch, FetchFails,
           PreDone, Create, Run, RunFails, Succeed, Crash, Restart, RestartWithMain
  <1> QED BY <1>3, <1>4, <1>5, <1>6, <1>7, <1>8 DEF Rest

-----------------------------------------------------------------------------
LEMMA Always == Spec => [](IInv /\ Rest)
  <1>1. Init => Rest
    <2> SUFFICES ASSUME Init PROVE Rest
      OBVIOUS
    <2>1. machine.order \in Seq(All)
      BY Described DEF Init
    <2> QED BY <2>1, MachineAssumption DEF Init, Rest
  <1>2. IInv /\ Rest /\ [Next]_vars => IInv' /\ Rest'
    BY NextIInv, RestStep DEF Rest
  <1> QED BY InitIInv, <1>1, <1>2, PTL DEF Spec

\* Whatever the machine, every part of the state keeps its shape and its bound.
THEOREM MachineTypeCorrect == Spec => []TypeOK
  <1>1. IInv /\ Rest => TypeOK
    BY DEF IInv, Types, Rest, TypeOK
  <1> QED BY Always, <1>1, PTL

\* Whatever is lost, restarted or rebooted, no container of any machine runs
\* without one of the secrets it must have been started with.
THEOREM MachineSecretsWhole == Spec => []SecretsWhole
  <1>1. IInv => SecretsWhole
    BY DEF IInv
  <1> QED BY Always, <1>1, PTL

\* With any sidecars, the service runs only after all the run-once ones that it
\* depends on have succeeded since the boot.
THEOREM MachineAwaitedFirst == Spec => []AwaitedFirst
  <1>1. IInv => AwaitedFirst
    <2> SUFFICES ASSUME IInv, container[Main] = "running", NEW s \in Awaited, Once(s)
                 PROVE s \in succeeded
      BY DEF AwaitedFirst
    <2>1. unit[Main] = "up" /\ s \in All
      BY Described DEF IInv, Types, MainUp
    <2> QED BY <2>1 DEF IInv, Waits, DoneMeans
  <1> QED BY Always, <1>1, PTL

\* With any sidecars, none that has succeeded is run again before the next boot.
THEOREM MachineMigratedOnce == Spec => []MigratedOnce
  <1>1. IInv => MigratedOnce
    BY DEF IInv, Types, DoneMeans, MigratedOnce
  <1> QED BY Always, <1>1, PTL

=============================================================================
