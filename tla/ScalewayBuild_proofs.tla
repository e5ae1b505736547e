-------------------------- MODULE ScalewayBuild_proofs --------------------------
(***************************************************************************)
(* For any number of calls for one destination, cancelled or not, any log  *)
(* that loses lines and any page: a call that begins in quiet never takes  *)
(* another call's RESULT line for its own, such calls implement            *)
(* BuildContract, and a call that times out had no RESULT line of its own  *)
(* to read, whatever the others wrote.  And for any number of faults and   *)
(* of attempts: whatever is left of the instance of a build was reported,  *)
(* and fewer faults than a retryCleanup has attempts leave nothing.        *)
(***************************************************************************)
EXTENDS ScalewayBuild, ScalewayInstance, FiniteSetTheorems, SequenceTheorems, TLAPS

-----------------------------------------------------------------------------
(* The inductive invariant.                                                *)

Types ==
  /\ now \in Nat /\ start \in Int /\ deadline \in Nat
  /\ call \in Builds \union {0} /\ tag \in Builds \union {0}
  /\ answer \in [Builds -> Answers]
  /\ image \in [Builds -> Builds \union {0}]
  /\ inst \in [Builds -> Instance]
  /\ log \in Seq(Line)
  /\ seen \in 0 .. Len(log)
  /\ quiet \in [Builds -> BOOLEAN]

\* The calls are made one after the other, in their order.
OneByOne ==
  /\ \A b, c \in Builds : answer[b] # "none" /\ c < b => answer[c] # "none"
  /\ call # 0 => answer[call] = "none" /\ \A c \in Builds : c < call => answer[c] # "none"

\* A script runs once its call has begun, and has pushed nothing before docker has.
Going == {"fetch", "build", "relay"}
Scripts ==
  \A b \in Builds :
    /\ answer[b] = "none" /\ b # call => inst[b].step = "none"
    /\ inst[b].step \in {"none", "fetch", "build"} => ~inst[b].pushed
    /\ inst[b].step # "none" => inst[b].skew \in Skews

\* A line was written by a script that was started; a RESULT line is its last and
\* tells the truth.
LineOf(b, text) ==
  /\ inst[b].step # "none"
  /\ text # "output" => inst[b].step = "off" /\ (inst[b].pushed <=> text = "success")
Lines == \A i \in 1 .. Len(log) : LineOf(log[i].build, log[i].text)

\* A wait that began in quiet stays alone: no other script runs, no other's line is
\* in its window, and the destination names its image once that is pushed.
Waits ==
  call # 0 =>
    /\ inst[call].step # "none"
    /\ quiet[call] =>
         /\ \A c \in Builds \ {call} : inst[c].step \notin Going
         /\ \A i \in 1 .. Len(log) : log[i].build # call => log[i].at < start
         /\ inst[call].pushed => tag = call

\* What the answer of a call that began in quiet means.
Told ==
  \A b \in Builds : quiet[b] =>
    /\ answer[b] = "failed" => inst[b].step = "off" /\ ~inst[b].pushed
    /\ answer[b] = "image" => inst[b].pushed /\ image[b] = b

IInv == Types /\ OneByOne /\ Scripts /\ Lines /\ Waits /\ Told

-----------------------------------------------------------------------------
(* The constants.                                                          *)

LEMMA Constants ==
  /\ Calls \in Nat /\ Window \in Nat /\ MaxWait \in Nat /\ Limit \in Nat
  /\ \A skew \in Skews : skew \in Int
  /\ OutputLines \subseteq Nat
  <1>1. Calls \in Nat /\ Window \in Nat /\ MaxWait \in Nat /\ Limit \in Nat
    BY ConstantsAssumption DEF ConstantsAssumption
  <1>2. Skews \subseteq Int /\ OutputLines \subseteq Nat
    BY ConstantsAssumption, Zenon DEF ConstantsAssumption
  <1> QED BY <1>1, <1>2

-----------------------------------------------------------------------------
(* The first RESULT line of a page.                                        *)

LEMMA LinesTyped ==
  ASSUME Types
  PROVE  /\ Len(log) \in Nat /\ 1 .. Len(log) \subseteq Nat
         /\ \A i \in 1 .. Len(log) :
              /\ log[i] \in Line /\ log[i].build \in Builds /\ log[i].at \in Int
              /\ log[i].text \in {"output", "success", "failure"}
  <1>1. \A i \in 1 .. Len(log) : log[i] \in Line
    BY DEF Types
  <1> QED BY <1>1 DEF Line, Types

\* Among any lines there is a first one: the set of those that are not after it is
\* minimal.
LEMMA FirstOf ==
  ASSUME Types, NEW S \in SUBSET (1 .. Len(log)), S # {}
  PROVE  \E i \in S : \A j \in S \ {i} : Before(i, j)
  <1> DEFINE UpTo(i) == {j \in S : j = i \/ Before(j, i)}
             Family == {UpTo(i) : i \in S}
  <1>1. IsFiniteSet(S)
    <2>1. IsFiniteSet(1 .. Len(log))
      BY LinesTyped, FS_Interval
    <2> QED BY <2>1, FS_Subset
  <1>2. PICK X \in Family : \A Y \in Family : <<Y, X>> \notin StrictSubsetOrdering(S)
    <2>1. Family \subseteq FiniteSubsetsOf(S) /\ Family # {}
      <3>1. FiniteSubsetsOf(S) = SUBSET S
        BY <1>1, FS_FiniteSubsetsOfFinite
      <3>2. \A i \in S : UpTo(i) \in SUBSET S
        OBVIOUS
      <3>3. PICK i \in S : TRUE
        OBVIOUS
      <3>4. UpTo(i) \in Family
        OBVIOUS
      <3> HIDE DEF UpTo
      <3> QED BY <3>1, <3>2, <3>4
    <2>2. IsWellFoundedOn(StrictSubsetOrdering(S), FiniteSubsetsOf(S))
      BY FS_StrictSubsetOrderingWellFounded
    <2> QED BY <2>1, <2>2, WFMin
  <1>3. PICK i \in S : X = UpTo(i)
    BY <1>2
  <1>4. \A j, k \in S : /\ Before(j, k) \/ Before(k, j) \/ j = k
                        /\ ~(Before(j, k) /\ Before(k, j))
                        /\ ~Before(j, j)
    BY LinesTyped DEF Before
  <1>5. ASSUME NEW j \in S, NEW k \in S, NEW l \in S, Before(j, k), Before(k, l)
        PROVE  Before(j, l)
    <2>1. /\ log[j].at \in Int /\ log[k].at \in Int /\ log[l].at \in Int
          /\ j \in Nat /\ k \in Nat /\ l \in Nat
      BY LinesTyped
    <2> QED BY <1>5, <2>1 DEF Before
  <1>6. ASSUME NEW j \in S \ {i}, ~Before(i, j) PROVE FALSE
    <2>1. Before(j, i)
      BY <1>4, <1>6
    <2>2. UpTo(j) \subseteq UpTo(i) /\ i \in UpTo(i) /\ i \notin UpTo(j)
      BY <1>4, <1>5, <2>1
    <2>3. <<UpTo(j), UpTo(i)>> \in StrictSubsetOrdering(S)
      BY <2>2 DEF StrictSubsetOrdering
    <2> QED BY <1>2, <1>3, <2>3
  <1> QED BY <1>6

\* Every line in the window of a wait that began in quiet is the waiting call's own.
LEMMA OwnLines ==
  ASSUME IInv, call # 0, quiet[call], NEW end, NEW i \in InWindow(end)
  PROVE  log[i].build = call
  <1>1. /\ i \in 1 .. Len(log) /\ log[i].at >= start
        /\ log[i].at \in Int /\ start \in Int
    BY LinesTyped DEF InWindow, IInv, Types
  <1>2. log[i].build # call => log[i].at < start
    BY <1>1 DEF IInv, Waits
  <1> QED BY <1>1, <1>2

\* So the line that ends the wait is the call's, and what it says is so.
LEMMA VerdictIsOwn ==
  ASSUME IInv, call # 0, quiet[call], NEW end, Results(end) # {}
  PROVE  /\ inst[call].step = "off"
         /\ inst[call].pushed <=> Verdict(end) = "success"
  <1>1. Results(end) \subseteq InWindow(end) /\ InWindow(end) \in SUBSET (1 .. Len(log))
    BY DEF Results, Page, InWindow
  <1>3. \E i \in Results(end) : \A j \in Results(end) \ {i} : Before(i, j)
    BY <1>1, FirstOf DEF IInv
  <1>4. PICK first \in Results(end) : Verdict(end) = log[first].text
    BY <1>3 DEF Verdict
  <1>5. log[first].build = call
    BY <1>1, <1>4, OwnLines
  <1>6. log[first].text # "output" /\ first \in 1 .. Len(log)
    BY <1>1, <1>4 DEF Results
  <1> QED BY <1>4, <1>5, <1>6 DEF IInv, Lines, LineOf

-----------------------------------------------------------------------------
(* Every step keeps the invariant.                                         *)

LEMMA InitIInv == Init => IInv
  <1> SUFFICES ASSUME Init PROVE IInv
    OBVIOUS
  <1>1. Types
    BY ConstantsAssumption DEF ConstantsAssumption, Init, Types, Answers, Instance,
       Steps, Builds
  <1>2. OneByOne /\ Scripts /\ Lines /\ Waits /\ Told
    BY DEF Init, OneByOne, Scripts, Lines, Waits, Told
  <1> QED BY <1>1, <1>2 DEF IInv

\* What a script may do to the log: nothing, or one more line of its clock, the
\* RESULT line last.
Writes(b, text) ==
  \/ log' = log
  \/ /\ Push(b, text) /\ text \in {"output", "success", "failure"}
     /\ text # "output" => inst'[b].step = "off" /\ (inst'[b].pushed <=> text = "success")

LEMMA WritesLine ==
  ASSUME IInv, NEW b \in Builds, inst[b].step # "none", NEW text, Writes(b, text)
  PROVE  /\ log' \in Seq(Line) /\ seen \in 0 .. Len(log')
         /\ \A i \in 1 .. Len(log) : i \in 1 .. Len(log') /\ log'[i] = log[i]
         /\ \A i \in 1 .. Len(log') :
              \/ i \in 1 .. Len(log) /\ log'[i] = log[i]
              \/ /\ log'[i].build = b
                 /\ log'[i].text # "output" =>
                      inst'[b].step = "off" /\ (inst'[b].pushed <=> log'[i].text = "success")
  <1>1. log \in Seq(Line) /\ seen \in 0 .. Len(log)
    BY DEF IInv, Types
  <1>2. CASE log' = log
    BY <1>1, <1>2
  <1>3. CASE log' # log
    <2> DEFINE line == [build |-> b, at |-> now + inst[b].skew, text |-> text]
    <2>1. log' = Append(log, line) /\ text \in {"output", "success", "failure"}
      BY <1>3 DEF Writes, Push
    <2>2. inst[b].skew \in Int /\ now \in Int
      BY Constants DEF IInv, Types, Scripts
    <2>3. now + inst[b].skew \in Int
      BY <2>2
    <2>4. line \in Line
      BY <2>1, <2>3 DEF Line
    <2>5. line.build = b /\ line.text = text
      OBVIOUS
    <2> HIDE DEF line
    <2>6. /\ log' \in Seq(Line) /\ Len(log') = Len(log) + 1
          /\ \A i \in 1 .. Len(log) : log'[i] = log[i]
          /\ log'[Len(log) + 1] = line
      BY <1>1, <2>1, <2>4, AppendProperties
    <2> QED BY <1>1, <1>3, <2>5, <2>6 DEF Writes
  <1> QED BY <1>2, <1>3

\* A step of a script.
LEMMA ScriptKeeps ==
  ASSUME IInv, NEW b \in Builds, NEW text,
         inst[b].step \in Going, Writes(b, text),
         UNCHANGED <<now, call, start, deadline, answer, image, seen, quiet>>,
         inst' \in [Builds -> Instance], \A c \in Builds \ {b} : inst'[c] = inst[c],
         inst'[b].step # "none", inst'[b].skew = inst[b].skew,
         inst'[b].step \in {"fetch", "build"} => ~inst'[b].pushed,
         \/ inst'[b].pushed = inst[b].pushed /\ tag' = tag
         \/ /\ inst[b].step = "build" /\ tag' = (IF inst'[b].pushed THEN b ELSE tag)
  PROVE  IInv'
  <1>1. inst[b].step # "none" /\ inst[b].step # "off"
    BY DEF Going
  <1>2. /\ log' \in Seq(Line) /\ seen \in 0 .. Len(log')
        /\ \A i \in 1 .. Len(log') :
             \/ i \in 1 .. Len(log) /\ log'[i] = log[i]
             \/ /\ log'[i].build = b
                /\ log'[i].text # "output" =>
                     inst'[b].step = "off" /\ (inst'[b].pushed <=> log'[i].text = "success")
    BY <1>1, WritesLine
  <1>3. b = call \/ answer[b] # "none"
    BY <1>1 DEF IInv, Scripts
  <1>4. Types'
    BY <1>2 DEF IInv, Types
  <1>5. OneByOne'
    BY DEF IInv, OneByOne
  <1>6. Scripts'
    BY <1>1, <1>3 DEF IInv, Scripts
  <1>7. Lines'
    <2> SUFFICES ASSUME NEW i \in 1 .. Len(log')
                 PROVE  LineOf(log[i].build, log[i].text)'
      BY DEF Lines
    <2>1. CASE i \in 1 .. Len(log) /\ log'[i] = log[i]
      <3>1. LineOf(log[i].build, log[i].text) /\ log[i].build \in Builds
        BY <2>1, LinesTyped DEF IInv, Lines
      <3>2. CASE log[i].build = b
        <4>1. log[i].text = "output"
          BY <1>1, <3>1, <3>2 DEF LineOf
        <4> QED BY <2>1, <3>1, <3>2, <4>1 DEF LineOf
      <3>3. CASE log[i].build # b
        BY <2>1, <3>1, <3>3 DEF LineOf
      <3> QED BY <3>2, <3>3
    <2>2. CASE /\ log'[i].build = b
               /\ log'[i].text # "output" =>
                    inst'[b].step = "off" /\ (inst'[b].pushed <=> log'[i].text = "success")
      BY <2>2 DEF LineOf
    <2> QED BY <1>2, <2>1, <2>2
  <1>8. Waits'
    <2> SUFFICES ASSUME call # 0
                 PROVE  /\ inst'[call].step # "none"
                        /\ quiet[call] =>
                             /\ \A c \in Builds \ {call} : inst'[c].step \notin Going
                             /\ \A i \in 1 .. Len(log') :
                                  log'[i].build # call => log'[i].at < start
                             /\ inst'[call].pushed => tag' = call
      BY DEF Waits
    <2>1. call \in Builds /\ inst[call].step # "none"
      BY DEF IInv, Types, Waits
    <2>2. inst'[call].step # "none"
      BY <2>1
    <2>3. ASSUME quiet[call]
          PROVE  /\ \A c \in Builds \ {call} : inst'[c].step \notin Going
                 /\ \A i \in 1 .. Len(log') : log'[i].build # call => log'[i].at < start
                 /\ inst'[call].pushed => tag' = call
      <3>1. b = call
        BY <2>3 DEF IInv, Waits
      <3>2. \A c \in Builds \ {call} : inst'[c].step \notin Going
        BY <2>3, <3>1 DEF IInv, Waits
      <3>3. \A i \in 1 .. Len(log') : log'[i].build # call => log'[i].at < start
        BY <1>2, <2>3, <3>1 DEF IInv, Waits
      <3>4. inst'[call].pushed => tag' = call
        BY <2>3, <3>1 DEF IInv, Waits
      <3> QED BY <3>2, <3>3, <3>4
    <2> QED BY <2>2, <2>3
  <1>9. Told'
    BY <1>1 DEF IInv, Told, Scripts
  <1> QED BY <1>4, <1>5, <1>6, <1>7, <1>8, <1>9 DEF IInv

LEMMA ScriptIInv ==
  ASSUME IInv, NEW b \in Builds, Script(b)
  PROVE  IInv'
  <1>1. /\ inst \in [Builds -> Instance] /\ inst[b] \in Instance
        /\ \A s \in Steps : [inst[b] EXCEPT !.step = s] \in Instance
    BY DEF IInv, Types, Instance
  <1>2. CASE Fetch(b)
    <2>1. inst[b].step = "fetch" /\ ~inst[b].pushed
      BY <1>2 DEF Fetch, At, IInv, Scripts
    <2>2. PICK s \in {"build", "off"} : inst' = [inst EXCEPT ![b].step = s]
                                        /\ Writes(b, "failure")
      BY <1>1, <1>2, <2>1 DEF Fetch, Writes, Instance
    <2>3. inst'[b] = [inst[b] EXCEPT !.step = s] /\ s \in Steps
      BY <1>1, <2>2 DEF Steps
    <2>4. inst' \in [Builds -> Instance] /\ (\A c \in Builds \ {b} : inst'[c] = inst[c])
      BY <1>1, <2>2, <2>3
    <2>5. inst'[b].step = s /\ inst'[b].skew = inst[b].skew /\ inst'[b].pushed = inst[b].pushed
      BY <1>1, <2>3 DEF Instance
    <2> QED BY <1>2, <2>1, <2>2, <2>4, <2>5, ScriptKeeps DEF Fetch, Going
  <1>3. CASE BuildImage(b)
    <2>1. PICK ok \in BOOLEAN, n \in OutputLines :
            /\ inst' = [inst EXCEPT ![b].step = "relay", ![b].pushed = ok, ![b].left = n]
            /\ tag' = IF ok THEN b ELSE tag
      BY <1>3 DEF BuildImage
    <2>2. inst'[b] = [inst[b] EXCEPT !.step = "relay", !.pushed = ok, !.left = n]
      BY <1>1, <2>1
    <2>3. n \in Nat
      BY ConstantsAssumption DEF ConstantsAssumption
    <2>4. inst'[b] \in Instance
      BY <1>1, <2>2, <2>3 DEF Instance, Steps
    <2>5. inst' \in [Builds -> Instance] /\ (\A c \in Builds \ {b} : inst'[c] = inst[c])
      BY <1>1, <2>1, <2>4
    <2>6. inst'[b].step = "relay" /\ inst'[b].skew = inst[b].skew /\ inst'[b].pushed = ok
      BY <1>1, <2>2 DEF Instance
    <2>7. Writes(b, "output")
      BY <1>3 DEF BuildImage, Writes
    <2>8. inst[b].step = "build"
      BY <1>3 DEF BuildImage, At
    <2> QED BY <1>3, <2>1, <2>5, <2>6, <2>7, <2>8, ScriptKeeps DEF BuildImage, Going
  <1>4. CASE Relay(b)
    <2>1. inst[b].step = "relay" /\ inst[b].left \in Nat /\ inst[b].left > 0
      BY <1>1, <1>4 DEF Relay, At, Instance
    <2>2. inst'[b] = [inst[b] EXCEPT !.left = inst[b].left - 1]
      BY <1>1, <1>4 DEF Relay
    <2>3. inst'[b] \in Instance
      BY <1>1, <2>1, <2>2 DEF Instance
    <2>4. inst' \in [Builds -> Instance] /\ (\A c \in Builds \ {b} : inst'[c] = inst[c])
      BY <1>1, <1>4, <2>2, <2>3 DEF Relay
    <2>5. /\ inst'[b].step = "relay" /\ inst'[b].skew = inst[b].skew
          /\ inst'[b].pushed = inst[b].pushed
      BY <1>1, <2>1, <2>2 DEF Instance
    <2>6. Writes(b, "output")
      BY <1>4 DEF Relay, Writes
    <2> QED BY <1>4, <2>1, <2>4, <2>5, <2>6, ScriptKeeps DEF Relay, Going
  <1>5. CASE Report(b)
    <2>1. inst[b].step = "relay"
      BY <1>5 DEF Report, At
    <2>2. inst'[b] = [inst[b] EXCEPT !.step = "off"]
      BY <1>1, <1>5 DEF Report
    <2>3. inst' \in [Builds -> Instance] /\ (\A c \in Builds \ {b} : inst'[c] = inst[c])
      BY <1>1, <1>5, <2>2 DEF Report, Steps
    <2>4. /\ inst'[b].step = "off" /\ inst'[b].skew = inst[b].skew
          /\ inst'[b].pushed = inst[b].pushed
      BY <1>1, <2>2 DEF Instance
    <2>5. Writes(b, IF inst[b].pushed THEN "success" ELSE "failure")
      BY <1>1, <1>5, <2>4 DEF Report, Writes, Instance
    <2> QED BY <1>5, <2>1, <2>3, <2>4, <2>5, ScriptKeeps DEF Report, Going
  <1> QED BY <1>2, <1>3, <1>4, <1>5 DEF Script

LEMMA BootIInv ==
  ASSUME IInv, NEW b \in Builds, Boot(b)
  PROVE  IInv'
  <1>1. call = 0 /\ b # 0 /\ answer[b] = "none" /\ inst[b].step = "none" /\ ~inst[b].pushed
    <2>1. call = 0 /\ b # 0 /\ answer[b] = "none"
      BY DEF Boot, Due, Builds
    <2> QED BY <2>1 DEF IInv, Scripts
  <1>2. PICK skew \in Skews : inst' = [inst EXCEPT ![b].step = "fetch", ![b].skew = skew]
    BY DEF Boot
  <1>3. inst \in [Builds -> Instance] /\ inst[b] \in Instance
    BY DEF IInv, Types
  <1>4. inst'[b] = [inst[b] EXCEPT !.step = "fetch", !.skew = skew]
    BY <1>2, <1>3
  <1>5. /\ inst' \in [Builds -> Instance] /\ (\A c \in Builds \ {b} : inst'[c] = inst[c])
        /\ inst'[b].step = "fetch" /\ inst'[b].skew = skew /\ ~inst'[b].pushed
    <2>1. inst'[b] \in Instance
      BY <1>3, <1>4 DEF Instance, Steps
    <2>2. inst'[b].step = "fetch" /\ inst'[b].skew = skew /\ inst'[b].pushed = inst[b].pushed
      BY <1>3, <1>4 DEF Instance
    <2> QED BY <1>1, <1>2, <1>3, <2>1, <2>2
  <1>6. Window \in Nat /\ MaxWait \in Nat
    BY Constants
  <1>7. /\ quiet' \in [Builds -> BOOLEAN] /\ \A c \in Builds \ {b} : quiet'[c] = quiet[c]
        /\ quiet'[b] = QuietFrom(now - Window)
    <2>1. QuietFrom(now - Window) \in BOOLEAN
      BY DEF QuietFrom
    <2>2. quiet \in [Builds -> BOOLEAN] /\ quiet' = [quiet EXCEPT ![b] = QuietFrom(now - Window)]
      BY DEF Boot, IInv, Types
    <2> HIDE DEF QuietFrom
    <2> QED BY <2>1, <2>2
  <1>8. Types'
    <2>1. start' \in Int /\ deadline' \in Nat
      BY <1>6 DEF Boot, IInv, Types
    <2>2. seen' \in 0 .. Len(log')
      BY LinesTyped DEF Boot, IInv
    <2> QED BY <1>5, <1>7, <2>1, <2>2 DEF Boot, IInv, Types
  <1>9. OneByOne'
    <2>1. \A c \in Builds : c < b => answer[c] # "none"
      BY DEF Boot, Due, Builds
    <2> QED BY <1>1, <2>1 DEF Boot, IInv, OneByOne
  <1>10. Scripts'
    <2> SUFFICES ASSUME NEW c \in Builds
                 PROVE  /\ answer[c] = "none" /\ c # b => inst'[c].step = "none"
                        /\ inst'[c].step \in {"none", "fetch", "build"} => ~inst'[c].pushed
                        /\ inst'[c].step # "none" => inst'[c].skew \in Skews
      BY DEF Scripts, Boot
    <2>1. CASE c = b
      BY <1>2, <1>5, <2>1
    <2>2. CASE c # b
      <3>1. inst'[c] = inst[c] /\ c # call
        BY <1>1, <1>5, <2>2 DEF Builds
      <3> QED BY <2>2, <3>1 DEF IInv, Scripts
    <2> QED BY <2>1, <2>2
  <1>11. \A i \in 1 .. Len(log) : log[i].build \in Builds \ {b}
    BY <1>1, LinesTyped DEF IInv, Lines, LineOf
  <1>12. Lines'
    <2> SUFFICES ASSUME NEW i \in 1 .. Len(log)
                 PROVE  LineOf(log[i].build, log[i].text)'
      BY DEF Lines, Boot
    <2>1. LineOf(log[i].build, log[i].text) /\ log[i].build \in Builds \ {b}
      BY <1>11 DEF IInv, Lines
    <2> QED BY <1>5, <2>1 DEF LineOf, Boot
  <1>13. Waits'
    <2>1. quiet'[b] => /\ \A c \in Builds \ {b} : inst'[c].step \notin Going
                       /\ \A i \in 1 .. Len(log) : log[i].at < now - Window
      BY <1>5, <1>7 DEF QuietFrom, Running, Going
    <2> QED BY <1>5, <2>1 DEF Boot, Waits
  <1>14. Told'
    BY <1>1, <1>5, <1>7 DEF Boot, IInv, Told
  <1> QED BY <1>8, <1>9, <1>10, <1>12, <1>13, <1>14 DEF IInv

\* The lines stay true while scripts end.
LEMMA LinesStay ==
  ASSUME IInv, UNCHANGED log,
         \A b \in Builds : /\ inst[b].step # "none" => inst'[b].step # "none"
                           /\ inst[b].step = "off" => inst'[b].step = "off"
                           /\ inst'[b].pushed = inst[b].pushed
  PROVE  Lines'
  <1> SUFFICES ASSUME NEW i \in 1 .. Len(log)
               PROVE  LineOf(log[i].build, log[i].text)'
    BY DEF Lines
  <1>1. LineOf(log[i].build, log[i].text) /\ log[i].build \in Builds
    BY LinesTyped DEF IInv, Lines
  <1> QED BY <1>1 DEF LineOf

LEMMA BootFailsIInv ==
  ASSUME IInv, NEW b \in Builds, BootFails(b)
  PROVE  IInv'
  <1>1. call = 0 /\ b # 0 /\ answer[b] = "none" /\ inst[b].step = "none"
    <2>1. call = 0 /\ b # 0 /\ answer[b] = "none"
      BY DEF BootFails, Due, Builds
    <2> QED BY <2>1 DEF IInv, Scripts
  <1>2. answer' \in [Builds -> Answers] /\ answer'[b] = "error"
        /\ \A c \in Builds \ {b} : answer'[c] = answer[c]
    BY DEF BootFails, IInv, Types, Answers
  <1>3. Types'
    BY <1>2 DEF BootFails, IInv, Types
  <1>4. OneByOne'
    <2>1. \A c \in Builds : c < b => answer[c] # "none"
      BY DEF BootFails, Due, Builds
    <2> QED BY <1>1, <1>2, <2>1 DEF BootFails, IInv, OneByOne
  <1>5. Scripts'
    BY <1>1, <1>2 DEF BootFails, IInv, Scripts
  <1>6. Lines'
    BY LinesStay DEF BootFails
  <1>7. Waits' /\ Told'
    BY <1>1, <1>2 DEF BootFails, IInv, Waits, Told
  <1> QED BY <1>3, <1>4, <1>5, <1>6, <1>7 DEF IInv

\* A call that returns.
LEMMA ReturnKeeps ==
  ASSUME IInv, call # 0,
         NEW what \in Answers \ {"none"}, NEW torn \in BOOLEAN, Return(what, torn),
         now' \in {now, now + 1},
         what = "failed" /\ quiet[call] => inst[call].step = "off" /\ ~inst[call].pushed,
         what = "image" /\ quiet[call] => inst[call].pushed
  PROVE  IInv'
  <1>1. call \in Builds /\ answer[call] = "none"
    BY DEF IInv, Types, OneByOne
  <1>2. /\ answer' \in [Builds -> Answers] /\ answer'[call] = what
        /\ \A c \in Builds \ {call} : answer'[c] = answer[c]
    BY <1>1 DEF Return, IInv, Types
  <1>3. /\ image' \in [Builds -> Builds \union {0}] /\ image'[call] = tag
        /\ \A c \in Builds \ {call} : image'[c] = image[c]
    BY <1>1 DEF Return, IInv, Types
  <1>4. inst \in [Builds -> Instance] /\ inst[call] \in Instance
    BY <1>1 DEF IInv, Types
  <1>5. inst' = [inst EXCEPT ![call] = [inst[call] EXCEPT !.step = IF torn THEN "off" ELSE @]]
    BY <1>1, <1>4 DEF Return, Instance
  <1>6. /\ inst'[call] = [inst[call] EXCEPT !.step = IF torn THEN "off" ELSE @]
        /\ \A c \in Builds \ {call} : inst'[c] = inst[c]
    BY <1>1, <1>4, <1>5
  <1>7. /\ inst'[call] \in Instance /\ inst'[call].skew = inst[call].skew
        /\ inst'[call].pushed = inst[call].pushed
        /\ inst'[call].step = (IF torn THEN "off" ELSE inst[call].step)
    BY <1>4, <1>6 DEF Instance, Steps
  <1>8. inst' \in [Builds -> Instance]
    BY <1>4, <1>5, <1>6, <1>7
  <1>9. inst[call].step # "none" /\ (quiet[call] /\ inst[call].pushed => tag = call)
    BY DEF IInv, Waits
  <1>10. Types'
    <2>1. start' \in Int /\ deadline' \in Nat /\ seen' \in 0 .. Len(log) /\ now' \in Nat
      BY LinesTyped DEF Return, IInv, Types
    <2> QED BY <1>2, <1>3, <1>8, <2>1 DEF Return, IInv, Types
  <1>11. OneByOne'
    BY <1>1, <1>2 DEF Return, IInv, OneByOne
  <1>12. Scripts'
    <2> SUFFICES ASSUME NEW b \in Builds
                 PROVE  /\ answer'[b] = "none" => inst'[b].step = "none"
                        /\ inst'[b].step \in {"none", "fetch", "build"} => ~inst'[b].pushed
                        /\ inst'[b].step # "none" => inst'[b].skew \in Skews
      BY DEF Scripts, Return
    <2>1. CASE b = call
      BY <1>1, <1>2, <1>7, <1>9, <2>1 DEF IInv, Scripts
    <2>2. CASE b # call
      BY <1>2, <1>6, <2>2 DEF IInv, Scripts
    <2> QED BY <2>1, <2>2
  <1>13. Lines'
    BY <1>6, <1>7, LinesStay DEF Return
  <1>14. Waits'
    BY DEF Waits, Return
  <1>15. Told'
    <2> SUFFICES ASSUME NEW b \in Builds, quiet[b]
                 PROVE  /\ answer'[b] = "failed" => inst'[b].step = "off" /\ ~inst'[b].pushed
                        /\ answer'[b] = "image" => inst'[b].pushed /\ image'[b] = b
      BY DEF Told, Return
    <2>1. CASE b = call
      BY <1>2, <1>3, <1>7, <1>9, <2>1
    <2>2. CASE b # call
      BY <1>2, <1>3, <1>6, <2>2 DEF IInv, Told
    <2> QED BY <2>1, <2>2
  <1> QED BY <1>10, <1>11, <1>12, <1>13, <1>14, <1>15 DEF IInv

\* What a call that began in quiet says is so.
LEMMA WaitReturns ==
  ASSUME IInv, Wait, call' = 0, call # 0
  PROVE  \E what \in Answers \ {"none"}, torn \in BOOLEAN :
           /\ Return(what, torn)
           /\ now' \in {now, now + 1}
           /\ what = "failed" /\ quiet[call] => inst[call].step = "off" /\ ~inst[call].pushed
           /\ what = "image" /\ quiet[call] => inst[call].pushed
           /\ what = "timeout" => now > deadline
  <1>2. {"image", "failed", "error", "timeout"} \subseteq Answers \ {"none"}
    BY DEF Answers
  <1>3. CASE Poll
    <2>1. Results(now') # {}
      BY <1>3 DEF Poll
    <2>2. PICK torn \in BOOLEAN :
            Return(IF Verdict(now') = "success" THEN "image" ELSE "failed", torn)
      BY <1>3, <2>1 DEF Poll
    <2>3. quiet[call] => inst[call].step = "off" /\ (inst[call].pushed <=> Verdict(now') = "success")
      BY <2>1, VerdictIsOwn
    <2>4. now' \in {now, now + 1}
      BY <1>3 DEF Poll
    <2>5. CASE Verdict(now') = "success"
      BY <1>2, <2>2, <2>3, <2>4, <2>5
    <2>6. CASE Verdict(now') # "success"
      BY <1>2, <2>2, <2>3, <2>4, <2>6
    <2> QED BY <2>5, <2>6
  <1>4. CASE PollFails
    <2>1. PICK torn \in BOOLEAN : Return("error", torn)
      BY <1>4 DEF PollFails
    <2>2. now' \in {now, now + 1}
      BY <1>4 DEF PollFails
    <2> QED BY <1>2, <2>1, <2>2
  <1>5. CASE TimeOut
    <2>1. PICK torn \in BOOLEAN : Return("timeout", torn)
      BY <1>5 DEF TimeOut
    <2>2. now' \in {now, now + 1} /\ now > deadline
      BY <1>5 DEF TimeOut
    <2> QED BY <1>2, <2>1, <2>2
  <1>6. CASE Cancel
    <2>1. Return("error", FALSE) /\ now' \in {now, now + 1}
      BY <1>6 DEF Cancel
    <2> QED BY <1>2, <2>1
  <1> QED BY <1>3, <1>4, <1>5, <1>6 DEF Wait

\* A turn of the wait that finds nothing, and the time between calls.
Waiting ==
  /\ now' = now + 1 /\ seen' \in 0 .. Len(log)
  /\ UNCHANGED <<call, start, deadline, answer, image, inst, tag, log, quiet>>

LEMMA WaitingIInv == IInv /\ Waiting => IInv'
  <1> SUFFICES ASSUME IInv, Waiting PROVE IInv'
    OBVIOUS
  <1>1. Types'
    BY DEF Waiting, IInv, Types
  <1>2. Lines'
    BY LinesStay DEF Waiting
  <1>3. OneByOne' /\ Scripts' /\ Waits' /\ Told'
    BY DEF Waiting, IInv, OneByOne, Scripts, Waits, Told
  <1> QED BY <1>1, <1>2, <1>3 DEF IInv

LEMMA WaitSteps ==
  ASSUME IInv, Wait
  PROVE  call # 0 /\ (Waiting \/ call' = 0)
  <1>1. call # 0
    BY DEF Wait, Poll, PollFails, TimeOut, Cancel
  <1>2. Waiting \/ call' = 0
    <2>1. Len(log) \in 0 .. Len(log)
      BY LinesTyped DEF IInv
    <2> QED BY <2>1 DEF Wait, Poll, PollFails, TimeOut, Cancel, Return, Waiting
  <1> QED BY <1>1, <1>2

LEMMA NextIInv ==
  ASSUME IInv, [Next]_vars
  PROVE  IInv'
  <1>1. ASSUME NEW b \in Builds, Script(b) PROVE IInv'
    BY <1>1, ScriptIInv
  <1>2. ASSUME NEW b \in Builds, Boot(b) PROVE IInv'
    BY <1>2, BootIInv
  <1>3. ASSUME NEW b \in Builds, BootFails(b) PROVE IInv'
    BY <1>3, BootFailsIInv
  <1>4. CASE Wait
    BY <1>4, WaitSteps, WaitingIInv, WaitReturns, ReturnKeeps
  <1>5. CASE Tick
    BY <1>5, WaitingIInv DEF Tick, Waiting, IInv, Types
  <1>6. CASE UNCHANGED vars
    BY <1>6 DEF vars, IInv, Types, OneByOne, Scripts, Lines, LineOf, Waits, Told
  <1> QED BY <1>1, <1>2, <1>3, <1>4, <1>5, <1>6 DEF Next

LEMMA Always == Spec => []IInv
  <1>1. IInv /\ [Next]_vars => IInv'
    BY NextIInv
  <1> QED BY <1>1, InitIInv, PTL DEF Spec

-----------------------------------------------------------------------------
(* What it shows.                                                          *)

\* The state of the calls, of their instances and of the log stays within its
\* types, for any number of calls, cancelled or not, and any log (Create and Update
\* of build.go).
THEOREM BuildTypeCorrect == Spec => []TypeOK
  <1>1. IInv => TypeOK
    <2> SUFFICES ASSUME IInv PROVE TypeOK
      OBVIOUS
    <2>1. \A i \in 1 .. Len(log) : log[i] \in Line
      BY LinesTyped DEF IInv
    <2> QED BY <2>1 DEF IInv, Types, OneByOne, TypeOK
  <1> QED BY <1>1, Always, PTL

\* However many calls share the log's source and whatever they left behind, a call
\* that begins in quiet reports RESULT:FAILURE only of its own script, and one that
\* pushed no image (waitForInstanceBuild).
THEOREM FailuresAreOwn == Spec => []FailureIsOwn
  <1>1. IInv => FailureIsOwn
    BY DEF IInv, Told, FailureIsOwn
  <1> QED BY <1>1, Always, PTL

-----------------------------------------------------------------------------
(* A call reads its RESULT line.                                           *)

\* The last query would have shown an earlier RESULT line, but for a page of lines
\* before it.
Unread ==
  call # 0 =>
    \A i \in 1 .. seen : Own(call, i) =>
      log[i].at >= now \/ log[i].at < start \/ Cardinality(Earlier(i)) >= Limit

LEMMA EarlierFinite ==
  ASSUME Types, NEW i
  PROVE  IsFiniteSet(Earlier(i)) /\ Cardinality(Earlier(i)) \in Nat
  <1>1. IsFiniteSet(1 .. Len(log))
    BY LinesTyped, FS_Interval
  <1>2. Earlier(i) \in SUBSET (1 .. Len(log))
    BY DEF Earlier
  <1>3. IsFiniteSet(Earlier(i))
    BY <1>1, <1>2, FS_Subset
  <1> QED BY <1>3, FS_CardinalityType

\* A log that grows hides what it hid.
LEMMA ScriptUnread ==
  ASSUME IInv, IInv', Unread, NEW b \in Builds, Script(b)
  PROVE  Unread'
  <1>1. UNCHANGED <<now, call, start, seen>>
    BY DEF Script, Fetch, BuildImage, Relay, Report
  <1>2. \A i \in 1 .. Len(log) : i \in 1 .. Len(log') /\ log'[i] = log[i]
    <2>1. CASE log' = log
      BY <2>1
    <2>2. CASE log' # log
      <3>1. PICK line : log' = Append(log, line)
        BY <2>2 DEF Script, Fetch, BuildImage, Relay, Report, Push
      <3>2. log \in Seq(Line \union {line}) /\ line \in Line \union {line}
        BY DEF IInv, Types
      <3>3. /\ Len(log') = Len(log) + 1 /\ Len(log) \in Nat
            /\ \A i \in 1 .. Len(log) : log'[i] = log[i]
        BY <3>1, <3>2, AppendProperties
      <3> QED BY <3>3
    <2> QED BY <2>1, <2>2
  <1>3. \A i \in 1 .. seen : i \in 1 .. Len(log)
    BY LinesTyped DEF IInv, Types
  <1>4. \A i \in 1 .. Len(log) : Earlier(i) \subseteq Earlier(i)'
    BY <1>1, <1>2 DEF Earlier, Before
  <1>5. \A i \in 1 .. Len(log) : Cardinality(Earlier(i)) >= Limit => Cardinality(Earlier(i)') >= Limit
    <2> SUFFICES ASSUME NEW i \in 1 .. Len(log), Cardinality(Earlier(i)) >= Limit
                 PROVE  Cardinality(Earlier(i)') >= Limit
      OBVIOUS
    <2>1. IsFiniteSet(Earlier(i)') /\ Cardinality(Earlier(i)') \in Nat
      <3>1. Types'
        BY DEF IInv
      <3>2. IsFiniteSet(1 .. Len(log'))
        BY <3>1, FS_Interval DEF Types
      <3>3. Earlier(i)' \in SUBSET (1 .. Len(log'))
        BY DEF Earlier
      <3> QED BY <3>2, <3>3, FS_Subset, FS_CardinalityType
    <2>2. Cardinality(Earlier(i)) <= Cardinality(Earlier(i)')
      BY <1>4, <2>1, FS_Subset
    <2>3. Cardinality(Earlier(i)) \in Nat
      BY EarlierFinite DEF IInv
    <2> QED BY <2>1, <2>2, <2>3, Constants
  <1> QED BY <1>1, <1>2, <1>3, <1>5 DEF Unread, Own

\* A query that shows no RESULT line has shown the call's up to its time, but for
\* those that its page had no room for.
LEMMA PollUnread ==
  ASSUME IInv, Poll, call' # 0
  PROVE  Unread'
  <1>1. Results(now') = {}
    BY DEF Poll, Return
  <1>2. /\ call' = call /\ call # 0 /\ seen' = Len(log) /\ now' = now + 1
        /\ UNCHANGED <<start, log>>
    BY <1>1 DEF Poll
  <1>3. SUFFICES ASSUME NEW i \in 1 .. Len(log), log[i].text # "output",
                        ~(log[i].at >= now'), ~(log[i].at < start)
                 PROVE  Cardinality(Earlier(i)) >= Limit
    <2>1. \A i \in 1 .. Len(log) : Earlier(i)' = Earlier(i)
      BY <1>2 DEF Earlier, Before
    <2> QED BY <1>2, <2>1 DEF Unread, Own
  <1>4. log[i].at \in Int /\ now' \in Int /\ start \in Int
    BY <1>2, LinesTyped DEF IInv, Types
  <1>5. i \in InWindow(now')
    BY <1>3, <1>4 DEF InWindow
  <1>6. i \notin Page(now')
    BY <1>1, <1>3 DEF Results
  <1>7. {j \in InWindow(now') : Before(j, i)} = Earlier(i)
    <2>1. \A j \in 1 .. Len(log) : log[j].at \in Int /\ (Before(j, i) => log[j].at < now')
      <3>1. \A j \in 1 .. Len(log) : log[j].at \in Int
        BY LinesTyped DEF IInv
      <3> QED BY <1>3, <1>4, <3>1 DEF Before
    <2> QED BY <2>1 DEF InWindow, Earlier
  <1>8. ~(Cardinality(Earlier(i)) < Limit)
    BY <1>5, <1>6, <1>7 DEF Page
  <1> QED BY <1>8, EarlierFinite, Constants DEF IInv

LEMMA NextUnread ==
  ASSUME IInv, Unread, [Next]_vars
  PROVE  Unread'
  <1>1. IInv'
    BY NextIInv
  <1>2. ASSUME NEW b \in Builds, Script(b) PROVE Unread'
    BY <1>1, <1>2, ScriptUnread
  <1>3. ASSUME NEW b \in Builds, Boot(b) PROVE Unread'
    <2>1. inst[b].step = "none" /\ call' = b /\ log' = log /\ seen' = Len(log)
      BY <1>3 DEF Boot, Due, Builds, IInv, Scripts
    <2>2. \A i \in 1 .. Len(log) : log[i].build # b
      BY <2>1 DEF IInv, Lines, LineOf
    <2> QED BY <2>1, <2>2 DEF Unread, Own
  <1>4. ASSUME NEW b \in Builds, BootFails(b) PROVE Unread'
    BY <1>4 DEF BootFails, Unread
  <1>5. CASE Wait
    <2>1. CASE call' = 0
      BY <2>1 DEF Unread
    <2>2. CASE call' # 0
      <3>1. Poll
        BY <1>5, <2>2 DEF Wait, PollFails, TimeOut, Cancel, Return
      <3> QED BY <2>2, <3>1, PollUnread
    <2> QED BY <2>1, <2>2
  <1>6. CASE Tick
    BY <1>6 DEF Tick, Unread
  <1>7. CASE UNCHANGED vars
    BY <1>7 DEF vars, Unread, Own, Earlier, Before
  <1> QED BY <1>2, <1>3, <1>4, <1>5, <1>6, <1>7 DEF Next

\* Only the deadline's passing makes a call time out.
LEMMA TimeOutReads ==
  ASSUME IInv, Unread, [Next]_vars,
         NEW b \in Builds, answer[b] # "timeout", answer'[b] = "timeout",
         NEW i \in 1 .. seen, Own(b, i)
  PROVE  Unreadable(i)
  <1>1. answer \in [Builds -> Answers] /\ now \in Nat /\ deadline \in Nat /\ start \in Int
    BY DEF IInv, Types
  <1>2. ~\E c \in Builds : Script(c) \/ Boot(c)
    BY DEF Script, Fetch, BuildImage, Relay, Report, Boot
  <1>3. ~\E c \in Builds : BootFails(c)
    BY <1>1 DEF BootFails
  <1>4. Wait
    BY <1>2, <1>3 DEF Next, Tick, vars
  <1>5. call # 0 /\ call' = 0
    BY <1>4, WaitSteps DEF Waiting
  <1>6. PICK what \in Answers \ {"none"}, torn \in BOOLEAN :
          Return(what, torn) /\ (what = "timeout" => now > deadline)
    BY <1>4, <1>5, WaitReturns
  <1>7. b = call /\ what = "timeout"
    <2>1. answer' = [answer EXCEPT ![call] = what]
      BY <1>6 DEF Return
    <2> QED BY <1>1, <2>1
  <1>8. i \in 1 .. Len(log) /\ log[i].at \in Int
    BY LinesTyped DEF IInv, Types
  <1> QED BY <1>1, <1>5, <1>6, <1>7, <1>8 DEF Unread, Unreadable

\* Whatever the other calls write under the label they share: a call that times out
\* had no RESULT line of its own to read, but for one behind a full page of lines or
\* stamped before the window by a clock that is behind (waitForInstanceBuild,
\* queryLoki).
THEOREM ResultsAreRead == Spec => ResultIsRead
  <1>1. Init => Unread
    BY DEF Init, Unread
  <1>2. (IInv /\ Unread) /\ [Next]_vars => (IInv /\ Unread)'
    BY NextIInv, NextUnread
  <1>3. IInv /\ Unread /\ [Next]_vars =>
          [\A b \in Builds : answer[b] # "timeout" /\ answer'[b] = "timeout" =>
             \A i \in 1 .. seen : Own(b, i) => Unreadable(i)]_vars
    BY TimeOutReads
  <1> QED BY <1>1, <1>2, <1>3, InitIInv, PTL DEF Spec, ResultIsRead

-----------------------------------------------------------------------------
(* The calls implement the contract.                                       *)

\* The calls as BuildContract sees them.
Made == [b \in Builds |-> IF inst[b].pushed THEN {b} ELSE {}]
Shown(b) == CASE answer[b] = "none" \/ (answer[b] = "image" /\ ~quiet[b]) -> NoAnswer
              [] answer[b] = "image" /\ quiet[b] -> image[b]
              [] OTHER -> Failed
Given == [b \in Builds |-> Shown(b)]

\* Only docker makes an image.
LEMMA ScriptRefines ==
  ASSUME IInv, NEW b \in Builds, Script(b)
  PROVE  Contract!Next \/ UNCHANGED <<Made, Given>>
  <1>1. inst \in [Builds -> Instance] /\ inst[b] \in Instance /\ \A c \in Builds : inst[c].pushed \in BOOLEAN
    BY DEF IInv, Types, Instance
  <1>2. Given' = Given
    BY DEF Script, Fetch, BuildImage, Relay, Report, Given, Shown
  <1>3. CASE BuildImage(b)
    <2>1. PICK ok \in BOOLEAN, n \in OutputLines :
            inst' = [inst EXCEPT ![b].step = "relay", ![b].pushed = ok, ![b].left = n]
      BY <1>3 DEF BuildImage
    <2>2. /\ inst'[b] = [inst[b] EXCEPT !.step = "relay", !.pushed = ok, !.left = n]
          /\ \A c \in Builds \ {b} : inst'[c] = inst[c]
      BY <1>1, <2>1
    <2>3. inst'[b].pushed = ok
      BY <1>1, <2>2 DEF Instance
    <2>4. ~inst[b].pushed
      BY <1>3 DEF BuildImage, At, IInv, Scripts
    <2>5. CASE ok
      <3>1. Made' = [Made EXCEPT ![b] = @ \union {b}]
        BY <2>2, <2>3, <2>4, <2>5 DEF Made
      <3>2. \A c \in Builds : b \notin Made[c]
        BY <2>4 DEF Made
      <3>3. Contract!Push(b, b)
        BY <1>2, <3>1, <3>2 DEF Contract!Push, Made, Given, Shown
      <3> QED BY <3>3 DEF Contract!Next
    <2>6. CASE ~ok
      BY <1>2, <2>2, <2>3, <2>4, <2>6 DEF Made
    <2> QED BY <2>5, <2>6
  <1>4. CASE Fetch(b) \/ Relay(b) \/ Report(b)
    <2>1. \A c \in Builds : inst'[c].pushed = inst[c].pushed
      BY <1>1, <1>4 DEF Fetch, Relay, Report, Instance
    <2> QED BY <1>2, <2>1 DEF Made
  <1> QED BY <1>3, <1>4 DEF Script

\* A call that returns answers its caller, unless it has another's answer.
LEMMA ReturnRefines ==
  ASSUME IInv, call # 0, NEW what \in Answers \ {"none"}, NEW torn \in BOOLEAN,
         Return(what, torn), what = "image" /\ quiet[call] => inst[call].pushed
  PROVE  Contract!Next \/ UNCHANGED <<Made, Given>>
  <1>1. call \in Builds /\ answer[call] = "none" /\ (quiet[call] /\ inst[call].pushed => tag = call)
    BY DEF IInv, Types, OneByOne, Waits
  <1>2. /\ answer' = [answer EXCEPT ![call] = what] /\ image' = [image EXCEPT ![call] = tag]
        /\ answer'[call] = what /\ image'[call] = tag /\ quiet' = quiet
        /\ \A c \in Builds \ {call} : answer'[c] = answer[c] /\ image'[c] = image[c]
    BY <1>1 DEF Return, IInv, Types
  <1>3. Made' = Made
    <2>1. \A c \in Builds : inst'[c].pushed = inst[c].pushed
      BY <1>1 DEF Return, IInv, Types, Instance
    <2> QED BY <2>1 DEF Made
  <1>4. PICK b \in Builds : b = call
    BY <1>1
  <1>5. Shown(b) = NoAnswer /\ \A c \in Builds \ {b} : Shown(c)' = Shown(c)
    BY <1>1, <1>2, <1>4 DEF Shown
  <1>6. CASE what = "image" /\ ~quiet[b]
    <2>1. Shown(b)' = NoAnswer
      BY <1>2, <1>4, <1>6 DEF Shown
    <2> QED BY <1>3, <1>5, <2>1 DEF Given
  <1>7. CASE ~(what = "image" /\ ~quiet[b])
    <2> DEFINE a == IF what = "image" THEN b ELSE Failed
    <2>1. Shown(b)' = a
      BY <1>1, <1>2, <1>4, <1>7 DEF Shown
    <2>2. a \in Made[b] \union {Failed}
      BY <1>4, <1>7 DEF Made
    <2> HIDE DEF a
    <2>3. Given' = [Given EXCEPT ![b] = a] /\ Given[b] = NoAnswer
      BY <1>5, <2>1 DEF Given
    <2>4. Contract!Answer(b)
      BY <1>3, <2>2, <2>3 DEF Contract!Answer, Made, Given, Shown
    <2> QED BY <2>4 DEF Contract!Next
  <1> QED BY <1>6, <1>7

\* So does a call that does not come to wait.
LEMMA BootFailsRefines ==
  ASSUME IInv, NEW b \in Builds, BootFails(b)
  PROVE  Contract!Next
  <1>1. answer[b] = "none" /\ answer' = [answer EXCEPT ![b] = "error"] /\ answer \in [Builds -> Answers]
    BY DEF BootFails, Due, IInv, Types
  <1>2. Given' = [Given EXCEPT ![b] = Failed] /\ Given[b] = NoAnswer
    <2>1. Shown(b)' = Failed /\ Shown(b) = NoAnswer
      BY <1>1 DEF Shown
    <2>2. \A c \in Builds \ {b} : Shown(c)' = Shown(c)
      BY <1>1 DEF Shown, BootFails
    <2> QED BY <2>1, <2>2 DEF Given
  <1>3. Made' = Made
    BY DEF BootFails, Made
  <1>4. Contract!Answer(b)
    BY <1>2, <1>3 DEF Contract!Answer, Made, Given, Shown
  <1> QED BY <1>4 DEF Contract!Next

LEMMA NextRefines ==
  ASSUME IInv, [Next]_vars
  PROVE  Contract!Next \/ UNCHANGED <<Made, Given>>
  <1>1. ASSUME NEW b \in Builds, Script(b) PROVE Contract!Next \/ UNCHANGED <<Made, Given>>
    BY <1>1, ScriptRefines
  <1>2. ASSUME NEW b \in Builds, Boot(b) PROVE UNCHANGED <<Made, Given>>
    <2>1. \A c \in Builds : inst'[c].pushed = inst[c].pushed
      BY <1>2 DEF Boot, IInv, Types, Instance
    <2>2. \A c \in Builds : Shown(c)' = Shown(c)
      <3>1. /\ answer[b] = "none" /\ answer' = answer /\ image' = image
            /\ \A c \in Builds \ {b} : quiet'[c] = quiet[c]
        BY <1>2 DEF Boot, Due, IInv, Types
      <3> QED BY <3>1 DEF Shown
    <2> QED BY <2>1, <2>2 DEF Made, Given
  <1>3. ASSUME NEW b \in Builds, BootFails(b) PROVE Contract!Next
    BY <1>3, BootFailsRefines
  <1>4. CASE Wait
    <2>1. CASE Waiting
      BY <2>1 DEF Waiting, Made, Given, Shown
    <2>2. CASE ~Waiting
      <3>1. call # 0 /\ call' = 0
        BY <1>4, <2>2, WaitSteps
      <3>2. PICK what \in Answers \ {"none"}, torn \in BOOLEAN :
              Return(what, torn) /\ (what = "image" /\ quiet[call] => inst[call].pushed)
        BY <1>4, <3>1, WaitReturns
      <3> QED BY <3>1, <3>2, ReturnRefines
    <2> QED BY <2>1, <2>2
  <1>5. CASE Tick \/ UNCHANGED vars
    BY <1>5 DEF Tick, vars, Made, Given, Shown
  <1> QED BY <1>1, <1>2, <1>3, <1>4, <1>5 DEF Next

\* For any number of calls for one destination, whatever lines the log loses and
\* whichever calls were cancelled: each call that begins in quiet fails or answers
\* with the image that it built (Create and Update of build.go).
THEOREM BuildRefinement == Spec => ImplementsContract
  <1>1. Init => Contract!Init
    BY DEF Init, Contract!Init
  <1>2. IInv /\ [Next]_vars => [Contract!Next]_<<Made, Given>>
    BY NextRefines
  <1> QED
    BY <1>1, <1>2, Always, PTL
    DEF Spec, ImplementsContract, Contract!Spec, Made, Given, Shown

--------------------------------------------------------------------------------
(* The instance of one call (ScalewayInstance).                            *)

Alive == server \in {"created", "booted"}
Torn == {"volume", "ip", "done"}   \* past the server
Listed == {"terminate", "delete"} \union Torn

\* createServer is the first request, and makes all that there is.
Created ==
  /\ known => server # "none" /\ volume # "none" /\ ip # "none"
  /\ pc = "create" => ~known
  /\ pc \in Requests \ {"create"} => known
  /\ pc \in {"create", "cloudinit", "poweron", "wait"} => try = 1
  /\ pc \in Requests \ {"create"} /\ pc \notin Listed /\ ~removed => Alive
  /\ listed \in {{}, Parts}

\* A volume that was given up on leaves a mark for the end of the attempt.
VolumeGone == pc = "ip" /\ ~errs /\ "volume" \in listed /\ ~removed => volume = "gone"

\* What is not found, not deleted or not terminated has been reported.
Reported ==
  known /\ ~removed =>
    /\ pc \in Listed => listed = Parts \/ reports # {}
    /\ pc \in Torn => ~Alive \/ "server" \in reports
    /\ pc = "done" => reports # {} \/ (volume = "gone" /\ ip = "gone")

\* An attempt that did not do its work has had a fault of its own, unless the
\* server is on its way: that of the server then fails without one.
Calm == known /\ ~cancelled /\ ~late /\ ~removed
Paid ==
  Calm =>
    /\ pc \in {"list", "volume"} => try <= faults + 1
    /\ pc \in {"terminate", "delete"} /\ Alive => try <= faults + 1
    /\ pc = "ip" => try <= faults + 1 /\ (errs => try <= faults)
    /\ pc \in Listed => listed = Parts \/ faults >= Attempts
    /\ pc \in Torn => ~Alive \/ faults >= Attempts
    /\ pc = "done" => (volume = "gone" /\ ip = "gone") \/ faults >= Attempts

InstanceIInv == InstanceTypeOK /\ Created /\ VolumeGone /\ Reported /\ Paid

-----------------------------------------------------------------------------
LEMMA InstanceInitIInv == InstanceInit => InstanceIInv
  <1> SUFFICES ASSUME InstanceInit PROVE InstanceIInv
    OBVIOUS
  <1>1. InstanceTypeOK
    <2>1. try \in 1 .. Attempts /\ faults \in 0 .. MaxFaults
      BY InstanceAssumption DEF InstanceAssumption, InstanceInit
    <2>2. {local, errs, known, cancelled, late, removed} \subseteq BOOLEAN
      BY DEF InstanceInit
    <2> QED BY <2>1, <2>2 DEF InstanceInit, InstanceTypeOK, Requests
  <1>2. Created /\ VolumeGone /\ Reported /\ Paid
    BY DEF InstanceInit, Created, VolumeGone, Reported, Paid, Calm, Alive, Listed, Torn, Requests
  <1> QED BY <1>1, <1>2 DEF InstanceIInv

\* The end of an attempt leaves the types alone.
LEMMA RetriedTypes ==
  ASSUME InstanceTypeOK, NEW failed \in BOOLEAN, NEW first \in Requests, NEW next \in Requests \union {"done"},
         NEW what \in {"list", "server", "resources"}, Retried(failed, first, next, what)
  PROVE  /\ pc' \in Requests \union {"done"} /\ try' \in 1 .. Attempts
         /\ reports' \subseteq {"list", "server", "resources"}
  <1>1. try + 1 \in 1 .. Attempts \/ ~(try < Attempts)
    BY InstanceAssumption DEF InstanceAssumption, InstanceTypeOK
  <1>2. 1 \in 1 .. Attempts
    BY InstanceAssumption DEF InstanceAssumption
  <1> QED BY <1>1, <1>2 DEF Retried, Goto, InstanceTypeOK

LEMMA CreateServerIInv == ASSUME InstanceIInv, CreateServer PROVE InstanceIInv'
  <1> USE DEF CreateServer, Ends, Done, Goto, cloud, InstanceIInv
  <1>1. InstanceTypeOK' BY InstanceAssumption DEF InstanceTypeOK, Requests, Parts, InstanceAssumption
  <1>2. Created' BY DEF Created, Alive, Listed, Torn, Requests, Parts, InstanceTypeOK
  <1>3. VolumeGone' BY DEF VolumeGone, Created, Parts, InstanceTypeOK
  <1>4. Reported'
    BY DEF Reported, Created, VolumeGone, Alive, Listed, Torn, Requests, Parts, InstanceTypeOK
  <1>5. Paid'
    BY InstanceAssumption DEF Paid, Calm, Created, VolumeGone, InstanceTypeOK, Alive, Listed,
       Torn, Requests, Parts, InstanceAssumption
  <1> QED BY <1>1, <1>2, <1>3, <1>4, <1>5

LEMMA SetCloudInitIInv == ASSUME InstanceIInv, SetCloudInit PROVE InstanceIInv'
  <1> USE DEF SetCloudInit, Ends, Goto, cloud, InstanceIInv
  <1>1. InstanceTypeOK' BY InstanceAssumption DEF InstanceTypeOK, Requests, Parts, InstanceAssumption
  <1>2. Created' BY DEF Created, Alive, Listed, Torn, Requests, Parts, InstanceTypeOK
  <1>3. VolumeGone' BY DEF VolumeGone, Created, Parts, InstanceTypeOK
  <1>4. Reported'
    BY DEF Reported, Created, VolumeGone, Alive, Listed, Torn, Requests, Parts, InstanceTypeOK
  <1>5. Paid'
    BY InstanceAssumption DEF Paid, Calm, Created, VolumeGone, InstanceTypeOK, Alive, Listed,
       Torn, Requests, Parts, InstanceAssumption
  <1> QED BY <1>1, <1>2, <1>3, <1>4, <1>5

LEMMA PowerOnIInv == ASSUME InstanceIInv, PowerOn PROVE InstanceIInv'
  <1> USE DEF PowerOn, Ends, Done, Goto, InstanceIInv
  <1>1. InstanceTypeOK' BY InstanceAssumption DEF InstanceTypeOK, Requests, Parts, InstanceAssumption
  <1>2. Created' BY DEF Created, Alive, Listed, Torn, Requests, Parts, InstanceTypeOK
  <1>3. VolumeGone' BY DEF VolumeGone, Created, Parts, InstanceTypeOK
  <1>4. Reported'
    BY DEF Reported, Created, VolumeGone, Alive, Listed, Torn, Requests, Parts, InstanceTypeOK
  <1>5. Paid'
    BY InstanceAssumption DEF Paid, Calm, Created, VolumeGone, InstanceTypeOK, Alive, Listed,
       Torn, Requests, Parts, InstanceAssumption
  <1> QED BY <1>1, <1>2, <1>3, <1>4, <1>5

LEMMA WaitedIInv == ASSUME InstanceIInv, Waited PROVE InstanceIInv'
  <1> USE DEF Waited, Goto, cloud, outside, InstanceIInv
  <1>1. InstanceTypeOK' BY InstanceAssumption DEF InstanceTypeOK, Requests, Parts, InstanceAssumption
  <1>2. Created' BY DEF Created, Alive, Listed, Torn, Requests, Parts, InstanceTypeOK
  <1>3. VolumeGone' BY DEF VolumeGone, Created, Parts, InstanceTypeOK
  <1>4. Reported'
    BY DEF Reported, Created, VolumeGone, Alive, Listed, Torn, Requests, Parts, InstanceTypeOK
  <1>5. Paid'
    BY InstanceAssumption DEF Paid, Calm, Created, VolumeGone, InstanceTypeOK, Alive, Listed,
       Torn, Requests, Parts, InstanceAssumption
  <1> QED BY <1>1, <1>2, <1>3, <1>4, <1>5

LEMMA ListResourcesIInv == ASSUME InstanceIInv, ListResources PROVE InstanceIInv'
  <1> USE DEF ListResources, Retried, Ends, Goto, cloud, InstanceIInv
  <1>1. InstanceTypeOK'
    <2>1. pc' \in Requests \union {"done"}
      BY DEF InstanceTypeOK, Requests
    <2>2. try' \in 1 .. Attempts
      BY InstanceAssumption DEF InstanceAssumption, InstanceTypeOK
    <2>3. reports' \subseteq {"list", "server", "resources"}
      BY DEF InstanceTypeOK
    <2>4. faults' \in 0 .. MaxFaults
      BY InstanceAssumption DEF InstanceAssumption, InstanceTypeOK
    <2>5. {local, errs, known, cancelled, late, removed}' \subseteq BOOLEAN
      BY DEF InstanceTypeOK
    <2>6. listed' \subseteq Parts
      BY DEF InstanceTypeOK, Parts
    <2>7. /\ server' \in {"none", "created", "booted", "stopping", "gone"}
          /\ volume' \in {"none", "attached", "free", "gone"} /\ ip' \in {"none", "held", "gone"}
      BY DEF InstanceTypeOK
    <2> QED BY <2>1, <2>2, <2>3, <2>4, <2>5, <2>6, <2>7 DEF InstanceTypeOK
  <1>2. Created' BY DEF Created, Alive, Listed, Torn, Requests, Parts, InstanceTypeOK
  <1>3. VolumeGone' BY DEF VolumeGone, Created, Parts, InstanceTypeOK
  <1>4. Reported'
    BY DEF Reported, Created, VolumeGone, Alive, Listed, Torn, Requests, Parts, InstanceTypeOK
  <1>5. Paid'
    BY InstanceAssumption DEF Paid, Calm, Created, VolumeGone, InstanceTypeOK, Alive, Listed,
       Torn, Requests, Parts, InstanceAssumption
  <1> QED BY <1>1, <1>2, <1>3, <1>4, <1>5

LEMMA TerminateIInv == ASSUME InstanceIInv, Terminate PROVE InstanceIInv'
  <1> USE DEF Terminate, Retried, Ends, Done, Goto, InstanceIInv
  <1>1. InstanceTypeOK'
    <2>1. pc' \in Requests \union {"done"}
      BY DEF InstanceTypeOK, Requests
    <2>2. try' \in 1 .. Attempts
      BY InstanceAssumption DEF InstanceAssumption, InstanceTypeOK
    <2>3. reports' \subseteq {"list", "server", "resources"}
      BY DEF InstanceTypeOK
    <2>4. faults' \in 0 .. MaxFaults
      BY InstanceAssumption DEF InstanceAssumption, InstanceTypeOK
    <2>5. {local, errs, known, cancelled, late, removed}' \subseteq BOOLEAN
      BY DEF InstanceTypeOK
    <2>6. listed' \subseteq Parts
      BY DEF InstanceTypeOK, Parts
    <2>7. /\ server' \in {"none", "created", "booted", "stopping", "gone"}
          /\ volume' \in {"none", "attached", "free", "gone"} /\ ip' \in {"none", "held", "gone"}
      BY DEF InstanceTypeOK
    <2> QED BY <2>1, <2>2, <2>3, <2>4, <2>5, <2>6, <2>7 DEF InstanceTypeOK
  <1>2. Created' BY DEF Created, Alive, Listed, Torn, Requests, Parts, InstanceTypeOK
  <1>3. VolumeGone' BY DEF VolumeGone, Created, Parts, InstanceTypeOK
  <1>4. Reported'
    BY DEF Reported, Created, VolumeGone, Alive, Listed, Torn, Requests, Parts, InstanceTypeOK
  <1>5. Paid'
    BY InstanceAssumption DEF Paid, Calm, Created, VolumeGone, InstanceTypeOK, Alive, Listed,
       Torn, Requests, Parts, InstanceAssumption
  <1> QED BY <1>1, <1>2, <1>3, <1>4, <1>5

LEMMA DeleteIInv == ASSUME InstanceIInv, Delete PROVE InstanceIInv'
  <1> USE DEF Delete, Retried, Ends, Done, Goto, cloud, InstanceIInv
  <1>1. InstanceTypeOK'
    <2>1. pc' \in Requests \union {"done"}
      BY DEF InstanceTypeOK, Requests
    <2>2. try' \in 1 .. Attempts
      BY InstanceAssumption DEF InstanceAssumption, InstanceTypeOK
    <2>3. reports' \subseteq {"list", "server", "resources"}
      BY DEF InstanceTypeOK
    <2>4. faults' \in 0 .. MaxFaults
      BY InstanceAssumption DEF InstanceAssumption, InstanceTypeOK
    <2>5. {local, errs, known, cancelled, late, removed}' \subseteq BOOLEAN
      BY DEF InstanceTypeOK
    <2>6. listed' \subseteq Parts
      BY DEF InstanceTypeOK, Parts
    <2>7. /\ server' \in {"none", "created", "booted", "stopping", "gone"}
          /\ volume' \in {"none", "attached", "free", "gone"} /\ ip' \in {"none", "held", "gone"}
      BY DEF InstanceTypeOK
    <2> QED BY <2>1, <2>2, <2>3, <2>4, <2>5, <2>6, <2>7 DEF InstanceTypeOK
  <1>2. Created' BY DEF Created, Alive, Listed, Torn, Requests, Parts, InstanceTypeOK
  <1>3. VolumeGone' BY DEF VolumeGone, Created, Parts, InstanceTypeOK
  <1>4. Reported'
    BY DEF Reported, Created, VolumeGone, Alive, Listed, Torn, Requests, Parts, InstanceTypeOK
  <1>5. Paid'
    <2>1. PICK end \in {"ok", "fault", "lost"},
               accepted \in IF server = "stopping" THEN BOOLEAN ELSE {server # "gone"} :
            /\ Ends(end)
            /\ IF Done(end) /\ accepted
               THEN server' = "gone" /\ volume' = (IF volume = "attached" THEN "free" ELSE volume) /\ UNCHANGED ip
               ELSE UNCHANGED cloud
            /\ Retried(~(end = "ok" /\ accepted), "terminate", "volume", "server")
      OBVIOUS
    <2>2. CASE ~Alive
      BY <2>1, <2>2, InstanceAssumption DEF Done, Paid, Calm, InstanceTypeOK, Alive, Listed,
         Torn, InstanceAssumption
    <2>3. CASE Alive /\ end = "ok"
      <3>1. accepted
        BY <2>1, <2>3 DEF Alive
      <3>2. pc' = "volume" /\ server' = "gone" /\ try' = 1 /\ faults' = faults
        BY <2>1, <2>3, <3>1 DEF Done
      <3> QED
        BY <2>1, <3>2, InstanceAssumption DEF Done, Paid, Calm, InstanceTypeOK, Alive, Listed,
           Torn, InstanceAssumption
    <2>4. CASE Alive /\ end # "ok"
      BY <2>1, <2>4, InstanceAssumption DEF Done, Paid, Calm, InstanceTypeOK, Alive, Listed,
         Torn, InstanceAssumption
    <2> QED BY <2>2, <2>3, <2>4
  <1> QED BY <1>1, <1>2, <1>3, <1>4, <1>5

LEMMA DeleteVolumeIInv == ASSUME InstanceIInv, DeleteVolume PROVE InstanceIInv'
  <1> USE DEF DeleteVolume, Ends, Done, Goto, outside, InstanceIInv
  <1>1. InstanceTypeOK'
    <2>1. pc' \in Requests \union {"done"}
      BY DEF InstanceTypeOK, Requests
    <2>2. try' \in 1 .. Attempts
      BY InstanceAssumption DEF InstanceAssumption, InstanceTypeOK
    <2>3. reports' \subseteq {"list", "server", "resources"}
      BY DEF InstanceTypeOK
    <2>4. faults' \in 0 .. MaxFaults
      BY InstanceAssumption DEF InstanceAssumption, InstanceTypeOK
    <2>5. {local, errs, known, cancelled, late, removed}' \subseteq BOOLEAN
      BY DEF InstanceTypeOK
    <2>6. listed' \subseteq Parts
      BY DEF InstanceTypeOK, Parts
    <2>7. /\ server' \in {"none", "created", "booted", "stopping", "gone"}
          /\ volume' \in {"none", "attached", "free", "gone"} /\ ip' \in {"none", "held", "gone"}
      BY DEF InstanceTypeOK
    <2> QED BY <2>1, <2>2, <2>3, <2>4, <2>5, <2>6, <2>7 DEF InstanceTypeOK
  <1>2. Created' BY DEF Created, Alive, Listed, Torn, Requests, Parts, InstanceTypeOK
  <1>3. VolumeGone' BY DEF VolumeGone, Created, Parts, InstanceTypeOK
  <1>4. Reported'
    BY DEF Reported, Created, VolumeGone, Alive, Listed, Torn, Requests, Parts, InstanceTypeOK
  <1>5. Paid'
    BY InstanceAssumption DEF Paid, Calm, Created, VolumeGone, InstanceTypeOK, Alive, Listed,
       Torn, Requests, Parts, InstanceAssumption
  <1> QED BY <1>1, <1>2, <1>3, <1>4, <1>5

LEMMA VolumeCancelledIInv == ASSUME InstanceIInv, VolumeCancelled PROVE InstanceIInv'
  <1> USE DEF VolumeCancelled, Retried, Goto, cloud, outside, InstanceIInv
  <1>1. InstanceTypeOK'
    <2>1. pc' \in Requests \union {"done"}
      BY DEF InstanceTypeOK, Requests
    <2>2. try' \in 1 .. Attempts
      BY InstanceAssumption DEF InstanceAssumption, InstanceTypeOK
    <2>3. reports' \subseteq {"list", "server", "resources"}
      BY DEF InstanceTypeOK
    <2>4. faults' \in 0 .. MaxFaults
      BY InstanceAssumption DEF InstanceAssumption, InstanceTypeOK
    <2>5. {local, errs, known, cancelled, late, removed}' \subseteq BOOLEAN
      BY DEF InstanceTypeOK
    <2>6. listed' \subseteq Parts
      BY DEF InstanceTypeOK, Parts
    <2>7. /\ server' \in {"none", "created", "booted", "stopping", "gone"}
          /\ volume' \in {"none", "attached", "free", "gone"} /\ ip' \in {"none", "held", "gone"}
      BY DEF InstanceTypeOK
    <2> QED BY <2>1, <2>2, <2>3, <2>4, <2>5, <2>6, <2>7 DEF InstanceTypeOK
  <1>2. Created' BY DEF Created, Alive, Listed, Torn, Requests, Parts, InstanceTypeOK
  <1>3. VolumeGone' BY DEF VolumeGone, Created, Parts, InstanceTypeOK
  <1>4. Reported'
    BY DEF Reported, Created, VolumeGone, Alive, Listed, Torn, Requests, Parts, InstanceTypeOK
  <1>5. Paid'
    BY InstanceAssumption DEF Paid, Calm, Created, VolumeGone, InstanceTypeOK, Alive, Listed,
       Torn, Requests, Parts, InstanceAssumption
  <1> QED BY <1>1, <1>2, <1>3, <1>4, <1>5

LEMMA DeleteIPIInv == ASSUME InstanceIInv, DeleteIP PROVE InstanceIInv'
  <1> USE DEF DeleteIP, Retried, Ends, Done, Goto, InstanceIInv
  <1>1. InstanceTypeOK'
    <2>1. pc' \in Requests \union {"done"}
      BY DEF InstanceTypeOK, Requests
    <2>2. try' \in 1 .. Attempts
      BY InstanceAssumption DEF InstanceAssumption, InstanceTypeOK
    <2>3. reports' \subseteq {"list", "server", "resources"}
      BY DEF InstanceTypeOK
    <2>4. faults' \in 0 .. MaxFaults
      BY InstanceAssumption DEF InstanceAssumption, InstanceTypeOK
    <2>5. {local, errs, known, cancelled, late, removed}' \subseteq BOOLEAN
      BY DEF InstanceTypeOK
    <2>6. listed' \subseteq Parts
      BY DEF InstanceTypeOK, Parts
    <2>7. /\ server' \in {"none", "created", "booted", "stopping", "gone"}
          /\ volume' \in {"none", "attached", "free", "gone"} /\ ip' \in {"none", "held", "gone"}
      BY DEF InstanceTypeOK
    <2> QED BY <2>1, <2>2, <2>3, <2>4, <2>5, <2>6, <2>7 DEF InstanceTypeOK
  <1>2. Created' BY DEF Created, Alive, Listed, Torn, Requests, Parts, InstanceTypeOK
  <1>3. VolumeGone' BY DEF VolumeGone, Created, Parts, InstanceTypeOK
  <1>4. Reported'
    BY DEF Reported, Created, VolumeGone, Alive, Listed, Torn, Requests, Parts, InstanceTypeOK
  <1>5. Paid'
    BY InstanceAssumption DEF Paid, Calm, Created, VolumeGone, InstanceTypeOK, Alive, Listed,
       Torn, Requests, Parts, InstanceAssumption
  <1> QED BY <1>1, <1>2, <1>3, <1>4, <1>5

LEMMA StoppedIInv == ASSUME InstanceIInv, Stopped PROVE InstanceIInv'
  <1> USE DEF Stopped, request, outside, InstanceIInv
  <1>1. InstanceTypeOK' BY InstanceAssumption DEF InstanceTypeOK, Requests, Parts, InstanceAssumption
  <1>2. Created' BY DEF Created, Alive, Listed, Torn, Requests, Parts, InstanceTypeOK
  <1>3. VolumeGone' BY DEF VolumeGone, Created, Parts, InstanceTypeOK
  <1>4. Reported'
    BY DEF Reported, Created, VolumeGone, Alive, Listed, Torn, Requests, Parts, InstanceTypeOK
  <1>5. Paid'
    BY InstanceAssumption DEF Paid, Calm, Created, VolumeGone, InstanceTypeOK, Alive, Listed,
       Torn, Requests, Parts, InstanceAssumption
  <1> QED BY <1>1, <1>2, <1>3, <1>4, <1>5

LEMMA CancelContextIInv == ASSUME InstanceIInv, CancelContext PROVE InstanceIInv'
  <1> USE DEF CancelContext, request, cloud, InstanceIInv
  <1>1. InstanceTypeOK' BY InstanceAssumption DEF InstanceTypeOK, Requests, Parts, InstanceAssumption
  <1>2. Created' BY DEF Created, Alive, Listed, Torn, Requests, Parts, InstanceTypeOK
  <1>3. VolumeGone' BY DEF VolumeGone, Created, Parts, InstanceTypeOK
  <1>4. Reported'
    BY DEF Reported, Created, VolumeGone, Alive, Listed, Torn, Requests, Parts, InstanceTypeOK
  <1>5. Paid'
    BY InstanceAssumption DEF Paid, Calm, Created, VolumeGone, InstanceTypeOK, Alive, Listed,
       Torn, Requests, Parts, InstanceAssumption
  <1> QED BY <1>1, <1>2, <1>3, <1>4, <1>5

LEMMA RemoveServerIInv == ASSUME InstanceIInv, RemoveServer PROVE InstanceIInv'
  <1> USE DEF RemoveServer, request, InstanceIInv
  <1>1. InstanceTypeOK' BY InstanceAssumption DEF InstanceTypeOK, Requests, Parts, InstanceAssumption
  <1>2. Created' BY DEF Created, Alive, Listed, Torn, Requests, Parts, InstanceTypeOK
  <1>3. VolumeGone' BY DEF VolumeGone, Created, Parts, InstanceTypeOK
  <1>4. Reported'
    BY DEF Reported, Created, VolumeGone, Alive, Listed, Torn, Requests, Parts, InstanceTypeOK
  <1>5. Paid'
    BY InstanceAssumption DEF Paid, Calm, Created, VolumeGone, InstanceTypeOK, Alive, Listed,
       Torn, Requests, Parts, InstanceAssumption
  <1> QED BY <1>1, <1>2, <1>3, <1>4, <1>5

LEMMA InstanceNextIInv == InstanceIInv /\ [InstanceNext]_instanceVars => InstanceIInv'
  <1> SUFFICES ASSUME InstanceIInv, [InstanceNext]_instanceVars PROVE InstanceIInv'
    OBVIOUS
  <1>1. CASE Call
    BY <1>1, CreateServerIInv, SetCloudInitIInv, PowerOnIInv, WaitedIInv,
       ListResourcesIInv, TerminateIInv,
       DeleteIInv, DeleteVolumeIInv, VolumeCancelledIInv, DeleteIPIInv DEF Call
  <1>2. CASE Stopped \/ CancelContext \/ RemoveServer
    BY <1>2, StoppedIInv, CancelContextIInv, RemoveServerIInv
  <1>3. CASE UNCHANGED instanceVars
    BY <1>3 DEF instanceVars, request, cloud, outside, InstanceIInv, InstanceTypeOK, Created, VolumeGone,
       Reported, Paid, Calm, Alive, Listed, Torn
  <1> QED BY <1>1, <1>2, <1>3 DEF InstanceNext

LEMMA InstanceAlways == InstanceSpec => []InstanceIInv
  <1>1. InstanceInit => InstanceIInv
    BY InstanceInitIInv
  <1>2. InstanceIInv /\ [InstanceNext]_instanceVars => InstanceIInv'
    BY InstanceNextIInv
  <1> QED BY <1>1, <1>2, PTL DEF InstanceSpec

-----------------------------------------------------------------------------
\* Every state is well typed, for any number of faults and attempts.
THEOREM InstanceTypeCorrect == InstanceSpec => []InstanceTypeOK
  BY InstanceAlways, PTL DEF InstanceIInv

\* teardownServer leaves nothing to be billed as long as fewer requests fail than
\* a retryCleanup has attempts, and nobody interferes.
THEOREM NothingIsBilled == InstanceSpec => []NothingBilled
  <1>1. InstanceIInv => NothingBilled
    BY InstanceAssumption
    DEF InstanceAssumption, InstanceIInv, InstanceTypeOK, Paid, Calm, Alive, Listed, Torn, NothingBilled, Left
  <1> QED BY <1>1, InstanceAlways, PTL

\* However many requests fail, what teardownServer leaves has been warned about.
THEOREM LeftoversAreReported == InstanceSpec => []LeftIsReported
  <1>1. InstanceIInv => LeftIsReported
    BY DEF InstanceIInv, InstanceTypeOK, Reported, Alive, Listed, Torn, LeftIsReported, Left, Parts
  <1> QED BY <1>1, InstanceAlways, PTL
================================================================================
