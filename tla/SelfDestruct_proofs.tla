------------------------- MODULE SelfDestruct_proofs --------------------------
(***************************************************************************)
(* For every length of a minute and a year, every CD timeout and every     *)
(* number of deployments: a stack whose TTLs are no shorter than a CD run  *)
(* always has a trigger ahead, and one whose TTLs are at least a minute    *)
(* shorter than a year has none that fires early.                          *)
(***************************************************************************)
EXTENDS SelfDestruct, TLAPS

\* Rounding up to the next whole minute adds at most a minute.
LEMMA RoundUp ==
  ASSUME NEW t \in Nat, NEW m \in Nat \ {0}
  PROVE /\ (t \div m) * m + m \in Nat
        /\ t < (t \div m) * m + m
        /\ (t \div m) * m + m <= t + m
  <1> DEFINE q == t \div m
             r == t % m
  <1>1. q \in Nat /\ r \in 0 .. m - 1 /\ t = q * m + r
    OBVIOUS
  <1>2. q * m \in Nat
    BY <1>1
  <1> HIDE DEF q, r
  <1>3. /\ q * m + m \in Nat
        /\ t < q * m + m
        /\ q * m + m <= t + m
    BY <1>1, <1>2
  <1> QED BY <1>3 DEF q

\* Less than a year is no whole number of years.
LEMMA LessThanAYear ==
  ASSUME NEW y \in Nat \ {0}, NEW x \in Int, -y < x, x < 0
  PROVE x % y # 0
  OBVIOUS

LEMMA ZeroYears ==
  ASSUME NEW y \in Nat \ {0}
  PROVE 0 % y = 0
  OBVIOUS

-----------------------------------------------------------------------------
\* The constants a proof needs, and what a trigger is.
LEMMA Constants ==
  /\ Minute \in Nat \ {0} /\ Year \in Nat \ {0} /\ CdTimeout \in Nat \ {0}
  /\ TTLs \subseteq Nat /\ Horizon \in Nat /\ MaxUps \in Nat
  /\ NoTrigger \notin Trigger
  BY SelfDestructAssumption DEF SelfDestructAssumption, Trigger

\* No TTL is shorter than a CD run: the CLI's floor.
Floor == \A ttl \in TTLs : ttl = 0 \/ CdTimeout <= ttl

\* Every TTL is shorter than a year by a minute at least.
Ceiling == \A ttl \in TTLs : ttl + Minute <= Year

Triggers == {next, trigger} \ {NoTrigger}

\* What is computed lies in the minute after the promise.
Rounded == \A t \in Triggers : t.promise <= t.at /\ t.at <= t.promise + Minute

\* The trigger a deployment registers is due when that deployment is over.
AfterUp == up \in {"registering", "deployed"} /\ next # NoTrigger => began + CdTimeout <= next.promise

\* What a deployment knows of the stack it has locked.
Registered == up # "none" => began <= now /\ (armed => up # "started" /\ trigger = next)

\* Armed, strengthened to be inductive.
ArmedInv ==
  /\ TtlTypeOK /\ Rounded /\ AfterUp /\ Registered
  /\ down = "running" => ~owed
  /\ Armed

\* NeverEarly's invariant: the year before a trigger's time is behind us.
RecentInv ==
  /\ TtlTypeOK /\ Rounded
  /\ \A t \in Triggers : t.at <= now + Year

-----------------------------------------------------------------------------
LEMMA FireAtBounds ==
  ASSUME TtlTypeOK, NEW ttl \in TTLs
  PROVE /\ now + ttl \in Nat /\ FireAt(ttl) \in Nat
        /\ now + ttl <= FireAt(ttl) /\ FireAt(ttl) <= now + ttl + Minute
  <1>1. now + ttl \in Nat
    BY Constants DEF TtlTypeOK
  <1>2. CASE cloud = "aws"
    BY <1>1, <1>2, Constants DEF FireAt
  <1>3. CASE cloud # "aws"
    <2> DEFINE t == now + ttl
    <2>1. FireAt(ttl) = (t \div Minute) * Minute + Minute
      BY <1>3 DEF FireAt
    <2>2. t \in Nat /\ Minute \in Nat \ {0}
      BY <1>1, Constants
    <2> HIDE DEF t
    <2>3. /\ FireAt(ttl) \in Nat /\ t < FireAt(ttl) /\ FireAt(ttl) <= t + Minute
      BY <2>1, <2>2, RoundUp
    <2> QED BY <1>1, <2>2, <2>3 DEF t
  <1> QED BY <1>2, <1>3

\* The triggers after RunProgram: the stack's, and one computed from a TTL.
LEMMA ProgramTriggers ==
  ASSUME TtlTypeOK, RunProgram
  PROVE \/ next' = NoTrigger
        \/ \E ttl \in TTLs :
             /\ ttl # 0 /\ next' \in Trigger
             /\ next'.promise = now + ttl /\ next'.at = FireAt(ttl)
  BY FireAtBounds DEF RunProgram, Trigger

LEMMA TypeInit == TtlInit => TtlTypeOK
  <1> SUFFICES ASSUME TtlInit PROVE TtlTypeOK
    OBVIOUS
  <1> USE Constants DEF TtlInit
  <1>1. /\ cloud \in Clouds /\ now \in 0 .. Horizon /\ ups \in 0 .. MaxUps
        /\ began \in Nat
    OBVIOUS
  <1>2. next \in Trigger \union {NoTrigger} /\ trigger \in Trigger \union {NoTrigger}
    OBVIOUS
  <1>3. armed \in BOOLEAN /\ exists \in BOOLEAN /\ owed \in BOOLEAN
    OBVIOUS
  <1>4. up = "none" /\ down = "none"
    OBVIOUS
  <1> QED BY <1>1, <1>2, <1>3, <1>4 DEF TtlTypeOK

LEMMA TypeNext == TtlTypeOK /\ [TtlNext]_ttlVars => TtlTypeOK'
  <1> SUFFICES ASSUME TtlTypeOK, [TtlNext]_ttlVars PROVE TtlTypeOK'
    OBVIOUS
  <1> USE Constants DEF TtlTypeOK
  <1>1. CASE StartUp
    <2>1. armed' \in BOOLEAN /\ exists' \in BOOLEAN /\ owed' \in BOOLEAN
      BY <1>1 DEF StartUp
    <2>2. /\ cloud' \in Clouds /\ now' \in 0 .. Horizon /\ ups' \in 0 .. MaxUps
          /\ began' \in Nat
      BY <1>1 DEF StartUp
    <2>3. next' \in Trigger \union {NoTrigger} /\ trigger' \in Trigger \union {NoTrigger}
      BY <1>1 DEF StartUp
    <2>4. up' = "started" /\ down' = "none"
      BY <1>1 DEF StartUp
    <2> QED BY <2>1, <2>2, <2>3, <2>4
  <1>2. CASE RunProgram
    <2>1. next' \in Trigger \union {NoTrigger}
      BY <1>2, ProgramTriggers
    <2> QED BY <1>2, <2>1 DEF RunProgram
  <1>3. CASE Arm
    BY <1>3 DEF Arm
  <1>4. CASE ProjectDone
    BY <1>4 DEF ProjectDone
  <1>5. CASE FinishUp
    BY <1>5 DEF FinishUp
  <1>6. CASE FailUp
    BY <1>6 DEF FailUp
  <1>7. CASE StartDown
    BY <1>7 DEF StartDown, upvars
  <1>8. CASE DeleteTrigger
    BY <1>8 DEF DeleteTrigger, upvars
  <1>9. CASE DeleteProject
    BY <1>9 DEF DeleteProject, upvars
  <1>10. CASE FinishDown
    BY <1>10 DEF FinishDown, upvars
  <1>11. CASE Tick
    <2>1. UNCHANGED <<cloud, ups, up, began, next, armed, trigger, exists>> /\ now' \in 0 .. Horizon
      BY <1>11 DEF Tick, upvars
    <2>2. CASE Fires(trigger, now')
      BY <1>11, <2>1, <2>2 DEF Tick
    <2>3. CASE ~Fires(trigger, now')
      BY <1>11, <2>1, <2>3 DEF Tick
    <2> QED BY <2>2, <2>3
  <1>12. CASE UNCHANGED ttlVars
    BY <1>12 DEF ttlVars, upvars
  <1> QED BY <1>1, <1>2, <1>3, <1>4, <1>5, <1>6, <1>7, <1>8, <1>9, <1>10, <1>11, <1>12 DEF TtlNext

\* Every state is well typed, and no up and no down run at once.
THEOREM TypeCorrect == TtlSpec => []TtlTypeOK
  BY TypeInit, TypeNext, PTL DEF TtlSpec

-----------------------------------------------------------------------------
LEMMA RoundedInit == TtlInit => Rounded
  BY DEF TtlInit, Rounded, Triggers

LEMMA RoundedNext == TtlTypeOK /\ Rounded /\ [TtlNext]_ttlVars => Rounded'
  <1> SUFFICES ASSUME TtlTypeOK, Rounded, [TtlNext]_ttlVars PROVE Rounded'
    OBVIOUS
  <1> USE DEF Rounded, Triggers
  <1>1. CASE RunProgram
    <2>1. trigger' = trigger
      BY <1>1 DEF RunProgram
    <2>2. CASE next' = NoTrigger
      BY <2>1, <2>2
    <2>3. CASE \E ttl \in TTLs :
                 /\ ttl # 0 /\ next' \in Trigger
                 /\ next'.promise = now + ttl /\ next'.at = FireAt(ttl)
      BY <2>1, <2>3, FireAtBounds
    <2> QED BY <1>1, <2>2, <2>3, ProgramTriggers
  <1>2. CASE ~RunProgram
    <2>1. {next', trigger'} \subseteq {next, trigger, NoTrigger}
      BY <1>2 DEF TtlNext, ttlVars, upvars, StartUp, Arm, ProjectDone, FinishUp, FailUp,
                  StartDown, DeleteTrigger, DeleteProject, FinishDown, Tick
    <2> QED BY <2>1
  <1> QED BY <1>1, <1>2

LEMMA ArmedInit == TtlInit => ArmedInv
  BY TypeInit, RoundedInit DEF TtlInit, ArmedInv, AfterUp, Registered, Armed

\* A deployment's trigger is ahead as long as the deployment is in time.
LEMMA NextAhead ==
  ASSUME TtlTypeOK, Rounded, AfterUp, InTime, up \in {"registering", "deployed"}, next # NoTrigger
  PROVE now < next.at /\ next.at <= next.promise + Minute
  BY Constants DEF TtlTypeOK, Rounded, Triggers, AfterUp, InTime, Trigger

LEMMA ArmedNext ==
  ASSUME Floor
  PROVE ArmedInv /\ [TtlNext]_ttlVars => ArmedInv'
  <1> SUFFICES ASSUME ArmedInv, [TtlNext]_ttlVars PROVE ArmedInv'
    OBVIOUS
  <1>1. TtlTypeOK' /\ Rounded'
    BY TypeNext, RoundedNext DEF ArmedInv
  <1> USE <1>1 DEF ArmedInv, AfterUp, Registered, Armed
  <1>2. CASE StartUp
    BY <1>2 DEF StartUp, TtlTypeOK
  <1>3. CASE RunProgram
    <2>1. up' = "registering" /\ ~armed
      BY <1>3 DEF RunProgram
    <2>2. AfterUp'
      <3> SUFFICES ASSUME next' # NoTrigger PROVE (began + CdTimeout <= next.promise)'
        OBVIOUS
      <3>1. PICK ttl \in TTLs : ttl # 0 /\ next'.promise = now + ttl
        BY <1>3, ProgramTriggers
      <3>2. CdTimeout <= ttl /\ began <= now /\ began' = began
        BY <1>3, <3>1 DEF Floor, RunProgram
      <3>3. ttl \in Nat /\ CdTimeout \in Nat /\ began \in Nat /\ now \in Nat
        BY Constants DEF TtlTypeOK
      <3> HIDE DEF ArmedInv
      <3> QED BY <3>1, <3>2, <3>3
    <2> QED BY <1>3, <2>1, <2>2 DEF RunProgram
  <1>4. CASE Arm
    <2>1. trigger' = next /\ armed' /\ UNCHANGED <<now, up, began, next, down, owed>>
      BY <1>4 DEF Arm
    <2>2. now < next.at /\ next.at <= next.promise + Minute
      BY <1>4, NextAhead DEF Arm
    <2> QED BY <1>4, <2>1, <2>2 DEF Arm
  <1>5. CASE ProjectDone
    BY <1>5 DEF ProjectDone
  <1>6. CASE FinishUp
    <2>1. CASE next = NoTrigger
      BY <1>6, <2>1 DEF FinishUp, TtlTypeOK
    <2>2. CASE next # NoTrigger
      <3>1. now < next.at /\ next.at <= next.promise + Minute /\ trigger = next
        BY <1>6, <2>2, NextAhead DEF FinishUp
      <3> QED BY <1>6, <2>2, <3>1 DEF FinishUp, TtlTypeOK
    <2> QED BY <2>1, <2>2
  <1>7. CASE FailUp
    BY <1>7 DEF FailUp
  <1>8. CASE StartDown
    BY <1>8 DEF StartDown, upvars
  <1>9. CASE DeleteTrigger
    BY <1>9 DEF DeleteTrigger, upvars, TtlTypeOK
  <1>10. CASE DeleteProject
    BY <1>10 DEF DeleteProject, upvars
  <1>11. CASE FinishDown
    BY <1>11 DEF FinishDown, upvars
  <1>12. CASE Tick
    <2>1. now' = now + 1 /\ UNCHANGED <<up, began, next, armed, trigger>>
      BY <1>12 DEF Tick, upvars
    <2>2. CASE Fires(trigger, now')
      BY <1>12, <2>1, <2>2 DEF Tick, TtlTypeOK
    <2>3. CASE ~Fires(trigger, now')
      <3>1. UNCHANGED <<down, owed>>
        BY <1>12, <2>3 DEF Tick
      <3>2. owed => now' < trigger.at
        <4> SUFFICES ASSUME owed PROVE now' < trigger.at
          OBVIOUS
        <4>1. now \in Nat /\ trigger \in Trigger
          BY Constants DEF TtlTypeOK
        <4>2. now' # trigger.at
          <5>1. SUFFICES ASSUME now' = trigger.at PROVE FALSE
            OBVIOUS
          <5>2. now' - trigger.at = 0
            BY <2>1, <4>1, <5>1
          <5>3. (now' - trigger.at) % Year = 0
            BY <5>2, ZeroYears, Constants
          <5> QED BY <2>3, <5>1, <5>3 DEF Fires
        <4> QED BY <2>1, <4>1, <4>2 DEF Trigger
      <3>3. now \in Nat /\ began \in Nat
        BY Constants DEF TtlTypeOK
      <3> QED BY <2>1, <3>1, <3>2, <3>3
    <2> QED BY <2>2, <2>3
  <1>13. CASE UNCHANGED ttlVars
    BY <1>13 DEF ttlVars, upvars
  <1> QED
    BY <1>2, <1>3, <1>4, <1>5, <1>6, <1>7, <1>8, <1>9, <1>10, <1>11, <1>12, <1>13 DEF TtlNext

\* With TTLs no shorter than a CD run, a stack deployed with one has a trigger
\* ahead, a minute more than the TTL away at most, until a down was started.
THEOREM AlwaysArmed ==
  ASSUME Floor
  PROVE TtlSpec => []Armed
  <1>1. TtlInit => ArmedInv
    BY ArmedInit
  <1>2. ArmedInv /\ [TtlNext]_ttlVars => ArmedInv'
    BY ArmedNext
  <1>3. ArmedInv => Armed
    BY DEF ArmedInv
  <1> QED BY <1>1, <1>2, <1>3, PTL DEF TtlSpec

-----------------------------------------------------------------------------
LEMMA RecentInit == TtlInit => RecentInv
  BY TypeInit, RoundedInit DEF TtlInit, RecentInv, Triggers

LEMMA RecentNext ==
  ASSUME Ceiling
  PROVE RecentInv /\ [TtlNext]_ttlVars => RecentInv'
  <1> SUFFICES ASSUME RecentInv, [TtlNext]_ttlVars PROVE RecentInv'
    OBVIOUS
  <1>1. TtlTypeOK' /\ Rounded'
    BY TypeNext, RoundedNext DEF RecentInv
  <1>2. now \in Nat /\ now' \in Nat /\ Year \in Nat /\ now <= now'
    BY <1>1, Constants
    DEF RecentInv, TtlTypeOK, TtlNext, ttlVars, upvars, StartUp, RunProgram, Arm, ProjectDone,
        FinishUp, FailUp, StartDown, DeleteTrigger, DeleteProject, FinishDown, Tick
  <1>3. ASSUME NEW t \in Triggers' PROVE t.at <= now' + Year
    <2>1. CASE t \in Triggers
      <3>1. t.at \in Nat /\ t.at <= now + Year
        BY <2>1 DEF RecentInv, TtlTypeOK, Triggers, Trigger
      <3> QED BY <1>2, <3>1
    <2>2. CASE t \notin Triggers
      <3>1. RunProgram /\ t = next'
        BY <1>3, <2>2
        DEF Triggers, TtlNext, ttlVars, upvars, StartUp, RunProgram, Arm, ProjectDone, FinishUp,
            FailUp, StartDown, DeleteTrigger, DeleteProject, FinishDown, Tick
      <3>2. PICK ttl \in TTLs : t.at = FireAt(ttl)
        BY <1>3, <3>1, ProgramTriggers DEF RecentInv, Triggers
      <3>3. FireAt(ttl) \in Nat /\ FireAt(ttl) <= now + ttl + Minute
        BY FireAtBounds DEF RecentInv
      <3>4. ttl + Minute <= Year /\ ttl \in Nat /\ Minute \in Nat
        BY Constants DEF Ceiling
      <3> QED BY <1>2, <3>2, <3>3, <3>4
    <2> QED BY <2>1, <2>2
  <1> QED BY <1>1, <1>3 DEF RecentInv

LEMMA StepNotEarly ==
  RecentInv /\ [TtlNext]_ttlVars => [Fires(trigger, now') /\ now' # now => now' >= trigger.promise]_ttlVars
  <1> SUFFICES ASSUME RecentInv, [TtlNext]_ttlVars, Fires(trigger, now'), now' # now
               PROVE now' >= trigger.promise
    OBVIOUS
  <1>1. trigger \in Trigger /\ trigger.promise <= trigger.at /\ trigger.at <= now + Year
    BY DEF RecentInv, TtlTypeOK, Rounded, Triggers, Fires
  <1>2. now \in Nat /\ now' = now + 1
    BY DEF RecentInv, TtlTypeOK, TtlNext, ttlVars, upvars, StartUp, RunProgram, Arm, ProjectDone,
           FinishUp, FailUp, StartDown, DeleteTrigger, DeleteProject, FinishDown, Tick
  <1>3. now' >= trigger.at
    <2>1. CASE cloud = "aws"
      BY <1>1, <1>2, <2>1 DEF Fires, Trigger
    <2>2. CASE cloud # "aws"
      <3> DEFINE x == now' - trigger.at
      <3>1. x \in Int /\ Year \in Nat \ {0} /\ -Year < x
        BY <1>1, <1>2, Constants DEF Trigger
      <3>2. x % Year = 0
        BY <2>2 DEF Fires
      <3>3. ~(x < 0)
        <4> HIDE DEF x
        <4> QED BY <3>1, <3>2, LessThanAYear
      <3> QED BY <1>1, <1>2, <3>3 DEF Trigger
    <2> QED BY <2>1, <2>2
  <1> QED BY <1>1, <1>2, <1>3 DEF Trigger

\* With TTLs shorter than a year by a minute at least, no trigger fires before
\* the TTL of the deployment that set it is over.
THEOREM NeverFiresEarly ==
  ASSUME Ceiling
  PROVE TtlSpec => NeverEarly
  <1>1. TtlInit => RecentInv
    BY RecentInit
  <1>2. RecentInv /\ [TtlNext]_ttlVars => RecentInv'
    BY RecentNext
  <1> QED BY <1>1, <1>2, StepNotEarly, PTL DEF TtlSpec, NeverEarly

==============================================================================
