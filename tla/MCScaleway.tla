------------------------------ MODULE MCScaleway ------------------------------
(***************************************************************************)
(* Two calls for one destination and what their scripts and their log do,  *)
(* or one call and what becomes of its instance: part says which, and the  *)
(* other stays as it is.                                                   *)
(***************************************************************************)
EXTENDS ScalewayBuild, ScalewayInstance

VARIABLE part

MCSkews == {-1, 0}

\* An instance that nobody asked for.
NoInstance ==
  /\ pc = "done" /\ try = 1 /\ errs = FALSE /\ known = FALSE /\ listed = {} /\ reports = {}
  /\ server = "none" /\ volume = "none" /\ ip = "none"
  /\ local = FALSE /\ cancelled = FALSE /\ faults = 0 /\ late = FALSE /\ removed = FALSE

MCInit ==
  /\ Init
  /\ \/ part = "calls" /\ NoInstance
     \/ part = "instance" /\ InstanceInit

MCVars == <<vars, instanceVars, part>>

OfCalls(A) == part = "calls" /\ A /\ UNCHANGED <<instanceVars, part>>
OfInstance(A) == part = "instance" /\ A /\ UNCHANGED <<vars, part>>

\* The fairness of Spec and of InstanceSpec.
MCSpec ==
  /\ MCInit /\ [][OfCalls(Next) \/ OfInstance(InstanceNext)]_MCVars
  /\ WF_MCVars(OfCalls(Poll \/ TimeOut))
  /\ WF_MCVars(OfInstance(Call)) /\ WF_MCVars(OfInstance(Stopped))

===============================================================================
