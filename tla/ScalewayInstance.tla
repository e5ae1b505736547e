--------------------------- MODULE ScalewayInstance ---------------------------
(***************************************************************************)
(* The build instance of one call of runInstanceBuild                      *)
(* (provider/defangscaleway/build.go): its creation, boot and wait, and    *)
(* teardownServer, which runs when the call ends, however it ends.  Each   *)
(* step is one request to Scaleway's API, which may be refused, may fail,  *)
(* or may take effect and lose its answer.                                 *)
(***************************************************************************)
EXTENDS Naturals

CONSTANTS
  MaxFaults,  \* bound: how many requests fail or lose their answer
  Attempts,   \* retryCleanup's attempts
  MayCancel,    \* whether the context may be cancelled
  Slow,       \* whether a volume may outlast volumeDetachTimeout
  Others      \* whether somebody else may remove the instance

ASSUME InstanceAssumption ==
  /\ MaxFaults \in Nat /\ Attempts \in Nat \ {0}
  /\ {MayCancel, Slow, Others} \subseteq BOOLEAN

VARIABLES
  pc,         \* the request the call makes next
  try,        \* the attempt of the running retryCleanup
  errs,       \* whether this attempt has failed to delete something
  known,      \* whether createServer returned the server's id
  listed,     \* what getServerResources returned
  reports,    \* what teardownServer has logged a warning about
  local,      \* whether its boot volume is a local one (l_ssd) or an SBS one
  server, volume, ip,  \* what Scaleway has of the instance
  cancelled,  \* whether the context is cancelled
  faults,     \* how many requests have failed or lost their answer
  late,       \* whether a volume was waited for in vain
  removed     \* whether somebody else removed the instance

request == <<pc, try, errs, known, listed, reports>>
cloud == <<server, volume, ip>>
outside == <<cancelled, late, removed, local>>
instanceVars == <<request, cloud, outside, faults>>

Requests == {"create", "cloudinit", "poweron", "wait", "list", "terminate", "delete",
             "volume", "ip"}
Parts == {"volume", "ip"}

InstanceInit ==
  /\ pc = "create" /\ try = 1 /\ errs = FALSE /\ known = FALSE /\ listed = {} /\ reports = {}
  /\ server = "none" /\ volume = "none" /\ ip = "none"
  /\ local \in BOOLEAN /\ cancelled = FALSE /\ faults = 0 /\ late = FALSE /\ removed = FALSE

-----------------------------------------------------------------------------
\* How a request ends: carried out, not carried out, or carried out without an
\* answer.  With the context cancelled it is not made at all.
Ends(end) ==
  /\ end = "fault" \/ ~cancelled
  /\ end # "ok" /\ ~cancelled => faults < MaxFaults
  /\ faults' = IF end # "ok" /\ ~cancelled THEN faults + 1 ELSE faults
  /\ UNCHANGED <<cancelled, removed, local>>

Done(end) == end \in {"ok", "lost"}

Goto(next) == pc' = next

\* createServer: the teardown is deferred once it has answered.
CreateServer ==
  /\ pc = "create"
  /\ \E end \in {"ok", "fault", "lost"} :
       /\ Ends(end)
       /\ Goto(IF end = "ok" THEN "cloudinit" ELSE "done")
       /\ known' = (end = "ok")
       /\ IF Done(end) THEN server' = "created" /\ volume' = "attached" /\ ip' = "held"
                       ELSE UNCHANGED cloud
  /\ UNCHANGED <<try, errs, listed, reports, late>>

SetCloudInit ==
  /\ pc = "cloudinit"
  /\ \E end \in {"ok", "fault"} :
       Ends(end) /\ Goto(IF end = "ok" /\ server # "gone" THEN "poweron" ELSE "list")
  /\ UNCHANGED <<try, errs, known, listed, reports, cloud, late>>

PowerOn ==
  /\ pc = "poweron"
  /\ \E end \in {"ok", "fault", "lost"} :
       /\ Ends(end)
       /\ Goto(IF end = "ok" /\ server # "gone" THEN "wait" ELSE "list")
       /\ server' = IF Done(end) /\ server = "created" THEN "booted" ELSE server
  /\ UNCHANGED <<try, errs, known, listed, reports, volume, ip, late>>

\* waitForInstanceBuild returns, with a result or an error.
Waited ==
  /\ pc = "wait" /\ Goto("list")
  /\ UNCHANGED <<try, errs, known, listed, reports, cloud, outside, faults>>

-----------------------------------------------------------------------------
\* The end of one attempt of a retryCleanup that starts at first and is followed by
\* next; its last failure is reported as what.
Retried(failed, first, next, what) ==
  IF ~failed THEN Goto(next) /\ try' = 1 /\ UNCHANGED reports
  ELSE IF try < Attempts THEN Goto(first) /\ try' = try + 1 /\ UNCHANGED reports
  ELSE Goto(next) /\ try' = 1 /\ reports' = reports \union {what}

\* Mutant: the resources are not listed again when a request fails.
ListOnce ==
  /\ pc = "list"
  /\ \E end \in {"ok", "fault"} :
       /\ Ends(end)
       /\ Goto(IF end = "ok" /\ server = "gone" THEN "volume" ELSE "terminate")
       /\ listed' = IF end = "ok" /\ server # "gone" THEN Parts ELSE {}
  /\ UNCHANGED <<try, errs, known, reports, cloud, late>>

\* getServerResources.
ListResources ==
  /\ pc = "list"
  /\ \E end \in {"ok", "fault"} :
       /\ Ends(end)
       /\ Retried(end # "ok", "list", IF end = "ok" /\ server = "gone" THEN "volume" ELSE "terminate", "list")
       /\ listed' = IF end = "ok" /\ server # "gone" THEN Parts ELSE {}
  /\ UNCHANGED <<errs, known, cloud, late>>

\* terminateServer: the action, refused of a server that never booted or is going.
Terminate ==
  /\ pc = "terminate"
  /\ \E end \in {"ok", "fault", "lost"} :
       /\ Ends(end)
       /\ server' = IF Done(end) /\ server = "booted" THEN "stopping" ELSE server
       /\ IF end = "ok" /\ server = "booted"
          THEN Retried(FALSE, "terminate", "volume", "server")
          ELSE Goto("delete") /\ UNCHANGED <<try, reports>>
  /\ UNCHANGED <<errs, known, listed, volume, ip, late>>

\* Its fallback, DELETE, which leaves the volume behind, a local one too; it may be
\* refused while the server is stopping.
Delete ==
  /\ pc = "delete"
  /\ \E end \in {"ok", "fault", "lost"}, accepted \in IF server = "stopping" THEN BOOLEAN ELSE {server # "gone"} :
       /\ Ends(end)
       /\ IF Done(end) /\ accepted
          THEN server' = "gone" /\ volume' = (IF volume = "attached" THEN "free" ELSE volume) /\ UNCHANGED ip
          ELSE UNCHANGED cloud
       /\ Retried(~(end = "ok" /\ accepted), "terminate", "volume", "server")
  /\ UNCHANGED <<errs, known, listed, late>>

\* Mutant: nothing ends the wait for a volume.
DeleteVolumeForever ==
  /\ pc = "volume"
  /\ IF "volume" \notin listed
     THEN Goto("ip") /\ errs' = FALSE /\ UNCHANGED <<volume, faults, outside>>
     ELSE \E end \in {"ok", "fault", "lost"}, again \in BOOLEAN :
            /\ Ends(end)
            /\ volume' = IF Done(end) /\ volume = "free" THEN "gone" ELSE volume
            /\ IF end = "ok" THEN again = (volume = "attached") ELSE again => ~cancelled
            /\ Goto(IF again THEN "volume" ELSE "ip") /\ errs' = (end # "ok" /\ ~again)
            /\ UNCHANGED late
  /\ UNCHANGED <<try, known, listed, reports, server, ip>>

\* deleteServerResources: its volume.  One still attached, or a request that
\* failed with a status worth waiting for, is tried again until the timeout.
DeleteVolume ==
  /\ pc = "volume"
  /\ IF "volume" \notin listed
     THEN Goto("ip") /\ errs' = FALSE /\ UNCHANGED <<volume, faults, outside>>
     ELSE \E end \in {"ok", "fault", "lost"}, again \in BOOLEAN :
            /\ Ends(end)
            /\ volume' = IF Done(end) /\ volume = "free" THEN "gone" ELSE volume
            /\ IF end = "ok" THEN again = (volume = "attached") ELSE again => ~cancelled
            /\ IF again THEN \/ Goto("volume") /\ errs' = FALSE /\ UNCHANGED late
                             \/ /\ Slow \/ server # "stopping"
                                /\ Goto("ip") /\ errs' = TRUE /\ late' = TRUE
                        ELSE Goto("ip") /\ errs' = (end # "ok") /\ UNCHANGED late
  /\ UNCHANGED <<try, known, listed, reports, server, ip>>

\* The context is cancelled in the sleep between two of its requests.
VolumeCancelled ==
  /\ pc = "volume" /\ cancelled
  /\ Retried(TRUE, "volume", "done", "resources")
  /\ UNCHANGED <<errs, known, listed, cloud, outside, faults>>

\* Mutant: an error of the volumes is lost when the address could be deleted.
DeleteIPForgets ==
  /\ pc = "ip"
  /\ IF "ip" \notin listed
     THEN Retried(FALSE, "volume", "done", "resources") /\ UNCHANGED <<ip, faults, cancelled, removed, local>>
     ELSE \E end \in {"ok", "fault", "lost"} :
            /\ Ends(end)
            /\ ip' = IF Done(end) THEN "gone" ELSE ip
            /\ Retried(end # "ok", "volume", "done", "resources")
  /\ UNCHANGED <<errs, known, listed, server, volume, late>>

\* Its address; and the end of the attempt.
DeleteIP ==
  /\ pc = "ip"
  /\ IF "ip" \notin listed
     THEN Retried(errs, "volume", "done", "resources") /\ UNCHANGED <<ip, faults, cancelled, removed, local>>
     ELSE \E end \in {"ok", "fault", "lost"} :
            /\ Ends(end)
            /\ ip' = IF Done(end) THEN "gone" ELSE ip
            /\ Retried(errs \/ end # "ok", "volume", "done", "resources")
  /\ UNCHANGED <<errs, known, listed, server, volume, late>>

Call ==
  \/ CreateServer \/ SetCloudInit \/ PowerOn \/ Waited
  \/ ListResources \/ Terminate \/ Delete \/ DeleteVolume \/ VolumeCancelled \/ DeleteIP

-----------------------------------------------------------------------------
\* A terminated server goes; its local volume with it.
Stopped ==
  /\ server = "stopping"
  /\ server' = "gone"
  /\ volume' = IF volume # "attached" THEN volume ELSE IF local THEN "gone" ELSE "free"
  /\ UNCHANGED <<request, ip, outside, faults>>

CancelContext ==
  /\ MayCancel /\ ~cancelled /\ pc # "done"
  /\ cancelled' = TRUE
  /\ UNCHANGED <<request, cloud, faults, late, removed, local>>

\* Somebody deletes the server in the console.
RemoveServer ==
  /\ Others /\ ~removed /\ server \in {"created", "booted"}
  /\ server' = "gone" /\ volume' = "free" /\ removed' = TRUE
  /\ UNCHANGED <<request, ip, cancelled, faults, late, local>>

InstanceNext == Call \/ Stopped \/ CancelContext \/ RemoveServer

\* The call goes on, which assumes that each request ends: the client has no
\* timeout.  And Scaleway stops what it has agreed to terminate.
InstanceSpec == InstanceInit /\ [][InstanceNext]_instanceVars /\ WF_instanceVars(Call) /\ WF_instanceVars(Stopped)

-----------------------------------------------------------------------------
InstanceTypeOK ==
  /\ pc \in Requests \union {"done"} /\ try \in 1 .. Attempts
  /\ {local, errs, known, cancelled, late, removed} \subseteq BOOLEAN
  /\ listed \subseteq Parts /\ reports \subseteq {"list", "server", "resources"}
  /\ server \in {"none", "created", "booted", "stopping", "gone"}
  /\ volume \in {"none", "attached", "free", "gone"} /\ ip \in {"none", "held", "gone"}
  /\ faults \in 0 .. MaxFaults

\* What stays, and is billed, once the call has returned.
Left == {"server" : s \in {server} \ {"none", "stopping", "gone"}}
          \union {"volume" : v \in {volume} \ {"none", "gone"}}
          \union {"ip" : i \in {ip} \ {"none", "gone"}}

\* "Otherwise each build would leave a billed volume (and possibly an IP)"
\* (teardownServer): fewer faults than a retryCleanup has attempts leave nothing.
NothingBilled ==
  pc = "done" /\ known /\ faults < Attempts /\ ~cancelled /\ ~late /\ ~removed => Left = {}

\* "Callers report it rather than fail the build" (retryCleanup): whatever is left
\* of an instance, a warning has said so.
LeftIsReported ==
  pc = "done" /\ known /\ ~removed =>
    /\ "server" \in Left => "server" \in reports
    /\ Left \intersect Parts # {} => reports # {}

\* Every call returns.
Returns == <>(pc = "done")

\* "The build Instance is terminated synchronously at the end of Create/Update ...
\* so there is nothing left to clean up here" (Delete).
Terminated == pc = "done" => server \in {"none", "stopping", "gone"}

==============================================================================
