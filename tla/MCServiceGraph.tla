--------------------------- MODULE MCServiceGraph ---------------------------
(***************************************************************************)
(* Compose files over four names: a container service, one that may be its *)
(* sidecar, an object store and a datastore or worker, with the entries of *)
(* depends_on absent, optional, or required with service_healthy.          *)
(***************************************************************************)
EXTENDS ServiceGraph

CONSTANTS app, side, store, peer, ghost

MCNames == {app, side, store, peer, ghost}

Optional == [required |-> FALSE, healthy |-> FALSE]
Healthy == [required |-> TRUE, healthy |-> TRUE]

\* Every depends_on over these names.
DependsOns(names) == UNION {[S -> {Optional, Healthy}] : S \in SUBSET names}

Services(kinds, parents, names) ==
  [kind : kinds, parent : parents, dependsOn : DependsOns(names)]

\* A service and a sidecar candidate with a store each of them may depend on,
\* and that may depend back.
SidecarProjects ==
  {[n \in {app, side, store} |-> IF n = app THEN a ELSE IF n = side THEN s ELSE t] :
     a \in Services({"container"}, {NoParent}, {side, store}),
     s \in Services({"container"}, {NoParent, app, store, ghost}, {app, store}),
     t \in Services({"store"}, {NoParent}, {app})}

\* Two sidecars of one service, whose entries on a service they share differ,
\* and that service, which may depend back.
TwoSidecarProjects ==
  {[n \in {app, side, store, peer} |->
      CASE n = app -> a [] n = side -> s [] n = peer -> p [] OTHER -> t] :
     a \in Services({"container"}, {NoParent}, {store}),
     s \in Services({"container"}, {app}, {peer, store}),
     p \in Services({"container"}, {app, side}, {store}),
     t \in Services({"store", "container"}, {NoParent}, {app})}

\* Three services without sidecars, with any entries between them, on the
\* missing name, and on themselves.
PlainProjects ==
  {[n \in {app, store, peer} |-> IF n = app THEN a ELSE IF n = store THEN s ELSE p] :
     a \in Services({"container"}, {NoParent}, {store, peer, ghost}),
     s \in Services({"store", "container"}, {NoParent}, {app}),
     p \in Services({"datastore", "container"}, {NoParent}, {app, peer})}

\* Two services of one network, which GCP takes as any others.
NetworkProjects ==
  {[n \in {app, side} |-> IF n = app THEN a ELSE s] :
     a \in Services({"container"}, {NoParent}, {side}),
     s \in Services({"container"}, {app}, {app, ghost})}

MCProjects == [aws |-> SidecarProjects \union TwoSidecarProjects \union PlainProjects,
               gcp |-> NetworkProjects
                         \union {p \in PlainProjects : \A n \in DOMAIN p : p[n].kind = "container"}]

=============================================================================
