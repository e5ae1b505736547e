-------------------------------- MODULE MCMachine -------------------------------
(* Instances of Machine: on Google Cloud a service that waits for a migration    *)
(* and mounts the volumes of another sidecar, one that requires a sidecar which  *)
(* keeps running, and one whose image is broken; on Azure a service with an      *)
(* image that was built, and one whose image is broken.                          *)
EXTENDS Machine

C(once, awaited, mounted, e) == [once |-> once, awaited |-> awaited, mounted |-> mounted, env |-> e]
NoEnv == [key \in {} |-> "literal"]

Migrating ==
  [cloud |-> "gcp", order |-> <<"data", "migrate", "main">>, startPeriod |-> 0, built |-> FALSE, good |-> TRUE,
   containers |-> [data |-> C(FALSE, FALSE, TRUE, NoEnv),
                   migrate |-> C(TRUE, TRUE, FALSE, [A |-> "config"]),
                   main |-> C(FALSE, FALSE, FALSE, [A |-> "config", B |-> "mixed"])]]
Accompanied ==
  [cloud |-> "gcp", order |-> <<"data", "main">>, startPeriod |-> 1, built |-> TRUE, good |-> TRUE,
   containers |-> [data |-> C(FALSE, TRUE, FALSE, [A |-> "config"]),
                   main |-> C(FALSE, FALSE, FALSE, [A |-> "literal"])]]
Broken(cloud, period) ==
  [cloud |-> cloud, order |-> <<"main">>, startPeriod |-> period, built |-> FALSE, good |-> FALSE,
   containers |-> [main |-> C(FALSE, FALSE, FALSE, NoEnv)]]
OnAzure ==
  [cloud |-> "azure", order |-> <<"main">>, startPeriod |-> 2, built |-> TRUE, good |-> TRUE,
   containers |-> [main |-> C(FALSE, FALSE, FALSE, [A |-> "config", B |-> "mixed"])]]

MCMachines == {Migrating, Accompanied, Broken("gcp", 1), Broken("azure", 2), OnAzure}
================================================================================
