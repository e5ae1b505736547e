--------------------------------- MODULE Compose --------------------------------
(***************************************************************************)
(* The compose project as the four providers see it (compose/types.go,     *)
(* compose/helpers.go, common/algo.go, common/dns.go), down to what the    *)
(* plan of a deployment depends on.                                        *)
(*                                                                         *)
(* A service is a record:                                                  *)
(*   kind       "container", "postgres", "redis", "store" or "llm": what   *)
(*              the dispatch of a project takes it for                     *)
(*   image, build   it has an image, a build section                       *)
(*   registry   the registry of its image that needs a mirror, or ""       *)
(*   ports      a sequence of [target, mode, proto, app, listener]         *)
(*   domain     its domainname, << >> when it has none                     *)
(*   aliases    the aliases on its default network                         *)
(*   networks   the networks it names                                      *)
(*   env        how each variable gets its value: "literal", "config" (a   *)
(*              bare reference to the config value of its own name),       *)
(*              "shared" (to one that other variables refer to as well) or *)
(*              "mixed" (a config value inside other text)                 *)
(*   uses       the services whose names its environment mentions          *)
(*   needs      depends_on; awaits, on AWS, the same as [service or        *)
(*              sidecar, condition], of services and sidecars alike        *)
(*   policies   x-defang-policies, each [arn, name, foreign]: an ARN or a  *)
(*              bare name; foreign when it is of another cloud             *)
(*   llm, scales, once (never restarted), volumes, arm    as the compose   *)
(*              file says                                                  *)
(*   alias      the model of an "llm" service                              *)
(*   replicas, cpus (hundredths of one), memory and shm (of the build, in  *)
(*              MiB); 0 when not given                                     *)
(*   health     the health check's [start, interval, timeout, retries], in *)
(*              seconds, healthPort, the port it names, and test, whether  *)
(*              it has a test at all                                       *)
(*   sidecars   a sequence of [name, image, env, once, awaits], on AWS     *)
(* and a project [services, networks, internal]: its services by name, the *)
(* networks it declares and which of these are internal.                   *)
(***************************************************************************)
EXTENDS Naturals, Sequences, SequencesExt

\* What passes a test, in its order: SelectSeq without its recursive operator, for proofs.
Selected(seq, Test(_)) ==
  FlattenSeq([i \in DOMAIN seq |-> IF Test(seq[i]) THEN <<seq[i]>> ELSE << >>])

PortsOf(svc) == ToSet(svc.ports)

IsIngress(port) == port.mode \in {"ingress", ""}
IsHost(port) == port.mode = "host"
GetProtocol(port) == IF port.proto = "" THEN "tcp" ELSE port.proto
GetAppProtocol(port) == IF port.app = "" THEN "http" ELSE port.app
HasIngressPorts(svc) == \E p \in PortsOf(svc) : IsIngress(p)
HasHostPorts(svc) == \E p \in PortsOf(svc) : IsHost(p)

\* Older CLIs published UDP ports in host mode; AWS and GCP still do.
UDPIngressAsHost(services) ==
  [name \in DOMAIN services |->
     LET svc == services[name]
         AsHost(port) == IF GetProtocol(port) = "udp" /\ IsIngress(port)
                         THEN [port EXCEPT !.mode = "host"] ELSE port
     IN  [svc EXCEPT !.ports = [i \in DOMAIN @ |-> AsHost(@[i])]]]

NeedsBuild(svc) == svc.build
\* What is reserved for a service, and for the build of its image.
GetCPUs(svc) == IF svc.cpus = 0 THEN 25 ELSE svc.cpus
GetMemoryMiB(svc) == IF svc.memory = 0 THEN 512 ELSE svc.memory
Asked(svc) == <<GetCPUs(svc), GetMemoryMiB(svc)>>
GetBuildMemoryMiB(svc) == IF svc.shm = 0 THEN 8192 ELSE svc.shm

GetReplicas(svc) == IF svc.replicas > 0 THEN svc.replicas ELSE 1

IsManagedService(svc) == svc.kind \in {"postgres", "redis"}
NeedIngress(services) ==
  \E name \in DOMAIN services :
     HasIngressPorts(services[name]) /\ ~IsManagedService(services[name])
IsProjectUsingLLM(services) == \E name \in DOMAIN services : services[name].llm

--------------------------------------------------------------------------------
(* Networks (common/algo.go).                                               *)

IsNetworkInternal(pr, network) == network \in pr.internal

AcceptPublicTraffic(pr, svc) ==
  /\ "default" \in svc.networks \/ svc.networks = {}
  /\ ~IsNetworkInternal(pr, "default")
  /\ HasHostPorts(svc)

InPublicNetwork(pr, svc) ==
  IF pr.networks = {}
  THEN "default" \in svc.networks \/ svc.networks = {}
  ELSE "default" \in svc.networks /\ ~IsNetworkInternal(pr, "default")

InPrivateNetwork(pr, svc) ==
  /\ svc.networks # {}
  /\ \A network \in svc.networks :
        svc.networks = {network} => ~InPublicNetwork(pr, svc)

AllowEgress(pr, svc) ==
  \/ svc.networks = {}
  \/ \E network \in svc.networks : ~IsNetworkInternal(pr, network)

--------------------------------------------------------------------------------
(* Host names (common/dns.go).                                              *)

IsWildcardHost(host) == Len(host) > 1 /\ Head(host) = <<"*">>
BaseOf(host) == IF IsWildcardHost(host) THEN Tail(host) ELSE host

\* The parent zone of a name, except that a name of two labels is its own.
GetZoneName(host) == IF Len(host) <= 2 THEN host ELSE Tail(host)

ByodHostnames(svc) ==
  IF svc.domain = << >> THEN << >> ELSE <<svc.domain>> \o svc.aliases

\* A service as a label of host names: "_" and "." become "-".  A name is words that
\* are joined with "-"; of these words some have such a character.
WithDashes == [a_b |-> <<"a", "b">>]
ServiceLabel(name) ==
  FlattenSeq([i \in DOMAIN name |-> IF name[i] \in DOMAIN WithDashes THEN WithDashes[name[i]] ELSE <<name[i]>>])

================================================================================
