---------------------------------- MODULE GcpLb ---------------------------------
(***************************************************************************)
(* The load balancers of a project on Google Cloud, made after all its     *)
(* services (gcp/alb.go).  Inside the network, an instance group gets a    *)
(* passthrough load balancer at an address of its own and the others share *)
(* one that goes by host; outside, one URL map takes everything on HTTPS.  *)
(* A load-balancer entry [name, kind, svc, private] is what the services   *)
(* have left behind.                                                       *)
(***************************************************************************)
EXTENDS GcpServices

B(type, name) == Urn("Project", type, name)
PublicLbName(name) == name \o <<"public">>
TargetOf(entry) ==
  CASE entry.kind = "run" -> RunService(entry.name)
    [] entry.kind = "group" -> InstanceGroup(entry.name)
    [] entry.kind = "postgres" -> SqlInstance(entry.name)
    [] entry.kind = "redis" -> RedisInstance(entry.name)

--------------------------------------------------------------------------------
(* The private names and addresses.                                         *)

InternalRecord(name, target) ==
  <<ResWith(ServiceRecord(name), {PrivateZone} \cup target, [host |-> <<ServiceLabel(name)>>, target |-> name])>>

RegionBackend(name) == B("compute.RegionBackendService", name)
InternalCloudRun(entry) ==
  LET neg == B("compute.RegionNetworkEndpointGroup", entry.name) IN
  <<Res(neg, {TargetOf(entry)}), Res(RegionBackend(entry.name), {neg})>>

InternalSinglePort(entry) ==
  LET firewall == B("compute.Firewall", entry.name)
      probe == B("compute.HealthCheck", entry.name)
  IN  Firewall(firewall, entry.name, {entry.svc.ports[1].target}, Anyone)
      \o <<Res(probe, {firewall}), Res(RegionBackend(entry.name), {TargetOf(entry), probe})>>
HealthCheckPortMismatch(entry) == entry.svc.ports[1].target # entry.svc.healthPort

\* Mutant: the last ports are lost when they do not make up five.
ChunksWhole(ports) == [i \in 1..(Len(ports) \div 5) |-> SubSeq(ports, 5 * i - 4, 5 * i)]

\* A forwarding rule takes five ports of one protocol.
Chunks(ports) ==
  [i \in 1..((Len(ports) + 4) \div 5) |->
     SubSeq(ports, 5 * i - 4, IF 5 * i < Len(ports) THEN 5 * i ELSE Len(ports))]
PortsWith(svc, proto) ==
  LET ports == Selected(svc.ports, LAMBDA port : GetProtocol(port) = proto)
  IN  [i \in DOMAIN ports |-> ports[i].target]

ForwardingName(entry, proto, chunk) ==
  entry.name \o <<proto>> \o [i \in DOMAIN chunk |-> ToString(chunk[i])]

ForwardingRules(entry, proto, address, probe) ==
  ForEach(Chunks(PortsWith(entry.svc, proto)), LAMBDA chunk :
    LET name == ForwardingName(entry, proto, chunk) IN
    <<Res(RegionBackend(name), {TargetOf(entry), probe}),
      ResWith(B("compute.ForwardingRule", name), {RegionBackend(name), address, Vpc, Subnet},
              [service |-> entry.name, proto |-> proto, ports |-> ToSet(chunk)])>>)

InternalHostMode(entry) ==
  LET address == B("compute.Address", entry.name)
      traffic == B("compute.Firewall", entry.name)
      checks == B("compute.Firewall", entry.name \o <<"hc">>)
      probe == B("compute.HealthCheck", entry.name)
  IN  <<Res(address, {Subnet})>>
      \o Firewall(traffic, entry.name, {port.target : port \in PortsOf(entry.svc)}, Anyone)
      \o Firewall(checks, entry.name, {Head(TcpPorts(entry.svc)).target}, HealthChecks)
      \o <<Res(probe, {checks})>>
      \o ForEach(<<"tcp", "udp">>, LAMBDA proto : ForwardingRules(entry, proto, address, probe))
      \o InternalRecord(entry.name, {address, traffic})
HostModeRefused(entry) ==
  \/ \E port \in PortsOf(entry.svc) : GetProtocol(port) \notin {"tcp", "udp"}
  \/ TcpPorts(entry.svc) = << >>
  \/ \E proto \in {"tcp", "udp"} : Len(PortsWith(entry.svc, proto)) > 100

--------------------------------------------------------------------------------
(* The internal load balancer.                                              *)

HasStore(entry) == entry.kind \in {"postgres", "redis"}
OnePort(entry) == Len(entry.svc.ports) = 1 /\ IsIngress(entry.svc.ports[1])

\* The services that share the one that goes by host.
OnInternalAlb(entry) ==
  entry.private /\ (entry.kind = "run" \/ (entry.kind = "group" /\ OnePort(entry)))

InternalEntry(entry) ==
  CASE HasStore(entry) -> InternalRecord(entry.name, {TargetOf(entry)})
    [] ~HasStore(entry) /\ OnInternalAlb(entry) ->
         IF entry.kind = "run" THEN InternalCloudRun(entry) ELSE InternalSinglePort(entry)
    [] ~HasStore(entry) /\ ~OnInternalAlb(entry) ->
         When(entry.kind = "group" /\ entry.private, InternalHostMode(entry))

InternalEntryFails(entry) ==
  entry.kind = "group" /\ entry.private
    /\ IF OnePort(entry) THEN HealthCheckPortMismatch(entry) ELSE HostModeRefused(entry)

ProxySubnet == P("compute.Subnetwork", "managed-proxy-subnet")
PrivateAlb(names, cfg) ==
  LET urlMap == P("compute.RegionUrlMap", "private-lb-urlmap")
      proxy == P("compute.RegionTargetHttpProxy", "private-lb-http-proxy")
      rule == P("compute.ForwardingRule", "private-lb-forwarding-rule")
  IN  <<Res(ProxySubnet, IF cfg.proxySubnet THEN {} ELSE {Vpc}),
        Res(urlMap, {RegionBackend(name) : name \in ToSet(names)}),
        Res(proxy, {urlMap, ProxySubnet}),
        Res(rule, {proxy, ProxySubnet, Vpc, Subnet})>>
      \o ForEach(names, LAMBDA name : InternalRecord(name, {rule}))

CreateInternalLoadBalancer(entries, cfg) ==
  LET onAlb == Selected(entries, OnInternalAlb)
      names == [i \in DOMAIN onAlb |-> onAlb[i].name]
  IN  ForEach(entries, InternalEntry)
      \o When(names # << >>, PrivateAlb(names, cfg))

--------------------------------------------------------------------------------
(* The external load balancer.                                              *)

Ingress(entry) == HasIngressPorts(entry.svc) /\ entry.kind \in {"run", "group"}
IngressPorts(svc) == Selected(svc.ports, IsIngress)

PublicRecord(host, name) ==
  <<ResWith(RecordUrn(host, "A"), {PublicZone, PublicIp}, [host |-> host, target |-> name])>>
PortHost(name, port, cfg) == <<ServiceLabel(name) \o <<"", ToString(port.target)>> >> \o cfg.domain
PublicRecords(entry, cfg) ==
  PublicRecord(<<ServiceLabel(entry.name)>> \o cfg.domain, entry.name)
  \o ForEach(IngressPorts(entry.svc), LAMBDA port :
       PublicRecord(PortHost(entry.name, port, cfg), entry.name))

PublicBackend(name) == B("compute.BackendService", name)
BuildCloudRunLbEntry(entry) ==
  LET name == PublicLbName(entry.name)
      neg == B("compute.RegionNetworkEndpointGroup", name)
  IN  <<Res(neg, {TargetOf(entry)}),
        ResWith(PublicBackend(name), {neg}, [service |-> entry.name, balancing |-> "none"])>>

\* Mutant: the port is no part of the name.
MigBackendNameShort(entry, port) == PublicLbName(entry.name)
MigBackendName(entry, port) ==
  PublicLbName(entry.name)
    \o (IF Len(IngressPorts(entry.svc)) > 1 THEN <<ToString(port.target)>> ELSE << >>)

\* Mutant: the group is never taken for one behind a passthrough load balancer.
MigBackendUtilization(entry) == "UTILIZATION"

\* Which the instance group of a passthrough load balancer must not be given.
MigBackend(entry) ==
  IF Len(entry.svc.ports) # 1 \/ ~IsIngress(entry.svc.ports[1]) THEN "RATE" ELSE "UTILIZATION"

BuildMigLbEntry(entry) ==
  ForEach(IngressPorts(entry.svc), LAMBDA port :
    LET name == MigBackendName(entry, port) IN
    <<Res(B("compute.HealthCheck", name), {}),
      ResWith(PublicBackend(name), {TargetOf(entry), B("compute.HealthCheck", name)},
              [service |-> entry.name, balancing |-> MigBackend(entry)])>>)

BuildLbEntry(entry) ==
  IF entry.kind = "run" THEN BuildCloudRunLbEntry(entry) ELSE BuildMigLbEntry(entry)

\* The hosts the URL map knows are the custom domains; it sends every other host
\* to the first service.
UrlMap == P("compute.URLMap", "urlmap")
BuildUrlMap(entries) ==
  LET backends == FlattenSeq([i \in DOMAIN entries |-> BuildLbEntry(entries[i])])
  IN  backends
      \o <<ResWith(UrlMap, {r.urn : r \in OfType(backends, "compute.BackendService")},
             [default |-> entries[1].name,
              routes |-> {<<entry.svc.domain, entry.name>> :
                            entry \in {e \in ToSet(entries) : e.svc.domain # << >>}}])>>

CertMap == P("certificatemanager.CertificateMapResource", "cert-map")
HttpsForwardingRule ==
  <<Res(P("compute.TargetHttpsProxy", "https-proxy"), {UrlMap, CertMap}),
    ResWith(P("compute.GlobalForwardingRule", "https-rule"),
            {P("compute.TargetHttpsProxy", "https-proxy"), PublicIp}, [port |-> 443])>>
HttpRedirectForwardingRule ==
  <<Res(P("compute.URLMap", "http-urlmap"), {}),
    Res(P("compute.TargetHttpProxy", "http-proxy"), {P("compute.URLMap", "http-urlmap")}),
    ResWith(P("compute.GlobalForwardingRule", "http-rule"),
            {P("compute.TargetHttpProxy", "http-proxy"), PublicIp}, [port |-> 80])>>

CreateExternalLoadBalancers(entries, cfg) ==
  LET ingress == Selected(entries, Ingress) IN
  When(ingress # << >>,
    When(cfg.domain # << >>, ForEach(ingress, LAMBDA entry : PublicRecords(entry, cfg)))
    \o <<Res(CertMap, {})>>
    \o When(cfg.domain # << >>,
         <<Res(P("certificatemanager.CertificateMapEntry", "cert-map-entry"),
               {CertMap, WildcardCert})>>)
    \o BuildUrlMap(ingress)
    \o HttpsForwardingRule
    \o HttpRedirectForwardingRule)

CreateLoadBalancers(entries, cfg) ==
  CreateInternalLoadBalancer(entries, cfg) \o CreateExternalLoadBalancers(entries, cfg)

================================================================================
