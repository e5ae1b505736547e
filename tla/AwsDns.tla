--------------------------------- MODULE AwsDns ---------------------------------
(***************************************************************************)
(* Route 53 records, ACM certificates and their validation on AWS          *)
(* (aws/route53.go, aws/cert.go).  A certificate's options and the records *)
(* it needs are registered under whichever component asks for it: the      *)
(* project for its own domain, the service for the domains it brings.      *)
(***************************************************************************)
EXTENDS Compose, Plan

\* The provider that assumes the role of the account the public zones are in.
DnsProvider == Urn("Project", "aws.Provider", <<"route53">>)
ThroughDns(cfg) == IF cfg.dnsRole THEN {DnsProvider} ELSE {}

RecordUrn(parent, host, type) == Urn(parent, "route53.Record", <<host, type>>)
CreateRecord(parent, host, type, after, target) ==
  <<ResWith(RecordUrn(parent, host, type), after, [host |-> host, target |-> target])>>

\* What LookupZone answers for a zone: "found", "none" or "failed".
Lookup(cfg, zone) == IF zone \in DOMAIN cfg.zones THEN cfg.zones[zone] ELSE "none"

\* The zone of a host: the parent's, else, whatever went wrong there, the one
\* above it.
GetHostedZoneForHost(cfg, host) ==
  LET zone == GetZoneName(host)
      parent == GetZoneName(zone)
  IN  IF Lookup(cfg, zone) = "found" \/ parent = zone
      THEN Lookup(cfg, zone) ELSE Lookup(cfg, parent)

--------------------------------------------------------------------------------
(* Certificates.                                                            *)

CertBases(hosts) == {BaseOf(host) : host \in ToSet(hosts)}

\* Mutant: a wildcard is left out when its base is there.
GroupHostnamesExact(hosts, base) ==
  IF base \in ToSet(hosts) THEN <<base>> ELSE Selected(hosts, LAMBDA host : BaseOf(host) = base)

\* The hosts one certificate covers: they share their validation record.
GroupHostnamesByCert(hosts, base) ==
  Selected(hosts, LAMBDA host : host = base)
    \o Selected(hosts, LAMBDA host : host # base /\ BaseOf(host) = base)

CertUrn(parent, hosts) == Urn(parent, "acm.Certificate", Head(hosts))
ValidationUrn(parent, hosts) == Urn(parent, "acm.CertificateValidation", Head(hosts))

\* Mutant: the validation does not wait for the CAA records.
CertValidationEager(parent, hosts, caa, records) ==
  <<Res(ValidationUrn(parent, hosts), {CertUrn(parent, hosts)} \cup records)>>

CertValidation(parent, hosts, caa, records) ==
  <<Res(ValidationUrn(parent, hosts), {CertUrn(parent, hosts)} \cup records \cup caa)>>

\* The record that proves the control of a name; its wildcard has the same.
ValidationHost(base) == << <<"_acme">> >> \o base

CreateCertificateDNS(parent, hosts, cfg) ==
  LET caa == {RecordUrn(parent, host, "CAA") : host \in ToSet(hosts)}
      records == {RecordUrn(parent, ValidationHost(base), "CNAME") : base \in CertBases(hosts)}
  IN  <<ResWith(CertUrn(parent, hosts), {}, [hosts |-> ToSet(hosts)])>>
      \o ForEach(hosts, LAMBDA host :
           CreateRecord(parent, host, "CAA", ThroughDns(cfg), "issuers"))
      \o ForEach(InOrder(CertBases(hosts)), LAMBDA base :
           CreateRecord(parent, ValidationHost(base), "CNAME",
                        ThroughDns(cfg) \cup {CertUrn(parent, hosts)}, "token"))
      \o CertValidation(parent, hosts, caa, records)

--------------------------------------------------------------------------------
(* The domains a service brings.                                            *)

\* Domains are looked after only behind an HTTPS listener.
ByodBases(svc, infra) ==
  IF infra.https = {} THEN {} ELSE CertBases(ByodHostnames(svc))

\* A lookup that fails, other than by finding no zone, fails the service.
ByodFails(svc, cfg, infra) ==
  \E base \in ByodBases(svc, infra) : GetHostedZoneForHost(cfg, base) = "failed"

ListenerCertUrn(name, base) == Urn("Service", "lb.ListenerCertificate", <<name, base>>)

ListenerCertificate(name, base, group, infra) ==
  <<ResWith(ListenerCertUrn(name, base), infra.https \cup {ValidationUrn("Service", group)},
            [hosts |-> ToSet(group)])>>

\* A base without a zone is left to the user, with a warning.
CreateCertsAndRoute53Dns(name, svc, cfg, infra) ==
  ForEach(InOrder(ByodBases(svc, infra)), LAMBDA base :
    LET group == GroupHostnamesByCert(ByodHostnames(svc), base)
    IN  When(GetHostedZoneForHost(cfg, base) = "found",
             CreateCertificateDNS("Service", group, cfg)
             \o ListenerCertificate(name, base, group, infra)
             \o ForEach(group, LAMBDA host :
                  CreateRecord("Service", host, "A", ThroughDns(cfg) \cup infra.alb, "alb"))))

================================================================================
