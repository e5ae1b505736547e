------------------------------ MODULE AzureDomains ------------------------------
(***************************************************************************)
(* The host names of a container app: its name in the delegate domain, the *)
(* user's own names that a zone was found for, and wildcards, which go     *)
(* through Front Door (azure/customdomain.go, azure/frontdoor.go,          *)
(* azure/dnszone.go); and the certificates that are issued for them.       *)
(***************************************************************************)
EXTENDS AzureServices

\* A record set: the host and type it writes are what may be written once.
RecordUrn(host, type) == S("dns.RecordSet", <<host, type>>)
RecordSet(urn, host, type, after) == <<ResWith(urn, after, [record |-> <<host, type>>])>>
Asuid(host) == << <<"asuid">> >> \o host

\* In the delegate domain, records are named for the service.
ServiceRecord(name, use) == RecordUrn(<<name \o <<use>> >>, "")
CreateCustomDomain(name, svc, cfg) ==
  LET host == <<ServiceLabel(name)>> \o cfg.domain
      after == {Group, DomainZone, App(name)}
  IN  When(cfg.domain # << >> /\ HasIngressPorts(svc),
           RecordSet(ServiceRecord(name, "cname"), host, "CNAME", after \cup {Environment})
           \o RecordSet(ServiceRecord(name, "asuid"), Asuid(host), "TXT", after))

--------------------------------------------------------------------------------
(* The user's own names.                                                    *)

\* The closest of the user's zones that the host is in (FindZones).
ZoneOf(host, cfg) ==
  LET parents == {zone \in cfg.zones : IsSuffix(zone, host)}
  IN  IF parents = {} THEN << >>
      ELSE CHOOSE zone \in parents : \A other \in parents : Len(other) <= Len(zone)

\* Mutant: a wildcard is taken for any other name.
ByodNamesAll(svc) == ByodHostnames(svc)
ByodNames(svc) == Selected(ByodHostnames(svc), LAMBDA host : ~IsWildcardHost(host))

\* At the apex of the zone an A record, anywhere else a CNAME.
CreateByodRecords(name, host, zone) ==
  LET type == IF host = zone THEN "A" ELSE "CNAME" IN
  RecordSet(RecordUrn(host, type), host, type,
            {Environment} \cup IF type = "CNAME" THEN {App(name)} ELSE {})
  \o RecordSet(RecordUrn(Asuid(host), "TXT"), Asuid(host), "TXT", {App(name)})

CreateByodDomain(name, svc, cfg) ==
  When(HasIngressPorts(svc),
       ForEach(ByodNames(svc), LAMBDA host :
         When(ZoneOf(host, cfg) # << >>, CreateByodRecords(name, host, ZoneOf(host, cfg)))))

--------------------------------------------------------------------------------
(* Wildcards.                                                               *)

Within(host, zone) == zone # << >> /\ IsSuffix(zone, host)

\* Into the delegate zone if the name is in it, else into the zone found for it;
\* without either the records are left to the user.
Published(base, host, cfg) == Within(base, cfg.domain) \/ Within(base, ZoneOf(host, cfg))
PublishValidation(name, host, domain, cfg) ==
  LET base == BaseOf(host)
      zone == IF Within(base, cfg.domain) THEN {Group, DomainZone} ELSE {}
      Named(use) == RecordUrn(<<name \o FlattenSeq(base) \o <<use>> >>, "")
  IN  When(Published(base, host, cfg),
           RecordSet(Named("dnsauth"), << <<"_dnsauth">> >> \o base, "TXT", zone \cup {domain})
           \o RecordSet(Named("wildcard"), host, "CNAME", zone \cup {Endpoint}))

AfdDomain(name, i) == S("cdn.AFDCustomDomain", name \o <<"wildcard", ToString(i)>>)
OriginGroup(name) == S("cdn.AFDOriginGroup", name \o <<"origin", "group">>)

CreateWildcardDomain(name, svc, cfg) ==
  LET hosts == WildcardHostnames(svc)
      domains == [i \in DOMAIN hosts |-> AfdDomain(name, i - 1)]
  IN  When(hosts # << >>,
           <<Plainly(OriginGroup(name), {Profile}),
             Plainly(S("cdn.AFDOrigin", name \o <<"origin">>), {Profile, OriginGroup(name), App(name), Environment})>>
           \o FlattenSeq([i \in DOMAIN hosts |->
                <<Plainly(domains[i], {Profile})>> \o PublishValidation(name, hosts[i], domains[i], cfg)])
           \o <<InGroup(S("cdn.Route", name \o <<"route">>), {Profile, Endpoint, OriginGroup(name)} \cup ToSet(domains),
                        [serves |-> ToSet(hosts)])>>)

CreateAppDomains(name, svc, cfg) ==
  CreateCustomDomain(name, svc, cfg) \o CreateByodDomain(name, svc, cfg)
  \o CreateWildcardDomain(name, svc, cfg)

--------------------------------------------------------------------------------
(* The managed certificates (cd/program/azure.go): when the project is      *)
(* there, the program has one issued for every host name of its container   *)
(* apps.  A job waits for the host's records, which were written or not:    *)
(* the two must agree on who gets them.                                     *)

Certificate(host) == Urn("Stack", "aca.IssueCert", host)
Job(name, host) == [service |-> name, hostname |-> host]

\* Mutant: a zone that holds the name is all it takes.
ByodRecordEligibleWildcard(host, zone) == Within(host, zone)

\* A name that a zone holds, and that Front Door does not certify.
ByodRecordEligible(host, zone) == ~IsWildcardHost(host) /\ Within(host, zone)

\* The services with ingress ports that are no virtual machines.  Managed services
\* are among them, although they get no records, and have no app.
Certified(pr) ==
  {name \in DOMAIN pr.services :
     HasIngressPorts(pr.services[name]) /\ ~IsVirtualMachineService(pr.services[name])}

\* The host of the first kind has the service's name as it is, the record its label.
CollectCertJobs(pr, cfg) ==
  {Job(name, <<name>> \o cfg.domain) : name \in (IF cfg.domain = << >> THEN {} ELSE Certified(pr))}
  \cup UNION {{Job(name, host) : host \in
                {h \in ToSet(ByodHostnames(pr.services[name])) : ByodRecordEligible(h, ZoneOf(h, cfg))}} :
              name \in Certified(pr)}

\* What is chained off the project's endpoints, and so comes after the whole of
\* what its component has registered.
ProvisionCerts(pr, cfg, plan) ==
  ForEach(InOrder(CollectCertJobs(pr, cfg)), LAMBDA job :
    <<ResWith(Certificate(job.hostname), Registered(plan), [service |-> job.service, host |-> job.hostname])>>)

================================================================================
