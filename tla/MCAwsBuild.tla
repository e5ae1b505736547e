------------------------------ MODULE MCAwsBuild ------------------------------
(***************************************************************************)
(* Two services with build contexts of their own, and two that differ in   *)
(* their platform only.                                                    *)
(***************************************************************************)
EXTENDS AwsBuild

Build(context, platform) == [context |-> context, platforms |-> {}, platform |-> platform]

OwnContexts == [web |-> Build("web", "amd64"), api |-> Build("api", "amd64")]
OneContext == [web |-> Build("app", "amd64"), job |-> Build("app", "arm64")]

==============================================================================
