---------------------------- MODULE MCApiRequests ----------------------------
(* ApiRequests over CDEvents that vary in one respect at a time: the type,   *)
(* the required fields, the links, where the metadata is, and the summary.   *)
(* An application calls while a deployment is posted and others expire.      *)
EXTENDS ApiRequests

Str(t) == [kind |-> "string", text |-> t]
Obj(f) == [kind |-> "object", fields |-> f]
Number == [kind |-> "other"]

Base == [id |-> "e1", prefix |-> <<"dev", "cdevents">>, kind |-> <<"service", "deployed">>,
         version |-> <<"0", "1", "1">>, source |-> "ci", timestamp |-> 2,
         subjectId |-> "api", subjectType |-> "service",
         content |-> None, custom |-> None, contextLinks |-> <<>>, topLinks |-> <<>>]

Kinds == DeploymentKinds \cup PipelineRunKinds \cup IncidentKinds
           \cup {<<"change", "merged">>, <<"artifact", "published">>}

ByType == {[Base EXCEPT !.prefix = p, !.kind = k, !.version = v] :
             p \in {<<>>, Base.prefix}, k \in Kinds,
             v \in {<<>>, <<"v1">>, <<"0", "1">>, <<"0", "1", "1">>}}

ByRequired == {[Base EXCEPT !.id = i, !.source = s, !.timestamp = t,
                            !.subjectId = n, !.subjectType = y] :
                 i \in {"", "e1"}, s \in {"", "ci"}, t \in {0, 2},
                 n \in {"", "api"}, y \in {"", "service"}}

Raw(linkKind, linkType, type, linkId, target, contextId) ==
    [linkKind |-> linkKind, linkType |-> linkType, type |-> type,
     linkId |-> linkId, target |-> target, contextId |-> contextId]

\* The shapes of pkg/models/deployment.go; three of them are one link.
RawLinks == {Raw("", "TRIGGER", "", "e2", "", ""), Raw("", "", "TRIGGER", "", "e2", ""),
             Raw("TRIGGER", "RELATION", "", "", "", "e2"),
             Raw("", "RELATION", "", "e2", "", ""),
             Raw("", "TRIGGER", "", "e3", "", ""), Raw("", "END", "", "", "", "")}

ByLinks == {[Base EXCEPT !.contextLinks = c, !.topLinks = t] :
              c \in SeqOf(RawLinks, 2), t \in SeqOf(RawLinks, 1)}

Values == {Str(""), Str("x"), Obj([id |-> Str("y")]), Obj([name |-> Str("z")]), Number}
Objects(fields, values) == UNION {[d -> values] : d \in SUBSET fields}

ByPlace == {[Base EXCEPT !.content = c, !.custom = u] :
              c \in Objects({"environment", "service"}, Values),
              u \in Objects({"environment", "service"}, Values)}

ByCommit == {[Base EXCEPT !.content = c, !.custom = u] :
               c \in Objects({"commitSha", "repository"}, Values),
               u \in Objects({"commit", "repo"}, Values)}

BySummary == {[Base EXCEPT !.kind = k, !.content = c] :
                k \in Kinds, c \in Objects({"name", "description", "outcome"}, {Str(""), Str("x")})}

AllInputs == ByType \cup ByRequired \cup ByLinks \cup ByPlace \cup ByCommit \cup BySummary

\* Redis keys; api in eu:prod and api:eu in prod have the same one.
ColonKey(service, environment) == service \o ":" \o environment

\* The calls: of the service that is deployed, of names with a slash, and of
\* a pair that shares its key.
Posted(service, environment) ==
    [Base EXCEPT !.subjectId = service, !.content = [environment |-> Str(environment)]]
Calls == {[service |-> s, environment |-> e] :
            s \in {"", "api", "team/api"}, e \in {"", "prod"}}
         \cup {[service |-> "api", environment |-> "eu:prod"]}
WatchedInputs == {Posted(s, e) : s \in {"api", "team/api", "team%2Fapi"}, e \in {"", "prod"}}
                 \cup {Posted("api:eu", "prod")}
AllPosted == AllInputs \cup WatchedInputs
Slashes == [n \in {"team/api"} |-> "team%2Fapi"]

Before(e, at) == ToDeployment([Posted("api", e) EXCEPT !.id = "e0", !.timestamp = at], <<>>)
Histories == {{}, {Before("eu:prod", 1)}, {Before("prod", 3), Before("test", 1)}}
=============================================================================
