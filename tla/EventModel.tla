------------------------------ MODULE EventModel ------------------------------
(***************************************************************************)
(* internal/cdevents and pkg/models: from the JSON of a CDEvent to the     *)
(* Deployment and the StoredEvent that HandlePostEvent saves, and on to    *)
(* the attributes of a span and the lines of a chain.  A producer sends a  *)
(* kind (subject and predicate) in some version of the schema, links in    *)
(* several shapes and places, and metadata wherever it likes.              *)
(*                                                                         *)
(* A JSON object is a function on its field names, absent or null objects  *)
(* the function on none; a field is a string, an object or something else. *)
(* The fields of a record that no property is about are left out.          *)
(***************************************************************************)
EXTENDS Integers, Sequences, FiniteSets, SequencesExt, FiniteSetsExt

CONSTANT VersionSegments   \* segments isVersionSegment accepts

None == <<>>
NoText == ""     \* a string that is missing, empty or no string
DeploymentKinds == {<<"service", "deployed">>, <<"service", "upgraded">>,
                    <<"service", "rolledback">>}
-----------------------------------------------------------------------------
\* context.type, in segments: what the producer makes of kind and version.
Type(e) == e.prefix \o e.kind \o e.version

\* Mutant: only a single version segment is stripped.
ShortTypeStripsOne(type) ==
    IF Len(type) >= 4 /\ SubSeq(type, 1, 2) = <<"dev", "cdevents">>
    THEN SubSeq(type, 3, 4)
    ELSE LET last == IF Len(type) > 2 /\ Last(type) \in VersionSegments
                     THEN Len(type) - 1 ELSE Len(type)
         IN  IF Len(type) < 2 THEN type ELSE SubSeq(type, last - 1, last)

\* The two segments after dev.cdevents, or the last two before the version.
ShortType(type) ==
    IF Len(type) >= 4 /\ SubSeq(type, 1, 2) = <<"dev", "cdevents">>
    THEN SubSeq(type, 3, 4)
    ELSE LET last == Max({2} \cup {n \in 3..Len(type) : type[n] \notin VersionSegments})
         IN  IF Len(type) < 2 THEN type ELSE SubSeq(type, last - 1, last)

IsDeployment(e) == ShortType(Type(e)) \in DeploymentKinds
-----------------------------------------------------------------------------
FirstNonEmpty(texts) ==
    LET full == {i \in DOMAIN texts : texts[i] # NoText}
    IN  IF full = {} THEN NoText ELSE texts[Min(full)]

Field(object, key) ==
    IF key \in DOMAIN object THEN object[key] ELSE [kind |-> "other"]

Text(value) == IF value.kind = "string" THEN value.text ELSE NoText
Inner(value) == IF value.kind = "object" THEN value.fields ELSE None

GetStringField(object, key) == Text(Field(object, key))
GetNestedString(object, key, inner) == GetStringField(Inner(Field(object, key)), inner)

\* All the keys of an object come before the next object.
StringFrom(keys, objects) ==
    FirstNonEmpty([i \in DOMAIN objects |->
      FirstNonEmpty([j \in DOMAIN keys |-> GetStringField(objects[i], keys[j])])])

\* A string, or an object that has an id, a url or a name.
Identity(value) ==
    IF value.kind = "object"
    THEN StringFrom(<<"id", "url", "name">>, <<value.fields>>) ELSE Text(value)

IdentityFrom(keys, objects) ==
    FirstNonEmpty([i \in DOMAIN objects |->
      FirstNonEmpty([j \in DOMAIN keys |-> Identity(Field(objects[i], keys[j]))])])

CommitKeys == <<"commitSha", "commit", "sha", "gitCommit">>
RepositoryKeys == <<"repository", "repo", "repositoryUrl">>
ServiceKeys == <<"service", "serviceName">>
-----------------------------------------------------------------------------
\* Link.UnmarshalJSON: a link in any of the shapes that producers use.
LinkOf(raw) ==
    [type |-> FirstNonEmpty(<<raw.linkKind, raw.linkType, raw.type>>),
     id   |-> FirstNonEmpty(<<raw.linkId, raw.target, raw.contextId>>)]

\* Mutant: duplicates are dropped in each place, not across them.
NormalizeLinksApart(raws) ==
    LET add(acc, raw) == IF \/ LinkOf(raw).id = NoText
                            \/ acc # <<>> /\ Last(acc) = LinkOf(raw)
                         THEN acc ELSE Append(acc, LinkOf(raw))
    IN  FoldLeft(add, <<>>, raws)

\* Links with a target, each once; context.links come before event.links.
NormalizeLinks(raws) ==
    LET merged[n \in 0..Len(raws)] ==
          IF n = 0 THEN <<>>
          ELSE LET link == LinkOf(raws[n])
               IN  IF link.id = NoText \/ link \in ToSet(merged[n - 1])
                   THEN merged[n - 1] ELSE Append(merged[n - 1], link)
    IN  merged[Len(raws)]

\* Mutant: the subject's id is not required.
ValidateWithoutSubject(e) ==
    e.id # NoText /\ Type(e) # <<>> /\ e.source # NoText /\ e.timestamp # 0 /\ e.subjectType # NoText

Validate(e) ==
    /\ e.id # NoText /\ Type(e) # <<>> /\ e.source # NoText /\ e.timestamp # 0
    /\ e.subjectId # NoText /\ e.subjectType # NoText

ToDeployment(e, ls) ==
    [id          |-> e.subjectId,
     service     |-> FirstNonEmpty(<<GetNestedString(e.content, "service", "name"),
                                     StringFrom(ServiceKeys, <<e.custom>>),
                                     e.subjectId>>),
     environment |-> FirstNonEmpty(<<GetNestedString(e.content, "environment", "id"),
                                     GetStringField(e.content, "environment"),
                                     IdentityFrom(<<"environment">>, <<e.custom>>)>>),
     commit      |-> StringFrom(CommitKeys, <<e.custom, e.content>>),
     repository  |-> IdentityFrom(RepositoryKeys, <<e.custom, e.content>>),
     deployedAt  |-> e.timestamp, eventId |-> e.id, links |-> ls]

\* otelbridge.Attributes: what a span carries, values that are empty left out.
Attributes(d) ==
    LET value == [d EXCEPT !.id = FirstNonEmpty(<<d.id, d.eventId>>)]
        texts == {"id", "commit", "environment", "repository", "eventId"}
    IN  [k \in {t \in texts : value[t] # NoText} |-> value[k]]

PipelineRunKinds == {<<"pipelinerun", p>> : p \in {"queued", "started", "finished"}}
IncidentKinds == {<<"incident", p>> : p \in {"detected", "reported", "resolved"}}
OutcomeKeys == <<"outcome", "status", "result">>
DescKeys == <<"description", "summary", "title", "message">>
AuthorKeys == <<"author", "committer", "actor">>

ToPipelineRun(e) ==
    [id |-> e.subjectId, outcome |-> StringFrom(OutcomeKeys, <<e.content, e.custom>>),
     pipelineName |-> FirstNonEmpty(<<GetStringField(e.content, "pipelineName"),
                                      GetStringField(e.content, "name")>>)]

ToIncident(e) ==
    [id |-> e.subjectId,
     description |-> StringFrom(DescKeys, <<e.content, e.custom>>)]

\* The wording of a summary: the kinds that have one of their own.
Form(kind) ==
    IF kind \in DeploymentKinds \cup PipelineRunKinds \cup IncidentKinds
    THEN kind[1]
    ELSE IF kind = <<"change", "merged">> THEN "change" ELSE "other"

Summary(kind, name, detail) ==
    [form |-> Form(kind), predicate |-> IF Len(kind) > 1 THEN kind[2] ELSE NoText,
     name |-> name, detail |-> detail]

\* Mutant: a name that is missing stays missing.
NamedOrNot(name, e) == name

Named(name, e) == FirstNonEmpty(<<name, e.subjectId>>)

\* What a chain says of the event: who or what it is about, and a detail.
Summarize(e, ls) ==
    LET kind == ShortType(Type(e))
        deployment == ToDeployment(e, ls)
        run == ToPipelineRun(e)
    IN  CASE Form(kind) = "service" ->
               Summary(kind, deployment.service, deployment.environment)
          [] Form(kind) = "pipelinerun" ->
               Summary(kind, Named(run.pipelineName, e), run.outcome)
          [] Form(kind) = "incident" ->
               Summary(kind, Named(ToIncident(e).description, e), NoText)
          [] Form(kind) = "change" ->
               Summary(kind, e.subjectId, StringFrom(AuthorKeys, <<e.custom, e.content>>))
          [] OTHER -> Summary(kind, e.subjectId, NoText)

\* rawData has a "content" and a "customData", each only if it was sent.
ToStoredEvent(e, ls) ==
    [id |-> e.id, type |-> Type(e), links |-> ls, summary |-> Summarize(e, ls),
     rawData |-> [k \in {f \in {"content", "customData"} :
                           (IF f = "content" THEN e.content ELSE e.custom) # None} |->
                    [kind |-> "object",
                     fields |-> IF k = "content" THEN e.content ELSE e.custom]]]

\* Mutant: the subject's content is searched first.
ExtractChangeInfoContent(r) ==
    LET places == <<Inner(Field(r.rawData, "content")),
                    Inner(Field(r.rawData, "customData")), r.rawData>>
    IN  [commit     |-> StringFrom(CommitKeys, places),
         repository |-> IdentityFrom(RepositoryKeys, places)]

\* What the correlator reads from the stored event.
ExtractChangeInfo(r) ==
    LET places == <<Inner(Field(r.rawData, "customData")),
                    Inner(Field(r.rawData, "content")), r.rawData>>
    IN  [commit     |-> StringFrom(CommitKeys, places),
         repository |-> IdentityFrom(RepositoryKeys, places)]
=============================================================================
