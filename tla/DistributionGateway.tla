------------------------- MODULE DistributionGateway -------------------------
(***************************************************************************)
(* The `/v2/` side of the gateway (proxy.rs handle_distribution, oci.rs    *)
(* forward_distribution, oci_gateway.rs): a client's request is admitted   *)
(* or refused, passed on to the registry once, and answered with what the  *)
(* registry answered, in the gateway's own words.                          *)
(*                                                                         *)
(* The gateway gives up on a request after request_timeout, or when the    *)
(* connection breaks or the client leaves.  The registry knows nothing of  *)
(* that: a request already on its way may still be carried out, later.     *)
(***************************************************************************)
EXTENDS InboundAdmission

CONSTANTS Slots,          \* requests that may be in progress at once
          Inputs,         \* the requests clients may send
          Sessions,       \* upload ids the registry may hand out
          SafeIds,        \* those of letters, digits, '.', '_' and '-'
          ShortIds,       \* those of at most 512 bytes
          Digests, Refs,  \* blob digests and manifest references
          Pieces,         \* what an upload is made of
          Content,        \* the pieces a digest stands for
          Forms,          \* how the registry may spell a Location
          ManifestForms,  \* the same for a manifest; {}: it sends none
          Registries,     \* what the registry may hold at first
          None,
          MaxRequests     \* bound: requests received

VARIABLES registry,   \* sessions, blobs and manifests
          pc,         \* per slot: "idle", "waiting" or "answered"
          req,        \* per slot: the request
          upstream,   \* per slot: where the forwarded request is
          reply,      \* per slot: the registry's answer
          answer,     \* per slot: the gateway's answer
          effects,    \* per slot: how often the registry carried it out
          received    \* requests received

vars == <<registry, pc, req, upstream, reply, answer, effects, received>>

(***************************************************************************)
(* Requests.  A query is the sequence of its parameters.                   *)
(***************************************************************************)

Params == [key  : {"_state", "digest", "mount", "from", "other"},
           form : {"good", "encoded", "bad"}]   \* encoded: sha256%3A...

Kinds == {"version", "manifest", "blob", "start", "upload", "other"}

Requests == [method : Methods \cup {"OPTIONS"},
             repo   : {"own", "other"},
             kind   : Kinds,
             name   : Sessions \cup Digests \cup Refs \cup {None},
             query  : Seq(Params),
             head   : Heads,
             auths  : 0..2,              \* Authorization fields
             bytes  : Seq(Pieces),       \* the body of an upload request
             digest : Digests \cup {None},     \* value of "digest" or "mount"
             needs  : SUBSET Digests]    \* the blobs a manifest names

Images == [needs : SUBSET Digests]

RegistryStates == [open      : SUBSET Sessions,
                   spent     : SUBSET Sessions,
                   data      : [Sessions -> Seq(Pieces)],
                   blobs     : SUBSET Digests,
                   manifests : [Refs -> Images \cup {None}]]

\* A Location, with the origin it spells out, if any.
Locations == [origin : {"none", "own", "other"}, repo : {"own", "other"},
              kind   : Kinds, name : Sessions \cup Digests \cup Refs,
              query  : Seq(Params)]

Spellings == [origin : {"none", "own", "other"}, repo : {"own", "other"},
              query  : Seq(Params)]

ASSUME InputsAssumption ==
    /\ Inputs \subseteq Requests
    /\ \A m \in Inputs :
          /\ m.kind = "upload"   => m.name \in Sessions
          /\ m.kind = "manifest" => m.name \in Refs
          /\ m.kind = "blob"     => m.name \in Digests
ASSUME NamesAssumption ==
    /\ SafeIds \subseteq Sessions /\ ShortIds \subseteq Sessions
    /\ Content \in [Digests -> Seq(Pieces)]
    /\ None \notin Sessions \cup Digests \cup Refs /\ None \notin Images
ASSUME RegistryAssumption ==
    /\ Forms \subseteq Spellings /\ ManifestForms \subseteq Spellings
    /\ Registries \subseteq RegistryStates
ASSUME MaxAssumption == MaxRequests \in Nat

(***************************************************************************)
(* Admission.                                                              *)
(***************************************************************************)

Keys(query) == {query[i].key : i \in DOMAIN query}

Distinct(query) ==
    \A i, j \in DOMAIN query : query[i].key = query[j].key => i = j

\* Every parameter is one of P (a set of <<key, form>>), none of them twice.
OnlyOnce(query, P) ==
    /\ Distinct(query)
    /\ \A i \in DOMAIN query : <<query[i].key, query[i].form>> \in P

\* valid_distribution_query.
QueryAccepted(method, kind, query) ==
    \/ query = <<>>
    \/ /\ kind = "start" /\ method = "POST"
       /\ OnlyOnce(query, {<<"mount", "good">>, <<"mount", "encoded">>, <<"from", "good">>})
       /\ Keys(query) = {"mount", "from"}
    \/ /\ kind = "upload" /\ method \in {"PATCH", "PUT", "DELETE"}
       /\ OnlyOnce(query, {<<"_state", "good">>, <<"digest", "good">>, <<"digest", "encoded">>})

\* parse_path finds a target of the configured repository.
Routed(repo, kind, name) ==
    \/ kind = "version"
    \/ /\ repo = "own"
       /\ kind # "other"
       /\ kind = "upload" => name \in SafeIds \cap ShortIds

Allowed(kind) ==
    CASE kind = "version"  -> {"GET", "HEAD"}
      [] kind = "manifest" -> {"GET", "HEAD", "PUT", "DELETE"}
      [] kind = "blob"     -> {"GET", "HEAD", "DELETE"}
      [] kind = "start"    -> {"POST"}
      [] kind = "upload"   -> {"PATCH", "PUT", "DELETE"}
      [] kind = "other"    -> {}

\* The checks of handle_distribution, in their order; "none" passes them all.
Refusal(m) ==
    IF DistributionRefusal(m.method, m.head) # "none"
         THEN InboundStatus(DistributionRefusal(m.method, m.head))
    ELSE IF ~Routed(m.repo, m.kind, m.name)           THEN "not_found"
    ELSE IF ~QueryAccepted(m.method, m.kind, m.query) THEN "not_found"
    ELSE IF m.auths > 1                               THEN "bad_request"
    ELSE IF m.method \notin Allowed(m.kind)           THEN "method"
    ELSE "none"

Writes(m) == m.method \in Bodied \cup {"DELETE"}

(***************************************************************************)
(* Answers.                                                                *)
(***************************************************************************)

Success  == {"ok", "created", "accepted", "no_content"}
Refused  == {"method", "too_large", "target_too_long", "headers_too_large", "expectation",
             "bad_request", "not_found", "unauthorized", "forbidden"}
Unknown  == {"unavailable", "bad_gateway", "timeout"}
\* "limited": 429 or 503; "error": any other status.
Statuses == Success \cup {"unauthorized", "forbidden", "not_found", "limited", "error"}

\* Seeded fault: the registry's status is passed on as it is.
RetoldVerbatim(status) == status

\* classify_response and map_oci_error: the registry's failure, retold.
Retold(status) ==
    CASE status \in {"unauthorized", "forbidden", "not_found"} -> status
      [] status = "limited"                                    -> "unavailable"
      [] OTHER                                                 -> "bad_gateway"

\* valid_upload_query, then rewrite_distribution_location: what the gateway
\* passes on, relative to itself.  It does not ask for the length of an id.
SessionQuery(query) ==
    query = <<>> \/ OnlyOnce(query, {<<"_state", "good">>, <<"digest", "good">>})

\* Seeded fault: the query of a session is passed on as it is.
RewritableAnyQuery(l) ==
    /\ l.origin # "other"
    /\ l.repo = "own"
    /\ \/ l.kind = "upload" /\ l.name \in SafeIds
       \/ l.kind = "blob" /\ l.query = <<>>

Rewritable(l) ==
    /\ l.origin # "other"
    /\ l.repo = "own"
    /\ \/ l.kind = "upload" /\ l.name \in SafeIds /\ SessionQuery(l.query)
       \/ l.kind = "blob" /\ l.query = <<>>

Rewritten(l) == [l EXCEPT !.origin = "none"]

Answers == [status   : {"none"} \cup Success \cup Refused \cup Unknown,
            location : Locations \cup {None}]

Replies == [status   : {"none"} \cup Statuses,
            location : Locations \cup {None}]

Say(status) == [status |-> status, location |-> None]

\* Seeded fault: as if the resource were missing.
AsMissing == "not_found"

\* OciError::InvalidDescriptor: a Location that cannot be passed on.
Malformed == "bad_gateway"

\* What the gateway answers to the registry's reply r to a request it forwarded.
Answer(r) ==
    IF r.status \notin Success THEN Say(Retold(r.status))
    ELSE IF r.location = None THEN Say(r.status)
    ELSE IF Rewritable(r.location)
         THEN [status |-> r.status, location |-> Rewritten(r.location)]
         ELSE Say(Malformed)

(***************************************************************************)
(* The registry (a service outside this repository; its fixture is         *)
(* oci_registry_stateful.py).                                              *)
(***************************************************************************)

Result(status, location, after, effect) ==
    [status |-> status, location |-> location, after |-> after, effect |-> effect]

\* A refusal, or a read: nothing changes.
Plain(status) == Result(status, None, registry, 0)

\* How the registry may spell the Location of a session, blob or manifest.
Spelled(form, kind, name) ==
    [origin |-> form.origin, repo |-> form.repo, kind |-> kind, name |-> name,
     query |-> IF kind = "upload" THEN form.query ELSE <<>>]

Located(status, kind, name, after) ==
    {Result(status, Spelled(f, kind, name), after, 1) : f \in Forms}

NewSession(s) == [registry EXCEPT !.open = @ \cup {s}]

Opened == UNION {Located("accepted", "upload", s, NewSession(s)) :
                    s \in Sessions \ (registry.open \cup registry.spent)}

\* The body is appended before the digest is compared.
Grown(m) == registry.data[m.name] \o m.bytes

Appended(m) == [registry EXCEPT !.data[m.name] = Grown(m)]

Ended(m) == [registry EXCEPT !.open = @ \ {m.name}, !.spent = @ \cup {m.name},
                             !.data[m.name] = <<>>]

Committed(m) == [Ended(m) EXCEPT !.blobs = @ \cup {m.digest}]

\* DELETE of a manifest removes the manifest under all its names.
Deleted(m) ==
    [registry EXCEPT !.manifests = [r \in Refs |->
        IF registry.manifests[r] = registry.manifests[m.name] THEN None
        ELSE registry.manifests[r]]]

Upload(m) ==
    IF m.name \notin registry.open \/ "_state" \notin Keys(m.query)
    THEN {Plain("not_found")}
    ELSE CASE m.method = "PATCH"  -> Located("accepted", "upload", m.name, Appended(m))
           [] m.method = "DELETE" -> {Result("no_content", None, Ended(m), 1)}
           [] m.method = "PUT"    ->
                IF m.digest # None /\ Grown(m) = Content[m.digest]
                THEN Located("created", "blob", m.digest, Committed(m))
                ELSE {Result("error", None, Appended(m), 0)}

Manifest(m) ==
    IF m.method = "PUT"
    THEN IF m.needs \subseteq registry.blobs
         THEN LET stored == [registry EXCEPT !.manifests[m.name] = [needs |-> m.needs]]
              IN  IF ManifestForms = {} THEN {Result("created", None, stored, 1)}
                  ELSE {Result("created", Spelled(f, "manifest", m.name), stored, 1) :
                           f \in ManifestForms}
         ELSE {Plain("error")}
    ELSE IF registry.manifests[m.name] = None THEN {Plain("not_found")}
    ELSE IF m.method = "DELETE" THEN {Result("accepted", None, Deleted(m), 1)}
    ELSE {Plain("ok")}

Blob(m) ==
    IF m.name \notin registry.blobs THEN {Plain("not_found")}
    ELSE IF m.method = "DELETE"
         THEN {Result("accepted", None, [registry EXCEPT !.blobs = @ \ {m.name}], 1)}
         ELSE {Plain("ok")}

\* A mount of a blob the repository holds ends at once.
Begin(m) ==
    IF m.query # <<>> /\ m.digest \in registry.blobs
    THEN Located("created", "blob", m.digest, registry)
    ELSE Opened

\* What the registry may do with request m: carry it out, or refuse it for a
\* reason of its own.  A read's answer without a usable length is an "error".
Outcomes(m) ==
    {Plain(s) : s \in Statuses \ Success}
      \cup CASE m.kind = "upload"   -> Upload(m)
             [] m.kind = "manifest" -> Manifest(m)
             [] m.kind = "blob"     -> Blob(m)
             [] m.kind = "start"    -> Begin(m)
             [] OTHER               -> {}

(***************************************************************************)
(* One request.                                                            *)
(***************************************************************************)

NoReply == [status |-> "none", location |-> None]

Init ==
    /\ registry \in Registries
    /\ pc = [q \in Slots |-> "idle"]
    /\ req = [q \in Slots |-> None]
    /\ upstream = [q \in Slots |-> "none"]
    /\ reply = [q \in Slots |-> NoReply]
    /\ answer = [q \in Slots |-> NoReply]
    /\ effects = [q \in Slots |-> 0]
    /\ received = 0

\* A request arrives and is admitted or refused without waiting.  The version
\* check is answered without the registry.
Receive(q, m) ==
    LET local == m.kind = "version" \/ Refusal(m) # "none" IN
    /\ received < MaxRequests
    /\ pc[q] # "waiting" /\ upstream[q] # "sent"
    /\ received' = received + 1
    /\ req' = [req EXCEPT ![q] = m]
    /\ pc' = [pc EXCEPT ![q] = IF local THEN "answered" ELSE "waiting"]
    /\ upstream' = [upstream EXCEPT ![q] = IF local THEN "none" ELSE "sent"]
    /\ answer' = [answer EXCEPT ![q] =
                    IF Refusal(m) # "none" THEN Say(Refusal(m))
                    ELSE IF m.kind = "version" THEN Say("ok") ELSE NoReply]
    /\ effects' = [effects EXCEPT ![q] = 0]
    /\ UNCHANGED <<registry, reply>>

\* The registry takes the request and answers it; nobody may be listening.
Serve(q) ==
    /\ upstream[q] = "sent"
    /\ \E o \in Outcomes(req[q]) :
          /\ registry' = o.after
          /\ effects' = [effects EXCEPT ![q] = @ + o.effect]
          /\ reply' = IF pc[q] = "waiting"
                      THEN [reply EXCEPT ![q] = [status |-> o.status, location |-> o.location]]
                      ELSE reply
    /\ upstream' = [upstream EXCEPT ![q] = "served"]
    /\ UNCHANGED <<pc, req, answer, received>>

\* The request is lost on its way.
Lose(q) ==
    /\ upstream[q] = "sent"
    /\ upstream' = [upstream EXCEPT ![q] = "lost"]
    /\ UNCHANGED <<registry, pc, req, reply, answer, effects, received>>

\* The registry's answer arrives.
Deliver(q) ==
    /\ pc[q] = "waiting" /\ upstream[q] = "served"
    /\ pc' = [pc EXCEPT ![q] = "answered"]
    /\ answer' = [answer EXCEPT ![q] = Answer(reply[q])]
    /\ reply' = [reply EXCEPT ![q] = NoReply]
    /\ UNCHANGED <<registry, req, upstream, effects, received>>

\* Seeded fault: a request nobody answers is sent again.
GiveUpAndRetry(q) ==
    /\ pc[q] = "waiting" /\ upstream[q] = "lost"
    /\ upstream' = [upstream EXCEPT ![q] = "sent"]
    /\ UNCHANGED <<registry, pc, req, reply, answer, effects, received>>

\* request_timeout passes, or the connection to the registry breaks.
GiveUp(q) ==
    /\ pc[q] = "waiting"
    /\ pc' = [pc EXCEPT ![q] = "answered"]
    /\ \E s \in {"timeout", "bad_gateway"} : answer' = [answer EXCEPT ![q] = Say(s)]
    /\ reply' = [reply EXCEPT ![q] = NoReply]
    /\ UNCHANGED <<registry, req, upstream, effects, received>>

\* The client leaves, or the server shuts down: the handler is dropped.
Leave(q) ==
    /\ pc[q] = "waiting"
    /\ pc' = [pc EXCEPT ![q] = "answered"]
    /\ reply' = [reply EXCEPT ![q] = NoReply]
    /\ UNCHANGED <<registry, req, upstream, answer, effects, received>>

Next == \E q \in Slots :
            \/ \E m \in Inputs : Receive(q, m)
            \/ Serve(q) \/ Lose(q)
            \/ Deliver(q) \/ GiveUp(q) \/ Leave(q)

\* The wait has a timer.  Nothing is assumed of the registry.
Fairness == \A q \in Slots : WF_vars(Deliver(q) \/ GiveUp(q))

Spec     == Init /\ [][Next]_vars
FairSpec == Spec /\ Fairness

TypeOK ==
    /\ registry \in RegistryStates
    /\ pc \in [Slots -> {"idle", "waiting", "answered"}]
    /\ req \in [Slots -> Inputs \cup {None}]
    /\ upstream \in [Slots -> {"none", "sent", "served", "lost"}]
    /\ reply \in [Slots -> Replies]
    /\ answer \in [Slots -> Answers]
    /\ effects \in [Slots -> Nat]
    /\ received \in 0..MaxRequests

(***************************************************************************)
(* Properties.                                                             *)
(***************************************************************************)

\* A write is carried out at most once, however the wait for it ended.  A
\* success says that it was; a refusal says that it was not and never will be;
\* only an answer of the 500s leaves it open.
AnswersAreTrue ==
    \A q \in Slots :
       /\ effects[q] <= 1
       /\ pc[q] = "answered" /\ answer[q].status \in Success /\ req[q].kind # "version"
             => upstream[q] = "served" /\ (Writes(req[q]) => effects[q] = 1)
       /\ pc[q] = "answered" /\ answer[q].status \in Refused
             => effects[q] = 0 /\ upstream[q] # "sent"

\* A Location in an answer leads back through the gateway: it is relative, and
\* a request for it is routed and its query accepted, unless the id is too long.
LocationsLeadBack ==
    \A q \in Slots : LET l == answer[q].location IN
       l # None =>
          /\ l.origin = "none"
          /\ \/ /\ l.kind = "upload"
                /\ \A w \in {"PATCH", "PUT", "DELETE"} : QueryAccepted(w, "upload", l.query)
             \/ l.kind = "blob" /\ QueryAccepted("GET", "blob", l.query)
          /\ \/ Routed(l.repo, l.kind, l.name)
             \/ l.repo = "own" /\ l.kind = "upload" /\ l.name \notin ShortIds

\* A request goes to the registry only if there is one way to tell where it ends,
\* and that is within the limit: its lengths agree and bound its body, it is not
\* chunked, and a request that has no body declares none.
ForwardedHaveOneLength ==
    \A q \in Slots : upstream[q] # "none" =>
       LET h == req[q].head IN
       /\ ~h.chunked
       /\ \A i, j \in DOMAIN h.lengths : h.lengths[i].value = h.lengths[j].value
       /\ Body(h) <= IF req[q].method \in Bodied THEN MaxBody ELSE 0

\* Every request is answered, or its client has gone.
RequestsAnswered == \A q \in Slots : pc[q] = "waiting" ~> pc[q] = "answered"

(***************************************************************************)
(* A claim of the documentation.                                           *)
(***************************************************************************)

\* Manifest publications are forwarded like any other write (README.md): when
\* the registry's acceptance of one arrives, the client is told.
PublicationIsAcknowledged ==
    [][\A q \in Slots :
          Deliver(q) /\ req[q].kind = "manifest" /\ reply[q].status = "created"
             => answer'[q].status = "created"]_vars
=============================================================================
