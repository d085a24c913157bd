---------------------- MODULE DistributionGateway_proofs ----------------------
(***************************************************************************)
(* Proofs about the distribution gateway, for any number of requests, any  *)
(* registry contents and any spelling of Locations.                        *)
(***************************************************************************)
EXTENDS DistributionGateway, TLAPS

(***************************************************************************)
(* The registry.                                                           *)
(***************************************************************************)

\* What holds of an outcome of a request that was admitted: only a success has
\* an effect, a successful write has exactly one, and the registry stays one.
GoodOutcome(m, o) ==
    /\ o.status \in Statuses
    /\ o.location \in Locations \cup {None}
    /\ o.after \in RegistryStates
    /\ o.effect \in {0, 1}
    /\ o.status \notin Success => o.effect = 0
    /\ o.status \in Success /\ Writes(m) => o.effect = 1

Admits(m) == m \in Inputs /\ Refusal(m) = "none" /\ m.kind # "version"

\* A refusal, or a read.
LEMMA PlainOutcome ==
    ASSUME registry \in RegistryStates, NEW m,
           NEW s \in Statuses, s \in Success => ~Writes(m)
    PROVE  GoodOutcome(m, Plain(s))
  BY DEF GoodOutcome, Plain, Result

\* A success with a Location of a session, a blob or a manifest.
LEMMA LocatedOutcome ==
    ASSUME NEW m, NEW s \in Success, NEW f \in Spellings, NEW after \in RegistryStates,
           NEW kind \in {"upload", "blob", "manifest"},
           NEW name \in Sessions \cup Digests \cup Refs
    PROVE  GoodOutcome(m, Result(s, Spelled(f, kind, name), after, 1))
<1>1. Spelled(f, kind, name) \in Locations
  BY DEF Spelled, Locations, Spellings, Kinds
<1> QED
  BY <1>1 DEF GoodOutcome, Result, Statuses

\* A success without a Location.
LEMMA BareOutcome ==
    ASSUME NEW m, NEW s \in Success, NEW after \in RegistryStates
    PROVE  GoodOutcome(m, Result(s, None, after, 1))
  BY DEF GoodOutcome, Result, Statuses

\* The states the registry moves to are states of a registry.
LEMMA RegistryStays ==
    ASSUME registry \in RegistryStates, NEW m \in Requests
    PROVE  /\ \A s \in Sessions : NewSession(s) \in RegistryStates
           /\ m.name \in Sessions =>
                /\ Appended(m) \in RegistryStates
                /\ Ended(m) \in RegistryStates
                /\ m.digest \in Digests => Committed(m) \in RegistryStates
           /\ m.name \in Refs =>
                /\ Deleted(m) \in RegistryStates
                /\ [registry EXCEPT !.manifests[m.name] = [needs |-> m.needs]]
                      \in RegistryStates
           /\ [registry EXCEPT !.blobs = @ \ {m.name}] \in RegistryStates
<1>1. \A s \in Sessions : NewSession(s) \in RegistryStates
  BY DEF NewSession, RegistryStates
<1>2. ASSUME m.name \in Sessions
      PROVE  Appended(m) \in RegistryStates /\ Ended(m) \in RegistryStates
  <2>1. registry.data[m.name] \in Seq(Pieces) /\ m.bytes \in Seq(Pieces)
    BY <1>2 DEF RegistryStates, Requests
  <2>2. Grown(m) \in Seq(Pieces)
    BY <2>1 DEF Grown
  <2>3. <<>> \in Seq(Pieces)
    OBVIOUS
  <2> QED
    BY <1>2, <2>2, <2>3 DEF Appended, Ended, RegistryStates
<1>3. ASSUME m.name \in Sessions, m.digest \in Digests
      PROVE  Committed(m) \in RegistryStates
  <2>1. Ended(m) \in RegistryStates
    BY <1>2, <1>3
  <2> QED
    BY <2>1, <1>3 DEF Committed, RegistryStates
<1>4. ASSUME m.name \in Refs
      PROVE  /\ Deleted(m) \in RegistryStates
             /\ [registry EXCEPT !.manifests[m.name] = [needs |-> m.needs]] \in RegistryStates
  <2>1. [needs |-> m.needs] \in Images
    BY DEF Requests, Images
  <2>2. Deleted(m) \in RegistryStates
    BY <1>4 DEF Deleted, RegistryStates
  <2> QED
    BY <1>4, <2>1, <2>2 DEF RegistryStates
<1>5. [registry EXCEPT !.blobs = @ \ {m.name}] \in RegistryStates
  BY DEF RegistryStates
<1> QED
  BY <1>1, <1>2, <1>3, <1>4, <1>5

\* An admitted request has a method its kind of path allows.
LEMMA AdmittedMethod ==
    ASSUME NEW m, Refusal(m) = "none"
    PROVE  m.method \in Allowed(m.kind)
<1>1. \A r : InboundStatus(r) # "none"
  BY DEF InboundStatus
<1> QED
  BY <1>1 DEF Refusal

\* Whatever the registry does with an admitted request is a good outcome.
LEMMA OutcomesAreGood ==
    ASSUME registry \in RegistryStates, NEW m, Admits(m), NEW o \in Outcomes(m)
    PROVE  GoodOutcome(m, o)
<1> m \in Requests
  BY InputsAssumption DEF Admits
<1> USE RegistryStays, RegistryAssumption
<1>1. CASE o \in {Plain(s) : s \in Statuses \ Success}
  BY <1>1, PlainOutcome
<1>2. ASSUME m.kind = "upload", o \in Upload(m)
      PROVE  GoodOutcome(m, o)
  <2>1. m.name \in Sessions /\ m.method \in {"PATCH", "PUT", "DELETE"}
    BY <1>2, InputsAssumption, AdmittedMethod DEF Admits, Allowed
  <2>2. CASE o = Plain("not_found") \/ o = Plain("error")
    BY <2>2, PlainOutcome DEF Statuses, Success
  <2>3. CASE o \in Located("accepted", "upload", m.name, Appended(m))
    BY <2>1, <2>3, LocatedOutcome DEF Located, Success
  <2>4. CASE o = Result("no_content", None, Ended(m), 1)
    BY <2>1, <2>4, BareOutcome DEF Success
  <2>5. CASE m.digest # None /\ o \in Located("created", "blob", m.digest, Committed(m))
    <3>1. m.digest \in Digests
      BY <2>5 DEF Requests
    <3> QED
      BY <2>1, <2>5, <3>1, LocatedOutcome DEF Located, Success
  <2>6. CASE o = Result("error", None, Appended(m), 0)
    BY <2>1, <2>6 DEF GoodOutcome, Result, Statuses, Success
  <2> QED
    BY <1>2, <2>1, <2>2, <2>3, <2>4, <2>5, <2>6 DEF Upload
<1>3. ASSUME m.kind = "manifest", o \in Manifest(m)
      PROVE  GoodOutcome(m, o)
  <2> DEFINE stored == [registry EXCEPT !.manifests[m.name] = [needs |-> m.needs]]
  <2>1. m.name \in Refs /\ m.method \in {"GET", "HEAD", "PUT", "DELETE"}
    BY <1>3, InputsAssumption, AdmittedMethod DEF Admits, Allowed
  <2>2. stored \in RegistryStates /\ Deleted(m) \in RegistryStates
    BY <2>1
  <2> HIDE DEF stored
  <2>3. CASE o = Plain("not_found") \/ o = Plain("error")
    BY <2>3, PlainOutcome DEF Statuses, Success
  <2>4. CASE o = Result("created", None, stored, 1)
    BY <2>2, <2>4, BareOutcome DEF Success
  <2>5. CASE o \in {Result("created", Spelled(f, "manifest", m.name), stored, 1) :
                       f \in ManifestForms}
    BY <2>1, <2>2, <2>5, LocatedOutcome DEF Success
  <2>6. CASE o = Result("accepted", None, Deleted(m), 1)
    BY <2>2, <2>6, BareOutcome DEF Success
  <2>7. CASE m.method \notin {"PUT", "DELETE"} /\ o = Plain("ok")
    BY <2>1, <2>7, PlainOutcome DEF Statuses, Success, Writes, Bodied
  <2> QED
    BY <1>3, <2>1, <2>3, <2>4, <2>5, <2>6, <2>7 DEF Manifest, stored
<1>4. ASSUME m.kind = "blob", o \in Blob(m)
      PROVE  GoodOutcome(m, o)
  <2>1. m.method \in {"GET", "HEAD", "DELETE"}
    BY <1>4, AdmittedMethod DEF Admits, Allowed
  <2>2. CASE o = Plain("not_found")
    BY <2>2, PlainOutcome DEF Statuses, Success
  <2>3. CASE o = Result("accepted", None, [registry EXCEPT !.blobs = @ \ {m.name}], 1)
    BY <2>3, BareOutcome DEF Success
  <2>4. CASE m.method # "DELETE" /\ o = Plain("ok")
    BY <2>1, <2>4, PlainOutcome DEF Statuses, Success, Writes, Bodied
  <2> QED
    BY <1>4, <2>2, <2>3, <2>4 DEF Blob
<1>5. ASSUME m.kind = "start", o \in Begin(m)
      PROVE  GoodOutcome(m, o)
  <2>1. CASE m.digest \in registry.blobs /\ o \in Located("created", "blob", m.digest, registry)
    <3>1. m.digest \in Digests
      BY <2>1 DEF RegistryStates
    <3> QED
      BY <2>1, <3>1, LocatedOutcome DEF Located, Success
  <2>2. CASE o \in Opened
    <3>1. PICK s \in Sessions : o \in Located("accepted", "upload", s, NewSession(s))
      BY <2>2 DEF Opened
    <3> QED
      BY <3>1, LocatedOutcome DEF Located, Success
  <2> QED
    BY <1>5, <2>1, <2>2 DEF Begin
<1> QED
  BY <1>1, <1>2, <1>3, <1>4, <1>5 DEF Outcomes

(***************************************************************************)
(* Admission.                                                              *)
(***************************************************************************)

\* A request that is not refused has one length, within the limit.
LEMMA AdmittedHasOneLength ==
    ASSUME NEW method, NEW h \in Heads, DistributionRefusal(method, h) = "none"
    PROVE  /\ ~h.chunked
           /\ \A i, j \in DOMAIN h.lengths : h.lengths[i].value = h.lengths[j].value
           /\ Body(h) <= IF method \in Bodied THEN MaxBody ELSE 0
<1> DEFINE bad == {i \in DOMAIN h.lengths :
                   ~Parses(h.lengths[i]) \/ h.lengths[i].value # h.lengths[1].value}
<1>1. HeaderRefusal(method, h) = "none" /\ ~((method \in Bodied) /\ Body(h) > MaxBody)
  BY DEF DistributionRefusal
<1>2. LengthRefusal(method, h.lengths) = "none" /\ ~h.chunked
  BY <1>1 DEF HeaderRefusal
<1>3. bad = {}
  BY <1>2 DEF LengthRefusal
<1>4. \A i \in DOMAIN h.lengths : h.lengths[i].value = h.lengths[1].value
  BY <1>3
<1>5. h.lengths = <<>> \/ h.lengths[1].value \in Nat
  <2>1. h.lengths \in Seq(Lengths)
    BY DEF Heads
  <2>2. h.lengths = <<>> \/ h.lengths[1] \in Lengths
    BY <2>1
  <2> QED
    BY <2>2 DEF Lengths
<1>6. Body(h) <= IF (method \in Bodied) THEN MaxBody ELSE 0
  <2>1. CASE h.lengths = <<>>
    BY <2>1, LimitsAssumption DEF Body
  <2>2. CASE h.lengths # <<>> /\ (method \in Bodied)
    BY <1>1, <1>5, <2>2, LimitsAssumption DEF Body
  <2>3. CASE h.lengths # <<>> /\ ~(method \in Bodied)
    <3>1. h.lengths[1].value = 0
      BY <1>2, <1>3, <2>3 DEF LengthRefusal
    <3> QED
      BY <2>3, <3>1 DEF Body
  <2> QED
    BY <2>1, <2>2, <2>3
<1> QED
  BY <1>2, <1>4, <1>6

(***************************************************************************)
(* The inductive invariant.                                                *)
(***************************************************************************)

\* What the gateway knows while it waits: only admitted requests are on their
\* way, one that was not served had no effect, and an answer at hand is true.
Waiting ==
    \A q \in Slots :
       /\ effects[q] \in {0, 1}
       /\ upstream[q] \in {"none", "sent", "lost"} => effects[q] = 0
       /\ upstream[q] # "none" => Admits(req[q])
       /\ pc[q] = "idle" => upstream[q] = "none"
       /\ pc[q] # "answered" => answer[q] = NoReply
       /\ pc[q] = "waiting" /\ upstream[q] = "served"
            => /\ reply[q].status \in Statuses
               /\ reply[q].status \notin Success => effects[q] = 0
               /\ reply[q].status \in Success /\ Writes(req[q]) => effects[q] = 1

IInv == TypeOK /\ Waiting /\ AnswersAreTrue /\ LocationsLeadBack

\* A Location that is passed on leads back through the gateway.
LeadsBack(l) ==
    /\ l.origin = "none"
    /\ \/ /\ l.kind = "upload"
          /\ \A w \in {"PATCH", "PUT", "DELETE"} : QueryAccepted(w, "upload", l.query)
       \/ l.kind = "blob" /\ QueryAccepted("GET", "blob", l.query)
    /\ \/ Routed(l.repo, l.kind, l.name)
       \/ l.repo = "own" /\ l.kind = "upload" /\ l.name \notin ShortIds

LEMMA RewrittenLeadsBack ==
    ASSUME NEW l \in Locations, Rewritable(l)
    PROVE  Rewritten(l) \in Locations /\ LeadsBack(Rewritten(l))
<1>1. /\ Rewritten(l) \in Locations
      /\ Rewritten(l).origin = "none" /\ Rewritten(l).repo = "own"
      /\ Rewritten(l).kind = l.kind /\ Rewritten(l).query = l.query
      /\ Rewritten(l).name = l.name
  BY DEF Rewritten, Rewritable, Locations
<1>2. CASE l.kind = "blob" /\ l.query = <<>>
  BY <1>1, <1>2 DEF LeadsBack, QueryAccepted, Routed
<1>3. CASE l.kind = "upload" /\ l.name \in SafeIds /\ SessionQuery(l.query)
  <2>1. \A w \in {"PATCH", "PUT", "DELETE"} : QueryAccepted(w, "upload", l.query)
    BY <1>3 DEF SessionQuery, QueryAccepted, OnlyOnce
  <2> QED
    BY <1>1, <1>3, <2>1 DEF LeadsBack, Routed
<1> QED
  BY <1>1, <1>2, <1>3 DEF Rewritable

\* The gateway's answer to a reply says success only for a success, and refuses
\* only for a failure.
LEMMA AnswerIsFaithful ==
    ASSUME NEW r \in Replies, r.status \in Statuses
    PROVE  /\ Answer(r) \in Answers
           /\ Answer(r).status \in Success => r.status \in Success
           /\ Answer(r).status \in Refused => r.status \notin Success
           /\ Answer(r).location # None => LeadsBack(Answer(r).location)
<1>1. CASE r.status \notin Success
  BY <1>1 DEF Answer, Say, Retold, Answers, Statuses, Success, Refused, Unknown
<1>2. CASE r.status \in Success /\ r.location = None
  BY <1>2 DEF Answer, Say, Answers, Success, Refused
<1>3. CASE r.status \in Success /\ r.location # None /\ Rewritable(r.location)
  <2>1. r.location \in Locations
    BY <1>3 DEF Replies
  <2> QED
    BY <1>3, <2>1, RewrittenLeadsBack DEF Answer, Answers, Success, Refused
<1>4. CASE r.status \in Success /\ r.location # None /\ ~Rewritable(r.location)
  BY <1>4 DEF Answer, Say, Malformed, Answers, Success, Refused, Unknown
<1> QED
  BY <1>1, <1>2, <1>3, <1>4

LEMMA InitHolds == Init => IInv
<1> SUFFICES ASSUME Init PROVE IInv
  OBVIOUS
<1> USE DEF Init, NoReply
<1>1. TypeOK
  BY RegistryAssumption, MaxAssumption DEF TypeOK, Answers, Replies
<1>2. Waiting
  BY DEF Waiting
<1>3. AnswersAreTrue /\ LocationsLeadBack
  BY DEF AnswersAreTrue, LocationsLeadBack
<1> QED
  BY <1>1, <1>2, <1>3 DEF IInv

LEMMA ReceiveKeeps ==
    ASSUME IInv, NEW q \in Slots, NEW m \in Inputs, Receive(q, m)
    PROVE  IInv'
<1> DEFINE local == m.kind = "version" \/ Refusal(m) # "none"
<1> USE DEF IInv, Receive, Say, NoReply
<1>1. Refusal(m) \in Refused \cup {"none"}
  BY DEF Refusal, Refused, InboundStatus
<1>2. ~local => Admits(m)
  BY DEF Admits
<1>3. TypeOK'
  BY <1>1, MaxAssumption DEF TypeOK, Answers, Success
<1>4. Waiting'
  BY <1>2 DEF Waiting, TypeOK
<1>5. AnswersAreTrue'
  BY <1>1 DEF AnswersAreTrue, TypeOK, Success, Refused, Writes
<1>6. LocationsLeadBack'
  BY DEF LocationsLeadBack, TypeOK
<1> QED
  BY <1>3, <1>4, <1>5, <1>6

LEMMA ServeKeeps ==
    ASSUME IInv, NEW q \in Slots, Serve(q)
    PROVE  IInv'
<1> USE DEF IInv
<1>1. PICK o \in Outcomes(req[q]) :
         /\ registry' = o.after
         /\ effects' = [effects EXCEPT ![q] = @ + o.effect]
         /\ reply' = IF pc[q] = "waiting"
                     THEN [reply EXCEPT ![q] = [status |-> o.status, location |-> o.location]]
                     ELSE reply
  BY DEF Serve
<1>2. /\ upstream[q] = "sent" /\ upstream' = [upstream EXCEPT ![q] = "served"]
      /\ UNCHANGED <<pc, req, answer, received>>
  BY DEF Serve
<1>3. GoodOutcome(req[q], o)
  BY <1>2, OutcomesAreGood DEF Waiting, TypeOK
<1>4. effects[q] = 0 /\ effects'[q] = o.effect /\ o.effect \in {0, 1}
  BY <1>1, <1>2, <1>3 DEF Waiting, TypeOK, GoodOutcome
<1>5. TypeOK'
  BY <1>1, <1>2, <1>3, <1>4 DEF TypeOK, GoodOutcome, Replies
<1>6. Waiting'
  BY <1>1, <1>2, <1>3, <1>4 DEF Waiting, TypeOK, GoodOutcome
<1>7. AnswersAreTrue'
  BY <1>1, <1>2, <1>4 DEF AnswersAreTrue, TypeOK
<1>8. LocationsLeadBack'
  BY <1>2 DEF LocationsLeadBack
<1> QED
  BY <1>5, <1>6, <1>7, <1>8

LEMMA LoseKeeps ==
    ASSUME IInv, NEW q \in Slots, Lose(q)
    PROVE  IInv'
<1> USE DEF IInv, Lose
<1>1. TypeOK'
  BY DEF TypeOK
<1>2. Waiting'
  BY DEF Waiting, TypeOK
<1>3. AnswersAreTrue' /\ LocationsLeadBack'
  BY DEF AnswersAreTrue, LocationsLeadBack, TypeOK
<1> QED
  BY <1>1, <1>2, <1>3

LEMMA DeliverKeeps ==
    ASSUME IInv, NEW q \in Slots, Deliver(q)
    PROVE  IInv'
<1> USE DEF IInv, Deliver
<1>1. reply[q] \in Replies /\ reply[q].status \in Statuses
  BY DEF TypeOK, Waiting
<1>2. TypeOK'
  BY <1>1, AnswerIsFaithful DEF TypeOK, NoReply, Replies
<1>3. Waiting'
  BY DEF Waiting, TypeOK
<1>4. AnswersAreTrue'
  BY <1>1, AnswerIsFaithful DEF AnswersAreTrue, TypeOK, Waiting
<1>5. LocationsLeadBack'
  BY <1>1, AnswerIsFaithful DEF LocationsLeadBack, LeadsBack, TypeOK
<1> QED
  BY <1>2, <1>3, <1>4, <1>5

LEMMA GiveUpKeeps ==
    ASSUME IInv, NEW q \in Slots, GiveUp(q)
    PROVE  IInv'
<1> USE DEF IInv
<1>1. PICK s \in {"timeout", "bad_gateway"} : answer' = [answer EXCEPT ![q] = Say(s)]
  BY DEF GiveUp
<1>2. s \in Unknown /\ s \notin Success /\ s \notin Refused
  BY DEF Unknown, Success, Refused
<1> USE DEF GiveUp, Say
<1>3. TypeOK'
  BY <1>1, <1>2 DEF TypeOK, Answers, NoReply, Replies
<1>4. Waiting'
  BY <1>1 DEF Waiting, TypeOK
<1>5. AnswersAreTrue' /\ LocationsLeadBack'
  BY <1>1, <1>2 DEF AnswersAreTrue, LocationsLeadBack, TypeOK
<1> QED
  BY <1>3, <1>4, <1>5

LEMMA LeaveKeeps ==
    ASSUME IInv, NEW q \in Slots, Leave(q)
    PROVE  IInv'
<1> USE DEF IInv, Leave
<1>1. TypeOK'
  BY DEF TypeOK, NoReply, Replies
<1>2. Waiting'
  BY DEF Waiting, TypeOK
<1>3. AnswersAreTrue' /\ LocationsLeadBack'
  BY DEF AnswersAreTrue, LocationsLeadBack, TypeOK, Waiting, NoReply, Success, Refused
<1> QED
  BY <1>1, <1>2, <1>3

\* Every step of the gateway keeps the invariant.
LEMMA NextKeeps == IInv /\ [Next]_vars => IInv'
<1> SUFFICES ASSUME IInv, [Next]_vars PROVE IInv'
  OBVIOUS
<1>1. CASE UNCHANGED vars
  BY <1>1 DEF IInv, vars, TypeOK, Waiting, AnswersAreTrue, LocationsLeadBack
<1>2. CASE Next
  BY <1>2, ReceiveKeeps, ServeKeeps, LoseKeeps, DeliverKeeps, GiveUpKeeps, LeaveKeeps
     DEF Next
<1> QED
  BY <1>1, <1>2

LEMMA Inductive == Spec => []IInv
  BY InitHolds, NextKeeps, PTL DEF Spec

(***************************************************************************)
(* The theorems.                                                           *)
(***************************************************************************)

\* The state of the gateway and of the registry behind it keeps its type: in
\* particular whatever admitted requests do to the registry, it stays one.
THEOREM GatewayTypeCorrect == Spec => []TypeOK
  BY Inductive, PTL DEF IInv

\* However many requests race, are given up, or are carried out after their
\* client was told of a timeout, a success was carried out once and a refusal
\* never (forward_distribution, map_oci_error).
THEOREM AnswersTold == Spec => []AnswersAreTrue
  BY Inductive, PTL DEF IInv

\* Whatever lengths a request declares, and in however many fields, one that is
\* forwarded has a single length, and none above the limit (inbound.rs
\* validate_content_length, validate_distribution_request).
THEOREM ForwardedAreBounded == Spec => []ForwardedHaveOneLength
<1>1. IInv => ForwardedHaveOneLength
  <2> SUFFICES ASSUME IInv, NEW q \in Slots, upstream[q] # "none"
               PROVE  LET h == req[q].head IN
                      /\ ~h.chunked
                      /\ \A i, j \in DOMAIN h.lengths : h.lengths[i].value = h.lengths[j].value
                      /\ Body(h) <= IF req[q].method \in Bodied THEN MaxBody ELSE 0
    BY DEF ForwardedHaveOneLength
  <2>1. Admits(req[q])
    BY DEF IInv, Waiting
  <2>2. req[q].head \in Heads
    BY <2>1, InputsAssumption DEF Admits, Requests
  <2>3. DistributionRefusal(req[q].method, req[q].head) = "none"
    BY <2>1 DEF Admits, Refusal, InboundStatus
  <2> QED
    BY <2>2, <2>3, AdmittedHasOneLength
<1> QED
  BY <1>1, Inductive, PTL

\* However the registry spells its Locations, one in an answer is a request the
\* gateway takes (rewrite_distribution_location against parse_path and
\* valid_distribution_query), but for ids that are too long.
THEOREM LocationsUsable == Spec => []LocationsLeadBack
  BY Inductive, PTL DEF IInv

(***************************************************************************)
(* Publications of manifests: what the finding of gateway_manifest_location *)
(* hangs on.                                                               *)
(***************************************************************************)

\* The registry's answer to a manifest request has a Location only if the
\* registry sends one with manifests, and then it is a manifest's.
ManifestReplies ==
    \A q \in Slots :
       pc[q] = "waiting" /\ upstream[q] = "served" /\ req[q].kind = "manifest" =>
          \/ reply[q].location = None
          \/ ManifestForms # {} /\ reply[q].location.kind = "manifest"

LEMMA ManifestOutcomes ==
    ASSUME NEW m, m.kind = "manifest", NEW o \in Outcomes(m)
    PROVE  o.location = None \/ (ManifestForms # {} /\ o.location.kind = "manifest")
<1>1. CASE o \in {Plain(s) : s \in Statuses \ Success}
  BY <1>1 DEF Plain, Result
<1>2. CASE o \in Manifest(m)
  BY <1>2 DEF Manifest, Plain, Result, Spelled
<1> QED
  BY <1>1, <1>2 DEF Outcomes

LEMMA ManifestRepliesNext ==
    ASSUME IInv, ManifestReplies, [Next]_vars
    PROVE  ManifestReplies'
<1> USE DEF IInv, TypeOK, ManifestReplies
<1>1. CASE UNCHANGED vars
  BY <1>1 DEF vars
<1>2. ASSUME NEW q \in Slots, NEW m \in Inputs, Receive(q, m)
      PROVE  ManifestReplies'
  BY <1>2 DEF Receive
<1>3. ASSUME NEW q \in Slots, Serve(q)
      PROVE  ManifestReplies'
  <2>1. PICK o \in Outcomes(req[q]) :
           reply' = IF pc[q] = "waiting"
                    THEN [reply EXCEPT ![q] = [status |-> o.status, location |-> o.location]]
                    ELSE reply
    BY <1>3 DEF Serve
  <2>2. UNCHANGED <<pc, req>> /\ upstream' = [upstream EXCEPT ![q] = "served"]
    BY <1>3 DEF Serve
  <2>3. pc[q] = "waiting" => reply'[q].location = o.location
    BY <2>1
  <2>4. \A d \in Slots \ {q} : reply'[d] = reply[d] /\ upstream'[d] = upstream[d]
    BY <2>1, <2>2
  <2> QED
    BY <2>2, <2>3, <2>4, ManifestOutcomes
<1>4. ASSUME NEW q \in Slots, Lose(q) \/ Deliver(q) \/ GiveUp(q) \/ Leave(q)
      PROVE  ManifestReplies'
  BY <1>4 DEF Lose, Deliver, GiveUp, Leave
<1> QED
  BY <1>1, <1>2, <1>3, <1>4 DEF Next

LEMMA ManifestRepliesHold == Spec => [](IInv /\ ManifestReplies)
<1>1. Init => ManifestReplies
  BY DEF Init, ManifestReplies
<1> QED
  BY <1>1, InitHolds, NextKeeps, ManifestRepliesNext, PTL DEF Spec

\* What the client is told of a manifest the registry has stored depends on one
\* thing: whether the registry sent a Location with its acceptance.
LocationDecides ==
    \A q \in Slots :
       Deliver(q) /\ req[q].kind = "manifest" /\ reply[q].status = "created"
          => answer'[q].status = IF reply[q].location = None THEN "created" ELSE Malformed

\* A stored manifest is reported as a bad gateway exactly when the registry's
\* acceptance had a Location, and in no other case, whatever else races with the
\* request (rewrite_distribution_location takes uploads and blobs only).
THEOREM ManifestLocationDecides == Spec => [][LocationDecides]_vars
<1>1. ASSUME IInv, ManifestReplies, NEW q \in Slots, Deliver(q),
             req[q].kind = "manifest", reply[q].status = "created"
      PROVE  answer'[q].status = IF reply[q].location = None THEN "created" ELSE Malformed
  <2>1. answer'[q] = Answer(reply[q])
    BY <1>1 DEF Deliver, IInv, TypeOK
  <2>2. reply[q].location # None => ~Rewritable(reply[q].location)
    BY <1>1 DEF ManifestReplies, Deliver, Rewritable
  <2> QED
    BY <1>1, <2>1, <2>2 DEF Answer, Say, Success
<1>2. IInv /\ ManifestReplies => LocationDecides
  BY <1>1 DEF LocationDecides
<1> QED
  BY <1>2, ManifestRepliesHold, PTL

\* With a registry that sends no Location with manifests, as the distribution
\* specification asks only for the others, every publication whose acceptance
\* arrives is acknowledged.
THEOREM PublicationsAreAcknowledged ==
    ASSUME ManifestForms = {}
    PROVE  Spec => PublicationIsAcknowledged
<1>1. ASSUME IInv, ManifestReplies, NEW q \in Slots, Deliver(q),
             req[q].kind = "manifest", reply[q].status = "created"
      PROVE  answer'[q].status = "created"
  <2>1. answer'[q] = Answer(reply[q])
    BY <1>1 DEF Deliver, IInv, TypeOK
  <2>2. reply[q].location = None
    BY <1>1 DEF ManifestReplies, Deliver
  <2> QED
    BY <1>1, <2>1, <2>2 DEF Answer, Say, Success
<1> DEFINE Told == \A q \in Slots :
                      Deliver(q) /\ req[q].kind = "manifest" /\ reply[q].status = "created"
                         => answer'[q].status = "created"
<1>2. IInv /\ ManifestReplies => Told
  BY <1>1
<1>3. Spec => [][Told]_vars
  <2> HIDE DEF Told
  <2> QED
    BY <1>2, ManifestRepliesHold, PTL
<1> QED
  BY <1>3 DEF PublicationIsAcknowledged
=============================================================================
