---------------------------- MODULE AutoindexBrowse ----------------------------
(***************************************************************************)
(* What a client of the autoindex finds: somebody types a path, and a      *)
(* crawler (a mirror, a package client, `wget -r`) goes on from the answer *)
(* and follows every link it is given.  Each request is answered from the  *)
(* artifact of its moment; how the manifest and the blob are fetched is    *)
(* AutoindexService's matter.                                              *)
(***************************************************************************)
EXTENDS NativePublisher, InboundAdmission

CONSTANTS Directories,   \* source directories the publisher may be given
          Pushes,        \* manifests other clients may push
          Typed          \* requests a person may send

VARIABLES artifact,   \* the manifest autoindex.v1 names, or None
          source,     \* the directory it was published from, None if pushed
          answer,     \* the answer to the request the crawl began with
          todo, seen, \* targets the crawler has yet to ask for, and has asked for
          got,        \* the files it has found
          dead        \* the targets that were neither file nor listing

artifactVars == <<artifact, source>>
crawlVars    == <<answer, todo, seen, got, dead>>
vars         == <<artifactVars, crawlVars>>

Targets == {t \in Paths : Len(t) >= 2 /\ t[1] = Nil}

Requests == [method : Methods \cup {"OPTIONS"}, target : Targets, head : Heads, auths : 0..2]

ASSUME BrowseAssumption ==
    /\ \A D \in Directories :
          /\ D \subseteq Paths /\ IsFiniteSet(D)
          /\ \A p \in D : p # <<>> /\ ~IsDirectory(p)
          /\ \A p, q \in D : p = q \/ ~Collide(p, q)   \* a name is a file's or a directory's
    /\ Pushes \subseteq Manifests
    /\ \A m \in Pushes : \A i \in DOMAIN m.layers : m.layers[i].title # <<>>
    /\ Typed \subseteq Requests

(***************************************************************************)
(* Answers.                                                                *)
(***************************************************************************)

Statuses == {"none", "health", "distribution", "file", "listing", "redirect", "malformed"}
              \cup {"not_found", "method", "target_too_long", "headers_too_large",
                    "expectation", "bad_request"}

Say(status)        == [status |-> status, file |-> None, links |-> {}]
SayFile(p)         == [status |-> "file", file |-> p, links |-> {}]
SayListing(S)      == [status |-> "listing", file |-> None, links |-> S]
SayRedirect(t)     == [status |-> "redirect", file |-> None, links |-> {t}]

\* The bytes of a target: the slash it begins with, and the rest.
TargetBytes(t) == Bytes(Tail(t)) + 1

\* Seeded fault: the redirect repeats the path.
CandidateBare(p) == p

\* The candidate of a redirect: the path, with a slash.
Candidate(p) == AsDirectory(p)

\* handle_autoindex, once the index is there.
Found(T, p) ==
    IF Object(T, p) THEN SayFile(p)
    ELSE IF p = Root \/ IsDirectory(p) THEN SayListing(Links(T, p))
    ELSE IF HasDirectory(T, AsDirectory(p)) THEN SayRedirect(Href(Candidate(p)))
    ELSE Say("not_found")

\* handle_autoindex.
Browse(m, r) ==
    LET refusal == AutoindexRefusal(r.method, [r.head EXCEPT !.target = TargetBytes(r.target)])
        path    == ParseRequest(r.target)
    IN  IF refusal # "none"     THEN Say(InboundStatus(refusal))
        ELSE IF path = Refused THEN Say("not_found")
        ELSE IF r.auths > 1    THEN Say("bad_request")
        ELSE IF m = None       THEN Say("not_found")
        ELSE IF ~Projects(m)   THEN Say("malformed")
        ELSE Found(Titles(m), path)

Health == {Href(<<"healthz">>), Href(<<"readyz">>)}

Distribution(t) == Len(t) >= 3 /\ t[2] = "v2"

\* dispatch (server.rs), then handle_gateway.
Answer(m, r) ==
    IF r.method \in {"GET", "HEAD"} /\ r.target \in Health THEN Say("health")
    ELSE IF Distribution(r.target) THEN Say("distribution")
    ELSE Browse(m, r)

Plainly == [origin |-> TRUE, target |-> 0, headers |-> 0, bytes |-> 0, control |-> FALSE,
            lengths |-> <<>>, chunked |-> FALSE, expects |-> FALSE, upgrade |-> FALSE]

Get(t) == Answer(artifact, [method |-> "GET", target |-> t, head |-> Plainly, auths |-> 0])

(***************************************************************************)
(* Steps.                                                                  *)
(***************************************************************************)

Init ==
    /\ artifact = None /\ source = None
    /\ answer = Say("none") /\ todo = {} /\ seen = {} /\ got = {} /\ dead = {}

\* A crawl of two artifacts has nothing to rely on, and is left.
Change(m, D) ==
    /\ artifact' = m /\ source' = D
    /\ answer' = Say("none") /\ todo' = {} /\ seen' = {} /\ got' = {} /\ dead' = {}

\* A directory is published (autoindex-publish, a CRUD command).
Publish(D) == Publishable(D) /\ Change(Published(D), D)

\* Another client pushes a manifest of its own.
Push(m) == Change(m, None)

\* Somebody types a path, and the crawler begins with the answer.
Begin(r) ==
    LET page == Answer(artifact, r) IN
    /\ todo = {}
    /\ answer' = page
    /\ todo' = page.links /\ seen' = {} /\ got' = {} /\ dead' = {}
    /\ UNCHANGED artifactVars

\* It asks for a target; a redirect is followed like a link.
Visit(t) ==
    LET page == Get(t) IN
    /\ t \in todo
    /\ seen' = seen \cup {t}
    /\ todo' = (todo \cup page.links) \ seen'
    /\ got' = got \cup (IF page.status = "file" THEN {page.file} ELSE {})
    /\ dead' = dead \cup (IF page.status \in {"file", "listing"} THEN {} ELSE {t})
    /\ UNCHANGED <<artifactVars, answer>>

Next ==
    \/ \E D \in Directories : Publish(D)
    \/ \E m \in Pushes : Push(m)
    \/ \E r \in Typed : Begin(r)
    \/ \E t \in todo : Visit(t)

Spec == Init /\ [][Next]_vars

TypeOK ==
    /\ artifact \in Manifests \cup {None}
    /\ source \in Directories \cup {None}
    /\ answer.status \in Statuses
    /\ answer.file \in Paths \cup {None}
    /\ answer.links \subseteq Targets
    /\ todo \subseteq Targets /\ seen \subseteq Targets /\ dead \subseteq Targets
    /\ got \subseteq Paths

(***************************************************************************)
(* Properties.                                                             *)
(***************************************************************************)

\* Targets that the autoindex never sees, or that are longer than it is told to
\* accept (no document reserves a path).
Reserved(t) == t \in Health \/ Distribution(t)
TooLong(t)  == TargetBytes(t) > MaxTarget

\* Whatever the titles of an artifact are, a listing holds no dead link: each leads
\* to a file or to another listing, and so does every redirect.
NoDeadLinks ==
    \A t \in dead : Reserved(t) \/ TooLong(t)

\* The crawl is over, and it began with a listing or a redirect.
Crawled ==
    /\ todo = {}
    /\ answer.status \in {"listing", "redirect"}

\* And it hides nothing: wherever a crawl began, it has found every visible file
\* when it is over, and no other; unless a redirect took it out of the autoindex.
CrawlFindsEverything ==
    Crawled =>
       \/ \E t \in answer.links : answer.status = "redirect" /\ (Reserved(t) \/ TooLong(t))
       \/ /\ got \subseteq Titles(artifact)
          /\ \A p \in Titles(artifact) \ got : Reserved(Href(p)) \/ TooLong(Href(p))

\* A redirect leads to a listing with entries of its own, and never to another
\* redirect.
RedirectsLand ==
    answer.status = "redirect" =>
       \A t \in answer.links :
          \/ Reserved(t) \/ TooLong(t)
          \/ /\ Get(t).status = "listing"
             /\ Get(t).links # {Href(Parent(Tail(t)))}

\* What the publisher wrote, the next command can load and change, and it
\* projects to the files it was made from; unless its manifest is longer than
\* the client is ready to read.
PublishedIsLoadable ==
    source # None =>
       \/ ~(ManifestBytes(artifact) <= MaxManifest)
       \/ /\ CrudCompatible(artifact) /\ Projects(artifact)
          /\ Titles(artifact) = source
=============================================================================
