----------------------------- MODULE TokenBroker ----------------------------
(***************************************************************************)
(* Upstream reads of the gateway and its bearer-token cache                *)
(* (oci.rs request_response_method and exchange_token, auth.rs TokenCache).*)
(*                                                                         *)
(* Requests run concurrently.  The cache has a lock, but a request holds it*)
(* only for a lookup, a removal or an insertion: between them it waits for *)
(* the registry or the token service, and other requests, the clock and the*)
(* registry's mind move on.                                                *)
(***************************************************************************)
EXTENDS BearerChallenge, FiniteSets

CONSTANTS Requests,       \* requests that may be in progress at once
          Repos,          \* repository names; numbers, for the order of keys
          Lifetimes,      \* expires_in values the service sends; 0: none sent
          DefaultLife,    \* lifetime of a token sent without one (60 s)
          MaxLife,        \* CACHE_TTL (15 min)
          Skew,           \* EXPIRY_SKEW (30 s)
          Capacity,       \* CACHE_CAPACITY (16)
          Timeout,        \* request_timeout
          Challenges,     \* what the registry may send along with a 401
          MaxReads,       \* bound: requests begun
          MaxTokens,      \* bound: tokens issued
          MaxTime         \* bound: the clock

ASSUME ReposAssumption == Repos \subseteq Nat /\ Repos # {}
ASSUME TimesAssumption ==
    /\ Lifetimes \subseteq Nat
    /\ DefaultLife \in Nat \ {0} /\ MaxLife \in Nat /\ Skew \in Nat
    /\ Timeout \in Nat \ {0}
ASSUME SizesAssumption ==
    /\ Capacity \in Nat \ {0}
    /\ MaxReads \in Nat /\ MaxTokens \in Nat /\ MaxTime \in Nat

\* An Authorization value: none, the caller's own, or the n-th issued token.
NoToken     == 0
CallerToken == -1
TokenIds    == 1..MaxTokens
Headers     == TokenIds \cup {NoToken, CallerToken}

VARIABLES now,        \* the clock
          cache,      \* TokenCache: repository -> entry, or Vacant
          issued,     \* token service: the tokens issued so far
          revoked,    \* tokens the registry has stopped accepting early
          accepted,   \* tokens the registry has served a request with
          pc,         \* per request: where request_response_method is
          repo,       \* per request: the repository it reads
          caller,     \* per request: whether the client sent Authorization
          sent,       \* per request: the Authorization of its last send
          fresh,      \* per request: the token it got from the exchange
          since,      \* per request: when its current wait began
          refused,    \* per request: challenge or exchange came to nothing
          outcome,    \* per request: its result
          reads       \* requests begun

registryVars == <<issued, revoked, accepted>>
askedVars    == <<repo, caller, reads>>
vars == <<now, cache, issued, revoked, accepted, pc, repo, caller, sent, fresh,
          since, refused, outcome, reads>>

Vacant  == [token |-> NoToken, expires |-> 0]
Entries == [token : TokenIds, expires : Nat] \cup {Vacant}
Tokens  == [repo : Repos, life : Lifetimes, until : Nat]

Waiting == {"plain", "first", "exchange", "issued", "body", "retry"}
Local   == {"lookup", "rejected", "accepted"}

TypeOK ==
    /\ now \in Nat
    /\ cache \in [Repos -> Entries]
    /\ issued \in Seq(Tokens) /\ Len(issued) <= MaxTokens
    /\ revoked \subseteq TokenIds
    /\ accepted \subseteq TokenIds
    /\ pc \in [Requests -> Waiting \cup Local \cup {"idle", "done"}]
    /\ repo \in [Requests -> Repos]
    /\ caller \in [Requests -> BOOLEAN]
    /\ sent \in [Requests -> Headers]
    /\ fresh \in [Requests -> TokenIds \cup {NoToken}]
    /\ since \in [Requests -> Nat]
    /\ refused \in [Requests -> BOOLEAN]
    /\ outcome \in [Requests -> {"none", "served", "unauthorized", "error"}]
    /\ reads \in 0..MaxReads

Init ==
    /\ now = 0
    /\ cache = [r \in Repos |-> Vacant]
    /\ issued = <<>>
    /\ revoked = {} /\ accepted = {}
    /\ pc = [q \in Requests |-> "idle"]
    /\ repo = [q \in Requests |-> CHOOSE r \in Repos : TRUE]
    /\ caller = [q \in Requests |-> FALSE]
    /\ sent = [q \in Requests |-> NoToken]
    /\ fresh = [q \in Requests |-> NoToken]
    /\ since = [q \in Requests |-> 0]
    /\ refused = [q \in Requests |-> FALSE]
    /\ outcome = [q \in Requests |-> "none"]
    /\ reads = 0

(***************************************************************************)
(* TokenCache.                                                             *)
(***************************************************************************)

Least(S) == CHOOSE r \in S : \A s \in S : r <= s

Cached(c) == {r \in Repos : c[r] # Vacant}

\* get discards what has expired before it looks.
Discarded(c) ==
    [r \in Repos |-> IF c[r] # Vacant /\ c[r].expires <= now THEN Vacant ELSE c[r]]

Removed(c, r) == [c EXCEPT ![r] = Vacant]

\* The lifetime insert reckons with: what the service said, or the default,
\* but no more than MaxLife.
Lifetime(life) ==
    LET said == IF life = 0 THEN DefaultLife ELSE life
    IN  IF said < MaxLife THEN said ELSE MaxLife

\* Seeded fault: off by one.
RoomyForOneMore(c, r) ==
    IF Cardinality(Cached(c)) > Capacity /\ r \notin Cached(c)
    THEN Removed(c, Least(Cached(c))) ELSE c

\* At capacity, a new repository displaces the first in key order.
Roomy(c, r) ==
    IF Cardinality(Cached(c)) >= Capacity /\ r \notin Cached(c)
    THEN Removed(c, Least(Cached(c))) ELSE c

\* Seeded faults: the subtraction of the skew is unchecked; it is left out.
InsertedUnchecked(c, r, k, life) ==
    [Roomy(c, r) EXCEPT ![r] = [token |-> k, expires |-> now + Lifetime(life) - Skew]]

InsertedUnskewed(c, r, k, life) ==
    IF Lifetime(life) < Skew THEN c
    ELSE [Roomy(c, r) EXCEPT ![r] = [token |-> k, expires |-> now + Lifetime(life)]]

\* The expiry is counted from the insertion.  A lifetime below the skew is not
\* stored, and leaves an older entry where it is.
Inserted(c, r, k, life) ==
    IF Lifetime(life) < Skew THEN c
    ELSE [Roomy(c, r) EXCEPT ![r] = [token |-> k, expires |-> now + Lifetime(life) - Skew]]

(***************************************************************************)
(* The registry and the token service.                                     *)
(***************************************************************************)

Until(k) == issued[k].until

Valid(k, r) ==
    k \in 1..Len(issued) /\ k \notin revoked /\ now < Until(k) /\ issued[k].repo = r

\* A request without a token, or with the caller's, is answered either way.
MayServe(q)   == sent[q] \in TokenIds => Valid(sent[q], repo[q])
MayReject(q)  == sent[q] \in TokenIds => ~Valid(sent[q], repo[q])

(***************************************************************************)
(* One upstream read.                                                      *)
(***************************************************************************)

Goto(q, p) ==
    /\ pc' = [pc EXCEPT ![q] = p]
    /\ since' = [since EXCEPT ![q] = IF p \in Waiting THEN now ELSE 0]

End(q, result) ==
    /\ pc' = [pc EXCEPT ![q] = "done"]
    /\ outcome' = [outcome EXCEPT ![q] = result]
    /\ since' = [since EXCEPT ![q] = 0]
    /\ sent' = [sent EXCEPT ![q] = NoToken]

\* Seeded fault: the cache is consulted whatever the caller sent.
BeginBrokered(q, r, own) ==
    /\ pc[q] \in {"idle", "done"}
    /\ reads < MaxReads
    /\ reads' = reads + 1
    /\ Goto(q, "lookup")
    /\ repo' = [repo EXCEPT ![q] = r]
    /\ caller' = [caller EXCEPT ![q] = own]
    /\ sent' = [sent EXCEPT ![q] = IF own THEN CallerToken ELSE NoToken]
    /\ fresh' = [fresh EXCEPT ![q] = NoToken]
    /\ refused' = [refused EXCEPT ![q] = FALSE]
    /\ outcome' = [outcome EXCEPT ![q] = "none"]
    /\ UNCHANGED <<now, cache, registryVars>>

Begin(q, r, own) ==
    /\ pc[q] \in {"idle", "done"}
    /\ reads < MaxReads
    /\ reads' = reads + 1
    /\ Goto(q, IF own THEN "plain" ELSE "lookup")
    /\ repo' = [repo EXCEPT ![q] = r]
    /\ caller' = [caller EXCEPT ![q] = own]
    /\ sent' = [sent EXCEPT ![q] = IF own THEN CallerToken ELSE NoToken]
    /\ fresh' = [fresh EXCEPT ![q] = NoToken]
    /\ refused' = [refused EXCEPT ![q] = FALSE]
    /\ outcome' = [outcome EXCEPT ![q] = "none"]
    /\ UNCHANGED <<now, cache, registryVars>>

\* The caller's credentials are sent as they are, once.
PlainAnswer(q) ==
    /\ pc[q] = "plain"
    /\ \E result \in {"served", "unauthorized", "error"} : End(q, result)
    /\ UNCHANGED <<now, cache, registryVars, askedVars, fresh, refused>>

Lookup(q) ==
    /\ pc[q] = "lookup"
    /\ cache' = Discarded(cache)
    /\ sent' = [sent EXCEPT ![q] = cache'[repo[q]].token]
    /\ Goto(q, "first")
    /\ UNCHANGED <<now, registryVars, askedVars, fresh, refused, outcome>>

FirstServed(q) ==
    /\ pc[q] = "first"
    /\ MayServe(q)
    /\ accepted' = accepted \cup ({sent[q]} \cap TokenIds)
    /\ End(q, "served")
    /\ UNCHANGED <<now, cache, issued, revoked, askedVars, fresh, refused>>

\* Seeded fault: a rejected cached token is final.
FirstRejectedFinally(q) ==
    /\ pc[q] = "first"
    /\ MayReject(q)
    /\ IF sent[q] = NoToken
       THEN Goto(q, "rejected") /\ UNCHANGED <<sent, outcome>>
       ELSE End(q, "unauthorized")
    /\ UNCHANGED <<now, cache, registryVars, askedVars, fresh, refused>>

FirstRejected(q) ==
    /\ pc[q] = "first"
    /\ MayReject(q)
    /\ Goto(q, "rejected")
    /\ UNCHANGED <<now, cache, registryVars, askedVars, sent, fresh, refused, outcome>>

\* What the broker may make of a 401.
Understood == {Challenge(fields) : fields \in Challenges}

\* A 401: the repository's entry goes, whichever token it holds by now.  Then
\* the challenge is read; without a usable one the 401 is the answer.
Drop(q) ==
    /\ pc[q] = "rejected"
    /\ cache' = IF sent[q] # NoToken THEN Removed(cache, repo[q]) ELSE cache
    /\ \/ /\ \E challenge \in Understood : challenge # NoChallenge
          /\ Goto(q, "exchange")
          /\ UNCHANGED <<sent, refused, outcome>>
       \/ /\ NoChallenge \in Understood
          /\ refused' = [refused EXCEPT ![q] = TRUE]
          /\ End(q, "unauthorized")
    /\ UNCHANGED <<now, registryVars, askedVars, fresh>>

\* The token service issues a token for the repository, at some time before the
\* headers of its answer arrive: the wait for them goes on.
Issue(q, life) ==
    /\ pc[q] = "exchange"
    /\ Len(issued) < MaxTokens
    /\ issued' = Append(issued, [repo  |-> repo[q],
                                 life  |-> life,
                                 until |-> now + IF life = 0 THEN DefaultLife ELSE life])
    /\ fresh' = [fresh EXCEPT ![q] = Len(issued) + 1]
    /\ pc' = [pc EXCEPT ![q] = "issued"]
    /\ UNCHANGED <<now, cache, revoked, accepted, askedVars, sent, since, refused, outcome>>

\* The headers are there; the body is waited for with a timeout of its own.
HeadersArrive(q) ==
    /\ pc[q] = "issued"
    /\ Goto(q, "body")
    /\ UNCHANGED <<now, cache, registryVars, askedVars, sent, fresh, refused, outcome>>

\* exchange_token returns nothing: refused, malformed or late.
ExchangeFails(q) ==
    /\ pc[q] \in {"exchange", "issued", "body"}
    /\ refused' = [refused EXCEPT ![q] = TRUE]
    /\ End(q, "unauthorized")
    /\ UNCHANGED <<now, cache, registryVars, askedVars, fresh>>

\* Seeded fault: the token is cached before the registry has accepted it.
RetryCached(q) ==
    /\ pc[q] = "body"
    /\ sent' = [sent EXCEPT ![q] = fresh[q]]
    /\ cache' = Inserted(cache, repo[q], fresh[q], issued[fresh[q]].life)
    /\ Goto(q, "retry")
    /\ UNCHANGED <<now, registryVars, askedVars, fresh, refused, outcome>>

\* exchange_token returns the token, and the request is sent once more with it.
Retry(q) ==
    /\ pc[q] = "body"
    /\ sent' = [sent EXCEPT ![q] = fresh[q]]
    /\ Goto(q, "retry")
    /\ UNCHANGED <<now, cache, registryVars, askedVars, fresh, refused, outcome>>

RetryServed(q) ==
    /\ pc[q] = "retry"
    /\ MayServe(q)
    /\ accepted' = accepted \cup {sent[q]}
    /\ Goto(q, "accepted")
    /\ UNCHANGED <<now, cache, issued, revoked, askedVars, sent, fresh, refused, outcome>>

RetryRejected(q) ==
    /\ pc[q] = "retry"
    /\ MayReject(q)
    /\ End(q, "unauthorized")
    /\ UNCHANGED <<now, cache, registryVars, askedVars, fresh, refused>>

\* Only a token the registry has just accepted is cached.
Store(q) ==
    /\ pc[q] = "accepted"
    /\ cache' = Inserted(cache, repo[q], fresh[q], issued[fresh[q]].life)
    /\ End(q, "served")
    /\ UNCHANGED <<now, registryVars, askedVars, fresh, refused>>

\* Any other status, a transport error, or request_timeout.
SendFails(q) ==
    /\ pc[q] \in {"first", "retry"}
    /\ End(q, "error")
    /\ UNCHANGED <<now, cache, registryVars, askedVars, fresh, refused>>

(***************************************************************************)
(* The world.                                                              *)
(***************************************************************************)

Revoke(k) ==
    /\ k \in 1..Len(issued) /\ now < Until(k)
    /\ revoked' = revoked \cup {k}
    /\ UNCHANGED <<now, cache, issued, accepted, pc, askedVars, sent, fresh,
                   since, refused, outcome>>

\* request_timeout cuts every wait off; the work between waits takes no time.
Tick ==
    /\ now < MaxTime
    /\ \A q \in Requests : /\ pc[q] \notin Local
                           /\ pc[q] \in Waiting => now - since[q] < Timeout
    /\ now' = now + 1
    /\ UNCHANGED <<cache, registryVars, pc, askedVars, sent, fresh, since,
                   refused, outcome>>

Step(q) ==
    \/ PlainAnswer(q)
    \/ Lookup(q) \/ FirstServed(q) \/ FirstRejected(q) \/ Drop(q)
    \/ \E life \in Lifetimes : Issue(q, life)
    \/ HeadersArrive(q) \/ ExchangeFails(q) \/ Retry(q)
    \/ RetryServed(q) \/ RetryRejected(q) \/ Store(q)
    \/ SendFails(q)

Next ==
    \/ \E q \in Requests : \/ \E r \in Repos, own \in BOOLEAN : Begin(q, r, own)
                           \/ Step(q)
    \/ \E k \in TokenIds : Revoke(k)
    \/ Tick

Spec == Init /\ [][Next]_vars

(***************************************************************************)
(* Safety.                                                                 *)
(***************************************************************************)

\* A cached token was issued for the repository it is cached under, and the
\* registry has served a request with it: never a token that was merely issued,
\* another repository's, or the client's own.
CacheHoldsProvenTokens ==
    \A r \in Repos : cache[r] # Vacant =>
        /\ cache[r].token \in accepted
        /\ issued[cache[r].token].repo = r

\* A request that carries the client's credentials is sent with them and with
\* nothing else; one that does not never travels with another client's.
CredentialsStayApart ==
    \A q \in Requests :
        pc[q] \in Waiting \cup Local => (caller[q] <=> sent[q] = CallerToken)

\* The cache never outgrows its capacity, whatever order requests store in.
CacheBounded == Cardinality(Cached(cache)) <= Capacity

\* A stale token in the cache never costs a request its answer: a request that
\* could have used the token service ends unauthorized only if the registry
\* rejected the new token too.
StaleTokenIsReplaced ==
    \A q \in Requests :
        outcome[q] = "unauthorized" /\ ~caller[q] /\ ~refused[q]
           => fresh[q] # NoToken /\ ~Valid(fresh[q], repo[q])

\* However long the exchange and the retry took, a cached token is overdue by no
\* more than three request timeouts less the skew: the service's headers, its body
\* and the retry are waited for in turn (exchange_token, TokenCache::insert).
OverdueIsBounded ==
    \A r \in Repos : cache[r] # Vacant =>
       cache[r].expires + Skew <= Until(cache[r].token) + 3 * Timeout
=============================================================================
