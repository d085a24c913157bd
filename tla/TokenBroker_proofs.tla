------------------------- MODULE TokenBroker_proofs -------------------------
(***************************************************************************)
(* What TokenBroker guarantees for every number of requests, repositories, *)
(* tokens and every choice of lifetimes.                                   *)
(***************************************************************************)
EXTENDS TokenBroker, FiniteSetTheorems, WellFoundedInduction, TLAPS

(***************************************************************************)
(* The cache operators.                                                    *)
(***************************************************************************)

\* A vacant place is told from every entry.
LEMMA VacantIsNoEntry ==
    ASSUME NEW e \in Entries, e # Vacant
    PROVE  e.token \in TokenIds /\ e.expires \in Nat
BY DEF Entries, Vacant, TokenIds, NoToken

\* get keeps the shape of the cache.
LEMMA DiscardedType ==
    ASSUME NEW c \in [Repos -> Entries]
    PROVE  Discarded(c) \in [Repos -> Entries]
BY DEF Discarded, Entries

\* insert keeps the shape of the cache: the skew is only taken from a lifetime
\* that covers it.
LEMMA InsertedType ==
    ASSUME NEW c \in [Repos -> Entries], NEW r \in Repos, NEW k \in TokenIds,
           NEW life \in Lifetimes, now \in Nat
    PROVE  Inserted(c, r, k, life) \in [Repos -> Entries]
<1>1. Lifetime(life) \in Nat
  BY TimesAssumption DEF Lifetime
<1>2. Roomy(c, r) \in [Repos -> Entries]
  BY DEF Roomy, Removed, Entries
<1>3. CASE Lifetime(life) < Skew
  BY <1>3 DEF Inserted
<1>4. CASE ~(Lifetime(life) < Skew)
  <2>1. now + Lifetime(life) - Skew \in Nat
    BY <1>1, <1>4, TimesAssumption
  <2>2. [token |-> k, expires |-> now + Lifetime(life) - Skew] \in Entries
    BY <2>1 DEF Entries
  <2> QED
    BY <1>2, <1>4, <2>2 DEF Inserted
<1> QED
  BY <1>3, <1>4

\* What get leaves in place was there before.
LEMMA DiscardedEntry ==
    ASSUME NEW c \in [Repos -> Entries], NEW r \in Repos
    PROVE  Discarded(c)[r] \in {c[r], Vacant}
BY DEF Discarded

\* insert changes no repository's entry but its own, except to take one away.
LEMMA InsertedEntry ==
    ASSUME NEW c \in [Repos -> Entries], NEW r \in Repos, NEW k \in TokenIds,
           NEW life \in Lifetimes, NEW s \in Repos
    PROVE  \/ Inserted(c, r, k, life)[s] \in {c[s], Vacant}
           \/ /\ s = r
              /\ Inserted(c, r, k, life)[s] =
                    [token |-> k, expires |-> now + Lifetime(life) - Skew]
<1>1. Roomy(c, r) \in [Repos -> Entries] /\ Roomy(c, r)[s] \in {c[s], Vacant}
  BY DEF Roomy, Removed, Entries
<1> QED
  BY <1>1 DEF Inserted

(***************************************************************************)
(* Types, and what each phase of a request knows.                          *)
(***************************************************************************)

\* The caller's own credentials belong to the phase "plain" and to no other;
\* from the exchange to the end the request holds a token issued for its
\* repository, and from the retry on that is what it sent.
Phase(q) ==
    /\ pc[q] \in Waiting \cup Local => (caller[q] <=> pc[q] = "plain")
    /\ pc[q] \in Waiting \cup Local => (sent[q] = CallerToken <=> pc[q] = "plain")
    /\ pc[q] \in {"issued", "body", "retry", "accepted"} =>
          fresh[q] \in 1..Len(issued) /\ issued[fresh[q]].repo = repo[q]
    /\ pc[q] \in {"retry", "accepted"} => sent[q] = fresh[q]

Typed == TypeOK /\ \A q \in Requests : Phase(q)

\* A token that was issued is a token.
LEMMA IssuedToken ==
    ASSUME TypeOK, NEW k \in 1..Len(issued)
    PROVE  issued[k] \in Tokens /\ k \in TokenIds
BY SizesAssumption DEF TypeOK, TokenIds

\* Nothing has happened yet.
LEMMA TypedInit == Init => Typed
<1> SUFFICES ASSUME Init PROVE Typed
  OBVIOUS
<1>1. (CHOOSE r \in Repos : TRUE) \in Repos
  BY ReposAssumption
<1>2. TypeOK
  BY <1>1, SizesAssumption
  DEF Init, TypeOK, Entries, Vacant, Tokens, Headers, NoToken, Waiting, Local
<1>3. \A q \in Requests : Phase(q)
  BY DEF Init, Phase, Waiting, Local
<1> QED
  BY <1>2, <1>3 DEF Typed

\* Every step keeps the types and what the phases know.
LEMMA TypedNext == Typed /\ [Next]_vars => Typed'
<1> SUFFICES ASSUME Typed, [Next]_vars PROVE Typed'
  OBVIOUS
<1> USE DEF Typed, TypeOK, Phase, Waiting, Local, Headers, TokenIds, NoToken,
            CallerToken, registryVars, askedVars
<1>1. ASSUME NEW q \in Requests, NEW r \in Repos, NEW own \in BOOLEAN, Begin(q, r, own)
      PROVE  Typed'
  BY <1>1, SizesAssumption DEF Begin, Goto
<1>2. ASSUME NEW q \in Requests, PlainAnswer(q) PROVE Typed'
  BY <1>2 DEF PlainAnswer, End
<1>3. ASSUME NEW q \in Requests, Lookup(q) PROVE Typed'
  <2>1. cache' \in [Repos -> Entries]
    BY <1>3, DiscardedType DEF Lookup
  <2>2. cache'[repo[q]].token \in TokenIds \cup {NoToken}
    BY <2>1 DEF Entries, Vacant
  <2> QED
    BY <1>3, <2>1, <2>2 DEF Lookup, Goto
<1>4. ASSUME NEW q \in Requests, FirstServed(q) PROVE Typed'
  BY <1>4 DEF FirstServed, End
<1>5. ASSUME NEW q \in Requests, FirstRejected(q) PROVE Typed'
  BY <1>5 DEF FirstRejected, Goto
<1>6. ASSUME NEW q \in Requests, Drop(q) PROVE Typed'
  <2>1. cache' \in [Repos -> Entries]
    BY <1>6 DEF Drop, Removed, Entries
  <2>2. CASE Goto(q, "exchange") /\ UNCHANGED <<sent, refused, outcome>>
    BY <1>6, <2>1, <2>2 DEF Drop, Goto
  <2>3. CASE refused' = [refused EXCEPT ![q] = TRUE] /\ End(q, "unauthorized")
    BY <1>6, <2>1, <2>3 DEF Drop, End
  <2> QED
    BY <1>6, <2>2, <2>3 DEF Drop
<1>7. ASSUME NEW q \in Requests, NEW life \in Lifetimes, Issue(q, life) PROVE Typed'
  BY <1>7, TimesAssumption, SizesAssumption DEF Issue, Tokens
<1>8. ASSUME NEW q \in Requests, ExchangeFails(q) PROVE Typed'
  BY <1>8 DEF ExchangeFails, End
<1>9. ASSUME NEW q \in Requests, HeadersArrive(q) PROVE Typed'
  BY <1>9 DEF HeadersArrive, Goto
<1>10. ASSUME NEW q \in Requests, Retry(q) PROVE Typed'
  BY <1>10 DEF Retry, Goto
<1>11. ASSUME NEW q \in Requests, RetryServed(q) PROVE Typed'
  <2>1. sent[q] \in TokenIds
    BY <1>11 DEF RetryServed
  <2> QED
    BY <1>11, <2>1 DEF RetryServed, Goto
<1>12. ASSUME NEW q \in Requests, RetryRejected(q) PROVE Typed'
  BY <1>12 DEF RetryRejected, End
<1>13. ASSUME NEW q \in Requests, Store(q) PROVE Typed'
  <2>1. fresh[q] \in TokenIds /\ issued[fresh[q]].life \in Lifetimes
    BY <1>13, IssuedToken DEF Store, Tokens
  <2>2. cache' \in [Repos -> Entries]
    BY <1>13, <2>1, InsertedType DEF Store
  <2> QED
    BY <1>13, <2>2 DEF Store, End
<1>14. ASSUME NEW q \in Requests, SendFails(q) PROVE Typed'
  BY <1>14 DEF SendFails, End
<1>15. ASSUME NEW k \in TokenIds, Revoke(k) PROVE Typed'
  BY <1>15 DEF Revoke
<1>16. CASE Tick
  BY <1>16 DEF Tick
<1>17. CASE UNCHANGED vars
  BY <1>17 DEF vars
<1> HIDE DEF Typed, TypeOK, Phase, Waiting, Local, Headers
<1> QED
  BY <1>1, <1>2, <1>3, <1>4, <1>5, <1>6, <1>7, <1>8, <1>10, <1>11, <1>12, <1>13,
     <1>14, <1>15, <1>16, <1>17, <1>9 DEF Next, Step

\* What Store changes of the cache.
LEMMA StoredEntry ==
    ASSUME Typed, NEW q \in Requests, Store(q), NEW r \in Repos
    PROVE  \/ cache'[r] \in {cache[r], Vacant}
           \/ /\ r = repo[q]
              /\ cache'[r] = [token   |-> fresh[q],
                              expires |-> now + Lifetime(issued[fresh[q]].life) - Skew]
<1>1. fresh[q] \in 1..Len(issued) /\ pc[q] = "accepted"
  BY DEF Store, Typed, Phase
<1>2. repo[q] \in Repos /\ fresh[q] \in TokenIds /\ issued[fresh[q]].life \in Lifetimes
  BY <1>1, IssuedToken DEF Typed, TypeOK, Tokens
<1>3. cache \in [Repos -> Entries]
  BY DEF Typed, TypeOK
<1>4. cache' = Inserted(cache, repo[q], fresh[q], issued[fresh[q]].life)
  BY DEF Store
<1> DEFINE life == issued[fresh[q]].life
<1> HIDE DEF life
<1>5. \/ Inserted(cache, repo[q], fresh[q], life)[r] \in {cache[r], Vacant}
      \/ /\ r = repo[q]
         /\ Inserted(cache, repo[q], fresh[q], life)[r] =
               [token |-> fresh[q], expires |-> now + Lifetime(life) - Skew]
  BY <1>2, <1>3, InsertedEntry DEF life
<1> QED
  BY <1>4, <1>5 DEF life

\* The types of the model are kept (all of TokenBroker).
THEOREM TypeCorrect == Spec => []TypeOK
<1>1. Typed => TypeOK
  BY DEF Typed
<1> QED
  BY TypedInit, TypedNext, <1>1, PTL DEF Spec

\* No request of the process ever travels with a client's credentials, nor a
\* client's request with the process's token (request_response_method).
THEOREM CredentialsAreKeptApart == Spec => []CredentialsStayApart
<1>1. Typed => CredentialsStayApart
  BY DEF Typed, Phase, CredentialsStayApart
<1> QED
  BY TypedInit, TypedNext, <1>1, PTL DEF Spec

(***************************************************************************)
(* Cached tokens are proven.                                               *)
(***************************************************************************)

Proven ==
    /\ accepted \subseteq 1..Len(issued)
    /\ \A q \in Requests : pc[q] = "accepted" => fresh[q] \in accepted
    /\ CacheHoldsProvenTokens

\* A cache whose entries were all in the old one holds proven tokens.
LEMMA FewerAreProven ==
    ASSUME Typed, Proven, cache' \in [Repos -> Entries],
           \A r \in Repos : cache'[r] \in {cache[r], Vacant},
           UNCHANGED <<issued, accepted>>
    PROVE  CacheHoldsProvenTokens'
BY DEF Proven, CacheHoldsProvenTokens

\* Every step keeps them so.
LEMMA ProvenNext == Typed /\ Typed' /\ Proven /\ [Next]_vars => Proven'
<1> SUFFICES ASSUME Typed, Typed', Proven, [Next]_vars PROVE Proven'
  OBVIOUS
<1> USE DEF Waiting, Local, registryVars, askedVars
<1>1. ASSUME NEW q \in Requests, Lookup(q) PROVE Proven'
  <2>1. cache' \in [Repos -> Entries] /\ \A r \in Repos : cache'[r] \in {cache[r], Vacant}
    BY <1>1, DiscardedEntry, DiscardedType DEF Lookup, Typed, TypeOK
  <2>2. CacheHoldsProvenTokens'
    BY <1>1, <2>1, FewerAreProven DEF Lookup
  <2> QED
    BY <1>1, <2>2 DEF Lookup, Goto, Proven, Typed, TypeOK
<1>2. ASSUME NEW q \in Requests, Drop(q) PROVE Proven'
  <2>1. cache' \in [Repos -> Entries] /\ \A r \in Repos : cache'[r] \in {cache[r], Vacant}
    BY <1>2 DEF Drop, Removed, Typed, TypeOK
  <2>2. CacheHoldsProvenTokens'
    BY <1>2, <2>1, FewerAreProven DEF Drop
  <2> QED
    BY <1>2, <2>2 DEF Drop, Goto, End, Proven, Typed, TypeOK
<1>3. ASSUME NEW q \in Requests, Store(q) PROVE Proven'
  <2>1. /\ fresh[q] \in accepted /\ fresh[q] \in 1..Len(issued)
        /\ issued[fresh[q]].repo = repo[q]
    BY <1>3 DEF Store, Proven, Typed, Phase
  <2>2. ASSUME NEW r \in Repos, cache'[r] # Vacant
        PROVE  \/ cache'[r] = cache[r]
               \/ r = repo[q] /\ cache'[r].token = fresh[q]
    <3>1. CASE cache'[r] = [token   |-> fresh[q],
                            expires |-> now + Lifetime(issued[fresh[q]].life) - Skew]
      BY <3>1, <1>3, <2>2, StoredEntry
    <3>2. CASE cache'[r] \in {cache[r], Vacant}
      BY <3>2, <2>2
    <3> QED
      BY <1>3, <3>1, <3>2, StoredEntry
  <2>3. CacheHoldsProvenTokens'
    BY <1>3, <2>1, <2>2 DEF Store, Proven, CacheHoldsProvenTokens
  <2> QED
    BY <1>3, <2>3 DEF Store, End, Proven, Typed, TypeOK
<1>4. ASSUME NEW q \in Requests, FirstServed(q) PROVE Proven'
  <2>1. {sent[q]} \cap TokenIds \subseteq 1..Len(issued)
    BY <1>4 DEF FirstServed, MayServe, Valid
  <2> QED
    BY <1>4, <2>1 DEF FirstServed, End, Proven, CacheHoldsProvenTokens, Typed, TypeOK
<1>5. ASSUME NEW q \in Requests, RetryServed(q) PROVE Proven'
  <2>1. sent[q] = fresh[q] /\ fresh[q] \in 1..Len(issued)
    BY <1>5 DEF RetryServed, Typed, Phase
  <2> QED
    BY <1>5, <2>1 DEF RetryServed, Goto, Proven, CacheHoldsProvenTokens, Typed, TypeOK
<1>6. ASSUME NEW q \in Requests, NEW life \in Lifetimes, Issue(q, life) PROVE Proven'
  <2>1. /\ Len(issued') = Len(issued) + 1 /\ Len(issued) \in Nat
        /\ \A k \in 1..Len(issued) : issued'[k] = issued[k]
    BY <1>6 DEF Issue, Typed, TypeOK
  <2>2. accepted' \subseteq 1..Len(issued')
    BY <1>6, <2>1 DEF Issue, Proven
  <2>3. CacheHoldsProvenTokens'
    BY <1>6, <2>1 DEF Issue, Proven, CacheHoldsProvenTokens
  <2> QED
    BY <1>6, <2>2, <2>3 DEF Issue, Proven, Typed, TypeOK
<1>7. ASSUME UNCHANGED <<cache, issued, accepted>>,
             \A q \in Requests : pc'[q] = "accepted" => pc[q] = "accepted" /\ fresh'[q] = fresh[q]
      PROVE  Proven'
  BY <1>7 DEF Proven, CacheHoldsProvenTokens
<1>8. ASSUME NEW q \in Requests,
             \/ \E r \in Repos, own \in BOOLEAN : Begin(q, r, own)
             \/ PlainAnswer(q) \/ FirstRejected(q) \/ HeadersArrive(q) \/ ExchangeFails(q)
             \/ Retry(q) \/ RetryRejected(q) \/ SendFails(q)
      PROVE  Proven'
  BY <1>7, <1>8 DEF Begin, PlainAnswer, FirstRejected, HeadersArrive, ExchangeFails, Retry,
                    RetryRejected, SendFails, Goto, End, Typed, TypeOK
<1>9. ASSUME (\E k \in TokenIds : Revoke(k)) \/ Tick \/ UNCHANGED vars PROVE Proven'
  BY <1>7, <1>9 DEF Revoke, Tick, vars
<1> QED
  BY <1>1, <1>2, <1>3, <1>4, <1>5, <1>6, <1>8, <1>9 DEF Next, Step

\* Whatever requests run side by side, the cache holds tokens issued for the
\* repository they are cached under, each accepted once by the registry.
THEOREM CachedTokensAreProven == Spec => []CacheHoldsProvenTokens
<1>1. Init => Proven
  BY DEF Init, Proven, CacheHoldsProvenTokens
<1>2. Proven => CacheHoldsProvenTokens
  BY DEF Proven
<1> QED
  BY TypedInit, TypedNext, ProvenNext, <1>1, <1>2, PTL DEF Spec

(***************************************************************************)
(* Cached tokens are not overdue for long.                                 *)
(***************************************************************************)

\* The lifetime the token service counts from the issue.
Life(k) == IF issued[k].life = 0 THEN DefaultLife ELSE issued[k].life

\* How far the clock may have moved since the token in hand was issued: by one
\* timeout while the headers are on the way, by another until the body is there,
\* by a third during the retry.
Elapsed(q) ==
    LET k == fresh[q] IN
    /\ pc[q] \in Waiting => since[q] <= now /\ now <= since[q] + Timeout
    /\ pc[q] = "issued"   => since[q] + Life(k) <= Until(k)
    /\ pc[q] = "body"     => since[q] + Life(k) <= Until(k) + Timeout
    /\ pc[q] = "retry"    => since[q] + Life(k) <= Until(k) + 2 * Timeout
    /\ pc[q] = "accepted" => now + Life(k) <= Until(k) + 3 * Timeout

Timed == (\A q \in Requests : Elapsed(q)) /\ OverdueIsBounded

\* An issue changes nothing of the tokens issued before it.
LEMMA IssueKeeps ==
    ASSUME Typed, NEW q \in Requests, NEW life \in Lifetimes, Issue(q, life)
    PROVE  /\ fresh'[q] \in 1..Len(issued') /\ fresh'[q] \notin 1..Len(issued)
           /\ issued'[fresh'[q]].life = life
           /\ issued'[fresh'[q]].until = now + IF life = 0 THEN DefaultLife ELSE life
           /\ \A k \in 1..Len(issued) : k \in 1..Len(issued') /\ issued'[k] = issued[k]
BY DEF Typed, TypeOK, Issue

\* The arithmetic of one insertion.
LEMMA InsertedInTime ==
    ASSUME Typed, NEW q \in Requests, Elapsed(q), pc[q] = "accepted"
    PROVE  now + Lifetime(issued[fresh[q]].life) - Skew + Skew <= Until(fresh[q]) + 3 * Timeout
<1>1. issued[fresh[q]] \in Tokens
  BY IssuedToken DEF Typed, Phase
<1>2. /\ issued[fresh[q]].life \in Nat /\ Until(fresh[q]) \in Nat
      /\ now \in Nat /\ Skew \in Nat /\ Timeout \in Nat
      /\ DefaultLife \in Nat /\ MaxLife \in Nat
  BY <1>1, TimesAssumption DEF Tokens, Until, Typed, TypeOK
<1>3. Lifetime(issued[fresh[q]].life) <= Life(fresh[q])
  BY <1>2 DEF Lifetime, Life
<1>4. Lifetime(issued[fresh[q]].life) \in Nat /\ Life(fresh[q]) \in Nat
  BY <1>2 DEF Lifetime, Life
<1>5. now + Life(fresh[q]) <= Until(fresh[q]) + 3 * Timeout
  BY DEF Elapsed
<1> HIDE DEF Elapsed
<1> QED
  BY <1>2, <1>3, <1>4, <1>5

\* A cache whose entries were all in the old one has none overdue for longer.
LEMMA FewerAreOverdue ==
    ASSUME OverdueIsBounded, \A r \in Repos : cache'[r] \in {cache[r], Vacant}, UNCHANGED issued
    PROVE  OverdueIsBounded'
BY DEF OverdueIsBounded, Until

\* Every step keeps the bounds.
LEMMA TimedNext == Typed /\ Proven /\ Timed /\ [Next]_vars => Timed'
<1> SUFFICES ASSUME Typed, Proven, Timed, [Next]_vars PROVE Timed'
  OBVIOUS
<1> USE DEF Waiting, Local, registryVars, askedVars
<1>a. Timeout \in Nat /\ now \in Nat /\ \A q \in Requests : since[q] \in Nat
  BY TimesAssumption DEF Typed, TypeOK
<1>b. ASSUME NEW q \in Requests, pc[q] \in {"issued", "body", "retry", "accepted"}
      PROVE  Life(fresh[q]) \in Nat /\ Until(fresh[q]) \in Nat
  <2>1. issued[fresh[q]] \in Tokens
    BY <1>b, IssuedToken DEF Typed, Phase
  <2> QED
    BY <2>1, TimesAssumption DEF Life, Until, Tokens
<1>1. ASSUME NEW q \in Requests, Lookup(q) PROVE Timed'
  <2>1. \A r \in Repos : cache'[r] \in {cache[r], Vacant}
    BY <1>1, DiscardedEntry DEF Lookup, Typed, TypeOK
  <2>2. OverdueIsBounded'
    BY <1>1, <2>1, FewerAreOverdue DEF Lookup, Timed
  <2> QED
    BY <1>1, <1>a, <2>2 DEF Lookup, Goto, Timed, Elapsed, Life, Until, Typed, TypeOK
<1>2. ASSUME NEW q \in Requests, Drop(q) PROVE Timed'
  <2>1. \A r \in Repos : cache'[r] \in {cache[r], Vacant}
    BY <1>2 DEF Drop, Removed, Typed, TypeOK
  <2>2. OverdueIsBounded'
    BY <1>2, <2>1, FewerAreOverdue DEF Drop, Timed
  <2> QED
    BY <1>2, <1>a, <2>2 DEF Drop, Goto, End, Timed, Elapsed, Life, Until, Typed, TypeOK
<1>3. ASSUME NEW q \in Requests, Store(q) PROVE Timed'
  <2>1. fresh[q] \in 1..Len(issued) /\ pc[q] = "accepted"
    BY <1>3 DEF Store, Typed, Phase
  <2>2. now + Lifetime(issued[fresh[q]].life) - Skew + Skew <= Until(fresh[q]) + 3 * Timeout
    BY <2>1, InsertedInTime DEF Timed
  <2>3. ASSUME NEW r \in Repos, cache'[r] # Vacant
        PROVE  cache'[r].expires + Skew <= Until(cache'[r].token) + 3 * Timeout
    <3>1. CASE cache'[r] = cache[r]
      BY <2>3, <3>1 DEF Timed, OverdueIsBounded
    <3>2. CASE cache'[r] = [token |-> fresh[q],
                            expires |-> now + Lifetime(issued[fresh[q]].life) - Skew]
      BY <2>2, <3>2
    <3> QED
      BY <1>3, <2>3, <3>1, <3>2, StoredEntry
  <2>4. OverdueIsBounded'
    BY <1>3, <2>3 DEF Store, OverdueIsBounded, Until
  <2> QED
    BY <1>3, <2>4 DEF Store, End, Timed, Elapsed, Life, Until, Typed, TypeOK
<1>4. ASSUME NEW q \in Requests, NEW life \in Lifetimes, Issue(q, life) PROVE Timed'
  <2>1. /\ fresh'[q] \in 1..Len(issued') /\ issued'[fresh'[q]].life = life
        /\ issued'[fresh'[q]].until = now + IF life = 0 THEN DefaultLife ELSE life
        /\ \A k \in 1..Len(issued) : issued'[k] = issued[k]
    BY <1>4, IssueKeeps
  <2>2. OverdueIsBounded'
    BY <1>4, <2>1 DEF Issue, Proven, CacheHoldsProvenTokens, Timed, OverdueIsBounded, Until
  <2>3. Elapsed(q)'
    BY <1>4, <1>a, <2>1, TimesAssumption DEF Issue, Timed, Elapsed, Life, Until, Typed, TypeOK
  <2>4. ASSUME NEW p \in Requests, p # q PROVE Elapsed(p)'
    <3>1. /\ pc'[p] = pc[p] /\ since'[p] = since[p] /\ fresh'[p] = fresh[p]
          /\ UNCHANGED now
      BY <1>4, <2>4 DEF Issue, Typed, TypeOK
    <3>2. pc[p] \in {"issued", "body", "retry", "accepted"} => issued'[fresh[p]] = issued[fresh[p]]
      BY <2>1 DEF Typed, Phase
    <3> QED
      BY <3>1, <3>2 DEF Timed, Elapsed, Life, Until
  <2> QED
    BY <2>2, <2>3, <2>4 DEF Timed
<1>5. ASSUME NEW q \in Requests, HeadersArrive(q) PROVE Timed'
  <2>1. since[q] + Life(fresh[q]) <= Until(fresh[q]) /\ now <= since[q] + Timeout
    BY <1>5 DEF HeadersArrive, Timed, Elapsed
  <2>2. now + Life(fresh[q]) <= Until(fresh[q]) + Timeout
    BY <1>5, <1>a, <1>b, <2>1 DEF HeadersArrive
  <2> QED
    BY <1>5, <1>a, <2>2
    DEF HeadersArrive, Goto, Timed, Elapsed, OverdueIsBounded, Life, Until, Typed, TypeOK
<1>6. ASSUME NEW q \in Requests, Retry(q) PROVE Timed'
  <2>1. since[q] + Life(fresh[q]) <= Until(fresh[q]) + Timeout /\ now <= since[q] + Timeout
    BY <1>6 DEF Retry, Timed, Elapsed
  <2>2. now + Life(fresh[q]) <= Until(fresh[q]) + 2 * Timeout
    BY <1>6, <1>a, <1>b, <2>1 DEF Retry
  <2> QED
    BY <1>6, <1>a, <2>2
    DEF Retry, Goto, Timed, Elapsed, OverdueIsBounded, Life, Until, Typed, TypeOK
<1>7. ASSUME NEW q \in Requests, RetryServed(q) PROVE Timed'
  <2>1. since[q] + Life(fresh[q]) <= Until(fresh[q]) + 2 * Timeout /\ now <= since[q] + Timeout
    BY <1>7 DEF RetryServed, Timed, Elapsed
  <2>2. now + Life(fresh[q]) <= Until(fresh[q]) + 3 * Timeout
    BY <1>7, <1>a, <1>b, <2>1 DEF RetryServed
  <2> QED
    BY <1>7, <1>a, <2>2
    DEF RetryServed, Goto, Timed, Elapsed, OverdueIsBounded, Life, Until, Typed, TypeOK
<1>8. CASE Tick
  <2>1. \A q \in Requests : Elapsed(q)'
    BY <1>8, <1>a DEF Tick, Timed, Elapsed, Life, Until
  <2> QED
    BY <1>8, <2>1 DEF Tick, Timed, OverdueIsBounded, Until
<1>9. ASSUME NEW q \in Requests,
             \/ \E r \in Repos, own \in BOOLEAN : Begin(q, r, own)
             \/ PlainAnswer(q) \/ FirstServed(q) \/ FirstRejected(q) \/ ExchangeFails(q)
             \/ RetryRejected(q) \/ SendFails(q)
      PROVE  Timed'
  <2>1. UNCHANGED <<now, cache, issued>>
    BY <1>9 DEF Begin, PlainAnswer, FirstServed, FirstRejected, ExchangeFails,
                RetryRejected, SendFails
  <2>2. pc'[q] \in {"plain", "lookup", "rejected", "done"} /\ (pc'[q] = "plain" => since'[q] = now)
    BY <1>9 DEF Begin, PlainAnswer, FirstServed, FirstRejected, ExchangeFails,
                RetryRejected, SendFails, Goto, End, Typed, TypeOK
  <2>3. \A p \in Requests \ {q} : pc'[p] = pc[p] /\ since'[p] = since[p] /\ fresh'[p] = fresh[p]
    BY <1>9 DEF Begin, PlainAnswer, FirstServed, FirstRejected, ExchangeFails,
                RetryRejected, SendFails, Goto, End, Typed, TypeOK
  <2> QED
    BY <1>a, <2>1, <2>2, <2>3 DEF Timed, Elapsed, OverdueIsBounded, Life, Until
<1>10. ASSUME (\E k \in TokenIds : Revoke(k)) \/ UNCHANGED vars PROVE Timed'
  BY <1>10 DEF Revoke, vars, Timed, Elapsed, OverdueIsBounded, Life, Until
<1> QED
  BY <1>1, <1>2, <1>3, <1>4, <1>5, <1>6, <1>8, <1>9, <1>10, <1>7 DEF Next, Step

\* Whatever the timeout, the skew and the lifetimes are, no token stays in the cache
\* longer past the expiry its service gave it than three waits exceed the skew
\* (exchange_token, TokenCache::insert).
THEOREM OverdueTokensAreBounded == Spec => []OverdueIsBounded
<1>1. Init => Timed
  BY DEF Init, Timed, Elapsed, OverdueIsBounded, Waiting
<1>2. Init => Proven
  BY DEF Init, Proven, CacheHoldsProvenTokens
<1>3. Timed => OverdueIsBounded
  BY DEF Timed
<1> QED
  BY TypedInit, TypedNext, ProvenNext, TimedNext, <1>1, <1>2, <1>3, PTL DEF Spec

(***************************************************************************)
(* The cache is bounded.                                                   *)
(***************************************************************************)

\* The first in key order exists (BTreeMap::pop_first).
LEMMA LeastIsIn ==
    ASSUME NEW S, S \subseteq Repos, S # {}
    PROVE  Least(S) \in S
<1>1. S \subseteq Nat
  BY ReposAssumption
<1>2. PICK r \in S : \A s \in S : <<s, r>> \notin OpToRel(<, Nat)
  BY <1>1, NatLessThanWellFounded, WFMin
<1>3. \A s \in S : ~(s < r)
  BY <1>1, <1>2 DEF OpToRel
<1>4. \A s \in S : r <= s
  BY <1>1, <1>3
<1> QED
  BY <1>4 DEF Least

Bounded(c) == IsFiniteSet(Cached(c)) /\ Cardinality(Cached(c)) <= Capacity

\* Fewer entries need no more room.
LEMMA FewerAreBounded ==
    ASSUME NEW c, NEW d, Bounded(c), Cached(d) \subseteq Cached(c)
    PROVE  Bounded(d)
<1>1. IsFiniteSet(Cached(d)) /\ Cardinality(Cached(d)) <= Cardinality(Cached(c))
  BY FS_Subset DEF Bounded
<1>2. Cardinality(Cached(c)) \in Nat /\ Cardinality(Cached(d)) \in Nat /\ Capacity \in Nat
  BY <1>1, FS_CardinalityType, SizesAssumption DEF Bounded
<1> QED
  BY <1>1, <1>2 DEF Bounded

\* insert makes room before it needs it.
LEMMA InsertedIsBounded ==
    ASSUME NEW c \in [Repos -> Entries], NEW r \in Repos, NEW k \in TokenIds,
           NEW life \in Lifetimes, Bounded(c)
    PROVE  Bounded(Inserted(c, r, k, life))
<1> DEFINE S == Cached(c)
           room == Roomy(c, r)
           d == Inserted(c, r, k, life)
<1>1. IsFiniteSet(S) /\ Cardinality(S) \in Nat /\ Cardinality(S) <= Capacity
      /\ Capacity \in Nat \ {0}
  BY FS_CardinalityType, SizesAssumption DEF Bounded
<1>2. S \subseteq Repos
  BY DEF Cached
<1>3. CASE r \in S
  <2>1. room = c
    BY <1>3 DEF Roomy
  <2>2. Cached(d) \subseteq S
    BY <1>3, <2>1 DEF Inserted, Cached
  <2> QED
    BY <2>2, FewerAreBounded
<1>4. CASE r \notin S /\ Cardinality(S) >= Capacity
  <2>1. S # {}
    BY <1>1, <1>4, FS_EmptySet
  <2>2. Least(S) \in S
    BY <1>2, <2>1, LeastIsIn
  <2> DEFINE T == S \ {Least(S)}
  <2>3. IsFiniteSet(T) /\ Cardinality(T) = Cardinality(S) - 1
    BY <1>1, <2>2, FS_RemoveElement
  <2>4. IsFiniteSet(T \cup {r}) /\ Cardinality(T \cup {r}) = Cardinality(S)
    <3>1. r \notin T
      BY <1>4
    <3> HIDE DEF T
    <3>2. IsFiniteSet(T \cup {r}) /\ Cardinality(T \cup {r}) = Cardinality(T) + 1
      BY <2>3, <3>1, FS_AddElement
    <3> QED
      BY <1>1, <2>3, <3>2
  <2>5. Cached(room) = T
    BY <1>4, <2>2 DEF Roomy, Removed, Cached
  <2>6. Cached(d) \subseteq S \/ Cached(d) \subseteq T \cup {r}
    BY <2>5 DEF Inserted, Cached
  <2>7. CASE Cached(d) \subseteq S
    BY <2>7, FewerAreBounded
  <2>8. CASE Cached(d) \subseteq T \cup {r}
    <3>1. IsFiniteSet(Cached(d)) /\ Cardinality(Cached(d)) <= Cardinality(T \cup {r})
      BY <2>4, <2>8, FS_Subset
    <3>2. Cardinality(Cached(d)) \in Nat
      BY <3>1, FS_CardinalityType
    <3> QED
      BY <1>1, <2>4, <3>1, <3>2 DEF Bounded
  <2> QED
    BY <2>6, <2>7, <2>8
<1>5. CASE r \notin S /\ Cardinality(S) < Capacity
  <2>1. room = c
    BY <1>1, <1>5 DEF Roomy
  <2>2. Cached(d) \subseteq S \cup {r}
    BY <2>1 DEF Inserted, Cached
  <2>3. IsFiniteSet(S \cup {r}) /\ Cardinality(S \cup {r}) = Cardinality(S) + 1
    BY <1>1, <1>5, FS_AddElement
  <2>4. IsFiniteSet(Cached(d)) /\ Cardinality(Cached(d)) <= Cardinality(S \cup {r})
    BY <2>2, <2>3, FS_Subset
  <2>5. Cardinality(Cached(d)) \in Nat
    BY <2>4, FS_CardinalityType
  <2> QED
    BY <1>1, <1>5, <2>3, <2>4, <2>5 DEF Bounded
<1> QED
  BY <1>1, <1>3, <1>4, <1>5

\* Every step keeps the bound.
LEMMA BoundedNext == Typed /\ Bounded(cache) /\ [Next]_vars => Bounded(cache)'
<1> SUFFICES ASSUME Typed, Bounded(cache), [Next]_vars PROVE Bounded(cache')
  OBVIOUS
<1>1. ASSUME NEW q \in Requests, Lookup(q) PROVE Bounded(cache')
  <2>1. Cached(cache') \subseteq Cached(cache)
    BY <1>1 DEF Lookup, Discarded, Cached
  <2> QED
    BY <2>1, FewerAreBounded
<1>2. ASSUME NEW q \in Requests, Drop(q) PROVE Bounded(cache')
  <2>1. Cached(cache') \subseteq Cached(cache)
    BY <1>2 DEF Drop, Removed, Cached, Typed, TypeOK
  <2> QED
    BY <2>1, FewerAreBounded
<1>3. ASSUME NEW q \in Requests, Store(q) PROVE Bounded(cache')
  <2>1. fresh[q] \in 1..Len(issued)
    BY <1>3 DEF Store, Typed, Phase
  <2>2. repo[q] \in Repos /\ fresh[q] \in TokenIds /\ issued[fresh[q]].life \in Lifetimes
    BY <2>1, IssuedToken DEF Typed, TypeOK, Tokens
  <2> DEFINE life == issued[fresh[q]].life
  <2>3. cache' = Inserted(cache, repo[q], fresh[q], life)
    BY <1>3 DEF Store
  <2> HIDE DEF life
  <2> QED
    BY <2>2, <2>3, InsertedIsBounded DEF Typed, TypeOK, life
<1>4. ASSUME UNCHANGED cache PROVE Bounded(cache')
  BY <1>4
<1> QED
  BY <1>1, <1>2, <1>3, <1>4
  DEF Next, Step, Begin, PlainAnswer, FirstServed, FirstRejected, Issue, HeadersArrive, ExchangeFails,
      Retry, RetryServed, RetryRejected, SendFails, Revoke, Tick, vars

\* In whatever order requests store, the cache stays within its capacity.
THEOREM CacheStaysBounded == Spec => []CacheBounded
<1>1. Init => Bounded(cache)
  <2> SUFFICES ASSUME Init PROVE Bounded(cache)
    OBVIOUS
  <2>1. Cached(cache) = {}
    BY DEF Init, Cached
  <2> QED
    BY <2>1, FS_EmptySet, SizesAssumption DEF Bounded
<1>2. Bounded(cache) => CacheBounded
  BY DEF Bounded, CacheBounded
<1> QED
  BY TypedInit, TypedNext, BoundedNext, <1>1, <1>2, PTL DEF Spec

(***************************************************************************)
(* A stale token is replaced.                                              *)
(***************************************************************************)

Replaced ==
    /\ \A q \in Requests : pc[q] # "done" => outcome[q] = "none"
    /\ \A q \in Requests :
          outcome[q] = "unauthorized" /\ ~caller[q] /\ ~refused[q]
             => fresh[q] \in 1..Len(issued) /\ ~Valid(fresh[q], repo[q])

\* A token that has become invalid stays so.
LEMMA InvalidStaysInvalid ==
    ASSUME Typed, [Next]_vars, NEW k \in 1..Len(issued), NEW r \in Repos, ~Valid(k, r)
    PROVE  k \in 1..Len(issued') /\ ~Valid(k, r)'
<1>1. now \in Nat /\ issued \in Seq(Tokens)
  BY DEF Typed, TypeOK
<1>2. issued[k] \in Tokens
  BY IssuedToken DEF Typed
<1>3. now <= now' /\ now' \in Nat /\ revoked \subseteq revoked'
  <2>1. CASE UNCHANGED <<now, revoked>>
    BY <1>1, <2>1
  <2>2. CASE Tick
    BY <1>1, <2>2 DEF Tick, registryVars
  <2>3. ASSUME NEW j \in TokenIds, Revoke(j)
        PROVE  now <= now' /\ now' \in Nat /\ revoked \subseteq revoked'
    BY <1>1, <2>3 DEF Revoke
  <2> QED
    BY <2>1, <2>2, <2>3
    DEF Next, Step, Begin, PlainAnswer, Lookup, FirstServed, FirstRejected, Drop, Issue,
        HeadersArrive, ExchangeFails, Retry, RetryServed, RetryRejected, Store, SendFails, vars, registryVars
<1>4. k \in 1..Len(issued') /\ issued'[k] = issued[k]
  <2>1. CASE UNCHANGED issued
    BY <2>1
  <2>2. ASSUME NEW q \in Requests, NEW life \in Lifetimes, Issue(q, life)
        PROVE  k \in 1..Len(issued') /\ issued'[k] = issued[k]
    BY <2>2, IssueKeeps
  <2> QED
    BY <2>1, <2>2
    DEF Next, Step, Begin, PlainAnswer, Lookup, FirstServed, FirstRejected, Drop,
        HeadersArrive, ExchangeFails, Retry, RetryServed, RetryRejected, Store, SendFails, Revoke, Tick,
        vars, registryVars
<1> QED
  BY <1>1, <1>2, <1>3, <1>4 DEF Valid, Until, Tokens

\* Every step keeps the verdicts.
LEMMA ReplacedNext == Typed /\ Replaced /\ [Next]_vars => Replaced'
<1> SUFFICES ASSUME Typed, Replaced, [Next]_vars PROVE Replaced'
  OBVIOUS
<1> USE DEF Waiting, Local, registryVars, askedVars
\* A request that does not end in this step.
<1>1. ASSUME NEW q \in Requests,
             \/ pc'[q] # "done" /\ outcome'[q] = "none"
             \/ UNCHANGED <<pc[q], outcome[q], caller[q], refused[q], fresh[q], repo[q]>>
             \/ outcome'[q] # "unauthorized" /\ pc'[q] = "done"
             \/ (caller'[q] \/ refused'[q]) /\ pc'[q] = "done"
      PROVE  /\ pc'[q] # "done" => outcome'[q] = "none"
             /\ outcome'[q] = "unauthorized" /\ ~caller'[q] /\ ~refused'[q]
                   => fresh'[q] \in 1..Len(issued') /\ ~Valid(fresh[q], repo[q])'
  BY <1>1, InvalidStaysInvalid DEF Replaced, Typed, TypeOK
<1>2. ASSUME NEW q \in Requests, RetryRejected(q) PROVE Replaced'
  <2>1. fresh[q] \in 1..Len(issued) /\ ~Valid(fresh[q], repo[q])
    BY <1>2, IssuedToken DEF RetryRejected, MayReject, Typed, Phase
  <2>2. fresh'[q] \in 1..Len(issued') /\ ~Valid(fresh[q], repo[q])'
    BY <1>2, <2>1 DEF RetryRejected, Valid, Until
  <2>3. /\ pc'[q] = "done"
        /\ \A p \in Requests \ {q} : pc'[p] = pc[p] /\ outcome'[p] = outcome[p]
        /\ UNCHANGED <<caller, refused, fresh, repo, issued, revoked, now>>
    BY <1>2 DEF RetryRejected, End, Typed, TypeOK
  <2> QED
    BY <2>2, <2>3 DEF Replaced, Valid, Until
<1>3. ASSUME NEW q \in Requests,
             \/ \E r \in Repos, own \in BOOLEAN : Begin(q, r, own)
             \/ PlainAnswer(q) \/ Lookup(q) \/ FirstServed(q) \/ FirstRejected(q) \/ Drop(q)
             \/ \E life \in Lifetimes : Issue(q, life)
             \/ HeadersArrive(q) \/ ExchangeFails(q) \/ Retry(q) \/ RetryServed(q) \/ Store(q) \/ SendFails(q)
      PROVE  Replaced'
  <2>1. \A p \in Requests \ {q} :
           UNCHANGED <<pc[p], outcome[p], caller[p], refused[p], fresh[p], repo[p]>>
    BY <1>3 DEF Begin, PlainAnswer, Lookup, FirstServed, FirstRejected, Drop, Issue,
                HeadersArrive, ExchangeFails, Retry, RetryServed, Store, SendFails, Goto, End, Typed, TypeOK
  <2>2. \/ pc'[q] # "done" /\ outcome'[q] = "none"
        \/ outcome'[q] # "unauthorized" /\ pc'[q] = "done"
        \/ (caller'[q] \/ refused'[q]) /\ pc'[q] = "done"
    BY <1>3 DEF Begin, PlainAnswer, Lookup, FirstServed, FirstRejected, Drop, Issue,
                HeadersArrive, ExchangeFails, Retry, RetryServed, Store, SendFails, Goto, End, Typed,
                TypeOK, Phase, Replaced
  <2> QED
    BY <1>1, <2>1, <2>2 DEF Replaced
<1>4. ASSUME (\E k \in TokenIds : Revoke(k)) \/ Tick \/ UNCHANGED vars PROVE Replaced'
  <2>1. \A p \in Requests :
           UNCHANGED <<pc[p], outcome[p], caller[p], refused[p], fresh[p], repo[p]>>
    BY <1>4 DEF Revoke, Tick, vars
  <2> QED
    BY <1>1, <2>1 DEF Replaced
<1> QED
  BY <1>2, <1>3, <1>4 DEF Next, Step

\* A cached token that has gone stale costs a request nothing but the exchange:
\* it ends unauthorized only if its new token is not valid either.
THEOREM StaleTokensAreReplaced == Spec => []StaleTokenIsReplaced
<1>1. Init => Replaced
  BY DEF Init, Replaced
<1>2. Typed /\ Replaced => StaleTokenIsReplaced
  BY DEF Typed, TypeOK, Replaced, StaleTokenIsReplaced, NoToken
<1> QED
  BY TypedInit, TypedNext, ReplacedNext, <1>1, <1>2, PTL DEF Spec

(***************************************************************************)
(* The challenge.                                                          *)
(***************************************************************************)

\* Whatever a registry sends along with a 401, in any number of fields and however it
\* is written, the realm and the service taken from it are those that bearer_challenge
\* lets pass: the two belong to one unambiguous list of parameters.
LEMMA OfferIsChecked ==
    ASSUME NEW ps, Offer(ps) # NoChallenge
    PROVE  RealmIsOurs(Offer(ps).realm) /\ ServiceIsSafe(Offer(ps).service)
<1> DEFINE r == CHOOSE i \in Given(ps, "realm") : TRUE
           s == CHOOSE i \in Given(ps, "service") : TRUE
<1>1. /\ Unambiguous(ps)
      /\ \E i \in Given(ps, "realm") : RealmIsOurs(ps[i].value)
      /\ \E i \in Given(ps, "service") : ServiceIsSafe(ps[i].value)
      /\ Offer(ps) = [realm |-> ps[r].value, service |-> ps[s].value]
  BY DEF Offer
<1>2. \A i \in Given(ps, "realm") : i = r
  BY <1>1 DEF Unambiguous, Given
<1>3. \A i \in Given(ps, "service") : i = s
  BY <1>1 DEF Unambiguous, Given
<1>4. RealmIsOurs(ps[r].value) /\ ServiceIsSafe(ps[s].value)
  BY <1>1, <1>2, <1>3
<1> HIDE DEF r, s
<1>5. Offer(ps).realm = ps[r].value /\ Offer(ps).service = ps[s].value
  BY <1>1
<1> QED
  BY <1>4, <1>5

\* The client's credentials and the broker's requests for tokens go to no site but the
\* upstream's own: a realm spells out the origin and goes on with a path.  The slash is
\* the first one behind the scheme, so no other authority is hidden before it.
THEOREM RealmsAreHome ==
    ASSUME NEW fields, Challenge(fields) # NoChallenge
    PROVE  LET realm == Challenge(fields).realm IN
           /\ SubSeq(realm, 1, Len(Origin)) = Origin
           /\ realm[Len(Origin) + 1] = "/"
           /\ \A i \in 5..Len(Origin) : Origin[i] # "/"
           /\ ServiceIsSafe(Challenge(fields).service)
<1> DEFINE offers == [i \in DOMAIN fields |-> Offered(fields[i])]
           ends   == {i \in DOMAIN fields : ~Visible(fields[i]) \/ offers[i] # NoChallenge}
           first  == {i \in ends : \A j \in ends : i <= j}
           f      == CHOOSE i \in first : TRUE
<1>1. first # {} /\ Challenge(fields) = offers[f]
  BY DEF Challenge, FirstOffer
<1>2. f \in DOMAIN fields
  BY <1>1
<1>3. Challenge(fields) = Offered(fields[f])
  BY <1>1, <1>2
<1>4. Challenge(fields) = Offer(BearerParameters(fields[f]))
  BY <1>3 DEF Offered
<1> QED
  BY <1>4, OfferIsChecked, OriginAssumption DEF RealmIsOurs
=============================================================================
