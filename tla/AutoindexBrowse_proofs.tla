------------------------ MODULE AutoindexBrowse_proofs ------------------------
(***************************************************************************)
(* Proofs about the autoindex as it is browsed, for any segments, limits,  *)
(* directories, manifests and requests.  The argument: every link of a     *)
(* listing and every redirect is spelled like a path that parse accepts,   *)
(* and the same artifact answers it with a file or a listing; so that the  *)
(* crawler never has a dead link to visit.                                 *)
(***************************************************************************)
EXTENDS AutoindexBrowse, FiniteSetTheorems, SequenceTheorems, WellFoundedInduction, TLAPS

(***************************************************************************)
(* Sequences.                                                              *)
(***************************************************************************)

LEMMA Extended ==
    ASSUME NEW S, NEW s \in Seq(S), NEW x \in S
    PROVE  /\ s \o <<x>> \in Seq(S)
           /\ Len(s \o <<x>>) = Len(s) + 1
           /\ (s \o <<x>>)[Len(s) + 1] = x
           /\ \A i \in 1..Len(s) : (s \o <<x>>)[i] = s[i]
<1>1. s \o <<x>> = Append(s, x)
  BY AppendIsConcat
<1> QED
  BY <1>1, AppendProperties

LEMMA UpTo ==
    ASSUME NEW S, NEW s \in Seq(S), NEW k \in 0..Len(s)
    PROVE  /\ SubSeq(s, 1, k) \in Seq(S)
           /\ Len(SubSeq(s, 1, k)) = k
           /\ \A i \in 1..k : SubSeq(s, 1, k)[i] = s[i]
<1>1. Len(s) \in Nat /\ \A i \in 1..k : s[i] \in S
  BY ElementOfSeq, LenProperties
<1>2. /\ SubSeq(s, 1, k) \in Seq(S)
      /\ Len(SubSeq(s, 1, k)) = IF 1 <= k THEN k - 1 + 1 ELSE 0
      /\ \A i \in 1..(k - 1 + 1) : SubSeq(s, 1, k)[i] = s[1 + i - 1]
  BY <1>1, SubSeqProperties
<1> QED
  BY <1>1, <1>2

(***************************************************************************)
(* Paths.                                                                  *)
(***************************************************************************)

LEMMA DirectorySpelling ==
    ASSUME NEW p \in Paths
    PROVE  /\ AsDirectory(p) \in Paths /\ Len(AsDirectory(p)) = Len(p) + 1
           /\ AsDirectory(p)[Len(p) + 1] = Nil
           /\ \A i \in 1..Len(p) : AsDirectory(p)[i] = p[i]
<1>1. Nil \in Segments
  BY SpellingAssumption
<1> QED
  BY <1>1, Extended DEF AsDirectory, Paths

LEMMA LettersFinite ==
    ASSUME NEW p \in Paths
    PROVE  IsFiniteSet(Letters(p))
<1>1. IsFiniteSet(1..Len(p)) /\ IsFiniteSet(1..MaxName)
  <2>1. Len(p) \in Int /\ MaxName \in Int
    BY SpellingAssumption DEF Paths
  <2> QED
    BY <2>1, FS_Interval
<1>2. IsFiniteSet((1..Len(p)) \X (1..MaxName))
  BY <1>1, FS_Product
<1> QED
  BY <1>2, FS_Subset DEF Letters

LEMMA BytesType ==
    ASSUME NEW p \in Paths, Len(p) > 0
    PROVE  Bytes(p) \in Nat
<1>1. Len(p) \in Nat /\ Cardinality(Letters(p)) \in Nat
  BY LettersFinite, FS_CardinalityType DEF Paths
<1> QED
  BY <1>1 DEF Bytes

LEMMA RootIsPath == Root \in Paths /\ Len(Root) = 1 /\ Bytes(Root) = 0
<1>1. Root \in Paths /\ Len(Root) = 1 /\ Root[1] = Nil
  BY SpellingAssumption DEF Root, Paths
<1>2. Letters(Root) = {}
  <2> SUFFICES ASSUME NEW l \in Letters(Root) PROVE FALSE
    OBVIOUS
  <2>1. l \in (1..1) \X (1..MaxName) /\ l[2] <= Len(Spelling[Root[l[1]]])
    BY <1>1 DEF Letters
  <2>2. l[1] = 1 /\ l[2] >= 1
    BY <2>1, SpellingAssumption
  <2>3. Len(Spelling[Nil]) = 0
    BY SpellingAssumption
  <2> QED
    BY <1>1, <2>1, <2>2, <2>3, SpellingAssumption
<1>3. Cardinality({}) = 0
  BY FS_EmptySet
<1> QED
  BY <1>1, <1>2, <1>3 DEF Bytes

\* The directory a path lies in, or any directory above it, has a valid spelling
\* that is no longer.
LEMMA DirectoryAbove ==
    ASSUME NEW p \in Paths, Len(p) > 0, ValidPath(p),
           NEW k \in 1..(Len(Meaningful(p)) - 1)
    PROVE  LET d == AsDirectory(SubSeq(p, 1, k))
           IN  /\ d \in Paths /\ Len(d) = k + 1 /\ ValidPath(d) /\ IsDirectory(d)
               /\ \A i \in 1..k : d[i] = p[i]
               /\ Bytes(d) <= Bytes(p) /\ Bytes(d) \in Int /\ Bytes(p) \in Int
<1> DEFINE d == AsDirectory(SubSeq(p, 1, k))
<1>1. k \in Nat /\ k >= 1 /\ Len(p) \in Nat /\ k + 1 <= Len(p) /\ Len(Meaningful(p)) <= MaxSegments
      /\ \A i \in 1..k : i \in DOMAIN Meaningful(p) /\ p[i] \in Segments
  <2>1. p \in Seq(Segments) /\ Len(p) \in Nat
    BY DEF Paths
  <2>2. Meaningful(p) \in Seq(Segments) /\ Len(Meaningful(p)) <= Len(p)
    BY <2>1, UpTo DEF Meaningful
  <2>3. DOMAIN Meaningful(p) = 1..Len(Meaningful(p)) /\ Len(Meaningful(p)) \in Nat
    BY <2>2
  <2>4. \A i \in 1..k : p[i] \in Segments
    BY <2>1, <2>2, <2>3
  <2> QED
    BY <2>1, <2>2, <2>3, <2>4, PathLimitsAssumption DEF ValidPath
<1>2. SubSeq(p, 1, k) \in Paths /\ Len(SubSeq(p, 1, k)) = k
      /\ \A i \in 1..k : SubSeq(p, 1, k)[i] = p[i]
  BY <1>1, UpTo DEF Paths
<1>3. d \in Paths /\ Len(d) = k + 1 /\ d[k + 1] = Nil /\ \A i \in 1..k : d[i] = p[i]
  BY <1>1, <1>2, DirectorySpelling
<1> HIDE DEF d
<1>4. Len(d) - 1 = k /\ k \in 0..Len(d)
  BY <1>1, <1>3
<1>5. IsDirectory(d)
  BY <1>3 DEF IsDirectory
<1>6. Meaningful(d) = SubSeq(d, 1, k) /\ Len(Meaningful(d)) = k /\ DOMAIN Meaningful(d) = 1..k
  <2>1. Meaningful(d) = SubSeq(d, 1, k)
    BY <1>4, <1>5 DEF Meaningful
  <2>2. Meaningful(d) \in Seq(Segments) /\ Len(Meaningful(d)) = k
    BY <2>1, <1>3, <1>4, UpTo DEF Paths
  <2> QED
    BY <2>1, <2>2, LenProperties
<1>7. Letters(d) \subseteq Letters(p)
  <2> SUFFICES ASSUME NEW l \in Letters(d)
               PROVE  l \in Letters(p)
    OBVIOUS
  <2>1. l \in (1..(k + 1)) \X (1..MaxName) /\ l[2] <= Len(Spelling[d[l[1]]])
    BY <1>3 DEF Letters
  <2>2. l[1] # k + 1
    <3>1. Len(Spelling[Nil]) = 0
      BY SpellingAssumption
    <3> QED
      BY <2>1, <3>1, <1>3, SpellingAssumption
  <2>3. l[1] \in 1..k
    BY <2>1, <2>2, <1>1
  <2>4. l \in (1..Len(p)) \X (1..MaxName)
    BY <2>1, <2>3, <1>1
  <2> QED
    BY <2>1, <2>3, <2>4, <1>3 DEF Letters
<1>8. Bytes(d) <= Bytes(p) /\ Bytes(p) \in Int /\ Bytes(d) \in Int
  <2>1. IsFiniteSet(Letters(p))
    BY LettersFinite
  <2>2. Cardinality(Letters(p)) \in Nat
    BY <2>1, FS_CardinalityType
  <2>3. IsFiniteSet(Letters(d)) /\ Cardinality(Letters(d)) <= Cardinality(Letters(p))
    BY <2>1, <1>7, FS_Subset
  <2>4. Cardinality(Letters(d)) \in Nat
    BY <2>3, FS_CardinalityType
  <2> QED
    BY <2>2, <2>3, <2>4, <1>1, <1>3 DEF Bytes
<1>9. Bytes(d) <= MaxPathBytes
  BY <1>8, PathLimitsAssumption DEF ValidPath
<1>10. \A i \in DOMAIN Meaningful(d) : d[i] \notin {Nil, ".", ".."} /\ Safe(d[i])
  BY <1>1, <1>3, <1>6 DEF ValidPath
<1>11. ValidPath(d)
  BY <1>1, <1>6, <1>9, <1>10, PathLimitsAssumption DEF ValidPath
<1> QED
  BY <1>3, <1>5, <1>8, <1>11 DEF d

\* What an index may hold.
GoodTitles(T) == \A t \in T : t \in Paths /\ FileTitle(t)

\* What a link may lead to.
Reachable(T, p) ==
    /\ p \in Paths /\ Len(p) > 0
    /\ \/ p = Root
       \/ ValidPath(p) /\ (p \in T \/ IsDirectory(p))

\* A request path that is answered with a listing.
Listed(d) ==
    /\ d \in Paths /\ Len(d) > 0
    /\ d = Root \/ (ValidPath(d) /\ IsDirectory(d))

\* The name of an entry, after the directory, is where the title of the file begins.
LEMMA JoinIsPrefix ==
    ASSUME NEW d \in Paths, Len(d) > 0, NEW u \in Paths, Within(u, d)
    PROVE  Join(d, u[Len(d)]) = SubSeq(u, 1, Len(d))
<1> DEFINE n == u[Len(d)]
<1>1. Len(d) \in Nat /\ Len(u) \in Nat /\ Len(d) <= Len(u) /\ Len(d) \in 1..Len(u)
  BY DEF Paths, Within
<1>2. SubSeq(u, 1, Len(d)) \in Paths /\ Len(SubSeq(u, 1, Len(d))) = Len(d)
  BY <1>1 DEF Paths
<1>3. SubSeq(d, 1, Len(d) - 1) \in Seq(Segments) /\ Len(SubSeq(d, 1, Len(d) - 1)) = Len(d) - 1
      /\ \A i \in 1..(Len(d) - 1) : SubSeq(d, 1, Len(d) - 1)[i] = d[i]
  <2>1. d \in Seq(Segments) /\ Len(d) - 1 \in 0..Len(d)
    BY <1>1 DEF Paths
  <2> QED
    BY <2>1, UpTo
<1>4. n \in Segments
  BY <1>1 DEF Paths
<1> HIDE DEF n
<1>5. Join(d, n) \in Seq(Segments) /\ Len(Join(d, n)) = Len(d) /\ Join(d, n)[Len(d)] = n
      /\ \A i \in 1..(Len(d) - 1) : Join(d, n)[i] = d[i]
  BY <1>1, <1>3, <1>4 DEF Join
<1>6. \A i \in 1..Len(d) : Join(d, n)[i] = SubSeq(u, 1, Len(d))[i]
  BY <1>1, <1>5 DEF Within, Paths, n
<1>7. Join(d, n) = SubSeq(u, 1, Len(d))
  BY <1>1, <1>2, <1>5, <1>6 DEF Paths
<1> QED
  BY <1>7 DEF n

LEMMA EntriesReachable ==
    ASSUME NEW T, GoodTitles(T), NEW d, Listed(d), NEW n \in Names(T, d)
    PROVE  Reachable(T, Entry(T, d, n)) /\ Len(Entry(T, d, n)) >= Len(d)
<1>1. PICK u \in T : Within(u, d) /\ n = u[Len(d)]
  BY DEF Names
<1>2. u \in Paths /\ ValidPath(u) /\ ~IsDirectory(u) /\ Len(d) \in Nat /\ Len(d) > 0
      /\ Len(u) \in Nat /\ Len(d) <= Len(u)
  BY <1>1 DEF GoodTitles, FileTitle, Listed, Within, Paths
<1>3. Meaningful(u) = u
  BY <1>2 DEF Meaningful
<1>4. SubSeq(u, 1, Len(d)) \in Paths /\ Len(SubSeq(u, 1, Len(d))) = Len(d)
  BY <1>2 DEF Paths
<1>5. Join(d, n) = SubSeq(u, 1, Len(d))
  BY <1>1, <1>2, JoinIsPrefix DEF Listed
<1>6. CASE Join(d, n) \in T
  BY <1>2, <1>4, <1>5, <1>6 DEF Entry, Reachable, GoodTitles, FileTitle
<1>7. CASE Join(d, n) \notin T
  <2>1. Len(d) # Len(u)
    <3>1. SubSeq(u, 1, Len(u)) = u
      BY <1>2 DEF Paths
    <3> QED
      BY <3>1, <1>1, <1>5, <1>7
  <2>2. Len(d) \in 1..(Len(Meaningful(u)) - 1)
    BY <2>1, <1>2, <1>3
  <2>3. LET e == AsDirectory(SubSeq(u, 1, Len(d)))
        IN  e \in Paths /\ Len(e) = Len(d) + 1 /\ ValidPath(e) /\ IsDirectory(e)
    BY <1>2, <2>2, DirectoryAbove
  <2> QED
    BY <1>2, <1>5, <1>7, <2>3 DEF Entry, Reachable
<1> QED
  BY <1>6, <1>7

LEMMA ParentReachable ==
    ASSUME NEW T, NEW d, Listed(d), d # Root
    PROVE  /\ Reachable(T, Parent(d)) /\ Len(Parent(d)) < Len(d)
           /\ Listed(Parent(d)) /\ Bytes(Parent(d)) <= Bytes(d)
           /\ Parent(d) = Root \/ Parent(d)[1] = d[1]
<1>1. d \in Paths /\ ValidPath(d) /\ IsDirectory(d) /\ Len(d) \in Nat /\ Len(d) > 0
  BY DEF Listed, Paths
<1>2. Meaningful(d) = SubSeq(d, 1, Len(d) - 1) /\ Len(Meaningful(d)) = Len(d) - 1
  <2>1. d \in Seq(Segments) /\ Len(d) - 1 \in 0..Len(d)
    BY <1>1 DEF Paths
  <2> QED
    BY <2>1, <1>1, UpTo DEF Meaningful
<1>3. Len(d) >= 2
  BY <1>1, <1>2, PathLimitsAssumption DEF ValidPath
<1>4. CASE Len(d) = 2
  <2>1. SubSeq(d, 1, Len(d) - 2) = <<>>
    BY <1>1, <1>4 DEF Paths
  <2>2. Parent(d) = Root
    <3>1. Nil \in Segments
      BY SpellingAssumption
    <3>2. <<Nil>> \in Seq(Segments)
      BY <3>1
    <3> QED
      BY <2>1, <3>2, ConcatEmptySeq DEF Parent, Root
  <2> QED
    BY <2>2, <1>1, <1>4, RootIsPath, BytesType DEF Reachable, Listed
<1>5. CASE Len(d) # 2
  <2>1. Len(d) - 2 \in 1..(Len(Meaningful(d)) - 1)
    <3>1. Len(d) \in Nat /\ Len(Meaningful(d)) = Len(d) - 1
      BY <1>1, <1>2
    <3> QED
      BY <3>1, <1>3, <1>5
  <2>2. Parent(d) = AsDirectory(SubSeq(d, 1, Len(d) - 2))
    BY DEF Parent, AsDirectory
  <2>3. LET e == AsDirectory(SubSeq(d, 1, Len(d) - 2))
        IN  /\ e \in Paths /\ Len(e) = Len(d) - 1 /\ ValidPath(e) /\ IsDirectory(e)
            /\ e[1] = d[1] /\ Bytes(e) <= Bytes(d)
    BY <1>1, <2>1, DirectoryAbove
  <2> QED
    BY <1>1, <1>3, <1>5, <2>2, <2>3 DEF Reachable, Listed
<1> QED
  BY <1>4, <1>5

(***************************************************************************)
(* Answers.                                                                *)
(***************************************************************************)

LEMMA HrefFacts ==
    ASSUME NEW p \in Paths
    PROVE  /\ Href(p) \in Paths /\ Len(Href(p)) = Len(p) + 1
           /\ Href(p)[1] = Nil /\ Tail(Href(p)) = p
           /\ \A i \in 1..Len(p) : Href(p)[i + 1] = p[i]
           /\ Len(p) > 0 => Href(p)[2] = p[1]
<1>1. p \in Seq(Segments) /\ <<Nil>> \in Seq(Segments) /\ Len(p) \in Nat
  BY SpellingAssumption DEF Paths
<1>2. /\ Href(p) \in Seq(Segments) /\ Len(Href(p)) = Len(p) + 1
      /\ Href(p)[1] = Nil /\ \A i \in 1..Len(p) : Href(p)[i + 1] = p[i]
  BY <1>1, ConcatProperties DEF Href
<1>3. Href(p) # <<>>
  BY <1>1, <1>2
<1>4. /\ Tail(Href(p)) \in Seq(Segments) /\ Len(Tail(Href(p))) = Len(p)
      /\ \A i \in 1..Len(p) : Tail(Href(p))[i] = p[i]
  BY <1>1, <1>2, <1>3, HeadTailProperties
<1>5. Tail(Href(p)) = p
  BY <1>1, <1>4, SeqEqual
<1>6. Len(p) > 0 => Href(p)[2] = p[1]
  BY <1>1, <1>2
<1> QED
  BY <1>2, <1>5, <1>6 DEF Paths

LEMMA ProjectedTitles ==
    ASSUME NEW m, Projects(m)
    PROVE  GoodTitles(Titles(m))
BY DEF Projects, Titles, GoodTitles, Visible

\* A plain GET of a target that is not too long passes the admission.
LEMMA PlainlyAdmitted ==
    ASSUME NEW t, ~TooLong(t)
    PROVE  AutoindexRefusal("GET", [Plainly EXCEPT !.target = TargetBytes(t)]) = "none"
<1> DEFINE h == [Plainly EXCEPT !.target = TargetBytes(t)]
<1>1. /\ h.origin /\ h.target = TargetBytes(t) /\ h.headers = 0 /\ h.bytes = 0
      /\ ~h.control /\ h.lengths = <<>> /\ ~h.chunked /\ ~h.expects /\ ~h.upgrade
  BY DEF Plainly
<1> HIDE DEF h
<1>2. LengthRefusal("GET", h.lengths) = "none"
  BY <1>1 DEF LengthRefusal
<1>3. HeaderRefusal("GET", h) = "none"
  BY <1>1, <1>2, LimitsAssumption DEF HeaderRefusal
<1>4. TargetRefusal("GET", h, {"GET", "HEAD"}) = "none"
  BY <1>1 DEF TargetRefusal, TooLong
<1>5. AutoindexRefusal("GET", h) = "none"
  BY <1>3, <1>4 DEF AutoindexRefusal
<1> QED
  BY <1>5 DEF h

\* Who follows a link is answered from the index.
LEMMA LinkIsLookedUp ==
    ASSUME artifact # None, Projects(artifact),
           NEW p, Reachable(Titles(artifact), p), ~Reserved(Href(p)), ~TooLong(Href(p))
    PROVE  Get(Href(p)) = Found(Titles(artifact), p)
<1> DEFINE r == [method |-> "GET", target |-> Href(p), head |-> Plainly, auths |-> 0]
<1>1. r.method = "GET" /\ r.target = Href(p) /\ r.head = Plainly /\ r.auths = 0
  OBVIOUS
<1>2. p \in Paths /\ p # Refused /\ Tail(Href(p)) = p
  BY HrefFacts DEF Reachable, Refused, Paths
<1>3. ParseRequest(r.target) = p
  BY <1>1, <1>2 DEF ParseRequest, Reachable
<1>4. AutoindexRefusal(r.method, [r.head EXCEPT !.target = TargetBytes(r.target)]) = "none"
  BY <1>1, PlainlyAdmitted
<1>5. Get(Href(p)) = Browse(artifact, r)
  BY DEF Get, Answer, Reserved
<1> HIDE DEF r
<1>6. Browse(artifact, r) = Found(Titles(artifact), p)
  BY <1>1, <1>2, <1>3, <1>4 DEF Browse
<1> QED
  BY <1>5, <1>6

\* What a crawler hopes of a target.
Lands(t) == Reserved(t) \/ TooLong(t) \/ Get(t).status \in {"file", "listing"}

LEMMA ReachableLands ==
    ASSUME artifact # None, Projects(artifact), NEW p, Reachable(Titles(artifact), p)
    PROVE  Href(p) \in Targets /\ Lands(Href(p))
<1>1. Href(p) \in Targets
  <2>1. p \in Paths /\ Len(p) > 0 /\ Len(p) \in Nat
    BY DEF Reachable, Paths
  <2> QED
    BY <2>1, HrefFacts DEF Targets
<1>2. ASSUME ~Reserved(Href(p)), ~TooLong(Href(p))
      PROVE  Get(Href(p)).status \in {"file", "listing"}
  <2>1. Get(Href(p)) = Found(Titles(artifact), p)
    BY <1>2, LinkIsLookedUp
  <2> QED
    BY <2>1 DEF Found, Reachable, Object, SayFile, SayListing
<1> QED
  BY <1>1, <1>2 DEF Lands

\* A request that is answered with links was looked up in the index.
LEMMA LinksComeFromLookup ==
    ASSUME NEW r, r.target \in Targets, Answer(artifact, r).links # {}
    PROVE  LET p == Tail(r.target)
           IN  /\ artifact # None /\ Projects(artifact)
               /\ p \in Paths /\ Len(p) > 0 /\ (p = Root \/ ValidPath(p))
               /\ Answer(artifact, r) = Found(Titles(artifact), p)
<1> DEFINE p == Tail(r.target)
<1>1. p \in Paths /\ Len(p) > 0
  <2>1. r.target \in Seq(Segments) /\ Len(r.target) >= 2 /\ r.target # <<>>
    BY DEF Targets, Paths
  <2> QED
    BY <2>1, HeadTailProperties DEF Paths
<1>2. Answer(artifact, r) = Browse(artifact, r)
  BY DEF Answer, Say
<1>3. Browse(artifact, r).links # {}
  BY <1>2
<1>4. /\ artifact # None /\ Projects(artifact) /\ ParseRequest(r.target) # Refused
      /\ Browse(artifact, r) = Found(Titles(artifact), ParseRequest(r.target))
  BY <1>3 DEF Browse, Say
<1>5. ParseRequest(r.target) = p /\ (p = Root \/ ValidPath(p))
  BY <1>4 DEF ParseRequest
<1> QED
  BY <1>1, <1>2, <1>4, <1>5

LEMMA LinksLand ==
    ASSUME NEW r, r.target \in Targets, NEW t \in Answer(artifact, r).links
    PROVE  t \in Targets /\ Lands(t)
<1> DEFINE p == Tail(r.target)
           T == Titles(artifact)
<1>1. /\ artifact # None /\ Projects(artifact)
      /\ p \in Paths /\ Len(p) > 0 /\ (p = Root \/ ValidPath(p))
      /\ t \in Found(T, p).links
  <2>1. Answer(artifact, r).links # {}
    OBVIOUS
  <2> QED
    BY <2>1, LinksComeFromLookup
<1>2. GoodTitles(T)
  BY <1>1, ProjectedTitles
<1> SUFFICES \E e : t = Href(e) /\ Reachable(T, e)
  BY <1>1, ReachableLands
<1> HIDE DEF p, T
<1>3. CASE t \in Links(T, p) /\ Listed(p)
  BY <1>2, <1>3, EntriesReachable, ParentReachable DEF Links, Children
<1>4. CASE t = Href(AsDirectory(p)) /\ HasDirectory(T, AsDirectory(p))
  <2>1. AsDirectory(p) \in Paths /\ Len(AsDirectory(p)) > 0 /\ IsDirectory(AsDirectory(p))
    <3>1. Len(p) \in Nat
      BY <1>1 DEF Paths
    <3> QED
      BY <1>1, <3>1, DirectorySpelling DEF IsDirectory
  <2>2. Reachable(T, AsDirectory(p))
    BY <1>4, <2>1 DEF Reachable, HasDirectory
  <2> QED
    BY <1>4, <2>2
<1>5. \/ t \in Links(T, p) /\ Listed(p)
      \/ t = Href(AsDirectory(p)) /\ HasDirectory(T, AsDirectory(p))
  BY <1>1 DEF Found, Listed, Say, SayFile, SayListing, SayRedirect, Candidate
<1> QED
  BY <1>3, <1>4, <1>5

(***************************************************************************)
(* The crawl.                                                              *)
(***************************************************************************)

CrawlInv ==
    /\ NoDeadLinks
    /\ \A t \in todo : t \in Targets /\ Lands(t)

LEMMA CrawlStep == CrawlInv /\ [Next]_vars => CrawlInv'
<1> SUFFICES ASSUME CrawlInv, [Next]_vars PROVE CrawlInv'
  OBVIOUS
<1>1. ASSUME artifact' = artifact, NEW t, Lands(t)
      PROVE  Lands(t)'
  BY <1>1 DEF Lands, Get
<1>2. ASSUME NEW D \in Directories, Publish(D)
      PROVE  CrawlInv'
  BY <1>2 DEF Publish, Change, CrawlInv, NoDeadLinks
<1>3. ASSUME NEW m \in Pushes, Push(m)
      PROVE  CrawlInv'
  BY <1>3 DEF Push, Change, CrawlInv, NoDeadLinks
<1>4. ASSUME NEW r \in Typed, Begin(r)
      PROVE  CrawlInv'
  <2>1. r.target \in Targets
    BY BrowseAssumption DEF Requests
  <2>2. artifact' = artifact /\ dead' = {} /\ todo' = Answer(artifact, r).links
    BY <1>4 DEF Begin, artifactVars
  <2>3. \A t \in todo' : t \in Targets /\ Lands(t)
    BY <2>1, <2>2, LinksLand
  <2> QED
    BY <1>1, <2>2, <2>3 DEF CrawlInv, NoDeadLinks
<1>5. ASSUME NEW t \in todo, Visit(t)
      PROVE  CrawlInv'
  <2>1. t \in Targets /\ Lands(t)
    BY DEF CrawlInv
  <2>2. /\ artifact' = artifact /\ todo' \subseteq todo \cup Get(t).links
        /\ dead' = dead \cup (IF Get(t).status \in {"file", "listing"} THEN {} ELSE {t})
    BY <1>5 DEF Visit, artifactVars
  <2>3. \A l \in Get(t).links : l \in Targets /\ Lands(l)
    <3> DEFINE r == [method |-> "GET", target |-> t, head |-> Plainly, auths |-> 0]
    <3>1. r.target \in Targets /\ Get(t) = Answer(artifact, r)
      BY <2>1 DEF Get
    <3> HIDE DEF r
    <3> QED
      BY <3>1, LinksLand
  <2>4. \A l \in todo' : l \in Targets /\ Lands(l)'
    BY <1>1, <2>2, <2>3 DEF CrawlInv
  <2>5. NoDeadLinks'
    BY <2>1, <2>2 DEF CrawlInv, NoDeadLinks, Lands
  <2> QED
    BY <2>4, <2>5 DEF CrawlInv
<1>6. CASE UNCHANGED vars
  <2>1. artifact' = artifact /\ todo' = todo /\ dead' = dead
    BY <1>6 DEF vars, artifactVars, crawlVars
  <2>2. \A t \in todo' : t \in Targets /\ Lands(t)'
    BY <1>1, <2>1 DEF CrawlInv
  <2>3. NoDeadLinks'
    BY <2>1 DEF CrawlInv, NoDeadLinks
  <2> QED
    BY <2>2, <2>3 DEF CrawlInv
<1> QED
  BY <1>2, <1>3, <1>4, <1>5, <1>6 DEF Next

\* No listing and no redirect of any artifact leads the crawler nowhere.
THEOREM ListingsHaveNoDeadLinks == Spec => []NoDeadLinks
<1>1. Init => CrawlInv
  BY DEF Init, CrawlInv, NoDeadLinks
<1>2. CrawlInv => NoDeadLinks
  BY DEF CrawlInv
<1> QED
  BY <1>1, <1>2, CrawlStep, PTL DEF Spec

(***************************************************************************)
(* Redirects.                                                              *)
(***************************************************************************)

\* Only a path without its slash is redirected, when files lie under it.
LEMMA RedirectComesFromLookup ==
    ASSUME NEW r, r.target \in Targets, Answer(artifact, r).status = "redirect"
    PROVE  \E p \in Paths :
              /\ artifact # None /\ Projects(artifact)
              /\ HasDirectory(Titles(artifact), AsDirectory(p))
              /\ Answer(artifact, r).links = {Href(AsDirectory(p))}
<1>1. Answer(artifact, r) = Browse(artifact, r)
  <2>1. Say("health").status # "redirect" /\ Say("distribution").status # "redirect"
    BY DEF Say
  <2> QED
    BY <2>1 DEF Answer
<1>2. Browse(artifact, r).status = "redirect"
  BY <1>1
<1>3. \A refusal : InboundStatus(refusal) # "redirect"
  BY DEF InboundStatus
<1>4. \A status : Say(status).status = status
  BY DEF Say
<1>5. /\ artifact # None /\ Projects(artifact)
      /\ Browse(artifact, r) = Found(Titles(artifact), ParseRequest(r.target))
  BY <1>2, <1>3, <1>4 DEF Browse
<1> DEFINE p == ParseRequest(r.target)
           T == Titles(artifact)
<1>6. Found(T, p) = SayRedirect(Href(AsDirectory(p))) /\ HasDirectory(T, AsDirectory(p))
  BY <1>2, <1>5 DEF Found, Say, SayFile, SayListing, Candidate
<1>7. Found(T, p).links # {}
  BY <1>6 DEF SayRedirect
<1>8. p \in Paths
  <2>1. Tail(r.target) \in Paths
    <3>1. r.target \in Seq(Segments) /\ Len(r.target) >= 2 /\ r.target # <<>>
      BY DEF Targets, Paths
    <3> QED
      BY <3>1, HeadTailProperties DEF Paths
  <2> QED
    BY <2>1, SpellingAssumption DEF ParseRequest, Root, Refused, Paths
<1>9. Answer(artifact, r).links = {Href(AsDirectory(p))}
  BY <1>1, <1>5, <1>6 DEF SayRedirect
<1> QED
  BY <1>5, <1>6, <1>8, <1>9

LEMMA RedirectLeadsOn ==
    ASSUME artifact # None, Projects(artifact), NEW p \in Paths,
           HasDirectory(Titles(artifact), AsDirectory(p)),
           ~Reserved(Href(AsDirectory(p))), ~TooLong(Href(AsDirectory(p)))
    PROVE  LET t == Href(AsDirectory(p))
           IN  Get(t).status = "listing" /\ Get(t).links # {Href(Parent(Tail(t)))}
<1> DEFINE d == AsDirectory(p)
           T == Titles(artifact)
<1>1. d \in Paths /\ Len(d) > 0 /\ IsDirectory(d) /\ ValidPath(d) /\ d # Root
  <2>1. Len(p) \in Nat
    BY DEF Paths
  <2>2. d \in Paths /\ Len(d) > 0 /\ IsDirectory(d)
    BY <2>1, DirectorySpelling DEF IsDirectory
  <2>3. ValidPath(d)
    BY DEF HasDirectory
  <2>4. ~ValidPath(Root)
    <3>1. Len(Root) = 1 /\ IsDirectory(Root)
      BY DEF Root, IsDirectory
    <3>2. Len(Meaningful(Root)) = 0
      BY <3>1 DEF Meaningful, Root
    <3> QED
      BY <3>2, PathLimitsAssumption DEF ValidPath
  <2> QED
    BY <2>2, <2>3, <2>4
<1>2. GoodTitles(T)
  BY ProjectedTitles
<1>3. PICK u \in T : Within(u, d)
  BY DEF HasDirectory
<1> HIDE DEF d, T
<1>4. Listed(d) /\ Reachable(T, d) /\ d \notin T
  BY <1>1, <1>2 DEF Listed, Reachable, GoodTitles, FileTitle
<1>5. Get(Href(d)) = SayListing(Links(T, d))
  <2>1. Get(Href(d)) = Found(T, d)
    BY <1>4, LinkIsLookedUp DEF d, T
  <2> QED
    BY <2>1, <1>1, <1>4 DEF Found, Object
<1> DEFINE e == Entry(T, d, u[Len(d)])
<1>6. e \in Children(T, d) /\ Reachable(T, e) /\ Len(e) >= Len(d)
  <2>1. u[Len(d)] \in Names(T, d)
    BY <1>3 DEF Names
  <2> QED
    BY <2>1, <1>2, <1>4, EntriesReachable DEF Children
<1>7. Reachable(T, Parent(d)) /\ Len(Parent(d)) < Len(d)
  BY <1>1, <1>4, ParentReachable
<1>8. Href(e) # Href(Parent(d))
  <2> HIDE DEF e
  <2>1. e \in Paths /\ Parent(d) \in Paths
    <3>1. Reachable(T, e) /\ Reachable(T, Parent(d))
      BY <1>6, <1>7
    <3> QED
      BY <3>1 DEF Reachable
  <2>2. Len(e) \in Nat /\ Len(Parent(d)) \in Nat /\ Len(d) \in Nat
    BY <2>1, <1>1 DEF Paths
  <2>3. Tail(Href(e)) = e /\ Tail(Href(Parent(d))) = Parent(d)
    BY <2>1, HrefFacts
  <2>4. e # Parent(d)
    BY <1>6, <1>7, <2>2
  <2> QED
    BY <2>3, <2>4
<1>9. Href(e) \in Links(T, d)
  BY <1>6 DEF Links
<1>10. Tail(Href(d)) = d
  BY <1>1, HrefFacts
<1>11. Get(Href(d)).status = "listing" /\ Get(Href(d)).links = Links(T, d)
  BY <1>5 DEF SayListing
<1>12. Get(Href(d)).links # {Href(Parent(Tail(Href(d))))}
  BY <1>8, <1>9, <1>10, <1>11
<1> QED
  BY <1>11, <1>12 DEF d

\* What a redirect needs to keep its promise.
Promise(t) ==
    \/ Reserved(t) \/ TooLong(t)
    \/ Get(t).status = "listing" /\ Get(t).links # {Href(Parent(Tail(t)))}

LEMMA RedirectStep == RedirectsLand /\ [Next]_vars => RedirectsLand'
<1> SUFFICES ASSUME RedirectsLand, [Next]_vars PROVE RedirectsLand'
  OBVIOUS
<1>1. ASSUME NEW D \in Directories, Publish(D)
      PROVE  RedirectsLand'
  BY <1>1 DEF Publish, Change, RedirectsLand, Say
<1>2. ASSUME NEW m \in Pushes, Push(m)
      PROVE  RedirectsLand'
  BY <1>2 DEF Push, Change, RedirectsLand, Say
<1>3. ASSUME NEW r \in Typed, Begin(r)
      PROVE  RedirectsLand'
  <2>1. r.target \in Targets
    BY BrowseAssumption DEF Requests
  <2>2. artifact' = artifact /\ answer' = Answer(artifact, r)
    BY <1>3 DEF Begin, artifactVars
  <2>3. ASSUME answer'.status = "redirect", NEW t \in answer'.links
        PROVE  Promise(t)'
    <3>1. Answer(artifact, r).status = "redirect" /\ t \in Answer(artifact, r).links
      BY <2>2, <2>3
    <3>2. PICK p \in Paths :
             /\ artifact # None /\ Projects(artifact)
             /\ HasDirectory(Titles(artifact), AsDirectory(p))
             /\ t = Href(AsDirectory(p))
      BY <2>1, <3>1, RedirectComesFromLookup
    <3>3. Promise(t)
      BY <3>2, RedirectLeadsOn DEF Promise
    <3> QED
      BY <2>2, <3>3 DEF Promise, Get
  <2> QED
    BY <2>3 DEF RedirectsLand, Promise
<1>4. CASE UNCHANGED <<artifact, answer>>
  BY <1>4 DEF RedirectsLand, Get
<1>5. ASSUME NEW t \in todo, Visit(t)
      PROVE  RedirectsLand'
  BY <1>4, <1>5 DEF Visit, artifactVars
<1>6. CASE UNCHANGED vars
  BY <1>4, <1>6 DEF vars, artifactVars, crawlVars
<1> QED
  BY <1>1, <1>2, <1>3, <1>5, <1>6 DEF Next

\* A redirect leads to a listing that has entries, whatever the artifact holds.
THEOREM RedirectsLeadToListings == Spec => []RedirectsLand
<1>1. Init => RedirectsLand
  BY DEF Init, RedirectsLand, Say
<1> QED
  BY <1>1, RedirectStep, PTL DEF Spec

(***************************************************************************)
(* A crawl finds everything.  The argument: when nothing is left to visit, *)
(* what was visited is closed under links.  Parent links lead from the     *)
(* listing the crawl began with up to the root, and entries lead from the  *)
(* root down to every file, each a step shorter than a target the client   *)
(* may use.                                                                *)
(***************************************************************************)

\* A set of naturals that is not empty has a least element.
LEMMA LeastNatural ==
    ASSUME NEW S \in SUBSET Nat, S # {}
    PROVE  \E n \in S : \A k \in S : n <= k
<1>1. PICK n \in S : \A k \in S : <<k, n>> \notin OpToRel(<, Nat)
  BY NatLessThanWellFounded, WFMin
<1>2. \A k \in S : ~(k < n)
  BY <1>1 DEF OpToRel
<1> QED
  BY <1>2

\* A request that got a file, a listing or a redirect was looked up in the index,
\* and its target is neither reserved nor too long.
LEMMA AnswerIsLookedUp ==
    ASSUME NEW r, r.target \in Targets,
           Answer(artifact, r).status \in {"file", "listing", "redirect"}
    PROVE  LET p == Tail(r.target)
           IN  /\ artifact # None /\ Projects(artifact)
               /\ p \in Paths /\ Len(p) > 0 /\ (p = Root \/ ValidPath(p))
               /\ r.target = Href(p)
               /\ Answer(artifact, r) = Found(Titles(artifact), p)
               /\ ~Distribution(Href(p)) /\ ~TooLong(Href(p))
<1> DEFINE p == Tail(r.target)
           h == [r.head EXCEPT !.target = TargetBytes(r.target)]
<1>1. p \in Paths /\ Len(p) > 0 /\ r.target = Href(p)
  <2>1. r.target \in Seq(Segments) /\ Len(r.target) >= 2 /\ r.target # <<>> /\ r.target[1] = Nil
    BY DEF Targets, Paths
  <2>2. p \in Seq(Segments) /\ Len(p) = Len(r.target) - 1
        /\ \A i \in 1..Len(p) : p[i] = r.target[i + 1]
    BY <2>1, HeadTailProperties
  <2>3. Href(p) \in Seq(Segments) /\ Len(Href(p)) = Len(p) + 1 /\ Href(p)[1] = Nil
        /\ \A i \in 1..Len(p) : Href(p)[i + 1] = p[i]
    <3> HIDE DEF p
    <3> QED
      BY <2>2, HrefFacts DEF Paths
  <2>4. \A i \in 1..Len(r.target) : Href(p)[i] = r.target[i]
    <3> SUFFICES ASSUME NEW i \in 1..Len(r.target), i # 1 PROVE Href(p)[i] = r.target[i]
      BY <2>1, <2>3
    <3>1. i - 1 \in 1..Len(p) /\ (i - 1) + 1 = i
      BY <2>1, <2>2
    <3> QED
      BY <2>2, <2>3, <3>1
  <2>5. Href(p) = r.target
    <3> HIDE DEF p
    <3> QED
      BY <2>1, <2>2, <2>3, <2>4, SeqEqual
  <2> QED
    BY <2>1, <2>2, <2>5 DEF Paths
<1>2. \A x : Say(x).status = x
  BY DEF Say
<1>3. Answer(artifact, r) = Browse(artifact, r) /\ ~Distribution(r.target)
  BY <1>2 DEF Answer
<1>4. \A refusal : InboundStatus(refusal) \notin {"file", "listing", "redirect"}
  BY DEF InboundStatus
<1>5. /\ AutoindexRefusal(r.method, h) = "none"
      /\ artifact # None /\ Projects(artifact) /\ ParseRequest(r.target) # Refused
      /\ Browse(artifact, r) = Found(Titles(artifact), ParseRequest(r.target))
  BY <1>2, <1>3, <1>4 DEF Browse
<1>6. ParseRequest(r.target) = p /\ (p = Root \/ ValidPath(p))
  BY <1>5 DEF ParseRequest
<1>7. TargetRefusal(r.method, h, {"GET", "HEAD"}) = "none"
  BY <1>5 DEF AutoindexRefusal
<1>8. ~(h.target > MaxTarget)
  BY <1>7 DEF TargetRefusal
<1>9. ~TooLong(r.target)
  <2>1. TargetRefusal(r.method, h, {"GET", "HEAD"}) = "none" => ~TooLong(r.target)
    BY <1>8 DEF TooLong
  <2> QED
    BY <1>7, <2>1
<1> QED
  BY <1>1, <1>3, <1>5, <1>6, <1>9

\* The listing a crawl begins with, or is redirected to.
StartsAt(d) ==
    /\ Listed(d)
    /\ \/ /\ answer.status = "listing"
          /\ answer.links = Links(Titles(artifact), d)
          /\ ~Distribution(Href(d)) /\ ~TooLong(Href(d))
       \/ /\ answer.status = "redirect"
          /\ answer.links = {Href(d)}

Known == seen \cup todo

\* What the crawler was told of it has visited or will visit, and it has noted every
\* file it was given.
FindInv ==
    /\ todo \cup seen \subseteq Targets
    /\ answer.status \in {"listing", "redirect"} =>
          artifact # None /\ Projects(artifact) /\ \E d : StartsAt(d)
    /\ answer.links \subseteq Known
    /\ \A t \in seen : Get(t).links \subseteq Known
    /\ \A t \in seen : Get(t).status = "file" => Get(t).file \in got
    /\ got \subseteq Titles(artifact)

\* The first answer.
LEMMA BeginFinds ==
    ASSUME NEW r \in Typed, Begin(r)
    PROVE  FindInv'
<1>1. r.target \in Targets
  BY BrowseAssumption DEF Requests
<1>2. /\ artifact' = artifact /\ answer' = Answer(artifact, r)
      /\ todo' = Answer(artifact, r).links /\ seen' = {} /\ got' = {}
  BY DEF Begin, artifactVars
<1>3. todo' \subseteq Targets
  BY <1>1, <1>2, LinksLand
<1>4. ASSUME Answer(artifact, r).status \in {"listing", "redirect"}
      PROVE  artifact # None /\ Projects(artifact) /\ \E d : StartsAt(d)'
  <2> DEFINE p == Tail(r.target)
             T == Titles(artifact)
  <2>1. /\ artifact # None /\ Projects(artifact)
        /\ p \in Paths /\ Len(p) > 0 /\ (p = Root \/ ValidPath(p))
        /\ Answer(artifact, r) = Found(T, p)
        /\ ~Distribution(Href(p)) /\ ~TooLong(Href(p))
    BY <1>1, <1>4, AnswerIsLookedUp
  <2> HIDE DEF p
  <2>2. CASE answer'.status = "listing"
    <3>1. /\ Answer(artifact, r) = SayListing(Links(T, p)) /\ (p = Root \/ IsDirectory(p))
      BY <1>2, <2>1, <2>2 DEF Found, Say, SayFile, SayListing, SayRedirect
    <3>2. Listed(p)
      BY <2>1, <3>1 DEF Listed
    <3>3. answer'.links = Links(T, p)
      BY <1>2, <3>1 DEF SayListing
    <3> QED
      BY <1>2, <2>1, <2>2, <3>2, <3>3 DEF StartsAt
  <2>3. CASE answer'.status = "redirect"
    <3> DEFINE d == AsDirectory(p)
    <3>1. Answer(artifact, r) = SayRedirect(Href(d)) /\ HasDirectory(T, d)
      BY <1>2, <2>1, <2>3 DEF Found, Say, SayFile, SayListing, SayRedirect, Candidate
    <3>2. Listed(d)
      <4>1. Len(p) \in Nat
        BY <2>1 DEF Paths
      <4> QED
        BY <2>1, <3>1, <4>1, DirectorySpelling DEF Listed, IsDirectory, HasDirectory
    <3>3. answer'.links = {Href(d)}
      BY <1>2, <3>1 DEF SayRedirect
    <3> QED
      BY <2>1, <2>3, <3>2, <3>3 DEF StartsAt
  <2> QED
    BY <1>2, <1>4, <2>1, <2>2, <2>3
<1> QED
  BY <1>2, <1>3, <1>4 DEF FindInv, Known

\* A visit.
LEMMA VisitFinds ==
    ASSUME FindInv, NEW t \in todo, Visit(t)
    PROVE  FindInv'
<1> DEFINE page == Get(t)
           r    == [method |-> "GET", target |-> t, head |-> Plainly, auths |-> 0]
<1>1. /\ artifact' = artifact /\ answer' = answer
      /\ seen' = seen \cup {t} /\ todo' = (todo \cup page.links) \ seen'
      /\ got' = got \cup (IF page.status = "file" THEN {page.file} ELSE {})
  BY DEF Visit, artifactVars
<1>2. t \in Targets /\ r.target = t /\ page = Answer(artifact, r)
  BY DEF FindInv, Get
<1> HIDE DEF page, r
<1>3. page.links \subseteq Targets
  BY <1>2, LinksLand
<1>4. page.status = "file" => page.file \in Titles(artifact)
  <2> SUFFICES ASSUME page.status = "file" PROVE page.file \in Titles(artifact)
    OBVIOUS
  <2>1. page = Found(Titles(artifact), Tail(t))
    BY <1>2, AnswerIsLookedUp
  <2> QED
    BY <2>1 DEF Found, Object, Say, SayFile, SayListing, SayRedirect
<1>5. Known' = Known \cup page.links
  BY <1>1 DEF Known
<1>6. \A u : Get(u)' = Get(u)
  BY <1>1 DEF Get
<1>7. \A d : StartsAt(d)' <=> StartsAt(d)
  BY <1>1 DEF StartsAt
<1>8. \A u \in seen' : Get(u)'.links \subseteq Known'
  BY <1>1, <1>5, <1>6 DEF FindInv, page
<1>9. \A u \in seen' : Get(u)'.status = "file" => Get(u)'.file \in got'
  BY <1>1, <1>6 DEF FindInv, page
<1>10. todo' \cup seen' \subseteq Targets /\ got' \subseteq Titles(artifact')
       /\ answer'.links \subseteq Known'
  BY <1>1, <1>2, <1>3, <1>4, <1>5 DEF FindInv
<1> QED
  BY <1>1, <1>7, <1>8, <1>9, <1>10 DEF FindInv

LEMMA FindStep == FindInv /\ [Next]_vars => FindInv'
<1> SUFFICES ASSUME FindInv, [Next]_vars PROVE FindInv'
  OBVIOUS
<1>1. ASSUME NEW m, NEW D, Change(m, D) PROVE FindInv'
  BY <1>1 DEF Change, FindInv, Known, Say
<1>2. CASE UNCHANGED vars
  <2>1. UNCHANGED <<artifact, answer, todo, seen, got>>
    BY <1>2 DEF vars, artifactVars, crawlVars
  <2>2. (\A u : Get(u)' = Get(u)) /\ (\A d : StartsAt(d)' <=> StartsAt(d))
    BY <2>1 DEF Get, StartsAt
  <2> QED
    BY <2>1, <2>2 DEF FindInv, Known
<1> QED
  BY <1>1, <1>2, BeginFinds, VisitFinds DEF Next, Publish, Push

\* What lies on the way of a crawl that is over.
OnTheWay(d) ==
    /\ Listed(d)
    /\ ~Distribution(Href(d)) /\ ~TooLong(Href(d))
    /\ Links(Titles(artifact), d) \subseteq seen

\* Only the root is a directory by another name; it is no target of its own.
LEMMA DirectoriesAreFree ==
    ASSUME NEW d, Listed(d), ~Distribution(Href(d))
    PROVE  ~Reserved(Href(d))
<1>1. d \in Paths /\ Len(d) > 0 /\ Len(d) \in Nat /\ d[Len(d)] = Nil
  BY DEF Listed, Root, IsDirectory, Paths
<1>2. Href(d) \notin Health
  <2> SUFFICES ASSUME NEW s, Href(d) = Href(<<s>>), s # Nil PROVE FALSE
    BY DEF Health, Nil
  <2>1. Len(<<s>>) = 1 /\ <<s>>[1] = s /\ <<Nil>> \in Seq({Nil, s}) /\ <<s>> \in Seq({Nil, s})
    OBVIOUS
  <2>2. Len(Href(<<s>>)) = 2 /\ Href(<<s>>)[2] = s
    BY <2>1, ConcatProperties DEF Href
  <2>3. Len(Href(d)) = Len(d) + 1 /\ Href(d)[2] = d[1]
    BY <1>1, HrefFacts
  <2>4. Len(d) = 1
    BY <1>1, <2>2, <2>3
  <2>5. d[1] = s
    BY <2>2, <2>3
  <2> QED
    BY <1>1, <2>4, <2>5
<1> QED
  BY <1>2 DEF Reserved

\* A directory that was visited has shown its links.
LEMMA VisitedIsListed ==
    ASSUME FindInv, todo = {}, artifact # None, Projects(artifact),
           NEW d, Listed(d), Href(d) \in seen, ~Distribution(Href(d)), ~TooLong(Href(d))
    PROVE  OnTheWay(d)
<1> DEFINE T == Titles(artifact)
<1>1. GoodTitles(T)
  BY ProjectedTitles
<1>2. d \notin T /\ Reachable(T, d) /\ (d = Root \/ IsDirectory(d))
  BY <1>1 DEF Listed, Reachable, GoodTitles, FileTitle, Root, IsDirectory
<1>3. Get(Href(d)) = Found(T, d)
  BY <1>2, DirectoriesAreFree, LinkIsLookedUp
<1>4. Get(Href(d)) = SayListing(Links(T, d))
  BY <1>2, <1>3 DEF Found, Object
<1>5. Get(Href(d)).links \subseteq seen
  BY DEF FindInv, Known
<1> QED
  BY <1>4, <1>5 DEF OnTheWay, SayListing

\* The directory above is on the way, too.
LEMMA ParentOnTheWay ==
    ASSUME FindInv, todo = {}, artifact # None, Projects(artifact),
           NEW d, OnTheWay(d), d # Root
    PROVE  OnTheWay(Parent(d)) /\ Len(Parent(d)) < Len(d)
<1> DEFINE e == Parent(d)
<1>1. Reachable(Titles(artifact), e) /\ Len(e) < Len(d)
  BY ParentReachable DEF OnTheWay
<1>2. /\ Listed(e) /\ Bytes(e) <= Bytes(d) /\ (e = Root \/ e[1] = d[1])
      /\ Listed(d) /\ ~Distribution(Href(d)) /\ ~TooLong(Href(d))
  BY ParentReachable DEF OnTheWay
<1> HIDE DEF e
<1>3. /\ d \in Paths /\ Len(d) \in Nat /\ Len(d) > 0 /\ Bytes(d) \in Nat
      /\ e \in Paths /\ Len(e) \in Nat /\ Len(e) > 0 /\ Bytes(e) \in Nat
  BY <1>2, BytesType DEF Listed, Paths
<1>4. /\ Tail(Href(d)) = d /\ Len(Href(d)) = Len(d) + 1 /\ Href(d)[2] = d[1]
      /\ Tail(Href(e)) = e /\ Len(Href(e)) = Len(e) + 1 /\ Href(e)[2] = e[1]
  BY <1>3, HrefFacts
<1>5. ~Distribution(Href(e))
  <2>1. CASE e = Root
    <3>1. Len(Href(e)) = 2
      BY <1>4, <2>1, RootIsPath
    <3> QED
      BY <3>1 DEF Distribution
  <2>2. CASE e[1] = d[1]
    <3>1. Len(Href(e)) < Len(Href(d)) /\ Href(e)[2] = Href(d)[2]
      BY <1>1, <1>3, <1>4, <2>2 DEF e
    <3>2. Len(Href(e)) \in Nat /\ Len(Href(d)) \in Nat
      BY <1>3, <1>4
    <3> QED
      BY <1>2, <3>1, <3>2 DEF Distribution
  <2> QED
    BY <1>2, <2>1, <2>2
<1>6. ~TooLong(Href(e))
  <2>1. ~(Bytes(d) + 1 > MaxTarget)
    BY <1>2, <1>4 DEF TooLong, TargetBytes
  <2>2. ~(Bytes(e) + 1 > MaxTarget)
    BY <2>1, <1>2, <1>3, LimitsAssumption
  <2> QED
    BY <2>2, <1>4 DEF TooLong, TargetBytes
<1>7. Href(e) \in seen
  BY DEF OnTheWay, Links, e
<1>8. OnTheWay(e)
  BY <1>2, <1>5, <1>6, <1>7, VisitedIsListed
<1> QED
  BY <1>1, <1>8 DEF e

\* So the crawl has seen the root.
LEMMA RootOnTheWay ==
    ASSUME FindInv, todo = {}, artifact # None, Projects(artifact), NEW d, OnTheWay(d)
    PROVE  OnTheWay(Root)
<1> DEFINE S == {n \in Nat : \E e : OnTheWay(e) /\ Len(e) = n}
<1>1. \A e : OnTheWay(e) => Len(e) \in S
  BY DEF OnTheWay, Listed, Paths
<1>2. PICK n \in S : \A k \in S : n <= k
  <2>1. S \in SUBSET Nat /\ S # {}
    BY <1>1
  <2> HIDE DEF S
  <2> QED
    BY <2>1, LeastNatural
<1>3. PICK e : OnTheWay(e) /\ Len(e) = n
  OBVIOUS
<1>4. e = Root
  <2> SUFFICES ASSUME e # Root PROVE FALSE
    OBVIOUS
  <2>1. OnTheWay(Parent(e)) /\ Len(Parent(e)) < n
    BY <1>3, ParentOnTheWay
  <2>2. Len(Parent(e)) \in S
    BY <1>1, <2>1
  <2>3. Len(Parent(e)) \in Nat /\ n \in Nat
    BY <2>1 DEF OnTheWay, Listed, Paths
  <2> HIDE DEF S
  <2> QED
    BY <1>2, <2>1, <2>2, <2>3
<1> QED
  BY <1>3, <1>4

(***************************************************************************)
(* The order of titles, which is total.                                    *)
(***************************************************************************)

\* Two sequences differ where one ends, or at a first place.
LEMMA FirstDifference ==
    ASSUME NEW S, NEW x \in Seq(S), NEW y \in Seq(S), x # y
    PROVE  \E n \in Nat :
              /\ n <= Len(x) /\ n <= Len(y) /\ \A i \in 1..n : x[i] = y[i]
              /\ \/ n = Len(x) /\ n < Len(y)
                 \/ n = Len(y) /\ n < Len(x)
                 \/ n < Len(x) /\ n < Len(y) /\ x[n + 1] # y[n + 1]
<1> DEFINE D == {k \in Nat : k >= 1 /\ k <= Len(x) /\ k <= Len(y) /\ x[k] # y[k]}
<1>1. Len(x) \in Nat /\ Len(y) \in Nat
  OBVIOUS
<1>2. CASE D = {}
  <2>1. \A i \in Nat : i >= 1 /\ i <= Len(x) /\ i <= Len(y) => x[i] = y[i]
    BY <1>2
  <2>2. Len(x) # Len(y)
    <3> SUFFICES ASSUME Len(x) = Len(y) PROVE FALSE
      OBVIOUS
    <3>1. \A i \in 1..Len(x) : x[i] = y[i]
      BY <1>1, <2>1
    <3> QED
      BY <3>1, SeqEqual
  <2> HIDE DEF D
  <2>3. CASE Len(x) < Len(y)
    <3>1. \A i \in 1..Len(x) : x[i] = y[i]
      BY <1>1, <2>1, <2>3
    <3> QED
      BY <1>1, <2>3, <3>1
  <2>4. CASE Len(y) < Len(x)
    <3>1. \A i \in 1..Len(y) : x[i] = y[i]
      BY <1>1, <2>1, <2>4
    <3> QED
      BY <1>1, <2>4, <3>1
  <2> QED
    BY <1>1, <2>2, <2>3, <2>4
<1>3. CASE D # {}
  <2>1. PICK k \in D : \A j \in D : k <= j
    <3>1. D \in SUBSET Nat
      OBVIOUS
    <3> HIDE DEF D
    <3> QED
      BY <1>3, <3>1, LeastNatural
  <2>2. k \in Nat /\ k >= 1 /\ k <= Len(x) /\ k <= Len(y) /\ x[k] # y[k]
    OBVIOUS
  <2>3. \A i \in 1..(k - 1) : x[i] = y[i]
    <3> SUFFICES ASSUME NEW i \in 1..(k - 1), x[i] # y[i] PROVE FALSE
      OBVIOUS
    <3>1. i \in Nat /\ i >= 1 /\ i < k /\ i <= Len(x) /\ i <= Len(y)
      BY <1>1, <2>2
    <3>2. i \in D
      BY <3>1
    <3> HIDE DEF D
    <3> QED
      BY <2>1, <2>2, <3>1, <3>2
  <2> HIDE DEF D
  <2>4. k - 1 \in Nat /\ k - 1 < Len(x) /\ k - 1 < Len(y) /\ (k - 1) + 1 = k
    BY <1>1, <2>2
  <2> QED
    BY <2>2, <2>3, <2>4
<1> QED
  BY <1>2, <1>3

LEMMA PrecedesTotal ==
    ASSUME NEW x \in Seq(Nat), NEW y \in Seq(Nat), x # y
    PROVE  Precedes(x, y) \/ Precedes(y, x)
<1>1. PICK n \in Nat :
         /\ n <= Len(x) /\ n <= Len(y) /\ \A i \in 1..n : x[i] = y[i]
         /\ \/ n = Len(x) /\ n < Len(y)
            \/ n = Len(y) /\ n < Len(x)
            \/ n < Len(x) /\ n < Len(y) /\ x[n + 1] # y[n + 1]
  BY FirstDifference
<1>2. Len(x) \in Nat /\ Len(y) \in Nat /\ n \in 0..Len(x) /\ n \in 0..Len(y)
  BY <1>1
<1>3. CASE n = Len(x) /\ n < Len(y)
  BY <1>1, <1>2, <1>3 DEF Precedes
<1>4. CASE n = Len(y) /\ n < Len(x)
  BY <1>1, <1>2, <1>4 DEF Precedes
<1>5. CASE n < Len(x) /\ n < Len(y) /\ x[n + 1] # y[n + 1]
  <2>1. x[n + 1] \in Nat /\ y[n + 1] \in Nat
    BY <1>2, <1>5, ElementOfSeq
  <2>2. x[n + 1] < y[n + 1] \/ y[n + 1] < x[n + 1]
    BY <1>5, <2>1
  <2> QED
    BY <1>1, <1>2, <1>5, <2>2 DEF Precedes
<1> QED
  BY <1>1, <1>3, <1>4, <1>5

LEMMA PrecedesTransitive ==
    ASSUME NEW x \in Seq(Nat), NEW y \in Seq(Nat), NEW z \in Seq(Nat),
           Precedes(x, y), Precedes(y, z)
    PROVE  Precedes(x, z)
<1>1. PICK n \in 0..Len(x) :
         /\ n < Len(y) /\ \A i \in 1..n : x[i] = y[i]
         /\ n = Len(x) \/ x[n + 1] < y[n + 1]
  BY DEF Precedes
<1>2. PICK m \in 0..Len(y) :
         /\ m < Len(z) /\ \A i \in 1..m : y[i] = z[i]
         /\ m = Len(y) \/ y[m + 1] < z[m + 1]
  BY DEF Precedes
<1>3. Len(x) \in Nat /\ Len(y) \in Nat /\ Len(z) \in Nat
  OBVIOUS
<1>4. CASE n < m
  <2>1. n < Len(z) /\ \A i \in 1..n : x[i] = z[i]
    BY <1>1, <1>2, <1>3, <1>4
  <2>2. y[n + 1] = z[n + 1]
    BY <1>2, <1>3, <1>4
  <2> QED
    BY <1>1, <2>1, <2>2 DEF Precedes
<1>5. CASE n = m
  <2>1. n < Len(z) /\ \A i \in 1..n : x[i] = z[i]
    BY <1>1, <1>2, <1>3, <1>5
  <2>2. n = Len(x) \/ x[n + 1] < z[n + 1]
    <3> SUFFICES ASSUME n # Len(x) PROVE x[n + 1] < z[n + 1]
      OBVIOUS
    <3>1. x[n + 1] \in Nat /\ y[n + 1] \in Nat /\ z[n + 1] \in Nat
      <4>1. n + 1 \in 1..Len(x) /\ n + 1 \in 1..Len(y) /\ n + 1 \in 1..Len(z)
        BY <1>1, <1>3, <2>1
      <4> QED
        BY <4>1, ElementOfSeq
    <3>2. x[n + 1] < y[n + 1] /\ y[n + 1] < z[n + 1]
      BY <1>1, <1>2, <1>5
    <3> QED
      BY <3>1, <3>2
  <2> QED
    BY <2>1, <2>2 DEF Precedes
<1>6. CASE n > m
  <2>1. m \in 0..Len(x) /\ m < Len(z) /\ \A i \in 1..m : x[i] = z[i]
    BY <1>1, <1>2, <1>3, <1>6
  <2>2. x[m + 1] = y[m + 1] /\ m # Len(y)
    BY <1>1, <1>2, <1>3, <1>6
  <2> QED
    BY <1>2, <2>1, <2>2 DEF Precedes
<1> QED
  BY <1>4, <1>5, <1>6

LEMMA WrittenType ==
    ASSUME NEW p \in Paths, NEW i \in 1..Len(p)
    PROVE  Written(p, i) \in Seq(Nat)
<1>1. Spelling[p[i]] \in Seq(Nat) /\ <<Slash>> \in Seq(Nat)
  <2>1. p[i] \in Segments
    BY DEF Paths
  <2> QED
    BY <2>1, SpellingAssumption, PublisherAssumption
<1> QED
  BY <1>1 DEF Written

\* A segment with a slash follows the segment without it, and each segment has
\* spellings of its own.
LEMMA SlashFollows ==
    ASSUME NEW x \in Seq(Nat)
    PROVE  Precedes(x, x \o <<Slash>>)
<1>1. Slash \in Nat /\ Len(x) \in Nat
  BY PublisherAssumption
<1>2. Len(x \o <<Slash>>) = Len(x) + 1 /\ \A i \in 1..Len(x) : (x \o <<Slash>>)[i] = x[i]
  BY <1>1, Extended
<1> QED
  BY <1>1, <1>2 DEF Precedes

LEMMA WrittenDiffers ==
    ASSUME NEW p \in Paths, NEW q \in Paths, NEW i \in 1..Len(p), i \in 1..Len(q), p[i] # q[i]
    PROVE  Written(p, i) # Written(q, i)
<1> DEFINE x == Spelling[p[i]]
           y == Spelling[q[i]]
<1>1. p[i] \in Segments /\ q[i] \in Segments
  BY DEF Paths
<1>2. x \in Seq(Nat) /\ y \in Seq(Nat) /\ x # y /\ Len(x) \in Nat /\ Len(y) \in Nat
      /\ (\A k \in 1..Len(x) : x[k] # Slash) /\ (\A k \in 1..Len(y) : y[k] # Slash)
  <2>1. x \in Seq(Nat) /\ y \in Seq(Nat) /\ x # y
    BY <1>1, SpellingAssumption, SegmentAssumption
  <2>2. DOMAIN x = 1..Len(x) /\ DOMAIN y = 1..Len(y)
    BY <2>1
  <2> QED
    BY <1>1, <2>1, <2>2, SegmentAssumption
<1>3. Slash \in Nat
  BY PublisherAssumption
<1> DEFINE xs == x \o <<Slash>>
           ys == y \o <<Slash>>
<1>4. /\ Len(xs) = Len(x) + 1 /\ xs[Len(x) + 1] = Slash /\ \A k \in 1..Len(x) : xs[k] = x[k]
      /\ Len(ys) = Len(y) + 1 /\ ys[Len(y) + 1] = Slash /\ \A k \in 1..Len(y) : ys[k] = y[k]
  <2> HIDE DEF x, y
  <2> QED
    BY <1>2, <1>3, Extended
<1>5. Written(p, i) \in {x, xs} /\ Written(q, i) \in {y, ys}
  <2>1. x \o <<>> = x /\ y \o <<>> = y
    <3> HIDE DEF x, y
    <3> QED
      BY <1>2, ConcatEmptySeq
  <2> QED
    BY <2>1 DEF Written
<1> HIDE DEF x, y, xs, ys
<1>6. xs # ys
  <2> SUFFICES ASSUME xs = ys PROVE FALSE
    OBVIOUS
  <2>1. Len(x) = Len(y)
    BY <1>2, <1>4
  <2>2. \A k \in 1..Len(x) : x[k] = y[k]
    BY <1>4, <2>1
  <2> QED
    BY <1>2, <2>1, <2>2, SeqEqual
<1>7. xs # y
  <2> SUFFICES ASSUME xs = y PROVE FALSE
    OBVIOUS
  <2>1. Len(x) + 1 \in 1..Len(y)
    BY <1>2, <1>4
  <2> QED
    BY <1>2, <1>4, <2>1
<1>8. x # ys
  <2> SUFFICES ASSUME x = ys PROVE FALSE
    OBVIOUS
  <2>1. Len(y) + 1 \in 1..Len(x)
    BY <1>2, <1>4
  <2> QED
    BY <1>2, <1>4, <2>1
<1> QED
  BY <1>2, <1>5, <1>6, <1>7, <1>8

LEMMA TitlesTotal ==
    ASSUME NEW p \in Paths, NEW q \in Paths, p # q
    PROVE  TitleLess(p, q) \/ TitleLess(q, p)
<1>1. PICK n \in Nat :
         /\ n <= Len(p) /\ n <= Len(q) /\ \A i \in 1..n : p[i] = q[i]
         /\ \/ n = Len(p) /\ n < Len(q)
            \/ n = Len(q) /\ n < Len(p)
            \/ n < Len(p) /\ n < Len(q) /\ p[n + 1] # q[n + 1]
  BY FirstDifference DEF Paths
<1>2. Len(p) \in Nat /\ Len(q) \in Nat /\ n \in 0..Len(p) /\ n \in 0..Len(q)
  BY <1>1 DEF Paths
<1>3. CASE n = Len(p) /\ n < Len(q)
  BY <1>1, <1>2, <1>3 DEF TitleLess
<1>4. CASE n = Len(q) /\ n < Len(p)
  BY <1>1, <1>2, <1>4 DEF TitleLess
<1>5. CASE n < Len(p) /\ n < Len(q) /\ p[n + 1] # q[n + 1]
  <2>1. n + 1 \in 1..Len(p) /\ n + 1 \in 1..Len(q)
    BY <1>2, <1>5
  <2>2. Precedes(Written(p, n + 1), Written(q, n + 1)) \/ Precedes(Written(q, n + 1), Written(p, n + 1))
    BY <1>5, <2>1, WrittenType, WrittenDiffers, PrecedesTotal
  <2> QED
    BY <1>1, <1>2, <1>5, <2>2 DEF TitleLess
<1> QED
  BY <1>1, <1>3, <1>4, <1>5

\* Where two titles share a segment, what precedes it in the one precedes it in
\* the other that goes on.
LEMMA WrittenFollows ==
    ASSUME NEW p \in Paths, NEW q \in Paths, NEW i \in 1..Len(p), i \in 1..Len(q),
           p[i] = q[i], i < Len(q)
    PROVE  Written(p, i) = Written(q, i) \/ Precedes(Written(p, i), Written(q, i))
<1>1. Spelling[p[i]] \in Seq(Nat)
  <2>1. p[i] \in Segments
    BY DEF Paths
  <2> QED
    BY <2>1, SpellingAssumption
<1>2. Written(q, i) = Spelling[p[i]] \o <<Slash>>
  BY DEF Written
<1>3. CASE i < Len(p)
  BY <1>2, <1>3 DEF Written
<1>4. CASE ~(i < Len(p))
  <2>1. Written(p, i) = Spelling[p[i]]
    BY <1>1, <1>4, ConcatEmptySeq DEF Written
  <2> QED
    BY <1>1, <1>2, <2>1, SlashFollows
<1> QED
  BY <1>3, <1>4

LEMMA TitlesTransitive ==
    ASSUME NEW p \in Paths, NEW q \in Paths, NEW r \in Paths, TitleLess(p, q), TitleLess(q, r)
    PROVE  TitleLess(p, r)
<1>1. PICK n \in 0..Len(p) :
         /\ n < Len(q) /\ \A i \in 1..n : p[i] = q[i]
         /\ n = Len(p) \/ Precedes(Written(p, n + 1), Written(q, n + 1))
  BY DEF TitleLess
<1>2. PICK m \in 0..Len(q) :
         /\ m < Len(r) /\ \A i \in 1..m : q[i] = r[i]
         /\ m = Len(q) \/ Precedes(Written(q, m + 1), Written(r, m + 1))
  BY DEF TitleLess
<1>3. Len(p) \in Nat /\ Len(q) \in Nat /\ Len(r) \in Nat
  BY DEF Paths
<1>4. CASE n < m
  <2>1. n < Len(r) /\ \A i \in 1..n : p[i] = r[i]
    BY <1>1, <1>2, <1>3, <1>4
  <2>2. ASSUME n # Len(p)
        PROVE  Precedes(Written(p, n + 1), Written(r, n + 1))
    <3>1. n + 1 \in 1..Len(p) /\ n + 1 \in 1..Len(q) /\ n + 1 \in 1..Len(r) /\ n + 1 < Len(r)
      BY <1>1, <1>2, <1>3, <1>4, <2>2
    <3>2. q[n + 1] = r[n + 1]
      BY <1>2, <1>3, <1>4
    <3>3. /\ Written(p, n + 1) \in Seq(Nat) /\ Written(q, n + 1) \in Seq(Nat)
          /\ Written(r, n + 1) \in Seq(Nat)
      BY <3>1, WrittenType
    <3>4. \/ Written(q, n + 1) = Written(r, n + 1)
          \/ Precedes(Written(q, n + 1), Written(r, n + 1))
      BY <3>1, <3>2, WrittenFollows
    <3>5. Precedes(Written(p, n + 1), Written(q, n + 1))
      BY <1>1, <2>2
    <3> QED
      BY <3>3, <3>4, <3>5, PrecedesTransitive
  <2> QED
    BY <2>1, <2>2 DEF TitleLess
<1>5. CASE n = m
  <2>1. n < Len(r) /\ \A i \in 1..n : p[i] = r[i]
    BY <1>1, <1>2, <1>3, <1>5
  <2>2. ASSUME n # Len(p)
        PROVE  Precedes(Written(p, n + 1), Written(r, n + 1))
    <3>1. n + 1 \in 1..Len(p) /\ n + 1 \in 1..Len(q) /\ n + 1 \in 1..Len(r)
      BY <1>1, <1>3, <2>1, <2>2
    <3>2. /\ Written(p, n + 1) \in Seq(Nat) /\ Written(q, n + 1) \in Seq(Nat)
          /\ Written(r, n + 1) \in Seq(Nat)
      BY <3>1, WrittenType
    <3>3. /\ Precedes(Written(p, n + 1), Written(q, n + 1))
          /\ Precedes(Written(q, n + 1), Written(r, n + 1))
      BY <1>1, <1>2, <1>3, <1>5, <2>2
    <3> QED
      BY <3>2, <3>3, PrecedesTransitive
  <2> QED
    BY <2>1, <2>2 DEF TitleLess
<1>6. CASE n > m
  <2>1. m \in 0..Len(p) /\ m < Len(r) /\ \A i \in 1..m : p[i] = r[i]
    BY <1>1, <1>2, <1>3, <1>6
  <2>2. /\ m + 1 \in 1..Len(p) /\ m + 1 \in 1..Len(q) /\ m + 1 \in 1..Len(r)
        /\ m + 1 < Len(q) /\ p[m + 1] = q[m + 1]
    BY <1>1, <1>2, <1>3, <1>6
  <2>3. /\ Written(p, m + 1) \in Seq(Nat) /\ Written(q, m + 1) \in Seq(Nat)
        /\ Written(r, m + 1) \in Seq(Nat)
    BY <2>2, WrittenType
  <2>4. \/ Written(p, m + 1) = Written(q, m + 1)
        \/ Precedes(Written(p, m + 1), Written(q, m + 1))
    BY <2>2, WrittenFollows
  <2>5. Precedes(Written(q, m + 1), Written(r, m + 1))
    BY <1>2, <1>3, <2>2
  <2>6. Precedes(Written(p, m + 1), Written(r, m + 1))
    BY <2>3, <2>4, <2>5, PrecedesTransitive
  <2> QED
    BY <2>1, <2>6 DEF TitleLess
<1> QED
  BY <1>1, <1>2, <1>3, <1>4, <1>5, <1>6

(***************************************************************************)
(* So a directory can be sorted.                                           *)
(***************************************************************************)

InOrder(D, s) ==
    /\ s \in SetToSeqs(D)
    /\ \A i, j \in DOMAIN s : i < j => TitleLess(s[i], s[j])

\* Of the sets of titles that hold no first one, or cannot be sorted, there would
\* be a smallest.
LEMMA FirstTitle ==
    ASSUME NEW D \in SUBSET Paths, IsFiniteSet(D), D # {}
    PROVE  \E p \in D : \A q \in D : p = q \/ TitleLess(p, q)
<1> DEFINE HasFirst(E) == \E p \in E : \A q \in E : p = q \/ TitleLess(p, q)
           Sizes == {n \in Nat : \E E \in SUBSET D : E # {} /\ Cardinality(E) = n /\ ~HasFirst(E)}
<1> SUFFICES ASSUME ~HasFirst(D) PROVE FALSE
  OBVIOUS
<1>1. \A E \in SUBSET D : IsFiniteSet(E) /\ Cardinality(E) \in Nat
  BY FS_Subset, FS_CardinalityType
<1>2. Cardinality(D) \in Sizes
  BY <1>1
<1>3. PICK n \in Sizes : \A k \in Sizes : n <= k
  <2>1. Sizes \in SUBSET Nat /\ Sizes # {}
    BY <1>2
  <2> HIDE DEF Sizes
  <2> QED
    BY <2>1, LeastNatural
<1>4. PICK E \in SUBSET D : E # {} /\ Cardinality(E) = n /\ ~HasFirst(E)
  OBVIOUS
<1>5. PICK x \in E : TRUE
  BY <1>4
<1> DEFINE F == E \ {x}
<1>6. F \in SUBSET D /\ Cardinality(F) = n - 1
  BY <1>1, <1>4, <1>5, FS_RemoveElement
<1>7. F # {}
  <2> SUFFICES ASSUME F = {} PROVE FALSE
    OBVIOUS
  <2>1. E = {x}
    BY <1>5
  <2>2. HasFirst(E)
    BY <2>1
  <2> QED
    BY <1>4, <2>2
<1>8. HasFirst(F)
  <2> SUFFICES ASSUME ~HasFirst(F) PROVE FALSE
    OBVIOUS
  <2>1. n \in Nat /\ n - 1 \in Nat
    BY <1>1, <1>6
  <2>2. n - 1 \in Sizes
    BY <1>6, <1>7, <2>1
  <2> HIDE DEF Sizes, F, HasFirst
  <2> QED
    BY <1>3, <2>1, <2>2
<1>9. PICK p \in F : \A q \in F : p = q \/ TitleLess(p, q)
  BY <1>8
<1>10. x \in Paths /\ p \in Paths /\ x # p /\ E \subseteq Paths /\ p \in E
  BY <1>4, <1>5, <1>6, <1>9
<1>11. CASE TitleLess(p, x)
  <2>1. \A q \in E : p = q \/ TitleLess(p, q)
    BY <1>9, <1>11
  <2> QED
    BY <1>4, <1>10, <2>1
<1>12. CASE TitleLess(x, p)
  <2>1. ASSUME NEW q \in E, x # q PROVE TitleLess(x, q)
    <3>1. q \in F /\ q \in Paths
      BY <1>10, <2>1
    <3>2. p = q \/ TitleLess(p, q)
      BY <1>9, <3>1
    <3> QED
      BY <1>10, <1>12, <3>1, <3>2, TitlesTransitive
  <2>2. HasFirst(E)
    BY <1>5, <2>1
  <2> QED
    BY <1>4, <2>2
<1> QED
  BY <1>10, <1>11, <1>12, TitlesTotal

LEMMA TitlesSort ==
    ASSUME NEW D \in SUBSET Paths, IsFiniteSet(D)
    PROVE  \E s : InOrder(D, s)
<1> DEFINE Sortable(E) == \E s : InOrder(E, s)
           Sizes == {n \in Nat : \E E \in SUBSET D : Cardinality(E) = n /\ ~Sortable(E)}
<1> SUFFICES ASSUME ~Sortable(D) PROVE FALSE
  OBVIOUS
<1>1. \A E \in SUBSET D : IsFiniteSet(E) /\ Cardinality(E) \in Nat
  BY FS_Subset, FS_CardinalityType
<1>2. Cardinality(D) \in Sizes
  BY <1>1
<1>3. PICK n \in Sizes : \A k \in Sizes : n <= k
  <2>1. Sizes \in SUBSET Nat /\ Sizes # {}
    BY <1>2
  <2> HIDE DEF Sizes
  <2> QED
    BY <2>1, LeastNatural
<1>4. PICK E \in SUBSET D : Cardinality(E) = n /\ ~Sortable(E)
  OBVIOUS
<1>5. E # {}
  <2> SUFFICES ASSUME E = {} PROVE FALSE
    OBVIOUS
  <2>1. Cardinality(E) = 0
    BY FS_EmptySet
  <2>2. [i \in 1..0 |-> i] \in [1..0 -> E]
    OBVIOUS
  <2>3. InOrder(E, [i \in 1..0 |-> i])
    BY <2>1, <2>2 DEF InOrder, SetToSeqs
  <2> QED
    BY <1>4, <2>3
<1>6. PICK x \in E : \A q \in E : x = q \/ TitleLess(x, q)
  BY <1>1, <1>4, <1>5, FirstTitle
<1> DEFINE F == E \ {x}
<1>7. F \in SUBSET D /\ Cardinality(F) = n - 1 /\ n \in Nat /\ n - 1 \in Nat
  <2>1. F \in SUBSET D /\ Cardinality(F) = n - 1
    BY <1>1, <1>4, <1>6, FS_RemoveElement
  <2> QED
    BY <1>1, <1>4, <2>1
<1>8. PICK s : InOrder(F, s)
  <2> SUFFICES ASSUME ~Sortable(F) PROVE FALSE
    OBVIOUS
  <2>1. n - 1 \in Sizes
    BY <1>7
  <2> HIDE DEF Sizes, F, Sortable
  <2> QED
    BY <1>3, <1>7, <2>1
<1> DEFINE w == [i \in 1..n |-> IF i = 1 THEN x ELSE s[i - 1]]
<1>9. /\ s \in [1..(n - 1) -> F] /\ \A i, j \in 1..(n - 1) : i # j => s[i] # s[j]
      /\ \A i, j \in 1..(n - 1) : i < j => TitleLess(s[i], s[j])
  <2>1. s \in SetToSeqs(F)
    BY <1>8 DEF InOrder
  <2>2. s \in [1..(n - 1) -> F] /\ \A i, j \in 1..(n - 1) : i # j => s[i] # s[j]
    BY <1>7, <2>1 DEF SetToSeqs
  <2> QED
    BY <1>8, <2>2 DEF InOrder
<1>10. \A i \in 1..n : i # 1 => i - 1 \in 1..(n - 1) /\ s[i - 1] \in F
  <2>1. \A i \in 1..n : i # 1 => i - 1 \in 1..(n - 1)
    BY <1>7
  <2> QED
    BY <1>9, <2>1
<1>11. w \in [1..n -> E]
  BY <1>10
<1>12. \A i, j \in 1..n : i # j => w[i] # w[j]
  <2> SUFFICES ASSUME NEW i \in 1..n, NEW j \in 1..n, i # j PROVE w[i] # w[j]
    OBVIOUS
  <2>1. CASE i = 1 \/ j = 1
    BY <1>10, <2>1
  <2>2. CASE i # 1 /\ j # 1
    <3>1. i - 1 \in 1..(n - 1) /\ j - 1 \in 1..(n - 1) /\ i - 1 # j - 1
      BY <1>10, <2>2
    <3> QED
      BY <1>9, <2>2, <3>1
  <2> QED
    BY <2>1, <2>2
<1>13. \A i, j \in 1..n : i < j => TitleLess(w[i], w[j])
  <2> SUFFICES ASSUME NEW i \in 1..n, NEW j \in 1..n, i < j PROVE TitleLess(w[i], w[j])
    OBVIOUS
  <2>1. j # 1 /\ w[j] = s[j - 1] /\ s[j - 1] \in F
    BY <1>7, <1>10
  <2>2. CASE i = 1
    BY <1>6, <2>1, <2>2
  <2>3. CASE i # 1
    <3>1. i - 1 \in 1..(n - 1) /\ j - 1 \in 1..(n - 1) /\ i - 1 < j - 1
      BY <1>10, <2>1, <2>3
    <3> QED
      BY <1>9, <2>1, <2>3, <3>1
  <2> QED
    BY <2>2, <2>3
<1>14. InOrder(E, w)
  <2>1. DOMAIN w = 1..n
    OBVIOUS
  <2> HIDE DEF w
  <2> QED
    BY <1>4, <1>11, <1>12, <1>13, <2>1 DEF InOrder, SetToSeqs
<1> QED
  BY <1>4, <1>14

\* What the publisher makes of a directory.
LEMMA SortedTitles ==
    ASSUME NEW D \in SUBSET Paths, IsFiniteSet(D)
    PROVE  LET s == Sorted(D, TitleLess)
           IN  /\ s \in Seq(D) /\ Len(s) = Cardinality(D) /\ Cardinality(D) \in Nat
               /\ \A i, j \in 1..Len(s) : i # j => s[i] # s[j]
               /\ \A i, j \in 1..Len(s) : i < j => TitleLess(s[i], s[j])
               /\ \A p \in D : \E i \in 1..Len(s) : s[i] = p
<1> DEFINE s == Sorted(D, TitleLess)
           n == Cardinality(D)
<1>1. InOrder(D, s)
  <2>1. \E u \in SetToSeqs(D) : \A i, j \in DOMAIN u : i < j => TitleLess(u[i], u[j])
    BY TitlesSort DEF InOrder
  <2> QED
    BY <2>1 DEF InOrder, Sorted
<1> HIDE DEF s
<1>2. n \in Nat
  BY FS_CardinalityType
<1>3. s \in [1..n -> D] /\ \A i, j \in 1..n : i # j => s[i] # s[j]
  BY <1>1 DEF InOrder, SetToSeqs
<1>4. s \in Seq(D) /\ Len(s) = n
  BY <1>2, <1>3
<1>5. s \in Surjection(1..n, D)
  <2>1. s \in Injection(1..n, D)
    BY <1>3 DEF Injection, IsInjective
  <2>2. IsFiniteSet(1..n) /\ Cardinality(1..n) = n
    BY <1>2, FS_Interval
  <2> QED
    BY <2>1, <2>2, FS_Injection
<1> QED
  BY <1>1, <1>2, <1>3, <1>4, <1>5 DEF InOrder, Surjection, s

(***************************************************************************)
(* What the publisher writes is what the client reads.                     *)
(***************************************************************************)

LEMMA NativeManifest ==
    ASSUME NEW D \in Directories, Publishable(D)
    PROVE  LET s == Sorted(D, TitleLess)
               m == Published(D)
           IN  /\ m \in Manifests /\ m.standard /\ m.marked /\ m.empty
               /\ s \in Seq(D) /\ DOMAIN m.layers = 1..Len(s) /\ Len(m.layers) = Len(s)
               /\ Len(s) \in Nat /\ Len(s) > 0
               /\ \A i \in 1..Len(s) : m.layers[i] = NativeLayer(s[i])
<1> DEFINE s == Sorted(D, TitleLess)
           layers == [i \in DOMAIN s |-> NativeLayer(s[i])]
<1>1. D \subseteq Paths /\ IsFiniteSet(D) /\ D # {}
  BY BrowseAssumption DEF Publishable
<1>2. s \in Seq(D) /\ Len(s) = Cardinality(D) /\ Cardinality(D) \in Nat
  BY <1>1, SortedTitles
<1>3. Cardinality(D) # 0
  BY <1>1, FS_EmptySet
<1> HIDE DEF s
<1>4. DOMAIN s = 1..Len(s) /\ Len(s) \in Nat /\ Len(s) > 0
  BY <1>2, <1>3
<1>5. \A i \in 1..Len(s) : NativeLayer(s[i]) \in Layers
  <2> SUFFICES ASSUME NEW i \in 1..Len(s) PROVE NativeLayer(s[i]) \in Layers
    OBVIOUS
  <2>1. s[i] \in Paths
    BY <1>1, <1>2, <1>4
  <2> QED
    BY <2>1 DEF NativeLayer, Layers
<1>6. /\ layers \in Seq(Layers) /\ DOMAIN layers = 1..Len(s) /\ Len(layers) = Len(s)
      /\ \A i \in 1..Len(s) : layers[i] = NativeLayer(s[i])
  BY <1>4, <1>5
<1>7. Published(D) = [standard |-> TRUE, marked |-> TRUE, empty |-> TRUE, layers |-> layers]
  BY DEF Published, Native, s
<1> HIDE DEF layers
<1> QED
  BY <1>2, <1>4, <1>6, <1>7 DEF Manifests, s

LEMMA PublishedLoads ==
    ASSUME NEW D \in Directories, Publishable(D), ManifestBytes(Published(D)) <= MaxManifest
    PROVE  CrudCompatible(Published(D)) /\ Projects(Published(D)) /\ Titles(Published(D)) = D
<1> DEFINE s == Sorted(D, TitleLess)
           m == Published(D)
<1>1. /\ m.standard /\ m.marked /\ m.empty
      /\ DOMAIN m.layers = 1..Len(s) /\ Len(m.layers) = Len(s)
      /\ Len(s) \in Nat /\ Len(s) > 0
      /\ \A i \in 1..Len(s) : m.layers[i] = NativeLayer(s[i])
  BY NativeManifest
<1>2. /\ \A i \in 1..Len(s) : s[i] \in D
      /\ \A i, j \in 1..Len(s) : i # j => s[i] # s[j]
      /\ \A i, j \in 1..Len(s) : i < j => TitleLess(s[i], s[j])
      /\ \A p \in D : \E i \in 1..Len(s) : s[i] = p
  <2>1. D \in SUBSET Paths /\ IsFiniteSet(D)
    BY BrowseAssumption
  <2>2. s \in Seq(D)
    BY <2>1, SortedTitles
  <2>3. \A i \in 1..Len(s) : s[i] \in D
    <3> HIDE DEF s
    <3> QED
      BY <2>2, ElementOfSeq
  <2> QED
    BY <2>1, <2>3, SortedTitles
<1>3. ManifestBytes(m) <= MaxManifest
  OBVIOUS
<1>4. /\ D \subseteq Paths /\ \A p \in D : FileTitle(p)
      /\ \A p, q \in D : p = q \/ ~Collide(p, q)
  BY BrowseAssumption DEF Publishable, FileTitle
<1> HIDE DEF s, m
<1>5. \A i \in 1..Len(s) :
         /\ m.layers[i].visible /\ m.layers[i].valid /\ m.layers[i].plain
         /\ m.layers[i].title = s[i] /\ s[i] \in D
  <2>1. \A t : LET l == NativeLayer(t) IN l.visible /\ l.valid /\ l.plain /\ l.title = t
    BY DEF NativeLayer
  <2> QED
    BY <1>1, <1>2, <2>1
<1>6. Visible(m) = 1..Len(s)
  BY <1>1, <1>5 DEF Visible
<1>7. Titles(m) = D
  <2>1. \A i \in Visible(m) : m.layers[i].title \in D
    BY <1>5, <1>6
  <2>2. \A p \in D : \E i \in Visible(m) : m.layers[i].title = p
    BY <1>2, <1>5, <1>6
  <2> QED
    BY <2>1, <2>2 DEF Titles
<1>8. Projects(m)
  <2> SUFFICES ASSUME NEW i \in Visible(m)
               PROVE  LET l == m.layers[i]
                      IN  /\ l.title \in Paths /\ l.valid /\ FileTitle(l.title)
                          /\ \A j \in Visible(m) : j < i => ~Collide(l.title, m.layers[j].title)
    BY <1>1, <1>3 DEF Projects
  <2>1. m.layers[i].title \in Paths /\ m.layers[i].valid /\ FileTitle(m.layers[i].title)
    BY <1>4, <1>5, <1>6
  <2>2. ASSUME NEW j \in Visible(m), j < i
        PROVE  ~Collide(m.layers[i].title, m.layers[j].title)
    <3>1. s[i] # s[j] /\ s[i] \in D /\ s[j] \in D
      BY <1>2, <1>6, <2>2
    <3> QED
      BY <1>4, <1>5, <1>6, <3>1
  <2> QED
    BY <2>1, <2>2
<1>9. CrudCompatible(m)
  <2>1. m.layers # <<>>
    BY <1>1
  <2>2. ASSUME NEW i \in 1..(Len(m.layers) - 1)
        PROVE  LET u == m.layers[i].title
                   t == m.layers[i + 1].title
               IN  u # None /\ t # None /\ TitleLess(u, t)
    <3>1. i \in 1..Len(s) /\ i + 1 \in 1..Len(s) /\ i < i + 1
      BY <1>1
    <3>2. TitleLess(s[i], s[i + 1]) /\ s[i] \in Paths /\ s[i + 1] \in Paths
      BY <1>2, <1>4, <3>1
    <3> QED
      BY <1>5, <3>1, <3>2, PublisherAssumption
  <2> QED
    BY <1>1, <1>5, <2>1, <2>2 DEF CrudCompatible
<1> QED
  BY <1>7, <1>8, <1>9 DEF m

PublishedInv ==
    source # None => source \in Directories /\ Publishable(source) /\ artifact = Published(source)

\* A directory that was published is loaded with the files it had, whatever its
\* names are, in the order the client insists on.
THEOREM PublicationsLoad == Spec => []PublishedIsLoadable
<1>1. Init => PublishedInv
  BY DEF Init, PublishedInv
<1>2. PublishedInv /\ [Next]_vars => PublishedInv'
  <2> SUFFICES ASSUME PublishedInv, [Next]_vars PROVE PublishedInv'
    OBVIOUS
  <2>1. ASSUME NEW D \in Directories, Publish(D) PROVE PublishedInv'
    BY <2>1 DEF Publish, Change, PublishedInv
  <2>2. ASSUME NEW m \in Pushes, Push(m) PROVE PublishedInv'
    BY <2>2 DEF Push, Change, PublishedInv
  <2>3. CASE UNCHANGED artifactVars
    BY <2>3 DEF artifactVars, PublishedInv
  <2>4. ASSUME NEW r \in Typed, Begin(r) PROVE PublishedInv'
    BY <2>3, <2>4 DEF Begin
  <2>5. ASSUME NEW t \in todo, Visit(t) PROVE PublishedInv'
    BY <2>3, <2>5 DEF Visit, artifactVars
  <2>6. CASE UNCHANGED vars
    BY <2>3, <2>6 DEF vars
  <2> QED
    BY <2>1, <2>2, <2>4, <2>5, <2>6 DEF Next
<1>3. PublishedInv => PublishedIsLoadable
  BY PublishedLoads DEF PublishedInv, PublishedIsLoadable
<1> QED
  BY <1>1, <1>2, <1>3, PTL DEF Spec

(***************************************************************************)
(* Types.                                                                  *)
(***************************************************************************)

LEMMA RefusalStatus ==
    ASSUME NEW method, NEW h
    PROVE  InboundStatus(AutoindexRefusal(method, h)) \in Statuses
<1>1. LengthRefusal(method, h.lengths) \in
         {"none", "invalid_length", "conflicting_length", "body_not_allowed"}
  BY DEF LengthRefusal
<1>2. HeaderRefusal(method, h) # "body_too_large"
  BY <1>1 DEF HeaderRefusal
<1>3. TargetRefusal(method, h, {"GET", "HEAD"}) # "body_too_large"
  BY DEF TargetRefusal
<1>4. AutoindexRefusal(method, h) # "body_too_large"
  BY <1>2, <1>3 DEF AutoindexRefusal
<1> QED
  BY <1>4 DEF InboundStatus, Statuses

LEMMA AnswerType ==
    ASSUME NEW r, r.target \in Targets
    PROVE  LET page == Answer(artifact, r)
           IN  /\ page.status \in Statuses /\ page.file \in Paths \cup {None}
               /\ page.links \subseteq Targets
               /\ page.status = "file" => page.file \in Paths
<1> DEFINE page == Answer(artifact, r)
<1>1. page.links \subseteq Targets
  BY LinksLand
<1>2. \A x : Say(x).status = x /\ Say(x).file = None
  BY DEF Say
<1>3. CASE page.status \in {"file", "listing", "redirect"}
  <2> DEFINE T == Titles(artifact)
             p == Tail(r.target)
  <2>1. artifact # None /\ Projects(artifact) /\ page = Found(T, p) /\ p \in Paths
    BY <1>3, AnswerIsLookedUp
  <2>2. GoodTitles(T)
    BY <2>1, ProjectedTitles
  <2> HIDE DEF page, T, p
  <2>3. page.file \in Paths \cup {None} /\ (page.status = "file" => page.file \in Paths)
    BY <2>1, <2>2 DEF Found, Object, Say, SayFile, SayListing, SayRedirect
  <2> QED
    BY <1>1, <1>3, <2>3 DEF Statuses, page
<1>4. CASE page.status \notin {"file", "listing", "redirect"}
  <2>1. \E x \in Statuses : page = Say(x)
    <3>1. {"health", "distribution", "not_found", "bad_request", "malformed"} \subseteq Statuses
      BY DEF Statuses
    <3>2. CASE page = Browse(artifact, r)
      <4>1. \A T, p : Found(T, p).status \notin {"file", "listing", "redirect"} =>
                         Found(T, p) = Say("not_found")
        BY DEF Found, SayFile, SayListing, SayRedirect
      <4> QED
        BY <1>4, <3>1, <3>2, <4>1, RefusalStatus DEF Browse
    <3>3. page \in {Say("health"), Say("distribution"), Browse(artifact, r)}
      BY DEF Answer
    <3> QED
      BY <3>1, <3>2, <3>3
  <2> QED
    BY <1>1, <1>2, <1>4, <2>1
<1> QED
  BY <1>3, <1>4

\* Variables and answers keep their types.
THEOREM BrowseTypes == Spec => []TypeOK
<1>1. Init => TypeOK
  BY DEF Init, TypeOK, Say, Statuses
<1>2. TypeOK /\ [Next]_vars => TypeOK'
  <2> SUFFICES ASSUME TypeOK, [Next]_vars PROVE TypeOK'
    OBVIOUS
  <2>1. ASSUME NEW m \in Manifests, NEW D \in Directories \cup {None}, Change(m, D)
        PROVE  TypeOK'
    BY <2>1 DEF Change, TypeOK, Say, Statuses
  <2>2. ASSUME NEW D \in Directories, Publish(D) PROVE TypeOK'
    BY <2>1, <2>2, NativeManifest DEF Publish
  <2>3. ASSUME NEW m \in Pushes, Push(m) PROVE TypeOK'
    BY <2>1, <2>3, BrowseAssumption DEF Push
  <2>4. ASSUME NEW r \in Typed, Begin(r) PROVE TypeOK'
    <3>1. r.target \in Targets
      BY BrowseAssumption DEF Requests
    <3>2. UNCHANGED <<artifact, source>> /\ answer' = Answer(artifact, r)
          /\ todo' = Answer(artifact, r).links /\ seen' = {} /\ got' = {} /\ dead' = {}
      BY <2>4 DEF Begin, artifactVars
    <3> QED
      BY <3>1, <3>2, AnswerType DEF TypeOK
  <2>5. ASSUME NEW t \in todo, Visit(t) PROVE TypeOK'
    <3> DEFINE r == [method |-> "GET", target |-> t, head |-> Plainly, auths |-> 0]
               page == Get(t)
    <3>1. t \in Targets /\ r.target = t /\ page = Answer(artifact, r)
      BY DEF TypeOK, Get
    <3> HIDE DEF r, page
    <3>2. page.links \subseteq Targets /\ (page.status = "file" => page.file \in Paths)
      BY <3>1, AnswerType
    <3>3. /\ UNCHANGED <<artifact, source, answer>>
          /\ seen' = seen \cup {t} /\ todo' = (todo \cup page.links) \ seen'
          /\ got' = got \cup (IF page.status = "file" THEN {page.file} ELSE {})
          /\ dead' = dead \cup (IF page.status \in {"file", "listing"} THEN {} ELSE {t})
      BY <2>5 DEF Visit, artifactVars, page
    <3> QED
      BY <3>1, <3>2, <3>3 DEF TypeOK
  <2>6. CASE UNCHANGED vars
    BY <2>6 DEF vars, artifactVars, crawlVars, TypeOK
  <2> QED
    BY <2>2, <2>3, <2>4, <2>5, <2>6 DEF Next
<1> QED
  BY <1>1, <1>2, PTL DEF Spec

(***************************************************************************)
(* From the root down to every file.                                       *)
(***************************************************************************)

\* An index holds no file where another has a directory.
LEMMA NothingUnderAFile ==
    ASSUME NEW m \in Manifests, Projects(m), NEW s \in Titles(m), NEW t \in Titles(m)
    PROVE  ~Within(s, AsDirectory(t))
<1>1. PICK i \in Visible(m), j \in Visible(m) : s = m.layers[i].title /\ t = m.layers[j].title
  BY DEF Titles
<1>2. i \in Nat /\ j \in Nat
  <2>1. DOMAIN m.layers = 1..Len(m.layers)
    BY DEF Manifests
  <2> QED
    BY <2>1 DEF Visible
<1>3. CASE i = j
  <2>1. s \in Paths /\ s = t /\ Len(s) \in Nat
    BY <1>1, <1>3, ProjectedTitles DEF GoodTitles, Paths
  <2>2. Len(AsDirectory(t)) = Len(s) + 1
    BY <2>1, DirectorySpelling
  <2> QED
    BY <2>1, <2>2 DEF Within
<1>4. CASE j < i
  <2>1. ~Collide(s, t)
    BY <1>1, <1>4 DEF Projects
  <2> QED
    BY <2>1 DEF Collide
<1>5. CASE i < j
  <2>1. ~Collide(t, s)
    BY <1>1, <1>5 DEF Projects
  <2> QED
    BY <2>1 DEF Collide
<1> QED
  BY <1>2, <1>3, <1>4, <1>5

LEMMA FilesAreFound ==
    ASSUME FindInv, TypeOK, todo = {}, artifact # None, Projects(artifact), OnTheWay(Root),
           NEW p \in Titles(artifact), ~Reserved(Href(p)), ~TooLong(Href(p))
    PROVE  p \in got
<1> DEFINE T == Titles(artifact)
           n == Len(p)
           Above(k) == IF k = 0 THEN Root ELSE AsDirectory(SubSeq(p, 1, k))
<1>1. /\ GoodTitles(T) /\ p \in Paths /\ ValidPath(p) /\ ~IsDirectory(p)
      /\ Meaningful(p) = p /\ n \in Nat /\ n > 0
  <2>1. GoodTitles(T) /\ p \in Paths /\ ValidPath(p) /\ ~IsDirectory(p)
    BY ProjectedTitles DEF GoodTitles, FileTitle
  <2>2. Meaningful(p) = p
    BY <2>1 DEF Meaningful
  <2>3. n \in Nat /\ n \in 1..MaxSegments
    BY <2>1, <2>2 DEF ValidPath, Paths
  <2> QED
    BY <2>1, <2>2, <2>3, PathLimitsAssumption
<1>2. /\ Len(Href(p)) = n + 1 /\ Href(p)[2] = p[1] /\ Bytes(p) \in Nat
      /\ ~(Bytes(p) + 1 > MaxTarget) /\ ~Distribution(Href(p))
  BY <1>1, HrefFacts, BytesType DEF TooLong, TargetBytes, Reserved
<1>3. ASSUME NEW k \in 0..(n - 1)
      PROVE  LET d == Above(k)
             IN  /\ Listed(d) /\ Len(d) = k + 1 /\ \A i \in 1..k : d[i] = p[i]
                 /\ Bytes(d) <= Bytes(p) /\ Bytes(d) \in Nat
  <2>1. CASE k = 0
    <3>1. Above(k) = Root
      BY <2>1
    <3>2. Listed(Root) /\ Len(Root) = 1 /\ Bytes(Root) = 0
      BY RootIsPath DEF Listed
    <3> HIDE DEF Above
    <3> QED
      BY <1>2, <2>1, <3>1, <3>2
  <2>2. CASE k # 0
    <3>1. k \in 1..(Len(Meaningful(p)) - 1)
      BY <1>1, <2>2
    <3>2. LET d == AsDirectory(SubSeq(p, 1, k))
          IN  /\ d \in Paths /\ Len(d) = k + 1 /\ ValidPath(d) /\ IsDirectory(d)
              /\ (\A i \in 1..k : d[i] = p[i]) /\ Bytes(d) <= Bytes(p)
      BY <1>1, <3>1, DirectoryAbove
    <3> QED
      BY <2>2, <3>2, BytesType DEF Listed
  <2> QED
    BY <2>1, <2>2
<1> HIDE DEF Above
<1>4. ASSUME NEW k \in 0..(n - 1), OnTheWay(Above(k))
      PROVE  LET e == SubSeq(p, 1, k + 1)
             IN  Href(IF e \in T THEN e ELSE AsDirectory(e)) \in seen
  <2>1. /\ Above(k) \in Paths /\ Len(Above(k)) = k + 1
        /\ \A i \in 1..k : Above(k)[i] = p[i]
    BY <1>3 DEF Listed
  <2>2. Within(p, Above(k))
    BY <1>1, <2>1 DEF Within
  <2>3. Join(Above(k), p[k + 1]) = SubSeq(p, 1, k + 1)
    BY <1>1, <2>1, <2>2, JoinIsPrefix
  <2>4. p[k + 1] \in Names(T, Above(k))
    BY <2>1, <2>2 DEF Names
  <2>5. Href(Entry(T, Above(k), p[k + 1])) \in seen
    BY <1>4, <2>4 DEF OnTheWay, Links, Children
  <2> QED
    BY <2>3, <2>5 DEF Entry
<1>5. ASSUME NEW k \in 0..(n - 1), k + 1 < n, OnTheWay(Above(k))
      PROVE  OnTheWay(Above(k + 1))
  <2> DEFINE e == SubSeq(p, 1, k + 1)
             d == Above(k + 1)
  <2>1. k + 1 \in 0..(n - 1) /\ k + 1 # 0
    BY <1>1, <1>5
  <2>2. d = AsDirectory(e)
    BY <2>1 DEF Above
  <2>3. /\ Listed(d) /\ Len(d) = k + 2 /\ \A i \in 1..(k + 1) : d[i] = p[i]
        /\ Bytes(d) <= Bytes(p) /\ Bytes(d) \in Nat /\ d \in Paths
    BY <1>3, <2>1 DEF Listed
  <2>4. e \notin T
    <3>1. Within(p, d)
      BY <1>1, <1>5, <2>3 DEF Within
    <3>2. artifact \in Manifests
      BY DEF TypeOK
    <3> QED
      BY <2>2, <3>1, <3>2, NothingUnderAFile
  <2>5. Href(d) \in seen
    BY <1>4, <1>5, <2>2, <2>4
  <2> HIDE DEF d, e
  <2>6. Tail(Href(d)) = d /\ Len(Href(d)) = k + 3 /\ Href(d)[2] = p[1]
    <3>1. k \in Nat /\ 1 \in 1..(k + 1)
      BY <1>1
    <3>2. d[1] = p[1] /\ Len(d) > 0 /\ Len(d) + 1 = k + 3
      BY <2>3, <3>1
    <3>3. Tail(Href(d)) = d /\ Len(Href(d)) = Len(d) + 1 /\ Href(d)[2] = d[1]
      BY <2>3, <3>2, HrefFacts
    <3> QED
      BY <3>2, <3>3
  <2>7. ~Distribution(Href(d))
    BY <1>1, <1>2, <1>5, <2>6 DEF Distribution
  <2>8. ~TooLong(Href(d))
    <3>1. ~(Bytes(d) + 1 > MaxTarget)
      BY <1>2, <2>3, LimitsAssumption
    <3> QED
      BY <2>6, <3>1 DEF TooLong, TargetBytes
  <2>9. OnTheWay(d)
    BY <2>3, <2>5, <2>7, <2>8, VisitedIsListed
  <2> QED
    BY <2>9 DEF d
<1>6. \A k \in 0..(n - 1) : OnTheWay(Above(k))
  <2> DEFINE S == {k \in 0..(n - 1) : ~OnTheWay(Above(k))}
  <2> SUFFICES ASSUME S # {} PROVE FALSE
    OBVIOUS
  <2>1. PICK k \in S : \A j \in S : k <= j
    <3>1. S \in SUBSET Nat
      OBVIOUS
    <3> HIDE DEF S
    <3> QED
      BY <3>1, LeastNatural
  <2>2. k \in 0..(n - 1) /\ ~OnTheWay(Above(k))
    OBVIOUS
  <2>3. k # 0
    BY <2>2 DEF Above
  <2>4. k - 1 \in 0..(n - 1) /\ (k - 1) + 1 = k /\ k < n /\ ~(k <= k - 1)
    BY <1>1, <2>2, <2>3
  <2>5. OnTheWay(Above(k - 1))
    BY <2>1, <2>4
  <2>6. OnTheWay(Above((k - 1) + 1))
    <3>1. (k - 1) + 1 < n
      BY <2>4
    <3> HIDE DEF S
    <3> QED
      BY <1>5, <2>4, <2>5, <3>1
  <2> QED
    BY <2>2, <2>4, <2>6
<1>7. Href(p) \in seen
  <2>1. n - 1 \in 0..(n - 1) /\ (n - 1) + 1 = n
    BY <1>1
  <2>2. SubSeq(p, 1, n) = p
    BY <1>1 DEF Paths
  <2> QED
    BY <1>4, <1>6, <2>1, <2>2
<1>8. Get(Href(p)) = SayFile(p)
  <2>1. Reachable(T, p)
    BY <1>1 DEF Reachable
  <2>2. Get(Href(p)) = Found(T, p)
    BY <2>1, LinkIsLookedUp
  <2> QED
    BY <2>2 DEF Found, Object
<1> QED
  BY <1>7, <1>8 DEF FindInv, SayFile

LEMMA CrawlIsComplete == FindInv /\ TypeOK => CrawlFindsEverything
<1> SUFFICES ASSUME FindInv, TypeOK, Crawled,
                    ~\E t \in answer.links : answer.status = "redirect" /\ (Reserved(t) \/ TooLong(t)),
                    NEW p \in Titles(artifact), p \notin got, ~Reserved(Href(p)), ~TooLong(Href(p))
             PROVE  FALSE
  BY DEF CrawlFindsEverything, FindInv
<1>1. todo = {} /\ answer.status \in {"listing", "redirect"} /\ Known = seen
      /\ artifact # None /\ Projects(artifact)
  BY DEF Crawled, FindInv, Known
<1>2. PICK d : StartsAt(d)
  BY <1>1 DEF FindInv
<1>3. answer.links \subseteq seen
  BY <1>1 DEF FindInv
<1>4. OnTheWay(d)
  <2>1. CASE answer.status = "listing"
    BY <1>2, <1>3, <2>1 DEF StartsAt, OnTheWay
  <2>2. CASE answer.status = "redirect"
    <3>1. Listed(d) /\ answer.links = {Href(d)}
      BY <1>2, <2>2 DEF StartsAt
    <3>2. Href(d) \in seen /\ ~Reserved(Href(d)) /\ ~TooLong(Href(d))
      BY <1>3, <2>2, <3>1
    <3> QED
      BY <1>1, <3>1, <3>2, VisitedIsListed DEF Reserved
  <2> QED
    BY <1>1, <2>1, <2>2
<1>5. OnTheWay(Root)
  BY <1>1, <1>4, RootOnTheWay
<1> QED
  BY <1>1, <1>5, FilesAreFound

\* Wherever a crawl begins, it has found every visible file when it is over.
THEOREM CrawlsFindEverything == Spec => []CrawlFindsEverything
<1>1. Init => FindInv
  BY DEF Init, FindInv, Known, Say
<1> QED
  BY <1>1, FindStep, BrowseTypes, CrawlIsComplete, PTL DEF Spec
=============================================================================
