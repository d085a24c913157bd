----------------------------- MODULE AutoindexPaths -----------------------------
(***************************************************************************)
(* The paths of the autoindex and the index projected from visible objects *)
(* (autoindex.rs).  A path is what split('/') makes of its text:           *)
(*     "a/b" = <<"a", "b">>    "a/" = <<"a", "">>    "" = <<"">>           *)
(* and the target of a request, which begins with a slash, begins with the *)
(* empty segment: "/" = <<"", "">>, "/a" = <<"", "a">>.                    *)
(***************************************************************************)
EXTENDS Integers, Sequences, FiniteSets

CONSTANTS Segments,      \* what may stand between two slashes
          Spelling,      \* the bytes of a segment, in the order of their values
          SafeBytes,     \* those is_safe_path_byte accepts
          MaxName,       \* the longest segment
          MaxPathBytes,  \* MAX_PATH_BYTES
          MaxSegments    \* MAX_PATH_SEGMENTS

\* The empty segment.
Nil == ""

ASSUME SpellingAssumption ==
    /\ {Nil, ".", ".."} \subseteq Segments
    /\ Spelling \in [Segments -> Seq(Nat)]
    /\ Spelling[Nil] = <<>>
    /\ MaxName \in Nat /\ \A s \in Segments : Len(Spelling[s]) <= MaxName
ASSUME PathLimitsAssumption == MaxPathBytes \in Nat /\ MaxSegments \in Nat

Paths == Seq(Segments)
Root  == <<Nil>>

\* The bytes of a path: those of its segments, by their positions, and the
\* slashes between them.
Letters(p) == {l \in (1..Len(p)) \X (1..MaxName) : l[2] <= Len(Spelling[p[l[1]]])}
Bytes(p)   == Cardinality(Letters(p)) + Len(p) - 1

Safe(s) == \A i \in DOMAIN Spelling[s] : Spelling[s][i] \in SafeBytes

(***************************************************************************)
(* RelativePath.                                                           *)
(***************************************************************************)

\* A directory is spelled with a trailing slash.
IsDirectory(p) == p[Len(p)] = Nil

Meaningful(p) == IF IsDirectory(p) THEN SubSeq(p, 1, Len(p) - 1) ELSE p

\* RelativePath::parse.  The path "" and one that begins with a slash have no
\* meaningful segment, or an empty one first.
ValidPath(p) ==
    /\ Bytes(p) <= MaxPathBytes
    /\ Len(Meaningful(p)) \in 1..MaxSegments
    /\ \A i \in DOMAIN Meaningful(p) :
          p[i] \notin {Nil, ".", ".."} /\ Safe(p[i])

\* Seeded fault: titles are taken as they are.
FileTitleUnchecked(p) == p # Root /\ ~IsDirectory(p)

\* VisibleObject::new.
FileTitle(p) == ValidPath(p) /\ ~IsDirectory(p)

\* parse_request_path: the path a target names, Root for "/", or Refused.
Refused == <<>>

ParseRequest(t) ==
    LET p == Tail(t) IN
    IF p = Root \/ ValidPath(p) THEN p ELSE Refused

(***************************************************************************)
(* Index.  T is the set of the titles of its objects.                      *)
(***************************************************************************)

\* t begins with the directory spelling d (every title begins with Root's "").
Within(t, d) ==
    /\ Len(d) <= Len(t)
    /\ \A i \in 1..(Len(d) - 1) : t[i] = d[i]

AsDirectory(p) == p \o <<Nil>>

\* Seeded fault: only equal titles collide.
CollideIfEqual(s, t) == s = t

\* What Index::insert refuses beside an earlier object.
Collide(s, t) == s = t \/ Within(s, AsDirectory(t)) \/ Within(t, AsDirectory(s))

\* Index::object; titles have no trailing slash.
Object(T, p) == p \in T

\* Index::has_directory, which parses its argument again.
HasDirectory(T, d) == ValidPath(d) /\ \E t \in T : Within(t, d)

\* Index::children: one entry per name, a file's rather than a directory's.
Names(T, d) == {t[Len(d)] : t \in {u \in T : Within(u, d)}}

Join(d, name) == SubSeq(d, 1, Len(d) - 1) \o <<name>>

Entry(T, d, name) == IF Join(d, name) \in T THEN Join(d, name)
                     ELSE AsDirectory(Join(d, name))

Children(T, d) == {Entry(T, d, n) : n \in Names(T, d)}

\* Seeded fault: the parent of a directory is spelled without its slash.
ParentBare(d) == SubSeq(d, 1, Len(d) - 2)

\* parent_directory: up to the slash before the last name.
Parent(d) == SubSeq(d, 1, Len(d) - 2) \o <<Nil>>

(***************************************************************************)
(* Links.                                                                  *)
(***************************************************************************)

Href(p) == <<Nil>> \o p

\* render_directory_html: an entry each, and "../" below the root.
Links(T, d) ==
    {Href(e) : e \in Children(T, d)} \cup (IF d = Root THEN {} ELSE {Href(Parent(d))})
=============================================================================
