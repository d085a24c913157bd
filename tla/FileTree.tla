------------------------------ MODULE FileTree ------------------------------
(***************************************************************************)
(* The file trees an autoindex artifact projects and what one CRUD         *)
(* operation does to a tree, without any registry or process.              *)
(*                                                                         *)
(* A path is a non-empty sequence of segments.  A segment is a natural     *)
(* number: only the order of segments and their equality matter here.  A   *)
(* tree is a function from the paths of its files to their contents;       *)
(* equal contents have equal digests and sizes.                            *)
(***************************************************************************)
EXTENDS Integers, Sequences, FiniteSetsExt, Functions

CONSTANTS Files,            \* the file paths in use
          Dirs,             \* the directory prefixes a delete may name
          Contents,         \* file contents, each with its own digest
          Size,             \* the byte count of a content, in units
          MaxBytes          \* MAX_PUBLICATION_BYTES, in the same units

ASSUME PathsAssumption    == Files \subseteq Seq(Nat) /\ Dirs \subseteq Seq(Nat)
ASSUME ContentsAssumption == Size \in [Contents -> Nat] /\ MaxBytes \in Nat

(***************************************************************************)
(* Paths.                                                                  *)
(***************************************************************************)

\* p lies strictly below d: the title of p starts with the title of d and "/".
IsUnder(d, p) == Len(d) < Len(p) /\ \A i \in 1..Len(d) : p[i] = d[i]

\* PathBuf order: segment by segment, a prefix before what it prefixes.
PathLess(p, q) ==
    \/ IsUnder(p, q)
    \/ \E i \in 1..Len(p) :
          /\ i <= Len(q)
          /\ p[i] < q[i]
          /\ \A j \in 1..(i - 1) : p[j] = q[j]

(***************************************************************************)
(* Trees.                                                                  *)
(***************************************************************************)

Trees == UNION {[S -> Contents] : S \in SUBSET Files}

EmptyTree == [p \in {} |-> {}]

\* No path is at once a file and a directory: what Index::insert accepts and
\* what a file system can hold.
CollisionFree(t) == \A p, q \in DOMAIN t : ~IsUnder(p, q)

\* Seeded fault: only the path itself is looked at.
InsertableByName(p, t) == p \notin DOMAIN t

\* Index::insert, for a path the tree does not hold yet.
Insertable(p, t) == \A q \in DOMAIN t : ~IsUnder(p, q) /\ ~IsUnder(q, p)

\* Index::has_directory and the names Index::children lists.
HasDirectory(d, t) == \E p \in DOMAIN t : IsUnder(d, p)

Children(d, t) == {p[Len(d) + 1] : p \in {q \in DOMAIN t : IsUnder(d, q)}}

With(t, p, x) == [q \in DOMAIN t \cup {p} |-> IF q = p THEN x ELSE t[q]]

\* The bytes of a snapshot as materialize_snapshot counts them: every file.
AllBytes(t) == MapThenSumSet(LAMBDA p : Size[t[p]], DOMAIN t)

\* The bytes of the distinct contents of some files of a tree.
DistinctBytes(t, S) == MapThenSumSet(LAMBDA x : Size[x], {t[p] : p \in S})

\* from_files refuses a tree when, at some file in path order, the distinct
\* bytes before it and the file's own size exceed the limit.
OverLimit(t) ==
    \E p \in DOMAIN t :
       DistinctBytes(t, {q \in DOMAIN t : PathLess(q, p)}) + Size[t[p]] > MaxBytes

(***************************************************************************)
(* Operations.  The content of a delete and the dir flag of a create or an *)
(* update carry no meaning.                                                *)
(***************************************************************************)

OpRecords == [kind    : {"create", "update", "delete"},
              path    : Files \cup Dirs,
              dir     : BOOLEAN,
              content : Contents,
              dry     : BOOLEAN]

\* A create or an update names a file path: execute refuses a directory path.
WellFormed(o) == /\ o.kind # "delete" => o.path \in Files /\ ~o.dir
                 /\ o.dir => o.path \in Dirs
                 /\ ~o.dir => o.path \in Files

\* The files of a tree an operation is about (matching_paths for a delete).
Targets(o, t) == IF o.dir THEN {p \in DOMAIN t : IsUnder(o.path, p)}
                          ELSE DOMAIN t \cap {o.path}

\* The existence check execute makes on the snapshot's paths.
Refusal(o, t) ==
    IF o.kind = "create" THEN IF Targets(o, t) # {} THEN "exists" ELSE "none"
                         ELSE IF Targets(o, t) = {} THEN "missing" ELSE "none"

\* Seeded fault: the file is written at its directory's path.
EffectAtParent(o, t) ==
    IF o.kind = "delete" THEN Restrict(t, DOMAIN t \ Targets(o, t))
    ELSE With(t, SubSeq(o.path, 1, Len(o.path) - 1), o.content)

\* The tree after the operation.
Effect(o, t) == IF o.kind = "delete" THEN Restrict(t, DOMAIN t \ Targets(o, t))
                                     ELSE With(t, o.path, o.content)
=============================================================================
