--------------------------- MODULE AutoindexCrud ----------------------------
(***************************************************************************)
(* The commands `autoindex create | update | delete` (autoindex_cli.rs)    *)
(* against one repository of an OCI registry.                              *)
(*                                                                         *)
(* A command reads the manifest tagged autoindex.v1, downloads every file  *)
(* of it into a private directory, changes the directory, and replaces the *)
(* tag through an ORAS child process: `oras cp` of a new layout, or `oras  *)
(* manifest delete` when no file is left.  Nothing locks the tag: other    *)
(* commands, an ORAS child that outlived its command, and any client that  *)
(* pushes through the gateway interleave with these steps.                 *)
(***************************************************************************)
EXTENDS FileTree

CONSTANTS Clis,           \* command invocations that may run side by side
          Ops,            \* the operations they may be given
          InitialTags,    \* what autoindex.v1 may name at first
          Pushes,         \* what other clients may make it name (None: delete)
          None,
          MaxStarts,      \* bound: commands started
          MaxForeign      \* bound: steps of other clients

\* A manifest is its projection and whether it carries everything
\* parse_autoindex_manifest asks of a native artifact besides a valid index.
\* Manifests are content-addressed: equal records have equal digests.
Manifests == [native : BOOLEAN, files : Trees]

ASSUME OpsAssumption    == Ops \subseteq {o \in OpRecords : WellFormed(o)}
ASSUME TagsAssumption   == /\ None \notin Manifests /\ None \notin Ops
                           /\ InitialTags \subseteq Manifests \cup {None}
                           /\ Pushes \subseteq Manifests \cup {None}
ASSUME BoundsAssumption == MaxStarts \in Nat /\ MaxForeign \in Nat

VARIABLES tag,        \* registry: the manifest autoindex.v1 names, or None
          blobs,      \* registry: the contents it holds
          pc,         \* per command: where execute is
          op,         \* per command: its operation
          snap,       \* per command: the manifest load_snapshot returned
          work,       \* per command: the files in its temporary directory
          oras,       \* per command: its ORAS child
          resolved,   \* per command: the digest `oras manifest delete` resolved
          reply,      \* per command: what it printed
          starts,     \* commands started
          foreign     \* steps taken by other clients

registryVars == <<tag, blobs>>
orasVars     == <<oras, resolved>>
cliVars      == <<pc, op, snap, work, reply>>
crudVars     == <<tag, blobs, pc, op, snap, work, oras, resolved, reply, starts, foreign>>

FilesOf(m) == IF m = None THEN EmptyTree ELSE m.files

Native(t) == [native |-> TRUE, files |-> t]

\* AutoindexSnapshot::is_crud_compatible, and that the index could be built.
Compatible(m) == m.native /\ DOMAIN m.files # {} /\ CollisionFree(m.files)

Phases      == {"idle", "load", "materialize", "oras", "replied", "killed"}
Active      == {"load", "materialize", "oras"}
OrasRunning == {"upload", "resolve", "delete"}
OrasEnded   == {"ok", "failed", "lost"}        \* "lost": done, but reported failed
Replies     == {"none", "ok", "would", "exists", "missing", "source", "invalid",
                "registry", "storage", "publication", "oras"}

TypeOK ==
    /\ tag \in Manifests \cup {None}
    /\ blobs \subseteq Contents
    /\ pc \in [Clis -> Phases]
    /\ op \in [Clis -> Ops \cup {None}]
    /\ snap \in [Clis -> Manifests \cup {None}]
    /\ work \in [Clis -> Trees]
    /\ oras \in [Clis -> OrasRunning \cup OrasEnded \cup {"none"}]
    /\ resolved \in [Clis -> Manifests \cup {None}]
    /\ reply \in [Clis -> Replies]
    /\ starts \in 0..MaxStarts
    /\ foreign \in 0..MaxForeign

Init ==
    /\ tag \in InitialTags
    /\ blobs = Range(FilesOf(tag))
    /\ pc = [c \in Clis |-> "idle"]
    /\ op = [c \in Clis |-> None]
    /\ snap = [c \in Clis |-> None]
    /\ work = [c \in Clis |-> EmptyTree]
    /\ oras = [c \in Clis |-> "none"]
    /\ resolved = [c \in Clis |-> None]
    /\ reply = [c \in Clis |-> "none"]
    /\ starts = 0
    /\ foreign = 0

(***************************************************************************)
(* The command.                                                            *)
(***************************************************************************)

\* execute returns: the temporary directory goes with it.
Return(c, r) ==
    /\ pc' = [pc EXCEPT ![c] = "replied"]
    /\ reply' = [reply EXCEPT ![c] = r]
    /\ snap' = [snap EXCEPT ![c] = None]
    /\ work' = [work EXCEPT ![c] = EmptyTree]
    /\ oras' = [oras EXCEPT ![c] = "none"]
    /\ resolved' = [resolved EXCEPT ![c] = None]
    /\ UNCHANGED <<registryVars, op, starts, foreign>>

Start(c, o) ==
    /\ starts < MaxStarts
    /\ pc[c] \in {"idle", "replied", "killed"} /\ oras[c] = "none"
    /\ starts' = starts + 1
    /\ pc' = [pc EXCEPT ![c] = "load"]
    /\ op' = [op EXCEPT ![c] = o]
    /\ reply' = [reply EXCEPT ![c] = "none"]
    /\ UNCHANGED <<registryVars, orasVars, snap, work, foreign>>

\* validate_source, before the registry is asked for anything.
BadSource(c) == op[c].kind # "delete" /\ Size[op[c].content] > MaxBytes

RejectSource(c) ==
    /\ pc[c] = "load"
    /\ BadSource(c)
    /\ Return(c, "source")

LoadIncompatible(c) ==
    /\ pc[c] = "load"
    /\ ~BadSource(c)
    /\ tag # None
    /\ ~Compatible(tag)
    /\ Return(c, "invalid")

\* The manifest is read, and the existence check follows without waiting.
Loads(c) ==
    /\ pc[c] = "load"
    /\ ~BadSource(c)
    /\ tag # None => Compatible(tag)

Refuse(c) ==
    /\ Loads(c)
    /\ Refusal(op[c], FilesOf(tag)) # "none"
    /\ Return(c, Refusal(op[c], FilesOf(tag)))

Preview(c) ==
    /\ Loads(c)
    /\ Refusal(op[c], FilesOf(tag)) = "none"
    /\ op[c].dry
    /\ Return(c, "would")

\* Seeded fault: the existence check is left to the dry run.
AcceptUnchecked(c) ==
    /\ Loads(c)
    /\ ~op[c].dry
    /\ pc' = [pc EXCEPT ![c] = "materialize"]
    /\ snap' = [snap EXCEPT ![c] = tag]
    /\ UNCHANGED <<registryVars, orasVars, op, work, reply, starts, foreign>>

Accept(c) ==
    /\ Loads(c)
    /\ Refusal(op[c], FilesOf(tag)) = "none"
    /\ ~op[c].dry
    /\ pc' = [pc EXCEPT ![c] = "materialize"]
    /\ snap' = [snap EXCEPT ![c] = tag]
    /\ UNCHANGED <<registryVars, orasVars, op, work, reply, starts, foreign>>

\* materialize_snapshot, one file at a time.  The code goes in path order; the
\* order decides nothing but which failure is reported first.
Unfetched(c) == DOMAIN FilesOf(snap[c]) \ DOMAIN work[c]

\* Seeded fault: each download resolves the tag again.
FetchFileByTag(c, p) ==
    /\ pc[c] = "materialize"
    /\ p \in DOMAIN FilesOf(tag) \ DOMAIN work[c]
    /\ work' = [work EXCEPT ![c] = With(work[c], p, FilesOf(tag)[p])]
    /\ UNCHANGED <<registryVars, orasVars, pc, op, snap, reply, starts, foreign>>

FetchFile(c, p) ==
    LET x == FilesOf(snap[c])[p] IN
    /\ pc[c] = "materialize"
    /\ p \in Unfetched(c)
    /\ AllBytes(work[c]) + Size[x] <= MaxBytes
    /\ x \in blobs
    /\ work' = [work EXCEPT ![c] = With(work[c], p, x)]
    /\ UNCHANGED <<registryVars, orasVars, pc, op, snap, reply, starts, foreign>>

\* The bytes are too many, or the blob is gone.
FetchRefused(c) ==
    /\ pc[c] = "materialize"
    /\ \E p \in Unfetched(c) :
          LET x == FilesOf(snap[c])[p]
              tooMany == AllBytes(work[c]) + Size[x] > MaxBytes
          IN  /\ tooMany \/ x \notin blobs
              /\ Return(c, IF tooMany THEN "invalid" ELSE "registry")

\* copy_source or the removals, then from_directory and write_oci_layout: no
\* await between them.  A create under a file, or over a directory, cannot be
\* written; a tree over the limit cannot be published.
Staged(c) == Effect(op[c], work[c])

Writable(c) == op[c].kind = "create" => Insertable(op[c].path, work[c])

\* Seeded fault: off by one.
ChildForFew(t) == IF Cardinality(DOMAIN t) <= 1 THEN "resolve" ELSE "upload"

\* The ORAS child that makes the registry hold tree t.
ChildFor(t) == IF DOMAIN t = {} THEN "resolve" ELSE "upload"

Stage(c) ==
    /\ pc[c] = "materialize"
    /\ Unfetched(c) = {}
    /\ Writable(c)
    /\ ~OverLimit(Staged(c))
    /\ pc' = [pc EXCEPT ![c] = "oras"]
    /\ work' = [work EXCEPT ![c] = Staged(c)]
    /\ oras' = [oras EXCEPT ![c] = ChildFor(Staged(c))]
    /\ UNCHANGED <<registryVars, op, snap, resolved, reply, starts, foreign>>

StageRefused(c) ==
    /\ pc[c] = "materialize"
    /\ Unfetched(c) = {}
    /\ ~Writable(c) \/ OverLimit(Staged(c))
    /\ Return(c, IF Writable(c) THEN "publication" ELSE "storage")

\* A request that times out or fails, bytes that do not match their digest, a
\* local I/O error, a source that changed: at any point before ORAS starts.
Fault(c) ==
    /\ pc[c] \in {"load", "materialize"}
    /\ ~BadSource(c)
    /\ \E r \in IF pc[c] = "load" THEN {"registry", "invalid"}
               ELSE IF Unfetched(c) # {} THEN {"registry", "invalid", "storage"}
               ELSE {"source", "storage", "publication"} : Return(c, r)

\* Seeded fault: a child that fails is waited for again.
OrasExitOk(c) ==
    /\ pc[c] = "oras"
    /\ oras[c] = "ok"
    /\ Return(c, "ok")

\* Seeded fault: after a success, the contents only the old artifact needed are
\* removed.
OrasExitCleans(c) ==
    /\ pc[c] = "oras"
    /\ oras[c] \in OrasEnded
    /\ pc' = [pc EXCEPT ![c] = "replied"]
    /\ reply' = [reply EXCEPT ![c] = IF oras[c] = "ok" THEN "ok" ELSE "oras"]
    /\ blobs' = IF oras[c] = "ok" THEN blobs \ (Range(FilesOf(snap[c])) \ Range(work[c]))
                ELSE blobs
    /\ snap' = [snap EXCEPT ![c] = None]
    /\ work' = [work EXCEPT ![c] = EmptyTree]
    /\ oras' = [oras EXCEPT ![c] = "none"]
    /\ resolved' = [resolved EXCEPT ![c] = None]
    /\ UNCHANGED <<tag, op, starts, foreign>>

\* run_oras: the exit status of the child is all the command learns.
OrasExit(c) ==
    /\ pc[c] = "oras"
    /\ oras[c] \in OrasEnded
    /\ Return(c, IF oras[c] = "ok" THEN "ok" ELSE "oras")

(***************************************************************************)
(* The ORAS child.  It may outlive its command.                            *)
(***************************************************************************)

Upload(c, x) ==
    /\ oras[c] = "upload"
    /\ x \in Range(work[c]) \ blobs
    /\ blobs' = blobs \cup {x}
    /\ UNCHANGED <<tag, cliVars, orasVars, starts, foreign>>

\* The registry refuses a manifest whose blobs it does not hold.
PutManifest(c) ==
    /\ oras[c] = "upload"
    /\ Range(work[c]) \subseteq blobs
    /\ tag' = Native(work[c])
    /\ \E e \in {"ok", "lost"} : oras' = [oras EXCEPT ![c] = e]
    /\ UNCHANGED <<blobs, cliVars, resolved, starts, foreign>>

\* `oras manifest delete` resolves the tag to a digest first; --force makes a
\* missing tag a success.
Resolve(c) ==
    /\ oras[c] = "resolve"
    /\ resolved' = [resolved EXCEPT ![c] = tag]
    /\ oras' = [oras EXCEPT ![c] = IF tag = None THEN "ok" ELSE "delete"]
    /\ UNCHANGED <<registryVars, cliVars, starts, foreign>>

\* The manifest of that digest goes, with the tag if the tag still names it.
DeleteManifest(c) ==
    /\ oras[c] = "delete"
    /\ tag' = IF tag = resolved[c] THEN None ELSE tag
    /\ \E e \in {"ok", "lost"} : oras' = [oras EXCEPT ![c] = e]
    /\ UNCHANGED <<blobs, cliVars, resolved, starts, foreign>>

OrasFails(c) ==
    /\ oras[c] \in OrasRunning
    /\ oras' = [oras EXCEPT ![c] = "failed"]
    /\ UNCHANGED <<registryVars, cliVars, resolved, starts, foreign>>

(***************************************************************************)
(* Signals.  The temporary directory of a killed command stays on disk, and*)
(* only its ORAS child still reads it.                                     *)
(***************************************************************************)

\* The command dies, and its child with it.
Interrupt(c) ==
    /\ pc[c] \in Active
    /\ pc' = [pc EXCEPT ![c] = "killed"]
    /\ snap' = [snap EXCEPT ![c] = None]
    /\ work' = [work EXCEPT ![c] = EmptyTree]
    /\ oras' = [oras EXCEPT ![c] = "none"]
    /\ resolved' = [resolved EXCEPT ![c] = None]
    /\ UNCHANGED <<registryVars, op, reply, starts, foreign>>

\* The command dies alone.
Orphan(c) ==
    /\ pc[c] = "oras"
    /\ oras[c] \in OrasRunning
    /\ pc' = [pc EXCEPT ![c] = "killed"]
    /\ UNCHANGED <<registryVars, orasVars, op, snap, work, reply, starts, foreign>>

OrphanEnds(c) ==
    /\ pc[c] = "killed"
    /\ oras[c] \in OrasEnded
    /\ snap' = [snap EXCEPT ![c] = None]
    /\ work' = [work EXCEPT ![c] = EmptyTree]
    /\ oras' = [oras EXCEPT ![c] = "none"]
    /\ resolved' = [resolved EXCEPT ![c] = None]
    /\ UNCHANGED <<registryVars, pc, op, reply, starts, foreign>>

(***************************************************************************)
(* Other clients of the repository, through the gateway or beside it.      *)
(***************************************************************************)

Push(m) ==
    /\ foreign < MaxForeign
    /\ foreign' = foreign + 1
    /\ tag' = m
    /\ blobs' = blobs \cup Range(FilesOf(m))
    /\ UNCHANGED <<cliVars, orasVars, starts>>

RemoveBlob(x) ==
    /\ foreign < MaxForeign
    /\ foreign' = foreign + 1
    /\ blobs' = blobs \ {x}
    /\ UNCHANGED <<tag, cliVars, orasVars, starts>>

(***************************************************************************)
(* The specification.                                                      *)
(***************************************************************************)

CliStep(c) ==
    \/ RejectSource(c) \/ LoadIncompatible(c)
    \/ Refuse(c) \/ Preview(c) \/ Accept(c)
    \/ \E p \in Files : FetchFile(c, p)
    \/ FetchRefused(c)
    \/ Stage(c) \/ StageRefused(c)
    \/ OrasExit(c)

OrasStep(c) ==
    \/ \E x \in Contents : Upload(c, x)
    \/ PutManifest(c)
    \/ Resolve(c) \/ DeleteManifest(c)

Failure(c) == Fault(c) \/ OrasFails(c) \/ Interrupt(c) \/ Orphan(c)

CliNext == \E c \in Clis :
               \/ \E o \in Ops : Start(c, o)
               \/ CliStep(c) \/ OrasStep(c) \/ OrphanEnds(c) \/ Failure(c)

ForeignNext == \/ \E m \in Pushes : Push(m)
               \/ \E x \in blobs : RemoveBlob(x)

Next == CliNext \/ ForeignNext

\* Every request of the command is answered or cut off by request_timeout, and
\* it waits for nothing else except ORAS, which is assumed to end.  No failure
\* is assumed to happen, so none is needed for a command to end.
Fairness == \A c \in Clis : WF_crudVars(CliStep(c)) /\ WF_crudVars(OrasStep(c))

Spec     == Init /\ [][Next]_crudVars
FairSpec == Spec /\ Fairness

(***************************************************************************)
(* Safety.                                                                 *)
(***************************************************************************)

\* What is uploaded is the operation's effect on the artifact that was loaded:
\* downloading it file by file loses, adds and mixes up nothing, whatever
\* happens to the registry meanwhile (materialize_snapshot, copy_source).
StagedIsEffect ==
    \A c \in Clis :
       /\ pc[c] = "materialize" => IsRestriction(work[c], FilesOf(snap[c]))
       /\ oras[c] # "none" => work[c] = Effect(op[c], FilesOf(snap[c]))

\* The commands never leave an artifact they would themselves refuse to load:
\* with a path that is both file and directory, empty, or without the marker.
CliLeavesReadableTag ==
    \/ tag \in InitialTags \cup Pushes \cup {None}
    \/ Compatible(tag)

(***************************************************************************)
(* However they overlap, the commands implement SnapshotStore.             *)
(***************************************************************************)

SnapshotStatus ==
    [c \in Clis |->
       IF oras[c] \in {"ok", "lost"} THEN "applied"
       ELSE IF pc[c] = "materialize" \/ oras[c] # "none" THEN "seen"
       ELSE IF pc[c] = "load" THEN "called" ELSE "idle"]

SnapshotAnswer ==
    [c \in Clis |->
       IF reply[c] \in {"none", "ok", "would", "exists", "missing"}
       THEN reply[c] ELSE "failed"]

Snapshots == INSTANCE SnapshotStore WITH
                Callers <- Clis, Calls <- Ops, NoCall <- None, Nothing <- None,
                First <- InitialTags, Others <- Pushes,
                current <- tag, request <- op, seen <- snap,
                status <- SnapshotStatus, answer <- SnapshotAnswer

\* Nothing locks the tag, so commands can lose each other's work, but not more:
\* what a command puts there is its whole effect on one artifact that was there
\* while it ran and that it had checked; it removes the tag only when that effect
\* leaves no file; and its answer says what it did and saw.
ImplementsSnapshotStore == Snapshots!SnapshotSpec

(***************************************************************************)
(* Claims of the documentation that the interleavings break.               *)
(***************************************************************************)

\* The registry takes the manifest (or the deletion) of command c.
Commits(c) == oras[c] \in OrasRunning /\ oras'[c] \in {"ok", "lost"}

\* What a command checked of the artifact it loaded holds of the artifact it
\* replaces: a create meets no such path (AutoindexCliError::AlreadyExists), an
\* update or delete has something to change, and only artifacts with the native
\* marker are modified (README.md).
ReplacesWhatWasChecked ==
    [][\A c \in Clis :
          Commits(c) /\ tag' # tag =>
             /\ tag # None => tag.native
             /\ Refusal(op[c], FilesOf(tag)) = "none"]_crudVars

\* The files of an artifact the commands published stay within the 64 MiB the
\* next command is ready to download (README.md).
PublishedWithinLimit ==
    tag \notin InitialTags \cup Pushes \cup {None} => AllBytes(tag.files) <= MaxBytes

(***************************************************************************)
(* Liveness.                                                               *)
(***************************************************************************)

\* A command that was started prints its result, unless it is killed.
CommandsEnd == \A c \in Clis : pc[c] \in Active ~> pc[c] \in {"replied", "killed"}
=============================================================================
