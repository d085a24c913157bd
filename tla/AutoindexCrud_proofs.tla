------------------------ MODULE AutoindexCrud_proofs ------------------------
(***************************************************************************)
(* What the CRUD commands guarantee for any number of commands, any files  *)
(* and contents, and whatever other clients do to the tag and the blobs.   *)
(***************************************************************************)
EXTENDS AutoindexCrud, TLAPS

(***************************************************************************)
(* Trees.                                                                  *)
(***************************************************************************)

LEMMA EmptyTreeIsTree == EmptyTree \in Trees /\ DOMAIN EmptyTree = {}
<1>1. EmptyTree \in [{} -> Contents]
  BY DEF EmptyTree
<1> QED
  BY <1>1 DEF Trees, EmptyTree

LEMMA TreeIsFunction ==
    ASSUME NEW t \in Trees
    PROVE  /\ DOMAIN t \subseteq Files
           /\ t \in [DOMAIN t -> Contents]
BY DEF Trees

\* Writing a file gives a tree with that file and the others unchanged.
LEMMA WithIsTree ==
    ASSUME NEW t \in Trees, NEW p \in Files, NEW x \in Contents
    PROVE  /\ With(t, p, x) \in Trees
           /\ DOMAIN With(t, p, x) = DOMAIN t \cup {p}
<1>1. With(t, p, x) \in [DOMAIN t \cup {p} -> Contents]
  BY TreeIsFunction DEF With
<1>2. DOMAIN t \cup {p} \in SUBSET Files
  BY TreeIsFunction
<1> QED
  BY <1>1, <1>2 DEF Trees

\* Removing files gives a tree with the other files.
LEMMA RestrictIsTree ==
    ASSUME NEW t \in Trees, NEW S \in SUBSET DOMAIN t
    PROVE  Restrict(t, S) \in Trees /\ DOMAIN Restrict(t, S) = S
<1>1. Restrict(t, S) \in [S -> Contents]
  BY TreeIsFunction DEF Restrict
<1>2. S \in SUBSET Files
  BY TreeIsFunction
<1> QED
  BY <1>1, <1>2 DEF Trees

\* The effect of an operation on a tree is a tree.
LEMMA EffectIsTree ==
    ASSUME NEW t \in Trees, NEW o \in OpRecords, WellFormed(o)
    PROVE  /\ Effect(o, t) \in Trees
           /\ o.kind = "delete" => DOMAIN Effect(o, t) = DOMAIN t \ Targets(o, t)
           /\ o.kind # "delete" => DOMAIN Effect(o, t) = DOMAIN t \cup {o.path}
<1>1. CASE o.kind = "delete"
  BY <1>1, RestrictIsTree DEF Effect
<1>2. CASE o.kind # "delete"
  BY <1>2, WithIsTree DEF Effect, WellFormed, OpRecords
<1> QED
  BY <1>1, <1>2

\* The effect of an operation the code lets pass has no path that is at once a
\* file and a directory if the tree it starts from has none.
LEMMA EffectIsCollisionFree ==
    ASSUME NEW t \in Trees, NEW o \in OpRecords, WellFormed(o), CollisionFree(t),
           Refusal(o, t) = "none", o.kind = "create" => Insertable(o.path, t)
    PROVE  CollisionFree(Effect(o, t))
<1>1. CASE o.kind = "delete"
  BY <1>1, EffectIsTree DEF CollisionFree
<1>2. CASE o.kind = "create"
  <2>1. o.path \in Seq(Nat)
    BY <1>2, PathsAssumption DEF WellFormed
  <2>2. ~IsUnder(o.path, o.path)
    BY <2>1 DEF IsUnder
  <2> QED
    BY <1>2, <2>2, EffectIsTree DEF CollisionFree, Insertable
<1>3. CASE o.kind = "update"
  <2>1. o.path \in DOMAIN t
    BY <1>3 DEF Refusal, Targets, WellFormed
  <2> QED
    BY <1>3, <2>1, EffectIsTree DEF CollisionFree
<1> QED
  BY <1>1, <1>2, <1>3 DEF OpRecords

\* A restriction of a tree with all its files is the tree.
LEMMA FullRestriction ==
    ASSUME NEW t \in Trees, NEW u \in Trees, IsRestriction(t, u), DOMAIN u \ DOMAIN t = {}
    PROVE  t = u
<1>1. DOMAIN t = DOMAIN u /\ \A p \in DOMAIN t : t[p] = u[p]
  BY DEF IsRestriction
<1>2. t \in [DOMAIN t -> Contents] /\ u \in [DOMAIN u -> Contents]
  BY TreeIsFunction
<1> QED
  BY <1>1, <1>2

LEMMA FilesOfIsTree ==
    ASSUME NEW m \in Manifests \cup {None}
    PROVE  FilesOf(m) \in Trees
BY EmptyTreeIsTree DEF FilesOf, Manifests

LEMMA OpsAreWellFormed ==
    ASSUME NEW o \in Ops
    PROVE  o \in OpRecords /\ WellFormed(o)
BY OpsAssumption

(***************************************************************************)
(* The inductive invariant.                                                *)
(***************************************************************************)

\* A command that downloads has accepted its operation on the artifact it
\* loaded; one that has no work holds nothing.
Loaded(c) ==
    /\ pc[c] # "idle" => op[c] \in Ops
    /\ pc[c] \in {"idle", "load", "replied"} =>
          oras[c] = "none" /\ snap[c] = None /\ work[c] = EmptyTree
    /\ pc[c] = "killed" /\ oras[c] = "none" => snap[c] = None /\ work[c] = EmptyTree
    /\ pc[c] = "materialize" =>
          /\ oras[c] = "none"
          /\ snap[c] = None \/ Compatible(snap[c])
          /\ Refusal(op[c], FilesOf(snap[c])) = "none"
          /\ IsRestriction(work[c], FilesOf(snap[c]))
    /\ pc[c] = "oras" => oras[c] # "none"

\* An ORAS child works on the effect of the operation on that artifact.
Childs(c) ==
    /\ oras[c] # "none" => work[c] = Effect(op[c], FilesOf(snap[c]))
    /\ oras[c] # "none" /\ op[c].kind = "create" => Insertable(op[c].path, FilesOf(snap[c]))
    /\ oras[c] = "upload" => Compatible(Native(work[c]))
    /\ oras[c] \in {"resolve", "delete"} =>
          /\ op[c].kind = "delete"
          /\ Targets(op[c], FilesOf(snap[c])) = DOMAIN FilesOf(snap[c])
          /\ snap[c] # None

CrudInv ==
    /\ TypeOK
    /\ \A c \in Clis : Loaded(c) /\ Childs(c)
    /\ CliLeavesReadableTag

\* Nothing has been started.
LEMMA CrudInit == Init => CrudInv
<1> SUFFICES ASSUME Init PROVE CrudInv
  OBVIOUS
<1>1. tag \in Manifests \cup {None}
  BY TagsAssumption DEF Init
<1>2. Range(FilesOf(tag)) \subseteq Contents
  BY <1>1, FilesOfIsTree, TreeIsFunction DEF Range
<1>3. TypeOK
  BY <1>1, <1>2, EmptyTreeIsTree, BoundsAssumption
  DEF Init, TypeOK, Phases, Replies, OrasRunning, OrasEnded
<1>4. \A c \in Clis : Loaded(c) /\ Childs(c)
  BY DEF Init, Loaded, Childs
<1> QED
  BY <1>1, <1>3, <1>4 DEF CrudInv, Init, CliLeavesReadableTag

\* A command's facts are about its own variables only.
LEMMA Untouched ==
    ASSUME NEW c \in Clis, Loaded(c), Childs(c),
           UNCHANGED <<pc[c], op[c], snap[c], work[c], oras[c]>>
    PROVE  Loaded(c)' /\ Childs(c)'
BY DEF Loaded, Childs

\* Returning keeps the invariant.
LEMMA ReturnKeeps ==
    ASSUME CrudInv, NEW c \in Clis, NEW r \in Replies, pc[c] \in Active, Return(c, r)
    PROVE  CrudInv'
<1> USE DEF Return, registryVars
<1>1. TypeOK'
  BY EmptyTreeIsTree DEF CrudInv, TypeOK, Phases
<1>2. Loaded(c)' /\ Childs(c)'
  BY DEF CrudInv, TypeOK, Loaded, Childs, Active
<1>3. \A d \in Clis \ {c} : UNCHANGED <<pc[d], op[d], snap[d], work[d], oras[d]>>
  BY DEF CrudInv, TypeOK
<1>4. \A d \in Clis : Loaded(d)' /\ Childs(d)'
  BY <1>2, <1>3, Untouched DEF CrudInv
<1> QED
  BY <1>1, <1>4 DEF CrudInv, CliLeavesReadableTag

\* The steps that end a command or refuse its operation.
LEMMA RefusalsKeep ==
    ASSUME CrudInv, NEW c \in Clis,
           \/ RejectSource(c) \/ LoadIncompatible(c) \/ Refuse(c) \/ Preview(c)
           \/ FetchRefused(c) \/ StageRefused(c) \/ Fault(c) \/ OrasExit(c)
    PROVE  CrudInv'
<1>1. pc[c] \in Active /\ \E r \in Replies : Return(c, r)
  BY DEF RejectSource, LoadIncompatible, Refuse, Preview, FetchRefused, StageRefused, Fault,
         OrasExit, Loads, Refusal, Active, Replies
<1> QED
  BY <1>1, ReturnKeeps

\* Starting, and accepting the operation on the artifact just loaded.
LEMMA StartKeeps ==
    ASSUME CrudInv, NEW c \in Clis, NEW o \in Ops, Start(c, o)
    PROVE  CrudInv'
<1> USE DEF Start, registryVars, orasVars
<1>1. TypeOK'
  BY BoundsAssumption DEF CrudInv, TypeOK, Phases, Replies
<1>2. Loaded(c)' /\ Childs(c)'
  BY DEF CrudInv, TypeOK, Loaded, Childs
<1>3. \A d \in Clis \ {c} : UNCHANGED <<pc[d], op[d], snap[d], work[d], oras[d]>>
  BY DEF CrudInv, TypeOK
<1>4. \A d \in Clis : Loaded(d)' /\ Childs(d)'
  BY <1>2, <1>3, Untouched DEF CrudInv
<1> QED
  BY <1>1, <1>4 DEF CrudInv, CliLeavesReadableTag

LEMMA AcceptKeeps ==
    ASSUME CrudInv, NEW c \in Clis, Accept(c)
    PROVE  CrudInv'
<1> USE DEF Accept, Loads, registryVars, orasVars
<1>1. TypeOK'
  BY DEF CrudInv, TypeOK, Phases
<1>2. IsRestriction(EmptyTree, FilesOf(tag))
  BY EmptyTreeIsTree DEF IsRestriction
<1>3. Loaded(c)' /\ Childs(c)'
  BY <1>2 DEF CrudInv, TypeOK, Loaded, Childs
<1>4. \A d \in Clis \ {c} : UNCHANGED <<pc[d], op[d], snap[d], work[d], oras[d]>>
  BY DEF CrudInv, TypeOK
<1>5. \A d \in Clis : Loaded(d)' /\ Childs(d)'
  BY <1>3, <1>4, Untouched DEF CrudInv
<1> QED
  BY <1>1, <1>5 DEF CrudInv, CliLeavesReadableTag

\* Downloading one file of the artifact.
LEMMA FetchKeeps ==
    ASSUME CrudInv, NEW c \in Clis, NEW p \in Files, FetchFile(c, p)
    PROVE  CrudInv'
<1> DEFINE F == FilesOf(snap[c])
           w == With(work[c], p, F[p])
<1>1. F \in Trees /\ p \in DOMAIN F /\ F[p] \in Contents /\ work[c] \in Trees
  BY FilesOfIsTree, TreeIsFunction DEF CrudInv, TypeOK, FetchFile, Unfetched
<1>2. w \in Trees /\ DOMAIN w = DOMAIN work[c] \cup {p}
  BY <1>1, WithIsTree
<1>3. pc[c] = "materialize" /\ work' = [work EXCEPT ![c] = w]
      /\ UNCHANGED <<registryVars, orasVars, pc, op, snap, reply, starts, foreign>>
  BY DEF FetchFile
<1>4. IsRestriction(w, F)
  BY <1>1, <1>3 DEF CrudInv, Loaded, IsRestriction, With
<1> HIDE DEF w
<1> USE DEF registryVars, orasVars
<1>5. TypeOK'
  BY <1>2, <1>3 DEF CrudInv, TypeOK
<1>6. Loaded(c)' /\ Childs(c)'
  BY <1>3, <1>4 DEF CrudInv, TypeOK, Loaded, Childs
<1>7. \A d \in Clis \ {c} : UNCHANGED <<pc[d], op[d], snap[d], work[d], oras[d]>>
  BY <1>3 DEF CrudInv, TypeOK
<1>8. \A d \in Clis : Loaded(d)' /\ Childs(d)'
  BY <1>6, <1>7, Untouched DEF CrudInv
<1> QED
  BY <1>3, <1>5, <1>8 DEF CrudInv, CliLeavesReadableTag

\* Staging the changed tree and starting the ORAS child.
LEMMA StageKeeps ==
    ASSUME CrudInv, NEW c \in Clis, Stage(c)
    PROVE  CrudInv'
<1> DEFINE F == FilesOf(snap[c])
           w == Effect(op[c], F)
<1>1. pc[c] = "materialize" /\ F \in Trees /\ work[c] \in Trees
      /\ op[c] \in Ops /\ Refusal(op[c], F) = "none"
  BY FilesOfIsTree DEF CrudInv, TypeOK, Loaded, Stage
<1>2. work[c] = F
  BY <1>1, FullRestriction DEF CrudInv, Loaded, Stage, Unfetched
<1>3. op[c] \in OpRecords /\ WellFormed(op[c])
  BY <1>1, OpsAreWellFormed
<1>4. /\ w \in Trees
      /\ op[c].kind = "delete" => DOMAIN w = DOMAIN F \ Targets(op[c], F)
      /\ op[c].kind # "delete" => DOMAIN w = DOMAIN F \cup {op[c].path}
  BY <1>1, <1>3, EffectIsTree
<1>5. CollisionFree(F)
  BY <1>1, EmptyTreeIsTree DEF CrudInv, Loaded, Compatible, FilesOf, CollisionFree
<1>6. CollisionFree(w)
  BY <1>1, <1>2, <1>3, <1>5, EffectIsCollisionFree DEF Stage, Writable
<1>7. /\ pc' = [pc EXCEPT ![c] = "oras"]
      /\ work' = [work EXCEPT ![c] = w]
      /\ oras' = [oras EXCEPT ![c] = IF DOMAIN w = {} THEN "resolve" ELSE "upload"]
      /\ UNCHANGED <<registryVars, op, snap, resolved, reply, starts, foreign>>
  BY <1>2 DEF Stage, Staged, ChildFor
<1>8. DOMAIN w # {} => Compatible(Native(w))
  BY <1>6 DEF Compatible, Native
<1>9. DOMAIN w = {} => /\ op[c].kind = "delete"
                       /\ Targets(op[c], F) = DOMAIN F
                       /\ snap[c] # None
  <2> SUFFICES ASSUME DOMAIN w = {}
               PROVE  op[c].kind = "delete" /\ Targets(op[c], F) = DOMAIN F /\ snap[c] # None
    OBVIOUS
  <2>1. op[c].kind = "delete"
    BY <1>4
  <2>2. Targets(op[c], F) = DOMAIN F
    BY <1>4, <2>1 DEF Targets
  <2>3. Targets(op[c], F) # {}
    BY <1>1, <2>1 DEF Refusal
  <2> QED
    BY <2>1, <2>2, <2>3, EmptyTreeIsTree DEF FilesOf
<1> HIDE DEF w
<1> USE DEF registryVars
<1>10. TypeOK'
  BY <1>4, <1>7 DEF CrudInv, TypeOK, Phases, OrasRunning
<1>11. Loaded(c)' /\ Childs(c)'
  <2>1. op[c].kind = "create" => Insertable(op[c].path, F)
    BY <1>2 DEF Stage, Writable
  <2> QED
    BY <1>1, <1>7, <1>8, <1>9, <2>1 DEF CrudInv, TypeOK, Loaded, Childs, w
<1>12. \A d \in Clis \ {c} : UNCHANGED <<pc[d], op[d], snap[d], work[d], oras[d]>>
  BY <1>7 DEF CrudInv, TypeOK
<1>13. \A d \in Clis : Loaded(d)' /\ Childs(d)'
  BY <1>11, <1>12, Untouched DEF CrudInv
<1> QED
  BY <1>7, <1>10, <1>13 DEF CrudInv, CliLeavesReadableTag

\* The ORAS child: the only steps of a command that change the registry.
LEMMA OrasKeeps ==
    ASSUME CrudInv, NEW c \in Clis, OrasStep(c) \/ OrasFails(c)
    PROVE  CrudInv'
<1> USE DEF registryVars, cliVars, orasVars
<1>1. ASSUME NEW x \in Contents, Upload(c, x) PROVE CrudInv'
  BY <1>1, Untouched DEF Upload, CrudInv, TypeOK, CliLeavesReadableTag
<1>2. ASSUME UNCHANGED <<pc, op, snap, work, reply>>,
             NEW e \in OrasEnded \cup {"delete"}, oras' = [oras EXCEPT ![c] = e],
             oras[c] \in OrasRunning, e = "delete" => oras[c] = "resolve"
      PROVE  \A d \in Clis : Loaded(d)' /\ Childs(d)'
  <2>1. Loaded(c)' /\ Childs(c)'
    BY <1>2 DEF CrudInv, TypeOK, Loaded, Childs, OrasRunning, OrasEnded
  <2>2. \A d \in Clis \ {c} : UNCHANGED <<pc[d], op[d], snap[d], work[d], oras[d]>>
    BY <1>2 DEF CrudInv, TypeOK
  <2> QED
    BY <2>1, <2>2, Untouched DEF CrudInv
<1>3. ASSUME PutManifest(c) PROVE CrudInv'
  <2>1. Compatible(tag') /\ tag' \in Manifests
    BY <1>3 DEF PutManifest, CrudInv, Childs, TypeOK, Native, Manifests
  <2>2. TypeOK'
    BY <1>3, <2>1 DEF PutManifest, CrudInv, TypeOK, OrasEnded
  <2>3. \A d \in Clis : Loaded(d)' /\ Childs(d)'
    BY <1>2, <1>3 DEF PutManifest, CrudInv, TypeOK, OrasRunning, OrasEnded
  <2> QED
    BY <2>1, <2>2, <2>3 DEF CrudInv, CliLeavesReadableTag
<1>4. ASSUME Resolve(c) PROVE CrudInv'
  <2>1. TypeOK'
    BY <1>4 DEF Resolve, CrudInv, TypeOK, OrasRunning, OrasEnded
  <2>2. \A d \in Clis : Loaded(d)' /\ Childs(d)'
    BY <1>2, <1>4 DEF Resolve, CrudInv, TypeOK, OrasRunning, OrasEnded
  <2> QED
    BY <1>4, <2>1, <2>2 DEF Resolve, CrudInv, CliLeavesReadableTag
<1>5. ASSUME DeleteManifest(c) PROVE CrudInv'
  <2>1. TypeOK'
    BY <1>5 DEF DeleteManifest, CrudInv, TypeOK, OrasEnded
  <2>2. \A d \in Clis : Loaded(d)' /\ Childs(d)'
    BY <1>2, <1>5 DEF DeleteManifest, CrudInv, TypeOK, OrasRunning, OrasEnded
  <2> QED
    BY <1>5, <2>1, <2>2 DEF DeleteManifest, CrudInv, CliLeavesReadableTag
<1>6. ASSUME OrasFails(c) PROVE CrudInv'
  <2>1. TypeOK'
    BY <1>6 DEF OrasFails, CrudInv, TypeOK, OrasEnded
  <2>2. \A d \in Clis : Loaded(d)' /\ Childs(d)'
    BY <1>2, <1>6 DEF OrasFails, CrudInv, TypeOK, OrasEnded
  <2> QED
    BY <1>6, <2>1, <2>2 DEF OrasFails, CrudInv, CliLeavesReadableTag
<1> QED
  BY <1>1, <1>3, <1>4, <1>5, <1>6 DEF OrasStep

\* Signals.
LEMMA SignalsKeep ==
    ASSUME CrudInv, NEW c \in Clis, Interrupt(c) \/ Orphan(c) \/ OrphanEnds(c)
    PROVE  CrudInv'
<1> USE DEF Interrupt, Orphan, OrphanEnds, registryVars, orasVars
<1>1. TypeOK'
  BY EmptyTreeIsTree DEF CrudInv, TypeOK, Phases
<1>2. Loaded(c)' /\ Childs(c)'
  BY DEF CrudInv, TypeOK, Loaded, Childs, Active, OrasRunning
<1>3. \A d \in Clis \ {c} : UNCHANGED <<pc[d], op[d], snap[d], work[d], oras[d]>>
  BY DEF CrudInv, TypeOK
<1>4. \A d \in Clis : Loaded(d)' /\ Childs(d)'
  BY <1>2, <1>3, Untouched DEF CrudInv
<1> QED
  BY <1>1, <1>4 DEF CrudInv, CliLeavesReadableTag

\* Other clients.
LEMMA ForeignKeeps ==
    ASSUME CrudInv, ForeignNext
    PROVE  CrudInv'
<1> USE DEF registryVars, cliVars, orasVars
<1>1. ASSUME NEW m \in Pushes, Push(m) PROVE CrudInv'
  <2>1. m \in Manifests \cup {None} /\ Range(FilesOf(m)) \subseteq Contents
    BY TagsAssumption, FilesOfIsTree, TreeIsFunction DEF Range
  <2>2. TypeOK'
    BY <1>1, <2>1, BoundsAssumption DEF Push, CrudInv, TypeOK
  <2> QED
    BY <1>1, <2>2, Untouched DEF Push, CrudInv, CliLeavesReadableTag
<1>2. ASSUME NEW x \in blobs, RemoveBlob(x) PROVE CrudInv'
  <2>1. TypeOK'
    BY <1>2, BoundsAssumption DEF RemoveBlob, CrudInv, TypeOK
  <2> QED
    BY <1>2, <2>1, Untouched DEF RemoveBlob, CrudInv, CliLeavesReadableTag
<1> QED
  BY <1>1, <1>2 DEF ForeignNext

\* Every step keeps the invariant.
LEMMA CrudNext == CrudInv /\ [Next]_crudVars => CrudInv'
<1> SUFFICES ASSUME CrudInv, [Next]_crudVars PROVE CrudInv'
  OBVIOUS
<1>1. CASE UNCHANGED crudVars
  BY <1>1, Untouched DEF crudVars, CrudInv, TypeOK, CliLeavesReadableTag
<1>2. ASSUME NEW c \in Clis, CliStep(c) PROVE CrudInv'
  BY <1>2, RefusalsKeep, AcceptKeeps, FetchKeeps, StageKeeps DEF CliStep
<1> QED
  BY <1>1, <1>2, StartKeeps, OrasKeeps, RefusalsKeep, SignalsKeep, ForeignKeeps
  DEF Next, CliNext, Failure

(***************************************************************************)
(* The theorems.                                                           *)
(***************************************************************************)

\* The types of the model are kept (all of AutoindexCrud).
THEOREM CrudTypeCorrect == Spec => []TypeOK
<1>1. CrudInv => TypeOK
  BY DEF CrudInv
<1> QED
  BY CrudInit, CrudNext, <1>1, PTL DEF Spec

\* What a command uploads is its operation's effect on the artifact it loaded,
\* whatever happens to the registry while it downloads.
THEOREM UploadsAreEffects == Spec => []StagedIsEffect
<1>1. CrudInv => StagedIsEffect
  BY DEF CrudInv, Loaded, Childs, StagedIsEffect
<1> QED
  BY CrudInit, CrudNext, <1>1, PTL DEF Spec

\* The commands leave no artifact they would refuse to load.
THEOREM TagsStayReadable == Spec => []CliLeavesReadableTag
<1>1. CrudInv => CliLeavesReadableTag
  BY DEF CrudInv
<1> QED
  BY CrudInit, CrudNext, <1>1, PTL DEF Spec

(***************************************************************************)
(* The commands implement SnapshotStore, whatever they overlap with.       *)
(***************************************************************************)

\* What SnapshotStore sees of a command.
PhaseOf(p, o) == IF o \in {"ok", "lost"} THEN "applied"
                 ELSE IF p = "materialize" \/ o # "none" THEN "seen"
                 ELSE IF p = "load" THEN "called" ELSE "idle"

Shown(r) == IF r \in {"none", "ok", "would", "exists", "missing"} THEN r ELSE "failed"

SnapshotView == <<tag, op, snap, SnapshotStatus, SnapshotAnswer>>

\* SnapshotStore's instance of FileTree is FileTree, and its view of an artifact
\* is the commands'.
LEMMA SameTrees ==
    /\ \A o, t : Snapshots!Refusal(o, t) = Refusal(o, t)
    /\ \A o, t : Snapshots!Effect(o, t) = Effect(o, t)
    /\ \A p, t : Snapshots!Insertable(p, t) <=> Insertable(p, t)
    /\ \A m : Snapshots!Contained(m) = FilesOf(m)
    /\ \A m : Snapshots!Usable(m) <=> (m # None => Compatible(m))
<1> USE DEF Snapshots!IsUnder, IsUnder, Snapshots!Targets, Targets
<1>1. \A o, t : Snapshots!Refusal(o, t) = Refusal(o, t)
  BY DEF Snapshots!Refusal, Refusal
<1>2. \A o, t : Snapshots!Effect(o, t) = Effect(o, t)
  BY DEF Snapshots!Effect, Effect, Snapshots!Restrict, Restrict, Snapshots!With, With
<1>3. \A p, t : Snapshots!Insertable(p, t) <=> Insertable(p, t)
  BY DEF Snapshots!Insertable, Insertable
<1>4. \A m : Snapshots!Contained(m) = FilesOf(m)
  BY DEF Snapshots!Contained, FilesOf, Snapshots!EmptyTree, EmptyTree
<1>5. \A m : Snapshots!Usable(m) <=> (m # None => Compatible(m))
  BY DEF Snapshots!Usable, Compatible, Snapshots!CollisionFree, CollisionFree
<1> QED
  BY <1>1, <1>2, <1>3, <1>4, <1>5

LEMMA PhaseIsOf ==
    /\ SnapshotStatus = [c \in Clis |-> PhaseOf(pc[c], oras[c])]
    /\ SnapshotAnswer = [c \in Clis |-> Shown(reply[c])]
BY DEF SnapshotStatus, SnapshotAnswer, PhaseOf, Shown

LEMMA PhaseIsOfNext ==
    /\ SnapshotStatus' = [c \in Clis |-> PhaseOf(pc'[c], oras'[c])]
    /\ SnapshotAnswer' = [c \in Clis |-> Shown(reply'[c])]
<1>1. (/\ SnapshotStatus = [c \in Clis |-> PhaseOf(pc[c], oras[c])]
       /\ SnapshotAnswer = [c \in Clis |-> Shown(reply[c])])'
  BY PhaseIsOf, PTL
<1> QED
  BY <1>1

\* A step that changes the phase, and one that changes the answer, of one command.
LEMMA PhaseChanges ==
    ASSUME CrudInv, NEW c \in Clis, NEW p, NEW o,
           pc' = [pc EXCEPT ![c] = p], oras' = [oras EXCEPT ![c] = o]
    PROVE  /\ SnapshotStatus[c] = PhaseOf(pc[c], oras[c])
           /\ SnapshotStatus' = [SnapshotStatus EXCEPT ![c] = PhaseOf(p, o)]
<1>1. /\ \A d \in Clis : pc'[d] = IF d = c THEN p ELSE pc[d]
      /\ \A d \in Clis : oras'[d] = IF d = c THEN o ELSE oras[d]
  BY DEF CrudInv, TypeOK
<1>2. \A d \in Clis : PhaseOf(pc'[d], oras'[d])
                         = IF d = c THEN PhaseOf(p, o) ELSE PhaseOf(pc[d], oras[d])
  BY <1>1
<1> HIDE DEF PhaseOf
<1> QED
  BY <1>2, PhaseIsOf, PhaseIsOfNext

LEMMA AnswerChanges ==
    ASSUME CrudInv, NEW c \in Clis, NEW r, reply' = [reply EXCEPT ![c] = r]
    PROVE  SnapshotAnswer' = [SnapshotAnswer EXCEPT ![c] = Shown(r)]
<1>1. \A d \in Clis : reply'[d] = IF d = c THEN r ELSE reply[d]
  BY DEF CrudInv, TypeOK
<1>2. \A d \in Clis : Shown(reply'[d]) = IF d = c THEN Shown(r) ELSE Shown(reply[d])
  BY <1>1
<1> HIDE DEF Shown
<1> QED
  BY <1>2, PhaseIsOf, PhaseIsOfNext

LEMMA AnswerStays == UNCHANGED reply => UNCHANGED SnapshotAnswer
BY PhaseIsOf, PhaseIsOfNext

\* What only moves a command on within its phase is not seen.
LEMMA WithinPhase ==
    ASSUME CrudInv, NEW c \in Clis, NEW p, NEW o,
           pc' = [pc EXCEPT ![c] = p], oras' = [oras EXCEPT ![c] = o],
           PhaseOf(p, o) = PhaseOf(pc[c], oras[c]), UNCHANGED <<tag, op, snap, reply>>
    PROVE  UNCHANGED SnapshotView
<1>1. /\ SnapshotStatus' = [SnapshotStatus EXCEPT ![c] = SnapshotStatus[c]]
      /\ SnapshotAnswer' = SnapshotAnswer
  BY PhaseChanges, AnswerStays
<1>2. SnapshotStatus' = SnapshotStatus
  BY <1>1, PhaseIsOf
<1> QED
  BY <1>1, <1>2 DEF SnapshotView

\* A command that returns answers its call, if what it says may be answered.
LEMMA ReturnAnswers ==
    ASSUME CrudInv, NEW c \in Clis, NEW r, Return(c, r),
           Snapshots!Answerable(c, Shown(r))
    PROVE  Snapshots!Answer(c, Shown(r))
<1>1. UNCHANGED <<tag, op>> /\ snap' = [snap EXCEPT ![c] = None]
  BY DEF Return, registryVars
<1>2. PhaseOf("replied", "none") = "idle"
  BY DEF PhaseOf
<1>3. /\ pc' = [pc EXCEPT ![c] = "replied"]
      /\ oras' = [oras EXCEPT ![c] = "none"]
      /\ reply' = [reply EXCEPT ![c] = r]
  BY DEF Return
<1>4. /\ SnapshotStatus' = [SnapshotStatus EXCEPT ![c] = PhaseOf("replied", "none")]
      /\ SnapshotAnswer' = [SnapshotAnswer EXCEPT ![c] = Shown(r)]
  BY <1>3, PhaseChanges, AnswerChanges
<1> QED
  BY <1>1, <1>2, <1>4 DEF Snapshots!Answer, Snapshots!Leave

\* The steps that end a command: its answer is true of what it did and saw.
LEMMA EndAnswers ==
    ASSUME CrudInv, NEW c \in Clis,
           RejectSource(c) \/ LoadIncompatible(c) \/ Refuse(c) \/ Preview(c) \/ FetchRefused(c)
           \/ StageRefused(c) \/ OrasExit(c) \/ Fault(c)
    PROVE  \E a \in Snapshots!Answers : Snapshots!Answer(c, a)
<1>0. SnapshotStatus[c] = PhaseOf(pc[c], oras[c]) /\ Loaded(c)
  BY PhaseIsOf DEF CrudInv
<1>1. \A r : Shown(r) \in Snapshots!Answers
  BY DEF Shown, Snapshots!Answers
<1>2. ASSUME NEW r \in {"source", "invalid", "registry", "storage", "publication", "oras"},
             Return(c, r), pc[c] \in Active
      PROVE  \E a \in Snapshots!Answers : Snapshots!Answer(c, a)
  <2>1. SnapshotStatus[c] # "idle" /\ Shown(r) = "failed"
    BY <1>0, <1>2 DEF PhaseOf, Loaded, Active, Shown
  <2> QED
    BY <1>1, <1>2, <2>1, ReturnAnswers DEF Snapshots!Answerable
<1>3. CASE RejectSource(c) \/ LoadIncompatible(c) \/ FetchRefused(c) \/ StageRefused(c) \/ Fault(c)
  BY <1>2, <1>3
  DEF RejectSource, LoadIncompatible, FetchRefused, StageRefused, Fault, Active
<1>4. ASSUME pc[c] = "load" PROVE SnapshotStatus[c] = "called"
  BY <1>0, <1>4 DEF PhaseOf, Loaded
<1>5. CASE Refuse(c)
  <2>1. PICK a \in {"exists", "missing"} : Return(c, a) /\ Refusal(op[c], FilesOf(tag)) = a
    BY <1>5 DEF Refuse, Refusal
  <2>2. Shown(a) = a
    BY DEF Shown
  <2>3. Snapshots!Answerable(c, a)
    BY <1>4, <1>5, <2>1, SameTrees DEF Refuse, Loads, Snapshots!Answerable
  <2> QED
    BY <1>1, <2>1, <2>2, <2>3, ReturnAnswers
<1>6. CASE Preview(c)
  <2>1. Shown("would") = "would"
    BY DEF Shown
  <2>2. Snapshots!Answerable(c, "would")
    BY <1>4, <1>6, SameTrees DEF Preview, Loads, Snapshots!Answerable
  <2> QED
    BY <1>1, <1>6, <2>1, <2>2, ReturnAnswers DEF Preview
<1>7. CASE OrasExit(c)
  <2>1. CASE oras[c] = "ok"
    <3>1. Shown("ok") = "ok"
      BY DEF Shown
    <3>2. Snapshots!Answerable(c, "ok")
      BY <1>0, <2>1 DEF PhaseOf, Snapshots!Answerable
    <3> QED
      BY <1>1, <1>7, <2>1, <3>1, <3>2, ReturnAnswers DEF OrasExit
  <2>2. CASE oras[c] # "ok"
    BY <1>2, <1>7, <2>2 DEF OrasExit, Active
  <2> QED
    BY <2>1, <2>2
<1> QED
  BY <1>3, <1>5, <1>6, <1>7

\* Starting a command calls the store.
LEMMA StartCalls ==
    ASSUME CrudInv, NEW c \in Clis, NEW o \in Ops, Start(c, o)
    PROVE  Snapshots!Call(c, o)
<1>1. /\ pc' = [pc EXCEPT ![c] = "load"]
      /\ oras' = [oras EXCEPT ![c] = "none"]
      /\ reply' = [reply EXCEPT ![c] = "none"]
      /\ op' = [op EXCEPT ![c] = o] /\ UNCHANGED <<tag, snap>>
      /\ pc[c] \in {"idle", "replied", "killed"} /\ oras[c] = "none"
  BY DEF Start, orasVars, registryVars, CrudInv, TypeOK
<1>2. /\ SnapshotStatus' = [SnapshotStatus EXCEPT ![c] = PhaseOf("load", "none")]
      /\ SnapshotAnswer' = [SnapshotAnswer EXCEPT ![c] = Shown("none")]
  BY <1>1, PhaseChanges, AnswerChanges
<1>3. PhaseOf("load", "none") = "called" /\ Shown("none") = "none"
  BY DEF PhaseOf, Shown
<1>4. SnapshotStatus[c] = "idle"
  BY <1>1, PhaseIsOf DEF PhaseOf
<1> QED
  BY <1>1, <1>2, <1>3, <1>4 DEF Snapshots!Call

\* Accepting the operation is the look at the artifact.
LEMMA AcceptLooks ==
    ASSUME CrudInv, NEW c \in Clis, Accept(c)
    PROVE  Snapshots!Look(c)
<1>1. /\ pc' = [pc EXCEPT ![c] = "materialize"]
      /\ oras' = [oras EXCEPT ![c] = "none"]
      /\ snap' = [snap EXCEPT ![c] = tag] /\ UNCHANGED <<tag, op, reply>>
      /\ pc[c] = "load" /\ oras[c] = "none"
  BY DEF Accept, Loads, orasVars, registryVars, CrudInv, TypeOK, Loaded
<1>2. /\ SnapshotStatus[c] = PhaseOf(pc[c], oras[c])
      /\ SnapshotStatus' = [SnapshotStatus EXCEPT ![c] = PhaseOf("materialize", "none")]
      /\ SnapshotAnswer' = SnapshotAnswer
  BY <1>1, PhaseChanges, AnswerStays
<1>3. PhaseOf("materialize", "none") = "seen" /\ PhaseOf(pc[c], oras[c]) = "called"
  BY <1>1 DEF PhaseOf
<1> QED
  BY <1>1, <1>2, <1>3, SameTrees DEF Accept, Loads, Snapshots!Look

\* Downloading, staging, uploading blobs, resolving a tag that is there, a failing
\* child, a signal to the command alone.
LEMMA WorkIsUnseen ==
    ASSUME CrudInv, NEW c \in Clis,
           \/ (\E p \in Files : FetchFile(c, p)) \/ Stage(c)
           \/ (\E x \in Contents : Upload(c, x)) \/ (Resolve(c) /\ tag # None)
           \/ OrasFails(c) \/ Orphan(c)
    PROVE  UNCHANGED SnapshotView
<1> USE DEF registryVars, cliVars, orasVars
<1>0. TypeOK /\ Loaded(c)
  BY DEF CrudInv
<1>1. pc = [pc EXCEPT ![c] = pc[c]] /\ oras = [oras EXCEPT ![c] = oras[c]]
  BY <1>0 DEF TypeOK
<1>2. CASE (\E p \in Files : FetchFile(c, p)) \/ (\E x \in Contents : Upload(c, x))
  BY <1>2 DEF FetchFile, Upload, SnapshotView, SnapshotStatus, SnapshotAnswer
<1>3. ASSUME NEW p, NEW o,
             pc' = [pc EXCEPT ![c] = p], oras' = [oras EXCEPT ![c] = o],
             UNCHANGED <<tag, op, snap, reply>>, o \in OrasRunning \cup {"failed"},
             (pc[c] = "materialize" /\ oras[c] = "none") \/ oras[c] \in OrasRunning
      PROVE  UNCHANGED SnapshotView
  <2>1. PhaseOf(p, o) = "seen" /\ PhaseOf(pc[c], oras[c]) = "seen"
    BY <1>3 DEF PhaseOf, OrasRunning
  <2> QED
    BY <1>3, <2>1, WithinPhase
<1>4. CASE Stage(c)
  <2>1. PICK o \in {"resolve", "upload"} : oras' = [oras EXCEPT ![c] = o]
    BY <1>4 DEF Stage, ChildFor
  <2>2. /\ pc' = [pc EXCEPT ![c] = "oras"] /\ UNCHANGED <<tag, op, snap, reply>>
        /\ pc[c] = "materialize" /\ oras[c] = "none"
    BY <1>0, <1>4 DEF Stage, Loaded
  <2> QED
    BY <1>3, <2>1, <2>2 DEF OrasRunning
<1>5. CASE Resolve(c) /\ tag # None
  <2>1. pc' = [pc EXCEPT ![c] = pc[c]] /\ oras' = [oras EXCEPT ![c] = "delete"]
        /\ UNCHANGED <<tag, op, snap, reply>> /\ oras[c] = "resolve"
    BY <1>1, <1>5 DEF Resolve
  <2> QED
    BY <1>3, <2>1 DEF OrasRunning
<1>6. CASE OrasFails(c)
  <2>1. pc' = [pc EXCEPT ![c] = pc[c]] /\ oras' = [oras EXCEPT ![c] = "failed"]
        /\ UNCHANGED <<tag, op, snap, reply>> /\ oras[c] \in OrasRunning
    BY <1>1, <1>6 DEF OrasFails
  <2> QED
    BY <1>3, <2>1
<1>7. CASE Orphan(c)
  <2>1. pc' = [pc EXCEPT ![c] = "killed"] /\ oras' = [oras EXCEPT ![c] = oras[c]]
        /\ UNCHANGED <<tag, op, snap, reply>> /\ oras[c] \in OrasRunning
    BY <1>1, <1>7 DEF Orphan
  <2> QED
    BY <1>3, <2>1
<1> QED
  BY <1>2, <1>4, <1>5, <1>6, <1>7

\* A child that has done its work has applied the operation.
LEMMA ChildApplies ==
    ASSUME CrudInv, NEW c \in Clis, NEW e \in {"ok", "lost"}, oras[c] \in OrasRunning,
           oras' = [oras EXCEPT ![c] = e], UNCHANGED <<pc, op, snap, reply>>
    PROVE  Snapshots!Applied(c)
<1>1. \A d \in Clis : oras'[d] = IF d = c THEN e ELSE oras[d]
  BY DEF CrudInv, TypeOK
<1>2. PhaseOf(pc[c], oras[c]) = "seen" /\ \A p : PhaseOf(p, e) = "applied"
  BY DEF PhaseOf, OrasRunning
<1>3. \A d \in Clis : PhaseOf(pc'[d], oras'[d])
                         = IF d = c THEN "applied" ELSE PhaseOf(pc[d], oras[d])
  BY <1>1, <1>2
<1> HIDE DEF PhaseOf
<1>4. SnapshotStatus' = [SnapshotStatus EXCEPT ![c] = "applied"]
  BY <1>3, PhaseIsOf, PhaseIsOfNext
<1>5. SnapshotStatus[c] = "seen"
  BY <1>2, PhaseIsOf
<1> QED
  BY <1>4, <1>5, AnswerStays DEF Snapshots!Applied

\* The registry takes the manifest: the artifact is replaced by the whole effect
\* on what was seen.  The tag goes, or is gone: no file is due.
LEMMA CommitReplaces ==
    ASSUME CrudInv, NEW c \in Clis,
           PutManifest(c) \/ DeleteManifest(c) \/ (Resolve(c) /\ tag = None)
    PROVE  Snapshots!Replace(c) \/ Snapshots!Remove(c)
<1> USE DEF cliVars
<1>0. TypeOK /\ Loaded(c) /\ Childs(c)
  BY DEF CrudInv
<1>1. oras[c] \in OrasRunning
  BY DEF PutManifest, DeleteManifest, Resolve, OrasRunning
<1>2. PICK e \in {"ok", "lost"} : oras' = [oras EXCEPT ![c] = e]
  BY DEF PutManifest, DeleteManifest, Resolve
<1>3. UNCHANGED <<pc, op, snap, reply>>
  BY DEF PutManifest, DeleteManifest, Resolve
<1>6. Snapshots!Applied(c)
  BY <1>1, <1>2, <1>3, ChildApplies
<1>7. Snapshots!Due(c) = work[c]
      /\ (op[c].kind = "create" => Snapshots!Insertable(op[c].path, Snapshots!Contained(snap[c])))
  BY <1>0, <1>1, SameTrees DEF Childs, OrasRunning, Snapshots!Due
<1>8. CASE PutManifest(c)
  <2>1. DOMAIN work[c] # {}
    BY <1>0, <1>8 DEF PutManifest, Childs, Compatible, Native
  <2> QED
    BY <1>6, <1>7, <1>8, <2>1 DEF PutManifest, Native, Snapshots!Replace
<1>9. CASE DeleteManifest(c) \/ (Resolve(c) /\ tag = None)
  <2>1. op[c].kind = "delete" /\ Targets(op[c], FilesOf(snap[c])) = DOMAIN FilesOf(snap[c])
        /\ work[c] = Effect(op[c], FilesOf(snap[c]))
    BY <1>0, <1>1, <1>9 DEF DeleteManifest, Resolve, Childs, OrasRunning
  <2>2. DOMAIN work[c] = {}
    BY <2>1 DEF Effect, Restrict
  <2>3. tag' \in {None, tag}
    BY <1>9 DEF DeleteManifest, Resolve, registryVars
  <2> QED
    BY <1>6, <1>7, <2>2, <2>3 DEF Snapshots!Remove
<1> QED
  BY <1>8, <1>9

\* A signal, or the end of the child of a killed command: nobody learns the outcome.
LEMMA KillAbandons ==
    ASSUME CrudInv, NEW c \in Clis, Interrupt(c) \/ OrphanEnds(c)
    PROVE  Snapshots!Abandon(c)
<1>1. /\ pc' = [pc EXCEPT ![c] = "killed"] /\ oras' = [oras EXCEPT ![c] = "none"]
      /\ snap' = [snap EXCEPT ![c] = None] /\ UNCHANGED <<tag, op, reply>>
  BY DEF Interrupt, OrphanEnds, CrudInv, TypeOK, registryVars
<1>2. /\ SnapshotStatus[c] = PhaseOf(pc[c], oras[c])
      /\ SnapshotStatus' = [SnapshotStatus EXCEPT ![c] = PhaseOf("killed", "none")]
      /\ SnapshotAnswer' = SnapshotAnswer
  BY <1>1, PhaseChanges, AnswerStays
<1>3. PhaseOf("killed", "none") = "idle"
  BY DEF PhaseOf
<1>4. PhaseOf(pc[c], oras[c]) # "idle"
  BY DEF PhaseOf, Interrupt, OrphanEnds, OrasEnded, Active, CrudInv, Loaded
<1> QED
  BY <1>1, <1>2, <1>3, <1>4 DEF Snapshots!Abandon, Snapshots!Leave

\* Every step of the commands and of the other clients is one of SnapshotStore's,
\* or none.
LEMMA SnapshotStep ==
    ASSUME CrudInv, [Next]_crudVars
    PROVE  [Snapshots!SnapshotNext]_SnapshotView
<1>1. CASE UNCHANGED crudVars
  BY <1>1 DEF crudVars, SnapshotView, SnapshotStatus, SnapshotAnswer
<1>2. ASSUME NEW c \in Clis,
             (\E o \in Ops : Start(c, o)) \/ CliStep(c) \/ OrasStep(c) \/ OrphanEnds(c) \/ Failure(c)
      PROVE  [Snapshots!SnapshotNext]_SnapshotView
  <2>1. CASE \E o \in Ops : Start(c, o)
    BY <2>1, StartCalls DEF Snapshots!SnapshotNext
  <2>2. CASE CliStep(c)
    BY <2>2, EndAnswers, AcceptLooks, WorkIsUnseen DEF CliStep, Snapshots!SnapshotNext
  <2>3. CASE OrasStep(c)
    BY <2>3, WorkIsUnseen, CommitReplaces DEF OrasStep, Snapshots!SnapshotNext
  <2>4. CASE OrphanEnds(c) \/ Failure(c)
    BY <2>4, EndAnswers, WorkIsUnseen, KillAbandons DEF Failure, Snapshots!SnapshotNext
  <2> QED
    BY <1>2, <2>1, <2>2, <2>3, <2>4
<1>3. ASSUME NEW m \in Pushes, Push(m) PROVE [Snapshots!SnapshotNext]_SnapshotView
  <2>1. Snapshots!Overwrite(m)
    BY <1>3 DEF Push, cliVars, orasVars, SnapshotStatus, SnapshotAnswer, Snapshots!Overwrite
  <2> QED
    BY <2>1 DEF Snapshots!SnapshotNext
<1>4. ASSUME NEW x \in blobs, RemoveBlob(x) PROVE UNCHANGED SnapshotView
  BY <1>4 DEF RemoveBlob, cliVars, orasVars, SnapshotView, SnapshotStatus, SnapshotAnswer
<1> QED
  BY <1>1, <1>2, <1>3, <1>4 DEF Next, CliNext, ForeignNext

\* However the commands overlap with each other, with the ORAS children of killed
\* ones and with other clients, what a command puts there is its whole effect on one
\* artifact that was there while it ran and that it had checked, it takes the tag
\* away only when no file is due, and its answer says what it did and saw.
THEOREM CommandsImplementSnapshotStore == Spec => ImplementsSnapshotStore
<1>1. Init => Snapshots!SnapshotInit
  BY DEF Init, Snapshots!SnapshotInit, SnapshotStatus, SnapshotAnswer
<1>2. CrudInv /\ [Next]_crudVars => [Snapshots!SnapshotNext]_SnapshotView
  BY SnapshotStep
<1> QED
  BY CrudInit, CrudNext, <1>1, <1>2, PTL
  DEF Spec, ImplementsSnapshotStore, Snapshots!SnapshotSpec, Snapshots!snapshotVars, SnapshotView

(***************************************************************************)
(* One command at a time.  Nothing in the code locks the tag, so this is   *)
(* an assumption about how the commands are used; the run crud_races shows *)
(* what happens without it.  With it, and without other clients, what a    *)
(* command loaded is what it replaces.                                     *)
(***************************************************************************)

\* A command is at work until it has returned and its ORAS child has ended.
AtWork(c) == pc[c] \in Active \/ oras[c] # "none"

OneAtWork == \A c, d \in Clis : c # d => ~(AtWork(c) /\ AtWork(d))

\* The artifact a command works on is still the one the tag names, until its own
\* child moves the tag.
Fresh(c) ==
    /\ pc[c] = "materialize" \/ oras[c] \in OrasRunning =>
          /\ tag = snap[c]
          /\ tag # None => Compatible(tag)
          /\ ~op[c].dry
          /\ Refusal(op[c], FilesOf(tag)) = "none"
    /\ oras[c] \in OrasRunning /\ op[c].kind = "create" => Insertable(op[c].path, FilesOf(tag))
    /\ oras[c] = "delete" => resolved[c] = tag

FreshInv == CrudInv /\ \A c \in Clis : Fresh(c)

LEMMA FreshInit == Init => FreshInv
BY CrudInit DEF FreshInv, Fresh, Init, OrasRunning

\* A step of a command leaves the variables of the others alone, and moves the
\* tag only through its ORAS child.
LEMMA StepIsOwn ==
    ASSUME CrudInv, NEW c \in Clis,
           CliStep(c) \/ OrasStep(c) \/ Failure(c) \/ OrphanEnds(c) \/ \E o \in Ops : Start(c, o)
    PROVE  /\ \A d \in Clis \ {c} :
                 UNCHANGED <<pc[d], op[d], snap[d], work[d], oras[d], resolved[d]>>
           /\ oras[c] \notin {"upload", "delete"} => UNCHANGED tag
<1>1. \A r : Return(c, r) =>
         /\ \A d \in Clis \ {c} :
               UNCHANGED <<pc[d], op[d], snap[d], work[d], oras[d], resolved[d]>>
         /\ UNCHANGED tag
  BY DEF CrudInv, TypeOK, Return, registryVars
<1>2. CASE RejectSource(c) \/ LoadIncompatible(c) \/ Refuse(c) \/ Preview(c) \/ FetchRefused(c)
           \/ StageRefused(c) \/ OrasExit(c) \/ Fault(c)
  BY <1>1, <1>2
  DEF RejectSource, LoadIncompatible, Refuse, Preview, FetchRefused, StageRefused, OrasExit, Fault
<1>3. CASE Accept(c) \/ (\E p \in Files : FetchFile(c, p)) \/ Stage(c)
  BY <1>3 DEF CrudInv, TypeOK, Accept, FetchFile, Stage, registryVars, orasVars
<1>4. CASE OrasStep(c)
  BY <1>4 DEF CrudInv, TypeOK, OrasStep, Upload, PutManifest, Resolve, DeleteManifest,
     registryVars, cliVars, orasVars
<1>5. CASE OrasFails(c) \/ Interrupt(c) \/ Orphan(c) \/ OrphanEnds(c) \/ \E o \in Ops : Start(c, o)
  BY <1>5 DEF CrudInv, TypeOK, OrasFails, Interrupt, Orphan, OrphanEnds, Start, registryVars,
     cliVars, orasVars
<1> QED
  BY <1>2, <1>3, <1>4, <1>5 DEF CliStep, Failure

\* The steps of a command keep its own artifact fresh.
LEMMA OwnStepFresh ==
    ASSUME FreshInv, CrudInv', NEW c \in Clis,
           CliStep(c) \/ OrasStep(c) \/ Failure(c) \/ OrphanEnds(c) \/ \E o \in Ops : Start(c, o)
    PROVE  Fresh(c)'
<1> USE DEF registryVars, orasVars, cliVars
<1>0. CrudInv /\ Fresh(c) /\ Loaded(c) /\ TypeOK
  BY DEF FreshInv, CrudInv
<1>1. ASSUME pc'[c] # "materialize", oras'[c] \notin OrasRunning
      PROVE  Fresh(c)'
  BY <1>1 DEF Fresh, OrasRunning
<1>2. ASSUME NEW r, Return(c, r) PROVE Fresh(c)'
  BY <1>0, <1>1, <1>2 DEF Return, TypeOK, OrasRunning
<1>3. CASE RejectSource(c) \/ LoadIncompatible(c) \/ Refuse(c) \/ Preview(c) \/ FetchRefused(c)
           \/ StageRefused(c) \/ OrasExit(c) \/ Fault(c)
  BY <1>2, <1>3
  DEF RejectSource, LoadIncompatible, Refuse, Preview, FetchRefused, StageRefused, OrasExit, Fault
<1>4. CASE Interrupt(c) \/ OrasFails(c) \/ OrphanEnds(c) \/ \E o \in Ops : Start(c, o)
  <2>1. pc'[c] # "materialize"
    BY <1>0, <1>4
    DEF TypeOK, Loaded, OrasRunning, OrasFails, Interrupt, OrphanEnds, Start
  <2>2. oras'[c] \notin OrasRunning
    BY <1>0, <1>4 DEF TypeOK, OrasRunning, OrasFails, Interrupt, OrphanEnds, Start
  <2> QED
    BY <1>1, <2>1, <2>2
<1>5. CASE Orphan(c)
  BY <1>0, <1>5 DEF TypeOK, Orphan, Fresh
<1>6. CASE Accept(c)
  BY <1>0, <1>6 DEF TypeOK, Accept, Loads, Loaded, Fresh, OrasRunning
<1>7. CASE \E p \in Files : FetchFile(c, p)
  BY <1>0, <1>7 DEF TypeOK, FetchFile, Fresh
<1>8. CASE Stage(c)
  <2>1. work[c] = FilesOf(snap[c])
    BY <1>0, <1>8, FilesOfIsTree, FullRestriction DEF TypeOK, Loaded, Stage, Unfetched
  <2>2. Fresh(c) /\ pc[c] = "materialize" /\ Writable(c)
        /\ UNCHANGED <<tag, snap, op>>
        /\ oras'[c] \in {"resolve", "upload"}
    BY <1>0, <1>8 DEF Stage, TypeOK, ChildFor
  <2> QED
    BY <2>1, <2>2 DEF Fresh, Writable
<1>9. CASE OrasStep(c)
  <2>1. CASE \E x \in Contents : Upload(c, x)
    BY <1>0, <2>1 DEF Upload, Fresh
  <2>2. CASE PutManifest(c) \/ DeleteManifest(c)
    <3>1. oras'[c] \in {"ok", "lost"} /\ pc' = pc /\ oras[c] \in {"upload", "delete"}
      BY <1>0, <2>2 DEF TypeOK, PutManifest, DeleteManifest
    <3>2. pc[c] # "materialize"
      BY <1>0, <3>1 DEF Loaded
    <3> QED
      BY <1>1, <3>1, <3>2 DEF OrasRunning
  <2>3. CASE Resolve(c)
    BY <1>0, <2>3 DEF TypeOK, Resolve, Fresh, OrasRunning
  <2> QED
    BY <1>9, <2>1, <2>2, <2>3 DEF OrasStep
<1> QED
  BY <1>3, <1>4, <1>5, <1>6, <1>7, <1>8, <1>9 DEF CliStep, Failure

\* With one command at work and no other client, nobody else moves the tag.
LEMMA FreshStep ==
    MaxForeign = 0 /\ OneAtWork /\ FreshInv /\ [Next]_crudVars => FreshInv'
<1> SUFFICES ASSUME MaxForeign = 0, OneAtWork, FreshInv, [Next]_crudVars PROVE FreshInv'
  OBVIOUS
<1>1. CrudInv /\ CrudInv'
  BY CrudNext DEF FreshInv
<1>2. ~ForeignNext
  BY <1>1 DEF ForeignNext, Push, RemoveBlob, CrudInv, TypeOK
<1>3. ASSUME NEW c \in Clis, NEW d \in Clis \ {c},
             CliStep(c) \/ OrasStep(c) \/ Failure(c) \/ OrphanEnds(c) \/ \E o \in Ops : Start(c, o)
      PROVE  Fresh(d)'
  <2>1. /\ UNCHANGED <<pc[d], op[d], snap[d], work[d], oras[d], resolved[d]>>
        /\ oras[c] \notin {"upload", "delete"} => UNCHANGED tag
    BY <1>1, <1>3, StepIsOwn
  <2>2. CASE AtWork(d)
    <3>1. oras[c] = "none"
      BY <2>2 DEF OneAtWork, AtWork
    <3> QED
      BY <2>1, <3>1 DEF FreshInv, Fresh
  <2>3. CASE ~AtWork(d)
    BY <2>1, <2>3 DEF AtWork, Active, OrasRunning, Fresh
  <2> QED
    BY <2>2, <2>3
<1>4. CASE UNCHANGED crudVars
  BY <1>1, <1>4 DEF crudVars, FreshInv, Fresh
<1>5. ASSUME NEW c \in Clis,
             CliStep(c) \/ OrasStep(c) \/ Failure(c) \/ OrphanEnds(c) \/ \E o \in Ops : Start(c, o)
      PROVE  FreshInv'
  BY <1>1, <1>3, <1>5, OwnStepFresh DEF FreshInv
<1> QED
  BY <1>2, <1>4, <1>5 DEF Next, CliNext

\* What a command checked of the artifact it loaded holds of the artifact it
\* replaces, as long as one command is at work at a time and nobody else writes:
\* the overlaps are the only cause of what crud_races finds.
THEOREM AloneReplacesWhatWasChecked ==
    ASSUME MaxForeign = 0
    PROVE  Spec /\ []OneAtWork => ReplacesWhatWasChecked
<1> DEFINE Checked(c) == Commits(c) /\ tag' # tag =>
                            /\ tag # None => tag.native
                            /\ Refusal(op[c], FilesOf(tag)) = "none"
<1>1. ASSUME FreshInv, NEW c \in Clis PROVE Checked(c)
  BY <1>1 DEF FreshInv, Fresh, Commits, Compatible
<1>2. FreshInv => [\A c \in Clis : Checked(c)]_crudVars
  BY <1>1
<1> HIDE DEF Checked
<1>3. OneAtWork /\ FreshInv /\ [Next]_crudVars => FreshInv'
  BY FreshStep
<1>4. Spec /\ []OneAtWork => [][\A c \in Clis : Checked(c)]_crudVars
  BY FreshInit, <1>2, <1>3, PTL DEF Spec
<1> QED
  BY <1>4 DEF Checked, ReplacesWhatWasChecked

(***************************************************************************)
(* What the finding of crud_same_bytes hangs on.  Contents that several    *)
(* files share count once when a command publishes and once per file when  *)
(* the next one downloads; counted the first way, nothing exceeds the limit.*)
(***************************************************************************)

LimitInv ==
    /\ \A c \in Clis : oras[c] = "upload" => ~OverLimit(work[c])
    /\ tag \notin InitialTags \cup Pushes \cup {None} => ~OverLimit(tag.files)

\* A child that uploads was staged under the limit, and its files stay.
LEMMA UploadIsStaged ==
    ASSUME CrudInv, NEW c \in Clis, oras'[c] = "upload",
           CliStep(c) \/ OrasStep(c) \/ Failure(c) \/ OrphanEnds(c) \/ \E o \in Ops : Start(c, o)
    PROVE  \/ oras[c] = "upload" /\ UNCHANGED work[c]
           \/ ~OverLimit(work'[c])
<1> USE DEF registryVars, orasVars, cliVars, CrudInv, TypeOK
<1>1. \A r : ~Return(c, r)
  BY DEF Return
<1>2. CASE RejectSource(c) \/ LoadIncompatible(c) \/ Refuse(c) \/ Preview(c) \/ FetchRefused(c)
           \/ StageRefused(c) \/ OrasExit(c) \/ Fault(c)
  BY <1>1, <1>2
  DEF RejectSource, LoadIncompatible, Refuse, Preview, FetchRefused, StageRefused, OrasExit, Fault
<1>3. CASE Accept(c)
  BY <1>3 DEF Accept
<1>4. CASE \E p \in Files : FetchFile(c, p)
  BY <1>4 DEF FetchFile, Loaded
<1>5. CASE Stage(c)
  <2> DEFINE w == Staged(c)
  <2>1. ~OverLimit(w) /\ work' = [work EXCEPT ![c] = w]
    BY <1>5 DEF Stage
  <2> HIDE DEF w
  <2> QED
    BY <2>1
<1>6. CASE OrasStep(c)
  BY <1>6 DEF OrasStep, Upload, PutManifest, Resolve, DeleteManifest
<1>7. CASE OrasFails(c) \/ Interrupt(c) \/ OrphanEnds(c)
  BY <1>7 DEF OrasFails, Interrupt, OrphanEnds
<1>8. CASE Orphan(c) \/ \E o \in Ops : Start(c, o)
  BY <1>8 DEF Orphan, Start
<1> QED
  BY <1>2, <1>3, <1>4, <1>5, <1>6, <1>7, <1>8 DEF CliStep, Failure

\* The tag is moved by a put of what a child uploads, or it is deleted.
LEMMA TagIsPut ==
    ASSUME CrudInv, NEW c \in Clis, tag' # tag, tag' # None,
           CliStep(c) \/ OrasStep(c) \/ Failure(c) \/ OrphanEnds(c) \/ \E o \in Ops : Start(c, o)
    PROVE  oras[c] = "upload" /\ tag' = Native(work[c])
<1>1. \A r : ~Return(c, r)
  BY DEF Return, registryVars
<1>2. OrasStep(c)
  BY <1>1 DEF CliStep, RejectSource, LoadIncompatible, Refuse, Preview, Accept, FetchFile,
     FetchRefused, Stage, StageRefused, OrasExit, Failure, Fault, OrasFails, Interrupt, Orphan,
     OrphanEnds, Start, registryVars
<1> QED
  BY <1>2 DEF OrasStep, Upload, PutManifest, Resolve, DeleteManifest, registryVars

LEMMA LimitStep == CrudInv /\ LimitInv /\ [Next]_crudVars => LimitInv'
<1> SUFFICES ASSUME CrudInv, LimitInv, [Next]_crudVars PROVE LimitInv'
  OBVIOUS
<1>1. CASE UNCHANGED crudVars
  BY <1>1 DEF crudVars, LimitInv
<1>2. CASE ForeignNext
  BY <1>2 DEF ForeignNext, Push, RemoveBlob, LimitInv, cliVars, orasVars
<1>3. ASSUME NEW c \in Clis,
             CliStep(c) \/ OrasStep(c) \/ Failure(c) \/ OrphanEnds(c) \/ \E o \in Ops : Start(c, o)
      PROVE  LimitInv'
  <2>1. ASSUME NEW d \in Clis \ {c}, oras'[d] = "upload"
        PROVE  ~OverLimit(work'[d])
    BY <1>3, <2>1, StepIsOwn DEF LimitInv
  <2>2. oras'[c] = "upload" => ~OverLimit(work'[c])
    BY <1>3, UploadIsStaged DEF LimitInv
  <2>3. ASSUME tag' \notin InitialTags \cup Pushes \cup {None}
        PROVE  ~OverLimit(tag'.files)
    <3>1. CASE tag' = tag
      BY <2>3, <3>1 DEF LimitInv
    <3>2. CASE tag' # tag
      <4>1. oras[c] = "upload" /\ tag'.files = work[c]
        BY <1>3, <2>3, <3>2, TagIsPut DEF Native
      <4> QED
        BY <4>1 DEF LimitInv
    <3> QED
      BY <3>1, <3>2
  <2> QED
    BY <2>1, <2>2, <2>3 DEF LimitInv
<1> QED
  BY <1>1, <1>2, <1>3 DEF Next, CliNext

\* Counted once, the contents of what the commands publish stay within the limit.
DistinctBytesWithinLimit ==
    tag \notin InitialTags \cup Pushes \cup {None} => ~OverLimit(tag.files)

\* However commands overlap, and whoever else writes, what they publish has passed
\* from_files: no file, in path order, brings the distinct bytes above the limit.
\* PublishedWithinLimit fails only by counting contents more than once.
THEOREM PublishedDistinctBytes == Spec => []DistinctBytesWithinLimit
<1>1. Init => LimitInv
  BY DEF Init, LimitInv
<1>2. LimitInv => DistinctBytesWithinLimit
  BY DEF LimitInv, DistinctBytesWithinLimit
<1> QED
  BY CrudInit, CrudNext, LimitStep, <1>1, <1>2, PTL DEF Spec

(***************************************************************************)
(* Progress: what remains of CommandsEnd when fairness is left to TLC.     *)
(***************************************************************************)

\* How far a command, with its ORAS child, is from its end.
Stages(c) ==
    IF oras[c] \in OrasEnded THEN 1
    ELSE IF oras[c] = "delete" THEN 2
    ELSE IF oras[c] \in OrasRunning THEN 3
    ELSE IF pc[c] = "materialize" THEN 4
    ELSE IF pc[c] = "load" THEN 5
    ELSE 0

\* What it still has to do at its stage: files to download, contents to upload.
Left(c) == IF Stages(c) = 4 THEN Unfetched(c)
           ELSE IF oras[c] = "upload" THEN Range(work[c]) \ blobs
           ELSE {}

\* Whatever happens, a command goes back to an earlier stage only by being started
\* again, and has more to do at its stage only when a blob is removed meanwhile;
\* and each of its own steps brings it nearer to its end.
NearerItsEnd(c) ==
    /\ Stages(c)' <= Stages(c) \/ \E o \in Ops : Stages(c) = 0 /\ Start(c, o)
    /\ Stages(c)' = Stages(c) =>
          Left(c)' \subseteq Left(c) \/ \E x \in blobs : RemoveBlob(x)
    /\ CliStep(c) \/ OrasStep(c) =>
          \/ Stages(c)' < Stages(c)
          \/ Stages(c)' = Stages(c) /\ Left(c)' # Left(c)

\* Nothing that leaves a command's own state and the blobs is felt by it.
LEMMA UntouchedIsAsNear ==
    ASSUME NEW c \in Clis, UNCHANGED <<pc[c], snap[c], work[c], oras[c]>>
    PROVE  /\ Stages(c)' = Stages(c)
           /\ blobs \subseteq blobs' => Left(c)' \subseteq Left(c)
<1>1. Stages(c)' = Stages(c)
  BY DEF Stages
<1>2. Unfetched(c)' = Unfetched(c)
  BY DEF Unfetched, FilesOf
<1>3. blobs \subseteq blobs' => (Range(work[c]) \ blobs)' \subseteq Range(work[c]) \ blobs
  BY DEF Range
<1> QED
  BY <1>1, <1>2, <1>3 DEF Left

\* A command that returns or is interrupted is at its end.
LEMMA EndIsNear ==
    ASSUME CrudInv, NEW c \in Clis, pc'[c] \in {"replied", "killed"}, oras'[c] = "none"
    PROVE  Stages(c)' = 0
BY DEF Stages, OrasEnded, OrasRunning

LEMMA AtStage ==
    ASSUME CrudInv, NEW c \in Clis
    PROVE  /\ Stages(c) \in 0..5
           /\ pc[c] = "load" => Stages(c) = 5
           /\ pc[c] = "materialize" => Stages(c) = 4
           /\ oras[c] \in {"upload", "resolve"} => Stages(c) = 3
           /\ oras[c] = "delete" => Stages(c) = 2
           /\ oras[c] \in OrasEnded => Stages(c) = 1
           /\ oras[c] = "none" /\ pc[c] \in {"idle", "replied", "killed"} => Stages(c) = 0
BY DEF Stages, OrasEnded, OrasRunning, CrudInv, Loaded, TypeOK, Phases

\* The steps that end a command, or its child, take it to a later stage.
LEMMA EndingIsNearer ==
    ASSUME CrudInv, CrudInv', NEW c \in Clis,
           \/ RejectSource(c) \/ LoadIncompatible(c) \/ Refuse(c) \/ Preview(c) \/ FetchRefused(c)
           \/ StageRefused(c) \/ OrasExit(c) \/ Fault(c) \/ Interrupt(c) \/ OrphanEnds(c)
    PROVE  Stages(c)' < Stages(c)
<1>1. Stages(c) # 0
  BY AtStage DEF RejectSource, LoadIncompatible, Refuse, Preview, FetchRefused, StageRefused,
     OrasExit, Fault, Interrupt, OrphanEnds, Loads, Active, CrudInv, Loaded, TypeOK, OrasRunning,
     OrasEnded
<1>2. \A r : Return(c, r) => pc'[c] = "replied" /\ oras'[c] = "none"
  BY DEF Return, CrudInv, TypeOK
<1>3. pc'[c] \in {"replied", "killed"} /\ oras'[c] = "none"
  BY <1>2 DEF RejectSource, LoadIncompatible, Refuse, Preview, FetchRefused, StageRefused,
     OrasExit, Fault, Interrupt, OrphanEnds, CrudInv, TypeOK
<1>4. Stages(c)' = 0
  BY <1>3, EndIsNear
<1> QED
  BY <1>1, <1>4, AtStage

\* Each step of the download and of the upload does a part of what is left.
LEMMA FetchIsNearer ==
    ASSUME CrudInv, CrudInv', NEW c \in Clis, NEW p \in Files, FetchFile(c, p)
    PROVE  Stages(c)' = Stages(c) /\ Left(c)' \subseteq Left(c) /\ Left(c)' # Left(c)
<1> DEFINE F == FilesOf(snap[c])
           w == With(work[c], p, F[p])
<1>1. /\ pc[c] = "materialize" /\ p \in DOMAIN F \ DOMAIN work[c]
      /\ work' = [work EXCEPT ![c] = w] /\ UNCHANGED <<pc, oras, snap>>
  BY DEF FetchFile, Unfetched, orasVars
<1>2. F \in Trees /\ work[c] \in Trees
  BY FilesOfIsTree DEF CrudInv, TypeOK
<1>3. F[p] \in Contents
  BY <1>1, <1>2, TreeIsFunction
<1>4. DOMAIN w = DOMAIN work[c] \cup {p}
  BY <1>2, <1>3, WithIsTree
<1> HIDE DEF w
<1>5. DOMAIN work'[c] = DOMAIN work[c] \cup {p}
  BY <1>1, <1>4 DEF CrudInv, TypeOK
<1>6. FilesOf(snap'[c]) = F
  BY <1>1
<1>7. Unfetched(c)' = Unfetched(c) \ {p} /\ p \in Unfetched(c)
  BY <1>1, <1>5, <1>6 DEF Unfetched
<1>8. Stages(c) = 4
  BY <1>1, AtStage
<1>9. Stages(c)' = Stages(c)
  BY <1>1 DEF Stages
<1> QED
  BY <1>7, <1>8, <1>9 DEF Left

LEMMA UploadIsNearer ==
    ASSUME CrudInv, CrudInv', NEW c \in Clis, NEW x \in Contents, Upload(c, x)
    PROVE  Stages(c)' = Stages(c) /\ Left(c)' \subseteq Left(c) /\ Left(c)' # Left(c)
<1>1. /\ oras[c] = "upload" /\ x \in Range(work[c]) \ blobs
      /\ blobs' = blobs \cup {x} /\ UNCHANGED <<pc, oras, snap, work>>
  BY DEF Upload, cliVars, orasVars
<1>2. Stages(c) = 3 /\ Stages(c)' = Stages(c)
  BY <1>1, AtStage DEF Stages
<1>3. Range(work[c])' = Range(work[c])
  BY <1>1 DEF Range
<1> QED
  BY <1>1, <1>2, <1>3 DEF Left

\* The other steps of a command take it to the next stage.
LEMMA NextStage ==
    ASSUME CrudInv, CrudInv', NEW c \in Clis,
           \/ Accept(c) \/ Stage(c) \/ PutManifest(c) \/ Resolve(c) \/ DeleteManifest(c)
           \/ OrasFails(c)
    PROVE  Stages(c)' < Stages(c)
<1> USE DEF CrudInv, TypeOK
<1>1. CASE Accept(c)
  <2>1. pc[c] = "load" /\ pc'[c] = "materialize" /\ oras'[c] = oras[c]
    BY <1>1 DEF Accept, Loads, orasVars
  <2>2. oras[c] = "none"
    BY <2>1 DEF Loaded
  <2>3. Stages(c)' = 4
    BY <2>1, <2>2 DEF Stages, OrasEnded, OrasRunning
  <2> QED
    BY <2>1, <2>3, AtStage
<1>2. CASE Stage(c)
  <2>1. pc[c] = "materialize" /\ oras'[c] \in {"upload", "resolve"}
    BY <1>2 DEF Stage, ChildFor
  <2>2. Stages(c)' = 3
    BY <2>1 DEF Stages, OrasEnded, OrasRunning
  <2> QED
    BY <2>1, <2>2, AtStage
<1>3. CASE PutManifest(c) \/ DeleteManifest(c) \/ OrasFails(c)
  <2>1. oras[c] \in OrasRunning /\ oras'[c] \in OrasEnded
    BY <1>3 DEF PutManifest, DeleteManifest, OrasFails, OrasRunning, OrasEnded
  <2>2. Stages(c)' = 1
    BY <2>1 DEF Stages, OrasEnded, OrasRunning
  <2> QED
    BY <2>1, <2>2, AtStage DEF OrasRunning
<1>4. CASE Resolve(c)
  <2>1. oras[c] = "resolve" /\ oras'[c] \in {"ok", "delete"}
    BY <1>4 DEF Resolve
  <2>2. Stages(c)' \in {1, 2}
    BY <2>1 DEF Stages, OrasEnded, OrasRunning
  <2> QED
    BY <2>1, <2>2, AtStage
<1> QED
  BY <1>1, <1>2, <1>3, <1>4

LEMMA OwnStepIsNearer ==
    ASSUME CrudInv, CrudInv', NEW c \in Clis,
           CliStep(c) \/ OrasStep(c) \/ Failure(c) \/ OrphanEnds(c)
    PROVE  NearerItsEnd(c)
<1>0. Stages(c) \in Nat /\ Stages(c)' \in Nat
  BY DEF Stages
<1>1. ASSUME Stages(c)' < Stages(c) PROVE NearerItsEnd(c)
  BY <1>0, <1>1 DEF NearerItsEnd
<1>2. ASSUME Stages(c)' = Stages(c), Left(c)' \subseteq Left(c), Left(c)' # Left(c)
      PROVE  NearerItsEnd(c)
  BY <1>0, <1>2 DEF NearerItsEnd
<1>3. CASE Orphan(c)
  <2>1. /\ pc[c] = "oras" /\ oras[c] \in OrasRunning
        /\ pc'[c] = "killed" /\ UNCHANGED <<oras, snap, work, blobs>>
    BY <1>3 DEF Orphan, registryVars, orasVars, CrudInv, TypeOK
  <2>2. Stages(c)' = Stages(c) /\ Stages(c) # 4
    BY <2>1, AtStage DEF Stages, OrasRunning, OrasEnded
  <2>3. Range(work[c])' = Range(work[c])
    BY <2>1 DEF Range
  <2>4. Left(c)' = Left(c)
    BY <2>1, <2>2, <2>3 DEF Left
  <2>5. ~CliStep(c) /\ ~OrasStep(c)
    <3>1. pc' # pc
      BY <2>1
    <3>2. oras' = oras /\ oras[c] \notin OrasEnded
      BY <2>1 DEF OrasRunning, OrasEnded
    <3>3. \A r : ~Return(c, r)
      BY <2>1 DEF Return, CrudInv, TypeOK
    <3> QED
      BY <2>1, <3>1, <3>2, <3>3
      DEF CliStep, OrasStep, RejectSource, LoadIncompatible, Refuse, Preview, Loads, Accept,
          FetchFile, FetchRefused, Stage, StageRefused, OrasExit, Upload, PutManifest, Resolve,
          DeleteManifest, cliVars
  <2> QED
    BY <1>0, <2>2, <2>4, <2>5 DEF NearerItsEnd
<1> QED
  BY <1>1, <1>2, <1>3, EndingIsNearer, FetchIsNearer, UploadIsNearer, NextStage
  DEF CliStep, OrasStep, Failure

LEMMA StartIsNearer ==
    ASSUME CrudInv, NEW c \in Clis, NEW o \in Ops, Start(c, o), ~CliStep(c), ~OrasStep(c)
    PROVE  NearerItsEnd(c)
<1>1. oras[c] = "none" /\ pc[c] \in {"idle", "replied", "killed"}
  BY DEF Start
<1>2. oras'[c] = "none" /\ pc'[c] = "load"
  BY <1>1 DEF Start, orasVars, CrudInv, TypeOK
<1>3. Stages(c) = 0
  BY <1>1, AtStage
<1>4. Stages(c)' = 5
  BY <1>2 DEF Stages, OrasEnded, OrasRunning
<1> QED
  BY <1>3, <1>4 DEF NearerItsEnd

LEMMA OthersStepIsUnfelt ==
    ASSUME NEW c \in Clis, ~CliStep(c), ~OrasStep(c),
           UNCHANGED <<pc[c], snap[c], work[c], oras[c]>>,
           blobs \subseteq blobs' \/ \E x \in blobs : RemoveBlob(x)
    PROVE  NearerItsEnd(c)
<1>1. Stages(c) \in Nat
  BY DEF Stages
<1> QED
  BY <1>1, UntouchedIsAsNear DEF NearerItsEnd

\* Commands and their children remove no blob.
LEMMA CommandsKeepBlobs ==
    ASSUME NEW c \in Clis,
           CliStep(c) \/ OrasStep(c) \/ Failure(c) \/ OrphanEnds(c) \/ \E o \in Ops : Start(c, o)
    PROVE  blobs \subseteq blobs'
<1>1. \A r : Return(c, r) => UNCHANGED blobs
  BY DEF Return, registryVars
<1> QED
  BY <1>1 DEF CliStep, OrasStep, Failure, RejectSource, LoadIncompatible, Refuse, Preview, Accept,
     FetchFile, FetchRefused, Stage, StageRefused, OrasExit, Fault, Upload, PutManifest, Resolve,
     DeleteManifest, OrasFails, Interrupt, Orphan, OrphanEnds, Start, registryVars

LEMMA NearerStep ==
    CrudInv /\ CrudInv' /\ [Next]_crudVars => [\A c \in Clis : NearerItsEnd(c)]_crudVars
<1> SUFFICES ASSUME CrudInv, CrudInv', Next, NEW d \in Clis
             PROVE  NearerItsEnd(d)
  OBVIOUS
<1>1. CASE CliStep(d) \/ OrasStep(d) \/ Failure(d) \/ OrphanEnds(d)
  BY <1>1, OwnStepIsNearer
<1>2. ASSUME ~CliStep(d), ~OrasStep(d), NEW o \in Ops, Start(d, o)
      PROVE  NearerItsEnd(d)
  BY <1>2, StartIsNearer
<1>3. ASSUME ~CliStep(d), ~OrasStep(d), NEW c \in Clis \ {d},
             CliStep(c) \/ OrasStep(c) \/ Failure(c) \/ OrphanEnds(c) \/ \E o \in Ops : Start(c, o)
      PROVE  NearerItsEnd(d)
  <2>1. UNCHANGED <<pc[d], snap[d], work[d], oras[d]>>
    BY <1>3, StepIsOwn
  <2>2. blobs \subseteq blobs'
    BY <1>3, CommandsKeepBlobs
  <2> QED
    BY <1>3, <2>1, <2>2, OthersStepIsUnfelt
<1>4. ASSUME ~CliStep(d), ~OrasStep(d), ForeignNext
      PROVE  NearerItsEnd(d)
  <2>1. UNCHANGED <<pc, snap, work, oras>>
    BY <1>4 DEF ForeignNext, Push, RemoveBlob, cliVars, orasVars
  <2>2. blobs \subseteq blobs' \/ \E x \in blobs : RemoveBlob(x)
    BY <1>4 DEF ForeignNext, Push
  <2> QED
    BY <1>4, <2>1, <2>2, OthersStepIsUnfelt
<1> QED
  BY <1>1, <1>2, <1>3, <1>4 DEF Next, CliNext

\* Whatever other commands, other clients, faults and signals do, a command passes
\* through its five stages in order, and every step of it or of its child does a
\* part of what is left: it downloads and uploads nothing twice, unless another
\* client removes a blob.  Finitely many files and contents make its steps finite;
\* that they are taken is the fairness TLC's CommandsEnd adds.
THEOREM CommandsComeNearerTheirEnd == Spec => [][\A c \in Clis : NearerItsEnd(c)]_crudVars
  BY CrudInit, CrudNext, NearerStep, PTL DEF Spec
=============================================================================
