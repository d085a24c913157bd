----------------------- MODULE AutoindexService_proofs -----------------------
(***************************************************************************)
(* Readers beside the CRUD commands: what the gateway found in a manifest  *)
(* is still there when it asks for it, for any number of readers and       *)
(* commands, as long as nobody but the commands writes.                    *)
(***************************************************************************)
EXTENDS AutoindexService, AutoindexCrud_proofs

\* A step of the service is a step of the commands, or leaves them alone.
LEMMA ServiceStepIsCrudStep == [ServiceNext]_serviceVars => [Next]_crudVars
BY DEF ServiceNext, serviceVars, Request, ReaderStep, NoSnapshot, FindFile, ListDirectory,
       Redirect, ReadBlob, ReadFails, Respond

\* The contents of the files of an artifact are contents.
LEMMA FilesHaveContents ==
    ASSUME NEW m \in Manifests \cup {None}, NEW p \in DOMAIN FilesOf(m)
    PROVE  FilesOf(m)[p] \in Contents /\ FilesOf(m)[p] \in Range(FilesOf(m))
BY FilesOfIsTree, TreeIsFunction DEF Range

(***************************************************************************)
(* Types.                                                                  *)
(***************************************************************************)

Kinds == {"none", "file", "listing", "redirect", "missing", "malformed", "error"}

ServiceInv ==
    /\ CrudInv
    /\ ServiceTypeOK
    /\ DOMAIN response = Readers
    /\ \A r \in Readers : rpc[r] = "blob" => found[r] \in Contents

LEMMA ServiceStart == ServiceInit => ServiceInv
<1> SUFFICES ASSUME ServiceInit PROVE ServiceInv
  OBVIOUS
<1>1. CrudInv
  BY CrudInit DEF ServiceInit
<1> QED
  BY <1>1 DEF ServiceInit, ServiceInv, ServiceTypeOK, CrudInv, NoResponse

\* Whatever the answer, it ends the request.
LEMMA RespondKeeps ==
    ASSUME ServiceInv, CrudInv', NEW r \in Readers, NEW a, Respond(r, a),
           a.kind \in Kinds, a.content \in Contents \cup {None}
    PROVE  ServiceInv'
<1>1. TypeOK'
  BY DEF CrudInv
<1> QED
  BY <1>1 DEF ServiceInv, ServiceTypeOK, Respond, Kinds

LEMMA ServiceStep == ServiceInv /\ [ServiceNext]_serviceVars => ServiceInv'
<1> SUFFICES ASSUME ServiceInv, [ServiceNext]_serviceVars PROVE ServiceInv'
  OBVIOUS
<1>1. CrudInv' /\ TypeOK'
  BY ServiceStepIsCrudStep, CrudNext DEF ServiceInv, CrudInv
<1>2. CASE UNCHANGED readerVars
  BY <1>1, <1>2 DEF readerVars, ServiceInv, ServiceTypeOK
<1>3. ASSUME NEW r \in Readers, NEW t \in Targeted, Request(r, t) PROVE ServiceInv'
  BY <1>1, <1>3 DEF Request, ServiceInv, ServiceTypeOK, NoResponse
<1>4. ASSUME NEW r \in Readers, FindFile(r) PROVE ServiceInv'
  <2>1. found'[r] \in Contents /\ found' \in [Readers -> Contents \cup {None}]
    BY <1>4, FilesHaveContents
    DEF FindFile, Projected, NamesFile, FilesOf, ServiceInv, ServiceTypeOK, TypeOK
  <2> QED
    BY <1>1, <1>4, <2>1 DEF FindFile, ServiceInv, ServiceTypeOK
<1>5. ASSUME NEW r \in Readers,
             NoSnapshot(r) \/ ListDirectory(r) \/ Redirect(r) \/ ReadBlob(r) \/ ReadFails(r)
      PROVE  ServiceInv'
  <2>1. \E a : Respond(r, a) /\ a.kind \in Kinds /\ a.content \in Contents \cup {None}
    BY <1>5
    DEF NoSnapshot, ListDirectory, Redirect, ReadBlob, ReadFails, Plain, Listing, File, Kinds,
        ServiceInv
  <2> QED
    BY <1>1, <2>1, RespondKeeps
<1>6. CASE UNCHANGED serviceVars
  BY <1>2, <1>6 DEF serviceVars
<1> QED
  BY <1>2, <1>3, <1>4, <1>5, <1>6 DEF ServiceNext, ReaderStep

\* The types of the readers are kept beside those of the commands.
THEOREM ServiceTypeCorrect == ServiceSpec => []ServiceTypeOK
<1>1. ServiceInv => ServiceTypeOK
  BY DEF ServiceInv
<1> QED
  BY ServiceStart, ServiceStep, <1>1, PTL DEF ServiceSpec

(***************************************************************************)
(* No read dangles.                                                        *)
(***************************************************************************)

\* The registry holds what the tag names, and what a reader has been told of.
Held ==
    /\ ServiceInv
    /\ Range(FilesOf(tag)) \subseteq blobs
    /\ NoDanglingRead

\* Without other clients the commands only add blobs, and put a manifest only on
\* blobs that are there.
LEMMA CommandsHold ==
    ASSUME MaxForeign = 0, CrudInv, Range(FilesOf(tag)) \subseteq blobs, [Next]_crudVars
    PROVE  blobs \subseteq blobs' /\ Range(FilesOf(tag'))  \subseteq blobs'
<1>1. ~ForeignNext
  BY DEF ForeignNext, Push, RemoveBlob, CrudInv, TypeOK
<1>2. Range(EmptyTree) = {}
  BY EmptyTreeIsTree DEF Range
<1>3. ASSUME UNCHANGED registryVars
      PROVE  blobs \subseteq blobs' /\ Range(FilesOf(tag'))  \subseteq blobs'
  BY <1>3 DEF registryVars
<1>4. ASSUME NEW c \in Clis, NEW r, Return(c, r) PROVE UNCHANGED registryVars
  BY <1>4 DEF Return
<1>5. ASSUME NEW c \in Clis, CliStep(c) PROVE UNCHANGED registryVars
  BY <1>4, <1>5
  DEF CliStep, RejectSource, LoadIncompatible, Refuse, Preview, Accept, FetchFile, FetchRefused,
      Stage, StageRefused, OrasExit
<1>6. ASSUME NEW c \in Clis, Failure(c) \/ OrphanEnds(c) \/ \E o \in Ops : Start(c, o)
      PROVE  UNCHANGED registryVars
  BY <1>4, <1>6 DEF Failure, Fault, OrasFails, Interrupt, Orphan, OrphanEnds, Start
<1>7. ASSUME NEW c \in Clis, OrasStep(c)
      PROVE  blobs \subseteq blobs' /\ Range(FilesOf(tag'))  \subseteq blobs'
  <2>1. CASE \E x \in Contents : Upload(c, x)
    BY <2>1 DEF Upload
  <2>2. CASE PutManifest(c)
    <3>1. Native(work[c]) \in Manifests
      BY DEF CrudInv, TypeOK, Native, Manifests
    <3>2. FilesOf(tag') = work[c]
      BY <2>2, <3>1, TagsAssumption DEF PutManifest, FilesOf, Native
    <3> QED
      BY <2>2, <3>2 DEF PutManifest
  <2>3. CASE Resolve(c)
    BY <1>3, <2>3 DEF Resolve
  <2>4. CASE DeleteManifest(c)
    BY <1>2, <2>4 DEF DeleteManifest, FilesOf
  <2> QED
    BY <1>7, <2>1, <2>2, <2>3, <2>4 DEF OrasStep
<1> QED
  BY <1>1, <1>3, <1>5, <1>6, <1>7 DEF Next, CliNext, crudVars, registryVars

LEMMA HeldStep == MaxForeign = 0 /\ Held /\ [ServiceNext]_serviceVars => Held'
<1> SUFFICES ASSUME MaxForeign = 0, Held, [ServiceNext]_serviceVars PROVE Held'
  OBVIOUS
<1>1. ServiceInv'
  BY ServiceStep DEF Held
<1>2. blobs \subseteq blobs' /\ Range(FilesOf(tag')) \subseteq blobs'
  BY ServiceStepIsCrudStep, CommandsHold DEF Held, ServiceInv
<1>3. ASSUME NEW r \in Readers, rpc'[r] = "blob" PROVE found'[r] \in blobs'
  <2>1. CASE rpc[r] = "blob" /\ found'[r] = found[r]
    BY <1>2, <2>1 DEF Held, NoDanglingRead
  <2>2. CASE FindFile(r)
    <3>1. found'[r] \in Range(FilesOf(tag))
      BY <2>2, FilesHaveContents
      DEF FindFile, Projected, NamesFile, FilesOf, Held, ServiceInv, ServiceTypeOK, TypeOK
    <3> QED
      BY <1>2, <3>1 DEF Held
  <2>3. (rpc[r] = "blob" /\ found'[r] = found[r]) \/ FindFile(r)
    BY <1>3
    DEF Held, ServiceInv, ServiceTypeOK, ServiceNext, serviceVars, readerVars, Request, ReaderStep,
        NoSnapshot, FindFile, ListDirectory, Redirect, ReadBlob, ReadFails, Respond
  <2> QED
    BY <2>1, <2>2, <2>3
<1> QED
  BY <1>1, <1>2, <1>3 DEF Held, NoDanglingRead

\* A file found in the index can be read, however the commands go on: they add
\* blobs before they move the tag, and remove none.
THEOREM NoReadDangles ==
    ASSUME MaxForeign = 0
    PROVE  ServiceSpec => []NoDanglingRead
<1>1. ServiceInit => Held
  BY ServiceStart DEF ServiceInit, Held, Init, NoDanglingRead
<1>2. Held => NoDanglingRead
  BY DEF Held
<1>3. Held /\ [ServiceNext]_serviceVars => Held'
  BY HeldStep
<1> QED
  BY <1>1, <1>2, <1>3, PTL DEF ServiceSpec

(***************************************************************************)
(* The commands implement FileStore, one of them at a time.                *)
(***************************************************************************)

\* What FileStore sees of a command.
StatusOf(p, o) == IF o \in {"ok", "lost"} THEN "applied"
                  ELSE IF p \in Active \/ o # "none" THEN "pending" ELSE "idle"

StoreView == <<StoreFiles, Store!writeVars, Store!readVars>>

\* What it sees of a reader.
ReadingOf(p) == IF p = "manifest" THEN "asked"
                ELSE IF p = "blob" THEN "held"
                ELSE IF p = "done" THEN "told" ELSE "idle"

HeldOf(p, x) == IF p = "blob" THEN File(x) ELSE NoResponse

\* FileStore's instance of FileTree is FileTree.
LEMMA SameOperators ==
    /\ \A o, t : Store!Refusal(o, t) = Refusal(o, t)
    /\ \A o, t : Store!Effect(o, t) = Effect(o, t)
    /\ \A p, t : Store!Insertable(p, t) <=> Insertable(p, t)
    /\ \A t : Store!CollisionFree(t) <=> CollisionFree(t)
    /\ \A d, t : Store!HasDirectory(d, t) <=> HasDirectory(d, t)
    /\ \A d, t : Store!Children(d, t) = Children(d, t)
<1> USE DEF Store!IsUnder, IsUnder, Store!Targets, Targets
<1>1. \A o, t : Store!Refusal(o, t) = Refusal(o, t)
  BY DEF Store!Refusal, Refusal
<1>2. \A o, t : Store!Effect(o, t) = Effect(o, t)
  BY DEF Store!Effect, Effect, Store!Restrict, Restrict, Store!With, With
<1>3. \A p, t : Store!Insertable(p, t) <=> Insertable(p, t)
  BY DEF Store!Insertable, Insertable
<1>4. \A t : Store!CollisionFree(t) <=> CollisionFree(t)
  BY DEF Store!CollisionFree, CollisionFree
<1>5. \A d, t : Store!HasDirectory(d, t) <=> HasDirectory(d, t)
  BY DEF Store!HasDirectory, HasDirectory
<1>6. \A d, t : Store!Children(d, t) = Children(d, t)
  BY DEF Store!Children, Children
<1> QED
  BY <1>1, <1>2, <1>3, <1>4, <1>5, <1>6

LEMMA StatusIsOf == StoreStatus = [c \in Clis |-> StatusOf(pc[c], oras[c])]
BY DEF StoreStatus, StatusOf

LEMMA StatusIsOfNext == StoreStatus' = [c \in Clis |-> StatusOf(pc'[c], oras'[c])]
<1>1. (StoreStatus = [c \in Clis |-> StatusOf(pc[c], oras[c])])'
  BY StatusIsOf, PTL
<1> QED
  BY <1>1

\* A step that changes the status of one command only.
LEMMA StatusChanges ==
    ASSUME CrudInv, NEW c \in Clis, NEW p, NEW o,
           pc' = [pc EXCEPT ![c] = p], oras' = [oras EXCEPT ![c] = o]
    PROVE  /\ StoreStatus[c] = StatusOf(pc[c], oras[c])
           /\ StoreStatus' = [StoreStatus EXCEPT ![c] = StatusOf(p, o)]
<1>1. /\ \A d \in Clis : pc'[d] = IF d = c THEN p ELSE pc[d]
      /\ \A d \in Clis : oras'[d] = IF d = c THEN o ELSE oras[d]
  BY DEF CrudInv, TypeOK
<1>2. \A d \in Clis : StatusOf(pc'[d], oras'[d])
                         = IF d = c THEN StatusOf(p, o) ELSE StatusOf(pc[d], oras[d])
  BY <1>1
<1> HIDE DEF StatusOf
<1> QED
  BY <1>2, StatusIsOf, StatusIsOfNext

\* A command that returns answers its call, if what it says may be answered.
LEMMA ReturnIsAnswer ==
    ASSUME CrudInv, NEW c \in Clis, NEW r, Return(c, r), UNCHANGED Store!readVars,
           Store!Answerable(c, Shown(r))
    PROVE  Store!Answer(c, Shown(r))
<1>1. UNCHANGED <<StoreFiles, op>>
  BY DEF Return, registryVars, StoreFiles
<1>2. StatusOf("replied", "none") = "idle"
  BY DEF StatusOf, Active
<1>3. StoreStatus' = [StoreStatus EXCEPT ![c] = "idle"]
      /\ SnapshotAnswer' = [SnapshotAnswer EXCEPT ![c] = Shown(r)]
  <2>1. /\ pc' = [pc EXCEPT ![c] = "replied"]
        /\ oras' = [oras EXCEPT ![c] = "none"]
        /\ reply' = [reply EXCEPT ![c] = r]
    BY DEF Return
  <2>2. /\ StoreStatus' = [StoreStatus EXCEPT ![c] = StatusOf("replied", "none")]
        /\ SnapshotAnswer' = [SnapshotAnswer EXCEPT ![c] = Shown(r)]
    BY <2>1, StatusChanges, AnswerChanges
  <2> QED
    BY <1>2, <2>2
<1> QED
  BY <1>1, <1>3 DEF Store!Answer

LEMMA ShownIsAnswer == \A r : Shown(r) \in Store!Answers
BY DEF Shown, Store!Answers

\* Anything may fail while it is at work.
LEMMA FailureIsAnswer ==
    ASSUME CrudInv, NEW c \in Clis, NEW r, Return(c, r), Shown(r) = "failed", AtWork(c),
           UNCHANGED Store!readVars
    PROVE  Store!Answer(c, Shown(r))
<1>1. StoreStatus[c] \in {"pending", "applied"}
  BY StatusIsOf DEF StatusOf, AtWork
<1> QED
  BY <1>1, ReturnIsAnswer DEF Store!Answerable

\* The steps that end a command.
LEMMA EndIsAnswer ==
    ASSUME CrudInv, NEW c \in Clis,
           RejectSource(c) \/ LoadIncompatible(c) \/ Refuse(c) \/ Preview(c) \/ FetchRefused(c)
           \/ StageRefused(c) \/ OrasExit(c) \/ Fault(c),
           UNCHANGED Store!readVars
    PROVE  \E a \in Store!Answers : Store!Answer(c, a)
<1>1. ASSUME NEW r \in {"source", "invalid", "registry", "storage", "publication", "oras"},
             Return(c, r), AtWork(c)
      PROVE  \E a \in Store!Answers : Store!Answer(c, a)
  BY <1>1, FailureIsAnswer, ShownIsAnswer DEF Shown
<1>2. CASE RejectSource(c) \/ LoadIncompatible(c) \/ FetchRefused(c) \/ StageRefused(c) \/ Fault(c)
  BY <1>1, <1>2
  DEF RejectSource, LoadIncompatible, FetchRefused, StageRefused, Fault, AtWork, Active
<1>3. ASSUME pc[c] = "load" PROVE StoreStatus[c] = "pending"
  BY <1>3, StatusIsOf DEF StatusOf, Active, CrudInv, Loaded
<1>4. CASE Refuse(c)
  <2>1. PICK a \in {"exists", "missing"} : Return(c, a) /\ Refusal(op[c], StoreFiles) = a
    BY <1>4 DEF Refuse, Refusal, StoreFiles
  <2>2. Shown(a) = a /\ a \in Store!Answers
    BY DEF Shown, Store!Answers
  <2>3. Store!Answerable(c, a)
    BY <1>3, <1>4, <2>1, SameOperators DEF Refuse, Loads, Store!Answerable
  <2> QED
    BY <2>1, <2>2, <2>3, ReturnIsAnswer
<1>5. CASE Preview(c)
  <2>1. Shown("would") = "would" /\ "would" \in Store!Answers
    BY DEF Shown, Store!Answers
  <2>2. Store!Answerable(c, "would")
    BY <1>3, <1>5, SameOperators DEF Preview, Loads, StoreFiles, Store!Answerable
  <2> QED
    BY <1>5, <2>1, <2>2, ReturnIsAnswer DEF Preview
<1>6. CASE OrasExit(c)
  <2>1. CASE oras[c] = "ok"
    <3>1. Shown("ok") = "ok" /\ "ok" \in Store!Answers
      BY DEF Shown, Store!Answers
    <3>2. Store!Answerable(c, "ok")
      BY <2>1, StatusIsOf DEF StatusOf, Store!Answerable
    <3> QED
      BY <1>6, <2>1, <3>1, <3>2, ReturnIsAnswer DEF OrasExit
  <2>2. CASE oras[c] # "ok"
    BY <1>1, <1>6, <2>2 DEF OrasExit, AtWork, Active
  <2> QED
    BY <2>1, <2>2
<1> QED
  BY <1>2, <1>4, <1>5, <1>6

\* Starting a command calls the store.
LEMMA StartIsCall ==
    ASSUME CrudInv, NEW c \in Clis, NEW o \in Ops, Start(c, o), UNCHANGED Store!readVars
    PROVE  Store!Call(c, o)
<1>1. StoreStatus[c] = "idle"
  BY StatusIsOf DEF Start, StatusOf, Active
<1>2. UNCHANGED StoreFiles
  BY DEF Start, registryVars, StoreFiles
<1>3. /\ pc' = [pc EXCEPT ![c] = "load"]
      /\ oras' = [oras EXCEPT ![c] = "none"]
      /\ reply' = [reply EXCEPT ![c] = "none"]
  BY DEF Start, orasVars, CrudInv, TypeOK
<1>4. /\ StoreStatus' = [StoreStatus EXCEPT ![c] = StatusOf("load", "none")]
      /\ SnapshotAnswer' = [SnapshotAnswer EXCEPT ![c] = Shown("none")]
  BY <1>3, StatusChanges, AnswerChanges
<1>5. StatusOf("load", "none") = "pending" /\ Shown("none") = "none"
  BY DEF StatusOf, Active, Shown
<1> QED
  BY <1>1, <1>2, <1>4, <1>5 DEF Start, Store!Call

\* What only moves a command on between its call and its answer is not seen.
LEMMA ProgressIsStutter ==
    ASSUME CrudInv, NEW c \in Clis, NEW p, NEW o,
           pc' = [pc EXCEPT ![c] = p], oras' = [oras EXCEPT ![c] = o],
           StatusOf(p, o) = StatusOf(pc[c], oras[c]), UNCHANGED <<tag, op, reply>>
    PROVE  UNCHANGED <<StoreFiles, Store!writeVars>>
<1>1. \A d \in Clis : pc'[d] = IF d = c THEN p ELSE pc[d]
  BY DEF CrudInv, TypeOK
<1>2. \A d \in Clis : oras'[d] = IF d = c THEN o ELSE oras[d]
  BY DEF CrudInv, TypeOK
<1>3. \A d \in Clis : StatusOf(pc'[d], oras'[d]) = StatusOf(pc[d], oras[d])
  BY <1>1, <1>2
<1>4. UNCHANGED <<StoreStatus, SnapshotAnswer>>
  BY <1>3, StatusIsOf, StatusIsOfNext, AnswerStays
<1> QED
  BY <1>4 DEF Store!writeVars, StoreFiles

\* Downloading, staging, uploading blobs, resolving the tag, a failing child.
LEMMA WorkIsStutter ==
    ASSUME FreshInv, NEW c \in Clis,
           \/ Accept(c) \/ (\E p \in Files : FetchFile(c, p)) \/ Stage(c)
           \/ (\E x \in Contents : Upload(c, x)) \/ Resolve(c) \/ OrasFails(c) \/ Orphan(c)
    PROVE  UNCHANGED <<StoreFiles, Store!writeVars>>
<1> USE DEF registryVars, cliVars, orasVars
<1>0. CrudInv /\ TypeOK /\ Loaded(c) /\ Childs(c) /\ Fresh(c)
  BY DEF FreshInv, CrudInv
<1>1. ASSUME NEW p, NEW o,
             pc' = [pc EXCEPT ![c] = p], oras' = [oras EXCEPT ![c] = o],
             UNCHANGED <<tag, op, reply>>,
             p \in Active \/ o # "none", o \notin {"ok", "lost"},
             pc[c] \in Active \/ oras[c] # "none", oras[c] \notin {"ok", "lost"}
      PROVE  UNCHANGED <<StoreFiles, Store!writeVars>>
  <2>1. StatusOf(p, o) = StatusOf(pc[c], oras[c])
    BY <1>1 DEF StatusOf
  <2> QED
    BY <1>0, <1>1, <2>1, ProgressIsStutter
<1>2. pc = [pc EXCEPT ![c] = pc[c]] /\ oras = [oras EXCEPT ![c] = oras[c]]
  BY <1>0 DEF TypeOK
<1>3. CASE Accept(c)
  <2>1. pc' = [pc EXCEPT ![c] = "materialize"] /\ oras' = [oras EXCEPT ![c] = "none"]
        /\ oras[c] = "none" /\ pc[c] \in Active /\ "materialize" \in Active
    BY <1>0, <1>2, <1>3 DEF Accept, Loads, Loaded, Active
  <2> QED
    BY <1>1, <1>3, <2>1 DEF Accept
<1>4. CASE \E p \in Files : FetchFile(c, p)
  BY <1>4 DEF FetchFile, Store!writeVars, StoreFiles, StoreStatus, SnapshotAnswer
<1>5. CASE Stage(c)
  <2>1. PICK o \in {"resolve", "upload"} : oras' = [oras EXCEPT ![c] = o]
    BY <1>5 DEF Stage, ChildFor
  <2>2. pc' = [pc EXCEPT ![c] = "oras"] /\ oras[c] = "none" /\ pc[c] \in Active
    BY <1>0, <1>5 DEF Stage, Loaded, Active
  <2> QED
    BY <1>1, <1>5, <2>1, <2>2 DEF Stage
<1>6. CASE \E x \in Contents : Upload(c, x)
  BY <1>6 DEF Upload, Store!writeVars, StoreFiles, StoreStatus, SnapshotAnswer
<1>7. CASE Resolve(c)
  <2>1. tag # None
    BY <1>0, <1>7 DEF Resolve, Fresh, Childs, OrasRunning
  <2>2. pc' = [pc EXCEPT ![c] = pc[c]] /\ oras' = [oras EXCEPT ![c] = "delete"]
        /\ oras[c] = "resolve"
    BY <1>2, <1>7, <2>1 DEF Resolve
  <2> QED
    BY <1>1, <1>7, <2>2 DEF Resolve
<1>8. CASE OrasFails(c)
  <2>1. pc' = [pc EXCEPT ![c] = pc[c]] /\ oras' = [oras EXCEPT ![c] = "failed"]
        /\ oras[c] \in OrasRunning
    BY <1>2, <1>8 DEF OrasFails
  <2> QED
    BY <1>1, <1>8, <2>1 DEF OrasFails, OrasRunning
<1>9. CASE Orphan(c)
  <2>1. pc' = [pc EXCEPT ![c] = "killed"] /\ oras' = [oras EXCEPT ![c] = oras[c]]
        /\ oras[c] \in OrasRunning
    BY <1>2, <1>9 DEF Orphan
  <2> QED
    BY <1>1, <1>9, <2>1 DEF Orphan, OrasRunning
<1> QED
  BY <1>3, <1>4, <1>5, <1>6, <1>7, <1>8, <1>9

\* The registry takes the manifest or the deletion: the operation is applied.
LEMMA CommitIsApply ==
    ASSUME FreshInv, NEW c \in Clis, PutManifest(c) \/ DeleteManifest(c), UNCHANGED Store!readVars
    PROVE  Store!Apply(c)
<1> DEFINE F == FilesOf(tag)
<1>0. CrudInv /\ TypeOK /\ Loaded(c) /\ Childs(c) /\ Fresh(c)
  BY DEF FreshInv, CrudInv
<1>1. oras[c] \in {"upload", "delete"} /\ oras[c] \in OrasRunning
  BY DEF PutManifest, DeleteManifest, OrasRunning
<1>2. StoreStatus[c] = "pending"
  BY <1>1, StatusIsOf DEF StatusOf
<1>3. /\ ~op[c].dry
      /\ Refusal(op[c], F) = "none"
      /\ op[c].kind = "create" => Insertable(op[c].path, F)
      /\ work[c] = Effect(op[c], F)
  BY <1>0, <1>1 DEF Fresh, Childs, OrasRunning
<1>4. FilesOf(tag') = Effect(op[c], F)
  <2>1. CASE PutManifest(c)
    <3>1. Native(work[c]) \in Manifests
      BY <1>0 DEF TypeOK, Native, Manifests
    <3> QED
      BY <1>3, <2>1, <3>1, TagsAssumption DEF PutManifest, FilesOf, Native
  <2>2. CASE DeleteManifest(c)
    <3>1. tag' = None
      BY <1>0, <2>2 DEF DeleteManifest, Fresh
    <3>2. op[c].kind = "delete" /\ Targets(op[c], F) = DOMAIN F
      BY <1>0, <1>1, <2>2 DEF DeleteManifest, Childs, Fresh
    <3>3. Effect(op[c], F) = Restrict(F, {})
      BY <3>2 DEF Effect
    <3>4. Restrict(F, {}) = EmptyTree
      BY DEF Restrict, EmptyTree
    <3> QED
      BY <3>1, <3>3, <3>4 DEF FilesOf
  <2> QED
    BY <2>1, <2>2
<1>5. PICK e \in {"ok", "lost"} : oras' = [oras EXCEPT ![c] = e]
  BY DEF PutManifest, DeleteManifest
<1>6. /\ pc' = [pc EXCEPT ![c] = pc[c]]
      /\ UNCHANGED <<op, reply>>
  BY <1>0 DEF PutManifest, DeleteManifest, cliVars, TypeOK
<1>7. StoreStatus' = [StoreStatus EXCEPT ![c] = StatusOf(pc[c], e)]
  <2>1. ASSUME NEW p, pc' = [pc EXCEPT ![c] = p]
        PROVE  StoreStatus' = [StoreStatus EXCEPT ![c] = StatusOf(p, e)]
    <3>1. CrudInv
      BY <1>0
    <3> QED
      BY ONLY <3>1, <2>1, <1>5, c \in Clis, StatusChanges
  <2> QED
    BY <1>6, <2>1
<1>8. StatusOf(pc[c], e) = "applied"
  BY DEF StatusOf
<1>9. UNCHANGED SnapshotAnswer
  BY <1>6, AnswerStays
<1> QED
  BY <1>2, <1>3, <1>4, <1>6, <1>7, <1>8, <1>9, SameOperators DEF Store!Apply, StoreFiles

\* A signal, or the end of the child of a killed command: nobody learns the outcome.
LEMMA KillIsAbandon ==
    ASSUME CrudInv, NEW c \in Clis, Interrupt(c) \/ OrphanEnds(c), UNCHANGED Store!readVars
    PROVE  Store!Abandon(c)
<1>1. pc' = [pc EXCEPT ![c] = "killed"] /\ oras' = [oras EXCEPT ![c] = "none"]
      /\ UNCHANGED <<tag, op, reply>>
  BY DEF Interrupt, OrphanEnds, CrudInv, TypeOK, registryVars
<1>2. AtWork(c)
  BY DEF Interrupt, OrphanEnds, AtWork, OrasEnded
<1>3. StoreStatus[c] # "idle"
  BY <1>2, StatusIsOf DEF AtWork, StatusOf
<1>4. StoreStatus' = [StoreStatus EXCEPT ![c] = StatusOf("killed", "none")]
  BY <1>1, StatusChanges
<1>5. StatusOf("killed", "none") = "idle"
  BY DEF StatusOf, Active
<1>6. UNCHANGED SnapshotAnswer
  BY <1>1, AnswerStays
<1> QED
  BY <1>1, <1>3, <1>4, <1>5, <1>6 DEF Store!Abandon, StoreFiles

\* A step of the commands, the readers waiting.
LEMMA CommandStep ==
    ASSUME MaxForeign = 0, FreshInv, [Next]_crudVars, UNCHANGED Store!readVars
    PROVE  [Store!StoreNext]_StoreView
<1>1. CrudInv /\ ~ForeignNext
  BY DEF ForeignNext, Push, RemoveBlob, FreshInv, CrudInv, TypeOK
<1>2. CASE UNCHANGED crudVars
  BY <1>2 DEF crudVars, StoreView, Store!writeVars, StoreFiles, StoreStatus, SnapshotAnswer
<1>3. ASSUME NEW c \in Clis,
             (\E o \in Ops : Start(c, o)) \/ CliStep(c) \/ OrasStep(c) \/ OrphanEnds(c) \/ Failure(c)
      PROVE  [Store!StoreNext]_StoreView
  <2>0. ASSUME UNCHANGED <<StoreFiles, Store!writeVars>> PROVE UNCHANGED StoreView
    BY <2>0 DEF StoreView
  <2>1. CASE \E o \in Ops : Start(c, o)
    BY <1>1, <2>1, StartIsCall DEF Store!StoreNext
  <2>2. CASE CliStep(c)
    BY <1>1, <2>0, <2>2, EndIsAnswer, WorkIsStutter DEF CliStep, Store!StoreNext
  <2>3. CASE OrasStep(c)
    BY <1>1, <2>0, <2>3, WorkIsStutter, CommitIsApply DEF OrasStep, Store!StoreNext
  <2>4. CASE OrphanEnds(c) \/ Failure(c)
    BY <1>1, <2>0, <2>4, EndIsAnswer, WorkIsStutter, KillIsAbandon DEF Failure, Store!StoreNext
  <2> QED
    BY <1>3, <2>1, <2>2, <2>3, <2>4
<1> QED
  BY <1>1, <1>2, <1>3 DEF Next, CliNext

(***************************************************************************)
(* The reads.                                                              *)
(***************************************************************************)

LEMMA ReadingIsOf ==
    /\ StoreReading = [r \in Readers |-> ReadingOf(rpc[r])]
    /\ StoreHeld = [r \in Readers |-> HeldOf(rpc[r], found[r])]
BY DEF StoreReading, StoreHeld, ReadingOf, HeldOf

LEMMA ReadingIsOfNext ==
    /\ StoreReading' = [r \in Readers |-> ReadingOf(rpc'[r])]
    /\ StoreHeld' = [r \in Readers |-> HeldOf(rpc'[r], found'[r])]
<1>1. (/\ StoreReading = [r \in Readers |-> ReadingOf(rpc[r])]
       /\ StoreHeld = [r \in Readers |-> HeldOf(rpc[r], found[r])])'
  BY ReadingIsOf, PTL
<1> QED
  BY <1>1

\* A step of one reader.
LEMMA ReadingChanges ==
    ASSUME ServiceInv, NEW r \in Readers, NEW p, rpc' = [rpc EXCEPT ![r] = p]
    PROVE  StoreReading' = [StoreReading EXCEPT ![r] = ReadingOf(p)]
<1>1. \A s \in Readers : rpc'[s] = IF s = r THEN p ELSE rpc[s]
  BY DEF ServiceInv, ServiceTypeOK
<1>2. \A s \in Readers : ReadingOf(rpc'[s]) = IF s = r THEN ReadingOf(p) ELSE ReadingOf(rpc[s])
  BY <1>1
<1> HIDE DEF ReadingOf, HeldOf
<1> QED
  BY <1>2, ReadingIsOf, ReadingIsOfNext

LEMMA HeldChanges ==
    ASSUME ServiceInv, NEW r \in Readers, NEW p, NEW x,
           rpc' = [rpc EXCEPT ![r] = p], found' = [found EXCEPT ![r] = x]
    PROVE  StoreHeld' = [StoreHeld EXCEPT ![r] = HeldOf(p, x)]
<1>1. /\ \A s \in Readers : rpc'[s] = IF s = r THEN p ELSE rpc[s]
      /\ \A s \in Readers : found'[s] = IF s = r THEN x ELSE found[s]
  BY DEF ServiceInv, ServiceTypeOK
<1>2. \A s \in Readers : HeldOf(rpc'[s], found'[s])
                            = IF s = r THEN HeldOf(p, x) ELSE HeldOf(rpc[s], found[s])
  BY <1>1
<1> HIDE DEF ReadingOf, HeldOf
<1> QED
  BY <1>2, ReadingIsOf, ReadingIsOfNext

\* The responses are FileStore's.
LEMMA SameResponses ==
    /\ \A k : Store!Plain(k) = Plain(k)
    /\ \A x : Store!Response("file", x, {}) = File(x)
    /\ \A S : Store!Response("listing", None, S) = Listing(S)
    /\ Plain("none") = NoResponse
BY DEF Store!Plain, Store!Response, Plain, File, Listing, NoResponse

\* The readers leave the files and the commands alone.
LEMMA CommandsUnseen == UNCHANGED crudVars => UNCHANGED <<StoreFiles, Store!writeVars>>
BY DEF crudVars, StoreFiles, Store!writeVars, StoreStatus, SnapshotAnswer

LEMMA ReadersUnseen == UNCHANGED readerVars => UNCHANGED Store!readVars
BY DEF readerVars, Store!readVars, StoreReading, StoreHeld

LEMMA RequestIsAsk ==
    ASSUME ServiceInv, NEW r \in Readers, NEW t \in Targeted, Request(r, t)
    PROVE  Store!Ask(r, t)
<1> DEFINE x == found[r]
<1>1. /\ rpc' = [rpc EXCEPT ![r] = "manifest"]
      /\ found' = [found EXCEPT ![r] = x]
      /\ rpc[r] \in {"idle", "done"} /\ UNCHANGED crudVars
  BY DEF Request, ServiceInv, ServiceTypeOK
<1> HIDE DEF x
<1>2. /\ StoreReading' = [StoreReading EXCEPT ![r] = ReadingOf("manifest")]
      /\ StoreHeld' = [StoreHeld EXCEPT ![r] = HeldOf("manifest", x)]
  BY <1>1, ReadingChanges, HeldChanges
<1>3. /\ StoreReading[r] \in {"idle", "told"} /\ ReadingOf("manifest") = "asked"
      /\ StoreHeld[r] = HeldOf("manifest", x)
  BY <1>1, ReadingIsOf DEF ReadingOf, HeldOf
<1>4. StoreHeld' = StoreHeld
  BY <1>2, <1>3, ReadingIsOf
<1>5. response' = [response EXCEPT ![r] = Store!Plain("none")] /\ target' = [target EXCEPT ![r] = t]
  BY SameResponses DEF Request
<1> QED
  BY <1>1, <1>2, <1>3, <1>4, <1>5, CommandsUnseen DEF Store!Ask

\* What the manifest says of the path is true of the files of that instant.
LEMMA ManifestTells ==
    ASSUME ServiceInv, NEW r \in Readers, NEW a,
           \/ /\ rpc[r] = "manifest"
              /\ \/ tag = None /\ a = Plain("missing")
                 \/ tag # None /\ ~CollisionFree(tag.files) /\ a = Plain("malformed")
           \/ /\ Projected(r)
              /\ \/ NamesFile(r) /\ a = File(tag.files[target[r].path])
                 \/ target[r].slash /\ a = Listing(Children(target[r].path, tag.files))
                 \/ /\ ~target[r].slash /\ ~NamesFile(r)
                    /\ a = Plain(IF HasDirectory(target[r].path, tag.files)
                                 THEN "redirect" ELSE "missing")
    PROVE  StoreReading[r] = "asked" /\ a \in Store!Truths(target[r], StoreFiles)
<1> DEFINE q == target[r]
<1>1. StoreReading[r] = "asked"
  BY ReadingIsOf DEF ReadingOf, Projected
<1>2. CASE tag = None
  <2>1. StoreFiles = EmptyTree /\ DOMAIN StoreFiles = {}
    BY <1>2, EmptyTreeIsTree DEF StoreFiles, FilesOf
  <2>2. CollisionFree(StoreFiles) /\ ~HasDirectory(q.path, StoreFiles) /\ a = Plain("missing")
    BY <1>2, <2>1 DEF CollisionFree, HasDirectory, Projected
  <2> QED
    BY <1>1, <2>1, <2>2, SameOperators, SameResponses DEF Store!Truths
<1>3. CASE tag # None
  <2>1. StoreFiles = tag.files
    BY <1>3 DEF StoreFiles, FilesOf
  <2> QED
    BY <1>1, <1>3, <2>1, SameOperators, SameResponses DEF Store!Truths, Projected, NamesFile
<1> QED
  BY <1>2, <1>3

\* The file found is the response that is held.
LEMMA FindIsLook ==
    ASSUME ServiceInv, NEW r \in Readers, FindFile(r)
    PROVE  Store!Look(r)
<1> DEFINE x == tag.files[target[r].path]
<1>1. StoreReading[r] = "asked" /\ File(x) \in Store!Truths(target[r], StoreFiles)
  BY ManifestTells DEF FindFile
<1>2. rpc' = [rpc EXCEPT ![r] = "blob"] /\ found' = [found EXCEPT ![r] = x]
      /\ UNCHANGED <<crudVars, target, response>>
  BY DEF FindFile
<1> HIDE DEF x
<1>3. /\ StoreReading' = [StoreReading EXCEPT ![r] = ReadingOf("blob")]
      /\ StoreHeld' = [StoreHeld EXCEPT ![r] = HeldOf("blob", x)]
  BY <1>2, ReadingChanges, HeldChanges
<1>4. ReadingOf("blob") = "held" /\ HeldOf("blob", x) = File(x)
  BY DEF ReadingOf, HeldOf
<1> QED
  BY <1>1, <1>2, <1>3, <1>4, CommandsUnseen DEF Store!Look

\* Giving a response ends the read.
LEMMA RespondIsTell ==
    ASSUME ServiceInv, NEW r \in Readers, NEW a, Respond(r, a)
    PROVE  Store!Tell(r, a)
<1>1. rpc' = [rpc EXCEPT ![r] = "done"] /\ found' = [found EXCEPT ![r] = None]
      /\ response' = [response EXCEPT ![r] = a] /\ UNCHANGED <<crudVars, target>>
  BY DEF Respond
<1>2. /\ StoreReading' = [StoreReading EXCEPT ![r] = ReadingOf("done")]
      /\ StoreHeld' = [StoreHeld EXCEPT ![r] = HeldOf("done", None)]
  BY <1>1, ReadingChanges, HeldChanges
<1>3. ReadingOf("done") = "told" /\ HeldOf("done", None) = Store!Plain("none")
  BY SameResponses DEF ReadingOf, HeldOf
<1> QED
  BY <1>1, <1>2, <1>3, CommandsUnseen DEF Store!Tell

\* The blob is still there, so what is given is what was held.
LEMMA ReadIsRespond ==
    ASSUME Held, NEW r \in Readers,
           NoSnapshot(r) \/ ListDirectory(r) \/ Redirect(r) \/ ReadBlob(r) \/ ReadFails(r)
    PROVE  Store!Respond(r)
<1>0. ServiceInv
  BY DEF Held
<1>1. CASE NoSnapshot(r) \/ ListDirectory(r) \/ Redirect(r)
  <2>1. PICK a : /\ Respond(r, a)
                 /\ StoreReading[r] = "asked" /\ a \in Store!Truths(target[r], StoreFiles)
    BY <1>0, <1>1, ManifestTells DEF NoSnapshot, ListDirectory, Redirect, Projected
  <2> QED
    BY <1>0, <2>1, RespondIsTell DEF Store!Respond
<1>2. CASE ReadBlob(r)
  <2>1. rpc[r] = "blob" /\ Respond(r, File(found[r]))
    BY <1>2 DEF ReadBlob, Held, NoDanglingRead
  <2>2. StoreReading[r] = "held" /\ StoreHeld[r] = File(found[r])
    BY <2>1, ReadingIsOf DEF ReadingOf, HeldOf
  <2> QED
    BY <1>0, <2>1, <2>2, RespondIsTell DEF Store!Respond
<1>3. CASE ReadFails(r)
  <2>1. rpc[r] \in {"manifest", "blob"} /\ Respond(r, Store!Plain("error"))
    BY <1>3, SameResponses DEF ReadFails
  <2>2. StoreReading[r] \in {"asked", "held"}
    BY <2>1, ReadingIsOf DEF ReadingOf
  <2> QED
    BY <1>0, <2>1, <2>2, RespondIsTell DEF Store!Respond
<1> QED
  BY <1>1, <1>2, <1>3

\* Every step of the commands and of the readers is one of FileStore's, or none.
LEMMA StoreStep ==
    ASSUME MaxForeign = 0, FreshInv, Held, [ServiceNext]_serviceVars
    PROVE  [Store!StoreNext]_StoreView
<1>1. CASE UNCHANGED readerVars
  BY <1>1, ReadersUnseen, CommandStep, ServiceStepIsCrudStep
<1>2. ASSUME NEW r \in Readers, NEW t \in Targeted, Request(r, t)
      PROVE  Store!StoreNext
  BY <1>2, RequestIsAsk DEF Held, Store!StoreNext
<1>3. ASSUME NEW r \in Readers, ReaderStep(r) \/ ReadFails(r)
      PROVE  Store!StoreNext
  BY <1>3, FindIsLook, ReadIsRespond DEF Held, ReaderStep, Store!StoreNext
<1> QED
  BY <1>1, <1>2, <1>3 DEF ServiceNext, serviceVars

\* While one command is at work at a time and nobody else writes, the commands and
\* the reads are a store of files: every operation takes effect at one instant
\* between its call and its answer or not at all, exactly as asked of the files of
\* that instant, and what is answered is true.  Every read, though it asks the
\* registry twice and the tag may move in between, is answered as of one instant.
THEOREM CommandsImplementFileStore ==
    ASSUME MaxForeign = 0
    PROVE  ServiceSpec /\ []OneAtWork => ImplementsFileStore
<1>1. ServiceInit => FreshInv /\ Held
  BY FreshInit, ServiceStart DEF ServiceInit, Held, Init, NoDanglingRead
<1>2. OneAtWork /\ FreshInv /\ Held /\ [ServiceNext]_serviceVars => FreshInv' /\ Held'
  BY FreshStep, HeldStep, ServiceStepIsCrudStep
<1>3. FreshInv /\ Held /\ [ServiceNext]_serviceVars => [Store!StoreNext]_StoreView
  BY StoreStep
<1>4. ServiceInit => Store!StoreInit
  <2> SUFFICES ASSUME ServiceInit PROVE Store!StoreInit
    OBVIOUS
  <2>1. CrudInv /\ Init
    BY CrudInit DEF ServiceInit
  <2>2. StoreFiles \in Store!Trees
    BY <2>1, FilesOfIsTree DEF CrudInv, TypeOK, StoreFiles, Store!Trees, Trees
  <2>3. StoreStatus = [c \in Clis |-> "idle"] /\ SnapshotAnswer = [c \in Clis |-> "none"]
    BY <2>1 DEF Init, StoreStatus, SnapshotAnswer, Active
  <2>4. /\ StoreReading = [r \in Readers |-> "idle"]
        /\ StoreHeld = [r \in Readers |-> NoResponse]
    BY DEF ServiceInit, StoreReading, StoreHeld
  <2> QED
    BY <2>1, <2>2, <2>3, <2>4, SameResponses DEF Init, ServiceInit, Store!StoreInit
<1> QED
  BY <1>1, <1>2, <1>3, <1>4, PTL
  DEF ServiceSpec, ImplementsFileStore, Store!StoreSpec, Store!storeVars, StoreView

\* Commands one after another, each started when the last one has returned and its
\* ORAS child has ended, need no such condition.
THEOREM OneCommandImplementsFileStore ==
    ASSUME MaxForeign = 0, \A c, d \in Clis : c = d
    PROVE  ServiceSpec => ImplementsFileStore
<1>1. OneAtWork
  BY DEF OneAtWork
<1>2. ServiceSpec => []OneAtWork
  BY <1>1, PTL
<1> QED
  BY <1>2, CommandsImplementFileStore, PTL

(***************************************************************************)
(* What the finding of read_unknown_directory does not touch: the root.    *)
(***************************************************************************)

\* A crawler that begins at the root is never told that there is nothing.
RootIsNeverEmpty ==
    \A r \in Readers :
       response[r].kind = "listing" /\ target[r].path = <<>> => response[r].names # {}

\* Nobody else publishes an artifact without files.
SomeFiles == \A m \in (InitialTags \cup Pushes) \ {None} : DOMAIN m.files # {}

\* What the tag names has files: the commands delete a tag before they empty it.
LEMMA TagHasFiles ==
    ASSUME SomeFiles, CrudInv, tag # None
    PROVE  DOMAIN tag.files # {}
BY DEF SomeFiles, CrudInv, CliLeavesReadableTag, Compatible

LEMMA RootHasChildren ==
    ASSUME <<>> \notin Files, SomeFiles, CrudInv, tag # None
    PROVE  Children(<<>>, tag.files) # {}
<1>1. PICK p \in DOMAIN tag.files : TRUE
  BY TagHasFiles
<1>2. p \in Files /\ tag.files \in Trees
  BY <1>1, TreeIsFunction DEF CrudInv, TypeOK, Manifests
<1>3. p \in Seq(Nat) /\ p # <<>>
  BY <1>2, PathsAssumption
<1>4. Len(<<>>) = 0 /\ Len(p) > 0
  BY <1>3
<1>5. IsUnder(<<>>, p)
  BY <1>4 DEF IsUnder
<1> QED
  BY <1>1, <1>5 DEF Children

LEMMA RootStep ==
    ASSUME <<>> \notin Files, SomeFiles, ServiceInv, RootIsNeverEmpty,
           [ServiceNext]_serviceVars
    PROVE  RootIsNeverEmpty'
<1> USE DEF RootIsNeverEmpty, ServiceInv, ServiceTypeOK
<1>1. CASE UNCHANGED readerVars
  BY <1>1 DEF readerVars
<1>2. ASSUME NEW r \in Readers, NEW t \in Targeted, Request(r, t)
      PROVE  RootIsNeverEmpty'
  BY <1>2 DEF Request, NoResponse
<1>3. ASSUME NEW r \in Readers, FindFile(r)
      PROVE  RootIsNeverEmpty'
  BY <1>3 DEF FindFile
<1>4. ASSUME NEW r \in Readers, NEW a, Respond(r, a),
             a.kind = "listing" /\ target[r].path = <<>> => a.names # {}
      PROVE  RootIsNeverEmpty'
  BY <1>4 DEF Respond
<1>5. ASSUME NEW r \in Readers, ListDirectory(r)
      PROVE  RootIsNeverEmpty'
  <2>1. tag # None /\ Respond(r, Listing(Children(target[r].path, tag.files)))
    BY <1>5 DEF ListDirectory, Projected
  <2>2. target[r].path = <<>> => Children(target[r].path, tag.files) # {}
    BY <2>1, RootHasChildren
  <2> QED
    BY <1>4, <2>1, <2>2 DEF Listing
<1>6. ASSUME NEW r \in Readers, NoSnapshot(r) \/ Redirect(r) \/ ReadBlob(r) \/ ReadFails(r)
      PROVE  RootIsNeverEmpty'
  <2>1. \E a : Respond(r, a) /\ a.kind # "listing"
    BY <1>6 DEF NoSnapshot, Redirect, ReadBlob, ReadFails, Plain, File
  <2> QED
    BY <1>4, <2>1
<1>7. CASE UNCHANGED serviceVars
  BY <1>1, <1>7 DEF serviceVars
<1> QED
  BY <1>1, <1>2, <1>3, <1>5, <1>6, <1>7 DEF ServiceNext, ReaderStep

\* However reads and commands overlap, with deletes of everything among them, no
\* listing of the root is empty: the artifact goes with its last file, and a read
\* in between finds no artifact (matching_paths and run_oras against
\* handle_autoindex).  Only other clients can publish an empty one.
THEOREM RootListingsHaveEntries ==
    ASSUME <<>> \notin Files, SomeFiles
    PROVE  ServiceSpec => []RootIsNeverEmpty
<1>1. ServiceInit => RootIsNeverEmpty
  BY DEF ServiceInit, RootIsNeverEmpty, NoResponse
<1>2. ServiceInv /\ RootIsNeverEmpty /\ [ServiceNext]_serviceVars => RootIsNeverEmpty'
  BY RootStep
<1> QED
  BY ServiceStart, ServiceStep, <1>1, <1>2, PTL DEF ServiceSpec
=============================================================================
