-------------------------- MODULE AutoindexService --------------------------
(***************************************************************************)
(* The CRUD commands together with the readers of the gateway's autoindex  *)
(* paths (proxy.rs handle_autoindex).  A read is two registry requests: the*)
(* manifest, projected to an index, then the blob of the file found in it. *)
(* Between the two the tag may move.                                       *)
(*                                                                         *)
(* The module also states which abstract FileStore the commands implement. *)
(***************************************************************************)
EXTENDS AutoindexCrud

CONSTANTS Readers,        \* requests that may be in progress at once
          Targeted        \* the request paths, as [path, slash] records

VARIABLES rpc,            \* per reader: "idle", "manifest", "blob" or "done"
          target,         \* per reader: the requested path
          found,          \* per reader: the content the index named
          response        \* per reader: the response

readerVars  == <<rpc, target, found, response>>
serviceVars == <<crudVars, readerVars>>

NoResponse == [kind |-> "none", content |-> None, names |-> {}]

File(x)     == [kind |-> "file", content |-> x, names |-> {}]
Listing(S)  == [kind |-> "listing", content |-> None, names |-> S]
Plain(k)    == [kind |-> k, content |-> None, names |-> {}]

ServiceTypeOK ==
    /\ TypeOK
    /\ rpc \in [Readers -> {"idle", "manifest", "blob", "done"}]
    /\ target \in [Readers -> Targeted \cup {None}]
    /\ found \in [Readers -> Contents \cup {None}]
    /\ \A r \in Readers :
          /\ response[r].kind \in
                {"none", "file", "listing", "redirect", "missing", "malformed", "error"}
          /\ response[r].content \in Contents \cup {None}

ServiceInit ==
    /\ Init
    /\ rpc = [r \in Readers |-> "idle"]
    /\ target = [r \in Readers |-> None]
    /\ found = [r \in Readers |-> None]
    /\ response = [r \in Readers |-> NoResponse]

(***************************************************************************)
(* One request.                                                            *)
(***************************************************************************)

Respond(r, answer) ==
    /\ rpc' = [rpc EXCEPT ![r] = "done"]
    /\ response' = [response EXCEPT ![r] = answer]
    /\ found' = [found EXCEPT ![r] = None]
    /\ UNCHANGED <<crudVars, target>>

Request(r, t) ==
    /\ rpc[r] \in {"idle", "done"}
    /\ rpc' = [rpc EXCEPT ![r] = "manifest"]
    /\ target' = [target EXCEPT ![r] = t]
    /\ response' = [response EXCEPT ![r] = NoResponse]
    /\ UNCHANGED <<crudVars, found>>

\* No artifact, or one that cannot be projected.
NoSnapshot(r) ==
    /\ rpc[r] = "manifest"
    /\ \/ tag = None /\ Respond(r, Plain("missing"))
       \/ tag # None /\ ~CollisionFree(tag.files) /\ Respond(r, Plain("malformed"))

Projected(r) == rpc[r] = "manifest" /\ tag # None /\ CollisionFree(tag.files)

\* The path is looked up as it was spelled: a final slash never names a file.
NamesFile(r) == ~target[r].slash /\ target[r].path \in DOMAIN tag.files

FindFile(r) ==
    /\ Projected(r)
    /\ NamesFile(r)
    /\ rpc' = [rpc EXCEPT ![r] = "blob"]
    /\ found' = [found EXCEPT ![r] = tag.files[target[r].path]]
    /\ UNCHANGED <<crudVars, target, response>>

\* Seeded fault: an empty listing is never answered.
ListNonEmpty(r) ==
    /\ Projected(r)
    /\ target[r].slash
    /\ HasDirectory(target[r].path, tag.files)
    /\ Respond(r, Listing(Children(target[r].path, tag.files)))

ListDirectory(r) ==
    /\ Projected(r)
    /\ target[r].slash
    /\ Respond(r, Listing(Children(target[r].path, tag.files)))

Redirect(r) ==
    /\ Projected(r)
    /\ ~target[r].slash /\ ~NamesFile(r)
    /\ Respond(r, Plain(IF HasDirectory(target[r].path, tag.files)
                        THEN "redirect" ELSE "missing"))

\* A blob the manifest names and the registry does not hold is a fault of the
\* upstream (map_oci_error for mapped content), not a missing path.
ReadBlob(r) ==
    /\ rpc[r] = "blob"
    /\ Respond(r, IF found[r] \in blobs THEN File(found[r]) ELSE Plain("malformed"))

\* Either request times out or fails.
ReadFails(r) ==
    /\ rpc[r] \in {"manifest", "blob"}
    /\ Respond(r, Plain("error"))

ReaderStep(r) ==
    \/ NoSnapshot(r) \/ FindFile(r) \/ ListDirectory(r) \/ Redirect(r)
    \/ ReadBlob(r)

ServiceNext ==
    \/ Next /\ UNCHANGED readerVars
    \/ \E r \in Readers : \/ \E t \in Targeted : Request(r, t)
                          \/ ReaderStep(r) \/ ReadFails(r)

ServiceFairness ==
    /\ \A c \in Clis : /\ WF_serviceVars(CliStep(c) /\ UNCHANGED readerVars)
                       /\ WF_serviceVars(OrasStep(c) /\ UNCHANGED readerVars)
    /\ \A r \in Readers : WF_serviceVars(ReaderStep(r))

ServiceSpec     == ServiceInit /\ [][ServiceNext]_serviceVars
FairServiceSpec == ServiceSpec /\ ServiceFairness

(***************************************************************************)
(* Properties.                                                             *)
(***************************************************************************)

\* As long as only the commands write, a file found in a manifest can still be
\* read after the command that replaces or deletes that manifest: they add
\* blobs before they move the tag and never remove one.
NoDanglingRead ==
    \A r \in Readers : rpc[r] = "blob" => found[r] \in blobs

\* Every request is answered (each upstream request has a timeout).
RequestsEnd == \A r \in Readers : rpc[r] = "manifest" ~> rpc[r] = "done"

\* An unknown path is a 404 and a directory without files does not exist
\* (README.md, ADR 0002): no listing below the root is empty.
UnknownDirectoryIsMissing ==
    \A r \in Readers :
       response[r].kind = "listing" /\ target[r].path # <<>> => response[r].names # {}

(***************************************************************************)
(* The commands and the reads implement FileStore while at most one        *)
(* command, with the ORAS child it may have left, is at work and nobody    *)
(* else writes.                                                            *)
(***************************************************************************)

StoreFiles == FilesOf(tag)

StoreStatus ==
    [c \in Clis |->
       IF oras[c] \in {"ok", "lost"} THEN "applied"
       ELSE IF pc[c] \in Active \/ oras[c] # "none" THEN "pending" ELSE "idle"]

StoreReading ==
    [r \in Readers |-> IF rpc[r] = "manifest" THEN "asked"
                       ELSE IF rpc[r] = "blob" THEN "held"
                       ELSE IF rpc[r] = "done" THEN "told" ELSE "idle"]

StoreHeld == [r \in Readers |-> IF rpc[r] = "blob" THEN File(found[r]) ELSE NoResponse]

Store == INSTANCE FileStore WITH
            Callers <- Clis, Calls <- Ops, NoCall <- None,
            files <- StoreFiles, request <- op,
            status <- StoreStatus, answer <- SnapshotAnswer,
            Queries <- Targeted, NoQuery <- None, NoContent <- None,
            query <- target, reading <- StoreReading,
            held <- StoreHeld, told <- response

\* Each command's effect is all or nothing at one instant, it is exactly what
\* the operation says of the files of that instant, and the answer is true.  Each
\* read, two requests though it is, is answered as of one instant.
ImplementsFileStore == Store!StoreSpec
=============================================================================
