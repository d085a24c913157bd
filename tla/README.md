# Verification of the OCI autoindex gateway

TLA+ models of `github-oras-packages-proxy`, the gateway and command-line tool
of this repository: what its commands, its reads, its forwarded writes, its
token cache and its server do when they interleave with each other, with other
clients, with failures and with time. TLC checks the models on small
instances; TLAPS proves the most important properties for every instance.

Paths below are relative to `crates/github-oras-packages-proxy/src/` unless
they start with `docs/` or `README.md`. `PROJECT.json` maps each definition to
the lines it stands for and lists hazards, runs, mutants, findings, theorems.

## 1. The system

The program is a front of one repository in an OCI registry. A tag of that
repository, `autoindex.v1`, names a manifest whose layers are files with a
path (their title); the gateway shows them as a browsable tree, passes OCI
distribution requests on to the registry, and a set of commands creates,
updates and deletes files by publishing new manifests.

| Component | State it keeps | Operations | Modelled by |
|---|---|---|---|
| CRUD commands (`autoindex_cli.rs`) | a private temporary directory; the tag and blobs live in the registry | `create`, `update`, `delete`, `--dry-run`; an ORAS child per publication | `FileTree`, `AutoindexCrud`; abstractly: `FileStore`, `SnapshotStore`; their processes and directories: `Invocations` |
| native publisher (`publisher.rs`) | none | sort, limits, manifest and layout of a directory | `NativePublisher`, `FileTree`; the layout on disk: `Invocations` |
| index and projection (`autoindex.rs`, `oci.rs`) | none | path syntax, insert, lookup, directories, children, links; what a manifest projects to | `AutoindexPaths`, `NativePublisher`, `AutoindexBrowse` |
| autoindex reads (`proxy.rs` `handle_autoindex`) | per request | manifest, then file, listing or redirect | `AutoindexService`; the answers as pages with links: `AutoindexBrowse` |
| token broker (`oci.rs` `request_response_method`, `auth.rs`) | the token cache, shared by all requests | lookup, removal, exchange, retry, insertion | `BearerChallenge`, `TokenBroker` |
| distribution gateway (`proxy.rs` `handle_distribution`, `oci.rs` `forward_distribution`, `oci_gateway.rs`) | per request | admit, forward, retell the answer, rewrite its Location | `DistributionGateway` |
| inbound admission (`inbound.rs`) | none | the checks of a request's head, in order | `InboundAdmission` |
| verified streaming (`oci.rs` `verified_body`) | size and hash of a body under way | per chunk, end, final check | `BlobStream`; abstractly: `AtomicFetch` |
| listener (`server.rs`, `main.rs` `serve`) | socket, set of connections, watch channel | accept, dispatch, readiness, shutdown | `ServerLifecycle`, `StreamingServer` |
| configuration (`config.rs`) | none after start | file, environment, checks | `Configuration` |
| command line, `autoindex-publish` (`cli.rs`, `main.rs`, `bin/autoindex-publish.rs`) | none | arguments, exits | `Invocations` |
| error mapping (`errors.rs`) | none | tables | statuses only: `Refusal` and `Retold` of `DistributionGateway`, `Malformed` (partly) |
| legacy route map and PyPI adapter (`routing.rs`, part of `proxy.rs`) | none | parsing | not modelled, see section 8 |

How they interact. A CRUD command is a process of its own: it shares nothing
with a gateway or another command but the registry, and nothing locks the tag
between its read of the manifest and its replacement. An autoindex read and a
distribution request are tasks of the server; they share the `OciClient`, with
the token cache behind a mutex that is released across every await. Registry,
token service and ORAS are outside the repository and are modelled as what the
code can observe of them. The server may drop any task at an await: its client
hangs up, or the server shuts down.

What is hard, and what makes each component correct:

* *CRUD*: lost updates, a tag that moves during a download, a failed or
  unanswered publication, a killed command whose child goes on. A publication
  must be exactly the operation's effect on the artifact loaded; no command
  may leave a tag the next one refuses; a manifest may be deleted only when no
  file is left; alone, a command must be atomic and its answer true.
* *Reads*: manifest and blob are two requests. Commands must not take away
  what a reader has been told of.
* *Broker*: removal after a 401 may hit another request's fresh token, stores
  happen out of order, tokens are revoked and expire while in hand. Only
  proven tokens of the right repository may be cached, never a client's own,
  within the capacity, and not past their expiry.
* *Distribution gateway*: a timeout races with a late execution; the answer
  must not deny what was done or claim what was not, and an upload must be
  continuable through the gateway with what the gateway itself answered.
* *Streaming*: bytes go out before their digest is known, a registry stalls,
  breaks off or sends anything. A complete answer must have the announced
  length; a command must get all of a blob or an error, and in bounded time.
* *Listener*: shutdown against connections in every phase, with bodies flowing
  or not; it must end, and leave nothing behind.
* *Publisher and index*: three spellings of one path (a title, a link, a
  request) and two orders of titles, in code that never meets. What was
  published must be loadable, and a crawl must find all of it and nothing dead.
* *Processes*: ids are given again, kills leave directories, children outlive
  their command. What one run has put on the disk must stay its own.
* *Configuration*: two sources and values that are judged together. No mixture
  may be less safe than the documentation says of each.

## 2. Modules

An arrow points to the module that is extended (or instantiated).

```
FileTree  <-  FileStore, SnapshotStore     (abstract)
   ^              ^ refined by AutoindexService; by AutoindexCrud
AutoindexCrud <- AutoindexService <- MCService (EXTENDS MCCrud too)
   ^     ^            ^
   |     MCCrud       AutoindexService_proofs (EXTENDS AutoindexCrud_proofs too)
AutoindexCrud_proofs

BearerChallenge <- TokenBroker <- MCBroker,  TokenBroker_proofs

AutoindexPaths <- NativePublisher <- AutoindexBrowse <- MCBrowse, AutoindexBrowse_proofs
                                        |
InboundAdmission <----------------------+
   ^
DistributionGateway  <- MCGateway, DistributionGateway_proofs

BlobStream <---+        AtomicFetch (abstract)
               |            ^ refined by
ServerLifecycle <- StreamingServer <- StreamingServer_proofs
   ^                                    (EXTENDS ServerLifecycle_proofs too)
ServerLifecycle_proofs

Configuration <- Invocations <- MCInvocations, Invocations_proofs
```

### FileTree, FileStore and SnapshotStore

A path is a sequence of natural numbers: only the order and the equality of
segments matter. A tree is a function from file paths to contents; equal
contents have equal digests. `Insertable`, `PathLess`, `OverLimit`, `AllBytes`,
`Targets`, `Refusal` and `Effect` are the decisions of `Index::insert`,
`Publication::from_files`, `materialize_snapshot`, `matching_paths` and
`execute`. The two byte counts differ on purpose: `from_files` counts distinct
contents, `materialize_snapshot` counts every file.

`FileStore` is what the commands promise when they do not overlap: a tree in
which each operation happens at one instant between call and answer, or not at
all. `"failed"` says nothing about the effect; every other answer does. A read is
answered as of one instant, too: its response is known at `Look` and told later,
whatever is written in between; only `"error"` says nothing.

`SnapshotStore` is what they promise however they overlap with each other, with
surviving children and with other clients: a command looks at the artifact once,
is refused or accepted by what it saw, and later replaces whatever is there by
its whole effect on what it saw, or does nothing. Work of others can be lost, but
never mixed in; the tag goes only when no file is due; answers are true of the
instant they are about.

### AutoindexCrud

`pc[c]` is the place in `execute`; one action per stretch between awaits:

| Action | Code |
|---|---|
| `Start`, `RejectSource` | `main.rs` `autoindex`, `validate_source` |
| `LoadIncompatible`, `Refuse`, `Preview`, `Accept` | `load_snapshot`, then the existence check and the dry run, all before the next await |
| `FetchFile`, `FetchRefused` | one turn of the loop of `materialize_snapshot` |
| `Stage`, `StageRefused` | `copy_source` or the removals, `from_directory`, `write_oci_layout`, the choice of the child |
| `OrasExit`, `OrasFails` | `run_oras` |
| `Upload`, `PutManifest`, `Resolve`, `DeleteManifest` | the requests of the ORAS child (external) |
| `Fault` | every other error before ORAS starts |
| `Interrupt`, `Orphan`, `OrphanEnds` | a signal to the process group, or to the command alone |
| `Push`, `RemoveBlob` | any other client of the repository |

`"lost"` is an ORAS request that was carried out and reported as failed.
Files are fetched in any order where the code goes in path order: the order
decides only which of several failures is reported. The checks of path syntax
and the refusal of a directory in a create come before anything modelled; the
operations enumerated have passed them. Errors of a load other than 401 and
403 are `"invalid"`, as in `load_snapshot`.

### AutoindexService

Readers (`Request`, then one of `NoSnapshot`, `FindFile`, `ListDirectory`,
`Redirect`, and `ReadBlob` after `FindFile`) interleave with the commands. The
mapping to `FileStore` reads the abstract tree off the tag, the status off the
ORAS child (`"ok"` and `"lost"`: applied) and the answer off the reply; a reader
whose `found` has a content holds the response with that file, which it was due
when the manifest was read. The mapping of `AutoindexCrud` to `SnapshotStore` is
of the same kind, with `snap` as what was seen.

### TokenBroker

Each await of `request_response_method` is a phase in which other requests, the
clock and the registry move on; each turn of the mutex is one action. `issued`,
`revoked` and `accepted` belong to the token service and the registry. Time is
an integer: local steps take none, and `Tick` may not pass a deadline, because
`tokio::time::timeout` ends every wait. The exchange waits twice (`HeadersArrive`
ends the first wait, `Retry` the second), the retry once, each with its own
timeout; `Issue` may happen at any time of the first wait, which goes on, so that
a token is up to three timeouts old when it is stored. The model is of a process with token credentials;
without them every request takes the path of a client's own (`"plain"`).

What the fields of a 401 say is `BearerChallenge`: the grammar of auth.rs with
its cursor as a position, each parser a recursive function, `Unread` and
`Malformed` for its `None`. A field is a sequence of letters in which the words
that matter, the quote, the backslash and the tab are one letter each; lengths
are counted in them. `MCBroker` writes challenges out in every style, offers
them to the parser and compares what it takes with `Wanted`, which looks at the
challenges and not at the text: the first field whose first Bearer challenge is
usable. That is what the code does; its documentation promises more (section 6).

### DistributionGateway

`Receive` is `handle_distribution` up to its first await: the order of its
checks is `Refusal`. `Serve` is the registry: sessions, blobs, manifests, or
any refusal of its own. `Deliver` retells the answer (`classify_response`,
`map_oci_error`, `rewrite_distribution_location`), `GiveUp` is the timeout or a
broken connection, `Leave` a dropped task, `Lose` a request that never arrives.
After `GiveUp` and `Leave` the request may still be served. A query is a
sequence of parameters, each good, percent-encoded or bad; a Location is its
origin, repository, kind, name and query. `"limited"` stands for 429 and 503,
`"error"` for every status without a class of its own. Reads are one registry
request here: what happens inside is `TokenBroker`. The registry keeps bytes
appended before a digest mismatch, as `scripts/oci_registry_stateful.py` does.

### InboundAdmission

A head is the record of what its checks look at: sizes, the kinds of fields and
the `Content-Length` fields one by one. `DistributionRefusal` and
`AutoindexRefusal` are the two validators, check by check in their order, and
`InboundStatus` is the status `map_inbound` gives each refusal. `DistributionGateway` admits with
the first one and `AutoindexBrowse` with the second.

### ServerLifecycle, BlobStream, StreamingServer, AtomicFetch

`ServerLifecycle` has the main task, the accept loop and the connections; a
handler is busy for as long as it likes. `connections.shutdown` is one step:
the loop waits for every aborted task.

`BlobStream` is `verified_body`, one action per chunk, end or break of the
registry's body. A reader is a connection, whose client stops at the announced
length and so may never poll the item behind it, or a command, which collects
everything under a time limit. A chunk is of the right bytes or not; a digest
agrees when all are right and none is missing. The announced size is the
descriptor's or, for a blob asked for by digest, the registry's own header.

`StreamingServer` composes the two: a connection is busy while its body flows,
a client that leaves or a server that closes drops the body, and commands fetch
from the same registry meanwhile. `AtomicFetch` is what a command may expect of
a fetch: pending, then all of it or a failure.

### AutoindexPaths, NativePublisher, AutoindexBrowse

Segments are model values with a spelling in bytes, so that the two orders of
the code are its own: `NameLess` of path components, in which the publisher
finds files, and `TitleLess` of whole titles, which the loader requires.
`ValidPath` is `RelativePath::parse`; `FileTitle`, `Collide`, `Children` and
`HasDirectory` are the objects and the `Index`; `Publishable` and `Published`
the publisher; `Projects` and `CrudCompatible` what a client and a command ask
of a manifest.

`AutoindexBrowse` has an artifact, published or pushed by somebody else, and a
crawler that starts with any request and follows every link and redirect. `Get`
is `handle` as far as the answer goes: the paths the gateway keeps for itself,
admission, redirect, listing or file. A crawl sees one artifact; what happens
when it changes in the middle of one read is `AutoindexService`.

### Configuration and Invocations

`Configuration` is `Config::from_env`: each value as a class, a number or a few
characters, each check as its own operator, the precedence of the two sources.

`Invocations` is a host: processes with an id (which is given again) and a run
(which is not), the directories they make, the ORAS children and what each of
them leaves. `Parse` is the command line; `TryName` is one attempt of
`TemporaryDirectory::new`; `BeginLayout`, `WritePart` and `LayoutFails` are
`write_oci_layout`; `LoginEnds` and `OrasEnds` the children (a
password that cannot be written counts as a failed login: the pipe to ORAS breaks
only when ORAS has ended); `DropWork` is
`TemporaryDirectory::drop`. `Kill` takes a process away, with or without its
child, which then ends later as an orphan. What a command does to the registry
is `AutoindexCrud`'s: its phases `"load"` and `"fill"` are that module's steps
before ORAS.

## 3. Runs

| Run | Instance | Shows | States |
|---|---|---|---|
| `crud_single` | 1 command at a time, 27 operations on 3 paths, 2 starts, 1 reader | commands and reads implement `FileStore` through faults, lost answers, kills and a surviving child; no dangling read; commands and reads end | 59,794 |
| `crud_concurrent` | 2 commands, 7 operations, 3 starts, 1 foreign step | uploads are effects; the tag stays loadable; the commands implement `SnapshotStore` | 1,158,737 |
| `crud_races` (violation) | 2 creates of one path, 1 foreign push | a command replaces what it never checked and reports success | |
| `crud_same_bytes` (violation) | 3 creates of equal bytes | an artifact over the loader's limit is published | |
| `read_unknown_directory` (violation) | 1 reader | an empty listing for a directory that does not exist | |
| `token_broker` | 2 concurrent requests (interchangeable, so symmetric), 3 reads, 2 repositories, capacity 1, 2 tokens, time 0..3, timeout 1, skew 2 | proven tokens, credentials apart, bounded cache, stale tokens replaced, overdue tokens bounded; 463 lists of challenges in 4 styles are understood | 4,779,716 |
| `gateway` | 2 slots, requests of every kind and any head, 3 registries, 3 spellings of Locations | answers are true, Locations lead back, what is forwarded has one length, every request is answered | 290,968 |
| `gateway_manifest_location` (violation) | a registry that sends a Location with a manifest | a stored manifest is answered with 502 | |
| `lifecycle` | 2 connections that stream, 1 command that fetches, blobs of up to 2 units | complete answers are whole, no download is orphaned, fetches are atomic, shutdown completes and leaves nothing | 966,328 |
| `stream_wrong_bytes` (violation) | 1 connection, 1 command | a complete 200 with wrong bytes | |
| `browse` | directories of up to 4 out of 10 files, 12 foreign manifests, 17 requests | no dead links, nothing hidden, redirects land, what is published is loadable | 3,187 |
| `invocations` | 3 processes under 2 ids, 2 names each, 1 destination; settings and arguments of every kind | safe settings, changes only on request, nothing left but by kills, children find their own, what a run has on the disk is changed by its own steps only, commands end | 530,359 |

Each property of a passing run has a mutant in `PROJECT.json`: a plausible bug
(marked "Seeded fault" in the modules) under which the same run fails.

### Bounds

* `MaxStarts`, `MaxForeign`: a race needs two commands, its consequence for
  the next command a third; a third party needs one step to fall between any
  two of theirs. One path that is a file, one below it and one beside it give
  every relation two paths can have; `MaxBytes = 2` makes two files fit and
  three not, `"big"` is over the limit alone.
* `MaxReads = 3`, `MaxTokens = 2`, capacity 1: two requests race for the one
  place of the cache while a third meets what they left; two tokens are one
  stale and one fresh. `MaxTime = 3` lets the three waits between issue and
  insertion all take their whole `Timeout = 1`, and `Skew = 2` lies below their
  sum, as the program's defaults do (60 s each, 30 s): tokens are overdue in the
  cache, and the bound of `OverdueIsBounded` is reached. Lifetimes lie below, at and
  above the skew and the cap.
* Challenges: a Bearer challenge with every kind of realm and service, and one
  or two of another scheme before, behind or around it, in one field or two, or a
  usable Bearer challenge before or behind it in one field, with another field
  after them, in four styles; parameters that look like challenges when quotes
  are misread.
  `MaxChallenge = 60` letters makes some of the fields too long, `MaxService = 3`
  some of the services.
* `MaxRequests = 2`: two concurrent requests, or two in sequence, in one slot
  too (a request outliving its client delays the reuse of its slot, not the
  other request). The initial registries supply the depth: empty, with an open
  session that has half of the blob, with blob and manifest.
* Streaming: a body of two units has a first and a last chunk, a short and a
  long ending; two connections and a command interleave with one shutdown.
* `browse`: four files are enough for a directory beside a file, a shared
  prefix and a path of three segments; the byte order, the reserved names, a
  name over the target limit and one that is refused are among the ten files.
  `MaxFiles` and `MaxManifest` lie within what those directories reach.
* `invocations`: the third process may have the id of the first, and meets what
  a killed one left. Two attempts and three runs let a command run out of names
  only by two kills of its id. The variety of settings and arguments is
  that of the first process; the later ones carry a command out. Of the upstream
  hosts asked for in clear one is a name, one an address that is not of the
  loopback, one an address that is.
* The invariants of section 5 are proved without these bounds.

`CHECK_DEADLOCK FALSE` is set where the system rests: all commands, reads or
requests bounded by the constants have ended.

## 4. Fairness

* Commands: weak fairness of `CliStep(c)` and `OrasStep(c)`. Each request of a
  command, headers and body, ends by `request_timeout`; then an action of
  `CliStep` or a fault has happened. For ORAS there is no timeout in the code:
  that it ends is assumed. No fault is assumed to happen.
* Readers: weak fairness of a reader's steps, for the same timeouts.
* Gateway: weak fairness of `Deliver(q) \/ GiveUp(q)`: the timer of
  `forward_distribution` and of `send_request`. Nothing is assumed of the
  registry, which may never answer.
* Server: weak fairness of the loop and of the exit. `select!` polls its ready
  branches in random order, so connections cannot keep it from seeing the
  signal. Nothing is assumed of handlers and clients, nor of a registry that
  streams. A command's fetch has weak fairness of its time limit only.
* Processes: weak fairness of each process's own steps, between which the code
  waits for nothing but requests with a timeout. Nothing is assumed of ORAS, of
  Ctrl-C or of kills: `CommandsEndOrWaitForOras` is what is left.
* The broker's run checks safety only.

## 5. Theorems

TLAPS proves, for all values of the constants that satisfy the modules'
`ASSUME`s:

| Module | Theorem | States |
|---|---|---|
| `AutoindexCrud_proofs` | `CrudTypeCorrect`, `UploadsAreEffects`, `TagsStayReadable` | the three invariants of `crud_concurrent` |
| | `CommandsImplementSnapshotStore` | the refinement of `crud_concurrent`, without any condition |
| | `AloneReplacesWhatWasChecked` | what `crud_races` refutes holds of commands that do not overlap, under `MaxForeign = 0` |
| | `PublishedDistinctBytes` | what `crud_same_bytes` refutes holds of bytes that are counted once |
| | `CommandsComeNearerTheirEnd` | the part of `CommandsEnd` that is safety |
| `AutoindexService_proofs` | `ServiceTypeCorrect`, `NoReadDangles` | the two invariants of `crud_single`; the second under `MaxForeign = 0` |
| | `CommandsImplementFileStore`, `OneCommandImplementsFileStore` | the refinement of `crud_single`, reads included, for commands that do not overlap and for a single one, under `MaxForeign = 0` |
| | `RootListingsHaveEntries` | what `read_unknown_directory` refutes holds of the root, unless others push empty artifacts |
| `TokenBroker_proofs` | `TypeCorrect`, `CredentialsAreKeptApart`, `CachedTokensAreProven`, `CacheStaysBounded`, `StaleTokensAreReplaced`, `OverdueTokensAreBounded`, `RealmsAreHome` | six invariants of `token_broker`; whatever the fields of a 401, the realm taken from them is the origin and a path |
| `DistributionGateway_proofs` | `GatewayTypeCorrect`, `AnswersTold`, `LocationsUsable`, `ForwardedAreBounded` | the four invariants of `gateway` |
| | `ManifestLocationDecides`, `PublicationsAreAcknowledged` | what `gateway_manifest_location` refutes fails exactly for acceptances with a Location, and holds when the registry sends none |
| `ServerLifecycle_proofs` | `LifecycleTypeCorrect`, `ExitIsQuiet` | types and quiet exit of the life cycle by itself |
| `StreamingServer_proofs` | `StreamingTypeCorrect`, `StreamingExitIsQuiet`, `CompleteAnswers`, `NoOrphans` | the four invariants of `lifecycle` |
| | `FetchesImplementAtomicFetch`, `StreamingImplementsLifecycle` | the two refinements, initial states and steps |
| `AutoindexBrowse_proofs` | `BrowseTypes`, `ListingsHaveNoDeadLinks`, `RedirectsLeadToListings`, `CrawlsFindEverything`, `PublicationsLoad` | the five invariants of `browse` |
| `Invocations_proofs` | `InvocationsTypeCorrect`, `SettingsStaySafe`, `ChangesWereAskedFor`, `NothingLeftBehind`, `ChildrenFindTheirOwn`, `NamesRunOut`, `RunsStayApart` | the six invariants and the action property of `invocations` |

The arguments, each an inductive invariant of named parts:

* *CRUD* (`CrudInv`). `StagedIsEffect` alone is not inductive: that `Stage`
  uploads the effect on the whole artifact needs that the download is a
  restriction of the loaded manifest, that nothing is left to fetch, and that
  the operation had passed the existence check on that manifest, however the
  tag moved since (`Loaded`). That the tag stays loadable needs that the child
  works on a tree without collisions (`Childs`), which rests on the lemma that
  an effect of an insertable operation keeps a tree free of them.
* *Commands as a file store* (`FreshInv`). Nothing in the code locks the tag, so
  `OneAtWork` is a condition on how commands are used: a command works until it
  has returned and its child has ended, and no other works meanwhile. Then the
  artifact a command loaded is the one the tag names until its own child moves
  it (`Fresh`), the refusals it decided on are those of that artifact, and a
  delete deletes the manifest it resolved. So each step maps to a call, the one
  instant of the effect, an answer, or a stutter: the effect is the child's
  `PutManifest` or `DeleteManifest`, whatever becomes of the command then. The
  lemmas are one per group of steps of `CliStep`, `OrasStep` and `Failure`. With
  one member of `Clis` a command starts when the last one and its child have
  ended, and `OneCommandImplementsFileStore` needs no condition on the behaviour;
  one that is started beside a surviving child is another member, and overlaps.
  Commands that overlap do lose updates: `crud_races`. A read (`Held`, below) maps
  to its instant when the manifest arrives: what the index said of the path is a
  truth of the tree of that instant, and the blob, which is still there, is that
  truth told later.
* *Commands as a store of snapshots*. Here `CrudInv` is enough, and no condition
  is needed: what a command holds was checked when it was loaded (`Loaded`), what
  its child works on is the whole effect on it and could be inserted (`Childs`),
  and a child that deletes has an empty effect. The lemmas follow the phase of a
  command (`PhaseOf`): what a step does to `pc` and `oras` decides which abstract
  step it is, and downloads, uploads and `Resolve` are stutters.
* *The limit* (`LimitInv`). Only `Stage` starts an upload, after `OverLimit` has
  been asked of the very tree that is uploaded.
* *Progress* (`NearerItsEnd`). A command is at one of five stages, a function of
  `pc` and `oras`; at two of them something is left, files to download or contents
  to upload. Every step of it lowers the stage or what is left, and nobody else
  raises either, but for another client that removes a blob. TLC adds the
  fairness (`CommandsEnd`).
* *Broker*. `Typed` says which phase holds which header. `Proven` adds that a
  request about to store holds an accepted token. `Timed` bounds the time
  between issue and insertion by three timeouts, one per wait: the age of a fresh
  token is at most what its phase has waited for, and grows by one timeout from
  phase to phase. No relation of timeout and skew is assumed; with the default
  configuration (60 s and 30 s) the bound is 150 s past the expiry. `CacheBounded`
  rests on the lemma that an insertion into a full cache removes a member.
  `Replaced` uses that an invalid token never becomes valid again. `RealmsAreHome`
  needs nothing of the grammar but that a list of parameters says each thing
  once: the realm that was checked is then the realm that is taken.
* *Gateway* (`IInv`). `AnswersAreTrue` is about answers; the invariant needs
  `Waiting`: only an admitted request is under way, one not yet served had no
  effect, and a reply at hand tells its effect. `OutcomesAreGood` shows that
  every outcome of the registry, over any registry state, is one of those.
  `RewrittenLeadsBack` compares the two hand-written query checks
  (`valid_upload_query`, `valid_distribution_query`) for all queries.
  `ForwardedHaveOneLength` rests on what `LengthRefusal` lets pass.
  `ManifestReplies` says of a reply to a manifest that its Location, if it has one,
  is a manifest's, which is never rewritten.
* *Reads* (`Held`). What a reader is told of was named by the tag, so the
  invariant adds that the blobs the tag names are there. With `MaxForeign = 0`
  the commands only add blobs, and put a manifest when its blobs are uploaded.
  Another client that removes blobs can make a read dangle; the run, too, has
  none. That the root is never empty (`RootIsNeverEmpty`) is `CliLeavesReadableTag`
  seen by a reader: the commands delete the tag with its last file.
* *Listener*. A stopped loop has no connection left, and only then does the
  process end (`StoppedIsQuiet`).
* *Streaming*. The verifier and the reader agree as long as a body flows: the
  reader has as much as was hashed and it is right if that is. That gives the
  announced length of a complete answer, and for a command, which polls the
  item behind the last byte, the digest too: `FetchesImplementAtomicFetch`.
  For a client the digest comes too late: `stream_wrong_bytes`.
  The composition adds no step to the life cycle that it did not have.
* *Browse*. A link of a listing is the `Href` of a visible path or of a
  directory above one; a request for it is parsed back to the segments it was
  made of, and only its length or a reserved name can keep it from an answer.
  A redirect is only given for a path some file lies under.
* *Crawl* (`FindInv`). What was visited has handed over its links and its file.
  From where the crawl began the links to the parent lead up to the root, and
  from the root the entries lead down to each file (`OnTheWay`, every prefix of
  its path). Both walks are shown by the least prefix not visited, not by an
  induction rule: it has a visited neighbour that links to it. Nothing lies
  under a file, so no entry hides another.
* *Publication*. `Published` is the directory in the order `TitleLess`, which
  exists and is unique because that order is irreflexive, transitive and total
  (`PrecedesTotal`, `TitlesTotal`, `TitlesTransitive`); a finite directory is
  sorted by taking its first title off (`FirstTitle`, `TitlesSort`). Totality
  is where the spellings matter: without a slash in a segment, two titles that
  differ in a segment differ in its text with the slash behind it.
* *What was asked for* (`Asked`). From the check of its arguments on a process
  keeps the command they parse to, and goes past the check of the artifact only
  if that is no dry run; `ParsedChange` reads from the parser that such a
  command has no `--dry-run` among its options and a delete its `--yes`.
* *Processes* (`IInv`). Two processes have different runs and a directory
  carries the run that made it, so no two work in one directory (`Placed`,
  `RunsDiffer`); what is left is in nobody's hands (`Orphaned`); every
  directory is left, in use, or a whole layout (`Explained`); a name found taken
  under one's own id was left there (`NamesTaken`). `OneSteps` says what remains
  to be shown of a step of one process. Settings are a second, small invariant:
  what a process goes on with is `FromEnv` of what it was given.

Only model-checked:

* liveness (`CommandsEnd`, `RequestsEnd`, `RequestsAnswered`,
  `ShutdownCompletes`, `CommandsEndOrWaitForOras`, the liveness of
  `FetchesAreAtomic`): out of the prover's reach;
* `ChallengesAreUnderstood`: what a recursive grammar computes is an induction
  over the text.

The assumptions on constants, and what in the code they stand for:

* `SegmentAssumption`: segments are what is left of a text split at its
  slashes, so none holds one, and two with the same bytes are the same.
* `BrowseAssumption`: a source directory is finite, and a name in it is a
  file's or a directory's, not both, as on any file system; a title is not empty
  (`RelativePath::parse`).
* `InvocationsAssumption`: arguments are a sequence; the directories of
  `TemporaryDirectory::new` are not destinations; a destination given is one.
* `MaxForeign = 0` and `OneAtWork` are hypotheses of the theorems that name
  them: nobody but the commands writes the repository, one at a time.
* `ManifestForms = {}` and `SomeFiles` (nobody else publishes an
  artifact without files), with `<<>> \notin Files` (a file has a name), are
  hypotheses of the theorems that say what a finding of section 6 hangs on.

Two corrections of the models came out of these proofs. Chains of conditions
were written with `CASE`, whose arms overlapped where the code's `if` and
`match` take the first that fits: TLA+ leaves open which arm such a `CASE`
takes, and TLC happens to take the first. They are `IF` and `ELSE IF` now. And
`ChangesAreAskedFor` looked at all arguments where the code looks at what
follows the operands: `autoindex create source --dry-run` takes `--dry-run` for
the path, as the usage says it must, so the property speaks of `Options`. The
order of titles used to compare their texts; it now compares segment by segment,
and `TextOrder` in `MCBrowse` checks it against the order of the texts for all
short paths.

## 6. Findings

With a run that shows each:

1. *Equal bytes* (`crud_same_bytes`). The publisher counts distinct contents
   towards 64 MiB, the loader counts files. Legal creates lead to an artifact
   every later command refuses, a delete included.
2. *Wrong bytes* (`stream_wrong_bytes`). The digest check comes after the last
   byte; a client that stops at `Content-Length` has a complete 200.
3. *Manifest Location* (`gateway_manifest_location`). Any Location but an
   upload's or a blob's turns an accepted write into a 502.
4. *Unknown directories* (`read_unknown_directory`). `/x/` is an empty listing
   where `/x` is a 404.
5. *Races* (`crud_races`). A command replaces an artifact it never checked,
   hidden content and a fresh create of the same path included.

Met while modelling, without a run:

6. One failing accept ends the listener and every connection, and `serve` goes
   on waiting for Ctrl-C.
7. An IPv6 upstream can never be configured: its host may not be listed.
8. A variable that is not Unicode ends the program with a panic and 101.
9. `autoindex-publish` reports failure with the layout in place when its output
   is closed.
10. A manifest above 4 MiB can be published and never loaded again.
11. Divergences of documentation and code: a token may outlive its expiry in
    the cache, since three waits of up to a request timeout each lie between issue
    and insertion and the skew is 30 s (`OverdueIsBounded` says by how much),
    readiness survives
    the signal, a visible layer without a title makes the artifact unreadable
    instead of being ignored, files named like the gateway's own paths are listed
    and never served, a method error under `/v2/` allows `GET, HEAD`, and of two
    Bearer challenges in one field only the first is looked at.

## 7. Order of the work, and what is left

`FileTree`, `FileStore`, `AutoindexCrud`, `AutoindexService`, `TokenBroker`,
`DistributionGateway` and `ServerLifecycle` came first, with the proofs of
their safety invariants; then streaming (`BlobStream`, `StreamingServer`,
`AtomicFetch`), admission, browsing, configuration and processes, each with
its proofs; then the proof of `NoDanglingRead` and the grammar of challenges; then the
refinement of `FileStore`, the crawl, the order of titles and the options as
theorems; last the reads as a part of `FileStore`, `SnapshotStore` and its
refinement, progress, and for the findings of section 6 that have a run, all
but the wrong bytes, the theorem that says what each takes.

Worth adding:

1. Reads through the broker: the two requests of `AutoindexService` each with
   the outcomes of `TokenBroker`.
2. An abstract registry behind the gateway with at most one effect per request,
   and `DistributionGateway` shown to implement it.

## 8. Not modelled

* The legacy route map and PyPI adapter: no binary serves it.
* JSON, HTML and header texts, conditional requests, the wording of the help
  and of errors: layout.
* `connect_timeout`, `log_level` and the enabled frontends: they are read,
  checked (in `Configuration`) and used by nothing.
* Numbers that are written and parsed again: a setting or a `Content-Length` is
  a number, or no number.
* A `Server` dropped without `shutdown`, and a second signal: the binary has
  neither.
* Registry, token service and ORAS: external, as what the code can observe of
  them.

Hazards that are listed and that no property covers: a dry run that promises
what is then refused, the wait for ORAS without a timeout, a listener whose end
goes unnoticed, upload ids of more than 512 bytes, manifests above 4 MiB, files
named like the gateway's own paths. Their notes in `PROJECT.json` say why: the
properties near them except or assume the case, or nobody in the system waits
for it.
