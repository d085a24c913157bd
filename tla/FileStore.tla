----------------------------- MODULE FileStore ------------------------------
(***************************************************************************)
(* What the autoindex CRUD commands promise: a store of files in which     *)
(* every operation takes effect at one instant between its call and its    *)
(* answer, or not at all.  "failed" promises nothing: the answer of a      *)
(* registry write may be lost after the write was done.                    *)
(*                                                                         *)
(* A read, too, is answered as of one instant between its request and its  *)
(* response, or with an error that says nothing of the files.              *)
(***************************************************************************)
EXTENDS FileTree

CONSTANTS Callers, Calls, NoCall,
          Readers, Queries, NoQuery,     \* a query is a path and whether a slash ends it
          NoContent

VARIABLES files,      \* the tree of the store
          request,    \* the operation each caller last called
          status,     \* "idle", "pending" or "applied"
          answer,     \* the last answer of each caller
          query,      \* the query each reader last asked
          reading,    \* "idle", "asked", "held" or "told"
          held,       \* the response each reader is about to give
          told        \* the last response of each reader

writeVars == <<request, status, answer>>
readVars  == <<query, reading, held, told>>
storeVars == <<files, writeVars, readVars>>

Answers == {"none", "ok", "would", "exists", "missing", "failed"}

Response(kind, content, names) == [kind |-> kind, content |-> content, names |-> names]

Plain(kind) == Response(kind, NoContent, {})

StoreInit ==
    /\ files \in Trees
    /\ request = [c \in Callers |-> NoCall]
    /\ status = [c \in Callers |-> "idle"]
    /\ answer = [c \in Callers |-> "none"]
    /\ query = [r \in Readers |-> NoQuery]
    /\ reading = [r \in Readers |-> "idle"]
    /\ held = [r \in Readers |-> Plain("none")]
    /\ told = [r \in Readers |-> Plain("none")]

(***************************************************************************)
(* Operations.                                                             *)
(***************************************************************************)

Call(c, o) ==
    /\ status[c] = "idle"
    /\ request' = [request EXCEPT ![c] = o]
    /\ status' = [status EXCEPT ![c] = "pending"]
    /\ answer' = [answer EXCEPT ![c] = "none"]
    /\ UNCHANGED <<files, readVars>>

Apply(c) ==
    LET o == request[c] IN
    /\ status[c] = "pending"
    /\ ~o.dry
    /\ Refusal(o, files) = "none"
    /\ o.kind = "create" => Insertable(o.path, files)
    /\ files' = Effect(o, files)
    /\ status' = [status EXCEPT ![c] = "applied"]
    /\ UNCHANGED <<request, answer, readVars>>

\* What may be answered: success only after the effect, a refusal or a preview
\* only without it, and only when the files are as it says.
Answerable(c, a) ==
    \/ a = "ok"     /\ status[c] = "applied"
    \/ a = "failed" /\ status[c] \in {"pending", "applied"}
    \/ /\ a \in {"exists", "missing"}
       /\ status[c] = "pending"
       /\ Refusal(request[c], files) = a
    \/ /\ a = "would"
       /\ status[c] = "pending"
       /\ request[c].dry
       /\ Refusal(request[c], files) = "none"

Answer(c, a) ==
    /\ Answerable(c, a)
    /\ status' = [status EXCEPT ![c] = "idle"]
    /\ answer' = [answer EXCEPT ![c] = a]
    /\ UNCHANGED <<files, request, readVars>>

\* The caller dies and never learns what became of its operation.
Abandon(c) ==
    /\ status[c] # "idle"
    /\ status' = [status EXCEPT ![c] = "idle"]
    /\ UNCHANGED <<files, request, answer, readVars>>

(***************************************************************************)
(* Reads.                                                                  *)
(***************************************************************************)

\* What may truly be said of query q when the files are t.  A store without files
\* may also be told missing as a whole.
Truths(q, t) ==
    IF ~CollisionFree(t) THEN {Plain("malformed")}
    ELSE IF q.slash
         THEN {Response("listing", NoContent, Children(q.path, t))}
                \cup IF DOMAIN t = {} THEN {Plain("missing")} ELSE {}
    ELSE IF q.path \in DOMAIN t THEN {Response("file", t[q.path], {})}
    ELSE {Plain(IF HasDirectory(q.path, t) THEN "redirect" ELSE "missing")}

Ask(r, q) ==
    /\ reading[r] \in {"idle", "told"}
    /\ query' = [query EXCEPT ![r] = q]
    /\ reading' = [reading EXCEPT ![r] = "asked"]
    /\ told' = [told EXCEPT ![r] = Plain("none")]
    /\ UNCHANGED <<files, writeVars, held>>

\* The instant of the read: its response is known, and given later.
Look(r) ==
    /\ reading[r] = "asked"
    /\ reading' = [reading EXCEPT ![r] = "held"]
    /\ \E a \in Truths(query[r], files) : held' = [held EXCEPT ![r] = a]
    /\ UNCHANGED <<files, writeVars, query, told>>

Tell(r, a) ==
    /\ reading' = [reading EXCEPT ![r] = "told"]
    /\ told' = [told EXCEPT ![r] = a]
    /\ held' = [held EXCEPT ![r] = Plain("none")]
    /\ UNCHANGED <<files, writeVars, query>>

Respond(r) ==
    \/ reading[r] = "asked" /\ \E a \in Truths(query[r], files) : Tell(r, a)
    \/ reading[r] = "held" /\ Tell(r, held[r])
    \/ reading[r] \in {"asked", "held"} /\ Tell(r, Plain("error"))

StoreNext ==
    \/ \E c \in Callers :
        \/ \E o \in Calls : Call(c, o)
        \/ Apply(c)
        \/ \E a \in Answers : Answer(c, a)
        \/ Abandon(c)
    \/ \E r \in Readers : (\E q \in Queries : Ask(r, q)) \/ Look(r) \/ Respond(r)

StoreSpec == StoreInit /\ [][StoreNext]_storeVars
=============================================================================
