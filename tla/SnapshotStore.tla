---------------------------- MODULE SnapshotStore ----------------------------
(***************************************************************************)
(* What the autoindex CRUD commands promise however they overlap, and      *)
(* whatever other clients of the repository do: every operation looks at   *)
(* the artifact once, is checked against what it saw, and later replaces   *)
(* whatever is there by its whole effect on what it saw, or does nothing.  *)
(* Between the look and the replacement others may have written: their     *)
(* artifact is lost, but never mixed with another.                         *)
(***************************************************************************)
EXTENDS FileTree

CONSTANTS Callers, Calls, NoCall,
          Nothing,      \* no artifact
          First,        \* what there may be at first
          Others        \* what anybody else may put in its place

VARIABLES current,      \* the artifact, or Nothing
          request,      \* the operation each caller last called
          seen,         \* the artifact each caller looked at
          status,       \* "idle", "called", "seen" or "applied"
          answer        \* the last answer of each caller

snapshotVars == <<current, request, seen, status, answer>>

Answers == {"none", "ok", "would", "exists", "missing", "failed"}

Contained(a) == IF a = Nothing THEN EmptyTree ELSE a.files

\* What a command is ready to modify.
Usable(a) == a # Nothing => a.native /\ DOMAIN a.files # {} /\ CollisionFree(a.files)

SnapshotInit ==
    /\ current \in First
    /\ request = [c \in Callers |-> NoCall]
    /\ seen = [c \in Callers |-> Nothing]
    /\ status = [c \in Callers |-> "idle"]
    /\ answer = [c \in Callers |-> "none"]

Call(c, o) ==
    /\ status[c] = "idle"
    /\ request' = [request EXCEPT ![c] = o]
    /\ status' = [status EXCEPT ![c] = "called"]
    /\ answer' = [answer EXCEPT ![c] = "none"]
    /\ UNCHANGED <<current, seen>>

Look(c) ==
    /\ status[c] = "called"
    /\ ~request[c].dry
    /\ Usable(current) /\ Refusal(request[c], Contained(current)) = "none"
    /\ seen' = [seen EXCEPT ![c] = current]
    /\ status' = [status EXCEPT ![c] = "seen"]
    /\ UNCHANGED <<current, request, answer>>

\* The effect on what was seen, as a whole.
Due(c) == Effect(request[c], Contained(seen[c]))

Applied(c) ==
    /\ status[c] = "seen"
    /\ status' = [status EXCEPT ![c] = "applied"]
    /\ UNCHANGED <<request, seen, answer>>

Replace(c) ==
    /\ Applied(c)
    /\ DOMAIN Due(c) # {}
    /\ request[c].kind = "create" => Insertable(request[c].path, Contained(seen[c]))
    /\ current' = [native |-> TRUE, files |-> Due(c)]

\* When no file is due nothing is left, unless another artifact has just come.
Remove(c) ==
    /\ Applied(c)
    /\ DOMAIN Due(c) = {}
    /\ current' \in {Nothing, current}

\* What may be answered: success only after the effect; a refusal or a preview
\* only before any, and only when the artifact is as it says.
Answerable(c, a) ==
    \/ a = "ok"     /\ status[c] = "applied"
    \/ a = "failed" /\ status[c] # "idle"
    \/ /\ status[c] = "called"
       /\ Usable(current)
       /\ \/ a \in {"exists", "missing"} /\ Refusal(request[c], Contained(current)) = a
          \/ /\ a = "would" /\ request[c].dry
             /\ Refusal(request[c], Contained(current)) = "none"

Leave(c) ==
    /\ status' = [status EXCEPT ![c] = "idle"]
    /\ seen' = [seen EXCEPT ![c] = Nothing]
    /\ UNCHANGED <<current, request>>

Answer(c, a) ==
    /\ Answerable(c, a)
    /\ answer' = [answer EXCEPT ![c] = a]
    /\ Leave(c)

\* The caller dies and never learns what became of its operation.
Abandon(c) ==
    /\ status[c] # "idle"
    /\ Leave(c)
    /\ UNCHANGED answer

Overwrite(a) == current' = a /\ UNCHANGED <<request, seen, status, answer>>

SnapshotNext ==
    \/ \E c \in Callers :
          \/ \E o \in Calls : Call(c, o)
          \/ Look(c) \/ Replace(c) \/ Remove(c)
          \/ \E a \in Answers : Answer(c, a)
          \/ Abandon(c)
    \/ \E a \in Others : Overwrite(a)

SnapshotSpec == SnapshotInit /\ [][SnapshotNext]_snapshotVars
=============================================================================
