---------------------------- MODULE StreamingServer ----------------------------
(***************************************************************************)
(* The gateway's connections (ServerLifecycle) with the blobs they stream  *)
(* (BlobStream), and the commands that fetch blobs from the same registry  *)
(* at the same time.  A connection is busy while its body flows; closing   *)
(* the server drops the bodies of all connections.                         *)
(***************************************************************************)
EXTENDS ServerLifecycle

CONSTANTS Fetchers,      \* commands that fetch blobs
          MaxSize        \* the largest blob

ASSUME StreamAssumption ==
    /\ MaxSize \in Nat \ {0}
    /\ Conns \cap Fetchers = {}

VARIABLES phase, offer, verifier, taken

INSTANCE BlobStream

bodyVars   == <<phase, offer, verifier, taken>>
serverVars == <<vars, bodyVars>>

ServerTypeOK == TypeOK /\ StreamTypeOK

ServerInit == Init /\ StreamInit

\* The lifecycle's steps that no body takes part in.
Control ==
    /\ \/ Signal \/ Exit \/ AcceptFails \/ SeeShutdown
       \/ \E c \in Conns : Ready(c)
    /\ UNCHANGED bodyVars

AcceptConn(c) == Accept(c) /\ Forget(c)

BeginRequest(c) == Begin(c) /\ Forget(c)

\* The handler answers with a blob (representation, handle_distribution).
ServeBlob(c, size, origin) ==
    /\ conn[c] = "busy" /\ phase[c] = "none"
    /\ Open(c, size, origin)
    /\ UNCHANGED vars

\* Any other answer, a HEAD and a 304 have a fixed body.
FinishResponse(c) ==
    /\ phase[c] \in {"none", "whole"}
    /\ Finish(c)
    /\ UNCHANGED bodyVars

\* hyper closes the connection of a body that ended with an error; a client that
\* leaves takes its body with it.
HangupConn(c) == Hangup(c) /\ Drop({c})

CloseServer == Close /\ Drop(Conns)

FlowConn(c) == conn[c] = "busy" /\ Flow(c) /\ UNCHANGED vars

\* A command asks for a blob and collects it.
AskBlob(f, size) ==
    /\ phase[f] # "flowing"
    /\ Open(f, size, "descriptor")
    /\ UNCHANGED vars

FlowFetch(f) == Flow(f) /\ UNCHANGED vars

GiveUpFetch(f) == CollectTimeout(f) /\ UNCHANGED vars

ServerNext ==
    \/ Control \/ CloseServer
    \/ \E c \in Conns : \/ AcceptConn(c) \/ BeginRequest(c) \/ FinishResponse(c)
                        \/ HangupConn(c) \/ FlowConn(c)
                        \/ \E n \in Sizes, o \in Origins : ServeBlob(c, n, o)
    \/ \E f \in Fetchers : \/ \E n \in Sizes : AskBlob(f, n)
                           \/ FlowFetch(f) \/ GiveUpFetch(f)

\* The loop and the main task are polled (ServerLifecycle), and timers fire.
\* Registry and clients may stall for ever.
ServerFairness ==
    /\ WF_serverVars(SeeShutdown /\ UNCHANGED bodyVars)
    /\ WF_serverVars(CloseServer)
    /\ WF_serverVars(Exit /\ UNCHANGED bodyVars)
    /\ \A f \in Fetchers : WF_serverVars(GiveUpFetch(f))

ServerSpec     == ServerInit /\ [][ServerNext]_serverVars
FairServerSpec == ServerSpec /\ ServerFairness

(***************************************************************************)
(* Properties.                                                             *)
(***************************************************************************)

\* Whatever happens to the registry, to the client and to the server meanwhile,
\* a client that was given a complete response has exactly as many bytes as were
\* announced: a body that was cut, broke or grew is never passed for complete.
AnswersAreWhole ==
    \A c \in Conns :
       told[c] = "answer" /\ phase[c] # "none" =>
          phase[c] = "whole" /\ taken[c].size = offer[c].size

\* A download goes on only while its client's connection is there to take it:
\* neither a client that leaves nor the end of the server orphans one.
NoOrphanedDownload ==
    \A c \in Conns : phase[c] = "flowing" => conn[c] = "busy"

\* A fetch is over when the collected body is the described content, whole.
Outcome(f) ==
    CASE phase[f] = "none"    -> "idle"
      [] phase[f] = "flowing" -> "pending"
      [] phase[f] = "broken"  -> "failed"
      [] OTHER -> IF taken[f] = [size |-> offer[f].size, right |-> TRUE]
                  THEN "whole" ELSE "corrupt"

FetchOutcome == [f \in Fetchers |-> Outcome(f)]

Fetch == INSTANCE AtomicFetch WITH outcome <- FetchOutcome

\* A command is never handed part of a blob or a changed one, and never waits for
\* ever for a registry that stalls (materialize_snapshot, verified_body).
FetchesAreAtomic == Fetch!FetchSpec

(***************************************************************************)
(* A claim of the documentation.                                           *)
(***************************************************************************)

\* The gateway verifies "streamed artifact bytes" against the digest (README.md):
\* a client whose response is complete has the described content.
AnswersAreVerified ==
    \A c \in Conns :
       told[c] = "answer" /\ phase[c] = "whole" => taken[c].right
=============================================================================
