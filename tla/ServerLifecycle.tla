--------------------------- MODULE ServerLifecycle ---------------------------
(***************************************************************************)
(* The life of one `serve` process: the accept loop and its connections    *)
(* (server.rs), and the main task that starts them, waits for Ctrl-C and   *)
(* shuts them down (main.rs).  What a package request does is the matter   *)
(* of AutoindexService, DistributionGateway and TokenBroker: here it only  *)
(* keeps its connection busy, for as long as it likes.                     *)
(***************************************************************************)
EXTENDS Integers

CONSTANTS Conns          \* connections that may be open at once

VARIABLES main,      \* the main task: "serving", "stopping" or "exited"
          shutdown,  \* the value in the watch channel
          loop,      \* the accept loop: "accepting", "closing" or "stopped"
          listening, \* the socket is open
          conn,      \* per connection: "none", "idle" or "busy"
          told       \* per connection: what it last answered

vars == <<main, shutdown, loop, listening, conn, told>>

Answers == {"none", "ready", "answer", "cut"}

TypeOK ==
    /\ main \in {"serving", "stopping", "exited"}
    /\ shutdown \in BOOLEAN
    /\ loop \in {"accepting", "closing", "stopped"}
    /\ listening \in BOOLEAN
    /\ conn \in [Conns -> {"none", "idle", "busy"}]
    /\ told \in [Conns -> Answers]

\* Server::start has bound the socket and spawned the loop.
Init ==
    /\ main = "serving"
    /\ shutdown = FALSE
    /\ loop = "accepting"
    /\ listening = TRUE
    /\ conn = [c \in Conns |-> "none"]
    /\ told = [c \in Conns |-> "none"]

(***************************************************************************)
(* The main task.                                                          *)
(***************************************************************************)

\* Ctrl-C arrives; shutdown sends TRUE and begins to wait for the loop.
Signal ==
    /\ main = "serving"
    /\ main' = "stopping"
    /\ shutdown' = TRUE
    /\ UNCHANGED <<loop, listening, conn, told>>

Exit ==
    /\ main = "stopping" /\ loop = "stopped"
    /\ main' = "exited"
    /\ UNCHANGED <<shutdown, loop, listening, conn, told>>

(***************************************************************************)
(* The accept loop.                                                        *)
(***************************************************************************)

Accept(c) ==
    /\ loop = "accepting" /\ conn[c] = "none"
    /\ conn' = [conn EXCEPT ![c] = "idle"]
    /\ told' = [told EXCEPT ![c] = "none"]
    /\ UNCHANGED <<main, shutdown, loop, listening>>

\* Any error of accept ends the loop, as a shutdown does.
AcceptFails ==
    /\ loop = "accepting"
    /\ loop' = "closing"
    /\ UNCHANGED <<main, shutdown, listening, conn, told>>

SeeShutdown ==
    /\ loop = "accepting" /\ shutdown
    /\ loop' = "closing"
    /\ UNCHANGED <<main, shutdown, listening, conn, told>>

\* Seeded fault: the connections are waited for, not aborted.
CloseWaiting ==
    /\ loop = "closing" /\ \A c \in Conns : conn[c] = "none"
    /\ loop' = "stopped"
    /\ listening' = FALSE
    /\ UNCHANGED <<main, shutdown, conn, told>>

\* Seeded fault: the connections are left to themselves.
CloseDetaching ==
    /\ loop = "closing"
    /\ loop' = "stopped"
    /\ listening' = FALSE
    /\ UNCHANGED <<main, shutdown, conn, told>>

\* connections.shutdown aborts every connection, then the listener is dropped.
Close ==
    /\ loop = "closing"
    /\ loop' = "stopped"
    /\ listening' = FALSE
    /\ told' = [c \in Conns |-> IF conn[c] = "busy" THEN "cut" ELSE told[c]]
    /\ conn' = [c \in Conns |-> "none"]
    /\ UNCHANGED <<main, shutdown>>

(***************************************************************************)
(* Connections.                                                            *)
(***************************************************************************)

\* GET /readyz (and /healthz): the answer is a constant.
Ready(c) ==
    /\ conn[c] = "idle"
    /\ told' = [told EXCEPT ![c] = "ready"]
    /\ UNCHANGED <<main, shutdown, loop, listening, conn>>

Begin(c) ==
    /\ conn[c] = "idle"
    /\ conn' = [conn EXCEPT ![c] = "busy"]
    /\ told' = [told EXCEPT ![c] = "none"]
    /\ UNCHANGED <<main, shutdown, loop, listening>>

\* Seeded fault: a connection forgets its place after an answer.
FinishUncounted(c) ==
    /\ conn[c] = "busy"
    /\ conn' = [conn EXCEPT ![c] = "finished"]
    /\ told' = [told EXCEPT ![c] = "answer"]
    /\ UNCHANGED <<main, shutdown, loop, listening>>

\* The handler answers and the connection is kept alive.
Finish(c) ==
    /\ conn[c] = "busy"
    /\ conn' = [conn EXCEPT ![c] = "idle"]
    /\ told' = [told EXCEPT ![c] = "answer"]
    /\ UNCHANGED <<main, shutdown, loop, listening>>

\* The client goes, or its connection breaks.
Hangup(c) ==
    /\ conn[c] # "none"
    /\ conn' = [conn EXCEPT ![c] = "none"]
    /\ UNCHANGED <<main, shutdown, loop, listening, told>>

LoopNext == SeeShutdown \/ Close

Next == \/ Signal \/ Exit
        \/ AcceptFails \/ LoopNext
        \/ \E c \in Conns : Accept(c) \/ Ready(c) \/ Begin(c) \/ Finish(c) \/ Hangup(c)

\* The runtime polls the loop and the main task.  select! takes its ready
\* branches in random order, so a steady stream of connections does not keep
\* it from seeing the shutdown.  Nothing is assumed of handlers and clients.
Fairness == WF_vars(LoopNext) /\ WF_vars(Exit)

Spec     == Init /\ [][Next]_vars
FairSpec == Spec /\ Fairness

(***************************************************************************)
(* Properties.                                                             *)
(***************************************************************************)

\* When shutdown returns, and before the process ends, no request is being
\* worked on and nobody can connect ("Existing connection tasks are cancelled").
QuietWhenExited ==
    main = "exited" => ~listening /\ \A c \in Conns : conn[c] = "none"

\* Ctrl-C ends the process, whatever handlers and clients are doing.
ShutdownCompletes == main = "stopping" ~> main = "exited"
=============================================================================
