------------------------ MODULE ServerLifecycle_proofs ------------------------
(***************************************************************************)
(* Proofs about the life of the server, for any number of connections.     *)
(***************************************************************************)
EXTENDS ServerLifecycle, TLAPS

\* A stopped loop has left nothing behind, and only then does the process end.
StoppedIsQuiet ==
    /\ loop = "stopped" => ~listening /\ \A c \in Conns : conn[c] = "none"
    /\ main = "exited" => loop = "stopped"

IInv == TypeOK /\ StoppedIsQuiet

\* A connection is only accepted while the loop runs, and only an accepted one
\* answers anything.
LEMMA ConnectionKeeps ==
    ASSUME IInv, NEW c \in Conns,
           Accept(c) \/ Ready(c) \/ Begin(c) \/ Finish(c) \/ Hangup(c)
    PROVE  IInv'
<1> USE DEF IInv, TypeOK, StoppedIsQuiet, Answers
<1>1. CASE Accept(c)
  BY <1>1 DEF Accept
<1>2. CASE Ready(c)
  BY <1>2 DEF Ready
<1>3. CASE Begin(c)
  BY <1>3 DEF Begin
<1>4. CASE Finish(c)
  BY <1>4 DEF Finish
<1>5. CASE Hangup(c)
  BY <1>5 DEF Hangup
<1> QED
  BY <1>1, <1>2, <1>3, <1>4, <1>5

LEMMA NextKeeps == IInv /\ [Next]_vars => IInv'
<1> SUFFICES ASSUME IInv, [Next]_vars PROVE IInv'
  OBVIOUS
<1> USE DEF IInv, TypeOK, StoppedIsQuiet, Answers
<1>1. CASE Signal
  BY <1>1 DEF Signal
<1>2. CASE Exit
  BY <1>2 DEF Exit
<1>3. CASE AcceptFails
  BY <1>3 DEF AcceptFails
<1>4. CASE SeeShutdown
  BY <1>4 DEF SeeShutdown
<1>5. CASE Close
  BY <1>5 DEF Close
<1>6. CASE \E c \in Conns : Accept(c) \/ Ready(c) \/ Begin(c) \/ Finish(c) \/ Hangup(c)
  BY <1>6, ConnectionKeeps
<1>7. CASE UNCHANGED vars
  BY <1>7 DEF vars
<1> QED
  BY <1>1, <1>2, <1>3, <1>4, <1>5, <1>6, <1>7 DEF Next, LoopNext

LEMMA Inductive == Spec => []IInv
<1>1. Init => IInv
  BY DEF Init, IInv, TypeOK, StoppedIsQuiet, Answers
<1> QED
  BY <1>1, NextKeeps, PTL DEF Spec

\* The state of the server keeps its type.
THEOREM LifecycleTypeCorrect == Spec => []TypeOK
  BY Inductive, PTL DEF IInv

\* When shutdown has returned nothing is being worked on and nobody can connect,
\* however many connections were open or being accepted when Ctrl-C arrived.
THEOREM ExitIsQuiet == Spec => []QuietWhenExited
<1>1. IInv => QuietWhenExited
  BY DEF IInv, StoppedIsQuiet, QuietWhenExited
<1> QED
  BY <1>1, Inductive, PTL
=============================================================================
