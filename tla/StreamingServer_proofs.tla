------------------------ MODULE StreamingServer_proofs ------------------------
(***************************************************************************)
(* Proofs about streamed blobs, for any number of connections and commands *)
(* and blobs of any size.  What is proved of the life of the server alone  *)
(* (ServerLifecycle_proofs) carries over, since streaming implements it.   *)
(***************************************************************************)
EXTENDS StreamingServer, ServerLifecycle_proofs

(***************************************************************************)
(* Streaming implements the life of the server.                            *)
(***************************************************************************)

LEMMA StepIsLifecycleStep == [ServerNext]_serverVars => [Next]_vars
<1> SUFFICES ASSUME [ServerNext]_serverVars PROVE [Next]_vars
  OBVIOUS
<1>1. CASE Control
  BY <1>1 DEF Control, Next, LoopNext
<1>2. CASE CloseServer
  BY <1>2 DEF CloseServer, Next, LoopNext
<1>3. ASSUME NEW c \in Conns,
             AcceptConn(c) \/ BeginRequest(c) \/ FinishResponse(c) \/ HangupConn(c)
      PROVE  Next
  BY <1>3 DEF AcceptConn, BeginRequest, FinishResponse, HangupConn, Next
<1>4. ASSUME NEW c \in Conns,
             FlowConn(c) \/ \E n \in Sizes, o \in Origins : ServeBlob(c, n, o)
      PROVE  UNCHANGED vars
  BY <1>4 DEF FlowConn, ServeBlob
<1>5. ASSUME NEW f \in Fetchers,
             (\E n \in Sizes : AskBlob(f, n)) \/ FlowFetch(f) \/ GiveUpFetch(f)
      PROVE  UNCHANGED vars
  BY <1>5 DEF AskBlob, FlowFetch, GiveUpFetch
<1>6. CASE UNCHANGED serverVars
  BY <1>6 DEF serverVars
<1> QED
  BY <1>1, <1>2, <1>3, <1>4, <1>5, <1>6 DEF ServerNext

\* Everything proved of ServerLifecycle holds of the server that streams.
THEOREM StreamingImplementsLifecycle == ServerSpec => Spec
<1>1. ServerInit => Init
  BY DEF ServerInit
<1> QED
  BY <1>1, StepIsLifecycleStep, PTL DEF ServerSpec, Spec

(***************************************************************************)
(* The bodies.                                                             *)
(***************************************************************************)

\* What a reader has taken of a flowing body is what the verifier has hashed.
FlowingIsHashed ==
    \A s \in Streams : phase[s] = "flowing" =>
       verifier[s] = taken[s] /\ taken[s].size <= offer[s].size

\* Who is done with a body has all of it, and a command has checked it.
WholeIsComplete ==
    \A s \in Streams : phase[s] = "whole" =>
       taken[s].size = offer[s].size /\ (s \in Fetchers => taken[s].right)

BodyInv == StreamTypeOK /\ FlowingIsHashed /\ WholeIsComplete

LEMMA OpenKeeps ==
    ASSUME BodyInv, NEW s \in Streams, NEW n \in Sizes, NEW o \in Origins, Open(s, n, o)
    PROVE  BodyInv'
BY StreamAssumption DEF BodyInv, StreamTypeOK, FlowingIsHashed,
   WholeIsComplete, Open, Nothing, Sizes, Origins, Streams

LEMMA ForgetKeeps ==
    ASSUME BodyInv, NEW s \in Streams, Forget(s)
    PROVE  BodyInv'
BY StreamAssumption DEF BodyInv, StreamTypeOK, FlowingIsHashed,
   WholeIsComplete, Forget, Nothing, NoOffer, Sizes, Origins

LEMMA EndedKeeps ==
    ASSUME BodyInv, NEW s \in Streams, NEW p \in {"whole", "broken"},
           Ended(s, p), UNCHANGED taken,
           p = "whole" => taken[s].size = offer[s].size /\ taken[s].right
    PROVE  BodyInv'
BY StreamAssumption DEF BodyInv, StreamTypeOK, FlowingIsHashed,
   WholeIsComplete, Ended, Nothing, Sizes, Origins

LEMMA DropKeeps ==
    ASSUME BodyInv, NEW S, Drop(S)
    PROVE  BodyInv'
<1> USE StreamAssumption DEF BodyInv, StreamTypeOK, Sizes, Origins
<1>1. StreamTypeOK'
  BY DEF Drop, Nothing
<1>2. FlowingIsHashed'
  BY DEF FlowingIsHashed, Drop, Nothing
<1>3. WholeIsComplete'
  BY DEF WholeIsComplete, Drop
<1> QED
  BY <1>1, <1>2, <1>3

LEMMA ForwardKeeps ==
    ASSUME BodyInv, NEW s \in Streams, NEW n \in 1..MaxSize, NEW r \in BOOLEAN,
           Forward(s, n, r)
    PROVE  BodyInv'
<1> USE StreamAssumption DEF BodyInv, StreamTypeOK, Sizes, Origins, Streams
<1>1. /\ phase[s] = "flowing" /\ verifier[s] = taken[s]
      /\ taken[s].size + n \in 0..MaxSize /\ taken[s].size + n <= offer[s].size
      /\ Grown(taken[s], n, r) \in [size : 0..MaxSize, right : BOOLEAN]
  BY DEF Forward, FlowingIsHashed, Grown
<1>2. CASE s \in Conns /\ taken[s].size + n = offer[s].size /\ Ended(s, "whole")
  BY <1>1, <1>2 DEF Forward, Grown, Ended, Nothing, FlowingIsHashed, WholeIsComplete
<1>3. CASE /\ verifier' = [verifier EXCEPT ![s] = Grown(verifier[s], n, r)]
           /\ UNCHANGED <<phase, offer>>
  BY <1>1, <1>3 DEF Forward, Grown, FlowingIsHashed, WholeIsComplete
<1> QED
  BY <1>2, <1>3 DEF Forward

LEMMA FlowKeeps ==
    ASSUME BodyInv, NEW s \in Streams, Flow(s)
    PROVE  BodyInv'
<1>1. ASSUME NEW n \in 1..MaxSize, Exceed(s, n)
      PROVE  BodyInv'
  BY <1>1, EndedKeeps DEF Exceed
<1>2. CASE Break(s)
  BY <1>2, EndedKeeps DEF Break
<1>3. CASE End(s)
  BY <1>3, EndedKeeps DEF End, Verified, BodyInv, FlowingIsHashed
<1> QED
  BY <1>1, <1>2, <1>3, ForwardKeeps DEF Flow

(***************************************************************************)
(* Bodies and connections.                                                 *)
(***************************************************************************)

\* Only a busy connection has a body in progress, and it has not yet answered.
BusyIsUnanswered ==
    \A c \in Conns : /\ phase[c] = "flowing" => conn[c] = "busy"
                     /\ conn[c] = "busy" => told[c] = "none"

\* An answered request had a whole body or none.
AnsweredIsWhole ==
    \A c \in Conns : told[c] = "answer" => phase[c] \in {"none", "whole"}

ConnInv == TypeOK /\ BusyIsUnanswered /\ AnsweredIsWhole

SInv == BodyInv /\ ConnInv

\* The steps in which the body of one connection moves keep the others' state.
LEMMA ConnStepKeeps ==
    ASSUME SInv, NEW c \in Conns,
           \/ AcceptConn(c) \/ BeginRequest(c) \/ FinishResponse(c)
           \/ HangupConn(c) \/ FlowConn(c)
           \/ \E n \in Sizes, o \in Origins : ServeBlob(c, n, o)
    PROVE  SInv'
<1> c \in Streams
  BY DEF Streams
<1> USE DEF SInv, ConnInv, TypeOK, Answers, BusyIsUnanswered, AnsweredIsWhole
<1>1. CASE AcceptConn(c)
  <2>1. BodyInv'
    BY <1>1, ForgetKeeps DEF AcceptConn
  <2>2. ConnInv'
    BY <1>1 DEF AcceptConn, Accept, Forget, BodyInv, StreamTypeOK
  <2> QED
    BY <2>1, <2>2
<1>2. CASE BeginRequest(c)
  <2>1. BodyInv'
    BY <1>2, ForgetKeeps DEF BeginRequest
  <2>2. ConnInv'
    BY <1>2 DEF BeginRequest, Begin, Forget, BodyInv, StreamTypeOK
  <2> QED
    BY <2>1, <2>2
<1>3. CASE FinishResponse(c)
  <2>1. BodyInv'
    BY <1>3 DEF FinishResponse, bodyVars, BodyInv, StreamTypeOK,
                FlowingIsHashed, WholeIsComplete
  <2>2. ConnInv'
    BY <1>3 DEF FinishResponse, Finish, bodyVars
  <2> QED
    BY <2>1, <2>2
<1>4. CASE HangupConn(c)
  <2>1. BodyInv'
    BY <1>4, DropKeeps DEF HangupConn
  <2>2. ConnInv'
    BY <1>4 DEF HangupConn, Hangup, Drop, Streams
  <2> QED
    BY <2>1, <2>2
<1>5. CASE FlowConn(c)
  <2>1. BodyInv'
    BY <1>5, FlowKeeps DEF FlowConn
  <2>2. \A d \in Conns : d # c => phase'[d] = phase[d]
    BY <1>5 DEF FlowConn, Flow, Forward, Exceed, Break, End, Ended, BodyInv, StreamTypeOK,
                Streams
  <2>3. ConnInv'
    BY <1>5, <2>2 DEF FlowConn, Flow, Forward, Exceed, Break, End, vars
  <2> QED
    BY <2>1, <2>3
<1>6. ASSUME NEW n \in Sizes, NEW o \in Origins, ServeBlob(c, n, o)
      PROVE  SInv'
  <2>1. BodyInv'
    BY <1>6, OpenKeeps DEF ServeBlob
  <2>2. ConnInv'
    BY <1>6 DEF ServeBlob, Open, vars, BodyInv, StreamTypeOK
  <2> QED
    BY <2>1, <2>2
<1> QED
  BY <1>1, <1>2, <1>3, <1>4, <1>5, <1>6

\* A command's fetch leaves the connections alone.
LEMMA FetchStepKeeps ==
    ASSUME SInv, NEW f \in Fetchers,
           (\E n \in Sizes : AskBlob(f, n)) \/ FlowFetch(f) \/ GiveUpFetch(f)
    PROVE  SInv'
<1> f \in Streams /\ "descriptor" \in Origins
  BY DEF Streams, Origins
<1>1. BodyInv'
  BY OpenKeeps, FlowKeeps, EndedKeeps
     DEF AskBlob, FlowFetch, GiveUpFetch, CollectTimeout, SInv
<1>2. \A c \in Conns : phase'[c] = phase[c]
  BY StreamAssumption DEF AskBlob, FlowFetch, GiveUpFetch, CollectTimeout, Open, Flow,
     Forward, Exceed, Break, End, Ended, SInv, BodyInv, StreamTypeOK, Streams
<1>3. UNCHANGED vars
  BY DEF AskBlob, FlowFetch, GiveUpFetch
<1>4. ConnInv'
  BY <1>2, <1>3 DEF SInv, ConnInv, TypeOK, BusyIsUnanswered, AnsweredIsWhole, vars
<1> QED
  BY <1>1, <1>4 DEF SInv

LEMMA ServerNextKeeps == SInv /\ [ServerNext]_serverVars => SInv'
<1> SUFFICES ASSUME SInv, [ServerNext]_serverVars PROVE SInv'
  OBVIOUS
<1>0. UNCHANGED bodyVars => BodyInv'
  BY DEF bodyVars, SInv, BodyInv, StreamTypeOK, FlowingIsHashed, WholeIsComplete
<1>1. CASE Control
  <2>1. ConnInv'
    BY <1>1 DEF Control, Signal, Exit, AcceptFails, SeeShutdown, Ready, bodyVars,
       SInv, ConnInv, TypeOK, Answers, BusyIsUnanswered, AnsweredIsWhole
  <2> QED
    BY <1>0, <1>1, <2>1 DEF Control, SInv
<1>2. CASE CloseServer
  <2>1. ConnInv'
    BY <1>2 DEF CloseServer, Close, Drop, SInv, ConnInv, TypeOK, Answers,
       BusyIsUnanswered, AnsweredIsWhole, Streams
  <2> QED
    BY <1>2, <2>1, DropKeeps DEF CloseServer, SInv
<1>3. CASE UNCHANGED serverVars
  BY <1>0, <1>3 DEF serverVars, vars, bodyVars, SInv, ConnInv, TypeOK,
     BusyIsUnanswered, AnsweredIsWhole
<1> QED
  BY <1>1, <1>2, <1>3, ConnStepKeeps, FetchStepKeeps DEF ServerNext

LEMMA ServerInductive == ServerSpec => []SInv
<1>1. StreamInit => BodyInv
  BY StreamAssumption DEF StreamInit, BodyInv, StreamTypeOK, FlowingIsHashed,
     WholeIsComplete, NoOffer, Nothing, Sizes, Origins
<1>2. Init /\ StreamInit => ConnInv
  BY DEF Init, StreamInit, ConnInv, TypeOK, Answers, BusyIsUnanswered, AnsweredIsWhole,
     Streams
<1> QED
  BY <1>1, <1>2, ServerNextKeeps, PTL DEF ServerSpec, ServerInit, SInv

\* The state of server and bodies keeps its type.
THEOREM StreamingTypeCorrect == ServerSpec => []ServerTypeOK
<1>1. SInv => ServerTypeOK
  BY DEF SInv, BodyInv, ConnInv, ServerTypeOK
<1> QED
  BY <1>1, ServerInductive, PTL

\* A client that was given a complete response has all the announced bytes.
THEOREM CompleteAnswers == ServerSpec => []AnswersAreWhole
<1>1. SInv => AnswersAreWhole
  BY DEF SInv, BodyInv, ConnInv, AnsweredIsWhole, WholeIsComplete, AnswersAreWhole, Streams
<1> QED
  BY <1>1, ServerInductive, PTL

\* No download outlives the connection it is for.
THEOREM NoOrphans == ServerSpec => []NoOrphanedDownload
<1>1. SInv => NoOrphanedDownload
  BY DEF SInv, ConnInv, BusyIsUnanswered, NoOrphanedDownload
<1> QED
  BY <1>1, ServerInductive, PTL

\* Once the process has ended nothing is being worked on (ExitIsQuiet).
THEOREM StreamingExitIsQuiet == ServerSpec => []QuietWhenExited
  BY StreamingImplementsLifecycle, ExitIsQuiet, PTL

(***************************************************************************)
(* Fetches are atomic.                                                     *)
(***************************************************************************)

\* A command's body is whole only when it was verified, so that the outcome of a
\* fetch can be told from the phase of its body.
Named(p) ==
    IF p = "none" THEN "idle" ELSE IF p = "flowing" THEN "pending"
    ELSE IF p = "broken" THEN "failed" ELSE "whole"

LEMMA OutcomeIsNamed ==
    ASSUME SInv
    PROVE  FetchOutcome = [f \in Fetchers |-> Named(phase[f])]
<1> SUFFICES ASSUME NEW f \in Fetchers
             PROVE  Outcome(f) = Named(phase[f])
  BY DEF FetchOutcome
<1>1. f \in Streams
  BY DEF Streams
<1>2. phase[f] \in {"none", "flowing", "whole", "broken"}
      /\ taken[f] \in [size : Sizes, right : BOOLEAN]
  BY <1>1 DEF SInv, BodyInv, StreamTypeOK
<1>3. CASE phase[f] = "whole"
  <2>1. taken[f] = [size |-> offer[f].size, right |-> TRUE]
    BY <1>1, <1>2, <1>3 DEF SInv, BodyInv, WholeIsComplete
  <2> QED
    BY <1>3, <2>1 DEF Outcome, Named
<1> QED
  BY <1>2, <1>3 DEF Outcome, Named

LEMMA FetchStep ==
    ASSUME SInv, SInv', [ServerNext]_serverVars
    PROVE  [Fetch!FetchNext]_FetchOutcome
<1> DEFINE Now  == [f \in Fetchers |-> Named(phase[f])]
           Then == [f \in Fetchers |-> Named(phase'[f])]
<1>0. FetchOutcome = Now /\ FetchOutcome' = Then
  <2>1. FetchOutcome = Now
    BY OutcomeIsNamed
  <2>2. (FetchOutcome = [f \in Fetchers |-> Named(phase[f])])'
    BY OutcomeIsNamed, PTL
  <2> QED
    BY <2>1, <2>2
<1>1. ASSUME NEW f \in Fetchers,
             (\E n \in Sizes : AskBlob(f, n)) \/ FlowFetch(f) \/ GiveUpFetch(f)
      PROVE  \/ UNCHANGED phase
             \/ phase[f] # "flowing" /\ phase' = [phase EXCEPT ![f] = "flowing"]
             \/ /\ phase[f] = "flowing"
                /\ \E p \in {"whole", "broken"} : phase' = [phase EXCEPT ![f] = p]
  BY <1>1, StreamAssumption DEF AskBlob, FlowFetch, GiveUpFetch, CollectTimeout, Open, Flow,
     Forward, Exceed, Break, End, Ended
<1>2. ASSUME NEW f \in Fetchers, phase[f] # "flowing",
             phase' = [phase EXCEPT ![f] = "flowing"]
      PROVE  Fetch!Ask(f)
  <2>1. Now[f] # "pending"
    BY <1>2 DEF Named
  <2>2. Then = [Now EXCEPT ![f] = "pending"]
    BY <1>2 DEF Named, SInv, BodyInv, StreamTypeOK, Streams
  <2> QED
    BY <1>0, <2>1, <2>2 DEF Fetch!Ask
<1>3. ASSUME NEW f \in Fetchers, phase[f] = "flowing", NEW p \in {"whole", "broken"},
             phase' = [phase EXCEPT ![f] = p]
      PROVE  Fetch!Settle(f)
  <2>1. Now[f] = "pending"
    BY <1>3 DEF Named
  <2>2. Named(p) \in {"whole", "failed"}
    BY DEF Named
  <2>3. Then = [Now EXCEPT ![f] = Named(p)]
    BY <1>3 DEF SInv, BodyInv, StreamTypeOK, Streams
  <2> QED
    BY <1>0, <2>1, <2>2, <2>3 DEF Fetch!Settle
<1>4. ASSUME \A f \in Fetchers : phase'[f] = phase[f]
      PROVE  UNCHANGED FetchOutcome
  BY <1>0, <1>4
<1>5. ASSUME NEW c \in Conns,
             \/ AcceptConn(c) \/ BeginRequest(c) \/ FinishResponse(c)
             \/ HangupConn(c) \/ FlowConn(c)
             \/ \E n \in Sizes, o \in Origins : ServeBlob(c, n, o)
      PROVE  \A f \in Fetchers : phase'[f] = phase[f]
  BY <1>5, StreamAssumption DEF AcceptConn, Forget, BeginRequest, FinishResponse, bodyVars,
     HangupConn, Drop, FlowConn, Flow, Forward, Exceed, Break, End, Ended, ServeBlob, Open,
     SInv, BodyInv, StreamTypeOK, Streams
<1>6. CASE Control \/ CloseServer \/ UNCHANGED serverVars
  <2>1. \A f \in Fetchers : phase'[f] = phase[f]
    BY <1>6, StreamAssumption DEF Control, CloseServer, Drop, serverVars, bodyVars, Streams
  <2> QED
    BY <2>1, <1>4
<1> QED
  BY <1>1, <1>2, <1>3, <1>4, <1>5, <1>6 DEF ServerNext, Fetch!FetchNext

\* Every command's download behaves as a fetch that is atomic: all of the described
\* content or a failure (that it ends is checked by TLC).
THEOREM FetchesImplementAtomicFetch == ServerSpec => Fetch!FetchSafety
<1>1. ServerInit => Fetch!FetchInit
  BY DEF ServerInit, StreamInit, Fetch!FetchInit, FetchOutcome, Outcome, Streams
<1> QED
  BY <1>1, FetchStep, ServerInductive, PTL DEF ServerSpec, Fetch!FetchSafety
=============================================================================
