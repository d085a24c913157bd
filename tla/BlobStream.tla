------------------------------ MODULE BlobStream ------------------------------
(***************************************************************************)
(* A blob on its way from the registry through the verifier of oci.rs      *)
(* (verified_body) to whoever asked for it: a client's connection of the   *)
(* gateway, or an autoindex command that collects the whole body.          *)
(*                                                                         *)
(* A body is a number of units; a chunk is "right" if its units are those  *)
(* of the described content at their place.  The SHA-256 of a body is the  *)
(* described one exactly if all its chunks are right and none is missing.  *)
(***************************************************************************)
EXTENDS Integers

CONSTANTS Conns,         \* connections of the gateway
          Fetchers,      \* commands
          MaxSize        \* the largest described size, and the largest chunk

VARIABLES phase,     \* per reader: "none", or its body is "flowing", "whole", "broken"
          offer,     \* per reader: the size its body was announced with, and by whom
          verifier,  \* per reader: what the Verifier has hashed
          taken      \* per reader: what it has received

Streams == Conns \cup Fetchers
Sizes   == 0..MaxSize

\* A descriptor says the size, or (blob_by_digest) the registry's Content-Length,
\* which then also frames the body the registry sends.
Origins == {"descriptor", "header"}
NoOffer == [size |-> 0, origin |-> "descriptor"]
Nothing == [size |-> 0, right |-> TRUE]

StreamTypeOK ==
    /\ phase \in [Streams -> {"none", "flowing", "whole", "broken"}]
    /\ offer \in [Streams -> [size : Sizes, origin : Origins]]
    /\ verifier \in [Streams -> [size : Sizes, right : BOOLEAN]]
    /\ taken \in [Streams -> [size : Sizes, right : BOOLEAN]]

StreamInit ==
    /\ phase = [s \in Streams |-> "none"]
    /\ offer = [s \in Streams |-> NoOffer]
    /\ verifier = [s \in Streams |-> Nothing]
    /\ taken = [s \in Streams |-> Nothing]

\* A body that ended, or is dropped, takes its verifier with it.  Every reader
\* stops at the first error, so that what a failed verifier would say after it
\* is never heard.
Ended(s, p) ==
    /\ phase' = [phase EXCEPT ![s] = p]
    /\ verifier' = [verifier EXCEPT ![s] = Nothing]
    /\ UNCHANGED offer

\* A reader turns to something else.
Forget(s) ==
    /\ phase' = [phase EXCEPT ![s] = "none"]
    /\ offer' = [offer EXCEPT ![s] = NoOffer]
    /\ verifier' = [verifier EXCEPT ![s] = Nothing]
    /\ taken' = [taken EXCEPT ![s] = Nothing]

\* The response has arrived and the body is wrapped.
Open(s, size, origin) ==
    /\ phase' = [phase EXCEPT ![s] = IF s \in Conns /\ size = 0 THEN "whole" ELSE "flowing"]
    /\ offer' = [offer EXCEPT ![s] = [size |-> size, origin |-> origin]]
    /\ verifier' = [verifier EXCEPT ![s] = Nothing]
    /\ taken' = [taken EXCEPT ![s] = Nothing]

\* A chunk the registry may send next.
Sendable(s, n) ==
    offer[s].origin = "header" => verifier[s].size + n <= offer[s].size

Grown(x, n, right) == [size |-> x.size + n, right |-> x.right /\ right]

\* Chunks are handed on as they are hashed, up to the described size.  A
\* connection has what it needs with the last byte its Content-Length announced,
\* and hyper asks the body for nothing more; a command collects until the body
\* says that it has ended.
Forward(s, n, right) ==
    /\ phase[s] = "flowing" /\ Sendable(s, n)
    /\ verifier[s].size + n <= offer[s].size
    /\ taken' = [taken EXCEPT ![s] = Grown(taken[s], n, right)]
    /\ \/ s \in Conns /\ taken[s].size + n = offer[s].size /\ Ended(s, "whole")
       \/ /\ s \in Fetchers \/ taken[s].size + n # offer[s].size
          /\ verifier' = [verifier EXCEPT ![s] = Grown(verifier[s], n, right)]
          /\ UNCHANGED <<phase, offer>>

\* The chunk would exceed the described size: an error takes its place.
Exceed(s, n) ==
    /\ phase[s] = "flowing" /\ Sendable(s, n)
    /\ verifier[s].size + n > offer[s].size
    /\ Ended(s, "broken")
    /\ UNCHANGED taken

\* The registry's connection breaks.
Break(s) ==
    /\ phase[s] = "flowing"
    /\ Ended(s, "broken")
    /\ UNCHANGED taken

\* Seeded fault: the digest is not compared.
VerifiedSize(s) == verifier[s].size = offer[s].size

\* Seeded fault: a digest that is right so far will do.
VerifiedPrefix(s) == verifier[s].right

\* final_check, for who reads as far.
Verified(s) == verifier[s].size = offer[s].size /\ verifier[s].right

\* The registry's body ends.
End(s) ==
    /\ phase[s] = "flowing"
    /\ offer[s].origin = "header" => verifier[s].size = offer[s].size
    /\ Ended(s, IF Verified(s) THEN "whole" ELSE "broken")
    /\ UNCHANGED taken

\* A command waits for the whole body no longer than request_timeout; the
\* gateway has no such limit.
CollectTimeout(s) ==
    /\ s \in Fetchers /\ phase[s] = "flowing"
    /\ Ended(s, "broken")
    /\ UNCHANGED taken

\* Seeded fault: a body goes on without its reader.
DropNothing(S) == UNCHANGED <<phase, offer, verifier, taken>>

\* The readers of S drop their bodies.
Drop(S) ==
    /\ phase' = [s \in Streams |-> IF s \in S /\ phase[s] = "flowing"
                                   THEN "broken" ELSE phase[s]]
    /\ verifier' = [s \in Streams |-> IF s \in S THEN Nothing ELSE verifier[s]]
    /\ UNCHANGED <<offer, taken>>

\* The registry moves a body.  Nothing makes it: it may stall for ever.
Flow(s) ==
    \/ \E n \in 1..MaxSize : \/ \E right \in BOOLEAN : Forward(s, n, right)
                             \/ Exceed(s, n)
    \/ Break(s) \/ End(s)
=============================================================================
