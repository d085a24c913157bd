------------------------------ MODULE MCGateway ------------------------------
(***************************************************************************)
(* Small instances of the distribution gateway: one blob of two pieces, one*)
(* upload session with a usable id, one whose id is too long and one whose *)
(* id has a character the gateway does not pass on.                        *)
(***************************************************************************)
EXTENDS DistributionGateway, TLC

MCSessions == {"s1", "long", "odd"}
MCSafe     == {"s1", "long"}
MCShort    == {"s1", "odd"}
MCContent  == "d" :> <<"a", "b">>

P(k, f)  == [key |-> k, form |-> f]
State    == <<P("_state", "good")>>
Finish   == <<P("_state", "good"), P("digest", "good")>>
Encoded  == <<P("digest", "encoded"), P("_state", "good")>>
MountOwn == <<P("mount", "good"), P("from", "good")>>

L(n) == [digits |-> TRUE, value |-> n]
Plainly == [origin |-> TRUE, target |-> 1, headers |-> 1, bytes |-> 1, control |-> FALSE,
         lengths |-> <<>>, chunked |-> FALSE, expects |-> FALSE, upgrade |-> FALSE]

Ask(method, kind, name) ==
    [method |-> method, repo |-> "own", kind |-> kind, name |-> name, query |-> <<>>,
     head |-> Plainly, auths |-> 1, bytes |-> <<>>, digest |-> None, needs |-> {}]

Patch(x)    == [Ask("PATCH", "upload", "s1") EXCEPT !.query = State, !.bytes = <<x>>,
                                              !.head.lengths = <<L(1), L(1)>>]
Put(q, b)   == [Ask("PUT", "upload", "s1") EXCEPT !.query = q, !.bytes = b, !.digest = "d"]
Publish     == [Ask("PUT", "manifest", "t") EXCEPT !.needs = {"d"}]
Mount       == [Ask("POST", "start", None) EXCEPT !.query = MountOwn, !.digest = "d"]

\* Requests the gateway admits.
Admitted == {Ask("POST", "start", None), Mount, Patch("a"), Put(Finish, <<"b">>),
             Put(Encoded, <<>>),
             [Ask("DELETE", "upload", "s1") EXCEPT !.query = State],
             Publish, Ask("DELETE", "manifest", "t"), Ask("GET", "manifest", "t"),
             Ask("DELETE", "blob", "d"), Ask("HEAD", "blob", "d")}

\* Lengths at and past the limit, past a u64, not a number, and in conflict.
Lengthy == {<<L(1)>>, <<L(2)>>, <<L(3)>>, <<L(1), L(0)>>, <<L(0), L(2)>>,
            <<[L(1) EXCEPT !.digits = FALSE]>>}

\* Requests for each of its own refusals, and the version check.
NotAdmitted == {[Publish EXCEPT !.head.lengths = l] : l \in Lengthy} \cup
               {[Ask("GET", "blob", "d") EXCEPT !.head.lengths = <<L(1)>>],
                [Publish EXCEPT !.head.origin = FALSE], [Publish EXCEPT !.head.target = 2],
                [Publish EXCEPT !.head.headers = 2], [Publish EXCEPT !.head.bytes = 2],
                [Publish EXCEPT !.head.control = TRUE], [Publish EXCEPT !.head.chunked = TRUE],
                [Publish EXCEPT !.head.expects = TRUE], [Publish EXCEPT !.head.upgrade = TRUE],
                [Publish EXCEPT !.method = "OPTIONS"],
                [Publish EXCEPT !.repo = "other"],
                [Publish EXCEPT !.auths = 2], [Mount EXCEPT !.query[2].form = "bad"],
                Ask("PUT", "blob", "d"), Ask("GET", "version", None)}

MCInputs == Admitted \cup NotAdmitted

Relative  == [origin |-> "none", repo |-> "own", query |-> State]
Absolute  == [Relative EXCEPT !.origin = "own"]
Elsewhere == [Relative EXCEPT !.origin = "other"]
Doubled   == [Relative EXCEPT !.query = State \o State]
MCForms   == {Absolute, Elsewhere, Doubled}
PlainForm == {Relative}
NoForms   == {}

Holding(open, data, blobs, manifest) ==
    [open |-> open, spent |-> {}, data |-> [s \in MCSessions |-> IF s \in open THEN data ELSE <<>>],
     blobs |-> blobs, manifests |-> [r \in {"t"} |-> manifest]]

MCRegistries == {Holding({}, <<>>, {}, None), Holding({"s1"}, <<"a">>, {}, None),
                 Holding({}, <<>>, {"d"}, [needs |-> {"d"}])}
FullRegistry == {Holding({}, <<>>, {"d"}, None)}
Publications == {Publish, Ask("GET", "manifest", "t")}

SlotSymmetry == Permutations(Slots)
=============================================================================
