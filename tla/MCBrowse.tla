------------------------------- MODULE MCBrowse -------------------------------
(***************************************************************************)
(* Small instances of the autoindex as it is browsed.  The bytes, in their *)
(* order: '-' is 0, '.' 1, '/' 2, letters from 3 on, and 99 is unsafe.     *)
(***************************************************************************)
EXTENDS AutoindexBrowse

MCSegments == {"", ".", "..", "a", "a-", "b", "healthz", "v2", "long", "bad"}
MCSpelling == [s \in MCSegments |->
                 CASE s = ""    -> <<>>         [] s = "."   -> <<1>>
                   [] s = ".."  -> <<1, 1>>     [] s = "a"   -> <<3>>
                   [] s = "a-"  -> <<3, 0>>     [] s = "b"   -> <<4>>
                   [] s = "v2"  -> <<6, 5>>     [] s = "bad" -> <<99>>
                   [] s = "healthz" -> <<5>>    [] s = "long" -> <<7, 7, 7>>]
MCSafe == 0..7

\* The text of a path, and what its order says of short paths.
Text(p) == FlattenSeq([i \in DOMAIN p |-> IF i = 1 THEN Spelling[p[i]]
                                          ELSE <<Slash>> \o Spelling[p[i]]])
ShortPaths == UNION {[1..n -> {"", ".", "a", "a-", "b"}] : n \in 1..3}
ASSUME TextOrder == \A p, q \in ShortPaths : TitleLess(p, q) <=> Precedes(Text(p), Text(q))

\* Files of source directories; a directory holds no file and directory of one
\* name.
SourceFiles == {<<"a", "b">>, <<"a", "a">>, <<"a-">>, <<"b">>, <<"b", "a", "a">>,
                <<"healthz">>, <<"v2">>, <<"v2", "b">>, <<"long", "v2">>, <<"bad">>}
MCDirectories == {D \in SUBSET SourceFiles :
                     Cardinality(D) <= 4 /\ \A p, q \in D : p = q \/ ~Collide(p, q)}

FreeManifest(titles) == [Native(titles) EXCEPT !.marked = FALSE]
Hidden(title) == [NativeLayer(title) EXCEPT !.visible = FALSE]
Extra(m, l) == [m EXCEPT !.layers = Append(@, l)]
AB == FreeManifest(<<<<"b">>, <<"a", "b">>>>)

\* Unsorted, with hidden layers of any title, and with everything a visible layer
\* must not have.
MCPushes == {AB, Extra(AB, Hidden(<<"..">>)), Extra(AB, Hidden(<<"a">>)),
             Extra(AB, NativeLayer(<<"a">>)), Extra(AB, NativeLayer(<<"b">>)),
             Extra(AB, NativeLayer(<<"a", "..">>)), Extra(AB, NativeLayer(<<"a", "">>)),
             Extra(AB, NativeLayer(<<"bad">>)),
             Extra(AB, [NativeLayer(<<"v2">>) EXCEPT !.valid = FALSE]),
             Extra(AB, [NativeLayer(<<"v2">>) EXCEPT !.title = None]),
             [AB EXCEPT !.standard = FALSE], FreeManifest(<<>>)}

Ask(t)  == [method |-> "GET", target |-> t, head |-> Plainly, auths |-> 0]
Paths1  == {<<"", "">>, <<"", "a">>, <<"", "a", "">>, <<"", "b", "a">>, <<"", "v2">>,
            <<"", "", "">>, <<"", "a", "..">>, <<"", "bad">>, <<"", "healthz">>,
            <<"", "v2", "">>, <<"", "long", "v2">>,
            <<"", "b", "a", "a", "a">>}
MCTyped == {Ask(t) : t \in Paths1} \cup
           {[Ask(<<"", "a">>) EXCEPT !.method = "POST"], [Ask(<<"", "a">>) EXCEPT !.auths = 2],
            [Ask(<<"", "healthz">>) EXCEPT !.method = "POST"],
            [Ask(<<"", "a">>) EXCEPT !.head.chunked = TRUE],
            [Ask(<<"", "a">>) EXCEPT !.head.lengths = <<[digits |-> TRUE, value |-> 1]>>]}
=============================================================================
