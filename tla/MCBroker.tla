------------------------------ MODULE MCBroker ------------------------------
(***************************************************************************)
(* Small instances of TokenBroker.  Requests are interchangeable: no action*)
(* and no checked property tells one from another.                         *)
(***************************************************************************)
EXTENDS TokenBroker, SequencesExt, TLC

RequestSymmetry == Permutations(Requests)

(***************************************************************************)
(* Challenges as a registry means them: a scheme and its parameters.       *)
(***************************************************************************)

MCOrigin == <<"https", ":", "/", "/", "home">>
MCWords  == {"https", "home", "basic", "scope", "path"}

Parameter(name, value) == [name |-> name, value |-> value]

Realms   == {MCOrigin \o r : r \in {<<"/", "path">>, <<"/">>, <<"/", ",", "path">>, <<>>,
                                    <<".", "path", "/">>, <<"path", "/">>, <<"/", "?", "path">>,
                                    <<"/", "quote">>, <<"/", "escape">>}}
            \cup {<<"https", ":", "/", "/", "path", "/", "home">>, <<"/", "path">>, <<>>}
Services == {<<"home">>, <<"home", ".", "path">>, <<>>, <<"~">>, <<"home", " ">>, <<"home", ".", "home", ".">>}

Good == <<Parameter("realm", MCOrigin \o <<"/", "path">>), Parameter("service", <<"home">>)>>
Useful == [scheme |-> "Bearer", parameters |-> Good]
Another == [scheme |-> "Bearer", parameters |-> <<Parameter("realm", MCOrigin \o <<"/">>),
                                                  Parameter("service", <<"path">>)>>]
Lure == <<"quote", ",", " ", "bearer", " ", "realm", "=", "home", ",", "quote">>

Bearers ==
    {[scheme |-> "bearer", parameters |-> ps] : ps \in
        {<<Parameter("realm", r), Parameter("service", <<"home">>)>> : r \in Realms}
        \cup {<<Parameter("service", s), Parameter("Realm", MCOrigin \o <<"/">>)>> : s \in Services}
        \cup {Good \o <<Parameter("realm", MCOrigin \o <<"/">>)>>, Good \o <<Parameter("scope", Lure)>>,
              <<Parameter("scope", Lure)>> \o Good, <<Parameter("service", <<"home">>)>>}}
    \cup {Useful}

Others ==
    {[scheme |-> "basic", parameters |-> ps] : ps \in
        {<<>>, <<Parameter("realm", <<"path">>)>>, <<Parameter("realm", Lure)>>,
         <<Parameter("realm", <<"escape">>), Parameter("scope", <<"path", ",">>)>>}}

\* Bearer challenges alone, before, behind and between others, and behind one another
\* in one field or in two.
Offers ==
    UNION {{<<<<b>>>>, <<<<o, b>>>>, <<<<b, o>>>>, <<<<o>>, <<o, b, o>>>>} : b \in Bearers, o \in Others}
    \cup {<<<<b>>, <<o, Useful>>>> : b \in Bearers, o \in Others}
    \cup UNION {{<<<<b, Useful>>>>, <<<<Useful, b>>>>, <<<<b, Useful>>, <<Another>>>>} : b \in Bearers}
    \cup {<<<<o>>>> : o \in Others}

(***************************************************************************)
(* How they are written.                                                   *)
(***************************************************************************)

Styles == [comma : {<<",">>, <<" ", ",", "tab">>}, equal : {<<"=">>, <<" ", "=", " ">>}]

Quoted(v) == <<"quote">>
             \o FlattenSeq([i \in DOMAIN v |-> IF v[i] \in {"quote", "escape"} THEN <<"escape", v[i]>> ELSE <<v[i]>>])
             \o <<"quote">>

\* A word need not be quoted.
Written(v, style) ==
    IF v # <<>> /\ ToSet(v) \subseteq TokenChars /\ style.comma = <<",">> THEN v ELSE Quoted(v)

Joined(texts, comma) ==
    FlattenSeq([i \in DOMAIN texts |-> IF i = 1 THEN texts[i] ELSE comma \o texts[i]])

ParameterText(p, style) == <<p.name>> \o style.equal \o Written(p.value, style)

ChallengeText(c, style) ==
    IF c.parameters = <<>> THEN <<c.scheme>>
    ELSE <<c.scheme, " ">> \o Joined([i \in DOMAIN c.parameters |-> ParameterText(c.parameters[i], style)],
                                     style.comma)

FieldTexts(offer, style) ==
    [i \in DOMAIN offer |-> Joined([j \in DOMAIN offer[i] |-> ChallengeText(offer[i][j], style)], style.comma)]

(***************************************************************************)
(* Which of them is used.  Each field that is not too long speaks by its   *)
(* first Bearer challenge; the first field is heard whose challenge is     *)
(* usable: the realm at the origin, the service plain, each thing once.    *)
(***************************************************************************)

Values(c, name) ==
    {c.parameters[i].value : i \in {i \in DOMAIN c.parameters : Lower(<<c.parameters[i].name>>) = <<name>>}}

SaidTwice(c) ==
    \E i, j \in DOMAIN c.parameters :
       i # j /\ Lower(<<c.parameters[i].name>>) = Lower(<<c.parameters[j].name>>)

\* Scheme and authority of a URL, as everybody else reads it.
Site(url) ==
    LET ends == {i \in DOMAIN url : i > 4 /\ url[i] \in {"/", "?", "#", "escape"}}
    IN  IF ends = {} THEN url ELSE SubSeq(url, 1, (CHOOSE i \in ends : \A j \in ends : i <= j) - 1)

IsUsable(c) ==
    /\ ~SaidTwice(c)
    /\ \E r \in Values(c, "realm") :
          /\ Site(r) = MCOrigin /\ Len(r) > Len(MCOrigin) /\ ToSet(r) \cap {"?", "#", "escape"} = {}
    /\ \E s \in Values(c, "service") :
          Len(s) \in 1..MaxService /\ \A x \in ToSet(s) : x \in ServiceChars

IsBearer(c) == Lower(<<c.scheme>>) = <<"bearer">>

Wanted(offer, style) ==
    LET short   == SelectSeq(offer, LAMBDA cs : Len(FieldTexts(<<cs>>, style)[1]) <= MaxChallenge)
        bearers == [i \in DOMAIN short |-> SelectSeq(short[i], IsBearer)]
        good    == SelectSeq(bearers, LAMBDA bs : bs # <<>> /\ IsUsable(Head(bs)))
        c       == Head(Head(good))
    IN  IF good = <<>> THEN NoChallenge
        ELSE [realm   |-> CHOOSE r \in Values(c, "realm") : TRUE,
              service |-> CHOOSE s \in Values(c, "service") : TRUE]

Misread == {<<offer, style>> \in Offers \X Styles :
              Challenge(FieldTexts(offer, style)) # Wanted(offer, style)}

\* A read answered with a 401 goes by the first field whose first Bearer challenge is
\* usable, whatever else the fields offer and however they are written, and takes
\* nothing for a challenge that is not one (bearer_parameters: "Parses the auth-params
\* belonging to the first Bearer challenge field").  It does not go by the first usable
\* challenge, as bearer_challenge says: one behind another of its field is not seen.
ChallengesAreUnderstood == \A q \in Requests : pc[q] = "rejected" => Misread = {}

\* What is no list of challenges at all, and fields that end the search.
Odd == {<<>>, <<<<>>>>, <<<<",", " ">>>>, <<<<"bearer">>>>, <<<<"bearer", " ", "realm">>>>,
        <<<<"bearer", " ", "realm", "=", "quote", "home">>>>,
        <<<<"bearer", " ", "realm", "=", "quote", "escape">>>>,
        <<<<"bearer", " ", "realm", "=">>>>, <<<<"bearer", " ", "service", "=", "home", ",">>>>,
        <<<<"other">>, ChallengeText(Useful, [comma |-> <<",">>, equal |-> <<"=">>])>>}

MCChallenges == Odd \cup {FieldTexts(o, s) : o \in Offers, s \in Styles}
=============================================================================
