---------------------------- MODULE BearerChallenge ----------------------------
(***************************************************************************)
(* What the broker reads from the WWW-Authenticate fields of a 401         *)
(* (auth.rs).  A field is a sequence of characters; a word that is looked  *)
(* for, "bearer" say, counts as one, and so do "quote", "escape" and "tab".*)
(*                                                                         *)
(* A position in a field t is in 1..Len(t) + 1, the last one its end.      *)
(***************************************************************************)
EXTENDS Integers, Sequences

CONSTANTS Origin,          \* scheme, "://" and authority of the upstream
          Words,           \* runs of letters and digits
          MaxChallenge,    \* MAX_CHALLENGE_BYTES
          MaxService       \* the longest service

\* Words, and other bytes a token may have.
TokenChars   == Words \cup {"bearer", "Bearer", "realm", "Realm", "service", ".", "~"}
ServiceChars == TokenChars \ {"~"}

ASSUME OriginAssumption ==
    /\ Origin \in Seq(Words \cup {".", ":", "/"}) /\ MaxChallenge \in Nat /\ MaxService \in Nat
    /\ Len(Origin) > 4 /\ SubSeq(Origin, 2, 4) = <<":", "/", "/">>
    /\ \A i \in 5..Len(Origin) : Origin[i] # "/"
    /\ Words \cap {":", "/", "?", "#", "escape"} = {}

\* A field with bytes outside visible ASCII is none that to_str returns.
Visible(t) == \A i \in DOMAIN t : t[i] # "other"

Lower(word) == CASE word = <<"Bearer">> -> <<"bearer">>
                 [] word = <<"Realm">>  -> <<"realm">>
                 [] OTHER               -> word

(***************************************************************************)
(* The grammar.                                                            *)
(***************************************************************************)

At(t, i) == IF i <= Len(t) THEN t[i] ELSE "end"

\* The first position from i on that is not in C.
After(t, i, C) ==
    CHOOSE j \in i..(Len(t) + 1) : At(t, j) \notin C /\ \A k \in i..(j - 1) : t[k] \in C

SkipOws(t, i)          == After(t, i, {" ", "tab"})
SkipOwsAndCommas(t, i) == After(t, i, {" ", "tab", ","})
TokenEnd(t, i)         == After(t, i, TokenChars)

\* A value and where it ends; none if the text is not one.
Read(value, next) == [value |-> value, next |-> next]
Unread            == [value |-> <<>>, next |-> 0]

\* From behind the opening quote.
QuotedString(t, start) ==
    LET from[i \in start..(Len(t) + 1)] ==
          LET Then(c, rest) == IF c = "tab" \/ rest = Unread THEN Unread
                               ELSE Read(<<c>> \o rest.value, rest.next)
          IN  CASE i > Len(t)        -> Unread
                [] At(t, i) = "quote"  -> Read(<<>>, i + 1)
                [] At(t, i) = "escape" -> IF i = Len(t) THEN Unread ELSE Then(t[i + 1], from[i + 2])
                [] OTHER               -> Then(t[i], from[i + 1])
    IN  from[start]

Token(t, i) == IF TokenEnd(t, i) = i THEN Unread
               ELSE Read(SubSeq(t, i, TokenEnd(t, i) - 1), TokenEnd(t, i))

Value(t, i) == IF At(t, i) = "quote" THEN QuotedString(t, i + 1) ELSE Token(t, i)

\* Seeded fault: a comma ends a challenge, quoted or not.
SkipChallengeToComma(t, start) ==
    LET comma == After(t, start, {"quote", "escape", " ", "=", "/", ":"} \cup TokenChars)
    IN  IF comma > Len(t) THEN comma ELSE comma + 1

\* Behind the first comma that is not quoted.
SkipChallenge(t, start) ==
    LET from[i \in start..(Len(t) + 2), quoted \in BOOLEAN] ==
          CASE i > Len(t)                         -> Len(t) + 1
            [] At(t, i) = "quote"                 -> from[i + 1, ~quoted]
            [] At(t, i) = "escape" /\ quoted      -> from[i + 2, TRUE]
            [] At(t, i) = "," /\ ~quoted          -> i + 1
            [] OTHER                              -> from[i + 1, quoted]
    IN  from[start, FALSE]

\* The parameters from i on, in order, up to the end of the challenge: none when a
\* parameter is not one.  A comma is followed by a parameter or by a scheme.
Malformed == <<>>

Parameters(t, start) ==
    LET from[i \in start..(Len(t) + 1)] ==
          LET key   == Token(t, SkipOws(t, i))
              equal == SkipOws(t, key.next)
              value == Value(t, SkipOws(t, equal + 1))
              comma == SkipOws(t, value.next)
              next  == Token(t, SkipOws(t, comma + 1))
              this  == <<[name |-> Lower(key.value), value |-> value.value]>>
          IN  IF key = Unread \/ At(t, equal) # "=" \/ value = Unread THEN Malformed
              ELSE IF At(t, comma) # "," THEN this
              ELSE IF next = Unread THEN Malformed
              ELSE IF At(t, SkipOws(t, next.next)) # "=" THEN this
              ELSE IF from[comma + 1] = Malformed THEN Malformed
              ELSE this \o from[comma + 1]
    IN  from[start]

\* bearer_parameters: those of the first Bearer challenge of a field.
BearerParameters(t) ==
    LET from[i \in 1..(Len(t) + 1)] ==
          LET scheme == Token(t, SkipOwsAndCommas(t, i))
              next   == SkipOws(t, scheme.next)
          IN  IF scheme = Unread THEN Malformed
              ELSE IF Lower(scheme.value) = <<"bearer">> THEN Parameters(t, next)
              ELSE from[SkipChallenge(t, next)]
    IN  from[1]

(***************************************************************************)
(* bearer_challenge.                                                       *)
(***************************************************************************)

Given(ps, name) == {i \in DOMAIN ps : ps[i].name = <<name>>}

Unambiguous(ps) == \A i, j \in DOMAIN ps : ps[i].name = ps[j].name => i = j

ServiceIsSafe(s) == Len(s) \in 1..MaxService /\ \A i \in DOMAIN s : s[i] \in ServiceChars

\* Seeded fault: the realm only has to begin like the origin.
RealmIsLikeOurs(r) == Len(r) > Len(Origin) /\ SubSeq(r, 1, Len(Origin)) = Origin

\* The origin and a path.
RealmIsOurs(r) ==
    /\ Len(r) > Len(Origin) /\ SubSeq(r, 1, Len(Origin)) = Origin
    /\ r[Len(Origin) + 1] = "/"
    /\ \A i \in (Len(Origin) + 1)..Len(r) : r[i] \notin {"?", "#", "escape", "tab"}

NoChallenge == [realm |-> <<>>, service |-> <<>>]

\* What a list of parameters offers.
Offer(ps) ==
    IF /\ Unambiguous(ps)
       /\ \E i \in Given(ps, "realm") : RealmIsOurs(ps[i].value)
       /\ \E i \in Given(ps, "service") : ServiceIsSafe(ps[i].value)
    THEN [realm   |-> ps[CHOOSE i \in Given(ps, "realm") : TRUE].value,
          service |-> ps[CHOOSE i \in Given(ps, "service") : TRUE].value]
    ELSE NoChallenge

Offered(t) == IF Len(t) <= MaxChallenge THEN Offer(BearerParameters(t)) ELSE NoChallenge

\* The first of the offers, unless a field before it cannot be read at all.
FirstOffer(fields, offers) ==
    LET ends  == {i \in DOMAIN fields : ~Visible(fields[i]) \/ offers[i] # NoChallenge}
        first == {i \in ends : \A j \in ends : i <= j}
    IN  IF \E i \in first : Visible(fields[i]) THEN offers[CHOOSE i \in first : TRUE]
        ELSE NoChallenge

Challenge(fields) == FirstOffer(fields, [i \in DOMAIN fields |-> Offered(fields[i])])
=============================================================================
