------------------------------- MODULE MCCrud -------------------------------
(***************************************************************************)
(* Small instances of the commands for TLC: a file <<1>>, a file <<1, 2>>  *)
(* that cannot exist beside it, and a file <<2>>; contents of one unit     *)
(* except "big", which is over the limit of two units.                     *)
(***************************************************************************)
EXTENDS AutoindexCrud, TLC

MCFiles    == {<<1>>, <<1, 2>>, <<2>>}
MCDirs     == {<<1>>, <<3>>}
MCContents == {"x", "y", "big"}
MCSize     == [x \in MCContents |-> IF x = "big" THEN 3 ELSE 1]

Create(p, x) == [kind |-> "create", path |-> p, dir |-> FALSE, content |-> x, dry |-> FALSE]
Update(p, x) == [Create(p, x) EXCEPT !.kind = "update"]
Delete(p)    == [Create(p, "x") EXCEPT !.kind = "delete"]
DeleteDir(p) == [Delete(p) EXCEPT !.dir = TRUE]
Dry(o)       == [o EXCEPT !.dry = TRUE]

Artifact(n, t) == [native |-> n, files |-> t]
Tree2          == <<1, 2>> :> "x" @@ <<2>> :> "y"
Colliding      == <<1>> :> "x" @@ <<1, 2>> :> "x"

\* One command at a time, every operation.
SingleOps == {o \in OpRecords :
                 /\ WellFormed(o)
                 /\ o.kind = "delete" => o.content = "x"
                 /\ o.dry => o.kind # "update" /\ o.content = "x"
                 /\ o.content = "big" => o.path = <<2>>}
SingleTags == {None, Artifact(TRUE, Tree2)}

\* Two commands and one step of another client.
RaceOps    == {Create(<<1>>, "x"), Create(<<1, 2>>, "y"), Update(<<2>>, "x"),
               Delete(<<2>>), DeleteDir(<<1>>),
               Create(<<2>>, "big"), Dry(Create(<<2>>, "x"))}
RaceContents == {"x", "y"}
RaceSize   == [x \in RaceContents |-> 1]
RaceTags   == {None, Artifact(TRUE, <<2>> :> "y"), Artifact(TRUE, Tree2)}
RacePushes == {None, Artifact(FALSE, <<1>> :> "x"), Artifact(TRUE, Colliding)}

\* The races alone.
CreateOps   == {Create(<<1>>, "x"), Create(<<1>>, "y")}
NativeTags  == {Artifact(TRUE, <<2>> :> "y")}
HiddenPush  == {Artifact(FALSE, <<2>> :> "y")}
NoPushes    == {}

\* Three creates of the same bytes.
SameBytes == {Create(p, "x") : p \in {<<1, 2>>, <<2>>, <<3>>}}
SameFiles == {<<1, 2>>, <<2>>, <<3>>}
NoTags    == {None}

=============================================================================
