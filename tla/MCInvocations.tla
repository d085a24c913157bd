---------------------------- MODULE MCInvocations ----------------------------
(***************************************************************************)
(* A host with few ids and names, and processes started with few arguments *)
(* and with settings of every kind.                                        *)
(***************************************************************************)
EXTENDS Invocations

CONSTANT d1    \* a destination

Ghcr == <<"a", ".", "a">>
Loop == <<"a">>                  \* 127.0.0.1
Loop6 == <<":", ":", "a">>       \* ::1
Near == <<"a", "a">>             \* 10.0.0.1: an address, and not of the loopback

Url(scheme, host) == [scheme |-> scheme, brackets |-> IF HasColon(host) THEN "closed" ELSE "none",
                      host |-> host, tail |-> FALSE, port |-> None, path |-> FALSE]
Secret(n) == [bytes |-> n, control |-> FALSE]

MCAddresses == {Loop, Loop6, Near}
MCLoopback == {Loop, Loop6}
MCLimits == [k \in LimitKeys |-> IF k = "MAX_BODY_BYTES" THEN 0..2 ELSE 1..2]
MCDefault ==
    [k \in Keys |->
       CASE k = "LISTEN_ADDR"        -> [port |-> 8080, loopback |-> TRUE]
         [] k = "UPSTREAM"           -> Url("https", Ghcr)
         [] k = "REPOSITORY"         -> <<[bytes |-> 2, good |-> TRUE], [bytes |-> 1, good |-> TRUE]>>
         [] k = "ALLOWED_HOSTS"      -> <<Ghcr>>
         [] k = "CONNECT_TIMEOUT_MS" -> 1
         [] k = "REQUEST_TIMEOUT_MS" -> 2
         [] k \in LimitKeys          -> 1
         [] k = "ENABLED_FRONTENDS"  -> <<"none">>
         [] k = "LOG_LEVEL"          -> "info"
         [] k = "ALLOW_INSECURE_LOOPBACK" -> "false"
         [] OTHER                    -> None]

\* One value that is accepted or refused for each of the reasons, by itself.
Single ==
    {[LISTEN_ADDR |-> l] : l \in {Invalid, [port |-> 0, loopback |-> TRUE], [port |-> 0, loopback |-> FALSE]}}
    \cup {[UPSTREAM |-> u] : u \in
            {Url("http", Loop), Url("ftp", Ghcr), [Url("https", Ghcr) EXCEPT !.path = TRUE],
             [Url("https", Ghcr) EXCEPT !.port = 65535], [Url("https", Ghcr) EXCEPT !.port = 0],
             [Url("https", Ghcr) EXCEPT !.brackets = "open"],
             [Url("https", Ghcr) EXCEPT !.brackets = "closed", !.tail = TRUE],
             Url("https", <<"a", ".", ".", "a">>), Url("https", <<"A", ".", "a">>)}}
    \cup {[REPOSITORY |-> r] : r \in
            {<<[bytes |-> 9, good |-> TRUE]>>, <<[bytes |-> 2, good |-> FALSE]>>}}
    \cup {[CONNECT_TIMEOUT_MS |-> n] : n \in {-1, 0, 3}}
    \cup {[REQUEST_TIMEOUT_MS |-> n] : n \in {3, 4}}
    \cup {[MAX_BODY_BYTES |-> n] : n \in {0, 3}} \cup {[MAX_TARGET_BYTES |-> 0]}
    \cup {[ENABLED_FRONTENDS |-> f] : f \in {<<"pypi", "apt">>, <<"npm">>}}
    \cup {[LOG_LEVEL |-> "trace"], [TOKEN_USERNAME |-> Secret(1)], [UNKNOWN |-> 0]}

\* Values that are judged together.
Clear(host, flag, list) ==
    [UPSTREAM |-> Url("http", host), ALLOW_INSECURE_LOOPBACK |-> flag, ALLOWED_HOSTS |-> list]
Pair(n, m) == [TOKEN_USERNAME |-> Secret(n), TOKEN_PASSWORD |-> Secret(m)]
Together ==
    {Clear(Loop, "true", <<<<>>, Loop>>), Clear(Loop, "false", <<Loop>>), Clear(Ghcr, "true", <<Ghcr>>),
     Clear(Near, "true", <<Near>>), Clear(Loop6, "true", <<Loop6>>), Clear(Loop, "true", <<Ghcr>>),
     Clear(Loop, "yes", <<Loop>>),
     Pair(1, 1), Pair(0, 1), Pair(1, 3)}

Set(k, v)   == [kind |-> "set", key |-> k, value |-> v]
Junk        == [kind |-> "junk", key |-> None, value |-> None]
Blank       == [kind |-> "blank", key |-> None, value |-> None]
Files == {None, <<Junk>>, <<Blank, Set("UNKNOWN", 0)>>,
          <<Set("ALLOW_INSECURE_LOOPBACK", "false"), Set("ALLOW_INSECURE_LOOPBACK", "true"),
            Set("UPSTREAM", Url("http", Loop)), Set("ALLOWED_HOSTS", <<Loop>>)>>}

Environment(named, values) == [named |-> named, unicode |-> TRUE, values |-> values]
Plain == Environment(FALSE, <<>>)

With(args, e) == [args |-> args, environment |-> e, file |-> None]

Configured ==
    {With(<<>>, Environment(FALSE, v)) : v \in Single \cup Together}
    \cup {[args |-> <<"serve">>, environment |-> Environment(TRUE, v), file |-> f] : f \in Files,
            v \in {<<>>, [ALLOW_INSECURE_LOOPBACK |-> "false"], [UPSTREAM |-> Url("https", Ghcr)]}}
    \cup {With(<<"serve">>, [Plain EXCEPT !.unicode = FALSE])}

Create == <<"autoindex", "create", "source", "path">>
Delete == <<"autoindex", "delete", "path">>

Commanded ==
    {With(a, Plain) : a \in
       {<<"serve", "x">>, <<"-h">>, <<"autoindex">>, <<"autoindex", "help">>, <<"autoindex", "help", "x">>,
        <<"autoindex", "create", "source">>, <<"autoindex", "update", "--dry-run", "delete">>, Create \o <<"--dry-run">>, Create \o <<"--yes">>,
        Delete, Delete \o <<"--dry-run">>, Delete \o <<"--yes", "--dry-run">>,
        <<"autoindex-publish", "--help">>, <<"autoindex-publish", "source">>}}

Carried ==
    {With(Create, Environment(FALSE, Pair(1, 1))), With(Delete \o <<"--yes">>, Plain),
     With(<<"autoindex-publish", "source", d1>>, Plain)}

\* The variety of settings and arguments is that of the first process; those after it
\* meet what it has left.
MCLaunches == [n \in 1..MaxRuns |-> IF n = 1 THEN Configured \cup Commanded \cup Carried ELSE Carried]
=============================================================================
