----------------------------- MODULE Configuration -----------------------------
(***************************************************************************)
(* The settings of a process (config.rs): what of the environment and of a *)
(* file is accepted, and what becomes of it.  A value is already split at  *)
(* its separators; numbers that are none are -1.  Every error ends the     *)
(* process in the same way, so that an error is just Invalid.              *)
(***************************************************************************)
EXTENDS Integers, Sequences, SequencesExt

CONSTANTS None, Invalid, Panic,
          Addresses,        \* hosts that are spelled like an IP address
          Loopback,         \* those of the loopback
          MaxHost, MaxRepository, MaxRepositorySegments,
          MaxUsername, MaxPassword, MaxTimeout,
          Limits            \* per limit its range

ASSUME ConfigurationAssumption ==
    /\ Loopback \subseteq Addresses
    /\ {MaxHost, MaxRepository, MaxRepositorySegments} \subseteq Nat
    /\ {MaxUsername, MaxPassword, MaxTimeout} \subseteq Nat

Keys == {"LISTEN_ADDR", "UPSTREAM", "REPOSITORY", "ALLOWED_HOSTS", "CONNECT_TIMEOUT_MS",
         "REQUEST_TIMEOUT_MS", "MAX_TARGET_BYTES", "MAX_HEADER_COUNT", "MAX_HEADER_BYTES",
         "MAX_BODY_BYTES", "ENABLED_FRONTENDS", "LOG_LEVEL", "ALLOW_INSECURE_LOOPBACK",
         "TOKEN_USERNAME", "TOKEN_PASSWORD"}

LimitKeys == {"MAX_TARGET_BYTES", "MAX_HEADER_COUNT", "MAX_HEADER_BYTES", "MAX_BODY_BYTES"}

(***************************************************************************)
(* The file: lines that are ignored, lines without '=', and assignments.   *)
(***************************************************************************)

FileAccepted(lines) ==
    \A i \in DOMAIN lines :
       \/ lines[i].kind = "blank"
       \/ lines[i].kind = "set" /\ lines[i].key \in Keys

FileValues(lines) ==
    LET At(k) == {i \in DOMAIN lines : lines[i].kind = "set" /\ lines[i].key = k}
    IN  [k \in {k \in Keys : At(k) # {}} |-> lines[CHOOSE i \in At(k) : \A j \in At(k) : j <= i].value]

(***************************************************************************)
(* Hosts are sequences of characters: "a" and "A" stand for the letters    *)
(* and digits, "x" for every character that no host has.                   *)
(***************************************************************************)

Lower(host) == [i \in DOMAIN host |-> IF host[i] = "A" THEN "a" ELSE host[i]]

IsValidHost(host) ==
    /\ Len(host) \in 1..MaxHost
    /\ ToSet(host) \subseteq {"a", "A", ".", "-", ":"}
    /\ {host[1], host[Len(host)]} \cap {".", "-"} = {}
    /\ \A i \in 2..Len(host) : host[i] = "." => host[i - 1] # "."

HasColon(host) == ":" \in ToSet(host)

\* A port that is there is a nonzero u16.
ParsesAsPort(port) == port = None \/ port \in 1..65535

\* Brackets may hold any host, and only there it may have colons.
AuthorityAccepted(u) ==
    /\ u.host # <<>> \/ u.brackets # "none"
    /\ ~u.path
    /\ u.brackets # "open" /\ ~u.tail
    /\ u.brackets = "none" => ~HasColon(u.host)
    /\ ParsesAsPort(u.port)

\* Seeded fault: any host will do for cleartext.
UpstreamAcceptedInClear(u, insecure) ==
    /\ u.scheme = "https" \/ (u.scheme = "http" /\ insecure)
    /\ AuthorityAccepted(u)
    /\ HasColon(u.host) => u.host \in Addresses
    /\ IsValidHost(u.host)

UpstreamAccepted(u, insecure) ==
    /\ u.scheme = "https" \/ (u.scheme = "http" /\ insecure)
    /\ AuthorityAccepted(u)
    /\ HasColon(u.host) => u.host \in Addresses
    /\ u.scheme = "http" => u.host \in Loopback
    /\ IsValidHost(u.host)

\* The entries of the list that are not empty, in lower case.
AllowedHosts(list) == {Lower(h) : h \in ToSet(list) \ {<<>>}}

AllowedHostsAccepted(list, upstream) ==
    /\ Lower(upstream.host) \in AllowedHosts(list)
    /\ \A h \in AllowedHosts(list) : IsValidHost(h) /\ ~HasColon(h)

(***************************************************************************)
(* The other values.                                                       *)
(***************************************************************************)

\* A socket address; port zero lets the system choose.
ListenAccepted(l) == l # Invalid /\ (l.port = 0 => l.loopback)

TimeoutAccepted(n) == n \in 1..MaxTimeout

Protocols == {"pypi", "rpm", "apt", "pacman"}

FrontendsAccepted(list) == list = <<"none">> \/ ToSet(list) \subseteq Protocols

\* Segments are well formed or not (is_repository_segment), and have a length.
RepositoryAccepted(segments) ==
    /\ Len(segments) \in 1..MaxRepositorySegments
    /\ FoldSeq(LAMBDA s, n : s.bytes + n, Len(segments) - 1, segments) <= MaxRepository
    /\ \A i \in DOMAIN segments : segments[i].good

\* Bounded, not empty, one line.
SecretAccepted(s, max) == s.bytes \in 1..max /\ ~s.control

CredentialsAccepted(username, password) ==
    \/ username = None /\ password = None
    \/ /\ username # None /\ password # None
       /\ SecretAccepted(username, MaxUsername) /\ SecretAccepted(password, MaxPassword)

(***************************************************************************)
(* Config::from_maps and Config::from_env.                                 *)
(***************************************************************************)

\* The defaults are the constants of config.rs as values of this model.
CONSTANT Default

\* The environment overrides the file, key by key.
Setting(k, file, environment) ==
    IF k \in DOMAIN environment THEN environment[k]
    ELSE IF k \in DOMAIN file THEN file[k] ELSE Default[k]

Accepted(settings) ==
    /\ ListenAccepted(settings["LISTEN_ADDR"])
    /\ settings["ALLOW_INSECURE_LOOPBACK"] \in {"true", "false"}
    /\ UpstreamAccepted(settings["UPSTREAM"], settings["ALLOW_INSECURE_LOOPBACK"] = "true")
    /\ RepositoryAccepted(settings["REPOSITORY"])
    /\ AllowedHostsAccepted(settings["ALLOWED_HOSTS"], settings["UPSTREAM"])
    /\ TimeoutAccepted(settings["CONNECT_TIMEOUT_MS"])
    /\ TimeoutAccepted(settings["REQUEST_TIMEOUT_MS"])
    /\ settings["CONNECT_TIMEOUT_MS"] <= settings["REQUEST_TIMEOUT_MS"]
    /\ \A k \in LimitKeys : settings[k] \in Limits[k]
    /\ FrontendsAccepted(settings["ENABLED_FRONTENDS"])
    /\ settings["LOG_LEVEL"] \in {"error", "warn", "info", "debug"}
    /\ CredentialsAccepted(settings["TOKEN_USERNAME"], settings["TOKEN_PASSWORD"])

\* What the accessors of Config return.
Config(s) ==
    [listen |-> s["LISTEN_ADDR"], repository |-> s["REPOSITORY"],
     upstream |-> [scheme |-> s["UPSTREAM"].scheme, host |-> s["UPSTREAM"].host,
                   port |-> s["UPSTREAM"].port],
     insecure |-> s["ALLOW_INSECURE_LOOPBACK"] = "true",
     hosts |-> AllowedHosts(s["ALLOWED_HOSTS"]),
     connect |-> s["CONNECT_TIMEOUT_MS"], request |-> s["REQUEST_TIMEOUT_MS"],
     limits |-> [k \in LimitKeys |-> s[k]],
     frontends |-> ToSet(s["ENABLED_FRONTENDS"]) \ {"none"},
     username |-> s["TOKEN_USERNAME"], password |-> s["TOKEN_PASSWORD"]]

FromMaps(file, environment) ==
    LET settings == [k \in Keys |-> Setting(k, file, environment)]
    IN  IF DOMAIN environment \subseteq Keys /\ Accepted(settings)
        THEN Config(settings) ELSE Invalid

\* An environment: the variables with the prefix, whether ORAS_PROXY_CONFIG_FILE
\* names a file ("named"), and whether every variable of the process is Unicode,
\* for std::env::vars panics at one that is not.
FromEnv(file, e) ==
    IF e.named /\ (file = None \/ ~FileAccepted(file)) THEN Invalid
    ELSE IF ~e.unicode THEN Panic
    ELSE FromMaps(IF e.named THEN FileValues(file) ELSE <<>>, e.values)
=============================================================================
