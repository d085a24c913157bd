------------------------------ MODULE Invocations ------------------------------
(***************************************************************************)
(* The processes of the two programs on one host: how they begin, what     *)
(* they put on its disk, which ORAS children they have, and how they end.  *)
(* What the commands do to the registry is AutoindexCrud's matter, what a  *)
(* server does StreamingServer's.                                          *)
(*                                                                         *)
(* A process has an id, which the system gives again when the process is   *)
(* gone (in a container it is mostly the same), and a run, which is unique.*)
(***************************************************************************)
EXTENDS Configuration, FiniteSets

CONSTANTS Pids,
          Destinations,     \* layouts that autoindex-publish is asked to write
          Attempts,         \* names a command tries for its temporary directory
          Launches,         \* per run, [args, environment, file] of what may be started
          MaxRuns           \* bound of the model: processes started at all

VARIABLES proc,      \* the process with each id
          runs,      \* processes started so far
          dirs,      \* the directories on disk, None where there is none
          orphans,   \* ORAS children whose process was killed
          left       \* directories nobody will remove: a kill, or a failed removal

vars == <<proc, runs, dirs, orphans, left>>

(***************************************************************************)
(* cli::parse and the arguments of autoindex-publish.                      *)
(***************************************************************************)

Help    == [kind |-> "help", dry |-> FALSE]
Serve   == [kind |-> "serve", dry |-> FALSE]
Publish(d) == [kind |-> "publish", dry |-> FALSE, to |-> d]

HelpWords == {"help", "--help", "-h"}

\* Seeded fault: --yes and --dry-run together are taken for --dry-run.
ParseDeleteAny(options) ==
    IF options # <<>> /\ ToSet(options) \subseteq {"--yes", "--dry-run"}
    THEN [kind |-> "delete", dry |-> Head(options) = "--dry-run"] ELSE Invalid

\* Each option at most once, and exactly one of the two.
ParseDelete(options) ==
    IF options \in {<<"--yes">>, <<"--dry-run">>}
    THEN [kind |-> "delete", dry |-> options = <<"--dry-run">>] ELSE Invalid

ParseAutoindex(args) ==
    IF args = <<>> THEN Invalid
    ELSE IF args[1] \in HelpWords THEN IF Len(args) = 1 THEN Help ELSE Invalid
    ELSE IF args[1] \in {"create", "update"} /\ Len(args) \in 3..4 /\ (Len(args) = 4 => args[4] = "--dry-run")
         THEN [kind |-> args[1], dry |-> Len(args) = 4]
    ELSE IF args[1] = "delete" /\ Len(args) >= 2 THEN ParseDelete(SubSeq(args, 3, Len(args)))
    ELSE Invalid

\* autoindex-publish <source> <layout> [reference].
ParsePublish(args) ==
    IF args # <<>> /\ args[1] \in {"--help", "-h"} THEN Help
    ELSE IF Len(args) \in 2..3 /\ (Len(args) = 3 => args[3] = "autoindex.v1")
         THEN Publish(args[2])
    ELSE Invalid

Parse(args) ==
    IF args = <<>> THEN Serve
    ELSE IF args[1] = "autoindex-publish"          THEN ParsePublish(Tail(args))
    ELSE IF args[1] = "autoindex"                  THEN ParseAutoindex(Tail(args))
    ELSE IF args = <<"serve">>                     THEN Serve
    ELSE IF Len(args) = 1 /\ args[1] \in HelpWords THEN Help
    ELSE Invalid

(***************************************************************************)
(* Directories.                                                            *)
(***************************************************************************)

\* The names of the temporary directories: the id of the process and a counter.
Temporary == Pids \X (0..Attempts - 1)
Names     == Temporary \cup Destinations

\* Layouts are written where they are asked for, and not among those names.
ASSUME InvocationsAssumption ==
    /\ Attempts \in Nat \ {0} /\ MaxRuns \in Nat
    /\ Temporary \cap Destinations = {}
    /\ \A n \in 1..MaxRuns : \A l \in Launches[n] :
          /\ l.args \in Seq(ToSet(l.args))
          /\ Parse(l.args) # Invalid /\ Parse(l.args).kind = "publish" => Parse(l.args).to \in Destinations

\* The parts of a layout in the order they are written: files and manifest, then
\* oci-layout and the index.
LayoutParts == <<"blobs", "index.json">>
Whole       == Len(LayoutParts)

\* A directory has the run that made it, a layout of so many parts (None before
\* it is begun), and the credentials of a login.
New(run, layout) == [run |-> run, layout |-> layout, login |-> FALSE]

(***************************************************************************)
(* Processes.                                                              *)
(***************************************************************************)

Phases == {"none", "start", "load", "name", "fill", "layout", "login", "oras", "drop",
           "serve", "report", "ended"}

Ends == {"none", "help", "usage", "config", "panic", "start", "stopped", "refused", "preview",
         "names", "storage", "publication", "oras", "exists", "stdout", "done"}

\* The exit code: main.rs and bin/autoindex-publish.rs.
ExitCode(q) ==
    IF q.end \in {"help", "stopped", "preview", "done"} THEN 0
    ELSE IF q.end = "panic"                             THEN 101
    ELSE IF q.end \in {"usage", "config"}               THEN 2
    ELSE IF q.command.kind = "publish"                  THEN 2
    ELSE 1

Nobody == [pc |-> "none", end |-> "none", run |-> 0, launch |-> None, command |-> Invalid,
           config |-> Invalid, attempt |-> 0, work |-> None, child |-> "none"]

Alive(p) == proc[p].pc \notin {"none", "ended"}

To(p, pc)    == proc' = [proc EXCEPT ![p].pc = pc]

\* What is left of a process that has ended: how it ended.
Ended(why, command) == [Nobody EXCEPT !.pc = "ended", !.end = why, !.command = command]
End(p, why)         == proc' = [proc EXCEPT ![p] = Ended(why, @.command)]

\* A command that has its directory ends by dropping it first.
Drop(p, why) == proc' = [proc EXCEPT ![p].pc = "drop", ![p].end = why]

\* main: arguments, then the configuration, both before anything else is done.
Launch(p, l) ==
    LET command == Parse(l.args)
        config  == IF command # Invalid /\ command.kind \in {"serve", "create", "update", "delete"}
                   THEN FromEnv(l.file, l.environment) ELSE None
        end     == IF command = Invalid          THEN "usage"
                   ELSE IF command.kind = "help" THEN "help"
                   ELSE IF config = Panic        THEN "panic"
                   ELSE IF config = Invalid      THEN "config"
                   ELSE "none"
    IN  /\ ~Alive(p) /\ runs < MaxRuns
        /\ runs' = runs + 1
        /\ proc' = [proc EXCEPT ![p] =
              IF end # "none" THEN Ended(end, command)
              ELSE [Nobody EXCEPT !.pc = IF command.kind \in {"serve", "publish"} THEN "start" ELSE "load",
                                  !.run = runs + 1, !.launch = l,
                                  !.command = command, !.config = config]]
        /\ UNCHANGED <<dirs, orphans, left>>

\* serve: the listener starts or not, and Ctrl-C ends it.
Listen(p, ok) ==
    /\ proc[p].pc = "start" /\ proc[p].command.kind = "serve"
    /\ IF ok THEN To(p, "serve") ELSE End(p, "start")
    /\ UNCHANGED <<runs, dirs, orphans, left>>

CtrlC(p) ==
    /\ proc[p].pc = "serve" /\ End(p, "stopped")
    /\ UNCHANGED <<runs, dirs, orphans, left>>

\* execute up to the dry run: refused, shown, or to be carried out.
Check(p, ok) ==
    /\ proc[p].pc = "load"
    /\ CASE ~ok                         -> End(p, "refused")
         [] ok /\ proc[p].command.dry   -> End(p, "preview")
         [] ok /\ ~proc[p].command.dry  -> To(p, "name")
    /\ UNCHANGED <<runs, dirs, orphans, left>>

\* Seeded faults of TryName: the counter stays; a directory that is there will do;
\* the counter goes one too far; it is given up at the first name that is taken.
TryNameAgain(p) ==
    LET name == <<p, proc[p].attempt>> IN
    /\ proc[p].pc = "name" /\ dirs[name] = None
    /\ proc' = [proc EXCEPT ![p].pc = "fill", ![p].work = name]
    /\ dirs' = [dirs EXCEPT ![name] = New(proc[p].run, None)]
    /\ UNCHANGED <<runs, orphans, left>>

TryNameAnyway(p) ==
    LET name == <<p, proc[p].attempt>> IN
    /\ proc[p].pc = "name"
    /\ proc' = [proc EXCEPT ![p].pc = "fill", ![p].work = name]
    /\ dirs' = [dirs EXCEPT ![name] = New(proc[p].run, None)]
    /\ UNCHANGED <<runs, orphans, left>>

TryNameOver(p) ==
    \/ TryNameAgain(p)
    \/ /\ proc[p].pc = "name" /\ dirs[<<p, proc[p].attempt>>] # None
       /\ proc' = [proc EXCEPT ![p].attempt = @ + 1]
       /\ UNCHANGED <<runs, dirs, orphans, left>>

TryNameOnce(p) ==
    \/ TryNameAgain(p)
    \/ /\ proc[p].pc = "name" /\ dirs[<<p, proc[p].attempt>>] # None
       /\ End(p, "names")
       /\ UNCHANGED <<runs, dirs, orphans, left>>

\* TemporaryDirectory::new: one attempt.
TryName(p) ==
    LET q    == proc[p]
        name == <<p, q.attempt>>
    IN  /\ q.pc = "name"
        /\ \/ /\ dirs[name] = None
              /\ proc' = [proc EXCEPT ![p].pc = "fill", ![p].work = name]
              /\ dirs' = [dirs EXCEPT ![name] = New(q.run, None)]
           \/ /\ dirs[name] # None
              /\ IF q.attempt + 1 < Attempts
                 THEN proc' = [proc EXCEPT ![p].attempt = @ + 1]
                 ELSE End(p, "names")
              /\ UNCHANGED dirs
           \/ /\ dirs[name] = None           \* the directory cannot be made
              /\ End(p, "storage") /\ UNCHANGED dirs
        /\ UNCHANGED <<runs, orphans, left>>

\* Where a command goes when its content is there: a delete of everything needs
\* no layout.  With credentials ORAS logs in first.
ToOras(p) == IF proc[p].config.username # None THEN "login" ELSE "oras"

Fill(p, empty) ==
    /\ proc[p].pc = "fill"
    /\ empty => proc[p].command.kind = "delete"
    /\ IF empty
       THEN proc' = [proc EXCEPT ![p].pc = ToOras(p), ![p].child = "delete"] /\ UNCHANGED dirs
       ELSE /\ proc' = [proc EXCEPT ![p].pc = "layout", ![p].child = "cp"]
            /\ dirs' = [dirs EXCEPT ![proc[p].work].layout = 0]
    /\ UNCHANGED <<runs, orphans, left>>

FillFails(p) ==
    /\ proc[p].pc = "fill" /\ Drop(p, "storage")
    /\ UNCHANGED <<runs, dirs, orphans, left>>

(***************************************************************************)
(* write_oci_layout.                                                       *)
(***************************************************************************)

\* Seeded fault: the clean-up covers the creation of the directory too.
BeginLayoutOver(p) ==
    LET d == proc[p].command.to IN
    /\ proc[p].pc = "start" /\ proc[p].command.kind = "publish"
    /\ \/ /\ dirs[d] = None
          /\ proc' = [proc EXCEPT ![p].pc = "layout", ![p].work = d]
          /\ dirs' = [dirs EXCEPT ![d] = New(proc[p].run, 0)]
       \/ /\ dirs[d] # None
          /\ End(p, "exists") /\ dirs' = [dirs EXCEPT ![d] = None]
    /\ UNCHANGED <<runs, orphans, left>>

\* autoindex-publish: the source is read, then the destination must be new.
BeginLayout(p) ==
    LET d == proc[p].command.to IN
    /\ proc[p].pc = "start" /\ proc[p].command.kind = "publish"
    /\ \/ /\ dirs[d] = None
          /\ proc' = [proc EXCEPT ![p].pc = "layout", ![p].work = d]
          /\ dirs' = [dirs EXCEPT ![d] = New(proc[p].run, 0)]
       \/ dirs[d] # None /\ End(p, "exists") /\ UNCHANGED dirs
       \/ End(p, "publication") /\ UNCHANGED dirs
    /\ UNCHANGED <<runs, orphans, left>>

WritePart(p) ==
    LET q == proc[p]
        n == dirs[q.work].layout + 1
    IN  /\ q.pc = "layout"
        /\ dirs' = [dirs EXCEPT ![q.work].layout = n]
        /\ IF n < Whole THEN UNCHANGED proc
           ELSE To(p, IF q.command.kind = "publish" THEN "report" ELSE ToOras(p))
        /\ UNCHANGED <<runs, orphans, left>>

\* A write fails: the layout is removed, if the disk lets it.
LayoutFails(p) ==
    LET q == proc[p] IN
    /\ q.pc = "layout"
    /\ IF q.command.kind = "publish"
       THEN /\ End(p, "publication")
            /\ \/ dirs' = [dirs EXCEPT ![q.work] = None] /\ UNCHANGED left
               \/ left' = left \cup {q.work} /\ UNCHANGED dirs
       ELSE /\ Drop(p, "publication")
            /\ dirs' \in {[dirs EXCEPT ![q.work].layout = None], dirs}
            /\ UNCHANGED left
    /\ UNCHANGED <<runs, orphans>>

\* The line that says what was built; without a reader it fails, and so does the
\* command, with the layout in place.
Report(p, ok) ==
    /\ proc[p].pc = "report" /\ End(p, IF ok THEN "done" ELSE "stdout")
    /\ UNCHANGED <<runs, dirs, orphans, left>>

(***************************************************************************)
(* run_oras, and the children themselves.                                  *)
(***************************************************************************)

\* login_oras: the child keeps the credentials in the directory; it may do so and
\* fail, or not start at all.  When the password cannot be written to it the child
\* is not waited for; but the pipe breaks only when ORAS has closed its end, which
\* it does by ending, so that this is one more way in which a child fails.
LoginEnds(p, ok) ==
    LET q == proc[p] IN
    /\ q.pc = "login"
    /\ IF ok THEN To(p, "oras") ELSE Drop(p, "oras")
    /\ dirs' \in {[dirs EXCEPT ![q.work].login = TRUE]} \cup (IF ok THEN {} ELSE {dirs})
    /\ UNCHANGED <<runs, orphans, left>>

OrasEnds(p, ok) ==
    /\ proc[p].pc = "oras" /\ Drop(p, IF ok THEN "done" ELSE "oras")
    /\ UNCHANGED <<runs, dirs, orphans, left>>

\* Seeded fault: the command exits from where it is.
DropWorkNever(p) ==
    /\ proc[p].pc = "drop" /\ End(p, proc[p].end)
    /\ UNCHANGED <<runs, dirs, orphans, left>>

\* TemporaryDirectory::drop, and the end of main.
DropWork(p) ==
    /\ proc[p].pc = "drop" /\ End(p, proc[p].end)
    /\ \/ dirs' = [dirs EXCEPT ![proc[p].work] = None] /\ UNCHANGED left
       \/ left' = left \cup {proc[p].work} /\ UNCHANGED dirs
    /\ UNCHANGED <<runs, orphans>>

\* The ORAS child a process waits for, as what it works with.
Child(p) == [task |-> IF proc[p].pc = "login" THEN "login" ELSE proc[p].child,
             dir |-> proc[p].work, run |-> proc[p].run, login |-> proc[p].config.username # None]
Waits(p) == proc[p].pc \in {"login", "oras"}

\* A signal the process does not handle: alone, or with its child.  The id is free.
Kill(p, alone) ==
    /\ Alive(p)
    /\ proc' = [proc EXCEPT ![p] = Nobody]
    /\ left' = IF proc[p].work # None THEN left \cup {proc[p].work} ELSE left
    /\ orphans' = IF Waits(p) /\ alone THEN orphans \cup {Child(p)} ELSE orphans
    /\ UNCHANGED <<runs, dirs>>

OrphanEnds(c) ==
    /\ orphans' = orphans \ {c}
    /\ dirs' = IF c.task = "login" /\ dirs[c.dir] # None
               THEN [dirs EXCEPT ![c.dir].login = TRUE] ELSE dirs
    /\ UNCHANGED <<proc, runs, left>>

Step(p) ==
    \/ \E ok \in BOOLEAN : Listen(p, ok) \/ Check(p, ok) \/ Report(p, ok)
    \/ TryName(p) \/ FillFails(p) \/ DropWork(p)
    \/ \E empty \in BOOLEAN : Fill(p, empty)
    \/ BeginLayout(p) \/ WritePart(p) \/ LayoutFails(p)

Oras(p) == \E ok \in BOOLEAN : LoginEnds(p, ok) \/ OrasEnds(p, ok)

Init ==
    /\ proc = [p \in Pids |-> Nobody] /\ runs = 0
    /\ dirs = [n \in Names |-> None] /\ orphans = {} /\ left = {}

Next ==
    \/ \E p \in Pids : \/ runs < MaxRuns /\ \E l \in Launches[runs + 1] : Launch(p, l)
                       \/ Step(p) \/ Oras(p) \/ CtrlC(p)
                       \/ \E alone \in BOOLEAN : Kill(p, alone)
    \/ \E c \in orphans : OrphanEnds(c)

\* A process takes its own steps; every wait of "load" and "fill" is for a request
\* with a timeout.  Nothing is assumed of ORAS, which is waited for without one.
Spec == Init /\ [][Next]_vars /\ \A p \in Pids : WF_vars(Step(p))

Contents == [run : 1..MaxRuns, layout : 0..Whole \cup {None}, login : BOOLEAN]

ASSUME NoneAssumption == None \notin Names \cup Contents

TypeOK ==
    /\ runs \in 0..MaxRuns
    /\ \A p \in Pids :
          /\ proc[p].pc \in Phases /\ proc[p].end \in Ends
          /\ proc[p].run \in 0..runs /\ proc[p].attempt \in 0..Attempts - 1
          /\ proc[p].work \in Names \cup {None}
          /\ proc[p].pc = "ended" => ExitCode(proc[p]) \in {0, 1, 2, 101}
    /\ dirs \in [Names -> Contents \cup {None}]
    /\ left \subseteq Names
    /\ \A c \in orphans : c.dir \in Temporary

(***************************************************************************)
(* Properties.                                                             *)
(***************************************************************************)

\* Whatever the file and the environment say together, a process that goes on with
\* them speaks in clear only to a loopback address, when it was asked to and the
\* environment did not take that back; and its upstream is one of its hosts, its
\* credentials a pair, its bounds in order (README.md, "Dependency choices").
SettingsAreSafe ==
    \A p \in Pids : proc[p].config \notin {None, Invalid, Panic} =>
       LET c == proc[p].config
           e == proc[p].launch.environment.values
       IN  /\ c.upstream.scheme = "http" =>
                 /\ c.insecure /\ c.upstream.host \in Loopback
                 /\ "ALLOW_INSECURE_LOOPBACK" \in DOMAIN e => e["ALLOW_INSECURE_LOOPBACK"] = "true"
           /\ Lower(c.upstream.host) \in c.hosts
           /\ (c.username = None) = (c.password = None)
           /\ 0 < c.connect /\ c.connect <= c.request /\ c.request <= MaxTimeout
           /\ \A k \in LimitKeys : c.limits[k] \in Limits[k]

\* What follows the operands: one of a delete, two of the others.  An operand may be
\* spelled like an option.
Options(args) == ToSet(SubSeq(args, IF args[2] = "delete" THEN 4 ELSE 5, Len(args)))

\* A command changes the registry only when it was told to: not in a dry run, and
\* a delete not without --yes (README.md, "destructive delete requires --yes, and
\* --dry-run previews without publishing").
ChangesAreAskedFor ==
    \A p \in Pids : Waits(p) =>
       LET args == proc[p].launch.args
       IN  /\ "--dry-run" \notin Options(args)
           /\ args[2] = "delete" => "--yes" \in Options(args)

\* Only a kill, or a disk that refuses the removal, leaves anything of a process
\* behind but the layout it was asked for, and that is whole.
NothingIsLeft ==
    \A n \in Names : dirs[n] # None =>
       \/ n \in left
       \/ \E p \in Pids : Alive(p) /\ proc[p].run = dirs[n].run /\ proc[p].work = n
       \/ n \in Destinations /\ dirs[n].layout = Whole

\* An ORAS child, also one that outlived its command, works with the directory its
\* command made for it: the layout is whole, and the login is there.
ChildrenReadTheirOwn ==
    \A c \in orphans \cup {Child(p) : p \in {p \in Pids : Waits(p)}} :
       /\ dirs[c.dir] # None /\ dirs[c.dir].run = c.run
       /\ c.task = "cp" => dirs[c.dir].layout = Whole
       /\ c.login /\ c.task # "login" => dirs[c.dir].login

\* A command finds no name for its directory only when as many as it tries were left
\* behind under its own id: fewer killed commands do not block the next one.
NamesRunOutByKillsOnly ==
    \A p \in Pids : proc[p].end = "names" => {p} \X (0..Attempts - 1) \subseteq left

\* A step that changes what a run has put on the disk is that run's own, or its
\* child's: no process takes, fills or removes what another one made and still
\* uses, or left.
RunsKeepApart ==
    [][\A n \in Names : dirs[n] # None /\ dirs'[n] # dirs[n] =>
          \/ \E p \in Pids : (Step(p) \/ Oras(p)) /\ proc[p].run = dirs[n].run
          \/ \E c \in orphans : OrphanEnds(c) /\ c.run = dirs[n].run]_vars

\* A command comes to its end, or waits for ORAS; it waits for nothing else.
CommandsEndOrWaitForOras ==
    \A p \in Pids : Alive(p) ~> (~Alive(p) \/ Waits(p) \/ proc[p].pc = "serve")
=============================================================================
