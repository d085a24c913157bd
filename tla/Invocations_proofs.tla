-------------------------- MODULE Invocations_proofs --------------------------
(***************************************************************************)
(* Processes on one host, for any ids, arguments, settings and number of   *)
(* runs: what a run has put on the disk stays its own, its ORAS child      *)
(* finds it there, and only kills and a refused removal leave any of it.   *)
(*                                                                         *)
(* The argument: the runs of two processes differ and a directory carries  *)
(* the run that made it, so that no two processes work in one directory;   *)
(* what is left is in nobody's hands; and a step of a process touches      *)
(* nothing but its own directory or one that was not there.                *)
(***************************************************************************)
EXTENDS Invocations, SequenceTheorems, TLAPS

(***************************************************************************)
(* Types.                                                                  *)
(***************************************************************************)

AllLaunches == UNION {Launches[n] : n \in 1..MaxRuns}

Commands == {Parse(l.args) : l \in AllLaunches} \cup {Invalid}
Configs  == {FromEnv(l.file, l.environment) : l \in AllLaunches} \cup {None, Invalid}

Procs == [pc : Phases, end : Ends, run : 0..MaxRuns, launch : AllLaunches \cup {None},
          command : Commands, config : Configs, attempt : 0..(Attempts - 1),
          work : Names \cup {None}, child : {"none", "cp", "delete"}]

Children == [task : {"login", "cp", "delete", "none"}, dir : Names \cup {None},
             run : 0..MaxRuns, login : BOOLEAN]

Typed ==
    /\ runs \in 0..MaxRuns
    /\ proc \in [Pids -> Procs]
    /\ dirs \in [Names -> Contents \cup {None}]
    /\ left \subseteq Names
    /\ orphans \subseteq Children

(***************************************************************************)
(* The invariant.                                                          *)
(***************************************************************************)

Working   == {"fill", "layout", "login", "oras", "drop", "report"}
Commanding == {"load", "name", "fill", "login", "oras", "drop"}

\* Where a process is says what it has.
Placed(p) ==
    LET q == proc[p] IN
    /\ q.run <= runs
    /\ Alive(p) => q.run >= 1 /\ q.command # Invalid
    /\ q.pc \in Working <=> q.work # None
    /\ q.pc \in Commanding => q.command.kind # "publish"
    /\ q.work # None => /\ dirs[q.work] # None /\ dirs[q.work].run = q.run
                        /\ q.work \notin left
                        /\ IF q.command.kind = "publish" THEN q.work \in Destinations
                           ELSE q.work \in {p} \X (0..(Attempts - 1))
    /\ q.pc = "layout" => /\ dirs[q.work].layout \in 0..(Whole - 1)
                          /\ q.command.kind # "publish" => q.child = "cp"
    /\ q.pc = "report" => q.command.kind = "publish" /\ dirs[q.work].layout = Whole
    /\ q.pc \in {"login", "oras"} /\ q.child = "cp" => dirs[q.work].layout = Whole
    /\ q.pc = "oras" /\ q.config.username # None => dirs[q.work].login

\* The names a process found taken, and that nobody will free.
NamesTaken(p) ==
    /\ proc[p].pc \in {"load", "name"} => {p} \X (0..(proc[p].attempt - 1)) \subseteq left
    /\ proc[p].end = "names" => {p} \X (0..(Attempts - 1)) \subseteq left

RunsDiffer ==
    \A p, q \in Pids : p # q /\ Alive(p) /\ Alive(q) => proc[p].run # proc[q].run

LeftIsThere == \A n \in left : dirs[n] # None

\* An orphan has what its command had, and the command's directory is left.
Orphaned(c) ==
    /\ c.dir \in left /\ c.dir \in Temporary /\ dirs[c.dir].run = c.run
    /\ c.task = "cp" => dirs[c.dir].layout = Whole
    /\ c.login /\ c.task # "login" => dirs[c.dir].login

Explained(n) ==
    \/ n \in left
    \/ \E p \in Pids : Alive(p) /\ proc[p].run = dirs[n].run /\ proc[p].work = n
    \/ n \in Destinations /\ dirs[n].layout = Whole

IInv ==
    /\ Typed
    /\ \A p \in Pids : Placed(p)
    /\ \A p \in Pids : NamesTaken(p)
    /\ RunsDiffer
    /\ LeftIsThere
    /\ \A c \in orphans : Orphaned(c)
    /\ \A n \in Names : dirs[n] # None => Explained(n)

(***************************************************************************)
(* A step of one process.                                                  *)
(***************************************************************************)

LEMMA WholeLayout == Whole = 2
BY DEF Whole, LayoutParts

\* Two processes do not work in one directory, and nobody in one that is left.
LEMMA OwnDirectories ==
    ASSUME IInv, NEW p \in Pids, Alive(p), NEW q \in Pids, q # p, proc[q].work # None
    PROVE  proc[q].work # proc[p].work /\ dirs[proc[q].work] # None
<1>1. Placed(p) /\ Placed(q)
  BY DEF IInv
<1>2. Alive(q)
  BY <1>1 DEF Placed, Working, Alive
<1>3. proc[p].run # proc[q].run
  BY <1>2 DEF IInv, RunsDiffer
<1> QED
  BY <1>1, <1>3 DEF Placed

\* What p does to the disk: to its own directory, or to one that was not there.
Touches(p) ==
    /\ \A n \in Names : dirs'[n] = dirs[n] \/ dirs[n] = None \/ n = proc[p].work
    /\ left \subseteq left' /\ left' \subseteq left \cup ({proc[p].work} \ {None})

LEMMA OthersStay ==
    ASSUME IInv, NEW p \in Pids, Alive(p) \/ proc[p].work = None, Touches(p),
           \A q \in Pids \ {p} : proc'[q] = proc[q], runs <= runs', runs' \in Nat
    PROVE  \A q \in Pids \ {p} : Placed(q)' /\ NamesTaken(q)'
<1> SUFFICES ASSUME NEW q \in Pids, q # p
             PROVE  Placed(q)' /\ NamesTaken(q)'
  OBVIOUS
<1>1. Placed(q) /\ NamesTaken(q) /\ proc'[q] = proc[q] /\ proc[q] \in Procs /\ runs \in Nat
      /\ proc[p] \in Procs
  BY DEF IInv, Typed
<1>2. NamesTaken(q)'
  BY <1>1 DEF NamesTaken, Touches
<1>3. ASSUME proc[q].work # None
      PROVE  dirs'[proc[q].work] = dirs[proc[q].work] /\ proc[q].work \notin left'
  <2>1. proc[q].work # proc[p].work /\ dirs[proc[q].work] # None
    <3>1. CASE Alive(p)
      BY <1>3, <3>1, OwnDirectories
    <3>2. CASE proc[p].work = None
      BY <1>1, <1>3, <3>2 DEF Placed
    <3> QED
      BY <3>1, <3>2
  <2>2. proc[q].work \in Names
    BY <1>1, <1>3 DEF Procs
  <2> QED
    BY <1>1, <1>3, <2>1, <2>2 DEF Touches, Placed
<1>4. proc[q].run <= runs'
  BY <1>1 DEF Placed, Procs
<1>5. Placed(q)'
  <2>1. CASE proc[q].work = None
    BY <1>1, <1>4, <2>1 DEF Placed, Alive, Working
  <2>2. CASE proc[q].work # None
    BY <1>1, <1>3, <1>4, <2>2 DEF Placed, Alive
  <2> QED
    BY <2>1, <2>2
<1> QED
  BY <1>2, <1>5

\* Where p's directory goes, and what else p makes.
Accounted(p) ==
    \A n \in Names : dirs'[n] # None /\ (dirs'[n] # dirs[n] \/ n = proc[p].work) =>
       \/ n \in left'
       \/ Alive(p)' /\ proc'[p].run = dirs'[n].run /\ proc'[p].work = n
       \/ n \in Destinations /\ dirs'[n].layout = Whole

\* What remains to be shown of a step of p.
LEMMA OneSteps ==
    ASSUME IInv, NEW p \in Pids, Alive(p), Touches(p), Accounted(p), Typed',
           \A q \in Pids \ {p} : proc'[q] = proc[q],
           proc'[p].run = proc[p].run \/ ~(Alive(p)'), runs' = runs,
           \A c \in orphans' \ orphans : Orphaned(c)',
           Placed(p)', NamesTaken(p)', \A n \in left' \ left : dirs'[n] # None
    PROVE  IInv'
<1>1. Placed(p) /\ proc[p] \in Procs /\ runs \in Nat
  BY DEF IInv, Typed
<1>2. \A q \in Pids : Placed(q)' /\ NamesTaken(q)'
  BY <1>1, OthersStay
<1>3. RunsDiffer'
  BY DEF IInv, RunsDiffer, Alive
<1>4. \A n \in left : dirs'[n] = dirs[n] /\ dirs[n] # None /\ n \in Names
  BY <1>1, NoneAssumption DEF IInv, Typed, LeftIsThere, Touches, Placed
<1>5. LeftIsThere'
  BY <1>4 DEF LeftIsThere
<1>6. \A c \in orphans' : Orphaned(c)'
  BY <1>4 DEF IInv, Orphaned, Touches
<1>7. ASSUME NEW n \in Names, dirs'[n] # None
      PROVE  Explained(n)'
  <2>1. CASE dirs'[n] # dirs[n] \/ n = proc[p].work
    BY <1>7, <2>1 DEF Accounted, Explained
  <2>2. CASE dirs'[n] = dirs[n] /\ n # proc[p].work
    <3> DEFINE gone == n \in left \/ (n \in Destinations /\ dirs[n].layout = Whole)
               held == \E q \in Pids : Alive(q) /\ proc[q].run = dirs[n].run /\ proc[q].work = n
    <3>1. gone \/ held
      <4>1. Explained(n)
        BY <1>7, <2>2 DEF IInv
      <4> QED
        BY <4>1 DEF Explained
    <3>2. CASE gone
      <4>1. n \in left' \/ (n \in Destinations /\ dirs'[n].layout = Whole)
        BY <2>2, <3>2 DEF Touches
      <4> QED
        BY <4>1 DEF Explained
    <3>3. CASE held
      <4>1. PICK q \in Pids : Alive(q) /\ proc[q].run = dirs[n].run /\ proc[q].work = n
        BY <3>3
      <4>2. proc'[q] = proc[q]
        BY <2>2, <4>1
      <4> QED
        BY <2>2, <4>1, <4>2 DEF Explained, Alive
    <3> QED
      BY <3>1, <3>2, <3>3
  <2> QED
    BY <2>1, <2>2
<1> QED
  BY <1>2, <1>3, <1>5, <1>6, <1>7 DEF IInv

(***************************************************************************)
(* The actions.                                                            *)
(***************************************************************************)

\* A step in memory: to another phase of the same directory, or to the end.
LEMMA QuietSteps ==
    ASSUME IInv, NEW p \in Pids, Alive(p), UNCHANGED <<runs, dirs, orphans, left>>,
           proc' \in [Pids -> Procs], \A q \in Pids \ {p} : proc'[q] = proc[q],
           Placed(p)', NamesTaken(p)',
           \/ /\ proc[p].work = None
              /\ proc'[p].run = proc[p].run \/ ~(Alive(p)')
           \/ /\ Alive(p)' /\ proc'[p].run = proc[p].run /\ proc'[p].work = proc[p].work
           \/ /\ ~(Alive(p)') /\ proc[p].work \in Destinations
              /\ dirs[proc[p].work].layout = Whole
    PROVE  IInv'
<1>1. Placed(p) /\ Typed
  BY DEF IInv
<1>2. Typed'
  BY <1>1 DEF Typed
<1>3. Touches(p)
  BY DEF Touches
<1>4. Accounted(p)
  BY <1>1, NoneAssumption DEF Accounted, Placed
<1> QED
  BY <1>2, <1>3, <1>4, OneSteps

LEMMA EndFacts ==
    ASSUME IInv, NEW p \in Pids, Alive(p), NEW why \in Ends, End(p, why)
    PROVE  /\ proc' \in [Pids -> Procs] /\ \A q \in Pids \ {p} : proc'[q] = proc[q]
           /\ ~(Alive(p)') /\ proc'[p].end = why /\ proc'[p].pc = "ended"
           /\ UNCHANGED runs => Placed(p)'
           /\ why # "names" => NamesTaken(p)'
<1>1. proc \in [Pids -> Procs] /\ Placed(p) /\ runs \in Nat
  BY DEF IInv, Typed
<1>2. Attempts \in Nat /\ Attempts > 0 /\ MaxRuns \in Nat
  BY InvocationsAssumption
<1>3. proc' = [proc EXCEPT ![p] = Ended(why, proc[p].command)]
  BY DEF End
<1>4. /\ Ended(why, proc[p].command) \in Procs
      /\ Ended(why, proc[p].command).pc = "ended" /\ Ended(why, proc[p].command).run = 0
      /\ Ended(why, proc[p].command).work = None /\ Ended(why, proc[p].command).end = why
  <2>1. "none" \in Phases /\ "none" \in Ends /\ "ended" \in Phases /\ Invalid \in Configs
        /\ Invalid \in Commands /\ proc[p].command \in Commands
    BY <1>1 DEF Phases, Ends, Configs, Commands, Procs
  <2>2. 0 \in 0..MaxRuns /\ 0 \in 0..(Attempts - 1)
    BY <1>2
  <2>3. Nobody \in Procs /\ Nobody.run = 0 /\ Nobody.work = None
    BY <2>1, <2>2 DEF Nobody, Procs
  <2> QED
    BY <2>1, <2>3 DEF Ended, Procs
<1>5. /\ proc'[p] = Ended(why, proc[p].command) /\ proc' \in [Pids -> Procs]
      /\ \A q \in Pids \ {p} : proc'[q] = proc[q]
  BY <1>1, <1>3, <1>4
<1>6. ~(Alive(p)') /\ proc'[p].end = why /\ proc'[p].pc = "ended"
  BY <1>4, <1>5 DEF Alive
<1>7. why # "names" => NamesTaken(p)'
  BY <1>4, <1>5 DEF NamesTaken
<1>8. ASSUME UNCHANGED runs
      PROVE  Placed(p)'
  BY <1>1, <1>4, <1>5, <1>6, <1>8 DEF Placed, Working, Commanding
<1> QED
  BY <1>5, <1>6, <1>7, <1>8

LEMMA ToFacts ==
    ASSUME IInv, NEW p \in Pids, NEW pc \in Phases, To(p, pc)
    PROVE  /\ proc' \in [Pids -> Procs] /\ \A q \in Pids \ {p} : proc'[q] = proc[q]
           /\ proc'[p] = [proc[p] EXCEPT !.pc = pc]
           /\ proc'[p].pc = pc /\ proc'[p].run = proc[p].run /\ proc'[p].work = proc[p].work
           /\ proc'[p].command = proc[p].command /\ proc'[p].config = proc[p].config
           /\ proc'[p].child = proc[p].child /\ proc'[p].end = proc[p].end
           /\ proc'[p].attempt = proc[p].attempt
<1>1. proc \in [Pids -> Procs] /\ proc' = [proc EXCEPT ![p].pc = pc]
  BY DEF IInv, Typed, To
<1> QED
  BY <1>1 DEF Procs

LEMMA ListenStep ==
    ASSUME IInv, NEW p \in Pids, NEW ok \in BOOLEAN, Listen(p, ok)
    PROVE  IInv'
<1>1. Placed(p) /\ NamesTaken(p) /\ Alive(p) /\ proc[p].work = None
  BY DEF IInv, Listen, Alive, Placed, Working
<1>2. CASE ok
  <2>1. To(p, "serve") /\ "serve" \in Phases
    BY <1>2 DEF Listen, Phases
  <2>2. Placed(p)' /\ NamesTaken(p)'
    BY <1>1, <2>1, ToFacts DEF Placed, NamesTaken, Listen, Alive, Working, Commanding
  <2> QED
    BY <1>1, <2>1, <2>2, ToFacts, QuietSteps DEF Listen
<1>3. CASE ~ok
  <2>1. End(p, "start") /\ "start" \in Ends
    BY <1>3 DEF Listen, Ends
  <2> QED
    BY <1>1, <2>1, EndFacts, QuietSteps DEF Listen
<1> QED
  BY <1>2, <1>3

LEMMA CtrlCStep ==
    ASSUME IInv, NEW p \in Pids, CtrlC(p)
    PROVE  IInv'
<1>1. Placed(p) /\ Alive(p) /\ proc[p].work = None
  BY DEF IInv, CtrlC, Alive, Placed, Working
<1>2. End(p, "stopped") /\ "stopped" \in Ends
  BY DEF CtrlC, Ends
<1> QED
  BY <1>1, <1>2, EndFacts, QuietSteps DEF CtrlC

LEMMA CheckStep ==
    ASSUME IInv, NEW p \in Pids, NEW ok \in BOOLEAN, Check(p, ok)
    PROVE  IInv'
<1>1. Placed(p) /\ NamesTaken(p) /\ Alive(p) /\ proc[p].work = None
  BY DEF IInv, Check, Alive, Placed, Working
<1>2. ASSUME NEW why \in {"refused", "preview"}, End(p, why)
      PROVE  IInv'
  <2>1. why \in Ends /\ why # "names"
    BY DEF Ends
  <2> QED
    BY <1>1, <1>2, <2>1, EndFacts, QuietSteps DEF Check
<1>3. ASSUME To(p, "name")
      PROVE  IInv'
  <2>1. "name" \in Phases
    BY DEF Phases
  <2>2. Placed(p)' /\ NamesTaken(p)'
    BY <1>1, <1>3, <2>1, ToFacts DEF Placed, NamesTaken, Check, Alive, Working, Commanding
  <2> QED
    BY <1>1, <1>3, <2>1, <2>2, ToFacts, QuietSteps DEF Check
<1> QED
  BY <1>2, <1>3 DEF Check

LEMMA DropFacts ==
    ASSUME IInv, NEW p \in Pids, NEW why \in Ends, Drop(p, why)
    PROVE  /\ proc' \in [Pids -> Procs] /\ \A q \in Pids \ {p} : proc'[q] = proc[q]
           /\ proc'[p].pc = "drop" /\ proc'[p].end = why
           /\ proc'[p].run = proc[p].run /\ proc'[p].work = proc[p].work
           /\ proc'[p].command = proc[p].command
<1>1. proc \in [Pids -> Procs] /\ proc' = [proc EXCEPT ![p].pc = "drop", ![p].end = why]
  BY DEF IInv, Typed, Drop
<1>2. "drop" \in Phases
  BY DEF Phases
<1> QED
  BY <1>1, <1>2 DEF Procs

LEMMA EnterFacts ==
    ASSUME IInv, NEW p \in Pids, NEW pc \in Phases, NEW n \in Names,
           proc' = [proc EXCEPT ![p].pc = pc, ![p].work = n]
    PROVE  /\ proc' \in [Pids -> Procs] /\ \A q \in Pids \ {p} : proc'[q] = proc[q]
           /\ proc'[p].pc = pc /\ proc'[p].work = n /\ proc'[p].run = proc[p].run
           /\ proc'[p].command = proc[p].command /\ proc'[p].end = proc[p].end
<1>1. proc \in [Pids -> Procs]
  BY DEF IInv, Typed
<1> QED
  BY <1>1 DEF Procs

\* A new directory of p.
LEMMA NewDirectory ==
    ASSUME IInv, NEW p \in Pids, Alive(p), proc[p].work = None,
           NEW n \in Names, dirs[n] = None, NEW layout \in 0..Whole \cup {None},
           dirs' = [dirs EXCEPT ![n] = New(proc[p].run, layout)],
           UNCHANGED <<runs, orphans, left>>, proc' \in [Pids -> Procs],
           \A q \in Pids \ {p} : proc'[q] = proc[q],
           Alive(p)', proc'[p].run = proc[p].run, proc'[p].work = n,
           Placed(p)', NamesTaken(p)'
    PROVE  IInv'
<1>1. Typed /\ Placed(p) /\ proc[p] \in Procs /\ proc[p].run \in 1..MaxRuns
  BY InvocationsAssumption DEF IInv, Typed, Placed, Procs
<1>2. New(proc[p].run, layout) \in Contents /\ New(proc[p].run, layout).run = proc[p].run
  BY <1>1 DEF New, Contents
<1>3. Typed'
  BY <1>1, <1>2 DEF Typed
<1>4. Touches(p)
  BY <1>1 DEF Touches, Typed
<1>5. Accounted(p)
  BY <1>1, <1>2, NoneAssumption DEF Accounted, Typed
<1> QED
  BY <1>3, <1>4, <1>5, OneSteps

LEMMA TryNameStep ==
    ASSUME IInv, NEW p \in Pids, TryName(p)
    PROVE  IInv'
<1> DEFINE name == <<p, proc[p].attempt>>
<1>1. /\ Placed(p) /\ NamesTaken(p) /\ Alive(p) /\ proc[p].work = None /\ proc[p].pc = "name"
      /\ proc[p] \in Procs /\ Attempts \in Nat /\ Attempts > 0
      /\ proc[p].end # "names" \/ {p} \X (0..(Attempts - 1)) \subseteq left
  BY InvocationsAssumption DEF IInv, TryName, Alive, Placed, Working, Typed, NamesTaken
<1>2. name \in Temporary /\ name \in Names /\ name \in {p} \X (0..(Attempts - 1))
      /\ proc[p].attempt \in 0..(Attempts - 1)
  BY <1>1 DEF Temporary, Names, Procs
<1>3. proc \in [Pids -> Procs] /\ UNCHANGED <<runs, orphans, left>>
  BY DEF IInv, Typed, TryName
<1>4. CASE /\ dirs[name] = None
           /\ proc' = [proc EXCEPT ![p].pc = "fill", ![p].work = name]
           /\ dirs' = [dirs EXCEPT ![name] = New(proc[p].run, None)]
  <2>1. "fill" \in Phases
    BY DEF Phases
  <2>2. /\ proc' \in [Pids -> Procs] /\ \A q \in Pids \ {p} : proc'[q] = proc[q]
        /\ proc'[p].pc = "fill" /\ proc'[p].work = name /\ proc'[p].run = proc[p].run
        /\ proc'[p].command = proc[p].command /\ proc'[p].end = proc[p].end
    BY <1>2, <1>4, <2>1, EnterFacts
  <2>3. dirs'[name] # None /\ dirs'[name].run = proc[p].run
    <3>1. New(proc[p].run, None) \in Contents /\ New(proc[p].run, None).run = proc[p].run
      BY <1>1, InvocationsAssumption DEF New, Contents, Placed, Procs, IInv, Typed
    <3>2. dirs'[name] = New(proc[p].run, None)
      BY <1>2, <1>4 DEF IInv, Typed
    <3> QED
      BY <3>1, <3>2, NoneAssumption
  <2>4. name \notin left
    BY <1>4 DEF IInv, LeftIsThere
  <2>5. name # None
    BY <1>2, NoneAssumption
  <2>6. Placed(p)'
    BY <1>1, <1>2, <1>3, <2>2, <2>3, <2>4, <2>5 DEF Placed, Alive, Working, Commanding
  <2>7. NamesTaken(p)'
    BY <1>1, <1>3, <2>2 DEF NamesTaken
  <2> QED
    BY <1>1, <1>2, <1>3, <1>4, <2>2, <2>6, <2>7, NewDirectory DEF Alive
<1>5. ASSUME dirs[name] # None
      PROVE  name \in left
  <2>1. Explained(name)
    BY <1>2, <1>5 DEF IInv
  <2>2. name \notin Destinations
    BY <1>2, InvocationsAssumption
  <2>3. ASSUME NEW q \in Pids, proc[q].work = name
        PROVE  FALSE
    <3>1. Placed(q)
      BY DEF IInv
    <3>2. name # None
      BY <1>2, NoneAssumption
    <3>3. q = p
      BY <1>2, <2>2, <2>3, <3>1, <3>2 DEF Placed
    <3> QED
      BY <1>1, <2>3, <3>2, <3>3
  <2> QED
    BY <2>1, <2>2, <2>3 DEF Explained
<1>6. ASSUME dirs[name] # None
      PROVE  {p} \X (0..proc[p].attempt) \subseteq left
  <2>1. {p} \X (0..(proc[p].attempt - 1)) \subseteq left
    BY <1>1 DEF NamesTaken
  <2>2. \A i \in 0..proc[p].attempt : i \in 0..(proc[p].attempt - 1) \/ i = proc[p].attempt
    BY <1>2
  <2> QED
    BY <1>5, <1>6, <2>1, <2>2
<1>7. CASE /\ dirs[name] # None /\ proc[p].attempt + 1 < Attempts
           /\ proc' = [proc EXCEPT ![p].attempt = @ + 1] /\ UNCHANGED dirs
  <2>1. proc[p].attempt + 1 \in 0..(Attempts - 1)
    BY <1>1, <1>2, <1>7
  <2>2. /\ proc' \in [Pids -> Procs] /\ \A q \in Pids \ {p} : proc'[q] = proc[q]
        /\ proc'[p].pc = "name" /\ proc'[p].work = None /\ proc'[p].run = proc[p].run
        /\ proc'[p].command = proc[p].command /\ proc'[p].end = proc[p].end
        /\ proc'[p].attempt = proc[p].attempt + 1
    BY <1>1, <1>3, <1>7, <2>1 DEF Procs
  <2>3. Placed(p)'
    BY <1>1, <1>3, <2>2 DEF Placed, Alive, Working, Commanding
  <2>4. 0..(proc'[p].attempt - 1) = 0..proc[p].attempt
    BY <1>2, <2>2
  <2>5. NamesTaken(p)'
    BY <1>1, <1>3, <1>6, <1>7, <2>2, <2>4 DEF NamesTaken
  <2> QED
    BY <1>1, <1>3, <1>7, <2>2, <2>3, <2>5, QuietSteps
<1>8. CASE dirs[name] # None /\ ~(proc[p].attempt + 1 < Attempts) /\ End(p, "names") /\ UNCHANGED dirs
  <2>1. "names" \in Ends
    BY DEF Ends
  <2>2. 0..proc[p].attempt = 0..(Attempts - 1)
    BY <1>1, <1>2, <1>8
  <2>3. NamesTaken(p)'
    BY <1>1, <1>3, <1>6, <1>8, <2>1, <2>2, EndFacts DEF NamesTaken
  <2> QED
    BY <1>1, <1>3, <1>8, <2>1, <2>3, EndFacts, QuietSteps
<1>9. CASE End(p, "storage") /\ UNCHANGED dirs
  <2>1. "storage" \in Ends
    BY DEF Ends
  <2> QED
    BY <1>1, <1>3, <1>9, <2>1, EndFacts, QuietSteps
<1> QED
  BY <1>4, <1>7, <1>8, <1>9 DEF TryName

\* A change of p's directory.
LEMMA OwnChange ==
    ASSUME IInv, NEW p \in Pids, Alive(p), proc[p].work # None,
           UNCHANGED <<runs, orphans, left>>,
           dirs' \in [Names -> Contents \cup {None}], dirs'[proc[p].work] \in Contents,
           dirs'[proc[p].work].run = proc[p].run,
           \A n \in Names \ {proc[p].work} : dirs'[n] = dirs[n],
           proc' \in [Pids -> Procs], \A q \in Pids \ {p} : proc'[q] = proc[q],
           Alive(p)', proc'[p].run = proc[p].run, proc'[p].work = proc[p].work,
           Placed(p)', NamesTaken(p)'
    PROVE  IInv'
<1>1. Typed'
  BY DEF IInv, Typed
<1>2. Touches(p)
  BY DEF Touches
<1>3. Accounted(p)
  BY DEF Accounted
<1> QED
  BY <1>1, <1>2, <1>3, OneSteps

LEMMA FillStep ==
    ASSUME IInv, NEW p \in Pids, NEW empty \in BOOLEAN, Fill(p, empty)
    PROVE  IInv'
<1> DEFINE w == proc[p].work
<1>1. /\ Placed(p) /\ NamesTaken(p) /\ Alive(p) /\ proc[p] \in Procs /\ proc[p].pc = "fill"
      /\ w # None /\ w \in Names /\ UNCHANGED <<runs, orphans, left>>
      /\ proc \in [Pids -> Procs] /\ dirs \in [Names -> Contents \cup {None}]
      /\ dirs[w] \in Contents /\ dirs[w].run = proc[p].run
  BY DEF IInv, Fill, Alive, Placed, Working, Typed, Procs
<1>2. CASE empty
  <2>1. ToOras(p) \in {"login", "oras"} /\ {"login", "oras"} \subseteq Phases
        /\ (ToOras(p) = "oras" => proc[p].config.username = None)
    BY DEF ToOras, Phases
  <2>2. proc' = [proc EXCEPT ![p].pc = ToOras(p), ![p].child = "delete"] /\ UNCHANGED dirs
    BY <1>2 DEF Fill
  <2>3. /\ proc' \in [Pids -> Procs] /\ \A q \in Pids \ {p} : proc'[q] = proc[q]
        /\ proc'[p].pc = ToOras(p) /\ proc'[p].work = w /\ proc'[p].run = proc[p].run
        /\ proc'[p].command = proc[p].command /\ proc'[p].end = proc[p].end
        /\ proc'[p].child = "delete" /\ proc'[p].config = proc[p].config
    <3> HIDE DEF w
    <3> QED
      BY <1>1, <2>1, <2>2 DEF Procs, w
  <2>4. Placed(p)' /\ NamesTaken(p)' /\ Alive(p)'
    BY <1>1, <2>1, <2>2, <2>3 DEF Placed, NamesTaken, Alive, Working, Commanding
  <2> QED
    BY <1>1, <2>2, <2>3, <2>4, QuietSteps
<1>3. CASE ~empty
  <2>1. /\ proc' = [proc EXCEPT ![p].pc = "layout", ![p].child = "cp"]
        /\ dirs' = [dirs EXCEPT ![w].layout = 0]
    BY <1>3 DEF Fill
  <2>2. /\ proc' \in [Pids -> Procs] /\ \A q \in Pids \ {p} : proc'[q] = proc[q]
        /\ proc'[p].pc = "layout" /\ proc'[p].work = w /\ proc'[p].run = proc[p].run
        /\ proc'[p].command = proc[p].command /\ proc'[p].end = proc[p].end
        /\ proc'[p].child = "cp"
    <3>1. "layout" \in Phases
      BY DEF Phases
    <3> QED
      BY <1>1, <2>1, <3>1 DEF Procs
  <2>3. /\ dirs' \in [Names -> Contents \cup {None}]
        /\ dirs'[w].run = proc[p].run /\ dirs'[w].layout = 0 /\ dirs'[w] \in Contents
        /\ \A n \in Names \ {w} : dirs'[n] = dirs[n]
    <3> HIDE DEF w
    <3> QED
      BY <1>1, <2>1, WholeLayout DEF Contents
  <2>4. Placed(p)' /\ NamesTaken(p)' /\ Alive(p)'
    <3>1. dirs'[w] # None /\ 0 \in 0..(Whole - 1)
      BY <2>3, WholeLayout, NoneAssumption
    <3> QED
      BY <1>1, <2>2, <2>3, <3>1 DEF Placed, NamesTaken, Alive, Working, Commanding
  <2> QED
    BY <1>1, <2>2, <2>3, <2>4, OwnChange
<1> QED
  BY <1>2, <1>3

LEMMA FillFailsStep ==
    ASSUME IInv, NEW p \in Pids, FillFails(p)
    PROVE  IInv'
<1>1. Placed(p) /\ NamesTaken(p) /\ Alive(p) /\ proc[p].pc = "fill"
      /\ UNCHANGED <<runs, dirs, orphans, left>> /\ Drop(p, "storage") /\ "storage" \in Ends
  BY DEF IInv, FillFails, Alive, Ends
<1>2. Placed(p)' /\ NamesTaken(p)' /\ Alive(p)'
  BY <1>1, DropFacts DEF Placed, NamesTaken, Alive, Working, Commanding
<1> QED
  BY <1>1, <1>2, DropFacts, QuietSteps

LEMMA BeginLayoutStep ==
    ASSUME IInv, NEW p \in Pids, BeginLayout(p)
    PROVE  IInv'
<1> DEFINE d == proc[p].command.to
<1>1. /\ Placed(p) /\ NamesTaken(p) /\ Alive(p) /\ proc[p] \in Procs /\ proc[p].pc = "start"
      /\ proc[p].work = None /\ proc[p].command.kind = "publish"
      /\ UNCHANGED <<runs, orphans, left>>
  BY DEF IInv, BeginLayout, Alive, Placed, Working, Typed
<1>2. d \in Destinations /\ d \in Names /\ d # None
  <2>1. proc[p].command \in Commands /\ proc[p].command # Invalid
    BY <1>1 DEF Placed, Procs
  <2>2. PICK n \in 1..MaxRuns : \E l \in Launches[n] : proc[p].command = Parse(l.args)
    BY <2>1 DEF Commands, AllLaunches
  <2>3. d \in Destinations
    BY <1>1, <2>1, <2>2, InvocationsAssumption
  <2> QED
    BY <2>3, NoneAssumption DEF Names
<1>3. ASSUME NEW why \in {"exists", "publication"}, End(p, why), UNCHANGED dirs
      PROVE  IInv'
  <2>1. why \in Ends /\ why # "names"
    BY DEF Ends
  <2> QED
    BY <1>1, <1>3, <2>1, EndFacts, QuietSteps
<1>4. CASE /\ dirs[d] = None
           /\ proc' = [proc EXCEPT ![p].pc = "layout", ![p].work = d]
           /\ dirs' = [dirs EXCEPT ![d] = New(proc[p].run, 0)]
  <2>1. "layout" \in Phases /\ 0 \in 0..Whole \cup {None} /\ 0 \in 0..(Whole - 1)
    BY WholeLayout DEF Phases
  <2>2. /\ proc' \in [Pids -> Procs] /\ \A q \in Pids \ {p} : proc'[q] = proc[q]
        /\ proc'[p].pc = "layout" /\ proc'[p].work = d /\ proc'[p].run = proc[p].run
        /\ proc'[p].command = proc[p].command /\ proc'[p].end = proc[p].end
    BY <1>2, <1>4, <2>1, EnterFacts
  <2>3. dirs'[d] # None /\ dirs'[d].run = proc[p].run /\ dirs'[d].layout = 0
    <3>1. proc[p].run \in 1..MaxRuns
      BY <1>1, InvocationsAssumption DEF Placed, Procs
    <3>2. New(proc[p].run, 0) \in Contents /\ New(proc[p].run, 0).run = proc[p].run
          /\ New(proc[p].run, 0).layout = 0
      BY <2>1, <3>1 DEF New, Contents
    <3>3. dirs'[d] = New(proc[p].run, 0)
      BY <1>2, <1>4 DEF IInv, Typed
    <3> QED
      BY <3>2, <3>3, NoneAssumption
  <2>4. d \notin left
    BY <1>4 DEF IInv, LeftIsThere
  <2>5. Placed(p)' /\ NamesTaken(p)' /\ Alive(p)'
    <3> HIDE DEF d
    <3> QED
      BY <1>1, <1>2, <2>1, <2>2, <2>3, <2>4 DEF Placed, NamesTaken, Alive, Working, Commanding
  <2> QED
    BY <1>1, <1>2, <1>4, <2>1, <2>2, <2>5, NewDirectory
<1> QED
  BY <1>3, <1>4 DEF BeginLayout

\* p ends, and its directory is gone or left.
LEMMA Removal ==
    ASSUME IInv, NEW p \in Pids, Alive(p), proc[p].work # None,
           NEW why \in Ends, why # "names" \/ proc[p].end = "names", End(p, why),
           UNCHANGED <<runs, orphans>>,
           \/ dirs' = [dirs EXCEPT ![proc[p].work] = None] /\ UNCHANGED left
           \/ left' = left \cup {proc[p].work} /\ UNCHANGED dirs
    PROVE  IInv'
<1> DEFINE w == proc[p].work
<1>1. Typed /\ Placed(p) /\ NamesTaken(p) /\ w \in Names /\ dirs[w] # None
  BY DEF IInv, Typed, Placed, Procs
<1>2. Placed(p)' /\ NamesTaken(p)'
  BY <1>1, EndFacts DEF NamesTaken
<1>3. Typed'
  BY <1>1, EndFacts DEF Typed
<1>4. Touches(p)
  BY <1>1 DEF Touches, Typed
<1>5. Accounted(p)
  BY <1>1, NoneAssumption DEF Accounted, Typed
<1>6. \A n \in left' \ left : dirs'[n] # None
  BY <1>1
<1> QED
  BY <1>2, <1>3, <1>4, <1>5, <1>6, EndFacts, OneSteps

\* What p works in.
LEMMA WorkFacts ==
    ASSUME IInv, NEW p \in Pids, proc[p].pc \in Working
    PROVE  /\ Placed(p) /\ NamesTaken(p) /\ Alive(p) /\ proc[p] \in Procs
           /\ proc[p].work # None /\ proc[p].work \in Names
           /\ proc \in [Pids -> Procs] /\ dirs \in [Names -> Contents \cup {None}]
           /\ dirs[proc[p].work] \in Contents /\ dirs[proc[p].work].run = proc[p].run
BY DEF IInv, Alive, Placed, Working, Typed, Procs

LEMMA DropWorkStep ==
    ASSUME IInv, NEW p \in Pids, DropWork(p)
    PROVE  IInv'
<1>1. proc[p].pc \in Working
  BY DEF DropWork, Working
<1>2. proc[p].end \in Ends
  BY <1>1, WorkFacts DEF Procs
<1> QED
  BY <1>1, <1>2, WorkFacts, Removal DEF DropWork

LEMMA ReportStep ==
    ASSUME IInv, NEW p \in Pids, NEW ok \in BOOLEAN, Report(p, ok)
    PROVE  IInv'
<1>1. proc[p].pc = "report" /\ proc[p].pc \in Working
  BY DEF Report, Working
<1>2. proc[p].work \in Destinations /\ dirs[proc[p].work].layout = Whole
  BY <1>1, WorkFacts DEF Placed
<1>3. PICK why \in {"done", "stdout"} : End(p, why)
  BY DEF Report
<1>4. why \in Ends /\ why # "names"
  BY DEF Ends
<1> QED
  BY <1>1, <1>2, <1>3, <1>4, WorkFacts, EndFacts, QuietSteps DEF Report

LEMMA OrasEndsStep ==
    ASSUME IInv, NEW p \in Pids, NEW ok \in BOOLEAN, OrasEnds(p, ok)
    PROVE  IInv'
<1>1. proc[p].pc = "oras" /\ proc[p].pc \in Working
  BY DEF OrasEnds, Working
<1>2. PICK why \in {"done", "oras"} : Drop(p, why)
  BY DEF OrasEnds
<1>3. why \in Ends /\ why # "names" /\ UNCHANGED <<runs, dirs, orphans, left>>
  BY DEF Ends, OrasEnds
<1>4. Placed(p)' /\ NamesTaken(p)' /\ Alive(p)'
  BY <1>1, <1>2, <1>3, WorkFacts, DropFacts DEF Placed, NamesTaken, Alive, Working, Commanding
<1> QED
  BY <1>1, <1>2, <1>3, <1>4, WorkFacts, DropFacts, QuietSteps

LEMMA WritePartStep ==
    ASSUME IInv, NEW p \in Pids, WritePart(p)
    PROVE  IInv'
<1> DEFINE w == proc[p].work
           n == dirs[w].layout + 1
<1>1. proc[p].pc = "layout" /\ proc[p].pc \in Working /\ UNCHANGED <<runs, orphans, left>>
      /\ dirs' = [dirs EXCEPT ![w].layout = n]
  BY DEF WritePart, Working
<1>2. /\ Placed(p) /\ NamesTaken(p) /\ Alive(p) /\ proc[p] \in Procs /\ w # None /\ w \in Names
      /\ proc \in [Pids -> Procs] /\ dirs \in [Names -> Contents \cup {None}]
      /\ dirs[w] \in Contents /\ dirs[w].run = proc[p].run
  BY <1>1, WorkFacts
<1>3. n \in 1..Whole /\ dirs[w].layout \in 0..(Whole - 1) /\ n = dirs[w].layout + 1
      /\ n \in 0..Whole \cup {None}
  BY <1>1, <1>2, WholeLayout DEF Placed
<1>4. /\ dirs' \in [Names -> Contents \cup {None}]
      /\ dirs'[w].run = proc[p].run /\ dirs'[w].layout = n /\ dirs'[w] \in Contents
      /\ \A m \in Names \ {w} : dirs'[m] = dirs[m]
  <2> HIDE DEF w, n
  <2> QED
    BY <1>1, <1>2, <1>3 DEF Contents
<1>5. dirs'[w] # None
  BY <1>4, NoneAssumption
<1>6. CASE n < Whole /\ UNCHANGED proc
  <2>1. n \in 0..(Whole - 1)
    BY <1>3, <1>6, WholeLayout
  <2>2. Placed(p)' /\ NamesTaken(p)' /\ Alive(p)'
    <3> HIDE DEF n
    <3> QED
      BY <1>1, <1>2, <1>4, <1>5, <1>6, <2>1 DEF Placed, NamesTaken, Alive, Working
  <2> QED
    BY <1>1, <1>2, <1>4, <1>6, <2>2, OwnChange
<1>7. ASSUME n = Whole, NEW pc \in {"report", "login", "oras"}, To(p, pc),
             pc = "report" => proc[p].command.kind = "publish",
             pc # "report" => proc[p].command.kind # "publish",
             pc = "oras" => proc[p].config.username = None
      PROVE  IInv'
  <2>1. pc \in Phases
    BY DEF Phases
  <2>2. Placed(p)' /\ NamesTaken(p)' /\ Alive(p)'
    <3> HIDE DEF n
    <3> QED
      BY <1>1, <1>2, <1>4, <1>5, <1>7, <2>1, ToFacts
         DEF Placed, NamesTaken, Alive, Working, Commanding
  <2> QED
    BY <1>1, <1>2, <1>4, <1>7, <2>1, <2>2, ToFacts, OwnChange
<1>8. CASE n < Whole
  <2>1. UNCHANGED proc
    BY <1>8 DEF WritePart
  <2> QED
    BY <1>6, <1>8, <2>1
<1>9. CASE ~(n < Whole)
  <2>1. n = Whole
    BY <1>3, <1>9, WholeLayout
  <2>2. CASE proc[p].command.kind = "publish"
    BY <1>7, <1>9, <2>1, <2>2 DEF WritePart
  <2>3. CASE proc[p].command.kind # "publish"
    <3>1. To(p, ToOras(p))
      BY <1>9, <2>3 DEF WritePart
    <3> QED
      BY <1>7, <2>1, <2>3, <3>1 DEF ToOras
  <2> QED
    BY <2>2, <2>3
<1> QED
  BY <1>8, <1>9

LEMMA LayoutFailsStep ==
    ASSUME IInv, NEW p \in Pids, LayoutFails(p)
    PROVE  IInv'
<1> DEFINE w == proc[p].work
<1>1. proc[p].pc = "layout" /\ proc[p].pc \in Working /\ UNCHANGED <<runs, orphans>>
      /\ "publication" \in Ends
  BY DEF LayoutFails, Working, Ends
<1>2. CASE proc[p].command.kind = "publish"
  <2>1. /\ End(p, "publication")
        /\ \/ dirs' = [dirs EXCEPT ![w] = None] /\ UNCHANGED left
           \/ left' = left \cup {w} /\ UNCHANGED dirs
    BY <1>2 DEF LayoutFails
  <2> QED
    BY <1>1, <2>1, WorkFacts, Removal
<1>3. CASE proc[p].command.kind # "publish"
  <2>1. /\ Drop(p, "publication") /\ UNCHANGED left
        /\ dirs' = [dirs EXCEPT ![w].layout = None] \/ dirs' = dirs
    BY <1>3 DEF LayoutFails
  <2>2. /\ w \in Names /\ dirs[w] \in Contents /\ dirs[w].run = proc[p].run
        /\ dirs \in [Names -> Contents \cup {None}]
    BY <1>1, WorkFacts
  <2>3. /\ dirs' \in [Names -> Contents \cup {None}]
        /\ dirs'[w].run = proc[p].run /\ dirs'[w] \in Contents
        /\ \A m \in Names \ {w} : dirs'[m] = dirs[m]
    <3>1. CASE dirs' = dirs
      BY <2>2, <3>1
    <3>2. CASE dirs' = [dirs EXCEPT ![w].layout = None]
      <4> HIDE DEF w
      <4> QED
        BY <2>2, <3>2 DEF Contents
    <3> QED
      BY <2>1, <3>1, <3>2
  <2>4. Placed(p)' /\ NamesTaken(p)' /\ Alive(p)'
    <3>1. dirs'[w] # None
      BY <2>3, NoneAssumption
    <3> QED
      BY <1>1, <1>3, <2>1, <2>3, <3>1, WorkFacts, DropFacts
         DEF Placed, NamesTaken, Alive, Working, Commanding
  <2> QED
    BY <1>1, <2>1, <2>3, <2>4, WorkFacts, DropFacts, OwnChange
<1> QED
  BY <1>2, <1>3

LEMMA LoginEndsStep ==
    ASSUME IInv, NEW p \in Pids, NEW ok \in BOOLEAN, LoginEnds(p, ok)
    PROVE  IInv'
<1> DEFINE w == proc[p].work
<1>1. proc[p].pc = "login" /\ proc[p].pc \in Working /\ UNCHANGED <<runs, orphans, left>>
      /\ "oras" \in Ends /\ "oras" \in Phases
  BY DEF LoginEnds, Working, Ends, Phases
<1>2. /\ w \in Names /\ dirs[w] \in Contents /\ dirs[w].run = proc[p].run
      /\ dirs \in [Names -> Contents \cup {None}]
  BY <1>1, WorkFacts
<1>3. dirs' = [dirs EXCEPT ![w].login = TRUE] \/ (dirs' = dirs /\ ~ok)
  BY DEF LoginEnds
<1>4. /\ dirs' \in [Names -> Contents \cup {None}]
      /\ dirs'[w].run = proc[p].run /\ dirs'[w] \in Contents
      /\ dirs'[w].layout = dirs[w].layout
      /\ ok => dirs'[w].login
      /\ \A m \in Names \ {w} : dirs'[m] = dirs[m]
  <2>1. CASE dirs' = dirs /\ ~ok
    BY <1>2, <2>1
  <2>2. CASE dirs' = [dirs EXCEPT ![w].login = TRUE]
    <3> HIDE DEF w
    <3> QED
      BY <1>2, <2>2 DEF Contents
  <2> QED
    BY <1>3, <2>1, <2>2
<1>5. dirs'[w] # None
  BY <1>4, NoneAssumption
<1>6. CASE ok
  <2>1. To(p, "oras")
    BY <1>6 DEF LoginEnds
  <2>2. Placed(p)' /\ NamesTaken(p)' /\ Alive(p)'
    <3>1. Placed(p) /\ NamesTaken(p) /\ w # None
      BY <1>1, WorkFacts
    <3>2. /\ proc'[p].pc = "oras" /\ proc'[p].run = proc[p].run /\ proc'[p].work = w
          /\ proc'[p].command = proc[p].command /\ proc'[p].config = proc[p].config
          /\ proc'[p].child = proc[p].child /\ proc'[p].end = proc[p].end
      BY <1>1, <2>1, ToFacts
    <3> QED
      BY <1>1, <1>4, <1>5, <1>6, <3>1, <3>2 DEF Placed, NamesTaken, Alive, Working, Commanding
  <2> QED
    BY <1>1, <1>4, <2>1, <2>2, WorkFacts, ToFacts, OwnChange
<1>7. CASE ~ok
  <2>1. Drop(p, "oras")
    BY <1>7 DEF LoginEnds
  <2>2. Placed(p)' /\ NamesTaken(p)' /\ Alive(p)'
    BY <1>1, <1>4, <1>5, <2>1, WorkFacts, DropFacts
       DEF Placed, NamesTaken, Alive, Working, Commanding
  <2> QED
    BY <1>1, <1>4, <2>1, <2>2, WorkFacts, DropFacts, OwnChange
<1> QED
  BY <1>6, <1>7

\* What a launch puts in the place of a process that is gone.
LEMMA LaunchFacts ==
    ASSUME IInv, NEW p \in Pids, runs < MaxRuns, NEW l \in Launches[runs + 1], Launch(p, l)
    PROVE  /\ proc' \in [Pids -> Procs] /\ \A q \in Pids \ {p} : proc'[q] = proc[q]
           /\ proc'[p].work = None /\ proc'[p].attempt = 0 /\ proc'[p].end # "names"
           /\ proc'[p].pc \in {"ended", "start", "load"} /\ proc'[p].run \in {0, runs + 1}
           /\ proc'[p].pc # "ended" => proc'[p].run = runs + 1 /\ proc'[p].command # Invalid
           /\ proc'[p].pc = "load" => proc'[p].command.kind # "publish"
           /\ \/ proc'[p].config \in {None, Invalid}
              \/ /\ proc'[p].launch = l
                 /\ proc'[p].config = FromEnv(l.file, l.environment)
           /\ proc'[p].pc = "load" => /\ proc'[p].launch = l /\ proc'[p].command = Parse(l.args)
                                      /\ proc'[p].command.kind \notin {"help", "serve", "publish"}
<1> DEFINE command == Parse(l.args)
           config  == IF command # Invalid /\ command.kind \in {"serve", "create", "update", "delete"}
                      THEN FromEnv(l.file, l.environment) ELSE None
           Begun(pc) == [Nobody EXCEPT !.pc = pc, !.run = runs + 1, !.launch = l,
                                       !.command = command, !.config = config]
<1>1. /\ proc \in [Pids -> Procs] /\ runs \in Nat /\ MaxRuns \in Nat /\ runs + 1 \in 1..MaxRuns
      /\ 0 \in 0..(Attempts - 1) /\ runs + 1 \in 0..MaxRuns /\ 0 \in 0..MaxRuns
  BY InvocationsAssumption DEF IInv, Typed
<1>2. l \in AllLaunches /\ command \in Commands /\ config \in Configs /\ Invalid \in Commands
      /\ Invalid \in Configs
  <2>1. l \in AllLaunches
    BY <1>1 DEF AllLaunches
  <2> QED
    BY <2>1 DEF Commands, Configs
<1>3. /\ Nobody \in Procs /\ Nobody.work = None /\ Nobody.attempt = 0 /\ Nobody.end = "none"
      /\ Nobody.run = 0 /\ Nobody.config = Invalid
  BY <1>1, <1>2 DEF Nobody, Procs, Phases, Ends
<1>4. \/ \E why \in {"usage", "help", "panic", "config"} :
            proc' = [proc EXCEPT ![p] = Ended(why, command)]
      \/ /\ command # Invalid
         /\ \E pc \in {"start", "load"} :
               /\ proc' = [proc EXCEPT ![p] = Begun(pc)]
               /\ pc = "load" => command.kind \notin {"help", "serve", "publish"}
  <2> DEFINE end == IF command = Invalid          THEN "usage"
                    ELSE IF command.kind = "help" THEN "help"
                    ELSE IF config = Panic        THEN "panic"
                    ELSE IF config = Invalid      THEN "config"
                    ELSE "none"
             pc  == IF command.kind \in {"serve", "publish"} THEN "start" ELSE "load"
  <2>1. proc' = [proc EXCEPT ![p] = IF end # "none" THEN Ended(end, command) ELSE Begun(pc)]
    BY DEF Launch
  <2>2. \/ end \in {"usage", "help", "panic", "config"}
        \/ end = "none" /\ command # Invalid /\ command.kind # "help"
    <3> HIDE DEF command, config
    <3> QED
      OBVIOUS
  <2>3. pc \in {"start", "load"} /\ (pc = "load" => command.kind \notin {"serve", "publish"})
    <3> HIDE DEF command
    <3> QED
      OBVIOUS
  <2> HIDE DEF end, pc, command, config, Begun
  <2> QED
    BY <2>1, <2>2, <2>3
<1>5. ASSUME NEW why \in {"usage", "help", "panic", "config"},
             proc' = [proc EXCEPT ![p] = Ended(why, command)]
      PROVE  /\ proc' \in [Pids -> Procs] /\ \A q \in Pids \ {p} : proc'[q] = proc[q]
             /\ proc'[p].work = None /\ proc'[p].attempt = 0 /\ proc'[p].end # "names"
             /\ proc'[p].pc = "ended" /\ proc'[p].run = 0 /\ proc'[p].config = Invalid
  <2> HIDE DEF command, config, Begun
  <2>1. why \in Ends /\ "ended" \in Phases
    BY DEF Ends, Phases
  <2>2. /\ Ended(why, command) \in Procs /\ Ended(why, command).work = None
        /\ Ended(why, command).attempt = 0 /\ Ended(why, command).end = why
        /\ Ended(why, command).pc = "ended" /\ Ended(why, command).run = 0
        /\ Ended(why, command).config = Invalid
    BY <1>2, <1>3, <2>1 DEF Ended, Procs
  <2> QED
    BY <1>1, <1>5, <2>2
<1>6. ASSUME NEW pc \in {"start", "load"}, proc' = [proc EXCEPT ![p] = Begun(pc)]
      PROVE  /\ proc' \in [Pids -> Procs] /\ \A q \in Pids \ {p} : proc'[q] = proc[q]
             /\ proc'[p].work = None /\ proc'[p].attempt = 0 /\ proc'[p].end # "names"
             /\ proc'[p].pc = pc /\ proc'[p].run = runs + 1 /\ proc'[p].command = command
             /\ proc'[p].launch = l /\ proc'[p].config = config
  <2>1. pc \in Phases
    BY DEF Phases
  <2>2. /\ Begun(pc) \in Procs /\ Begun(pc).work = None /\ Begun(pc).attempt = 0
        /\ Begun(pc).end = "none" /\ Begun(pc).pc = pc /\ Begun(pc).run = runs + 1
        /\ Begun(pc).command = command /\ Begun(pc).launch = l /\ Begun(pc).config = config
    <3> HIDE DEF command, config
    <3> QED
      BY <1>1, <1>2, <1>3, <2>1 DEF Procs
  <2> HIDE DEF command, config, Begun
  <2> QED
    BY <1>1, <1>6, <2>2
<1>7. /\ config = None \/ config = FromEnv(l.file, l.environment)
      /\ command = Parse(l.args)
  OBVIOUS
<1> HIDE DEF command, config, Begun
<1> QED
  BY <1>4, <1>5, <1>6, <1>7

LEMMA LaunchStep ==
    ASSUME IInv, NEW p \in Pids, runs < MaxRuns, NEW l \in Launches[runs + 1], Launch(p, l)
    PROVE  IInv'
<1>1. /\ Placed(p) /\ proc[p] \in Procs /\ ~Alive(p) /\ proc[p].work = None
      /\ runs \in Nat /\ runs' = runs + 1 /\ runs' \in 0..MaxRuns
      /\ UNCHANGED <<dirs, orphans, left>>
  BY InvocationsAssumption DEF IInv, Typed, Launch, Placed, Alive, Working
<1>2. Typed'
  BY <1>1, LaunchFacts DEF IInv, Typed
<1>3. Touches(p)
  BY <1>1 DEF Touches
<1>4. Placed(p)'
  BY <1>1, LaunchFacts DEF Placed, Alive, Working, Commanding
<1>5. NamesTaken(p)'
  <2>1. 0..(0 - 1) = {}
    OBVIOUS
  <2> QED
    BY <2>1, LaunchFacts DEF NamesTaken
<1>6. \A q \in Pids : Placed(q)' /\ NamesTaken(q)'
  <2>1. \A q \in Pids \ {p} : proc'[q] = proc[q]
    BY LaunchFacts
  <2>2. \A q \in Pids \ {p} : Placed(q)' /\ NamesTaken(q)'
    BY <1>1, <1>3, <2>1, OthersStay
  <2> QED
    BY <1>4, <1>5, <2>2
<1>7. RunsDiffer'
  <2>1. \A q \in Pids \ {p} : proc[q].run < runs + 1
    BY <1>1 DEF IInv, Typed, Placed, Procs
  <2> QED
    BY <1>1, <2>1, LaunchFacts DEF IInv, RunsDiffer, Alive
<1>8. ASSUME NEW n \in Names, dirs[n] # None
      PROVE  Explained(n)'
  <2>1. Explained(n)
    BY <1>8 DEF IInv
  <2>2. \A q \in Pids : Alive(q) => proc'[q] = proc[q]
    BY <1>1, LaunchFacts
  <2> QED
    BY <1>1, <2>1, <2>2 DEF Explained, Alive
<1>9. LeftIsThere' /\ \A c \in orphans' : Orphaned(c)'
  BY <1>1 DEF IInv, LeftIsThere, Orphaned
<1> QED
  BY <1>1, <1>2, <1>6, <1>7, <1>8, <1>9 DEF IInv

LEMMA KillStep ==
    ASSUME IInv, NEW p \in Pids, NEW alone \in BOOLEAN, Kill(p, alone)
    PROVE  IInv'
<1>1. /\ Placed(p) /\ Typed /\ proc[p] \in Procs /\ Alive(p) /\ UNCHANGED <<runs, dirs>>
      /\ proc' = [proc EXCEPT ![p] = Nobody]
      /\ left' = IF proc[p].work # None THEN left \cup {proc[p].work} ELSE left
      /\ orphans' = IF Waits(p) /\ alone THEN orphans \cup {Child(p)} ELSE orphans
  BY DEF IInv, Typed, Kill
<1>2. /\ Nobody \in Procs /\ Nobody.work = None /\ Nobody.end = "none" /\ Nobody.run = 0
      /\ Nobody.pc = "none"
  <2>1. 0 \in 0..MaxRuns /\ 0 \in 0..(Attempts - 1) /\ Invalid \in Commands /\ Invalid \in Configs
    BY InvocationsAssumption DEF Commands, Configs
  <2> QED
    BY <2>1 DEF Nobody, Procs, Phases, Ends
<1>3. proc' \in [Pids -> Procs] /\ proc'[p] = Nobody /\ \A q \in Pids \ {p} : proc'[q] = proc[q]
  BY <1>1, <1>2 DEF Typed
<1>4. Child(p) \in Children /\ Child(p).dir = proc[p].work /\ Child(p).run = proc[p].run
      /\ Child(p).login = (proc[p].config.username # None)
      /\ Child(p).task = IF proc[p].pc = "login" THEN "login" ELSE proc[p].child
  BY <1>1 DEF Child, Children, Procs
<1>5. Typed'
  BY <1>1, <1>3, <1>4 DEF Typed, Procs
<1>6. Touches(p)
  BY <1>1 DEF Touches
<1>7. Accounted(p)
  BY <1>1, NoneAssumption DEF Accounted, Placed
<1>8. Placed(p)' /\ NamesTaken(p)' /\ ~(Alive(p)')
  BY <1>1, <1>2, <1>3 DEF IInv, Typed, Placed, NamesTaken, Alive, Working, Commanding
<1>9. ASSUME NEW c \in orphans' \ orphans
      PROVE  Orphaned(c)'
  <2>1. c = Child(p) /\ Waits(p) /\ proc[p].work # None
    BY <1>1, <1>9 DEF Waits, Placed, Working
  <2>2. proc[p].work \in Temporary
    BY <1>1, <2>1 DEF Waits, Placed, Commanding, Temporary
  <2> QED
    BY <1>1, <1>4, <2>1, <2>2 DEF Orphaned, Waits, Placed
<1>10. \A n \in left' \ left : dirs'[n] # None
  BY <1>1 DEF Placed
<1> QED
  BY <1>1, <1>3, <1>5, <1>6, <1>7, <1>8, <1>9, <1>10, OneSteps

LEMMA OrphanEndsStep ==
    ASSUME IInv, NEW c \in orphans, OrphanEnds(c)
    PROVE  IInv'
<1>1. /\ UNCHANGED <<proc, runs, left>> /\ orphans' = orphans \ {c} /\ Typed
      /\ c.dir \in left /\ c.dir \in Names /\ dirs[c.dir] # None /\ dirs[c.dir] \in Contents
      /\ dirs' = [dirs EXCEPT ![c.dir].login = TRUE] \/ dirs' = dirs
  BY DEF IInv, Typed, OrphanEnds, Orphaned, LeftIsThere
<1>2. /\ dirs' \in [Names -> Contents \cup {None}]
      /\ \A n \in Names \ {c.dir} : dirs'[n] = dirs[n]
      /\ dirs'[c.dir] \in Contents /\ dirs'[c.dir].run = dirs[c.dir].run
      /\ dirs'[c.dir].layout = dirs[c.dir].layout
      /\ dirs[c.dir].login => dirs'[c.dir].login
  <2>1. CASE dirs' = dirs
    BY <1>1, <2>1 DEF Typed
  <2>2. CASE dirs' = [dirs EXCEPT ![c.dir].login = TRUE]
    BY <1>1, <2>2 DEF Typed, Contents
  <2> QED
    BY <1>1, <2>1, <2>2
<1>3. Typed'
  BY <1>1, <1>2 DEF Typed
<1>4. dirs'[c.dir] # None
  BY <1>2, NoneAssumption
<1>5. \A n \in Names : /\ (dirs'[n] # None) = (dirs[n] # None)
                       /\ dirs[n] # None => /\ dirs'[n].run = dirs[n].run
                                            /\ dirs'[n].layout = dirs[n].layout
                                            /\ dirs[n].login => dirs'[n].login
  BY <1>1, <1>2, <1>4
<1>6. ASSUME NEW p \in Pids
      PROVE  Placed(p)' /\ NamesTaken(p)'
  <2>1. Placed(p) /\ NamesTaken(p) /\ proc'[p] = proc[p]
    BY <1>1 DEF IInv
  <2>2. proc[p].work # None => dirs'[proc[p].work] = dirs[proc[p].work]
    BY <1>1, <1>2, <2>1 DEF Placed, Typed, Procs
  <2>3. CASE proc[p].work = None
    BY <1>1, <2>1, <2>3 DEF Placed, NamesTaken, Alive, Working
  <2>4. CASE proc[p].work # None
    BY <1>1, <2>1, <2>2, <2>4 DEF Placed, NamesTaken, Alive, Working
  <2> QED
    BY <2>3, <2>4
<1>7. RunsDiffer' /\ LeftIsThere'
  BY <1>1, <1>5 DEF IInv, Typed, RunsDiffer, LeftIsThere, Alive
<1>8. ASSUME NEW d \in orphans'
      PROVE  Orphaned(d)'
  <2>1. Orphaned(d) /\ d.dir \in Names /\ dirs[d.dir] # None
    BY <1>1, <1>8 DEF IInv, Typed, Orphaned, LeftIsThere
  <2> QED
    BY <1>1, <1>5, <2>1 DEF Orphaned
<1>9. ASSUME NEW n \in Names, dirs'[n] # None
      PROVE  Explained(n)'
  <2>1. Explained(n) /\ dirs[n] # None
    BY <1>5, <1>9 DEF IInv
  <2> QED
    BY <1>1, <1>5, <2>1 DEF Explained, Alive
<1> QED
  BY <1>3, <1>6, <1>7, <1>8, <1>9 DEF IInv

(***************************************************************************)
(* The invariant holds.                                                    *)
(***************************************************************************)

LEMMA InitIInv == Init => IInv
<1> SUFFICES ASSUME Init PROVE IInv
  OBVIOUS
<1>1. Attempts \in Nat /\ Attempts > 0 /\ MaxRuns \in Nat
  BY InvocationsAssumption
<1>2. Nobody \in Procs /\ Nobody.pc = "none" /\ Nobody.work = None /\ Nobody.run = 0
      /\ Nobody.end = "none"
  <2>1. 0 \in 0..MaxRuns /\ 0 \in 0..(Attempts - 1) /\ Invalid \in Commands /\ Invalid \in Configs
    BY <1>1 DEF Commands, Configs
  <2> QED
    BY <2>1 DEF Nobody, Procs, Phases, Ends
<1>3. Typed
  BY <1>1, <1>2 DEF Init, Typed
<1>4. \A p \in Pids : Placed(p) /\ NamesTaken(p) /\ ~Alive(p)
  BY <1>2 DEF Init, Placed, NamesTaken, Alive, Working, Commanding
<1> QED
  BY <1>3, <1>4 DEF Init, IInv, RunsDiffer, LeftIsThere

LEMMA NextIInv == IInv /\ [Next]_vars => IInv'
<1> SUFFICES ASSUME IInv, [Next]_vars PROVE IInv'
  OBVIOUS
<1>1. CASE UNCHANGED vars
  BY <1>1 DEF vars, IInv, Typed, Placed, NamesTaken, RunsDiffer, LeftIsThere, Orphaned,
              Explained, Alive
<1>2. ASSUME NEW p \in Pids, Step(p)
      PROVE  IInv'
  BY <1>2, ListenStep, CheckStep, ReportStep, TryNameStep, FillFailsStep, DropWorkStep,
     FillStep, BeginLayoutStep, WritePartStep, LayoutFailsStep DEF Step
<1>3. ASSUME NEW p \in Pids, Oras(p)
      PROVE  IInv'
  BY <1>3, LoginEndsStep, OrasEndsStep DEF Oras
<1>4. CASE Next
  BY <1>2, <1>3, <1>4, LaunchStep, CtrlCStep, KillStep, OrphanEndsStep DEF Next
<1> QED
  BY <1>1, <1>4

LEMMA AlwaysIInv == Spec => []IInv
BY InitIInv, NextIInv, PTL DEF Spec

(***************************************************************************)
(* The theorems.                                                           *)
(***************************************************************************)

\* Every part of the state keeps its type: the phases, ends and exit codes of the
\* processes, the names and contents of the directories.
THEOREM InvocationsTypeCorrect == Spec => []TypeOK
<1>1. ASSUME IInv PROVE TypeOK
  <2>1. \A p \in Pids : proc[p] \in Procs /\ proc[p].run \in 0..runs
    BY <1>1, InvocationsAssumption DEF IInv, Typed, Placed, Procs
  <2>2. \A p \in Pids : ExitCode(proc[p]) \in {0, 1, 2, 101}
    BY DEF ExitCode
  <2> QED
    BY <1>1, <2>1, <2>2 DEF IInv, Typed, TypeOK, Procs, Orphaned
<1> QED
  BY <1>1, AlwaysIInv, PTL

\* Only a kill, or a disk that refuses the removal, leaves anything of a process
\* behind but the layout it was asked for (TemporaryDirectory::drop,
\* write_oci_layout).
THEOREM NothingLeftBehind == Spec => []NothingIsLeft
<1>1. IInv => NothingIsLeft
  BY DEF IInv, Explained, NothingIsLeft
<1> QED
  BY <1>1, AlwaysIInv, PTL

\* An ORAS child finds the directory of its own command, with the layout whole and
\* the login made, also when the command is gone (run_oras, login_oras).
THEOREM ChildrenFindTheirOwn == Spec => []ChildrenReadTheirOwn
<1>1. ASSUME IInv PROVE ChildrenReadTheirOwn
  <2>1. ASSUME NEW c \in orphans
        PROVE  /\ dirs[c.dir] # None /\ dirs[c.dir].run = c.run
               /\ c.task = "cp" => dirs[c.dir].layout = Whole
               /\ c.login /\ c.task # "login" => dirs[c.dir].login
    BY <1>1, <2>1 DEF IInv, Orphaned, LeftIsThere
  <2>2. ASSUME NEW p \in Pids, Waits(p)
        PROVE  /\ dirs[Child(p).dir] # None /\ dirs[Child(p).dir].run = Child(p).run
               /\ Child(p).task = "cp" => dirs[Child(p).dir].layout = Whole
               /\ Child(p).login /\ Child(p).task # "login" => dirs[Child(p).dir].login
    BY <1>1, <2>2 DEF IInv, Placed, Child, Waits, Working
  <2> QED
    BY <2>1, <2>2 DEF ChildrenReadTheirOwn
<1> QED
  BY <1>1, AlwaysIInv, PTL

\* A command gives up for want of a name only when every name it may take was left
\* behind under its own id (TemporaryDirectory::new).
THEOREM NamesRunOut == Spec => []NamesRunOutByKillsOnly
<1>1. IInv => NamesRunOutByKillsOnly
  BY DEF IInv, NamesTaken, NamesRunOutByKillsOnly
<1> QED
  BY <1>1, AlwaysIInv, PTL

\* A step of a process writes in its own directory, or makes one.
LEMMA StepTouches ==
    ASSUME IInv, NEW p \in Pids, Step(p) \/ Oras(p)
    PROVE  \/ proc[p].pc \in Working /\ \A n \in Names \ {proc[p].work} : dirs'[n] = dirs[n]
           \/ \A n \in Names : dirs[n] = None \/ dirs'[n] = dirs[n]
<1>1. dirs \in [Names -> Contents \cup {None}]
  BY DEF IInv, Typed
<1>2. CASE dirs' = dirs
  BY <1>2
<1>3. CASE TryName(p)
  BY <1>1, <1>3 DEF TryName
<1>4. CASE \E empty \in BOOLEAN : Fill(p, empty)
  BY <1>1, <1>4 DEF Fill, Working
<1>5. CASE BeginLayout(p)
  BY <1>1, <1>5 DEF BeginLayout
<1>6. CASE WritePart(p)
  BY <1>1, <1>6 DEF WritePart, Working
<1>7. CASE LayoutFails(p)
  BY <1>1, <1>7 DEF LayoutFails, Working
<1>8. CASE DropWork(p)
  BY <1>1, <1>8 DEF DropWork, Working
<1>9. CASE \E ok \in BOOLEAN : LoginEnds(p, ok)
  <2>1. PICK ok \in BOOLEAN : LoginEnds(p, ok)
    BY <1>9
  <2>2. proc[p].pc \in Working
    BY <2>1 DEF LoginEnds, Working
  <2>3. dirs' = [dirs EXCEPT ![proc[p].work].login = TRUE] \/ dirs' = dirs
    BY <2>1 DEF LoginEnds
  <2> QED
    BY <1>1, <2>2, <2>3
<1>10. CASE \/ \E ok \in BOOLEAN : Listen(p, ok) \/ Check(p, ok) \/ Report(p, ok) \/ OrasEnds(p, ok)
            \/ FillFails(p)
  BY <1>2, <1>10 DEF Listen, Check, Report, OrasEnds, FillFails
<1> QED
  BY <1>3, <1>4, <1>5, <1>6, <1>7, <1>8, <1>9, <1>10 DEF Step, Oras

\* A step that changes what a run has put on the disk is that run's own, or its child's.
THEOREM RunsStayApart == Spec => RunsKeepApart
<1> DEFINE Apart == \A n \in Names : dirs[n] # None /\ dirs'[n] # dirs[n] =>
                       \/ \E p \in Pids : (Step(p) \/ Oras(p)) /\ proc[p].run = dirs[n].run
                       \/ \E c \in orphans : OrphanEnds(c) /\ c.run = dirs[n].run
<1>1. ASSUME IInv, [Next]_vars PROVE [Apart]_vars
  <2>1. CASE UNCHANGED dirs
    BY <2>1
  <2>2. ASSUME NEW p \in Pids, Step(p) \/ Oras(p)
        PROVE  Apart
    <3>1. CASE proc[p].pc \in Working /\ \A n \in Names \ {proc[p].work} : dirs'[n] = dirs[n]
      <4>1. dirs[proc[p].work].run = proc[p].run
        BY <1>1, <3>1 DEF IInv, Placed, Working
      <4> SUFFICES ASSUME NEW n \in Names, dirs'[n] # dirs[n]
                   PROVE  (Step(p) \/ Oras(p)) /\ proc[p].run = dirs[n].run
        OBVIOUS
      <4> QED
        BY <2>2, <3>1, <4>1
    <3>2. CASE \A n \in Names : dirs[n] = None \/ dirs'[n] = dirs[n]
      BY <3>2
    <3> QED
      BY <1>1, <2>2, <3>1, <3>2, StepTouches
  <2>3. ASSUME NEW c \in orphans, OrphanEnds(c)
        PROVE  Apart
    <3>1. dirs[c.dir] # None => dirs[c.dir].run = c.run
      BY <1>1 DEF IInv, Orphaned
    <3>2. \A n \in Names : dirs'[n] # dirs[n] => n = c.dir
      BY <1>1, <2>3 DEF IInv, Typed, OrphanEnds
    <3> QED
      BY <2>3, <3>1, <3>2
  <2>4. ASSUME NEW p \in Pids, \/ \E l \in Launches[runs + 1] : Launch(p, l)
                               \/ CtrlC(p)
                               \/ \E alone \in BOOLEAN : Kill(p, alone)
        PROVE  UNCHANGED dirs
    BY <2>4 DEF Launch, CtrlC, Kill
  <2>5. CASE UNCHANGED vars
    BY <2>5
  <2>6. CASE Next
    BY <2>1, <2>2, <2>3, <2>4, <2>6 DEF Next
  <2> QED
    BY <1>1, <2>5, <2>6
<1> QED
  BY <1>1, AlwaysIInv, PTL DEF Spec, RunsKeepApart

(***************************************************************************)
(* The settings.                                                           *)
(***************************************************************************)

\* What FromEnv accepts, wherever each value came from.
LEMMA SettingsOfFromEnv ==
    ASSUME NEW file, NEW e, FromEnv(file, e) \notin {Invalid, Panic}
    PROVE  \E settings \in [Keys -> {Setting(k, f, e.values) : k \in Keys,
                                       f \in {<<>>, FileValues(file)}}] :
              /\ Accepted(settings) /\ FromEnv(file, e) = Config(settings)
              /\ \A k \in Keys \cap DOMAIN e.values : settings[k] = e.values[k]
<1>1. PICK f \in {<<>>, FileValues(file)} : FromEnv(file, e) = FromMaps(f, e.values)
  BY DEF FromEnv
<1> DEFINE settings == [k \in Keys |-> Setting(k, f, e.values)]
<1>2. Accepted(settings) /\ FromEnv(file, e) = Config(settings)
  BY <1>1 DEF FromMaps
<1>3. \A k \in Keys \cap DOMAIN e.values : settings[k] = e.values[k]
  BY DEF Setting
<1>4. settings \in [Keys -> {Setting(k, g, e.values) : k \in Keys, g \in {<<>>, FileValues(file)}}]
  OBVIOUS
<1> HIDE DEF settings
<1> QED
  BY <1>2, <1>3, <1>4

\* What a process goes on with is what it was given.
FromItsLaunch ==
    \A p \in Pids : proc[p].config \notin {None, Invalid, Panic} =>
       proc[p].config = FromEnv(proc[p].launch.file, proc[p].launch.environment)

LEMMA StepFromItsLaunch == IInv /\ FromItsLaunch /\ [Next]_vars => FromItsLaunch'
<1> SUFFICES ASSUME IInv, FromItsLaunch, [Next]_vars PROVE FromItsLaunch'
  OBVIOUS
<1>1. CASE UNCHANGED vars
  BY <1>1 DEF vars, FromItsLaunch
<1> DEFINE Kept(p, q) == \/ proc'[q].config = proc[q].config /\ proc'[q].launch = proc[q].launch
                         \/ proc'[q].config = Invalid
<1>2. ASSUME NEW p \in Pids, \A q \in Pids : Kept(p, q)
      PROVE  FromItsLaunch'
  BY <1>2 DEF FromItsLaunch
<1>3. proc \in [Pids -> Procs]
  BY DEF IInv, Typed
<1>4. ASSUME NEW p \in Pids, NEW why, End(p, why)
      PROVE  \A q \in Pids : Kept(p, q)
  BY <1>3, <1>4 DEF End, Ended, Nobody
<1>5. ASSUME NEW p \in Pids, NEW pc, To(p, pc)
      PROVE  \A q \in Pids : Kept(p, q)
  BY <1>3, <1>5 DEF To, Procs
<1>6. ASSUME NEW p \in Pids, NEW why, Drop(p, why)
      PROVE  \A q \in Pids : Kept(p, q)
  BY <1>3, <1>6 DEF Drop, Procs
<1>7. ASSUME NEW p \in Pids, UNCHANGED proc
      PROVE  \A q \in Pids : Kept(p, q)
  BY <1>7
<1>8. ASSUME NEW p \in Pids, TryName(p)
      PROVE  \A q \in Pids : Kept(p, q)
  <2>1. CASE proc' = [proc EXCEPT ![p].pc = "fill", ![p].work = <<p, proc[p].attempt>>]
    BY <1>3, <2>1 DEF Procs
  <2>2. CASE proc' = [proc EXCEPT ![p].attempt = @ + 1]
    BY <1>3, <2>2 DEF Procs
  <2>3. CASE End(p, "names") \/ End(p, "storage")
    BY <1>4, <2>3
  <2> QED
    BY <1>8, <2>1, <2>2, <2>3 DEF TryName
<1>9. ASSUME NEW p \in Pids, NEW empty \in BOOLEAN, Fill(p, empty)
      PROVE  \A q \in Pids : Kept(p, q)
  <2>1. \E pc, child : proc' = [proc EXCEPT ![p].pc = pc, ![p].child = child]
    BY <1>9 DEF Fill
  <2> QED
    BY <1>3, <2>1 DEF Procs
<1>10. ASSUME NEW p \in Pids, BeginLayout(p)
       PROVE  \A q \in Pids : Kept(p, q)
  <2>1. CASE proc' = [proc EXCEPT ![p].pc = "layout", ![p].work = proc[p].command.to]
    BY <1>3, <2>1 DEF Procs
  <2>2. CASE End(p, "exists") \/ End(p, "publication")
    BY <1>4, <2>2
  <2> QED
    BY <1>10, <2>1, <2>2 DEF BeginLayout
<1>11. ASSUME NEW p \in Pids, Kill(p, TRUE) \/ Kill(p, FALSE)
       PROVE  \A q \in Pids : Kept(p, q)
  BY <1>3, <1>11 DEF Kill, Nobody
<1>12. ASSUME NEW p \in Pids, Step(p) \/ Oras(p) \/ CtrlC(p)
       PROVE  \A q \in Pids : Kept(p, q)
  BY <1>4, <1>5, <1>6, <1>7, <1>8, <1>9, <1>10, <1>12
     DEF Step, Oras, CtrlC, Listen, Check, Report, FillFails, DropWork, WritePart, LayoutFails,
         LoginEnds, OrasEnds
<1>13. ASSUME NEW p \in Pids, runs < MaxRuns, NEW l \in Launches[runs + 1], Launch(p, l)
       PROVE  FromItsLaunch'
  BY <1>13, LaunchFacts DEF FromItsLaunch
<1>14. ASSUME NEW c \in orphans, OrphanEnds(c)
       PROVE  FromItsLaunch'
  BY <1>14 DEF OrphanEnds, FromItsLaunch
<1>15. CASE Next
  BY <1>2, <1>11, <1>12, <1>13, <1>14, <1>15 DEF Next
<1> QED
  BY <1>1, <1>15

\* However file and environment are combined, what a process goes on with is safe:
\* in clear only to a loopback address and on request, the upstream one of its
\* hosts, the credentials a pair, the bounds in order (Config::from_maps).
THEOREM SettingsStaySafe == Spec => []SettingsAreSafe
<1>1. ASSUME FromItsLaunch PROVE SettingsAreSafe
  <2> SUFFICES ASSUME NEW p \in Pids, proc[p].config \notin {None, Invalid, Panic}
               PROVE  LET c == proc[p].config
                          e == proc[p].launch.environment.values
                      IN  /\ c.upstream.scheme = "http" =>
                                /\ c.insecure /\ c.upstream.host \in Loopback
                                /\ "ALLOW_INSECURE_LOOPBACK" \in DOMAIN e =>
                                      e["ALLOW_INSECURE_LOOPBACK"] = "true"
                          /\ Lower(c.upstream.host) \in c.hosts
                          /\ (c.username = None) = (c.password = None)
                          /\ 0 < c.connect /\ c.connect <= c.request /\ c.request <= MaxTimeout
                          /\ \A k \in LimitKeys : c.limits[k] \in Limits[k]
    BY DEF SettingsAreSafe
  <2> DEFINE e == proc[p].launch.environment
             c == proc[p].config
  <2>1. PICK settings : /\ Accepted(settings) /\ c = Config(settings)
                        /\ \A k \in Keys \cap DOMAIN e.values : settings[k] = e.values[k]
    BY <1>1, SettingsOfFromEnv DEF FromItsLaunch
  <2> DEFINE u == settings["UPSTREAM"]
             clear == settings["ALLOW_INSECURE_LOOPBACK"] = "true"
  <2>2. /\ c.upstream.scheme = u.scheme /\ c.upstream.host = u.host /\ c.insecure = clear
        /\ c.hosts = AllowedHosts(settings["ALLOWED_HOSTS"])
        /\ c.username = settings["TOKEN_USERNAME"] /\ c.password = settings["TOKEN_PASSWORD"]
        /\ c.connect = settings["CONNECT_TIMEOUT_MS"] /\ c.request = settings["REQUEST_TIMEOUT_MS"]
        /\ \A k \in LimitKeys : c.limits[k] = settings[k]
    BY <2>1 DEF Config
  <2> HIDE DEF c
  <2>3. u.scheme = "http" => clear /\ u.host \in Loopback
    BY <2>1 DEF Accepted, UpstreamAccepted
  <2>4. "ALLOW_INSECURE_LOOPBACK" \in DOMAIN e.values =>
           settings["ALLOW_INSECURE_LOOPBACK"] = e.values["ALLOW_INSECURE_LOOPBACK"]
    BY <2>1 DEF Keys
  <2>5. Lower(u.host) \in AllowedHosts(settings["ALLOWED_HOSTS"])
    BY <2>1 DEF Accepted, AllowedHostsAccepted
  <2>6. (settings["TOKEN_USERNAME"] = None) = (settings["TOKEN_PASSWORD"] = None)
    BY <2>1 DEF Accepted, CredentialsAccepted
  <2>7. /\ settings["CONNECT_TIMEOUT_MS"] \in 1..MaxTimeout
        /\ settings["REQUEST_TIMEOUT_MS"] \in 1..MaxTimeout
        /\ settings["CONNECT_TIMEOUT_MS"] <= settings["REQUEST_TIMEOUT_MS"]
        /\ \A k \in LimitKeys : settings[k] \in Limits[k]
    BY <2>1 DEF Accepted, TimeoutAccepted
  <2>8. 0 < c.connect /\ c.connect <= c.request /\ c.request <= MaxTimeout
    BY <2>2, <2>7, ConfigurationAssumption
  <2> HIDE DEF e, u, clear
  <2> QED
    BY <2>2, <2>3, <2>4, <2>5, <2>6, <2>7, <2>8 DEF c, e, clear
<1>2. Init => FromItsLaunch
  BY DEF Init, FromItsLaunch, Nobody
<1> QED
  BY <1>1, <1>2, AlwaysIInv, StepFromItsLaunch, PTL DEF Spec

(***************************************************************************)
(* What a command was asked for.                                           *)
(***************************************************************************)

LEMMA TwoOrMore ==
    ASSUME NEW n \in Nat, n >= 2
    PROVE  n = 2 \/ 3 <= n
OBVIOUS

\* The options of a delete, with and without the first word.
LEMMA OptionsOfRest ==
    ASSUME NEW S, NEW args \in Seq(S), NEW rest \in Seq(S), Len(args) = Len(rest) + 1,
           Len(rest) >= 2, \A i \in 1..Len(rest) : rest[i] = args[i + 1]
    PROVE  LET options == SubSeq(rest, 3, Len(rest))
               given   == SubSeq(args, 4, Len(args))
           IN  /\ Len(options) = Len(rest) - 2 /\ \A i \in 1..(Len(rest) - 2) : options[i] = rest[i + 2]
               /\ Len(given) = Len(rest) - 2 /\ \A i \in 1..(Len(rest) - 2) : given[i] = rest[i + 2]
               /\ given \in Seq(S)
<1> DEFINE options == SubSeq(rest, 3, Len(rest))
           given   == SubSeq(args, 4, Len(args))
<1>1. Len(rest) \in Nat /\ Len(rest) >= 2 /\ Len(args) = Len(rest) + 1 /\ Len(args) \in Nat
  OBVIOUS
<1>9. Len(rest) = 2 \/ 3 <= Len(rest)
  BY <1>1, TwoOrMore, Zenon
<1>2. /\ \A i \in 3..Len(rest) : rest[i] \in S
      /\ \A i \in 4..Len(args) : args[i] \in S
  BY <1>1
<1>3. /\ Len(options) = IF 3 <= Len(rest) THEN Len(rest) - 3 + 1 ELSE 0
      /\ \A i \in 1..(Len(rest) - 3 + 1) : options[i] = rest[3 + i - 1]
  BY <1>1, <1>2, SubSeqProperties
<1>4. /\ given \in Seq(S) /\ Len(given) = IF 4 <= Len(args) THEN Len(args) - 4 + 1 ELSE 0
      /\ \A i \in 1..(Len(args) - 4 + 1) : given[i] = args[4 + i - 1]
  BY <1>1, <1>2, SubSeqProperties
<1> HIDE DEF options, given
<1>5. Len(options) = Len(rest) - 2
  <2>1. CASE Len(rest) = 2
    BY <1>3, <2>1
  <2>2. CASE 3 <= Len(rest)
    BY <1>1, <1>3, <2>2
  <2> QED
    BY <1>9, <2>1, <2>2, Zenon
<1>8. Len(given) = Len(rest) - 2
  <2>1. CASE Len(rest) = 2
    BY <1>1, <1>4, <2>1
  <2>2. CASE 3 <= Len(rest)
    BY <1>1, <1>4, <2>2
  <2> QED
    BY <1>9, <2>1, <2>2, Zenon
<1>6. \A i \in 1..(Len(rest) - 2) : options[i] = rest[i + 2]
  BY <1>1, <1>3
<1>7. \A i \in 1..(Len(rest) - 2) : given[i] = rest[i + 2]
  BY <1>1, <1>4
<1> QED
  BY <1>4, <1>5, <1>6, <1>7, <1>8 DEF options, given

\* A command that is no dry run has the option that says so, or none.
LEMMA ParsedChange ==
    ASSUME NEW S, NEW args \in Seq(S), Parse(args) # Invalid,
           Parse(args).kind \notin {"help", "serve", "publish"}, ~Parse(args).dry
    PROVE  /\ "--dry-run" \notin Options(args)
           /\ args[2] = "delete" => "--yes" \in Options(args)
<1> DEFINE rest == Tail(args)
<1>1. args # <<>> /\ Parse(args) = ParseAutoindex(rest)
  <2>1. Serve.kind = "serve" /\ Help.kind = "help" /\ \A d : Publish(d).kind = "publish"
    BY DEF Serve, Help, Publish
  <2>2. \A a : ParsePublish(a) = Invalid \/ ParsePublish(a).kind \in {"help", "publish"}
    BY <2>1 DEF ParsePublish
  <2> QED
    BY <2>1, <2>2 DEF Parse
<1>2. /\ rest \in Seq(S) /\ Len(args) = Len(rest) + 1 /\ Len(args) \in Nat /\ Len(rest) \in Nat
      /\ \A i \in 1..Len(rest) : rest[i] = args[i + 1]
  BY <1>1
<1> HIDE DEF rest
<1>3. \/ /\ rest[1] \in {"create", "update"} /\ Len(rest) \in 3..4
         /\ Parse(args) = [kind |-> rest[1], dry |-> Len(rest) = 4]
      \/ /\ rest[1] = "delete" /\ Len(rest) >= 2
         /\ Parse(args) = ParseDelete(SubSeq(rest, 3, Len(rest)))
  <2>1. Help.kind = "help"
    BY DEF Help
  <2> QED
    BY <1>1, <2>1 DEF ParseAutoindex
<1>4. CASE rest[1] \in {"create", "update"} /\ Len(rest) \in 3..4
           /\ Parse(args) = [kind |-> rest[1], dry |-> Len(rest) = 4]
  <2>1. Len(rest) = 3 /\ Len(args) = 4 /\ args[2] = rest[1]
    <3>1. Len(rest) # 4
      <4> SUFFICES ASSUME Len(rest) = 4 PROVE FALSE
        OBVIOUS
      <4>1. (Len(rest) = 4) = TRUE
        OBVIOUS
      <4>2. Parse(args) = [kind |-> rest[1], dry |-> TRUE]
        BY <1>4, <4>1, Zenon
      <4> QED
        BY <4>2
    <3>2. Len(rest) = 3
      <4>1. Len(rest) \in 3..4
        BY <1>4
      <4> QED
        BY <3>1, <4>1
    <3>3. Len(args) = 4
      BY <1>2, <3>2
    <3>4. args[2] = rest[1]
      BY <1>2, <3>2
    <3> QED
      BY <3>2, <3>3, <3>4
  <2>2. args[2] # "delete"
    BY <1>4, <2>1
  <2>3. SubSeq(args, 5, Len(args)) = <<>>
    BY <1>2, <2>1
  <2> QED
    BY <2>2, <2>3 DEF Options, ToSet
<1>5. CASE rest[1] = "delete" /\ Len(rest) >= 2
           /\ Parse(args) = ParseDelete(SubSeq(rest, 3, Len(rest)))
  <2> DEFINE options == SubSeq(rest, 3, Len(rest))
             given   == SubSeq(args, 4, Len(args))
  <2>1. /\ Len(options) = Len(rest) - 2 /\ \A i \in 1..(Len(rest) - 2) : options[i] = rest[i + 2]
        /\ Len(given) = Len(rest) - 2 /\ \A i \in 1..(Len(rest) - 2) : given[i] = rest[i + 2]
        /\ given \in Seq(S)
    BY <1>2, <1>5, OptionsOfRest
  <2>2. Parse(args) = ParseDelete(options) /\ args[2] = "delete"
    BY <1>2, <1>5
  <2> HIDE DEF options, given
  <2>3. options = <<"--yes">>
    <3>1. options \in {<<"--yes">>, <<"--dry-run">>} /\ Parse(args) = [kind |-> "delete", dry |-> options = <<"--dry-run">>]
      BY <2>2 DEF ParseDelete
    <3>2. ASSUME options = <<"--dry-run">> PROVE FALSE
      <4>1. (options = <<"--dry-run">>) = TRUE
        BY <3>2
      <4>2. Parse(args) = [kind |-> "delete", dry |-> TRUE]
        BY <3>1, <4>1, Zenon
      <4> QED
        BY <4>2
    <3> QED
      BY <3>1, <3>2
  <2>4. Len(options) = 1 /\ options[1] = "--yes"
    BY <2>3
  <2>5. Len(given) = 1 /\ given[1] = "--yes" /\ DOMAIN given = 1..1
    BY <1>2, <2>1, <2>4
  <2>6. ToSet(given) = {"--yes"}
    BY <2>5 DEF ToSet
  <2>7. Options(args) = {"--yes"}
    BY <2>2, <2>6 DEF Options, given
  <2> QED
    BY <2>7
<1> QED
  BY <1>3, <1>4, <1>5

\* From the check on, a command is what its arguments say, and after it no dry run.
Askers == {"load", "name", "fill", "layout", "login", "oras"}

Asked(p) ==
    LET q == proc[p] IN
    q.pc \in Askers /\ q.command.kind # "publish" =>
       /\ q.launch \in AllLaunches /\ q.command = Parse(q.launch.args)
       /\ q.command.kind \notin {"help", "serve"}
       /\ q.pc # "load" => ~q.command.dry

\* A step of p that asks for nothing else.
Goes(p) ==
    /\ \A q \in Pids \ {p} : proc'[q] = proc[q]
    /\ \/ proc'[p].pc \notin Askers
       \/ /\ proc'[p].command = proc[p].command /\ proc'[p].launch = proc[p].launch
          /\ \/ proc[p].command.kind = "publish"
             \/ proc[p].pc \in Askers /\ (proc[p].pc # "load" \/ ~proc[p].command.dry)

AllAsked == \A p \in Pids : Asked(p)

LEMMA StepAsked == IInv /\ AllAsked /\ [Next]_vars => AllAsked'
<1> SUFFICES ASSUME IInv, AllAsked, [Next]_vars PROVE AllAsked'
  OBVIOUS
<1>1. CASE UNCHANGED proc
  BY <1>1 DEF AllAsked, Asked
<1>2. ASSUME NEW p \in Pids, Goes(p) PROVE AllAsked'
  BY <1>2 DEF Goes, AllAsked, Asked
<1>3. proc \in [Pids -> Procs] /\ \A p \in Pids : Placed(p)
  BY DEF IInv, Typed
<1>4. ASSUME NEW p \in Pids, NEW why, End(p, why) PROVE Goes(p)
  BY <1>3, <1>4 DEF End, Ended, Nobody, Goes, Askers
<1>5. ASSUME NEW p \in Pids, NEW why, Drop(p, why) PROVE Goes(p)
  BY <1>3, <1>5 DEF Drop, Procs, Goes, Askers
<1>6. ASSUME NEW p \in Pids, NEW pc, To(p, pc), pc \notin Askers PROVE Goes(p)
  BY <1>3, <1>6 DEF To, Procs, Goes
<1>7. ASSUME NEW p \in Pids, NEW pc, To(p, pc),
             \/ proc[p].command.kind = "publish"
             \/ proc[p].pc \in Askers /\ (proc[p].pc # "load" \/ ~proc[p].command.dry)
      PROVE  Goes(p)
  BY <1>3, <1>7 DEF To, Procs, Goes
<1>8. ASSUME NEW p \in Pids, TryName(p) PROVE Goes(p)
  <2>1. CASE proc' = [proc EXCEPT ![p].pc = "fill", ![p].work = <<p, proc[p].attempt>>]
    BY <1>3, <1>8, <2>1 DEF Procs, Goes, Askers, TryName
  <2>2. CASE proc' = [proc EXCEPT ![p].attempt = @ + 1]
    BY <1>3, <1>8, <2>2 DEF Procs, Goes, Askers, TryName
  <2>3. CASE End(p, "names") \/ End(p, "storage")
    BY <1>4, <2>3
  <2> QED
    BY <1>8, <2>1, <2>2, <2>3 DEF TryName
<1>9. ASSUME NEW p \in Pids, NEW empty \in BOOLEAN, Fill(p, empty) PROVE Goes(p)
  <2>1. proc[p].pc = "fill" /\ \E pc, child : proc' = [proc EXCEPT ![p].pc = pc, ![p].child = child]
    BY <1>9 DEF Fill
  <2> QED
    BY <1>3, <2>1 DEF Procs, Goes, Askers
<1>10. ASSUME NEW p \in Pids, BeginLayout(p) PROVE Goes(p)
  <2>1. CASE proc' = [proc EXCEPT ![p].pc = "layout", ![p].work = proc[p].command.to]
    BY <1>3, <1>10, <2>1 DEF Procs, Goes, BeginLayout
  <2>2. CASE End(p, "exists") \/ End(p, "publication")
    BY <1>4, <2>2
  <2> QED
    BY <1>10, <2>1, <2>2 DEF BeginLayout
<1>11. ASSUME NEW p \in Pids, Kill(p, TRUE) \/ Kill(p, FALSE) PROVE Goes(p)
  BY <1>3, <1>11 DEF Kill, Nobody, Goes, Askers
<1>12. ASSUME NEW p \in Pids, NEW ok \in BOOLEAN, Listen(p, ok) \/ Check(p, ok) \/ Report(p, ok)
       PROVE  Goes(p)
  <2>1. CASE Listen(p, ok)
    <3>1. "serve" \notin Askers
      BY DEF Askers
    <3> QED
      BY <1>4, <1>6, <2>1, <3>1 DEF Listen
  <2>2. CASE Check(p, ok)
    <3>1. proc[p].pc \in Askers
      BY <2>2 DEF Check, Askers
    <3> QED
      BY <1>4, <1>7, <2>2, <3>1 DEF Check
  <2>3. CASE Report(p, ok)
    BY <1>4, <2>3 DEF Report
  <2> QED
    BY <1>12, <2>1, <2>2, <2>3
<1>13. ASSUME NEW p \in Pids, WritePart(p) PROVE Goes(p) \/ UNCHANGED proc
  <2>1. proc[p].pc \in Askers /\ proc[p].pc # "load"
    BY <1>13 DEF WritePart, Askers
  <2> QED
    BY <1>7, <1>13, <2>1 DEF WritePart
<1>14. ASSUME NEW p \in Pids, NEW ok \in BOOLEAN, LoginEnds(p, ok) \/ OrasEnds(p, ok) PROVE Goes(p)
  <2>1. CASE LoginEnds(p, ok)
    <3>1. proc[p].pc \in Askers /\ proc[p].pc # "load"
      BY <2>1 DEF LoginEnds, Askers
    <3> QED
      BY <1>5, <1>7, <2>1, <3>1 DEF LoginEnds
  <2>2. CASE OrasEnds(p, ok)
    BY <1>5, <2>2 DEF OrasEnds
  <2> QED
    BY <1>14, <2>1, <2>2
<1>15. ASSUME NEW p \in Pids, Step(p) \/ Oras(p) \/ CtrlC(p) PROVE Goes(p) \/ UNCHANGED proc
  BY <1>4, <1>5, <1>8, <1>9, <1>10, <1>12, <1>13, <1>14, <1>15
     DEF Step, Oras, CtrlC, FillFails, DropWork, LayoutFails
<1>16. ASSUME NEW p \in Pids, runs < MaxRuns, NEW l \in Launches[runs + 1], Launch(p, l)
       PROVE  AllAsked'
  <2>1. l \in AllLaunches
    <3>1. runs + 1 \in 1..MaxRuns
      BY <1>16, InvocationsAssumption DEF IInv, Typed
    <3> QED
      BY <3>1 DEF AllLaunches
  <2>2. \A q \in Pids \ {p} : proc'[q] = proc[q]
    BY <1>16, LaunchFacts
  <2>3. /\ proc'[p].pc \in {"ended", "start", "load"}
        /\ proc'[p].pc = "load" => /\ proc'[p].launch = l /\ proc'[p].command = Parse(l.args)
                                   /\ proc'[p].command.kind \notin {"help", "serve", "publish"}
    BY <1>16, LaunchFacts
  <2> QED
    BY <2>1, <2>2, <2>3 DEF AllAsked, Asked, Askers
<1>17. CASE Next
  BY <1>1, <1>2, <1>11, <1>15, <1>16, <1>17 DEF Next, OrphanEnds
<1>18. CASE UNCHANGED vars
  BY <1>1, <1>18 DEF vars
<1> QED
  BY <1>17, <1>18

\* However many processes there are and whatever their arguments, the registry is
\* changed by no dry run, and by no delete without --yes.
THEOREM ChangesWereAskedFor == Spec => []ChangesAreAskedFor
<1>1. Init => AllAsked
  BY DEF Init, Nobody, AllAsked, Asked, Askers
<1>2. ASSUME IInv, AllAsked PROVE ChangesAreAskedFor
  <2> SUFFICES ASSUME NEW p \in Pids, Waits(p)
               PROVE  /\ "--dry-run" \notin Options(proc[p].launch.args)
                      /\ proc[p].launch.args[2] = "delete" => "--yes" \in Options(proc[p].launch.args)
    BY DEF ChangesAreAskedFor
  <2>1. proc[p].pc \in Commanding /\ proc[p].pc \in Askers /\ proc[p].pc # "load" /\ Alive(p)
    BY DEF Waits, Commanding, Askers, Alive
  <2>2. proc[p].command.kind # "publish" /\ proc[p].command # Invalid
    BY <1>2, <2>1 DEF IInv, Placed
  <2>3. /\ proc[p].launch \in AllLaunches /\ proc[p].command = Parse(proc[p].launch.args)
        /\ proc[p].command.kind \notin {"help", "serve"} /\ ~proc[p].command.dry
    BY <1>2, <2>1, <2>2 DEF AllAsked, Asked
  <2> DEFINE args == proc[p].launch.args
  <2>4. args \in Seq(ToSet(args))
    BY <2>3, InvocationsAssumption DEF AllLaunches
  <2> HIDE DEF args
  <2>5. Parse(args) # Invalid /\ Parse(args).kind \notin {"help", "serve", "publish"} /\ ~Parse(args).dry
    BY <2>2, <2>3 DEF args
  <2> QED
    BY <2>4, <2>5, ParsedChange DEF args
<1> QED
  BY <1>1, <1>2, AlwaysIInv, StepAsked, PTL DEF Spec
=============================================================================
