------------------------------ MODULE MCService -----------------------------
(***************************************************************************)
(* The instances of MCCrud with readers.                                   *)
(***************************************************************************)
EXTENDS MCCrud, AutoindexService

ReadTargets == {[path |-> p, slash |-> s] : p \in {<<1>>}, s \in BOOLEAN}
                 \cup {[path |-> <<2>>, slash |-> FALSE], [path |-> <<>>, slash |-> TRUE]}
AbsentDirectory == {[path |-> <<3>>, slash |-> TRUE]}
=============================================================================
