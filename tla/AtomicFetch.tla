----------------------------- MODULE AtomicFetch -----------------------------
(***************************************************************************)
(* What fetching one blob promises a command: some time after it was asked *)
(* for, either exactly the described content or a failure, and never       *)
(* anything in between.  AutoindexCrud's FetchFile and FetchRefused use it *)
(* in this form.                                                           *)
(***************************************************************************)
CONSTANTS Fetchers
VARIABLES outcome     \* per fetcher: "idle", "pending", "whole" or "failed"

Ask(f) ==
    /\ outcome[f] # "pending"
    /\ outcome' = [outcome EXCEPT ![f] = "pending"]

Settle(f) ==
    /\ outcome[f] = "pending"
    /\ \E o \in {"whole", "failed"} : outcome' = [outcome EXCEPT ![f] = o]

FetchInit == outcome = [f \in Fetchers |-> "idle"]

FetchNext == \E f \in Fetchers : Ask(f) \/ Settle(f)

FetchSafety == FetchInit /\ [][FetchNext]_outcome

FetchSpec == FetchSafety /\ \A f \in Fetchers : WF_outcome(Settle(f))
=============================================================================
