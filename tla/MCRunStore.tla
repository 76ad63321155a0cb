----------------------------- MODULE MCRunStore -----------------------------
(***************************************************************************)
(* Payout records under three loads.  A behaviour stays in the situation   *)
(* it starts in:                                                           *)
(*   busy    two runs are saved, marked, deleted and listed, no memo is    *)
(*           edited and every file access succeeds;                        *)
(*   faults  one file access fails and the page is closed once;            *)
(*   one     one run, with its memo edited and one access that fails.      *)
(***************************************************************************)
EXTENDS RunStore

CONSTANT alone      \* the run of the last situation

VARIABLE situation

all == <<runVars, situation>>

Faults == INSTANCE RunStore WITH MarkKinds <- {"claimed"}

MCInit == RunInit /\ situation \in {"busy", "faults", "one"}

MCNext ==
    /\ \/ situation = "busy" /\ RunNext /\ Unedited' /\ NothingFailed'
       \/ situation = "faults" /\ Faults!RunNext /\ Unedited'
       \/ /\ situation = "one" /\ RunNext /\ budget'.crashes = MaxCrashes
          /\ \A id \in Ids \ {alone} : files'[id] = Fresh
    /\ UNCHANGED situation

MCSpec ==
    /\ MCInit /\ [][MCNext]_all
    /\ \A s \in 1 .. MaxOps : WF_runVars(situation = "one" /\ OpStep(s))

(* Operations end, also behind one that failed in their queue.             *)
OneRunEnds == (situation = "one") => EveryOperationEnds
=============================================================================
