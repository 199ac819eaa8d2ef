--------------------------- MODULE MCOwnedChildren ---------------------------
(***************************************************************************)
(* Instances of OwnedChildren for TLC.  The safety run takes two settings  *)
(* at once: the one of the cfg, where making and removing a token may      *)
(* fail, and Termed, where tokens never fail and the Go runner may send    *)
(* SIGTERM to the whole group.                                             *)
(***************************************************************************)
EXTENDS OwnedChildren, TLC

CONSTANTS metrics, j1

VARIABLE setting

Termed == INSTANCE OwnedChildren WITH Contained <- TRUE, Faults <- FALSE, Sampled <- {TRUE}

BothInit == \/ setting = "tokens" /\ Init
            \/ setting = "group" /\ Termed!Init
BothNext == /\ UNCHANGED setting
            /\ \/ setting = "tokens" /\ Next
               \/ setting = "group" /\ Termed!Next
BothSpec == BothInit /\ [][BothNext]_<<vars, setting>>

\* The setting of the cfg alone, under the fairness of FairSpec.
ProgressInit == setting = "tokens" /\ Init
ProgressSpec == /\ ProgressInit /\ [][BothNext]_<<vars, setting>>
                /\ WF_vars(OwnerStep) /\ WF_vars(Spend)
                /\ \A p \in Procs : WF_vars(SupStep(p))
=============================================================================
