---------------------------- MODULE Supervision ----------------------------
(***************************************************************************)
(* What the experiment runner promises its callers (experiment run, the    *)
(* benchmark, matrix, operation and utility-suite runners) about the       *)
(* process group of the command: the contract of type Result in            *)
(* internal/experimentrun/run.go and docs/evidence-format.md, without the  *)
(* signals, probes and timers that keep it.                                *)
(***************************************************************************)

VARIABLES
  begun,    \* the command was started
  alive,    \* its process group has a member
  outcome   \* "none" until the result is returned

Outcomes == {"passed", "quiet", "contained", "uncontained"}

Init == begun = FALSE /\ alive = FALSE /\ outcome = "none"

\* A group is started at most once, and before a result exists.
Begin == /\ ~begun /\ outcome = "none"
         /\ begun' = TRUE /\ alive' = TRUE /\ UNCHANGED outcome

\* The last member disappears; nothing can join an empty group.
Vanish == alive /\ alive' = FALSE /\ UNCHANGED <<begun, outcome>>

\* Only a result that admits "containment not confirmed" may leave a member.
Return(o) == /\ outcome = "none" /\ outcome' = o
             /\ o # "uncontained" => ~alive
             /\ o = "passed" => begun
             /\ UNCHANGED <<begun, alive>>

Next == Begin \/ Vanish \/ \E o \in Outcomes : Return(o)

Spec == Init /\ [][Next]_<<begun, alive, outcome>>
=============================================================================
