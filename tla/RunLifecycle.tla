---------------------------- MODULE RunLifecycle ----------------------------
(***************************************************************************)
(* What a run promises to whoever watches it: the page subscribes to the   *)
(* status of the run and of its step_runs and sees nothing else.  Steps    *)
(* are taken one at a time, an active step ends before the next one        *)
(* begins, a pause is left only through an approval, and the final status  *)
(* agrees with the rows.  Who executes the run, how often the event is     *)
(* delivered and what fails underneath does not appear here.               *)
(***************************************************************************)
CONSTANT StepId

VARIABLES
  status,  \* workflow_runs.status
  steps    \* step_runs.status by step, "absent" where there is no row

view == <<status, steps>>

Active  == {s \in StepId : steps[s] \in {"running", "paused"}}
Absent  == {s \in StepId : steps[s] = "absent"}
Failed  == {s \in StepId : steps[s] = "failed"}

Init == status = "pending" /\ steps = [s \in StepId |-> "absent"]

Move(from, to)       == status = from /\ status' = to /\ UNCHANGED steps
MoveStep(s, from, to) == /\ steps[s] \in from
                         /\ steps' = [steps EXCEPT ![s] = to]
                         /\ UNCHANGED status

Start == Move("pending", "running")

\* A step begins, or a gate is reached, while no other is active or failed.
Begin(s, to) == /\ status = "running"
                /\ Active = {} /\ Failed = {}
                /\ to \in {"running", "paused"}
                /\ MoveStep(s, {"absent"}, to)

Finish(s) == status = "running" /\ MoveStep(s, {"running"}, "completed")

\* A branch whose target is refused fails after it was shown as completed.
Fail(s) == /\ status = "running"
           /\ Active \subseteq {s}
           /\ Failed = {}
           /\ MoveStep(s, {"running", "completed"}, "failed")

Skip(S) == /\ status = "running"
           /\ Active = {}
           /\ S # {}
           /\ steps' = [s \in StepId |-> IF s \in S THEN "skipped" ELSE steps[s]]
           /\ UNCHANGED status

Pause      == Move("running", "paused") /\ \E g \in StepId : steps[g] = "paused"
Approve(g) == status = "paused" /\ MoveStep(g, {"paused"}, "completed")
Resume     == Move("paused", "running") /\ Active = {}
Complete   == Move("running", "completed") /\ Active = {} /\ Failed = {}
FailRun    == Move("running", "failed") /\ Active = {} /\ Failed # {}

Next ==
  \/ Start \/ Pause \/ Resume \/ Complete \/ FailRun
  \/ \E s \in StepId : \/ Finish(s) \/ Fail(s) \/ Approve(s)
                       \/ \E to \in {"running", "paused"} : Begin(s, to)
  \/ \E S \in SUBSET Absent : Skip(S)

Spec == Init /\ [][Next]_view
=============================================================================
