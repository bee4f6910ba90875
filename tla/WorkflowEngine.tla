--------------------------- MODULE WorkflowEngine ---------------------------
(***************************************************************************)
(* The execution of ONE workflow run, from the event Hasura raises when    *)
(* the run is inserted to the run's terminal status: executeRun and the    *)
(* retry wrapper of packages/engine, the event receiver and the approval   *)
(* action that call it, the rows of workflow_runs and step_runs they       *)
(* write, and the editors who may change workflow_steps meanwhile.         *)
(*                                                                         *)
(* Every call of executeRun is a process, a "handler": one per delivery of *)
(* the event, one per approval request.  Handlers share nothing but the    *)
(* database, and each GraphQL request is one atomic step of a handler: it  *)
(* is answered, or refused (no effect), or takes effect and its answer is  *)
(* lost.  A handler may also die between two requests.                     *)
(***************************************************************************)
EXTENDS Integers, FiniteSets

CONSTANTS
  StepId,           \* ids of workflow_steps, deleted and foreign ones included
  Workflows,        \* the definitions the workflow may have, or be edited into
  Delivery,         \* the deliveries of the event: the first try and its retries
  Approval,         \* approval requests that may be in progress at once
  DefaultAttempts,  \* STEP_MAX_ATTEMPTS
  MaxFaults,        \* bound on crashes, refused requests and lost answers
  MaxEdits,         \* bound on edits of the definition during the run
  None,             \* SQL NULL
  End,              \* steps.length: the index past the last step
  Missing           \* a branch target that is not in the workflow

CallType == {"llm_call", "http_request", "db_write", "notify"}
StepType == CallType \cup {"conditional_branch", "approval_gate"}

Target == [action : {"continue", "end"}]
            \cup [goto_step_id : StepId]
            \cup [goto_position : Nat]

(***************************************************************************)
(* A definition: which rows workflow_steps holds, and per step its         *)
(* position (unique, not negative), its type, the attempts its config asks *)
(* for, and the targets a branch is configured with.                       *)
(***************************************************************************)
Workflow ==
  {w \in [steps        : SUBSET StepId,
          position     : [StepId -> Nat],
          type         : [StepId -> StepType],
          max_attempts : [StepId -> Int \cup {None}],
          branches     : [StepId -> SUBSET Target]] :
     \A s, t \in w.steps : w.position[s] = w.position[t] => s = t}

ASSUME WorkflowsAssumption == Workflows \subseteq Workflow
ASSUME HandlersAssumption  == Delivery \cap Approval = {}
ASSUME BoundsAssumption    == /\ DefaultAttempts \in Int
                              /\ MaxFaults \in Nat
                              /\ MaxEdits \in Nat
ASSUME NullsAssumption     == /\ None \notin Workflow \cup Int \cup Delivery \cup Approval
                              /\ End \notin StepId
                              /\ Missing \notin StepId
                              /\ End # Missing

Handler == Delivery \cup Approval

RunStatus       == {"pending", "running", "paused", "completed", "failed"}
TerminalStatus  == {"completed", "failed"}
StepRunStatus   == {"absent", "running", "paused", "completed", "failed", "skipped"}

VARIABLES
  workflow,  \* the rows of workflow_steps
  run,       \* the row of workflow_runs
  stepRun,   \* the rows of step_runs, by workflow_step_id; "absent" is no row
  event,     \* Hasura's log entry for the insert of the run
  pc,        \* what each handler does next
  frame,     \* the locals of each handler's executeRun
  calls,     \* how often each step's body was entered (observer)
  faults,    \* faults so far
  edits,     \* edits so far
  deleted    \* ids of deleted steps, which are not used again

vars == <<workflow, run, stepRun, event, pc, frame, calls, faults, edits, deleted>>

-----------------------------------------------------------------------------
(* The ordered step list.  The code indexes an array sorted by position;   *)
(* here an index is the step found there, or End.                          *)

FirstOf(w, S) ==
  IF S = {} THEN End
  ELSE CHOOSE s \in S : \A t \in S : w.position[s] <= w.position[t]

After(w, s)     == {t \in w.steps : w.position[t] > w.position[s]}
NextStep(w, s)  == FirstOf(w, After(w, s))
FirstFrom(w, p) == FirstOf(w, {t \in w.steps : w.position[t] >= p})

\* Variant for a check: steps.slice(index + 2, target.index).
BetweenFromSecond(w, s, dest) ==
  {t \in After(w, s) : /\ t # NextStep(w, s)
                       /\ dest # End => w.position[t] < w.position[dest]}

\* steps.slice(index + 1, target.index); with End, steps.slice(index + 1)
Between(w, s, dest) ==
  {t \in After(w, s) : dest # End => w.position[t] < w.position[dest]}

\* Variant for a check: a pause remembers the gate instead of its successor.
NextPositionOfGate(w, s) == w.position[s]

\* What a run that pauses at s remembers as its resume_position.
NextPosition(w, s) ==
  LET next == NextStep(w, s)
  IN  IF next = End THEN w.position[s] + 1 ELSE w.position[next]

ResolveBranchTarget(w, target, s) ==
  CASE "action" \in DOMAIN target ->
         IF target.action = "end" THEN End ELSE NextStep(w, s)
    [] "goto_step_id" \in DOMAIN target ->
         IF target.goto_step_id \in w.steps THEN target.goto_step_id ELSE Missing
    [] OTHER ->
         IF \E t \in w.steps : w.position[t] = target.goto_position
         THEN CHOOSE t \in w.steps : w.position[t] = target.goto_position
         ELSE Missing

\* Where the run may go once the body of s has succeeded.
Destinations(w, s) ==
  IF w.type[s] = "conditional_branch"
  THEN {ResolveBranchTarget(w, t, s) : t \in w.branches[s]}
  ELSE {NextStep(w, s)}

\* Variant for a check: backward jumps are not refused.
RefusableIfMissing(w, s, dest) == dest = Missing

\* Not in the workflow, or not ahead of the step that branches.
Refusable(w, s, dest) == dest # End /\ dest \notin After(w, s)

MaxAttempts(w, s) ==
  LET wanted == IF w.max_attempts[s] = None THEN DefaultAttempts ELSE w.max_attempts[s]
  IN  IF wanted < 1 THEN 1 ELSE wanted

-----------------------------------------------------------------------------
(* The rows.                                                               *)

NoRow == [status |-> "absent", attempt_count |-> 0, approved_by |-> None]

CompletedSteps == {s \in StepId : stepRun[s].status = "completed"}

\* The gates a bundle shows as completed with an approver.
ApprovedGates == {s \in CompletedSteps : stepRun[s].approved_by # None}

\* Variant for a check: the claim is not conditional on the status.
ClaimUnconditionally == TRUE

\* update_workflow_runs where status = pending
ClaimAffectsRow == run.status = "pending"

\* Variant for a check: an approved gate can be approved again.
ApprovalOverwrites(g) == stepRun[g].status \in {"paused", "completed"}

\* update_step_runs where status = paused and approved_by is null
ApprovalAffectsRow(g) == stepRun[g].status = "paused" /\ stepRun[g].approved_by = None

\* Variants for checks: the next attempt is counted; a status the column's
\* CHECK does not know.
WithNextAttempt(row, n) == [row EXCEPT !.attempt_count = n + 1]
MarkedApproved(row, h)  == [row EXCEPT !.status = "approved", !.approved_by = h]

\* insert ... on conflict update the columns of the patch only
Begun(row)             == [row EXCEPT !.status = "running", !.attempt_count = 0]
WithStatus(row, s)     == [row EXCEPT !.status = s]
WithAttempt(row, n)    == [row EXCEPT !.attempt_count = n]
ApprovedBy(row, h)     == [row EXCEPT !.status = "completed", !.approved_by = h]

UpsertStepRun(s, row) == stepRun' = [stepRun EXCEPT ![s] = row]

\* insert ... on conflict do nothing
MarkStepsSkipped(S) ==
  stepRun' = [s \in StepId |->
                IF s \in S /\ stepRun[s].status = "absent"
                THEN WithStatus(stepRun[s], "skipped")
                ELSE stepRun[s]]

MarkRun(status, position) == run' = [status |-> status, resume_position |-> position]

-----------------------------------------------------------------------------
(* Handlers.                                                               *)

NoFrame == [plan |-> None, seen |-> {}, ctx |-> {}, cursor |-> End,
            attempt |-> 0, willRetry |-> FALSE, dest |-> End]

\* Variant for a check: the context is not rebuilt.
LoadedWithoutContext(cursor) == [NoFrame EXCEPT !.plan = workflow, !.seen = ApprovedGates,
                                                !.cursor = cursor]

\* The bundle a handler loads: the steps, the approved gates, the context
\* rebuilt from the completed rows.
Loaded(cursor) == [NoFrame EXCEPT !.plan = workflow, !.seen = ApprovedGates,
                                  !.ctx = CompletedSteps, !.cursor = cursor]

Plan(h)   == frame[h].plan
Cursor(h) == frame[h].cursor
AtGate(h) == /\ Cursor(h) # End
             /\ Plan(h).type[Cursor(h)] = "approval_gate"
AtApprovedGate(h) == AtGate(h) /\ Cursor(h) \in frame[h].seen

Goto(h, p, f) == /\ pc' = [pc EXCEPT ![h] = p]
                 /\ frame' = [frame EXCEPT ![h] = f]

\* A delivery still has to answer Hasura; an approval slot is free again.
Leave(h, answer) == Goto(h, IF h \in Delivery THEN answer ELSE "idle", NoFrame)

\* Variant for a check: one attempt too many.
CanRetryOnceMore(h) == frame[h].attempt <= MaxAttempts(Plan(h), Cursor(h))

CanRetry(h) == frame[h].attempt < MaxAttempts(Plan(h), Cursor(h))

(***************************************************************************)
(* A request of h throws.  Inside withRetry's try block (the bookkeeping   *)
(* after a successful body included) the error counts as a failed attempt; *)
(* in its catch block it leaves withRetry, and the step fails; anywhere    *)
(* else it leaves executeRun, and the caller answers with an error.        *)
(***************************************************************************)
Throw(h) ==
  \/ /\ pc[h] = "reportOk"
     /\ Goto(h, "reportErr", [frame[h] EXCEPT !.willRetry = CanRetry(h)])
  \/ /\ pc[h] = "reportErr"
     /\ Goto(h, "failStep", frame[h])
  \/ /\ pc[h] \notin {"reportOk", "reportErr"}
     /\ Leave(h, "error")

Fault == faults < MaxFaults /\ faults' = faults + 1

\* A write of h took effect: its answer arrives, or is lost.
Answer(h, p, f) == \/ Goto(h, p, f) /\ UNCHANGED faults
                   \/ Throw(h) /\ Fault

\* A write that names steps, one of which an editor has deleted, is refused.
Dangling(h, S) == /\ ~ S \subseteq workflow.steps
                  /\ Throw(h)
                  /\ UNCHANGED <<run, stepRun, faults>>

Upsert(h, row, p, f) ==
  \/ /\ Cursor(h) \in workflow.steps
     /\ UpsertStepRun(Cursor(h), row)
     /\ Answer(h, p, f)
     /\ UNCHANGED run
  \/ Dangling(h, {Cursor(h)})

Row(h) == stepRun[Cursor(h)]

(* The event receiver: one handler per delivery. *)

Deliver(d) ==
  /\ ~ event.acked
  /\ event.awaiting = None
  /\ pc[d] = "idle"
  /\ event' = [event EXCEPT !.awaiting = d]
  /\ Goto(d, "load", NoFrame)
  /\ UNCHANGED <<workflow, run, stepRun, calls, faults, edits, deleted>>

\* Hasura stops waiting for d, whether d is alive or not, and will try again.
DeliveryTimeout(d) ==
  /\ event.awaiting = d
  /\ event' = [event EXCEPT !.awaiting = None]
  /\ UNCHANGED <<workflow, run, stepRun, pc, frame, calls, faults, edits, deleted>>

\* Variant for a check: any answer acknowledges the event.
AcknowledgesAlways(d) == TRUE

Acknowledges(d) == pc[d] = "done"

\* 200 acknowledges the event, 500 has it delivered again.  An answer that
\* Hasura no longer waits for changes nothing.
Respond(d) ==
  /\ pc[d] \in {"done", "error"}
  /\ event' = IF event.awaiting = d
              THEN [acked |-> Acknowledges(d), awaiting |-> None]
              ELSE event
  /\ Goto(d, "gone", NoFrame)
  /\ UNCHANGED <<workflow, run, stepRun, calls, faults, edits, deleted>>

(* The approval action. *)

\* authorizeApproval, for a caller whose membership and role allow it: one
\* read.  Nothing is held between this read and the claim below.
AuthorizeApproval(h, g) ==
  /\ pc[h] = "idle"
  /\ g \in workflow.steps
  /\ workflow.type[g] = "approval_gate"
  /\ ApprovalAffectsRow(g)
  /\ run.status = "paused"
  /\ Goto(h, "claimApproval", [NoFrame EXCEPT !.cursor = g])
  /\ UNCHANGED <<workflow, run, stepRun, event, calls, faults, edits, deleted>>

ClaimApproval(h) ==
  /\ pc[h] = "claimApproval"
  /\ \/ /\ ApprovalAffectsRow(Cursor(h))
        /\ UpsertStepRun(Cursor(h), ApprovedBy(Row(h), h))
        /\ Answer(h, "load", NoFrame)
     \/ /\ ~ ApprovalAffectsRow(Cursor(h))
        /\ Leave(h, "error")
        /\ UNCHANGED <<stepRun, faults>>
  /\ UNCHANGED <<workflow, run, event, calls, edits, deleted>>

(* executeRun: loading, claiming, resuming. *)

\* Variant for a check: resumption begins after resume_position.
ResumeCursorBeyond ==
  FirstOf(workflow, {t \in workflow.steps : workflow.position[t] > run.resume_position})

\* Where executeRun(run, 'resume') begins, from the bundle it loads.
ResumeCursor ==
  IF run.resume_position = None THEN FirstOf(workflow, workflow.steps)
  ELSE FirstFrom(workflow, run.resume_position)

\* Variant for a check: approveAndResume calls executeRun in its default mode.
LoadInStartMode(h) ==
  /\ pc[h] = "load"
  /\ IF run.status \in TerminalStatus THEN Leave(h, "done") ELSE Goto(h, "claim", NoFrame)
  /\ UNCHANGED <<workflow, run, stepRun, event, calls, faults, edits, deleted>>

Load(h) ==
  /\ pc[h] = "load"
  /\ \/ /\ run.status \in TerminalStatus
        /\ Leave(h, "done")
     \/ /\ run.status \notin TerminalStatus
        /\ h \in Delivery
        /\ Goto(h, "claim", NoFrame)
     \/ /\ run.status \notin TerminalStatus
        /\ h \in Approval
        /\ Goto(h, "resume", Loaded(ResumeCursor))
  /\ UNCHANGED <<workflow, run, stepRun, event, calls, faults, edits, deleted>>

ClaimRun(h) ==
  /\ pc[h] = "claim"
  /\ \/ /\ ClaimAffectsRow
        /\ MarkRun("running", run.resume_position)
        /\ Answer(h, "reload", NoFrame)
     \/ /\ ~ ClaimAffectsRow
        /\ Leave(h, "done")
        /\ UNCHANGED <<run, faults>>
  /\ UNCHANGED <<workflow, stepRun, event, calls, edits, deleted>>

Reload(h) ==
  /\ pc[h] = "reload"
  /\ Goto(h, "step", Loaded(FirstOf(workflow, workflow.steps)))
  /\ UNCHANGED <<workflow, run, stepRun, event, calls, faults, edits, deleted>>

Resume(h) ==
  /\ pc[h] = "resume"
  /\ MarkRun("running", run.resume_position)
  /\ Answer(h, "step", frame[h])
  /\ UNCHANGED <<workflow, stepRun, event, calls, edits, deleted>>

(* executeRun: the loop. *)

SkipApprovedGate(h) ==
  /\ pc[h] = "step"
  /\ AtApprovedGate(h)
  /\ Goto(h, "step", [frame[h] EXCEPT !.cursor = NextStep(Plan(h), Cursor(h))])
  /\ UNCHANGED <<workflow, run, stepRun, event, calls, faults, edits, deleted>>

ReachGate(h) ==
  /\ pc[h] = "step"
  /\ AtGate(h)
  /\ ~ AtApprovedGate(h)
  /\ Upsert(h, WithStatus(Row(h), "paused"), "pause", frame[h])
  /\ UNCHANGED <<workflow, event, calls, edits, deleted>>

PauseRun(h) ==
  /\ pc[h] = "pause"
  /\ MarkRun("paused", NextPosition(Plan(h), Cursor(h)))
  /\ \/ Leave(h, "done") /\ UNCHANGED faults
     \/ Throw(h) /\ Fault
  /\ UNCHANGED <<workflow, stepRun, event, calls, edits, deleted>>

BeginStep(h) ==
  /\ pc[h] = "step"
  /\ Cursor(h) # End
  /\ ~ AtGate(h)
  /\ Upsert(h, Begun(Row(h)), "body", [frame[h] EXCEPT !.attempt = 1])
  /\ UNCHANGED <<workflow, event, calls, edits, deleted>>

\* One attempt of the step's body: the model call, the HTTP request, the
\* write, the notification, or the evaluation of a branch.
RunBody(h) ==
  /\ pc[h] = "body"
  /\ calls' = [calls EXCEPT ![Cursor(h)] = @ + 1]
  /\ \/ \E dest \in Destinations(Plan(h), Cursor(h)) :
          Goto(h, "reportOk", [frame[h] EXCEPT !.dest = dest])
     \/ \E retryable \in BOOLEAN :
          Goto(h, "reportErr", [frame[h] EXCEPT !.willRetry = retryable /\ CanRetry(h)])
  /\ UNCHANGED <<workflow, run, stepRun, event, faults, edits, deleted>>

ReportOk(h) ==
  /\ pc[h] = "reportOk"
  /\ Upsert(h, WithAttempt(Row(h), frame[h].attempt), "finishStep", frame[h])
  /\ UNCHANGED <<workflow, event, calls, edits, deleted>>

ReportErr(h) ==
  /\ pc[h] = "reportErr"
  /\ LET again == frame[h].willRetry
     IN  Upsert(h, WithAttempt(Row(h), frame[h].attempt),
                IF again THEN "body" ELSE "failStep",
                [frame[h] EXCEPT !.attempt = IF again THEN @ + 1 ELSE @])
  /\ UNCHANGED <<workflow, event, calls, edits, deleted>>

FailStep(h) ==
  /\ pc[h] = "failStep"
  /\ Upsert(h, WithStatus(Row(h), "failed"),
            IF After(Plan(h), Cursor(h)) = {} THEN "failRun" ELSE "skipRest", frame[h])
  /\ UNCHANGED <<workflow, event, calls, edits, deleted>>

FinishStep(h) ==
  /\ pc[h] = "finishStep"
  /\ LET dest  == frame[h].dest
         here  == [frame[h] EXCEPT !.ctx = @ \cup {Cursor(h)}, !.attempt = 0, !.willRetry = FALSE]
         ahead == [here EXCEPT !.cursor = dest]
         row   == WithStatus(Row(h), "completed")
     IN  IF Refusable(Plan(h), Cursor(h), dest) THEN Upsert(h, row, "failBranch", here)
         ELSE IF Between(Plan(h), Cursor(h), dest) = {} THEN Upsert(h, row, "step", ahead)
         ELSE Upsert(h, row, "skipBetween", here)
  /\ UNCHANGED <<workflow, event, calls, edits, deleted>>

\* Variant for a check: the run is not marked failed with its branch.
FailBranchOnly(h) ==
  /\ pc[h] = "failBranch"
  /\ UpsertStepRun(Cursor(h), WithStatus(Row(h), "failed"))
  /\ Leave(h, "done")
  /\ UNCHANGED <<workflow, run, event, calls, faults, edits, deleted>>

FailBranch(h) ==
  /\ pc[h] = "failBranch"
  /\ Upsert(h, WithStatus(Row(h), "failed"), "failRun", frame[h])
  /\ UNCHANGED <<workflow, event, calls, edits, deleted>>

Skip(h, S, p, f) ==
  /\ \/ /\ S \subseteq workflow.steps
        /\ MarkStepsSkipped(S)
        /\ Answer(h, p, f)
        /\ UNCHANGED run
     \/ Dangling(h, S)
  /\ UNCHANGED <<workflow, event, calls, edits, deleted>>

SkipRest(h) ==
  /\ pc[h] = "skipRest"
  /\ Skip(h, After(Plan(h), Cursor(h)), "failRun", frame[h])

SkipBetween(h) ==
  /\ pc[h] = "skipBetween"
  /\ Skip(h, Between(Plan(h), Cursor(h), frame[h].dest), "step",
          [frame[h] EXCEPT !.cursor = frame[h].dest])

EndRun(h, status) ==
  /\ MarkRun(status, None)
  /\ \/ Leave(h, "done") /\ UNCHANGED faults
     \/ Throw(h) /\ Fault
  /\ UNCHANGED <<workflow, stepRun, event, calls, edits, deleted>>

FailRun(h)     == pc[h] = "failRun" /\ EndRun(h, "failed")
CompleteRun(h) == pc[h] = "step" /\ Cursor(h) = End /\ EndRun(h, "completed")

(* The environment. *)

\* The next request of h is refused: it throws without having had an effect.
Refused(h) ==
  /\ pc[h] \notin {"idle", "body", "done", "error", "gone", "dead"}
  /\ ~ (pc[h] = "step" /\ AtApprovedGate(h))
  /\ Throw(h)
  /\ Fault
  /\ UNCHANGED <<workflow, run, stepRun, event, calls, edits, deleted>>

\* The process dies, or the platform kills it at its time limit.
Crash(h) ==
  /\ pc[h] \notin {"idle", "gone", "dead"}
  /\ Leave(h, "dead")
  /\ Fault
  /\ UNCHANGED <<workflow, run, stepRun, event, calls, edits, deleted>>

\* An editor changes the definition in one transaction; deleting a step
\* deletes its step_runs row with it.
EditWorkflow(w) ==
  /\ edits < MaxEdits
  /\ w # workflow
  /\ w.steps \cap deleted = {}
  /\ edits' = edits + 1
  /\ deleted' = deleted \cup (workflow.steps \ w.steps)
  /\ workflow' = w
  /\ stepRun' = [s \in StepId |-> IF s \in w.steps THEN stepRun[s] ELSE NoRow]
  /\ UNCHANGED <<run, event, pc, frame, calls, faults>>

-----------------------------------------------------------------------------

Init ==
  /\ workflow \in Workflows
  /\ run = [status |-> "pending", resume_position |-> None]
  /\ stepRun = [s \in StepId |-> NoRow]
  /\ event = [acked |-> FALSE, awaiting |-> None]
  /\ pc = [h \in Handler |-> "idle"]
  /\ frame = [h \in Handler |-> NoFrame]
  /\ calls = [s \in StepId |-> 0]
  /\ faults = 0
  /\ edits = 0
  /\ deleted = {}

HandlerStep(h) ==
  \/ Load(h) \/ ClaimRun(h) \/ Reload(h) \/ Resume(h)
  \/ SkipApprovedGate(h) \/ ReachGate(h) \/ PauseRun(h)
  \/ BeginStep(h) \/ RunBody(h) \/ ReportOk(h) \/ ReportErr(h)
  \/ FailStep(h) \/ SkipRest(h) \/ FinishStep(h) \/ SkipBetween(h)
  \/ FailBranch(h) \/ FailRun(h) \/ CompleteRun(h)
  \/ ClaimApproval(h)

Next ==
  \/ \E d \in Delivery : Deliver(d) \/ DeliveryTimeout(d) \/ Respond(d)
  \/ \E h \in Approval, g \in StepId : AuthorizeApproval(h, g)
  \/ \E h \in Handler : HandlerStep(h) \/ Refused(h) \/ Crash(h)
  \/ \E w \in Workflows : EditWorkflow(w)

Spec == Init /\ [][Next]_vars

(***************************************************************************)
(* Hasura delivers an event until it is acknowledged or its retries are    *)
(* used up, and stops waiting for a delivery that died; a live handler     *)
(* goes on.  Nobody is obliged to approve or to edit, and nothing obliges  *)
(* a fault.                                                                *)
(***************************************************************************)
Fairness ==
  /\ WF_vars(\E d \in Delivery : Deliver(d))
  /\ \A d \in Delivery : /\ WF_vars(Respond(d))
                         /\ WF_vars(pc[d] = "dead" /\ DeliveryTimeout(d))
  /\ \A h \in Handler : WF_vars(HandlerStep(h))

FairSpec == Spec /\ Fairness

-----------------------------------------------------------------------------

StepRunRow == [status : StepRunStatus, attempt_count : Nat,
               approved_by : Approval \cup {None}]

Frame == [plan : Workflows \cup {None}, seen : SUBSET StepId, ctx : SUBSET StepId,
          cursor : StepId \cup {End}, attempt : Nat, willRetry : BOOLEAN,
          dest : StepId \cup {End, Missing}]

\* Handlers past the load of the bundle they execute with.
Executing == {"resume", "step", "pause", "body", "reportOk", "reportErr", "finishStep",
              "skipBetween", "skipRest", "failStep", "failBranch", "failRun"}
\* Handlers that have claimed the run, or the approval that resumes it.
Holding(h) == pc[h] \in Executing \cup {"reload"} \/ (h \in Approval /\ pc[h] = "load")

PC == Executing \cup {"idle", "load", "claim", "reload", "claimApproval",
                      "done", "error", "gone", "dead"}

TypeOK ==
  /\ workflow \in Workflows
  /\ run \in [status : RunStatus, resume_position : Nat \cup {None}]
  /\ stepRun \in [StepId -> StepRunRow]
  /\ event \in [acked : BOOLEAN, awaiting : Delivery \cup {None}]
  /\ pc \in [Handler -> PC]
  /\ frame \in [Handler -> Frame]
  /\ calls \in [StepId -> Nat]
  /\ faults \in 0..MaxFaults
  /\ edits \in 0..MaxEdits
  /\ deleted \in SUBSET StepId
-----------------------------------------------------------------------------
(* Safety. *)

(***************************************************************************)
(* At most one handler executes the run: a redelivered event, an approval  *)
(* and a second approval never run its steps side by side.  This is what   *)
(* the conditional claims of claimRunForExecution and approveAndResume     *)
(* are for; it must survive every fault and every edit.                    *)
(***************************************************************************)
SingleExecutor == \A h1, h2 \in Handler : Holding(h1) /\ Holding(h2) => h1 = h2

Before(s, t) == workflow.position[s] < workflow.position[t]
IsGate(s)    == workflow.type[s] = "approval_gate"

(***************************************************************************)
(* No step behind an approval gate is ever entered before somebody         *)
(* approved that gate, unless a branch jumped over it and it is recorded   *)
(* as skipped (definitions that are not edited during the run).            *)
(***************************************************************************)
GateRespected ==
  edits = 0 =>
    \A g, s \in workflow.steps :
      IsGate(g) /\ Before(g, s) /\ calls[s] > 0
        => stepRun[g].status = "skipped" \/ g \in ApprovedGates

(***************************************************************************)
(* A run that is over stays over: no late handler, redelivery or approval  *)
(* changes its status, its step_runs (an edit aside) or enters a body.     *)
(***************************************************************************)
TerminalIsFinal ==
  [][run.status \in TerminalStatus =>
       run' = run /\ calls' = calls /\ (edits' = edits => stepRun' = stepRun)]_vars

(***************************************************************************)
(* The record of a finished run tells how it ended.  Completed: every step *)
(* has a row, completed or skipped.  Failed: exactly one row is failed and *)
(* none is left running or waiting for an approval.                        *)
(***************************************************************************)
OutcomeMatchesRecord ==
  edits = 0 =>
    /\ run.status = "completed" =>
         \A s \in workflow.steps : stepRun[s].status \in {"completed", "skipped"}
    /\ run.status = "failed" =>
         /\ \A s \in workflow.steps : stepRun[s].status \notin {"running", "paused"}
         /\ \E s \in workflow.steps :
              \A t \in workflow.steps : stepRun[t].status = "failed" <=> t = s

(***************************************************************************)
(* resume_position separates what is settled from what is to come: in a    *)
(* paused run one gate waits or has just been approved, every other step   *)
(* before resume_position is completed or skipped, and no step at or after *)
(* it has a row.  An off-by-one here repeats the gate or loses a step.     *)
(***************************************************************************)
ResumePointExact ==
  edits = 0 /\ run.status = "paused" =>
    /\ run.resume_position # None
    /\ \E g \in workflow.steps :
         /\ stepRun[g].status = "paused" \/ g \in ApprovedGates
         /\ workflow.position[g] < run.resume_position
         /\ \A s \in workflow.steps \ {g} :
              IF workflow.position[s] < run.resume_position
              THEN stepRun[s].status \in {"completed", "skipped"}
              ELSE stepRun[s].status = "absent"

(***************************************************************************)
(* An approval is never revoked or overwritten: not by a second approver,  *)
(* not by the run it resumes.                                              *)
(***************************************************************************)
ApprovalIsFinal ==
  [][edits' = 0 => \A g \in ApprovedGates : stepRun'[g] = stepRun[g]]_vars

(***************************************************************************)
(* Over the whole run, whatever is redelivered, resumed or lost, the body  *)
(* of a step is entered at most as often as its retry policy allows.       *)
(***************************************************************************)
AttemptsBounded ==
  edits = 0 => \A s \in workflow.steps : calls[s] <= MaxAttempts(workflow, s)

(***************************************************************************)
(* attempt_count never claims an attempt that was not made, and on a       *)
(* completed step it is the number of attempts made.                       *)
(***************************************************************************)
AttemptCountHonest ==
  \A s \in StepId :
    /\ stepRun[s].attempt_count <= calls[s]
    /\ edits = 0 /\ s \in CompletedSteps => stepRun[s].attempt_count = calls[s]

(***************************************************************************)
(* The context a step's templates are resolved against, live or rebuilt on *)
(* resume, holds the outputs of exactly the completed steps, all of which  *)
(* come before the step.                                                   *)
(***************************************************************************)
ContextFaithful ==
  edits = 0 =>
    \A h \in Handler :
      pc[h] \in {"step", "body"} =>
        /\ frame[h].ctx = CompletedSteps
        /\ Cursor(h) # End => \A s \in frame[h].ctx : Before(s, Cursor(h))

(***************************************************************************)
(* A watcher of an unedited run sees what RunLifecycle promises, whatever  *)
(* is redelivered, approved twice, refused, lost or killed underneath.     *)
(***************************************************************************)
Lifecycle == INSTANCE RunLifecycle
               WITH status <- run.status,
                    steps  <- [s \in StepId |-> stepRun[s].status]

ImplementsLifecycle == Lifecycle!Spec

-----------------------------------------------------------------------------
(* Inductive strengthenings, used by the proofs.                           *)

\* Handlers that work on a step of their plan.
AtStep == Executing \ {"resume", "step"}

(***************************************************************************)
(* What the locals f of a handler h are good for at point p of executeRun. *)
(***************************************************************************)
Usable(h, p, f) ==
  /\ p = "claimApproval" => h \in Approval
  /\ p \in {"claim", "reload"} => h \in Delivery
  /\ p \in Executing => f.plan \in Workflows /\ f.cursor \in f.plan.steps \cup {End}
  /\ p \in AtStep => f.cursor \in f.plan.steps
  /\ p = "skipBetween" => ~ Refusable(f.plan, f.cursor, f.dest)

LocalsUsable == \A h \in Handler : Usable(h, pc[h], frame[h])

TypeInv == TypeOK /\ LocalsUsable

(***************************************************************************)
(* Why there is a single executor: the run's status and the rows that wait *)
(* for an approval tell whether a handler may hold the run.  A pending run *)
(* has no holder and nothing waits; a handler that resumes holds a paused  *)
(* run, any other holds a running one; while a run is held nothing waits,  *)
(* except the gate at which the holder is just pausing; at most one row    *)
(* waits; an approver who passed the checks either still finds the run     *)
(* paused at that gate, or comes too late, for good; and only steps of the *)
(* workflow have rows.                                                     *)
(***************************************************************************)
ExecutionInv ==
  /\ SingleExecutor
  /\ run.status = "pending" =>
       /\ \A h \in Handler : ~ Holding(h)
       /\ \A s \in StepId : ~ ApprovalAffectsRow(s)
  /\ \A h \in Handler :
       Holding(h) => run.status = IF pc[h] \in {"load", "resume"} THEN "paused" ELSE "running"
  /\ \A h \in Handler, s \in StepId :
       Holding(h) /\ ApprovalAffectsRow(s) => pc[h] = "pause" /\ s = Cursor(h)
  /\ \A s, t \in StepId : ApprovalAffectsRow(s) /\ ApprovalAffectsRow(t) => s = t
  /\ \A h \in Handler :
       pc[h] = "claimApproval" =>
         /\ Cursor(h) \in StepId
         /\ \/ stepRun[Cursor(h)].approved_by # None
            \/ Cursor(h) \in deleted
            \/ ApprovalAffectsRow(Cursor(h)) /\ run.status = "paused"
  /\ workflow.steps \cap deleted = {}
  /\ \A s \in StepId \ workflow.steps : stepRun[s] = NoRow

(***************************************************************************)
(* Why the record of an unedited run can be trusted.  Every row agrees     *)
(* with the calls that were made and with the type of its step (RowHonest);*)
(* whoever executes the run stands between the settled steps and those     *)
(* without a row, and its locals are what the rows say (Fits); what is     *)
(* pending, paused or over has the rows to show for it; and the gates      *)
(* before an entered step were passed.                                     *)
(***************************************************************************)
Settled(s)   == stepRun[s].status \in {"completed", "skipped"}
Untouched(s) == stepRun[s] = NoRow
Passed(s, c) == c = End \/ Before(s, c)

RowHonest(s) ==
  LET row == stepRun[s]
  IN  /\ row.status = "absent" => row = NoRow
      /\ row.status \in {"absent", "skipped", "paused"} => calls[s] = 0
      /\ row.status = "completed" => row.attempt_count = calls[s]
      /\ row.attempt_count <= calls[s]
      /\ calls[s] <= MaxAttempts(workflow, s)
      /\ row.approved_by # None => row.status = "completed" /\ IsGate(s)
      /\ row.status = "paused" => IsGate(s)
      /\ IsGate(s) => /\ calls[s] = 0
                      /\ row.status \notin {"running", "failed"}
                      /\ row.status = "completed" => row.approved_by # None

\* The status of the row that a handler at p works on.
StatusAt(p) == IF p = "pause" THEN "paused"
               ELSE IF p \in {"failBranch", "skipBetween"} THEN "completed"
               ELSE IF p \in {"skipRest", "failRun"} THEN "failed"
               ELSE "running"

\* What the rows are when a handler with locals f is at point p.
Fits(p, f) ==
  LET here == f.cursor
  IN  /\ p \in Executing => f.plan = workflow
      /\ p \in Executing \ {"failRun"} => f.ctx = CompletedSteps /\ f.seen \subseteq f.ctx
      /\ p = "reload" => \A s \in workflow.steps : Untouched(s)
      /\ p \in {"resume", "step"} =>
           \A s \in workflow.steps : IF Passed(s, here) THEN Settled(s) ELSE Untouched(s)
      /\ p \in AtStep =>
           /\ \A s \in workflow.steps \ {here} :
                IF Before(s, here) THEN Settled(s)
                ELSE \/ Untouched(s)
                     \/ p = "failRun" /\ stepRun[s].status = "skipped"
           /\ IsGate(here) <=> p = "pause"
           /\ stepRun[here].status = StatusAt(p)
      /\ p = "body" => f.attempt \in 1..MaxAttempts(workflow, here) /\ calls[here] = f.attempt - 1
      /\ p \in {"reportOk", "reportErr", "finishStep"} => calls[here] = f.attempt
      /\ p = "reportErr" /\ f.willRetry => f.attempt < MaxAttempts(workflow, here)
      /\ p = "finishStep" => stepRun[here].attempt_count = f.attempt

\* A paused run: one gate waits, or was approved, and resume_position is behind it.
PauseMatchesRecord ==
  /\ run.resume_position # None
  /\ \E g \in workflow.steps :
       /\ IsGate(g)
       /\ stepRun[g].status = "paused" \/ g \in ApprovedGates
       /\ workflow.position[g] < run.resume_position
       /\ \A s \in workflow.steps \ {g} :
            IF workflow.position[s] < run.resume_position THEN Settled(s) ELSE Untouched(s)

RecordInv ==
  edits = 0 =>
    /\ \A s \in workflow.steps : RowHonest(s)
    /\ \A h \in Handler : Fits(pc[h], frame[h])
    /\ run.status = "pending" => \A s \in workflow.steps : Untouched(s)
    /\ run.status = "paused" => PauseMatchesRecord
    /\ OutcomeMatchesRecord
    /\ GateRespected

(***************************************************************************)
(* Why attempt_count is never ahead of the calls, edits or not: the        *)
(* attempt that the locals f of a handler at p speak of is at most one     *)
(* more than the calls made, and none more once its call was made.         *)
(***************************************************************************)
Counted(p, f) ==
  /\ p = "body" => f.attempt <= calls[f.cursor] + 1
  /\ p \in {"reportOk", "reportErr"} => f.attempt <= calls[f.cursor]

CountInv ==
  /\ \A s \in StepId : stepRun[s].attempt_count <= calls[s]
  /\ \A h \in Handler : Counted(pc[h], frame[h])

InductiveInv == ExecutionInv /\ RecordInv /\ CountInv

-----------------------------------------------------------------------------
(* Liveness, under FairSpec. *)

(***************************************************************************)
(* As long as there are more deliveries than faults, a run that was        *)
(* inserted is started: this is what redelivery buys.                      *)
(***************************************************************************)
PendingRunStarts == run.status = "pending" ~> run.status # "pending"

(***************************************************************************)
(* Without faults and edits a run never stays running: it pauses at a gate *)
(* or ends.                                                                *)
(***************************************************************************)
RunSettles ==
  [](faults = 0 /\ edits = 0) =>
    (run.status = "running" ~> run.status \in TerminalStatus \cup {"paused"})

(***************************************************************************)
(* An approval that is recorded goes on to resume the run, and does so,    *)
(* whatever has failed before it and is edited meanwhile: only a fault     *)
(* between its record and the resumption can leave the run paused, with    *)
(* nobody left to approve.                                                 *)
(***************************************************************************)
Resuming == \E h \in Approval : pc[h] \in {"load", "resume"}

RecordsApproval == \E s \in StepId : stepRun[s].approved_by = None /\ stepRun'[s].approved_by # None

ApprovalResumes ==
  /\ [][RecordsApproval => Resuming' \/ faults' > faults]_vars
  /\ [][Resuming /\ ~ Resuming' => run'.status # "paused" \/ faults' > faults]_vars
  /\ Resuming ~> ~ Resuming

-----------------------------------------------------------------------------
(* What the documentation says and the code does not do.                   *)

(***************************************************************************)
(* README: redelivery means a crashed handler cannot orphan a run.         *)
(***************************************************************************)
CrashDoesNotOrphan == run.status = "running" ~> run.status # "running"

=============================================================================
