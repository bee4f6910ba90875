----------------------- MODULE WorkflowEngine_proofs -----------------------
(***************************************************************************)
(* Theorems about WorkflowEngine, for every set of steps, definitions,     *)
(* deliveries and approvals and every bound on faults and edits.           *)
(***************************************************************************)
EXTENDS WorkflowEngine, WellFoundedInduction, TLAPS

-----------------------------------------------------------------------------
(* The ordered step list. *)

(***************************************************************************)
(* FirstOf is the element at the smallest position, if there is one.       *)
(***************************************************************************)
LEMMA FirstOfSpec ==
  ASSUME NEW w \in Workflow, NEW S \in SUBSET w.steps, S # {}
  PROVE  /\ FirstOf(w, S) \in S
         /\ \A t \in S : w.position[FirstOf(w, S)] <= w.position[t]
<1>. DEFINE T == {w.position[s] : s \in S}
<1>1. w.steps \subseteq StepId /\ w.position \in [StepId -> Nat]
  BY DEF Workflow
<1>2. T \subseteq Nat /\ T # {}
  BY <1>1
<1>3. PICK m \in T : \A n \in T : ~ (<<n, m>> \in OpToRel(<, Nat))
  <2>. HIDE DEF T
  <2>. QED BY <1>2, NatLessThanWellFounded, WFMin, Zenon
<1>4. \A n \in T : ~ (n < m)
  BY <1>2, <1>3 DEF OpToRel
<1>5. PICK s \in S : w.position[s] = m
  OBVIOUS
<1>6. \A t \in S : w.position[s] <= w.position[t]
  BY <1>1, <1>4, <1>5
<1>. QED BY <1>6 DEF FirstOf

\* The first of a set of steps is one of them, or the end.
LEMMA FirstOfType ==
  ASSUME NEW w \in Workflow, NEW S \in SUBSET w.steps
  PROVE  FirstOf(w, S) \in S \cup {End}
BY FirstOfSpec DEF FirstOf

(***************************************************************************)
(* The successor of a step is behind it, or the end.                       *)
(***************************************************************************)
LEMMA NextStepType ==
  ASSUME NEW w \in Workflow, NEW s
  PROVE  NextStep(w, s) \in After(w, s) \cup {End}
BY FirstOfType DEF NextStep, After

(***************************************************************************)
(* A step only ever leads to a step of the workflow, to its end, or to a   *)
(* target that is missing from it.                                         *)
(***************************************************************************)
LEMMA DestinationsType ==
  ASSUME NEW w \in Workflow, NEW s
  PROVE  Destinations(w, s) \subseteq w.steps \cup {End, Missing}
<1>1. NextStep(w, s) \in w.steps \cup {End}
  BY NextStepType DEF After
<1>2. \A t : ResolveBranchTarget(w, t, s) \in w.steps \cup {End, Missing}
  BY <1>1 DEF ResolveBranchTarget
<1>. QED BY <1>1, <1>2 DEF Destinations

-----------------------------------------------------------------------------
(* Moves of a handler. *)

\* An idle handler's locals are of their type.
LEMMA NoFrameType == NoFrame \in Frame
BY DEF NoFrame, Frame

\* So are the locals of a handler that has just loaded the run.
LEMMA LoadedType ==
  ASSUME TypeOK, NEW c \in StepId \cup {End}
  PROVE  /\ Loaded(c) \in Frame
         /\ Loaded(c).plan = workflow /\ Loaded(c).cursor = c
BY NoFrameType DEF Loaded, NoFrame, Frame, TypeOK, ApprovedGates, CompletedSteps

(***************************************************************************)
(* A handler that moves to a point where its locals are usable leaves all  *)
(* handlers well typed and with usable locals.                             *)
(***************************************************************************)
HandlersOK == pc \in [Handler -> PC] /\ frame \in [Handler -> Frame] /\ LocalsUsable

\* A handler may be put where its locals are good for something.
LEMMA GotoOK ==
  ASSUME HandlersOK, NEW h \in Handler, NEW p \in PC, NEW f \in Frame,
         Goto(h, p, f), Usable(h, p, f)
  PROVE  HandlersOK'
<1>1. pc' \in [Handler -> PC] /\ frame' \in [Handler -> Frame]
  BY DEF HandlersOK, Goto
<1>2. \A k \in Handler : Usable(k, pc'[k], frame'[k])
  BY Zenon DEF HandlersOK, LocalsUsable, Goto
<1>. QED BY <1>1, <1>2 DEF HandlersOK, LocalsUsable, Usable, Refusable, After

\* A handler that leaves executeRun has no locals to be good for anything.
LEMMA LeaveOK ==
  ASSUME HandlersOK, NEW h \in Handler, NEW answer \in {"done", "error", "dead"},
         Leave(h, answer)
  PROVE  HandlersOK'
<1>1. \A p \in {"done", "error", "dead", "idle"} : p \in PC /\ Usable(h, p, NoFrame)
  BY DEF PC, Usable, AtStep, Executing
<1>2. PICK p \in {"done", "error", "dead", "idle"} : Goto(h, p, NoFrame)
  BY DEF Leave
<1>. QED BY <1>1, <1>2, NoFrameType, GotoOK

\* An exception takes a handler to a point that its locals are good for.
LEMMA ThrowOK ==
  ASSUME HandlersOK, NEW h \in Handler, Throw(h)
  PROVE  HandlersOK'
<1>1. CASE pc[h] = "reportOk"
  <2>. DEFINE f == [frame[h] EXCEPT !.willRetry = CanRetry(h)]
  <2>1. f \in Frame /\ f.plan = frame[h].plan /\ f.cursor = frame[h].cursor
    <3>1. CanRetry(h) \in BOOLEAN
      BY DEF CanRetry
    <3>. QED BY <3>1 DEF HandlersOK, Frame
  <2>2. Usable(h, "reportErr", f)
    BY <1>1, <2>1 DEF HandlersOK, LocalsUsable, Usable, AtStep, Executing
  <2>3. Goto(h, "reportErr", f)
    BY <1>1 DEF Throw
  <2>. QED BY <2>1, <2>2, <2>3, GotoOK DEF PC, Executing
<1>2. CASE pc[h] = "reportErr"
  <2>1. frame[h] \in Frame /\ Usable(h, "failStep", frame[h])
    BY <1>2 DEF HandlersOK, LocalsUsable, Usable, AtStep, Executing
  <2>2. Goto(h, "failStep", frame[h])
    BY <1>2 DEF Throw
  <2>. QED BY <2>1, <2>2, GotoOK DEF PC, Executing
<1>3. CASE pc[h] \notin {"reportOk", "reportErr"}
  BY <1>3, LeaveOK DEF Throw
<1>. QED BY <1>1, <1>2, <1>3

\* A request, answered or not, leaves the handler at a point that its locals are good for.
LEMMA AnswerOK ==
  ASSUME HandlersOK, faults \in 0..MaxFaults,
         NEW h \in Handler, NEW p \in PC, NEW f \in Frame,
         Answer(h, p, f), Usable(h, p, f)
  PROVE  HandlersOK' /\ faults' \in 0..MaxFaults
<1>1. CASE Goto(h, p, f) /\ UNCHANGED faults
  BY <1>1, GotoOK
<1>2. CASE Throw(h) /\ Fault
  BY <1>2, ThrowOK, BoundsAssumption DEF Fault
<1>. QED BY <1>1, <1>2 DEF Answer


-----------------------------------------------------------------------------
(* Type correctness. *)

\* A definition holds steps only.
LEMMA StepIdsOfPlan ==
  ASSUME NEW w \in Workflows
  PROVE  w \in Workflow /\ w.steps \subseteq StepId
BY WorkflowsAssumption DEF Workflow

\* Every patch of a row is a row.
LEMMA RowTypes ==
  ASSUME NEW row \in StepRunRow, NEW n \in Nat, NEW h \in Approval,
         NEW st \in StepRunStatus
  PROVE  /\ Begun(row) \in StepRunRow
         /\ WithStatus(row, st) \in StepRunRow
         /\ WithAttempt(row, n) \in StepRunRow
         /\ ApprovedBy(row, h) \in StepRunRow
BY DEF StepRunRow, Begun, WithStatus, WithAttempt, ApprovedBy, StepRunStatus

\* A row that is not there has the type of one.
LEMMA NoRowType == NoRow \in StepRunRow
BY DEF NoRow, StepRunRow, StepRunStatus

(***************************************************************************)
(* A request that writes a row of step_runs, answered or not.              *)
(***************************************************************************)
LEMMA UpsertOK ==
  ASSUME TypeInv, NEW h \in Handler, NEW row, NEW p \in PC, NEW f \in Frame,
         Cursor(h) \in StepId => row \in StepRunRow,
         Usable(h, p, f),
         Upsert(h, row, p, f)
  PROVE  /\ HandlersOK' /\ faults' \in 0..MaxFaults
         /\ stepRun' \in [StepId -> StepRunRow] /\ run' = run
<1>. USE DEF TypeInv, TypeOK
<1>1. HandlersOK
  BY DEF HandlersOK
<1>2. CASE Dangling(h, {Cursor(h)})
  BY <1>1, <1>2, ThrowOK DEF Dangling
<1>3. CASE UpsertStepRun(Cursor(h), row) /\ Answer(h, p, f) /\ UNCHANGED run
  BY <1>1, <1>3, AnswerOK DEF UpsertStepRun
<1>. QED BY <1>2, <1>3 DEF Upsert

\* Writing skipped rows keeps the types.
LEMMA SkipOK ==
  ASSUME TypeInv, NEW h \in Handler, NEW S, NEW p \in PC, NEW f \in Frame,
         Usable(h, p, f),
         Skip(h, S, p, f)
  PROVE  TypeInv'
<1>. USE DEF TypeInv, TypeOK
<1>1. HandlersOK
  BY DEF HandlersOK
<1>2. /\ HandlersOK' /\ faults' \in 0..MaxFaults
      /\ stepRun' \in [StepId -> StepRunRow] /\ run' = run
  <2>1. CASE Dangling(h, S)
    BY <1>1, <2>1, ThrowOK DEF Dangling
  <2>2. CASE MarkStepsSkipped(S) /\ Answer(h, p, f) /\ UNCHANGED run
    <3>1. \A s \in StepId : WithStatus(stepRun[s], "skipped") \in StepRunRow
      BY DEF WithStatus, StepRunRow, StepRunStatus
    <3>. QED BY <1>1, <2>2, <3>1, AnswerOK DEF MarkStepsSkipped
  <2>. QED BY <2>1, <2>2 DEF Skip
<1>. QED BY <1>2 DEF Skip, HandlersOK

(***************************************************************************)
(* Type correctness is inductive once the locals of a handler are known to *)
(* be usable where it stands.                                              *)
(***************************************************************************)
LEMMA TypeInit == Init => TypeInv
<1>. SUFFICES ASSUME Init PROVE TypeInv
  OBVIOUS
<1>1. TypeOK
  BY NoFrameType, NoRowType, BoundsAssumption
  DEF Init, TypeOK, RunStatus, PC
<1>2. LocalsUsable
  BY DEF Init, LocalsUsable, Usable, AtStep, Executing
<1>. QED BY <1>1, <1>2 DEF TypeInv

\* Every step keeps the types.
LEMMA TypeNext == TypeInv /\ [Next]_vars => TypeInv'
<1>. SUFFICES ASSUME TypeInv, [Next]_vars PROVE TypeInv'
  OBVIOUS
<1>. USE DEF TypeInv, TypeOK
<1>0. HandlersOK
  BY DEF HandlersOK
<1>1. ASSUME NEW h \in Handler, pc[h] \in Executing
      PROVE  /\ Plan(h) \in Workflow /\ Plan(h).steps \subseteq StepId
             /\ Cursor(h) \in Plan(h).steps \cup {End}
             /\ pc[h] \in AtStep => Cursor(h) \in Plan(h).steps
  BY <1>1, StepIdsOfPlan DEF Plan, Cursor, LocalsUsable, Usable
<1>2. ASSUME NEW h \in Handler, Cursor(h) \in StepId
      PROVE  Row(h) \in StepRunRow
  BY <1>2 DEF Row
<1>3. Delivery \subseteq Handler /\ Approval \subseteq Handler
  BY DEF Handler
<1>4. ASSUME NEW d \in Delivery, Deliver(d) PROVE TypeInv'
  <2>1. HandlersOK'
    BY <1>0, <1>3, <1>4, NoFrameType, GotoOK DEF Deliver, PC, Usable, AtStep, Executing
  <2>. QED BY <1>4, <2>1 DEF Deliver, HandlersOK
<1>5. ASSUME NEW d \in Delivery, DeliveryTimeout(d) PROVE TypeInv'
  BY <1>5 DEF DeliveryTimeout, LocalsUsable, Usable, Refusable, After
<1>6. ASSUME NEW d \in Delivery, Respond(d) PROVE TypeInv'
  <2>1. HandlersOK'
    BY <1>0, <1>3, <1>6, NoFrameType, GotoOK DEF Respond, PC, Usable, AtStep, Executing
  <2>. QED BY <1>6, <2>1 DEF Respond, HandlersOK, Acknowledges
<1>7. ASSUME NEW h \in Approval, NEW g \in StepId, AuthorizeApproval(h, g) PROVE TypeInv'
  <2>1. [NoFrame EXCEPT !.cursor = g] \in Frame
    BY NoFrameType DEF Frame
  <2>2. HandlersOK'
    BY <1>0, <1>3, <1>7, <2>1, GotoOK DEF AuthorizeApproval, PC, Usable, AtStep, Executing
  <2>. QED BY <1>7, <2>2 DEF AuthorizeApproval, HandlersOK
<1>8. ASSUME NEW h \in Handler, ClaimApproval(h) PROVE TypeInv'
  <2>. USE <1>8 DEF ClaimApproval
  <2>1. h \in Approval
    BY DEF LocalsUsable, Usable
  <2>2. CASE UpsertStepRun(Cursor(h), ApprovedBy(Row(h), h)) /\ Answer(h, "load", NoFrame)
    <3>1. Cursor(h) \in StepId => ApprovedBy(Row(h), h) \in StepRunRow
      BY <1>2, <2>1, RowTypes, NoRowType
      DEF ApprovedBy, StepRunRow, StepRunStatus
    <3>2. stepRun' \in [StepId -> StepRunRow]
      BY <2>2, <3>1 DEF UpsertStepRun
    <3>3. HandlersOK' /\ faults' \in 0..MaxFaults
      BY <1>0, <2>2, NoFrameType, AnswerOK DEF PC, Usable, AtStep, Executing
    <3>. QED BY <3>2, <3>3 DEF HandlersOK
  <2>3. CASE Leave(h, "error") /\ UNCHANGED <<stepRun, faults>>
    BY <1>0, <2>3, LeaveOK DEF HandlersOK
  <2>. QED BY <2>2, <2>3
<1>9. ASSUME NEW h \in Handler, Load(h) PROVE TypeInv'
  <2>. USE <1>9 DEF Load
  <2>1. workflow \in Workflow /\ workflow.steps \subseteq StepId
    BY StepIdsOfPlan
  <2>2. ResumeCursor \in workflow.steps \cup {End}
    BY <2>1, FirstOfType DEF ResumeCursor, FirstFrom
  <2>3. CASE Leave(h, "done")
    BY <1>0, <2>3, LeaveOK DEF HandlersOK
  <2>4. CASE h \in Delivery /\ Goto(h, "claim", NoFrame)
    <3>1. HandlersOK'
      BY <1>0, <2>4, NoFrameType, GotoOK DEF PC, Usable, AtStep, Executing
    <3>. QED BY <3>1 DEF HandlersOK
  <2>5. CASE Goto(h, "resume", Loaded(ResumeCursor))
    <3>1. HandlersOK'
      BY <1>0, <2>1, <2>2, <2>5, LoadedType, GotoOK DEF PC, Usable, AtStep, Executing
    <3>. QED BY <3>1 DEF HandlersOK
  <2>. QED BY <2>3, <2>4, <2>5
<1>10. ASSUME NEW h \in Handler, ClaimRun(h) PROVE TypeInv'
  <2>. USE <1>10 DEF ClaimRun
  <2>1. h \in Delivery
    BY DEF LocalsUsable, Usable
  <2>2. CASE MarkRun("running", run.resume_position) /\ Answer(h, "reload", NoFrame)
    <3>1. HandlersOK' /\ faults' \in 0..MaxFaults
      BY <1>0, <2>1, <2>2, NoFrameType, AnswerOK DEF PC, Usable, AtStep, Executing
    <3>. QED BY <2>2, <3>1 DEF HandlersOK, MarkRun, RunStatus
  <2>3. CASE Leave(h, "done") /\ UNCHANGED <<run, faults>>
    BY <1>0, <2>3, LeaveOK DEF HandlersOK
  <2>. QED BY <2>2, <2>3
<1>11. ASSUME NEW h \in Handler, Reload(h) PROVE TypeInv'
  <2>1. workflow \in Workflow /\ workflow.steps \subseteq StepId
    BY StepIdsOfPlan
  <2>2. FirstOf(workflow, workflow.steps) \in workflow.steps \cup {End}
    BY <2>1, FirstOfType
  <2>3. HandlersOK'
    BY <1>0, <1>11, <2>1, <2>2, LoadedType, GotoOK DEF Reload, PC, Usable, AtStep, Executing
  <2>. QED BY <1>11, <2>3 DEF Reload, HandlersOK
<1>12. ASSUME NEW h \in Handler, Resume(h) PROVE TypeInv'
  <2>1. frame[h] \in Frame /\ Usable(h, "step", frame[h])
    BY <1>12 DEF Resume, LocalsUsable, Usable, AtStep, Executing
  <2>2. HandlersOK' /\ faults' \in 0..MaxFaults
    BY <1>0, <1>12, <2>1, AnswerOK DEF Resume, PC, Executing
  <2>. QED BY <1>12, <2>2 DEF Resume, HandlersOK, MarkRun, RunStatus
<1>13. ASSUME NEW h \in Handler, SkipApprovedGate(h) PROVE TypeInv'
  <2>. DEFINE f == [frame[h] EXCEPT !.cursor = NextStep(Plan(h), Cursor(h))]
  <2>1. NextStep(Plan(h), Cursor(h)) \in Plan(h).steps \cup {End}
    BY <1>1, <1>13, NextStepType DEF SkipApprovedGate, After, Executing
  <2>2. f \in Frame /\ f.plan = Plan(h) /\ f.cursor \in Plan(h).steps \cup {End}
    BY <1>1, <1>13, <2>1 DEF SkipApprovedGate, Frame, Plan, Executing
  <2>3. Usable(h, "step", f)
    BY <1>13, <2>2 DEF SkipApprovedGate, LocalsUsable, Usable, AtStep, Executing, Plan
  <2>4. HandlersOK'
    BY <1>0, <1>13, <2>2, <2>3, GotoOK DEF SkipApprovedGate, PC, Executing
  <2>. QED BY <1>13, <2>4 DEF SkipApprovedGate, HandlersOK
<1>14. ASSUME NEW h \in Handler, ReachGate(h) PROVE TypeInv'
  <2>1. Cursor(h) # End
    BY <1>14 DEF ReachGate, AtGate
  <2>2. Usable(h, "pause", frame[h])
    BY <1>1, <1>14, <2>1
    DEF ReachGate, LocalsUsable, Usable, AtStep, Executing, Plan, Cursor
  <2>3. Cursor(h) \in StepId => WithStatus(Row(h), "paused") \in StepRunRow
    BY <1>2 DEF WithStatus, StepRunRow, StepRunStatus
  <2>4. HandlersOK' /\ faults' \in 0..MaxFaults
        /\ stepRun' \in [StepId -> StepRunRow] /\ run' = run
    BY <1>14, <2>2, <2>3, UpsertOK DEF ReachGate, PC, Executing
  <2>. QED BY <1>14, <2>4 DEF ReachGate, HandlersOK
<1>15. ASSUME NEW h \in Handler, PauseRun(h) PROVE TypeInv'
  <2>1. Cursor(h) \in Plan(h).steps /\ Plan(h) \in Workflow
    BY <1>1, <1>15 DEF PauseRun, AtStep, Executing
  <2>2. NextPosition(Plan(h), Cursor(h)) \in Nat
    BY <2>1, NextStepType DEF NextPosition, After, Workflow
  <2>3. HandlersOK' /\ faults' \in 0..MaxFaults
    BY <1>0, <1>15, LeaveOK, ThrowOK, BoundsAssumption DEF PauseRun, Fault
  <2>. QED BY <1>15, <2>2, <2>3 DEF PauseRun, HandlersOK, MarkRun, RunStatus
<1>16. ASSUME NEW h \in Handler, BeginStep(h) PROVE TypeInv'
  <2>. DEFINE f == [frame[h] EXCEPT !.attempt = 1]
  <2>1. f \in Frame /\ f.plan = Plan(h) /\ f.cursor = Cursor(h)
    BY DEF Frame, Plan, Cursor
  <2>2. Usable(h, "body", f)
    BY <1>1, <1>16, <2>1
    DEF BeginStep, LocalsUsable, Usable, AtStep, Executing, Plan, Cursor
  <2>3. Cursor(h) \in StepId => Begun(Row(h)) \in StepRunRow
    BY <1>2 DEF Begun, StepRunRow, StepRunStatus
  <2>4. HandlersOK' /\ faults' \in 0..MaxFaults
        /\ stepRun' \in [StepId -> StepRunRow] /\ run' = run
    BY <1>16, <2>1, <2>2, <2>3, UpsertOK DEF BeginStep, PC, Executing
  <2>. QED BY <1>16, <2>4 DEF BeginStep, HandlersOK
<1>17. ASSUME NEW h \in Handler, RunBody(h) PROVE TypeInv'
  <2>1. Cursor(h) \in Plan(h).steps /\ Plan(h) \in Workflow /\ Plan(h).steps \subseteq StepId
    BY <1>1, <1>17 DEF RunBody, AtStep, Executing
  <2>2. calls' \in [StepId -> Nat]
    BY <1>17, <2>1 DEF RunBody
  <2>3. ASSUME NEW f \in Frame, f.plan = Plan(h), f.cursor = Cursor(h)
        PROVE  Usable(h, "reportOk", f) /\ Usable(h, "reportErr", f)
    BY <1>17, <2>1, <2>3 DEF RunBody, LocalsUsable, Usable, AtStep, Executing, Plan
  <2>4. ASSUME NEW dest \in Destinations(Plan(h), Cursor(h)),
               Goto(h, "reportOk", [frame[h] EXCEPT !.dest = dest])
        PROVE  HandlersOK'
    <3>1. dest \in StepId \cup {End, Missing}
      BY <2>1, DestinationsType
    <3>2. [frame[h] EXCEPT !.dest = dest] \in Frame
      BY <3>1 DEF Frame
    <3>. QED BY <1>0, <2>3, <2>4, <3>2, GotoOK DEF PC, Executing, Frame, Plan, Cursor
  <2>5. ASSUME NEW retry \in BOOLEAN,
               Goto(h, "reportErr", [frame[h] EXCEPT !.willRetry = retry])
        PROVE  HandlersOK'
    <3>1. [frame[h] EXCEPT !.willRetry = retry] \in Frame
      BY DEF Frame
    <3>. QED BY <1>0, <2>3, <2>5, <3>1, GotoOK DEF PC, Executing, Frame, Plan, Cursor
  <2>6. \A retryable \in BOOLEAN : (retryable /\ CanRetry(h)) \in BOOLEAN
    OBVIOUS
  <2>7. HandlersOK'
    BY <1>17, <2>4, <2>5, <2>6 DEF RunBody
  <2>. QED BY <1>17, <2>2, <2>7 DEF RunBody, HandlersOK
<1>18. ASSUME NEW h \in Handler, pc[h] \in AtStep, NEW p \in AtStep \ {"skipBetween"}
       PROVE  p \in PC /\ frame[h] \in Frame /\ Usable(h, p, frame[h])
  BY <1>18 DEF LocalsUsable, Usable, AtStep, Executing, PC
<1>19. ASSUME NEW h \in Handler, ReportOk(h) PROVE TypeInv'
  <2>1. Cursor(h) \in StepId => WithAttempt(Row(h), frame[h].attempt) \in StepRunRow
    BY <1>2 DEF WithAttempt, StepRunRow, Frame
  <2>2. HandlersOK' /\ faults' \in 0..MaxFaults
        /\ stepRun' \in [StepId -> StepRunRow] /\ run' = run
    BY <1>18, <1>19, <2>1, UpsertOK DEF ReportOk, AtStep, Executing
  <2>. QED BY <1>19, <2>2 DEF ReportOk, HandlersOK
<1>20. ASSUME NEW h \in Handler, ReportErr(h) PROVE TypeInv'
  <2>. DEFINE again == frame[h].willRetry
              p == IF again THEN "body" ELSE "failStep"
              f == [frame[h] EXCEPT !.attempt = IF again THEN @ + 1 ELSE @]
  <2>1. Cursor(h) \in StepId => WithAttempt(Row(h), frame[h].attempt) \in StepRunRow
    BY <1>2 DEF WithAttempt, StepRunRow, Frame
  <2>2. f \in Frame /\ f.plan = frame[h].plan /\ f.cursor = frame[h].cursor
    BY DEF Frame
  <2>3. p \in PC /\ Usable(h, p, f)
    BY <1>20, <2>2 DEF ReportErr, LocalsUsable, Usable, AtStep, Executing, PC
  <2>4. Upsert(h, WithAttempt(Row(h), frame[h].attempt), p, f)
    BY <1>20 DEF ReportErr
  <2>5. HandlersOK' /\ faults' \in 0..MaxFaults
        /\ stepRun' \in [StepId -> StepRunRow] /\ run' = run
    <3>. HIDE DEF p, f
    <3>. QED BY <2>1, <2>2, <2>3, <2>4, UpsertOK
  <2>. QED BY <1>20, <2>5 DEF ReportErr, HandlersOK
<1>21. ASSUME NEW h \in Handler, NEW st \in StepRunStatus, Cursor(h) \in StepId
       PROVE  WithStatus(Row(h), st) \in StepRunRow
  BY <1>2, <1>21 DEF WithStatus, StepRunRow
<1>22. ASSUME NEW h \in Handler, FailStep(h) PROVE TypeInv'
  <2>. DEFINE p == IF After(Plan(h), Cursor(h)) = {} THEN "failRun" ELSE "skipRest"
  <2>1. Cursor(h) \in StepId => WithStatus(Row(h), "failed") \in StepRunRow
    BY <1>21 DEF StepRunStatus
  <2>2. p \in PC /\ frame[h] \in Frame /\ Usable(h, p, frame[h])
    BY <1>18, <1>22 DEF FailStep, AtStep, Executing
  <2>3. Upsert(h, WithStatus(Row(h), "failed"), p, frame[h])
    BY <1>22 DEF FailStep
  <2>4. HandlersOK' /\ faults' \in 0..MaxFaults
        /\ stepRun' \in [StepId -> StepRunRow] /\ run' = run
    <3>. HIDE DEF p
    <3>. QED BY <2>1, <2>2, <2>3, UpsertOK
  <2>. QED BY <1>22, <2>4 DEF FailStep, HandlersOK
<1>23. ASSUME NEW h \in Handler, FailBranch(h) PROVE TypeInv'
  <2>1. Cursor(h) \in StepId => WithStatus(Row(h), "failed") \in StepRunRow
    BY <1>21 DEF StepRunStatus
  <2>2. HandlersOK' /\ faults' \in 0..MaxFaults
        /\ stepRun' \in [StepId -> StepRunRow] /\ run' = run
    BY <1>18, <1>23, <2>1, UpsertOK DEF FailBranch, AtStep, Executing
  <2>. QED BY <1>23, <2>2 DEF FailBranch, HandlersOK
<1>24. ASSUME NEW h \in Handler, FinishStep(h) PROVE TypeInv'
  <2>. DEFINE dest  == frame[h].dest
              here  == [frame[h] EXCEPT !.ctx = @ \cup {Cursor(h)}, !.attempt = 0,
                                        !.willRetry = FALSE]
              ahead == [here EXCEPT !.cursor = dest]
              row   == WithStatus(Row(h), "completed")
  <2>1. /\ Cursor(h) \in Plan(h).steps /\ Plan(h) \in Workflows
        /\ Plan(h).steps \subseteq StepId
    BY <1>1, <1>24 DEF FinishStep, AtStep, Executing, Plan, LocalsUsable, Usable
  <2>2. Cursor(h) \in StepId => row \in StepRunRow
    BY <1>21 DEF StepRunStatus
  <2>3. /\ here \in Frame /\ here.plan = Plan(h) /\ here.cursor = Cursor(h)
        /\ here.dest = dest
    BY <2>1 DEF Frame, Plan, Cursor
  <2>4. CASE Refusable(Plan(h), Cursor(h), dest)
    <3>1. Usable(h, "failBranch", here)
      BY <2>1, <2>3 DEF Usable, AtStep, Executing
    <3>2. Upsert(h, row, "failBranch", here)
      BY <1>24, <2>4 DEF FinishStep
    <3>3. HandlersOK' /\ faults' \in 0..MaxFaults
          /\ stepRun' \in [StepId -> StepRunRow] /\ run' = run
      <4>. HIDE DEF here, row
      <4>. QED BY <2>2, <2>3, <3>1, <3>2, UpsertOK DEF PC, Executing
    <3>. QED BY <1>24, <3>3 DEF FinishStep, HandlersOK
  <2>5. CASE ~ Refusable(Plan(h), Cursor(h), dest) /\ Between(Plan(h), Cursor(h), dest) = {}
    <3>1. dest \in Plan(h).steps \cup {End}
      BY <2>5 DEF Refusable, After
    <3>2. ahead \in Frame /\ ahead.plan = Plan(h) /\ ahead.cursor = dest
      BY <2>1, <2>3, <3>1 DEF Frame
    <3>3. Usable(h, "step", ahead)
      BY <2>1, <3>1, <3>2 DEF Usable, AtStep, Executing
    <3>4. Upsert(h, row, "step", ahead)
      BY <1>24, <2>5 DEF FinishStep
    <3>5. HandlersOK' /\ faults' \in 0..MaxFaults
          /\ stepRun' \in [StepId -> StepRunRow] /\ run' = run
      <4>. HIDE DEF ahead, row
      <4>. QED BY <2>2, <3>2, <3>3, <3>4, UpsertOK DEF PC, Executing
    <3>. QED BY <1>24, <3>5 DEF FinishStep, HandlersOK
  <2>6. CASE ~ Refusable(Plan(h), Cursor(h), dest) /\ Between(Plan(h), Cursor(h), dest) # {}
    <3>1. Usable(h, "skipBetween", here)
      BY <2>1, <2>3, <2>6 DEF Usable, AtStep, Executing
    <3>2. Upsert(h, row, "skipBetween", here)
      BY <1>24, <2>6 DEF FinishStep
    <3>3. HandlersOK' /\ faults' \in 0..MaxFaults
          /\ stepRun' \in [StepId -> StepRunRow] /\ run' = run
      <4>. HIDE DEF here, row
      <4>. QED BY <2>2, <2>3, <3>1, <3>2, UpsertOK DEF PC, Executing
    <3>. QED BY <1>24, <3>3 DEF FinishStep, HandlersOK
  <2>. QED BY <2>4, <2>5, <2>6
<1>25. ASSUME NEW h \in Handler, SkipRest(h) PROVE TypeInv'
  BY <1>18, <1>25, SkipOK DEF SkipRest, AtStep, Executing
<1>26. ASSUME NEW h \in Handler, SkipBetween(h) PROVE TypeInv'
  <2>. DEFINE f == [frame[h] EXCEPT !.cursor = frame[h].dest]
  <2>1. /\ Plan(h) \in Workflows /\ Plan(h).steps \subseteq StepId
        /\ frame[h].dest \in Plan(h).steps \cup {End}
    BY <1>1, <1>26
    DEF SkipBetween, AtStep, Executing, LocalsUsable, Usable, Refusable, After, Plan, Cursor
  <2>2. f \in Frame /\ f.plan = Plan(h) /\ f.cursor = frame[h].dest
    BY <2>1 DEF Frame, Plan
  <2>3. Usable(h, "step", f)
    BY <2>1, <2>2 DEF Usable, AtStep, Executing
  <2>. HIDE DEF f
  <2>4. Skip(h, Between(Plan(h), Cursor(h), frame[h].dest), "step", f)
    BY <1>26 DEF SkipBetween, f
  <2>. QED BY <2>2, <2>3, <2>4, SkipOK DEF PC, Executing
<1>27. ASSUME NEW h \in Handler, NEW st \in {"failed", "completed"}, EndRun(h, st)
       PROVE  TypeInv'
  <2>1. HandlersOK' /\ faults' \in 0..MaxFaults
    BY <1>0, <1>27, LeaveOK, ThrowOK, BoundsAssumption DEF EndRun, Fault
  <2>. QED BY <1>27, <2>1 DEF EndRun, HandlersOK, MarkRun, RunStatus
<1>28. ASSUME NEW h \in Handler, Refused(h) PROVE TypeInv'
  BY <1>0, <1>28, ThrowOK, BoundsAssumption DEF Refused, Fault, HandlersOK
<1>29. ASSUME NEW h \in Handler, Crash(h) PROVE TypeInv'
  BY <1>0, <1>29, LeaveOK, BoundsAssumption DEF Crash, Fault, HandlersOK
<1>30. ASSUME NEW w \in Workflows, EditWorkflow(w) PROVE TypeInv'
  <2>1. workflow.steps \subseteq StepId
    BY StepIdsOfPlan
  <2>2. TypeOK'
    BY <1>30, <2>1, NoRowType, BoundsAssumption DEF EditWorkflow
  <2>. QED BY <1>30, <2>2 DEF EditWorkflow, LocalsUsable, Usable, Refusable, After
<1>31. CASE UNCHANGED vars
  BY <1>31 DEF vars, LocalsUsable, Usable, Refusable, After
<1>32. ASSUME NEW h \in Handler, HandlerStep(h) PROVE TypeInv'
  BY <1>8, <1>9, <1>10, <1>11, <1>12, <1>13, <1>14, <1>15, <1>16, <1>17, <1>19, <1>20,
     <1>22, <1>23, <1>24, <1>25, <1>26, <1>27, <1>32
  DEF HandlerStep, FailRun, CompleteRun
<1>. QED BY <1>4, <1>5, <1>6, <1>7, <1>28, <1>29, <1>30, <1>31, <1>32 DEF Next

(***************************************************************************)
(* Every reachable state is well typed, and a handler's locals fit the     *)
(* point of executeRun where it stands: it never acts on a step that is    *)
(* not in the plan it loaded.                                              *)
(***************************************************************************)
THEOREM TypeCorrect == Spec => []TypeInv
BY TypeInit, TypeNext, PTL DEF Spec

-----------------------------------------------------------------------------
(* The single executor. *)

Waiting(s) == ApprovalAffectsRow(s)

\* Where a handler holds a run that is running.
InRun == (Executing \ {"resume"}) \cup {"reload"}

(***************************************************************************)
(* A step that leaves the rows alone and takes a handler to a point where  *)
(* it neither holds the run nor has an approval in hand.                   *)
(***************************************************************************)
LEMMA QuietStep ==
  ASSUME TypeInv, ExecutionInv, NEW h \in Handler, NEW p, NEW f,
         Goto(h, p, f),
         p \notin Executing \cup {"reload", "claimApproval"}, p = "load" => h \notin Approval,
         UNCHANGED <<run, stepRun, workflow, deleted>>
  PROVE  ExecutionInv'
<1>1. /\ pc' = [pc EXCEPT ![h] = p] /\ frame' = [frame EXCEPT ![h] = f]
      /\ pc \in [Handler -> PC] /\ frame \in [Handler -> Frame]
  BY DEF Goto, TypeInv, TypeOK
<1>2. ~ Holding(h)'
  BY <1>1 DEF Holding
<1>3. \A k \in Handler \ {h} : /\ Holding(k)' = Holding(k) /\ pc'[k] = pc[k]
                               /\ Cursor(k)' = Cursor(k)
  BY <1>1 DEF Holding, Cursor
<1>4. \A s \in StepId : ApprovalAffectsRow(s)' = ApprovalAffectsRow(s)
  BY DEF ApprovalAffectsRow
<1>5. pc'[h] # "claimApproval"
  BY <1>1
<1>. QED BY <1>2, <1>3, <1>4, <1>5 DEF ExecutionInv, SingleExecutor

(***************************************************************************)
(* A step of the handler that holds the running run, after which at most   *)
(* the gate it is pausing at waits for an approval.                        *)
(***************************************************************************)
LEMMA HolderStep ==
  ASSUME TypeInv, ExecutionInv, NEW h \in Handler, pc[h] \in InRun,
         NEW p \in InRun \cup {"done", "error", "dead", "idle"}, NEW f \in Frame,
         Goto(h, p, f),
         UNCHANGED <<run, workflow, deleted>>,
         \A s, t \in StepId : Waiting(s)' /\ Waiting(t)' => s = t,
         p \in InRun => \A s \in StepId : Waiting(s)' => p = "pause" /\ s = f.cursor,
         \A s \in StepId : stepRun[s].approved_by # None => stepRun'[s].approved_by # None,
         \A s \in StepId \ workflow.steps : stepRun'[s] = NoRow
  PROVE  ExecutionInv'
<1>1. /\ pc' = [pc EXCEPT ![h] = p] /\ frame' = [frame EXCEPT ![h] = f]
      /\ pc \in [Handler -> PC] /\ frame \in [Handler -> Frame]
  BY DEF Goto, TypeInv, TypeOK
<1>2. \A k \in Handler \ {h} : /\ Holding(k)' = Holding(k) /\ pc'[k] = pc[k]
                               /\ Cursor(k)' = Cursor(k)
  BY <1>1 DEF Holding, Cursor
<1>3. Holding(h) /\ pc[h] \notin {"load", "resume"}
  BY DEF Holding, InRun, Executing
<1>4. run.status = "running" /\ run'.status = "running"
  BY <1>3 DEF ExecutionInv
<1>5. \A k \in Handler \ {h} : ~ Holding(k)
  BY <1>3 DEF ExecutionInv, SingleExecutor
<1>6. /\ Holding(h)' <=> p \in InRun
      /\ p \in InRun => pc'[h] \notin {"load", "resume"}
      /\ pc'[h] = p /\ p # "claimApproval" /\ Cursor(h)' = f.cursor
  BY <1>1 DEF Holding, Cursor, InRun, Executing
<1>7. \A k \in Handler : pc[k] = "claimApproval" =>
        stepRun[Cursor(k)].approved_by # None \/ Cursor(k) \in deleted
  BY <1>4 DEF ExecutionInv
<1>8. \A k \in Handler : pc'[k] = "claimApproval" =>
        /\ Cursor(k)' \in StepId
        /\ stepRun'[Cursor(k)'].approved_by # None \/ Cursor(k)' \in deleted'
  BY <1>2, <1>6, <1>7 DEF ExecutionInv
<1>. QED BY <1>2, <1>4, <1>5, <1>6, <1>8 DEF ExecutionInv, SingleExecutor, Waiting

(***************************************************************************)
(* While the run is held, nothing waits except at a handler that pauses.   *)
(***************************************************************************)
LEMMA NothingWaits ==
  ASSUME ExecutionInv, NEW h \in Handler, Holding(h), pc[h] # "pause"
  PROVE  \A s \in StepId : ~ Waiting(s)
BY DEF ExecutionInv, Waiting

(***************************************************************************)
(* Where an error takes a handler that holds the run.                      *)
(***************************************************************************)
LEMMA ThrowGoes ==
  ASSUME HandlersOK, NEW h \in Handler, Throw(h)
  PROVE  \E p \in {"reportErr", "failStep", "error", "idle"}, f \in Frame :
           /\ Goto(h, p, f)
           /\ p \in {"reportErr", "failStep"} => pc[h] \in {"reportOk", "reportErr"}
<1>1. CASE pc[h] = "reportOk"
  <2>. DEFINE f == [frame[h] EXCEPT !.willRetry = CanRetry(h)]
  <2>1. CanRetry(h) \in BOOLEAN
    BY DEF CanRetry
  <2>2. f \in Frame
    BY <2>1 DEF HandlersOK, Frame
  <2>3. Goto(h, "reportErr", f)
    BY <1>1 DEF Throw
  <2>. QED BY <1>1, <2>2, <2>3
<1>2. CASE pc[h] = "reportErr"
  <2>1. frame[h] \in Frame
    BY DEF HandlersOK
  <2>2. Goto(h, "failStep", frame[h])
    BY <1>2 DEF Throw
  <2>. QED BY <1>2, <2>1, <2>2
<1>3. CASE pc[h] \notin {"reportOk", "reportErr"}
  BY <1>3, NoFrameType DEF Throw, Leave
<1>. QED BY <1>1, <1>2, <1>3

\* An exception in the holder, with nothing written, keeps the invariant.
LEMMA ThrowKeeps ==
  ASSUME TypeInv, ExecutionInv, NEW h \in Handler, pc[h] \in InRun, Throw(h),
         UNCHANGED <<run, workflow, deleted, stepRun>>
  PROVE  ExecutionInv'
<1>1. HandlersOK
  BY DEF TypeInv, TypeOK, HandlersOK
<1>2. PICK p \in {"reportErr", "failStep", "error", "idle"}, f \in Frame :
           /\ Goto(h, p, f)
           /\ p \in {"reportErr", "failStep"} => pc[h] \in {"reportOk", "reportErr"}
  BY <1>1, ThrowGoes
<1>3. Holding(h)
  BY DEF Holding, InRun
<1>4. \A s \in StepId : Waiting(s)' = Waiting(s)
  BY DEF Waiting, ApprovalAffectsRow
<1>5. p \in InRun => \A s \in StepId : ~ Waiting(s)
  BY <1>2, <1>3, NothingWaits DEF InRun, Executing
<1>6. p \in InRun \cup {"done", "error", "dead", "idle"}
  BY DEF InRun, Executing
<1>7. \A s, t \in StepId : Waiting(s)' /\ Waiting(t)' => s = t
  BY <1>4 DEF ExecutionInv, Waiting
<1>8. \A s \in StepId \ workflow.steps : stepRun'[s] = NoRow
  BY DEF ExecutionInv
<1>. QED BY <1>2, <1>4, <1>5, <1>6, <1>7, <1>8, HolderStep

(***************************************************************************)
(* A write of the holder to step_runs, answered or not: either no row      *)
(* waits afterwards, or the gate does at which the holder is to pause.     *)
(***************************************************************************)
LEMMA WriteKeeps ==
  ASSUME TypeInv, ExecutionInv, NEW h \in Handler, pc[h] \in InRun,
         NEW p \in InRun, NEW f \in Frame, Answer(h, p, f),
         UNCHANGED <<run, workflow, deleted>>,
         \A s \in StepId : Waiting(s)' =>
           p = "pause" /\ s = f.cursor /\ pc[h] \notin {"reportOk", "reportErr"},
         \A s \in StepId : stepRun[s].approved_by # None => stepRun'[s].approved_by # None,
         \A s \in StepId \ workflow.steps : stepRun'[s] = NoRow
  PROVE  ExecutionInv'
<1>1. CASE Goto(h, p, f)
  BY <1>1, HolderStep
<1>2. CASE Throw(h)
  <2>1. HandlersOK
    BY DEF TypeInv, TypeOK, HandlersOK
  <2>2. PICK q \in {"reportErr", "failStep", "error", "idle"}, e \in Frame :
           /\ Goto(h, q, e)
           /\ q \in {"reportErr", "failStep"} => pc[h] \in {"reportOk", "reportErr"}
    BY <1>2, <2>1, ThrowGoes
  <2>3. q \in InRun => \A s \in StepId : ~ Waiting(s)'
    BY <2>2 DEF InRun, Executing
  <2>4. q \in InRun \cup {"done", "error", "dead", "idle"}
    BY DEF InRun, Executing
  <2>. QED BY <2>2, <2>3, <2>4, HolderStep
<1>. QED BY <1>1, <1>2 DEF Answer

\* Writing the row of a step that waits for nobody keeps the invariant.
LEMMA UpsertKeeps ==
  ASSUME TypeInv, ExecutionInv, NEW h \in Handler, pc[h] \in InRun \ {"pause"},
         NEW row, NEW p \in InRun, NEW f \in Frame, Upsert(h, row, p, f),
         row.approved_by = Row(h).approved_by,
         ~ (row.status = "paused" /\ row.approved_by = None)
           \/ /\ p = "pause" /\ f.cursor = Cursor(h)
              /\ pc[h] \notin {"reportOk", "reportErr"},
         UNCHANGED <<workflow, deleted>>
  PROVE  ExecutionInv'
<1>1. CASE Dangling(h, {Cursor(h)})
  BY <1>1, ThrowKeeps DEF Dangling
<1>2. CASE /\ Cursor(h) \in workflow.steps
           /\ UpsertStepRun(Cursor(h), row)
           /\ Answer(h, p, f)
           /\ UNCHANGED run
  <2>1. \A s \in StepId : ~ Waiting(s)
    BY NothingWaits DEF Holding, InRun
  <2>2. stepRun' = [stepRun EXCEPT ![Cursor(h)] = row] /\ stepRun \in [StepId -> StepRunRow]
    BY <1>2 DEF UpsertStepRun, TypeInv, TypeOK
  <2>3. \A s \in StepId : stepRun'[s] = IF s = Cursor(h) THEN row ELSE stepRun[s]
    BY <2>2
  <2>4. \A s \in StepId : stepRun'[s].approved_by = stepRun[s].approved_by
    BY <2>3 DEF Row
  <2>5. \A s \in StepId : Waiting(s)' => s = Cursor(h) /\ row.status = "paused"
                                         /\ row.approved_by = None
    BY <2>1, <2>3 DEF Waiting, ApprovalAffectsRow
  <2>6. \A s \in StepId \ workflow.steps : stepRun'[s] = NoRow
    BY <1>2, <2>3 DEF ExecutionInv
  <2>. QED BY <1>2, <2>4, <2>5, <2>6, WriteKeeps
<1>. QED BY <1>1, <1>2 DEF Upsert

\* Writing skipped rows keeps the invariant.
LEMMA SkipKeeps ==
  ASSUME TypeInv, ExecutionInv, NEW h \in Handler,
         pc[h] \in InRun \ {"pause"},
         NEW S, NEW p \in InRun, NEW f \in Frame, Skip(h, S, p, f)
  PROVE  ExecutionInv'
<1>. USE DEF Skip
<1>1. CASE Dangling(h, S)
  BY <1>1, ThrowKeeps DEF Dangling
<1>2. CASE /\ S \subseteq workflow.steps
           /\ MarkStepsSkipped(S)
           /\ Answer(h, p, f)
           /\ UNCHANGED run
  <2>1. \A s \in StepId : ~ Waiting(s)
    BY NothingWaits DEF Holding, InRun
  <2>2. \A s \in StepId : stepRun'[s] = IF s \in S /\ stepRun[s].status = "absent"
                                        THEN WithStatus(stepRun[s], "skipped")
                                        ELSE stepRun[s]
    BY <1>2 DEF MarkStepsSkipped
  <2>3. \A s \in StepId : stepRun[s] \in StepRunRow
    BY DEF TypeInv, TypeOK
  <2>4. \A s \in StepId : /\ stepRun'[s].approved_by = stepRun[s].approved_by
                          /\ stepRun'[s].status = "paused" => stepRun[s].status = "paused"
    BY <2>2, <2>3 DEF WithStatus, StepRunRow
  <2>5. \A s \in StepId : ~ Waiting(s)'
    BY <2>1, <2>4 DEF Waiting, ApprovalAffectsRow
  <2>6. \A s \in StepId \ workflow.steps : stepRun'[s] = NoRow
    BY <1>2, <2>2 DEF ExecutionInv
  <2>. QED BY <1>2, <2>4, <2>5, <2>6, WriteKeeps
<1>. QED BY <1>1, <1>2

(***************************************************************************)
(* The run's status changes while nobody else can be holding it: the claim *)
(* of a pending run, the holder's resumption, its pause and its end.       *)
(***************************************************************************)
LEMMA StatusStep ==
  ASSUME TypeInv, ExecutionInv, NEW h \in Handler,
         \A k \in Handler \ {h} : ~ Holding(k),
         NEW p, p \notin {"load", "resume", "pause", "claimApproval"}, NEW f, Goto(h, p, f),
         p \in InRun => run'.status = "running" /\ \A s \in StepId : ~ Waiting(s),
         run.status # "paused" \/ \A s \in StepId : ~ Waiting(s),
         run'.status # "pending",
         UNCHANGED <<stepRun, workflow, deleted>>
  PROVE  ExecutionInv'
<1>1. /\ pc' = [pc EXCEPT ![h] = p] /\ frame' = [frame EXCEPT ![h] = f]
      /\ pc \in [Handler -> PC] /\ frame \in [Handler -> Frame]
  BY DEF Goto, TypeInv, TypeOK
<1>2. \A k \in Handler \ {h} : /\ Holding(k)' = Holding(k) /\ pc'[k] = pc[k]
                               /\ Cursor(k)' = Cursor(k)
  BY <1>1 DEF Holding, Cursor
<1>3. pc'[h] = p /\ (Holding(h)' => p \in InRun)
  BY <1>1 DEF Holding, InRun
<1>4. \A s \in StepId : Waiting(s)' = Waiting(s)
  BY DEF Waiting, ApprovalAffectsRow
<1>5. \A k \in Handler : pc[k] = "claimApproval" =>
        stepRun[Cursor(k)].approved_by # None \/ Cursor(k) \in deleted
  BY DEF ExecutionInv, Waiting
<1>6. \A k \in Handler : pc'[k] = "claimApproval" =>
        /\ Cursor(k)' \in StepId
        /\ stepRun'[Cursor(k)'].approved_by # None \/ Cursor(k)' \in deleted'
  BY <1>2, <1>3, <1>5 DEF ExecutionInv
<1>7. \A k \in Handler : Holding(k)' => k = h
  BY <1>2
<1>. QED BY <1>3, <1>4, <1>6, <1>7 DEF ExecutionInv, SingleExecutor, Waiting

\* At first nobody holds the run and nothing waits.
LEMMA ExecutionInit == Init => ExecutionInv
BY DEF Init, ExecutionInv, SingleExecutor, Holding, Executing, ApprovalAffectsRow, NoRow

\* The claim of an approval lets its handler in only if the run is paused at that gate.
LEMMA ClaimApprovalKeeps ==
  ASSUME TypeInv, ExecutionInv, NEW h \in Handler, ClaimApproval(h)
  PROVE  ExecutionInv'
<1>. USE DEF ClaimApproval
<1>1. h \in Approval
  BY DEF TypeInv, LocalsUsable, Usable
<1>2. CASE Leave(h, "error") /\ UNCHANGED <<stepRun, faults>>
  BY <1>1, <1>2, QuietStep, HandlersAssumption DEF Leave, Executing
<1>3. CASE /\ ApprovalAffectsRow(Cursor(h))
           /\ UpsertStepRun(Cursor(h), ApprovedBy(Row(h), h))
           /\ Answer(h, "load", NoFrame)
  <2>. DEFINE g == Cursor(h)
  <2>1. /\ g \in StepId /\ stepRun \in [StepId -> StepRunRow]
        /\ pc \in [Handler -> PC] /\ frame \in [Handler -> Frame]
    BY DEF ExecutionInv, TypeInv, TypeOK
  <2>2. g \in workflow.steps
    BY <1>3, <2>1 DEF ExecutionInv, ApprovalAffectsRow, NoRow
  <2>3. run.status = "paused"
    BY <1>3, <2>1, <2>2 DEF ExecutionInv, ApprovalAffectsRow
  <2>4. \A k \in Handler : ~ Holding(k)
    BY <1>3, <2>1, <2>3 DEF ExecutionInv
  <2>5. \A s \in StepId : stepRun'[s] = IF s = g THEN ApprovedBy(Row(h), h) ELSE stepRun[s]
    BY <1>3, <2>1 DEF UpsertStepRun
  <2>6. stepRun'[g].status = "completed" /\ stepRun'[g].approved_by = h
    BY <2>1, <2>5 DEF ApprovedBy, Row, StepRunRow
  <2>7. h # None
    BY <1>1, NullsAssumption
  <2>8. \A s \in StepId : ~ Waiting(s)'
    BY <1>3, <2>1, <2>5, <2>6 DEF ExecutionInv, Waiting, ApprovalAffectsRow
  <2>9. \A s \in StepId : stepRun[s].approved_by # None => stepRun'[s].approved_by # None
    BY <2>5, <2>6, <2>7
  <2>10. \A s \in StepId \ workflow.steps : stepRun'[s] = NoRow
    BY <2>2, <2>5 DEF ExecutionInv
  <2>11. HandlersOK
    BY DEF TypeInv, TypeOK, HandlersOK
  <2>12. pc[h] \notin {"reportOk", "reportErr"}
    OBVIOUS
  <2>13. PICK q \in {"load", "error", "idle"}, f \in Frame : Goto(h, q, f)
    BY <1>3, <2>11, <2>12, ThrowGoes, NoFrameType DEF Answer
  <2>14. /\ pc' = [pc EXCEPT ![h] = q] /\ frame' = [frame EXCEPT ![h] = f]
    BY <2>13 DEF Goto
  <2>15. \A k \in Handler \ {h} : /\ ~ Holding(k)' /\ pc'[k] = pc[k]
                                  /\ Cursor(k)' = Cursor(k)
    BY <2>1, <2>4, <2>14 DEF Holding, Cursor
  <2>16. pc'[h] = q /\ (Holding(h)' => q = "load")
    BY <2>1, <2>14 DEF Holding, Executing
  <2>17. \A k \in Handler : pc'[k] = "claimApproval" =>
           /\ Cursor(k)' \in StepId
           /\ stepRun'[Cursor(k)'].approved_by # None \/ Cursor(k)' \in deleted'
    <3>. SUFFICES ASSUME NEW k \in Handler, pc'[k] = "claimApproval"
                  PROVE  /\ Cursor(k) \in StepId
                         /\ stepRun'[Cursor(k)].approved_by # None \/ Cursor(k) \in deleted
      BY <2>15, <2>16
    <3>1. pc[k] = "claimApproval"
      BY <2>15, <2>16
    <3>2. CASE ApprovalAffectsRow(Cursor(k))
      BY <1>3, <2>1, <2>6, <2>7, <3>1, <3>2 DEF ExecutionInv
    <3>3. CASE ~ ApprovalAffectsRow(Cursor(k))
      BY <2>9, <3>1, <3>3 DEF ExecutionInv
    <3>. QED BY <3>2, <3>3
  <2>18. \A k \in Handler : Holding(k)' => k = h /\ pc'[k] = "load"
    BY <2>15, <2>16
  <2>. QED BY <2>3, <2>8, <2>10, <2>17, <2>18 DEF ExecutionInv, SingleExecutor, Waiting
<1>. QED BY <1>2, <1>3

\* The read of an approval promises nothing that a later claim could break.
LEMMA AuthorizeKeeps ==
  ASSUME TypeInv, ExecutionInv, NEW h \in Approval, NEW g \in StepId, AuthorizeApproval(h, g)
  PROVE  ExecutionInv'
<1>. USE DEF AuthorizeApproval
<1>1. h \in Handler /\ pc \in [Handler -> PC] /\ frame \in [Handler -> Frame]
  BY DEF Handler, TypeInv, TypeOK
<1>2. /\ pc' = [pc EXCEPT ![h] = "claimApproval"]
      /\ frame' = [frame EXCEPT ![h] = [NoFrame EXCEPT !.cursor = g]]
  BY DEF Goto
<1>3. \A k \in Handler \ {h} : /\ Holding(k)' = Holding(k) /\ pc'[k] = pc[k]
                               /\ Cursor(k)' = Cursor(k)
  BY <1>1, <1>2 DEF Holding, Cursor
<1>4. ~ Holding(h)' /\ pc'[h] = "claimApproval"
  BY <1>1, <1>2 DEF Holding, Executing
<1>5. Cursor(h)' = g
  BY <1>1, <1>2 DEF Cursor, NoFrame
<1>6. \A s \in StepId : ApprovalAffectsRow(s)' = ApprovalAffectsRow(s)
  BY DEF ApprovalAffectsRow
<1>7. \A k \in Handler : pc'[k] = "claimApproval" =>
        /\ Cursor(k)' \in StepId
        /\ \/ stepRun[Cursor(k)'].approved_by # None
           \/ Cursor(k)' \in deleted
           \/ ApprovalAffectsRow(Cursor(k)') /\ run.status = "paused"
  BY <1>3, <1>4, <1>5 DEF ExecutionInv
<1>8. \A k \in Handler : pc'[k] = "claimApproval" =>
        /\ Cursor(k)' \in StepId
        /\ \/ stepRun'[Cursor(k)'].approved_by # None
           \/ Cursor(k)' \in deleted'
           \/ ApprovalAffectsRow(Cursor(k))' /\ run'.status = "paused"
  BY <1>7 DEF ApprovalAffectsRow
<1>. QED BY <1>3, <1>4, <1>6, <1>8 DEF ExecutionInv, SingleExecutor

\* A load changes nobody's hold of the run.
LEMMA LoadKeeps ==
  ASSUME TypeInv, ExecutionInv, NEW h \in Handler, Load(h)
  PROVE  ExecutionInv'
<1>. USE DEF Load
<1>1. CASE Leave(h, "done")
  BY <1>1, QuietStep DEF Leave, Executing
<1>2. CASE h \in Delivery /\ Goto(h, "claim", NoFrame)
  BY <1>2, QuietStep DEF Executing
<1>3. CASE h \in Approval /\ Goto(h, "resume", Loaded(ResumeCursor))
  <2>1. pc \in [Handler -> PC] /\ frame \in [Handler -> Frame]
    BY DEF TypeInv, TypeOK
  <2>2. Holding(h) /\ pc' = [pc EXCEPT ![h] = "resume"]
    BY <1>3 DEF Holding, Goto
  <2>3. \A s \in StepId : ~ Waiting(s) /\ ~ Waiting(s)'
    BY <2>2, NothingWaits DEF Waiting, ApprovalAffectsRow
  <2>4. \A k \in Handler \ {h} : ~ Holding(k) /\ pc'[k] = pc[k] /\ Cursor(k)' = Cursor(k)
    BY <1>3, <2>1, <2>2 DEF ExecutionInv, SingleExecutor, Goto, Cursor
  <2>5. \A k \in Handler : Holding(k)' => k = h
    BY <2>4 DEF Holding
  <2>6. pc'[h] = "resume" /\ run.status = "paused"
    BY <2>1, <2>2 DEF ExecutionInv
  <2>7. \A k \in Handler : pc'[k] = "claimApproval" =>
          /\ Cursor(k)' \in StepId
          /\ stepRun'[Cursor(k)'].approved_by # None \/ Cursor(k)' \in deleted'
    BY <2>3, <2>4, <2>6 DEF ExecutionInv, Waiting
  <2>. QED BY <2>3, <2>5, <2>6, <2>7 DEF ExecutionInv, SingleExecutor, Waiting
<1>. QED BY <1>1, <1>2, <1>3

\* An edit takes rows away, and no row waits that did not wait before.
LEMMA EditKeeps ==
  ASSUME TypeInv, ExecutionInv, NEW w \in Workflows, EditWorkflow(w)
  PROVE  ExecutionInv'
<1>. USE DEF EditWorkflow
<1>1. \A s \in StepId : stepRun'[s] = IF s \in w.steps THEN stepRun[s] ELSE NoRow
  OBVIOUS
<1>2. \A k \in Handler : Holding(k)' = Holding(k) /\ pc'[k] = pc[k] /\ Cursor(k)' = Cursor(k)
  BY DEF Holding, Cursor
<1>3. \A s \in StepId : Waiting(s)' => Waiting(s) /\ s \in w.steps
  BY <1>1 DEF Waiting, ApprovalAffectsRow, NoRow
<1>4. \A k \in Handler : pc[k] = "claimApproval" =>
        \/ stepRun'[Cursor(k)].approved_by # None
        \/ Cursor(k) \in deleted'
        \/ ApprovalAffectsRow(Cursor(k))' /\ run'.status = "paused"
  <2>. SUFFICES ASSUME NEW k \in Handler, pc[k] = "claimApproval"
                PROVE  \/ stepRun'[Cursor(k)].approved_by # None
                       \/ Cursor(k) \in deleted'
                       \/ ApprovalAffectsRow(Cursor(k))' /\ run'.status = "paused"
    OBVIOUS
  <2>1. Cursor(k) \in StepId
    BY DEF ExecutionInv
  <2>2. CASE Cursor(k) \in w.steps
    <3>1. stepRun'[Cursor(k)] = stepRun[Cursor(k)]
      BY <1>1, <2>1, <2>2
    <3>. QED BY <1>2, <3>1 DEF ExecutionInv, ApprovalAffectsRow
  <2>3. CASE Cursor(k) \notin w.steps
    <3>1. Cursor(k) \in workflow.steps \/ Cursor(k) \in deleted
      BY <2>1 DEF ExecutionInv, ApprovalAffectsRow, NoRow
    <3>. QED BY <2>3, <3>1
  <2>. QED BY <2>2, <2>3
<1>5. \A k \in Handler : pc'[k] = "claimApproval" => Cursor(k)' \in StepId
  BY <1>2 DEF ExecutionInv
<1>6. workflow'.steps \cap deleted' = {}
  BY DEF ExecutionInv
<1>7. \A s \in StepId \ workflow'.steps : stepRun'[s] = NoRow
  BY <1>1
<1>. QED BY <1>2, <1>3, <1>4, <1>5, <1>6, <1>7 DEF ExecutionInv, SingleExecutor, Waiting

\* Every step keeps the invariant.
LEMMA ExecutionNext == TypeInv /\ ExecutionInv /\ [Next]_vars => ExecutionInv'
<1>. SUFFICES ASSUME TypeInv, ExecutionInv, [Next]_vars PROVE ExecutionInv'
  OBVIOUS
<1>0. HandlersOK /\ pc \in [Handler -> PC] /\ frame \in [Handler -> Frame]
  BY DEF TypeInv, TypeOK, HandlersOK
<1>1. Delivery \subseteq Handler /\ Approval \subseteq Handler /\ Delivery \cap Approval = {}
  BY HandlersAssumption DEF Handler
<1>2. ASSUME NEW h \in Handler, pc[h] \in Executing
      PROVE  /\ Cursor(h) = frame[h].cursor /\ Plan(h) = frame[h].plan
             /\ pc[h] \in AtStep => Cursor(h) \in StepId
  BY <1>2, StepIdsOfPlan DEF TypeInv, LocalsUsable, Usable, Cursor, Plan
<1>3. \A h \in Handler : pc[h] \in InRun => Holding(h) /\ run.status = "running"
  BY DEF Holding, InRun, Executing, ExecutionInv
<1>4. \A h \in Handler : Holding(h) => \A k \in Handler \ {h} : ~ Holding(k)
  BY DEF ExecutionInv, SingleExecutor
<1>5. ASSUME NEW d \in Delivery, Deliver(d) PROVE ExecutionInv'
  BY <1>1, <1>5, QuietStep DEF Deliver, Executing
<1>6. ASSUME NEW d \in Delivery, DeliveryTimeout(d) PROVE ExecutionInv'
  BY <1>6 DEF DeliveryTimeout, ExecutionInv, SingleExecutor, Holding, Cursor, ApprovalAffectsRow
<1>7. ASSUME NEW d \in Delivery, Respond(d) PROVE ExecutionInv'
  BY <1>1, <1>7, QuietStep DEF Respond, Executing
<1>8. ASSUME NEW h \in Handler, ClaimRun(h) PROVE ExecutionInv'
  <2>. USE <1>8 DEF ClaimRun
  <2>1. CASE Leave(h, "done") /\ UNCHANGED <<run, faults>>
    BY <2>1, QuietStep DEF Leave, Executing
  <2>2. CASE /\ ClaimAffectsRow
             /\ MarkRun("running", run.resume_position)
             /\ Answer(h, "reload", NoFrame)
    <3>1. /\ \A k \in Handler : ~ Holding(k)
          /\ \A s \in StepId : ~ Waiting(s)
          /\ run'.status = "running"
      BY <2>2 DEF ClaimAffectsRow, ExecutionInv, Waiting, MarkRun
    <3>2. CASE Goto(h, "reload", NoFrame)
      BY <3>1, <3>2, StatusStep
    <3>3. CASE Throw(h)
      BY <3>1, <3>3, StatusStep DEF Throw, Leave
    <3>. QED BY <2>2, <3>2, <3>3 DEF Answer
  <2>. QED BY <2>1, <2>2
<1>9. ASSUME NEW h \in Handler, Reload(h) PROVE ExecutionInv'
  <2>. USE <1>9 DEF Reload
  <2>1. pc[h] \in InRun /\ pc[h] # "pause" /\ "step" \in InRun
    BY DEF InRun, Executing
  <2>2. \A s \in StepId : ~ Waiting(s) /\ ~ Waiting(s)'
    BY <1>3, <2>1, NothingWaits DEF Waiting, ApprovalAffectsRow
  <2>3. PICK f \in Frame : Goto(h, "step", f)
    <3>1. FirstOf(workflow, workflow.steps) \in StepId \cup {End}
      BY StepIdsOfPlan, FirstOfType DEF TypeInv, TypeOK
    <3>. QED BY <3>1, LoadedType DEF TypeInv
  <2>4. \A s \in StepId \ workflow.steps : stepRun'[s] = NoRow
    BY DEF ExecutionInv
  <2>. QED BY <2>1, <2>2, <2>3, <2>4, HolderStep
<1>10. ASSUME NEW h \in Handler, Resume(h) PROVE ExecutionInv'
  <2>. USE <1>10 DEF Resume
  <2>1. Holding(h) /\ pc[h] # "pause"
    BY DEF Holding, Executing
  <2>2. run'.status = "running" /\ \A s \in StepId : ~ Waiting(s)
    BY <2>1, NothingWaits DEF MarkRun
  <2>3. CASE Goto(h, "step", frame[h])
    BY <1>4, <2>1, <2>2, <2>3, StatusStep
  <2>4. CASE Throw(h)
    BY <1>4, <2>1, <2>2, <2>4, StatusStep DEF Throw, Leave
  <2>. QED BY <2>3, <2>4 DEF Answer
<1>11. ASSUME NEW h \in Handler, SkipApprovedGate(h) PROVE ExecutionInv'
  <2>. USE <1>11 DEF SkipApprovedGate
  <2>. DEFINE f == [frame[h] EXCEPT !.cursor = NextStep(Plan(h), Cursor(h))]
  <2>1. pc[h] \in InRun /\ pc[h] # "pause" /\ "step" \in InRun
    BY DEF InRun, Executing
  <2>2. \A s \in StepId : ~ Waiting(s) /\ ~ Waiting(s)'
    BY <1>3, <2>1, NothingWaits DEF Waiting, ApprovalAffectsRow
  <2>3. Plan(h) \in Workflow /\ Plan(h).steps \subseteq StepId
    BY StepIdsOfPlan DEF TypeInv, LocalsUsable, Usable, Executing, Plan
  <2>4. NextStep(Plan(h), Cursor(h)) \in StepId \cup {End}
    BY <2>3, NextStepType DEF After
  <2>5. f \in Frame
    BY <1>0, <2>4 DEF Frame
  <2>6. \A s \in StepId \ workflow.steps : stepRun'[s] = NoRow
    BY DEF ExecutionInv
  <2>. QED BY <2>1, <2>2, <2>5, <2>6, HolderStep
<1>12. ASSUME NEW h \in Handler, ReachGate(h) PROVE ExecutionInv'
  <2>. USE <1>12 DEF ReachGate
  <2>1. pc[h] \in InRun \ {"pause"} /\ "pause" \in InRun
    BY DEF InRun, Executing
  <2>. DEFINE row == WithStatus(Row(h), "paused")
  <2>2. CASE Cursor(h) \in workflow.steps
    <3>1. row.approved_by = Row(h).approved_by
      <4>1. Row(h) \in StepRunRow
        BY <2>2, StepIdsOfPlan DEF TypeInv, TypeOK, Row
      <4>. QED BY <4>1 DEF WithStatus, StepRunRow
    <3>2. frame[h] \in Frame /\ frame[h].cursor = Cursor(h)
      BY <1>0 DEF Cursor
    <3>. HIDE DEF row
    <3>3. Upsert(h, row, "pause", frame[h])
      BY DEF row
    <3>. QED BY <2>1, <3>1, <3>2, <3>3, UpsertKeeps
  <2>3. CASE Cursor(h) \notin workflow.steps
    <3>1. Dangling(h, {Cursor(h)})
      BY <2>3 DEF Upsert
    <3>. QED BY <2>1, <3>1, ThrowKeeps DEF Dangling
  <2>. QED BY <2>2, <2>3
<1>13. ASSUME NEW h \in Handler, PauseRun(h) PROVE ExecutionInv'
  <2>. USE <1>13 DEF PauseRun
  <2>1. pc[h] \in InRun /\ run'.status = "paused"
    BY DEF InRun, Executing, MarkRun
  <2>2. PICK q \in {"done", "error", "idle"} : Goto(h, q, NoFrame)
    BY DEF Leave, Throw
  <2>. QED BY <1>3, <1>4, <2>1, <2>2, StatusStep DEF InRun, Executing
<1>14. ASSUME NEW h \in Handler, NEW st \in TerminalStatus, EndRun(h, st),
              pc[h] \in {"failRun", "step"}
       PROVE  ExecutionInv'
  <2>. USE <1>14 DEF EndRun
  <2>1. pc[h] \in InRun /\ run'.status # "pending"
    BY DEF InRun, Executing, MarkRun, TerminalStatus
  <2>2. PICK q \in {"done", "error", "idle"} : Goto(h, q, NoFrame)
    BY DEF Leave, Throw
  <2>. QED BY <1>3, <1>4, <2>1, <2>2, StatusStep DEF InRun, Executing
<1>15. ASSUME NEW h \in Handler, RunBody(h) PROVE ExecutionInv'
  <2>. USE <1>15 DEF RunBody
  <2>1. /\ pc[h] \in InRun /\ pc[h] # "pause"
        /\ {"reportOk", "reportErr"} \subseteq InRun \ {"pause"}
    BY DEF InRun, Executing
  <2>2. \A s \in StepId : ~ Waiting(s) /\ ~ Waiting(s)'
    BY <1>3, <2>1, NothingWaits DEF Waiting, ApprovalAffectsRow
  <2>3. Plan(h) \in Workflow /\ Plan(h).steps \subseteq StepId
    BY StepIdsOfPlan DEF TypeInv, LocalsUsable, Usable, Executing, Plan
  <2>4. \A s \in StepId \ workflow.steps : stepRun'[s] = NoRow
    BY DEF ExecutionInv
  <2>5. PICK p \in {"reportOk", "reportErr"}, f \in Frame : Goto(h, p, f)
    <3>1. ASSUME NEW dest \in Destinations(Plan(h), Cursor(h))
          PROVE  [frame[h] EXCEPT !.dest = dest] \in Frame
      <4>1. dest \in StepId \cup {End, Missing}
        BY <2>3, DestinationsType
      <4>. QED BY <1>0, <4>1 DEF Frame
    <3>2. ASSUME NEW retry \in BOOLEAN PROVE [frame[h] EXCEPT !.willRetry = retry] \in Frame
      BY <1>0 DEF Frame
    <3>3. \A retryable \in BOOLEAN : (retryable /\ CanRetry(h)) \in BOOLEAN
      OBVIOUS
    <3>. QED BY <3>1, <3>2, <3>3
  <2>. QED BY <2>1, <2>2, <2>4, <2>5, HolderStep
<1>16. ASSUME NEW h \in Handler, pc[h] \in InRun \ {"pause"}, NEW row,
              NEW p \in InRun, NEW f \in Frame, Upsert(h, row, p, f),
              row.approved_by = Row(h).approved_by,
              row.status # "paused" \/ row.status = Row(h).status,
              pc[h] \in AtStep \/ row.status # "paused",
              UNCHANGED <<workflow, deleted>>
       PROVE  ExecutionInv'
  <2>1. pc[h] \in AtStep => Cursor(h) \in StepId
    BY <1>2, <1>16 DEF AtStep
  <2>2. Cursor(h) \in StepId => ~ Waiting(Cursor(h))
    BY <1>3, <1>16, NothingWaits
  <2>3. ~ (row.status = "paused" /\ row.approved_by = None)
    BY <1>16, <2>1, <2>2 DEF Waiting, ApprovalAffectsRow, Row
  <2>. QED BY <1>16, <2>3, UpsertKeeps
<1>17. ASSUME NEW h \in Handler, pc[h] \in Executing, Cursor(h) # End
       PROVE  Cursor(h) \in StepId /\ Row(h) \in StepRunRow
  BY <1>17, StepIdsOfPlan DEF TypeInv, TypeOK, LocalsUsable, Usable, Cursor, Row
<1>18. ASSUME NEW h \in Handler, pc[h] \in AtStep PROVE Row(h) \in StepRunRow
  BY <1>2, <1>18 DEF AtStep, TypeInv, TypeOK, Row
<1>19. ASSUME NEW h \in Handler, BeginStep(h) PROVE ExecutionInv'
  <2>. USE <1>19 DEF BeginStep
  <2>. DEFINE row == Begun(Row(h))
              f   == [frame[h] EXCEPT !.attempt = 1]
  <2>1. pc[h] \in InRun \ {"pause"} /\ "body" \in InRun /\ pc[h] \in Executing
    BY DEF InRun, Executing
  <2>2. row.approved_by = Row(h).approved_by /\ row.status = "running"
    BY <1>17, <2>1 DEF Begun, StepRunRow
  <2>3. f \in Frame
    BY <1>0 DEF Frame
  <2>. HIDE DEF row, f
  <2>4. Upsert(h, row, "body", f)
    BY DEF row, f
  <2>. QED BY <1>16, <2>1, <2>2, <2>3, <2>4
<1>20. ASSUME NEW h \in Handler, ReportOk(h) PROVE ExecutionInv'
  <2>. USE <1>20 DEF ReportOk
  <2>. DEFINE row == WithAttempt(Row(h), frame[h].attempt)
  <2>1. pc[h] \in InRun \ {"pause"} /\ "finishStep" \in InRun /\ pc[h] \in AtStep
    BY DEF InRun, AtStep, Executing
  <2>2. row.approved_by = Row(h).approved_by /\ row.status = Row(h).status
    BY <1>18, <2>1 DEF WithAttempt, StepRunRow
  <2>. HIDE DEF row
  <2>3. Upsert(h, row, "finishStep", frame[h]) /\ frame[h] \in Frame
    BY <1>0 DEF row
  <2>. QED BY <1>16, <2>1, <2>2, <2>3
<1>21. ASSUME NEW h \in Handler, ReportErr(h) PROVE ExecutionInv'
  <2>. USE <1>21 DEF ReportErr
  <2>. DEFINE row   == WithAttempt(Row(h), frame[h].attempt)
              again == frame[h].willRetry
              p     == IF again THEN "body" ELSE "failStep"
              f     == [frame[h] EXCEPT !.attempt = IF again THEN @ + 1 ELSE @]
  <2>1. pc[h] \in InRun \ {"pause"} /\ p \in InRun /\ pc[h] \in AtStep
    BY DEF InRun, AtStep, Executing
  <2>2. row.approved_by = Row(h).approved_by /\ row.status = Row(h).status
    BY <1>18, <2>1 DEF WithAttempt, StepRunRow
  <2>3. f \in Frame
    BY <1>0 DEF Frame
  <2>4. Upsert(h, row, p, f)
    OBVIOUS
  <2>. HIDE DEF row, p, f
  <2>. QED BY <1>16, <2>1, <2>2, <2>3, <2>4
<1>22. ASSUME NEW h \in Handler, pc[h] \in AtStep, NEW st \in {"failed", "completed"}
       PROVE  /\ WithStatus(Row(h), st).approved_by = Row(h).approved_by
              /\ WithStatus(Row(h), st).status = st
  BY <1>18, <1>22 DEF WithStatus, StepRunRow
<1>23. ASSUME NEW h \in Handler, FailStep(h) PROVE ExecutionInv'
  <2>. USE <1>23 DEF FailStep
  <2>. DEFINE p == IF After(Plan(h), Cursor(h)) = {} THEN "failRun" ELSE "skipRest"
  <2>1. pc[h] \in InRun \ {"pause"} /\ p \in InRun /\ pc[h] \in AtStep
    BY DEF InRun, AtStep, Executing
  <2>2. Upsert(h, WithStatus(Row(h), "failed"), p, frame[h]) /\ frame[h] \in Frame
    BY <1>0
  <2>. HIDE DEF p
  <2>. QED BY <1>16, <1>22, <2>1, <2>2
<1>24. ASSUME NEW h \in Handler, FailBranch(h) PROVE ExecutionInv'
  <2>. USE <1>24 DEF FailBranch
  <2>1. pc[h] \in InRun \ {"pause"} /\ "failRun" \in InRun /\ pc[h] \in AtStep
    BY DEF InRun, AtStep, Executing
  <2>2. frame[h] \in Frame
    BY <1>0
  <2>. QED BY <1>16, <1>22, <2>1, <2>2
<1>25. ASSUME NEW h \in Handler, FinishStep(h) PROVE ExecutionInv'
  <2>. USE <1>25 DEF FinishStep
  <2>. DEFINE dest  == frame[h].dest
              here  == [frame[h] EXCEPT !.ctx = @ \cup {Cursor(h)}, !.attempt = 0,
                                        !.willRetry = FALSE]
              ahead == [here EXCEPT !.cursor = dest]
              row   == WithStatus(Row(h), "completed")
  <2>1. /\ pc[h] \in InRun \ {"pause"} /\ pc[h] \in AtStep
        /\ {"failBranch", "step", "skipBetween"} \subseteq InRun
    BY DEF InRun, AtStep, Executing
  <2>2. row.approved_by = Row(h).approved_by /\ row.status = "completed"
    BY <1>22, <2>1
  <2>3. here \in Frame
    BY <1>0, <1>2, <2>1 DEF Frame, AtStep
  <2>4. dest # Missing => ahead \in Frame
    BY <1>0, <2>3 DEF Frame
  <2>5. \/ Upsert(h, row, "failBranch", here)
        \/ Upsert(h, row, "skipBetween", here)
        \/ Upsert(h, row, "step", ahead) /\ ~ Refusable(Plan(h), Cursor(h), dest)
    OBVIOUS
  <2>6. ~ Refusable(Plan(h), Cursor(h), dest) => dest # Missing
    BY <1>2, <2>1, StepIdsOfPlan, NullsAssumption
    DEF Refusable, After, TypeInv, LocalsUsable, Usable, AtStep, Plan
  <2>. HIDE DEF here, ahead, row
  <2>. QED BY <1>16, <2>1, <2>2, <2>3, <2>4, <2>5, <2>6
<1>26. ASSUME NEW h \in Handler, SkipRest(h) PROVE ExecutionInv'
  <2>1. pc[h] \in InRun \ {"pause"} /\ "failRun" \in InRun /\ frame[h] \in Frame
    BY <1>0, <1>26 DEF SkipRest, InRun, Executing
  <2>. QED BY <1>26, <2>1, SkipKeeps DEF SkipRest
<1>27. ASSUME NEW h \in Handler, SkipBetween(h) PROVE ExecutionInv'
  <2>. DEFINE f == [frame[h] EXCEPT !.cursor = frame[h].dest]
  <2>1. pc[h] \in InRun \ {"pause"} /\ "step" \in InRun
    BY <1>27 DEF SkipBetween, InRun, Executing
  <2>2. frame[h].dest \in StepId \cup {End}
    BY <1>27, StepIdsOfPlan
    DEF SkipBetween, TypeInv, LocalsUsable, Usable, Refusable, After, AtStep, Executing
  <2>3. f \in Frame
    BY <1>0, <2>2 DEF Frame
  <2>. HIDE DEF f
  <2>4. Skip(h, Between(Plan(h), Cursor(h), frame[h].dest), "step", f)
    BY <1>27 DEF SkipBetween, f
  <2>. QED BY <2>1, <2>3, <2>4, SkipKeeps
<1>28. ASSUME NEW h \in Handler, Refused(h) PROVE ExecutionInv'
  <2>. USE <1>28 DEF Refused
  <2>1. CASE pc[h] \in InRun
    BY <2>1, ThrowKeeps
  <2>2. CASE pc[h] \notin InRun
    BY <2>2, QuietStep DEF Throw, Leave, InRun, Executing
  <2>. QED BY <2>1, <2>2
<1>29. ASSUME NEW h \in Handler, Crash(h) PROVE ExecutionInv'
  BY <1>29, QuietStep DEF Crash, Leave, Executing
<1>30. CASE UNCHANGED vars
  BY <1>30 DEF vars, ExecutionInv, SingleExecutor, Holding, Cursor, ApprovalAffectsRow
<1>31. ASSUME NEW h \in Handler, HandlerStep(h) PROVE ExecutionInv'
  BY <1>8, <1>9, <1>10, <1>11, <1>12, <1>13, <1>14, <1>15, <1>19, <1>20, <1>21, <1>23,
     <1>24, <1>25, <1>26, <1>27, <1>31, LoadKeeps, ClaimApprovalKeeps
  DEF HandlerStep, FailRun, CompleteRun, TerminalStatus
<1>. QED
  BY <1>5, <1>6, <1>7, <1>28, <1>29, <1>30, <1>31, AuthorizeKeeps, EditKeeps DEF Next

(***************************************************************************)
(* The argument for mutual exclusion is inductive for every definition,    *)
(* any number of deliveries and approvals, and any faults and edits.       *)
(***************************************************************************)
THEOREM ExecutionCorrect == Spec => []ExecutionInv
BY TypeInit, TypeNext, ExecutionInit, ExecutionNext, PTL DEF Spec

(***************************************************************************)
(* At most one handler executes the run (claimRunForExecution and the      *)
(* claim of approveAndResume), however often the event is delivered and    *)
(* however many approvals are in progress.                                 *)
(***************************************************************************)
THEOREM SingleExecution == Spec => []SingleExecutor
<1>1. ExecutionInv => SingleExecutor
  BY DEF ExecutionInv
<1>. QED BY <1>1, ExecutionCorrect, PTL

(***************************************************************************)
(* The types of the state, for every value of the constants.               *)
(***************************************************************************)
THEOREM Types == Spec => []TypeOK
<1>1. TypeInv => TypeOK
  BY DEF TypeInv
<1>. QED BY <1>1, TypeCorrect, PTL

-----------------------------------------------------------------------------
(* What is over stays over. *)

\* No step changes a run that is over.
LEMMA TerminalStep ==
  TypeInv /\ ExecutionInv /\ [Next]_vars
    => (run.status \in TerminalStatus =>
          run' = run /\ calls' = calls /\ (edits' = edits => stepRun' = stepRun))
<1>. DEFINE Kept == run' = run /\ calls' = calls /\ (edits' = edits => stepRun' = stepRun)
<1>. SUFFICES ASSUME TypeInv, ExecutionInv, [Next]_vars, run.status \in TerminalStatus
              PROVE  Kept
  OBVIOUS
<1>1. \A h \in Handler : ~ Holding(h)
  BY DEF ExecutionInv, TerminalStatus
<1>2. \A h \in Handler : pc[h] \notin InRun \cup {"resume"}
  BY <1>1 DEF Holding, InRun, Executing
<1>3. ASSUME NEW h \in Handler, pc[h] = "claimApproval" PROVE ~ ApprovalAffectsRow(Cursor(h))
  <2>1. /\ Cursor(h) \in StepId
        /\ stepRun[Cursor(h)].approved_by # None \/ Cursor(h) \in deleted
    BY <1>3 DEF ExecutionInv, TerminalStatus
  <2>. QED BY <2>1 DEF ExecutionInv, ApprovalAffectsRow, NoRow
<1>4. ASSUME NEW h \in Handler, HandlerStep(h) PROVE Kept
  <2>1. \/ Load(h) /\ Kept
        \/ ClaimRun(h) /\ Kept
        \/ ClaimApproval(h) /\ Kept
    BY <1>2, <1>3, <1>4
    DEF HandlerStep, InRun, Executing, TerminalStatus, Load, ClaimRun, ClaimAffectsRow,
        ClaimApproval, Reload, Resume, SkipApprovedGate, ReachGate, PauseRun, BeginStep,
        RunBody, ReportOk, ReportErr, FailStep, SkipRest, FinishStep, SkipBetween,
        FailBranch, FailRun, CompleteRun
  <2>. QED BY <2>1
<1>5. ASSUME NEW w \in Workflows, EditWorkflow(w) PROVE Kept
  BY <1>5 DEF EditWorkflow, TypeInv, TypeOK
<1>. QED
  BY <1>4, <1>5
  DEF Next, Deliver, DeliveryTimeout, Respond, AuthorizeApproval, Refused, Crash, vars

(***************************************************************************)
(* A completed or failed run is never touched again: not by a redelivered  *)
(* event, not by a late approval, not by the handler that ended it.        *)
(***************************************************************************)
THEOREM TerminalFinality == Spec => TerminalIsFinal
<1>1. TypeInv /\ ExecutionInv /\ [Next]_vars =>
        [run.status \in TerminalStatus =>
           run' = run /\ calls' = calls /\ (edits' = edits => stepRun' = stepRun)]_vars
  BY TerminalStep
<1>. QED BY <1>1, TypeCorrect, ExecutionCorrect, PTL DEF Spec, TerminalIsFinal

=============================================================================
