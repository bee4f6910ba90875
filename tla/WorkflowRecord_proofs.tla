----------------------- MODULE WorkflowRecord_proofs -----------------------
(***************************************************************************)
(* What the rows of a run mean, proved for every set of steps, every       *)
(* definition, any number of deliveries and approvals, and any faults: the *)
(* invariants RecordInv and CountInv, the properties that follow, and that *)
(* the engine implements RunLifecycle as long as nobody edits.             *)
(***************************************************************************)
EXTENDS WorkflowEngine_proofs

-----------------------------------------------------------------------------
(* The positions. *)

(***************************************************************************)
(* resume_position, as a pause at s computes it, separates s and what is   *)
(* before it from what is behind it.                                       *)
(***************************************************************************)
LEMMA NextPositionSeparates ==
  ASSUME NEW w \in Workflow, NEW s \in w.steps, NEW t \in w.steps
  PROVE  w.position[t] < NextPosition(w, s) <=> w.position[t] <= w.position[s]
<1>1. \A r \in w.steps : w.position[r] \in Nat /\ r \in StepId
  BY DEF Workflow
<1>2. CASE After(w, s) = {}
  <2>1. NextPosition(w, s) = w.position[s] + 1
    BY <1>2 DEF NextPosition, NextStep, FirstOf
  <2>. QED BY <1>1, <2>1
<1>3. CASE After(w, s) # {}
  <2>. DEFINE n == NextStep(w, s)
  <2>1. n \in After(w, s) /\ \A r \in After(w, s) : w.position[n] <= w.position[r]
    BY <1>3, FirstOfSpec DEF NextStep, After
  <2>2. n # End
    BY <1>1, <2>1, NullsAssumption DEF After
  <2>3. NextPosition(w, s) = w.position[n]
    BY <2>2 DEF NextPosition
  <2>4. w.position[t] > w.position[s] => w.position[n] <= w.position[t]
    BY <2>1 DEF After
  <2>. QED BY <1>1, <2>1, <2>3, <2>4 DEF After
<1>. QED BY <1>2, <1>3

(***************************************************************************)
(* The step at which a run resumes separates the steps before              *)
(* resume_position from the others.                                        *)
(***************************************************************************)
LEMMA FirstFromSeparates ==
  ASSUME NEW w \in Workflow, NEW p \in Nat, NEW t \in w.steps
  PROVE  FirstFrom(w, p) = End \/ w.position[t] < w.position[FirstFrom(w, p)]
           <=> w.position[t] < p
<1>. DEFINE S == {r \in w.steps : w.position[r] >= p}
            c == FirstFrom(w, p)
<1>1. \A r \in w.steps : w.position[r] \in Nat /\ r \in StepId
  BY DEF Workflow
<1>2. CASE S = {}
  BY <1>1, <1>2 DEF FirstFrom, FirstOf
<1>3. CASE S # {}
  <2>1. c \in S /\ \A r \in S : w.position[c] <= w.position[r]
    BY <1>3, FirstOfSpec DEF FirstFrom
  <2>2. c # End
    BY <1>1, <2>1, NullsAssumption
  <2>3. w.position[t] >= p => w.position[c] <= w.position[t]
    BY <2>1
  <2>. HIDE DEF c
  <2>. QED BY <1>1, <2>1, <2>2, <2>3 DEF c
<1>. QED BY <1>2, <1>3

\* No step comes before the first one, and only an empty workflow has none.
LEMMA FirstSeparates ==
  ASSUME NEW w \in Workflow, NEW t \in w.steps
  PROVE  /\ FirstOf(w, w.steps) # End
         /\ ~ w.position[t] < w.position[FirstOf(w, w.steps)]
<1>. DEFINE c == FirstOf(w, w.steps)
<1>1. \A r \in w.steps : w.position[r] \in Nat /\ r \in StepId
  BY DEF Workflow
<1>2. c \in w.steps /\ \A r \in w.steps : w.position[c] <= w.position[r]
  BY FirstOfSpec
<1>. HIDE DEF c
<1>. QED BY <1>1, <1>2, NullsAssumption DEF c

-----------------------------------------------------------------------------
(* Handlers and the record. *)

\* The state predicates that the proof rests on.
Sound == TypeInv /\ ExecutionInv /\ RecordInv /\ edits = 0

\* Nothing is said of a handler that does not execute the run.
LEMMA FitsElsewhere ==
  ASSUME NEW p, p \notin Executing \cup {"reload"}, NEW f
  PROVE  Fits(p, f) /\ Fits(p, f)'
BY DEF Fits, AtStep, Executing

\* Nor is anything lost while the rows stay as they are.
LEMMA FitsStill ==
  ASSUME NEW p, NEW f, Fits(p, f), UNCHANGED <<workflow, stepRun, calls>>
  PROVE  Fits(p, f)'
BY DEF Fits, CompletedSteps, Settled, Untouched, Passed, Before, IsGate

(***************************************************************************)
(* A handler that executes an unedited run has loaded the workflow itself. *)
(***************************************************************************)
LEMMA HolderView ==
  ASSUME Sound, NEW h \in Handler, pc[h] \in Executing
  PROVE  /\ workflow \in Workflow /\ workflow.steps \subseteq StepId
         /\ Plan(h) = workflow /\ frame[h].plan = workflow
         /\ Cursor(h) = frame[h].cursor
         /\ Cursor(h) \in workflow.steps \cup {End}
         /\ pc[h] \in AtStep => Cursor(h) \in workflow.steps
         /\ Fits(pc[h], frame[h])
         /\ frame[h] \in Frame
         /\ Cursor(h) # End <=> Cursor(h) \in workflow.steps
<1>1. Fits(pc[h], frame[h]) /\ frame[h] \in Frame
  BY DEF Sound, RecordInv, TypeInv, TypeOK
<1>2. frame[h].plan = workflow
  BY <1>1 DEF Fits
<1>3. Usable(h, pc[h], frame[h])
  BY DEF Sound, TypeInv, LocalsUsable
<1>. QED
  BY <1>1, <1>2, <1>3, StepIdsOfPlan, NullsAssumption
  DEF Plan, Cursor, Usable, Sound, TypeInv, TypeOK

(***************************************************************************)
(* A step that leaves the rows and the run alone, and takes its handler    *)
(* out of executeRun or not yet into it.                                   *)
(***************************************************************************)
LEMMA QuietRecord ==
  ASSUME Sound, NEW h \in Handler, NEW p, NEW f, Goto(h, p, f),
         p \notin Executing \cup {"reload"},
         UNCHANGED <<workflow, run, stepRun, calls, edits>>
  PROVE  RecordInv'
<1>1. /\ pc' = [pc EXCEPT ![h] = p] /\ frame' = [frame EXCEPT ![h] = f]
      /\ pc \in [Handler -> PC] /\ frame \in [Handler -> Frame]
  BY DEF Goto, Sound, TypeInv, TypeOK
<1>2. ASSUME NEW k \in Handler PROVE Fits(pc[k], frame[k])'
  <2>1. CASE k = h
    BY <1>1, <2>1, FitsElsewhere
  <2>2. CASE k # h
    <3>1. pc'[k] = pc[k] /\ frame'[k] = frame[k]
      BY <1>1, <2>2
    <3>2. Fits(pc[k], frame[k])
      BY DEF Sound, RecordInv
    <3>. QED BY <3>1, <3>2, FitsStill
  <2>. QED BY <2>1, <2>2
<1>. QED
  BY <1>2
  DEF Sound, RecordInv, RowHonest, PauseMatchesRecord, OutcomeMatchesRecord, GateRespected,
      Settled, Untouched, IsGate, Before, ApprovedGates, CompletedSteps

(***************************************************************************)
(* The handler h that executes the run moves, and may write rows: what has *)
(* to be shown is that h stands where the new rows say, that the rows are  *)
(* honest, and that no gate loses its approval or its skip.                *)
(***************************************************************************)
LEMMA HolderRecord ==
  ASSUME Sound, NEW h \in Handler, pc[h] \in InRun,
         NEW p, NEW f, Goto(h, p, f), Fits(p, f)',
         UNCHANGED <<workflow, run>>,
         \A s \in workflow.steps : RowHonest(s)',
         \A s \in workflow.steps :
           calls'[s] > 0 => calls[s] > 0 \/ \A g \in workflow.steps : Before(g, s) => Settled(g),
         \A g \in workflow.steps :
           stepRun[g].status = "skipped" \/ stepRun[g].approved_by # None
             => stepRun'[g] = stepRun[g]
  PROVE  RecordInv'
<1>1. /\ pc' = [pc EXCEPT ![h] = p] /\ frame' = [frame EXCEPT ![h] = f]
      /\ pc \in [Handler -> PC] /\ frame \in [Handler -> Frame]
  BY DEF Goto, Sound, TypeInv, TypeOK
<1>2. Holding(h) /\ run.status = "running"
  BY DEF Holding, InRun, Executing, Sound, ExecutionInv
<1>3. ASSUME NEW k \in Handler PROVE Fits(pc[k], frame[k])'
  <2>1. CASE k = h
    BY <1>1, <2>1
  <2>2. CASE k # h
    <3>1. pc'[k] = pc[k] /\ frame'[k] = frame[k]
      BY <1>1, <2>2
    <3>2. pc[k] \notin Executing \cup {"reload"}
      BY <1>2, <2>2 DEF Sound, ExecutionInv, SingleExecutor, Holding
    <3>. QED BY <3>1, <3>2, FitsElsewhere
  <2>. QED BY <2>1, <2>2
<1>4. workflow.steps \subseteq StepId
  BY StepIdsOfPlan DEF Sound, TypeInv, TypeOK
<1>5. GateRespected'
  <2>. SUFFICES ASSUME NEW g \in workflow.steps, NEW s \in workflow.steps,
                       IsGate(g), Before(g, s), calls'[s] > 0
                PROVE  \/ stepRun'[g].status = "skipped"
                       \/ stepRun'[g].status = "completed" /\ stepRun'[g].approved_by # None
    BY <1>4 DEF GateRespected, ApprovedGates, CompletedSteps, IsGate, Before
  <2>1. \/ stepRun[g].status = "skipped"
        \/ stepRun[g].status = "completed" /\ stepRun[g].approved_by # None
    <3>1. CASE calls[s] > 0
      BY <3>1 DEF Sound, RecordInv, GateRespected, ApprovedGates, CompletedSteps
    <3>2. CASE Settled(g)
      BY <3>2 DEF Sound, RecordInv, RowHonest, Settled
    <3>. QED BY <3>1, <3>2
  <2>. QED BY <2>1
<1>6. run'.status = "running" /\ OutcomeMatchesRecord'
  BY <1>2 DEF OutcomeMatchesRecord
<1>7. /\ \A s \in workflow'.steps : RowHonest(s)'
      /\ \A k \in Handler : Fits(pc[k], frame[k])'
  BY <1>3
<1>. QED
  BY <1>5, <1>6, <1>7 DEF RecordInv

(***************************************************************************)
(* An exception in the handler that executes the run, which no longer      *)
(* counts on the step's bookkeeping.                                       *)
(***************************************************************************)
LEMMA ThrowFits ==
  ASSUME Sound, NEW h \in Handler, pc[h] \in InRun, Throw(h),
         NEW p, p = pc[h], NEW f, f = frame[h],
         p \in {"reportOk", "reportErr"} => Fits(p, f)',
         UNCHANGED workflow
  PROVE  \E q, e : Goto(h, q, e) /\ Fits(q, e)'
<1>1. CASE p = "reportOk"
  <2>0. PICK e : e = [f EXCEPT !.willRetry = CanRetry(h)]
    OBVIOUS
  <2>1. CanRetry(h) => f.attempt < MaxAttempts(workflow, f.cursor)
    BY <1>1, HolderView DEF CanRetry, Executing
  <2>2. f \in Frame
    BY DEF Sound, TypeInv, TypeOK
  <2>3. /\ e.plan = f.plan /\ e.seen = f.seen /\ e.ctx = f.ctx /\ e.cursor = f.cursor
        /\ e.attempt = f.attempt /\ e.willRetry = CanRetry(h)
    BY <2>0, <2>2 DEF Frame
  <2>4. Fits("reportOk", f)'
    BY <1>1
  <2>5. Fits("reportErr", e)'
    BY <2>1, <2>3, <2>4 DEF Fits, AtStep, Executing, StatusAt
  <2>6. Goto(h, "reportErr", e)
    BY <1>1, <2>0 DEF Throw
  <2>. QED BY <2>5, <2>6
<1>2. CASE p = "reportErr"
  <2>1. Fits("failStep", f)'
    BY <1>2 DEF Fits, AtStep, Executing, StatusAt
  <2>. QED BY <1>2, <2>1 DEF Throw
<1>3. CASE p \notin {"reportOk", "reportErr"}
  <2>1. PICK q \in {"error", "idle"} : Goto(h, q, NoFrame)
    BY <1>3 DEF Throw, Leave
  <2>2. Fits(q, NoFrame)'
    BY FitsElsewhere DEF Executing
  <2>. QED BY <2>1, <2>2
<1>. QED BY <1>1, <1>2, <1>3

(***************************************************************************)
(* What a handler at work knows of the row it works on, and what it may do *)
(* to it: the row is neither skipped nor an approval.                      *)
(***************************************************************************)
LEMMA RowAtWork ==
  ASSUME Sound, NEW h \in Handler, pc[h] \in AtStep \cup {"step"}, Cursor(h) # End
  PROVE  /\ Cursor(h) \in workflow.steps
         /\ Row(h) \in StepRunRow
         /\ Row(h).status = (IF pc[h] = "step" THEN "absent" ELSE StatusAt(pc[h]))
         /\ Row(h).approved_by = None
         /\ RowHonest(Cursor(h))
<1>1. /\ Cursor(h) \in workflow.steps /\ workflow.steps \subseteq StepId
      /\ Fits(pc[h], frame[h]) /\ Cursor(h) = frame[h].cursor
  BY HolderView DEF AtStep, Executing
<1>2. Row(h) = stepRun[Cursor(h)] /\ Row(h) \in StepRunRow /\ RowHonest(Cursor(h))
  BY <1>1 DEF Row, Sound, TypeInv, TypeOK, RecordInv
<1>3. CASE pc[h] = "step"
  <2>1. ~ Passed(Cursor(h), Cursor(h))
    <3>1. workflow.position[Cursor(h)] \in Nat
      BY <1>1, HolderView, <1>3 DEF Workflow, Executing
    <3>. QED BY <3>1 DEF Passed, Before
  <2>2. stepRun[Cursor(h)] = NoRow
    BY <1>1, <1>3, <2>1 DEF Fits, Untouched
  <2>. QED BY <1>1, <1>2, <1>3, <2>2 DEF NoRow
<1>4. CASE pc[h] \in AtStep
  <2>1. Row(h).status = StatusAt(pc[h]) /\ (IsGate(Cursor(h)) => pc[h] = "pause")
    BY <1>1, <1>2, <1>4 DEF Fits
  <2>2. Row(h).approved_by = None
    BY <1>2, <2>1 DEF RowHonest, StatusAt
  <2>. QED BY <1>1, <1>2, <1>4, <2>1, <2>2 DEF AtStep
<1>. QED BY <1>3, <1>4

(***************************************************************************)
(* The executor writes the row of its step, and the answer arrives or is   *)
(* lost: the row must be honest and fit both the point it goes to and, if  *)
(* an error there counts as an attempt, the point it comes from.           *)
(***************************************************************************)
LEMMA UpsertRecord ==
  ASSUME Sound, NEW h \in Handler, pc[h] \in InRun, pc[h] \in AtStep \cup {"step"},
         Cursor(h) # End,
         NEW row, NEW p, NEW f, Upsert(h, row, p, f),
         UNCHANGED <<workflow, calls, edits>>,
         NEW p0, p0 = pc[h], NEW f0, f0 = frame[h],
         stepRun' = [stepRun EXCEPT ![Cursor(h)] = row] =>
           /\ RowHonest(f0.cursor)'
           /\ Fits(p, f)'
           /\ p0 \in {"reportOk", "reportErr"} => Fits(p0, f0)'
  PROVE  RecordInv'
<1>1. /\ Cursor(h) \in workflow.steps /\ workflow.steps \subseteq StepId
      /\ Cursor(h) = f0.cursor
  BY HolderView DEF AtStep, Executing
<1>2. UpsertStepRun(Cursor(h), row) /\ Answer(h, p, f) /\ UNCHANGED run
  BY <1>1 DEF Upsert, Dangling
<1>3. /\ stepRun' = [stepRun EXCEPT ![Cursor(h)] = row]
      /\ stepRun \in [StepId -> StepRunRow]
  BY <1>2 DEF UpsertStepRun, Sound, TypeInv, TypeOK
<1>4. ASSUME NEW s \in workflow.steps, s # Cursor(h) PROVE stepRun'[s] = stepRun[s]
  BY <1>1, <1>3, <1>4
<1>5. ASSUME NEW s \in workflow.steps PROVE RowHonest(s)'
  <2>1. CASE s = Cursor(h)
    BY <1>1, <1>3, <2>1
  <2>2. CASE s # Cursor(h)
    BY <1>4, <2>2 DEF Sound, RecordInv, RowHonest, IsGate
  <2>. QED BY <2>1, <2>2
<1>6. \A g \in workflow.steps :
        stepRun[g].status = "skipped" \/ stepRun[g].approved_by # None
          => stepRun'[g] = stepRun[g]
  BY <1>4, RowAtWork DEF Row, StatusAt
<1>7. PICK q, e : Goto(h, q, e) /\ Fits(q, e)'
  <2>1. CASE Goto(h, p, f)
    BY <1>3, <2>1
  <2>2. CASE Throw(h)
    BY <1>3, <2>2, ThrowFits
  <2>. QED BY <1>2, <2>1, <2>2 DEF Answer
<1>. QED BY <1>2, <1>5, <1>6, <1>7, HolderRecord

\* What a write of one row changes.
LEMMA WriteEffects ==
  ASSUME Sound, NEW c \in StepId, NEW row, stepRun' = [stepRun EXCEPT ![c] = row]
  PROVE  /\ \A s \in StepId : stepRun'[s] = IF s = c THEN row ELSE stepRun[s]
         /\ row.status = "completed" => CompletedSteps' = CompletedSteps \cup {c}
         /\ row.status # "completed" /\ c \notin CompletedSteps => CompletedSteps' = CompletedSteps
<1>1. \A s \in StepId : stepRun'[s] = IF s = c THEN row ELSE stepRun[s]
  BY DEF Sound, TypeInv, TypeOK
<1>2. row.status = "completed" => CompletedSteps' = CompletedSteps \cup {c}
  BY <1>1 DEF CompletedSteps
<1>3. row.status # "completed" /\ c \notin CompletedSteps => CompletedSteps' = CompletedSteps
  BY <1>1 DEF CompletedSteps
<1>. QED BY <1>1, <1>2, <1>3

\* Every step may be attempted at least once.
LEMMA MaxAttemptsType ==
  ASSUME NEW w \in Workflow, NEW s \in StepId
  PROVE  MaxAttempts(w, s) \in Nat /\ MaxAttempts(w, s) >= 1
<1>1. w.max_attempts[s] \in Int \cup {None}
  BY DEF Workflow
<1>. QED BY <1>1, BoundsAssumption DEF MaxAttempts

(***************************************************************************)
(* The step of the loop: everything before it is settled, nothing from it  *)
(* on has a row.                                                           *)
(***************************************************************************)
LEMMA AtLoop ==
  ASSUME Sound, NEW h \in Handler, pc[h] = "step", NEW c, c = Cursor(h), c # End
  PROVE  /\ \A s \in workflow.steps : IF Before(s, c) THEN Settled(s) ELSE Untouched(s)
         /\ Row(h) = NoRow /\ stepRun[c] = NoRow /\ c \notin CompletedSteps
         /\ frame[h].ctx = CompletedSteps /\ frame[h].seen \subseteq frame[h].ctx
         /\ frame[h].plan = workflow /\ c = frame[h].cursor
         /\ c \in workflow.steps /\ c \in StepId
         /\ calls[c] = 0
         /\ AtGate(h) <=> IsGate(c)
         /\ ~ AtApprovedGate(h)
<1>1. /\ c \in workflow.steps /\ workflow.steps \subseteq StepId /\ workflow \in Workflow
      /\ Fits("step", frame[h]) /\ c = frame[h].cursor /\ Plan(h) = workflow
  BY HolderView DEF Executing
<1>2. /\ \A s \in workflow.steps : IF Passed(s, c) THEN Settled(s) ELSE Untouched(s)
      /\ frame[h].ctx = CompletedSteps /\ frame[h].seen \subseteq frame[h].ctx
      /\ frame[h].plan = workflow
  BY <1>1 DEF Fits, Executing
<1>3. ~ Before(c, c)
  BY <1>1 DEF Before, Workflow
<1>4. stepRun[c] = NoRow
  BY <1>1, <1>2, <1>3 DEF Passed, Untouched
<1>5. c \notin CompletedSteps
  BY <1>4 DEF CompletedSteps, NoRow
<1>6. RowHonest(c)
  BY <1>1 DEF Sound, RecordInv
<1>7. calls[c] = 0
  BY <1>4, <1>6 DEF RowHonest, NoRow
<1>. QED
  BY <1>1, <1>2, <1>4, <1>5, <1>7 DEF Row, AtGate, IsGate, AtApprovedGate, Passed

(***************************************************************************)
(* A step under way: everything before it is settled, nothing behind it    *)
(* has a row, and its own row tells how far it has come.                   *)
(***************************************************************************)
LEMMA AtWork ==
  ASSUME Sound, NEW h \in Handler, pc[h] \in AtStep \ {"failRun"}, NEW c, c = Cursor(h)
  PROVE  /\ \A s \in workflow.steps \ {c} : IF Before(s, c) THEN Settled(s) ELSE Untouched(s)
         /\ Row(h) = stepRun[c] /\ Row(h) \in StepRunRow /\ Row(h).status = StatusAt(pc[h])
         /\ Row(h).approved_by = None /\ RowHonest(c)
         /\ IsGate(c) <=> pc[h] = "pause"
         /\ frame[h].ctx = CompletedSteps /\ frame[h].seen \subseteq frame[h].ctx
         /\ frame[h].plan = workflow /\ c = frame[h].cursor
         /\ c \in workflow.steps /\ c \in StepId /\ workflow \in Workflow
         /\ c # End /\ Plan(h) = workflow
         /\ calls \in [StepId -> Nat] /\ frame[h].attempt \in Nat
<1>1. /\ c \in workflow.steps /\ workflow.steps \subseteq StepId /\ workflow \in Workflow
      /\ Fits(pc[h], frame[h]) /\ c = frame[h].cursor /\ Plan(h) = workflow
      /\ frame[h] \in Frame /\ c # End
  BY HolderView DEF AtStep, Executing
<1>2. /\ \A s \in workflow.steps \ {c} : IF Before(s, c) THEN Settled(s) ELSE Untouched(s)
      /\ IsGate(c) <=> pc[h] = "pause"
      /\ frame[h].ctx = CompletedSteps /\ frame[h].seen \subseteq frame[h].ctx
      /\ frame[h].plan = workflow
  BY <1>1 DEF Fits, AtStep
<1>3. /\ Row(h) \in StepRunRow /\ Row(h).status = StatusAt(pc[h])
      /\ Row(h).approved_by = None /\ RowHonest(c)
  BY <1>1, RowAtWork DEF AtStep
<1>4. calls \in [StepId -> Nat] /\ frame[h].attempt \in Nat
  BY <1>1 DEF Sound, TypeInv, TypeOK, Frame
<1>. QED BY <1>1, <1>2, <1>3, <1>4 DEF Row

(***************************************************************************)
(* A gate is reached: its row says paused.                                 *)
(***************************************************************************)
LEMMA ReachGateRecord ==
  ASSUME Sound, NEW h \in Handler, ReachGate(h)
  PROVE  RecordInv'
<1>1. PICK c, f, row : c = Cursor(h) /\ f = frame[h] /\ row = WithStatus(Row(h), "paused")
  OBVIOUS
<1>2. /\ pc[h] = "step" /\ pc[h] \in InRun /\ c # End /\ AtGate(h)
      /\ Upsert(h, row, "pause", f)
      /\ UNCHANGED <<workflow, calls, edits>>
  BY <1>1 DEF ReachGate, AtGate, InRun, Executing
<1>3. /\ \A s \in workflow.steps : IF Before(s, c) THEN Settled(s) ELSE Untouched(s)
      /\ c \in workflow.steps /\ workflow.steps \subseteq StepId /\ c \notin CompletedSteps
      /\ stepRun[c] = NoRow /\ calls[c] = 0 /\ RowHonest(c) /\ IsGate(c)
  BY <1>1, <1>2, AtLoop, HolderView DEF Sound, RecordInv, Executing
<1>4. /\ f.plan = workflow /\ f.cursor = c
      /\ f.ctx = CompletedSteps /\ f.seen \subseteq f.ctx
  BY <1>1, <1>2, AtLoop
<1>5. row.status = "paused" /\ row.attempt_count = 0 /\ row.approved_by = None
  BY <1>1, <1>2, AtLoop DEF WithStatus, NoRow
<1>6. ASSUME stepRun' = [stepRun EXCEPT ![c] = row]
      PROVE  RowHonest(c)' /\ Fits("pause", f)'
  <2>1. \A s \in StepId : stepRun'[s] = IF s = c THEN row ELSE stepRun[s]
    BY <1>3, <1>6, WriteEffects
  <2>2. CompletedSteps' = CompletedSteps
    BY <1>3, <1>5, <1>6, WriteEffects
  <2>3. RowHonest(c)'
    BY <1>2, <1>3, <1>5, <2>1 DEF RowHonest, IsGate
  <2>4. \A s \in workflow.steps \ {c} : IF Before(s, c) THEN Settled(s)' ELSE Untouched(s)'
    BY <1>3, <2>1 DEF Settled, Untouched
  <2>5. Fits("pause", f)'
    BY <1>2, <1>3, <1>4, <1>5, <2>1, <2>2, <2>4
    DEF Fits, AtStep, Executing, StatusAt, Before, IsGate
  <2>. QED BY <2>3, <2>5
<1>. QED BY <1>1, <1>2, <1>6, AtLoop, UpsertRecord

(***************************************************************************)
(* A step that is no gate begins: its row says running, with no attempt    *)
(* counted yet.                                                            *)
(***************************************************************************)
LEMMA BeginStepRecord ==
  ASSUME Sound, NEW h \in Handler, BeginStep(h)
  PROVE  RecordInv'
<1>1. PICK c, e, f, row : /\ c = Cursor(h) /\ row = Begun(Row(h))
                          /\ e = frame[h] /\ f = [e EXCEPT !.attempt = 1]
  OBVIOUS
<1>2. /\ pc[h] = "step" /\ pc[h] \in InRun /\ c # End /\ ~ AtGate(h)
      /\ Upsert(h, row, "body", f)
      /\ UNCHANGED <<workflow, calls, edits>>
  BY <1>1 DEF BeginStep, InRun, Executing
<1>3. /\ \A s \in workflow.steps : IF Before(s, c) THEN Settled(s) ELSE Untouched(s)
      /\ c \in workflow.steps /\ workflow.steps \subseteq StepId /\ workflow \in Workflow
      /\ c \notin CompletedSteps
      /\ stepRun[c] = NoRow /\ calls[c] = 0 /\ RowHonest(c) /\ ~ IsGate(c)
  BY <1>1, <1>2, AtLoop, HolderView DEF Sound, RecordInv, Executing
<1>4. /\ f.plan = workflow /\ f.cursor = c /\ f.attempt = 1
      /\ f.ctx = CompletedSteps /\ f.seen \subseteq f.ctx
  <2>1. e \in Frame
    BY <1>1 DEF Sound, TypeInv, TypeOK
  <2>2. /\ f.plan = e.plan /\ f.cursor = e.cursor /\ f.attempt = 1 /\ f.ctx = e.ctx
        /\ f.seen = e.seen
    BY <1>1, <2>1 DEF Frame
  <2>. QED BY <1>1, <1>2, <2>2, AtLoop
<1>5. row.status = "running" /\ row.attempt_count = 0 /\ row.approved_by = None
  BY <1>1, <1>2, AtLoop DEF Begun, NoRow
<1>6. ASSUME stepRun' = [stepRun EXCEPT ![c] = row]
      PROVE  RowHonest(c)' /\ Fits("body", f)'
  <2>1. \A s \in StepId : stepRun'[s] = IF s = c THEN row ELSE stepRun[s]
    BY <1>3, <1>6, WriteEffects
  <2>2. CompletedSteps' = CompletedSteps
    BY <1>3, <1>5, <1>6, WriteEffects
  <2>3. RowHonest(c)'
    BY <1>2, <1>3, <1>5, <2>1 DEF RowHonest, IsGate
  <2>4. \A s \in workflow.steps \ {c} : IF Before(s, c) THEN Settled(s)' ELSE Untouched(s)'
    BY <1>3, <2>1 DEF Settled, Untouched
  <2>5. MaxAttempts(workflow, c) \in Nat /\ MaxAttempts(workflow, c) >= 1
    BY <1>3, MaxAttemptsType
  <2>6. Fits("body", f)'
    BY <1>2, <1>3, <1>4, <1>5, <2>1, <2>2, <2>4, <2>5
    DEF Fits, AtStep, Executing, StatusAt, Before, IsGate
  <2>. QED BY <2>3, <2>6
<1>. QED BY <1>1, <1>2, <1>6, AtLoop, UpsertRecord

(***************************************************************************)
(* The row of a step under way is written, and its handler goes on with    *)
(* the same step.                                                          *)
(***************************************************************************)
LEMMA WorkRecord ==
  ASSUME Sound, NEW h \in Handler, NEW c, c = Cursor(h), NEW e, e = frame[h],
         NEW row, NEW p \in AtStep \ {"pause"}, NEW f, Upsert(h, row, p, f),
         \/ pc[h] \in {"reportOk", "reportErr", "finishStep", "failStep"}
         \/ pc[h] = "failBranch" /\ p = "failRun",
         UNCHANGED <<workflow, calls, edits>>,
         f.plan = e.plan, f.cursor = e.cursor, f.seen = e.seen,
         f.ctx = IF row.status = "completed" THEN e.ctx \cup {c} ELSE e.ctx,
         row.status = StatusAt(p), row.approved_by = None,
         row.attempt_count <= calls[c],
         row.status = "completed" => row.attempt_count = calls[c],
         pc[h] \in {"reportOk", "reportErr"} => row.status = "running",
         p = "body" => f.attempt \in 1..MaxAttempts(workflow, c) /\ calls[c] = f.attempt - 1,
         p \notin {"reportOk", "reportErr"},
         p = "finishStep" => calls[c] = f.attempt /\ row.attempt_count = f.attempt
  PROVE  RecordInv'
<1>1. pc[h] \in AtStep \ {"failRun"} /\ pc[h] \in InRun /\ pc[h] # "pause"
  BY DEF AtStep, InRun, Executing
<1>2. /\ \A s \in workflow.steps \ {c} : IF Before(s, c) THEN Settled(s) ELSE Untouched(s)
      /\ c \in workflow.steps /\ c \in StepId /\ workflow.steps \subseteq StepId
      /\ RowHonest(c) /\ ~ IsGate(c) /\ c # End
      /\ stepRun[c].status = StatusAt(pc[h])
  BY <1>1, AtWork, HolderView DEF AtStep
<1>3. /\ e.plan = workflow /\ e.cursor = c
      /\ e.ctx = CompletedSteps /\ e.seen \subseteq e.ctx
  BY <1>1, AtWork
<1>4. PICK p0 : p0 = pc[h]
  OBVIOUS
<1>5. p \in {"body", "finishStep", "failStep", "skipRest", "failBranch", "skipBetween", "failRun"}
  BY DEF AtStep, Executing
<1>6. row.status # "paused" /\ row.status # "skipped" /\ row.status # "absent"
  BY <1>5 DEF StatusAt
<1>7. ASSUME stepRun' = [stepRun EXCEPT ![c] = row]
      PROVE  /\ RowHonest(c)' /\ Fits(p, f)'
             /\ p0 \in {"reportOk", "reportErr"} => Fits(p0, e)'
  <2>1. \A s \in StepId : stepRun'[s] = IF s = c THEN row ELSE stepRun[s]
    <3>1. stepRun \in [StepId -> StepRunRow]
      BY DEF Sound, TypeInv, TypeOK
    <3>. QED BY <1>7, <3>1
  <2>2. RowHonest(c)'
    BY <1>2, <1>6, <2>1 DEF RowHonest, IsGate
  <2>3. \A s \in workflow.steps \ {c} : IF Before(s, c) THEN Settled(s)' ELSE Untouched(s)'
    BY <1>2, <2>1 DEF Settled, Untouched
  <2>4. pc[h] # "failBranch" => c \notin CompletedSteps
    BY <1>2 DEF CompletedSteps, StatusAt
  <2>5. ASSUME p # "failRun" PROVE CompletedSteps' = f.ctx /\ f.seen \subseteq f.ctx
    <3>1. CASE row.status = "completed"
      BY <1>2, <1>3, <1>7, <3>1, WriteEffects
    <3>2. CASE row.status # "completed"
      <4>1. CompletedSteps' = CompletedSteps
        BY <1>2, <1>7, <2>4, <2>5, <3>2, WriteEffects
      <4>. QED BY <1>3, <3>2, <4>1
    <3>. QED BY <3>1, <3>2
  <2>6. Fits(p, f)'
    BY <1>2, <1>3, <1>5, <2>1, <2>3, <2>5
    DEF Fits, AtStep, Executing, Before, IsGate
  <2>7. ASSUME p0 \in {"reportOk", "reportErr"} PROVE Fits(p0, e)'
    <3>1. /\ calls[c] = e.attempt
          /\ p0 = "reportErr" /\ e.willRetry => e.attempt < MaxAttempts(workflow, c)
      BY <1>1, <1>3, <1>4, <2>7, HolderView DEF Fits, AtStep
    <3>2. CompletedSteps' = CompletedSteps
      BY <1>2, <1>4, <1>7, <2>4, <2>7, WriteEffects
    <3>3. row.status = StatusAt(p0) /\ StatusAt(p0) = "running"
      BY <1>4, <2>7 DEF StatusAt
    <3>. QED
      BY <1>2, <1>3, <2>1, <2>3, <2>7, <3>1, <3>2, <3>3
      DEF Fits, AtStep, Executing, Before, IsGate
  <2>. QED BY <2>2, <2>6, <2>7
<1>. QED BY <1>1, <1>2, <1>3, <1>4, <1>7, UpsertRecord

(***************************************************************************)
(* The numbers of a step whose attempt was just made.                      *)
(***************************************************************************)
LEMMA AttemptMade ==
  ASSUME Sound, NEW h \in Handler, pc[h] \in {"reportOk", "reportErr", "finishStep"}
  PROVE  /\ calls[Cursor(h)] = frame[h].attempt /\ frame[h].attempt \in Nat
         /\ pc[h] = "reportErr" /\ frame[h].willRetry
              => frame[h].attempt < MaxAttempts(workflow, Cursor(h))
         /\ pc[h] = "finishStep" => Row(h).attempt_count = frame[h].attempt
<1>1. pc[h] \in AtStep \ {"failRun"} /\ pc[h] \in Executing
  BY DEF AtStep, Executing
<1>2. Fits(pc[h], frame[h]) /\ Cursor(h) = frame[h].cursor
  BY <1>1, HolderView
<1>. QED BY <1>1, <1>2, AtWork DEF Fits, Row

\* A successful attempt is recorded.
LEMMA ReportOkRecord ==
  ASSUME Sound, NEW h \in Handler, ReportOk(h)
  PROVE  RecordInv'
<1>1. PICK c, e, row : /\ c = Cursor(h) /\ e = frame[h]
                       /\ row = WithAttempt(Row(h), frame[h].attempt)
  OBVIOUS
<1>2. /\ pc[h] = "reportOk" /\ Upsert(h, row, "finishStep", e)
      /\ UNCHANGED <<workflow, calls, edits>>
  BY <1>1 DEF ReportOk
<1>3. /\ Row(h) \in StepRunRow /\ Row(h).status = "running" /\ Row(h).approved_by = None
  BY <1>2, AtWork DEF AtStep, Executing, StatusAt
<1>4. /\ row.status = "running" /\ row.approved_by = None /\ row.attempt_count = e.attempt
  BY <1>1, <1>3 DEF WithAttempt, StepRunRow
<1>5. calls[c] = e.attempt /\ row.attempt_count <= calls[c]
  BY <1>1, <1>2, <1>4, AttemptMade
<1>6. "finishStep" \in AtStep \ {"pause"} /\ StatusAt("finishStep") = "running"
  BY DEF AtStep, Executing, StatusAt
<1>. QED BY <1>1, <1>2, <1>4, <1>5, <1>6, WorkRecord

\* A failed attempt is recorded, and the next one made or the step given up.
LEMMA ReportErrRecord ==
  ASSUME Sound, NEW h \in Handler, ReportErr(h)
  PROVE  RecordInv'
<1>1. PICK c, e, row, p, f :
        /\ c = Cursor(h) /\ e = frame[h]
        /\ row = WithAttempt(Row(h), frame[h].attempt)
        /\ p = IF e.willRetry THEN "body" ELSE "failStep"
        /\ f = [e EXCEPT !.attempt = IF e.willRetry THEN @ + 1 ELSE @]
  OBVIOUS
<1>2. /\ pc[h] = "reportErr" /\ Upsert(h, row, p, f)
      /\ UNCHANGED <<workflow, calls, edits>>
  BY <1>1 DEF ReportErr
<1>3. /\ Row(h) \in StepRunRow /\ Row(h).status = "running" /\ Row(h).approved_by = None
      /\ c \in StepId /\ workflow \in Workflow
  BY <1>1, <1>2, AtWork DEF AtStep, Executing, StatusAt
<1>4. /\ row.status = "running" /\ row.approved_by = None /\ row.attempt_count = e.attempt
  BY <1>1, <1>3 DEF WithAttempt, StepRunRow
<1>5. /\ calls[c] = e.attempt /\ e.attempt \in Nat /\ row.attempt_count <= calls[c]
      /\ e.willRetry => e.attempt < MaxAttempts(workflow, c)
  BY <1>1, <1>2, <1>4, AttemptMade
<1>6. e \in Frame
  BY <1>1 DEF Sound, TypeInv, TypeOK
<1>7. /\ f.plan = e.plan /\ f.cursor = e.cursor /\ f.seen = e.seen /\ f.ctx = e.ctx
      /\ f.attempt = IF e.willRetry THEN e.attempt + 1 ELSE e.attempt
  BY <1>1, <1>6 DEF Frame
<1>8. p \in AtStep \ {"pause"} /\ StatusAt(p) = "running" /\ p \notin {"reportOk", "reportErr", "finishStep"}
  BY <1>1 DEF AtStep, Executing, StatusAt
<1>9. p = "body" => f.attempt \in 1..MaxAttempts(workflow, c) /\ calls[c] = f.attempt - 1
  BY <1>1, <1>3, <1>5, <1>7, MaxAttemptsType
<1>10. /\ c = Cursor(h) /\ e = frame[h] /\ p # "finishStep"
       /\ f.ctx = IF row.status = "completed" THEN e.ctx \cup {c} ELSE e.ctx
       /\ row.status = StatusAt(p)
  BY <1>1, <1>4, <1>7, <1>8
<1>. QED BY <1>2, <1>4, <1>5, <1>7, <1>8, <1>9, <1>10, WorkRecord

\* A step has failed.
LEMMA FailStepRecord ==
  ASSUME Sound, NEW h \in Handler, FailStep(h)
  PROVE  RecordInv'
<1>1. PICK c, e, row, p : /\ c = Cursor(h) /\ e = frame[h]
                          /\ row = WithStatus(Row(h), "failed")
                          /\ p = IF After(Plan(h), Cursor(h)) = {} THEN "failRun" ELSE "skipRest"
  OBVIOUS
<1>2. /\ pc[h] = "failStep" /\ Upsert(h, row, p, e)
      /\ UNCHANGED <<workflow, calls, edits>>
  BY <1>1 DEF FailStep
<1>3. /\ Row(h) \in StepRunRow /\ Row(h).approved_by = None /\ Row(h) = stepRun[c] /\ RowHonest(c)
  BY <1>1, <1>2, AtWork DEF AtStep, Executing
<1>4. /\ row.status = "failed" /\ row.approved_by = None
      /\ row.attempt_count = Row(h).attempt_count
  BY <1>1, <1>3 DEF WithStatus, StepRunRow
<1>5. row.attempt_count <= calls[c]
  BY <1>3, <1>4 DEF RowHonest
<1>6. p \in {"failRun", "skipRest"}
  BY <1>1
<1>7. p \in AtStep \ {"pause"} /\ StatusAt(p) = "failed"
  BY <1>6 DEF AtStep, Executing, StatusAt
<1>. QED BY <1>1, <1>2, <1>4, <1>5, <1>6, <1>7, WorkRecord

\* A branch was refused after its body had succeeded.
LEMMA FailBranchRecord ==
  ASSUME Sound, NEW h \in Handler, FailBranch(h)
  PROVE  RecordInv'
<1>1. PICK c, e, row : /\ c = Cursor(h) /\ e = frame[h]
                       /\ row = WithStatus(Row(h), "failed")
  OBVIOUS
<1>2. /\ pc[h] = "failBranch" /\ Upsert(h, row, "failRun", e)
      /\ UNCHANGED <<workflow, calls, edits>>
  BY <1>1 DEF FailBranch
<1>3. /\ Row(h) \in StepRunRow /\ Row(h).approved_by = None /\ Row(h) = stepRun[c] /\ RowHonest(c)
  BY <1>1, <1>2, AtWork DEF AtStep, Executing
<1>4. /\ row.status = "failed" /\ row.approved_by = None
      /\ row.attempt_count = Row(h).attempt_count
  BY <1>1, <1>3 DEF WithStatus, StepRunRow
<1>5. row.attempt_count <= calls[c]
  BY <1>3, <1>4 DEF RowHonest
<1>6. "failRun" \in AtStep \ {"pause"} /\ StatusAt("failRun") = "failed"
  BY DEF AtStep, Executing, StatusAt
<1>. QED BY <1>1, <1>2, <1>4, <1>5, <1>6, WorkRecord

(***************************************************************************)
(* What a jump from s to dest passes: s, what is before s, and what the    *)
(* jump skips.                                                             *)
(***************************************************************************)
LEMMA BetweenSeparates ==
  ASSUME NEW w \in Workflow, NEW s \in w.steps, NEW dest, ~ Refusable(w, s, dest),
         NEW t \in w.steps
  PROVE  /\ dest = End \/ w.position[t] < w.position[dest]
              <=> t = s \/ w.position[t] < w.position[s] \/ t \in Between(w, s, dest)
         /\ t \in Between(w, s, dest) => t # s /\ ~ w.position[t] < w.position[s]
<1>1. \A r \in w.steps : w.position[r] \in Nat
  BY DEF Workflow
<1>2. w.position[t] = w.position[s] => t = s
  BY DEF Workflow
<1>3. t \in Between(w, s, dest)
        <=> /\ w.position[t] > w.position[s]
            /\ dest # End => w.position[t] < w.position[dest]
  BY DEF Between, After
<1>4. dest # End => dest \in w.steps /\ w.position[dest] > w.position[s]
  BY DEF Refusable, After
<1>. QED BY <1>1, <1>2, <1>3, <1>4

\* A step has succeeded: the run goes on behind it, or the branch is refused.
LEMMA FinishStepRecord ==
  ASSUME Sound, NEW h \in Handler, FinishStep(h)
  PROVE  RecordInv'
<1>1. PICK c, e, row, dest, here, ahead :
        /\ c = Cursor(h) /\ e = frame[h] /\ dest = frame[h].dest
        /\ row = WithStatus(Row(h), "completed")
        /\ here = [e EXCEPT !.ctx = @ \cup {c}, !.attempt = 0, !.willRetry = FALSE]
        /\ ahead = [here EXCEPT !.cursor = dest]
  OBVIOUS
<1>2. /\ pc[h] = "finishStep" /\ UNCHANGED <<workflow, calls, edits>>
      /\ \/ Upsert(h, row, "failBranch", here)
         \/ Upsert(h, row, "skipBetween", here)
         \/ /\ ~ Refusable(Plan(h), c, dest)
            /\ Between(Plan(h), c, dest) = {}
            /\ Upsert(h, row, "step", ahead)
  BY <1>1 DEF FinishStep
<1>3. e \in Frame
  BY <1>1 DEF Sound, TypeInv, TypeOK
<1>4. /\ here.plan = e.plan /\ here.cursor = e.cursor /\ here.seen = e.seen
      /\ here.ctx = e.ctx \cup {c}
      /\ ahead.plan = e.plan /\ ahead.cursor = dest /\ ahead.seen = e.seen
      /\ ahead.ctx = e.ctx \cup {c}
  BY <1>1, <1>3 DEF Frame
<1>5. /\ Row(h) \in StepRunRow /\ Row(h).approved_by = None /\ Row(h) = stepRun[c]
      /\ Plan(h) = workflow /\ workflow \in Workflow /\ c \in workflow.steps /\ c \in StepId
      /\ c # End
  BY <1>1, <1>2, AtWork DEF AtStep, Executing
<1>6. /\ row.status = "completed" /\ row.approved_by = None
      /\ row.attempt_count = calls[c] /\ row.attempt_count <= calls[c]
  <2>1. row.status = "completed" /\ row.approved_by = None
        /\ row.attempt_count = Row(h).attempt_count
    BY <1>1, <1>5 DEF WithStatus, StepRunRow
  <2>2. Row(h).attempt_count = calls[c] /\ calls[c] \in Nat
    BY <1>1, <1>2, AttemptMade
  <2>. QED BY <2>1, <2>2
<1>7. ASSUME NEW p \in {"failBranch", "skipBetween"}, Upsert(h, row, p, here)
      PROVE  RecordInv'
  <2>1. p \in AtStep \ {"pause"} /\ StatusAt(p) = "completed"
    BY DEF AtStep, Executing, StatusAt
  <2>2. c = Cursor(h) /\ e = frame[h]
    BY <1>1
  <2>. QED BY <1>2, <1>4, <1>6, <1>7, <2>1, <2>2, WorkRecord
<1>8. CASE /\ ~ Refusable(Plan(h), c, dest)
           /\ Between(Plan(h), c, dest) = {}
           /\ Upsert(h, row, "step", ahead)
  <2>1. /\ \A s \in workflow.steps \ {c} : IF Before(s, c) THEN Settled(s) ELSE Untouched(s)
        /\ e.plan = workflow /\ e.ctx = CompletedSteps /\ e.seen \subseteq e.ctx
        /\ e.cursor = c /\ RowHonest(c) /\ ~ IsGate(c) /\ workflow.steps \subseteq StepId
    BY <1>1, <1>2, AtWork, HolderView DEF AtStep, Executing
  <2>2. \A s \in workflow.steps : Passed(s, dest) <=> s = c \/ Before(s, c)
    BY <1>5, <1>8, BetweenSeparates DEF Passed, Before
  <2>3. ASSUME stepRun' = [stepRun EXCEPT ![c] = row]
        PROVE  RowHonest(c)' /\ Fits("step", ahead)'
    <3>1. \A s \in StepId : stepRun'[s] = IF s = c THEN row ELSE stepRun[s]
      BY <1>5, <2>3, WriteEffects
    <3>2. CompletedSteps' = CompletedSteps \cup {c}
      BY <1>5, <1>6, <2>3, WriteEffects
    <3>3. RowHonest(c)'
      BY <1>2, <1>5, <1>6, <2>1, <3>1 DEF RowHonest, IsGate
    <3>4. \A s \in workflow.steps : IF Passed(s, dest) THEN Settled(s)' ELSE Untouched(s)'
      BY <1>5, <1>6, <2>1, <2>2, <3>1 DEF Settled, Untouched
    <3>5. Fits("step", ahead)'
      BY <1>2, <1>4, <2>1, <3>2, <3>4 DEF Fits, AtStep, Executing, Passed, Before
    <3>. QED BY <3>3, <3>5
  <2>4. pc[h] \in InRun /\ pc[h] \in AtStep
    BY <1>2 DEF InRun, AtStep, Executing
  <2>. QED BY <1>1, <1>2, <1>5, <1>8, <2>1, <2>3, <2>4, UpsertRecord
<1>. QED BY <1>2, <1>7, <1>8

(***************************************************************************)
(* Steps without a row are recorded as skipped; no other row changes.      *)
(***************************************************************************)
LEMMA SkipRecord ==
  ASSUME Sound, NEW h \in Handler, pc[h] \in {"skipRest", "skipBetween"},
         NEW S \in SUBSET (workflow.steps \ {Cursor(h)}),
         \A s \in S : ~ Before(s, Cursor(h)),
         NEW p, NEW f, Skip(h, S, p, f),
         (\A s \in StepId : stepRun'[s] = IF s \in S THEN WithStatus(NoRow, "skipped")
                                                     ELSE stepRun[s])
           => Fits(p, f)'
  PROVE  RecordInv'
<1>1. PICK c, e : c = Cursor(h) /\ e = frame[h]
  OBVIOUS
<1>2. pc[h] \in AtStep \ {"failRun"} /\ pc[h] \in InRun /\ pc[h] # "pause"
  BY DEF AtStep, InRun, Executing
<1>3. \A s \in S : stepRun[s] = NoRow /\ s \in workflow.steps /\ RowHonest(s) /\ s \in StepId
  BY <1>2, AtWork, HolderView DEF Untouched, Sound, RecordInv, AtStep
<1>4. /\ MarkStepsSkipped(S) /\ Answer(h, p, f)
      /\ UNCHANGED <<workflow, run, calls>>
  BY DEF Skip, Dangling
<1>5. \A s \in StepId : stepRun'[s] = IF s \in S THEN WithStatus(NoRow, "skipped")
                                                 ELSE stepRun[s]
  BY <1>3, <1>4 DEF MarkStepsSkipped, NoRow
<1>6. WithStatus(NoRow, "skipped") = [status |-> "skipped", attempt_count |-> 0, approved_by |-> None]
  BY DEF WithStatus, NoRow
<1>7. workflow.steps \subseteq StepId
  BY StepIdsOfPlan DEF Sound, TypeInv, TypeOK
<1>8. ASSUME NEW s \in workflow.steps PROVE RowHonest(s)'
  <2>1. CASE s \in S
    <3>1. /\ stepRun'[s].status = "skipped" /\ stepRun'[s].attempt_count = 0
          /\ stepRun'[s].approved_by = None
      BY <1>5, <1>6, <1>7, <2>1
    <3>2. calls[s] = 0 /\ calls[s] <= MaxAttempts(workflow, s)
      BY <1>3, <2>1 DEF RowHonest, NoRow
    <3>. QED BY <1>4, <3>1, <3>2 DEF RowHonest, IsGate
  <2>2. CASE s \notin S
    <3>1. stepRun'[s] = stepRun[s]
      BY <1>5, <1>7, <2>2
    <3>. QED BY <1>4, <3>1 DEF Sound, RecordInv, RowHonest, IsGate
  <2>. QED BY <2>1, <2>2
<1>9. \A g \in workflow.steps :
        stepRun[g].status = "skipped" \/ stepRun[g].approved_by # None
          => stepRun'[g] = stepRun[g]
  BY <1>3, <1>5, <1>7 DEF NoRow
<1>10. PICK q, g : Goto(h, q, g) /\ Fits(q, g)'
  <2>1. CASE Goto(h, p, f)
    BY <1>5, <2>1
  <2>2. CASE Throw(h)
    BY <1>2, <1>4, <2>2, ThrowFits
  <2>. QED BY <1>4, <2>1, <2>2 DEF Answer
<1>. QED BY <1>2, <1>4, <1>8, <1>9, <1>10, HolderRecord

\* A failed step has the rest of the workflow recorded as skipped.
LEMMA SkipRestRecord ==
  ASSUME Sound, NEW h \in Handler, SkipRest(h)
  PROVE  RecordInv'
<1>1. PICK c, e, S : c = Cursor(h) /\ e = frame[h] /\ S = After(Plan(h), Cursor(h))
  OBVIOUS
<1>2. pc[h] = "skipRest" /\ Skip(h, S, "failRun", e) /\ UNCHANGED <<workflow, calls>>
  BY <1>1 DEF SkipRest, Skip
<1>3. /\ \A s \in workflow.steps \ {c} : IF Before(s, c) THEN Settled(s) ELSE Untouched(s)
      /\ e.plan = workflow /\ e.cursor = c /\ Plan(h) = workflow /\ workflow \in Workflow
      /\ c \in workflow.steps /\ ~ IsGate(c) /\ workflow.steps \subseteq StepId
      /\ stepRun[c].status = "failed"
  BY <1>1, <1>2, AtWork, HolderView DEF AtStep, Executing, StatusAt
<1>4. \A s \in workflow.steps : s \in S <=> s # c /\ ~ Before(s, c)
  <2>1. \A s \in workflow.steps : /\ workflow.position[s] \in Nat /\ workflow.position[c] \in Nat
                                  /\ workflow.position[s] = workflow.position[c] => s = c
    BY <1>3 DEF Workflow
  <2>2. S = {t \in workflow.steps : workflow.position[t] > workflow.position[c]}
    BY <1>1, <1>3 DEF After
  <2>. QED BY <2>1, <2>2 DEF Before
<1>5. S \in SUBSET (workflow.steps \ {Cursor(h)}) /\ \A s \in S : ~ Before(s, Cursor(h))
  <2>1. S \subseteq workflow.steps
    BY <1>1, <1>3 DEF After
  <2>. QED BY <1>1, <1>4, <2>1
<1>6. ASSUME \A s \in StepId : stepRun'[s] = IF s \in S THEN WithStatus(NoRow, "skipped")
                                                        ELSE stepRun[s]
      PROVE  Fits("failRun", e)'
  <2>1. WithStatus(NoRow, "skipped").status = "skipped"
    BY DEF WithStatus, NoRow
  <2>2. \A s \in workflow.steps \ {c} : IF Before(s, c) THEN Settled(s)'
                                        ELSE stepRun'[s].status = "skipped"
    BY <1>3, <1>4, <1>6, <2>1 DEF Settled
  <2>3. stepRun'[c].status = "failed"
    BY <1>3, <1>4, <1>6
  <2>. QED
    BY <1>2, <1>3, <2>2, <2>3 DEF Fits, AtStep, Executing, StatusAt, Before, IsGate
<1>. QED BY <1>2, <1>5, <1>6, SkipRecord

\* The steps that a branch jumps over are recorded as skipped.
LEMMA SkipBetweenRecord ==
  ASSUME Sound, NEW h \in Handler, SkipBetween(h)
  PROVE  RecordInv'
<1>1. PICK c, e, f, dest, S :
        /\ c = Cursor(h) /\ e = frame[h] /\ dest = frame[h].dest
        /\ f = [e EXCEPT !.cursor = dest]
        /\ S = Between(Plan(h), Cursor(h), frame[h].dest)
  OBVIOUS
<1>2. pc[h] = "skipBetween" /\ Skip(h, S, "step", f) /\ UNCHANGED <<workflow, calls>>
  BY <1>1 DEF SkipBetween, Skip
<1>3. /\ \A s \in workflow.steps \ {c} : IF Before(s, c) THEN Settled(s) ELSE Untouched(s)
      /\ e.plan = workflow /\ e.cursor = c /\ Plan(h) = workflow /\ workflow \in Workflow
      /\ e.ctx = CompletedSteps /\ e.seen \subseteq e.ctx
      /\ c \in workflow.steps /\ workflow.steps \subseteq StepId
      /\ stepRun[c].status = "completed"
  BY <1>1, <1>2, AtWork, HolderView DEF AtStep, Executing, StatusAt
<1>4. ~ Refusable(workflow, c, dest)
  BY <1>1, <1>2, <1>3 DEF Sound, TypeInv, LocalsUsable, Usable, Executing, AtStep
<1>5. /\ \A s \in workflow.steps : Passed(s, dest) <=> s = c \/ Before(s, c) \/ s \in S
      /\ \A s \in workflow.steps : s \in S => s # c /\ ~ Before(s, c)
  BY <1>1, <1>3, <1>4, BetweenSeparates DEF Passed, Before
<1>6. S \in SUBSET (workflow.steps \ {Cursor(h)}) /\ \A s \in S : ~ Before(s, Cursor(h))
  <2>1. S \subseteq workflow.steps
    BY <1>1, <1>3 DEF Between, After
  <2>. QED BY <1>1, <1>5, <2>1
<1>7. /\ f.plan = workflow /\ f.cursor = dest /\ f.ctx = CompletedSteps /\ f.seen \subseteq f.ctx
  <2>1. e \in Frame
    BY <1>1 DEF Sound, TypeInv, TypeOK
  <2>2. f.plan = e.plan /\ f.cursor = dest /\ f.ctx = e.ctx /\ f.seen = e.seen
    BY <1>1, <2>1 DEF Frame
  <2>. QED BY <1>3, <2>2
<1>8. ASSUME \A s \in StepId : stepRun'[s] = IF s \in S THEN WithStatus(NoRow, "skipped")
                                                        ELSE stepRun[s]
      PROVE  Fits("step", f)'
  <2>1. WithStatus(NoRow, "skipped").status = "skipped"
    BY DEF WithStatus, NoRow
  <2>2. \A s \in workflow.steps : IF Passed(s, dest) THEN Settled(s)' ELSE Untouched(s)'
    BY <1>3, <1>5, <1>8, <2>1 DEF Settled, Untouched
  <2>3. \A s \in S : stepRun[s].status = "absent"
    BY <1>3, <1>5, <1>6 DEF Untouched, NoRow
  <2>4. CompletedSteps' = CompletedSteps
    BY <1>6, <1>8, <2>1, <2>3 DEF CompletedSteps
  <2>. QED BY <1>2, <1>7, <2>2, <2>4 DEF Fits, AtStep, Executing, Passed, Before
<1>. QED BY <1>2, <1>6, <1>8, SkipRecord

(***************************************************************************)
(* One attempt of a body: the call is counted, and the attempt that made   *)
(* it is one the policy allows.                                            *)
(***************************************************************************)
LEMMA RunBodyRecord ==
  ASSUME Sound, NEW h \in Handler, RunBody(h)
  PROVE  RecordInv'
<1>1. PICK c, e : c = Cursor(h) /\ e = frame[h]
  OBVIOUS
<1>2. /\ pc[h] = "body" /\ calls' = [calls EXCEPT ![c] = @ + 1]
      /\ UNCHANGED <<workflow, run, stepRun>>
  BY <1>1 DEF RunBody
<1>3. /\ \A s \in workflow.steps \ {c} : IF Before(s, c) THEN Settled(s) ELSE Untouched(s)
      /\ e.plan = workflow /\ e.cursor = c /\ Plan(h) = workflow /\ workflow \in Workflow
      /\ e.ctx = CompletedSteps /\ e.seen \subseteq e.ctx
      /\ c \in workflow.steps /\ workflow.steps \subseteq StepId /\ c \in StepId
      /\ ~ IsGate(c) /\ RowHonest(c) /\ calls \in [StepId -> Nat] /\ e.attempt \in Nat
      /\ stepRun[c].status = "running"
  BY <1>1, <1>2, AtWork, HolderView DEF AtStep, Executing, StatusAt
<1>4. /\ e.attempt <= MaxAttempts(workflow, c) /\ calls[c] = e.attempt - 1
      /\ MaxAttempts(workflow, c) \in Nat
  <2>1. Fits("body", e)
    BY <1>1, <1>2, HolderView DEF Executing
  <2>. QED BY <1>3, <2>1, MaxAttemptsType DEF Fits
<1>5. /\ \A s \in StepId \ {c} : calls'[s] = calls[s]
      /\ calls'[c] = e.attempt /\ calls'[c] = calls[c] + 1
  BY <1>2, <1>3, <1>4
<1>6. stepRun[c] \in StepRunRow
  BY <1>3 DEF Sound, TypeInv, TypeOK
<1>7. ASSUME NEW s \in workflow.steps PROVE RowHonest(s)'
  <2>1. CASE s = c
    BY <1>2, <1>3, <1>4, <1>5, <1>6, <2>1 DEF RowHonest, IsGate, StepRunRow
  <2>2. CASE s # c
    <3>1. calls'[s] = calls[s]
      BY <1>3, <1>5, <2>2
    <3>. QED BY <1>2, <3>1 DEF Sound, RecordInv, RowHonest, IsGate
  <2>. QED BY <2>1, <2>2
<1>8. e \in Frame
  BY <1>1 DEF Sound, TypeInv, TypeOK
<1>9. ASSUME NEW p \in {"reportOk", "reportErr"}, NEW f,
             f.plan = e.plan, f.cursor = c, f.ctx = e.ctx, f.seen = e.seen,
             f.attempt = e.attempt,
             p = "reportErr" /\ f.willRetry => e.attempt < MaxAttempts(workflow, c)
      PROVE  Fits(p, f)'
  <2>1. CompletedSteps' = CompletedSteps
    BY <1>2 DEF CompletedSteps
  <2>2. \A s \in workflow.steps \ {c} : IF Before(s, c) THEN Settled(s)' ELSE Untouched(s)'
    BY <1>2, <1>3 DEF Settled, Untouched
  <2>. QED
    BY <1>2, <1>3, <1>5, <1>9, <2>1, <2>2
    DEF Fits, AtStep, Executing, StatusAt, Before, IsGate
<1>10. PICK p, f : Goto(h, p, f) /\ Fits(p, f)'
  <2>1. ASSUME NEW dest, Goto(h, "reportOk", [e EXCEPT !.dest = dest])
        PROVE  \E p, f : Goto(h, p, f) /\ Fits(p, f)'
    <3>. DEFINE f == [e EXCEPT !.dest = dest]
    <3>1. /\ f.plan = e.plan /\ f.cursor = c /\ f.ctx = e.ctx /\ f.seen = e.seen
          /\ f.attempt = e.attempt
      BY <1>3, <1>8 DEF Frame
    <3>. HIDE DEF f
    <3>2. Fits("reportOk", f)'
      BY <1>9, <3>1
    <3>. QED BY <2>1, <3>2 DEF f
  <2>2. ASSUME NEW again \in BOOLEAN, again => e.attempt < MaxAttempts(workflow, c),
               Goto(h, "reportErr", [e EXCEPT !.willRetry = again])
        PROVE  \E p, f : Goto(h, p, f) /\ Fits(p, f)'
    <3>. DEFINE f == [e EXCEPT !.willRetry = again]
    <3>1. /\ f.plan = e.plan /\ f.cursor = c /\ f.ctx = e.ctx /\ f.seen = e.seen
          /\ f.attempt = e.attempt /\ f.willRetry = again
      BY <1>3, <1>8 DEF Frame
    <3>. HIDE DEF f
    <3>2. Fits("reportErr", f)'
      BY <1>9, <2>2, <3>1
    <3>. QED BY <2>2, <3>2 DEF f
  <2>3. \A r \in BOOLEAN : /\ (r /\ CanRetry(h)) \in BOOLEAN
                           /\ (r /\ CanRetry(h)) => e.attempt < MaxAttempts(workflow, c)
    BY <1>1, <1>3 DEF CanRetry
  <2>4. \/ \E dest \in Destinations(Plan(h), Cursor(h)) :
             Goto(h, "reportOk", [e EXCEPT !.dest = dest])
        \/ \E r \in BOOLEAN : Goto(h, "reportErr", [e EXCEPT !.willRetry = r /\ CanRetry(h)])
    BY <1>1 DEF RunBody
  <2>. QED BY <2>1, <2>2, <2>3, <2>4
<1>11. \A s \in workflow.steps :
         calls'[s] > 0 => calls[s] > 0 \/ \A g \in workflow.steps : Before(g, s) => Settled(g)
  <2>1. ~ Before(c, c)
    BY <1>3 DEF Before, Workflow
  <2>. QED BY <1>3, <1>5, <2>1
<1>12. pc[h] \in InRun
  BY <1>2 DEF InRun, Executing
<1>. QED BY <1>2, <1>7, <1>10, <1>11, <1>12, HolderRecord

(***************************************************************************)
(* A step that writes at most the row of the run: what has to be shown is  *)
(* that the rows bear out the run's new status.                            *)
(***************************************************************************)
LEMMA RunRecord ==
  ASSUME Sound, NEW h \in Handler, NEW p, NEW f, Goto(h, p, f), Fits(p, f),
         UNCHANGED <<workflow, stepRun, calls, edits>>,
         run'.status # "pending",
         run'.status = "paused" => PauseMatchesRecord',
         OutcomeMatchesRecord'
  PROVE  RecordInv'
<1>1. /\ pc' = [pc EXCEPT ![h] = p] /\ frame' = [frame EXCEPT ![h] = f]
      /\ pc \in [Handler -> PC] /\ frame \in [Handler -> Frame]
  BY DEF Goto, Sound, TypeInv, TypeOK
<1>2. ASSUME NEW k \in Handler PROVE Fits(pc[k], frame[k])'
  <2>1. CASE k = h
    BY <1>1, <2>1, FitsStill
  <2>2. CASE k # h
    <3>1. pc'[k] = pc[k] /\ frame'[k] = frame[k]
      BY <1>1, <2>2
    <3>2. Fits(pc[k], frame[k])
      BY DEF Sound, RecordInv
    <3>. QED BY <3>1, <3>2, FitsStill
  <2>. QED BY <2>1, <2>2
<1>3. GateRespected'
  BY DEF Sound, RecordInv, GateRespected, IsGate, Before, ApprovedGates, CompletedSteps
<1>4. ASSUME NEW s \in workflow'.steps PROVE RowHonest(s)'
  BY DEF Sound, RecordInv, RowHonest, IsGate
<1>. QED BY <1>2, <1>3, <1>4 DEF RecordInv

\* A handler that leaves executeRun, answered or not.
LEMMA LeavesOrThrows ==
  ASSUME NEW h \in Handler, Leave(h, "done") \/ Throw(h), pc[h] \notin {"reportOk", "reportErr"}
  PROVE  \E p, f : Goto(h, p, f) /\ Fits(p, f) /\ p \notin Executing \cup {"reload"}
<1>1. PICK p \in {"done", "error", "idle"} : Goto(h, p, NoFrame)
  BY DEF Leave, Throw
<1>2. p \notin Executing \cup {"reload"}
  BY DEF Executing
<1>. QED BY <1>1, <1>2, FitsElsewhere

(***************************************************************************)
(* A run pauses at a gate: resume_position is behind the gate and what is  *)
(* settled, and not behind anything else.                                  *)
(***************************************************************************)
LEMMA PauseRunRecord ==
  ASSUME Sound, NEW h \in Handler, PauseRun(h)
  PROVE  RecordInv'
<1>1. PICK c, n : c = Cursor(h) /\ n = NextPosition(Plan(h), Cursor(h))
  OBVIOUS
<1>2. /\ pc[h] = "pause" /\ run' = [status |-> "paused", resume_position |-> n]
      /\ UNCHANGED <<workflow, stepRun, calls, edits>>
  BY <1>1 DEF PauseRun, MarkRun
<1>3. /\ \A s \in workflow.steps \ {c} : IF Before(s, c) THEN Settled(s) ELSE Untouched(s)
      /\ Plan(h) = workflow /\ workflow \in Workflow /\ c \in workflow.steps
      /\ IsGate(c) /\ stepRun[c].status = "paused"
  BY <1>1, <1>2, AtWork DEF AtStep, Executing, StatusAt
<1>4. ASSUME NEW s \in workflow.steps
      PROVE  workflow.position[s] < n <=> s = c \/ Before(s, c)
  <2>1. workflow.position[s] < n <=> workflow.position[s] <= workflow.position[c]
    BY <1>1, <1>3, NextPositionSeparates
  <2>2. /\ workflow.position[s] \in Nat /\ workflow.position[c] \in Nat
        /\ workflow.position[s] = workflow.position[c] => s = c
    BY <1>3 DEF Workflow
  <2>. QED BY <2>1, <2>2 DEF Before
<1>5. n # None
  <2>1. n \in Nat
    BY <1>1, <1>3, NextStepType DEF NextPosition, After, Workflow
  <2>. QED BY <2>1, NullsAssumption
<1>6. PauseMatchesRecord'
  <2>1. /\ IsGate(c)' /\ stepRun'[c].status = "paused" /\ workflow'.position[c] < n
        /\ c \in workflow'.steps
    BY <1>2, <1>3, <1>4 DEF IsGate
  <2>2. \A s \in workflow'.steps \ {c} : IF workflow'.position[s] < n
                                         THEN Settled(s)' ELSE Untouched(s)'
    BY <1>2, <1>3, <1>4 DEF Settled, Untouched
  <2>3. run'.resume_position = n
    BY <1>2
  <2>. QED BY <1>5, <2>1, <2>2, <2>3 DEF PauseMatchesRecord
<1>7. run'.status = "paused" /\ OutcomeMatchesRecord'
  BY <1>2 DEF OutcomeMatchesRecord
<1>8. PICK p, f : Goto(h, p, f) /\ Fits(p, f)
  BY <1>2, LeavesOrThrows DEF PauseRun
<1>. QED BY <1>2, <1>6, <1>7, <1>8, RunRecord

(***************************************************************************)
(* A run ends: completed behind its last step, or failed at one step.      *)
(***************************************************************************)
LEMMA EndRunRecord ==
  ASSUME Sound, NEW h \in Handler, FailRun(h) \/ CompleteRun(h)
  PROVE  RecordInv'
<1>1. PICK st \in {"failed", "completed"} :
        /\ run' = [status |-> st, resume_position |-> None]
        /\ st = "failed" => pc[h] = "failRun"
        /\ st = "completed" => pc[h] = "step" /\ Cursor(h) = End
  BY DEF FailRun, CompleteRun, EndRun, MarkRun
<1>2. /\ UNCHANGED <<workflow, stepRun, calls, edits>>
      /\ pc[h] \notin {"reportOk", "reportErr"}
      /\ Leave(h, "done") \/ Throw(h)
  BY DEF FailRun, CompleteRun, EndRun
<1>3. run'.status = st
  BY <1>1
<1>4. OutcomeMatchesRecord'
  <2>1. CASE st = "failed"
    <3>1. PICK c : c = Cursor(h)
      OBVIOUS
    <3>2. Fits("failRun", frame[h]) /\ c = frame[h].cursor /\ c \in workflow.steps
      BY <1>1, <2>1, <3>1, HolderView DEF AtStep, Executing
    <3>3. /\ stepRun[c].status = "failed"
          /\ \A s \in workflow.steps \ {c} :
               stepRun[s].status \in {"completed", "skipped", "absent"}
      BY <3>2 DEF Fits, StatusAt, AtStep, Executing, Settled, Untouched, NoRow
    <3>4. /\ \A s \in workflow.steps : stepRun[s].status \notin {"running", "paused"}
          /\ \A t \in workflow.steps : stepRun[t].status = "failed" <=> t = c
      BY <3>3
    <3>. QED BY <1>2, <1>3, <2>1, <3>2, <3>4 DEF OutcomeMatchesRecord
  <2>2. CASE st = "completed"
    <3>1. Fits("step", frame[h]) /\ frame[h].cursor = End
      BY <1>1, <2>2, HolderView DEF Executing
    <3>2. \A s \in workflow.steps : stepRun[s].status \in {"completed", "skipped"}
      BY <3>1 DEF Fits, Passed, Settled
    <3>. QED BY <1>2, <1>3, <2>2, <3>2 DEF OutcomeMatchesRecord
  <2>. QED BY <2>1, <2>2
<1>5. PICK p, f : Goto(h, p, f) /\ Fits(p, f)
  BY <1>2, LeavesOrThrows
<1>. QED BY <1>2, <1>3, <1>4, <1>5, RunRecord

(***************************************************************************)
(* The claim of a pending run finds no step touched.                       *)
(***************************************************************************)
LEMMA ClaimRunRecord ==
  ASSUME Sound, NEW h \in Handler, ClaimRun(h)
  PROVE  RecordInv'
<1>1. pc[h] = "claim" /\ UNCHANGED <<workflow, stepRun, calls, edits>>
  BY DEF ClaimRun
<1>2. CASE Leave(h, "done") /\ UNCHANGED run
  <2>1. PICK p \in {"done", "idle"} : Goto(h, p, NoFrame)
    BY <1>2 DEF Leave
  <2>. QED BY <1>1, <1>2, <2>1, QuietRecord DEF Executing
<1>3. CASE ClaimAffectsRow /\ MarkRun("running", run.resume_position) /\ Answer(h, "reload", NoFrame)
  <2>1. /\ run.status = "pending" /\ run'.status = "running"
        /\ \A s \in workflow.steps : Untouched(s)
    BY <1>3 DEF ClaimAffectsRow, MarkRun, Sound, RecordInv
  <2>2. OutcomeMatchesRecord'
    BY <2>1 DEF OutcomeMatchesRecord
  <2>3. Fits("reload", NoFrame)
    BY <2>1 DEF Fits, AtStep, Executing
  <2>4. PICK p, f : Goto(h, p, f) /\ Fits(p, f)
    BY <1>1, <1>3, <2>3, LeavesOrThrows DEF Answer
  <2>. QED BY <1>1, <2>1, <2>2, <2>4, RunRecord
<1>. QED BY <1>2, <1>3 DEF ClaimRun

\* A claimed run begins at its first step.
LEMMA ReloadRecord ==
  ASSUME Sound, NEW h \in Handler, Reload(h)
  PROVE  RecordInv'
<1>1. PICK c, f : c = FirstOf(workflow, workflow.steps) /\ f = Loaded(c)
  OBVIOUS
<1>2. /\ pc[h] = "reload" /\ Goto(h, "step", f)
      /\ UNCHANGED <<workflow, run, stepRun, calls, edits>>
  BY <1>1 DEF Reload
<1>3. workflow \in Workflow /\ \A s \in workflow.steps : Untouched(s)
  BY <1>2, StepIdsOfPlan DEF Sound, RecordInv, Fits, TypeInv, TypeOK
<1>4. \A s \in workflow.steps : ~ Passed(s, c)
  BY <1>1, <1>3, FirstSeparates DEF Passed, Before
<1>5. /\ f.plan = workflow /\ f.cursor = c /\ f.ctx = CompletedSteps /\ f.seen \subseteq f.ctx
  BY <1>1 DEF Loaded, NoFrame, ApprovedGates
<1>6. Fits("step", f)
  BY <1>3, <1>4, <1>5 DEF Fits, AtStep, Executing
<1>7. run.status = "running"
  BY <1>2 DEF Sound, ExecutionInv, Holding
<1>8. run'.status = "running" /\ OutcomeMatchesRecord'
  BY <1>2, <1>7 DEF OutcomeMatchesRecord
<1>. QED BY <1>2, <1>6, <1>8, RunRecord

(***************************************************************************)
(* An approved run resumes at the first step that has no row.              *)
(***************************************************************************)
LEMMA LoadRecord ==
  ASSUME Sound, NEW h \in Handler, Load(h)
  PROVE  RecordInv'
<1>1. pc[h] = "load" /\ UNCHANGED <<workflow, run, stepRun, calls, edits>>
  BY DEF Load
<1>2. CASE Leave(h, "done")
  <2>1. PICK p \in {"done", "idle"} : Goto(h, p, NoFrame)
    BY <1>2 DEF Leave
  <2>. QED BY <1>1, <2>1, QuietRecord DEF Executing
<1>3. CASE Goto(h, "claim", NoFrame)
  BY <1>1, <1>3, QuietRecord DEF Executing
<1>4. CASE h \in Approval /\ Goto(h, "resume", Loaded(ResumeCursor))
  <2>1. PICK c, f, n : c = ResumeCursor /\ f = Loaded(c) /\ n = run.resume_position
    OBVIOUS
  <2>2. Holding(h) /\ run.status = "paused" /\ workflow \in Workflow
        /\ workflow.steps \subseteq StepId
    BY <1>1, <1>4, StepIdsOfPlan DEF Holding, Sound, ExecutionInv, TypeInv, TypeOK
  <2>3. PICK g \in workflow.steps :
          /\ IsGate(g)
          /\ stepRun[g].status = "paused" \/ g \in ApprovedGates
          /\ workflow.position[g] < n
          /\ \A s \in workflow.steps \ {g} :
               IF workflow.position[s] < n THEN Settled(s) ELSE Untouched(s)
    BY <2>1, <2>2 DEF Sound, RecordInv, PauseMatchesRecord
  <2>4. Settled(g)
    <3>1. ~ ApprovalAffectsRow(g) /\ RowHonest(g)
      BY <1>1, <2>2, <2>3, NothingWaits DEF Sound, RecordInv, Waiting
    <3>2. stepRun[g].status # "paused"
      BY <3>1 DEF ApprovalAffectsRow, RowHonest
    <3>. QED BY <2>3, <3>2 DEF Settled, ApprovedGates, CompletedSteps
  <2>5. n \in Nat /\ c = FirstFrom(workflow, n)
    <3>1. n # None
      BY <2>1, <2>2 DEF Sound, RecordInv, PauseMatchesRecord
    <3>. QED BY <2>1, <3>1 DEF ResumeCursor, Sound, TypeInv, TypeOK
  <2>6. \A s \in workflow.steps : IF Passed(s, c) THEN Settled(s) ELSE Untouched(s)
    <3>1. \A s \in workflow.steps : Passed(s, c) <=> workflow.position[s] < n
      BY <2>2, <2>5, FirstFromSeparates DEF Passed, Before
    <3>. QED BY <2>3, <2>4, <3>1
  <2>7. /\ f.plan = workflow /\ f.cursor = c /\ f.ctx = CompletedSteps /\ f.seen \subseteq f.ctx
    BY <2>1 DEF Loaded, NoFrame, ApprovedGates
  <2>8. Fits("resume", f)
    BY <2>6, <2>7 DEF Fits, AtStep, Executing
  <2>9. run'.status = "paused" /\ PauseMatchesRecord' /\ OutcomeMatchesRecord'
    BY <1>1, <2>2
    DEF Sound, RecordInv, PauseMatchesRecord, OutcomeMatchesRecord, IsGate, Settled,
        Untouched, ApprovedGates, CompletedSteps
  <2>. QED BY <1>1, <1>4, <2>1, <2>8, <2>9, RunRecord
<1>. QED BY <1>2, <1>3, <1>4 DEF Load

\* The resumed run is marked running before its next step begins.
LEMMA ResumeRecord ==
  ASSUME Sound, NEW h \in Handler, Resume(h)
  PROVE  RecordInv'
<1>1. PICK e : e = frame[h]
  OBVIOUS
<1>2. /\ pc[h] = "resume" /\ UNCHANGED <<workflow, stepRun, calls, edits>>
      /\ Answer(h, "step", e) /\ run'.status = "running"
  BY <1>1 DEF Resume, MarkRun
<1>3. Fits("step", e)
  <2>1. Fits("resume", e)
    BY <1>1, <1>2 DEF Sound, RecordInv
  <2>. QED BY <2>1 DEF Fits, AtStep, Executing
<1>4. OutcomeMatchesRecord'
  BY <1>2 DEF OutcomeMatchesRecord
<1>5. PICK p, f : Goto(h, p, f) /\ Fits(p, f)
  BY <1>2, <1>3, LeavesOrThrows DEF Answer
<1>. QED BY <1>2, <1>4, <1>5, RunRecord

(***************************************************************************)
(* What the claim of an approval finds when it affects a row: the run is   *)
(* paused at that gate, and nobody executes it.                            *)
(***************************************************************************)
LEMMA ClaimFinds ==
  ASSUME Sound, NEW h \in Handler, ClaimApproval(h), NEW c, c = Cursor(h),
         ApprovalAffectsRow(c)
  PROVE  /\ c \in workflow.steps /\ c \in StepId /\ h \in Approval
         /\ run.status = "paused"
         /\ \A k \in Handler : pc[k] \notin Executing \cup {"reload"}
         /\ RowHonest(c) /\ IsGate(c) /\ stepRun[c].status = "paused"
         /\ stepRun[c] \in StepRunRow
<1>1. pc[h] = "claimApproval"
  BY DEF ClaimApproval
<1>2. c \in StepId /\ h \in Approval
  BY <1>1 DEF Sound, ExecutionInv, TypeInv, LocalsUsable, Usable
<1>3. stepRun[c].status = "paused" /\ stepRun[c].approved_by = None
  BY DEF ApprovalAffectsRow
<1>4. c \in workflow.steps
  BY <1>2, <1>3 DEF Sound, ExecutionInv, NoRow
<1>5. run.status = "paused"
  BY <1>1, <1>3, <1>4 DEF Sound, ExecutionInv
<1>6. \A k \in Handler : ~ Holding(k)
  <2>. SUFFICES ASSUME NEW k \in Handler, Holding(k) PROVE FALSE
    OBVIOUS
  <2>1. pc[k] = "pause"
    BY <1>2 DEF Sound, ExecutionInv
  <2>. QED BY <1>5, <2>1 DEF Sound, ExecutionInv
<1>7. \A k \in Handler : pc[k] \notin Executing \cup {"reload"}
  BY <1>6 DEF Holding
<1>8. RowHonest(c)
  BY <1>4 DEF Sound, RecordInv
<1>9. IsGate(c)
  BY <1>3, <1>8 DEF RowHonest
<1>10. stepRun[c] \in StepRunRow
  BY <1>2 DEF Sound, TypeInv, TypeOK
<1>. QED BY <1>2, <1>3, <1>4, <1>5, <1>7, <1>8, <1>9, <1>10

\* An approval turns the gate at which the run is paused from waiting to approved.
LEMMA ClaimApprovalRecord ==
  ASSUME Sound, NEW h \in Handler, ClaimApproval(h)
  PROVE  RecordInv'
<1>1. PICK c, row : c = Cursor(h) /\ row = ApprovedBy(Row(h), h)
  OBVIOUS
<1>2. pc[h] = "claimApproval" /\ UNCHANGED <<workflow, run, calls, edits>>
  BY DEF ClaimApproval
<1>3. CASE Leave(h, "error") /\ UNCHANGED stepRun
  <2>1. PICK p \in {"error", "idle"} : Goto(h, p, NoFrame)
    BY <1>3 DEF Leave
  <2>. QED BY <1>2, <1>3, <2>1, QuietRecord DEF Executing
<1>4. CASE ApprovalAffectsRow(c) /\ UpsertStepRun(c, row) /\ Answer(h, "load", NoFrame)
  <2>1. /\ c \in workflow.steps /\ c \in StepId /\ h \in Approval
        /\ run.status = "paused"
        /\ \A k \in Handler : pc[k] \notin Executing \cup {"reload"}
        /\ RowHonest(c) /\ IsGate(c) /\ stepRun[c].status = "paused"
        /\ stepRun[c] \in StepRunRow
    BY <1>1, <1>4, ClaimFinds
  <2>2. workflow.steps \subseteq StepId
    BY StepIdsOfPlan DEF Sound, TypeInv, TypeOK
  <2>3. /\ row.status = "completed" /\ row.approved_by = h
        /\ row.attempt_count = stepRun[c].attempt_count
        /\ h # None
    BY <1>1, <2>1, NullsAssumption DEF ApprovedBy, Row, StepRunRow
  <2>4. \A s \in StepId : stepRun'[s] = IF s = c THEN row ELSE stepRun[s]
    BY <1>4, <2>1 DEF UpsertStepRun, Sound, TypeInv, TypeOK
  <2>5. calls[c] = 0 /\ row.attempt_count = 0
    BY <2>1, <2>3 DEF RowHonest, StepRunRow
  <2>6. ASSUME NEW s \in workflow.steps PROVE RowHonest(s)'
    <3>1. CASE s = c
      BY <1>2, <2>1, <2>3, <2>4, <2>5, <3>1 DEF RowHonest, IsGate
    <3>2. CASE s # c
      <4>1. stepRun'[s] = stepRun[s]
        BY <2>2, <2>4, <3>2
      <4>. QED BY <1>2, <4>1 DEF Sound, RecordInv, RowHonest, IsGate
    <3>. QED BY <3>1, <3>2
  <2>7. PICK p, f : Goto(h, p, f) /\ p \notin Executing \cup {"reload"}
    <3>1. "load" \notin Executing \cup {"reload"}
      BY DEF Executing
    <3>. QED BY <1>2, <1>4, <3>1, LeavesOrThrows DEF Answer
  <2>8. ASSUME NEW k \in Handler PROVE Fits(pc[k], frame[k])'
    <3>1. pc'[k] \notin Executing \cup {"reload"}
      BY <2>1, <2>7 DEF Goto, Sound, TypeInv, TypeOK
    <3>. QED BY <3>1, FitsElsewhere
  <2>9. PICK n : n = run.resume_position
    OBVIOUS
  <2>10. PICK g \in workflow.steps :
          /\ workflow.position[g] < n
          /\ \A s \in workflow.steps \ {g} :
               IF workflow.position[s] < n THEN Settled(s) ELSE Untouched(s)
    BY <2>1, <2>9 DEF Sound, RecordInv, PauseMatchesRecord
  <2>11. g = c
    BY <2>1, <2>10 DEF Settled, Untouched, NoRow
  <2>12. PauseMatchesRecord'
    <3>1. c \in ApprovedGates'
      BY <2>1, <2>3, <2>4 DEF ApprovedGates, CompletedSteps
    <3>2. \A s \in workflow.steps \ {c} :
            IF workflow.position[s] < n THEN Settled(s)' ELSE Untouched(s)'
      BY <2>2, <2>4, <2>10, <2>11 DEF Settled, Untouched
    <3>3. IsGate(c)' /\ workflow.position[c] < n /\ n # None
      BY <1>2, <2>1, <2>9, <2>10, <2>11 DEF IsGate, Sound, RecordInv, PauseMatchesRecord
    <3>. QED BY <1>2, <2>1, <2>9, <3>1, <3>2, <3>3 DEF PauseMatchesRecord
  <2>13. GateRespected'
    <3>1. \A g2 \in workflow.steps : g2 # c => stepRun'[g2] = stepRun[g2]
      BY <2>2, <2>4
    <3>2. stepRun'[c].status = "completed" /\ stepRun'[c].approved_by # None
      BY <2>1, <2>3, <2>4
    <3>. QED
      BY <1>2, <2>2, <3>1, <3>2
      DEF Sound, RecordInv, GateRespected, ApprovedGates, CompletedSteps, IsGate, Before
  <2>14. run'.status = "paused" /\ OutcomeMatchesRecord'
    BY <1>2, <2>1 DEF OutcomeMatchesRecord
  <2>. QED BY <1>2, <2>6, <2>8, <2>12, <2>13, <2>14 DEF RecordInv
<1>. QED BY <1>1, <1>3, <1>4 DEF ClaimApproval

\* A request of the executor that is refused changes no row.
LEMMA RefusedRecord ==
  ASSUME Sound, NEW h \in Handler, Refused(h)
  PROVE  RecordInv'
<1>1. Throw(h) /\ UNCHANGED <<workflow, run, stepRun, calls, edits>>
  BY DEF Refused
<1>2. CASE pc[h] \notin {"reportOk", "reportErr"}
  <2>1. PICK p, f : Goto(h, p, f) /\ p \notin Executing \cup {"reload"}
    BY <1>1, <1>2, LeavesOrThrows
  <2>. QED BY <1>1, <2>1, QuietRecord
<1>3. CASE pc[h] \in {"reportOk", "reportErr"}
  <2>1. pc[h] \in InRun
    BY <1>3 DEF InRun, Executing
  <2>2. PICK p0, e : p0 = pc[h] /\ e = frame[h] /\ Fits(p0, e)
    BY DEF Sound, RecordInv
  <2>3. Fits(p0, e)'
    BY <1>1, <2>2, FitsStill
  <2>4. PICK p, f : Goto(h, p, f) /\ Fits(p, f)'
    BY <1>1, <2>1, <2>2, <2>3, ThrowFits
  <2>5. ASSUME NEW s \in workflow.steps PROVE RowHonest(s)'
    BY <1>1 DEF Sound, RecordInv, RowHonest, IsGate
  <2>. QED BY <1>1, <2>1, <2>4, <2>5, HolderRecord
<1>. QED BY <1>2, <1>3

-----------------------------------------------------------------------------
(* RecordInv is inductive. *)

\* A run is inserted pending, without a row.
LEMMA RecordInit == Init => RecordInv
<1>. SUFFICES ASSUME Init PROVE RecordInv
  OBVIOUS
<1>1. workflow \in Workflow /\ workflow.steps \subseteq StepId
  BY StepIdsOfPlan DEF Init
<1>2. ASSUME NEW s \in workflow.steps
      PROVE  stepRun[s] = NoRow /\ calls[s] = 0 /\ Untouched(s) /\ RowHonest(s)
  <2>1. stepRun[s] = NoRow /\ calls[s] = 0
    BY <1>1 DEF Init
  <2>2. MaxAttempts(workflow, s) \in Nat
    BY <1>1, MaxAttemptsType
  <2>. QED BY <2>1, <2>2 DEF Untouched, RowHonest, NoRow
<1>3. ASSUME NEW h \in Handler PROVE Fits(pc[h], frame[h])
  <2>1. pc[h] \notin Executing \cup {"reload"}
    BY DEF Init, Executing
  <2>. QED BY <2>1, FitsElsewhere
<1>4. run.status = "pending"
  BY DEF Init
<1>. QED BY <1>2, <1>3, <1>4 DEF RecordInv, OutcomeMatchesRecord, GateRespected

\* As long as nobody has edited the definition, every step keeps the record honest.
LEMMA SoundNext ==
  ASSUME Sound, [Next]_vars, edits' = 0
  PROVE  RecordInv'
<1>1. ASSUME NEW d \in Delivery, Deliver(d) PROVE RecordInv'
  <2>1. "load" \notin Executing \cup {"reload"} /\ d \in Handler
    BY DEF Executing, Handler
  <2>. QED BY <1>1, <2>1, QuietRecord DEF Deliver
<1>2. ASSUME NEW d \in Delivery, Respond(d) PROVE RecordInv'
  <2>1. "gone" \notin Executing \cup {"reload"} /\ d \in Handler
    BY DEF Executing, Handler
  <2>. QED BY <1>2, <2>1, QuietRecord DEF Respond
<1>3. ASSUME NEW h \in Approval, NEW g \in StepId, AuthorizeApproval(h, g) PROVE RecordInv'
  <2>1. "claimApproval" \notin Executing \cup {"reload"} /\ h \in Handler
    BY DEF Executing, Handler
  <2>. QED BY <1>3, <2>1, QuietRecord DEF AuthorizeApproval
<1>4. ASSUME NEW h \in Handler, Crash(h) PROVE RecordInv'
  <2>1. PICK p \in {"dead", "idle"} : Goto(h, p, NoFrame)
    BY <1>4 DEF Crash, Leave
  <2>2. p \notin Executing \cup {"reload"}
    BY DEF Executing
  <2>. QED BY <1>4, <2>1, <2>2, QuietRecord DEF Crash
<1>5. ASSUME UNCHANGED <<workflow, run, stepRun, pc, frame, calls, edits>> PROVE RecordInv'
  <2>1. ASSUME NEW k \in Handler PROVE Fits(pc[k], frame[k])'
    <3>1. pc'[k] = pc[k] /\ frame'[k] = frame[k] /\ Fits(pc[k], frame[k])
      BY <1>5 DEF Sound, RecordInv
    <3>. QED BY <1>5, <3>1, FitsStill
  <2>. QED
    BY <1>5, <2>1
    DEF Sound, RecordInv, RowHonest, PauseMatchesRecord, OutcomeMatchesRecord, GateRespected,
        Settled, Untouched, IsGate, Before, ApprovedGates, CompletedSteps
<1>6. ASSUME NEW h \in Handler PROVE ~ SkipApprovedGate(h)
  <2>. SUFFICES ASSUME SkipApprovedGate(h) PROVE FALSE
    OBVIOUS
  <2>1. pc[h] = "step" /\ AtApprovedGate(h) /\ Cursor(h) # End
    BY DEF SkipApprovedGate, AtApprovedGate, AtGate
  <2>. QED BY <2>1, AtLoop
<1>7. ASSUME NEW h \in Handler, HandlerStep(h) PROVE RecordInv'
  BY <1>6, <1>7, LoadRecord, ClaimRunRecord, ReloadRecord, ResumeRecord, ReachGateRecord,
     PauseRunRecord, BeginStepRecord, RunBodyRecord, ReportOkRecord, ReportErrRecord,
     FailStepRecord, SkipRestRecord, FinishStepRecord, SkipBetweenRecord,
     FailBranchRecord, EndRunRecord, ClaimApprovalRecord
  DEF HandlerStep
<1>8. \A w \in Workflows : ~ EditWorkflow(w)
  BY DEF EditWorkflow, Sound
<1>. QED
  BY <1>1, <1>2, <1>3, <1>4, <1>5, <1>7, <1>8, RefusedRecord
  DEF Next, DeliveryTimeout, vars

\* Edits are counted.
LEMMA EditsCounted ==
  ASSUME TypeInv, [Next]_vars, edits' = 0
  PROVE  edits = 0 /\ \A w \in Workflows : ~ EditWorkflow(w)
<1>1. ASSUME NEW w \in Workflows, EditWorkflow(w) PROVE FALSE
  BY <1>1 DEF EditWorkflow, TypeInv, TypeOK
<1>2. edits' = edits
  BY <1>1
  DEF Next, Deliver, DeliveryTimeout, Respond, AuthorizeApproval, HandlerStep, Refused,
      Crash, vars, Load, ClaimRun, ClaimApproval, Reload, Resume, SkipApprovedGate,
      ReachGate, PauseRun, BeginStep, RunBody, ReportOk, ReportErr, FailStep, SkipRest,
      Skip, FinishStep, SkipBetween, FailBranch, FailRun, CompleteRun, EndRun
<1>. QED BY <1>1, <1>2

\* Nothing is claimed of a run whose definition has been edited.
LEMMA RecordNext == TypeInv /\ ExecutionInv /\ RecordInv /\ [Next]_vars => RecordInv'
BY EditsCounted, SoundNext DEF RecordInv, Sound

(***************************************************************************)
(* The rows of an unedited run mean what they say, whatever is redelivered,*)
(* approved twice, refused, lost or killed underneath.                     *)
(***************************************************************************)
THEOREM RecordCorrect == Spec => []RecordInv
BY TypeCorrect, ExecutionCorrect, RecordInit, RecordNext, PTL DEF Spec

-----------------------------------------------------------------------------
(* attempt_count is never ahead of the calls, edits or not. *)

\* A handler moves, no call is forgotten, and no row runs ahead of the calls.
LEMMA CountStep ==
  ASSUME TypeInv, CountInv, NEW h \in Handler, NEW p, NEW f, Goto(h, p, f), Counted(p, f)',
         calls' \in [StepId -> Nat], \A s \in StepId : calls[s] <= calls'[s],
         \A s \in StepId : stepRun'[s].attempt_count <= calls'[s]
  PROVE  CountInv'
<1>1. /\ pc' = [pc EXCEPT ![h] = p] /\ frame' = [frame EXCEPT ![h] = f]
      /\ pc \in [Handler -> PC] /\ frame \in [Handler -> Frame] /\ calls \in [StepId -> Nat]
  BY DEF Goto, TypeInv, TypeOK
<1>2. ASSUME NEW k \in Handler PROVE Counted(pc[k], frame[k])'
  <2>1. CASE k = h
    BY <1>1, <2>1
  <2>2. CASE k # h /\ pc[k] \in {"body", "reportOk", "reportErr"}
    <3>1. PICK e, c : e = frame[k] /\ c = e.cursor
      OBVIOUS
    <3>2. c \in StepId /\ e.attempt \in Nat
      <4>1. pc[k] \in AtStep /\ pc[k] \in Executing
        BY <2>2 DEF AtStep, Executing
      <4>2. e \in Frame /\ e.plan \in Workflows /\ c \in e.plan.steps
        BY <1>1, <3>1, <4>1 DEF TypeInv, LocalsUsable, Usable
      <4>. QED BY <4>2, StepIdsOfPlan DEF Frame
    <3>3. Counted(pc[k], e) /\ pc'[k] = pc[k] /\ frame'[k] = e
      BY <1>1, <2>2, <3>1 DEF CountInv
    <3>4. calls[c] \in Nat /\ calls'[c] \in Nat /\ calls[c] <= calls'[c]
      BY <1>1, <3>2
    <3>. QED BY <3>1, <3>2, <3>3, <3>4 DEF Counted
  <2>3. CASE k # h /\ pc[k] \notin {"body", "reportOk", "reportErr"}
    BY <1>1, <2>3 DEF Counted
  <2>. QED BY <2>1, <2>2, <2>3
<1>. QED BY <1>2 DEF CountInv

\* An exception invents no attempt.
LEMMA ThrowCounted ==
  ASSUME TypeInv, CountInv, NEW h \in Handler, Throw(h)
  PROVE  \E p, f : Goto(h, p, f) /\ Counted(p, f)
<1>1. CASE pc[h] = "reportOk"
  <2>1. PICK e, f : e = frame[h] /\ f = [e EXCEPT !.willRetry = CanRetry(h)]
    OBVIOUS
  <2>2. e \in Frame /\ Counted("reportOk", e)
    BY <1>1, <2>1 DEF TypeInv, TypeOK, CountInv
  <2>3. f.attempt = e.attempt /\ f.cursor = e.cursor
    BY <2>1, <2>2 DEF Frame
  <2>4. Goto(h, "reportErr", f)
    BY <1>1, <2>1 DEF Throw
  <2>. QED BY <2>2, <2>3, <2>4 DEF Counted
<1>2. CASE pc[h] # "reportOk"
  <2>1. PICK p, f : p \in {"failStep", "error", "idle"} /\ Goto(h, p, f)
    BY <1>2 DEF Throw, Leave
  <2>. QED BY <2>1 DEF Counted
<1>. QED BY <1>1, <1>2

\* Nor does a request whose answer arrives or is lost.
LEMMA AnswerCounted ==
  ASSUME TypeInv, CountInv, NEW h \in Handler, NEW p, NEW f, Counted(p, f), Answer(h, p, f)
  PROVE  \E q, e : Goto(h, q, e) /\ Counted(q, e)
BY ThrowCounted DEF Answer

\* A step that leaves the calls and the rows' counts alone.
LEMMA CountKept ==
  ASSUME TypeInv, CountInv, NEW h \in Handler, UNCHANGED calls,
         \E p, f : Goto(h, p, f) /\ Counted(p, f),
         \A s \in StepId : stepRun'[s].attempt_count <= calls[s]
  PROVE  CountInv'
<1>1. PICK p, f : Goto(h, p, f) /\ Counted(p, f)
  OBVIOUS
<1>2. Counted(p, f)'
  BY <1>1 DEF Counted
<1>3. /\ calls' \in [StepId -> Nat] /\ \A s \in StepId : calls[s] <= calls'[s]
      /\ \A s \in StepId : stepRun'[s].attempt_count <= calls'[s]
  BY DEF TypeInv, TypeOK
<1>. QED BY <1>1, <1>2, <1>3, CountStep

\* The executor writes a row whose count was made.
LEMMA UpsertCount ==
  ASSUME TypeInv, CountInv, NEW h \in Handler, NEW row, NEW p, NEW f, Upsert(h, row, p, f),
         UNCHANGED calls, Counted(p, f),
         Cursor(h) \in workflow.steps => row.attempt_count <= calls[Cursor(h)]
  PROVE  CountInv'
<1>1. \E q, e : Goto(h, q, e) /\ Counted(q, e)
  BY AnswerCounted, ThrowCounted DEF Upsert, Dangling
<1>2. \A s \in StepId : stepRun'[s].attempt_count <= calls[s]
  <2>1. \A s \in StepId : stepRun[s].attempt_count <= calls[s]
    BY DEF CountInv
  <2>2. CASE UNCHANGED stepRun
    BY <2>1, <2>2
  <2>3. CASE Cursor(h) \in workflow.steps /\ UpsertStepRun(Cursor(h), row)
    BY <2>1, <2>3 DEF UpsertStepRun, TypeInv, TypeOK
  <2>. QED BY <2>2, <2>3 DEF Upsert, Dangling
<1>. QED BY <1>1, <1>2, CountKept

\* Steps recorded as skipped keep their counts.
LEMMA SkipCount ==
  ASSUME TypeInv, CountInv, NEW h \in Handler, NEW S, NEW p \in {"step", "failRun"}, NEW f,
         Skip(h, S, p, f)
  PROVE  CountInv'
<1>1. \E q, e : Goto(h, q, e) /\ Counted(q, e)
  <2>1. Counted(p, f)
    BY DEF Counted
  <2>. QED BY <2>1, AnswerCounted, ThrowCounted DEF Skip, Dangling
<1>2. \A s \in StepId : stepRun'[s].attempt_count <= calls[s]
  <2>1. \A s \in StepId : stepRun[s].attempt_count <= calls[s] /\ stepRun[s] \in StepRunRow
    BY DEF CountInv, TypeInv, TypeOK
  <2>2. CASE UNCHANGED stepRun
    BY <2>1, <2>2
  <2>3. CASE MarkStepsSkipped(S)
    <3>1. \A s \in StepId : WithStatus(stepRun[s], "skipped").attempt_count = stepRun[s].attempt_count
      BY <2>1 DEF WithStatus, StepRunRow
    <3>. QED BY <2>1, <2>3, <3>1 DEF MarkStepsSkipped
  <2>. QED BY <2>2, <2>3 DEF Skip, Dangling
<1>3. UNCHANGED calls
  BY DEF Skip
<1>. QED BY <1>1, <1>2, <1>3, CountKept

\* The steps that a handler takes with its own row.
LEMMA RowCounts ==
  ASSUME TypeInv, CountInv, NEW h \in Handler, Cursor(h) \in workflow.steps
  PROVE  /\ Row(h) \in StepRunRow /\ Row(h).attempt_count <= calls[Cursor(h)]
         /\ \A st : WithStatus(Row(h), st).attempt_count = Row(h).attempt_count
         /\ \A n : WithAttempt(Row(h), n).attempt_count = n
         /\ Begun(Row(h)).attempt_count = 0
         /\ calls[Cursor(h)] \in Nat /\ frame[h] \in Frame
<1>1. Cursor(h) \in StepId
  BY StepIdsOfPlan DEF TypeInv, TypeOK
<1>2. Row(h) \in StepRunRow /\ Row(h).attempt_count <= calls[Cursor(h)]
      /\ calls[Cursor(h)] \in Nat /\ frame[h] \in Frame
  BY <1>1 DEF TypeInv, TypeOK, CountInv, Row
<1>. QED BY <1>2 DEF WithStatus, WithAttempt, Begun, StepRunRow

\* A step of the loop that writes the row of its step.
LEMMA WorkCount ==
  ASSUME TypeInv, CountInv, NEW h \in Handler,
         \/ ReachGate(h) \/ BeginStep(h) \/ ReportOk(h) \/ ReportErr(h)
         \/ FailStep(h) \/ FinishStep(h) \/ FailBranch(h)
  PROVE  CountInv'
<1>1. PICK c, e : c = Cursor(h) /\ e = frame[h] /\ c = e.cursor
  BY DEF Cursor
<1>2. e \in Frame /\ Counted(pc[h], e)
  BY <1>1 DEF TypeInv, TypeOK, CountInv
<1>3. pc[h] \in Executing => c \in StepId \cup {End}
  BY <1>1, <1>2 DEF Frame
<1>4. pc[h] \in AtStep => c \in StepId
  BY <1>1, StepIdsOfPlan DEF TypeInv, LocalsUsable, Usable, AtStep
<1>5. UNCHANGED calls
  BY DEF ReachGate, BeginStep, ReportOk, ReportErr, FailStep, FinishStep, FailBranch
<1>6. ASSUME NEW st, NEW p, NEW f, p \notin {"body", "reportOk", "reportErr"},
             Upsert(h, WithStatus(Row(h), st), p, f)
      PROVE  CountInv'
  <2>1. Counted(p, f)
    BY <1>6 DEF Counted
  <2>2. Cursor(h) \in workflow.steps => WithStatus(Row(h), st).attempt_count <= calls[Cursor(h)]
    BY RowCounts
  <2>. QED BY <1>5, <1>6, <2>1, <2>2, UpsertCount
<1>7. CASE ReachGate(h)
  BY <1>6, <1>7 DEF ReachGate
<1>8. CASE FailStep(h)
  <2>1. PICK p \in {"failRun", "skipRest"} : Upsert(h, WithStatus(Row(h), "failed"), p, e)
    BY <1>1, <1>8 DEF FailStep
  <2>. QED BY <1>6, <2>1
<1>9. CASE FailBranch(h)
  BY <1>6, <1>9 DEF FailBranch
<1>10. CASE FinishStep(h)
  <2>1. PICK p, f : /\ p \in {"failBranch", "step", "skipBetween"}
                    /\ Upsert(h, WithStatus(Row(h), "completed"), p, f)
    BY <1>10 DEF FinishStep
  <2>. QED BY <1>6, <2>1
<1>11. CASE BeginStep(h)
  <2>1. PICK f, row : f = [e EXCEPT !.attempt = 1] /\ row = Begun(Row(h))
    OBVIOUS
  <2>2. Upsert(h, row, "body", f) /\ pc[h] = "step" /\ c # End
    BY <1>1, <1>11, <2>1 DEF BeginStep
  <2>3. f.attempt = 1 /\ f.cursor = c /\ c \in StepId
    BY <1>1, <1>2, <1>3, <2>1, <2>2 DEF Frame, Executing
  <2>4. calls[c] \in Nat
    BY <2>3 DEF TypeInv, TypeOK
  <2>5. Counted("body", f)
    BY <2>3, <2>4 DEF Counted
  <2>6. Cursor(h) \in workflow.steps => row.attempt_count <= calls[Cursor(h)]
    <3>1. Cursor(h) \in workflow.steps => row.attempt_count = 0
      BY <2>1, RowCounts
    <3>. QED BY <1>1, <2>4, <3>1
  <2>. QED BY <1>5, <2>2, <2>5, <2>6, UpsertCount
<1>12. CASE ReportOk(h)
  <2>1. PICK row : row = WithAttempt(Row(h), e.attempt)
    OBVIOUS
  <2>2. Upsert(h, row, "finishStep", e) /\ pc[h] = "reportOk"
    BY <1>1, <1>12, <2>1 DEF ReportOk
  <2>3. e.attempt <= calls[c]
    BY <1>1, <1>2, <2>2 DEF Counted
  <2>4. Counted("finishStep", e)
    BY DEF Counted
  <2>5. Cursor(h) \in workflow.steps => row.attempt_count <= calls[Cursor(h)]
    BY <1>1, <2>1, <2>3, RowCounts
  <2>. QED BY <1>5, <2>2, <2>4, <2>5, UpsertCount
<1>13. CASE ReportErr(h)
  <2>1. PICK row, p, f :
          /\ row = WithAttempt(Row(h), e.attempt)
          /\ p = IF e.willRetry THEN "body" ELSE "failStep"
          /\ f = [e EXCEPT !.attempt = IF e.willRetry THEN @ + 1 ELSE @]
    OBVIOUS
  <2>2. Upsert(h, row, p, f) /\ pc[h] = "reportErr"
    BY <1>1, <1>13, <2>1 DEF ReportErr
  <2>3. e.attempt <= calls[c] /\ c \in StepId
    BY <1>1, <1>2, <1>4, <2>2 DEF Counted, AtStep, Executing
  <2>4. /\ f.cursor = c /\ f.attempt = (IF e.willRetry THEN e.attempt + 1 ELSE e.attempt)
        /\ e.attempt \in Nat /\ calls[c] \in Nat
    BY <1>1, <1>2, <2>1, <2>3 DEF Frame, TypeInv, TypeOK
  <2>5. Counted(p, f)
    BY <2>1, <2>3, <2>4 DEF Counted
  <2>6. Cursor(h) \in workflow.steps => row.attempt_count <= calls[Cursor(h)]
    BY <1>1, <2>1, <2>3, RowCounts
  <2>. QED BY <1>5, <2>2, <2>5, <2>6, UpsertCount
<1>. QED BY <1>7, <1>8, <1>9, <1>10, <1>11, <1>12, <1>13

\* An attempt is counted as it is made.
LEMMA RunBodyCount ==
  ASSUME TypeInv, CountInv, NEW h \in Handler, RunBody(h)
  PROVE  CountInv'
<1>1. PICK c, e : c = Cursor(h) /\ e = frame[h] /\ c = e.cursor
  BY DEF Cursor
<1>2. pc[h] = "body" /\ calls' = [calls EXCEPT ![c] = @ + 1] /\ UNCHANGED stepRun
  BY <1>1 DEF RunBody
<1>3. e \in Frame /\ e.attempt <= calls[c] + 1
  BY <1>1, <1>2 DEF TypeInv, TypeOK, CountInv, Counted
<1>4. c \in StepId
  BY <1>1, <1>2, StepIdsOfPlan DEF TypeInv, LocalsUsable, Usable, AtStep, Executing
<1>5. /\ calls' \in [StepId -> Nat] /\ \A s \in StepId : calls[s] <= calls'[s]
      /\ calls'[c] = calls[c] + 1
  BY <1>2, <1>4 DEF TypeInv, TypeOK
<1>6. PICK p, f : Goto(h, p, f) /\ f.attempt = e.attempt /\ f.cursor = c
  <2>1. \A d : [e EXCEPT !.dest = d].attempt = e.attempt /\ [e EXCEPT !.dest = d].cursor = c
    BY <1>1, <1>3 DEF Frame
  <2>2. \A r : /\ [e EXCEPT !.willRetry = r].attempt = e.attempt
               /\ [e EXCEPT !.willRetry = r].cursor = c
    BY <1>1, <1>3 DEF Frame
  <2>3. \/ \E d \in Destinations(Plan(h), Cursor(h)) :
             Goto(h, "reportOk", [e EXCEPT !.dest = d])
        \/ \E r \in BOOLEAN : Goto(h, "reportErr", [e EXCEPT !.willRetry = r /\ CanRetry(h)])
    BY <1>1 DEF RunBody
  <2>. QED BY <2>1, <2>2, <2>3
<1>7. Counted(p, f)'
  <2>1. e.attempt \in Nat /\ calls[c] \in Nat /\ calls'[c] \in Nat
    BY <1>3, <1>4, <1>5 DEF Frame, TypeInv, TypeOK
  <2>. QED BY <1>3, <1>5, <1>6, <2>1 DEF Counted
<1>8. \A s \in StepId : stepRun'[s].attempt_count <= calls'[s]
  <2>1. \A s \in StepId : /\ stepRun[s].attempt_count <= calls[s]
                          /\ stepRun[s].attempt_count \in Nat
                          /\ calls[s] \in Nat /\ calls'[s] \in Nat
    BY <1>5 DEF CountInv, TypeInv, TypeOK, StepRunRow
  <2>. QED BY <1>2, <1>5, <2>1
<1>. QED BY <1>5, <1>6, <1>7, <1>8, CountStep

\* An approval counts no attempt.
LEMMA ClaimApprovalCount ==
  ASSUME TypeInv, CountInv, NEW h \in Handler, ClaimApproval(h)
  PROVE  CountInv'
<1>1. PICK c, row : c = Cursor(h) /\ row = ApprovedBy(Row(h), h)
  OBVIOUS
<1>2. Counted("load", NoFrame) /\ UNCHANGED calls
  BY DEF Counted, ClaimApproval
<1>3. \E p, f : Goto(h, p, f) /\ Counted(p, f)
  <2>1. CASE Answer(h, "load", NoFrame)
    BY <1>2, <2>1, AnswerCounted
  <2>2. CASE Leave(h, "error")
    <3>1. PICK p \in {"error", "idle"} : Goto(h, p, NoFrame)
      BY <2>2 DEF Leave
    <3>. QED BY <3>1 DEF Counted
  <2>. QED BY <2>1, <2>2 DEF ClaimApproval
<1>4. \A s \in StepId : stepRun'[s].attempt_count <= calls[s]
  <2>1. \A s \in StepId : stepRun[s].attempt_count <= calls[s] /\ stepRun[s] \in StepRunRow
    BY DEF CountInv, TypeInv, TypeOK
  <2>2. CASE UNCHANGED stepRun
    BY <2>1, <2>2
  <2>3. CASE UpsertStepRun(c, row)
    <3>1. stepRun' = [stepRun EXCEPT ![c] = row] /\ stepRun \in [StepId -> StepRunRow]
      BY <2>3 DEF UpsertStepRun, TypeInv, TypeOK
    <3>2. c \in StepId => row.attempt_count = stepRun[c].attempt_count
      BY <1>1, <2>1 DEF Row, ApprovedBy, StepRunRow
    <3>. QED BY <2>1, <3>1, <3>2
  <2>. QED BY <1>1, <2>2, <2>3 DEF ClaimApproval
<1>. QED BY <1>2, <1>3, <1>4, CountKept

\* A step that writes neither calls nor rows, and begins no attempt.
LEMMA QuietCount ==
  ASSUME TypeInv, CountInv, NEW h \in Handler, UNCHANGED <<calls, stepRun>>,
         NEW p \in PC \ {"body", "reportOk", "reportErr"}, NEW f,
         Answer(h, p, f) \/ Goto(h, p, f)
  PROVE  CountInv'
<1>1. Counted(p, f)
  BY DEF Counted
<1>2. \E q, e : Goto(h, q, e) /\ Counted(q, e)
  BY <1>1, AnswerCounted
<1>3. \A s \in StepId : stepRun'[s].attempt_count <= calls[s]
  BY DEF CountInv
<1>. QED BY <1>2, <1>3, CountKept

\* A handler that leaves executeRun, or is thrown out of it.
LEMMA LeaveCount ==
  ASSUME TypeInv, CountInv, NEW h \in Handler, UNCHANGED <<calls, stepRun>>,
         NEW answer \in {"done", "error", "dead"}, Leave(h, answer) \/ Throw(h)
  PROVE  CountInv'
<1>1. \E q, e : Goto(h, q, e) /\ Counted(q, e)
  <2>1. ASSUME Leave(h, answer) PROVE \E q, e : Goto(h, q, e) /\ Counted(q, e)
    <3>1. PICK p \in {"done", "error", "dead", "idle"} : Goto(h, p, NoFrame)
      BY <2>1 DEF Leave
    <3>. QED BY <3>1 DEF Counted
  <2>. QED BY <2>1, ThrowCounted
<1>2. \A s \in StepId : stepRun'[s].attempt_count <= calls[s]
  BY DEF CountInv
<1>. QED BY <1>1, <1>2, CountKept

\* Every step keeps attempt_count behind the calls; an edit resets deleted rows.
LEMMA CountNext == TypeInv /\ ExecutionInv /\ CountInv /\ [Next]_vars => CountInv'
<1>. SUFFICES ASSUME TypeInv, ExecutionInv, CountInv, [Next]_vars PROVE CountInv'
  OBVIOUS
<1>1. Delivery \subseteq Handler /\ Approval \subseteq Handler
  BY DEF Handler
<1>2. {"load", "claim", "reload", "step", "resume", "claimApproval", "gone"}
        \subseteq PC \ {"body", "reportOk", "reportErr"}
  BY DEF PC, Executing
<1>3. ASSUME NEW d \in Delivery, Deliver(d) \/ Respond(d) PROVE CountInv'
  BY <1>1, <1>2, <1>3, QuietCount DEF Deliver, Respond
<1>4. ASSUME NEW h \in Approval, NEW g \in StepId, AuthorizeApproval(h, g) PROVE CountInv'
  BY <1>1, <1>2, <1>4, QuietCount DEF AuthorizeApproval
<1>5. ASSUME NEW h \in Handler, Load(h) \/ Reload(h) \/ SkipApprovedGate(h) PROVE CountInv'
  <2>1. \/ \E p \in {"claim", "resume", "step"} : \E f : Goto(h, p, f)
        \/ Leave(h, "done")
    BY <1>5 DEF Load, Reload, SkipApprovedGate
  <2>2. UNCHANGED <<calls, stepRun>>
    BY <1>5 DEF Load, Reload, SkipApprovedGate
  <2>. QED BY <1>2, <2>1, <2>2, QuietCount, LeaveCount
<1>6. ASSUME NEW h \in Handler, ClaimRun(h) \/ Resume(h) PROVE CountInv'
  <2>1. \/ \E p \in {"reload", "step"} : \E f : Answer(h, p, f)
        \/ Leave(h, "done")
    BY <1>6 DEF ClaimRun, Resume
  <2>2. UNCHANGED <<calls, stepRun>>
    BY <1>6 DEF ClaimRun, Resume
  <2>. QED BY <1>2, <2>1, <2>2, QuietCount, LeaveCount
<1>7. ASSUME NEW h \in Handler, PauseRun(h) \/ FailRun(h) \/ CompleteRun(h) PROVE CountInv'
  BY <1>7, LeaveCount DEF PauseRun, FailRun, CompleteRun, EndRun
<1>8. ASSUME NEW h \in Handler, SkipRest(h) \/ SkipBetween(h) PROVE CountInv'
  BY <1>8, SkipCount DEF SkipRest, SkipBetween
<1>9. ASSUME NEW h \in Handler, HandlerStep(h) PROVE CountInv'
  BY <1>5, <1>6, <1>7, <1>8, <1>9, WorkCount, RunBodyCount, ClaimApprovalCount
  DEF HandlerStep
<1>10. ASSUME NEW h \in Handler, Refused(h) \/ Crash(h) PROVE CountInv'
  BY <1>10, LeaveCount DEF Refused, Crash
<1>11. ASSUME UNCHANGED <<stepRun, calls, pc, frame>> PROVE CountInv'
  BY <1>11 DEF CountInv, Counted
<1>12. ASSUME NEW w \in Workflows, EditWorkflow(w) PROVE CountInv'
  <2>1. \A s \in StepId : stepRun'[s] = IF s \in w.steps THEN stepRun[s] ELSE NoRow
    BY <1>12 DEF EditWorkflow
  <2>2. \A s \in StepId : stepRun'[s].attempt_count <= calls[s]
    BY <2>1 DEF CountInv, NoRow, TypeInv, TypeOK
  <2>. QED BY <1>12, <2>2 DEF EditWorkflow, CountInv, Counted
<1>. QED
  BY <1>3, <1>4, <1>9, <1>10, <1>11, <1>12
  DEF Next, DeliveryTimeout, vars

(***************************************************************************)
(* attempt_count never claims an attempt that was not made, even of a run  *)
(* whose definition is edited while it is executed.                        *)
(***************************************************************************)
THEOREM CountCorrect == Spec => []CountInv
<1>1. Init => CountInv
  BY DEF Init, CountInv, Counted, NoRow
<1>. QED BY <1>1, CountNext, TypeCorrect, ExecutionCorrect, PTL DEF Spec

(***************************************************************************)
(* The whole inductive argument about a run, with faults and edits.        *)
(***************************************************************************)
THEOREM Induction == Spec => []InductiveInv
BY ExecutionCorrect, RecordCorrect, CountCorrect, PTL DEF InductiveInv

-----------------------------------------------------------------------------
(* What follows. *)

\* A row, in an unedited run, is a row of the workflow.
LEMMA RowsOfWorkflow ==
  ASSUME TypeInv, ExecutionInv, NEW s \in StepId, stepRun[s].status # "absent"
  PROVE  s \in workflow.steps
BY DEF ExecutionInv, NoRow

(***************************************************************************)
(* No step behind an approval gate is entered before the gate is approved, *)
(* or skipped by a branch: the loop and the gates of executeRun, through   *)
(* every pause, resume and redelivery.                                     *)
(***************************************************************************)
THEOREM GatesHold == Spec => []GateRespected
<1>1. RecordInv => GateRespected
  BY DEF RecordInv, GateRespected
<1>. QED BY <1>1, RecordCorrect, PTL

(***************************************************************************)
(* A finished run's rows tell how it ended: all completed or skipped, or   *)
(* exactly one failed and none left open.                                  *)
(***************************************************************************)
THEOREM OutcomeIsRecorded == Spec => []OutcomeMatchesRecord
<1>1. RecordInv => OutcomeMatchesRecord
  BY DEF RecordInv, OutcomeMatchesRecord
<1>. QED BY <1>1, RecordCorrect, PTL

(***************************************************************************)
(* resume_position, as pauseRun computes it, repeats no gate and loses no  *)
(* step, wherever the gate stands and whatever gaps the positions have.    *)
(***************************************************************************)
THEOREM ResumeIsExact == Spec => []ResumePointExact
<1>1. RecordInv => ResumePointExact
  BY DEF RecordInv, ResumePointExact, PauseMatchesRecord, Settled, Untouched, NoRow
<1>. QED BY <1>1, RecordCorrect, PTL

(***************************************************************************)
(* withRetry enters a body at most as often as its policy allows, over all *)
(* deliveries and approvals together.                                      *)
(***************************************************************************)
THEOREM AttemptsAreBounded == Spec => []AttemptsBounded
<1>1. RecordInv => AttemptsBounded
  BY DEF RecordInv, AttemptsBounded, RowHonest
<1>. QED BY <1>1, RecordCorrect, PTL

(***************************************************************************)
(* attempt_count never claims an attempt that was not made, and on a       *)
(* completed step it is the number of attempts made.                       *)
(***************************************************************************)
THEOREM AttemptCountsHonest == Spec => []AttemptCountHonest
<1>1. ASSUME TypeInv, ExecutionInv, RecordInv, CountInv PROVE AttemptCountHonest
  <2>1. \A s \in CompletedSteps : s \in StepId /\ s \in workflow.steps
    BY <1>1, RowsOfWorkflow DEF CompletedSteps
  <2>. QED BY <1>1, <2>1 DEF AttemptCountHonest, CountInv, RecordInv, RowHonest, CompletedSteps
<1>. QED BY <1>1, TypeCorrect, ExecutionCorrect, RecordCorrect, CountCorrect, PTL

(***************************************************************************)
(* Live or rebuilt on resume, the context of a step holds the outputs of   *)
(* exactly the completed steps, all before it.                             *)
(***************************************************************************)
THEOREM ContextIsFaithful == Spec => []ContextFaithful
<1>1. ASSUME TypeInv, ExecutionInv, RecordInv PROVE ContextFaithful
  <2>. SUFFICES ASSUME edits = 0, NEW h \in Handler, pc[h] \in {"step", "body"}
                PROVE  /\ frame[h].ctx = CompletedSteps
                       /\ Cursor(h) # End =>
                            \A s \in CompletedSteps : Before(s, Cursor(h))
    BY DEF ContextFaithful
  <2>1. Fits(pc[h], frame[h]) /\ Cursor(h) = frame[h].cursor
    BY <1>1 DEF RecordInv, Cursor
  <2>2. frame[h].ctx = CompletedSteps
    BY <2>1 DEF Fits, Executing
  <2>3. ASSUME NEW s \in CompletedSteps, Cursor(h) # End PROVE Before(s, Cursor(h))
    <3>1. s \in workflow.steps /\ stepRun[s].status = "completed"
      BY <1>1, RowsOfWorkflow DEF CompletedSteps
    <3>2. ~ Untouched(s)
      BY <3>1 DEF Untouched, NoRow
    <3>3. CASE pc[h] = "step"
      BY <2>1, <2>3, <3>1, <3>2, <3>3 DEF Fits, Passed
    <3>4. CASE pc[h] = "body"
      BY <2>1, <2>3, <3>1, <3>2, <3>4 DEF Fits, AtStep, Executing, StatusAt
    <3>. QED BY <3>3, <3>4
  <2>. QED BY <2>2, <2>3
<1>. QED BY <1>1, TypeCorrect, ExecutionCorrect, RecordCorrect, PTL

\* No step of an unedited run writes a row that was approved.
LEMMA ApprovedStep ==
  ASSUME TypeInv, ExecutionInv, RecordInv, [Next]_vars, edits' = 0,
         NEW g \in ApprovedGates
  PROVE  stepRun'[g] = stepRun[g]
<1>1. Sound /\ \A w \in Workflows : ~ EditWorkflow(w)
  BY EditsCounted DEF Sound
<1>2. /\ g \in StepId /\ stepRun[g].status = "completed" /\ stepRun[g].approved_by # None
      /\ stepRun \in [StepId -> StepRunRow]
  BY DEF ApprovedGates, CompletedSteps, TypeInv, TypeOK
<1>3. ASSUME NEW h \in Handler, NEW row, NEW p, NEW f, Upsert(h, row, p, f),
             pc[h] \in AtStep \cup {"step"}, Cursor(h) # End
      PROVE  stepRun'[g] = stepRun[g]
  <2>1. Cursor(h) # g
    BY <1>1, <1>2, <1>3, RowAtWork DEF Row
  <2>. QED BY <1>2, <1>3, <2>1 DEF Upsert, UpsertStepRun, Dangling
<1>4. ASSUME NEW h \in Handler, NEW S, NEW p, NEW f, Skip(h, S, p, f)
      PROVE  stepRun'[g] = stepRun[g]
  BY <1>2, <1>4 DEF Skip, MarkStepsSkipped, Dangling
<1>5. ASSUME NEW h \in Handler, ClaimApproval(h) PROVE stepRun'[g] = stepRun[g]
  <2>1. CASE UNCHANGED stepRun
    BY <2>1
  <2>2. CASE ApprovalAffectsRow(Cursor(h)) /\ UpsertStepRun(Cursor(h), ApprovedBy(Row(h), h))
    <3>1. Cursor(h) # g
      BY <1>2, <2>2 DEF ApprovalAffectsRow
    <3>. QED BY <1>2, <2>2, <3>1 DEF UpsertStepRun
  <2>. QED BY <1>5, <2>1, <2>2 DEF ClaimApproval
<1>6. ASSUME NEW h \in Handler,
             \/ ReachGate(h) \/ BeginStep(h) \/ ReportOk(h) \/ ReportErr(h)
             \/ FailStep(h) \/ FinishStep(h) \/ FailBranch(h)
      PROVE  stepRun'[g] = stepRun[g]
  <2>1. \E row, p, f : Upsert(h, row, p, f)
    BY <1>6 DEF ReachGate, BeginStep, ReportOk, ReportErr, FailStep, FinishStep, FailBranch
  <2>2. pc[h] \in AtStep \cup {"step"} /\ pc[h] \in Executing
    BY <1>6 DEF ReachGate, BeginStep, ReportOk, ReportErr, FailStep, FinishStep, FailBranch,
                AtStep, Executing
  <2>3. pc[h] = "step" => Cursor(h) # End
    BY <1>6 DEF ReachGate, BeginStep, ReportOk, ReportErr, FailStep, FinishStep, FailBranch,
                AtGate
  <2>4. pc[h] \in AtStep => Cursor(h) # End
    BY <1>1, <2>2, HolderView
  <2>. QED BY <1>3, <2>1, <2>2, <2>3, <2>4
<1>7. ASSUME NEW h \in Handler, HandlerStep(h) PROVE stepRun'[g] = stepRun[g]
  BY <1>4, <1>5, <1>6, <1>7
  DEF HandlerStep, Load, ClaimRun, Reload, Resume, SkipApprovedGate, PauseRun, RunBody,
      SkipRest, SkipBetween, FailRun, CompleteRun, EndRun
<1>. QED
  BY <1>1, <1>7
  DEF Next, Deliver, DeliveryTimeout, Respond, AuthorizeApproval, Refused, Crash, vars

(***************************************************************************)
(* An approval is never revoked or overwritten: not by a second approver   *)
(* who passed the same checks, not by the run it resumes.                  *)
(***************************************************************************)
THEOREM ApprovalFinality == Spec => ApprovalIsFinal
<1>1. TypeInv /\ ExecutionInv /\ RecordInv /\ [Next]_vars =>
        [edits' = 0 => \A g \in ApprovedGates : stepRun'[g] = stepRun[g]]_vars
  BY ApprovedStep
<1>. QED
  BY <1>1, TypeCorrect, ExecutionCorrect, RecordCorrect, PTL DEF Spec, ApprovalIsFinal

-----------------------------------------------------------------------------
(***************************************************************************)
(* WorkflowEngine implements RunLifecycle, as long as nobody edits: every  *)
(* step of a handler is one that a watcher is promised, or is not seen.    *)
(***************************************************************************)

\* The statuses of the run and of its rows are all there is to see.
LEMMA Unseen ==
  ASSUME run'.status = run.status,
         \A s \in StepId : stepRun'[s].status = stepRun[s].status
  PROVE  UNCHANGED Lifecycle!view
BY DEF Lifecycle!view

\* A write of the run's status, as it is seen.
LEMMA SeenRun ==
  ASSUME NEW from, NEW to, run.status = from, run'.status = to, UNCHANGED stepRun
  PROVE  Lifecycle!Move(from, to)
BY DEF Lifecycle!Move

\* A write of one row, as it is seen.
LEMMA SeenStep ==
  ASSUME NEW s \in StepId, NEW from, NEW row, stepRun[s].status \in from,
         stepRun \in [StepId -> StepRunRow], stepRun' = [stepRun EXCEPT ![s] = row],
         UNCHANGED run
  PROVE  Lifecycle!MoveStep(s, from, row.status)
<1>1. \A t \in StepId : stepRun'[t].status = IF t = s THEN row.status ELSE stepRun[t].status
  OBVIOUS
<1>. QED BY <1>1 DEF Lifecycle!MoveStep

(***************************************************************************)
(* While a handler executes the run, its own step is as far as the handler *)
(* is, and no other step is active or failed.                              *)
(***************************************************************************)
LEMMA Around ==
  ASSUME Sound, NEW h \in Handler, pc[h] \in Executing
  PROVE  /\ run.status = IF pc[h] = "resume" THEN "paused" ELSE "running"
         /\ \A s \in StepId \ {Cursor(h)} : stepRun[s].status \in {"absent", "completed", "skipped"}
         /\ pc[h] \in {"resume", "step"} =>
              \A s \in StepId : stepRun[s].status \in {"absent", "completed", "skipped"}
         /\ pc[h] \in AtStep =>
              Cursor(h) \in workflow.steps /\ Cursor(h) \in StepId
                /\ stepRun[Cursor(h)].status = StatusAt(pc[h])
<1>1. PICK c, p, f : c = Cursor(h) /\ p = pc[h] /\ f = frame[h]
  OBVIOUS
<1>2. /\ Fits(p, f) /\ c = f.cursor /\ workflow.steps \subseteq StepId
      /\ p \in AtStep => c \in workflow.steps
  BY <1>1, HolderView
<1>0. \A s : Settled(s) \/ Untouched(s) => stepRun[s].status \in {"absent", "completed", "skipped"}
  BY DEF Settled, Untouched, NoRow
<1>3. p \notin {"resume", "step"} => p \in AtStep
  BY <1>1 DEF AtStep
<1>4. run.status = IF p = "resume" THEN "paused" ELSE "running"
  BY <1>1 DEF Sound, ExecutionInv, Holding, Executing
<1>5. \A s \in StepId \ workflow.steps : stepRun[s].status = "absent"
  BY DEF Sound, ExecutionInv, NoRow
<1>6. ASSUME p \in {"resume", "step"}
      PROVE  \A s \in workflow.steps : stepRun[s].status \in {"absent", "completed", "skipped"}
  BY <1>0, <1>2, <1>6 DEF Fits
<1>7. ASSUME p \in AtStep
      PROVE  /\ \A s \in workflow.steps \ {c} : stepRun[s].status \in {"absent", "completed", "skipped"}
             /\ stepRun[c].status = StatusAt(p)
  <2>1. p # "failRun" => \A s \in workflow.steps \ {c} : Settled(s) \/ Untouched(s)
    BY <1>2, <1>7 DEF Fits
  <2>2. p = "failRun" => \A s \in workflow.steps \ {c} :
                           Settled(s) \/ Untouched(s) \/ stepRun[s].status = "skipped"
    BY <1>2, <1>7 DEF Fits
  <2>3. stepRun[c].status = StatusAt(p)
    BY <1>2, <1>7 DEF Fits
  <2>. QED BY <1>0, <2>1, <2>2, <2>3
<1>. QED BY <1>1, <1>2, <1>3, <1>4, <1>5, <1>6, <1>7

-----------------------------------------------------------------------------
(* Every step is promised, or not seen. *)

\* A row that the executor writes is seen, unless its status stays.
LEMMA SeenUpsert ==
  ASSUME Sound, NEW h \in Handler, NEW c \in workflow.steps, c = Cursor(h), NEW from,
         stepRun[c].status \in from,
         NEW row, NEW p, NEW f, Upsert(h, row, p, f)
  PROVE  Lifecycle!MoveStep(c, from, row.status)
<1>1. c \in StepId /\ stepRun \in [StepId -> StepRunRow]
  BY StepIdsOfPlan DEF Sound, TypeInv, TypeOK
<1>2. stepRun' = [stepRun EXCEPT ![c] = row] /\ UNCHANGED run
  BY DEF Upsert, Dangling, UpsertStepRun
<1>. QED BY <1>1, <1>2, SeenStep

\* A step begins, or a gate is reached.
LEMMA SeenBegin ==
  ASSUME Sound, NEW h \in Handler, BeginStep(h) \/ ReachGate(h)
  PROVE  \E s \in StepId : \E to \in {"running", "paused"} : Lifecycle!Begin(s, to)
<1>1. PICK c : c = Cursor(h)
  OBVIOUS
<1>2. pc[h] = "step" /\ c # End /\ pc[h] \in Executing
  BY <1>1 DEF BeginStep, ReachGate, AtGate, Executing
<1>3. c \in workflow.steps /\ c \in StepId /\ Row(h) = NoRow /\ stepRun[c] = NoRow
  BY <1>1, <1>2, AtLoop, HolderView
<1>4. PICK row, to, p, f : Upsert(h, row, p, f) /\ row.status = to /\ to \in {"running", "paused"}
  <2>1. Begun(Row(h)).status = "running" /\ WithStatus(Row(h), "paused").status = "paused"
    BY <1>3 DEF Begun, WithStatus, NoRow
  <2>. QED BY <2>1 DEF BeginStep, ReachGate
<1>5. Lifecycle!MoveStep(c, {"absent"}, to)
  <2>1. stepRun[c].status \in {"absent"}
    BY <1>3 DEF NoRow
  <2>2. Lifecycle!MoveStep(c, {"absent"}, row.status)
    BY <1>1, <1>3, <1>4, <2>1, SeenUpsert
  <2>. QED BY <1>4, <2>2
<1>6. run.status = "running" /\ Lifecycle!Active = {} /\ Lifecycle!Failed = {}
  <2>1. /\ run.status = "running"
        /\ \A s \in StepId : stepRun[s].status \in {"absent", "completed", "skipped"}
    BY <1>2, Around
  <2>. QED BY <2>1 DEF Lifecycle!Active, Lifecycle!Failed
<1>. QED BY <1>3, <1>4, <1>5, <1>6 DEF Lifecycle!Begin

\* A step succeeds.
LEMMA SeenFinish ==
  ASSUME Sound, NEW h \in Handler, FinishStep(h)
  PROVE  \E s \in StepId : Lifecycle!Finish(s)
<1>1. PICK c, row, p, f : /\ c = Cursor(h) /\ row = WithStatus(Row(h), "completed")
                          /\ Upsert(h, row, p, f)
  BY DEF FinishStep
<1>2. pc[h] = "finishStep" /\ pc[h] \in AtStep \ {"failRun"} /\ pc[h] \in Executing
  BY DEF FinishStep, AtStep, Executing
<1>3. /\ c \in workflow.steps /\ c \in StepId /\ run.status = "running"
      /\ stepRun[c].status = "running" /\ Row(h) \in StepRunRow
  BY <1>1, <1>2, Around, AtWork DEF StatusAt
<1>4. row.status = "completed"
  BY <1>1, <1>3 DEF WithStatus, StepRunRow
<1>5. Lifecycle!MoveStep(c, {"running"}, row.status)
  BY <1>1, <1>3, SeenUpsert
<1>. QED BY <1>3, <1>4, <1>5 DEF Lifecycle!Finish

\* A step fails, or a branch whose target is refused.
LEMMA SeenFail ==
  ASSUME Sound, NEW h \in Handler, FailStep(h) \/ FailBranch(h)
  PROVE  \E s \in StepId : Lifecycle!Fail(s)
<1>1. PICK c, row, p, f : /\ c = Cursor(h) /\ row = WithStatus(Row(h), "failed")
                          /\ Upsert(h, row, p, f)
  BY DEF FailStep, FailBranch
<1>2. pc[h] \in {"failStep", "failBranch"} /\ pc[h] \in AtStep \ {"failRun"} /\ pc[h] \in Executing
  BY DEF FailStep, FailBranch, AtStep, Executing
<1>3. /\ c \in workflow.steps /\ c \in StepId /\ run.status = "running"
      /\ stepRun[c].status \in {"running", "completed"} /\ Row(h) \in StepRunRow
      /\ \A s \in StepId \ {c} : stepRun[s].status \in {"absent", "completed", "skipped"}
  BY <1>1, <1>2, Around, AtWork DEF StatusAt
<1>4. row.status = "failed"
  BY <1>1, <1>3 DEF WithStatus, StepRunRow
<1>5. Lifecycle!MoveStep(c, {"running", "completed"}, row.status)
  BY <1>1, <1>3, SeenUpsert
<1>6. Lifecycle!Active \subseteq {c} /\ Lifecycle!Failed = {}
  BY <1>3 DEF Lifecycle!Active, Lifecycle!Failed
<1>. QED BY <1>3, <1>4, <1>5, <1>6 DEF Lifecycle!Fail

\* An attempt is recorded, which is not seen.
LEMMA UnseenReport ==
  ASSUME Sound, NEW h \in Handler, ReportOk(h) \/ ReportErr(h)
  PROVE  UNCHANGED Lifecycle!view
<1>1. PICK c, row, p, f : /\ c = Cursor(h) /\ row = WithAttempt(Row(h), frame[h].attempt)
                          /\ Upsert(h, row, p, f)
  BY DEF ReportOk, ReportErr
<1>2. pc[h] \in AtStep \ {"failRun"} /\ pc[h] \in Executing
  BY DEF ReportOk, ReportErr, AtStep, Executing
<1>3. c \in workflow.steps /\ c \in StepId /\ Row(h) \in StepRunRow /\ Row(h) = stepRun[c]
  BY <1>1, <1>2, AtWork
<1>4. row.status = stepRun[c].status
  BY <1>1, <1>3 DEF WithAttempt, StepRunRow
<1>5. stepRun' = [stepRun EXCEPT ![c] = row] /\ UNCHANGED run
  BY <1>1, <1>3 DEF Upsert, Dangling, UpsertStepRun
<1>6. \A s \in StepId : stepRun'[s].status = stepRun[s].status
  <2>1. stepRun \in [StepId -> StepRunRow]
    BY DEF Sound, TypeInv, TypeOK
  <2>. QED BY <1>4, <1>5, <2>1
<1>. QED BY <1>5, <1>6, Unseen

\* Steps are skipped, behind a failed step or between a branch and its target.
LEMMA SeenSkip ==
  ASSUME Sound, NEW h \in Handler, SkipRest(h) \/ SkipBetween(h)
  PROVE  \/ UNCHANGED Lifecycle!view
         \/ \E S \in SUBSET Lifecycle!Absent : Lifecycle!Skip(S)
<1>1. PICK S, p, f : Skip(h, S, p, f)
  BY DEF SkipRest, SkipBetween
<1>2. pc[h] \in {"skipRest", "skipBetween"} /\ pc[h] \in AtStep /\ pc[h] \in Executing
  BY DEF SkipRest, SkipBetween, AtStep, Executing
<1>3. run.status = "running" /\ Lifecycle!Active = {}
  <2>1. /\ run.status = "running"
        /\ \A s \in StepId \ {Cursor(h)} : stepRun[s].status \in {"absent", "completed", "skipped"}
        /\ stepRun[Cursor(h)].status \in {"completed", "failed"}
    BY <1>2, Around DEF StatusAt
  <2>. QED BY <2>1 DEF Lifecycle!Active
<1>4. CASE UNCHANGED <<run, stepRun>>
  BY <1>4, Unseen
<1>5. CASE MarkStepsSkipped(S) /\ UNCHANGED run
  <2>0. PICK T : T = {s \in S \cap StepId : stepRun[s].status = "absent"}
    OBVIOUS
  <2>1. \A s \in StepId : stepRun'[s].status = IF s \in T THEN "skipped" ELSE stepRun[s].status
    <3>1. \A s \in StepId : WithStatus(stepRun[s], "skipped").status = "skipped"
      BY DEF WithStatus, Sound, TypeInv, TypeOK, StepRunRow
    <3>. QED BY <1>5, <2>0, <3>1 DEF MarkStepsSkipped
  <2>2. T \in SUBSET Lifecycle!Absent
    BY <2>0 DEF Lifecycle!Absent
  <2>3. CASE T = {}
    <3>1. \A s \in StepId : stepRun'[s].status = stepRun[s].status
      BY <2>1, <2>3
    <3>. QED BY <1>5, <3>1, Unseen
  <2>4. CASE T # {}
    <3>1. Lifecycle!Skip(T)
      BY <1>3, <1>5, <2>1, <2>4 DEF Lifecycle!Skip
    <3>. QED BY <2>2, <3>1
  <2>. QED BY <2>3, <2>4
<1>. QED BY <1>1, <1>4, <1>5 DEF Skip, Dangling

\* The run starts, or its claim fails.
LEMMA SeenStart ==
  ASSUME Sound, NEW h \in Handler, ClaimRun(h)
  PROVE  UNCHANGED Lifecycle!view \/ Lifecycle!Start
<1>1. CASE UNCHANGED run
  BY <1>1, Unseen DEF ClaimRun
<1>2. CASE ClaimAffectsRow /\ MarkRun("running", run.resume_position)
  BY <1>2, SeenRun DEF ClaimRun, ClaimAffectsRow, MarkRun, Lifecycle!Start
<1>. QED BY <1>1, <1>2 DEF ClaimRun

\* The run pauses at a gate.
LEMMA SeenPause ==
  ASSUME Sound, NEW h \in Handler, PauseRun(h)
  PROVE  Lifecycle!Pause
<1>1. pc[h] = "pause" /\ pc[h] \in AtStep /\ pc[h] \in Executing
  BY DEF PauseRun, AtStep, Executing
<1>2. /\ run.status = "running" /\ Cursor(h) \in StepId
      /\ stepRun[Cursor(h)].status = "paused"
  BY <1>1, Around DEF StatusAt
<1>3. Lifecycle!Move("running", "paused")
  BY <1>2, SeenRun DEF PauseRun, MarkRun
<1>4. \E g \in StepId : [s \in StepId |-> stepRun[s].status][g] = "paused"
  BY <1>2
<1>. QED BY <1>3, <1>4 DEF Lifecycle!Pause

\* The paused run goes on.
LEMMA SeenResume ==
  ASSUME Sound, NEW h \in Handler, Resume(h)
  PROVE  Lifecycle!Resume
<1>1. pc[h] = "resume" /\ pc[h] \in Executing
  BY DEF Resume, Executing
<1>2. /\ run.status = "paused"
      /\ \A s \in StepId : stepRun[s].status \in {"absent", "completed", "skipped"}
  BY <1>1, Around
<1>3. Lifecycle!Move("paused", "running")
  BY <1>2, SeenRun DEF Resume, MarkRun
<1>. QED BY <1>2, <1>3 DEF Lifecycle!Resume, Lifecycle!Active

\* An approval completes the gate at which the run is paused, or is refused.
LEMMA SeenApprove ==
  ASSUME Sound, NEW h \in Handler, ClaimApproval(h)
  PROVE  UNCHANGED Lifecycle!view \/ \E g \in StepId : Lifecycle!Approve(g)
<1>1. PICK c, row : c = Cursor(h) /\ row = ApprovedBy(Row(h), h)
  OBVIOUS
<1>2. UNCHANGED run
  BY DEF ClaimApproval
<1>3. CASE UNCHANGED stepRun
  BY <1>2, <1>3, Unseen
<1>4. CASE ApprovalAffectsRow(c) /\ UpsertStepRun(c, row)
  <2>1. /\ c \in StepId /\ run.status = "paused" /\ stepRun[c].status = "paused"
        /\ stepRun[c] \in StepRunRow
    BY <1>1, <1>4, ClaimFinds
  <2>2. row.status = "completed"
    BY <1>1, <2>1 DEF ApprovedBy, Row, StepRunRow
  <2>3. stepRun \in [StepId -> StepRunRow] /\ stepRun' = [stepRun EXCEPT ![c] = row]
    BY <1>4 DEF UpsertStepRun, Sound, TypeInv, TypeOK
  <2>4. Lifecycle!MoveStep(c, {"paused"}, row.status)
    <3>1. \A from : stepRun[c].status \in from => Lifecycle!MoveStep(c, from, row.status)
      BY <1>2, <2>1, <2>3, SeenStep
    <3>2. stepRun[c].status \in {"paused"}
      BY <2>1
    <3>. QED BY <3>1, <3>2
  <2>. QED BY <2>1, <2>2, <2>4 DEF Lifecycle!Approve
<1>. QED BY <1>1, <1>3, <1>4 DEF ClaimApproval

\* The run ends as its rows say.
LEMMA SeenEnd ==
  ASSUME Sound, NEW h \in Handler, FailRun(h) \/ CompleteRun(h)
  PROVE  Lifecycle!FailRun \/ Lifecycle!Complete
<1>1. CASE FailRun(h)
  <2>1. pc[h] = "failRun" /\ pc[h] \in AtStep /\ pc[h] \in Executing
    BY <1>1 DEF FailRun, AtStep, Executing
  <2>2. /\ run.status = "running" /\ Cursor(h) \in StepId
        /\ stepRun[Cursor(h)].status = "failed"
        /\ \A s \in StepId \ {Cursor(h)} : stepRun[s].status \in {"absent", "completed", "skipped"}
    BY <2>1, Around DEF StatusAt
  <2>3. Lifecycle!Move("running", "failed")
    BY <1>1, <2>2, SeenRun DEF FailRun, EndRun, MarkRun
  <2>4. Lifecycle!Active = {} /\ Lifecycle!Failed # {}
    BY <2>2 DEF Lifecycle!Active, Lifecycle!Failed
  <2>. QED BY <2>3, <2>4 DEF Lifecycle!FailRun
<1>2. CASE CompleteRun(h)
  <2>1. pc[h] = "step" /\ pc[h] \in Executing
    BY <1>2 DEF CompleteRun, Executing
  <2>2. /\ run.status = "running"
        /\ \A s \in StepId : stepRun[s].status \in {"absent", "completed", "skipped"}
    BY <2>1, Around
  <2>3. Lifecycle!Move("running", "completed")
    BY <1>2, <2>2, SeenRun DEF CompleteRun, EndRun, MarkRun
  <2>4. Lifecycle!Active = {} /\ Lifecycle!Failed = {}
    BY <2>2 DEF Lifecycle!Active, Lifecycle!Failed
  <2>. QED BY <2>3, <2>4 DEF Lifecycle!Complete
<1>. QED BY <1>1, <1>2

-----------------------------------------------------------------------------
(* The refinement. *)

\* An inserted run is seen pending, without rows.
LEMMA LifecycleInit == Init => Lifecycle!Init
BY DEF Init, Lifecycle!Init, NoRow

\* Every step of an unedited run is a step of its life cycle, or is not seen.
LEMMA LifecycleNext ==
  ASSUME TypeInv, ExecutionInv, RecordInv, [Next]_vars, edits' = 0
  PROVE  [Lifecycle!Next]_(Lifecycle!view)
<1>1. Sound /\ \A w \in Workflows : ~ EditWorkflow(w)
  BY EditsCounted DEF Sound
<1>2. ASSUME UNCHANGED <<run, stepRun>> PROVE UNCHANGED Lifecycle!view
  BY <1>2, Unseen
<1>3. ASSUME NEW h \in Handler, HandlerStep(h) PROVE [Lifecycle!Next]_(Lifecycle!view)
  <2>1. CASE BeginStep(h) \/ ReachGate(h)
    BY <1>1, <2>1, SeenBegin DEF Lifecycle!Next
  <2>2. CASE FinishStep(h)
    BY <1>1, <2>2, SeenFinish DEF Lifecycle!Next
  <2>3. CASE FailStep(h) \/ FailBranch(h)
    BY <1>1, <2>3, SeenFail DEF Lifecycle!Next
  <2>4. CASE ReportOk(h) \/ ReportErr(h)
    BY <1>1, <2>4, UnseenReport
  <2>5. CASE SkipRest(h) \/ SkipBetween(h)
    BY <1>1, <2>5, SeenSkip DEF Lifecycle!Next
  <2>6. CASE ClaimRun(h)
    BY <1>1, <2>6, SeenStart DEF Lifecycle!Next
  <2>7. CASE PauseRun(h)
    BY <1>1, <2>7, SeenPause DEF Lifecycle!Next
  <2>8. CASE Resume(h)
    BY <1>1, <2>8, SeenResume DEF Lifecycle!Next
  <2>9. CASE ClaimApproval(h)
    BY <1>1, <2>9, SeenApprove DEF Lifecycle!Next
  <2>10. CASE FailRun(h) \/ CompleteRun(h)
    BY <1>1, <2>10, SeenEnd DEF Lifecycle!Next
  <2>11. CASE Load(h) \/ Reload(h) \/ SkipApprovedGate(h) \/ RunBody(h)
    BY <1>2, <2>11 DEF Load, Reload, SkipApprovedGate, RunBody
  <2>. QED
    BY <1>3, <2>1, <2>2, <2>3, <2>4, <2>5, <2>6, <2>7, <2>8, <2>9, <2>10, <2>11
    DEF HandlerStep
<1>. QED
  BY <1>1, <1>2, <1>3
  DEF Next, Deliver, DeliveryTimeout, Respond, AuthorizeApproval, Refused, Crash, vars

(***************************************************************************)
(* A watcher of an unedited run sees what RunLifecycle promises: the whole *)
(* engine, with its redeliveries, approvals, retries, skips, refused and   *)
(* lost requests and crashes, is an implementation of it.                  *)
(***************************************************************************)
THEOREM LifecycleImplemented == Spec /\ [](edits = 0) => ImplementsLifecycle
<1>1. TypeInv /\ ExecutionInv /\ RecordInv /\ [Next]_vars /\ (edits = 0)'
        => [Lifecycle!Next]_(Lifecycle!view)
  BY LifecycleNext
<1>. QED
  BY <1>1, LifecycleInit, TypeCorrect, ExecutionCorrect, RecordCorrect, PTL
  DEF Spec, ImplementsLifecycle, Lifecycle!Spec
=============================================================================
