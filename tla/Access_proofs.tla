---------------------------- MODULE Access_proofs ----------------------------
(***************************************************************************)
(* Proofs about Access, for any number of organizations, users, workflows, *)
(* steps, triggers, runs and calls: the rows keep their foreign keys and   *)
(* constraints; a restricted row is as an owner or the administrator left  *)
(* it, with either layer alone; the layers never disagree about an owner;  *)
(* a run and an approval stand on a role that allowed them; and an         *)
(* organization without an owner is frozen.                                *)
(***************************************************************************)
EXTENDS Access, TLAPS

(* Facts about rows and roles. *)

\* A row that exists has its fields.
LEMMA RowFields ==
  ASSUME TypeOK
  PROVE  /\ \A w \in Workflow : Exists(workflow, w) =>
              workflow[w] \in WorkflowRow /\ OrgOf(w) \in Org
         /\ \A s \in Step : Exists(step, s) =>
              step[s] \in StepRow /\ step[s].workflow \in Workflow
              /\ Exists(workflow, step[s].workflow)
         /\ \A t \in Trigger : Exists(trigger, t) =>
              trigger[t] \in TriggerRow /\ trigger[t].workflow \in Workflow
              /\ Exists(workflow, trigger[t].workflow)
         /\ \A r \in Run : Exists(run, r) =>
              run[r] \in RunRow /\ run[r].workflow \in Workflow
              /\ Exists(workflow, run[r].workflow)
<1>1. \A w \in Workflow : Exists(workflow, w) => workflow[w] \in WorkflowRow
  BY DEF TypeOK, Exists
<1>2. \A s \in Step : Exists(step, s) => step[s] \in StepRow /\ Exists(workflow, step[s].workflow)
  BY DEF TypeOK, StepsOK, Exists, Rows
<1>3. \A t \in Trigger : Exists(trigger, t) =>
        trigger[t] \in TriggerRow /\ Exists(workflow, trigger[t].workflow)
  BY DEF TypeOK, TriggersOK, Exists, Rows
<1>4. \A r \in Run : Exists(run, r) => run[r] \in RunRow /\ Exists(workflow, run[r].workflow)
  BY DEF TypeOK, RunsOK, Exists, Rows
<1>. QED BY <1>1, <1>2, <1>3, <1>4 DEF WorkflowRow, StepRow, TriggerRow, RunRow, OrgOf

\* The rows of a table are those of its ids that are there.
LEMMA RowIds ==
  ASSUME TypeOK
  PROVE  /\ \A s : s \in Rows(step) <=> s \in Step /\ Exists(step, s)
         /\ \A t : t \in Rows(trigger) <=> t \in Trigger /\ Exists(trigger, t)
         /\ \A r : r \in Rows(run) <=> r \in Run /\ Exists(run, r)
         /\ \A w : w \in Rows(workflow) <=> w \in Workflow /\ Exists(workflow, w)
BY DEF TypeOK, StepsOK, TriggersOK, RunsOK, Rows

\* A role of a user for a workflow is a role, and there is one only for a workflow there is.
LEMMA RoleType ==
  ASSUME TypeOK, NEW u \in User, NEW w \in Workflow
  PROVE  /\ RoleFor(w, u) \in Role \cup {None}
         /\ RoleFor(w, u) # None => Exists(workflow, w) /\ RoleFor(w, u) = members[OrgOf(w)][u]
<1>1. Exists(workflow, w) => OrgOf(w) \in Org
  BY RowFields
<1>. QED BY <1>1 DEF RoleFor, RoleIn, TypeOK

\* Whoever is permitted to write has a role, and an editor only where nothing is restricted.
LEMMA PermitsRole ==
  ASSUME TypeOK, NEW u \in User, NEW w \in Workflow, NEW type, NEW restricted,
         Permits(u, w, type, restricted)
  PROVE  /\ RoleFor(w, u) \in {"owner", "editor"} /\ Exists(workflow, w)
         /\ "hasura" \in layers /\ type \in restricted => RoleFor(w, u) = "owner"
<1>1. RoleFor(w, u) \in {"owner", "editor"}
  BY DEF Permits
<1>2. RoleFor(w, u) # None
  BY <1>1, AccessAssumption DEF Role
<1>. QED BY <1>1, <1>2, RoleType DEF Permits

-----------------------------------------------------------------------------
(* Type correctness: one lemma for each way in which a table changes. *)

\* The other tables keep their foreign keys where no workflow goes.
LEMMA SameTables ==
  ASSUME TypeOK, \A w \in Workflow : Exists(workflow, w) =>
                   Exists(workflow, w)' /\ OrgOf(w)' = OrgOf(w)
  PROVE  /\ step' = step => StepsOK'
         /\ trigger' = trigger /\ minted' = minted => TriggersOK'
         /\ run' = run => RunsOK'
<1>1. step' = step => StepsOK'
  BY RowFields, RowIds DEF TypeOK, StepsOK, Rows
<1>2. trigger' = trigger /\ minted' = minted => TriggersOK'
  <2>. SUFFICES ASSUME trigger' = trigger, minted' = minted PROVE TriggersOK'
    OBVIOUS
  <2>1. TriggersOK /\ Rows(trigger)' = Rows(trigger)
    BY DEF TypeOK, Rows, Exists
  <2>2. \A t \in Rows(trigger) : Exists(workflow, trigger[t].workflow)'
    BY RowFields, RowIds
  <2>. QED BY <2>1, <2>2 DEF TriggersOK
<1>3. run' = run => RunsOK'
  <2>. SUFFICES ASSUME run' = run PROVE RunsOK'
    OBVIOUS
  <2>1. RunsOK /\ Rows(run)' = Rows(run)
    BY DEF TypeOK, Rows, Exists
  <2>2. \A r \in Rows(run) : /\ Exists(workflow, run[r].workflow)'
                             /\ OrgOf(run[r].workflow)' = OrgOf(run[r].workflow)
    BY RowFields, RowIds
  <2>. QED BY <2>1, <2>2 DEF RunsOK
<1>. QED BY <1>1, <1>2, <1>3

\* A step is written or deleted.
LEMMA SetStep ==
  ASSUME TypeOK, NEW s \in Step, NEW row \in {None} \cup StepRow,
         row # None => Exists(workflow, row.workflow),
         step' = [step EXCEPT ![s] = row], workflow' = workflow
  PROVE  StepsOK'
<1>1. step' \in [Step -> {None} \cup StepRow]
  BY DEF TypeOK, StepsOK
<1>2. ASSUME NEW x \in Step, step'[x] # None PROVE Exists(workflow, step'[x].workflow)
  <2>1. CASE x = s
    BY <1>2, <2>1 DEF TypeOK, StepsOK
  <2>2. CASE x # s
    BY <1>2, <2>2, RowFields DEF TypeOK, StepsOK, Exists
  <2>. QED BY <2>1, <2>2
<1>. QED BY <1>1, <1>2 DEF StepsOK, Rows, Exists

\* A trigger is written or deleted.
LEMMA SetTrigger ==
  ASSUME TypeOK, NEW t \in Trigger, NEW row \in {None} \cup TriggerRow,
         trigger' = [trigger EXCEPT ![t] = row], workflow' = workflow,
         minted' \in Nat, minted <= minted',
         row # None =>
           /\ Exists(workflow, row.workflow)
           /\ IF row.type = "webhook" THEN row.secret \in 1..minted' ELSE row.secret = None,
         row # None => \A u \in Rows(trigger) \ {t} :
           /\ row.workflow = trigger[u].workflow => row.type # trigger[u].type
           /\ row.type = "webhook" => row.secret # trigger[u].secret
  PROVE  TriggersOK'
<1>1. trigger' \in [Trigger -> {None} \cup TriggerRow]
  BY DEF TypeOK, TriggersOK
<1>2. /\ trigger'[t] = row
      /\ \A u \in Trigger \ {t} : trigger'[u] = trigger[u]
  BY DEF TypeOK, TriggersOK
<1>3. Rows(trigger)' = {u \in Trigger : trigger'[u] # None}
  BY <1>1 DEF Rows, Exists
<1>4. ASSUME NEW u \in Trigger, trigger'[u] # None
      PROVE  /\ Exists(workflow, trigger'[u].workflow)
             /\ IF trigger'[u].type = "webhook" THEN trigger'[u].secret \in 1..minted'
                                                ELSE trigger'[u].secret = None
  <2>1. CASE u = t
    BY <1>2, <1>4, <2>1
  <2>2. CASE u # t
    <3>1. u \in Rows(trigger) /\ trigger'[u] = trigger[u]
      BY <1>2, <1>4, <2>2, RowIds DEF Exists
    <3>2. minted \in Nat
      BY AccessAssumption DEF TypeOK
    <3>. QED BY <3>1, <3>2 DEF TypeOK, TriggersOK
  <2>. QED BY <2>1, <2>2
<1>5. ASSUME NEW u \in Trigger, NEW v \in Trigger, u # v, trigger'[u] # None, trigger'[v] # None
      PROVE  /\ trigger'[u].workflow = trigger'[v].workflow => trigger'[u].type # trigger'[v].type
             /\ trigger'[u].type = "webhook" => trigger'[u].secret # trigger'[v].secret
  <2>1. CASE u = t
    <3>1. v \in Rows(trigger) \ {t} /\ trigger'[v] = trigger[v]
      BY <1>2, <1>5, <2>1, RowIds DEF Exists
    <3>. QED BY <1>2, <1>5, <2>1, <3>1
  <2>2. CASE v = t
    <3>1. u \in Rows(trigger) \ {t} /\ trigger'[u] = trigger[u]
      BY <1>2, <1>5, <2>2, RowIds DEF Exists
    <3>2. /\ row.workflow = trigger[u].workflow => row.type # trigger[u].type
          /\ row.type = "webhook" => row.secret # trigger[u].secret
      BY <1>2, <1>5, <2>2, <3>1
    <3>3. trigger[u].type = "webhook" => trigger[u].secret \in 1..minted
      BY <3>1 DEF TypeOK, TriggersOK
    <3>4. row.type # "webhook" => row.secret = None
      BY <1>2, <1>5, <2>2
    <3>5. None \notin 1..minted
      BY AccessAssumption DEF TypeOK
    <3>. QED BY <1>2, <2>2, <3>1, <3>2, <3>3, <3>4, <3>5
  <2>3. CASE u # t /\ v # t
    <3>1. /\ u \in Rows(trigger) /\ trigger'[u] = trigger[u]
          /\ v \in Rows(trigger) /\ trigger'[v] = trigger[v]
      BY <1>2, <1>5, <2>3, RowIds DEF Exists
    <3>. QED BY <1>5, <3>1 DEF TypeOK, TriggersOK
  <2>. QED BY <2>1, <2>2, <2>3
<1>6. \A u \in Rows(trigger)' :
        /\ Exists(workflow, trigger[u].workflow)'
        /\ IF trigger'[u].type = "webhook" THEN trigger'[u].secret \in 1..minted'
                                           ELSE trigger'[u].secret = None
  BY <1>3, <1>4 DEF Exists
<1>7. \A u, v \in Rows(trigger)' : u # v =>
        /\ trigger'[u].workflow = trigger'[v].workflow => trigger'[u].type # trigger'[v].type
        /\ trigger'[u].type = "webhook" => trigger'[u].secret # trigger'[v].secret
  BY <1>3, <1>5
<1>. QED BY <1>1, <1>6, <1>7 DEF TriggersOK

\* A trigger is written that keeps its workflow, type and secret.
LEMMA TouchTrigger ==
  ASSUME TypeOK, NEW t \in Trigger, Exists(trigger, t), NEW row \in TriggerRow,
         trigger' = [trigger EXCEPT ![t] = row], workflow' = workflow, minted' = minted,
         row.workflow = trigger[t].workflow, row.type = trigger[t].type,
         row.secret = trigger[t].secret
  PROVE  TriggersOK'
<1>1. t \in Rows(trigger) /\ Exists(workflow, trigger[t].workflow) /\ minted \in Nat
  BY RowFields, RowIds, AccessAssumption DEF TypeOK
<1>2. /\ IF row.type = "webhook" THEN row.secret \in 1..minted' ELSE row.secret = None
      /\ Exists(workflow, row.workflow)
      /\ row \in {None} \cup TriggerRow /\ minted' \in Nat /\ minted <= minted'
  BY <1>1 DEF TypeOK, TriggersOK
<1>3. \A u \in Rows(trigger) \ {t} :
        /\ row.workflow = trigger[u].workflow => row.type # trigger[u].type
        /\ row.type = "webhook" => row.secret # trigger[u].secret
  BY <1>1 DEF TypeOK, TriggersOK
<1>. QED BY <1>2, <1>3, SetTrigger

\* A run is written.
LEMMA SetRun ==
  ASSUME TypeOK, NEW r \in Run, NEW row \in RunRow,
         run' = [run EXCEPT ![r] = row], workflow' = workflow,
         Exists(workflow, row.workflow), row.org = OrgOf(row.workflow),
         (row.gate = "approved") <=> (row.approver # None)
  PROVE  RunsOK'
<1>1. run' \in [Run -> {None} \cup RunRow]
  BY DEF TypeOK, RunsOK
<1>2. ASSUME NEW x \in Run, run'[x] # None
      PROVE  /\ Exists(workflow, run'[x].workflow) /\ run'[x].org = OrgOf(run'[x].workflow)
             /\ (run'[x].gate = "approved") <=> (run'[x].approver # None)
  <2>1. CASE x = r
    BY <2>1 DEF TypeOK, RunsOK
  <2>2. CASE x # r
    <3>1. x \in Rows(run) /\ run'[x] = run[x]
      BY <1>2, <2>2, RowIds DEF TypeOK, RunsOK, Exists
    <3>. QED BY <3>1 DEF TypeOK, RunsOK
  <2>. QED BY <2>1, <2>2
<1>. QED BY <1>1, <1>2 DEF RunsOK, Rows, Exists, OrgOf

\* What a table without w's rows, or without a user's name, keeps.
LEMMA WithoutRows ==
  ASSUME NEW table, NEW w
  PROVE  \A id \in DOMAIN table :
           /\ Without(table, w)[id] # None => Without(table, w)[id] = table[id]
           /\ Without(table, w)[id] # None => table[id].workflow # w
BY DEF Without, Exists

\* A deletion cascades to everything that hangs on the workflow.
LEMMA CascadeType ==
  ASSUME TypeOK, NEW w \in Workflow, workflow' = [workflow EXCEPT ![w] = None],
         step' = Without(step, w), trigger' = Without(trigger, w), run' = Without(run, w),
         minted' = minted
  PROVE  StepsOK' /\ TriggersOK' /\ RunsOK'
<1>1. \A x \in Workflow \ {w} : Exists(workflow, x) =>
        Exists(workflow, x)' /\ OrgOf(x)' = OrgOf(x)
  BY DEF TypeOK, Exists, OrgOf
<1>2. StepsOK'
  <2>1. step' \in [Step -> {None} \cup StepRow]
    BY DEF TypeOK, StepsOK, Without
  <2>2. ASSUME NEW s \in Step, step'[s] # None
        PROVE  step'[s] = step[s] /\ Exists(workflow, step[s].workflow)'
    <3>1. step'[s] = step[s] /\ step[s].workflow # w
      BY <2>2, WithoutRows DEF TypeOK, StepsOK
    <3>2. step[s].workflow \in Workflow /\ Exists(workflow, step[s].workflow)
      BY <2>2, <3>1, RowFields DEF Exists
    <3>. QED BY <1>1, <3>1, <3>2
  <2>3. \A s \in Rows(step)' : Exists(workflow, step[s].workflow)'
    BY <2>1, <2>2 DEF Rows, Exists
  <2>. QED BY <2>1, <2>3 DEF StepsOK
<1>3. TriggersOK'
  <2>1. trigger' \in [Trigger -> {None} \cup TriggerRow]
    BY DEF TypeOK, TriggersOK, Without
  <2>2. ASSUME NEW t \in Trigger, trigger'[t] # None
        PROVE  /\ trigger'[t] = trigger[t] /\ t \in Rows(trigger)
               /\ Exists(workflow, trigger[t].workflow)'
    <3>1. trigger'[t] = trigger[t] /\ trigger[t].workflow # w
      BY <2>2, WithoutRows DEF TypeOK, TriggersOK
    <3>2. trigger[t].workflow \in Workflow /\ Exists(workflow, trigger[t].workflow)
      BY <2>2, <3>1, RowFields DEF Exists
    <3>3. t \in Rows(trigger)
      BY <2>2, <3>1, RowIds DEF Exists
    <3>. QED BY <1>1, <3>1, <3>2, <3>3
  <2>3. \A t \in Rows(trigger)' :
          /\ t \in Rows(trigger) /\ trigger'[t] = trigger[t]
          /\ Exists(workflow, trigger[t].workflow)'
    BY <2>1, <2>2 DEF Rows, Exists
  <2>4. \A t \in Rows(trigger)' :
          /\ Exists(workflow, trigger[t].workflow)'
          /\ IF trigger'[t].type = "webhook" THEN trigger'[t].secret \in 1..minted'
                                             ELSE trigger'[t].secret = None
    BY <2>3 DEF TypeOK, TriggersOK
  <2>5. \A t, u \in Rows(trigger)' : t # u =>
          /\ trigger'[t].workflow = trigger'[u].workflow => trigger'[t].type # trigger'[u].type
          /\ trigger'[t].type = "webhook" => trigger'[t].secret # trigger'[u].secret
    BY <2>3 DEF TypeOK, TriggersOK
  <2>. QED BY <2>1, <2>4, <2>5 DEF TriggersOK
<1>4. RunsOK'
  <2>1. run' \in [Run -> {None} \cup RunRow]
    BY DEF TypeOK, RunsOK, Without
  <2>2. ASSUME NEW r \in Run, run'[r] # None
        PROVE  /\ run'[r] = run[r] /\ r \in Rows(run)
               /\ Exists(workflow, run[r].workflow)'
               /\ OrgOf(run[r].workflow)' = OrgOf(run[r].workflow)
    <3>1. run'[r] = run[r] /\ run[r].workflow # w
      BY <2>2, WithoutRows DEF TypeOK, RunsOK
    <3>2. run[r].workflow \in Workflow /\ Exists(workflow, run[r].workflow)
      BY <2>2, <3>1, RowFields DEF Exists
    <3>3. r \in Rows(run)
      BY <2>2, <3>1, RowIds DEF Exists
    <3>. QED BY <1>1, <3>1, <3>2, <3>3
  <2>3. \A r \in Rows(run)' :
          /\ r \in Rows(run) /\ run'[r] = run[r]
          /\ Exists(workflow, run[r].workflow)'
          /\ OrgOf(run[r].workflow)' = OrgOf(run[r].workflow)
    BY <2>1, <2>2 DEF Rows, Exists
  <2>4. \A r \in Rows(run)' :
          /\ Exists(workflow, run[r].workflow)' /\ run'[r].org = OrgOf(run[r].workflow)'
          /\ (run'[r].gate = "approved") <=> (run'[r].approver # None)
    BY <2>3 DEF TypeOK, RunsOK
  <2>. QED BY <2>1, <2>4 DEF RunsOK
<1>. QED BY <1>2, <1>3, <1>4

\* The deletion of an account leaves its name nowhere, and every row where it was.
LEMMA ForgottenType ==
  ASSUME TypeOK, NEW u \in User, DeleteUser(u)
  PROVE  StepsOK' /\ TriggersOK' /\ RunsOK'
<1>1. workflow' = workflow /\ minted' = minted
  BY DEF DeleteUser
<1>2. StepsOK'
  <2>1. \A s \in Step : step'[s] = IF step[s] # None THEN Cleared(step[s], u) ELSE None
    BY DEF DeleteUser, Forgotten, Exists, TypeOK, StepsOK
  <2>2. \A s \in Step : step[s] # None => /\ Cleared(step[s], u) \in StepRow
                                          /\ Cleared(step[s], u).workflow = step[s].workflow
    BY RowFields DEF Exists, Cleared, StepRow
  <2>3. DOMAIN step' = Step
    BY DEF DeleteUser, Forgotten, TypeOK, StepsOK
  <2>4. step' \in [Step -> {None} \cup StepRow]
    BY <2>1, <2>2, <2>3 DEF DeleteUser, Forgotten
  <2>5. \A s \in Rows(step)' : s \in Rows(step) /\ step'[s].workflow = step[s].workflow
    BY <2>1, <2>2, <2>3, RowIds DEF Rows, Exists
  <2>6. \A s \in Rows(step)' : Exists(workflow, step'[s].workflow)
    BY <2>5 DEF TypeOK, StepsOK
  <2>. QED BY <1>1, <2>4, <2>6 DEF StepsOK, Exists
<1>3. TriggersOK'
  <2>1. \A t \in Trigger :
          trigger'[t] = IF trigger[t] # None THEN Cleared(trigger[t], u) ELSE None
    BY DEF DeleteUser, Forgotten, Exists, TypeOK, TriggersOK
  <2>2. \A t \in Trigger : trigger[t] # None =>
          /\ Cleared(trigger[t], u) \in TriggerRow
          /\ Cleared(trigger[t], u).workflow = trigger[t].workflow
          /\ Cleared(trigger[t], u).type = trigger[t].type
          /\ Cleared(trigger[t], u).secret = trigger[t].secret
    BY RowFields DEF Exists, Cleared, TriggerRow
  <2>3. DOMAIN trigger' = Trigger
    BY DEF DeleteUser, Forgotten, TypeOK, TriggersOK
  <2>4. trigger' \in [Trigger -> {None} \cup TriggerRow]
    BY <2>1, <2>2, <2>3 DEF DeleteUser, Forgotten
  <2>5. \A t \in Rows(trigger)' : /\ t \in Rows(trigger)
                                  /\ trigger'[t].workflow = trigger[t].workflow
                                  /\ trigger'[t].type = trigger[t].type
                                  /\ trigger'[t].secret = trigger[t].secret
    BY <2>1, <2>2, <2>3, RowIds DEF Rows, Exists
  <2>. QED BY <1>1, <2>4, <2>5 DEF TypeOK, TriggersOK, Exists
<1>4. RunsOK'
  <2>1. \A r \in Run : run'[r] = IF run[r] # None /\ run[r].by = u
                                 THEN [run[r] EXCEPT !.by = None] ELSE run[r]
    BY DEF DeleteUser, Exists
  <2>2. \A r \in Run : run[r] # None =>
          /\ run'[r] \in RunRow
          /\ run'[r].workflow = run[r].workflow /\ run'[r].org = run[r].org
          /\ run'[r].gate = run[r].gate /\ run'[r].approver = run[r].approver
    BY <2>1, RowFields DEF Exists, RunRow
  <2>3. run' \in [Run -> {None} \cup RunRow]
    BY <2>1, <2>2 DEF DeleteUser
  <2>4. \A r \in Rows(run)' :
          /\ r \in Rows(run)
          /\ run'[r].workflow = run[r].workflow /\ run'[r].org = run[r].org
          /\ run'[r].gate = run[r].gate /\ run'[r].approver = run[r].approver
    BY <2>1, <2>2, <2>3, RowIds DEF Rows, Exists
  <2>. QED BY <1>1, <2>3, <2>4 DEF TypeOK, RunsOK, Exists, OrgOf
<1>. QED BY <1>2, <1>3, <1>4

\* A trigger is inserted, with a secret of its own if it is a webhook.
LEMMA NewTriggerType ==
  ASSUME TypeOK, NEW t \in Trigger, NEW w \in Workflow, NEW type \in TriggerType, NEW by \in User,
         NEW under \in Role \cup {"admin"}, Exists(workflow, w), workflow' = workflow,
         TypeFree(w, type), Mint(type), NewTrigger(t, w, type, by, under)
  PROVE  TriggersOK' /\ minted' \in 0..MaxSecrets /\ minted <= minted'
<1>. DEFINE row == [workflow |-> w, type |-> type, enabled |-> TRUE, secret |-> Minted(type),
                    created_by |-> by, updated_by |-> None, under |-> under]
<1>1. /\ minted \in Nat /\ minted' \in 0..MaxSecrets /\ minted <= minted'
      /\ Minted(type) \in Nat \cup {None}
      /\ IF type = "webhook" THEN Minted(type) \in 1..minted' /\ Minted(type) = minted + 1
                             ELSE Minted(type) = None
  BY AccessAssumption DEF TypeOK, Mint, Minted
<1>2. row \in {None} \cup TriggerRow /\ Exists(workflow, row.workflow)
      /\ row.workflow = w /\ row.type = type /\ row.secret = Minted(type)
  BY <1>1 DEF TriggerRow
<1>3. trigger' = [trigger EXCEPT ![t] = row]
  BY DEF NewTrigger
<1>4. ASSUME NEW u \in Rows(trigger) \ {t}
      PROVE  /\ w = trigger[u].workflow => type # trigger[u].type
             /\ type = "webhook" => Minted(type) # trigger[u].secret
  <2>1. u \in Trigger /\ Exists(trigger, u)
    BY RowIds
  <2>2. IF trigger[u].type = "webhook" THEN trigger[u].secret \in 1..minted
                                       ELSE trigger[u].secret = None
    BY DEF TypeOK, TriggersOK
  <2>3. type = "webhook" => Minted(type) # trigger[u].secret
    BY <1>1, <2>2, AccessAssumption
  <2>. QED BY <2>1, <2>3 DEF TypeFree
<1>5. TriggersOK'
  <2>. HIDE DEF row
  <2>1. IF row.type = "webhook" THEN row.secret \in 1..minted' ELSE row.secret = None
    BY <1>1, <1>2
  <2>2. \A u \in Rows(trigger) \ {t} :
          /\ row.workflow = trigger[u].workflow => row.type # trigger[u].type
          /\ row.type = "webhook" => row.secret # trigger[u].secret
    BY <1>2, <1>4
  <2>3. minted' \in Nat
    BY <1>1
  <2>. QED BY <1>1, <1>2, <1>3, <2>1, <2>2, <2>3, SetTrigger
<1>. QED BY <1>1, <1>5

\* Where the workflows stay, so do the tables that stay.
LEMMA SameWorkflows ==
  ASSUME TypeOK, workflow' = workflow
  PROVE  /\ step' = step => StepsOK'
         /\ trigger' = trigger /\ minted' = minted => TriggersOK'
         /\ run' = run => RunsOK'
<1>1. \A w \in Workflow : Exists(workflow, w) => Exists(workflow, w)' /\ OrgOf(w)' = OrgOf(w)
  BY DEF Exists, OrgOf
<1>. QED BY <1>1, SameTables

\* Memberships.
LEMMA ManageType ==
  ASSUME TypeOK, NEW by \in User, Manage(by), UNCHANGED layers
  PROVE  TypeOK'
<1>1. PICK o \in Org : \E u \in User :
        \/ \E r \in Role : AddMember(by, o, u, r) \/ ChangeRole(by, o, u, r)
        \/ RemoveMember(by, o, u)
  BY DEF Manage
<1>2. PICK u \in User : \/ \E r \in Role : AddMember(by, o, u, r) \/ ChangeRole(by, o, u, r)
                        \/ RemoveMember(by, o, u)
  BY <1>1
<1>3. /\ \E r \in Role \cup {None} : members' = [members EXCEPT ![o][u] = r]
      /\ UNCHANGED <<account, workflow, step, trigger, run, call, minted, revealed, admin>>
  BY <1>2 DEF AddMember, ChangeRole, RemoveMember, SetRole
<1>4. members' \in [Org -> [User -> Role \cup {None}]]
  <2>1. PICK r \in Role \cup {None} : members' = [members EXCEPT ![o][u] = r]
    BY <1>3
  <2>2. [members[o] EXCEPT ![u] = r] \in [User -> Role \cup {None}]
    BY DEF TypeOK
  <2>3. members' = [members EXCEPT ![o] = [members[o] EXCEPT ![u] = r]]
    BY <2>1 DEF TypeOK
  <2>. QED BY <2>2, <2>3 DEF TypeOK
<1>5. StepsOK' /\ TriggersOK' /\ RunsOK'
  BY <1>3, SameWorkflows
<1>. QED BY <1>3, <1>4, <1>5 DEF TypeOK, NoCall

\* Workflows, and the steps and triggers that are inserted into them.
LEMMA DefineType ==
  ASSUME TypeOK, NEW by \in User, Define(by), UNCHANGED layers
  PROVE  TypeOK'
<1>1. PICK w \in Workflow :
        \/ \E o \in Org : CreateWorkflow(by, w, o)
        \/ \E status \in Status : UpdateWorkflow(by, w, status)
        \/ DeleteWorkflow(by, w)
        \/ \E s \in Step : \E type \in StepType : InsertStep(by, s, w, type)
        \/ \E t \in Trigger : \E type \in TriggerType : InsertTrigger(by, t, w, type)
  BY DEF Define
<1>2. ASSUME NEW o \in Org, CreateWorkflow(by, w, o) PROVE TypeOK'
  <2>1. /\ workflow' = [workflow EXCEPT ![w] = [org |-> o, status |-> "draft"]]
        /\ ~ Exists(workflow, w)
        /\ UNCHANGED <<account, members, step, trigger, run, call, minted, revealed, admin>>
    BY <1>2 DEF CreateWorkflow
  <2>2. workflow' \in [Workflow -> {None} \cup WorkflowRow]
    BY <2>1, StatusAssumption DEF TypeOK, WorkflowRow
  <2>3. \A x \in Workflow : Exists(workflow, x) => Exists(workflow, x)' /\ OrgOf(x)' = OrgOf(x)
    BY <2>1 DEF TypeOK, Exists, OrgOf
  <2>4. StepsOK' /\ TriggersOK' /\ RunsOK'
    BY <2>1, <2>3, SameTables
  <2>. QED BY <2>1, <2>2, <2>4 DEF TypeOK, NoCall
<1>3. ASSUME NEW status \in Status, UpdateWorkflow(by, w, status) PROVE TypeOK'
  <2>1. /\ workflow' = [workflow EXCEPT ![w].status = status]
        /\ workflow[w] \in WorkflowRow
        /\ UNCHANGED <<account, members, step, trigger, run, call, minted, revealed, admin>>
    BY <1>3, RowFields DEF UpdateWorkflow
  <2>2. [workflow[w] EXCEPT !.status = status] \in WorkflowRow
        /\ [workflow[w] EXCEPT !.status = status].org = workflow[w].org
    BY <2>1 DEF WorkflowRow
  <2>3. workflow' = [workflow EXCEPT ![w] = [workflow[w] EXCEPT !.status = status]]
    BY <2>1 DEF TypeOK
  <2>4. workflow' \in [Workflow -> {None} \cup WorkflowRow]
    BY <2>2, <2>3 DEF TypeOK
  <2>5. \A x \in Workflow : Exists(workflow, x) => Exists(workflow, x)' /\ OrgOf(x)' = OrgOf(x)
    BY <2>2, <2>3, AccessAssumption DEF TypeOK, Exists, OrgOf
  <2>6. StepsOK' /\ TriggersOK' /\ RunsOK'
    BY <2>1, <2>5, SameTables
  <2>. QED BY <2>1, <2>4, <2>6 DEF TypeOK, NoCall
<1>4. CASE DeleteWorkflow(by, w)
  <2>1. /\ workflow' = [workflow EXCEPT ![w] = None]
        /\ UNCHANGED <<account, members, call, minted, revealed, admin>>
    BY <1>4 DEF DeleteWorkflow
  <2>2. workflow' \in [Workflow -> {None} \cup WorkflowRow]
    BY <2>1 DEF TypeOK
  <2>3. StepsOK' /\ TriggersOK' /\ RunsOK'
    BY <1>4, <2>1, CascadeType DEF DeleteWorkflow
  <2>. QED BY <2>1, <2>2, <2>3 DEF TypeOK, NoCall
<1>5. ASSUME NEW s \in Step, NEW type \in StepType, InsertStep(by, s, w, type) PROVE TypeOK'
  <2>. DEFINE row == [workflow |-> w, type |-> type, created_by |-> by,
                      updated_by |-> None, under |-> RoleFor(w, by)]
  <2>1. /\ step' = [step EXCEPT ![s] = row]
        /\ UNCHANGED <<account, members, workflow, trigger, run, call, minted, revealed, admin>>
    BY <1>5 DEF InsertStep
  <2>2. RoleFor(w, by) \in {"owner", "editor"} /\ Exists(workflow, w)
    BY <1>5, PermitsRole DEF InsertStep
  <2>3. row \in {None} \cup StepRow /\ Exists(workflow, row.workflow)
    BY <2>2 DEF StepRow, Role
  <2>4. StepsOK'
    <3>. HIDE DEF row
    <3>. QED BY <2>1, <2>3, SetStep
  <2>5. TriggersOK' /\ RunsOK'
    BY <2>1, SameWorkflows
  <2>. QED BY <2>1, <2>4, <2>5 DEF TypeOK, NoCall
<1>6. ASSUME NEW t \in Trigger, NEW type \in TriggerType, InsertTrigger(by, t, w, type)
      PROVE  TypeOK'
  <2>1. /\ NewTrigger(t, w, type, by, RoleFor(w, by)) /\ Mint(type) /\ TypeFree(w, type)
        /\ UNCHANGED <<account, members, workflow, step, run, call, revealed, admin>>
    BY <1>6 DEF InsertTrigger
  <2>2. RoleFor(w, by) \in {"owner", "editor"} /\ Exists(workflow, w)
    BY <1>6, PermitsRole DEF InsertTrigger
  <2>3. TriggersOK' /\ minted' \in 0..MaxSecrets /\ minted <= minted'
    BY <2>1, <2>2, NewTriggerType DEF Role
  <2>4. StepsOK' /\ RunsOK'
    BY <2>1, SameWorkflows
  <2>5. revealed' \subseteq 1..minted'
    BY <2>1, <2>3 DEF TypeOK
  <2>. QED BY <2>1, <2>3, <2>4, <2>5 DEF TypeOK, NoCall
<1>. QED BY <1>1, <1>2, <1>3, <1>4, <1>5, <1>6

\* What a user's write of a row leaves.
LEMMA TouchedFields ==
  ASSUME NEW by \in User
  PROVE  /\ \A row \in StepRow : /\ Touched(row, by) \in StepRow
                                 /\ Touched(row, by).updated_by = by
                                 /\ Touched(row, by).workflow = row.workflow
                                 /\ Touched(row, by).type = row.type
                                 /\ Touched(row, by).under = row.under
         /\ \A row \in TriggerRow, enabled \in BOOLEAN :
              /\ Toggled(row, by, enabled) \in TriggerRow
              /\ Toggled(row, by, enabled).workflow = row.workflow
              /\ Toggled(row, by, enabled).type = row.type
              /\ Toggled(row, by, enabled).secret = row.secret
         /\ \A row \in TriggerRow : Touched(row, by).updated_by = by
BY DEF Touched, Toggled, StepRow, TriggerRow

\* A step is changed by a user who is permitted to.
LEMMA ChangeStepType ==
  ASSUME TypeOK, NEW by \in User, NEW s \in Step,
         \/ \E type \in StepType : UpdateStep(by, s, type)
         \/ RenameStep(by, s) \/ DeleteStep(by, s)
  PROVE  /\ StepsOK'
         /\ UNCHANGED <<account, members, workflow, trigger, run, call, minted, revealed, admin>>
<1>1. Exists(step, s) /\ step[s] \in StepRow /\ step[s].workflow \in Workflow
      /\ Exists(workflow, step[s].workflow)
  BY RowFields DEF UpdateStep, RenameStep, DeleteStep
<1>2. PICK touched \in StepRow : /\ touched = Touched(step[s], by)
                                 /\ touched.workflow = step[s].workflow
  BY <1>1, TouchedFields
<1>3. ASSUME NEW type \in StepType, UpdateStep(by, s, type) PROVE StepsOK'
  <2>1. RoleFor(step[s].workflow, by) \in {"owner", "editor"}
    BY <1>1, <1>3, PermitsRole DEF UpdateStep, MayUpdate
  <2>2. PICK under \in Role : under = RoleFor(step[s].workflow, by)
    BY <2>1 DEF Role
  <2>3. PICK row \in StepRow : /\ row = [touched EXCEPT !.type = type, !.under = under]
                               /\ row.workflow = step[s].workflow
    <3>. DEFINE written == [touched EXCEPT !.type = type, !.under = under]
    <3>1. written \in StepRow /\ written.workflow = step[s].workflow
      BY <1>2 DEF StepRow
    <3>. QED BY <3>1
  <2>4. step' = [step EXCEPT ![s] = row]
    BY <1>2, <1>3, <2>2, <2>3 DEF UpdateStep, TypeOK, StepsOK
  <2>5. workflow' = workflow
    BY <1>3 DEF UpdateStep
  <2>. QED BY <1>1, <2>3, <2>4, <2>5, SetStep
<1>4. CASE RenameStep(by, s)
  <2>1. step' = [step EXCEPT ![s] = touched] /\ workflow' = workflow
    BY <1>2, <1>4 DEF RenameStep, TypeOK, StepsOK
  <2>. QED BY <1>1, <1>2, <1>4, <2>1, SetStep DEF RenameStep
<1>5. CASE DeleteStep(by, s)
  <2>1. step' = [step EXCEPT ![s] = None] /\ workflow' = workflow
    BY <1>5 DEF DeleteStep
  <2>. QED BY <1>5, <2>1, SetStep DEF DeleteStep
<1>6. UNCHANGED <<account, members, workflow, trigger, run, call, minted, revealed, admin>>
  BY DEF UpdateStep, RenameStep, DeleteStep
<1>. QED BY <1>3, <1>4, <1>5, <1>6

\* So is a trigger.
LEMMA ChangeTriggerType ==
  ASSUME TypeOK, NEW by \in User, NEW t \in Trigger,
         (\E enabled \in BOOLEAN : UpdateTrigger(by, t, enabled)) \/ DeleteTrigger(by, t)
  PROVE  /\ TriggersOK'
         /\ UNCHANGED <<account, members, workflow, step, run, call, minted, revealed, admin>>
<1>1. Exists(trigger, t) /\ trigger[t] \in TriggerRow /\ trigger[t].workflow \in Workflow
  BY RowFields DEF UpdateTrigger, DeleteTrigger
<1>2. ASSUME NEW enabled \in BOOLEAN, UpdateTrigger(by, t, enabled) PROVE TriggersOK'
  <2>1. RoleFor(trigger[t].workflow, by) \in {"owner", "editor"}
    BY <1>1, <1>2, PermitsRole DEF UpdateTrigger, MayUpdate
  <2>2. PICK under \in Role : under = RoleFor(trigger[t].workflow, by)
    BY <2>1 DEF Role
  <2>3. PICK toggled \in TriggerRow :
          /\ toggled = Toggled(trigger[t], by, enabled)
          /\ toggled.workflow = trigger[t].workflow /\ toggled.type = trigger[t].type
          /\ toggled.secret = trigger[t].secret
    BY <1>1, TouchedFields
  <2>4. PICK row \in TriggerRow :
          /\ row = [toggled EXCEPT !.under = under]
          /\ row.workflow = trigger[t].workflow /\ row.type = trigger[t].type
          /\ row.secret = trigger[t].secret
    <3>. DEFINE written == [toggled EXCEPT !.under = under]
    <3>1. /\ written \in TriggerRow
          /\ written.workflow = trigger[t].workflow /\ written.type = trigger[t].type
          /\ written.secret = trigger[t].secret
      BY <2>3 DEF TriggerRow
    <3>. QED BY <3>1
  <2>5. trigger' = [trigger EXCEPT ![t] = row]
    BY <1>2, <2>2, <2>3, <2>4 DEF UpdateTrigger, TypeOK, TriggersOK
  <2>6. workflow' = workflow /\ minted' = minted
    BY <1>2 DEF UpdateTrigger
  <2>. QED BY <1>1, <2>4, <2>5, <2>6, TouchTrigger
<1>3. CASE DeleteTrigger(by, t)
  <2>1. trigger' = [trigger EXCEPT ![t] = None] /\ workflow' = workflow /\ minted' = minted
    BY <1>3 DEF DeleteTrigger
  <2>2. minted \in Nat /\ minted' \in Nat /\ minted <= minted'
    BY <2>1, AccessAssumption DEF TypeOK
  <2>3. TriggersOK'
    BY <2>1, <2>2, SetTrigger
  <2>. QED BY <1>3, <2>3 DEF DeleteTrigger
<1>4. UNCHANGED <<account, members, workflow, step, run, call, minted, revealed, admin>>
  BY DEF UpdateTrigger, DeleteTrigger
<1>. QED BY <1>2, <1>3, <1>4

\* Writes with the admin secret.
LEMMA AdministerType ==
  ASSUME TypeOK, Administer, UNCHANGED layers
  PROVE  TypeOK'
<1>1. Administers => admin' \in 0..MaxAdmin
  BY AccessAssumption DEF Administers, TypeOK
<1>2. ASSUME NEW o \in Org, NEW u \in User, NEW r \in Role, AdminSetRole(o, u, r) PROVE TypeOK'
  <2>1. /\ members' = [members EXCEPT ![o][u] = r] /\ admin' \in 0..MaxAdmin
        /\ UNCHANGED <<account, workflow, step, trigger, run, call, minted, revealed>>
    BY <1>1, <1>2 DEF AdminSetRole, SetRole
  <2>2. [members[o] EXCEPT ![u] = r] \in [User -> Role \cup {None}]
    BY DEF TypeOK
  <2>3. members' = [members EXCEPT ![o] = [members[o] EXCEPT ![u] = r]]
    BY <2>1 DEF TypeOK
  <2>4. members' \in [Org -> [User -> Role \cup {None}]]
    BY <2>2, <2>3 DEF TypeOK
  <2>5. StepsOK' /\ TriggersOK' /\ RunsOK'
    BY <2>1, SameWorkflows
  <2>. QED BY <2>1, <2>4, <2>5 DEF TypeOK, NoCall
<1>3. ASSUME NEW u \in User, DeleteUser(u) PROVE TypeOK'
  <2>1. /\ account' = account \ {u} /\ admin' \in 0..MaxAdmin
        /\ members' = [o \in Org |-> [members[o] EXCEPT ![u] = None]]
        /\ UNCHANGED <<workflow, call, minted, revealed>>
    BY <1>1, <1>3 DEF DeleteUser
  <2>2. \A o \in Org : [members[o] EXCEPT ![u] = None] \in [User -> Role \cup {None}]
    BY DEF TypeOK
  <2>3. members' \in [Org -> [User -> Role \cup {None}]]
    BY <2>1, <2>2
  <2>4. StepsOK' /\ TriggersOK' /\ RunsOK'
    BY <1>3, ForgottenType
  <2>. QED BY <2>1, <2>3, <2>4 DEF TypeOK, NoCall
<1>4. ASSUME NEW t \in Trigger, NEW w \in Workflow, NEW type \in TriggerType, NEW owner \in User,
             AdminUpsertTrigger(t, w, type, owner)
      PROVE  TypeOK'
  <2>1. /\ admin' \in 0..MaxAdmin /\ Exists(workflow, w)
        /\ UNCHANGED <<account, members, workflow, step, run, call, revealed>>
    BY <1>1, <1>4 DEF AdminUpsertTrigger
  <2>2. TriggersOK' /\ minted' \in 0..MaxSecrets /\ minted <= minted'
    <3>1. CASE TypeFree(w, type) /\ Mint(type) /\ NewTrigger(t, w, type, owner, "admin")
      BY <2>1, <3>1, NewTriggerType
    <3>2. CASE /\ Exists(trigger, t) /\ minted' = minted
               /\ trigger' = [trigger EXCEPT ![t].enabled = TRUE, ![t].under = "admin"]
      <4>1. trigger[t] \in TriggerRow
        BY <3>2, RowFields
      <4>2. PICK row \in TriggerRow :
              /\ row = [trigger[t] EXCEPT !.enabled = TRUE, !.under = "admin"]
              /\ row.workflow = trigger[t].workflow /\ row.type = trigger[t].type
              /\ row.secret = trigger[t].secret
        <5>. DEFINE written == [trigger[t] EXCEPT !.enabled = TRUE, !.under = "admin"]
        <5>1. /\ written \in TriggerRow
              /\ written.workflow = trigger[t].workflow /\ written.type = trigger[t].type
              /\ written.secret = trigger[t].secret
          BY <4>1 DEF TriggerRow
        <5>. QED BY <5>1
      <4>3. trigger' = [trigger EXCEPT ![t] = row]
        BY <3>2, <4>2 DEF TypeOK, TriggersOK
      <4>4. TriggersOK'
        BY <2>1, <3>2, <4>2, <4>3, TouchTrigger
      <4>5. minted \in 0..MaxSecrets
        BY DEF TypeOK
      <4>. QED BY <3>2, <4>4, <4>5
    <3>. QED BY <1>4, <3>1, <3>2 DEF AdminUpsertTrigger
  <2>3. StepsOK' /\ RunsOK'
    BY <2>1, SameWorkflows
  <2>4. revealed' \subseteq 1..minted'
    BY <2>1, <2>2 DEF TypeOK
  <2>. QED BY <2>1, <2>2, <2>3, <2>4 DEF TypeOK, NoCall
<1>. QED BY <1>2, <1>3, <1>4 DEF Administer

-----------------------------------------------------------------------------
(* The handlers. *)

CallState == {NoCall} \cup CreateCall \cup ApproveCall

\* A verdict that lets a handler go on tells what the handler was asked for.
LEMMA VerdictsAllow ==
  ASSUME TypeOK, NEW u \in User
  PROVE  /\ \A w \in Workflow : ExecutionVerdict(w, RoleFor(w, u)) = "ok" =>
              RoleFor(w, u) \in ROLES_THAT_MAY_EXECUTE
         /\ \A r \in Run : ApprovalVerdict(r, RoleForRun(r, u)) = "ok" =>
              RoleForRun(r, u) \in ROLES_THAT_MAY_APPROVE
         /\ \A t \in Trigger : RevealVerdict(t, RoleForTrigger(t, u)) = "ok" =>
              Exists(trigger, t) /\ trigger[t].type = "webhook"
BY DEF ExecutionVerdict, ApprovalVerdict, RevealVerdict, RoleForTrigger

\* What a call is at after a step: nothing, or what a verdict allowed.
LEMMA CallAfter ==
  ASSUME TypeOK, NEW c \in Call, Handle(c)
  PROVE  \E x \in CallState : call' = [call EXCEPT ![c] = x] /\ Authorized(x)
<1>0. NoCall \in CallState /\ Authorized(NoCall)
  BY DEF CallState, NoCall, Authorized
<1>1. ASSUME NEW u \in User, NEW w \in Workflow, RequestRun(c, u, w)
      PROVE  \E x \in CallState : call' = [call EXCEPT ![c] = x] /\ Authorized(x)
  <2>1. CASE ExecutionVerdict(w, RoleFor(w, u)) = "ok"
    <3>1. RoleFor(w, u) \in ROLES_THAT_MAY_EXECUTE
      BY <2>1, VerdictsAllow
    <3>2. PICK under \in ROLES_THAT_MAY_EXECUTE : under = RoleFor(w, u)
      BY <3>1
    <3>. DEFINE x == [at |-> "create", user |-> u, target |-> w, under |-> under]
    <3>3. x \in CallState /\ Authorized(x)
      BY DEF CallState, CreateCall, Authorized, ROLES_THAT_MAY_EXECUTE, Role
    <3>4. call' = [call EXCEPT ![c] = x]
      BY <1>1, <2>1, <3>2 DEF RequestRun, Reads
    <3>. QED BY <3>3, <3>4
  <2>2. CASE ExecutionVerdict(w, RoleFor(w, u)) # "ok"
    <3>1. call' = [call EXCEPT ![c] = NoCall]
      BY <1>1, <2>2 DEF RequestRun, Reads
    <3>. QED BY <1>0, <3>1
  <2>. QED BY <2>1, <2>2
<1>2. ASSUME NEW u \in User, NEW r \in Run, RequestApproval(c, u, r)
      PROVE  \E x \in CallState : call' = [call EXCEPT ![c] = x] /\ Authorized(x)
  <2>1. CASE ApprovalVerdict(r, RoleForRun(r, u)) = "ok"
    <3>1. RoleForRun(r, u) \in ROLES_THAT_MAY_APPROVE
      BY <2>1, VerdictsAllow
    <3>2. PICK under \in ROLES_THAT_MAY_APPROVE : under = RoleForRun(r, u)
      BY <3>1
    <3>. DEFINE x == [at |-> "approve", user |-> u, target |-> r, under |-> under]
    <3>3. x \in CallState /\ Authorized(x)
      BY DEF CallState, ApproveCall, Authorized, ROLES_THAT_MAY_APPROVE, Role
    <3>4. call' = [call EXCEPT ![c] = x]
      BY <1>2, <2>1, <3>2 DEF RequestApproval, Reads
    <3>. QED BY <3>3, <3>4
  <2>2. CASE ApprovalVerdict(r, RoleForRun(r, u)) # "ok"
    <3>1. call' = [call EXCEPT ![c] = NoCall]
      BY <1>2, <2>2 DEF RequestApproval, Reads
    <3>. QED BY <1>0, <3>1
  <2>. QED BY <2>1, <2>2
<1>3. ASSUME NEW t \in Trigger, NEW secret \in revealed, RequestByWebhook(c, t, secret)
      PROVE  \E x \in CallState : call' = [call EXCEPT ![c] = x] /\ Authorized(x)
  <2>1. CASE WebhookVerdict(t, secret) = "ok"
    <3>1. Exists(trigger, t) /\ trigger[t].workflow \in Workflow
      BY <2>1, RowFields DEF WebhookVerdict
    <3>2. PICK w \in Workflow : w = trigger[t].workflow
      BY <3>1
    <3>. DEFINE x == [at |-> "create", user |-> None, target |-> w, under |-> "webhook"]
    <3>3. x \in CallState /\ Authorized(x)
      BY DEF CallState, CreateCall, Authorized, ROLES_THAT_MAY_EXECUTE
    <3>4. call' = [call EXCEPT ![c] = x]
      BY <1>3, <2>1, <3>1, <3>2 DEF RequestByWebhook, Reads
    <3>. QED BY <3>3, <3>4
  <2>2. CASE WebhookVerdict(t, secret) # "ok"
    <3>1. call' = [call EXCEPT ![c] = NoCall]
      BY <1>3, <2>2 DEF RequestByWebhook, Reads
    <3>. QED BY <1>0, <3>1
  <2>. QED BY <2>1, <2>2
<1>4. ASSUME \/ \E u \in User : \E t \in Trigger : RevealUrl(c, u, t)
             \/ \E r \in Run : CreateRun(c, r)
             \/ ApproveStep(c)
      PROVE  \E x \in CallState : call' = [call EXCEPT ![c] = x] /\ Authorized(x)
  <2>1. call' = [call EXCEPT ![c] = NoCall]
    BY <1>4 DEF RevealUrl, CreateRun, ApproveStep, Answers
  <2>. QED BY <1>0, <2>1
<1>. QED BY <1>1, <1>2, <1>3, <1>4 DEF Handle

\* A handler's step: the secrets it may reveal, the calls and the runs.
LEMMA HandleSteps ==
  ASSUME TypeOK, NEW c \in Call, Handle(c)
  PROVE  /\ UNCHANGED <<account, members, workflow, step, trigger, minted, admin>>
         /\ revealed \subseteq revealed' /\ revealed' \subseteq 1..minted
         /\ \/ run' = run
            \/ \E r \in Run : CreateRun(c, r)
            \/ ApproveStep(c)
<1>1. ASSUME NEW u \in User, NEW t \in Trigger, RevealUrl(c, u, t)
      PROVE  revealed \subseteq revealed' /\ revealed' \subseteq 1..minted
  <2>1. revealed \subseteq 1..minted
    BY DEF TypeOK
  <2>2. CASE RevealVerdict(t, RoleForTrigger(t, u)) = "ok"
    <3>1. t \in Rows(trigger) /\ trigger[t].type = "webhook"
      BY <2>2, VerdictsAllow, RowIds
    <3>2. trigger[t].secret \in 1..minted
      BY <3>1 DEF TypeOK, TriggersOK
    <3>. QED BY <1>1, <2>1, <2>2, <3>2 DEF RevealUrl
  <2>. QED BY <1>1, <2>1, <2>2 DEF RevealUrl
<1>2. ASSUME ~ \E u \in User : \E t \in Trigger : RevealUrl(c, u, t)
      PROVE  revealed' = revealed
  BY <1>2 DEF Handle, RequestRun, RequestApproval, RequestByWebhook, CreateRun, ApproveStep
<1>3. revealed \subseteq revealed' /\ revealed' \subseteq 1..minted
  BY <1>1, <1>2 DEF TypeOK
<1>4. UNCHANGED <<account, members, workflow, step, trigger, minted, admin>>
  BY DEF Handle, RequestRun, RequestApproval, RequestByWebhook, RevealUrl, CreateRun,
         ApproveStep, rows
<1>5. run' = run \/ (\E r \in Run : CreateRun(c, r)) \/ ApproveStep(c)
  BY DEF Handle, RequestRun, RequestApproval, RequestByWebhook, RevealUrl, rows
<1>. QED BY <1>3, <1>4, <1>5

\* What a request in progress was read for.
LEMMA CallFields ==
  ASSUME TypeOK, NEW c \in Call
  PROVE  /\ call[c].at = "create" => /\ call[c] \in CreateCall
                                     /\ call[c].target \in Workflow
                                     /\ call[c].user \in User \cup {None}
                                     /\ call[c].under \in Role \cup {"webhook"}
         /\ call[c].at = "approve" => /\ call[c] \in ApproveCall
                                      /\ call[c].target \in Run
                                      /\ call[c].user \in User
                                      /\ call[c].under \in Role
<1>1. call[c] \in {NoCall} \cup CreateCall \cup ApproveCall
  BY DEF TypeOK
<1>. QED BY <1>1 DEF NoCall, CreateCall, ApproveCall

\* What a run stands on.
Stands(row) ==
  /\ row.under \in ROLES_THAT_MAY_EXECUTE \cup {"webhook"}
  /\ row.under = "webhook" => row.by = None /\ revealed # {}
  /\ row.gate = "approved" => row.approved_under \in ROLES_THAT_MAY_APPROVE

\* A handler writes no run, or one that keeps its constraints and stands on its request.
LEMMA RunAfter ==
  ASSUME TypeOK, CallsAuthorized, NEW c \in Call, Handle(c)
  PROVE  \/ run' = run
         \/ \E r \in Run : \E row \in RunRow :
              /\ run' = [run EXCEPT ![r] = row]
              /\ Exists(workflow, row.workflow) /\ row.org = OrgOf(row.workflow)
              /\ (row.gate = "approved") <=> (row.approver # None)
              /\ (r \in Rows(run) => Stands(run[r])) => Stands(row)
<1>1. Authorized(call[c])
  BY DEF CallsAuthorized
<1>2. ASSUME NEW r \in Run, CreateRun(c, r), run' # run
      PROVE  \E row \in RunRow :
               /\ run' = [run EXCEPT ![r] = row]
               /\ Exists(workflow, row.workflow) /\ row.org = OrgOf(row.workflow)
               /\ (row.gate = "approved") <=> (row.approver # None)
               /\ Stands(row)
  <2>1. /\ call[c].at = "create" /\ Exists(workflow, call[c].target)
        /\ run' = [run EXCEPT ![r] =
             [workflow |-> call[c].target, org |-> OrgOf(call[c].target),
              by |-> call[c].user, under |-> call[c].under,
              gate |-> "none", approver |-> None, approved_under |-> None]]
    BY <1>2 DEF CreateRun
  <2>2. PICK w \in Workflow, by \in User \cup {None}, under \in Role \cup {"webhook"}, o \in Org :
          /\ w = call[c].target /\ by = call[c].user /\ under = call[c].under
          /\ o = OrgOf(call[c].target)
    BY <2>1, CallFields, RowFields
  <2>. DEFINE row == [workflow |-> w, org |-> o, by |-> by, under |-> under,
                      gate |-> "none", approver |-> None, approved_under |-> None]
  <2>3. row \in RunRow
    BY DEF RunRow
  <2>4. run' = [run EXCEPT ![r] = row]
    BY <2>1, <2>2
  <2>5. Exists(workflow, w) /\ o = OrgOf(w)
    BY <2>1, <2>2
  <2>6. Stands(row)
    BY <1>1, <2>1, <2>2 DEF Stands, Authorized
  <2>. QED BY <2>3, <2>4, <2>5, <2>6
<1>3. ASSUME ApproveStep(c), run' # run
      PROVE  \E r \in Run : \E row \in RunRow :
               /\ run' = [run EXCEPT ![r] = row]
               /\ Exists(workflow, row.workflow) /\ row.org = OrgOf(row.workflow)
               /\ (row.gate = "approved") <=> (row.approver # None)
               /\ r \in Rows(run) /\ (Stands(run[r]) => Stands(row))
  <2>1. call[c].at = "approve" /\ Claimable(call[c].target) /\ call[c].user \in account
    BY <1>3 DEF ApproveStep
  <2>2. PICK r \in Run, user \in User, under \in Role :
          r = call[c].target /\ user = call[c].user /\ under = call[c].under
    BY <2>1, CallFields
  <2>3. run' = [run EXCEPT ![r].gate = "approved", ![r].approver = user,
                           ![r].approved_under = under]
    BY <1>3, <2>1, <2>2 DEF ApproveStep
  <2>4. /\ Exists(run, r) /\ run[r] \in RunRow /\ r \in Rows(run)
        /\ Exists(workflow, run[r].workflow) /\ run[r].org = OrgOf(run[r].workflow)
    BY <2>1, <2>2, RowFields, RowIds DEF Claimable, TypeOK, RunsOK
  <2>5. PICK old \in RunRow : old = run[r]
    BY <2>4
  <2>. DEFINE row == [old EXCEPT !.gate = "approved", !.approver = user, !.approved_under = under]
  <2>6. /\ row \in RunRow /\ row.workflow = old.workflow /\ row.org = old.org
        /\ row.gate = "approved" /\ row.approver = user /\ row.approved_under = under
        /\ row.under = old.under /\ row.by = old.by
    BY <2>5 DEF RunRow
  <2>7. run' = [run EXCEPT ![r] = row]
    BY <2>3, <2>5 DEF TypeOK, RunsOK
  <2>8. under \in ROLES_THAT_MAY_APPROVE
    BY <1>1, <2>1, <2>2 DEF Authorized
  <2>9. Stands(old) => Stands(row)
    BY <2>6, <2>8 DEF Stands
  <2>10. row.approver # None
    BY <2>6, AccessAssumption
  <2>11. Exists(workflow, row.workflow) /\ row.org = OrgOf(row.workflow)
    BY <2>4, <2>5, <2>6
  <2>. HIDE DEF row
  <2>. QED BY <2>4, <2>5, <2>6, <2>7, <2>9, <2>10, <2>11
<1>. QED BY <1>2, <1>3, HandleSteps

\* A handler keeps the types.
LEMMA HandleType ==
  ASSUME TypeOK, CallsAuthorized, NEW c \in Call, Handle(c), UNCHANGED layers
  PROVE  TypeOK'
<1>1. /\ UNCHANGED <<account, members, workflow, step, trigger, minted, admin>>
      /\ revealed' \subseteq 1..minted
  BY HandleSteps
<1>2. call' \in [Call -> {NoCall} \cup CreateCall \cup ApproveCall]
  BY CallAfter DEF CallState, TypeOK
<1>3. StepsOK' /\ TriggersOK' /\ (run' = run => RunsOK')
  BY <1>1, SameWorkflows
<1>4. RunsOK'
  <2>1. CASE run' = run
    BY <1>3, <2>1
  <2>2. CASE run' # run
    <3>1. PICK r \in Run, row \in RunRow :
            /\ run' = [run EXCEPT ![r] = row]
            /\ Exists(workflow, row.workflow) /\ row.org = OrgOf(row.workflow)
            /\ (row.gate = "approved") <=> (row.approver # None)
      BY <2>2, RunAfter
    <3>. QED BY <1>1, <3>1, SetRun
  <2>. QED BY <2>1, <2>2
<1>. QED BY <1>1, <1>2, <1>3, <1>4 DEF TypeOK, NoCall

\* So does the engine that reaches a gate.
LEMMA PauseType ==
  ASSUME TypeOK, NEW r \in Run, PauseAtGate(r), UNCHANGED layers
  PROVE  TypeOK'
<1>1. PICK old \in RunRow : /\ old = run[r] /\ old.gate = "none" /\ r \in Rows(run)
                            /\ Exists(workflow, old.workflow) /\ old.org = OrgOf(old.workflow)
                            /\ old.approver = None
  BY RowFields, RowIds DEF PauseAtGate, TypeOK, RunsOK
<1>. DEFINE row == [old EXCEPT !.gate = "waiting"]
<1>2. /\ row \in RunRow /\ row.workflow = old.workflow /\ row.org = old.org
      /\ row.gate = "waiting" /\ row.approver = old.approver
  BY DEF RunRow
<1>3. run' = [run EXCEPT ![r] = row]
  BY <1>1 DEF PauseAtGate, TypeOK, RunsOK
<1>4. UNCHANGED <<account, members, workflow, step, trigger, call, minted, revealed, admin>>
  BY DEF PauseAtGate
<1>5. RunsOK'
  <2>. HIDE DEF row
  <2>. QED BY <1>1, <1>2, <1>3, <1>4, SetRun
<1>6. StepsOK' /\ TriggersOK'
  BY <1>4, SameWorkflows
<1>. QED BY <1>4, <1>5, <1>6 DEF TypeOK, NoCall

-----------------------------------------------------------------------------
(* Types, calls and runs are invariant. *)

\* The steps that are no handler's: what becomes of calls and runs.
LEMMA OtherSteps ==
  ASSUME TypeOK,
         \/ \E by \in User : Manage(by) \/ Define(by) \/ Change(by)
         \/ Administer
         \/ \E r \in Run : PauseAtGate(r)
  PROVE  /\ UNCHANGED <<call, revealed>>
         /\ \A r \in Run : run'[r] # None =>
              /\ r \in Rows(run) /\ run'[r].under = run[r].under
              /\ run'[r].by = run[r].by \/ run'[r].by = None
              /\ \/ run'[r].gate = run[r].gate /\ run'[r].approved_under = run[r].approved_under
                 \/ run'[r].gate = "waiting"
<1>. DEFINE Kept == \A r \in Run : run'[r] # None =>
              /\ r \in Rows(run) /\ run'[r].under = run[r].under
              /\ run'[r].by = run[r].by \/ run'[r].by = None
              /\ \/ run'[r].gate = run[r].gate /\ run'[r].approved_under = run[r].approved_under
                 \/ run'[r].gate = "waiting"
<1>1. run' = run => Kept
  BY RowIds DEF Exists
<1>2. ASSUME NEW by \in User, Manage(by) PROVE UNCHANGED <<call, revealed, run>>
  BY <1>2 DEF Manage, AddMember, ChangeRole, RemoveMember
<1>3. ASSUME NEW by \in User, Define(by) PROVE UNCHANGED <<call, revealed>> /\ Kept
  <2>1. UNCHANGED <<call, revealed>>
    BY <1>3 DEF Define, CreateWorkflow, UpdateWorkflow, DeleteWorkflow, InsertStep, InsertTrigger
  <2>2. run' = run \/ \E w \in Workflow : DeleteWorkflow(by, w)
    BY <1>3 DEF Define, CreateWorkflow, UpdateWorkflow, InsertStep, InsertTrigger
  <2>3. ASSUME NEW w \in Workflow, DeleteWorkflow(by, w) PROVE Kept
    <3>1. run' = Without(run, w) /\ DOMAIN run = Run
      BY <2>3 DEF DeleteWorkflow, TypeOK, RunsOK
    <3>2. \A r \in Run : run'[r] # None => run'[r] = run[r]
      BY <3>1, WithoutRows
    <3>. QED BY <3>2, RowIds DEF Exists
  <2>. QED BY <1>1, <2>1, <2>2, <2>3
<1>4. ASSUME NEW by \in User, Change(by) PROVE UNCHANGED <<call, revealed, run>>
  BY <1>4 DEF Change, UpdateStep, RenameStep, DeleteStep, UpdateTrigger, DeleteTrigger
<1>5. ASSUME Administer PROVE UNCHANGED <<call, revealed>> /\ Kept
  <2>1. UNCHANGED <<call, revealed>>
    BY <1>5 DEF Administer, AdminSetRole, DeleteUser, AdminUpsertTrigger
  <2>2. run' = run \/ \E u \in User : DeleteUser(u)
    BY <1>5 DEF Administer, AdminSetRole, AdminUpsertTrigger
  <2>3. ASSUME NEW u \in User, DeleteUser(u) PROVE Kept
    <3>1. \A r \in Run : run'[r] = IF run[r] # None /\ run[r].by = u
                                   THEN [run[r] EXCEPT !.by = None] ELSE run[r]
      BY <2>3 DEF DeleteUser, Exists
    <3>2. \A r \in Run : run[r] # None => run[r] \in RunRow
      BY RowFields DEF Exists
    <3>. QED BY <3>1, <3>2, RowIds DEF Exists, RunRow
  <2>. QED BY <1>1, <2>1, <2>2, <2>3
<1>6. ASSUME NEW r \in Run, PauseAtGate(r) PROVE UNCHANGED <<call, revealed>> /\ Kept
  <2>1. run[r] \in RunRow /\ r \in Rows(run) /\ run' = [run EXCEPT ![r].gate = "waiting"]
    BY <1>6, RowFields, RowIds DEF PauseAtGate
  <2>2. UNCHANGED <<call, revealed>>
    BY <1>6 DEF PauseAtGate
  <2>. QED BY <2>1, <2>2, RowIds DEF TypeOK, RunsOK, Exists, RunRow
<1>. QED BY <1>1, <1>2, <1>3, <1>4, <1>5, <1>6

\* The invariant: the types, and the authority of calls and runs.
AccessInv == TypeOK /\ CallsAuthorized /\ EffectsAuthorized

\* The tables start as the instance says, and no handler is under way.
LEMMA AccessInit == Init => AccessInv
<1>. SUFFICES ASSUME Init PROVE AccessInv
  OBVIOUS
<1>1. /\ layers \in (SUBSET {"hasura", "database"}) \ {{}} /\ account \subseteq User
      /\ members \in [Org -> [User -> Role \cup {None}]]
      /\ workflow \in [Workflow -> {None} \cup WorkflowRow]
      /\ call \in [Call -> {NoCall} \cup CreateCall \cup ApproveCall]
      /\ minted \in 0..MaxSecrets /\ revealed \subseteq 1..minted /\ admin \in 0..MaxAdmin
  BY AccessAssumption DEF Init
<1>2. /\ step \in [Step -> {None} \cup StepRow] /\ Rows(step) = {}
      /\ trigger \in [Trigger -> {None} \cup TriggerRow] /\ Rows(trigger) = {}
      /\ run \in [Run -> {None} \cup RunRow] /\ Rows(run) = {}
  BY DEF Init, Rows, Exists
<1>3. StepsOK /\ TriggersOK /\ RunsOK
  BY <1>2 DEF StepsOK, TriggersOK, RunsOK
<1>4. TypeOK
  BY <1>1, <1>3 DEF TypeOK
<1>5. CallsAuthorized
  BY DEF Init, CallsAuthorized, Authorized, NoCall
<1>6. EffectsAuthorized
  BY <1>2 DEF EffectsAuthorized
<1>. QED BY <1>4, <1>5, <1>6 DEF AccessInv

\* Every mutation and every step of a handler keeps the invariant.
LEMMA AccessNext == AccessInv /\ [Next]_vars => AccessInv'
<1>. SUFFICES ASSUME TypeOK, CallsAuthorized, EffectsAuthorized, [Next]_vars PROVE AccessInv'
  BY DEF AccessInv
<1>1. EffectsAuthorized <=> \A r \in Rows(run) : Stands(run[r])
  BY DEF EffectsAuthorized, Stands
<1>2. CASE UNCHANGED vars
  <2>1. TypeOK'
    BY <1>2, SameWorkflows DEF vars, rows, TypeOK, NoCall
  <2>2. CallsAuthorized' /\ EffectsAuthorized'
    BY <1>2 DEF vars, rows, CallsAuthorized, Authorized, EffectsAuthorized, Rows, Exists
  <2>. QED BY <2>1, <2>2 DEF AccessInv
<1>3. ASSUME UNCHANGED layers,
             \/ \E by \in User : Manage(by) \/ Define(by) \/ Change(by)
             \/ Administer
             \/ \E r \in Run : PauseAtGate(r)
      PROVE  AccessInv'
  <2>1. ASSUME NEW by \in User, Change(by) PROVE TypeOK'
    <3>1. ASSUME NEW s \in Step,
                 \/ \E type \in StepType : UpdateStep(by, s, type)
                 \/ RenameStep(by, s) \/ DeleteStep(by, s)
          PROVE  TypeOK'
      <4>1. StepsOK'
            /\ UNCHANGED <<account, members, workflow, trigger, run, call, minted, revealed, admin>>
        BY <3>1, ChangeStepType
      <4>2. TriggersOK' /\ RunsOK'
        BY <4>1, SameWorkflows
      <4>. QED BY <1>3, <4>1, <4>2 DEF TypeOK, NoCall
    <3>2. ASSUME NEW t \in Trigger,
                 (\E enabled \in BOOLEAN : UpdateTrigger(by, t, enabled)) \/ DeleteTrigger(by, t)
          PROVE  TypeOK'
      <4>1. TriggersOK'
            /\ UNCHANGED <<account, members, workflow, step, run, call, minted, revealed, admin>>
        BY <3>2, ChangeTriggerType
      <4>2. StepsOK' /\ RunsOK'
        BY <4>1, SameWorkflows
      <4>. QED BY <1>3, <4>1, <4>2 DEF TypeOK, NoCall
    <3>. QED BY <2>1, <3>1, <3>2 DEF Change
  <2>2. TypeOK'
    BY <1>3, <2>1, ManageType, DefineType, AdministerType, PauseType
  <2>3. CallsAuthorized'
    BY <1>3, OtherSteps DEF CallsAuthorized, Authorized
  <2>4. \A r \in Rows(run)' : Stands(run[r])'
    <3>1. \A r \in Rows(run)' : r \in Run /\ run'[r] # None
      BY <2>2 DEF TypeOK, RunsOK, Rows, Exists
    <3>. QED BY <1>1, <1>3, <3>1, OtherSteps DEF Stands
  <2>5. EffectsAuthorized'
    BY <2>4 DEF EffectsAuthorized, Stands
  <2>. QED BY <2>2, <2>3, <2>5 DEF AccessInv
<1>4. ASSUME UNCHANGED layers, NEW c \in Call, Handle(c) PROVE AccessInv'
  <2>1. TypeOK'
    BY <1>4, HandleType
  <2>2. revealed \subseteq revealed'
    BY <1>4, HandleSteps
  <2>3. CallsAuthorized'
    <3>1. PICK x \in CallState : call' = [call EXCEPT ![c] = x] /\ Authorized(x)
      BY <1>4, CallAfter
    <3>2. \A y : Authorized(y) => Authorized(y)'
      BY <2>2 DEF Authorized
    <3>3. \A d \in Call : call'[d] = x \/ call'[d] = call[d]
      BY <3>1 DEF TypeOK
    <3>4. \A d \in Call : Authorized(call'[d])
      BY <3>1, <3>3 DEF CallsAuthorized
    <3>. QED BY <2>2, <3>4 DEF CallsAuthorized, Authorized
  <2>4. \A r \in Rows(run)' : Stands(run'[r])
    <3>1. CASE run' = run
      BY <1>1, <3>1 DEF Rows, Exists
    <3>2. CASE run' # run
      <4>1. PICK r \in Run, row \in RunRow :
              /\ run' = [run EXCEPT ![r] = row]
              /\ (r \in Rows(run) => Stands(run[r])) => Stands(row)
        BY <1>4, <3>2, RunAfter
      <4>2. Stands(row)
        BY <1>1, <4>1
      <4>3. \A x \in Rows(run)' : IF x = r THEN run'[x] = row
                                  ELSE x \in Rows(run) /\ run'[x] = run[x]
        BY <4>1, RowIds DEF TypeOK, RunsOK, Rows, Exists
      <4>. QED BY <1>1, <4>2, <4>3
    <3>. QED BY <3>1, <3>2
  <2>5. EffectsAuthorized'
    BY <2>2, <2>4 DEF EffectsAuthorized, Stands
  <2>. QED BY <2>1, <2>3, <2>5 DEF AccessInv
<1>. QED BY <1>2, <1>3, <1>4 DEF Next

\* Type correctness: the rows keep their foreign keys and constraints, whatever is
\* written, deleted with what hangs on it, upserted or forgotten.
THEOREM AccessTypes == Spec => []TypeOK
<1>1. AccessInv => TypeOK
  BY DEF AccessInv
<1>. QED BY <1>1, AccessInit, AccessNext, PTL DEF Spec

\* A run, and an approval, stands on a role its requester had when he asked, or on a URL
\* an owner revealed, although the handler acts later than it reads.
THEOREM EffectsAreAuthorized == Spec => []EffectsAuthorized
<1>1. AccessInv => EffectsAuthorized
  BY DEF AccessInv
<1>. QED BY <1>1, AccessInit, AccessNext, PTL DEF Spec

-----------------------------------------------------------------------------
(* The two layers. *)

\* The actor that the database sees in a row a user touched is that user.
LEMMA ActorIsToucher ==
  ASSUME NEW by \in User
  PROVE  /\ \A row \in StepRow : ActorOf(Touched(row, by)) = by
         /\ \A row \in TriggerRow : ActorOf(Touched(row, by)) = by
<1>1. by # None
  BY AccessAssumption
<1>. QED BY <1>1, TouchedFields DEF ActorOf

\* Whichever layers are in force, a restricted type is written by an owner.
LEMMA RestrictedByOwner ==
  ASSUME TypeOK, NEW by \in User, NEW w \in Workflow, NEW type, NEW restricted,
         Permits(by, w, type, restricted), Enforced(by, w, type, restricted),
         type \in restricted
  PROVE  RoleFor(w, by) = "owner"
<1>1. CASE "hasura" \in layers
  BY <1>1, PermitsRole
<1>2. CASE "database" \in layers
  <2>1. by # None
    BY AccessAssumption
  <2>. QED BY <1>2, <2>1 DEF Enforced, AssertOwner
<1>. QED BY <1>1, <1>2 DEF TypeOK

\* What Hasura permits, the database accepts, also of rows that others, demoted or
\* deleted since, wrote before.
THEOREM TheLayersAgree == Spec => []LayersAgree
<1>1. TypeOK => LayersAgree
  <2>. SUFFICES ASSUME TypeOK, layers = {"hasura", "database"}, NEW u \in User
                PROVE  /\ \A w \in Rows(workflow), type \in StepType :
                            Permits(u, w, type, RestrictedSteps)
                              => Enforced(u, w, type, RestrictedSteps)
                       /\ \A s \in Rows(step), type \in StepType :
                            MayUpdate(u, step[s].workflow, step[s].type, type, RestrictedSteps)
                              => Enforced(ActorOf(Touched(step[s], u)), step[s].workflow, type,
                                          RestrictedSteps)
                       /\ \A t \in Rows(trigger) :
                            MayUpdate(u, trigger[t].workflow, trigger[t].type, trigger[t].type,
                                      RestrictedTriggers)
                              => Enforced(ActorOf(Touched(trigger[t], u)), trigger[t].workflow,
                                          trigger[t].type, RestrictedTriggers)
    BY DEF LayersAgree
  <2>1. \A w \in Workflow : \A type, restricted :
          Permits(u, w, type, restricted) => Enforced(u, w, type, restricted)
    BY PermitsRole DEF Enforced, AssertOwner
  <2>2. \A s \in Rows(step) : ActorOf(Touched(step[s], u)) = u /\ step[s].workflow \in Workflow
    BY RowIds, RowFields, ActorIsToucher
  <2>3. \A t \in Rows(trigger) :
          ActorOf(Touched(trigger[t], u)) = u /\ trigger[t].workflow \in Workflow
    BY RowIds, RowFields, ActorIsToucher
  <2>4. \A w \in Rows(workflow) : w \in Workflow
    BY RowIds
  <2>. QED BY <2>1, <2>2, <2>3, <2>4 DEF MayUpdate
<1>. QED BY <1>1, AccessTypes, PTL

-----------------------------------------------------------------------------
(* Restricted rows. *)

\* A restricted step, or trigger, after a step: it is as it was, or an owner's or the
\* administrator's write.
LEMMA StepsAfter ==
  ASSUME TypeOK, [Next]_vars, NEW s \in Step, step'[s] # None
  PROVE  \/ s \in Rows(step) /\ step'[s].type = step[s].type /\ step'[s].under = step[s].under
         \/ step'[s].type \in RestrictedSteps => step'[s].under \in {"owner", "admin"}
<1>. DEFINE Good == \/ /\ s \in Rows(step)
                       /\ step'[s].type = step[s].type /\ step'[s].under = step[s].under
                    \/ step'[s].type \in RestrictedSteps => step'[s].under \in {"owner", "admin"}
<1>0. DOMAIN step = Step /\ step \in [Step -> {None} \cup StepRow]
  BY DEF TypeOK, StepsOK
<1>1. step'[s] = step[s] => Good
  BY RowIds DEF Exists
<1>2. ASSUME NEW by \in User, NEW w \in Workflow, NEW x \in Step, NEW type \in StepType,
             InsertStep(by, x, w, type)
      PROVE  Good
  <2>1. type \in RestrictedSteps => RoleFor(w, by) = "owner"
    BY <1>2, RestrictedByOwner DEF InsertStep
  <2>2. step' = [step EXCEPT ![x] = [workflow |-> w, type |-> type, created_by |-> by,
                                     updated_by |-> None, under |-> RoleFor(w, by)]]
    BY <1>2 DEF InsertStep
  <2>3. CASE x = s
    <3>1. step'[s].type = type /\ step'[s].under = RoleFor(w, by)
      BY <1>0, <2>2, <2>3
    <3>. QED BY <2>1, <3>1
  <2>4. CASE x # s
    BY <1>0, <1>1, <2>2, <2>4
  <2>. QED BY <2>3, <2>4
<1>3. ASSUME NEW by \in User, NEW x \in Step, NEW type \in StepType, UpdateStep(by, x, type)
      PROVE  Good
  <2>1. step[x] \in StepRow /\ step[x].workflow \in Workflow /\ ActorOf(Touched(step[x], by)) = by
    BY <1>3, RowFields, ActorIsToucher DEF UpdateStep
  <2>2. type \in RestrictedSteps => RoleFor(step[x].workflow, by) = "owner"
    BY <1>3, <2>1, RestrictedByOwner DEF UpdateStep, MayUpdate
  <2>3. PICK touched \in StepRow : touched = Touched(step[x], by)
    BY <2>1, TouchedFields
  <2>4. step' = [step EXCEPT ![x] = [touched EXCEPT !.type = type,
                                                    !.under = RoleFor(step[x].workflow, by)]]
    BY <1>0, <1>3, <2>3 DEF UpdateStep
  <2>5. CASE x = s
    <3>1. step'[s].type = type /\ step'[s].under = RoleFor(step[x].workflow, by)
      BY <1>0, <2>4, <2>5 DEF StepRow
    <3>. QED BY <2>2, <3>1
  <2>6. CASE x # s
    BY <1>0, <1>1, <2>4, <2>6
  <2>. QED BY <2>5, <2>6
<1>4. ASSUME NEW by \in User, NEW x \in Step, RenameStep(by, x) PROVE Good
  <2>1. /\ step[x] \in StepRow /\ x \in Rows(step)
        /\ Touched(step[x], by).type = step[x].type /\ Touched(step[x], by).under = step[x].under
    BY <1>4, RowFields, RowIds, TouchedFields DEF RenameStep
  <2>2. step' = [step EXCEPT ![x] = Touched(step[x], by)]
    BY <1>0, <1>4 DEF RenameStep
  <2>3. CASE x = s
    BY <1>0, <2>1, <2>2, <2>3
  <2>4. CASE x # s
    BY <1>0, <1>1, <2>2, <2>4
  <2>. QED BY <2>3, <2>4
<1>5. ASSUME NEW by \in User, NEW x \in Step, DeleteStep(by, x) PROVE Good
  BY <1>0, <1>1, <1>5 DEF DeleteStep
<1>6. ASSUME NEW by \in User, NEW w \in Workflow, DeleteWorkflow(by, w) PROVE Good
  BY <1>0, <1>1, <1>6, WithoutRows DEF DeleteWorkflow
<1>7. ASSUME NEW u \in User, DeleteUser(u) PROVE Good
  <2>1. step'[s] = Cleared(step[s], u) /\ s \in Rows(step) /\ step[s] \in StepRow
    BY <1>0, <1>7, RowFields, RowIds DEF DeleteUser, Forgotten, Exists
  <2>. QED BY <2>1 DEF Cleared, StepRow
<1>8. ASSUME step' = step PROVE Good
  BY <1>1, <1>8
<1>9. CASE UNCHANGED vars
  BY <1>8, <1>9 DEF vars, rows
<1>10. ASSUME NEW by \in User, Manage(by) PROVE Good
  BY <1>8, <1>10 DEF Manage, AddMember, ChangeRole, RemoveMember
<1>11. ASSUME NEW by \in User, Define(by) PROVE Good
  <2>1. ASSUME step' # step
        PROVE  \E w \in Workflow :
                 \/ DeleteWorkflow(by, w)
                 \/ \E x \in Step : \E type \in StepType : InsertStep(by, x, w, type)
    BY <1>11, <2>1 DEF Define, CreateWorkflow, UpdateWorkflow, InsertTrigger
  <2>. QED BY <1>2, <1>6, <1>8, <2>1
<1>12. ASSUME NEW by \in User, Change(by) PROVE Good
  <2>1. ASSUME step' # step
        PROVE  \E x \in Step : \/ \E type \in StepType : UpdateStep(by, x, type)
                               \/ RenameStep(by, x) \/ DeleteStep(by, x)
    BY <1>12, <2>1 DEF Change, UpdateTrigger, DeleteTrigger
  <2>. QED BY <1>3, <1>4, <1>5, <1>8, <2>1
<1>13. CASE Administer
  <2>1. ASSUME step' # step PROVE \E u \in User : DeleteUser(u)
    BY <1>13, <2>1 DEF Administer, AdminSetRole, AdminUpsertTrigger
  <2>. QED BY <1>7, <1>8, <2>1
<1>14. ASSUME NEW c \in Call, Handle(c) PROVE Good
  BY <1>8, <1>14, HandleSteps
<1>15. ASSUME NEW r \in Run, PauseAtGate(r) PROVE Good
  BY <1>8, <1>15 DEF PauseAtGate
<1>. QED BY <1>9, <1>10, <1>11, <1>12, <1>13, <1>14, <1>15 DEF Next

\* So is a trigger.
LEMMA TriggersAfter ==
  ASSUME TypeOK, [Next]_vars, NEW t \in Trigger, trigger'[t] # None
  PROVE  \/ /\ t \in Rows(trigger)
            /\ trigger'[t].type = trigger[t].type /\ trigger'[t].under = trigger[t].under
         \/ trigger'[t].type \in RestrictedTriggers => trigger'[t].under \in {"owner", "admin"}
<1>. DEFINE Good ==
       \/ /\ t \in Rows(trigger)
          /\ trigger'[t].type = trigger[t].type /\ trigger'[t].under = trigger[t].under
       \/ trigger'[t].type \in RestrictedTriggers => trigger'[t].under \in {"owner", "admin"}
<1>0. DOMAIN trigger = Trigger /\ trigger \in [Trigger -> {None} \cup TriggerRow]
  BY DEF TypeOK, TriggersOK
<1>1. trigger'[t] = trigger[t] => Good
  BY RowIds DEF Exists
<1>2. ASSUME NEW by \in User, NEW w \in Workflow, NEW x \in Trigger, NEW type \in TriggerType,
             InsertTrigger(by, x, w, type)
      PROVE  Good
  <2>1. type \in RestrictedTriggers => RoleFor(w, by) = "owner"
    BY <1>2, RestrictedByOwner DEF InsertTrigger
  <2>2. trigger' = [trigger EXCEPT ![x] =
          [workflow |-> w, type |-> type, enabled |-> TRUE, secret |-> Minted(type),
           created_by |-> by, updated_by |-> None, under |-> RoleFor(w, by)]]
    BY <1>2 DEF InsertTrigger, NewTrigger
  <2>3. CASE x = t
    <3>1. trigger'[t].type = type /\ trigger'[t].under = RoleFor(w, by)
      BY <1>0, <2>2, <2>3
    <3>. QED BY <2>1, <3>1
  <2>4. CASE x # t
    BY <1>0, <1>1, <2>2, <2>4
  <2>. QED BY <2>3, <2>4
<1>3. ASSUME NEW by \in User, NEW x \in Trigger, NEW enabled \in BOOLEAN,
             UpdateTrigger(by, x, enabled)
      PROVE  Good
  <2>1. trigger[x] \in TriggerRow /\ trigger[x].workflow \in Workflow
        /\ ActorOf(Touched(trigger[x], by)) = by
    BY <1>3, RowFields, ActorIsToucher DEF UpdateTrigger
  <2>2. trigger[x].type \in RestrictedTriggers => RoleFor(trigger[x].workflow, by) = "owner"
    BY <1>3, <2>1, RestrictedByOwner DEF UpdateTrigger, MayUpdate
  <2>3. PICK toggled \in TriggerRow : /\ toggled = Toggled(trigger[x], by, enabled)
                                      /\ toggled.type = trigger[x].type
    BY <2>1, TouchedFields
  <2>4. trigger' = [trigger EXCEPT ![x] = [toggled EXCEPT
                                             !.under = RoleFor(trigger[x].workflow, by)]]
    BY <1>0, <1>3, <2>3 DEF UpdateTrigger
  <2>5. CASE x = t
    <3>1. /\ trigger'[t].type = trigger[x].type
          /\ trigger'[t].under = RoleFor(trigger[x].workflow, by)
      BY <1>0, <2>3, <2>4, <2>5 DEF TriggerRow
    <3>. QED BY <2>2, <3>1
  <2>6. CASE x # t
    BY <1>0, <1>1, <2>4, <2>6
  <2>. QED BY <2>5, <2>6
<1>4. ASSUME NEW by \in User, NEW x \in Trigger, DeleteTrigger(by, x) PROVE Good
  BY <1>0, <1>1, <1>4 DEF DeleteTrigger
<1>5. ASSUME NEW by \in User, NEW w \in Workflow, DeleteWorkflow(by, w) PROVE Good
  BY <1>0, <1>1, <1>5, WithoutRows DEF DeleteWorkflow
<1>6. ASSUME NEW u \in User, DeleteUser(u) PROVE Good
  <2>1. trigger'[t] = Cleared(trigger[t], u) /\ t \in Rows(trigger) /\ trigger[t] \in TriggerRow
    BY <1>0, <1>6, RowFields, RowIds DEF DeleteUser, Forgotten, Exists
  <2>. QED BY <2>1 DEF Cleared, TriggerRow
<1>7. ASSUME NEW x \in Trigger, NEW w \in Workflow, NEW type \in TriggerType, NEW owner \in User,
             AdminUpsertTrigger(x, w, type, owner)
      PROVE  Good
  <2>1. CASE NewTrigger(x, w, type, owner, "admin")
    <3>1. trigger' = [trigger EXCEPT ![x] =
            [workflow |-> w, type |-> type, enabled |-> TRUE, secret |-> Minted(type),
             created_by |-> owner, updated_by |-> None, under |-> "admin"]]
      BY <2>1 DEF NewTrigger
    <3>2. CASE x = t
      <4>1. trigger'[t].under = "admin"
        BY <1>0, <3>1, <3>2
      <4>. QED BY <4>1
    <3>3. CASE x # t
      BY <1>0, <1>1, <3>1, <3>3
    <3>. QED BY <3>2, <3>3
  <2>2. CASE /\ Exists(trigger, x)
             /\ trigger' = [trigger EXCEPT ![x].enabled = TRUE, ![x].under = "admin"]
    <3>1. trigger[x] \in TriggerRow
      BY <2>2, RowFields
    <3>2. CASE x = t
      <4>1. trigger'[t].under = "admin"
        BY <1>0, <2>2, <3>1, <3>2 DEF TriggerRow
      <4>. QED BY <4>1
    <3>3. CASE x # t
      BY <1>0, <1>1, <2>2, <3>3
    <3>. QED BY <3>2, <3>3
  <2>. QED BY <1>7, <2>1, <2>2 DEF AdminUpsertTrigger
<1>8. ASSUME trigger' = trigger PROVE Good
  BY <1>1, <1>8
<1>9. CASE UNCHANGED vars
  BY <1>8, <1>9 DEF vars, rows
<1>10. ASSUME NEW by \in User, Manage(by) PROVE Good
  BY <1>8, <1>10 DEF Manage, AddMember, ChangeRole, RemoveMember
<1>11. ASSUME NEW by \in User, Define(by) PROVE Good
  <2>1. ASSUME trigger' # trigger
        PROVE  \E w \in Workflow :
                 \/ DeleteWorkflow(by, w)
                 \/ \E x \in Trigger : \E type \in TriggerType : InsertTrigger(by, x, w, type)
    BY <1>11, <2>1 DEF Define, CreateWorkflow, UpdateWorkflow, InsertStep
  <2>. QED BY <1>2, <1>5, <1>8, <2>1
<1>12. ASSUME NEW by \in User, Change(by) PROVE Good
  <2>1. ASSUME trigger' # trigger
        PROVE  \E x \in Trigger : \/ \E enabled \in BOOLEAN : UpdateTrigger(by, x, enabled)
                                  \/ DeleteTrigger(by, x)
    BY <1>12, <2>1 DEF Change, UpdateStep, RenameStep, DeleteStep
  <2>. QED BY <1>3, <1>4, <1>8, <2>1
<1>13. CASE Administer
  <2>1. ASSUME trigger' # trigger
        PROVE  \/ \E u \in User : DeleteUser(u)
               \/ \E x \in Trigger : \E w \in Workflow : \E type \in TriggerType :
                    \E owner \in User : AdminUpsertTrigger(x, w, type, owner)
    BY <1>13, <2>1 DEF Administer, AdminSetRole
  <2>. QED BY <1>6, <1>7, <1>8, <2>1
<1>14. ASSUME NEW c \in Call, Handle(c) PROVE Good
  BY <1>8, <1>14, HandleSteps
<1>15. ASSUME NEW r \in Run, PauseAtGate(r) PROVE Good
  BY <1>8, <1>15 DEF PauseAtGate
<1>. QED BY <1>9, <1>10, <1>11, <1>12, <1>13, <1>14, <1>15 DEF Next

\* A restricted step or trigger is as an owner, or the administrator, last wrote it: with
\* both layers and with either layer alone, whatever roles changed before and after.
THEOREM RestrictedNeedsAnOwner == Spec => []RestrictedNeedsOwner
<1>1. Init => RestrictedNeedsOwner
  BY DEF Init, RestrictedNeedsOwner, Rows, Exists
<1>2. TypeOK /\ TypeOK' /\ RestrictedNeedsOwner /\ [Next]_vars => RestrictedNeedsOwner'
  <2>. SUFFICES ASSUME TypeOK, TypeOK', RestrictedNeedsOwner, [Next]_vars
                PROVE  RestrictedNeedsOwner'
    OBVIOUS
  <2>1. /\ \A s \in Rows(step)' : s \in Step /\ step'[s] # None
        /\ \A t \in Rows(trigger)' : t \in Trigger /\ trigger'[t] # None
    BY DEF TypeOK, StepsOK, TriggersOK, Rows, Exists
  <2>2. ASSUME NEW s \in Rows(step)', step'[s].type \in RestrictedSteps
        PROVE  step'[s].under \in {"owner", "admin"}
    BY <2>1, <2>2, StepsAfter DEF RestrictedNeedsOwner
  <2>3. ASSUME NEW t \in Rows(trigger)', trigger'[t].type \in RestrictedTriggers
        PROVE  trigger'[t].under \in {"owner", "admin"}
    BY <2>1, <2>3, TriggersAfter DEF RestrictedNeedsOwner
  <2>. QED BY <2>2, <2>3 DEF RestrictedNeedsOwner, RestrictedSteps, RestrictedTriggers
<1>. QED BY <1>1, <1>2, AccessTypes, PTL DEF Spec

-----------------------------------------------------------------------------
(* An organization without an owner. *)

\* No one is permitted to write a restricted type in it, and no one is its owner.
LEMMA OwnerlessDenied ==
  ASSUME TypeOK, "hasura" \in layers, NEW o \in Org, NoOwner(o)
  PROVE  \A by \in User, w \in Workflow :
           /\ RoleFor(w, by) = "owner" => OrgOf(w) # o
           /\ \A type, restricted :
                Permits(by, w, type, restricted) /\ type \in restricted => OrgOf(w) # o
<1>1. \A by \in User, w \in Workflow : RoleFor(w, by) = "owner" => OrgOf(w) # o
  <2>. SUFFICES ASSUME NEW by \in User, NEW w \in Workflow, RoleFor(w, by) = "owner", OrgOf(w) = o
                PROVE  FALSE
    OBVIOUS
  <2>1. RoleFor(w, by) = members[o][by]
    BY RoleType, AccessAssumption DEF Role
  <2>. QED BY <2>1 DEF NoOwner, RoleIn
<1>. QED BY <1>1, PermitsRole

\* Writes with the admin secret are counted.
LEMMA AdministerCounts ==
  ASSUME TypeOK, Administer
  PROVE  admin' # admin
<1>1. admin \in Nat
  BY AccessAssumption DEF TypeOK
<1>2. admin' = admin + 1
  BY DEF Administer, AdminSetRole, DeleteUser, AdminUpsertTrigger, Administers
<1>. QED BY <1>1, <1>2

\* Its memberships stay.
LEMMA MembersFrozen ==
  ASSUME TypeOK, [Next]_vars, NEW o \in Org, NoOwner(o), admin' = admin
  PROVE  members'[o] = members[o]
<1>1. ASSUME NEW by \in User, Manage(by) PROVE members'[o] = members[o]
  <2>1. PICK p \in Org, u \in User :
          \/ \E r \in Role : AddMember(by, p, u, r) \/ ChangeRole(by, p, u, r)
          \/ RemoveMember(by, p, u)
    BY <1>1 DEF Manage
  <2>2. Manages(by, p) /\ \E r \in Role \cup {None} : members' = [members EXCEPT ![p][u] = r]
    BY <2>1 DEF AddMember, ChangeRole, RemoveMember, SetRole
  <2>3. p # o
    BY <2>2 DEF Manages, NoOwner
  <2>. QED BY <2>2, <2>3 DEF TypeOK
<1>2. ASSUME members' = members PROVE members'[o] = members[o]
  BY <1>2
<1>3. CASE UNCHANGED vars
  BY <1>2, <1>3 DEF vars, rows
<1>4. ASSUME NEW by \in User, Define(by) PROVE members' = members
  BY <1>4 DEF Define, CreateWorkflow, UpdateWorkflow, DeleteWorkflow, InsertStep, InsertTrigger
<1>5. ASSUME NEW by \in User, Change(by) PROVE members' = members
  BY <1>5 DEF Change, UpdateStep, RenameStep, DeleteStep, UpdateTrigger, DeleteTrigger
<1>6. ASSUME NEW c \in Call, Handle(c) PROVE members' = members
  BY <1>6, HandleSteps
<1>7. ASSUME NEW r \in Run, PauseAtGate(r) PROVE members' = members
  BY <1>7 DEF PauseAtGate
<1>. QED BY <1>1, <1>2, <1>3, <1>4, <1>5, <1>6, <1>7, AdministerCounts DEF Next

\* Its restricted steps stay, and no new one comes.
LEMMA StepsFrozen ==
  ASSUME TypeOK, [Next]_vars, "hasura" \in layers, NEW o \in Org, NoOwner(o), admin' = admin,
         NEW s \in Step, step'[s] # step[s]
  PROVE  ~ RestrictedIn(o, step, s, RestrictedSteps) /\ ~ RestrictedIn(o, step, s, RestrictedSteps)'
<1>. DEFINE Good == /\ ~ RestrictedIn(o, step, s, RestrictedSteps)
                    /\ ~ RestrictedIn(o, step, s, RestrictedSteps)'
<1>0. DOMAIN step = Step /\ step \in [Step -> {None} \cup StepRow]
  BY DEF TypeOK, StepsOK
<1>1. ASSUME NEW by \in User, NEW w \in Workflow, NEW x \in Step, NEW type \in StepType,
             InsertStep(by, x, w, type)
      PROVE  Good
  <2>1. /\ step' = [step EXCEPT ![x] = [workflow |-> w, type |-> type, created_by |-> by,
                                        updated_by |-> None, under |-> RoleFor(w, by)]]
        /\ workflow' = workflow /\ step[x] = None
    BY <1>1 DEF InsertStep, Exists
  <2>2. x = s
    BY <1>0, <2>1
  <2>3. step[s] = None /\ step'[s].workflow = w /\ step'[s].type = type
    BY <1>0, <2>1, <2>2
  <2>4. type \in RestrictedSteps => OrgOf(w) # o
    BY <1>1, OwnerlessDenied DEF InsertStep
  <2>. QED BY <2>1, <2>3, <2>4 DEF RestrictedIn, Exists, OrgOf
<1>2. ASSUME NEW by \in User, NEW x \in Step, NEW type \in StepType, UpdateStep(by, x, type)
      PROVE  Good
  <2>1. /\ step[x] \in StepRow /\ step[x].workflow \in Workflow /\ workflow' = workflow
        /\ Permits(by, step[x].workflow, step[x].type, RestrictedSteps)
        /\ Permits(by, step[x].workflow, type, RestrictedSteps)
    BY <1>2, RowFields DEF UpdateStep, MayUpdate
  <2>2. PICK touched \in StepRow :
          touched = Touched(step[x], by) /\ touched.workflow = step[x].workflow
    BY <2>1, TouchedFields
  <2>3. step' = [step EXCEPT ![x] = [touched EXCEPT !.type = type,
                                                    !.under = RoleFor(step[x].workflow, by)]]
    BY <1>0, <1>2, <2>2 DEF UpdateStep
  <2>4. x = s
    BY <1>0, <2>3
  <2>5. step'[s].workflow = step[s].workflow /\ step'[s].type = type
    BY <1>0, <2>2, <2>3, <2>4 DEF StepRow
  <2>6. /\ step[s].type \in RestrictedSteps => OrgOf(step[s].workflow) # o
        /\ type \in RestrictedSteps => OrgOf(step[s].workflow) # o
    BY <2>1, <2>4, OwnerlessDenied
  <2>. QED BY <2>1, <2>5, <2>6 DEF RestrictedIn, OrgOf
<1>3. ASSUME NEW by \in User, NEW x \in Step, RenameStep(by, x) \/ DeleteStep(by, x) PROVE Good
  <2>1. /\ step[x] \in StepRow /\ step[x].workflow \in Workflow /\ workflow' = workflow
        /\ Permits(by, step[x].workflow, step[x].type, RestrictedSteps)
    BY <1>3, RowFields DEF RenameStep, DeleteStep
  <2>2. x = s
    BY <1>0, <1>3 DEF RenameStep, DeleteStep
  <2>3. step[s].type \in RestrictedSteps => OrgOf(step[s].workflow) # o
    BY <2>1, <2>2, OwnerlessDenied
  <2>4. \/ step'[s] = None
        \/ step'[s].workflow = step[s].workflow /\ step'[s].type = step[s].type
    BY <1>0, <1>3, <2>1, <2>2, TouchedFields DEF RenameStep, DeleteStep
  <2>. QED BY <2>1, <2>3, <2>4 DEF RestrictedIn, Exists, OrgOf
<1>4. ASSUME NEW by \in User, NEW w \in Workflow, DeleteWorkflow(by, w) PROVE Good
  <2>1. OrgOf(w) # o /\ step' = Without(step, w)
    BY <1>4, OwnerlessDenied DEF DeleteWorkflow
  <2>2. step'[s] = None /\ step[s].workflow = w
    BY <1>0, <2>1 DEF Without, Exists
  <2>. QED BY <2>1, <2>2 DEF RestrictedIn, Exists
<1>5. ASSUME NEW by \in User, Define(by)
      PROVE  \E w \in Workflow :
               \/ DeleteWorkflow(by, w)
               \/ \E x \in Step : \E type \in StepType : InsertStep(by, x, w, type)
  BY <1>5 DEF Define, CreateWorkflow, UpdateWorkflow, InsertTrigger
<1>6. ASSUME NEW by \in User, Change(by)
      PROVE  \E x \in Step : \/ \E type \in StepType : UpdateStep(by, x, type)
                             \/ RenameStep(by, x) \/ DeleteStep(by, x)
  BY <1>6 DEF Change, UpdateTrigger, DeleteTrigger
<1>7. ~ UNCHANGED vars /\ \A by \in User : ~ Manage(by)
  BY DEF vars, rows, Manage, AddMember, ChangeRole, RemoveMember
<1>8. /\ \A c \in Call : ~ Handle(c)
      /\ \A r \in Run : ~ PauseAtGate(r)
  BY HandleSteps DEF PauseAtGate
<1>. QED BY <1>1, <1>2, <1>3, <1>4, <1>5, <1>6, <1>7, <1>8, AdministerCounts DEF Next

\* So do its webhook triggers.
LEMMA TriggersFrozen ==
  ASSUME TypeOK, [Next]_vars, "hasura" \in layers, NEW o \in Org, NoOwner(o), admin' = admin,
         NEW t \in Trigger, trigger'[t] # trigger[t]
  PROVE  /\ ~ RestrictedIn(o, trigger, t, RestrictedTriggers)
         /\ ~ RestrictedIn(o, trigger, t, RestrictedTriggers)'
<1>. DEFINE Good == /\ ~ RestrictedIn(o, trigger, t, RestrictedTriggers)
                    /\ ~ RestrictedIn(o, trigger, t, RestrictedTriggers)'
<1>0. DOMAIN trigger = Trigger /\ trigger \in [Trigger -> {None} \cup TriggerRow]
  BY DEF TypeOK, TriggersOK
<1>1. ASSUME NEW by \in User, NEW w \in Workflow, NEW x \in Trigger, NEW type \in TriggerType,
             InsertTrigger(by, x, w, type)
      PROVE  Good
  <2>1. /\ trigger' = [trigger EXCEPT ![x] =
             [workflow |-> w, type |-> type, enabled |-> TRUE, secret |-> Minted(type),
              created_by |-> by, updated_by |-> None, under |-> RoleFor(w, by)]]
        /\ workflow' = workflow /\ trigger[x] = None
    BY <1>1 DEF InsertTrigger, NewTrigger, Exists
  <2>2. x = t
    BY <1>0, <2>1
  <2>3. trigger[t] = None /\ trigger'[t].workflow = w /\ trigger'[t].type = type
    BY <1>0, <2>1, <2>2
  <2>4. type \in RestrictedTriggers => OrgOf(w) # o
    BY <1>1, OwnerlessDenied DEF InsertTrigger
  <2>. QED BY <2>1, <2>3, <2>4 DEF RestrictedIn, Exists, OrgOf
<1>2. ASSUME NEW by \in User, NEW x \in Trigger,
             (\E enabled \in BOOLEAN : UpdateTrigger(by, x, enabled)) \/ DeleteTrigger(by, x)
      PROVE  Good
  <2>1. /\ trigger[x] \in TriggerRow /\ trigger[x].workflow \in Workflow /\ workflow' = workflow
        /\ Permits(by, trigger[x].workflow, trigger[x].type, RestrictedTriggers)
    BY <1>2, RowFields DEF UpdateTrigger, DeleteTrigger, MayUpdate
  <2>2. x = t
    BY <1>0, <1>2 DEF UpdateTrigger, DeleteTrigger
  <2>3. trigger[t].type \in RestrictedTriggers => OrgOf(trigger[t].workflow) # o
    BY <2>1, <2>2, OwnerlessDenied
  <2>4. \/ trigger'[t] = None
        \/ trigger'[t].workflow = trigger[t].workflow /\ trigger'[t].type = trigger[t].type
    <3>1. ASSUME NEW enabled \in BOOLEAN, UpdateTrigger(by, x, enabled)
          PROVE  trigger'[t].workflow = trigger[t].workflow /\ trigger'[t].type = trigger[t].type
      <4>1. PICK toggled \in TriggerRow :
              /\ toggled = Toggled(trigger[t], by, enabled)
              /\ toggled.workflow = trigger[t].workflow /\ toggled.type = trigger[t].type
        BY <2>1, <2>2, TouchedFields
      <4>2. trigger'[t] = [toggled EXCEPT !.under = RoleFor(trigger[t].workflow, by)]
        BY <1>0, <2>2, <3>1, <4>1 DEF UpdateTrigger
      <4>. QED BY <4>1, <4>2 DEF TriggerRow
    <3>2. DeleteTrigger(by, x) => trigger'[t] = None
      BY <1>0, <2>2 DEF DeleteTrigger
    <3>. QED BY <1>2, <3>1, <3>2
  <2>. QED BY <2>1, <2>3, <2>4 DEF RestrictedIn, Exists, OrgOf
<1>3. ASSUME NEW by \in User, NEW w \in Workflow, DeleteWorkflow(by, w) PROVE Good
  <2>1. OrgOf(w) # o /\ trigger' = Without(trigger, w)
    BY <1>3, OwnerlessDenied DEF DeleteWorkflow
  <2>2. trigger'[t] = None /\ trigger[t].workflow = w
    BY <1>0, <2>1 DEF Without, Exists
  <2>. QED BY <2>1, <2>2 DEF RestrictedIn, Exists
<1>4. ASSUME NEW by \in User, Define(by)
      PROVE  \E w \in Workflow :
               \/ DeleteWorkflow(by, w)
               \/ \E x \in Trigger : \E type \in TriggerType : InsertTrigger(by, x, w, type)
  BY <1>4 DEF Define, CreateWorkflow, UpdateWorkflow, InsertStep
<1>5. ASSUME NEW by \in User, Change(by)
      PROVE  \E x \in Trigger : \/ \E enabled \in BOOLEAN : UpdateTrigger(by, x, enabled)
                                \/ DeleteTrigger(by, x)
  BY <1>5 DEF Change, UpdateStep, RenameStep, DeleteStep
<1>6. ~ UNCHANGED vars /\ \A by \in User : ~ Manage(by)
  BY DEF vars, rows, Manage, AddMember, ChangeRole, RemoveMember
<1>7. /\ \A c \in Call : ~ Handle(c)
      /\ \A r \in Run : ~ PauseAtGate(r)
  BY HandleSteps DEF PauseAtGate
<1>. QED BY <1>1, <1>2, <1>3, <1>4, <1>5, <1>6, <1>7, AdministerCounts DEF Next

\* An organization whose last owner has gone is frozen: until an administrator steps in,
\* no sequence of its members' requests changes a membership, a restricted step or a
\* webhook trigger.
THEOREM OwnerlessIsFrozen == Spec => OwnerlessFrozen
<1>. DEFINE Frozen ==
       \A o \in Org : "hasura" \in layers /\ NoOwner(o) /\ admin' = admin =>
         /\ members'[o] = members[o]
         /\ \A s \in Step : RestrictedIn(o, step, s, RestrictedSteps)
                            \/ RestrictedIn(o, step, s, RestrictedSteps)' => step'[s] = step[s]
         /\ \A t \in Trigger : RestrictedIn(o, trigger, t, RestrictedTriggers)
                            \/ RestrictedIn(o, trigger, t, RestrictedTriggers)' =>
                              trigger'[t] = trigger[t]
<1>1. TypeOK /\ [Next]_vars => [Frozen]_vars
  <2>. SUFFICES ASSUME TypeOK, [Next]_vars PROVE Frozen
    OBVIOUS
  <2>. SUFFICES ASSUME NEW o \in Org, "hasura" \in layers, NoOwner(o), admin' = admin
                PROVE  /\ members'[o] = members[o]
                       /\ \A s \in Step : step'[s] # step[s] =>
                            /\ ~ RestrictedIn(o, step, s, RestrictedSteps)
                            /\ ~ RestrictedIn(o, step, s, RestrictedSteps)'
                       /\ \A t \in Trigger : trigger'[t] # trigger[t] =>
                            /\ ~ RestrictedIn(o, trigger, t, RestrictedTriggers)
                            /\ ~ RestrictedIn(o, trigger, t, RestrictedTriggers)'
    OBVIOUS
  <2>. QED BY MembersFrozen, StepsFrozen, TriggersFrozen
<1>. QED BY <1>1, AccessTypes, PTL DEF Spec, OwnerlessFrozen
=============================================================================
