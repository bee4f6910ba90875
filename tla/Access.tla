------------------------------- MODULE Access -------------------------------
(***************************************************************************)
(* Who may do what: memberships, the Hasura permissions of tables.yaml,    *)
(* the triggers of up.sql that enforce part of them again, and the action  *)
(* handlers that authorize a caller by one read and act by a later         *)
(* request, while owners change memberships and workflows.                 *)
(*                                                                         *)
(* A write through GraphQL is one transaction: both layers see the same    *)
(* state.  A handler is a process: what it read may have changed when it   *)
(* acts.  Quota is left to RunCreation and execution to WorkflowEngine.    *)
(***************************************************************************)
EXTENDS Integers, FiniteSets

CONSTANTS
  Org, User, Workflow, Step, Trigger, Run,  \* ids of rows, deleted ones included
  Call,          \* requests to the handlers that may be in progress at once
  StepType,      \* the step types in use
  TriggerType,   \* the trigger types in use
  Status,        \* the statuses of workflows in use
  MaxAdmin,      \* bound on writes with the admin secret
  MaxSecrets,    \* bound on webhook secrets minted
  None           \* SQL NULL; an absent row

Role                  == {"owner", "editor", "viewer"}
RestrictedSteps       == {"db_write", "notify"}
RestrictedTriggers    == {"webhook"}
ROLES_THAT_MAY_EXECUTE == {"owner", "editor"}
ROLES_THAT_MAY_APPROVE == {"owner", "editor"}

\* The rows of the tables, and the requests a handler has read for.
WorkflowRow == [org : Org, status : Status]
StepRow     == [workflow : Workflow, type : StepType, created_by : User \cup {None},
                updated_by : User \cup {None}, under : Role \cup {"admin"}]
TriggerRow  == [workflow : Workflow, type : TriggerType, enabled : BOOLEAN,
                secret : Nat \cup {None}, created_by : User \cup {None},
                updated_by : User \cup {None}, under : Role \cup {"admin"}]
RunRow      == [workflow : Workflow, org : Org, by : User \cup {None},
                under : Role \cup {"webhook"}, gate : {"none", "waiting", "approved"},
                approver : User \cup {None}, approved_under : Role \cup {None}]
CreateCall  == [at : {"create"}, user : User \cup {None}, target : Workflow,
                under : Role \cup {"webhook"}]
ApproveCall == [at : {"approve"}, user : User, target : Run, under : Role]

\* A workflow begins as a draft.
ASSUME StatusAssumption == "draft" \in Status

\* NULL is no value, and an absent row no row.
ASSUME AccessAssumption ==
  /\ MaxAdmin \in Nat /\ MaxSecrets \in Nat
  /\ None \notin Role \cup {"admin", "webhook"} /\ None \notin User /\ None \notin Org
  /\ None \notin Nat
  /\ None \notin WorkflowRow \cup StepRow \cup TriggerRow \cup RunRow

VARIABLES
  layers,    \* the layers in force; a permission may have been loosened by mistake
  account,   \* auth.users
  members,   \* org_members: the role of a user in an organization, or None
  workflow,  \* workflows
  step,      \* workflow_steps; `under' is the authority type and config were
             \* written under: the writer's role, or "admin" (observer)
  trigger,   \* workflow_triggers
  run,       \* workflow_runs, with the run's approval gate
  call,      \* requests to handlers: what each one read, and does next
  minted,    \* webhook secrets minted so far
  revealed,  \* secrets shown to users: those a webhook caller can know
  admin      \* writes with the admin secret so far

rows == <<account, members, workflow, step, trigger, run>>
vars == <<layers, rows, call, minted, revealed, admin>>

-----------------------------------------------------------------------------
(* Membership, by the walk row -> workflow -> organization -> org_members.  *)

Exists(table, id) == table[id] # None

RoleIn(o, u)     == members[o][u]
OrgOf(w)         == workflow[w].org
RoleFor(w, u)    == IF Exists(workflow, w) THEN RoleIn(OrgOf(w), u) ELSE None
StepsOf(w)       == {s \in Step : Exists(step, s) /\ step[s].workflow = w}
CanRead(w, u)    == RoleFor(w, u) # None
CanEdit(w, u)    == RoleFor(w, u) \in {"owner", "editor"}

\* Layer 1: an owner, or an editor where the row's type is not restricted.
Permits(u, w, type, restricted) ==
  \/ RoleFor(w, u) = "owner"
  \/ RoleFor(w, u) = "editor" /\ ("hasura" \in layers => type \notin restricted)

\* Variant for a check: assert_org_owner is satisfied by any member.
AssertMember(actor, w) == actor = None \/ RoleFor(w, actor) # None

\* assert_org_owner: no actor is the admin secret; else the owner.
AssertOwner(actor, w) == actor = None \/ RoleFor(w, actor) = "owner"

\* Layer 2: enforce_restricted_step_type and enforce_restricted_trigger_type.
Enforced(actor, w, type, restricted) ==
  "database" \in layers /\ type \in restricted => AssertOwner(actor, w)

\* COALESCE(NEW.updated_by, NEW.created_by), of the row as it will be.
ActorOf(r) == IF r.updated_by # None THEN r.updated_by ELSE r.created_by

-----------------------------------------------------------------------------
(* Memberships: only an owner adds, changes or removes members, himself    *)
(* included.                                                               *)

Manages(u, o) == RoleIn(o, u) = "owner"

SetRole(o, u, r) == members' = [members EXCEPT ![o][u] = r]

AddMember(by, o, u, r) ==
  /\ Manages(by, o)
  /\ u \in account /\ RoleIn(o, u) = None
  /\ SetRole(o, u, r)
  /\ UNCHANGED <<account, workflow, step, trigger, run, call, minted, revealed, admin>>

ChangeRole(by, o, u, r) ==
  /\ Manages(by, o)
  /\ RoleIn(o, u) # None
  /\ SetRole(o, u, r)
  /\ UNCHANGED <<account, workflow, step, trigger, run, call, minted, revealed, admin>>

RemoveMember(by, o, u) ==
  /\ Manages(by, o)
  /\ RoleIn(o, u) # None
  /\ SetRole(o, u, None)
  /\ UNCHANGED <<account, workflow, step, trigger, run, call, minted, revealed, admin>>

-----------------------------------------------------------------------------
(* Workflows.                                                              *)

CreateWorkflow(by, w, o) ==
  /\ ~Exists(workflow, w)
  /\ RoleIn(o, by) \in {"owner", "editor"}
  /\ workflow' = [workflow EXCEPT ![w] = [org |-> o, status |-> "draft"]]
  /\ UNCHANGED <<account, members, step, trigger, run, call, minted, revealed, admin>>

\* Name and description are left out; org_id is not updatable.
UpdateWorkflow(by, w, status) ==
  /\ Exists(workflow, w)
  /\ CanEdit(w, by)
  /\ workflow' = [workflow EXCEPT ![w].status = status]
  /\ UNCHANGED <<account, members, step, trigger, run, call, minted, revealed, admin>>

\* Variant for a check: the rows of a deleted workflow stay.
WithoutNothing(table, w) == table

\* ON DELETE CASCADE.
Without(table, w) ==
  [id \in DOMAIN table |->
     IF Exists(table, id) /\ table[id].workflow = w THEN None ELSE table[id]]

DeleteWorkflow(by, w) ==
  /\ Exists(workflow, w)
  /\ RoleFor(w, by) = "owner"
  /\ workflow' = [workflow EXCEPT ![w] = None]
  /\ step' = Without(step, w)
  /\ trigger' = Without(trigger, w)
  /\ run' = Without(run, w)
  /\ UNCHANGED <<account, members, call, minted, revealed, admin>>

-----------------------------------------------------------------------------
(* Steps.  created_by and updated_by are presets from the session.          *)

InsertStep(by, s, w, type) ==
  /\ ~Exists(step, s)
  /\ Permits(by, w, type, RestrictedSteps)
  /\ Enforced(by, w, type, RestrictedSteps)
  /\ step' = [step EXCEPT ![s] = [workflow |-> w, type |-> type, created_by |-> by,
                                  updated_by |-> None, under |-> RoleFor(w, by)]]
  /\ UNCHANGED <<account, members, workflow, trigger, run, call, minted, revealed, admin>>

\* Variant for a check: the preset of updated_by is missing.
TouchedUnstamped(r, by) == r

Touched(r, by) == [r EXCEPT !.updated_by = by]

\* Variant for a check: only the row as it was is looked at.
MayUpdateBefore(by, w, old, new, restricted) == Permits(by, w, old, restricted)

\* Variant for a check: only the row as it will be is looked at.
MayUpdateAfter(by, w, old, new, restricted) == Permits(by, w, new, restricted)

\* The filter of the update permission holds of the old row, its check of the new.
MayUpdate(by, w, old, new, restricted) ==
  Permits(by, w, old, restricted) /\ Permits(by, w, new, restricted)

\* Type or config is written: the database's trigger looks at the new row.
UpdateStep(by, s, type) ==
  /\ Exists(step, s)
  /\ LET w == step[s].workflow IN
     /\ MayUpdate(by, w, step[s].type, type, RestrictedSteps)
     /\ Enforced(ActorOf(Touched(step[s], by)), w, type, RestrictedSteps)
     /\ step' = [step EXCEPT ![s] = [Touched(@, by) EXCEPT !.type = type,
                                                           !.under = RoleFor(w, by)]]
  /\ UNCHANGED <<account, members, workflow, trigger, run, call, minted, revealed, admin>>

\* Only the name or the position is written: the trigger does not fire.
RenameStep(by, s) ==
  /\ Exists(step, s)
  /\ Permits(by, step[s].workflow, step[s].type, RestrictedSteps)
  /\ step' = [step EXCEPT ![s] = Touched(@, by)]
  /\ UNCHANGED <<account, members, workflow, trigger, run, call, minted, revealed, admin>>

DeleteStep(by, s) ==
  /\ Exists(step, s)
  /\ Permits(by, step[s].workflow, step[s].type, RestrictedSteps)
  /\ step' = [step EXCEPT ![s] = None]
  /\ UNCHANGED <<account, members, workflow, trigger, run, call, minted, revealed, admin>>

-----------------------------------------------------------------------------
(* Triggers: one of a type per workflow; the type is not updatable.         *)

\* generate_webhook_secret: BEFORE INSERT, or UPDATE OF type.
Minted(type) == IF type = "webhook" THEN minted + 1 ELSE None
Mint(type)   == /\ type = "webhook" => minted < MaxSecrets
                /\ minted' = IF type = "webhook" THEN minted + 1 ELSE minted

TypeFree(w, type) ==
  \A t \in Trigger :
    Exists(trigger, t) => ~(trigger[t].workflow = w /\ trigger[t].type = type)

NewTrigger(t, w, type, by, under) ==
  trigger' = [trigger EXCEPT ![t] =
    [workflow |-> w, type |-> type, enabled |-> TRUE, secret |-> Minted(type),
     created_by |-> by, updated_by |-> None, under |-> under]]

InsertTrigger(by, t, w, type) ==
  /\ ~Exists(trigger, t)
  /\ TypeFree(w, type)
  /\ Permits(by, w, type, RestrictedTriggers)
  /\ Enforced(by, w, type, RestrictedTriggers)
  /\ Mint(type)
  /\ NewTrigger(t, w, type, by, RoleFor(w, by))
  /\ UNCHANGED <<account, members, workflow, step, run, call, revealed, admin>>

\* The update of type alone would mint a secret, and type is not updatable.
Toggled(r, by, enabled) == [Touched(r, by) EXCEPT !.enabled = enabled]

UpdateTrigger(by, t, enabled) ==
  /\ Exists(trigger, t)
  /\ LET w == trigger[t].workflow
         type == trigger[t].type IN
     /\ MayUpdate(by, w, type, type, RestrictedTriggers)
     /\ Enforced(ActorOf(Touched(trigger[t], by)), w, type, RestrictedTriggers)
     /\ trigger' = [trigger EXCEPT ![t] = [Toggled(@, by, enabled) EXCEPT
                                             !.under = RoleFor(w, by)]]
  /\ UNCHANGED <<account, members, workflow, step, run, call, minted, revealed, admin>>

DeleteTrigger(by, t) ==
  /\ Exists(trigger, t)
  /\ Permits(by, trigger[t].workflow, trigger[t].type, RestrictedTriggers)
  /\ trigger' = [trigger EXCEPT ![t] = None]
  /\ UNCHANGED <<account, members, workflow, step, run, call, minted, revealed, admin>>

-----------------------------------------------------------------------------
(* Writes with the admin secret: no permission applies, the triggers do.   *)

Administers == admin < MaxAdmin /\ admin' = admin + 1

\* The seed's upsert of a membership.
AdminSetRole(o, u, r) ==
  /\ Administers
  /\ u \in account
  /\ SetRole(o, u, r)
  /\ UNCHANGED <<account, workflow, step, trigger, run, call, minted, revealed>>

\* An account is deleted: ON DELETE CASCADE for its memberships, SET NULL else.
Cleared(r, u) ==
  [r EXCEPT !.created_by = IF @ = u THEN None ELSE @,
            !.updated_by = IF @ = u THEN None ELSE @]

Forgotten(table, u) ==
  [id \in DOMAIN table |->
     IF Exists(table, id) THEN Cleared(table[id], u) ELSE None]

\* step_runs_approval_fields_paired: an approval keeps its approver.
Deletable(u) == \A r \in Run : Exists(run, r) => run[r].approver # u

DeleteUser(u) ==
  /\ Administers
  /\ u \in account /\ Deletable(u)
  /\ account' = account \ {u}
  /\ members' = [o \in Org |-> [members[o] EXCEPT ![u] = None]]
  /\ step' = Forgotten(step, u)
  /\ trigger' = Forgotten(trigger, u)
  /\ run' = [r \in Run |-> IF Exists(run, r) /\ run[r].by = u
                           THEN [run[r] EXCEPT !.by = None] ELSE run[r]]
  /\ UNCHANGED <<workflow, call, minted, revealed>>

\* The seed's upsert of a trigger, in the name of `owner': inserted, or enabled
\* again.  The row's updated_by is the one a user left there.
EnforcedUpsert(owner, w, t, type) ==
  /\ Enforced(owner, w, type, RestrictedTriggers)
  /\ Exists(trigger, t) =>
       Enforced(ActorOf(trigger[t]), w, type, RestrictedTriggers)

AdminUpsertTrigger(t, w, type, owner) ==
  /\ Administers
  /\ owner \in account /\ Exists(workflow, w)
  /\ EnforcedUpsert(owner, w, t, type)
  /\ \/ /\ ~Exists(trigger, t) /\ TypeFree(w, type)
        /\ Mint(type)
        /\ NewTrigger(t, w, type, owner, "admin")
     \/ /\ Exists(trigger, t) /\ trigger[t].workflow = w /\ trigger[t].type = type
        /\ trigger' = [trigger EXCEPT ![t].enabled = TRUE, ![t].under = "admin"]
        /\ UNCHANGED minted
  /\ UNCHANGED <<account, members, workflow, step, run, call, revealed>>

-----------------------------------------------------------------------------
(* The handlers.  Each first reads, in one query, everything its verdict    *)
(* depends on; a verdict other than "ok" is its answer.                     *)

NoCall == [at |-> "idle", user |-> None, target |-> None, under |-> None]

Reads(c, next, user, target, under, verdict) ==
  call' = [call EXCEPT ![c] =
    IF verdict = "ok" THEN [at |-> next, user |-> user, target |-> target, under |-> under]
    ELSE NoCall]

Answers(c) == call' = [call EXCEPT ![c] = NoCall]

\* authorizeWorkflowExecution.
ExecutionVerdict(w, role) ==
  IF role = None THEN "not_found"
  ELSE IF role \notin ROLES_THAT_MAY_EXECUTE THEN "forbidden"
  ELSE IF workflow[w].status = "archived" \/ StepsOf(w) = {} THEN "invalid_state"
  ELSE "ok"

\* Variant for a check: every member may approve.
ApprovalByMember(r, role) ==
  IF role = None THEN "not_found"
  ELSE IF run[r].gate # "waiting" THEN "invalid_state" ELSE "ok"

\* authorizeApproval; the gate waits only while the run is paused at it.
ApprovalVerdict(r, role) ==
  IF role = None THEN "not_found"
  ELSE IF role \notin ROLES_THAT_MAY_APPROVE THEN "forbidden"
  ELSE IF run[r].gate # "waiting" THEN "invalid_state"
  ELSE "ok"

RoleForRun(r, u)     == IF Exists(run, r) THEN RoleFor(run[r].workflow, u) ELSE None
RoleForTrigger(t, u) == IF Exists(trigger, t) THEN RoleFor(trigger[t].workflow, u) ELSE None

RevealVerdict(t, role) ==
  IF role = None THEN "not_found"
  ELSE IF role # "owner" THEN "forbidden"
  ELSE IF trigger[t].type # "webhook" THEN "invalid_state"
  ELSE "ok"

\* triggerWorkflowRun.
RequestRun(c, u, w) ==
  /\ call[c].at = "idle"
  /\ Reads(c, "create", u, w, RoleFor(w, u), ExecutionVerdict(w, RoleFor(w, u)))
  /\ UNCHANGED <<rows, minted, revealed, admin>>

WebhookVerdict(t, secret) ==
  IF ~Exists(trigger, t) \/ trigger[t].type # "webhook" \/ trigger[t].secret # secret
    THEN "denied"
  ELSE IF \/ ~trigger[t].enabled
          \/ workflow[trigger[t].workflow].status = "archived"
          \/ StepsOf(trigger[t].workflow) = {}
    THEN "invalid_state"
  ELSE "ok"

\* The webhook route: a caller knows the URLs that were revealed.
RequestByWebhook(c, t, secret) ==
  LET w == IF Exists(trigger, t) THEN trigger[t].workflow ELSE None IN
  /\ call[c].at = "idle"
  /\ Reads(c, "create", None, w, "webhook", WebhookVerdict(t, secret))
  /\ UNCHANGED <<rows, minted, revealed, admin>>

\* createRunWithQuota, the quota granted: the workflow must still exist, and
\* workflow_runs_derive_org overwrites the organization.
CreateRun(c, r) ==
  /\ call[c].at = "create"
  /\ ~Exists(run, r)
  /\ IF Exists(workflow, call[c].target) /\ call[c].user \in account \cup {None}
       THEN /\ run' = [run EXCEPT ![r] =
                 [workflow |-> call[c].target, org |-> OrgOf(call[c].target),
                  by |-> call[c].user, under |-> call[c].under,
                  gate |-> "none", approver |-> None, approved_under |-> None]]
            /\ Answers(c)
       ELSE Answers(c) /\ UNCHANGED run
  /\ UNCHANGED <<account, members, workflow, step, trigger, minted, revealed, admin>>

\* The engine reaches the run's gate (WorkflowEngine).
PauseAtGate(r) ==
  /\ Exists(run, r) /\ run[r].gate = "none"
  /\ run' = [run EXCEPT ![r].gate = "waiting"]
  /\ UNCHANGED <<account, members, workflow, step, trigger, call, minted, revealed, admin>>

RequestApproval(c, u, r) ==
  /\ call[c].at = "idle"
  /\ Reads(c, "approve", u, r, RoleForRun(r, u), ApprovalVerdict(r, RoleForRun(r, u)))
  /\ UNCHANGED <<rows, minted, revealed, admin>>

\* CLAIM_APPROVAL affects the gate's row only while it waits.
Claimable(r) == Exists(run, r) /\ run[r].gate = "waiting"

ApproveStep(c) ==
  LET r == call[c].target IN
  /\ call[c].at = "approve"
  /\ IF Claimable(r) /\ call[c].user \in account
       THEN /\ run' = [run EXCEPT ![r].gate = "approved", ![r].approver = call[c].user,
                                   ![r].approved_under = call[c].under]
            /\ Answers(c)
       ELSE Answers(c) /\ UNCHANGED run
  /\ UNCHANGED <<account, members, workflow, step, trigger, minted, revealed, admin>>

\* getWebhookUrl.
RevealUrl(c, u, t) ==
  LET verdict == RevealVerdict(t, RoleForTrigger(t, u)) IN
  /\ call[c].at = "idle"
  /\ Answers(c)
  /\ revealed' = IF verdict = "ok" THEN revealed \cup {trigger[t].secret} ELSE revealed
  /\ UNCHANGED <<rows, minted, admin>>

-----------------------------------------------------------------------------
\* The tenants have been set up: memberships as any history may have left them.
Init ==
  /\ layers \in (SUBSET {"hasura", "database"}) \ {{}}
  /\ account = User
  /\ members \in [Org -> [User -> Role \cup {None}]]
  /\ workflow = [w \in Workflow |-> None]
  /\ step = [s \in Step |-> None]
  /\ trigger = [t \in Trigger |-> None]
  /\ run = [r \in Run |-> None]
  /\ call = [c \in Call |-> NoCall]
  /\ minted = 0
  /\ revealed = {}
  /\ admin = 0

Manage(by) ==
  \E o \in Org, u \in User :
    \/ \E r \in Role : AddMember(by, o, u, r) \/ ChangeRole(by, o, u, r)
    \/ RemoveMember(by, o, u)

Define(by) ==
  \E w \in Workflow :
    \/ \E o \in Org : CreateWorkflow(by, w, o)
    \/ \E status \in Status : UpdateWorkflow(by, w, status)
    \/ DeleteWorkflow(by, w)
    \/ \E s \in Step, type \in StepType : InsertStep(by, s, w, type)
    \/ \E t \in Trigger, type \in TriggerType : InsertTrigger(by, t, w, type)

Change(by) ==
  \/ \E s \in Step :
       \/ \E type \in StepType : UpdateStep(by, s, type)
       \/ RenameStep(by, s) \/ DeleteStep(by, s)
  \/ \E t \in Trigger :
       \/ \E enabled \in BOOLEAN : UpdateTrigger(by, t, enabled)
       \/ DeleteTrigger(by, t)

Administer ==
  \/ \E o \in Org, u \in User, r \in Role : AdminSetRole(o, u, r)
  \/ \E u \in User : DeleteUser(u)
  \/ \E t \in Trigger, w \in Workflow, type \in TriggerType, owner \in User :
       AdminUpsertTrigger(t, w, type, owner)

Handle(c) ==
  \/ \E u \in User :
       \/ \E w \in Workflow : RequestRun(c, u, w)
       \/ \E r \in Run : RequestApproval(c, u, r)
       \/ \E t \in Trigger : RevealUrl(c, u, t)
  \/ \E t \in Trigger, secret \in revealed : RequestByWebhook(c, t, secret)
  \/ \E r \in Run : CreateRun(c, r)
  \/ ApproveStep(c)

Next ==
  /\ \/ \E by \in User : Manage(by) \/ Define(by) \/ Change(by)
     \/ Administer
     \/ \E c \in Call : Handle(c)
     \/ \E r \in Run : PauseAtGate(r)
  /\ UNCHANGED layers

Spec == Init /\ [][Next]_vars

-----------------------------------------------------------------------------
(* Properties.                                                             *)

Rows(table) == {id \in DOMAIN table : Exists(table, id)}

StepsOK ==
  /\ step \in [Step -> {None} \cup StepRow]
  /\ \A s \in Rows(step) : Exists(workflow, step[s].workflow)

TriggersOK ==
  /\ trigger \in [Trigger -> {None} \cup TriggerRow]
  /\ \A t \in Rows(trigger) :
       /\ Exists(workflow, trigger[t].workflow)
       /\ IF trigger[t].type = "webhook" THEN trigger[t].secret \in 1..minted
                                         ELSE trigger[t].secret = None
  /\ \A t, u \in Rows(trigger) : t # u =>
       /\ trigger[t].workflow = trigger[u].workflow => trigger[t].type # trigger[u].type
       /\ trigger[t].type = "webhook" => trigger[t].secret # trigger[u].secret

RunsOK ==
  /\ run \in [Run -> {None} \cup RunRow]
  /\ \A r \in Rows(run) :
       /\ Exists(workflow, run[r].workflow) /\ run[r].org = OrgOf(run[r].workflow)
       /\ (run[r].gate = "approved") <=> (run[r].approver # None)

\* The rows keep their foreign keys and constraints: what hangs on a workflow
\* has one, a run has its workflow's organization, one trigger of a type, a
\* webhook trigger and no other has a secret, no two the same, and an approval
\* has an approver.
TypeOK ==
  /\ layers \in (SUBSET {"hasura", "database"}) \ {{}}
  /\ account \subseteq User
  /\ members \in [Org -> [User -> Role \cup {None}]]
  /\ workflow \in [Workflow -> {None} \cup WorkflowRow]
  /\ StepsOK /\ TriggersOK /\ RunsOK
  /\ call \in [Call -> {NoCall} \cup CreateCall \cup ApproveCall]
  /\ minted \in 0..MaxSecrets
  /\ revealed \subseteq 1..minted
  /\ admin \in 0..MaxAdmin

\* A restricted step or trigger is as an owner, or the administrator, last
\* wrote it, whatever roles changed before and after: with both layers, and
\* with either layer alone.
RestrictedNeedsOwner ==
  /\ \A s \in Rows(step) :
       step[s].type \in RestrictedSteps => step[s].under \in {"owner", "admin"}
  /\ \A t \in Rows(trigger) :
       trigger[t].type \in RestrictedTriggers => trigger[t].under \in {"owner", "admin"}

\* The layers never disagree about an owner: what Hasura permits, the database
\* accepts, also of rows that others, demoted or deleted since, wrote before.
LayersAgree ==
  layers = {"hasura", "database"} => \A u \in User :
    /\ \A w \in Rows(workflow), type \in StepType :
         Permits(u, w, type, RestrictedSteps) => Enforced(u, w, type, RestrictedSteps)
    /\ \A s \in Rows(step), type \in StepType :
         MayUpdate(u, step[s].workflow, step[s].type, type, RestrictedSteps) =>
           Enforced(ActorOf(Touched(step[s], u)), step[s].workflow, type, RestrictedSteps)
    /\ \A t \in Rows(trigger) :
         LET w == trigger[t].workflow
             type == trigger[t].type IN
         MayUpdate(u, w, type, type, RestrictedTriggers) =>
           Enforced(ActorOf(Touched(trigger[t], u)), w, type, RestrictedTriggers)

NoOwner(o) == \A u \in User : RoleIn(o, u) # "owner"

RestrictedIn(o, table, id, types) ==
  Exists(table, id) /\ OrgOf(table[id].workflow) = o /\ table[id].type \in types

\* An organization whose last owner has gone is frozen: until an administrator
\* steps in, no sequence of its members' requests changes a membership, a
\* restricted step or a webhook trigger.
OwnerlessFrozen ==
  [][\A o \in Org : "hasura" \in layers /\ NoOwner(o) /\ admin' = admin =>
       /\ members'[o] = members[o]
       /\ \A s \in Step : RestrictedIn(o, step, s, RestrictedSteps)
                          \/ RestrictedIn(o, step, s, RestrictedSteps)' => step'[s] = step[s]
       /\ \A t \in Trigger : RestrictedIn(o, trigger, t, RestrictedTriggers)
                          \/ RestrictedIn(o, trigger, t, RestrictedTriggers)' =>
                            trigger'[t] = trigger[t]]_vars

\* A run, and an approval, stands on a role its requester had when he asked,
\* or on a URL an owner revealed; a viewer's or a stranger's request leaves none.
EffectsAuthorized ==
  \A r \in Rows(run) :
    /\ run[r].under \in ROLES_THAT_MAY_EXECUTE \cup {"webhook"}
    /\ run[r].under = "webhook" => run[r].by = None /\ revealed # {}
    /\ run[r].gate = "approved" => run[r].approved_under \in ROLES_THAT_MAY_APPROVE

\* Why EffectsAuthorized holds: a handler goes on only after a verdict that its
\* requester's role, or a revealed URL, allowed.
Authorized(x) ==
  /\ x.at = "create" => x.under \in ROLES_THAT_MAY_EXECUTE \cup {"webhook"}
  /\ x.at = "create" /\ x.under = "webhook" => x.user = None /\ revealed # {}
  /\ x.at = "approve" => x.under \in ROLES_THAT_MAY_APPROVE

CallsAuthorized == \A c \in Call : Authorized(call[c])

\* up.sql sets approved_by to NULL when the approver's account is deleted: the
\* deletion is possible.
AccountsDeletable == \A u \in account : Deletable(u)
=============================================================================
