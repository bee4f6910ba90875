# Workflow builder: verification project

TLA+ models of the workflow engine in this repository, the TLC runs that check
them, and TLAPS proofs of the theorems that matter most. Paths below are
relative to `src/`.

## Inventory

A user defines a workflow as an ordered list of steps; a trigger inserts a row
into `workflow_runs`; Hasura raises an event for the insert; the event receiver
executes the steps one by one and records them in `step_runs`; a step of type
`approval_gate` pauses the run until somebody approves it. A browser edits the
definitions and watches the runs. All state that lasts is in Postgres and is
read and written by GraphQL requests, each of which is one transaction.
Nothing else is shared, and no lock is held between two requests.

| Component | State | Operations | Interacts with |
|---|---|---|---|
| Run execution (`packages/engine/src/core/engine.ts`, `repository.ts`) | `workflow_runs.status`, `resume_position`; `step_runs` | load, claim, resume, the step loop, branch, pause, complete, fail | called by the event receiver and the approval action |
| Retry (`core/retry.ts`) | attempt number of the step in hand | `withRetry`, `onAttempt`, `resolvePolicy` | wraps each step body |
| Approval (`core/approval.ts`, `core/authz.ts`, `approve-step/route.ts`) | `approved_by` of a gate's row | check, claim, resume | calls `executeRun(run, 'resume')` in the same request |
| Event delivery (`events/workflow-run/route.ts`, `tables.yaml`) | Hasura's event log | deliver, time out, acknowledge, deliver again | calls `executeRun(run, 'start')` |
| Definition editing (`up.sql`, `WorkflowEditor.tsx`) | `workflow_steps` | insert, update, delete, move steps | races with a run and with other tabs; deletion cascades to `step_runs` |
| Quota and run creation (`core/quota.ts`, `core/runs.ts`, `up.sql`) | `organizations.quota_used`, period | reserve, release, reset, insert a run | every trigger |
| Scheduled dispatch (`events/scheduled-dispatch/route.ts`) | none of its own; reads the last scheduled run | a sweep over the enabled triggers | run creation |
| Webhook trigger (`webhook/[triggerId]/route.ts`) | none | check the secret, create a run | run creation |
| Webhook URL action (`get-webhook-url/route.ts`) | `workflow_triggers.secret` | reveal the URL to an owner | access |
| Notifications (`steps/notify.ts`, `events/notification/route.ts`) | `notifications.status` | insert, deliver, mark | notify steps, Hasura's event log |
| Conditions and templates (`core/conditions.ts`, `core/context.ts`) | none (pure) | path lookup, comparison, substitution | step configuration and branches |
| External steps (`steps/llm.ts`, `http.ts`, `dbWrite.ts`) | `workflow_outputs` | call, write | classified errors for `withRetry` |
| Organization access (`core/authz.ts`, `up.sql`, `tables.yaml`) | `org_members` | role checks, trigger checks | actions and editors |
| GraphQL client (`lib/hasura.ts`) | none | `execute` | all of the above |
| Web application (`apps/web`) | lists, requests in flight, live queries, one socket | load, edit, switch organization, subscribe, approve | reads and writes all tables, as its user may |
| Sign-in session (`lib/nhost.ts`, `app/providers.tsx`) | tokens in local storage | sign in, refresh, sign out | every request of the browser |
| Tooling scripts (`scripts`) | none | seed, merge and validate metadata | Hasura's metadata, the admin secret |

What makes the engine hard:

* **Redelivery.** The event is delivered at least once. A second delivery can
  arrive while the first handler executes, after it died, or after it ended.
* **Check, then act.** An approval is authorised by one request and claimed by
  another; a run is loaded, then claimed, then loaded again.
* **Partial failure.** A pause, an end, a skip and a failed branch take two or
  three requests, any of which may be refused, or take effect and lose its
  answer. What an exception does depends on where in `withRetry` it is thrown.
* **Stale bundles.** A handler works with the definition it loaded; an editor
  may change or delete the steps meanwhile, and their `step_runs` with them.
* **Position arithmetic.** `resume_position` is a position, the loop runs over
  indices, and positions have gaps.
* **Several retry loops.** A step retries its body, Hasura retries the event, and
  a client may give up on a request that takes effect later.
* **Two layers of permissions** over roles that change between check and use.
* **Stale views.** A tab edits from the list it last loaded, and answers to
  several loads or subscriptions arrive in any order.
* **Crash and restart.** A handler can be killed between any two requests, and
  a resumed run is executed by a process that remembers nothing.

What makes each component correct:

* Execution: one executor at a time; nothing behind a gate before its approval;
  the outcome agrees with the rows; a finished run is never touched.
* Retry: never more attempts than the policy allows, over redeliveries and
  resumptions; the recorded count never exceeds the attempts made.
* Approval: given once, never overwritten, resumes where the run paused.
* Delivery: a run that was inserted is started although handlers fail.
* Quota: used + refunds agree with the runs that exist; never above the limit.
* Dispatch: at most one run per interval, and no due trigger passed over.
* Notifications: sent means received; what is queued is delivered or reported;
  a repetition costs a fault.
* Access: restricted rows are as an owner left them, whichever layer enforces
  it; an effect stands on a role its requester had.
* Steps: retries keep to the documented table; only fetchable addresses are
  requested; a branch decides by what the model said, also after a resumption.
* Web application: the order of the steps survives stale lists; the panel shows
  the run it is for, and in the end how that run ended.

`PROJECT.json` lists the hazards at their lines, with the properties that
would catch them.

## Modules

| Module | What it is |
|---|---|
| `WorkflowEngine` | one run: deliveries, approvals, `executeRun`, its retries and the rows it writes, editors, faults |
| `RunLifecycle` | what a watcher of a run is promised; `WorkflowEngine` implements it |
| `MCWorkflowEngine` | instances for TLC: three steps and the definitions made of them |
| `WorkflowEngine_proofs` | proofs about `WorkflowEngine`: types, mutual exclusion, finality |
| `WorkflowRecord_proofs` | proofs about the rows of a run, and of the refinement of `RunLifecycle`; extends the former |
| `RunCreation` | how runs come into being: `createRunWithQuota`, the database functions of the quota, the callers, the sweep and its cron |
| `MCRunCreation` | instances for TLC: two organizations, two triggers |
| `RunCreation_proofs` | theorems about `RunCreation` and their proofs |
| `Notifications` | the outbox: notify steps, the event of a row, its receivers, Slack |
| `MCNotifications` | an instance: three steps of different channels |
| `Access` | memberships, both layers of permissions, the authorizations of the handlers |
| `MCAccess` | instances: two users, one row of each kind |
| `Conditions` | values, paths, operators and templates, as pure definitions |
| `StepBodies` | the bodies of the steps, the services they call and the context between them; applies `Conditions` |
| `MCStepBodies` | an instance: 141 definitions of two or three steps |
| `Studio` | browser tabs that edit the steps of one workflow |
| `RunView` | a browser that watches runs over a socket that drops |
| `MCStudio`, `MCRunView` | instances of these |
| `Notifications_proofs`, `Access_proofs`, `StepBodies_proofs`, `Studio_proofs`, `RunView_proofs` | theorems about the module each is named for, and their proofs |

The models meet in a few places. What `RunCreation` calls a created run is the run
in state `pending` with its event that `WorkflowEngine` starts from; executing a
run never touches the quota. `StepBodies` is what goes on inside `RunBody` of
`WorkflowEngine`, where the outcome of a body and of a condition is a free
choice; it keeps to one process and leaves the faults of the engine's own
requests there. A notify step of `Notifications` is another such body. `Access`
ends where a run is created or an approval claimed. `RunView` sees a run as a
stage that moves forward, as `RunLifecycle` promises. Each of these choices is
wider than what the other model allows.

### How WorkflowEngine corresponds to the code

A *handler* is one call of `executeRun` with the route that makes it: one per
delivery of the event and one per approval request. `pc` says which request it
makes next, `frame` holds its locals: `plan` and `seen` are the bundle
(`steps`, and the gates it shows as approved), `ctx` is the set of steps whose
output the context holds, `cursor` is `steps[index]`, `attempt` and `willRetry`
are the locals of `withRetry`, and `dest` is the step the loop goes to next.
One action is one GraphQL request together with the local code up to the next
request; a step body (`RunBody`) is one action per attempt.

| `pc` | Action | Code |
|---|---|---|
| `load` | `Load` | `loadRunBundle`, the check of final statuses |
| `claim`, `reload` | `ClaimRun`, `Reload` | `claimRunForExecution`, the second load |
| `resume` | `Resume` | `updateRun(status: running)` |
| `step` | `BeginStep`, `ReachGate`, `SkipApprovedGate`, `CompleteRun` | the head of the loop |
| `pause` | `PauseRun` | `markRunPaused` |
| `body`, `reportOk`, `reportErr` | `RunBody`, `ReportOk`, `ReportErr` | `withRetry`: the attempt, `onAttempt` in its try block, `onAttempt` in its catch block |
| `finishStep`, `skipBetween`, `failBranch` | `FinishStep`, `SkipBetween`, `FailBranch` | a success and its branch |
| `failStep`, `skipRest`, `failRun` | `FailStep`, `SkipRest`, `FailRun` | a failure |
| `claimApproval` | `ClaimApproval` | the conditional update of `approveAndResume` |
| `done`, `error` | `Respond` | the route's answer to Hasura |

`Throw` says where an exception goes from each point: inside the try block of
`withRetry` it counts as a failed attempt, in its catch block it leaves
`withRetry` and fails the step, and elsewhere it leaves `executeRun` and is
answered with an error. `Refused`, `Answer` and `Crash` are the faults: a
request without effect, one with effect whose answer is lost, and the death of
the process. A request that names a deleted step is refused by the foreign key
(`Dangling`); that costs no fault.

Abstractions: names, configuration, outputs and errors are left out; whether an
attempt succeeds, whether its error is retryable and how a condition evaluates
are free choices; an upsert writes the columns of its patch (`Begun`,
`WithStatus`, `WithAttempt`, `ApprovedBy`). `calls` counts the entries into each
body and belongs to the model only. The status `cancelled`, which nothing in
the code sets, is left out. Missing membership or a role that may not approve
ends a request before it reads anything the run depends on, so only callers
who may approve are modelled.

### How RunCreation corresponds to the code

A *call* is one call of `createRunWithQuota`: one per request (the action or the
webhook, past their checks), and one per sweep and trigger. `pc` says which
request it makes next. The tables are seen through the calls: `paid` and
`refunded` are a call's rows in `quota_reservations`, with the month each was
written for, `created` is its row in `workflow_runs`, and `org` has the
organization's count and period.

| Step of a call | Actions | Code |
|---|---|---|
| reserve | `Reserve`, `ReserveRefused`, `ReserveFails` | `reserve_org_quota`, one transaction under a row lock, and `reserveQuota` |
| insert | `Insert`, `InsertFails` | the insert in `createRunWithQuota`; any error leads to the refund |
| release | `Release`, `ReleaseFails` | `release_org_quota`; `releaseQuota` swallows its errors |
| (dies) | `CrashRequest`, `CrashSweep` | the end of the process |

The reservation is made before the `try`, so a lost answer to it is not refunded;
the insert is made inside it, so a lost answer is. `BeginSweep` is the sweep's one
read with everything it decides from it: `due` is fixed from then on, while the
calls it leads to are made later (`MayStart`: in the order of the triggers,
whatever became of the ones before). The skips of archived and empty workflows
and of disabled triggers are a free choice of the triggers a sweep sees (`seen`).

The clock is common to servers and database. It advances at any time, except
that a sweep is over within `MaxDuration`: route and cron both give it 60 s and
the retry comes 30 s later, so tries do not overlap. That is the platform's
doing; a host that does not enforce `maxDuration` is outside the model, and the
hazard is listed. Hasura is taken to deliver the cron's events one after the
other, possibly late. `MonthOf` is `date_trunc('month', ...)`.

### How Notifications corresponds to the code

A *step* is one execution of `executeNotify` under `withRetry`; each attempt
inserts a row of its own, so a row is named by step and attempt. A *receiver* is
one call of the notification route, one per try of the row's event. `event` is
Hasura's log: `due` to be delivered, `waiting` for an answer, `delivered`, or
`error` when the tries are used up. The receiver checks the status in the
event's payload, which is the row at its insert, so the check passes on every
try and is left out. `SendNotification` is the post to Slack or the log line,
`MarkSent` and `MarkFailed` are the two status updates; an error of the first
update leads to the second, as in the route's `try`. `delivered`, which belongs to
the model only, is the set of receivers whose message arrived: a receiver posts
once, and two receivers of one row are two messages.

A request has four outcomes: answered, refused, effective but unanswered, and
given up on by a client that goes on while the request takes effect later
(`late`, `LateEffect`): `execute` aborts after 20 s and a proxy may still
deliver. `url` says whether the deployment has a Slack URL.

### How Access corresponds to the code

The five tables are functions from ids to rows, `None` for no row. One action is
one mutation as its permission in `tables.yaml` admits it (`Permits`,
`MayUpdate`: filter on the old row, check on the new one) and as the triggers of
`up.sql` accept it (`Enforced`). The comments of both files say that each layer
suffices by itself, so `layers` is any non-empty choice of them. `under` records
under which authority a row's type and configuration were written.

A handler (`call`) is a request past Hasura: it reads what its authorization
depends on (`RequestRun`, `RequestApproval`, `RequestByWebhook`) and acts by a
later request (`CreateRun`, `ApproveStep`), between which anything may happen.
`RevealUrl` reads and answers at once. A caller of a webhook knows the secrets
that were revealed. `AdminUpsertTrigger` and `AdminSetRole` are what the seed
does with the admin secret, `DeleteUser` is the cascade of `auth.users`. Name
and description of a workflow, and selects other than the membership walk, are
left out.

### How Conditions and StepBodies correspond to the code

A JSON value is a record with its kind. Words are not taken apart and paths come
split; `Lower`, `ToNumber`, `ParseInt` and `RegExpTest` are what JavaScript does
with the words of the instance. Members of objects keep their order, because
`equals` compares texts, and `Stored` is what `jsonb` makes of a value: the
members in Postgres's order (`KeyRank`), three objects or arrays deep, below which
the inputs and answers of the instance do not go. `Value` is the set of values that
inputs, definitions and answers are made of; `MadeOf` says of a value that its
parts are in such a set and that no two members of an object have the same name.
`PositionKey` is the text of a position, under which the context lists a step.

In `StepBodies` one action is the local code between two awaits of a body: it
throws (`Throw`: `withRetry` decides), returns (`Return`: stored, and fed to the
context), or sends a request. `pc` is `body` before the first, `waiting` for the
headers (the timer runs), or `reading` the body. `Url` is abstract: what
`assertUrlAllowed` refuses is `Malformed` or `Blocked`, as the ranges of
`isBlockedAddress` and the scheme would have it with
`HTTP_STEP_ALLOW_PRIVATE_NETWORK` unset. `Completions` and `Bodies` are the
forms an answer can take: JSON bare, in fences or prose, several objects, none,
an empty or missing text, cut off or not; whole, unparseable, too large, broken
off. `Resume` replaces the context by the one `buildContext` makes of the rows.

### How Studio and RunView correspond to the code

`Studio`: a request (`req`) is a call of `act`, which sends an edit, waits, and
reloads; or a load by the effect of `Dashboard`. An edit is a change of positions
worked out from `view`, the list its tab shows. `Apply` is the transaction, with
the deferred unique constraint checked at its end; an update of a row that is
gone affects no row and is no error. `holds` is the editor's `busy` flag, which
disables the buttons; it goes with an editor that is unmounted. Restricted types,
configurations and other workflows are left out: they have no part in the order.

`RunView`: `data` is what `useSubscription` holds for each of the two queries and
keeps until the first message after a change of run; `token` tells subscriptions
apart, as the closure's `disposed` does. `Push` is Hasura's live query, which
sends the result when it differs from the last one it sent. `Reconnect` is
`graphql-ws` with its lazy connection and `retryAttempts` (10 in the code).

## Runs

| Run | Instance | Shows |
|---|---|---|
| `engine_safety` | twelve definitions of three steps, 2 deliveries, 2 approvals, 2 faults | all safety properties and the refinement of `RunLifecycle` |
| `engine_liveness` | three definitions, one edited into another once at any moment, 2 deliveries, an approval, 1 fault, fairness | the whole inductive invariant of the proofs under edits; an inserted run starts; without faults runs settle; a recorded approval resumes unless a fault falls in between |
| `engine_crash_orphans` | 3 deliveries, 1 fault | **violated**: README.md:90-93 |
| `creation_quota` | 2 requests and a sweep of two triggers, three of these calls for one organization of limit 2, a new month every tick, 2 faults | types, the quota, its inductive invariant, the accounting |
| `creation_dispatch` | 2 cron events of 2 tries, 2 triggers of different organizations, 1 fault, fairness | distance of scheduled runs, and that sweeps go on past failures |
| `creation_cadence` | 2 cron events, no faults | **violated**: `cron_triggers.yaml:5-6` |
| `notifications` | 3 notify steps (Slack with 2 attempts, log, unknown channel), 3 tries, 2 faults, with and without URL, fairness | sent means received, repetitions cost faults, what is queued settles |
| `access` | 2 users in any roles, one row of each kind, one handler, 1 administrator's write, both layers or either | restricted rows, agreement of the layers, authorization of effects, ownerless organizations |
| `access_account_kept` | the same without triggers | **violated**: the intent of `up.sql:270` |
| `step_bodies` | 141 definitions, 2 attempts, 4 addresses, 5 status codes | retry table, addresses, what branches and writes see |
| `studio` | 2 tabs, 3 requests, 3 steps in any order, 2 faults | order of the steps, organization of the list |
| `run_view` | 2 runs, 3 drops, 2 turns, 2 messages on their way, fairness | the panel's run, and that it converges |

Deadlock is not checked: a run that is over or whose event is used up, and a clock
at its bound with every call made, are where the system rightly stops, and so do the other models
once their requests, tries or bounds are used up.

**Bounds.** `Delivery`, `Approval` bound the handlers: Hasura is configured for
three deliveries, and two are enough for every race between two of them, the
third adds a repetition of the second (the orphan run takes all three);
two approvals suffice for a race, and two gates in one definition still leave
each gate one; under fairness one approval is enough, as the race is not asked about. `MaxFaults` bounds crashes, refused requests and lost answers;
two let a failed bookkeeping request follow another. `MaxEdits` bounds edits.
Three steps at positions 1, 2 and 4 let every type come before every other, let
a branch jump over exactly one step, and leave a gap for `resume_position`;
`AllTargets` has every kind of branch target: the end, the next step, steps
ahead, the step itself, steps behind, and an id and a position that the
workflow does not have. Step `b` asks for one attempt, `c` for three, `a` for
the default of two. Deliveries and approvals are symmetric in runs without
liveness.

Of run creation: three calls for a limit of two let two late refunds meet in
a month of which one unit is charged, the case that needs the floor at zero;
months of one tick put a reset between any two steps of a call. A cron period of two
ticks and sweeps of at most one keep the proportions (a sweep is shorter than the
period, the least interval equals it), `Horizon` = 3 lets two events be
dispatched, punctually or late, each with its retry; one fault spends itself on
either the first try or a call. Trigger 1 asks for less than the least interval and
trigger 2 for none.

Of the other models. `Notifications`: three tries and two faults, so that the tries
outnumber the faults and settling can be asked of them; with two faults a
receiver can time out and its late write meet the next receiver's. `Access`: two users
let one act on the other while a third would repeat one of them; one
restricted type and one that is not stand for the rest; the handlers are
explored over rows nobody changed (`HandlersOverPlainRows`), since they ask of a step only that
it exists and of a trigger that it is an enabled webhook. `StepBodies`: the five
status codes are one of each class (success, hopeless, passing 4xx, a 4xx the two
services treat differently, 5xx); a redirect may lead to any address, up to the
limit of three. `Studio`: three requests are two edits
of one tab against one of another, or an edit, a switch and its load, and a step
can move out of another's neighbourhood. `RunView`: two turns bring the panel
back to a run whose old messages are still on their way; with `retryAttempts` 1
and three drops the client can give up.

**Fairness** of `Notifications`: Hasura delivers what is due, steps and receivers that
live go on. A fault never has to happen, and a late request need not arrive.
**Fairness** of `RunView`: handlers go on, the server polls, messages arrive, the
client reconnects. Nobody has to approve or turn. `Access`, `StepBodies` and
`Studio` are checked for safety only.

**Fairness** of `RunCreation`: only that a sweep goes on with its calls while its
process lives. Nobody has to make a request and no event has to come.

**Fairness** of `WorkflowEngine` (`FairSpec`, used by the liveness run and the orphan run): Hasura
delivers as long as the event is not acknowledged and deliveries are left, a
live handler makes its next request, its answer reaches Hasura, and Hasura
times out a delivery whose process died. Nobody has to approve, and no fault
and no edit has to happen. `DeliveryTimeout` of a live handler is possible and
not fair.

## Properties of WorkflowEngine

* `SingleExecutor`: at most one handler holds the run.
* `GateRespected`: no body behind a gate is entered before the gate's approval,
  unless a branch jumped over the gate and it is recorded as skipped.
* `OutcomeMatchesRecord`: the final status agrees with the rows.
* `ResumePointExact`: in a paused run everything before `resume_position` is
  settled and nothing behind it has begun.
* `AttemptsBounded`, `AttemptCountHonest`: the retry policy holds over the whole
  run, and the recorded count is neither too high nor, at the end, wrong.
* `ContextFaithful`: the context, live or rebuilt, has the outputs of exactly
  the completed steps.
* `TerminalIsFinal`, `ApprovalIsFinal`: what is over or approved stays so.
* `ImplementsLifecycle`: refinement of `RunLifecycle`.
* `PendingRunStarts`, `RunSettles`: liveness.
* `ApprovalResumes`: whoever records an approval goes on to resume the run, and
  gets there (liveness), whatever failed before and is edited meanwhile. Only a
  fault between the record and the resumption prevents it, and that leaves the
  run paused for good, see below.

Several are stated for runs whose definition is not edited (`edits = 0`):
deleting a step deletes its `step_runs`, so the record they speak of is gone.
`SingleExecutor`, `TerminalIsFinal`, `ExecutionInv` and `CountInv` hold under
edits. `InductiveInv`, which `engine_liveness` checks, is the conjunction of
`ExecutionInv`, `RecordInv` and `CountInv`, see below.

## Properties of RunCreation

* `QuotaRespected`: the runs allowed in a month do not exceed the limit, but by the
  refunds of that month that were not earned: the run exists after all, or
  the unit had been charged to an earlier month. The code has no such refund
  without a lost answer or a call that straddles the reset.
* `NothingOvercharged`: the count covers nothing but reservations of this period.
* `UnitsAccounted`: a reserved unit becomes a run or goes back, and not both, but for
  one unit per crash, failed request or lost answer; the crash of a sweep in the
  middle of many calls costs one as well.
* `CreationInv`: the inductive invariant behind `QuotaRespected`.
* `DispatchesSpaced`: scheduled runs of a workflow are an interval apart, retries
  of the cron included.
* `SweepCompletes`: a sweep reaches every due trigger or dies (liveness).

## Properties of the other models

* `SentWasReceived`: a row marked sent was received, over overlapping receivers
  and late writes.
* `DuplicatesCostFaults`: no message more than one per step and one per fault.
* `NotificationSettles`: with fewer faults than tries, a queued notification is
  acknowledged, or ends as failed for good where the Slack URL is missing (liveness).
* `RestrictedNeedsOwner`: with both layers or either, a restricted row is as an
  owner or the administrator wrote it.
* `LayersAgree`: the database never refuses an owner whom Hasura permits.
* `EffectsAuthorized`: runs and approvals stand on a role the requester had when
  he asked, or on a URL an owner revealed.
* `OwnerlessFrozen`: without an owner nothing restricted and no membership changes.
* `RetryMatchesTable`: README.md:381-385 with the lines each service draws where
  that table is silent: what is hopeless for the service that answered is not
  tried again, and everything else is until the attempts are used, an answer
  whose body breaks off included, whatever its status was. `retry.ts:4-8`
  draws the line elsewhere, see below.
* `DownstreamSeesAnswer`: branches and writes see the label an earlier model call
  gave in a completion that was not cut off, through extraction, rows, templates
  and a resumption. The label is a primitive value (an object comes back with its
  members in another order), the step the last to write its key. A completion
  with several objects is left out, see below.
* `SameAfterResume`: a branch decides the same from memory and from the rows, over
  primitive values, objects and arrays, unless its operator looks at the order
  of an object's members (`OrderMatters`): `matches` and `contains`, which turn an
  object into text, and `equals`, `not_equals` and `in` where both sides hold one.
* `TypeOK` of `StepBodies` includes that only fetchable addresses are requested,
  redirects included; that of `Studio`, that an editor makes one edit at a
  time; that of `Access`, the constraints of the tables.
* `OrderIntact`: while nothing is removed the positions have no gap: a stale edit is
  an append or an exchange still, or is refused.
* `ListIsOfOrg`: an idle tab shows its organization's list, unless since its last
  change of organization a request for the other one was overtaken by that change,
  or a load failed over the other one's list (`spoiled`). These two are what the
  code allows; they last until the next change, and nothing else does it.
* `PanelIsOfRun`, `ViewConverges`: the panel shows its run, truthfully, and in the
  end how it ended (the second is liveness).

## What is proved

Each theorem is about `Spec`, without fairness, and for every value of the
constants that the assumptions named in the module admit: any number of
handlers, users, rows, tabs or messages, any definitions, any bound on faults
and edits. TLC found no violation of the strengthened invariants on the
instances of the runs before they were proved. The proofs go action by action.

### WorkflowEngine: who executes

The assumptions: definitions have unique, non-negative positions; deliveries
and approvals are different processes; the null values differ from what they
stand for.

* `Types`, `TypeCorrect`: type correctness. It is not inductive by itself: the
  step `frame[h].cursor` must be known to be in the plan before its successor is
  known to be one. `LocalsUsable` adds what a handler's locals are good for at
  each `pc`.
* `ExecutionCorrect`, `SingleExecution`: mutual exclusion. `SingleExecutor` alone
  is not inductive, since two different conditional updates let a handler in:
  the claim of a pending run and the claim of an approval. `ExecutionInv`
  relates both to the rows: a pending run has no holder and nothing waits; a
  holder that resumes holds a paused run, any other a running one; while a run
  is held nothing waits, except the gate at which the holder is pausing; at
  most one row waits; and an approver who passed the check either still finds
  the run paused at its gate or comes too late for good. The last part is why
  the claim need not look at the run's status. It survives edits because a
  deleted step is not used again, so a late approver cannot find a new row
  under an old id.
* `TerminalFinality`: from the same invariant, a run that is over has no holder
  and no approver whose claim can still succeed.

`QuietStep`, `HolderStep`, `StatusStep` are the three kinds of steps with respect
to `ExecutionInv`: nothing is held, the holder goes on, and the status changes
while no other handler holds the run; `WriteKeeps`, `UpsertKeeps` and `SkipKeeps`
reduce the writes to them.

### WorkflowEngine: what the rows mean

`RecordInv` and `CountInv` rest on `ExecutionInv`: since one handler writes at a
time, the rows can be described from where that handler stands.

* `RecordCorrect`: `RecordInv`, for runs that are not edited. Every row is honest
  by itself (`RowHonest`: attempts within the policy, an approver on completed
  gates only, a body entered only where the status says so). `Fits` says what
  the rows are for a handler at each `pc`: what it has passed is settled, what
  lies ahead is untouched, the row at the cursor has the status that belongs to
  the `pc`, the context is the set of completed steps, and its attempt is the
  number of calls. A paused run has one gate that waits or was approved, right
  before `resume_position`. This is what a crash leaves behind, so it is also
  what the next handler starts from. `NextPositionSeparates` and its companions
  say that a position separates the steps before it from those behind it,
  gaps or not.
* `CountCorrect`: `CountInv`, edited or not: no row counts more attempts than
  were made. It is separate because it survives the loss of rows.
* `Induction`: the conjunction, `InductiveInv`.
* `GatesHold`, `OutcomeIsRecorded`, `ResumeIsExact`, `AttemptsAreBounded`,
  `AttemptCountsHonest`, `ContextIsFaithful` and the action property
  `ApprovalFinality` follow.
* `LifecycleImplemented`: every behaviour in which nobody edits is one of
  `RunLifecycle`, under the mapping of a run to its status and the statuses of
  its rows. `Around` draws from the invariants what the run and the rows are at
  each `pc`; one lemma per kind of action (`SeenBegin`, `SeenPause`, ...) shows
  that the step is one the abstract specification has, or is not seen. The
  hypothesis `[](edits = 0)` is needed: deleting a step takes its row away, while
  `RunLifecycle` promises that a row stays.

### RunCreation

`MonthOf` need only be monotone.

* `CreationTypes`: types, and that a count stays between zero and its limit.
* `CreationCorrect`, `QuotaHolds`: `QuotaRespected` is not inductive, since it
  says nothing of units that are reserved and not inserted yet, nor why the
  count may be trusted. `CreationInv` counts the units *held* (reserved by a call
  in progress, or by a run): those of the current period are covered by
  `quota_used` plus the unearned refunds of the period, and those of any month
  by the limit plus its unearned refunds. A reset is harmless because nothing
  is held of the month it begins (`NoneHeldAhead`), a refund because it gives
  up a unit or becomes unearned. Every action but two changes a single call, so
  that the cardinalities move by one at most (`OneCall`), and the others only
  give units up (`FewerHeld`).
* `NobodyOvercharged`: inductive given `CreationInv`: a unit that is added is a charge
  of the period, a refund takes at most one charge away, and a unit of the
  count with it unless that is zero, and a reset begins from zero.
* `UnitsAreAccounted`: one call's unit changes hands at a time (`OneAstray`), and
  goes astray at the price of a fault (`AstrayAtACost`). A sweep that dies would
  lose as many units as it has calls in progress: `CallsInTurn`, with `DispatchInv`,
  says that this is one, as a call begins when those before it are settled.
* `DispatchesAreSpaced`: two sweeps that both have inserts to make would compare
  with a read that misses the other's. `DispatchInv` says that one sweep lives
  at a time, that it makes its calls while it runs and after its read, and that
  its read saw every run an earlier sweep inserted for a trigger it has still
  ahead (`SawRuns`).

### Notifications

* `OutboxTypes`, `SentIsHonest`, from `OutboxInduction`. `OutboxInv` is what late
  requests leave intact: an attempt still to be made has neither a row nor a
  request in flight, a late insert finds no row and a late update finds one,
  and an event is due only while tries are left. `SentInv` adds that whoever is
  about to write `sent`, now or late, does so for a row that was received.
* `RepetitionsArePaid`, from `CostInduction`: counting messages alone is not
  inductive, since several may be on their way. `CostInv` counts them in
  advance: messages received or about to be (`Served`), steps that may still
  insert (`Running`) and rows still owed a delivery (`Owed`) are together at most
  the steps plus the faults. Each action moves one element between the three
  sets, and where one is added a fault was spent.

### Access

* `AccessTypes`, `EffectsAreAuthorized`: the invariant is `TypeOK`, which has the
  foreign keys and check constraints, with what is known of a handler between
  its read and its act (`CallsAuthorized`); the acting request relies on nothing
  else. The cascades need most of the proof (`CascadeType`, `ForgottenType`).
* `RestrictedNeedsAnOwner`: whichever of the two layers there is, a write to a
  restricted row is an owner's (`RestrictedByOwner`), for the row as it was and
  as it becomes; every write is either that, or leaves type and configuration
  alone (`StepsAfter`, `TriggersAfter`).
* `TheLayersAgree`: the actor a row names after an update is the one Hasura stamped
  on it (`ActorIsToucher`), whoever wrote it before, so that the database checks
  the user whom `Permits` let through.
* `OwnerlessIsFrozen`: the action property, table by table, under Hasura's layer.

### StepBodies

* `RetriesMatchTheTable`: `RetryInv` says that each attempt but the last has one
  failure that was retried and that nothing happens after a failed row;
  `FaultsClassified` and `AnswersClassified` go through the causes and statuses
  of both services, which the table divides into hopeless and all others.
* `RequestsAreChecked`: `OnlyFetchable`, a conjunct of `TypeOK`.
* `ReadsSurviveStorage`: what a path of any length reads out of a value is, up to
  the order of members, what it reads out of the copy in the row. Two values are
  `Similar` if some relation between values contains the pair and is closed under
  members and items (`Alike`, `Rearranged`), which needs no recursion over the
  depth. `Stored` keeps a value similar, level by level: `InOrder` is a
  permutation of the members, which exists for every finite set by induction
  on its size. `ResolvePath` is a fold, unfolded one part at a time (`PathWalk`,
  `Walk`); the induction over the parts is the well-foundedness of the naturals
  (`Induct`), applied to the set of lengths up to which the readings are similar.
  Similar values that are no objects, and arrays without objects or arrays in them,
  are equal (`FlatIsEqual`); an array keeps its items where they were and a nested
  value stays one (`SimilarItems`, `NestedAlike`), so that every comparison which
  does not look at the order of members decides the same (`SimilarEvaluate`).
* `BodiesAreTyped`, `DownstreamIsFaithful`, `BranchesSurviveResumption`: none of
  the properties is inductive, as they do not relate the context to the rows.
  `BodiesInv` does, with `RetryInv` and `ProgressInv`: the completed steps are
  those before `at`, the last of them is the previous one, and for each there is
  one value that it returned, of which its row has the stored copy and the
  context either (`HandedOn`); the one of a model that answered with a single
  object has that object under `json`, and the answer was not cut off. Hence
  the live and the rebuilt context are similar at every moment
  (`ContextsAgree`), and `LabelSeen` follows the five parts of the path from the
  context to the label. Every action is one `Frame` with one of four ways to go
  on (`Does`: throw, return a value that `Fits`, wait, resume), so that the
  invariant and `DownstreamSeesAnswer` are shown of those four only.
* `EveryRunOfStepsEnds`: each step of the model goes on to the next step, the next
  attempt or a later phase of the attempt (`Advances`), or ends the run, and each
  of these is bounded (`WithinLimits`). This is what safety can say of termination: bodies,
  retries and redirects cannot go round for ever. That a body which waits is
  answered at all is not in it.

Assumed are: the values of the instance are made of each other, keys have
different ranks and positions different texts, definitions hold values and
paths where the code expects them, and a completion without an object has no
JSON. Nothing is assumed of how long definitions and paths are, or of what words,
numbers and patterns mean. Values may be of any depth, of which `Stored` reorders
the upper three levels and keeps the rest; `jsonb` reorders all of them.

### Studio and RunView

* `OrderStaysIntact`: without gaps is not inductive, since it counts. `OrderInv`
  has instead that positions differ and lie between 1 and the number of
  steps, that no list of a tab names a position beyond it, however old, and that
  an edit in flight asks for one of these, or an append for the next; positions
  that differ and lie in 1..n are 1..n (`NoGap`). The deferred constraint refuses
  an edit that would repeat a position, which is the rest.
* `StudioTypes`: that one request holds the tab (`HoldsInv`). `ListMatchesOrg`: a tab
  that is not spoiled has only requests for its own organization in flight, and
  shows that organization or has its list on its way (`OrgInv`). Changing the
  organization settles anew whether a tab is spoiled.
* `PanelShowsItsRun`: what is on its way for the live subscription is about the
  run the panel is turned to, and no message is ahead of its run (`WireInv`,
  `SendingInv`).

### What stays with TLC

* Liveness (`PendingRunStarts`, `RunSettles`, `ApprovalResumes`, `SweepCompletes`,
  `NotificationSettles`, `ViewConverges`): it needs fairness and `ENABLED`, beyond
  the prover.
* The three findings: each of their runs shows a behaviour.

Every other property of a passing run is stated by a theorem. The functions the
conditions are built from (`Compare`, `Within`, `Stringify`, `AsNumber`) are
used in the proofs as operators of equal arguments; what they compute is only
model-checked, by the branches of `step_bodies`.

## Findings

1. A handler that dies after the claim orphans the run, although README.md:90-93
   says it cannot (`engine_crash_orphans`).
2. A scheduled trigger misses the cron event at which it is due, because its
   last run was created a moment after the sweep that dispatched it had read the
   clock (`creation_cadence`).
3. The account of a user who ever approved a step cannot be deleted: clearing
   `approved_by` alone breaks a constraint (`access_account_kept`).

Seen while modelling; the models have this behaviour, or leave it out where
said, and no run states the contrary:

* A branch with a refused target leaves the steps behind it without rows
  (`repository.ts:217-218` has every unreached step marked).
* A process that dies between the record of an approval and the resumption leaves
  the run paused with a gate that nobody can approve again (`approval.ts:55-81`).
* The row shows the previous attempt while a retry is in flight
  (`engine.ts:271-272`): the request that counts an attempt follows it.
* A run whose insert lost its answer is refunded, and so free of charge
  (README.md:355).
* The administrator's upsert of a webhook trigger is refused once the owner it
  was created by is demoted, as the row still names him (`up.sql:462`, against
  `up.sql:390-392`).
* The timers of `http.ts:155` and `llm.ts:61` are cleared when the headers
  arrive, so the body is read without a limit of time (`http.ts:19` calls the
  timeout hard).
* `extractJson` gives nothing for a completion with several objects, though its
  comment speaks of the first (`llm.ts:313`); the branch behind it then takes the
  path for no label.
* `equals` on objects compares their text, whose order `jsonb` changes, so a
  branch may decide otherwise after a resumption (`conditions.ts:65`).
* `retry.ts:4-8` has among the failures that are never retried other 4xx statuses
  and provider responses that do not parse. An llm_call retries statuses such as
  405 and 409 (`llm.ts:29`; an http_request does not, `http.ts:195`), and an
  answer that does not parse is retried by both (`llm.ts:70-72`, `http.ts:185-188`).
  Where the body breaks off, the read throws before the status is looked at, and
  the step is retried even behind a 401 or 404 (`llm.ts:64`).
* A 5xx with a body beyond the cap
  is permanent (`http.ts:229`); a `db_write` of null is refused by the schema and retried.
* After a race of two loads a tab may show the old organization's list; a panel
  shows the previous run's rows until the first message of the next.

## Not modelled

* The sign-in session: Nhost Auth keeps it, every model starts from a signed-in
  user. (A refresh in flight at sign-out stores its session after it was
  cleared, `nhost.ts:168-184`.)
* In the browser: triggers and their secrets, the draft of a configuration (which
  overwrites what was saved meanwhile, without a lock), deleting a workflow,
  outputs shown on demand, and the rendering.
* The scripts, which read files, call an API in order and print; of the seed
  the administrator's upserts are in `Access`.
* The ranges of `isBlockedAddress`, the text of prompts, headers, payloads,
  messages and errors; time inside a body and the length of a delay.
* More than 100 scheduled triggers, and sweeps that overlap (hazards without a property).
* Deleting a whole workflow or organization in mid-run; a request of the engine
  that takes effect only after its caller gave up on it and went on (in
  `Notifications` it may). Redelivery by hand from Hasura's console.

## Plan

1. `WorkflowEngine`, `RunLifecycle`, their runs, `SingleExecution` and
   `TerminalFinality`: done.
2. `RunCreation`, its runs, `CreationTypes` and `QuotaHolds`: done.
3. `Notifications`, `Access`, `Conditions` with `StepBodies`, `Studio`, `RunView`
   and their runs: done.
4. Proofs about `WorkflowEngine`: the meaning of the rows with all safety
   properties, and the refinement of `RunLifecycle`: done.
5. Proofs about the rest: the accounting and the spacing of `RunCreation`, the
   outbox, the permissions, the retry table, the order of the steps, the panel:
   done.
6. Proofs about what steps hand to each other: `StepBodies`, `Conditions`: done.
7. Left for later: `InductiveInv` without `edits = 0` where a definition is only added
   to; requests of the engine that take effect after it gave up on them.

## Running

```
tlc -workers 2 -config engine_safety.cfg MCWorkflowEngine.tla
tlapm WorkflowEngine_proofs.tla
tlc -workers 2 -config creation_quota.cfg MCRunCreation.tla
tlapm RunCreation_proofs.tla
tlc -workers 2 -config step_bodies.cfg MCStepBodies.tla
tlapm WorkflowRecord_proofs.tla
```

Every `M_proofs.tla` is checked by `tlapm M_proofs.tla`; the one of the rows takes
longest, some minutes.
