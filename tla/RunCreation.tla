----------------------------- MODULE RunCreation -----------------------------
(***************************************************************************)
(* How runs come into being: createRunWithQuota reserves a unit of the     *)
(* organization's monthly quota, inserts the run, and refunds the unit if  *)
(* the insert fails.  Its callers are the triggerWorkflowRun action and    *)
(* the webhook (a "request" here: one call each), and the sweep that       *)
(* Hasura's cron starts, which makes one call per scheduled trigger that   *)
(* is due, one after the other.                                            *)
(*                                                                         *)
(* Each GraphQL request is one atomic step.  It is answered, or fails      *)
(* without effect, or takes effect and its answer is lost; a process may   *)
(* die between two of them.                                                *)
(***************************************************************************)
EXTENDS Integers, FiniteSets

CONSTANTS
  Org,              \* organizations
  Request,          \* authorised calls of triggerWorkflowRun and of the webhook
  Trigger,          \* scheduled triggers (one per workflow), numbered by created_at
  OrgOfRequest,     \* the organization a request is for
  OrgOfTrigger,     \* the organization a trigger's workflow belongs to
  EveryMinutes,     \* config.every_minutes of a trigger: an integer, None or NaN
  Limit,            \* quota_limit of an organization
  CronPeriod,       \* the cron's */15
  LastEvent,        \* bound on the cron's events
  Tries,            \* num_retries + 1 of the cron
  MaxDuration,      \* maxDuration of the sweep's route
  MinInterval,      \* MIN_INTERVAL_MINUTES
  DefaultInterval,  \* the interval of a trigger that configures none
  MonthOf,          \* date_trunc('month', t)
  Horizon,          \* bound on the clock
  MaxFaults,        \* bound on crashes, failed requests and lost answers
  None,             \* SQL NULL
  NaN               \* what Number() makes of a config that is not a number

Time  == 0..Horizon
Month == {MonthOf[t] : t \in Time}

\* The sweeps: <<k, n>> is the n-th try of the cron's k-th event.
Sweep    == (0..LastEvent) \X (1..Tries)
Dispatch == Sweep \X Trigger
\* The calls of createRunWithQuota.
Creation == Request \cup Dispatch

OrgOf(c) == IF c \in Request THEN OrgOfRequest[c] ELSE OrgOfTrigger[c[2]]

ASSUME CallersAssumption == /\ Request \cap Dispatch = {}
                            /\ IsFiniteSet(Request)
                            /\ IsFiniteSet(Trigger) /\ Trigger \subseteq Nat
                            /\ OrgOfRequest \in [Request -> Org]
                            /\ OrgOfTrigger \in [Trigger -> Org]
                            /\ EveryMinutes \in [Trigger -> Int \cup {None, NaN}]
ASSUME LimitAssumption   == Limit \in [Org -> Nat]
ASSUME TimeAssumption    == /\ {CronPeriod, LastEvent, Tries, MaxDuration} \subseteq Nat
                            /\ {MinInterval, DefaultInterval, Horizon, MaxFaults} \subseteq Nat
                            /\ MonthOf \in [Time -> Nat]
                            /\ \A t, u \in Time : t <= u => MonthOf[t] <= MonthOf[u]
ASSUME NullAssumption    == None \notin Int /\ NaN \notin Int /\ None # NaN

VARIABLES
  clock,     \* the time, in the database and on the servers
  org,       \* organizations: quota_used and quota_period_start
  paid,      \* quota_reservations: the month a call was allowed in, or None
  refunded,  \* quota_reservations: the period that a call's refund was taken off, or None
  created,   \* workflow_runs: when a call's run was inserted, or None
  pc,        \* the request a call makes next
  sweep,     \* per sweep: its start and what it read
  faults     \* crashes, failed requests and lost answers so far

vars == <<clock, org, paid, refunded, created, pc, sweep, faults>>

-----------------------------------------------------------------------------
(* The database functions. *)

\* Variants for a check: the window is reset by every reservation; the period moves on
\* and the count stays.
ResetAlways(o, month) == [used |-> 0, period |-> month]

ResetPeriodOnly(o, month) == IF o.period < month THEN [o EXCEPT !.period = month] ELSE o

\* The window is reset lazily, before the limit is evaluated.
Reset(o, month) == IF o.period < month THEN [used |-> 0, period |-> month] ELSE o

\* Variant for a check: the limit is compared with > instead of >=.
ExhaustedBeyond(o, limit) == o.used > limit

Exhausted(o, limit) == o.used >= limit

Charge(o) == [o EXCEPT !.used = @ + 1]

\* Variant for a check: no GREATEST(..., 0).
RefundBelowZero(o) == [o EXCEPT !.used = @ - 1]

Refund(o) == [o EXCEPT !.used = IF @ > 0 THEN @ - 1 ELSE 0]

-----------------------------------------------------------------------------
(* What the sweep makes of the bundle it read. *)

Interval(t) ==
  LET minutes == IF EveryMinutes[t] = None THEN DefaultInterval ELSE EveryMinutes[t]
  IN  IF minutes > MinInterval THEN minutes ELSE MinInterval

\* When the scheduled runs of a trigger's workflow were created.
ScheduledRuns(t) == {created[<<s, t>>] : s \in Sweep} \ {None}

\* Variant for a check: the configured interval is forgotten.
DueAtMinimum(t, now) ==
  EveryMinutes[t] # NaN => \A last \in ScheduledRuns(t) : now - last >= MinInterval

\* No comparison with NaN holds, so such a trigger is never skipped.
Due(t, now) ==
  EveryMinutes[t] # NaN => \A last \in ScheduledRuns(t) : now - last >= Interval(t)

-----------------------------------------------------------------------------
(* The calls and the sweeps. *)

Settled(c) == pc[c] \in {"created", "refused", "failed", "dead"}

Idle == [pc |-> "idle", now |-> None, seen |-> {}, due |-> {}]

\* A sweep is in progress until the last due trigger has been dealt with.
Live(s) == sweep[s].pc = "running" /\ \E t \in sweep[s].due : ~ Settled(<<s, t>>)

\* Variant for a check: no try block around the call, so that a failure ends the loop.
MayStartAfterSuccess(c) ==
  c \in Request \/ \E s \in Sweep :
     /\ sweep[s].pc = "running"
     /\ \E t \in sweep[s].due :
          /\ c = <<s, t>>
          /\ \A u \in sweep[s].due : u < t => pc[<<s, u>>] = "created"

\* A request may come at any time; a sweep goes through its triggers in order,
\* whatever became of the ones before.
MayStart(c) ==
  c \in Request \/ \E s \in Sweep :
     /\ sweep[s].pc = "running"
     /\ \E t \in sweep[s].due :
          /\ c = <<s, t>>
          /\ \A u \in sweep[s].due : u < t => Settled(<<s, u>>)

Fault == faults < MaxFaults /\ faults' = faults + 1

\* The request is answered, and the call goes on at p; or the answer is lost,
\* which is an error at the caller, and it goes on at q.
Answer(c, p, q) ==
  \/ pc' = [pc EXCEPT ![c] = p] /\ UNCHANGED faults
  \/ pc' = [pc EXCEPT ![c] = q] /\ Fault

\* reserve_org_quota grants a unit: a row lock makes it one step.
Reserve(c) ==
  LET o == OrgOf(c)
      current == Reset(org[o], MonthOf[clock])
  IN  /\ pc[c] = "idle" /\ MayStart(c)
      /\ ~ Exhausted(current, Limit[o])
      /\ org' = [org EXCEPT ![o] = Charge(current)]
      /\ paid' = [paid EXCEPT ![c] = MonthOf[clock]]
      /\ Answer(c, "insert", "failed")
      /\ UNCHANGED <<clock, refunded, created, sweep>>

\* The quota is used up: no run.  The window may have been reset all the same.
ReserveRefused(c) ==
  LET o == OrgOf(c)
      current == Reset(org[o], MonthOf[clock])
  IN  /\ pc[c] = "idle" /\ MayStart(c)
      /\ Exhausted(current, Limit[o])
      /\ org' = [org EXCEPT ![o] = current]
      /\ Answer(c, "refused", "failed")
      /\ UNCHANGED <<clock, paid, refunded, created, sweep>>

\* The reservation has no effect: the caller gives up, and nothing is to be refunded.
ReserveFails(c) ==
  /\ pc[c] = "idle" /\ MayStart(c)
  /\ pc' = [pc EXCEPT ![c] = "failed"]
  /\ Fault
  /\ UNCHANGED <<clock, org, paid, refunded, created, sweep>>

Insert(c) ==
  /\ pc[c] = "insert"
  /\ created' = [created EXCEPT ![c] = clock]
  /\ Answer(c, "created", "release")
  /\ UNCHANGED <<clock, org, paid, refunded, sweep>>

\* Variant for a check: no refund.
InsertFailsUnrefunded(c) ==
  /\ pc[c] = "insert"
  /\ pc' = [pc EXCEPT ![c] = "failed"]
  /\ UNCHANGED <<clock, org, paid, refunded, created, sweep, faults>>

\* The insert has no effect: the request failed, or the workflow is gone.
InsertFails(c) ==
  /\ pc[c] = "insert"
  /\ pc' = [pc EXCEPT ![c] = "release"]
  /\ UNCHANGED <<clock, org, paid, refunded, created, sweep, faults>>

\* The refund goes to the period the organization is in by now.
Release(c) ==
  LET o == OrgOf(c)
  IN  /\ pc[c] = "release"
      /\ org' = [org EXCEPT ![o] = Refund(org[o])]
      /\ refunded' = [refunded EXCEPT ![c] = org[o].period]
      /\ pc' = [pc EXCEPT ![c] = "failed"]
      /\ UNCHANGED <<clock, paid, created, sweep, faults>>

\* A refund that fails is logged and not tried again.
ReleaseFails(c) ==
  /\ pc[c] = "release"
  /\ pc' = [pc EXCEPT ![c] = "failed"]
  /\ Fault
  /\ UNCHANGED <<clock, org, paid, refunded, created, sweep>>

\* The process of a request dies.
CrashRequest(c) ==
  /\ c \in Request /\ pc[c] \in {"insert", "release"}
  /\ pc' = [pc EXCEPT ![c] = "dead"]
  /\ Fault
  /\ UNCHANGED <<clock, org, paid, refunded, created, sweep>>

-----------------------------------------------------------------------------
(* The cron.  An event is tried again when a try failed or died; the route *)
(* is killed when Hasura stops waiting for it, so that tries do not        *)
(* overlap, and the events come one after the other.                       *)

MayBegin(s) ==
  /\ sweep[s].pc = "idle"
  /\ \A r \in Sweep : ~ Live(r)
  /\ clock >= s[1] * CronPeriod
  /\ \A r \in Sweep : r[1] < s[1] /\ r[2] = 1 => sweep[r].pc # "idle"
  /\ \A r \in Sweep : r[1] > s[1] => sweep[r].pc = "idle"
  /\ s[2] > 1 => sweep[<<s[1], s[2] - 1>>].pc \in {"error", "dead"}

\* One read: the triggers, whether they can run, and their last runs.
BeginSweep(s) ==
  /\ MayBegin(s)
  /\ \E seen \in SUBSET Trigger :
       sweep' = [sweep EXCEPT ![s] =
                   [pc |-> "running", now |-> clock, seen |-> seen,
                    due |-> {t \in seen : Due(t, clock)}]]
  /\ UNCHANGED <<clock, org, paid, refunded, created, pc, faults>>

\* The read fails, and the sweep is answered with an error.
SweepFails(s) ==
  /\ MayBegin(s)
  /\ sweep' = [sweep EXCEPT ![s].pc = "error"]
  /\ Fault
  /\ UNCHANGED <<clock, org, paid, refunded, created, pc>>

\* The process of a sweep dies, or its answer is lost.
CrashSweep(s) ==
  /\ sweep[s].pc = "running"
  /\ sweep' = [sweep EXCEPT ![s].pc = "dead"]
  /\ pc' = [c \in Creation |->
              IF c \in Dispatch /\ c[1] = s /\ pc[c] \in {"insert", "release"}
              THEN "dead" ELSE pc[c]]
  /\ Fault
  /\ UNCHANGED <<clock, org, paid, refunded, created>>

Tick ==
  /\ clock < Horizon
  /\ \A s \in Sweep : Live(s) => clock < sweep[s].now + MaxDuration
  /\ clock' = clock + 1
  /\ UNCHANGED <<org, paid, refunded, created, pc, sweep, faults>>

-----------------------------------------------------------------------------

Init ==
  /\ clock = 0
  /\ org = [o \in Org |-> [used |-> 0, period |-> MonthOf[clock]]]
  /\ paid = [c \in Creation |-> None]
  /\ refunded = [c \in Creation |-> None]
  /\ created = [c \in Creation |-> None]
  /\ pc = [c \in Creation |-> "idle"]
  /\ sweep = [s \in Sweep |-> Idle]
  /\ faults = 0

Call(c) ==
  \/ Reserve(c) \/ ReserveRefused(c) \/ ReserveFails(c)
  \/ Insert(c) \/ InsertFails(c)
  \/ Release(c) \/ ReleaseFails(c)

Next ==
  \/ \E c \in Creation : Call(c)
  \/ \E c \in Request : CrashRequest(c)
  \/ \E s \in Sweep : BeginSweep(s) \/ SweepFails(s) \/ CrashSweep(s)
  \/ Tick

Spec == Init /\ [][Next]_vars

\* A sweep goes on with its calls until it is through, or its process dies.
FairSpec == /\ Spec
            /\ \A c \in Dispatch : WF_vars(Call(c))

-----------------------------------------------------------------------------
(* Correctness. *)

CallPC == {"idle", "insert", "release", "created", "refused", "failed", "dead"}

\* Everything is of its type; a refund never takes quota_used below zero (the
\* table's check would refuse it) and a reservation never above the limit.
TypeOK ==
  /\ clock \in Time
  /\ org \in [Org -> [used : Nat, period : Month]]
  /\ \A o \in Org : org[o].used <= Limit[o]
  /\ paid \in [Creation -> Month \cup {None}]
  /\ refunded \in [Creation -> Month \cup {None}]
  /\ created \in [Creation -> Time \cup {None}]
  /\ pc \in [Creation -> CallPC]
  /\ sweep \in [Sweep -> [pc   : {"idle", "running", "error", "dead"},
                          now  : Time \cup {None},
                          seen : SUBSET Trigger,
                          due  : SUBSET Trigger]]
  /\ faults \in 0..MaxFaults

\* The runs that organization o was allowed in month m.
RunsOf(o, m) == {c \in Creation : OrgOf(c) = o /\ paid[c] = m /\ created[c] # None}

\* Refunds taken off o's count of month m that no failed creation of that month
\* earned: the run exists (the answer to its insert was lost), or the unit had
\* been taken off an earlier month's count.
Unearned(o, m) ==
  {c \in Creation : OrgOf(c) = o /\ refunded[c] = m /\ (created[c] # None \/ paid[c] # m)}

\* An organization gets no more runs out of a month than its limit, but for
\* unearned refunds: concurrent calls and sweeps, resets and refunds do not add up
\* to anything more.
QuotaRespected ==
  \A o \in Org, m \in Month :
    Cardinality(RunsOf(o, m)) <= Limit[o] + Cardinality(Unearned(o, m))

\* The reservations of organization o in month m that were not refunded.
Charged(o, m) == {c \in Creation : OrgOf(c) = o /\ paid[c] = m /\ refunded[c] = None}

\* quota_used never exceeds what was reserved in this period and not refunded:
\* the organization is charged for nothing else, however resets and refunds
\* interleave.
NothingOvercharged ==
  \A o \in Org : org[o].used <= Cardinality(Charged(o, org[o].period))

\* A unit is held while its call is between the reservation and the end, and for good
\* once the run exists.
Held(o, m) ==
  {c \in Creation : /\ OrgOf(c) = o /\ paid[c] = m
                    /\ created[c] # None \/ pc[c] \in {"insert", "release"}}

\* Why QuotaRespected holds: in the current period quota_used covers the units held,
\* but for unearned refunds; no unit is held of a later period, and those of an
\* earlier one can only become fewer.  reserve_org_quota relies on it whenever it
\* grants a unit.
CreationInv ==
  /\ \A c \in Creation :
       /\ pc[c] = "idle" => paid[c] = None /\ created[c] = None
       /\ pc[c] \in {"insert", "release"} => paid[c] # None
       /\ pc[c] = "insert" => created[c] = None
       /\ pc[c] # "failed" => refunded[c] = None
       /\ paid[c] # None => paid[c] <= org[OrgOf(c)].period
  /\ \A o \in Org :
       /\ org[o].period <= MonthOf[clock]
       /\ Cardinality(Held(o, org[o].period))
             <= org[o].used + Cardinality(Unearned(o, org[o].period))
       /\ \A m \in Month :
            Cardinality(Held(o, m)) <= Limit[o] + Cardinality(Unearned(o, m))

\* The calls whose unit went astray: charged without a run to show for it, nor given
\* back nor about to be; or a run, and given back as well or about to be.
Astray ==
  {c \in Creation : /\ paid[c] # None
                    /\ (created[c] # None) <=> (refunded[c] # None \/ pc[c] \in {"insert", "release"})}

\* A unit that was reserved becomes a run or goes back, and never both, but for one unit
\* per fault: a crash, a failed request or a lost answer misplaces no second one, the
\* crash of a sweep that has made many calls included, and nothing else misplaces any.
UnitsAccounted == Cardinality(Astray) <= faults

\* Why UnitsAccounted holds of a sweep that dies: it begins a call when the ones before
\* are settled, so that a single unit is in its hands.
CallsInTurn ==
  \A s \in Sweep : \A t, u \in sweep[s].due :
    t < u /\ pc[<<s, u>>] # "idle" => Settled(<<s, t>>)

\* Two scheduled runs of a workflow are at least its interval apart, although the
\* sweep compares against a read that is older than its inserts, and is tried again.
DispatchesSpaced ==
  \A t \in Trigger, r, s \in Sweep :
    EveryMinutes[t] # NaN /\ r # s /\ {created[<<r, t>>], created[<<s, t>>]} \subseteq Int
      => \/ created[<<s, t>>] - created[<<r, t>>] >= Interval(t)
         \/ created[<<r, t>>] - created[<<s, t>>] >= Interval(t)

\* Sweep s may still insert a run for trigger t.
Ahead(s, t) == sweep[s].pc = "running" /\ t \in sweep[s].due /\ ~ Settled(<<s, t>>)

\* A sweep makes its calls for what was due, while it runs, and after its read.
InStep(s, t) ==
  /\ sweep[s].pc \in {"idle", "error"} => pc[<<s, t>>] = "idle"
  /\ pc[<<s, t>>] # "idle" => t \in sweep[s].due
  /\ pc[<<s, t>>] \in {"idle", "insert"} => created[<<s, t>>] = None
  /\ pc[<<s, t>>] \in {"insert", "release"} => sweep[s].pc = "running"
  /\ created[<<s, t>>] # None => created[<<s, t>>] >= sweep[s].now

\* Where s may still insert a run for t, its read saw the runs that r inserted.
SawRuns(r, s, t) ==
  EveryMinutes[t] # NaN /\ r # s /\ Ahead(s, t) /\ created[<<r, t>>] # None
    => sweep[s].now - created[<<r, t>>] >= Interval(t)

\* Why DispatchesSpaced holds: no two sweeps have inserts to make, so that the runs a
\* sweep saw when it read are the runs there are when it inserts.
DispatchInv ==
  /\ \A s \in Sweep, t \in Trigger : InStep(s, t)
  /\ \A s \in Sweep : sweep[s].pc \in {"running", "dead"} => sweep[s].now \in 0..clock
  /\ \A r, s \in Sweep : Live(r) /\ Live(s) => r = s
  /\ \A r, s \in Sweep, t \in Trigger : SawRuns(r, s, t)

\* A sweep that is not killed deals with every trigger that is due, although other
\* organizations are out of quota and requests fail.
SweepCompletes == \A s \in Sweep : Live(s) ~> ~ Live(s)

-----------------------------------------------------------------------------
(* What the documentation says and the code does not do. *)

\* cron_triggers.yaml:5-6: the sweep "starts the ones whose cadence is due".  A
\* trigger that was dispatched by a sweep its whole interval ago is due.
CadenceKept ==
  \A r, s \in Sweep, t \in Trigger :
    /\ EveryMinutes[t] # NaN
    /\ created[<<r, t>>] # None
    /\ t \in sweep[s].seen
    /\ sweep[s].now - sweep[r].now >= Interval(t)
    /\ \A q \in Sweep \ {r, s} : created[<<q, t>>] = None
    => t \in sweep[s].due
=============================================================================
