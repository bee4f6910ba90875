--------------------------- MODULE Notifications ----------------------------
(***************************************************************************)
(* The notifications outbox: a notify step inserts a row, Hasura's event   *)
(* trigger hands the row to the receiver (with retries and a timeout), the *)
(* receiver posts to Slack or logs, and writes the outcome back.           *)
(*                                                                         *)
(* A GraphQL request is answered, or is refused without effect, or takes   *)
(* effect and loses its answer, or is given up on by its client, which     *)
(* goes on, and takes effect later (execute of lib/hasura.ts aborts after  *)
(* 20 s).  A row is named by the step and the attempt that inserted it.    *)
(***************************************************************************)
EXTENDS Integers, FiniteSets

CONSTANTS
  Step,        \* the notify steps in progress
  Channel,     \* Step -> a channel; what the step's config names
  MaxAttempts, \* Step -> the attempts its retry policy allows
  Mode,        \* NOTIFY_MODE
  Tries,       \* 1 + num_retries of notification_created
  MaxFaults    \* bound on faults: requests, Slack, timeouts, crashes

Channels == {"slack", "email", "log"}

ASSUME NotificationsAssumption ==
  /\ IsFiniteSet(Step)
  /\ MaxAttempts \in [Step -> Nat \ {0}]
  /\ Mode \in {"slack", "log"}
  /\ Tries \in Nat \ {0}
  /\ MaxFaults \in Nat

Row      == UNION {{s} \X (1..MaxAttempts[s]) : s \in Step}
Receiver == Row \X (1..Tries)

VARIABLES
  url,       \* whether the deployment sets SLACK_WEBHOOK_URL
  step,      \* what each step is at: its body's state and its attempt
  row,       \* the rows of notifications, by their status; "absent" is no row
  event,     \* Hasura's log entry of each row
  pc,        \* what each receiver (one per try of an event) does next
  late,      \* requests in flight that their client has given up on
  delivered, \* the receivers whose message Slack received or the log shows (observer)
  faults     \* faults so far

vars == <<url, step, row, event, pc, late, delivered, faults>>

Fault == faults < MaxFaults /\ faults' = faults + 1

-----------------------------------------------------------------------------
(* The notify step under withRetry.                                        *)

\* A request that failed is retried: GraphQLRequestError is not permanent.
Retried(s) ==
  IF step[s].attempt < MaxAttempts[s] THEN [step EXCEPT ![s].attempt = @ + 1]
                                      ELSE [step EXCEPT ![s].state = "failed"]

Enqueued(s) == [step EXCEPT ![s].state = "completed"]

RaiseEvent(r) == /\ row'   = [row EXCEPT ![r] = "pending"]
                 /\ event' = [event EXCEPT ![r] = [try |-> 0, state |-> "due"]]

\* A channel the step does not know is a permanent error, before any request.
RefuseConfig(s) ==
  /\ step[s].state = "running"
  /\ Channel[s] \notin Channels
  /\ step' = [step EXCEPT ![s].state = "failed"]
  /\ UNCHANGED <<row, event, pc, late, delivered, faults>>

InsertNotification(s) ==
  LET r == <<s, step[s].attempt>> IN
  /\ step[s].state = "running"
  /\ Channel[s] \in Channels
  /\ \/ RaiseEvent(r) /\ step' = Enqueued(s) /\ UNCHANGED <<late, faults>>
     \/ RaiseEvent(r) /\ step' = Retried(s) /\ Fault /\ UNCHANGED late
     \/ step' = Retried(s) /\ Fault /\ UNCHANGED <<row, event, late>>
     \/ /\ step' = Retried(s) /\ Fault
        /\ late' = late \cup {[row |-> r, status |-> "pending"]}
        /\ UNCHANGED <<row, event>>
  /\ UNCHANGED <<pc, delivered>>

\* The handler that executes the step dies.
CrashStep(s) ==
  /\ step[s].state = "running"
  /\ step' = [step EXCEPT ![s].state = "orphaned"]
  /\ Fault
  /\ UNCHANGED <<row, event, pc, late, delivered>>

-----------------------------------------------------------------------------
(* Hasura's delivery of the event.                                         *)

Deliver(r) ==
  /\ event[r].state = "due"
  /\ event' = [event EXCEPT ![r] = [try |-> @.try + 1, state |-> "waiting"]]
  /\ pc' = [pc EXCEPT ![<<r, event[r].try + 1>>] = "deliver"]
  /\ UNCHANGED <<step, row, late, delivered, faults>>

\* Variant for a check: an event is given up on after its first failed try.
UnansweredOnce(r) == [event EXCEPT ![r].state = "error"]

\* Variant for a check: the first try is not counted.
UnansweredOnceMore(r) ==
  [event EXCEPT ![r].state = IF event[r].try <= Tries THEN "due" ELSE "error"]

\* A non-2xx answer, or none within timeout_sec: retry_conf decides.
Unanswered(r) ==
  [event EXCEPT ![r].state = IF event[r].try < Tries THEN "due" ELSE "error"]

Awaited(r, n) == event[r] = [try |-> n, state |-> "waiting"]

\* Variant for a check: a 2xx is not told from the other answers.
AnsweredUnread(r, n, ok) == event' = IF Awaited(r, n) THEN Unanswered(r) ELSE event

\* The answer of try n; Hasura drops it when it no longer waits for it.
Answered(r, n, ok) ==
  event' = IF ~Awaited(r, n) THEN event
           ELSE IF ok THEN [event EXCEPT ![r].state = "delivered"]
           ELSE Unanswered(r)

DeliveryTimeout(r) ==
  /\ event[r].state = "waiting"
  /\ event' = Unanswered(r)
  /\ Fault
  /\ UNCHANGED <<step, row, pc, late, delivered>>

-----------------------------------------------------------------------------
(* The receiver of try n of row r.  The status it checks first is the one  *)
(* in the event's payload, a snapshot of the insert, which is pending.     *)

ToSlack(r) == Mode = "slack" /\ Channel[r[1]] = "slack"

At(r, n, l)    == pc[<<r, n>>] = l
GoTo(r, n, l)  == pc' = [pc EXCEPT ![<<r, n>>] = l]
Received(r, n) == delivered' = delivered \cup {<<r, n>>}

\* Variant for a check: the post to Slack is not awaited.
SendUnawaited(r, n) ==
  /\ At(r, n, "deliver")
  /\ GoTo(r, n, "mark_sent")
  /\ \/ Received(r, n) /\ UNCHANGED faults
     \/ Fault /\ UNCHANGED delivered
  /\ UNCHANGED <<step, row, event, late>>

\* The row is logged, or posted: received, refused, or received by Slack but
\* not answered within 10 s.
SendNotification(r, n) ==
  /\ At(r, n, "deliver")
  /\ \/ ~ToSlack(r) /\ Received(r, n) /\ GoTo(r, n, "mark_sent") /\ UNCHANGED faults
     \/ /\ ToSlack(r) /\ ~url
        /\ GoTo(r, n, "mark_failed") /\ UNCHANGED <<delivered, faults>>
     \/ /\ ToSlack(r) /\ url
        /\ \/ Received(r, n) /\ GoTo(r, n, "mark_sent") /\ UNCHANGED faults
           \/ Received(r, n) /\ GoTo(r, n, "mark_failed") /\ Fault
           \/ GoTo(r, n, "mark_failed") /\ Fault /\ UNCHANGED delivered
  /\ UNCHANGED <<step, row, event, late>>

\* One MARK_DELIVERED request: answered (then `then'), or not (then `else').
Mark(r, status, then, else) ==
  \/ row' = [row EXCEPT ![r] = status] /\ then /\ UNCHANGED <<late, faults>>
  \/ row' = [row EXCEPT ![r] = status] /\ else /\ Fault /\ UNCHANGED late
  \/ else /\ Fault /\ UNCHANGED <<row, late>>
  \/ else /\ Fault /\ late' = late \cup {[row |-> r, status |-> status]}
     /\ UNCHANGED row

MarkSent(r, n) ==
  /\ At(r, n, "mark_sent")
  /\ Mark(r, "sent", GoTo(r, n, "done") /\ Answered(r, n, TRUE),
                     GoTo(r, n, "mark_failed") /\ UNCHANGED event)
  /\ UNCHANGED <<step, delivered>>

\* 502 when the failure is recorded, 500 when it is not: neither is a 2xx.
MarkFailed(r, n) ==
  /\ At(r, n, "mark_failed")
  /\ Mark(r, "failed", GoTo(r, n, "done") /\ Answered(r, n, FALSE),
                       GoTo(r, n, "done") /\ Answered(r, n, FALSE))
  /\ UNCHANGED <<step, delivered>>

\* The receiver dies; Hasura sees the connection close.
CrashReceiver(r, n) ==
  /\ pc[<<r, n>>] \notin {"idle", "done"}
  /\ GoTo(r, n, "done")
  /\ Answered(r, n, FALSE)
  /\ Fault
  /\ UNCHANGED <<step, row, late, delivered>>

\* A request its client gave up on takes effect after all.
LateEffect(l) ==
  /\ late' = late \ {l}
  /\ IF l.status = "pending" THEN RaiseEvent(l.row)
     ELSE row' = [row EXCEPT ![l.row] = l.status] /\ UNCHANGED event
  /\ UNCHANGED <<step, pc, delivered, faults>>

-----------------------------------------------------------------------------
Init ==
  /\ url \in BOOLEAN
  /\ step = [s \in Step |-> [state |-> "running", attempt |-> 1]]
  /\ row = [r \in Row |-> "absent"]
  /\ event = [r \in Row |-> [try |-> 0, state |-> "none"]]
  /\ pc = [c \in Receiver |-> "idle"]
  /\ late = {}
  /\ delivered = {}
  /\ faults = 0

ReceiverStep(r, n) == SendNotification(r, n) \/ MarkSent(r, n) \/ MarkFailed(r, n)

Next ==
  /\ \/ \E s \in Step : RefuseConfig(s) \/ InsertNotification(s) \/ CrashStep(s)
     \/ \E r \in Row : Deliver(r) \/ DeliveryTimeout(r)
     \/ \E r \in Row, n \in 1..Tries : ReceiverStep(r, n) \/ CrashReceiver(r, n)
     \/ \E l \in late : LateEffect(l)
  /\ UNCHANGED url

Spec == Init /\ [][Next]_vars

\* Hasura goes on delivering, and a process that lives goes on to its next
\* request; no fault has to happen, and a late request need not take effect.
FairSpec ==
  /\ Spec
  /\ \A s \in Step : WF_vars(UNCHANGED url /\ (RefuseConfig(s) \/ InsertNotification(s)))
  /\ \A r \in Row : WF_vars(UNCHANGED url /\ Deliver(r))
  /\ \A r \in Row, n \in 1..Tries : WF_vars(UNCHANGED url /\ ReceiverStep(r, n))

-----------------------------------------------------------------------------
(* Properties.                                                             *)

\* The shape of the state; every row that exists has an event, a receiver runs
\* for each try Hasura has made of it, and only who is past the post has posted.
TypeOK ==
  /\ step \in [Step -> [state : {"running", "completed", "failed", "orphaned"}, attempt : Nat]]
  /\ row \in [Row -> {"absent", "pending", "sent", "failed"}]
  /\ event \in [Row -> [try : 0..Tries, state : {"none", "due", "waiting", "delivered", "error"}]]
  /\ pc \in [Receiver -> {"idle", "deliver", "mark_sent", "mark_failed", "done"}]
  /\ late \subseteq [row : Row, status : {"pending", "sent", "failed"}]
  /\ delivered \subseteq {c \in Receiver : pc[c] \notin {"idle", "deliver"}}
  /\ faults \in 0..MaxFaults
  /\ \A r \in Row : (row[r] = "absent") <=> (event[r].state = "none")
  /\ \A r \in Row, n \in 1..Tries : (pc[<<r, n>>] = "idle") <=> (event[r].try < n)

WasReceived(r) == \E n \in 1..Tries : <<r, n>> \in delivered

\* No row claims to be sent unless Slack, or the log, received it: over retries
\* of the event, overlapping receivers and writes that arrive late.
SentWasReceived == \A r \in Row : row[r] = "sent" => WasReceived(r)

\* What no request can meet: an attempt still to be made has neither a row nor
\* a request in flight, whatever the earlier attempts left behind.
NotYet ==
  \A s \in Step :
    /\ step[s].attempt <= MaxAttempts[s]
    /\ step[s].state = "running" =>
         \A k \in step[s].attempt..MaxAttempts[s] :
           row[<<s, k>>] = "absent" /\ \A l \in late : l.row # <<s, k>>

\* A late insert finds no row and a late update finds one; an event is due only
\* while tries are left, and none was tried before it was raised.
OutboxInv ==
  /\ NotYet
  /\ \A s \in Step : step[s].attempt >= 1
  /\ \A l \in late : (l.status = "pending") <=> (row[l.row] = "absent")
  /\ \A r \in Row : event[r].state = "due" => event[r].try < Tries
  /\ \A r \in Row : event[r].state = "none" => event[r].try = 0

\* Whoever is about to write "sent", now or late, does so for a received row.
SentInv ==
  /\ SentWasReceived
  /\ \A r \in Row, n \in 1..Tries : At(r, n, "mark_sent") => WasReceived(r)
  /\ \A l \in late : l.status = "sent" => WasReceived(l.row)

OutboxInductiveInv == TypeOK /\ OutboxInv /\ SentInv

\* A message is delivered twice only where something failed: the messages of
\* all steps together exceed one per step by at most one per fault, whichever
\* of the two retry loops (the step's, Hasura's) repeats them.
DuplicatesCostFaults == Cardinality(delivered) <= Cardinality(Step) + faults

\* Where further messages come from: steps that may still insert, receivers at
\* their delivery, and rows that Hasura has yet to hand over, or will hand over
\* again, or that do not exist yet because their insert is late.
Running == {s \in Step : step[s].state = "running"}
Served  == delivered \cup {c \in Receiver : pc[c] = "deliver"}
Owed    ==
  {r \in Row :
     \/ event[r].state = "due"
     \/ event[r].state = "waiting" /\ At(r, event[r].try, "mark_failed")
     \/ \E l \in late : l.row = r /\ l.status = "pending"}

CostInv == Cardinality(Served) + Cardinality(Running) + Cardinality(Owed) <= Cardinality(Step) + faults

\* With fewer faults than tries a queued notification is acknowledged in the
\* end: no fault, late write or overlap of receivers uses up more than one try.
\* One meant for Slack, in a deployment without its URL, ends as failed with its
\* tries used up, and is not reported as sent at any later time.
NotificationSettles ==
  \A r \in Row :
    row[r] = "pending" ~>
      IF ToSlack(r) /\ ~url THEN [](row[r] = "failed" /\ event[r].state = "error")
                            ELSE event[r].state = "delivered"
=============================================================================
