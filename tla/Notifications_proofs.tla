------------------------ MODULE Notifications_proofs ------------------------
(***************************************************************************)
(* Proofs about Notifications, for every number of steps, attempts, tries  *)
(* and faults: the shape of the outbox (TypeOK) and that no row claims to  *)
(* be sent unless it was received (SentWasReceived).                       *)
(*                                                                         *)
(* Neither is inductive.  An insert that takes effect long after its       *)
(* client gave up resets the event of its row, which is harmless only      *)
(* because the row cannot exist by then (OutboxInv); a late update marks a *)
(* row sent, which is honest only because the receiver had delivered it    *)
(* before it asked (SentInv).                                              *)
(***************************************************************************)
EXTENDS Notifications, FiniteSetTheorems, TLAPS

\* A row is a step with one of its attempts.
LEMMA RowIsStepAttempt ==
  ASSUME NEW r
  PROVE  r \in Row <=> \E s \in Step : \E k \in 1..MaxAttempts[s] : r = <<s, k>>
BY DEF Row

\* A receiver is a row with one of its tries.
LEMMA ReceiverIsRowTry ==
  ASSUME NEW c
  PROVE  c \in Receiver <=> \E r \in Row : \E n \in 1..Tries : c = <<r, n>>
BY DEF Receiver

\* The outbox starts empty, with nothing in flight.
LEMMA OutboxInit == Init => OutboxInductiveInv
<1>. SUFFICES ASSUME Init PROVE OutboxInductiveInv
  OBVIOUS
<1>. USE NotificationsAssumption DEF Init
<1>1. TypeOK
  <2>1. /\ row \in [Row -> {"absent", "pending", "sent", "failed"}]
        /\ pc \in [Receiver -> {"idle", "deliver", "mark_sent", "mark_failed", "done"}]
        /\ delivered \subseteq {c \in Receiver : pc[c] \notin {"idle", "deliver"}}
        /\ late \subseteq [row : Row, status : {"pending", "sent", "failed"}]
        /\ faults \in 0..MaxFaults
    OBVIOUS
  <2>2. event \in [Row -> [try : 0..Tries, state : {"none", "due", "waiting", "delivered", "error"}]]
    OBVIOUS
  <2>3. step \in [Step -> [state : {"running", "completed", "failed", "orphaned"}, attempt : Nat]]
    OBVIOUS
  <2>4. \A r \in Row : (row[r] = "absent") <=> (event[r].state = "none")
    OBVIOUS
  <2>5. \A r \in Row, n \in 1..Tries : (pc[<<r, n>>] = "idle") <=> (event[r].try < n)
    BY ReceiverIsRowTry
  <2>. QED BY <2>1, <2>2, <2>3, <2>4, <2>5 DEF TypeOK
<1>2. OutboxInv
  <2>1. NotYet
    BY RowIsStepAttempt DEF NotYet
  <2>. QED BY <2>1 DEF OutboxInv
<1>3. SentInv
  <2>1. \A r \in Row, n \in 1..Tries : ~At(r, n, "mark_sent")
    BY ReceiverIsRowTry DEF At
  <2>. QED BY <2>1 DEF SentInv, SentWasReceived
<1>. QED BY <1>1, <1>2, <1>3 DEF OutboxInductiveInv

-----------------------------------------------------------------------------
(* The parts of a step.                                                    *)

\* A step whose attempt ends goes on to the next one or stops; either way the
\* attempts still to be made are among those after this one.
LEMMA AttemptEnds ==
  ASSUME TypeOK, OutboxInv,
         NEW s \in Step, step[s].state = "running",
         step' = Enqueued(s) \/ step' = Retried(s)
  PROVE  /\ step' \in [Step -> [state : {"running", "completed", "failed", "orphaned"}, attempt : Nat]]
         /\ \A t \in Step : step'[t].attempt >= 1 /\ step'[t].attempt <= MaxAttempts[t]
         /\ \A t \in Step \ {s} : step'[t] = step[t]
         /\ step'[s].state = "running" => step'[s].attempt = step[s].attempt + 1
<1>. USE NotificationsAssumption DEF TypeOK, OutboxInv, NotYet
<1>. DEFINE S == [state : {"running", "completed", "failed", "orphaned"}, attempt : Nat]
<1>1. step \in [Step -> S] /\ MaxAttempts[s] \in Nat
  OBVIOUS
<1>2. step[s].attempt \in Nat /\ step[s].attempt >= 1 /\ step[s].attempt <= MaxAttempts[s]
  BY <1>1
<1>3. ASSUME NEW w \in S, step' = [step EXCEPT ![s] = w],
             w.attempt >= 1, w.attempt <= MaxAttempts[s],
             w.state = "running" => w.attempt = step[s].attempt + 1
      PROVE  /\ step' \in [Step -> S]
             /\ \A t \in Step : step'[t].attempt >= 1 /\ step'[t].attempt <= MaxAttempts[t]
             /\ \A t \in Step \ {s} : step'[t] = step[t]
             /\ step'[s].state = "running" => step'[s].attempt = step[s].attempt + 1
  <2>. HIDE DEF S
  <2>. QED BY <1>1, <1>3
<1>4. CASE \/ step' = [step EXCEPT ![s].state = "completed"]
           \/ step' = [step EXCEPT ![s].state = "failed"]
  <2>1. PICK x \in {"completed", "failed"} : step' = [step EXCEPT ![s].state = x]
    BY <1>4
  <2>. DEFINE w == [step[s] EXCEPT !.state = x]
  <2>2. w \in S /\ w.state = x /\ w.attempt = step[s].attempt
    BY <1>1
  <2>3. step' = [step EXCEPT ![s] = w]
    BY <2>1
  <2>. HIDE DEF w, TypeOK, OutboxInv, NotYet
  <2>. QED BY <1>2, <1>3, <2>2, <2>3
<1>5. CASE step[s].attempt < MaxAttempts[s] /\ step' = [step EXCEPT ![s].attempt = @ + 1]
  <2>. DEFINE w == [step[s] EXCEPT !.attempt = @ + 1]
  <2>2. w \in S /\ w.state = "running" /\ w.attempt = step[s].attempt + 1
    BY <1>1
  <2>3. step' = [step EXCEPT ![s] = w]
    BY <1>5
  <2>4. w.attempt >= 1 /\ w.attempt <= MaxAttempts[s]
    BY <1>1, <1>2, <1>5, <2>2
  <2>. HIDE DEF w, TypeOK, OutboxInv, NotYet
  <2>. QED BY <1>3, <2>2, <2>3, <2>4
<1>. QED BY <1>4, <1>5 DEF Enqueued, Retried

\* An event is raised for a row that did not exist: it is due, and no receiver
\* of an earlier one can be running.
LEMMA EventRaised ==
  ASSUME OutboxInductiveInv, NEW r \in Row, row[r] = "absent",
         RaiseEvent(r), UNCHANGED pc
  PROVE  /\ row' \in [Row -> {"absent", "pending", "sent", "failed"}]
         /\ event' \in [Row -> [try : 0..Tries, state : {"none", "due", "waiting", "delivered", "error"}]]
         /\ \A q \in Row : (row'[q] = "absent") <=> (event'[q].state = "none")
         /\ \A q \in Row, n \in 1..Tries : (pc'[<<q, n>>] = "idle") <=> (event'[q].try < n)
         /\ \A q \in Row : event'[q].state = "due" => event'[q].try < Tries
         /\ \A q \in Row : event'[q].state = "none" => event'[q].try = 0
         /\ row'[r] = "pending"
         /\ \A q \in Row \ {r} : row'[q] = row[q]
<1>. USE NotificationsAssumption
<1>. DEFINE e == [try |-> 0, state |-> "due"]
<1>1. e \in [try : 0..Tries, state : {"none", "due", "waiting", "delivered", "error"}]
      /\ e.try = 0 /\ e.state = "due"
  OBVIOUS
<1>2. event' = [event EXCEPT ![r] = e] /\ row' = [row EXCEPT ![r] = "pending"]
  BY DEF RaiseEvent
<1>3. event[r].try = 0
  BY DEF OutboxInductiveInv, TypeOK, OutboxInv
<1>. HIDE DEF e
<1>. QED BY <1>1, <1>2, <1>3 DEF OutboxInductiveInv, TypeOK, OutboxInv

\* What an answer, or its absence, makes of the event: the tries made stay
\* counted and the event stays.
LEMMA AnswerTaken ==
  ASSUME TypeOK, OutboxInv, NEW r \in Row,
         \/ event' = event
         \/ event[r].state = "waiting" /\ event' = Unanswered(r)
         \/ event[r].state = "waiting" /\ event' = [event EXCEPT ![r].state = "delivered"]
  PROVE  /\ event' \in [Row -> [try : 0..Tries, state : {"none", "due", "waiting", "delivered", "error"}]]
         /\ \A q \in Row : event'[q].try = event[q].try
         /\ \A q \in Row : (event'[q].state = "none") <=> (event[q].state = "none")
         /\ \A q \in Row : event'[q].state = "due" => event'[q].try < Tries
<1>. USE NotificationsAssumption DEF TypeOK, OutboxInv
<1>1. CASE event' = event
  BY <1>1
<1>2. CASE event' # event
  <2>1. PICK x \in {"due", "error", "delivered"} :
          /\ event' = [event EXCEPT ![r].state = x]
          /\ x = "due" => event[r].try < Tries
    BY <1>2 DEF Unanswered
  <2>2. event[r].state = "waiting"
    BY <1>2
  <2>. DEFINE w == [event[r] EXCEPT !.state = x]
  <2>3. /\ w \in [try : 0..Tries, state : {"none", "due", "waiting", "delivered", "error"}]
        /\ w.try = event[r].try /\ w.state = x
    OBVIOUS
  <2>4. event' = [event EXCEPT ![r] = w]
    BY <2>1
  <2>. HIDE DEF w
  <2>. QED BY <2>1, <2>2, <2>3, <2>4
<1>. QED BY <1>1, <1>2

\* The three outcomes of an answer.
LEMMA AnsweredCases ==
  ASSUME NEW r \in Row, NEW n \in 1..Tries, NEW ok \in BOOLEAN,
         Answered(r, n, ok)
  PROVE  \/ event' = event
         \/ event[r].state = "waiting" /\ event' = Unanswered(r)
         \/ event[r].state = "waiting" /\ event' = [event EXCEPT ![r].state = "delivered"]
BY DEF Answered, Awaited
\* Faults are counted up to their bound.
LEMMA FaultsCounted ==
  ASSUME OutboxInductiveInv, UNCHANGED faults \/ Fault
  PROVE  faults' \in 0..MaxFaults
<1>1. faults \in 0..MaxFaults /\ MaxFaults \in Nat
  BY NotificationsAssumption DEF OutboxInductiveInv, TypeOK
<1>. QED BY <1>1 DEF Fault

-----------------------------------------------------------------------------
(* What the attempts still to be made rely on.                             *)

\* A change that concerns one row, of which there is already a trace, does not
\* touch an attempt still to be made.
LEMMA TraceIsOfThePast ==
  ASSUME OutboxInductiveInv, NEW r \in Row, UNCHANGED step,
         row[r] # "absent" \/ \E l \in late : l.row = r,
         \A q \in Row \ {r} : row'[q] = row[q],
         \A l \in late' : l \in late \/ l.row = r
  PROVE  NotYet' /\ (\A s \in Step : step'[s].attempt >= 1)
<1>. USE DEF OutboxInductiveInv, OutboxInv
<1>1. ASSUME NEW s \in Step, step[s].state = "running",
             NEW k \in step[s].attempt..MaxAttempts[s]
      PROVE  row'[<<s, k>>] = "absent" /\ \A l \in late' : l.row # <<s, k>>
  <2>1. row[<<s, k>>] = "absent" /\ \A l \in late : l.row # <<s, k>>
    BY <1>1 DEF NotYet
  <2>2. <<s, k>> # r
    BY <2>1
  <2>3. <<s, k>> \in Row
    <3>1. step[s].attempt \in Nat /\ step[s].attempt >= 1 /\ MaxAttempts[s] \in Nat
      BY NotificationsAssumption DEF TypeOK
    <3>2. k \in 1..MaxAttempts[s]
      BY <3>1
    <3>. QED BY <3>2, RowIsStepAttempt
  <2>. QED BY <2>1, <2>2, <2>3
<1>. QED BY <1>1 DEF NotYet

\* An attempt that ends leaves its trace, if any, where no later one looks.
LEMMA LaterAttemptsUntouched ==
  ASSUME OutboxInductiveInv, NEW s \in Step, step[s].state = "running",
         step' = Enqueued(s) \/ step' = Retried(s),
         \A q \in Row \ {<<s, step[s].attempt>>} : row'[q] = row[q],
         \A l \in late' : l \in late \/ l.row = <<s, step[s].attempt>>
  PROVE  NotYet' /\ (\A t \in Step : step'[t].attempt >= 1)
<1>. USE DEF OutboxInductiveInv, OutboxInv
<1>1. /\ \A t \in Step : step'[t].attempt >= 1 /\ step'[t].attempt <= MaxAttempts[t]
      /\ \A t \in Step \ {s} : step'[t] = step[t]
      /\ step'[s].state = "running" => step'[s].attempt = step[s].attempt + 1
  BY AttemptEnds
<1>2. ASSUME NEW t \in Step, step'[t].state = "running",
             NEW k \in step'[t].attempt..MaxAttempts[t]
      PROVE  row'[<<t, k>>] = "absent" /\ \A l \in late' : l.row # <<t, k>>
  <2>1. step[t].attempt \in Nat /\ step[t].attempt >= 1 /\ MaxAttempts[t] \in Nat
    BY NotificationsAssumption DEF TypeOK
  <2>2. /\ step[t].state = "running"
        /\ k \in step[t].attempt..MaxAttempts[t]
        /\ t = s => k # step[s].attempt
    BY <1>1, <1>2, <2>1
  <2>3. row[<<t, k>>] = "absent" /\ \A l \in late : l.row # <<t, k>>
    BY <2>2 DEF NotYet
  <2>4. <<t, k>> # <<s, step[s].attempt>>
    BY <2>2
  <2>5. <<t, k>> \in Row
    <3>1. k \in 1..MaxAttempts[t]
      BY <2>1, <2>2
    <3>. QED BY <3>1, RowIsStepAttempt
  <2>. QED BY <2>3, <2>4, <2>5
<1>. QED BY <1>1, <1>2 DEF NotYet

-----------------------------------------------------------------------------
(* The steps.                                                              *)

\* A step that refuses its channel, or whose handler dies, asks for nothing.
LEMMA StepStops ==
  ASSUME OutboxInductiveInv, NEW s \in Step, RefuseConfig(s) \/ CrashStep(s)
  PROVE  OutboxInductiveInv'
<1>. USE NotificationsAssumption
<1>1. PICK x \in {"failed", "orphaned"} : step' = [step EXCEPT ![s].state = x]
  BY DEF RefuseConfig, CrashStep
<1>2. /\ UNCHANGED <<row, event, pc, late, delivered>>
      /\ step[s].state = "running"
      /\ faults' \in 0..MaxFaults
  BY DEF RefuseConfig, CrashStep, Fault, OutboxInductiveInv, TypeOK
<1>. DEFINE S == [state : {"running", "completed", "failed", "orphaned"}, attempt : Nat]
<1>3. step \in [Step -> S]
  BY DEF OutboxInductiveInv, TypeOK
<1>. DEFINE w == [step[s] EXCEPT !.state = x]
<1>4. w \in S /\ w.state = x /\ w.attempt = step[s].attempt
  BY <1>3
<1>5. step' = [step EXCEPT ![s] = w]
  BY <1>1
<1>. HIDE DEF w
<1>6. TypeOK'
  BY <1>2, <1>3, <1>4, <1>5 DEF OutboxInductiveInv, TypeOK
<1>7. NotYet' /\ \A t \in Step : step'[t].attempt >= 1
  BY <1>2, <1>3, <1>4, <1>5 DEF OutboxInductiveInv, OutboxInv, NotYet
<1>8. OutboxInv'
  BY <1>2, <1>7 DEF OutboxInductiveInv, OutboxInv
<1>9. SentInv'
  BY <1>2 DEF OutboxInductiveInv, SentInv, SentWasReceived, WasReceived, At
<1>. QED BY <1>6, <1>8, <1>9 DEF OutboxInductiveInv

\* Inserting the row: done, done unknown to the step, refused, or still to come.
LEMMA Inserted ==
  ASSUME OutboxInductiveInv, NEW s \in Step, InsertNotification(s)
  PROVE  OutboxInductiveInv'
<1>. USE NotificationsAssumption
<1>. DEFINE r == <<s, step[s].attempt>>
<1>1. step[s].state = "running" /\ UNCHANGED <<pc, delivered>>
  BY DEF InsertNotification
<1>2. step' = Enqueued(s) \/ step' = Retried(s)
  BY DEF InsertNotification
<1>3. faults' \in 0..MaxFaults
  BY DEF InsertNotification, Fault, OutboxInductiveInv, TypeOK
<1>4. \/ RaiseEvent(r) /\ UNCHANGED late
      \/ UNCHANGED <<row, event, late>>
      \/ late' = late \cup {[row |-> r, status |-> "pending"]} /\ UNCHANGED <<row, event>>
  BY DEF InsertNotification
<1>5. /\ step[s].attempt \in 1..MaxAttempts[s]
      /\ r \in Row
      /\ row[r] = "absent" /\ \A l \in late : l.row # r
  <2>1. step[s].attempt \in Nat /\ MaxAttempts[s] \in Nat
    BY DEF OutboxInductiveInv, TypeOK
  <2>2. step[s].attempt \in 1..MaxAttempts[s] /\ step[s].attempt \in step[s].attempt..MaxAttempts[s]
    BY <2>1 DEF OutboxInductiveInv, OutboxInv, NotYet
  <2>. QED BY <1>1, <2>2, RowIsStepAttempt DEF OutboxInductiveInv, OutboxInv, NotYet
<1>6. step' \in [Step -> [state : {"running", "completed", "failed", "orphaned"}, attempt : Nat]]
  BY <1>1, <1>2, AttemptEnds DEF OutboxInductiveInv
<1>7. ASSUME \A q \in Row \ {r} : row'[q] = row[q],
             \A l \in late' : l \in late \/ l.row = r
      PROVE  NotYet' /\ \A t \in Step : step'[t].attempt >= 1
  BY <1>1, <1>2, <1>7, LaterAttemptsUntouched
<1>. HIDE DEF r
<1>8. CASE RaiseEvent(r) /\ UNCHANGED late
  <2>1. /\ row' \in [Row -> {"absent", "pending", "sent", "failed"}]
        /\ event' \in [Row -> [try : 0..Tries, state : {"none", "due", "waiting", "delivered", "error"}]]
        /\ \A q \in Row : (row'[q] = "absent") <=> (event'[q].state = "none")
        /\ \A q \in Row, n \in 1..Tries : (pc'[<<q, n>>] = "idle") <=> (event'[q].try < n)
        /\ \A q \in Row : event'[q].state = "due" => event'[q].try < Tries
        /\ \A q \in Row : event'[q].state = "none" => event'[q].try = 0
        /\ row'[r] = "pending"
        /\ \A q \in Row \ {r} : row'[q] = row[q]
    BY <1>1, <1>5, <1>8, EventRaised
  <2>2. TypeOK'
    BY <1>1, <1>3, <1>6, <1>8, <2>1 DEF OutboxInductiveInv, TypeOK
  <2>3. \A l \in late' : (l.status = "pending") <=> (row'[l.row] = "absent")
    BY <1>5, <1>8, <2>1 DEF OutboxInductiveInv, OutboxInv, TypeOK
  <2>4. OutboxInv'
    BY <1>7, <1>8, <2>1, <2>3 DEF OutboxInv
  <2>5. SentInv'
    BY <1>1, <1>8, <2>1 DEF OutboxInductiveInv, SentInv, SentWasReceived, WasReceived, At
  <2>. QED BY <2>2, <2>4, <2>5 DEF OutboxInductiveInv
<1>9. CASE UNCHANGED <<row, event>> /\ \A l \in late' : l \in late \/ l = [row |-> r, status |-> "pending"]
  <2>1. \A l \in late' : l \in late \/ (l.row = r /\ l.status = "pending")
    BY <1>9
  <2>2. late' \subseteq [row : Row, status : {"pending", "sent", "failed"}]
    BY <1>5, <1>9 DEF OutboxInductiveInv, TypeOK
  <2>3. TypeOK'
    BY <1>1, <1>3, <1>6, <1>9, <2>2 DEF OutboxInductiveInv, TypeOK
  <2>4. \A l \in late' : (l.status = "pending") <=> (row'[l.row] = "absent")
    BY <1>5, <1>9, <2>1 DEF OutboxInductiveInv, OutboxInv
  <2>5. OutboxInv'
    BY <1>7, <1>9, <2>1, <2>4 DEF OutboxInductiveInv, OutboxInv
  <2>6. SentInv'
    BY <1>1, <1>9, <2>1 DEF OutboxInductiveInv, SentInv, SentWasReceived, WasReceived, At
  <2>. QED BY <2>3, <2>5, <2>6 DEF OutboxInductiveInv
<1>. QED BY <1>4, <1>8, <1>9
\* Hasura starts a try: one more is counted and its receiver starts.
LEMMA Delivered ==
  ASSUME OutboxInductiveInv, NEW r \in Row, Deliver(r)
  PROVE  OutboxInductiveInv'
<1>. USE NotificationsAssumption
<1>. DEFINE E == [try : 0..Tries, state : {"none", "due", "waiting", "delivered", "error"}]
            m == event[r].try + 1
            w == [try |-> m, state |-> "waiting"]
<1>1. /\ event[r].state = "due" /\ UNCHANGED <<step, row, late, delivered, faults>>
      /\ pc' = [pc EXCEPT ![<<r, m>>] = "deliver"]
      /\ event' = [event EXCEPT ![r] = w]
  BY DEF Deliver
<1>2. event \in [Row -> E] /\ event[r].try \in Nat /\ event[r].try < Tries
  BY <1>1 DEF OutboxInductiveInv, TypeOK, OutboxInv
<1>3. w \in E /\ w.try = m /\ w.state = "waiting" /\ m \in 1..Tries /\ m = event[r].try + 1
  BY <1>2
<1>4. <<r, m>> \in Receiver
  BY <1>3, ReceiverIsRowTry
<1>. HIDE DEF w, m
<1>5. /\ event' \in [Row -> E]
      /\ \A q \in Row \ {r} : event'[q] = event[q]
      /\ event'[r] = w
  BY <1>1, <1>2, <1>3
<1>6. /\ pc' \in [Receiver -> {"idle", "deliver", "mark_sent", "mark_failed", "done"}]
      /\ \A c \in Receiver \ {<<r, m>>} : pc'[c] = pc[c]
      /\ pc'[<<r, m>>] = "deliver"
  BY <1>1, <1>4 DEF OutboxInductiveInv, TypeOK
<1>7. \A q \in Row : (row'[q] = "absent") <=> (event'[q].state = "none")
  BY <1>1, <1>3, <1>5 DEF OutboxInductiveInv, TypeOK
<1>8. ASSUME NEW q \in Row, NEW n \in 1..Tries
      PROVE  (pc'[<<q, n>>] = "idle") <=> (event'[q].try < n)
  <2>1. <<q, n>> \in Receiver /\ ((pc[<<q, n>>] = "idle") <=> (event[q].try < n))
    BY ReceiverIsRowTry DEF OutboxInductiveInv, TypeOK
  <2>2. CASE q = r /\ n = m
    BY <1>3, <1>5, <1>6, <2>2
  <2>3. CASE q = r /\ n # m
    <3>1. (event[r].try < n) <=> (m < n)
      BY <1>2, <1>3, <2>3
    <3>. QED BY <1>3, <1>5, <1>6, <2>1, <2>3, <3>1
  <2>4. CASE q # r
    BY <1>5, <1>6, <2>1, <2>4
  <2>. QED BY <2>2, <2>3, <2>4
<1>14. delivered' \subseteq {c \in Receiver : pc'[c] \notin {"idle", "deliver"}}
  <2>1. pc[<<r, m>>] = "idle"
    BY <1>2, <1>3 DEF OutboxInductiveInv, TypeOK
  <2>2. <<r, m>> \notin delivered
    BY <2>1 DEF OutboxInductiveInv, TypeOK
  <2>. QED BY <1>1, <1>6, <2>2 DEF OutboxInductiveInv, TypeOK
<1>9. TypeOK'
  BY <1>1, <1>5, <1>6, <1>7, <1>8, <1>14 DEF OutboxInductiveInv, TypeOK
<1>10. \A q \in Row : /\ event'[q].state = "due" => event'[q].try < Tries
                      /\ event'[q].state = "none" => event'[q].try = 0
  BY <1>3, <1>5 DEF OutboxInductiveInv, OutboxInv
<1>11. OutboxInv'
  BY <1>1, <1>10 DEF OutboxInductiveInv, OutboxInv, NotYet
<1>12. ASSUME NEW q \in Row, NEW n \in 1..Tries, At(q, n, "mark_sent")'
       PROVE  At(q, n, "mark_sent")
  <2>1. <<q, n>> \in Receiver
    BY ReceiverIsRowTry
  <2>. QED BY <1>6, <1>12, <2>1 DEF At
<1>13. SentInv'
  BY <1>1, <1>12 DEF OutboxInductiveInv, SentInv, SentWasReceived, WasReceived
<1>. QED BY <1>9, <1>11, <1>13 DEF OutboxInductiveInv

\* A receiver that was started has a row.
LEMMA ReceiverHasRow ==
  ASSUME OutboxInductiveInv, NEW r \in Row, NEW n \in 1..Tries, pc[<<r, n>>] # "idle"
  PROVE  row[r] # "absent"
<1>1. ~(event[r].try < n)
  BY DEF OutboxInductiveInv, TypeOK
<1>2. event[r].try # 0
  BY <1>1
<1>. QED BY <1>2 DEF OutboxInductiveInv, TypeOK, OutboxInv

\* A receiver that moves on is the only one that can reach mark_sent by it.
LEMMA OnlyItMoves ==
  ASSUME OutboxInductiveInv, NEW r \in Row, NEW n \in 1..Tries, NEW x, GoTo(r, n, x),
         NEW q \in Row, NEW m \in 1..Tries, At(q, m, "mark_sent")'
  PROVE  At(q, m, "mark_sent") \/ (q = r /\ x = "mark_sent")
<1>1. <<q, m>> \in Receiver
  BY ReceiverIsRowTry
<1>. QED BY <1>1 DEF OutboxInductiveInv, TypeOK, GoTo, At

\* A receiver moves on, from a try that was started, and answers or does not:
\* the shape of events and receivers is kept, whatever it does to its row.
LEMMA ReceiverMoves ==
  ASSUME OutboxInductiveInv, NEW r \in Row, NEW n \in 1..Tries,
         pc[<<r, n>>] # "idle",
         NEW x \in {"mark_sent", "mark_failed", "done"},
         GoTo(r, n, x),
         \/ event' = event
         \/ event[r].state = "waiting" /\ event' = Unanswered(r)
         \/ event[r].state = "waiting" /\ event' = [event EXCEPT ![r].state = "delivered"]
  PROVE  /\ pc' \in [Receiver -> {"idle", "deliver", "mark_sent", "mark_failed", "done"}]
         /\ event' \in [Row -> [try : 0..Tries, state : {"none", "due", "waiting", "delivered", "error"}]]
         /\ \A q \in Row, m \in 1..Tries : (pc'[<<q, m>>] = "idle") <=> (event'[q].try < m)
         /\ \A q \in Row : (event'[q].state = "none") <=> (event[q].state = "none")
         /\ \A q \in Row : /\ event'[q].state = "due" => event'[q].try < Tries
                           /\ event'[q].state = "none" => event'[q].try = 0
         /\ delivered \subseteq {c \in Receiver : pc'[c] \notin {"idle", "deliver"}}
         /\ <<r, n>> \in Receiver /\ pc'[<<r, n>>] = x
<1>1. /\ event' \in [Row -> [try : 0..Tries, state : {"none", "due", "waiting", "delivered", "error"}]]
      /\ \A q \in Row : event'[q].try = event[q].try
      /\ \A q \in Row : (event'[q].state = "none") <=> (event[q].state = "none")
      /\ \A q \in Row : event'[q].state = "due" => event'[q].try < Tries
  BY AnswerTaken DEF OutboxInductiveInv
<1>2. <<r, n>> \in Receiver
  BY ReceiverIsRowTry
<1>3. /\ pc' \in [Receiver -> {"idle", "deliver", "mark_sent", "mark_failed", "done"}]
      /\ \A c \in Receiver \ {<<r, n>>} : pc'[c] = pc[c]
      /\ pc'[<<r, n>>] = x
  BY <1>2 DEF OutboxInductiveInv, TypeOK, GoTo
<1>4. ASSUME NEW q \in Row, NEW m \in 1..Tries
      PROVE  (pc'[<<q, m>>] = "idle") <=> (event'[q].try < m)
  <2>1. <<q, m>> \in Receiver /\ ((pc[<<q, m>>] = "idle") <=> (event[q].try < m))
    BY ReceiverIsRowTry DEF OutboxInductiveInv, TypeOK
  <2>2. CASE q = r /\ m = n
    <3>1. pc'[<<q, m>>] # "idle"
      BY <1>3, <2>2
    <3>. QED BY <1>1, <1>3, <2>1, <2>2, <3>1 DEF At
  <2>3. CASE ~(q = r /\ m = n)
    <3>1. pc'[<<q, m>>] = pc[<<q, m>>]
      BY <1>3, <2>1, <2>3
    <3>. QED BY <1>1, <2>1, <3>1 DEF At
  <2>. QED BY <2>2, <2>3
<1>5. \A q \in Row : event'[q].state = "none" => event'[q].try = 0
  BY <1>1 DEF OutboxInductiveInv, OutboxInv
<1>6. delivered \subseteq {c \in Receiver : pc'[c] \notin {"idle", "deliver"}}
  BY <1>2, <1>3 DEF OutboxInductiveInv, TypeOK
<1>. QED BY <1>1, <1>2, <1>3, <1>4, <1>5, <1>6

\* Hasura no longer waits for the receiver, which goes on.
LEMMA TimedOut ==
  ASSUME OutboxInductiveInv, NEW r \in Row, DeliveryTimeout(r)
  PROVE  OutboxInductiveInv'
<1>1. /\ UNCHANGED <<step, row, pc, late, delivered>>
      /\ faults' \in 0..MaxFaults
      /\ event[r].state = "waiting" /\ event' = Unanswered(r)
  BY NotificationsAssumption DEF DeliveryTimeout, Fault, OutboxInductiveInv, TypeOK
<1>2. /\ event' \in [Row -> [try : 0..Tries, state : {"none", "due", "waiting", "delivered", "error"}]]
      /\ \A q \in Row : event'[q].try = event[q].try
      /\ \A q \in Row : (event'[q].state = "none") <=> (event[q].state = "none")
      /\ \A q \in Row : event'[q].state = "due" => event'[q].try < Tries
  BY <1>1, AnswerTaken DEF OutboxInductiveInv
<1>3. TypeOK'
  BY <1>1, <1>2 DEF OutboxInductiveInv, TypeOK
<1>4. OutboxInv'
  BY <1>1, <1>2 DEF OutboxInductiveInv, OutboxInv, NotYet
<1>5. SentInv'
  BY <1>1 DEF OutboxInductiveInv, SentInv, SentWasReceived, WasReceived, At
<1>. QED BY <1>3, <1>4, <1>5 DEF OutboxInductiveInv

\* The receiver posts or logs: it will write "sent" only if that was received.
LEMMA Posted ==
  ASSUME OutboxInductiveInv, NEW r \in Row, NEW n \in 1..Tries, SendNotification(r, n)
  PROVE  OutboxInductiveInv'
<1>. USE NotificationsAssumption
<1>1. /\ pc[<<r, n>>] = "deliver"
      /\ UNCHANGED <<step, row, event, late>>
      /\ UNCHANGED faults \/ Fault
  BY DEF SendNotification, At
<1>2. faults' \in 0..MaxFaults
  BY <1>1, FaultsCounted
<1>3. PICK x \in {"mark_sent", "mark_failed"} :
        /\ GoTo(r, n, x)
        /\ Received(r, n) \/ (x = "mark_failed" /\ UNCHANGED delivered)
  BY DEF SendNotification
<1>4. /\ pc' \in [Receiver -> {"idle", "deliver", "mark_sent", "mark_failed", "done"}]
      /\ \A q \in Row, m \in 1..Tries : (pc'[<<q, m>>] = "idle") <=> (event'[q].try < m)
      /\ delivered \subseteq {c \in Receiver : pc'[c] \notin {"idle", "deliver"}}
      /\ <<r, n>> \in Receiver /\ pc'[<<r, n>>] = x
  <2>1. x \in {"mark_sent", "mark_failed", "done"} /\ pc[<<r, n>>] # "idle" /\ event' = event
    BY <1>1
  <2>. QED BY <1>3, <2>1, ReceiverMoves
<1>5. /\ delivered' \subseteq delivered \cup {<<r, n>>}
      /\ delivered \subseteq delivered'
      /\ x = "mark_sent" => <<r, n>> \in delivered'
  BY <1>3 DEF Received
<1>11. /\ \A q \in Row : WasReceived(q) => WasReceived(q)'
       /\ x = "mark_sent" => WasReceived(r)'
  BY <1>5 DEF WasReceived
<1>12. delivered' \subseteq {c \in Receiver : pc'[c] \notin {"idle", "deliver"}}
  BY <1>4, <1>5
<1>6. TypeOK'
  BY <1>1, <1>2, <1>4, <1>12 DEF OutboxInductiveInv, TypeOK
<1>7. OutboxInv'
  BY <1>1 DEF OutboxInductiveInv, OutboxInv, NotYet
<1>8. \A l \in late : l.row \in Row
  BY DEF OutboxInductiveInv, TypeOK
<1>9. \A q \in Row, m \in 1..Tries :
        At(q, m, "mark_sent")' => At(q, m, "mark_sent") \/ (q = r /\ x = "mark_sent")
  BY <1>3, OnlyItMoves
<1>10. SentInv'
  BY <1>1, <1>8, <1>9, <1>11 DEF OutboxInductiveInv, SentInv, SentWasReceived
<1>. QED BY <1>6, <1>7, <1>10 DEF OutboxInductiveInv

\* A receiver goes on, or dies, after a request to mark its row that was done,
\* refused or given up on, or after none: a row, or a request in flight, that
\* it marks sent was received before.
LEMMA Marked ==
  ASSUME OutboxInductiveInv, NEW r \in Row, NEW n \in 1..Tries,
         NEW status \in {"sent", "failed"},
         NEW x \in {"mark_failed", "done"},
         pc[<<r, n>>] # "idle",
         status = "sent" => At(r, n, "mark_sent"),
         GoTo(r, n, x),
         \/ event' = event
         \/ event[r].state = "waiting" /\ event' = Unanswered(r)
         \/ event[r].state = "waiting" /\ event' = [event EXCEPT ![r].state = "delivered"],
         \/ row' = [row EXCEPT ![r] = status] /\ late' = late
         \/ row' = row /\ late' = late
         \/ row' = row /\ late' = late \cup {[row |-> r, status |-> status]},
         UNCHANGED <<step, delivered>>,
         UNCHANGED faults \/ Fault
  PROVE  OutboxInductiveInv'
<1>. USE NotificationsAssumption
<1>1. faults' \in 0..MaxFaults
  BY FaultsCounted
<1>2. /\ pc' \in [Receiver -> {"idle", "deliver", "mark_sent", "mark_failed", "done"}]
      /\ event' \in [Row -> [try : 0..Tries, state : {"none", "due", "waiting", "delivered", "error"}]]
      /\ \A q \in Row, m \in 1..Tries : (pc'[<<q, m>>] = "idle") <=> (event'[q].try < m)
      /\ \A q \in Row : (event'[q].state = "none") <=> (event[q].state = "none")
      /\ \A q \in Row : /\ event'[q].state = "due" => event'[q].try < Tries
                        /\ event'[q].state = "none" => event'[q].try = 0
      /\ delivered \subseteq {c \in Receiver : pc'[c] \notin {"idle", "deliver"}}
  <2>1. x \in {"mark_sent", "mark_failed", "done"}
    OBVIOUS
  <2>. QED BY <2>1, ReceiverMoves
<1>3. row[r] # "absent"
  BY ReceiverHasRow
<1>4. /\ row' \in [Row -> {"absent", "pending", "sent", "failed"}]
      /\ \A q \in Row \ {r} : row'[q] = row[q]
      /\ row'[r] = row[r] \/ row'[r] = status
  BY DEF OutboxInductiveInv, TypeOK
<1>5. /\ late' \subseteq [row : Row, status : {"pending", "sent", "failed"}]
      /\ \A l \in late' : l \in late \/ (l.row = r /\ l.status = status)
  BY DEF OutboxInductiveInv, TypeOK
<1>6. \A q \in Row : (row'[q] = "absent") <=> (row[q] = "absent")
  BY <1>3, <1>4
<1>7. TypeOK'
  BY <1>1, <1>2, <1>4, <1>5, <1>6 DEF OutboxInductiveInv, TypeOK
<1>8. NotYet' /\ \A s \in Step : step'[s].attempt >= 1
  BY <1>3, <1>4, <1>5, TraceIsOfThePast
<1>9. \A l \in late' : (l.status = "pending") <=> (row'[l.row] = "absent")
  BY <1>3, <1>5, <1>6 DEF OutboxInductiveInv, OutboxInv, TypeOK
<1>10. OutboxInv'
  BY <1>2, <1>8, <1>9 DEF OutboxInv
<1>11. status = "sent" => WasReceived(r)
  BY DEF OutboxInductiveInv, SentInv
<1>12. \A q \in Row : row'[q] = "sent" => WasReceived(q)
  BY <1>4, <1>11 DEF OutboxInductiveInv, SentInv, SentWasReceived, WasReceived
<1>13. \A l \in late' : l.status = "sent" => WasReceived(l.row)
  BY <1>5, <1>11 DEF OutboxInductiveInv, SentInv
<1>14. \A q \in Row, m \in 1..Tries : At(q, m, "mark_sent")' => At(q, m, "mark_sent")
  BY OnlyItMoves
<1>15. SentInv'
  BY <1>12, <1>13, <1>14 DEF OutboxInductiveInv, SentInv, SentWasReceived, WasReceived
<1>. QED BY <1>7, <1>10, <1>15 DEF OutboxInductiveInv

\* MARK_DELIVERED with "sent", after a delivery that succeeded.
LEMMA MarkedSent ==
  ASSUME OutboxInductiveInv, NEW r \in Row, NEW n \in 1..Tries, MarkSent(r, n)
  PROVE  OutboxInductiveInv'
<1>1. /\ At(r, n, "mark_sent") /\ pc[<<r, n>>] # "idle"
      /\ UNCHANGED <<step, delivered>>
      /\ UNCHANGED faults \/ Fault
      /\ \/ row' = [row EXCEPT ![r] = "sent"] /\ late' = late
         \/ row' = row /\ late' = late
         \/ row' = row /\ late' = late \cup {[row |-> r, status |-> "sent"]}
      /\ \/ GoTo(r, n, "done") /\ Answered(r, n, TRUE)
         \/ GoTo(r, n, "mark_failed") /\ UNCHANGED event
  BY DEF MarkSent, Mark, At
<1>2. \/ event' = event
      \/ event[r].state = "waiting" /\ event' = Unanswered(r)
      \/ event[r].state = "waiting" /\ event' = [event EXCEPT ![r].state = "delivered"]
  BY <1>1, AnsweredCases
<1>3. PICK x \in {"mark_failed", "done"} : GoTo(r, n, x)
  BY <1>1
<1>. QED BY <1>1, <1>2, <1>3, Marked

\* MARK_DELIVERED with "failed".
LEMMA MarkedFailed ==
  ASSUME OutboxInductiveInv, NEW r \in Row, NEW n \in 1..Tries, MarkFailed(r, n)
  PROVE  OutboxInductiveInv'
<1>1. /\ pc[<<r, n>>] # "idle"
      /\ UNCHANGED <<step, delivered>>
      /\ UNCHANGED faults \/ Fault
      /\ \/ row' = [row EXCEPT ![r] = "failed"] /\ late' = late
         \/ row' = row /\ late' = late
         \/ row' = row /\ late' = late \cup {[row |-> r, status |-> "failed"]}
      /\ GoTo(r, n, "done") /\ Answered(r, n, FALSE)
  BY DEF MarkFailed, Mark, At
<1>2. \/ event' = event
      \/ event[r].state = "waiting" /\ event' = Unanswered(r)
      \/ event[r].state = "waiting" /\ event' = [event EXCEPT ![r].state = "delivered"]
  BY <1>1, AnsweredCases
<1>. QED BY <1>1, <1>2, Marked

\* A receiver dies and its connection closes.
LEMMA ReceiverCrashed ==
  ASSUME OutboxInductiveInv, NEW r \in Row, NEW n \in 1..Tries, CrashReceiver(r, n)
  PROVE  OutboxInductiveInv'
<1>1. /\ pc[<<r, n>>] # "idle"
      /\ UNCHANGED <<step, row, late, delivered>>
      /\ Fault
      /\ GoTo(r, n, "done") /\ Answered(r, n, FALSE)
  BY DEF CrashReceiver
<1>2. \/ event' = event
      \/ event[r].state = "waiting" /\ event' = Unanswered(r)
      \/ event[r].state = "waiting" /\ event' = [event EXCEPT ![r].state = "delivered"]
  BY <1>1, AnsweredCases
<1>3. row' = row /\ late' = late /\ UNCHANGED <<step, delivered>>
  BY <1>1
<1>4. PICK status \in {"sent", "failed"} : status = "failed"
  OBVIOUS
<1>. QED BY <1>1, <1>2, <1>3, <1>4, Marked

\* A request given up on takes effect: an insert finds no row, and a row that
\* it marks sent was received.
LEMMA TookEffectLate ==
  ASSUME OutboxInductiveInv, NEW l \in late, LateEffect(l)
  PROVE  OutboxInductiveInv'
<1>. USE NotificationsAssumption
<1>1. late' = late \ {l} /\ UNCHANGED <<step, pc, delivered, faults>>
  BY DEF LateEffect
<1>2. /\ late \subseteq [row : Row, status : {"pending", "sent", "failed"}]
      /\ l.row \in Row /\ l.status \in {"pending", "sent", "failed"}
      /\ l = [row |-> l.row, status |-> l.status]
  BY DEF OutboxInductiveInv, TypeOK
<1>3. (l.status = "pending") <=> (row[l.row] = "absent")
  BY DEF OutboxInductiveInv, OutboxInv
<1>4. CASE l.status = "pending"
  <2>1. RaiseEvent(l.row) /\ row[l.row] = "absent"
    BY <1>3, <1>4 DEF LateEffect
  <2>2. /\ row' \in [Row -> {"absent", "pending", "sent", "failed"}]
        /\ event' \in [Row -> [try : 0..Tries, state : {"none", "due", "waiting", "delivered", "error"}]]
        /\ \A q \in Row : (row'[q] = "absent") <=> (event'[q].state = "none")
        /\ \A q \in Row, n \in 1..Tries : (pc'[<<q, n>>] = "idle") <=> (event'[q].try < n)
        /\ \A q \in Row : event'[q].state = "due" => event'[q].try < Tries
        /\ \A q \in Row : event'[q].state = "none" => event'[q].try = 0
        /\ row'[l.row] = "pending"
        /\ \A q \in Row \ {l.row} : row'[q] = row[q]
    BY <1>1, <1>2, <2>1, EventRaised
  <2>3. TypeOK'
    BY <1>1, <1>2, <2>2 DEF OutboxInductiveInv, TypeOK
  <2>4. NotYet' /\ \A s \in Step : step'[s].attempt >= 1
    BY <1>1, <1>2, <2>2, TraceIsOfThePast
  <2>5. ASSUME NEW k \in late'
        PROVE  (k.status = "pending") <=> (row'[k.row] = "absent")
    <3>1. /\ k \in late /\ k # l /\ k.row \in Row
          /\ k = [row |-> k.row, status |-> k.status]
          /\ (k.status = "pending") <=> (row[k.row] = "absent")
      BY <1>1, <1>2 DEF OutboxInductiveInv, OutboxInv
    <3>2. k.row # l.row
      BY <1>2, <1>4, <2>1, <3>1
    <3>. QED BY <2>2, <3>1, <3>2
  <2>6. OutboxInv'
    BY <2>2, <2>4, <2>5 DEF OutboxInv
  <2>7. SentInv'
    BY <1>1, <2>2 DEF OutboxInductiveInv, SentInv, SentWasReceived, WasReceived, At
  <2>. QED BY <2>3, <2>6, <2>7 DEF OutboxInductiveInv
<1>5. CASE l.status # "pending"
  <2>1. row' = [row EXCEPT ![l.row] = l.status] /\ UNCHANGED event
    BY <1>5 DEF LateEffect
  <2>2. /\ row' \in [Row -> {"absent", "pending", "sent", "failed"}]
        /\ \A q \in Row \ {l.row} : row'[q] = row[q]
        /\ row'[l.row] = l.status /\ row'[l.row] # "absent"
    BY <1>2, <1>5, <2>1 DEF OutboxInductiveInv, TypeOK
  <2>3. \A q \in Row : (row'[q] = "absent") <=> (row[q] = "absent")
    BY <1>3, <1>5, <2>2
  <2>4. TypeOK'
    BY <1>1, <1>2, <2>1, <2>2, <2>3 DEF OutboxInductiveInv, TypeOK
  <2>5. NotYet' /\ \A s \in Step : step'[s].attempt >= 1
    BY <1>1, <1>2, <2>2, TraceIsOfThePast
  <2>6. \A k \in late' : (k.status = "pending") <=> (row'[k.row] = "absent")
    BY <1>1, <1>2, <2>3 DEF OutboxInductiveInv, OutboxInv
  <2>7. OutboxInv'
    BY <2>1, <2>5, <2>6 DEF OutboxInductiveInv, OutboxInv
  <2>8. SentInv'
    BY <1>1, <2>2 DEF OutboxInductiveInv, SentInv, SentWasReceived, WasReceived, At
  <2>. QED BY <2>4, <2>7, <2>8 DEF OutboxInductiveInv
<1>. QED BY <1>4, <1>5

\* Every step of the outbox keeps the invariant.
LEMMA OutboxNext == OutboxInductiveInv /\ [Next]_vars => OutboxInductiveInv'
<1>. SUFFICES ASSUME OutboxInductiveInv, [Next]_vars PROVE OutboxInductiveInv'
  OBVIOUS
<1>1. ASSUME NEW s \in Step, RefuseConfig(s) \/ InsertNotification(s) \/ CrashStep(s)
      PROVE  OutboxInductiveInv'
  BY <1>1, StepStops, Inserted
<1>2. ASSUME NEW r \in Row, Deliver(r) \/ DeliveryTimeout(r)
      PROVE  OutboxInductiveInv'
  BY <1>2, Delivered, TimedOut
<1>3. ASSUME NEW r \in Row, NEW n \in 1..Tries, ReceiverStep(r, n) \/ CrashReceiver(r, n)
      PROVE  OutboxInductiveInv'
  BY <1>3, Posted, MarkedSent, MarkedFailed, ReceiverCrashed DEF ReceiverStep
<1>4. ASSUME NEW l \in late, LateEffect(l)
      PROVE  OutboxInductiveInv'
  BY <1>4, TookEffectLate
<1>5. CASE UNCHANGED vars
  <2>1. TypeOK'
    BY <1>5 DEF vars, OutboxInductiveInv, TypeOK
  <2>2. OutboxInv'
    BY <1>5 DEF vars, OutboxInductiveInv, OutboxInv, NotYet
  <2>3. SentInv'
    BY <1>5 DEF vars, OutboxInductiveInv, SentInv, SentWasReceived, WasReceived, At
  <2>. QED BY <2>1, <2>2, <2>3 DEF OutboxInductiveInv
<1>. QED BY <1>1, <1>2, <1>3, <1>4, <1>5 DEF Next

-----------------------------------------------------------------------------
(* What a repeated message costs.                                          *)

\* There are finitely many rows, and so receivers.
LEMMA RowsFinite == IsFiniteSet(Row) /\ IsFiniteSet(Receiver)
<1>. DEFINE f == [s \in Step |-> {s} \X (1..MaxAttempts[s])]
            T == {{s} \X (1..MaxAttempts[s]) : s \in Step}
<1>1. IsFiniteSet(Step) /\ Tries \in Nat /\ \A s \in Step : MaxAttempts[s] \in Nat
  BY NotificationsAssumption
<1>2. f \in Surjection(Step, T)
  BY DEF Surjection
<1>3. IsFiniteSet(T)
  BY <1>1, <1>2, FS_Surjection
<1>4. ASSUME NEW s \in Step
      PROVE  IsFiniteSet({s} \X (1..MaxAttempts[s]))
  <2>1. IsFiniteSet({s})
    BY FS_Singleton
  <2>2. 1 \in Int /\ MaxAttempts[s] \in Int
    BY <1>1
  <2>3. IsFiniteSet(1..MaxAttempts[s])
    BY <2>2, FS_Interval
  <2>. QED BY <2>1, <2>3, FS_Product
<1>5. \A t \in T : IsFiniteSet(t)
  BY <1>4
<1>6. IsFiniteSet(Row)
  BY <1>3, <1>5, FS_UNION DEF Row
<1>7. IsFiniteSet(1..Tries)
  BY <1>1, FS_Interval
<1>. QED BY <1>6, <1>7, FS_Product DEF Receiver

\* A set that gains at most one element, loses one, or gains none.
LEMMA Sizes ==
  ASSUME NEW S, NEW T, IsFiniteSet(T)
  PROVE  /\ Cardinality(T) \in Nat
         /\ S \subseteq T => Cardinality(S) \in Nat /\ Cardinality(S) <= Cardinality(T)
         /\ \A x : S \subseteq T \cup {x} => Cardinality(S) \in Nat /\ Cardinality(S) <= Cardinality(T) + 1
         /\ \A x \in T : S \subseteq T \ {x} => Cardinality(S) \in Nat /\ Cardinality(S) <= Cardinality(T) - 1
<1>1. Cardinality(T) \in Nat
  BY FS_CardinalityType
<1>2. ASSUME NEW U, IsFiniteSet(U), S \subseteq U
      PROVE  Cardinality(S) \in Nat /\ Cardinality(S) <= Cardinality(U) /\ Cardinality(U) \in Nat
  BY <1>2, FS_Subset, FS_CardinalityType
<1>3. ASSUME NEW x, S \subseteq T \cup {x}
      PROVE  Cardinality(S) \in Nat /\ Cardinality(S) <= Cardinality(T) + 1
  <2>1. /\ IsFiniteSet(T \cup {x})
        /\ Cardinality(T \cup {x}) = IF x \in T THEN Cardinality(T) ELSE Cardinality(T) + 1
    BY FS_AddElement
  <2>. QED BY <1>1, <1>2, <1>3, <2>1
<1>4. ASSUME NEW x \in T, S \subseteq T \ {x}
      PROVE  Cardinality(S) \in Nat /\ Cardinality(S) <= Cardinality(T) - 1
  <2>1. /\ IsFiniteSet(T \ {x})
        /\ Cardinality(T \ {x}) = IF x \in T THEN Cardinality(T) - 1 ELSE Cardinality(T)
    BY FS_RemoveElement
  <2>. QED BY <1>1, <1>2, <1>4, <2>1
<1>. QED BY <1>1, <1>2, <1>3, <1>4

\* Everything that is counted is finite.
LEMMA Counted ==
  ASSUME TypeOK
  PROVE  /\ IsFiniteSet(Served) /\ IsFiniteSet(Running) /\ IsFiniteSet(Owed)
         /\ Cardinality(Step) \in Nat /\ faults \in Nat
<1>1. Served \subseteq Receiver /\ Running \subseteq Step /\ Owed \subseteq Row
  BY DEF TypeOK, Served, Running, Owed
<1>2. IsFiniteSet(Step) /\ MaxFaults \in Nat
  BY NotificationsAssumption
<1>3. faults \in Nat
  BY <1>2 DEF TypeOK
<1>. QED BY <1>1, <1>2, <1>3, RowsFinite, FS_Subset, FS_CardinalityType

\* A fault pays for one row that Hasura has to hand over once more.
LEMMA PaidByFault ==
  ASSUME TypeOK, CostInv, Fault, NEW r,
         Served' \subseteq Served, Running' \subseteq Running, Owed' \subseteq Owed \cup {r}
  PROVE  CostInv'
<1>1. /\ Cardinality(Served') \in Nat /\ Cardinality(Served') <= Cardinality(Served)
      /\ Cardinality(Running') \in Nat /\ Cardinality(Running') <= Cardinality(Running)
      /\ Cardinality(Owed') \in Nat /\ Cardinality(Owed') <= Cardinality(Owed) + 1
      /\ Cardinality(Served) \in Nat /\ Cardinality(Running) \in Nat /\ Cardinality(Owed) \in Nat
  BY Counted, Sizes
<1>2. faults' = faults + 1
  BY DEF Fault
<1>. QED BY <1>1, <1>2, Counted DEF CostInv

\* Without a fault, what is to come passes on from one place to the next: from
\* a step to its row, from a row to its receiver, from a receiver that delivered
\* nothing back to its row.  Or it is over.
LEMMA PassedOn ==
  ASSUME TypeOK, CostInv, UNCHANGED faults, NEW x, NEW y,
         \/ Served' \subseteq Served /\ Running' \subseteq Running /\ Owed' \subseteq Owed
         \/ /\ x \in Running /\ Running' \subseteq Running \ {x}
            /\ Owed' \subseteq Owed \cup {y} /\ Served' \subseteq Served
         \/ /\ x \in Owed /\ Owed' \subseteq Owed \ {x}
            /\ Served' \subseteq Served \cup {y} /\ Running' \subseteq Running
         \/ /\ x \in Served /\ Served' \subseteq Served \ {x}
            /\ Owed' \subseteq Owed \cup {y} /\ Running' \subseteq Running
  PROVE  CostInv'
<1>1. /\ Cardinality(Served') \in Nat /\ Cardinality(Running') \in Nat /\ Cardinality(Owed') \in Nat
      /\ Cardinality(Served) \in Nat /\ Cardinality(Running) \in Nat /\ Cardinality(Owed) \in Nat
  BY Counted, Sizes
<1>2. Cardinality(Served') + Cardinality(Running') + Cardinality(Owed')
        <= Cardinality(Served) + Cardinality(Running) + Cardinality(Owed)
  <2>1. CASE Served' \subseteq Served /\ Running' \subseteq Running /\ Owed' \subseteq Owed
    BY <1>1, <2>1, Counted, Sizes
  <2>2. CASE /\ x \in Running /\ Running' \subseteq Running \ {x}
             /\ Owed' \subseteq Owed \cup {y} /\ Served' \subseteq Served
    <3>1. Cardinality(Running') <= Cardinality(Running) - 1
      BY <2>2, Counted, Sizes
    <3>2. Cardinality(Owed') <= Cardinality(Owed) + 1
      BY <2>2, Counted, Sizes
    <3>3. Cardinality(Served') <= Cardinality(Served)
      BY <2>2, Counted, Sizes
    <3>. QED BY <1>1, <3>1, <3>2, <3>3
  <2>3. CASE /\ x \in Owed /\ Owed' \subseteq Owed \ {x}
             /\ Served' \subseteq Served \cup {y} /\ Running' \subseteq Running
    <3>1. Cardinality(Owed') <= Cardinality(Owed) - 1
      BY <2>3, Counted, Sizes
    <3>2. Cardinality(Served') <= Cardinality(Served) + 1
      BY <2>3, Counted, Sizes
    <3>3. Cardinality(Running') <= Cardinality(Running)
      BY <2>3, Counted, Sizes
    <3>. QED BY <1>1, <3>1, <3>2, <3>3
  <2>4. CASE /\ x \in Served /\ Served' \subseteq Served \ {x}
             /\ Owed' \subseteq Owed \cup {y} /\ Running' \subseteq Running
    <3>1. Cardinality(Served') <= Cardinality(Served) - 1
      BY <2>4, Counted, Sizes
    <3>2. Cardinality(Owed') <= Cardinality(Owed) + 1
      BY <2>4, Counted, Sizes
    <3>3. Cardinality(Running') <= Cardinality(Running)
      BY <2>4, Counted, Sizes
    <3>. QED BY <1>1, <3>1, <3>2, <3>3
  <2>. QED BY <2>1, <2>2, <2>3, <2>4
<1>. QED BY <1>1, <1>2, Counted DEF CostInv

\* At first nothing but the steps can send.
LEMMA CostInit == Init => CostInv
<1>. SUFFICES ASSUME Init PROVE CostInv
  OBVIOUS
<1>1. Running \subseteq Step /\ IsFiniteSet(Step)
  BY NotificationsAssumption DEF Running
<1>2. Served = {} /\ Owed = {}
  BY DEF Init, Served, Owed
<1>3. Cardinality(Running) <= Cardinality(Step) /\ Cardinality(Running) \in Nat /\ Cardinality(Step) \in Nat
  BY <1>1, Sizes
<1>. QED BY <1>2, <1>3, FS_EmptySet DEF CostInv, Init

\* Steps: an insert that is answered is the last thing its step does, and any
\* other outcome is a fault.
LEMMA StepsPay ==
  ASSUME OutboxInductiveInv, CostInv,
         NEW s \in Step, RefuseConfig(s) \/ CrashStep(s) \/ InsertNotification(s)
  PROVE  CostInv'
<1>. DEFINE r == <<s, step[s].attempt>>
<1>1. /\ TypeOK
      /\ step[s].state = "running"
      /\ UNCHANGED <<pc, delivered>>
      /\ Served' = Served
  BY DEF OutboxInductiveInv, RefuseConfig, CrashStep, InsertNotification, Served
<1>2. /\ step \in [Step -> [state : {"running", "completed", "failed", "orphaned"}, attempt : Nat]]
      /\ s \in Running
  BY <1>1 DEF TypeOK, Running
<1>3. Running' \subseteq Running
  <2>1. \A t \in Step \ {s} : step'[t] = step[t]
    BY <1>2 DEF RefuseConfig, CrashStep, InsertNotification, Enqueued, Retried
  <2>. QED BY <1>2, <2>1 DEF Running
<1>4. CASE RefuseConfig(s) \/ CrashStep(s)
  <2>1. Owed' = Owed
    BY <1>4 DEF RefuseConfig, CrashStep, Owed, At
  <2>2. UNCHANGED faults \/ Fault
    BY <1>4 DEF RefuseConfig, CrashStep
  <2>. QED BY <1>1, <1>3, <2>1, <2>2, PaidByFault, PassedOn
<1>5. CASE InsertNotification(s)
  <2>1. Owed' \subseteq Owed \cup {r}
    <3>1. \A q \in Row \ {r} : event'[q] = event[q]
      BY <1>5 DEF InsertNotification, RaiseEvent, OutboxInductiveInv, TypeOK
    <3>2. \A l \in late' : l \in late \/ l.row = r
      BY <1>5 DEF InsertNotification
    <3>. QED BY <1>1, <3>1, <3>2 DEF Owed, At
  <2>2. (step' = Enqueued(s) /\ UNCHANGED faults) \/ Fault
    BY <1>5 DEF InsertNotification
  <2>3. CASE step' = Enqueued(s) /\ UNCHANGED faults
    <3>1. step'[s].state # "running"
      BY <1>2, <2>3 DEF Enqueued
    <3>2. Running' \subseteq Running \ {s}
      BY <1>3, <3>1 DEF Running
    <3>. QED BY <1>1, <1>2, <2>1, <2>3, <3>2, PassedOn
  <2>. QED BY <1>1, <1>3, <2>1, <2>2, <2>3, PaidByFault
<1>. QED BY <1>4, <1>5

\* Hasura: a delivery hands its row over, and giving up waiting is a fault.
LEMMA HasuraPays ==
  ASSUME OutboxInductiveInv, CostInv, NEW r \in Row, Deliver(r) \/ DeliveryTimeout(r)
  PROVE  CostInv'
<1>1. TypeOK /\ UNCHANGED <<step, late, delivered>> /\ Running' = Running
  BY DEF OutboxInductiveInv, Deliver, DeliveryTimeout, Running
<1>2. CASE Deliver(r)
  <2>. DEFINE m == event[r].try + 1
  <2>1. /\ event[r].state = "due" /\ UNCHANGED faults
        /\ event' = [event EXCEPT ![r] = [try |-> m, state |-> "waiting"]]
        /\ pc' = [pc EXCEPT ![<<r, m>>] = "deliver"]
    BY <1>2 DEF Deliver
  <2>2. m \in 1..Tries
    <3>1. event[r].try \in Nat /\ event[r].try < Tries /\ Tries \in Nat
      BY <2>1, NotificationsAssumption DEF OutboxInductiveInv, TypeOK, OutboxInv
    <3>. QED BY <3>1
  <2>3. <<r, m>> \in Receiver
    BY <2>2, ReceiverIsRowTry
  <2>. HIDE DEF m
  <2>4. /\ event'[r].state = "waiting" /\ event'[r].try = m
        /\ \A q \in Row \ {r} : event'[q] = event[q]
        /\ pc'[<<r, m>>] = "deliver"
        /\ \A c \in Receiver \ {<<r, m>>} : pc'[c] = pc[c]
    BY <2>1, <2>3 DEF OutboxInductiveInv, TypeOK
  <2>5. r \in Owed
    BY <2>1 DEF Owed
  <2>6. \A l \in late : l.row = r => l.status # "pending"
    BY <2>1 DEF OutboxInductiveInv, OutboxInv, TypeOK
  <2>7. r \notin Owed'
    BY <1>1, <2>4, <2>6 DEF Owed, At
  <2>8. ASSUME NEW q \in Row \ {r}, q \in Owed'
        PROVE  q \in Owed
    <3>1. event'[q] = event[q] /\ UNCHANGED late
      BY <1>1, <2>4
    <3>2. pc'[<<q, event[q].try>>] = pc[<<q, event[q].try>>]
      BY <2>1
    <3>. QED BY <2>8, <3>1, <3>2 DEF Owed, At
  <2>9. Owed' \subseteq Owed \ {r}
    BY <2>7, <2>8 DEF Owed
  <2>10. Served' \subseteq Served \cup {<<r, m>>}
    BY <1>1, <2>4 DEF Served
  <2>. QED BY <1>1, <2>1, <2>5, <2>9, <2>10, PassedOn
<1>3. CASE DeliveryTimeout(r)
  <2>1. /\ UNCHANGED pc /\ Fault
        /\ \A q \in Row \ {r} : event'[q] = event[q]
    BY <1>3 DEF DeliveryTimeout, Unanswered, OutboxInductiveInv, TypeOK
  <2>2. Owed' \subseteq Owed \cup {r}
    BY <1>1, <2>1 DEF Owed, At
  <2>3. Served' = Served
    BY <1>1, <2>1 DEF Served
  <2>. QED BY <1>1, <2>1, <2>2, <2>3, PaidByFault
<1>. QED BY <1>2, <1>3

\* A receiver that moves on to x changes only what its own row is owed, and it
\* delivers nothing that is not counted.
LEMMA ReceiverCounts ==
  ASSUME OutboxInductiveInv, NEW r \in Row, NEW n \in 1..Tries, NEW x, x # "deliver",
         GoTo(r, n, x),
         \A q \in Row \ {r} : event'[q] = event[q],
         \A l \in late' : l \in late \/ l.status # "pending",
         UNCHANGED step,
         delivered' \subseteq Served
  PROVE  Running' = Running /\ Served' \subseteq Served /\ Owed' \subseteq Owed \cup {r}
<1>1. <<r, n>> \in Receiver
  BY ReceiverIsRowTry
<1>2. /\ pc' = [pc EXCEPT ![<<r, n>>] = x]
      /\ \A c \in Receiver : pc'[c] = "deliver" => pc[c] = "deliver"
  BY <1>1 DEF GoTo, OutboxInductiveInv, TypeOK
<1>3. Served' \subseteq Served
  BY <1>2 DEF Served
<1>4. ASSUME NEW q \in Row \ {r}, q \in Owed'
      PROVE  q \in Owed
  <2>1. event'[q] = event[q]
    OBVIOUS
  <2>2. pc'[<<q, event[q].try>>] = pc[<<q, event[q].try>>]
    BY <1>2
  <2>. QED BY <1>4, <2>1, <2>2 DEF Owed, At
<1>5. Owed' \subseteq Owed \cup {r}
  BY <1>4 DEF Owed
<1>. QED BY <1>3, <1>5 DEF Running

\* Delivering: without a fault, one receiver sends one message and the next
\* request is answered, or none because there is no URL to send it to.
LEMMA PostingPays ==
  ASSUME OutboxInductiveInv, CostInv, NEW r \in Row, NEW n \in 1..Tries, SendNotification(r, n)
  PROVE  CostInv'
<1>. DEFINE c == <<r, n>>
<1>1. /\ TypeOK /\ pc[c] = "deliver" /\ UNCHANGED <<step, event, late>>
  BY DEF OutboxInductiveInv, SendNotification, At
<1>2. c \in Receiver /\ c \in Served /\ c \notin delivered
  BY <1>1, ReceiverIsRowTry DEF TypeOK, Served
<1>3. PICK x \in {"mark_sent", "mark_failed"} :
        /\ GoTo(r, n, x)
        /\ \/ Fault /\ (Received(r, n) \/ UNCHANGED delivered)
           \/ x = "mark_sent" /\ Received(r, n) /\ UNCHANGED faults
           \/ x = "mark_failed" /\ UNCHANGED <<delivered, faults>>
  BY DEF SendNotification
<1>4. delivered' \subseteq Served
  BY <1>2, <1>3 DEF Received, Served
<1>5. Running' = Running /\ Served' \subseteq Served /\ Owed' \subseteq Owed \cup {r}
  BY <1>1, <1>3, <1>4, ReceiverCounts
<1>6. /\ pc' \in [Receiver -> {"idle", "deliver", "mark_sent", "mark_failed", "done"}]
      /\ pc'[c] = x
  BY <1>2, <1>3 DEF GoTo, OutboxInductiveInv, TypeOK
<1>7. CASE Fault
  BY <1>1, <1>5, <1>7, PaidByFault
<1>8. CASE x = "mark_sent" /\ UNCHANGED faults
  <2>1. r \in Owed' => r \in Owed
    <3>1. pc' = [pc EXCEPT ![c] = "mark_sent"]
      BY <1>3, <1>8 DEF GoTo
    <3>2. pc'[<<r, event[r].try>>] = "mark_failed" => pc[<<r, event[r].try>>] = "mark_failed"
      <4>1. CASE event[r].try = n
        BY <1>6, <1>8, <4>1
      <4>2. CASE event[r].try # n
        BY <3>1, <4>2
      <4>. QED BY <4>1, <4>2
    <3>. QED BY <1>1, <3>2 DEF Owed, At
  <2>2. Owed' \subseteq Owed
    BY <1>5, <2>1
  <2>. QED BY <1>1, <1>5, <1>8, <2>2, PassedOn
<1>9. CASE x = "mark_failed" /\ UNCHANGED <<delivered, faults>>
  <2>1. c \notin Served'
    BY <1>2, <1>6, <1>9 DEF Served
  <2>2. Served' \subseteq Served \ {c}
    BY <1>5, <2>1
  <2>. QED BY <1>1, <1>2, <1>5, <1>9, <2>2, PassedOn
<1>. QED BY <1>3, <1>7, <1>8, <1>9

\* Marking: an answered success is not handed over again, an answered failure
\* was to be handed over already, and anything else is a fault.
LEMMA MarkingPays ==
  ASSUME OutboxInductiveInv, CostInv, NEW r \in Row, NEW n \in 1..Tries,
         MarkSent(r, n) \/ MarkFailed(r, n) \/ CrashReceiver(r, n)
  PROVE  CostInv'
<1>1. TypeOK /\ UNCHANGED <<step, delivered>>
  BY DEF OutboxInductiveInv, MarkSent, MarkFailed, CrashReceiver
<1>2. PICK x \in {"mark_failed", "done"} :
        /\ GoTo(r, n, x)
        /\ \/ Fault
           \/ x = "done" /\ UNCHANGED <<faults, late>> /\ At(r, n, "mark_sent") /\ Answered(r, n, TRUE)
           \/ x = "done" /\ UNCHANGED <<faults, late>> /\ At(r, n, "mark_failed") /\ Answered(r, n, FALSE)
  BY DEF MarkSent, MarkFailed, CrashReceiver, Mark
<1>3. \A q \in Row \ {r} : event'[q] = event[q]
  BY DEF MarkSent, MarkFailed, CrashReceiver, Mark, Answered, Unanswered, OutboxInductiveInv, TypeOK
<1>4. \A l \in late' : l \in late \/ l.status # "pending"
  <2>1. \/ late' = late
        \/ late' = late \cup {[row |-> r, status |-> "sent"]}
        \/ late' = late \cup {[row |-> r, status |-> "failed"]}
    BY DEF MarkSent, MarkFailed, CrashReceiver, Mark
  <2>. QED BY <2>1
<1>5. delivered' \subseteq Served /\ x # "deliver"
  BY <1>1 DEF Served
<1>6. Running' = Running /\ Served' \subseteq Served /\ Owed' \subseteq Owed \cup {r}
  BY <1>1, <1>2, <1>3, <1>4, <1>5, ReceiverCounts
<1>7. CASE Fault
  BY <1>1, <1>6, <1>7, PaidByFault
<1>8. ASSUME x = "done", UNCHANGED <<faults, late>>,
             \/ At(r, n, "mark_sent") /\ Answered(r, n, TRUE)
             \/ At(r, n, "mark_failed") /\ Answered(r, n, FALSE),
             r \in Owed'
      PROVE  r \in Owed
  <2>1. <<r, n>> \in Receiver /\ pc' = [pc EXCEPT ![<<r, n>>] = "done"]
    BY <1>2, <1>8, ReceiverIsRowTry DEF GoTo
  <2>2. CASE ~Awaited(r, n)
    <3>1. event' = event
      BY <1>8, <2>2 DEF Answered
    <3>2. pc'[<<r, event[r].try>>] = "mark_failed" => pc[<<r, event[r].try>>] = "mark_failed"
      <4>1. CASE event[r].try = n
        BY <2>1, <4>1 DEF OutboxInductiveInv, TypeOK
      <4>2. CASE event[r].try # n
        BY <2>1, <4>2
      <4>. QED BY <4>1, <4>2
    <3>. QED BY <1>8, <3>1, <3>2 DEF Owed, At
  <2>3. CASE Awaited(r, n) /\ At(r, n, "mark_failed")
    BY <2>3 DEF Owed, Awaited
  <2>4. CASE Awaited(r, n) /\ At(r, n, "mark_sent") /\ Answered(r, n, TRUE)
    <3>1. event'[r].state = "delivered"
      BY <2>4 DEF Answered, OutboxInductiveInv, TypeOK
    <3>. QED BY <1>8, <3>1 DEF Owed
  <2>. QED BY <1>8, <2>2, <2>3, <2>4
<1>9. CASE UNCHANGED faults /\ (r \in Owed' => r \in Owed)
  <2>1. Owed' \subseteq Owed
    BY <1>6, <1>9
  <2>. QED BY <1>1, <1>6, <1>9, <2>1, PassedOn
<1>. QED BY <1>2, <1>7, <1>8, <1>9

\* A late insert was paid for when its client gave up on it.
LEMMA LateIsPaid ==
  ASSUME OutboxInductiveInv, CostInv, NEW l \in late, LateEffect(l)
  PROVE  CostInv'
<1>1. TypeOK /\ late' = late \ {l} /\ UNCHANGED <<step, pc, delivered, faults>>
  BY DEF OutboxInductiveInv, LateEffect
<1>2. Served' = Served /\ Running' = Running
  BY <1>1 DEF Served, Running
<1>3. \A q \in Row : event'[q] = event[q] \/ (q = l.row /\ l.status = "pending")
  BY DEF LateEffect, RaiseEvent, OutboxInductiveInv, TypeOK
<1>4. ASSUME NEW q \in Row, q \in Owed'
      PROVE  q \in Owed
  <2>1. CASE event'[q] = event[q]
    BY <1>1, <1>4, <2>1 DEF Owed, At
  <2>2. CASE q = l.row /\ l.status = "pending"
    BY <2>2 DEF Owed
  <2>. QED BY <1>3, <2>1, <2>2
<1>5. Owed' \subseteq Owed
  BY <1>4 DEF Owed
<1>. QED BY <1>1, <1>2, <1>5, PassedOn

\* Every step of the outbox is paid for.
LEMMA CostNext == OutboxInductiveInv /\ CostInv /\ [Next]_vars => CostInv'
<1>. SUFFICES ASSUME OutboxInductiveInv, CostInv, [Next]_vars PROVE CostInv'
  OBVIOUS
<1>1. ASSUME NEW s \in Step, RefuseConfig(s) \/ InsertNotification(s) \/ CrashStep(s)
      PROVE  CostInv'
  BY <1>1, StepsPay
<1>2. ASSUME NEW r \in Row, Deliver(r) \/ DeliveryTimeout(r)
      PROVE  CostInv'
  BY <1>2, HasuraPays
<1>3. ASSUME NEW r \in Row, NEW n \in 1..Tries, ReceiverStep(r, n) \/ CrashReceiver(r, n)
      PROVE  CostInv'
  BY <1>3, PostingPays, MarkingPays DEF ReceiverStep
<1>4. ASSUME NEW l \in late, LateEffect(l)
      PROVE  CostInv'
  BY <1>4, LateIsPaid
<1>5. CASE UNCHANGED vars
  BY <1>5 DEF vars, CostInv, Served, Running, Owed, At
<1>. QED BY <1>1, <1>2, <1>3, <1>4, <1>5 DEF Next

-----------------------------------------------------------------------------
(* The theorems.                                                           *)

\* What the outbox maintains, of which the two properties below are parts.
THEOREM OutboxInduction == Spec => []OutboxInductiveInv
BY OutboxInit, OutboxNext, PTL DEF Spec

\* The shape of the outbox: every row that exists has an event, and a receiver
\* was started for each try Hasura has made of it, however late an insert was.
THEOREM OutboxTypes == Spec => []TypeOK
<1>1. OutboxInductiveInv => TypeOK
  BY DEF OutboxInductiveInv
<1>. QED BY <1>1, OutboxInduction, PTL

\* No row is ever reported as sent that neither Slack nor the log received:
\* for any number of retries of the step and of Hasura, with overlapping
\* receivers, crashes and writes that arrive after their client gave up.
THEOREM SentIsHonest == Spec => []SentWasReceived
<1>1. OutboxInductiveInv => SentWasReceived
  BY DEF OutboxInductiveInv, SentInv
<1>. QED BY <1>1, OutboxInduction, PTL

\* Further messages are paid for in advance, by a fault each.
THEOREM CostInduction == Spec => []CostInv
<1>1. Init => CostInv
  BY CostInit
<1>2. OutboxInductiveInv /\ CostInv /\ [Next]_vars => CostInv'
  BY CostNext
<1>. QED BY <1>1, <1>2, OutboxInduction, PTL DEF Spec

\* Whichever loop repeats what, over late inserts, timeouts and crashes: Slack
\* and the log see no more messages than there are steps and faults together.
THEOREM RepetitionsArePaid == Spec => []DuplicatesCostFaults
<1>1. OutboxInductiveInv /\ CostInv => DuplicatesCostFaults
  <2>. SUFFICES ASSUME TypeOK, CostInv PROVE DuplicatesCostFaults
    BY DEF OutboxInductiveInv
  <2>1. delivered \subseteq Served
    BY DEF Served
  <2>2. /\ Cardinality(delivered) \in Nat /\ Cardinality(delivered) <= Cardinality(Served)
        /\ Cardinality(Served) \in Nat /\ Cardinality(Running) \in Nat /\ Cardinality(Owed) \in Nat
    BY <2>1, Counted, Sizes
  <2>. QED BY <2>2, Counted DEF CostInv, DuplicatesCostFaults
<1>. QED BY <1>1, OutboxInduction, CostInduction, PTL

=============================================================================
