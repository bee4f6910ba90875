--------------------------- MODULE StepBodies_proofs ---------------------------
(***************************************************************************)
(* Proofs about StepBodies, for every set of definitions, addresses,       *)
(* status codes and answers: that the steps try again as the table of the  *)
(* README has it (RetryMatchesTable), that nothing is requested but        *)
(* addresses that were found fetchable (OnlyFetchable), and that what      *)
(* steps hand to each other arrives as it was said (DownstreamSeesAnswer,  *)
(* SameAfterResume, TypeOK).  And that every run of steps comes to an end. *)
(*                                                                         *)
(* For the last, two values are similar if they differ in the order of     *)
(* the members of objects at most.  What Postgres keeps of a value is      *)
(* similar to it, and so is whatever a path, of any length, reads out of   *)
(* two contexts whose outputs are similar.  The invariant BodiesInv says   *)
(* of every completed step that there is a value which it returned, of     *)
(* which its row has what Postgres keeps and the context has either.       *)
(***************************************************************************)
EXTENDS StepBodies, FiniteSetTheorems, WellFoundedInduction, TLAPS

(* One attempt. *)

\* The steps of a definition that is loaded are 1, 2, ..., Len(steps).
LEMMA StepsAreNumbered ==
  ASSUME RetryInv
  PROVE  Steps = 1..Len(steps) /\ Len(steps) \in Nat
<1>1. steps \in Seq(Range(steps))
  BY ProgramsAssumption DEF RetryInv
<1>. QED BY <1>1 DEF Steps

\* What an attempt that throws leaves behind, if the error is classified as the
\* table has it.
LEMMA Threw ==
  ASSUME RetryInv, pc # "over", at \in Steps, UNCHANGED steps,
         NEW cause \in Cause, NEW permanent \in BOOLEAN, Throw(cause, permanent),
         permanent <=> cause \in Hopeless(Step.type)
  PROVE  RetryInv'
<1>. USE AttemptsAssumption
<1>. DEFINE f == Append(failures, cause)
            H == Hopeless(Step.type)
<1>1. /\ steps' = steps /\ Steps' = Steps /\ UNCHANGED <<at, status>>
      /\ failures' = f /\ Hopeless(Step.type)' = H
  BY DEF Throw, Steps, Step, request, Hopeless, Answered, Fault
<1>2. /\ attempt \in 1..MaxAttempts /\ failures \in Seq(Cause) /\ Len(failures) = attempt - 1
      /\ \A i \in DOMAIN failures : i < attempt => failures[i] \notin H
      /\ \A i \in Steps : row[i].status # "failed"
      /\ row = [i \in Steps |-> row[i]] /\ steps \in Programs
  BY DEF RetryInv, RetryMatchesTable
<1>3. /\ f \in Seq(Cause) /\ Len(f) = attempt /\ f[attempt] = cause
      /\ DOMAIN f = 1..attempt
      /\ \A i \in 1..(attempt - 1) : f[i] \notin H
      /\ Last(f) = cause
  <2>1. /\ f \in Seq(Cause) /\ Len(f) = attempt /\ f[attempt] = cause
        /\ DOMAIN f = 1..attempt
        /\ \A i \in 1..(attempt - 1) : f[i] = failures[i]
    BY <1>2
  <2>2. DOMAIN failures = 1..(attempt - 1)
    BY <1>2
  <2>3. \A i \in 1..(attempt - 1) : failures[i] \notin H
    BY <1>2, <2>2
  <2>. QED BY <2>1, <2>3 DEF Last
<1>4. Hopeless(steps[at].type) = H /\ (permanent <=> cause \in H)
  BY DEF Step
<1>. HIDE DEF f, H
<1>5. CASE attempt < MaxAttempts /\ ~ permanent
  <2>1. attempt' = attempt + 1 /\ pc' = "body" /\ row' = row
    BY <1>5 DEF Throw, isRetryable
  <2>2. \A i \in DOMAIN f : f[i] \notin H
    BY <1>2, <1>3, <1>4, <1>5
  <2>3. RetryMatchesTable'
    BY <1>1, <1>2, <2>1, <2>2 DEF RetryMatchesTable
  <2>. QED BY <1>1, <1>2, <1>3, <1>5, <2>1, <2>3 DEF RetryInv
<1>6. CASE ~ (attempt < MaxAttempts /\ ~ permanent)
  <2>1. /\ row' = [i \in Steps |->
                     IF i = at THEN [status |-> "failed", output |-> Null]
                     ELSE IF i > at THEN [status |-> "skipped", output |-> Null] ELSE row[i]]
        /\ pc' = "over" /\ attempt' = attempt
    BY <1>6 DEF Throw, isRetryable
  <2>2. row' = [i \in Steps |-> row'[i]]
    BY <2>1
  <2>3. cause \in H \/ attempt = MaxAttempts
    BY <1>2, <1>4, <1>6
  <2>4. \A i \in DOMAIN f : i < attempt => f[i] \notin H
    BY <1>2, <1>3
  <2>5. \A i \in Steps : row'[i].status = "failed" => i = at
    BY <1>2, <2>1
  <2>6. \A i \in Steps' : row'[i].status = "failed"
                            => Last(failures') \in Hopeless(steps[i].type) \/ attempt' = MaxAttempts
    BY <1>1, <1>3, <1>4, <2>1, <2>3, <2>5
  <2>7. Hopeless(steps[at].type)' = H /\ \A i : Hopeless(steps[i].type)' = Hopeless(steps[i].type)
    BY <1>1 DEF H, Hopeless, Step, Answered, Fault
  <2>8. RetryMatchesTable'
    BY <1>1, <2>1, <2>4, <2>6, <2>7 DEF RetryMatchesTable
  <2>. QED BY <1>1, <1>2, <1>3, <2>1, <2>2, <2>8 DEF RetryInv
<1>. QED BY <1>5, <1>6

\* A body that returns leaves the next step its first attempt.
LEMMA Entered ==
  ASSUME RetryInv, pc # "over", at \in Steps, UNCHANGED steps, NEW output,
         row' = [row EXCEPT ![at] = [status |-> "completed", output |-> output]],
         Enter(at + 1)
  PROVE  RetryInv'
<1>. USE AttemptsAssumption
<1>1. /\ attempt' = 1 /\ failures' = <<>> /\ pc' \in {"body", "over"}
      /\ steps' = steps /\ Steps' = Steps
  BY DEF Enter, Steps
<1>2. /\ row = [i \in Steps |-> row[i]] /\ steps \in Programs
      /\ \A i \in Steps : row[i].status # "failed"
  BY DEF RetryInv
<1>3. /\ row' = [i \in Steps |-> row'[i]]
      /\ \A i \in Steps : row'[i].status # "failed"
  BY <1>2
<1>4. <<>> \in Seq(Cause) /\ Len(<<>>) = 0 /\ DOMAIN <<>> = {}
  OBVIOUS
<1>. QED BY <1>1, <1>2, <1>3, <1>4 DEF RetryInv, RetryMatchesTable

\* A body that waits for the outside has not failed.
LEMMA Waited ==
  ASSUME RetryInv, pc # "over", pc' # "over", at \in Steps,
         UNCHANGED <<steps, at, row, attempt, failures>>,
         pc' = "reading" => status' \in Status
  PROVE  RetryInv'
BY DEF RetryInv, RetryMatchesTable, Steps, Step, Hopeless, Answered, Fault

\* The kinds of causes are apart.
LEMMA CausesApart ==
  /\ \A f, s : Fault(f) # Answered(s)
  /\ \A f, g : Fault(f) = Fault(g) => f = g
  /\ \A s, t : Answered(s) = Answered(t) => s = t
<1>1. ASSUME NEW f, NEW s
      PROVE  Fault(f) # Answered(s)
  <2>1. DOMAIN Fault(f) = {"fault"} /\ DOMAIN Answered(s) = {"status"}
    BY DEF Fault, Answered
  <2>. QED BY <2>1
<1>2. ASSUME NEW f, NEW g, Fault(f) = Fault(g)
      PROVE  f = g
  <2>1. Fault(f).fault = f /\ Fault(g).fault = g
    BY DEF Fault
  <2>. QED BY <1>2, <2>1
<1>3. ASSUME NEW s, NEW t, Answered(s) = Answered(t)
      PROVE  s = t
  <2>1. Answered(s).status = s /\ Answered(t).status = t
    BY DEF Answered
  <2>. QED BY <1>3, <2>1
<1>. QED BY <1>1, <1>2, <1>3

\* How an attempt that fails by itself is classified, in whichever step.
LEMMA FaultsClassified ==
  ASSUME NEW type,
         NEW f \in {"config", "provider", "truncated", "no text", "unparseable", "refused", "network",
                    "timeout", "redirect", "redirects", "oversized"}
  PROVE  /\ Fault(f) \in Cause
         /\ Fault(f) \in Hopeless(type)
              <=> f \in {"config", "provider", "truncated", "redirects", "oversized"}
<1>1. Fault(f) \in Cause
  BY DEF Fault, Cause
<1>2. Fault(f) \in Hopeless(type)
        <=> f \in {"config", "provider", "truncated", "redirects", "oversized"}
  <2>. DEFINE F == {"config", "provider", "truncated", "redirects", "oversized"}
              S == IF type = "http_request" THEN (400..499) \ {408, 429}
                   ELSE {400, 401, 403, 404, 422}
  <2>1. Hopeless(type) = {Answered(s) : s \in S} \cup {Fault(g) : g \in F}
    BY DEF Hopeless
  <2>. HIDE DEF F, S
  <2>2. Fault(f) \notin {Answered(s) : s \in S}
    BY CausesApart
  <2>3. Fault(f) \in {Fault(g) : g \in F} <=> f \in F
    BY CausesApart
  <2>4. Fault(f) \in Hopeless(type) <=> f \in F
    BY <2>1, <2>2, <2>3
  <2>. QED BY <2>4 DEF F
<1>. QED BY <1>1, <1>2

\* How one that a service refused is: llm.ts and http.ts draw the line at
\* different places.
LEMMA AnswersClassified ==
  ASSUME NEW s \in Status
  PROVE  /\ Answered(s) \in Cause
         /\ classify(s) <=> Answered(s) \in Hopeless("llm_call")
         /\ PermanentStatus(s) <=> Answered(s) \in Hopeless("http_request")
<1>1. Answered(s) \in Hopeless("llm_call") <=> s \in {400, 401, 403, 404, 422}
  BY CausesApart DEF Hopeless
<1>2. Answered(s) \in Hopeless("http_request") <=> s \in (400..499) \ {408, 429}
  BY CausesApart DEF Hopeless
<1>3. Answered(s) \in Cause
  BY DEF Answered, Cause
<1>. QED BY <1>1, <1>2, <1>3 DEF classify, PermanentStatus

-----------------------------------------------------------------------------
(* The steps. *)

\* An attempt that fails by itself.
LEMMA ThrewFault ==
  ASSUME RetryInv, pc # "over", at \in Steps, UNCHANGED steps,
         NEW f \in {"config", "provider", "truncated", "no text", "unparseable", "refused", "network",
                    "timeout", "redirect", "redirects", "oversized"},
         NEW permanent \in BOOLEAN, Throw(Fault(f), permanent),
         permanent <=> f \in {"config", "provider", "truncated", "redirects", "oversized"}
  PROVE  RetryInv'
<1>1. /\ Fault(f) \in Cause
      /\ permanent <=> Fault(f) \in Hopeless(Step.type)
  BY FaultsClassified
<1>. QED BY <1>1, Threw

\* llm_call refuses its configuration, answers itself, or asks.
LEMMA ModelCalled ==
  ASSUME RetryInv, executeLlmCall
  PROVE  RetryInv'
<1>1. pc # "over" /\ at \in Steps /\ UNCHANGED steps
  BY DEF executeLlmCall, chosen
<1>2. \/ Throw(Fault("config"), TRUE)
      \/ Throw(Fault("provider"), TRUE)
      \/ \E output : Return(output)
      \/ pc' = "waiting" /\ UNCHANGED <<at, row, attempt, failures>>
  BY DEF executeLlmCall, Send
<1>3. CASE Throw(Fault("config"), TRUE) \/ Throw(Fault("provider"), TRUE)
  BY <1>1, <1>3, ThrewFault
<1>4. ASSUME NEW output, Return(output)
      PROVE  RetryInv'
  BY <1>1, <1>4, Entered DEF Return
<1>5. CASE pc' = "waiting" /\ UNCHANGED <<at, row, attempt, failures>>
  BY <1>1, <1>5, Waited
<1>. QED BY <1>2, <1>3, <1>4, <1>5

\* The answer of the model: a status, or a completion, usable or not.
LEMMA ModelAnswered ==
  ASSUME RetryInv, LlmAnswer
  PROVE  RetryInv'
<1>1. /\ pc = "reading" /\ at \in Steps /\ status \in Status /\ UNCHANGED steps
      /\ Step.type = "llm_call"
  BY DEF LlmAnswer, chosen, RetryInv
<1>2. \/ Throw(Answered(status), classify(status))
      \/ Throw(Fault("network"), FALSE)
      \/ Throw(Fault("unparseable"), FALSE)
      \/ \E completion \in Completions : ReadCompletion(completion)
  BY DEF LlmAnswer
<1>3. CASE Throw(Answered(status), classify(status))
  <2>1. classify(status) \in BOOLEAN
    BY DEF classify
  <2>. QED BY <1>1, <1>3, <2>1, AnswersClassified, Threw
<1>4. CASE Throw(Fault("network"), FALSE) \/ Throw(Fault("unparseable"), FALSE)
  BY <1>1, <1>4, ThrewFault
<1>5. ASSUME NEW completion \in Completions, ReadCompletion(completion)
      PROVE  RetryInv'
  <2>. DEFINE u == Unusable(completion)
  <2>1. u \in {"truncated", "no text", None}
    BY DEF Unusable
  <2>2. \/ u # None /\ Throw(Fault(u), u = "truncated")
        \/ \E output : Return(output)
    BY <1>5 DEF ReadCompletion
  <2>. HIDE DEF u
  <2>3. CASE u # None /\ Throw(Fault(u), u = "truncated")
    <3>1. u \in {"truncated", "no text"}
      BY <2>1, <2>3
    <3>. DEFINE permanent == u = "truncated"
    <3>2. /\ permanent \in BOOLEAN /\ Throw(Fault(u), permanent)
          /\ permanent <=> u = "truncated"
      BY <2>3
    <3>. HIDE DEF permanent
    <3>. QED BY <1>1, <3>1, <3>2, ThrewFault
  <2>4. ASSUME NEW output, Return(output)
        PROVE  RetryInv'
    BY <1>1, <2>4, Entered DEF Return
  <2>. QED BY <2>2, <2>3, <2>4
<1>. QED BY <1>2, <1>3, <1>4, <1>5

\* An address is refused, cannot be resolved, or is requested.
LEMMA AddressChecked ==
  ASSUME RetryInv, pc # "over", at \in Steps, UNCHANGED steps,
         NEW u \in Url, NEW first \in BOOLEAN, assertUrlAllowed(u, first)
  PROVE  RetryInv'
<1>1. \/ first /\ Throw(Fault("config"), TRUE)
      \/ ~ first /\ Throw(Fault("redirect"), FALSE)
      \/ Throw(Fault("config"), TRUE)
      \/ Throw(Fault("network"), FALSE)
      \/ pc' = "waiting" /\ UNCHANGED <<at, row, attempt, failures>>
  <2>1. CASE u \in Malformed
    <3>1. Throw(Fault(IF first THEN "config" ELSE "redirect"), first)
      BY <2>1 DEF assertUrlAllowed
    <3>2. CASE first
      <4>1. first = TRUE /\ (IF first THEN "config" ELSE "redirect") = "config"
        BY <3>2
      <4>. QED BY <3>1, <4>1
    <3>3. CASE ~ first
      <4>1. first = FALSE /\ (IF first THEN "config" ELSE "redirect") = "redirect"
        BY <3>3
      <4>. QED BY <3>1, <4>1
    <3>. QED BY <3>2, <3>3
  <2>2. CASE u \in Blocked \ Malformed
    BY <2>2 DEF assertUrlAllowed
  <2>3. CASE u \notin Malformed \cup Blocked
    BY <2>3 DEF assertUrlAllowed, Send
  <2>. QED BY <2>1, <2>2, <2>3
<1>2. CASE pc' = "waiting" /\ UNCHANGED <<at, row, attempt, failures>>
  BY <1>2, Waited
<1>. QED BY <1>1, <1>2, ThrewFault

\* http_request: its address, redirects, and the answer.
LEMMA ServerAsked ==
  ASSUME RetryInv, executeHttpRequest \/ FollowRedirect
  PROVE  RetryInv'
<1>1. pc # "over" /\ at \in Steps /\ UNCHANGED steps
  BY DEF executeHttpRequest, FollowRedirect, chosen, RetryInv
<1>2. \/ \E u \in Url, first \in BOOLEAN : assertUrlAllowed(u, first)
      \/ Throw(Fault("redirects"), TRUE)
  <2>1. Step.type = "http_request" => Step.url \in Url
    BY <1>1, ProgramsAssumption DEF Step, Steps, RetryInv
  <2>. QED BY <2>1 DEF executeHttpRequest, FollowRedirect
<1>. QED BY <1>1, <1>2, AddressChecked, ThrewFault

\* The body of the answer is looked at before its status.
LEMMA ServerAnswered ==
  ASSUME RetryInv, HttpAnswer
  PROVE  RetryInv'
<1>1. /\ pc = "reading" /\ at \in Steps /\ status \in Status /\ UNCHANGED steps
      /\ Step.type = "http_request"
  BY DEF HttpAnswer, chosen, RetryInv
<1>2. \/ Throw(Fault("oversized"), TRUE)
      \/ Throw(Fault("network"), FALSE)
      \/ Throw(Fault("unparseable"), FALSE)
      \/ Throw(Answered(status), PermanentStatus(status))
      \/ \E output : Return(output)
  <2>1. PICK body \in Bodies :
          CASE body.form = "oversized" -> Throw(Fault("oversized"), TRUE)
            [] body.form = "broken" -> Throw(Fault("network"), FALSE)
            [] body.form = "unparseable" /\ Accepted(status) -> Throw(Fault("unparseable"), FALSE)
            [] body.form \notin {"oversized", "broken"} /\ ~ Accepted(status) ->
                 Throw(Answered(status), PermanentStatus(status))
            [] body.form = "whole" /\ Accepted(status) -> Return(HttpOutput(body))
    BY DEF HttpAnswer
  <2>2. body.form \in {"whole", "unparseable", "oversized", "broken"}
    BY BodiesAssumption
  <2>. QED BY <2>1, <2>2
<1>3. CASE Throw(Answered(status), PermanentStatus(status))
  <2>1. PermanentStatus(status) \in BOOLEAN
    BY DEF PermanentStatus
  <2>. QED BY <1>1, <1>3, <2>1, AnswersClassified, Threw
<1>4. ASSUME NEW output, Return(output)
      PROVE  RetryInv'
  BY <1>1, <1>4, Entered DEF Return
<1>. QED BY <1>1, <1>2, <1>3, <1>4, ThrewFault

\* Headers arrive, or the timer runs out.
LEMMA OutsideAnswered ==
  ASSUME RetryInv, ReceiveHeaders \/ TimeOut
  PROVE  RetryInv'
<1>1. pc = "waiting" /\ at \in Steps /\ UNCHANGED steps
  BY DEF ReceiveHeaders, TimeOut, chosen, RetryInv
<1>2. CASE ReceiveHeaders
  BY <1>1, <1>2, Waited DEF ReceiveHeaders, Headers
<1>3. CASE TimeOut
  <2>1. PICK f \in {"timeout", "network"} : Throw(Fault(f), FALSE)
    BY <1>3 DEF TimeOut
  <2>. QED BY <1>1, <2>1, ThrewFault
<1>. QED BY <1>2, <1>3

\* db_write, branches and gates.
LEMMA OthersReturned ==
  ASSUME RetryInv, executeDbWrite \/ Branch \/ Resume
  PROVE  RetryInv'
<1>1. pc # "over" /\ at \in Steps /\ UNCHANGED steps
  BY DEF executeDbWrite, Branch, Resume, chosen
<1>2. \/ Throw(Fault("config"), TRUE)
      \/ Throw(Fault("refused"), FALSE)
      \/ Throw(Fault("network"), FALSE)
      \/ \E output : /\ row' = [row EXCEPT ![at] = [status |-> "completed", output |-> output]]
                     /\ Enter(at + 1)
  BY DEF executeDbWrite, Branch, Resume, Return, Approved
<1>. QED BY <1>1, <1>2, ThrewFault, Entered

\* Every step keeps the invariant.
LEMMA RetryNext == RetryInv /\ [Next]_vars => RetryInv'
<1>. SUFFICES ASSUME RetryInv, [Next]_vars PROVE RetryInv'
  OBVIOUS
<1>1. CASE UNCHANGED vars
  BY <1>1 DEF vars, RetryInv, RetryMatchesTable, Steps, Step, Hopeless, Answered, Fault
<1>. QED BY <1>1, ModelCalled, ModelAnswered, ServerAsked, ServerAnswered, OutsideAnswered,
            OthersReturned DEF Next

\* A run starts with nothing tried.
LEMMA RetryInit == Init => RetryInv
<1>. SUFFICES ASSUME Init PROVE RetryInv
  OBVIOUS
<1>. USE AttemptsAssumption DEF Init
<1>1. steps \in Seq(Range(steps))
  BY ProgramsAssumption
<1>2. Steps = 1..Len(steps)
  BY <1>1 DEF Steps
<1>3. /\ row = [i \in Steps |-> row[i]]
      /\ \A i \in Steps : row[i].status # "failed"
  BY <1>2 DEF Pending
<1>4. failures \in Seq(Cause) /\ Len(failures) = 0 /\ DOMAIN failures = {}
  OBVIOUS
<1>. QED BY <1>3, <1>4 DEF RetryInv, RetryMatchesTable

-----------------------------------------------------------------------------
(* The theorems. *)

\* The table of what is tried again, for every error of every step: what is
\* hopeless ends the step at once, and nothing else does before all attempts are
\* used, whichever of the bodies, services or redirects it met, also where an
\* answer breaks off behind a status that is hopeless.
THEOREM RetriesMatchTheTable == Spec => []RetryMatchesTable
<1>1. RetryInv => RetryMatchesTable
  BY DEF RetryInv
<1>. QED BY <1>1, RetryInit, RetryNext, PTL DEF Spec

\* Whatever a step does next, it is not a request of an address that was not checked.
LEMMA RequestsNext == RetryInv /\ OnlyFetchable /\ [Next]_vars => OnlyFetchable'
<1>. SUFFICES ASSUME RetryInv, OnlyFetchable, [Next]_vars PROVE OnlyFetchable'
  OBVIOUS
<1>1. ASSUME NEW cause, NEW permanent, Throw(cause, permanent)
      PROVE  OnlyFetchable'
  <2>1. pc' # "waiting" /\ UNCHANGED hop
    BY <1>1 DEF Throw, request
  <2>. QED BY <2>1 DEF OnlyFetchable
<1>2. ASSUME NEW i, Enter(i)
      PROVE  OnlyFetchable'
  <2>1. pc' # "waiting" /\ UNCHANGED hop
    BY <1>2 DEF Enter, request
  <2>. QED BY <2>1 DEF OnlyFetchable
<1>3. ASSUME NEW u \in Url, NEW first \in BOOLEAN, assertUrlAllowed(u, first),
             first \/ hop # MAX_REDIRECTS
      PROVE  OnlyFetchable'
  <2>1. CASE u \in Malformed \cup Blocked
    <3>1. \E cause, permanent : Throw(cause, permanent)
      <4>1. CASE u \in Malformed
        BY <1>3, <4>1 DEF assertUrlAllowed
      <4>2. CASE u \notin Malformed
        BY <1>3, <2>1, <4>2 DEF assertUrlAllowed
      <4>. QED BY <4>1, <4>2
    <3>. QED BY <1>1, <3>1
  <2>2. CASE u \notin Malformed \cup Blocked
    <3>1. CASE url' = u /\ hop' = IF first THEN 0 ELSE hop + 1
      <4>1. hop \in 0..3
        BY DEF OnlyFetchable, MAX_REDIRECTS
      <4>2. hop' \in 0..3
        BY <1>3, <3>1, <4>1 DEF MAX_REDIRECTS
      <4>. QED BY <2>2, <3>1, <4>2 DEF OnlyFetchable, Fetchable, MAX_REDIRECTS
    <3>2. CASE Throw(Fault("network"), FALSE)
      BY <1>1, <3>2
    <3>. QED BY <1>3, <2>2, <3>1, <3>2 DEF assertUrlAllowed, Send
  <2>. QED BY <2>1, <2>2
<1>4. CASE executeLlmCall
  <2>1. \/ \E cause, permanent : Throw(cause, permanent)
        \/ \E i : Enter(i)
        \/ Step.type = "llm_call" /\ UNCHANGED <<steps, at, hop>>
    BY <1>4 DEF executeLlmCall, Return, chosen
  <2>2. ASSUME Step.type = "llm_call", UNCHANGED <<steps, at, hop>>
        PROVE  OnlyFetchable'
    BY <2>2 DEF OnlyFetchable, Step
  <2>. QED BY <1>1, <1>2, <2>1, <2>2
<1>5. CASE LlmAnswer
  <2>1. \/ \E cause, permanent : Throw(cause, permanent)
        \/ \E i : Enter(i)
    BY <1>5 DEF LlmAnswer, ReadCompletion, Return
  <2>. QED BY <1>1, <1>2, <2>1
<1>6. CASE executeHttpRequest
  <2>1. Step.url \in Url
    BY <1>6, ProgramsAssumption DEF executeHttpRequest, Step, Steps, RetryInv
  <2>. QED BY <1>3, <1>6, <2>1 DEF executeHttpRequest
<1>7. CASE FollowRedirect
  BY <1>1, <1>3, <1>7 DEF FollowRedirect
<1>8. CASE HttpAnswer
  <2>1. PICK body \in Bodies :
          CASE body.form = "oversized" -> Throw(Fault("oversized"), TRUE)
            [] body.form = "broken" -> Throw(Fault("network"), FALSE)
            [] body.form = "unparseable" /\ Accepted(status) -> Throw(Fault("unparseable"), FALSE)
            [] body.form \notin {"oversized", "broken"} /\ ~ Accepted(status) ->
                 Throw(Answered(status), PermanentStatus(status))
            [] body.form = "whole" /\ Accepted(status) -> Return(HttpOutput(body))
    BY <1>8 DEF HttpAnswer
  <2>2. body.form \in {"whole", "unparseable", "oversized", "broken"}
    BY BodiesAssumption
  <2>3. \/ \E cause, permanent : Throw(cause, permanent)
        \/ \E i : Enter(i)
    BY <2>1, <2>2 DEF Return
  <2>. QED BY <1>1, <1>2, <2>3
<1>9. CASE ReceiveHeaders
  BY <1>9 DEF ReceiveHeaders, Headers, OnlyFetchable
<1>10. CASE TimeOut
  BY <1>1, <1>10 DEF TimeOut
<1>11. CASE executeDbWrite
  <2>1. \/ \E cause, permanent : Throw(cause, permanent)
        \/ \E i : Enter(i)
    BY <1>11 DEF executeDbWrite, Return
  <2>. QED BY <1>1, <1>2, <2>1
<1>12. CASE Branch \/ Resume
  BY <1>2, <1>12 DEF Branch, Resume, Return
<1>13. CASE UNCHANGED vars
  BY <1>13 DEF vars, OnlyFetchable, Step
<1>. QED BY <1>4, <1>5, <1>6, <1>7, <1>8, <1>9, <1>10, <1>11, <1>12, <1>13 DEF Next

\* No address is requested that was not found fetchable first: not the one of the
\* step, and not the target of any redirect, of which there are three at most.
THEOREM RequestsAreChecked == Spec => []OnlyFetchable
<1>1. Init => OnlyFetchable
  BY DEF Init, OnlyFetchable, MAX_REDIRECTS
<1>2. RetryInv /\ OnlyFetchable /\ [Next]_vars => OnlyFetchable'
  BY RequestsNext
<1>. QED BY <1>1, <1>2, RetryInit, RetryNext, PTL DEF Spec

-----------------------------------------------------------------------------
(* Induction, and walking down a path. *)

\* A set with zero and the successors of its numbers has all of them.
LEMMA Induct ==
  ASSUME NEW S, 0 \in S, \A n \in Nat : n \in S => n + 1 \in S
  PROVE  \A n \in Nat : n \in S
<1>. DEFINE T == {n \in Nat : n \notin S}
<1>1. SUFFICES ASSUME T # {} PROVE FALSE
  OBVIOUS
<1>2. IsWellFoundedOn(OpToRel(<, Nat), Nat)
  BY NatLessThanWellFounded
<1>3. PICK n \in T : \A m \in T : <<m, n>> \notin OpToRel(<, Nat)
  <2>1. T \subseteq Nat
    OBVIOUS
  <2>. HIDE DEF T
  <2>. QED BY <1>1, <1>2, <2>1, WFMin
<1>4. n \in Nat /\ n \notin S /\ n # 0
  OBVIOUS
<1>5. n - 1 \in Nat /\ n - 1 < n /\ n - 1 + 1 = n
  BY <1>4
<1>6. <<n - 1, n>> \in OpToRel(<, Nat)
  BY <1>4, <1>5 DEF OpToRel
<1>7. n - 1 \in S
  BY <1>3, <1>5, <1>6
<1>. QED BY <1>4, <1>5, <1>7

\* The partial results of walking down a path.
Walked(f, ctx, path, n) ==
  f = [s \in SUBSET (1..n) |-> IF s = {} THEN ctx ELSE Member(f[s \ {Max(s)}], path[Max(s)])]

\* The largest of numbers up to n that include n.
LEMMA MaxTop ==
  ASSUME NEW n \in Nat, NEW s \in SUBSET (1..n), n \in s
  PROVE  Max(s) = n
<1>1. \A x \in s : n >= x
  OBVIOUS
<1>2. \A x : x \in s /\ (\A y \in s : x >= y) => x = n
  OBVIOUS
<1>. QED BY <1>1, <1>2 DEF Max

\* There are such results, for every length of the path.
LEMMA WalkExists ==
  ASSUME NEW ctx, NEW path
  PROVE  \A n \in Nat : \E f : Walked(f, ctx, path, n)
<1>. DEFINE S == {n \in Nat : \E f : Walked(f, ctx, path, n)}
<1>1. 0 \in S
  <2>1. SUBSET (1..0) = {{}}
    OBVIOUS
  <2>. DEFINE f == [s \in SUBSET (1..0) |-> ctx]
  <2>2. Walked(f, ctx, path, 0)
    BY <2>1 DEF Walked
  <2>. QED BY <2>2
<1>2. ASSUME NEW n \in Nat, n \in S
      PROVE  n + 1 \in S
  <2>1. PICK f : Walked(f, ctx, path, n)
    BY <1>2
  <2>. DEFINE g == [s \in SUBSET (1..(n + 1)) |->
                      IF n + 1 \in s THEN Member(f[s \ {n + 1}], path[n + 1]) ELSE f[s]]
  <2>2. ASSUME NEW s \in SUBSET (1..(n + 1))
        PROVE  g[s] = IF s = {} THEN ctx ELSE Member(g[s \ {Max(s)}], path[Max(s)])
    <3>1. CASE n + 1 \in s
      <4>1. Max(s) = n + 1
        BY <3>1, MaxTop
      <4>2. g[s \ {n + 1}] = f[s \ {n + 1}]
        OBVIOUS
      <4>3. g[s] = Member(f[s \ {n + 1}], path[n + 1])
        BY <3>1
      <4>. QED BY <3>1, <4>1, <4>2, <4>3
    <3>2. CASE n + 1 \notin s
      <4>1. s \in SUBSET (1..n)
        BY <3>2
      <4>2. g[s] = f[s]
        BY <3>2
      <4>3. f[s] = IF s = {} THEN ctx ELSE Member(f[s \ {Max(s)}], path[Max(s)])
        BY <2>1, <4>1 DEF Walked
      <4>4. g[s \ {Max(s)}] = f[s \ {Max(s)}]
        BY <3>2
      <4>. QED BY <4>2, <4>3, <4>4
    <3>. QED BY <3>1, <3>2
  <2>3. Walked(g, ctx, path, n + 1)
    BY <2>2 DEF Walked
  <2>. HIDE DEF g
  <2>. QED BY <2>3
<1>. HIDE DEF S
<1>3. \A n \in Nat : n \in S
  BY <1>1, <1>2, Induct
<1>. QED BY <1>3 DEF S

Walk(w, ctx, path) ==
  /\ w[0] = ctx
  /\ \A k \in 1..Len(path) : w[k] = Member(w[k - 1], path[k])
  /\ ResolvePath(ctx, path) = w[Len(path)]

\* A path is walked part by part.
LEMMA PathWalk ==
  ASSUME NEW ctx, NEW path, IsPath(path)
  PROVE  \E w : Walk(w, ctx, path)
<1>. DEFINE n == Len(path)
            f == CHOOSE g : Walked(g, ctx, path, n)
            w == [k \in 0..n |-> f[1..k]]
<1>1. n \in Nat /\ DOMAIN path = 1..n
  BY DEF IsPath
<1>2. Walked(f, ctx, path, n)
  BY <1>1, WalkExists
<1>3. ResolvePath(ctx, path) = f[1..n]
  BY <1>1 DEF ResolvePath, FoldLeft, MapThenFoldSet, Walked
<1>. HIDE DEF f
<1>4. w[0] = ctx
  BY <1>1, <1>2 DEF Walked
<1>5. ASSUME NEW k \in 1..n
      PROVE  w[k] = Member(w[k - 1], path[k])
  <2>1. 1..k \in SUBSET (1..n) /\ k \in 1..k /\ k \in Nat
    BY <1>1
  <2>2. Max(1..k) = k
    BY <2>1, MaxTop
  <2>3. (1..k) \ {k} = 1..(k - 1)
    BY <2>1
  <2>4. f[1..k] = Member(f[1..(k - 1)], path[k])
    BY <1>2, <2>1, <2>2, <2>3 DEF Walked
  <2>5. w[k] = f[1..k] /\ w[k - 1] = f[1..(k - 1)]
    BY <1>1
  <2>. QED BY <2>4, <2>5
<1>. HIDE DEF w
<1>6. ResolvePath(ctx, path) = w[n]
  BY <1>1, <1>3 DEF w
<1>. QED BY <1>4, <1>5, <1>6 DEF Walk

-----------------------------------------------------------------------------
(* The elements of a finite set by their ranks. *)

Ranked(S, rank) ==
  /\ IsFiniteSet(S)
  /\ \A x \in S : rank[x] \in Int
  /\ \A x, y \in S : rank[x] = rank[y] => x = y

Increasing(s, S, rank) ==
  /\ s \in [1..Cardinality(S) -> S]
  /\ \A i, j \in 1..Cardinality(S) : i < j => rank[s[i]] < rank[s[j]]

\* They are all there, each of them once.
LEMMA IncreasingIsOnto ==
  ASSUME NEW S, NEW rank, Ranked(S, rank), NEW s, Increasing(s, S, rank)
  PROVE  /\ \A x \in S : \E k \in 1..Cardinality(S) : s[k] = x
         /\ \A i, j \in 1..Cardinality(S) : s[i] = s[j] => i = j
<1>. DEFINE n == Cardinality(S)
<1>1. n \in Nat
  BY FS_CardinalityType DEF Ranked
<1>2. \A i, j \in 1..n : s[i] = s[j] => i = j
  <2>1. ASSUME NEW i \in 1..n, NEW j \in 1..n, i < j
        PROVE  s[i] # s[j]
    <3>1. rank[s[i]] < rank[s[j]] /\ rank[s[i]] \in Int
      BY <2>1 DEF Increasing, Ranked
    <3>. QED BY <3>1
  <2>. QED BY <1>1, <2>1
<1>3. s \in Injection(1..n, S)
  BY <1>2 DEF Increasing, Injection, IsInjective
<1>4. Cardinality(1..n) = n
  BY <1>1, FS_Interval
<1>5. s \in Surjection(1..n, S)
  <2>. HIDE DEF n
  <2>. QED BY <1>3, <1>4, FS_Injection DEF Ranked, n
<1>. QED BY <1>2, <1>5 DEF Surjection

\* An element that ranks above the others goes to the end.
LEMMA Appended ==
  ASSUME NEW S, NEW rank, Ranked(S, rank), NEW y \in S,
         \A x \in S \ {y} : rank[x] < rank[y],
         \E s : Increasing(s, S \ {y}, rank)
  PROVE  \E s : Increasing(s, S, rank)
<1>. DEFINE n == Cardinality(S \ {y})
<1>1. n \in Nat /\ Cardinality(S) = n + 1
  <2>1. IsFiniteSet(S) /\ Cardinality(S) \in Nat
    BY FS_CardinalityType DEF Ranked
  <2>2. IsFiniteSet(S \ {y}) /\ n = Cardinality(S) - 1
    BY <2>1, FS_RemoveElement
  <2>3. n \in Nat
    BY <2>2, FS_CardinalityType
  <2>. QED BY <2>1, <2>2, <2>3
<1>2. PICK s : Increasing(s, S \ {y}, rank)
  OBVIOUS
<1>. DEFINE t == [k \in 1..(n + 1) |-> IF k = n + 1 THEN y ELSE s[k]]
<1>3. s \in [1..n -> S \ {y}] /\ \A i, j \in 1..n : i < j => rank[s[i]] < rank[s[j]]
  BY <1>2 DEF Increasing
<1>. HIDE DEF n
<1>4. t \in [1..(n + 1) -> S]
  BY <1>1, <1>3
<1>5. ASSUME NEW i \in 1..(n + 1), NEW j \in 1..(n + 1), i < j
      PROVE  rank[t[i]] < rank[t[j]]
  <2>1. i \in 1..n /\ t[i] = s[i] /\ s[i] \in S \ {y}
    BY <1>1, <1>3, <1>5
  <2>2. CASE j = n + 1
    BY <2>1, <2>2
  <2>3. CASE j # n + 1
    BY <1>1, <1>3, <1>5, <2>1, <2>3
  <2>. QED BY <2>2, <2>3
<1>6. Increasing(t, S, rank)
  BY <1>1, <1>4, <1>5 DEF Increasing
<1>. QED BY <1>6

\* A finite set can be put in order, by induction on its size.
LEMMA IncreasingExists ==
  \A n \in Nat : \A S, rank : Ranked(S, rank) /\ Cardinality(S) = n => \E s : Increasing(s, S, rank)
<1>. DEFINE N == {n \in Nat : \A S, rank : Ranked(S, rank) /\ Cardinality(S) = n
                                             => \E s : Increasing(s, S, rank)}
<1>1. 0 \in N
  <2>1. ASSUME NEW S, NEW rank, Ranked(S, rank), Cardinality(S) = 0
        PROVE  \E s : Increasing(s, S, rank)
    <3>1. Increasing([k \in 1..0 |-> k], S, rank)
      BY <2>1 DEF Increasing
    <3>. QED BY <3>1
  <2>. QED BY <2>1
<1>2. ASSUME NEW n \in Nat, n \in N
      PROVE  n + 1 \in N
  <2>1. ASSUME NEW S, NEW rank, Ranked(S, rank), Cardinality(S) = n + 1
        PROVE  \E s : Increasing(s, S, rank)
    <3>1. \A x \in S : Ranked(S \ {x}, rank) /\ Cardinality(S \ {x}) = n
      BY <2>1, FS_RemoveElement DEF Ranked
    <3>2. \A x \in S : \E s : Increasing(s, S \ {x}, rank)
      BY <1>2, <3>1
    <3>3. PICK x \in S : TRUE
      BY <2>1, FS_EmptySet DEF Ranked
    <3>4. PICK s : Increasing(s, S \ {x}, rank)
      BY <3>2
    <3>5. CASE n = 0 \/ rank[s[n]] < rank[x]
      <4>1. ASSUME NEW z \in S \ {x}
            PROVE  rank[z] < rank[x]
        <5>1. PICK k \in 1..n : s[k] = z
          BY <3>1, <3>4, IncreasingIsOnto
        <5>2. s \in [1..n -> S \ {x}] /\ (k = n \/ rank[s[k]] < rank[s[n]])
          BY <3>1, <3>4 DEF Increasing
        <5>3. rank[z] \in Int /\ rank[x] \in Int /\ rank[s[n]] \in Int
          BY <2>1, <5>1, <5>2 DEF Ranked
        <5>. QED BY <3>5, <5>1, <5>2, <5>3
      <4>. QED BY <2>1, <3>2, <4>1, Appended
    <3>6. CASE n # 0 /\ ~ (rank[s[n]] < rank[x])
      <4>. DEFINE y == s[n]
      <4>1. s \in [1..n -> S \ {x}] /\ n \in 1..n /\ y \in S
        BY <3>1, <3>4, <3>6 DEF Increasing
      <4>2. ASSUME NEW z \in S \ {y}
            PROVE  rank[z] < rank[y]
        <5>1. rank[z] \in Int /\ rank[y] \in Int /\ rank[z] # rank[y]
          BY <2>1, <4>1 DEF Ranked
        <5>2. CASE z = x
          BY <3>6, <5>1, <5>2
        <5>3. CASE z # x
          <6>1. PICK k \in 1..n : s[k] = z
            <7>1. z \in S \ {x} /\ Ranked(S \ {x}, rank) /\ Cardinality(S \ {x}) = n
              BY <3>1, <5>3
            <7>2. \A u \in S \ {x} : \E k \in 1..Cardinality(S \ {x}) : s[k] = u
              BY <3>4, <7>1, IncreasingIsOnto
            <7>. QED BY <7>1, <7>2
          <6>2. k < n
            BY <6>1
          <6>3. \A i, j \in 1..n : i < j => rank[s[i]] < rank[s[j]]
            BY <3>1, <3>4 DEF Increasing
          <6>4. rank[s[k]] < rank[s[n]]
            BY <4>1, <6>2, <6>3
          <6>. QED BY <6>1, <6>4
        <5>. QED BY <5>2, <5>3
      <4>. HIDE DEF y
      <4>. QED BY <2>1, <3>2, <4>1, <4>2, Appended
    <3>. QED BY <3>5, <3>6
  <2>. QED BY <2>1
<1>. HIDE DEF N
<1>3. \A n \in Nat : n \in N
  BY <1>1, <1>2, Induct
<1>. QED BY <1>3 DEF N

\* InOrder lists the elements by their ranks, each of them once.
LEMMA InOrderIsIncreasing ==
  ASSUME NEW S, NEW rank, Ranked(S, rank)
  PROVE  /\ Increasing(InOrder(S, rank), S, rank)
         /\ \A x \in S : \E k \in 1..Cardinality(S) : InOrder(S, rank)[k] = x
         /\ \A k, l \in 1..Cardinality(S) : InOrder(S, rank)[k] = InOrder(S, rank)[l] => k = l
<1>1. Cardinality(S) \in Nat
  BY FS_CardinalityType DEF Ranked
<1>2. \E s \in [1..Cardinality(S) -> S] :
        \A i, j \in 1..Cardinality(S) : i < j => rank[s[i]] < rank[s[j]]
  BY <1>1, IncreasingExists DEF Increasing
<1>3. Increasing(InOrder(S, rank), S, rank)
  BY <1>2 DEF InOrder, Increasing
<1>. QED BY <1>3, IncreasingIsOnto

-----------------------------------------------------------------------------
(* Values that differ in the order of their members at most. *)

\* The members of w are those of v, in the order g, their values being related.
Rearranged(v, w, R, g) ==
  /\ \A k \in DOMAIN w.members :
       /\ g[k] \in DOMAIN v.members
       /\ w.members[k][1] = v.members[g[k]][1]
       /\ <<v.members[g[k]][2], w.members[k][2]>> \in R
  /\ \A i \in DOMAIN v.members : \E k \in DOMAIN w.members : g[k] = i
  /\ \A k, l \in DOMAIN w.members : g[k] = g[l] => k = l

\* An array has nothing but its items.
IsArray(v) == v = Arr([i \in DOMAIN v.items |-> v.items[i]])

\* One is the other, their parts being related.
Alike(v, w, R) ==
  \/ v = w /\ v.kind \in Kind \ {"array", "object"}
  \/ /\ v.kind = "array" /\ w.kind = "array" /\ IsArray(v) /\ IsArray(w)
     /\ DOMAIN v.items = DOMAIN w.items
     /\ \A i \in DOMAIN v.items : <<v.items[i], w.items[i]>> \in R
  \/ /\ v.kind = "object" /\ w.kind = "object"
     /\ \A i, j \in DOMAIN v.members : v.members[i][1] = v.members[j][1] => i = j
     /\ \E g : Rearranged(v, w, R, g)

AllAlike(R) == \A v, w : <<v, w>> \in R => Alike(v, w, R)

Similar(v, w) == \E R : <<v, w>> \in R /\ AllAlike(R)

\* More related pairs do no harm.
LEMMA AlikeGrows ==
  ASSUME NEW v, NEW w, NEW Q, NEW R, Q \subseteq R, Alike(v, w, Q)
  PROVE  Alike(v, w, R)
<1>1. ASSUME NEW g, Rearranged(v, w, Q, g)
      PROVE  Rearranged(v, w, R, g)
  BY <1>1 DEF Rearranged
<1>. QED BY <1>1 DEF Alike

\* Objects that have the same keys, in the same order.
LEMMA SameKeysAlike ==
  ASSUME NEW v, NEW w, v.kind = "object", w.kind = "object",
         DOMAIN v.members = DOMAIN w.members, NEW R,
         \A k \in DOMAIN v.members : /\ v.members[k][1] = w.members[k][1]
                                     /\ <<v.members[k][2], w.members[k][2]>> \in R,
         \A i, j \in DOMAIN v.members : v.members[i][1] = v.members[j][1] => i = j
  PROVE  Alike(v, w, R)
<1>. DEFINE g == [k \in DOMAIN v.members |-> k]
<1>1. Rearranged(v, w, R, g)
  BY DEF Rearranged
<1>. HIDE DEF g
<1>. QED BY <1>1 DEF Alike

\* A member of one is a member of the other.
LEMMA AlikeMember ==
  ASSUME NEW v, NEW w, NEW R, Alike(v, w, R), NEW p
  PROVE  \/ Member(v, p) = Absent /\ Member(w, p) = Absent
         \/ <<Member(v, p), Member(w, p)>> \in R
<1>. DEFINE own(x) == IF x.kind = "object" THEN {i \in DOMAIN x.members : x.members[i][1] = p} ELSE {}
<1>1. CASE p \in DANGEROUS_KEYS
  BY <1>1 DEF Member
<1>2. CASE p \notin DANGEROUS_KEYS /\ v.kind \notin {"array", "object"} /\ v = w
  BY <1>2 DEF Member
<1>3. CASE /\ p \notin DANGEROUS_KEYS /\ v.kind = "array" /\ w.kind = "array"
           /\ DOMAIN v.items = DOMAIN w.items
           /\ \A i \in DOMAIN v.items : <<v.items[i], w.items[i]>> \in R
  BY <1>3 DEF Member
<1>4. CASE p \notin DANGEROUS_KEYS /\ v.kind = "object" /\ w.kind = "object"
  <2>1. \A i, j \in DOMAIN v.members : v.members[i][1] = v.members[j][1] => i = j
    BY <1>4 DEF Alike
  <2>2. PICK g : /\ \A k \in DOMAIN w.members :
                    /\ g[k] \in DOMAIN v.members
                    /\ w.members[k][1] = v.members[g[k]][1]
                    /\ <<v.members[g[k]][2], w.members[k][2]>> \in R
               /\ \A i \in DOMAIN v.members : \E k \in DOMAIN w.members : g[k] = i
    BY <1>4 DEF Alike, Rearranged
  <2>3. /\ Member(v, p) = IF own(v) # {} THEN v.members[CHOOSE i \in own(v) : TRUE][2] ELSE Absent
        /\ Member(w, p) = IF own(w) # {} THEN w.members[CHOOSE i \in own(w) : TRUE][2] ELSE Absent
    BY <1>4 DEF Member
  <2>4. CASE own(w) = {}
    <3>1. ASSUME NEW i \in own(v)
          PROVE  FALSE
      <4>1. i \in DOMAIN v.members /\ v.members[i][1] = p
        BY <1>4
      <4>2. PICK k \in DOMAIN w.members : g[k] = i
        BY <2>2, <4>1
      <4>3. w.members[k][1] = p
        BY <2>2, <4>1, <4>2
      <4>4. k \in own(w)
        BY <1>4, <4>3
      <4>. QED BY <2>4, <4>4
    <3>. QED BY <2>3, <2>4, <3>1
  <2>5. CASE own(w) # {}
    <3>. DEFINE k == CHOOSE i \in own(w) : TRUE
                i == CHOOSE j \in own(v) : TRUE
    <3>1. k \in own(w)
      BY <2>5
    <3>. HIDE DEF k
    <3>2. k \in DOMAIN w.members /\ w.members[k][1] = p
      BY <1>4, <3>1
    <3>3. g[k] \in own(v)
      BY <1>4, <2>2, <3>2
    <3>4. i \in own(v)
      BY <3>3
    <3>. HIDE DEF i
    <3>5. i = g[k]
      BY <1>4, <2>1, <3>3, <3>4
    <3>6. Member(v, p) = v.members[i][2] /\ Member(w, p) = w.members[k][2]
      BY <2>3, <2>5, <3>3 DEF i, k
    <3>. QED BY <2>2, <3>2, <3>5, <3>6
  <2>. QED BY <2>4, <2>5
<1>. QED BY <1>1, <1>2, <1>3, <1>4 DEF Alike

\* Members of similar values are similar, or neither value has one.
LEMMA SimilarMember ==
  ASSUME NEW v, NEW w, Similar(v, w), NEW p
  PROVE  \/ Member(v, p) = Absent /\ Member(w, p) = Absent
         \/ Similar(Member(v, p), Member(w, p))
<1>1. PICK R : <<v, w>> \in R /\ AllAlike(R)
  BY DEF Similar
<1>2. Alike(v, w, R)
  BY <1>1 DEF AllAlike
<1>. QED BY <1>1, <1>2, AlikeMember DEF Similar

\* What is undefined is similar, too.
LEMMA PlainSimilar ==
  ASSUME NEW v, v.kind \in Kind \ {"array", "object"}
  PROVE  Similar(v, v)
<1>1. AllAlike({<<v, v>>})
  BY DEF AllAlike, Alike
<1>. QED BY <1>1 DEF Similar

\* Similar values are of the same kind, and equal unless they have parts.
LEMMA SimilarKinds ==
  ASSUME NEW v, NEW w, Similar(v, w)
  PROVE  /\ v.kind = w.kind /\ v.kind \in Kind
         /\ v.kind \notin {"array", "object"} => v = w
BY DEF Similar, AllAlike, Alike, Kind

\* Arrays that are similar have similar items.
LEMMA SimilarItems ==
  ASSUME NEW v, NEW w, Similar(v, w), v.kind = "array"
  PROVE  /\ IsArray(v) /\ IsArray(w) /\ DOMAIN v.items = DOMAIN w.items
         /\ \A i \in DOMAIN v.items : Similar(v.items[i], w.items[i])
<1>1. PICK R : <<v, w>> \in R /\ AllAlike(R)
  BY DEF Similar
<1>2. /\ IsArray(v) /\ IsArray(w) /\ DOMAIN v.items = DOMAIN w.items
      /\ \A i \in DOMAIN v.items : <<v.items[i], w.items[i]>> \in R
  BY <1>1 DEF AllAlike, Alike
<1>. QED BY <1>1, <1>2 DEF Similar

\* Values that are similar have objects or arrays in them, or neither has.
LEMMA NestedAlike ==
  ASSUME NEW v, NEW w, Similar(v, w), Nested(v)
  PROVE  Nested(w)
<1>1. CASE v.kind = "object"
  BY <1>1, SimilarKinds DEF Nested
<1>2. CASE v.kind = "array"
  BY <1>2, SimilarKinds, SimilarItems DEF Nested
<1>. QED BY <1>1, <1>2 DEF Nested

\* The same, counting what neither has as similar.
LEMMA SimilarPart ==
  ASSUME NEW v, NEW w, Similar(v, w), NEW p
  PROVE  Similar(Member(v, p), Member(w, p))
<1>1. Similar(Absent, Absent)
  <2>1. Absent.kind = "absent"
    BY DEF Absent
  <2>2. Absent.kind \in Kind \ {"array", "object"}
    BY <2>1 DEF Kind
  <2>. QED BY <2>2, PlainSimilar
<1>. QED BY <1>1, SimilarMember

\* What a value is similar to is similar to itself.
LEMMA SimilarSelf ==
  ASSUME NEW v, NEW w, Similar(v, w)
  PROVE  Similar(w, w)
<1>1. PICK R : <<v, w>> \in R /\ AllAlike(R)
  BY DEF Similar
<1>. DEFINE Pairs == {p \in R : p = <<p[1], p[2]>>}
            Q == {<<p[2], p[2]>> : p \in Pairs}
<1>2. \A x, y : <<x, y>> \in R => <<y, y>> \in Q
  <2>1. ASSUME NEW x, NEW y, <<x, y>> \in R
        PROVE  <<y, y>> \in Q
    <3>1. <<x, y>> \in Pairs /\ <<x, y>>[2] = y
      BY <2>1
    <3>. HIDE DEF Pairs
    <3>. QED BY <3>1
  <2>. QED BY <2>1
<1>3. ASSUME NEW x, NEW y, <<x, y>> \in Q
      PROVE  x = y /\ \E z : <<z, y>> \in R
  <2>1. PICK p \in Pairs : <<x, y>> = <<p[2], p[2]>>
    BY <1>3
  <2>2. x = y /\ y = p[2] /\ p \in R /\ p = <<p[1], p[2]>>
    BY <2>1
  <2>. QED BY <2>2
<1>. HIDE DEF Q, Pairs
<1>4. ASSUME NEW x, NEW y, Alike(x, y, R)
      PROVE  Alike(y, y, Q)
  <2>1. CASE y.kind = "object"
    <3>1. x.kind = "object"
      BY <1>4, <2>1 DEF Alike
    <3>2. \A i, j \in DOMAIN x.members : x.members[i][1] = x.members[j][1] => i = j
      BY <1>4, <3>1 DEF Alike
    <3>3. PICK g : Rearranged(x, y, R, g)
      BY <1>4, <3>1 DEF Alike
    <3>4. ASSUME NEW i \in DOMAIN y.members, NEW j \in DOMAIN y.members, y.members[i][1] = y.members[j][1]
          PROVE  i = j
      <4>1. /\ g[i] \in DOMAIN x.members /\ y.members[i][1] = x.members[g[i]][1]
            /\ g[j] \in DOMAIN x.members /\ y.members[j][1] = x.members[g[j]][1]
            /\ g[i] = g[j] => i = j
        BY <3>3 DEF Rearranged
      <4>. QED BY <3>2, <3>4, <4>1
    <3>5. ASSUME NEW k \in DOMAIN y.members
          PROVE  <<y.members[k][2], y.members[k][2]>> \in Q
      <4>1. <<x.members[g[k]][2], y.members[k][2]>> \in R
        BY <3>3 DEF Rearranged
      <4>. QED BY <1>2, <4>1
    <3>. QED BY <2>1, <3>4, <3>5, SameKeysAlike
  <2>2. CASE y.kind # "object"
    BY <1>2, <1>4, <2>2 DEF Alike
  <2>. QED BY <2>1, <2>2
<1>5. AllAlike(Q)
  <2>1. ASSUME NEW x, NEW y, <<x, y>> \in Q
        PROVE  Alike(x, y, Q)
    <3>1. PICK z : x = y /\ <<z, y>> \in R
      BY <1>3, <2>1
    <3>2. Alike(z, y, R)
      BY <1>1, <3>1 DEF AllAlike
    <3>. QED BY <1>4, <3>1, <3>2
  <2>. QED BY <2>1 DEF AllAlike
<1>. QED BY <1>1, <1>2, <1>5 DEF Similar

\* Whatever is read out of similar contexts is similar.
LEMMA SimilarRead ==
  ASSUME NEW v, NEW w, Similar(v, w), NEW path, IsPath(path)
  PROVE  Similar(ResolvePath(v, path), ResolvePath(w, path))
<1>1. PICK a : Walk(a, v, path)
  BY PathWalk
<1>2. PICK b : Walk(b, w, path)
  BY PathWalk
<1>3. Len(path) \in Nat
  BY DEF IsPath
<1>. DEFINE S == {k \in Nat : k <= Len(path) => Similar(a[k], b[k])}
<1>4. 0 \in S
  BY <1>1, <1>2 DEF Walk
<1>5. ASSUME NEW k \in Nat, k \in S
      PROVE  k + 1 \in S
  <2>1. CASE k + 1 <= Len(path)
    <3>1. k + 1 \in 1..Len(path) /\ (k + 1) - 1 = k /\ k <= Len(path)
      BY <1>3, <2>1
    <3>2. a[k + 1] = Member(a[k], path[k + 1]) /\ b[k + 1] = Member(b[k], path[k + 1])
      BY <1>1, <1>2, <3>1 DEF Walk
    <3>3. Similar(a[k], b[k])
      BY <1>5, <3>1
    <3>4. Similar(a[k + 1], b[k + 1])
      BY <3>2, <3>3, SimilarPart
    <3>. QED BY <3>4
  <2>. QED BY <2>1
<1>. HIDE DEF S
<1>6. \A k \in Nat : k \in S
  BY <1>4, <1>5, Induct
<1>. QED BY <1>1, <1>2, <1>3, <1>6 DEF S, Walk

\* Objects of the same keys with similar members.
LEMMA SimilarObjects ==
  ASSUME NEW v, NEW w, v.kind = "object", w.kind = "object",
         DOMAIN v.members = DOMAIN w.members,
         \A k \in DOMAIN v.members : /\ v.members[k][1] = w.members[k][1]
                                     /\ Similar(v.members[k][2], w.members[k][2]),
         \A i, j \in DOMAIN v.members : v.members[i][1] = v.members[j][1] => i = j
  PROVE  Similar(v, w)
<1>. DEFINE D == DOMAIN v.members
            r == [k \in D |-> CHOOSE R : <<v.members[k][2], w.members[k][2]>> \in R /\ AllAlike(R)]
            all == (UNION {r[k] : k \in D}) \cup {<<v, w>>}
<1>1. \A k \in D : <<v.members[k][2], w.members[k][2]>> \in r[k] /\ AllAlike(r[k])
  <2>1. ASSUME NEW k \in D
        PROVE  <<v.members[k][2], w.members[k][2]>> \in r[k] /\ AllAlike(r[k])
    <3>1. \E R : <<v.members[k][2], w.members[k][2]>> \in R /\ AllAlike(R)
      BY DEF Similar
    <3>2. r[k] = CHOOSE R : <<v.members[k][2], w.members[k][2]>> \in R /\ AllAlike(R)
      OBVIOUS
    <3>. HIDE DEF r
    <3>. QED BY <3>1, <3>2
  <2>. QED BY <2>1
<1>. HIDE DEF r
<1>2. \A k \in D : r[k] \subseteq all
  OBVIOUS
<1>3. Alike(v, w, all)
  <2>1. \A k \in D : <<v.members[k][2], w.members[k][2]>> \in all
    BY <1>1, <1>2
  <2>. HIDE DEF all
  <2>. QED BY <2>1, SameKeysAlike
<1>4. ASSUME NEW x, NEW y, <<x, y>> \in all
      PROVE  Alike(x, y, all)
  <2>1. <<x, y>> = <<v, w>> \/ \E k \in D : <<x, y>> \in r[k]
    <3>1. \A z : z \in all => z = <<v, w>> \/ \E k \in D : z \in r[k]
      OBVIOUS
    <3>. HIDE DEF all
    <3>. QED BY <1>4, <3>1
  <2>. HIDE DEF all
  <2>2. CASE <<x, y>> = <<v, w>>
    <3>1. x = v /\ y = w
      BY <2>2
    <3>. QED BY <1>3, <3>1
  <2>3. ASSUME NEW k \in D, <<x, y>> \in r[k]
        PROVE  Alike(x, y, all)
    <3>1. Alike(x, y, r[k])
      BY <1>1, <2>3 DEF AllAlike
    <3>. QED BY <1>2, <3>1, AlikeGrows
  <2>. QED BY <2>1, <2>2, <2>3
<1>5. <<v, w>> \in all
  OBVIOUS
<1>6. AllAlike(all)
  <2>. HIDE DEF all
  <2>. QED BY <1>4 DEF AllAlike
<1>. HIDE DEF all
<1>. QED BY <1>5, <1>6 DEF Similar

-----------------------------------------------------------------------------
(* JSON values, and what Postgres keeps of them. *)

Parts(U) == \A u \in U : MadeOf(u, U)
IsValue(v) == \E U : v \in U /\ Parts(U)

\* A value that is made of parts is made of more parts.
LEMMA MadeOfMore ==
  ASSUME NEW v, NEW U, NEW W, U \subseteq W, MadeOf(v, U)
  PROVE  MadeOf(v, W)
<1>1. ASSUME NEW s \in Seq(U)
      PROVE  s \in Seq(W)
  BY <1>1
<1>2. ASSUME NEW s \in Seq((DOMAIN KeyRank) \X U)
      PROVE  s \in Seq((DOMAIN KeyRank) \X W)
  BY <1>2
<1>. QED BY <1>1, <1>2 DEF MadeOf

\* An array is its items.
LEMMA MadeOfItems ==
  ASSUME NEW v, NEW U, MadeOf(v, U), v.kind = "array"
  PROVE  IsArray(v) /\ \A i \in DOMAIN v.items : v.items[i] \in U
<1>1. v = Arr(v.items) /\ v.items \in Seq(U)
  BY DEF MadeOf
<1>2. v.items = [i \in DOMAIN v.items |-> v.items[i]] /\ \A i \in DOMAIN v.items : v.items[i] \in U
  BY <1>1
<1>. QED BY <1>1, <1>2 DEF IsArray

LEMMA ItemsOfArray == \A items : Arr(items).kind = "array" /\ Arr(items).items = items
BY DEF Arr

\* What inputs, definitions and answers are made of are values.
LEMMA GivenValues == \A v \in Value : IsValue(v)
BY ValueAssumption DEF IsValue, Parts

PlainKind == {"null", "boolean", "number", "string"}

\* So is everything without parts.
LEMMA PlainValues ==
  ASSUME NEW v, v.kind \in PlainKind
  PROVE  IsValue(v)
<1>1. Parts({v})
  BY DEF Parts, MadeOf, PlainKind, Kind
<1>. QED BY <1>1 DEF IsValue

\* An object around one value, whose other members are plain.
LEMMA BuiltValue ==
  ASSUME NEW v, IsValue(v), NEW P, \A u \in P : u.kind \in PlainKind,
         NEW members \in Seq((DOMAIN KeyRank) \X (P \cup {v})),
         \A i, j \in DOMAIN members : members[i][1] = members[j][1] => i = j
  PROVE  IsValue(Obj(members))
<1>1. PICK U : v \in U /\ Parts(U)
  BY DEF IsValue
<1>. DEFINE o == Obj(members)
            W == U \cup P \cup {o}
<1>2. o.kind = "object" /\ o.members = members
  BY DEF Obj
<1>. HIDE DEF o
<1>3. MadeOf(o, W)
  <2>1. P \cup {v} \subseteq W
    BY <1>1
  <2>. HIDE DEF W
  <2>2. members \in Seq((DOMAIN KeyRank) \X W)
    BY <2>1
  <2>. QED BY <1>2, <2>2 DEF MadeOf, Kind
<1>4. ASSUME NEW u \in U
      PROVE  MadeOf(u, W)
  <2>1. MadeOf(u, U) /\ U \subseteq W
    BY <1>1 DEF Parts
  <2>. HIDE DEF W
  <2>. QED BY <2>1, MadeOfMore
<1>5. ASSUME NEW u \in P
      PROVE  MadeOf(u, W)
  BY DEF MadeOf, PlainKind, Kind
<1>6. Parts(W)
  BY <1>3, <1>4, <1>5 DEF Parts
<1>. QED BY <1>6 DEF IsValue, o

Depth1(v) == Normalized(v, AsIs)
Depth2(v) == Normalized(v, Depth1)

\* The local definitions of Stored, by name.
LEMMA StoredByDepth == \A v : Stored(v) = Normalized(v, Depth2)
BY DEF Stored, Depth2, Depth1

OrderOf(v) == InOrder(DOMAIN v.members, [i \in DOMAIN v.members |-> KeyRank[v.members[i][1]]])

\* The order of the members is a rearrangement of them.
LEMMA MembersInOrder ==
  ASSUME NEW v, NEW U, MadeOf(v, U), v.kind = "object"
  PROVE  /\ \A k \in DOMAIN OrderOf(v) : OrderOf(v)[k] \in DOMAIN v.members
         /\ \A i \in DOMAIN v.members : \E k \in DOMAIN OrderOf(v) : OrderOf(v)[k] = i
         /\ \A k, l \in DOMAIN OrderOf(v) : OrderOf(v)[k] = OrderOf(v)[l] => k = l
<1>. DEFINE S == DOMAIN v.members
            rank == [i \in S |-> KeyRank[v.members[i][1]]]
<1>1. /\ v.members \in Seq((DOMAIN KeyRank) \X U)
      /\ \A i, j \in S : v.members[i][1] = v.members[j][1] => i = j
  BY DEF MadeOf
<1>2. Len(v.members) \in Nat /\ S = 1..Len(v.members)
  BY <1>1
<1>3. IsFiniteSet(S)
  <2>1. IsFiniteSet(1..Len(v.members))
    BY <1>2, FS_Interval
  <2>. QED BY <1>2, <2>1
<1>4. \A i \in S : v.members[i][1] \in DOMAIN KeyRank
  BY <1>1
<1>5. Ranked(S, rank)
  BY <1>1, <1>3, <1>4, KeyRankAssumption DEF Ranked
<1>6. OrderOf(v) = InOrder(S, rank)
  BY DEF OrderOf
<1>. HIDE DEF rank, S
<1>7. /\ Increasing(OrderOf(v), S, rank)
      /\ \A x \in S : \E k \in 1..Cardinality(S) : OrderOf(v)[k] = x
      /\ \A k, l \in 1..Cardinality(S) : OrderOf(v)[k] = OrderOf(v)[l] => k = l
  BY <1>5, <1>6, InOrderIsIncreasing
<1>8. DOMAIN OrderOf(v) = 1..Cardinality(S) /\ \A k \in 1..Cardinality(S) : OrderOf(v)[k] \in S
  BY <1>7 DEF Increasing
<1>. QED BY <1>7, <1>8 DEF S

\* What the three depths have in common.
LEMMA InOrderAlike ==
  ASSUME NEW v, NEW w, NEW U, NEW R, MadeOf(v, U),
         v.kind \notin {"array", "object"} => w = v,
         v.kind = "array" =>
           /\ w.kind = "array" /\ IsArray(w) /\ DOMAIN w.items = DOMAIN v.items
           /\ \A i \in DOMAIN v.items : v.items[i] \in U => <<v.items[i], w.items[i]>> \in R,
         v.kind = "object" =>
           /\ w.kind = "object" /\ DOMAIN w.members = DOMAIN OrderOf(v)
           /\ \A k \in DOMAIN OrderOf(v) :
                LET m == v.members[OrderOf(v)[k]]
                IN m[2] \in U => w.members[k][1] = m[1] /\ <<m[2], w.members[k][2]>> \in R
  PROVE  Alike(v, w, R)
<1>1. CASE v.kind \notin {"array", "object"}
  BY <1>1 DEF Alike, MadeOf
<1>2. CASE v.kind = "array"
  <2>1. IsArray(v) /\ \A i \in DOMAIN v.items : v.items[i] \in U
    BY <1>2, MadeOfItems
  <2>. QED BY <1>2, <2>1 DEF Alike
<1>3. CASE v.kind = "object"
  <2>. DEFINE g == OrderOf(v)
  <2>1. /\ \A k \in DOMAIN g : g[k] \in DOMAIN v.members
        /\ \A i \in DOMAIN v.members : \E k \in DOMAIN g : g[k] = i
        /\ \A k, l \in DOMAIN g : g[k] = g[l] => k = l
    BY <1>3, MembersInOrder
  <2>2. /\ \A i \in DOMAIN v.members : v.members[i][2] \in U
        /\ \A i, j \in DOMAIN v.members : v.members[i][1] = v.members[j][1] => i = j
    BY <1>3 DEF MadeOf
  <2>3. Rearranged(v, w, R, g)
    BY <1>3, <2>1, <2>2 DEF Rearranged
  <2>. HIDE DEF g
  <2>. QED BY <1>3, <2>2, <2>3 DEF Alike
<1>. QED BY <1>1, <1>2, <1>3

\* The innermost depth, whose parts are kept as they are.
LEMMA Depth1Alike ==
  ASSUME NEW U, NEW v \in U, Parts(U), NEW R, \A u \in U : <<u, u>> \in R
  PROVE  Alike(v, Depth1(v), R)
<1>. DEFINE w == Depth1(v)
<1>1. MadeOf(v, U)
  BY DEF Parts
<1>2. /\ v.kind \notin {"array", "object"} => w = v
      /\ v.kind = "array" => w = Arr([i \in DOMAIN v.items |-> v.items[i]])
      /\ v.kind = "object" => w = Obj([k \in DOMAIN OrderOf(v) |->
              <<v.members[OrderOf(v)[k]][1], v.members[OrderOf(v)[k]][2]>>])
  BY DEF Depth1, Normalized, AsIs, OrderOf
<1>. HIDE DEF w
<1>3. v.kind = "array" => /\ w.kind = "array" /\ IsArray(w)
                          /\ w.items = [i \in DOMAIN v.items |-> v.items[i]]
  BY <1>2, ItemsOfArray DEF IsArray
<1>4. v.kind = "object" => w.kind = "object" /\ DOMAIN w.members = DOMAIN OrderOf(v)
  BY <1>2 DEF Obj
<1>. QED BY <1>1, <1>2, <1>3, <1>4, InOrderAlike DEF w, Obj

\* The depth around it.
LEMMA Depth2Alike ==
  ASSUME NEW U, NEW v \in U, Parts(U), NEW R, \A u \in U : <<u, Depth1(u)>> \in R
  PROVE  Alike(v, Depth2(v), R)
<1>. DEFINE w == Depth2(v)
<1>1. MadeOf(v, U)
  BY DEF Parts
<1>2. /\ v.kind \notin {"array", "object"} => w = v
      /\ v.kind = "array" => w = Arr([i \in DOMAIN v.items |-> Depth1(v.items[i])])
      /\ v.kind = "object" => w = Obj([k \in DOMAIN OrderOf(v) |->
              <<v.members[OrderOf(v)[k]][1], Depth1(v.members[OrderOf(v)[k]][2])>>])
  BY DEF Depth2, Normalized, OrderOf
<1>. HIDE DEF w
<1>3. v.kind = "array" => /\ w.kind = "array" /\ IsArray(w)
                          /\ w.items = [i \in DOMAIN v.items |-> Depth1(v.items[i])]
  BY <1>2, ItemsOfArray DEF IsArray
<1>4. v.kind = "object" => w.kind = "object" /\ DOMAIN w.members = DOMAIN OrderOf(v)
  BY <1>2 DEF Obj
<1>. QED BY <1>1, <1>2, <1>3, <1>4, InOrderAlike DEF w, Obj

\* The outermost depth.
LEMMA StoredAlike ==
  ASSUME NEW U, NEW v \in U, Parts(U), NEW R, \A u \in U : <<u, Depth2(u)>> \in R
  PROVE  Alike(v, Stored(v), R)
<1>. DEFINE w == Stored(v)
<1>1. MadeOf(v, U)
  BY DEF Parts
<1>2. /\ v.kind \notin {"array", "object"} => w = v
      /\ v.kind = "array" => w = Arr([i \in DOMAIN v.items |-> Depth2(v.items[i])])
      /\ v.kind = "object" => w = Obj([k \in DOMAIN OrderOf(v) |->
              <<v.members[OrderOf(v)[k]][1], Depth2(v.members[OrderOf(v)[k]][2])>>])
  <2>1. w = Normalized(v, Depth2)
    BY StoredByDepth
  <2>. HIDE DEF w
  <2>. QED BY <2>1 DEF Normalized, OrderOf
<1>. HIDE DEF w
<1>3. v.kind = "array" => /\ w.kind = "array" /\ IsArray(w)
                          /\ w.items = [i \in DOMAIN v.items |-> Depth2(v.items[i])]
  BY <1>2, ItemsOfArray DEF IsArray
<1>4. v.kind = "object" => w.kind = "object" /\ DOMAIN w.members = DOMAIN OrderOf(v)
  BY <1>2 DEF Obj
<1>. QED BY <1>1, <1>2, <1>3, <1>4, InOrderAlike DEF w, Obj

\* A value is similar to itself, and to what Postgres keeps of it.
LEMMA SimilarStored ==
  ASSUME NEW v, IsValue(v)
  PROVE  Similar(v, v) /\ Similar(v, Stored(v))
<1>1. PICK U : v \in U /\ Parts(U)
  BY DEF IsValue
<1>. DEFINE R == {<<u, u>> : u \in U} \cup {<<u, Depth1(u)>> : u \in U}
                   \cup {<<u, Depth2(u)>> : u \in U} \cup {<<u, Stored(u)>> : u \in U}
<1>2. \A u \in U : /\ <<u, u>> \in R /\ <<u, Depth1(u)>> \in R
                   /\ <<u, Depth2(u)>> \in R /\ <<u, Stored(u)>> \in R
  OBVIOUS
<1>3. \A x, y : <<x, y>> \in R => x \in U /\ y \in {x, Depth1(x), Depth2(x), Stored(x)}
  OBVIOUS
<1>. HIDE DEF R
<1>4. ASSUME NEW u \in U
      PROVE  Alike(u, u, R)
  <2>1. MadeOf(u, U)
    BY <1>1 DEF Parts
  <2>2. CASE u.kind = "object"
    <3>1. /\ \A i \in DOMAIN u.members : u.members[i][2] \in U
          /\ \A i, j \in DOMAIN u.members : u.members[i][1] = u.members[j][1] => i = j
      BY <2>1, <2>2 DEF MadeOf
    <3>. QED BY <1>2, <2>2, <3>1, SameKeysAlike
  <2>3. CASE u.kind = "array"
    <3>1. IsArray(u) /\ \A i \in DOMAIN u.items : u.items[i] \in U
      BY <2>1, <2>3, MadeOfItems
    <3>. QED BY <1>2, <2>3, <3>1 DEF Alike
  <2>4. CASE u.kind \notin {"array", "object"}
    BY <2>1, <2>4 DEF Alike, MadeOf
  <2>. QED BY <2>2, <2>3, <2>4
<1>5. \A u \in U : Alike(u, Depth1(u), R) /\ Alike(u, Depth2(u), R) /\ Alike(u, Stored(u), R)
  BY <1>1, <1>2, Depth1Alike, Depth2Alike, StoredAlike
<1>6. AllAlike(R)
  BY <1>3, <1>4, <1>5 DEF AllAlike
<1>. QED BY <1>1, <1>2, <1>6 DEF Similar

\* Postgres keeps the kind of everything, and what has no parts as it is.
LEMMA KindsKept ==
  ASSUME NEW v
  PROVE  /\ Stored(v).kind = v.kind
         /\ v.kind \notin {"array", "object"} => Stored(v) = v
<1>. DEFINE w == Stored(v)
<1>1. /\ v.kind \notin {"array", "object"} => w = v
      /\ v.kind = "array" => w = Arr([i \in DOMAIN v.items |-> Depth2(v.items[i])])
      /\ v.kind = "object" => w = Obj([k \in DOMAIN OrderOf(v) |->
              <<v.members[OrderOf(v)[k]][1], Depth2(v.members[OrderOf(v)[k]][2])>>])
  <2>1. w = Normalized(v, Depth2)
    BY StoredByDepth
  <2>. HIDE DEF w
  <2>. QED BY <2>1 DEF Normalized, OrderOf
<1>. HIDE DEF w
<1>2. (v.kind = "array" => w.kind = "array") /\ (v.kind = "object" => w.kind = "object")
  BY <1>1 DEF Arr, Obj
<1>. QED BY <1>1, <1>2 DEF w

\* A value is something.
LEMMA ValueKinds ==
  ASSUME NEW v, IsValue(v)
  PROVE  v.kind \in Kind \ {"absent"}
BY DEF IsValue, Parts, MadeOf

-----------------------------------------------------------------------------
(* The context. *)

\* Entries of similar outputs are similar.
LEMMA SimilarEntries ==
  ASSUME NEW x, NEW y, Similar(x, y)
  PROVE  Similar(Entry(x), Entry(y))
<1>. DEFINE v == Entry(x)
            w == Entry(y)
            s == Str(<<"completed">>)
<1>1. Similar(s, s)
  <2>1. s.kind \in Kind \ {"array", "object"}
    BY DEF Str, Kind
  <2>. QED BY <2>1, PlainSimilar
<1>. HIDE DEF s
<1>2. /\ v.kind = "object" /\ w.kind = "object"
      /\ v.members = << <<"output", x>>, <<"status", s>> >>
      /\ w.members = << <<"output", y>>, <<"status", s>> >>
  BY DEF Entry, Obj, s
<1>. HIDE DEF v, w
<1>3. /\ DOMAIN v.members = 1..2 /\ DOMAIN w.members = 1..2
      /\ v.members[1] = <<"output", x>> /\ v.members[2] = <<"status", s>>
      /\ w.members[1] = <<"output", y>> /\ w.members[2] = <<"status", s>>
  BY <1>2
<1>4. \A k \in 1..2 : /\ v.members[k][1] = w.members[k][1]
                      /\ Similar(v.members[k][2], w.members[k][2])
  BY <1>1, <1>3
<1>5. \A i, j \in 1..2 : v.members[i][1] = v.members[j][1] => i = j
  BY <1>3
<1>6. Similar(v, w)
  BY <1>2, <1>3, <1>4, <1>5, SimilarObjects
<1>. QED BY <1>6 DEF v, w

Seen(n) == InOrder(1..n, [i \in 1..n |-> i])

\* The steps of a context are in order, each of them once.
LEMMA StepsSeen ==
  ASSUME NEW n \in Nat
  PROVE  /\ Seen(n) \in [1..n -> 1..n]
         /\ \A k, l \in 1..n : Seen(n)[k] = Seen(n)[l] => k = l
         /\ \A i \in 1..n : \E k \in 1..n : Seen(n)[k] = i
<1>. DEFINE S == 1..n
            rank == [i \in 1..n |-> i]
<1>1. IsFiniteSet(S) /\ Cardinality(S) = n
  BY FS_Interval
<1>2. Ranked(S, rank)
  BY <1>1 DEF Ranked
<1>3. Seen(n) = InOrder(S, rank)
  BY DEF Seen
<1>. HIDE DEF rank, S
<1>4. /\ Increasing(Seen(n), S, rank)
      /\ \A x \in S : \E k \in 1..Cardinality(S) : Seen(n)[k] = x
  BY <1>2, <1>3, InOrderIsIncreasing
<1>5. /\ Seen(n) \in [1..n -> S]
      /\ \A i, j \in 1..n : i < j => rank[Seen(n)[i]] < rank[Seen(n)[j]]
      /\ \A x \in S : \E k \in 1..n : Seen(n)[k] = x
  BY <1>1, <1>4 DEF Increasing
<1>6. /\ Seen(n) \in [1..n -> 1..n]
      /\ \A i, j \in 1..n : i < j => Seen(n)[i] < Seen(n)[j]
      /\ \A x \in 1..n : \E k \in 1..n : Seen(n)[k] = x
  BY <1>5 DEF S, rank
<1>7. ASSUME NEW k \in 1..n, NEW l \in 1..n, Seen(n)[k] = Seen(n)[l]
      PROVE  k = l
  <2>1. Seen(n)[k] \in 1..n
    BY <1>6
  <2>2. CASE k < l
    BY <1>6, <1>7, <2>1, <2>2
  <2>3. CASE l < k
    BY <1>6, <1>7, <2>1, <2>3
  <2>. QED BY <2>2, <2>3
<1>. QED BY <1>6, <1>7

Listed(outputs, n) ==
  Obj([k \in 1..n |-> <<PositionKey[Seen(n)[k]], Entry(outputs[Seen(n)[k]])>>])

Before(outputs, n) == IF n = 0 THEN Null ELSE Entry(outputs[n])

\* The members of a context: the trigger, the previous step, the steps.
LEMMA ContextShape ==
  ASSUME NEW outputs, NEW n \in Nat
  PROVE  LET ctx == Context(outputs, 1..n, n)
         IN /\ ctx.kind = "object"
            /\ DOMAIN ctx.members = 1..3
            /\ ctx.members[1] = <<"trigger", input>>
            /\ ctx.members[2] = <<"previous", Before(outputs, n)>>
            /\ ctx.members[3] = <<"steps", Listed(outputs, n)>>
<1>. DEFINE ctx == Context(outputs, 1..n, n)
<1>1. DOMAIN Seen(n) = 1..n
  BY StepsSeen
<1>2. ctx = Obj(<< <<"trigger", input>>, <<"previous", Before(outputs, n)>>,
                   <<"steps", Listed(outputs, n)>> >>)
  BY <1>1 DEF Context, Before, Listed, Seen
<1>. HIDE DEF ctx
<1>3. ctx.kind = "object"
      /\ ctx.members = << <<"trigger", input>>, <<"previous", Before(outputs, n)>>,
                          <<"steps", Listed(outputs, n)>> >>
  BY <1>2 DEF Obj
<1>. QED BY <1>3 DEF ctx

\* Contexts of similar outputs.
LEMMA SimilarContexts ==
  ASSUME NEW a, NEW b, NEW n \in Nat, 1..n \subseteq DOMAIN PositionKey, IsValue(input),
         \A i \in 1..n : Similar(a[i], b[i])
  PROVE  Similar(Context(a, 1..n, n), Context(b, 1..n, n))
<1>1. Similar(input, input)
  BY SimilarStored
<1>2. Similar(Before(a, n), Before(b, n))
  <2>1. CASE n = 0
    <3>1. Null.kind \in Kind \ {"array", "object"}
      BY DEF Null, Kind
    <3>. QED BY <2>1, <3>1, PlainSimilar DEF Before
  <2>2. CASE n # 0
    <3>1. Similar(Entry(a[n]), Entry(b[n]))
      BY <2>2, SimilarEntries
    <3>. QED BY <2>2, <3>1 DEF Before
  <2>. QED BY <2>1, <2>2
<1>3. Similar(Listed(a, n), Listed(b, n))
  <2>. DEFINE v == Listed(a, n)
              w == Listed(b, n)
  <2>1. /\ v.kind = "object" /\ w.kind = "object"
        /\ v.members = [k \in 1..n |-> <<PositionKey[Seen(n)[k]], Entry(a[Seen(n)[k]])>>]
        /\ w.members = [k \in 1..n |-> <<PositionKey[Seen(n)[k]], Entry(b[Seen(n)[k]])>>]
    BY DEF Listed, Obj
  <2>. HIDE DEF v, w
  <2>2. ASSUME NEW k \in 1..n
        PROVE  Similar(v.members[k][2], w.members[k][2])
    <3>1. Seen(n)[k] \in 1..n
      BY StepsSeen
    <3>2. Similar(Entry(a[Seen(n)[k]]), Entry(b[Seen(n)[k]]))
      BY <3>1, SimilarEntries
    <3>. QED BY <2>1, <3>2
  <2>3. ASSUME NEW k \in 1..n, NEW l \in 1..n, v.members[k][1] = v.members[l][1]
        PROVE  k = l
    <3>1. Seen(n)[k] \in DOMAIN PositionKey /\ Seen(n)[l] \in DOMAIN PositionKey
      BY StepsSeen
    <3>2. PositionKey[Seen(n)[k]] = PositionKey[Seen(n)[l]]
      BY <2>1, <2>3
    <3>3. Seen(n)[k] = Seen(n)[l]
      BY <3>1, <3>2, NamesAssumption
    <3>. QED BY <3>3, StepsSeen
  <2>4. Similar(v, w)
    <3>1. DOMAIN v.members = 1..n /\ DOMAIN w.members = 1..n
      BY <2>1
    <3>2. \A k \in 1..n : v.members[k][1] = w.members[k][1]
      BY <2>1
    <3>3. v.kind = "object" /\ w.kind = "object"
      BY <2>1
    <3>4. \A k \in DOMAIN v.members : /\ v.members[k][1] = w.members[k][1]
                                      /\ Similar(v.members[k][2], w.members[k][2])
      BY <2>2, <3>1, <3>2
    <3>5. \A k, l \in DOMAIN v.members : v.members[k][1] = v.members[l][1] => k = l
      BY <2>3, <3>1
    <3>6. DOMAIN v.members = DOMAIN w.members
      BY <3>1
    <3>. QED BY <3>3, <3>4, <3>5, <3>6, SimilarObjects
  <2>. QED BY <2>4 DEF v, w
<1>. DEFINE v == Context(a, 1..n, n)
            w == Context(b, 1..n, n)
<1>4. /\ v.kind = "object" /\ DOMAIN v.members = 1..3
      /\ v.members[1] = <<"trigger", input>>
      /\ v.members[2] = <<"previous", Before(a, n)>>
      /\ v.members[3] = <<"steps", Listed(a, n)>>
  BY ContextShape
<1>5. /\ w.kind = "object" /\ DOMAIN w.members = 1..3
      /\ w.members[1] = <<"trigger", input>>
      /\ w.members[2] = <<"previous", Before(b, n)>>
      /\ w.members[3] = <<"steps", Listed(b, n)>>
  BY ContextShape
<1>. HIDE DEF v, w
<1>6. ASSUME NEW k \in 1..3
      PROVE  v.members[k][1] = w.members[k][1] /\ Similar(v.members[k][2], w.members[k][2])
  <2>1. CASE k = 1
    BY <1>1, <1>4, <1>5, <2>1
  <2>2. CASE k = 2
    BY <1>2, <1>4, <1>5, <2>2
  <2>3. CASE k = 3
    BY <1>3, <1>4, <1>5, <2>3
  <2>. QED BY <2>1, <2>2, <2>3
<1>7. \A i, j \in 1..3 : v.members[i][1] = v.members[j][1] => i = j
  BY <1>4
<1>8. Similar(v, w)
  <2>1. /\ v.kind = "object" /\ w.kind = "object" /\ DOMAIN v.members = DOMAIN w.members
        /\ DOMAIN v.members = 1..3
    BY <1>4, <1>5
  <2>2. \A k \in DOMAIN v.members : /\ v.members[k][1] = w.members[k][1]
                                    /\ Similar(v.members[k][2], w.members[k][2])
    BY <1>6, <2>1
  <2>3. \A i, j \in DOMAIN v.members : v.members[i][1] = v.members[j][1] => i = j
    BY <1>7, <2>1
  <2>. QED BY <2>1, <2>2, <2>3, SimilarObjects
<1>. QED BY <1>8 DEF v, w

\* A member of an object is found under its key.
LEMMA MemberFound ==
  ASSUME NEW v, v.kind = "object", NEW p, p \notin DANGEROUS_KEYS,
         NEW k \in DOMAIN v.members, v.members[k][1] = p,
         \A i \in DOMAIN v.members : v.members[i][1] = p => i = k
  PROVE  Member(v, p) = v.members[k][2]
<1>. DEFINE own == {i \in DOMAIN v.members : v.members[i][1] = p}
<1>1. own = {k}
  OBVIOUS
<1>2. Member(v, p) = v.members[CHOOSE i \in own : TRUE][2]
  BY <1>1 DEF Member
<1>3. (CHOOSE i \in own : TRUE) = k
  <2>. HIDE DEF own
  <2>. QED BY <1>1
<1>. QED BY <1>2, <1>3

\* A path of five parts, walked to its end.
LEMMA FiveParts ==
  ASSUME NEW ctx, NEW path, IsPath(path), Len(path) = 5
  PROVE  ResolvePath(ctx, path)
           = Member(Member(Member(Member(Member(ctx, path[1]), path[2]), path[3]), path[4]), path[5])
<1>1. PICK w : Walk(w, ctx, path)
  BY PathWalk
<1>2. /\ w[0] = ctx /\ \A k \in 1..5 : w[k] = Member(w[k - 1], path[k])
      /\ ResolvePath(ctx, path) = w[5]
  BY <1>1 DEF Walk
<1>3. /\ w[1] = Member(w[0], path[1]) /\ w[2] = Member(w[1], path[2]) /\ w[3] = Member(w[2], path[3])
      /\ w[4] = Member(w[3], path[4]) /\ w[5] = Member(w[4], path[5])
  BY <1>2
<1>. QED BY <1>2, <1>3

\* The label of step j is read where the output of step j is.
LEMMA LabelRead ==
  ASSUME NEW outputs, NEW n \in Nat, NEW j \in 1..n, 1..n \subseteq DOMAIN PositionKey
  PROVE  ResolvePath(Context(outputs, 1..n, n), LabelOf(j))
           = Member(Member(outputs[j], "json"), "label")
<1>. DEFINE ctx == Context(outputs, 1..n, n)
            path == LabelOf(j)
            key == PositionKey[j]
<1>1. key \notin DANGEROUS_KEYS
  BY NamesAssumption
<1>2. /\ Len(path) = 5
      /\ path[1] = "steps" /\ path[2] = key /\ path[3] = "output"
      /\ path[4] = "json" /\ path[5] = "label"
  BY DEF LabelOf
<1>3. IsPath(path)
  BY DEF LabelOf, IsPath, Range
<1>4. Member(ctx, "steps") = Listed(outputs, n)
  <2>1. /\ ctx.kind = "object" /\ DOMAIN ctx.members = 1..3
        /\ ctx.members[1] = <<"trigger", input>>
        /\ ctx.members[2] = <<"previous", Before(outputs, n)>>
        /\ ctx.members[3] = <<"steps", Listed(outputs, n)>>
    BY ContextShape
  <2>. HIDE DEF ctx
  <2>2. "steps" \notin DANGEROUS_KEYS
    BY DEF DANGEROUS_KEYS
  <2>3. \A i \in 1..3 : ctx.members[i][1] = "steps" => i = 3
    BY <2>1
  <2>. QED BY <2>1, <2>2, <2>3, MemberFound
<1>5. Member(Listed(outputs, n), key) = Entry(outputs[j])
  <2>. DEFINE v == Listed(outputs, n)
  <2>1. /\ v.kind = "object"
        /\ v.members = [k \in 1..n |-> <<PositionKey[Seen(n)[k]], Entry(outputs[Seen(n)[k]])>>]
    BY DEF Listed, Obj
  <2>. HIDE DEF v
  <2>2. PICK k \in 1..n : Seen(n)[k] = j
    BY StepsSeen
  <2>3. v.members[k] = <<key, Entry(outputs[j])>> /\ DOMAIN v.members = 1..n
    BY <2>1, <2>2
  <2>4. ASSUME NEW i \in 1..n, v.members[i][1] = key
        PROVE  i = k
    <3>1. Seen(n)[i] \in DOMAIN PositionKey /\ j \in DOMAIN PositionKey
      BY StepsSeen
    <3>2. PositionKey[Seen(n)[i]] = PositionKey[j]
      BY <2>1, <2>4
    <3>3. Seen(n)[i] = Seen(n)[k]
      BY <2>2, <3>1, <3>2, NamesAssumption
    <3>. QED BY <3>3, StepsSeen
  <2>. HIDE DEF key
  <2>5. Member(v, key) = v.members[k][2]
    <3>1. k \in DOMAIN v.members /\ v.members[k][1] = key
      BY <2>3
    <3>2. \A i \in DOMAIN v.members : v.members[i][1] = key => i = k
      BY <2>3, <2>4
    <3>3. v.kind = "object"
      BY <2>1
    <3>. QED BY <1>1, <3>1, <3>2, <3>3, MemberFound
  <2>. QED BY <2>3, <2>5 DEF v
<1>6. Member(Entry(outputs[j]), "output") = outputs[j]
  <2>. DEFINE v == Entry(outputs[j])
  <2>1. /\ v.kind = "object"
        /\ v.members = << <<"output", outputs[j]>>, <<"status", Str(<<"completed">>)>> >>
    BY DEF Entry, Obj
  <2>. HIDE DEF v
  <2>2. /\ DOMAIN v.members = 1..2 /\ v.members[1] = <<"output", outputs[j]>>
        /\ v.members[2][1] = "status"
    BY <2>1
  <2>3. "output" \notin DANGEROUS_KEYS /\ 1 \in DOMAIN v.members /\ v.members[1][1] = "output"
    BY <2>2 DEF DANGEROUS_KEYS
  <2>4. \A i \in DOMAIN v.members : v.members[i][1] = "output" => i = 1
    BY <2>2
  <2>5. Member(v, "output") = v.members[1][2]
    BY <2>1, <2>3, <2>4, MemberFound
  <2>. QED BY <2>2, <2>5 DEF v
<1>. HIDE DEF ctx, path, key
<1>7. ResolvePath(ctx, path)
        = Member(Member(Member(Member(Member(ctx, path[1]), path[2]), path[3]), path[4]), path[5])
  BY <1>2, <1>3, FiveParts
<1>8. ResolvePath(ctx, path) = Member(Member(outputs[j], "json"), "label")
  BY <1>2, <1>4, <1>5, <1>6, <1>7
<1>. QED BY <1>8 DEF ctx, path

-----------------------------------------------------------------------------
(* What the steps hand on. *)

\* What a completed step returned, and what is left of it.
HandedOn(i, out) ==
  /\ IsValue(out)
  /\ row[i].output = Stored(out)
  /\ memory[i] \in {out, Stored(out)}
  /\ steps[i].type = "db_write" => steps[i].key \in Key
  /\ (steps[i].type = "llm_call" /\ steps[i].parse_json /\ said[i].form # "several") =>
       ~ said[i].cut /\ Member(out, "json") = said[i].json

BodiesInv ==
  /\ steps \in Programs /\ input \in Inputs /\ hasKey \in BOOLEAN
  /\ ProgressInv
  /\ pc \in {"body", "waiting", "reading", "over"}
  /\ \A i \in Steps : /\ row[i].status \in {"absent", "completed", "failed", "skipped"}
                      /\ i >= at => row[i].output = Null
                      /\ i < at => \E out : HandedOn(i, out)
  /\ DOMAIN written = Key /\ \A k \in Key : written[k].kind \in Kind

\* What a step leaves alone outside of itself.
Frame ==
  /\ UNCHANGED chosen
  /\ DOMAIN said' = Steps /\ \A i \in Steps : i # at => said'[i] = said[i]
  /\ \/ written' = written
     \/ \E v : /\ v.kind \in Kind /\ Step.type = "db_write" /\ Step.key \in Key
               /\ written' = [written EXCEPT ![Step.key] = v]

\* What a step returns is as the steps after it rely on.
Fits(out) ==
  /\ IsValue(out)
  /\ Step.type = "db_write" =>
       /\ Step.key \in Key
       /\ ResolveTemplate(Step.value, LiveContext) # Null
       /\ written'[Step.key] = Stored(ResolveTemplate(Step.value, LiveContext))
  /\ (Step.type = "llm_call" /\ Step.parse_json /\ said'[at].form # "several") =>
       ~ said'[at].cut /\ Member(out, "json") = said'[at].json
  /\ Step.type = "conditional_branch" =>
       Member(Stored(out), "matched") = Bool(Matches(LiveContext))

\* What a step may do.
Does ==
  \/ \E cause, permanent : Throw(cause, permanent)
  \/ \E out : Return(out) /\ Fits(out)
  \/ UNCHANGED <<row, context, at>> /\ pc' \in {"waiting", "reading"}
  \/ Resume

\* Most actions neither write nor let a model speak.
LEMMA NoneInFrame ==
  ASSUME ProgressInv, UNCHANGED <<chosen, written, said>>
  PROVE  Frame
BY DEF Frame, ProgressInv

-----------------------------------------------------------------------------
(* The outputs. *)

\* The outputs of db_write and of a branch, one flag under one key.
LEMMA FlagValue ==
  ASSUME NEW key \in DOMAIN KeyRank \ DANGEROUS_KEYS, NEW b
  PROVE  LET out == Obj(<< <<key, Bool(b)>> >>)
         IN IsValue(out) /\ Member(Stored(out), key) = Bool(b)
<1>. DEFINE flag == Bool(b)
            members == << <<key, flag>> >>
            out == Obj(members)
<1>1. flag.kind = "boolean"
  BY DEF Bool
<1>. HIDE DEF flag
<1>2. /\ members \in Seq((DOMAIN KeyRank) \X ({} \cup {flag}))
      /\ DOMAIN members = {1} /\ members[1] = <<key, flag>>
  OBVIOUS
<1>3. out.kind = "object" /\ out.members = members
  BY DEF Obj
<1>. HIDE DEF members
<1>4. IsValue(flag)
  BY <1>1, PlainValues DEF PlainKind
<1>5. IsValue(out)
  BY <1>2, <1>4, BuiltValue
<1>. HIDE DEF out
<1>6. Member(out, key) = flag
  BY <1>2, <1>3, MemberFound
<1>7. Similar(flag, Member(Stored(out), key))
  <2>1. Similar(out, Stored(out))
    BY <1>5, SimilarStored
  <2>2. Similar(Member(out, key), Member(Stored(out), key))
    BY <2>1, SimilarPart
  <2>. QED BY <1>6, <2>2
<1>8. Member(Stored(out), key) = flag
  BY <1>1, <1>7, SimilarKinds
<1>. QED BY <1>5, <1>8 DEF flag, members, out

\* The output of llm_call, in which the answer is found again.
LEMMA LlmOutputValue ==
  ASSUME NEW text, text.kind = "string", NEW json, IsValue(json), NEW stubbed
  PROVE  /\ IsValue(LlmOutput(text, json, stubbed))
         /\ Member(LlmOutput(text, json, stubbed), "json") = json
<1>. DEFINE flag == Bool(stubbed)
            members == << <<"text", text>>, <<"json", json>>, <<"stubbed", flag>> >>
            out == Obj(members)
            P == {text, flag}
<1>1. flag.kind = "boolean"
  BY DEF Bool
<1>. HIDE DEF flag
<1>2. \A u \in P : u.kind \in PlainKind
  BY <1>1 DEF PlainKind
<1>3. /\ members \in Seq((DOMAIN KeyRank) \X (P \cup {json}))
      /\ DOMAIN members = 1..3
      /\ members[1] = <<"text", text>> /\ members[2] = <<"json", json>> /\ members[3] = <<"stubbed", flag>>
  BY NamesAssumption
<1>4. out.kind = "object" /\ out.members = members
  BY DEF Obj
<1>. HIDE DEF members, P
<1>5. \A i, j \in DOMAIN members : members[i][1] = members[j][1] => i = j
  BY <1>3
<1>6. IsValue(out)
  BY <1>2, <1>3, <1>5, BuiltValue
<1>. HIDE DEF out
<1>7. Member(out, "json") = json
  <2>1. "json" \notin DANGEROUS_KEYS
    BY DEF DANGEROUS_KEYS
  <2>2. 2 \in DOMAIN out.members /\ out.members[2] = <<"json", json>>
    BY <1>3, <1>4
  <2>3. \A i \in DOMAIN out.members : out.members[i][1] = "json" => i = 2
    BY <1>3, <1>4
  <2>. QED BY <1>4, <2>1, <2>2, <2>3, MemberFound
<1>8. out = LlmOutput(text, json, stubbed)
  BY DEF LlmOutput, out, members, flag
<1>. QED BY <1>6, <1>7, <1>8

\* The output of http_request.
LEMMA HttpOutputValue ==
  ASSUME NEW body \in Bodies
  PROVE  IsValue(HttpOutput(body))
<1>. DEFINE json == body.json
            code == Num(status)
            flag == Bool(TRUE)
            members == << <<"status", code>>, <<"ok", flag>>, <<"json", json>> >>
            out == Obj(members)
            P == {code, flag}
<1>1. flag.kind = "boolean" /\ code.kind = "number"
  BY DEF Bool, Num
<1>2. IsValue(json)
  BY BodiesAssumption, GivenValues
<1>. HIDE DEF flag, code, json
<1>3. \A u \in P : u.kind \in PlainKind
  BY <1>1 DEF PlainKind
<1>4. /\ members \in Seq((DOMAIN KeyRank) \X (P \cup {json}))
      /\ DOMAIN members = 1..3
      /\ members[1][1] = "status" /\ members[2][1] = "ok" /\ members[3][1] = "json"
  BY NamesAssumption
<1>. HIDE DEF members, P
<1>5. \A i, j \in DOMAIN members : members[i][1] = members[j][1] => i = j
  BY <1>4
<1>6. IsValue(out)
  BY <1>2, <1>3, <1>4, <1>5, BuiltValue
<1>7. out = HttpOutput(body)
  BY DEF HttpOutput, members, flag, code, json
<1>. QED BY <1>6, <1>7

\* The answer that llm_call makes up without a key.
LEMMA StubValue == IsValue(stubCompletion)
<1>. DEFINE word == IF \E i \in DOMAIN LowerCase(Prompt) : LowerCase(Prompt)[i] \in UrgentSignals
                    THEN "needs_approval" ELSE "auto_resolve"
            label == Str(<<word>>)
            members == << <<"label", label>> >>
            out == Obj(members)
<1>1. label.kind = "string"
  BY DEF Str
<1>2. out = stubCompletion
  BY DEF stubCompletion
<1>. HIDE DEF label
<1>3. members \in Seq((DOMAIN KeyRank) \X ({} \cup {label})) /\ DOMAIN members = {1}
  BY NamesAssumption
<1>4. IsValue(label)
  BY <1>1, PlainValues DEF PlainKind
<1>. HIDE DEF members
<1>5. IsValue(out)
  BY <1>3, <1>4, BuiltValue
<1>. QED BY <1>2, <1>5

-----------------------------------------------------------------------------
(* Each action is one of the things a step may do. *)

\* The model says something, and it is returned.
LEMMA ModelReturnedDoes ==
  ASSUME ProgressInv, UNCHANGED <<chosen, written>>, at \in Steps, Step.type = "llm_call",
         NEW text, text.kind = "string", NEW json, IsValue(json), NEW stubbed,
         Return(LlmOutput(text, json, stubbed)),
         NEW answer, said' = [said EXCEPT ![at] = answer],
         Step.parse_json /\ answer.form # "several" => ~ answer.cut /\ json = answer.json
  PROVE  Frame /\ Does
<1>. DEFINE out == LlmOutput(text, json, stubbed)
<1>1. IsValue(out) /\ Member(out, "json") = json
  BY LlmOutputValue
<1>. HIDE DEF out
<1>2. DOMAIN said = Steps
  BY DEF ProgressInv
<1>3. /\ said'[at] = answer /\ DOMAIN said' = Steps
      /\ \A i \in Steps : i # at => said'[i] = said[i]
  BY <1>2
<1>4. Fits(out)
  BY <1>1, <1>3 DEF Fits
<1>5. Return(out)
  BY DEF out
<1>. QED BY <1>3, <1>4, <1>5 DEF Frame, Does

\* llm_call refuses its configuration, answers itself, or asks.
LEMMA ModelCalledDoes ==
  ASSUME ProgressInv, executeLlmCall
  PROVE  Frame /\ Does
<1>1. /\ UNCHANGED <<chosen, written>> /\ at \in Steps /\ Step.type = "llm_call"
  BY DEF executeLlmCall
<1>. DEFINE text == Str(Stringify(stubCompletion))
            answer == [form |-> "bare", cut |-> FALSE, json |-> stubCompletion]
<1>2. \/ UNCHANGED said /\ \E cause, permanent : Throw(cause, permanent)
      \/ UNCHANGED said /\ UNCHANGED <<row, context, at>> /\ pc' = "waiting"
      \/ Return(LlmOutput(text, stubCompletion, TRUE)) /\ said' = [said EXCEPT ![at] = answer]
  BY DEF executeLlmCall, Send
<1>3. text.kind = "string"
  BY DEF Str
<1>4. ~ answer.cut /\ stubCompletion = answer.json
  OBVIOUS
<1>. HIDE DEF text, answer
<1>5. CASE UNCHANGED said /\ \E cause, permanent : Throw(cause, permanent)
  BY <1>1, <1>5, NoneInFrame DEF Does
<1>6. CASE UNCHANGED said /\ UNCHANGED <<row, context, at>> /\ pc' = "waiting"
  BY <1>1, <1>6, NoneInFrame DEF Does
<1>7. CASE Return(LlmOutput(text, stubCompletion, TRUE)) /\ said' = [said EXCEPT ![at] = answer]
  BY <1>1, <1>3, <1>4, <1>7, StubValue, ModelReturnedDoes
<1>. QED BY <1>2, <1>5, <1>6, <1>7

\* What it returns is what the model said, in a completion that was not cut off.
LEMMA ModelAnsweredDoes ==
  ASSUME ProgressInv, RetryInv, LlmAnswer
  PROVE  Frame /\ Does
<1>1. /\ UNCHANGED <<chosen, written>> /\ at \in Steps /\ Step.type = "llm_call"
  BY DEF LlmAnswer, RetryInv
<1>2. \/ UNCHANGED said /\ \E cause, permanent : Throw(cause, permanent)
      \/ \E completion \in Completions : ReadCompletion(completion)
  BY DEF LlmAnswer
<1>3. CASE UNCHANGED said /\ \E cause, permanent : Throw(cause, permanent)
  BY <1>1, <1>3, NoneInFrame DEF Does
<1>4. ASSUME NEW completion \in Completions, ReadCompletion(completion)
      PROVE  Frame /\ Does
  <2>. DEFINE text == Str(<<completion.form>>)
              json == IF Step.parse_json THEN extractJson(completion) ELSE Null
  <2>1. /\ said' = [said EXCEPT ![at] = completion]
        /\ \/ \E cause, permanent : Throw(cause, permanent)
           \/ Unusable(completion) = None /\ Return(LlmOutput(text, json, FALSE))
    BY <1>4 DEF ReadCompletion
  <2>2. CASE \E cause, permanent : Throw(cause, permanent)
    <3>1. DOMAIN said = Steps
      BY DEF ProgressInv
    <3>2. DOMAIN said' = Steps /\ \A i \in Steps : i # at => said'[i] = said[i]
      BY <2>1, <3>1
    <3>. QED BY <1>1, <2>2, <3>2 DEF Frame, Does
  <2>3. CASE Unusable(completion) = None /\ Return(LlmOutput(text, json, FALSE))
    <3>1. ~ completion.cut
      BY <2>3, NoneAssumption DEF Unusable
    <3>2. Step.parse_json /\ completion.form # "several" => json = completion.json
      BY CompletionsAssumption DEF extractJson
    <3>3. IsValue(json)
      <4>1. IsValue(completion.json)
        BY CompletionsAssumption, GivenValues
      <4>2. IsValue(Null)
        BY PlainValues DEF Null, PlainKind
      <4>. QED BY <4>1, <4>2 DEF extractJson
    <3>4. text.kind = "string"
      BY DEF Str
    <3>. HIDE DEF text, json
    <3>. QED BY <1>1, <2>1, <2>3, <3>1, <3>2, <3>3, <3>4, ModelReturnedDoes
  <2>. QED BY <2>1, <2>2, <2>3
<1>. QED BY <1>2, <1>3, <1>4

\* An address is refused or requested.
LEMMA AddressCheckedDoes ==
  ASSUME NEW u, NEW first, assertUrlAllowed(u, first)
  PROVE  Does
<1>1. CASE u \in Malformed \cup Blocked
  BY <1>1 DEF assertUrlAllowed, Does
<1>2. CASE u \notin Malformed \cup Blocked
  BY <1>2 DEF assertUrlAllowed, Send, Does
<1>. QED BY <1>1, <1>2

\* http_request asks, at first and after a redirect.
LEMMA ServerAskedDoes ==
  ASSUME ProgressInv, executeHttpRequest \/ FollowRedirect
  PROVE  Frame /\ Does
<1>1. UNCHANGED <<chosen, written, said>>
  BY DEF executeHttpRequest, FollowRedirect
<1>2. \/ \E u, first : assertUrlAllowed(u, first)
      \/ \E cause, permanent : Throw(cause, permanent)
  BY DEF executeHttpRequest, FollowRedirect
<1>3. Does
  <2>1. CASE \E u, first : assertUrlAllowed(u, first)
    BY <2>1, AddressCheckedDoes
  <2>2. CASE \E cause, permanent : Throw(cause, permanent)
    BY <2>2 DEF Does
  <2>. QED BY <1>2, <2>1, <2>2
<1>. QED BY <1>1, <1>3, NoneInFrame

\* The answer is returned or refused.
LEMMA ServerAnsweredDoes ==
  ASSUME ProgressInv, HttpAnswer
  PROVE  Frame /\ Does
<1>1. UNCHANGED <<chosen, written, said>> /\ Step.type = "http_request"
  BY DEF HttpAnswer
<1>2. PICK body \in Bodies :
        CASE body.form = "oversized" -> Throw(Fault("oversized"), TRUE)
          [] body.form = "broken" -> Throw(Fault("network"), FALSE)
          [] body.form = "unparseable" /\ Accepted(status) -> Throw(Fault("unparseable"), FALSE)
          [] body.form \notin {"oversized", "broken"} /\ ~ Accepted(status) ->
               Throw(Answered(status), PermanentStatus(status))
          [] body.form = "whole" /\ Accepted(status) -> Return(HttpOutput(body))
  BY DEF HttpAnswer
<1>3. body.form \in {"whole", "unparseable", "oversized", "broken"}
  BY BodiesAssumption
<1>4. \/ \E cause, permanent : Throw(cause, permanent)
      \/ Return(HttpOutput(body))
  BY <1>2, <1>3
<1>5. CASE Return(HttpOutput(body))
  <2>1. Fits(HttpOutput(body))
    BY <1>1, HttpOutputValue DEF Fits
  <2>. QED BY <1>1, <1>5, <2>1, NoneInFrame DEF Does
<1>6. CASE \E cause, permanent : Throw(cause, permanent)
  BY <1>1, <1>6, NoneInFrame DEF Does
<1>. QED BY <1>4, <1>5, <1>6

\* Headers arrive, or the timer runs out.
LEMMA OutsideAnsweredDoes ==
  ASSUME ProgressInv, ReceiveHeaders \/ TimeOut
  PROVE  Frame /\ Does
<1>1. UNCHANGED <<chosen, written, said>>
  BY DEF ReceiveHeaders, TimeOut
<1>2. \/ UNCHANGED <<row, context, at>> /\ pc' \in {"waiting", "reading"}
      \/ \E cause, permanent : Throw(cause, permanent)
  BY DEF ReceiveHeaders, TimeOut, Headers
<1>. QED BY <1>1, <1>2, NoneInFrame DEF Does

\* db_write returns only what it wrote, and never null.
LEMMA DbWriteDoes ==
  ASSUME ProgressInv, executeDbWrite, DOMAIN written = Key,
         ResolveTemplate(Step.value, LiveContext).kind \in Kind
  PROVE  Frame /\ Does
<1>. DEFINE value == ResolveTemplate(Step.value, LiveContext)
            out == Obj(<< <<"written", Bool(TRUE)>> >>)
<1>1. UNCHANGED <<chosen, said>> /\ Step.type = "db_write"
  BY DEF executeDbWrite
<1>2. \/ UNCHANGED written /\ \E cause, permanent : Throw(cause, permanent)
      \/ /\ Step.key \in Key /\ value # Null
         /\ written' = [written EXCEPT ![Step.key] = Stored(value)]
         /\ (\E cause, permanent : Throw(cause, permanent)) \/ Return(out)
  BY DEF executeDbWrite
<1>3. CASE UNCHANGED written /\ \E cause, permanent : Throw(cause, permanent)
  BY <1>1, <1>3, NoneInFrame DEF Does
<1>4. CASE /\ Step.key \in Key /\ value # Null
           /\ written' = [written EXCEPT ![Step.key] = Stored(value)]
           /\ (\E cause, permanent : Throw(cause, permanent)) \/ Return(out)
  <2>1. Stored(value).kind \in Kind
    BY KindsKept
  <2>2. IsValue(out)
    <3>1. "written" \in DOMAIN KeyRank \ DANGEROUS_KEYS
      BY NamesAssumption DEF DANGEROUS_KEYS
    <3>. QED BY <3>1, FlagValue
  <2>. HIDE DEF value, out
  <2>3. Frame
    BY <1>1, <1>4, <2>1 DEF Frame, ProgressInv
  <2>4. written'[Step.key] = Stored(value)
    BY <1>4
  <2>5. Fits(out)
    BY <1>1, <1>4, <2>2, <2>4 DEF Fits, value
  <2>. QED BY <1>4, <2>3, <2>5 DEF Does
<1>. QED BY <1>2, <1>3, <1>4

\* A branch returns what it decided.
LEMMA BranchDoes ==
  ASSUME ProgressInv, Branch
  PROVE  Frame /\ Does
<1>. DEFINE out == Obj(<< <<"matched", Bool(Matches(LiveContext))>> >>)
<1>1. /\ UNCHANGED <<chosen, written, said>> /\ Step.type = "conditional_branch"
      /\ Return(out)
  BY DEF Branch
<1>2. IsValue(out) /\ Member(Stored(out), "matched") = Bool(Matches(LiveContext))
  <2>1. "matched" \in DOMAIN KeyRank \ DANGEROUS_KEYS
    BY NamesAssumption DEF DANGEROUS_KEYS
  <2>. QED BY <2>1, FlagValue
<1>. HIDE DEF out
<1>3. Fits(out)
  BY <1>1, <1>2 DEF Fits
<1>. QED BY <1>1, <1>3, NoneInFrame DEF Does

\* A gate hands on nothing.
LEMMA ResumeDoes ==
  ASSUME ProgressInv, Resume
  PROVE  Frame /\ Does
BY NoneInFrame DEF Resume, Does

-----------------------------------------------------------------------------
(* What a step sees. *)

\* The latest of the first n steps.
LEMMA LatestStep ==
  ASSUME NEW n \in Nat
  PROVE  Latest(1..n) = n
<1>1. CASE n = 0
  BY <1>1 DEF Latest
<1>2. CASE n # 0
  <2>1. \E i \in 1..n : \A j \in 1..n : j <= i
    BY <1>2
  <2>2. \A i \in 1..n : (\A j \in 1..n : j <= i) => i = n
    BY <1>2
  <2>3. 1..n # {}
    BY <1>2
  <2>. DEFINE i == CHOOSE i \in 1..n : \A j \in 1..n : j <= i
  <2>4. i \in 1..n /\ \A j \in 1..n : j <= i
    BY <2>1
  <2>5. Latest(1..n) = i
    BY <2>3 DEF Latest
  <2>. HIDE DEF i
  <2>. QED BY <2>2, <2>4, <2>5
<1>. QED BY <1>1, <1>2

\* How far the run is, said of the sets that the contexts are made from.
LEMMA Progress ==
  ASSUME RetryInv, BodiesInv
  PROVE  /\ Steps = 1..Len(steps) /\ Len(steps) \in Nat
         /\ at \in 1..(Len(steps) + 1) /\ previous = at - 1
         /\ 1..(at - 1) \subseteq Steps /\ 1..(at - 1) \subseteq DOMAIN PositionKey
         /\ Completed = 1..(at - 1) /\ Latest(Completed) = at - 1
         /\ {i \in Steps : memory[i] # Absent} = 1..(at - 1)
<1>1. Steps = 1..Len(steps) /\ Len(steps) \in Nat
  BY StepsAreNumbered
<1>2. at \in 1..(Len(steps) + 1) /\ previous = at - 1
  BY DEF BodiesInv, ProgressInv
<1>3. 1..(at - 1) \subseteq Steps
  BY <1>1, <1>2
<1>4. Steps \subseteq DOMAIN PositionKey
  BY NamesAssumption DEF BodiesInv, Steps
<1>5. \A i \in Steps : i < at <=> i \in 1..(at - 1)
  BY <1>1, <1>2
<1>6. Completed = 1..(at - 1)
  BY <1>3, <1>5 DEF BodiesInv, ProgressInv, Completed
<1>7. {i \in Steps : memory[i] # Absent} = 1..(at - 1)
  <2>1. \A i \in Steps : memory[i] # Absent <=> i < at
    BY <1>1, <1>2 DEF BodiesInv, ProgressInv
  <2>. QED BY <1>3, <1>5, <2>1
<1>8. Latest(1..(at - 1)) = at - 1
  BY <1>2, LatestStep
<1>. QED BY <1>1, <1>2, <1>3, <1>4, <1>6, <1>7, <1>8

\* The input is a value.
LEMMA InputIsValue ==
  ASSUME BodiesInv
  PROVE  IsValue(input)
BY InputsAssumption, GivenValues DEF BodiesInv

\* The contexts of a process that ran the steps, and of one that loaded them.
LEMMA ContextsAgree ==
  ASSUME RetryInv, BodiesInv
  PROVE  /\ LiveContext = Context(memory, 1..(at - 1), at - 1)
         /\ Similar(LiveContext, buildContext)
<1>. DEFINE n == at - 1
            outputs == [i \in Steps |-> row[i].output]
<1>1. n \in Nat /\ 1..n \subseteq DOMAIN PositionKey /\ 1..n \subseteq Steps
  BY Progress
<1>2. LiveContext = Context(memory, 1..n, n)
  BY Progress DEF LiveContext
<1>3. buildContext = Context(outputs, 1..n, n)
  BY Progress DEF buildContext
<1>4. ASSUME NEW i \in 1..n
      PROVE  Similar(memory[i], outputs[i])
  <2>1. i \in Steps /\ i < at
    BY <1>1, Progress
  <2>2. PICK out : HandedOn(i, out)
    BY <2>1 DEF BodiesInv
  <2>3. Similar(out, Stored(out))
    BY <2>2, SimilarStored DEF HandedOn
  <2>4. Similar(Stored(out), Stored(out))
    BY <2>3, SimilarSelf
  <2>5. outputs[i] = Stored(out) /\ memory[i] \in {out, Stored(out)}
    BY <2>1, <2>2 DEF HandedOn
  <2>. QED BY <2>3, <2>4, <2>5
<1>5. IsValue(input)
  BY InputIsValue
<1>. HIDE DEF outputs, n
<1>6. Similar(Context(memory, 1..n, n), Context(outputs, 1..n, n))
  BY <1>1, <1>4, <1>5, SimilarContexts
<1>. QED BY <1>2, <1>3, <1>6 DEF n

\* Whatever a step reads has a kind.
LEMMA ReadHasKind ==
  ASSUME RetryInv, BodiesInv, NEW path, IsPath(path)
  PROVE  ResolvePath(LiveContext, path).kind \in Kind
<1>1. Similar(ResolvePath(LiveContext, path), ResolvePath(buildContext, path))
  BY ContextsAgree, SimilarRead
<1>. QED BY <1>1, SimilarKinds

\* What db_write is given has a kind, whatever its template.
LEMMA TemplateHasKind ==
  ASSUME RetryInv, BodiesInv, at \in Steps, Step.type = "db_write"
  PROVE  ResolveTemplate(Step.value, LiveContext).kind \in Kind
<1>. DEFINE template == Step.value
            read == ResolvePath(LiveContext, template.path)
<1>1. IsTemplate(template)
  BY ProgramsAssumption DEF BodiesInv, Steps, Step
<1>. HIDE DEF template
<1>2. CASE template.form = "constant" /\ template.value \in Value
  <2>1. IsValue(template.value)
    BY <1>2, GivenValues
  <2>2. template.value.kind \in Kind
    BY <2>1, ValueKinds
  <2>. QED BY <1>2, <2>2 DEF ResolveTemplate, template
<1>3. CASE template.form = "whole" /\ IsPath(template.path)
  <2>1. read.kind \in Kind
    BY <1>3, ReadHasKind
  <2>2. Null.kind \in Kind
    BY DEF Null, Kind
  <2>. HIDE DEF read
  <2>3. ResolveTemplate(template, LiveContext) = IF read = Absent THEN Null ELSE read
    BY <1>3 DEF ResolveTemplate, read
  <2>. QED BY <2>1, <2>2, <2>3 DEF template
<1>4. CASE template.form = "inline"
  <2>1. ResolveTemplate(template, LiveContext) = Str(template.before \o AsString(read))
    BY <1>4 DEF ResolveTemplate
  <2>2. ResolveTemplate(template, LiveContext).kind = "string"
    BY <2>1 DEF Str
  <2>. QED BY <2>2 DEF Kind, template
<1>. QED BY <1>1, <1>2, <1>3, <1>4 DEF IsTemplate

\* What a step reads as the label of a model is what the model said.
LEMMA LabelSeen ==
  ASSUME RetryInv, BodiesInv, NEW j \in 1..(at - 1),
         steps[j].type = "llm_call", steps[j].parse_json, said[j].form # "several"
  PROVE  LET label == Member(said[j].json, "label")
         IN /\ ~ said[j].cut
            /\ label.kind \notin {"object", "array"} => ResolvePath(LiveContext, LabelOf(j)) = label
<1>. DEFINE label == Member(said[j].json, "label")
            read == ResolvePath(LiveContext, LabelOf(j))
<1>1. j \in Steps /\ j < at /\ at - 1 \in Nat /\ 1..(at - 1) \subseteq DOMAIN PositionKey
  BY Progress
<1>2. PICK out : HandedOn(j, out)
  BY <1>1 DEF BodiesInv
<1>3. /\ ~ said[j].cut /\ Member(out, "json") = said[j].json
      /\ IsValue(out) /\ memory[j] \in {out, Stored(out)}
  BY <1>2 DEF HandedOn
<1>4. Similar(out, memory[j])
  BY <1>3, SimilarStored
<1>5. Similar(Member(out, "json"), Member(memory[j], "json"))
  BY <1>4, SimilarPart
<1>6. Similar(Member(Member(out, "json"), "label"), Member(Member(memory[j], "json"), "label"))
  BY <1>5, SimilarPart
<1>7. read = Member(Member(memory[j], "json"), "label")
  BY <1>1, ContextsAgree, LabelRead
<1>8. Similar(label, read)
  BY <1>3, <1>6, <1>7
<1>. HIDE DEF label, read
<1>9. label.kind \notin {"object", "array"} => read = label
  BY <1>8, SimilarKinds
<1>. QED BY <1>3, <1>9 DEF label, read

-----------------------------------------------------------------------------
(* What each of them leaves. *)

\* What was handed on stays so.
LEMMA FrameKeeps ==
  ASSUME BodiesInv, Frame
  PROVE  /\ steps' = steps /\ Steps' = Steps
         /\ steps' \in Programs /\ input' \in Inputs /\ hasKey' \in BOOLEAN
         /\ DOMAIN said' = Steps
         /\ DOMAIN written' = Key /\ \A k \in Key : written'[k].kind \in Kind
         /\ \A i \in Steps : \A out :
              /\ i < at /\ HandedOn(i, out)
              /\ row'[i].output = row[i].output /\ memory'[i] \in {memory[i], row[i].output}
              => HandedOn(i, out)'
<1>1. /\ steps' = steps /\ Steps' = Steps
      /\ steps' \in Programs /\ input' \in Inputs /\ hasKey' \in BOOLEAN
      /\ DOMAIN said' = Steps
  BY DEF BodiesInv, Frame, chosen, Steps
<1>2. DOMAIN written' = Key /\ \A k \in Key : written'[k].kind \in Kind
  BY DEF BodiesInv, Frame
<1>3. ASSUME NEW i \in Steps, NEW out, i < at, HandedOn(i, out),
             row'[i].output = row[i].output, memory'[i] \in {memory[i], row[i].output}
      PROVE  HandedOn(i, out)'
  <2>1. i # at
    BY <1>3 DEF BodiesInv, ProgressInv
  <2>2. said'[i] = said[i]
    BY <2>1 DEF Frame
  <2>. QED BY <1>1, <1>3, <2>2 DEF HandedOn
<1>. QED BY <1>1, <1>2, <1>3

\* An attempt that throws hands on nothing.
LEMMA ThrowKeeps ==
  ASSUME RetryInv, BodiesInv, Frame, NEW cause, NEW permanent, Throw(cause, permanent)
  PROVE  BodiesInv'
<1>1. /\ memory' = memory /\ previous' = previous /\ at' = at /\ pc' \in {"body", "over"}
      /\ \A i \in Steps : i < at => row'[i] = row[i]
      /\ \A i \in Steps : i >= at =>
           \/ row'[i] = row[i]
           \/ row'[i].output = Null /\ row'[i].status \in {"failed", "skipped"}
      /\ DOMAIN row' = Steps
  <2>1. memory' = memory /\ previous' = previous /\ at' = at /\ pc' \in {"body", "over"}
    BY DEF Throw, context
  <2>2. at \in Int /\ Steps \subseteq Int /\ DOMAIN row = Steps
    BY Progress DEF BodiesInv, ProgressInv
  <2>3. CASE UNCHANGED row
    BY <2>1, <2>2, <2>3
  <2>4. CASE row' = [i \in Steps |->
                       IF i = at THEN [status |-> "failed", output |-> Null]
                       ELSE IF i > at THEN [status |-> "skipped", output |-> Null] ELSE row[i]]
    BY <2>1, <2>2, <2>4
  <2>. QED BY <2>3, <2>4 DEF Throw
<1>2. Steps' = Steps /\ Steps = 1..Len(steps) /\ at \in Int
  BY FrameKeeps, Progress
<1>3. ProgressInv'
  <2>1. \A i \in Steps : row'[i].status = "completed" <=> i < at
    BY <1>1, <1>2 DEF BodiesInv, ProgressInv
  <2>. QED BY <1>1, <1>2, <2>1, FrameKeeps DEF BodiesInv, ProgressInv
<1>4. ASSUME NEW i \in Steps
      PROVE  /\ row'[i].status \in {"absent", "completed", "failed", "skipped"}
             /\ i >= at => row'[i].output = Null
             /\ i < at => \E out : HandedOn(i, out)'
  <2>1. /\ row'[i].status \in {"absent", "completed", "failed", "skipped"}
        /\ i >= at => row'[i].output = Null
    BY <1>1, <1>2 DEF BodiesInv
  <2>2. CASE i < at
    <3>1. PICK out : HandedOn(i, out)
      BY <2>2 DEF BodiesInv
    <3>2. HandedOn(i, out)'
      BY <1>1, <2>2, <3>1, FrameKeeps
    <3>. QED BY <2>1, <3>2
  <2>. QED BY <2>1, <2>2
<1>. QED BY <1>1, <1>2, <1>3, <1>4, FrameKeeps DEF BodiesInv

\* A step is completed, and the next one entered.
LEMMA EnterKeeps ==
  ASSUME RetryInv, BodiesInv, Frame, at \in Steps, pc # "over", NEW out,
         row' = [row EXCEPT ![at] = [status |-> "completed", output |-> Stored(out)]],
         DOMAIN memory' = Steps,
         \A i \in Steps : i < at => memory'[i] \in {memory[i], row[i].output},
         \A i \in Steps : i > at => memory'[i] = Absent,
         previous' = at, Enter(at + 1), NEW here, here = at, HandedOn(here, out)'
  PROVE  BodiesInv'
<1>1. /\ Steps' = Steps /\ steps' = steps /\ Steps = 1..Len(steps) /\ Len(steps) \in Nat /\ at \in Int
      /\ DOMAIN row = Steps /\ DOMAIN memory = Steps
  BY FrameKeeps, Progress DEF BodiesInv, ProgressInv
<1>2. at' = at + 1 /\ pc' \in {"body", "over"}
  BY DEF Enter
<1>3. /\ \A i \in Steps : i # at => row'[i] = row[i]
      /\ row'[at] = [status |-> "completed", output |-> Stored(out)] /\ DOMAIN row' = Steps
  BY <1>1
<1>4. ASSUME NEW i \in Steps
      PROVE  i < at + 1 => \E o : HandedOn(i, o)'
  <2>1. CASE i < at
    <3>1. PICK o : HandedOn(i, o)
      BY <2>1 DEF BodiesInv
    <3>2. i # at
      BY <1>1, <2>1
    <3>3. HandedOn(i, o)'
      BY <1>3, <2>1, <3>1, <3>2, FrameKeeps
    <3>. QED BY <3>3
  <2>2. CASE ~ (i < at)
    <3>1. i < at + 1 => i = here
      BY <1>1, <2>2
    <3>. QED BY <3>1
  <2>. QED BY <2>1, <2>2
<1>5. ASSUME NEW i \in Steps
      PROVE  memory'[i] = Absent <=> i >= at + 1
  <2>1. CASE i < at + 1
    <3>1. PICK o : HandedOn(i, o)'
      BY <1>4, <2>1
    <3>2. o.kind # "absent" /\ Stored(o).kind # "absent" /\ memory'[i] \in {o, Stored(o)}
      BY <3>1, KindsKept, ValueKinds DEF HandedOn
    <3>3. Absent.kind = "absent"
      BY DEF Absent
    <3>. QED BY <1>1, <2>1, <3>2, <3>3
  <2>2. CASE ~ (i < at + 1)
    BY <1>1, <2>2
  <2>. QED BY <2>1, <2>2
<1>6. \A i \in Steps : row'[i].status = "completed" <=> i < at + 1
  BY <1>1, <1>3 DEF BodiesInv, ProgressInv
<1>7. ProgressInv'
  BY <1>1, <1>2, <1>3, <1>5, <1>6, FrameKeeps DEF ProgressInv
<1>8. \A i \in Steps : /\ row'[i].status \in {"absent", "completed", "failed", "skipped"}
                       /\ i >= at + 1 => row'[i].output = Null
  BY <1>1, <1>3 DEF BodiesInv
<1>. QED BY <1>1, <1>2, <1>4, <1>7, <1>8, FrameKeeps DEF BodiesInv

\* A body that returns hands on its output.
LEMMA ReturnKeeps ==
  ASSUME RetryInv, BodiesInv, Frame, at \in Steps, pc # "over", NEW out, Return(out), Fits(out)
  PROVE  BodiesInv'
<1>. PICK here \in Steps : here = at
  OBVIOUS
<1>1. /\ row' = [row EXCEPT ![at] = [status |-> "completed", output |-> Stored(out)]]
      /\ memory' = [memory EXCEPT ![at] = out] /\ previous' = at /\ Enter(at + 1)
  BY DEF Return
<1>2. DOMAIN row = Steps /\ DOMAIN memory = Steps /\ Steps \subseteq Int /\ at \in Int
  BY Progress DEF BodiesInv, ProgressInv
<1>3. /\ row'[at].output = Stored(out) /\ memory'[at] = out /\ DOMAIN memory' = Steps
      /\ \A i \in Steps : i # at => memory'[i] = memory[i]
  BY <1>1, <1>2
<1>4. HandedOn(here, out)'
  <2>1. row'[here].output = Stored(out) /\ memory'[here] = out /\ steps' = steps
    BY <1>3, FrameKeeps
  <2>. QED BY <2>1 DEF HandedOn, Fits, Step
<1>5. ASSUME NEW i \in Steps
      PROVE  /\ i < at => memory'[i] \in {memory[i], row[i].output}
             /\ i > at => memory'[i] = Absent
  <2>1. i \in Int /\ at \in Int
    BY <1>2
  <2>2. CASE i < at
    BY <1>3, <2>1, <2>2
  <2>3. CASE i > at
    <3>1. i # at /\ i >= at
      BY <2>1, <2>3
    <3>2. memory[i] = Absent
      BY <3>1 DEF BodiesInv, ProgressInv
    <3>. QED BY <1>3, <2>1, <2>3, <3>1, <3>2
  <2>. QED BY <2>1, <2>2, <2>3
<1>. QED BY <1>1, <1>3, <1>4, <1>5, EnterKeeps

\* A process that resumes knows of every step what the rows keep.
LEMMA ResumeKeeps ==
  ASSUME RetryInv, BodiesInv, Frame, Resume
  PROVE  BodiesInv'
<1>. PICK here \in Steps : here = at
  BY DEF Resume
<1>1. /\ row' = [row EXCEPT ![at] = [status |-> "completed", output |-> Null]]
      /\ memory' = [i \in Steps |-> IF row'[i].status = "completed" THEN row'[i].output ELSE Absent]
      /\ previous' = Latest(Completed \cup {at}) /\ Enter(at + 1)
      /\ at \in Steps /\ pc # "over" /\ Step.type = "approval_gate"
  BY DEF Resume, Approved
<1>2. /\ DOMAIN row = Steps /\ Steps = 1..Len(steps) /\ Len(steps) \in Nat
      /\ Completed = 1..(at - 1) /\ at \in Nat
  BY <1>1, Progress DEF BodiesInv, ProgressInv
<1>3. Completed \cup {at} = 1..at
  BY <1>1, <1>2
<1>4. previous' = at
  BY <1>1, <1>2, <1>3, LatestStep
<1>5. Stored(Null) = Null /\ IsValue(Null)
  BY KindsKept, PlainValues DEF Null, PlainKind
<1>6. /\ row'[at] = [status |-> "completed", output |-> Null]
      /\ \A i \in Steps : i # at => row'[i] = row[i]
  BY <1>1, <1>2
<1>7. HandedOn(here, Null)'
  <2>1. row'[here].output = Null /\ memory'[here] = Null /\ steps' = steps
    BY <1>1, <1>6, FrameKeeps
  <2>. QED BY <1>1, <1>5, <2>1 DEF HandedOn, Step
<1>8. ASSUME NEW i \in Steps
      PROVE  /\ i < at => memory'[i] \in {memory[i], row[i].output}
             /\ i > at => memory'[i] = Absent
  <2>1. row[i].status = "completed" <=> i < at
    BY DEF BodiesInv, ProgressInv
  <2>2. i # at => row'[i] = row[i]
    BY <1>6
  <2>3. memory'[i] = IF row'[i].status = "completed" THEN row'[i].output ELSE Absent
    BY <1>1
  <2>4. (i < at => i # at) /\ (i > at => i # at /\ ~ (i < at))
    BY <1>2
  <2>. QED BY <2>1, <2>2, <2>3, <2>4
<1>9. DOMAIN memory' = Steps
  BY <1>1
<1>10. row' = [row EXCEPT ![at] = [status |-> "completed", output |-> Stored(Null)]]
  BY <1>1, <1>5
<1>. QED BY <1>1, <1>4, <1>7, <1>8, <1>9, <1>10, EnterKeeps

\* A body that waits changes nothing of this.
LEMMA WaitKeeps ==
  ASSUME RetryInv, BodiesInv, Frame, UNCHANGED <<row, context, at>>, pc' \in {"waiting", "reading"}
  PROVE  BodiesInv'
<1>1. Steps' = Steps /\ steps' = steps /\ row' = row /\ memory' = memory /\ previous' = previous /\ at' = at
  BY FrameKeeps DEF context
<1>2. ProgressInv'
  BY <1>1, FrameKeeps DEF BodiesInv, ProgressInv
<1>3. ASSUME NEW i \in Steps, i < at
      PROVE  \E out : HandedOn(i, out)'
  <2>1. PICK out : HandedOn(i, out)
    BY <1>3 DEF BodiesInv
  <2>2. HandedOn(i, out)'
    BY <1>1, <1>3, <2>1, FrameKeeps
  <2>. QED BY <2>2
<1>. QED BY <1>1, <1>2, <1>3, FrameKeeps DEF BodiesInv

\* Every action is one of them.
LEMMA ActionDoes ==
  ASSUME RetryInv, BodiesInv, Next
  PROVE  Frame /\ Does /\ pc # "over" /\ at \in Steps
<1>1. pc # "over" /\ at \in Steps
  BY DEF Next, executeLlmCall, LlmAnswer, executeHttpRequest, FollowRedirect, HttpAnswer,
         ReceiveHeaders, TimeOut, executeDbWrite, Branch, Resume, RetryInv
<1>2. ProgressInv /\ DOMAIN written = Key
  BY DEF BodiesInv
<1>3. CASE executeDbWrite
  <2>1. Step.type = "db_write"
    BY <1>3 DEF executeDbWrite
  <2>2. ResolveTemplate(Step.value, LiveContext).kind \in Kind
    BY <1>1, <2>1, TemplateHasKind
  <2>. QED BY <1>1, <1>2, <1>3, <2>2, DbWriteDoes
<1>4. CASE ~ executeDbWrite
  BY <1>1, <1>2, <1>4, ModelCalledDoes, ModelAnsweredDoes, ServerAskedDoes, ServerAnsweredDoes,
     OutsideAnsweredDoes, BranchDoes, ResumeDoes DEF Next
<1>. QED BY <1>3, <1>4

\* Every step keeps the invariant.
LEMMA BodiesNext == RetryInv /\ BodiesInv /\ [Next]_vars => BodiesInv'
<1>. SUFFICES ASSUME RetryInv, BodiesInv, [Next]_vars PROVE BodiesInv'
  OBVIOUS
<1>1. CASE UNCHANGED vars
  BY <1>1 DEF vars, BodiesInv, ProgressInv, HandedOn, Steps
<1>2. CASE Next
  <2>1. Frame /\ Does /\ pc # "over" /\ at \in Steps
    BY <1>2, ActionDoes
  <2>. QED BY <2>1, ThrowKeeps, ReturnKeeps, WaitKeeps, ResumeKeeps DEF Does
<1>. QED BY <1>1, <1>2

\* A run starts with nothing handed on.
LEMMA BodiesInit == Init => RetryInv /\ BodiesInv
<1>. SUFFICES ASSUME Init PROVE RetryInv /\ BodiesInv
  OBVIOUS
<1>1. RetryInv
  BY RetryInit
<1>2. Steps = 1..Len(steps) /\ Len(steps) \in Nat
  BY <1>1, StepsAreNumbered
<1>3. row = [i \in Steps |-> [status |-> "absent", output |-> Null]]
  BY <1>2 DEF Init, Pending
<1>4. \A i \in Steps : i >= 1
  BY <1>2
<1>5. ProgressInv
  BY <1>2, <1>3, <1>4 DEF Init, ProgressInv
<1>6. Absent.kind \in Kind
  BY DEF Absent, Kind
<1>. QED BY <1>1, <1>2, <1>3, <1>4, <1>5, <1>6 DEF Init, BodiesInv

-----------------------------------------------------------------------------
(* Downstream. *)

\* Which rows a step completes, and that it leaves those before it alone.
LEMMA RowsKept ==
  ASSUME RetryInv, BodiesInv, Does
  PROVE  /\ \A i \in Steps : i < at => row'[i] = row[i]
         /\ \A i \in Steps : i >= at /\ row'[i].status = "completed" =>
              /\ i = at
              /\ Resume \/ \E out : Return(out) /\ Fits(out)
<1>1. Steps \subseteq Int /\ at \in Int /\ DOMAIN row = Steps
  BY Progress DEF BodiesInv, ProgressInv
<1>2. \A i \in Steps : i >= at => row[i].status # "completed"
  BY <1>1 DEF BodiesInv, ProgressInv
<1>3. ASSUME NEW cause, NEW permanent, Throw(cause, permanent)
      PROVE  /\ \A i \in Steps : i < at => row'[i] = row[i]
             /\ \A i \in Steps : i >= at => row'[i].status # "completed"
  <2>1. CASE UNCHANGED row
    BY <1>2, <2>1
  <2>2. CASE row' = [i \in Steps |->
                       IF i = at THEN [status |-> "failed", output |-> Null]
                       ELSE IF i > at THEN [status |-> "skipped", output |-> Null] ELSE row[i]]
    BY <1>1, <2>2
  <2>. QED BY <1>3, <2>1, <2>2 DEF Throw
<1>4. ASSUME NEW r, row' = [row EXCEPT ![at] = r]
      PROVE  \A i \in Steps : i # at => row'[i] = row[i]
  BY <1>1, <1>4
<1>5. CASE Resume \/ \E out : Return(out) /\ Fits(out)
  <2>1. \E r : row' = [row EXCEPT ![at] = r]
    BY <1>5 DEF Resume, Approved, Return
  <2>2. \A i \in Steps : i # at => row'[i] = row[i]
    BY <1>4, <2>1
  <2>3. \A i \in Steps : i < at => row'[i] = row[i]
    BY <1>1, <2>2
  <2>4. \A i \in Steps : i >= at /\ row'[i].status = "completed" => i = at
    BY <1>2, <2>2
  <2>. QED BY <1>5, <2>3, <2>4
<1>6. CASE UNCHANGED row
  BY <1>2, <1>6
<1>. QED BY <1>3, <1>5, <1>6 DEF Does

\* What was written stays, unless the step at hand writes to the same key.
LEMMA WrittenKept ==
  ASSUME RetryInv, BodiesInv, Frame, at \in Steps, NEW i \in Steps, i < at,
         steps[i].type = "db_write", LastToWrite(i)
  PROVE  written'[steps[i].key] = written[steps[i].key]
<1>1. steps[i].key \in Key /\ DOMAIN written = Key
  BY DEF BodiesInv, HandedOn
<1>2. at > i
  BY Progress
<1>3. Step.type = "db_write" => Step.key # steps[i].key
  BY <1>2 DEF LastToWrite, Step
<1>. QED BY <1>1, <1>3 DEF Frame

\* The step that just returned has read the label.
LEMMA LabelUsed ==
  ASSUME RetryInv, BodiesInv, Frame, at \in Steps, NEW out, Return(out), Fits(out),
         NEW j \in 1..(at - 1), Reads(at, LabelOf(j)),
         NEW label, label.kind \notin {"object", "array"},
         ResolvePath(LiveContext, LabelOf(j)) = label
  PROVE  /\ Step.type = "conditional_branch" =>
              Member(row'[at].output, "matched")
                = Bool(Evaluate(Step.condition.operator, label, Step.condition.value))
         /\ Step.type = "db_write" => written'[Step.key] = label
<1>1. row'[at].output = Stored(out)
  BY DEF Return, BodiesInv, ProgressInv
<1>2. ASSUME Step.type = "conditional_branch"
      PROVE  Member(row'[at].output, "matched")
               = Bool(Evaluate(Step.condition.operator, label, Step.condition.value))
  <2>1. Step.condition.path = LabelOf(j)
    BY <1>2 DEF Reads, Step
  <2>2. Matches(LiveContext) = Evaluate(Step.condition.operator, label, Step.condition.value)
    BY <2>1 DEF Matches, EvaluateCondition
  <2>. QED BY <1>1, <1>2, <2>2 DEF Fits
<1>3. ASSUME Step.type = "db_write"
      PROVE  written'[Step.key] = label
  <2>. DEFINE template == Step.value
              value == ResolveTemplate(template, LiveContext)
  <2>1. template.form = "whole" /\ template.path = LabelOf(j)
    BY <1>3 DEF Reads, Step
  <2>. HIDE DEF template
  <2>2. value = IF label = Absent THEN Null ELSE label
    BY <2>1 DEF ResolveTemplate
  <2>3. value # Null /\ written'[Step.key] = Stored(value)
    BY <1>3 DEF Fits, template
  <2>. HIDE DEF value
  <2>4. value = label
    BY <2>2, <2>3
  <2>. QED BY <2>3, <2>4, KindsKept
<1>. QED BY <1>2, <1>3

\* Every step keeps what is downstream of a model faithful to it.
LEMMA DownstreamNext ==
  RetryInv /\ BodiesInv /\ DownstreamSeesAnswer /\ [Next]_vars => DownstreamSeesAnswer'
<1>. SUFFICES ASSUME RetryInv, BodiesInv, DownstreamSeesAnswer, [Next]_vars PROVE DownstreamSeesAnswer'
  OBVIOUS
<1>1. CASE UNCHANGED vars
  BY <1>1 DEF vars, DownstreamSeesAnswer, SeesLabel, Reads, LastToWrite, Steps
<1>2. CASE Next
  <2>1. Frame /\ Does /\ pc # "over" /\ at \in Steps
    BY <1>2, ActionDoes
  <2>2. Steps' = Steps /\ steps' = steps /\ Steps = 1..Len(steps) /\ Len(steps) \in Nat /\ at \in Nat
    BY <2>1, FrameKeeps, Progress
  <2>3. ASSUME NEW i \in Steps, NEW j \in 1..(i - 1), row'[i].status = "completed", Reads(i, LabelOf(j)),
               steps[j].type = "llm_call", steps[j].parse_json, said'[j].form # "several",
               NEW label, label = Member(said'[j].json, "label")
        PROVE  /\ ~ said'[j].cut
               /\ label.kind \notin {"object", "array"} =>
                    /\ (steps[i].type = "conditional_branch" =>
                          Member(row'[i].output, "matched")
                            = Bool(Evaluate(steps[i].condition.operator, label, steps[i].condition.value)))
                    /\ (steps[i].type = "db_write" /\ LastToWrite(i)) => written'[steps[i].key] = label
    <3>1. i <= at
      BY <2>1, <2>2, <2>3, RowsKept
    <3>2. j \in Steps /\ j # at /\ said'[j] = said[j]
      BY <2>1, <2>2, <3>1 DEF Frame
    <3>3. CASE i < at
      <4>1. row'[i] = row[i]
        BY <2>1, <3>3, RowsKept
      <4>2. ~ said[j].cut /\ (label.kind \notin {"object", "array"} => SeesLabel(i, label))
        BY <2>3, <3>2, <4>1 DEF DownstreamSeesAnswer
      <4>3. (steps[i].type = "db_write" /\ LastToWrite(i)) => written'[steps[i].key] = written[steps[i].key]
        BY <2>1, <3>3, WrittenKept
      <4>. QED BY <3>2, <4>1, <4>2, <4>3 DEF SeesLabel
    <3>4. CASE i = at
      <4>1. Resume \/ \E out : Return(out) /\ Fits(out)
        BY <2>1, <2>2, <2>3, <3>4, RowsKept
      <4>2. steps[i].type # "approval_gate"
        BY <2>3 DEF Reads
      <4>3. PICK out : Return(out) /\ Fits(out)
        BY <3>4, <4>1, <4>2 DEF Resume, Step
      <4>4. /\ ~ said[j].cut
            /\ label.kind \notin {"object", "array"} => ResolvePath(LiveContext, LabelOf(j)) = label
        <5>1. j \in 1..(at - 1)
          BY <3>4
        <5>. QED BY <2>3, <3>2, <5>1, LabelSeen
      <4>5. Reads(at, LabelOf(j)) /\ j \in 1..(at - 1)
        BY <2>3, <3>4
      <4>6. ASSUME label.kind \notin {"object", "array"}
            PROVE  /\ Step.type = "conditional_branch" =>
                        Member(row'[at].output, "matched")
                          = Bool(Evaluate(Step.condition.operator, label, Step.condition.value))
                   /\ Step.type = "db_write" => written'[Step.key] = label
        BY <2>1, <4>3, <4>4, <4>5, <4>6, LabelUsed
      <4>. QED BY <3>2, <3>4, <4>4, <4>6 DEF Step
    <3>. QED BY <2>2, <3>1, <3>3, <3>4
  <2>. QED BY <2>2, <2>3 DEF DownstreamSeesAnswer, SeesLabel, Reads, LastToWrite
<1>. QED BY <1>1, <1>2

\* At the start nothing is downstream.
LEMMA DownstreamInit == Init => DownstreamSeesAnswer
<1>. SUFFICES ASSUME Init PROVE DownstreamSeesAnswer
  OBVIOUS
<1>1. BodiesInv /\ at = 1 /\ Steps = 1..Len(steps) /\ Len(steps) \in Nat
  BY BodiesInit, StepsAreNumbered DEF Init
<1>2. \A i \in Steps : row[i].status # "completed"
  BY <1>1 DEF BodiesInv, ProgressInv
<1>. QED BY <1>2 DEF DownstreamSeesAnswer

-----------------------------------------------------------------------------
(* The theorems about what is handed on. *)

\* What a path of any length reads out of a value is what it reads out of the copy
\* that Postgres keeps, up to the order of members: the same, if it is no object or
\* array, and absent in both or in neither.
THEOREM ReadsSurviveStorage ==
  ASSUME NEW v, IsValue(v), NEW path, IsPath(path)
  PROVE  LET read == ResolvePath(v, path)
             kept == ResolvePath(Stored(v), path)
         IN /\ Similar(read, kept)
            /\ read.kind = kept.kind
            /\ read.kind \notin {"object", "array"} => kept = read
<1>1. Similar(v, Stored(v))
  BY SimilarStored
<1>2. Similar(ResolvePath(v, path), ResolvePath(Stored(v), path))
  BY <1>1, SimilarRead
<1>. QED BY <1>2, SimilarKinds

\* Both invariants hold of every state.
LEMMA BodiesReached == Spec => [](RetryInv /\ BodiesInv)
BY BodiesInit, BodiesNext, RetryNext, PTL DEF Spec

\* They say of every variable what TypeOK says.
LEMMA KindsOfBodies == RetryInv /\ BodiesInv /\ OnlyFetchable => TypeOK
<1>. SUFFICES ASSUME RetryInv, BodiesInv, OnlyFetchable PROVE TypeOK
  OBVIOUS
<1>1. /\ at \in 1..(Len(steps) + 1) /\ previous \in {0} \cup Steps
      /\ Steps = 1..Len(steps) /\ Len(steps) \in Nat
  BY Progress
<1>2. ASSUME NEW i \in Steps
      PROVE  row[i].output.kind \in Kind \ {"absent"} /\ memory[i].kind \in Kind
  <2>1. CASE i < at
    <3>1. PICK out : HandedOn(i, out)
      BY <2>1 DEF BodiesInv
    <3>2. out.kind \in Kind \ {"absent"} /\ Stored(out).kind \in Kind \ {"absent"}
      BY <3>1, KindsKept, ValueKinds DEF HandedOn
    <3>. QED BY <3>1, <3>2 DEF HandedOn
  <2>2. CASE i >= at
    BY <2>2 DEF BodiesInv, ProgressInv, Null, Absent, Kind
  <2>. QED BY <1>1, <2>1, <2>2
<1>3. attempt \in 1..MaxAttempts /\ Len(failures) \in {attempt - 1, attempt}
  BY DEF RetryInv
<1>. QED BY <1>1, <1>2, <1>3 DEF TypeOK, BodiesInv

\* Every output, entry of the context and written value is a JSON value of some kind
\* at every time, no completed step has an undefined output, and the counters of
\* attempts and redirects stay within their limits.
THEOREM BodiesAreTyped == Spec => []TypeOK
BY BodiesReached, RequestsAreChecked, KindsOfBodies, PTL

\* Whatever a branch decides or a step writes from the label of a model is what the
\* model said in a completion that was not cut off: through extraction, retries,
\* the rows, the context and a resumption after any gate, in every definition.
THEOREM DownstreamIsFaithful == Spec => []DownstreamSeesAnswer
BY BodiesReached, DownstreamInit, DownstreamNext, PTL DEF Spec

\* Arrays that are similar and have no objects or arrays among their items are equal.
LEMMA FlatIsEqual ==
  ASSUME NEW v, NEW w, Similar(v, w), ~ Nested(v)
  PROVE  v = w
<1>1. v.kind # "object" /\ v.kind = w.kind
  BY SimilarKinds DEF Nested
<1>2. CASE v.kind = "array"
  <2>1. /\ IsArray(v) /\ IsArray(w) /\ DOMAIN v.items = DOMAIN w.items
        /\ \A i \in DOMAIN v.items : Similar(v.items[i], w.items[i])
    BY <1>2, SimilarItems
  <2>2. \A i \in DOMAIN v.items : v.items[i].kind \notin {"array", "object"}
    BY <1>2 DEF Nested
  <2>3. \A i \in DOMAIN v.items : v.items[i] = w.items[i]
    BY <2>1, <2>2, SimilarKinds
  <2>4. [i \in DOMAIN v.items |-> v.items[i]] = [i \in DOMAIN w.items |-> w.items[i]]
    BY <2>1, <2>3
  <2>. QED BY <2>1, <2>4 DEF IsArray
<1>3. CASE v.kind # "array"
  BY <1>1, <1>3, SimilarKinds
<1>. QED BY <1>2, <1>3

\* A comparison of similar values comes out the same, unless it is made of the
\* order of members.
LEMMA SimilarEvaluate ==
  ASSUME NEW v, NEW w, Similar(v, w), NEW e, NEW operator \in Operators,
         ~ OrderMatters(operator, v, e)
  PROVE  Evaluate(operator, v, e) = Evaluate(operator, w, e)
<1>1. CASE ~ Nested(v)
  BY <1>1, FlatIsEqual
<1>2. CASE Nested(v)
  <2>1. v.kind = w.kind /\ v.kind \in {"object", "array"}
    BY <1>2, SimilarKinds DEF Nested
  <2>2. operator # "matches"
    BY <1>2 DEF OrderMatters
  <2>3. /\ Absent.kind = "absent" /\ \A b : Bool(b).kind = "boolean"
        /\ \A s : Str(s).kind = "string"
    BY DEF Absent, Bool, Str
  <2>4. CASE operator \in {"exists", "not_exists"}
    BY <2>1, <2>4 DEF Evaluate
  <2>5. CASE operator \in {"is_true", "is_false"}
    <3>1. \A b, s : /\ v # Bool(b) /\ v # Str(s)
                    /\ w # Bool(b) /\ w # Str(s)
      BY <2>1, <2>3
    <3>. DEFINE T == {Bool(TRUE), Str(<<"true">>)}
                F == {Bool(FALSE), Str(<<"false">>)}
    <3>2. v \notin T /\ w \notin T /\ v \notin F /\ w \notin F
      BY <3>1
    <3>3. CASE operator = "is_true"
      <4>1. Evaluate(operator, v, e) = (v \in T) /\ Evaluate(operator, w, e) = (w \in T)
        BY <3>3 DEF Evaluate
      <4>. HIDE DEF T
      <4>. QED BY <3>2, <4>1
    <3>4. CASE operator = "is_false"
      <4>1. Evaluate(operator, v, e) = (v \in F) /\ Evaluate(operator, w, e) = (w \in F)
        BY <3>4 DEF Evaluate
      <4>. HIDE DEF F
      <4>. QED BY <3>2, <4>1
    <3>. QED BY <2>5, <3>3, <3>4
  <2>6. CASE operator \in {"gt", "gte", "lt", "lte"}
    <3>1. AsNumber(v) = NaN /\ AsNumber(w) = NaN
      BY <2>1 DEF AsNumber
    <3>2. Evaluate(operator, v, e) = FALSE /\ Evaluate(operator, w, e) = FALSE
      BY <2>6, <3>1 DEF Evaluate, Compare
    <3>. QED BY <3>2
  <2>7. CASE operator \in {"equals", "not_equals", "in"}
    <3>1. ~ Nested(e)
      BY <1>2, <2>7 DEF OrderMatters
    <3>2. Nested(w)
      BY <1>2, NestedAlike
    <3>3. v # e /\ w # e
      BY <1>2, <3>1, <3>2
    <3>4. v # Absent /\ w # Absent
      BY <2>1, <2>3
    <3>5. e.kind = "array" => \A i \in DOMAIN e.items : e.items[i] # v /\ e.items[i] # w
      BY <2>1, <3>1 DEF Nested
    <3>6. CASE operator \in {"equals", "not_equals"}
      BY <3>3, <3>6 DEF Evaluate
    <3>7. CASE operator = "in"
      <4>1. Evaluate(operator, v, e) = FALSE /\ Evaluate(operator, w, e) = FALSE
        BY <3>4, <3>5, <3>7 DEF Evaluate
      <4>. QED BY <4>1
    <3>. QED BY <2>7, <3>6, <3>7
  <2>8. CASE operator \in {"contains", "not_contains"}
    <3>1. v.kind = "array" /\ w.kind = "array" /\ e.kind \notin {"object", "array"}
      BY <1>2, <2>1, <2>8 DEF OrderMatters
    <3>2. /\ DOMAIN v.items = DOMAIN w.items
          /\ \A i \in DOMAIN v.items : Similar(v.items[i], w.items[i])
      BY <3>1, SimilarItems
    <3>3. \A i \in DOMAIN v.items : v.items[i] = e <=> w.items[i] = e
      BY <3>1, <3>2, SimilarKinds
    <3>4. Includes(v, e) = Includes(w, e)
      BY <3>1, <3>2, <3>3 DEF Includes
    <3>. QED BY <2>8, <3>4 DEF Evaluate
  <2>. QED BY <2>2, <2>4, <2>5, <2>6, <2>7, <2>8 DEF Operators
<1>. QED BY <1>1, <1>2

\* And of a branch that it decides the same in both contexts.
LEMMA SameForBranch == RetryInv /\ BodiesInv => SameAfterResume
<1>. DEFINE v == ResolvePath(LiveContext, Step.condition.path)
            w == ResolvePath(buildContext, Step.condition.path)
<1>. SUFFICES ASSUME RetryInv, BodiesInv, AtBranch,
                     ~ OrderMatters(Step.condition.operator, v, Step.condition.value)
              PROVE  Matches(LiveContext) = Matches(buildContext)
  BY DEF SameAfterResume
<1>1. IsPath(Step.condition.path) /\ Step.condition.operator \in Operators
  BY ProgramsAssumption DEF RetryInv, AtBranch, Step, Steps
<1>2. Similar(v, w)
  BY <1>1, ContextsAgree, SimilarRead
<1>3. /\ Matches(LiveContext) = Evaluate(Step.condition.operator, v, Step.condition.value)
      /\ Matches(buildContext) = Evaluate(Step.condition.operator, w, Step.condition.value)
  BY DEF Matches, EvaluateCondition
<1>. HIDE DEF v, w
<1>. QED BY <1>1, <1>2, <1>3, SimilarEvaluate

\* A branch at any place, with any path and operator, decides the same in the process
\* that has run the steps before it as in one that has loaded their rows, whatever it
\* compares, unless the decision is made of the order of an object's members.
THEOREM BranchesSurviveResumption == Spec => []SameAfterResume
BY BodiesReached, SameForBranch, PTL

-----------------------------------------------------------------------------
(* Why every run of steps comes to an end. *)

\* How far an attempt is: its body, the request and the redirects it follows, and
\* the answer that is read.
Phase == CASE pc = "body" -> 0
           [] pc = "waiting" -> 1 + hop
           [] pc = "reading" -> MAX_REDIRECTS + 2
           [] pc = "over" -> MAX_REDIRECTS + 3

\* A step of the model ends the run, or goes on to the next step of the definition,
\* or to the next attempt, or further in the same attempt.
Advances ==
  /\ pc # "over"
  /\ \/ pc' = "over" /\ at' >= at
     \/ at' > at
     \/ at' = at /\ attempt' > attempt
     \/ at' = at /\ attempt' = attempt /\ Phase' > Phase

\* There are so many of each.
WithinLimits ==
  /\ at \in 1..(Len(steps) + 1)
  /\ attempt \in 1..MaxAttempts
  /\ Phase \in 0..(MAX_REDIRECTS + 3)

\* A step that was entered, an attempt that failed, and a request that is sent.
LEMMA EnteredAdvances ==
  ASSUME at \in Int, pc # "over", Enter(at + 1)
  PROVE  Advances
BY DEF Enter, Advances

LEMMA ThrewAdvances ==
  ASSUME at \in Int, attempt \in Int, pc # "over", NEW cause, NEW permanent, Throw(cause, permanent)
  PROVE  Advances
BY DEF Throw, Advances

LEMMA AddressAdvances ==
  ASSUME RetryInv, OnlyFetchable, at \in Int, NEW u \in Url, NEW first \in BOOLEAN,
         pc = IF first THEN "body" ELSE "waiting", assertUrlAllowed(u, first)
  PROVE  Advances
<1>1. attempt \in Int /\ pc # "over"
  BY AttemptsAssumption DEF RetryInv
<1>2. CASE \E cause, permanent : Throw(cause, permanent)
  BY <1>1, <1>2, ThrewAdvances
<1>3. CASE pc' = "waiting" /\ hop' = (IF first THEN 0 ELSE hop + 1) /\ UNCHANGED <<at, attempt>>
  <2>1. hop \in 0..3 /\ hop' \in Int
    BY <1>3 DEF OnlyFetchable, MAX_REDIRECTS
  <2>2. Phase' > Phase
    BY <1>3, <2>1 DEF Phase
  <2>. QED BY <1>1, <1>3, <2>2 DEF Advances
<1>4. \/ u \in Malformed
      \/ u \in Blocked \ Malformed
      \/ u \notin Malformed \cup Blocked
  OBVIOUS
<1>. QED BY <1>2, <1>3, <1>4 DEF assertUrlAllowed, Send

\* Every step advances.
LEMMA StepAdvances == RetryInv /\ OnlyFetchable /\ at \in Int /\ [Next]_vars => [Advances]_vars
<1>. SUFFICES ASSUME RetryInv, OnlyFetchable, at \in Int, Next PROVE Advances
  OBVIOUS
<1>1. attempt \in Int /\ hop \in 0..3
  BY AttemptsAssumption DEF RetryInv, OnlyFetchable, MAX_REDIRECTS
<1>2. ASSUME pc # "over", (\E cause, permanent : Throw(cause, permanent)) \/ Enter(at + 1)
      PROVE  Advances
  BY <1>1, <1>2, ThrewAdvances, EnteredAdvances
<1>3. CASE executeLlmCall
  <2>1. CASE Send(url) /\ UNCHANGED <<at, attempt, hop>>
    <3>1. pc = "body" /\ pc' = "waiting" /\ hop' = hop
      BY <1>3, <2>1 DEF executeLlmCall, Send
    <3>2. Phase' > Phase
      BY <1>1, <3>1 DEF Phase
    <3>. QED BY <2>1, <3>1, <3>2 DEF Advances
  <2>2. pc # "over"
    BY <1>3 DEF executeLlmCall
  <2>. QED BY <1>2, <1>3, <2>1, <2>2 DEF executeLlmCall, Return
<1>4. CASE LlmAnswer
  BY <1>2, <1>4 DEF LlmAnswer, ReadCompletion, Return
<1>5. CASE executeHttpRequest
  <2>1. Step.url \in Url /\ pc = "body"
    BY <1>5, ProgramsAssumption DEF executeHttpRequest, Step, Steps, RetryInv
  <2>. QED BY <1>5, <2>1, AddressAdvances DEF executeHttpRequest
<1>6. CASE FollowRedirect
  BY <1>2, <1>6, AddressAdvances DEF FollowRedirect
<1>7. CASE HttpAnswer
  <2>1. PICK body \in Bodies :
          CASE body.form = "oversized" -> Throw(Fault("oversized"), TRUE)
            [] body.form = "broken" -> Throw(Fault("network"), FALSE)
            [] body.form = "unparseable" /\ Accepted(status) -> Throw(Fault("unparseable"), FALSE)
            [] body.form \notin {"oversized", "broken"} /\ ~ Accepted(status) ->
                 Throw(Answered(status), PermanentStatus(status))
            [] body.form = "whole" /\ Accepted(status) -> Return(HttpOutput(body))
    BY <1>7 DEF HttpAnswer
  <2>2. body.form \in {"whole", "unparseable", "oversized", "broken"}
    BY BodiesAssumption
  <2>3. (\E cause, permanent : Throw(cause, permanent)) \/ Enter(at + 1)
    BY <2>1, <2>2 DEF Return
  <2>. QED BY <1>2, <1>7, <2>3 DEF HttpAnswer
<1>8. CASE ReceiveHeaders
  <2>1. pc = "waiting" /\ pc' = "reading" /\ UNCHANGED <<at, attempt>>
    BY <1>8 DEF ReceiveHeaders, Headers
  <2>2. Phase' > Phase
    BY <1>1, <2>1 DEF Phase, MAX_REDIRECTS
  <2>. QED BY <2>1, <2>2 DEF Advances
<1>9. CASE TimeOut
  BY <1>2, <1>9 DEF TimeOut
<1>10. CASE executeDbWrite
  BY <1>2, <1>10 DEF executeDbWrite, Return
<1>11. CASE Branch \/ Resume
  BY <1>2, <1>11 DEF Branch, Resume, Return
<1>. QED BY <1>3, <1>4, <1>5, <1>6, <1>7, <1>8, <1>9, <1>10, <1>11 DEF Next

\* No run of steps goes on for ever: every step ends it or advances, to the next step
\* of the definition, the next attempt, or within the attempt, and of each there are
\* no more than the definition, STEP_MAX_ATTEMPTS and MAX_REDIRECTS allow.  Nothing is
\* done after the end.
THEOREM EveryRunOfStepsEnds == Spec => [][Advances]_vars /\ []WithinLimits
<1>1. RetryInv /\ BodiesInv => at \in Int /\ at \in 1..(Len(steps) + 1)
  BY Progress
<1>2. RetryInv /\ BodiesInv /\ OnlyFetchable /\ [Next]_vars => [Advances]_vars
  BY <1>1, StepAdvances
<1>3. RetryInv /\ BodiesInv /\ OnlyFetchable => WithinLimits
  <2>. SUFFICES ASSUME RetryInv, BodiesInv, OnlyFetchable PROVE WithinLimits
    OBVIOUS
  <2>1. at \in 1..(Len(steps) + 1) /\ attempt \in 1..MaxAttempts
    BY <1>1 DEF RetryInv
  <2>2. pc \in {"body", "waiting", "reading", "over"} /\ hop \in 0..3
    BY DEF BodiesInv, OnlyFetchable, MAX_REDIRECTS
  <2>3. Phase \in 0..6
    BY <2>2 DEF Phase, MAX_REDIRECTS
  <2>. QED BY <2>1, <2>3 DEF WithinLimits, MAX_REDIRECTS
<1>. QED BY <1>2, <1>3, BodiesReached, RequestsAreChecked, PTL DEF Spec
=============================================================================
