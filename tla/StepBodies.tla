------------------------------ MODULE StepBodies ------------------------------
(***************************************************************************)
(* What the steps of a run do outside the engine and hand to each other:   *)
(* the bodies of llm_call, http_request, db_write and conditional_branch   *)
(* under withRetry, the services they call, and the context that carries   *)
(* their outputs, in memory or rebuilt after an approval gate.             *)
(*   packages/engine/src/steps/llm.ts, http.ts, dbWrite.ts                 *)
(*   packages/engine/src/core/engine.ts   runStepBody, buildContext        *)
(*   packages/engine/src/core/retry.ts    isRetryable, withRetry           *)
(*                                                                         *)
(* One handler executes one run; handlers, faults of the engine's own      *)
(* requests and the targets of branches are WorkflowEngine's.              *)
(***************************************************************************)
EXTENDS Conditions

CONSTANTS
  Programs,        \* the lists of steps to choose from
  PositionKey,     \* PositionKey[n] is the text of the position n
  Inputs,          \* what runs may be started with
  DefaultProvider, \* LLM_PROVIDER
  MaxAttempts,     \* STEP_MAX_ATTEMPTS
  Url,             \* addresses, of which some are
  Malformed,       \*   no URL at all, and some
  Blocked,         \*   of another scheme or not public
  Status,          \* status codes of the services
  Completions,     \* what a model may answer, see LlmAnswer
  Bodies,          \* what a server may send after its headers, see HttpAnswer
  Key,             \* keys of workflow_outputs
  None

MAX_REDIRECTS == 3
KEYLESS_PROVIDERS == {"ollama"}
SUPPORTED_PROVIDERS == {"groq", "openrouter", "ollama", "gemini"}
Operators == {"exists", "not_exists", "is_true", "is_false", "equals", "not_equals", "contains",
              "not_contains", "matches", "in", "gt", "gte", "lt", "lte"}
UrgentSignals == {"urgent", "outage", "down", "critical", "refund", "angry", "escalate", "asap"}

\* What a definition may hold for a path, and for a template.
IsPath(path) == path \in Seq(Range(path))
IsTemplate(template) ==
  \/ template.form = "constant" /\ template.value \in Value
  \/ template.form \in {"whole", "inline"} /\ IsPath(template.path)

ASSUME AttemptsAssumption == MaxAttempts \in Nat \ {0}
ASSUME ProgramsAssumption ==
  \A p \in Programs :
    /\ p \in Seq(Range(p))
    /\ \A i \in DOMAIN p :
         /\ p[i].type = "http_request" => p[i].url \in Url
         /\ p[i].type = "conditional_branch" =>
              IsPath(p[i].condition.path) /\ p[i].condition.operator \in Operators
         /\ p[i].type = "db_write" => IsTemplate(p[i].value)
ASSUME NamesAssumption ==
  /\ \A p \in Programs : DOMAIN p \subseteq DOMAIN PositionKey
  /\ \A i, j \in DOMAIN PositionKey : PositionKey[i] = PositionKey[j] => i = j
  /\ \A i \in DOMAIN PositionKey : PositionKey[i] \in DOMAIN KeyRank \ DANGEROUS_KEYS
  /\ {"trigger", "previous", "steps", "output", "status", "text", "json", "stubbed", "label", "ok",
      "written", "matched"} \subseteq DOMAIN KeyRank
ASSUME InputsAssumption == Inputs \subseteq Value
ASSUME BodiesAssumption ==
  \A b \in Bodies : b.form \in {"whole", "unparseable", "oversized", "broken"} /\ b.json \in Value
ASSUME CompletionsAssumption ==
  \A c \in Completions :
    /\ c.json \in Value
    /\ c.form \notin {"bare", "fenced", "prose", "several"} => c.json = Null
ASSUME UrlAssumption == Malformed \subseteq Url /\ Blocked \subseteq Url
ASSUME NoneAssumption == None \notin Url \cup {"truncated", "no text"}

VARIABLES
  steps,       \* the definition, loaded when the run starts
  input,       \* the run's input
  hasKey,      \* LLM_API_KEY is set
  row,         \* step_runs: status and output of each step
  written,     \* workflow_outputs of the run
  memory,      \* outputs in the context of the process that executes the run
  previous,    \* the step the context calls previous, 0 if none
  at,          \* the step that is executed
  pc,          \* where its body stands
  attempt,     \* attempt of withRetry
  hop, url,    \* redirects followed, and the address requested
  status,      \* status code of the headers that arrived
  failures,    \* history: how the attempts of the step failed
  said         \* history: what the model last said, for each llm_call

vars == <<steps, input, hasKey, row, written, memory, previous, at, pc, attempt,
          hop, url, status, failures, said>>
context == <<memory, previous>>
request == <<hop, url, status>>
chosen == <<steps, input, hasKey>>

Steps == DOMAIN steps
Step == steps[at]

-----------------------------------------------------------------------------
(* The context. *)

Completed == {i \in Steps : row[i].status = "completed"}
Latest(S) == IF S = {} THEN 0 ELSE CHOOSE i \in S : \A j \in S : j <= i

Entry(output) == Obj(<< <<"output", output>>, <<"status", Str(<<"completed">>)>> >>)

\* The positions of the definitions are 1, 2, ...
Context(outputs, S, last) ==
  LET seen == InOrder(S, [i \in S |-> i])
  IN Obj(<< <<"trigger", input>>,
            <<"previous", IF last = 0 THEN Null ELSE Entry(outputs[last])>>,
            <<"steps", Obj([k \in DOMAIN seen |-> <<PositionKey[seen[k]], Entry(outputs[seen[k]])>>])>> >>)

\* As the executing process knows it, and as another would load it.
LiveContext == Context(memory, {i \in Steps : memory[i] # Absent}, previous)
buildContext == Context([i \in Steps |-> row[i].output], Completed, Latest(Completed))

-----------------------------------------------------------------------------
(* withRetry and the loop around it. *)

Enter(i) ==
  /\ at' = i
  /\ pc' = IF i \in Steps THEN "body" ELSE "over"
  /\ attempt' = 1
  /\ failures' = <<>>
  /\ UNCHANGED request

\* Variant for a check: the output is not made the previous one.
ReturnUnfed(output) ==
  /\ row' = [row EXCEPT ![at] = [status |-> "completed", output |-> Stored(output)]]
  /\ memory' = [memory EXCEPT ![at] = output]
  /\ UNCHANGED previous
  /\ Enter(at + 1)

\* The body returns: the output is stored and fed forward.
Return(output) ==
  /\ row' = [row EXCEPT ![at] = [status |-> "completed", output |-> Stored(output)]]
  /\ memory' = [memory EXCEPT ![at] = output]
  /\ previous' = at
  /\ Enter(at + 1)

\* The body throws.  An error that is not a StepError counts as transient.
isRetryable(permanent) == ~ permanent

Throw(cause, permanent) ==
  /\ failures' = Append(failures, cause)
  /\ IF attempt < MaxAttempts /\ isRetryable(permanent)
     THEN /\ attempt' = attempt + 1
          /\ pc' = "body"
          /\ UNCHANGED <<row, at>>
     ELSE /\ row' = [i \in Steps |->
                       IF i = at THEN [status |-> "failed", output |-> Null]
                       ELSE IF i > at THEN [status |-> "skipped", output |-> Null] ELSE row[i]]
          /\ pc' = "over"
          /\ UNCHANGED <<attempt, at>>
  /\ UNCHANGED <<context, request>>

\* Causes.
Fault(f) == [fault |-> f]
Answered(s) == [status |-> s]

\* A request is on its way, and the timer that will abort it is set.
Send(u) == pc' = "waiting" /\ url' = u

\* Headers arrived; the timer is cleared before the body is read.
Headers(s) == pc' = "reading" /\ status' = s

Ok(s) == s \in 200..299

-----------------------------------------------------------------------------
(* llm_call. *)

Provider == IF Step.provider = None THEN DefaultProvider ELSE Step.provider
\* A prompt is made of strings: the template of an object would give it no words.
Prompt == AsString(ResolveTemplate(Step.prompt, LiveContext))

stubCompletion ==
  Obj(<< <<"label", Str(<<IF \E i \in DOMAIN LowerCase(Prompt) : LowerCase(Prompt)[i] \in UrgentSignals
                          THEN "needs_approval" ELSE "auto_resolve">>)>> >>)

LlmOutput(text, json, stubbed) ==
  Obj(<< <<"text", text>>, <<"json", json>>, <<"stubbed", Bool(stubbed)>> >>)

executeLlmCall ==
  /\ pc = "body" /\ at \in Steps /\ Step.type = "llm_call"
  /\ UNCHANGED <<chosen, written>>
  /\ IF Prompt = <<>>
     THEN Throw(Fault("config"), TRUE) /\ UNCHANGED said
     ELSE IF Provider \notin KEYLESS_PROVIDERS /\ ~ hasKey
     THEN /\ Return(LlmOutput(Str(Stringify(stubCompletion)), stubCompletion, TRUE))
          /\ said' = [said EXCEPT ![at] = [form |-> "bare", cut |-> FALSE, json |-> stubCompletion]]
     ELSE IF Provider \notin SUPPORTED_PROVIDERS
     THEN Throw(Fault("provider"), TRUE) /\ UNCHANGED said
     ELSE /\ Send(url)
          /\ UNCHANGED <<row, context, at, attempt, hop, status, failures, said>>

classify(s) == s \in {400, 401, 403, 404, 422}

\* Pull the JSON object out of a completion, tolerating prose and fences.  With
\* several objects the text from the first brace to the last is no JSON.
extractJson(completion) ==
  IF completion.form \in {"bare", "fenced", "prose"} THEN completion.json ELSE Null

\* Variant for a check: only a missing text is noticed.
UnusableIfEmpty(completion) ==
  IF completion.form \in {"missing", "empty"} THEN "no text" ELSE None

\* A completion cut off at the token limit is no answer.  Groq, OpenRouter and
\* Ollama omit the text, Gemini leaves it empty, if nothing was written.
Unusable(completion) ==
  IF Provider = "gemini"
  THEN IF completion.cut THEN "truncated"
       ELSE IF completion.form \in {"missing", "empty"} THEN "no text" ELSE None
  ELSE IF completion.form = "missing" THEN "no text"
       ELSE IF completion.cut THEN "truncated" ELSE None

ReadCompletion(completion) ==
  /\ said' = [said EXCEPT ![at] = completion]
  /\ IF Unusable(completion) # None
     THEN Throw(Fault(Unusable(completion)), Unusable(completion) = "truncated")
     ELSE Return(LlmOutput(Str(<<completion.form>>),
                           IF Step.parse_json THEN extractJson(completion) ELSE Null, FALSE))

\* The body is read before the status is looked at, and may break off then, which
\* is no StepError.
LlmAnswer ==
  /\ pc = "reading" /\ Step.type = "llm_call"
  /\ UNCHANGED <<chosen, written>>
  /\ \/ Throw(Fault("network"), FALSE) /\ UNCHANGED said
     \/ ~ Ok(status) /\ Throw(Answered(status), classify(status)) /\ UNCHANGED said
     \/ Ok(status) /\ Throw(Fault("unparseable"), FALSE) /\ UNCHANGED said
     \/ Ok(status) /\ \E completion \in Completions : ReadCompletion(completion)

-----------------------------------------------------------------------------
(* http_request. *)

\* Variant for a check: the target of a redirect is taken as it is.
assertUrlAllowedOnce(u, first) ==
  IF u \in Malformed \cup Blocked /\ first
  THEN Throw(Fault("config"), TRUE)
  ELSE /\ Send(u)
       /\ hop' = IF first THEN 0 ELSE hop + 1
       /\ UNCHANGED <<row, context, at, attempt, status, failures>>

\* The first address comes from the step, the others from a redirect; a
\* redirect to something that is no URL makes the constructor of URL throw,
\* before assertUrlAllowed is entered.
assertUrlAllowed(u, first) ==
  CASE u \in Malformed -> Throw(Fault(IF first THEN "config" ELSE "redirect"), first)
    [] u \in Blocked \ Malformed -> Throw(Fault("config"), TRUE)
    [] u \notin Malformed \cup Blocked ->
         \/ Throw(Fault("network"), FALSE)      \* the name cannot be resolved
         \/ /\ Send(u)
            /\ hop' = IF first THEN 0 ELSE hop + 1
            /\ UNCHANGED <<row, context, at, attempt, status, failures>>

executeHttpRequest ==
  /\ pc = "body" /\ at \in Steps /\ Step.type = "http_request"
  /\ assertUrlAllowed(Step.url, TRUE)
  /\ UNCHANGED <<chosen, written, said>>

\* Redirects are followed by hand, up to MAX_REDIRECTS.
FollowRedirect ==
  /\ pc = "waiting" /\ Step.type = "http_request"
  /\ IF hop = MAX_REDIRECTS
     THEN Throw(Fault("redirects"), TRUE)
     ELSE \E location \in Url : assertUrlAllowed(location, FALSE)
  /\ UNCHANGED <<chosen, written, said>>

Accepted(s) == Ok(s) \/ s \in Step.accept_status

\* Variant for a check: every 4xx.
PermanentIfClientError(s) == s \in 400..499

PermanentStatus(s) == s \in 400..499 /\ s \notin {408, 429}

HttpOutput(body) ==
  Obj(<< <<"status", Num(status)>>, <<"ok", Bool(TRUE)>>, <<"json", body.json>> >>)

\* The body is read up to the cap before anything else is looked at.
HttpAnswer ==
  /\ pc = "reading" /\ Step.type = "http_request"
  /\ \E body \in Bodies :
       CASE body.form = "oversized" -> Throw(Fault("oversized"), TRUE)
         [] body.form = "broken" -> Throw(Fault("network"), FALSE)
         [] body.form = "unparseable" /\ Accepted(status) -> Throw(Fault("unparseable"), FALSE)
         [] body.form \notin {"oversized", "broken"} /\ ~ Accepted(status) ->
              Throw(Answered(status), PermanentStatus(status))
         [] body.form = "whole" /\ Accepted(status) -> Return(HttpOutput(body))
  /\ UNCHANGED <<chosen, written, said>>

-----------------------------------------------------------------------------
(* Both. *)

ReceiveHeaders ==
  /\ pc = "waiting" /\ Step.type \in {"llm_call", "http_request"}
  /\ \E s \in Status : Headers(s)
  /\ UNCHANGED <<chosen, row, written, context, at, attempt, hop, url, failures, said>>

TimeOut ==
  /\ pc = "waiting" /\ Step.type \in {"llm_call", "http_request"}
  /\ \E f \in {"timeout", "network"} : Throw(Fault(f), FALSE)
  /\ UNCHANGED <<chosen, written, said>>

-----------------------------------------------------------------------------
(* db_write: an upsert, whose answer may be lost. *)

executeDbWrite ==
  /\ pc = "body" /\ at \in Steps /\ Step.type = "db_write"
  /\ UNCHANGED <<chosen, said>>
  /\ LET value == ResolveTemplate(Step.value, LiveContext)
     IN IF Step.key \notin Key
        THEN Throw(Fault("config"), TRUE) /\ UNCHANGED written
        ELSE \/ value = Null /\ Throw(Fault("refused"), FALSE) /\ UNCHANGED written
             \/ Throw(Fault("network"), FALSE) /\ UNCHANGED written
             \/ /\ value # Null            \* which the type jsonb! excludes
                /\ written' = [written EXCEPT ![Step.key] = Stored(value)]
                /\ \/ Throw(Fault("network"), FALSE)
                   \/ Return(Obj(<< <<"written", Bool(TRUE)>> >>))

-----------------------------------------------------------------------------
(* conditional_branch and approval_gate. *)

Matches(ctx) == EvaluateCondition(Step.condition, ctx)

Branch ==
  /\ pc = "body" /\ at \in Steps /\ Step.type = "conditional_branch"
  /\ Return(Obj(<< <<"matched", Bool(Matches(LiveContext))>> >>))
  /\ UNCHANGED <<chosen, written, said>>

\* The gate is approved, and a process that knows only the rows goes on.
Approved == [row EXCEPT ![at] = [status |-> "completed", output |-> Null]]

Resume ==
  /\ pc = "body" /\ at \in Steps /\ Step.type = "approval_gate"
  /\ row' = Approved
  /\ memory' = [i \in Steps |-> IF Approved[i].status = "completed" THEN Approved[i].output ELSE Absent]
  /\ previous' = Latest(Completed \cup {at})
  /\ Enter(at + 1)
  /\ UNCHANGED <<chosen, written, said>>

-----------------------------------------------------------------------------
Pending(n) == [i \in 1..n |-> [status |-> "absent", output |-> Null]]

Init ==
  /\ steps \in Programs
  /\ input \in Inputs
  /\ hasKey \in BOOLEAN
  /\ row = Pending(Len(steps))
  /\ written = [k \in Key |-> Absent]
  /\ memory = [i \in Steps |-> Absent]
  /\ previous = 0
  /\ at = 1
  /\ pc = "body"
  /\ attempt = 1
  /\ hop = 0
  /\ url = None
  /\ status = 0
  /\ failures = <<>>
  /\ said = [i \in Steps |-> None]

Next ==
  \/ executeLlmCall \/ LlmAnswer
  \/ executeHttpRequest \/ FollowRedirect \/ HttpAnswer
  \/ ReceiveHeaders \/ TimeOut
  \/ executeDbWrite
  \/ Branch \/ Resume

Spec == Init /\ [][Next]_vars

-----------------------------------------------------------------------------
(* Properties. *)

Fetchable == Url \ (Malformed \cup Blocked)

\* An address is requested only after it was found fetchable, the targets of
\* redirects included, and never more than MAX_REDIRECTS of them.
OnlyFetchable ==
  /\ hop \in 0..MAX_REDIRECTS
  /\ pc = "waiting" /\ Step.type = "http_request" => url \in Fetchable

\* Types, and what is requested.
TypeOK ==
  /\ steps \in Programs /\ input \in Inputs /\ hasKey \in BOOLEAN
  /\ \A i \in Steps :
       /\ row[i].status \in {"absent", "completed", "failed", "skipped"}
       /\ row[i].output.kind \in Kind \ {"absent"}
       /\ memory[i].kind \in Kind
  /\ \A k \in Key : written[k].kind \in Kind
  /\ previous \in {0} \cup Steps
  /\ at \in 1..(Len(steps) + 1)
  /\ pc \in {"body", "waiting", "reading", "over"}
  /\ attempt \in 1..MaxAttempts
  /\ Len(failures) \in {attempt - 1, attempt}
  /\ OnlyFetchable

\* The table of README.md:381-385, with the lines the services draw where it is
\* silent: what is hopeless is not tried again, whichever step, service or
\* redirect it came from, and no step is given up for anything else before its
\* attempts are used.  An answer whose body breaks off is a network failure,
\* whatever its status was.  retry.ts:4-8 has other statuses from 400 to 499 and
\* answers that do not parse among the hopeless; the first holds of http_request
\* only, the second of no step.
Hopeless(type) ==
  {Answered(s) : s \in IF type = "http_request" THEN (400..499) \ {408, 429}
                       ELSE {400, 401, 403, 404, 422}}
    \cup {Fault(f) : f \in {"config", "provider", "truncated", "redirects", "oversized"}}

RetryMatchesTable ==
  /\ \A i \in DOMAIN failures : i < attempt => failures[i] \notin Hopeless(Step.type)
  /\ \A i \in Steps :
       row[i].status = "failed" => Last(failures) \in Hopeless(steps[i].type) \/ attempt = MaxAttempts

\* Why it does: what failed is known for each attempt, and nothing is done once
\* a step has failed for good.
Cause ==
  [fault : {"config", "provider", "truncated", "no text", "unparseable", "refused", "network",
            "timeout", "redirect", "redirects", "oversized"}]
    \cup [status : Status]

RetryInv ==
  /\ steps \in Programs
  /\ row = [i \in Steps |-> row[i]]
  /\ attempt \in 1..MaxAttempts
  /\ failures \in Seq(Cause)
  /\ Len(failures) = attempt - 1 \/ (pc = "over" /\ Len(failures) = attempt)
  /\ pc \in {"waiting", "reading"} => at \in Steps
  /\ pc = "reading" => status \in Status
  /\ \A i \in Steps : row[i].status = "failed" => pc = "over" /\ Len(failures) = attempt
  /\ RetryMatchesTable

\* How far the run is: the steps before `at' are completed and in the context,
\* the last of them is the previous one, and no other step is.
ProgressInv ==
  /\ at \in 1..(Len(steps) + 1)
  /\ previous = at - 1
  /\ \A i \in Steps : row[i].status = "completed" <=> i < at
  /\ \A i \in Steps : memory[i] = Absent <=> i >= at
  /\ DOMAIN memory = Steps /\ DOMAIN said = Steps /\ DOMAIN row = Steps

\* What is decided and written downstream of a model is what the model said, in
\* a completion that was not cut off: through extraction, retries, the rows,
\* templates and a resumption.  A label that got lost on the way would send
\* the branch down the wrong path without an error, as it does when the
\* completion holds several objects.  The members of a label that is an object
\* may change their order, and a later step may write to the same key.
LabelOf(j) == <<"steps", PositionKey[j], "output", "json", "label">>

LastToWrite(i) ==
  \A k \in Steps : k > i /\ steps[k].type = "db_write" => steps[k].key # steps[i].key

SeesLabel(i, label) ==
  /\ (steps[i].type = "conditional_branch" =>
        Member(row[i].output, "matched")
          = Bool(Evaluate(steps[i].condition.operator, label, steps[i].condition.value)))
  /\ (steps[i].type = "db_write" /\ LastToWrite(i)) => written[steps[i].key] = label

Reads(i, path) ==
  \/ steps[i].type = "conditional_branch" /\ steps[i].condition.path = path
  \/ steps[i].type = "db_write" /\ steps[i].value = [form |-> "whole", path |-> path]

DownstreamSeesAnswer ==
  \A i \in Steps : \A j \in 1..(i - 1) :
    (/\ row[i].status = "completed" /\ Reads(i, LabelOf(j))
     /\ steps[j].type = "llm_call" /\ steps[j].parse_json /\ said[j].form # "several") =>
      LET label == Member(said[j].json, "label")
      IN ~ said[j].cut /\ (label.kind \notin {"object", "array"} => SeesLabel(i, label))

\* A branch decides the same whether the process that executes it has run the
\* steps before it or has only loaded their rows, whatever it compares, objects
\* and arrays included, unless the decision is made of the order of members: an
\* object is turned into words, or compared with another one.  Then it may not,
\* as Postgres keeps them in an order of its own (conditions.ts:63-72).
AtBranch == pc = "body" /\ at \in Steps /\ Step.type = "conditional_branch"

Nested(v) ==
  v.kind = "object" \/ (v.kind = "array" /\ \E k \in DOMAIN v.items : v.items[k].kind \in {"object", "array"})

OrderMatters(operator, actual, expected) ==
  /\ Nested(actual)
  /\ \/ operator = "matches"
     \/ operator \in {"contains", "not_contains"} /\ (actual.kind = "object" \/ expected.kind \in {"object", "array"})
     \/ operator \in {"equals", "not_equals", "in"} /\ Nested(expected)

SameAfterResume ==
  AtBranch =>
    \/ Matches(LiveContext) = Matches(buildContext)
    \/ OrderMatters(Step.condition.operator, ResolvePath(LiveContext, Step.condition.path), Step.condition.value)
=============================================================================
