---------------------------- MODULE MCStepBodies ----------------------------
(***************************************************************************)
(* Instances of StepBodies for TLC: one call of a model or of a server,    *)
(* perhaps an approval gate, and a step that uses what came back.          *)
(***************************************************************************)
EXTENDS StepBodies

CONSTANTS here, there, inside, garbage

MCLower == ("Refund" :> "refund")
MCToNumber == ("7" :> 7)
MCParseInt == ("0" :> 0) @@ ("1" :> 1) @@ ("2" :> 2)
MCPositionKey == <<"1", "2", "3">>
\* Shorter keys first.
KeyOrder == <<"1", "2", "3", "ok", "json", "text", "label", "score", "steps", "output", "status",
              "matched", "stubbed", "subject", "trigger", "written", "previous">>
MCKeyRank == [k \in Range(KeyOrder) |-> CHOOSE i \in DOMAIN KeyOrder : KeyOrder[i] = k]
MCRegExpTest(pattern, text) == Within(pattern, text)

MCInputs == {Obj(<< <<"subject", Str(<<"Refund">>)>> >>), Obj(<< >>)}

-----------------------------------------------------------------------------
(* Answers. *)

Labelled(words) == Obj(<< <<"score", Num(7)>>, <<"label", Str(words)>> >>)

MCCompletions ==
  [form : {"bare", "several"}, cut : {FALSE}, json : {Labelled(<<"needs_approval">>), Labelled(<<"auto_resolve">>)}]
    \cup [form : {"none", "empty", "missing"}, cut : BOOLEAN, json : {Null}]

MCBodies ==
  [form : {"whole"},
   json : {Null, Labelled(<<"Refund">>), Arr(<<Str(<<"7">>), Null>>), Num(8)}]
    \cup [form : {"unparseable", "oversized", "broken"}, json : {Null}]

\* All of these values and their parts; none nests deeper.
WithParts(values) ==
  values \cup UNION {Range(v.items) : v \in {w \in values : w.kind = "array"}}
         \cup UNION {{m[2] : m \in Range(v.members)} : v \in {w \in values : w.kind = "object"}}
MCValue ==
  WithParts({Null} \cup MCInputs \cup {c.json : c \in MCCompletions} \cup {b.json : b \in MCBodies})

-----------------------------------------------------------------------------
(* Definitions. *)

CallModel(provider, form) ==
  [type |-> "llm_call", provider |-> provider, parse_json |-> TRUE,
   prompt |-> [form |-> form, before |-> <<"classify">>, path |-> <<"trigger", "subject">>]]
Fetch(u, accept) == [type |-> "http_request", url |-> u, accept_status |-> accept]
Gate == [type |-> "approval_gate"]
If(path, operator, value) ==
  [type |-> "conditional_branch", condition |-> [path |-> path, operator |-> operator, value |-> value]]
WriteTo(key, path) == [type |-> "db_write", key |-> key, value |-> [form |-> "whole", path |-> path]]

Label == LabelOf(1)
Answer == <<"steps", "1", "output", "json">>

Decisions ==
  {If(Label, operator, Str(<<"needs_approval">>)) : operator \in {"equals", "not_contains"}}

AfterModel == Decisions \cup {WriteTo("result", Label), WriteTo("bad key", Label)}

\* What the answer of a server may be compared with, by every kind of operator.
AfterServer ==
  {If(<<"previous", "output", "json", "0">>, operator, Str(<<"7">>)) :
     operator \in {"exists", "equals", "gte", "is_false"}}
    \cup {If(Answer, operator, Num(7)) : operator \in {"gt", "lte", "not_equals", "not_exists", "is_true"}}
    \cup {If(Answer \o <<"label">>, operator, Str(<<"refund">>)) :
            operator \in {"contains", "not_contains", "matches", "lt"}}
    \cup {If(Answer, "contains", Null)}
    \cup {If(Answer \o <<"constructor">>, "in", Arr(<<Null, Str(<<"7">>)>>))}

MCPrograms ==
  {<<CallModel(provider, form), use>> :
     provider \in {None, "gemini", "ollama", "acme"}, form \in {"inline", "whole"}, use \in AfterModel}
    \cup {<<CallModel("gemini", "inline"), Gate, use>> : use \in AfterModel}
    \cup {<<Fetch(u, accept), use>> :
            u \in {here, inside, garbage}, accept \in {{}, {404}}, use \in AfterServer}
    \cup {<<Fetch(here, {}), Gate, use>> : use \in AfterServer}
=============================================================================
