----------------------------- MODULE Conditions -----------------------------
(***************************************************************************)
(* Values, paths and comparisons: what a template or the condition of a    *)
(* branch reads out of the context of a run.                               *)
(*   packages/engine/src/core/conditions.ts   evaluateCondition            *)
(*   packages/engine/src/core/context.ts      resolvePath, templates       *)
(*                                                                         *)
(* A JSON value is a record tagged with its kind.  A string is a sequence  *)
(* of words, which are never taken apart; an object is a sequence of       *)
(* members, because JSON.stringify and therefore the comparison of two     *)
(* objects depend on their order.                                          *)
(***************************************************************************)
EXTENDS Integers, Sequences, SequencesExt, TLC

CONSTANTS
  Lower,              \* Lower[w] is the word w in lower case
  ToNumber,           \* ToNumber[w] is Number(w), for the words that are numbers
  ParseInt,           \* ParseInt[k] is the index that the key k stands for, if any
  KeyRank,            \* the order in which Postgres keeps the keys of a jsonb object
  RegExpTest(_, _),   \* new RegExp(pattern).test(text), FALSE if the pattern is invalid
  Value,              \* the values that inputs, definitions and answers are made of
  NaN

Absent == [kind |-> "absent"]       \* undefined
Null == [kind |-> "null"]
Bool(b) == [kind |-> "boolean", bool |-> b]
Num(n) == [kind |-> "number", num |-> n]
Str(words) == [kind |-> "string", words |-> words]
Arr(items) == [kind |-> "array", items |-> items]
Obj(members) == [kind |-> "object", members |-> members]   \* <<key, value>> pairs

Kind == {"absent", "null", "boolean", "number", "string", "array", "object"}

\* A JSON value whose parts are among values: the members of an object are
\* known by their names.
MadeOf(v, values) ==
  /\ v.kind \in Kind \ {"absent"}
  /\ v.kind = "array" => v = Arr(v.items) /\ v.items \in Seq(values)
  /\ v.kind = "object" =>
       /\ v.members \in Seq((DOMAIN KeyRank) \X values)
       /\ \A i, j \in DOMAIN v.members : v.members[i][1] = v.members[j][1] => i = j

ASSUME ValueAssumption == \A v \in Value : MadeOf(v, Value)
ASSUME KeyRankAssumption ==
  /\ \A k \in DOMAIN KeyRank : KeyRank[k] \in Int
  /\ \A k, l \in DOMAIN KeyRank : KeyRank[k] = KeyRank[l] => k = l

\* The elements of a finite set by their ranks.
InOrder(S, rank) ==
  CHOOSE s \in [1..Cardinality(S) -> S] :
    \A i, j \in 1..Cardinality(S) : i < j => rank[s[i]] < rank[s[j]]

-----------------------------------------------------------------------------
(* Paths. *)

DANGEROUS_KEYS == {"__proto__", "constructor", "prototype"}

\* One part of a path.  Only own properties are seen, and null has none.
Member(v, part) ==
  LET own == IF v.kind = "object"
             THEN {i \in DOMAIN v.members : v.members[i][1] = part} ELSE {}
      index == IF part \in DOMAIN ParseInt THEN ParseInt[part] ELSE NaN
  IN CASE part \in DANGEROUS_KEYS -> Absent
       [] part \notin DANGEROUS_KEYS /\ v.kind = "array" ->
            IF index # NaN /\ index + 1 \in DOMAIN v.items THEN v.items[index + 1] ELSE Absent
       [] part \notin DANGEROUS_KEYS /\ own # {} -> v.members[CHOOSE i \in own : TRUE][2]
       [] OTHER -> Absent

ResolvePath(ctx, path) == FoldLeft(Member, ctx, path)

-----------------------------------------------------------------------------
(* Strings and numbers. *)

\* The words that JSON.stringify writes; Inner does so for the parts.
StringifyWith(v, Inner(_)) ==
  CASE v.kind = "string" -> v.words
    [] v.kind = "number" -> <<ToString(v.num)>>
    [] v.kind = "boolean" -> <<IF v.bool THEN "true" ELSE "false">>
    [] v.kind = "null" -> <<"null">>
    [] v.kind = "array" -> FlattenSeq([i \in DOMAIN v.items |-> Inner(v.items[i])])
    [] v.kind = "object" ->
         FlattenSeq([i \in DOMAIN v.members |-> <<v.members[i][1]>> \o Inner(v.members[i][2])])
    [] OTHER -> <<>>

NoWords(v) == <<>>
Stringify(v) ==
  LET Leaf(w) == StringifyWith(w, NoWords)
      Branch(w) == StringifyWith(w, Leaf)
  IN StringifyWith(v, Branch)

AsString(v) == IF v.kind \in {"absent", "null"} THEN <<>> ELSE Stringify(v)

AsNumber(v) ==
  CASE v.kind = "number" -> v.num
    [] v.kind = "string" /\ Len(v.words) = 1 /\ v.words[1] \in DOMAIN ToNumber -> ToNumber[v.words[1]]
    [] OTHER -> NaN

LowerCase(words) == [i \in DOMAIN words |-> IF words[i] \in DOMAIN Lower THEN Lower[words[i]] ELSE words[i]]

Within(part, words) ==
  \E i \in 0..(Len(words) - Len(part)) : SubSeq(words, i + 1, i + Len(part)) = part

-----------------------------------------------------------------------------
(* Comparison. *)

\* Arrays contain equal items, everything else the words in any case.
Includes(actual, expected) ==
  IF actual.kind = "array"
  THEN \E i \in DOMAIN actual.items : actual.items[i] = expected
  ELSE Within(LowerCase(AsString(expected)), LowerCase(AsString(actual)))

Compare(operator, a, b) ==
  /\ a # NaN
  /\ b # NaN
  /\ CASE operator = "gt" -> a > b
       [] operator = "gte" -> a >= b
       [] operator = "lt" -> a < b
       [] operator = "lte" -> a <= b

\* An absent value is not null: it equals nothing, and is only `in` a list
\* as if it were null.
Evaluate(operator, actual, expected) ==
  CASE operator = "exists" -> actual.kind \notin {"absent", "null"}
    [] operator = "not_exists" -> actual.kind \in {"absent", "null"}
    [] operator = "is_true" -> actual \in {Bool(TRUE), Str(<<"true">>)}
    [] operator = "is_false" -> actual \in {Bool(FALSE), Str(<<"false">>)}
    [] operator = "equals" -> actual = expected
    [] operator = "not_equals" -> actual # expected
    [] operator = "contains" -> Includes(actual, expected)
    [] operator = "not_contains" -> ~ Includes(actual, expected)
    [] operator = "matches" -> RegExpTest(AsString(expected), AsString(actual))
    [] operator = "in" ->
         /\ expected.kind = "array"
         /\ \E i \in DOMAIN expected.items :
              expected.items[i] = IF actual = Absent THEN Null ELSE actual
    [] operator \in {"gt", "gte", "lt", "lte"} ->
         Compare(operator, AsNumber(actual), AsNumber(expected))

EvaluateCondition(condition, ctx) ==
  Evaluate(condition.operator, ResolvePath(ctx, condition.path), condition.value)

-----------------------------------------------------------------------------
(* Templates.  A template is a constant, one whole placeholder (which keeps  *)
(* the type of its value) or a placeholder with words around it.             *)

ResolveTemplate(template, ctx) ==
  LET v == ResolvePath(ctx, template.path)
  IN CASE template.form = "constant" -> template.value
       [] template.form = "whole" -> IF v = Absent THEN Null ELSE v
       [] template.form = "inline" -> Str(template.before \o AsString(v))

-----------------------------------------------------------------------------
(* What Postgres keeps of a value in a jsonb column: the same value, its    *)
(* members in Postgres's order.  Values nest at most three deep here.       *)

Normalized(v, Inner(_)) ==
  LET order == InOrder(DOMAIN v.members, [i \in DOMAIN v.members |-> KeyRank[v.members[i][1]]])
  IN CASE v.kind = "array" -> Arr([i \in DOMAIN v.items |-> Inner(v.items[i])])
       [] v.kind = "object" ->
            Obj([k \in DOMAIN order |-> <<v.members[order[k]][1], Inner(v.members[order[k]][2])>>])
       [] OTHER -> v

AsIs(v) == v
Stored(v) ==
  LET Leaf(w) == Normalized(w, AsIs)
      Branch(w) == Normalized(w, Leaf)
  IN Normalized(v, Branch)
=============================================================================
