-------------------------- MODULE MCWorkflowEngine --------------------------
(***************************************************************************)
(* Instances of WorkflowEngine for TLC: three steps a, b, c at positions   *)
(* 1, 2 and 4, of every type, and branches with every kind of target; the  *)
(* id d is of a step that the definitions refer to and do not hold, unless *)
(* an editor inserts it.                                                   *)
(***************************************************************************)
EXTENDS WorkflowEngine, TLC

CONSTANTS a, b, c, d

MCStepId == {a, b, c, d}

MCPosition == (a :> 1) @@ (b :> 2) @@ (c :> 4) @@ (d :> 7)
MCAttempts == (a :> None) @@ (b :> 1) @@ (c :> 3) @@ (d :> None)

AllTargets == [action : {"continue", "end"}]
                \cup [goto_step_id : {a, c, d}]
                \cup [goto_position : {3, 4}]

Definition(types) ==
  [steps |-> {a, b, c}, position |-> MCPosition, type |-> types @@ (d :> "notify"),
   max_attempts |-> MCAttempts, branches |-> [s \in MCStepId |-> AllTargets]]

\* Three steps out of a call, a branch and a gate: the middle one branches or
\* waits, and the outer two differ, so that every type comes before every
\* other, twice in a row, first and last.
MixedDefinitions ==
  {Definition(types) :
     types \in {t \in [{a, b, c} -> {"http_request", "conditional_branch", "approval_gate"}] :
                  t[b] # "http_request" /\ t[a] # t[c]}}

Types(x, y, z) == (a :> x) @@ (b :> y) @@ (c :> z)

\* Liveness takes three, and lets an editor turn one into another while the
\* run goes on: a call, a gate and a branch over what follows it; the gate
\* moved behind the branch; a second gate inserted between them (or removed).
EditedDefinitions ==
  LET base == [Definition(Types("http_request", "approval_gate", "conditional_branch"))
                 EXCEPT !.branches = [s \in MCStepId |-> {[action |-> "continue"], [goto_step_id |-> c]}]]
  IN {base,
      [base EXCEPT !.position[b] = 5],
      [base EXCEPT !.steps = @ \cup {d}, !.position[d] = 3, !.type[d] = "approval_gate"]}

MCSymmetry == Permutations(Delivery) \cup Permutations(Approval)
=============================================================================
