------------------------------ MODULE MCAccess ------------------------------
(***************************************************************************)
(* Instances of Access for TLC.  Users are interchangeable: every          *)
(* assignment of roles is an initial state.                                *)
(***************************************************************************)
EXTENDS Access, TLC

MCSymmetry == Permutations(User)

\* One restricted type and one that is not stand for the six and the four;
\* draft and active differ in nothing.
MCStatus      == {"draft", "archived"}
MCStepType    == {"llm_call", "db_write"}
MCTriggerType == {"manual", "webhook"}

\* The handlers ask of a step that it exists and of a trigger that it is an
\* enabled webhook: they are explored over rows nobody has changed, and with
\* both layers, which they do not depend on.
InUse == \/ \E c \in Call : call[c].at # "idle"
         \/ Rows(run) # {}

AsInserted ==
  /\ layers = {"hasura", "database"}
  /\ \A s \in Rows(step) :
       step[s].type = "llm_call" /\ step[s].under = "owner" /\ step[s].updated_by = None
  /\ \A t \in Rows(trigger) : trigger[t].type = "webhook" /\ trigger[t].updated_by = None

HandlersOverPlainRows == InUse => AsInserted
=============================================================================
