-------------------------------- MODULE Studio --------------------------------
(***************************************************************************)
(* Several browser tabs that edit the steps of one workflow: what each of  *)
(* them shows, the requests it has in flight, and the rows they meet.      *)
(*   apps/web/components/WorkflowEditor.tsx   act, addStep, move, remove   *)
(*   apps/web/components/Dashboard.tsx        loadWorkflows, refreshAll    *)
(*   apps/web/lib/queries.ts                  the mutations                *)
(*   hasura/.../up.sql                        workflow_steps               *)
(*                                                                         *)
(* The workflow belongs to the organization Home; the user of each tab is  *)
(* a member of Home and of Away, which has no workflows, and may edit.     *)
(***************************************************************************)
EXTENDS Integers, FiniteSets, FiniteSetsExt, Functions

CONSTANTS
  Tab,        \* browser tabs
  Request,    \* the requests that tabs may make, each used once
  Existing,   \* the steps that exist at first
  MaxFaults,  \* bound on refusals by the network, lost answers and failed loads
  None

Org == {"Home", "Away"}
Other(o) == IF o = "Home" THEN "Away" ELSE "Home"

\* A step that is added later is known by the request that adds it.
StepId == Existing \cup Request

ASSUME StepAssumption == IsFiniteSet(StepId) /\ Existing \cap Request = {}
\* A list of Dashboard; the steps it does not show have no position.
List == [org : Org, position : [StepId -> Nat \cup {None}]]

ASSUME NoneAssumption == None \notin Nat /\ None \notin Tab /\ None \notin List
ASSUME BoundAssumption == MaxFaults \in Nat

VARIABLES
  position,  \* workflow_steps.position, None if there is no such row
  removed,   \* history: some step was removed
  active,    \* activeOrgId of each tab
  view,      \* workflows of each tab, with the organization it was loaded for
  req,       \* the requests
  spoiled,   \* history: what each tab waits for may be spoiled, see ListIsOfOrg
  faults

vars == <<position, removed, active, view, req, spoiled, faults>>

-----------------------------------------------------------------------------
(* Requests.  One made by act() edits first and then reloads; one made by    *)
(* the effect of Dashboard only loads.  holds: the editor is busy with it.   *)

Unused == [tab |-> None, stage |-> "unused", edit |-> None, holds |-> FALSE, org |-> None, list |-> None]

Over == [Unused EXCEPT !.stage = "over"]

InFlight(q) == req[q].stage \notin {"unused", "over"}
Of(t) == {q \in Request : req[q].tab = t}

\* Variant for a check: only until the edit is answered.
BusyEditing(t) == \E q \in Of(t) : req[q].stage = "sent" /\ req[q].holds

Busy(t) == \E q \in Of(t) : InFlight(q) /\ req[q].holds

\* The list as the server has it for an organization.
ListOf(o) ==
  [org |-> o, position |-> IF o = "Home" THEN position ELSE [s \in StepId |-> None]]

Shown(t) == {s \in StepId : view[t].position[s] # None}
Present == {s \in StepId : position[s] # None}

\* The editor is mounted while the workflow is in the list.
Editing(t) == view[t].org = "Home"

-----------------------------------------------------------------------------
(* Edits.  All are worked out from the list that the tab shows.              *)

nextPosition(t) == 1 + Max({0} \cup {view[t].position[s] : s \in Shown(t)})

Adds(t, q) == {[s \in {q} |-> nextPosition(t)]}

Neighbours(t) ==
  {p \in Shown(t) \X Shown(t) :
     /\ view[t].position[p[1]] < view[t].position[p[2]]
     /\ ~ \E s \in Shown(t) : /\ view[t].position[p[1]] < view[t].position[s]
                              /\ view[t].position[s] < view[t].position[p[2]]}

Swap(t, a, b) == [s \in {a, b} |-> IF s = a THEN view[t].position[b] ELSE view[t].position[a]]

Moves(t) == {Swap(t, p[1], p[2]) : p \in Neighbours(t)}
Removals(t) == {[s \in {n} |-> None] : n \in Shown(t)}

Click(t, q) ==
  /\ req[q].stage = "unused"
  /\ Editing(t) /\ ~ Busy(t)
  /\ \E edit \in [kind : {"add"}, to : Adds(t, q)] \cup [kind : {"move"}, to : Moves(t)]
                   \cup [kind : {"remove"}, to : Removals(t)] :
       req' = [req EXCEPT ![q] = [tab |-> t, stage |-> "sent", edit |-> edit, holds |-> TRUE,
                                  org |-> active[t], list |-> None]]
  /\ UNCHANGED <<position, removed, active, view, spoiled, faults>>

\* One transaction.  An update or a deletion of a row that is gone changes nothing
\* and is no error; positions are compared when the transaction ends.
Affected(edit) == IF edit.kind = "add" THEN DOMAIN edit.to ELSE DOMAIN edit.to \cap Present

After(edit) == [s \in StepId |-> IF s \in Affected(edit) THEN edit.to[s] ELSE position[s]]

\* Variant for a check: the constraint is not there.
AcceptedAlways(edit) == TRUE

\* workflow_steps_unique_position
Accepted(edit) ==
  \A s, u \in StepId : s # u /\ After(edit)[s] # None => After(edit)[s] # After(edit)[u]

Apply(q) ==
  /\ req[q].stage = "sent"
  /\ IF Accepted(req[q].edit)
     THEN /\ position' = After(req[q].edit)
          /\ removed' = (removed \/ (req[q].edit.kind = "remove" /\ Affected(req[q].edit) # {}))
          /\ req' = [req EXCEPT ![q].stage = "accepted"]
     ELSE /\ req' = [req EXCEPT ![q].stage = "refused"]
          /\ UNCHANGED <<position, removed>>
  /\ UNCHANGED <<active, view, spoiled, faults>>

\* The network loses the request, or its answer.
Lose(q) ==
  /\ req[q].stage \in {"sent", "accepted"}
  /\ faults < MaxFaults
  /\ faults' = faults + 1
  /\ req' = [req EXCEPT ![q].stage = "refused"]
  /\ UNCHANGED <<position, removed, active, view, spoiled>>

\* act: an edit that succeeded is followed by onChanged, an error is shown.  The
\* callback is that of the render in which the user clicked.
Answer(q) ==
  /\ req[q].stage \in {"accepted", "refused"}
  /\ req' = [req EXCEPT ![q] = IF req[q].stage = "accepted"
                                    THEN [req[q] EXCEPT !.stage = "load", !.edit = None] ELSE Over]
  /\ UNCHANGED <<position, removed, active, view, spoiled, faults>>

-----------------------------------------------------------------------------
(* Lists. *)

\* Variant for a check: the list is not loaded again.
EffectNever(t, q, o) == UNCHANGED req

\* The effect of Dashboard: loadWorkflows is another function for another
\* organization.
Effect(t, q, o) ==
  req' = [req EXCEPT ![q] = [tab |-> t, stage |-> "load", edit |-> None, holds |-> FALSE,
                             org |-> o, list |-> None]]

SwitchOrg(t, q) ==
  /\ req[q].stage = "unused"
  /\ active' = [active EXCEPT ![t] = Other(active[t])]
  /\ Effect(t, q, Other(active[t]))
  /\ spoiled' = [spoiled EXCEPT ![t] = \E r \in Of(t) : InFlight(r) /\ req[r].org = active[t]]
  /\ UNCHANGED <<position, removed, view, faults>>

Read(q) ==
  /\ req[q].stage = "load"
  /\ req' = [req EXCEPT ![q].stage = "read", ![q].list = ListOf(req[q].org)]
  /\ UNCHANGED <<position, removed, active, view, spoiled, faults>>

\* loadWorkflows catches its error and leaves the list as it is, of whichever
\* organization that is.
LoadFails(q) ==
  LET t == req[q].tab
  IN /\ req[q].stage \in {"load", "read"}
     /\ faults < MaxFaults
     /\ faults' = faults + 1
     /\ req' = [req EXCEPT ![q] = Over]
     /\ spoiled' = [spoiled EXCEPT ![t] = @ \/ view[t].org # active[t]]
     /\ UNCHANGED <<position, removed, active, view>>

\* refreshAll waits for both of its requests; when the other one fails, act is
\* over and the list still on its way.
RefreshFails(q) ==
  /\ req[q].stage \in {"load", "read"} /\ req[q].holds
  /\ faults < MaxFaults
  /\ faults' = faults + 1
  /\ req' = [req EXCEPT ![q].holds = FALSE]
  /\ UNCHANGED <<position, removed, active, view, spoiled>>

\* Whatever list arrives is shown.  An editor that is unmounted takes its busy
\* flag with it.
Arrive(q) ==
  LET t == req[q].tab
      remounted == req[q].list.org # view[t].org
  IN /\ req[q].stage = "read"
     /\ view' = [view EXCEPT ![t] = req[q].list]
     /\ req' = [r \in Request |->
                  IF r = q THEN Over
                  ELSE IF req[r].tab = t /\ remounted THEN [req[r] EXCEPT !.holds = FALSE]
                  ELSE req[r]]
     /\ UNCHANGED <<position, removed, active, spoiled, faults>>

-----------------------------------------------------------------------------
\* The steps that exist stand at 1, 2, ..., in any order; every tab shows them.
Init ==
  /\ position \in {f \in [StepId -> 1..Cardinality(Existing) \cup {None}] :
                     /\ \A s \in StepId : f[s] = None <=> s \notin Existing
                     /\ IsInjective([s \in Existing |-> f[s]])}
  /\ removed = FALSE
  /\ active = [t \in Tab |-> "Home"]
  /\ view = [t \in Tab |-> [org |-> "Home", position |-> position]]
  /\ req = [q \in Request |-> Unused]
  /\ spoiled = [t \in Tab |-> FALSE]
  /\ faults = 0

Next ==
  \/ \E t \in Tab, q \in Request : Click(t, q) \/ SwitchOrg(t, q)
  \/ \E q \in Request :
       Apply(q) \/ Lose(q) \/ Answer(q) \/ Read(q) \/ LoadFails(q) \/ RefreshFails(q) \/ Arrive(q)

Spec == Init /\ [][Next]_vars

-----------------------------------------------------------------------------
(* Properties. *)

\* A record with the fields of Unused and no others.
IsRequest(r) ==
  r \in [tab : {r.tab}, stage : {r.stage}, edit : {r.edit}, holds : {r.holds}, org : {r.org},
         list : {r.list}]

\* Types, and the fields that say in which stage a request is.
Shape ==
  /\ position \in [StepId -> Nat \cup {None}]
  /\ removed \in BOOLEAN /\ spoiled \in [Tab -> BOOLEAN]
  /\ active \in [Tab -> Org]
  /\ view \in [Tab -> List]
  /\ req = [q \in Request |-> req[q]]
  /\ \A q \in Request :
       /\ IsRequest(req[q])
       /\ req[q].tab \in Tab \cup {None}
       /\ req[q].stage \in {"unused", "sent", "accepted", "refused", "load", "read", "over"}
       /\ req[q].holds \in BOOLEAN
       /\ req[q].list \in List \cup {None}
       /\ InFlight(q) <=> req[q].tab # None
       /\ req[q].list # None <=> req[q].stage = "read"
  /\ faults \in 0..MaxFaults

\* Types; a tab is busy with one request at a time.
TypeOK ==
  /\ Shape
  /\ \A q \in Request : Cardinality({r \in Of(req[q].tab) : InFlight(r) /\ req[r].holds}) <= 1

\* As long as nothing is removed the positions are 1, 2, ..., without a gap: an add
\* or a move worked out from a list that has become stale, or made again because
\* its answer was lost, is an append or an exchange still, or is refused.
\* The constraint on the positions does the work of a lock.
OrderIntact ==
  ~ removed => {position[s] : s \in Present} = 1..Cardinality(Present)

\* A tab that waits for nothing shows the list of the organization it says it
\* shows, at any time and after any faults, unless since it was last turned to
\* that organization one of two things happened to it: it was turned while a
\* request for the other organization was in flight, whose answer may come last
\* and win, or a load failed while the list of the other one was shown.  Nothing
\* that happened before counts: the next change of the organization mends it.
ListIsOfOrg ==
  \A t \in Tab :
    ~ spoiled[t] /\ (\A q \in Of(t) : ~ InFlight(q)) => view[t].org = active[t]

-----------------------------------------------------------------------------
(* What holds in every state so that the properties do.                      *)

\* An edit in flight is of its request and its tab.
EditInv ==
  \A q \in Request : req[q].stage = "sent" =>
    LET edit == req[q].edit IN
    /\ edit.kind \in {"add", "move", "remove"}
    /\ DOMAIN edit.to \subseteq StepId
    /\ edit.kind = "add" => DOMAIN edit.to = {q}
    /\ \A s \in DOMAIN edit.to : IF edit.kind = "remove" THEN edit.to[s] = None
                                                          ELSE edit.to[s] \in Nat

\* The positions that a list names are among those of the steps there are.
Within(list) ==
  \A s \in StepId : list[s] # None => list[s] \in 1..Cardinality(Present)

\* What an edit asks for is one of those, or for an added step the next one.
Asks(edit) ==
  edit.kind # "remove" => \A s \in DOMAIN edit.to :
    edit.to[s] \in 1..(Cardinality(Present) + IF edit.kind = "add" THEN 1 ELSE 0)

OrderInv ==
  /\ \A s, u \in Present : position[s] = position[u] => s = u
  /\ \A q \in Request : req[q].stage \in {"unused", "sent"} => position[q] = None
  /\ ~ removed =>
       /\ Within(position)
       /\ \A t \in Tab : Within(view[t].position)
       /\ \A q \in Request : req[q].stage = "read" => Within(req[q].list.position)
       /\ \A q \in Request : req[q].stage = "sent" => Asks(req[q].edit)

\* A busy tab has one request that holds it.
HoldsInv ==
  \A q, r \in Request :
    /\ InFlight(q) /\ req[q].holds
    /\ InFlight(r) /\ req[r].holds
    /\ req[q].tab = req[r].tab
    => q = r

\* Unless that happened a request asks for the organization its tab is turned
\* to, and a tab that does not show that one has its list on the way.
OrgInv ==
  /\ \A q \in Request : req[q].stage = "read" => req[q].list.org = req[q].org
  /\ \A q \in Request : InFlight(q) => req[q].org \in Org
  /\ \A q \in Request :
       InFlight(q) /\ ~ spoiled[req[q].tab] => req[q].org = active[req[q].tab]
  /\ \A t \in Tab :
       \/ spoiled[t]
       \/ view[t].org = active[t]
       \/ \E q \in Of(t) : req[q].stage \in {"load", "read"}

StudioInductiveInv == Shape /\ EditInv /\ OrderInv /\ HoldsInv /\ OrgInv
=============================================================================
