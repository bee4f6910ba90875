---------------------------- MODULE Studio_proofs ----------------------------
(***************************************************************************)
(* Proofs about Studio, for every number of tabs, requests, steps and      *)
(* faults: the shape of its state (TypeOK), that the steps stay numbered   *)
(* without a gap (OrderIntact), and which organization's list is shown     *)
(* (ListIsOfOrg).                                                          *)
(*                                                                         *)
(* OrderIntact rests on two facts that edits keep where the exact order    *)
(* does not last: positions differ (the constraint of the table), and none *)
(* exceeds the number of steps, as no list, however old, and no edit made  *)
(* from it, names a position beyond them.  By the pigeonhole principle     *)
(* they are then all taken.                                                *)
(***************************************************************************)
EXTENDS Studio, FiniteSetTheorems, TLAPS

-----------------------------------------------------------------------------
(* Finite sets of numbers.                                                 *)

\* A finite set of naturals that is not empty has a largest element.
LEMMA FiniteHasMax ==
  ASSUME NEW S \in SUBSET Nat, IsFiniteSet(S), S # {}
  PROVE  Max(S) \in S /\ \A x \in S : x <= Max(S)
<1>. DEFINE HasMax(U) == \E x \in U : \A y \in U : x >= y
            Bad == {U \in FiniteSubsetsOf(Nat) : U # {} /\ ~ HasMax(U)}
<1>1. HasMax(S)
  <2>1. SUFFICES ASSUME ~ HasMax(S) PROVE FALSE
    OBVIOUS
  <2>2. S \in Bad
    BY <2>1 DEF FiniteSubsetsOf
  <2>3. Bad \subseteq FiniteSubsetsOf(Nat) /\ Bad # {}
    BY <2>2
  <2>4. IsWellFoundedOn(StrictSubsetOrdering(Nat), FiniteSubsetsOf(Nat))
    BY FS_StrictSubsetOrderingWellFounded
  <2>5. PICK U \in Bad : \A V \in Bad : <<V, U>> \notin StrictSubsetOrdering(Nat)
    <3>. HIDE DEF Bad
    <3>. QED BY <2>3, <2>4, WFMin
  <2>6. U \in SUBSET Nat /\ IsFiniteSet(U) /\ U # {} /\ ~ HasMax(U)
    BY DEF FiniteSubsetsOf
  <2>7. PICK x \in U : TRUE
    BY <2>6
  <2>. DEFINE V == U \ {x}
  <2>8. V \in SUBSET Nat /\ IsFiniteSet(V) /\ V \subseteq U /\ V # U
    BY <2>6, FS_RemoveElement
  <2>9. <<V, U>> \in StrictSubsetOrdering(Nat)
    BY <2>6, <2>8 DEF StrictSubsetOrdering
  <2>10. V \notin Bad
    BY <2>5, <2>9
  <2>11. CASE V = {}
    BY <2>6, <2>7, <2>11
  <2>12. CASE V # {}
    <3>1. PICK y \in V : \A z \in V : y >= z
      BY <2>8, <2>10, <2>12 DEF FiniteSubsetsOf
    <3>2. x \in Nat /\ y \in Nat
      BY <2>6, <2>8
    <3>3. CASE x >= y
      <4>1. \A z \in U : x >= z
        BY <2>6, <3>1, <3>2, <3>3
      <4>. QED BY <2>6, <4>1
    <3>4. CASE y >= x
      <4>1. \A z \in U : y >= z
        BY <2>6, <3>1, <3>2, <3>4
      <4>. QED BY <2>6, <2>8, <4>1
    <3>. QED BY <3>2, <3>3, <3>4
  <2>. QED BY <2>11, <2>12
<1>2. Max(S) \in S /\ \A y \in S : Max(S) >= y
  <2>. HIDE DEF HasMax
  <2>. QED BY <1>1 DEF Max, HasMax
<1>. QED BY <1>2

\* The steps that exist, and those that a list shows, are finitely many.
LEMMA FinitelyManySteps ==
  /\ IsFiniteSet(Present) /\ Cardinality(Present) \in Nat
  /\ \A t \in Tab : IsFiniteSet(Shown(t))
BY StepAssumption, FS_Subset, FS_CardinalityType DEF Present, Shown

\* Different positions, none beyond the number of steps, leave no gap.
LEMMA NoGap ==
  ASSUME position \in [StepId -> Nat \cup {None}],
         \A s, u \in Present : position[s] = position[u] => s = u,
         Within(position)
  PROVE  {position[s] : s \in Present} = 1..Cardinality(Present)
<1>. DEFINE n == Cardinality(Present)
            f == [s \in Present |-> position[s]]
<1>1. n \in Nat /\ IsFiniteSet(Present)
  BY FinitelyManySteps
<1>2. \A s \in Present : position[s] \in 1..n
  BY DEF Within, Present
<1>3. f \in Injection(Present, 1..n)
  <2>1. f \in [Present -> 1..n]
    BY <1>2
  <2>2. IsInjective(f)
    BY DEF IsInjective
  <2>. QED BY <2>1, <2>2 DEF Injection
<1>4. IsFiniteSet(1..n) /\ Cardinality(1..n) = n
  BY <1>1, FS_Interval
<1>5. f \in Surjection(Present, 1..n)
  <2>. HIDE DEF f
  <2>. QED BY <1>3, <1>4, FS_Injection
<1>6. \A k \in 1..n : \E s \in Present : position[s] = k
  BY <1>5 DEF Surjection
<1>. QED BY <1>2, <1>6
-----------------------------------------------------------------------------
(* Requests.                                                               *)

\* What Shape says of one request.
IsRow(r) ==
  /\ IsRequest(r)
  /\ r.tab \in Tab \cup {None}
  /\ r.stage \in {"unused", "sent", "accepted", "refused", "load", "read", "over"}
  /\ r.holds \in BOOLEAN
  /\ r.list \in List \cup {None}
  /\ (r.stage \notin {"unused", "over"}) <=> (r.tab # None)
  /\ (r.list # None) <=> (r.stage = "read")

\* The shape of the state, request by request.
LEMMA ShapeRows ==
  ASSUME Shape
  PROVE  /\ req = [q \in Request |-> req[q]]
         /\ \A q \in Request : IsRow(req[q])
BY DEF Shape, IsRow, InFlight

\* A request that is over has no tab.
LEMMA OverFields == IsRow(Over) /\ Over.stage = "over" /\ Over.tab = None
<1>1. /\ Unused \in [tab : {None}, stage : {"unused"}, edit : {None}, holds : {FALSE}, org : {None},
                     list : {None}]
  BY DEF Unused
<1>2. Over \in [tab : {None}, stage : {"over"}, edit : {None}, holds : {FALSE}, org : {None},
               list : {None}]
  BY <1>1 DEF Over
<1>3. /\ Over.stage = "over" /\ Over.tab = None /\ Over.holds = FALSE /\ Over.list = None
      /\ IsRequest(Over)
  BY <1>2 DEF IsRequest
<1>. QED BY <1>3 DEF IsRow

\* One request changes and the others do not.
LEMMA OneRequest ==
  ASSUME Shape, NEW q \in Request, NEW w, req' = [req EXCEPT ![q] = w]
  PROVE  /\ req' = [r \in Request |-> req'[r]]
         /\ req'[q] = w
         /\ \A r \in Request \ {q} : req'[r] = req[r]
BY DEF Shape

-----------------------------------------------------------------------------
(* Steps that change one request and leave the rest but the faults alone.  *)

\* A request that was made goes on with the tab it is of and the organization
\* it asks for, or is over: answered, lost, read, failed, or no longer waited
\* for.  A load that fails spoils its tab, unless that shows the right list.
LEMMA RequestGoesOn ==
  ASSUME StudioInductiveInv, NEW q \in Request, NEW w,
         InFlight(q),
         req' = [req EXCEPT ![q] = w],
         UNCHANGED <<position, removed, active, view>>,
         spoiled' \in [Tab -> BOOLEAN],
         \A t \in Tab : spoiled[t] => spoiled'[t],
         \/ faults' = faults
         \/ faults < MaxFaults /\ faults' = faults + 1,
         IsRow(w),
         w.stage \notin {"sent", "unused"},
         \/ w.stage = "over"
         \/ /\ w.tab = req[q].tab /\ w.org = req[q].org
            /\ w.holds => req[q].holds,
         w.stage = "read" =>
           /\ w.list.org = w.org
           /\ ~ removed => Within(w.list.position),
         \/ req[q].stage \notin {"load", "read"}
         \/ w.stage \in {"load", "read"}
         \/ view[req[q].tab].org = active[req[q].tab]
         \/ spoiled'[req[q].tab]
  PROVE  StudioInductiveInv'
<1>1. /\ req' = [r \in Request |-> req'[r]]
      /\ req'[q] = w
      /\ \A r \in Request \ {q} : req'[r] = req[r]
  BY OneRequest DEF StudioInductiveInv
<1>2. \A r \in Request : IsRow(req[r]) /\ IsRow(req'[r])
  BY <1>1, ShapeRows DEF StudioInductiveInv
<1>3. faults' \in 0..MaxFaults
  <2>1. faults \in 0..MaxFaults /\ MaxFaults \in Nat
    BY BoundAssumption DEF StudioInductiveInv, Shape
  <2>. QED BY <2>1
<1>4. Shape'
  <2>1. /\ position' \in [StepId -> Nat \cup {None}]
        /\ removed' \in BOOLEAN /\ spoiled' \in [Tab -> BOOLEAN]
        /\ active' \in [Tab -> Org]
        /\ view' \in [Tab -> List]
    BY DEF StudioInductiveInv, Shape
  <2>. QED BY <1>1, <1>2, <1>3, <2>1 DEF Shape, IsRow, InFlight
<1>5. EditInv'
  BY <1>1 DEF StudioInductiveInv, EditInv
<1>6. OrderInv'
  <2>1. Present' = Present
    BY DEF Present
  <2>2. \A r \in Request : req'[r].stage \in {"unused", "sent"} => req[r] = req'[r]
    BY <1>1
  <2>3. ASSUME ~ removed, NEW r \in Request, req'[r].stage = "read"
        PROVE  Within(req'[r].list.position)
    BY <1>1, <2>3 DEF StudioInductiveInv, OrderInv
  <2>4. ASSUME ~ removed, NEW r \in Request, req'[r].stage = "sent"
        PROVE  Asks(req'[r].edit)
    BY <1>1, <2>4 DEF StudioInductiveInv, OrderInv
  <2>. QED BY <2>1, <2>2, <2>3, <2>4 DEF StudioInductiveInv, OrderInv, Within, Asks
<1>7. HoldsInv'
  <2>1. \A r \in Request : InFlight(r)' /\ req'[r].holds =>
          InFlight(r) /\ req[r].holds /\ req'[r].tab = req[r].tab
    BY <1>1 DEF InFlight
  <2>. QED BY <2>1 DEF StudioInductiveInv, HoldsInv
<1>8. OrgInv'
  <2>1. \A r \in Request : InFlight(r)' =>
          InFlight(r) /\ req'[r].org = req[r].org /\ req'[r].tab = req[r].tab
    BY <1>1 DEF InFlight
  <2>2. \A r \in Request : req'[r].stage = "read" => req'[r].list.org = req'[r].org
    BY <1>1 DEF StudioInductiveInv, OrgInv
  <2>3. ASSUME NEW t \in Tab
        PROVE  \/ spoiled'[t] \/ view[t].org = active[t]
               \/ \E r \in Of(t)' : req'[r].stage \in {"load", "read"}
    <3>1. CASE spoiled[t] \/ view[t].org = active[t]
      BY <3>1
    <3>2. ASSUME NEW r \in Of(t), req[r].stage \in {"load", "read"},
                 ~ spoiled'[t], view[t].org # active[t]
          PROVE  r \in Of(t)' /\ req'[r].stage \in {"load", "read"}
      <4>1. r \in Request /\ req[r].tab = t
        BY DEF Of
      <4>2. CASE r = q
        <5>1. w.stage \in {"load", "read"}
          BY <3>2, <4>1, <4>2
        <5>2. w.tab = t
          BY <4>1, <4>2, <5>1
        <5>. QED BY <1>1, <4>1, <4>2, <5>1, <5>2 DEF Of
      <4>3. CASE r # q
        BY <1>1, <3>2, <4>1, <4>3 DEF Of
      <4>. QED BY <4>2, <4>3
    <3>. QED BY <3>1, <3>2 DEF StudioInductiveInv, OrgInv
  <2>4. /\ \A r \in Request : InFlight(r)' => req'[r].org \in Org
        /\ \A r \in Request : InFlight(r)' /\ ~ spoiled'[req'[r].tab] => req'[r].org = active[req'[r].tab]
    <3>1. \A r \in Request : InFlight(r)' => req'[r].tab \in Tab
      BY <1>2 DEF InFlight, IsRow
    <3>. QED BY <2>1, <3>1 DEF StudioInductiveInv, OrgInv
  <2>. QED BY <2>2, <2>3, <2>4 DEF OrgInv
<1>. QED BY <1>4, <1>5, <1>6, <1>7, <1>8 DEF StudioInductiveInv

\* A request or its answer is lost.
LEMMA Lost ==
  ASSUME StudioInductiveInv, NEW q \in Request, Lose(q)
  PROVE  StudioInductiveInv'
<1>. DEFINE w == [req[q] EXCEPT !.stage = "refused"]
<1>1. /\ req[q].stage \in {"sent", "accepted"}
      /\ faults < MaxFaults /\ faults' = faults + 1
      /\ req' = [req EXCEPT ![q] = w]
      /\ UNCHANGED <<position, removed, active, view, spoiled>>
  BY DEF Lose
<1>2. IsRow(req[q])
  BY ShapeRows DEF StudioInductiveInv
<1>3. /\ w.stage = "refused" /\ w.tab = req[q].tab /\ w.org = req[q].org
      /\ w.holds = req[q].holds /\ w.list = req[q].list /\ IsRequest(w)
  <2>1. IsRequest(req[q])
    BY <1>2 DEF IsRow
  <2>. QED BY <2>1 DEF IsRequest
<1>. HIDE DEF w
<1>4. IsRow(w)
  BY <1>1, <1>2, <1>3 DEF IsRow
<1>5. InFlight(q) /\ req[q].stage \notin {"load", "read"} /\ spoiled' \in [Tab -> BOOLEAN]
  BY <1>1 DEF InFlight, StudioInductiveInv, Shape
<1>. QED BY <1>1, <1>3, <1>4, <1>5, RequestGoesOn

\* The answer of an edit: reload, or show the error.
LEMMA AnsweredEdit ==
  ASSUME StudioInductiveInv, NEW q \in Request, Answer(q)
  PROVE  StudioInductiveInv'
<1>. DEFINE v == [req[q] EXCEPT !.stage = "load", !.edit = None]
            w == IF req[q].stage = "accepted" THEN v ELSE Over
<1>1. /\ req[q].stage \in {"accepted", "refused"}
      /\ req' = [req EXCEPT ![q] = w]
      /\ UNCHANGED <<position, removed, active, view, spoiled, faults>>
  BY DEF Answer
<1>2. IsRow(req[q])
  BY ShapeRows DEF StudioInductiveInv
<1>3. /\ v.stage = "load" /\ v.tab = req[q].tab /\ v.org = req[q].org
      /\ v.holds = req[q].holds /\ v.list = req[q].list /\ IsRequest(v)
  <2>1. IsRequest(req[q])
    BY <1>2 DEF IsRow
  <2>. QED BY <2>1 DEF IsRequest
<1>4. w = v \/ w = Over
  OBVIOUS
<1>. HIDE DEF v, w
<1>5. req[q].list = None
  BY <1>1, <1>2 DEF IsRow
<1>6. IsRow(v)
  BY <1>1, <1>2, <1>3, <1>5 DEF IsRow
<1>7. /\ IsRow(w) /\ w.stage \in {"load", "over"}
      /\ w.stage = "over" \/ (w.tab = req[q].tab /\ w.org = req[q].org /\ w.holds = req[q].holds)
  BY <1>3, <1>4, <1>6, OverFields
<1>8. InFlight(q) /\ req[q].stage \notin {"load", "read"} /\ spoiled' \in [Tab -> BOOLEAN]
  BY <1>1 DEF InFlight, StudioInductiveInv, Shape
<1>. QED BY <1>1, <1>7, <1>8, RequestGoesOn

\* The server reads the list that a request asks for.
LEMMA ListRead ==
  ASSUME StudioInductiveInv, NEW q \in Request, Read(q)
  PROVE  StudioInductiveInv'
<1>. DEFINE o == req[q].org
            l == ListOf(o)
            w == [req[q] EXCEPT !.stage = "read", !.list = l]
<1>1. /\ req[q].stage = "load"
      /\ req' = [req EXCEPT ![q] = w]
      /\ UNCHANGED <<position, removed, active, view, spoiled, faults>>
  BY DEF Read
<1>2. IsRow(req[q])
  BY ShapeRows DEF StudioInductiveInv
<1>3. InFlight(q) /\ o \in Org /\ spoiled' \in [Tab -> BOOLEAN]
  BY <1>1 DEF InFlight, StudioInductiveInv, Shape, OrgInv
<1>4. /\ l \in List /\ l.org = o
      /\ ~ removed => Within(l.position)
  <2>1. position \in [StepId -> Nat \cup {None}]
    BY DEF StudioInductiveInv, Shape
  <2>2. ~ removed => Within(position)
    BY DEF StudioInductiveInv, OrderInv
  <2>3. l.position = position \/ l.position = [s \in StepId |-> None]
    BY DEF ListOf
  <2>4. Within([s \in StepId |-> None])
    BY DEF Within
  <2>. QED BY <1>3, <2>1, <2>2, <2>3, <2>4 DEF ListOf, List
<1>5. /\ w.stage = "read" /\ w.tab = req[q].tab /\ w.org = req[q].org
      /\ w.holds = req[q].holds /\ w.list = l /\ IsRequest(w)
  <2>1. IsRequest(req[q])
    BY <1>2 DEF IsRow
  <2>. QED BY <2>1 DEF IsRequest
<1>6. l # None
  BY <1>4, NoneAssumption
<1>. HIDE DEF w, l
<1>7. IsRow(w)
  BY <1>1, <1>2, <1>4, <1>5, <1>6 DEF IsRow
<1>. QED BY <1>1, <1>3, <1>4, <1>5, <1>7, RequestGoesOn

\* A list, or what is loaded with it, does not arrive.
LEMMA LoadFailed ==
  ASSUME StudioInductiveInv, NEW q \in Request, LoadFails(q) \/ RefreshFails(q)
  PROVE  StudioInductiveInv'
<1>. DEFINE v == [req[q] EXCEPT !.holds = FALSE]
<1>1. PICK w \in {v, Over} :
        /\ req' = [req EXCEPT ![q] = w]
        /\ req[q].stage \in {"load", "read"}
        /\ faults < MaxFaults /\ faults' = faults + 1
        /\ UNCHANGED <<position, removed, active, view>>
        /\ \/ w = v /\ spoiled' = spoiled
           \/ w = Over /\ spoiled' = [spoiled EXCEPT ![req[q].tab] =
                                        @ \/ view[req[q].tab].org # active[req[q].tab]]
  <2>1. CASE LoadFails(q)
    BY <2>1 DEF LoadFails
  <2>2. CASE RefreshFails(q)
    BY <2>2 DEF RefreshFails
  <2>. QED BY <2>1, <2>2
<1>2. IsRow(req[q])
  BY ShapeRows DEF StudioInductiveInv
<1>3. /\ v.stage = req[q].stage /\ v.tab = req[q].tab /\ v.org = req[q].org
      /\ v.holds = FALSE /\ v.list = req[q].list /\ IsRequest(v)
  <2>1. IsRequest(req[q])
    BY <1>2 DEF IsRow
  <2>. QED BY <2>1 DEF IsRequest
<1>4. w = v \/ w = Over
  OBVIOUS
<1>. HIDE DEF v
<1>5. IsRow(v)
  BY <1>2, <1>3 DEF IsRow
<1>6. /\ IsRow(w) /\ w.stage \notin {"sent", "unused"}
      /\ w.stage = "over" \/ (w.tab = req[q].tab /\ w.org = req[q].org /\ ~ w.holds)
  BY <1>1, <1>3, <1>4, <1>5, OverFields
<1>7. w.stage = "read" => w.list.org = w.org /\ (~ removed => Within(w.list.position))
  <2>1. req[q].stage = "read" => /\ req[q].list.org = req[q].org
                                 /\ ~ removed => Within(req[q].list.position)
    BY DEF StudioInductiveInv, OrgInv, OrderInv
  <2>. QED BY <1>3, <1>4, <2>1, OverFields
<1>8. InFlight(q) /\ req[q].tab \in Tab /\ spoiled \in [Tab -> BOOLEAN]
  BY <1>1, <1>2 DEF InFlight, IsRow, StudioInductiveInv, Shape
<1>9. /\ spoiled' \in [Tab -> BOOLEAN]
      /\ \A t \in Tab : spoiled[t] => spoiled'[t]
      /\ w = v \/ view[req[q].tab].org = active[req[q].tab] \/ spoiled'[req[q].tab]
  BY <1>1, <1>8
<1>10. \/ w.stage \in {"load", "read"}
       \/ view[req[q].tab].org = active[req[q].tab]
       \/ spoiled'[req[q].tab]
  BY <1>1, <1>3, <1>9
<1>. QED BY <1>1, <1>6, <1>7, <1>8, <1>9, <1>10, RequestGoesOn
-----------------------------------------------------------------------------
(* The edit that a click asks for.                                         *)

\* A list shows naturals.
LEMMA ListShows ==
  ASSUME StudioInductiveInv, NEW t \in Tab
  PROVE  /\ view[t].org \in Org
         /\ view[t].position \in [StepId -> Nat \cup {None}]
         /\ Shown(t) \subseteq StepId
         /\ \A s \in Shown(t) : view[t].position[s] \in Nat
         /\ ~ removed => \A s \in Shown(t) : view[t].position[s] \in 1..Cardinality(Present)
<1>1. view[t] \in List
  BY DEF StudioInductiveInv, Shape
<1>2. view[t].org \in Org /\ view[t].position \in [StepId -> Nat \cup {None}]
  BY <1>1 DEF List
<1>3. ~ removed => Within(view[t].position)
  BY DEF StudioInductiveInv, OrderInv
<1>. QED BY <1>2, <1>3 DEF Shown, Within

\* A step is added behind those shown, and so at most one behind those there are.
LEMMA NextPositionBounded ==
  ASSUME StudioInductiveInv, NEW t \in Tab
  PROVE  /\ nextPosition(t) \in Nat
         /\ ~ removed => nextPosition(t) \in 1..(Cardinality(Present) + 1)
<1>. DEFINE f == [s \in Shown(t) |-> view[t].position[s]]
            I == {view[t].position[s] : s \in Shown(t)}
            S == {0} \cup I
<1>1. IsFiniteSet(I)
  <2>1. f \in Surjection(Shown(t), I)
    BY DEF Surjection
  <2>2. IsFiniteSet(Shown(t))
    BY FinitelyManySteps
  <2>. QED BY <2>1, <2>2, FS_Surjection
<1>2. S \in SUBSET Nat /\ S # {}
  BY ListShows
<1>3. IsFiniteSet(S)
  <2>1. IsFiniteSet(I \cup {0})
    BY <1>1, FS_AddElement
  <2>2. S = I \cup {0}
    OBVIOUS
  <2>. QED BY <2>1, <2>2
<1>4. ~ removed => \A x \in S : x <= Cardinality(Present)
  <2>1. Cardinality(Present) \in Nat
    BY FinitelyManySteps
  <2>2. ~ removed => \A x \in I : x \in 1..Cardinality(Present)
    BY ListShows
  <2>. QED BY <2>1, <2>2
<1>5. nextPosition(t) = 1 + Max(S)
  BY DEF nextPosition
<1>. HIDE DEF S
<1>6. Max(S) \in S
  BY <1>2, <1>3, FiniteHasMax
<1>7. Max(S) \in Nat /\ Cardinality(Present) \in Nat
  BY <1>2, <1>6, FinitelyManySteps
<1>8. ~ removed => Max(S) <= Cardinality(Present)
  BY <1>4, <1>6
<1>. QED BY <1>5, <1>7, <1>8

\* What is asked for is well formed, and within the positions there are.
LEMMA EditMade ==
  ASSUME StudioInductiveInv, NEW t \in Tab, NEW q \in Request,
         NEW e \in [kind : {"add"}, to : Adds(t, q)] \cup [kind : {"move"}, to : Moves(t)]
                     \cup [kind : {"remove"}, to : Removals(t)]
  PROVE  /\ e.kind \in {"add", "move", "remove"}
         /\ DOMAIN e.to \subseteq StepId
         /\ e.kind = "add" => DOMAIN e.to = {q}
         /\ \A s \in DOMAIN e.to : IF e.kind = "remove" THEN e.to[s] = None ELSE e.to[s] \in Nat
         /\ ~ removed => Asks(e)
<1>1. Cardinality(Present) \in Nat
  BY FinitelyManySteps
<1>2. CASE e \in [kind : {"add"}, to : Adds(t, q)]
  <2>1. e.kind = "add" /\ e.to = [s \in {q} |-> nextPosition(t)]
    BY <1>2 DEF Adds
  <2>2. DOMAIN e.to = {q} /\ e.to[q] = nextPosition(t)
    BY <2>1
  <2>. QED BY <2>1, <2>2, NextPositionBounded DEF StepId, Asks
<1>3. CASE e \in [kind : {"move"}, to : Moves(t)]
  <2>1. e.kind = "move" /\ e.to \in Moves(t)
    BY <1>3
  <2>2. PICK a \in Shown(t), b \in Shown(t) : e.to = Swap(t, a, b)
    BY <2>1 DEF Moves, Neighbours
  <2>3. /\ DOMAIN e.to = {a, b}
        /\ \A s \in {a, b} : e.to[s] \in {view[t].position[a], view[t].position[b]}
    BY <2>2 DEF Swap
  <2>4. Shown(t) \subseteq StepId
    BY ListShows
  <2>5. \A s \in DOMAIN e.to : e.to[s] \in Nat
    BY <2>3, ListShows
  <2>6. ~ removed => \A s \in DOMAIN e.to : e.to[s] \in 1..Cardinality(Present)
    BY <2>3, ListShows
  <2>7. ~ removed => Asks(e)
    BY <1>1, <2>1, <2>6 DEF Asks
  <2>. QED BY <2>1, <2>3, <2>4, <2>5, <2>7
<1>4. CASE e \in [kind : {"remove"}, to : Removals(t)]
  <2>1. e.kind = "remove" /\ e.to \in Removals(t)
    BY <1>4
  <2>2. PICK n \in Shown(t) : e.to = [s \in {n} |-> None]
    BY <2>1 DEF Removals
  <2>. QED BY <2>1, <2>2, ListShows DEF Asks
<1>. QED BY <1>2, <1>3, <1>4

-----------------------------------------------------------------------------
(* Steps that make a request.                                              *)

\* A click, in a tab that is not busy.
LEMMA Clicked ==
  ASSUME StudioInductiveInv, NEW t \in Tab, NEW q \in Request, Click(t, q)
  PROVE  StudioInductiveInv'
<1>1. /\ req[q].stage = "unused" /\ ~ Busy(t)
      /\ UNCHANGED <<position, removed, active, view, spoiled, faults>>
  BY DEF Click
<1>2. PICK e \in [kind : {"add"}, to : Adds(t, q)] \cup [kind : {"move"}, to : Moves(t)]
                   \cup [kind : {"remove"}, to : Removals(t)] :
        req' = [req EXCEPT ![q] = [tab |-> t, stage |-> "sent", edit |-> e, holds |-> TRUE,
                                   org |-> active[t], list |-> None]]
  BY DEF Click
<1>. DEFINE w == [tab |-> t, stage |-> "sent", edit |-> e, holds |-> TRUE,
                  org |-> active[t], list |-> None]
<1>3. /\ w.tab = t /\ w.stage = "sent" /\ w.edit = e /\ w.holds = TRUE
      /\ w.org = active[t] /\ w.list = None
  OBVIOUS
<1>4. IsRow(w)
  BY <1>3, NoneAssumption DEF IsRow, IsRequest
<1>5. /\ e.kind \in {"add", "move", "remove"}
      /\ DOMAIN e.to \subseteq StepId
      /\ e.kind = "add" => DOMAIN e.to = {q}
      /\ \A s \in DOMAIN e.to : IF e.kind = "remove" THEN e.to[s] = None ELSE e.to[s] \in Nat
      /\ ~ removed => Asks(e)
  BY EditMade
<1>6. /\ req' = [r \in Request |-> req'[r]]
      /\ req'[q] = w
      /\ \A r \in Request \ {q} : req'[r] = req[r]
  BY <1>2, OneRequest DEF StudioInductiveInv
<1>. HIDE DEF w
<1>7. \A r \in Request : IsRow(req'[r])
  BY <1>4, <1>6, ShapeRows DEF StudioInductiveInv
<1>8. Shape'
  <2>1. /\ position' \in [StepId -> Nat \cup {None}]
        /\ removed' \in BOOLEAN /\ spoiled' \in [Tab -> BOOLEAN]
        /\ active' \in [Tab -> Org]
        /\ view' \in [Tab -> List]
        /\ faults' \in 0..MaxFaults
    BY <1>1 DEF StudioInductiveInv, Shape
  <2>. QED BY <1>6, <1>7, <2>1 DEF Shape, IsRow, InFlight
<1>9. EditInv'
  BY <1>3, <1>5, <1>6 DEF StudioInductiveInv, EditInv
<1>10. OrderInv'
  <2>1. Present' = Present
    BY <1>1 DEF Present
  <2>2. \A r \in Request : req'[r].stage \in {"unused", "sent"} => req[r].stage \in {"unused", "sent"}
    BY <1>1, <1>6
  <2>3. ASSUME ~ removed, NEW r \in Request, req'[r].stage = "read"
        PROVE  Within(req'[r].list.position)
    BY <1>3, <1>6, <2>3 DEF StudioInductiveInv, OrderInv
  <2>4. ASSUME ~ removed, NEW r \in Request, req'[r].stage = "sent"
        PROVE  Asks(req'[r].edit)
    BY <1>3, <1>5, <1>6, <2>4 DEF StudioInductiveInv, OrderInv
  <2>. QED BY <1>1, <2>1, <2>2, <2>3, <2>4 DEF StudioInductiveInv, OrderInv, Within, Asks
<1>11. HoldsInv'
  <2>1. \A r \in Request \ {q} : InFlight(r)' => InFlight(r) /\ req'[r] = req[r]
    BY <1>6 DEF InFlight
  <2>2. \A r \in Request : InFlight(r) /\ req[r].holds => req[r].tab # t
    BY <1>1 DEF Busy, Of
  <2>. QED BY <1>3, <1>6, <2>1, <2>2 DEF StudioInductiveInv, HoldsInv
<1>12. OrgInv'
  <2>1. active[t] \in Org
    BY DEF StudioInductiveInv, Shape
  <2>2. \A r \in Request : req'[r].stage = "read" => req'[r].list.org = req'[r].org
    BY <1>3, <1>6 DEF StudioInductiveInv, OrgInv
  <2>3. \A r \in Request \ {q} : InFlight(r)' => InFlight(r) /\ req'[r] = req[r]
    BY <1>6 DEF InFlight
  <2>4. /\ \A r \in Request : InFlight(r)' => req'[r].org \in Org
        /\ \A r \in Request : InFlight(r)' /\ ~ spoiled[req'[r].tab] => req'[r].org = active[req'[r].tab]
    BY <1>3, <1>6, <2>1, <2>3 DEF StudioInductiveInv, OrgInv
  <2>5. \A u \in Tab : \A r \in Of(u) : req[r].stage \in {"load", "read"} =>
          r \in Of(u)' /\ req'[r].stage \in {"load", "read"}
    BY <1>1, <1>6 DEF Of
  <2>. QED BY <1>1, <2>2, <2>4, <2>5 DEF StudioInductiveInv, OrgInv
<1>. QED BY <1>8, <1>9, <1>10, <1>11, <1>12 DEF StudioInductiveInv

\* A tab turns to the other organization and asks for its list.
LEMMA OrgSwitched ==
  ASSUME StudioInductiveInv, NEW t \in Tab, NEW q \in Request, SwitchOrg(t, q)
  PROVE  StudioInductiveInv'
<1>. DEFINE o == Other(active[t])
            w == [tab |-> t, stage |-> "load", edit |-> None, holds |-> FALSE, org |-> o, list |-> None]
<1>1. /\ req[q].stage = "unused"
      /\ active' = [active EXCEPT ![t] = o]
      /\ req' = [req EXCEPT ![q] = w]
      /\ spoiled' = [spoiled EXCEPT ![t] = \E r \in Of(t) : InFlight(r) /\ req[r].org = active[t]]
      /\ UNCHANGED <<position, removed, view, faults>>
  BY DEF SwitchOrg, Effect
<1>2. /\ w.tab = t /\ w.stage = "load" /\ w.holds = FALSE /\ w.org = o /\ w.list = None
  OBVIOUS
<1>3. IsRow(w)
  BY <1>2, NoneAssumption DEF IsRow, IsRequest
<1>4. /\ req' = [r \in Request |-> req'[r]]
      /\ req'[q] = w
      /\ \A r \in Request \ {q} : req'[r] = req[r]
  BY <1>1, OneRequest DEF StudioInductiveInv
<1>5. o \in Org
  BY DEF Other, Org
<1>. HIDE DEF w, o
<1>6. \A r \in Request : IsRow(req'[r])
  BY <1>3, <1>4, ShapeRows DEF StudioInductiveInv
<1>7. /\ active' \in [Tab -> Org]
      /\ active'[t] = o
      /\ \A u \in Tab \ {t} : active'[u] = active[u]
  BY <1>1, <1>5 DEF StudioInductiveInv, Shape
<1>7a. /\ spoiled' \in [Tab -> BOOLEAN]
       /\ spoiled'[t] <=> \E r \in Of(t) : InFlight(r) /\ req[r].org = active[t]
       /\ \A u \in Tab \ {t} : spoiled'[u] = spoiled[u]
  BY <1>1 DEF StudioInductiveInv, Shape
<1>8. Shape'
  <2>1. /\ position' \in [StepId -> Nat \cup {None}]
        /\ removed' \in BOOLEAN
        /\ view' \in [Tab -> List]
        /\ faults' \in 0..MaxFaults
    BY <1>1 DEF StudioInductiveInv, Shape
  <2>. QED BY <1>4, <1>6, <1>7, <1>7a, <2>1 DEF Shape, IsRow, InFlight
<1>9. EditInv'
  BY <1>2, <1>4 DEF StudioInductiveInv, EditInv
<1>10. OrderInv'
  <2>1. Present' = Present
    BY <1>1 DEF Present
  <2>2. \A r \in Request : req'[r].stage \in {"unused", "sent"} => req[r].stage \in {"unused", "sent"}
    BY <1>2, <1>4
  <2>3. ASSUME ~ removed, NEW r \in Request, req'[r].stage = "read"
        PROVE  Within(req'[r].list.position)
    BY <1>2, <1>4, <2>3 DEF StudioInductiveInv, OrderInv
  <2>4. ASSUME ~ removed, NEW r \in Request, req'[r].stage = "sent"
        PROVE  Asks(req'[r].edit)
    BY <1>2, <1>4, <2>4 DEF StudioInductiveInv, OrderInv
  <2>. QED BY <1>1, <2>1, <2>2, <2>3, <2>4 DEF StudioInductiveInv, OrderInv, Within, Asks
<1>11. \A r \in Request \ {q} : InFlight(r)' => InFlight(r) /\ req'[r] = req[r]
  BY <1>4 DEF InFlight
<1>12. HoldsInv'
  BY <1>2, <1>4, <1>11 DEF StudioInductiveInv, HoldsInv
<1>13. OrgInv'
  <2>1. \A r \in Request : req'[r].stage = "read" => req'[r].list.org = req'[r].org
    BY <1>2, <1>4 DEF StudioInductiveInv, OrgInv
  <2>2. \A r \in Request : InFlight(r)' => req'[r].org \in Org
    BY <1>2, <1>4, <1>5, <1>11 DEF StudioInductiveInv, OrgInv
  <2>3. ASSUME NEW r \in Request, InFlight(r)', ~ spoiled'[req'[r].tab]
        PROVE  req'[r].org = active'[req'[r].tab]
    <3>1. CASE r = q
      BY <1>2, <1>4, <1>7, <3>1
    <3>2. CASE r # q
      <4>1. InFlight(r) /\ req'[r] = req[r] /\ req[r].tab \in Tab /\ req[r].org \in Org
        BY <1>11, <2>3, <3>2 DEF StudioInductiveInv, Shape, OrgInv
      <4>2. CASE req[r].tab = t
        <5>1. req[r].org # active[t]
          BY <1>7a, <2>3, <4>1, <4>2 DEF Of
        <5>2. active[t] \in Org
          BY DEF StudioInductiveInv, Shape
        <5>3. req[r].org = o
          BY <4>1, <5>1, <5>2 DEF o, Other, Org
        <5>. QED BY <1>7, <4>1, <4>2, <5>3
      <4>3. CASE req[r].tab # t
        BY <1>7, <1>7a, <2>3, <4>1, <4>3 DEF StudioInductiveInv, OrgInv
      <4>. QED BY <4>2, <4>3
    <3>. QED BY <3>1, <3>2
  <2>4. ASSUME NEW u \in Tab
        PROVE  \/ spoiled'[u] \/ view[u].org = active'[u]
               \/ \E r \in Of(u)' : req'[r].stage \in {"load", "read"}
    <3>1. CASE u = t
      BY <1>2, <1>4, <3>1 DEF Of
    <3>2. CASE u # t
      <4>1. spoiled[u] \/ view[u].org = active[u] \/ \E r \in Of(u) : req[r].stage \in {"load", "read"}
        BY DEF StudioInductiveInv, OrgInv
      <4>2. \A r \in Of(u) : req[r].stage \in {"load", "read"} =>
              r \in Of(u)' /\ req'[r].stage \in {"load", "read"}
        BY <1>1, <1>4 DEF Of
      <4>. QED BY <1>7, <1>7a, <3>2, <4>1, <4>2
    <3>. QED BY <3>1, <3>2
  <2>. QED BY <1>1, <2>1, <2>2, <2>3, <2>4 DEF OrgInv
<1>. QED BY <1>8, <1>9, <1>10, <1>12, <1>13 DEF StudioInductiveInv
-----------------------------------------------------------------------------
(* Steps that change the rows or a list.                                   *)

\* The positions after an edit that the table accepts: they differ, and as long
\* as nothing is removed there is one more step for one more position, or the
\* same steps and the same positions.
LEMMA AcceptedEdit ==
  ASSUME StudioInductiveInv, NEW q \in Request, req[q].stage = "sent",
         Accepted(req[q].edit),
         position' = After(req[q].edit),
         removed' = (removed \/ (req[q].edit.kind = "remove" /\ Affected(req[q].edit) # {}))
  PROVE  /\ position' \in [StepId -> Nat \cup {None}]
         /\ \A s, u \in Present' : position'[s] = position'[u] => s = u
         /\ \A r \in Request \ {q} : position[r] = None => position'[r] = None
         /\ ~ removed' => /\ ~ removed
                          /\ Cardinality(Present') \in Nat
                          /\ Cardinality(Present) <= Cardinality(Present')
                          /\ Within(position)'
<1>. DEFINE edit == req[q].edit
            n == Cardinality(Present)
<1>1. /\ position \in [StepId -> Nat \cup {None}]
      /\ position[q] = None /\ q \in StepId
      /\ n \in Nat /\ IsFiniteSet(Present)
  BY FinitelyManySteps DEF StudioInductiveInv, Shape, OrderInv, StepId
<1>2. /\ edit.kind \in {"add", "move", "remove"}
      /\ DOMAIN edit.to \subseteq StepId
      /\ edit.kind = "add" => DOMAIN edit.to = {q}
      /\ \A s \in DOMAIN edit.to : IF edit.kind = "remove" THEN edit.to[s] = None
                                                            ELSE edit.to[s] \in Nat
  BY DEF StudioInductiveInv, EditInv
<1>3. /\ edit.kind = "add" => Affected(edit) = {q}
      /\ edit.kind # "add" => Affected(edit) = DOMAIN edit.to \cap Present
  BY <1>2 DEF Affected
<1>4. \A s \in StepId : position'[s] = IF s \in Affected(edit) THEN edit.to[s] ELSE position[s]
  BY DEF After
<1>5. ~ removed => Within(position) /\ Asks(edit)
  BY DEF StudioInductiveInv, OrderInv
<1>6. \A s, u \in StepId : s # u /\ position'[s] # None => position'[s] # position'[u]
  BY DEF Accepted
<1>7. DOMAIN position' = StepId /\ position' = [s \in StepId |-> position'[s]]
  BY DEF After
<1>8. \A s \in StepId : (s \in Present') <=> (position'[s] # None)
  BY DEF Present
<1>9. \A s \in StepId : (s \in Present) <=> (position[s] # None)
  BY DEF Present
<1>10. removed' = (removed \/ (edit.kind = "remove" /\ Affected(edit) # {}))
  OBVIOUS
<1>. HIDE DEF edit
<1>11. position' \in [StepId -> Nat \cup {None}]
  <2>1. \A s \in StepId : position'[s] \in Nat \cup {None}
    BY <1>1, <1>2, <1>3, <1>4
  <2>. QED BY <1>7, <2>1
<1>12. \A s, u \in Present' : position'[s] = position'[u] => s = u
  <2>1. Present' \subseteq StepId
    BY DEF Present
  <2>. QED BY <1>6, <1>8, <2>1
<1>13. \A r \in Request \ {q} : position[r] = None => position'[r] = None
  BY <1>3, <1>4, <1>9 DEF StepId
<1>14. ASSUME ~ removed'
       PROVE  /\ ~ removed
              /\ Cardinality(Present') \in Nat
              /\ n <= Cardinality(Present')
              /\ Within(position)'
  <2>1. ~ removed /\ ~ (edit.kind = "remove" /\ Affected(edit) # {})
    BY <1>10, <1>14
  <2>2. /\ \A s \in Present : position[s] \in 1..n
        /\ edit.kind = "add" => edit.to[q] \in 1..(n + 1)
        /\ edit.kind = "move" => \A s \in DOMAIN edit.to : edit.to[s] \in 1..n
    <3>1. \A s \in Present : position[s] \in 1..n
      BY <1>5, <2>1 DEF Within, Present
    <3>2. edit.kind = "add" => edit.to[q] \in 1..(n + 1)
      BY <1>2, <1>5, <2>1 DEF Asks
    <3>3. edit.kind = "move" => \A s \in DOMAIN edit.to : edit.to[s] \in 1..n
      BY <1>1, <1>2, <1>5, <2>1 DEF Asks
    <3>. QED BY <3>1, <3>2, <3>3
  <2>. HIDE DEF n
  <2>3. CASE edit.kind = "add"
    <3>1. /\ \A s \in StepId : s # q => position'[s] = position[s]
          /\ position'[q] = edit.to[q] /\ edit.to[q] \in Nat
      BY <1>1, <1>2, <1>3, <1>4, <2>3
    <3>2. Present' = Present \cup {q}
      <4>1. position'[q] # None
        BY <3>1, NoneAssumption
      <4>2. Present' \subseteq StepId /\ Present \subseteq StepId
        BY DEF Present
      <4>. QED BY <1>1, <1>8, <1>9, <3>1, <4>1, <4>2
    <3>3. q \notin Present
      BY <1>1 DEF Present
    <3>4. Cardinality(Present') = n + 1
      BY <1>1, <3>2, <3>3, FS_AddElement DEF n
    <3>5. \A s \in StepId : position'[s] # None => position'[s] \in 1..(n + 1)
      <4>1. \A s \in StepId : position[s] # None => position[s] \in 1..(n + 1)
        BY <1>1, <1>9, <2>2 DEF n
      <4>. QED BY <2>2, <2>3, <3>1, <4>1
    <3>6. n \in Nat
      BY <1>1
    <3>. QED BY <2>1, <3>4, <3>5, <3>6 DEF Within
  <2>4. CASE edit.kind = "move"
    <3>1. \A s \in StepId : position'[s] = IF s \in DOMAIN edit.to \cap Present THEN edit.to[s] ELSE position[s]
      BY <1>3, <1>4, <2>4
    <3>2. \A s \in DOMAIN edit.to : edit.to[s] # None
      BY <1>2, <2>4, NoneAssumption
    <3>3. Present' = Present
      <4>1. Present' \subseteq StepId /\ Present \subseteq StepId
        BY DEF Present
      <4>2. \A s \in StepId : (position'[s] # None) <=> (position[s] # None)
        BY <1>9, <3>1, <3>2
      <4>. QED BY <1>8, <1>9, <4>1, <4>2
    <3>4. \A s \in StepId : position'[s] # None => position'[s] \in 1..n
      BY <1>9, <2>2, <2>4, <3>1
    <3>5. n \in Nat
      BY <1>1
    <3>. QED BY <2>1, <3>3, <3>4, <3>5 DEF Within, n
  <2>5. CASE edit.kind = "remove"
    <3>1. \A s \in StepId : position'[s] = position[s]
      BY <1>4, <2>1, <2>5
    <3>2. Present' = Present
      <4>1. Present' \subseteq StepId /\ Present \subseteq StepId
        BY DEF Present
      <4>. QED BY <1>8, <1>9, <3>1, <4>1
    <3>3. \A s \in StepId : position'[s] # None => position'[s] \in 1..n
      BY <1>9, <2>2, <3>1
    <3>4. n \in Nat
      BY <1>1
    <3>. QED BY <2>1, <3>2, <3>3, <3>4 DEF Within, n
  <2>. QED BY <1>2, <2>3, <2>4, <2>5
<1>. QED BY <1>11, <1>12, <1>13, <1>14

\* The database takes an edit, or the constraint refuses it.
LEMMA Applied ==
  ASSUME StudioInductiveInv, NEW q \in Request, Apply(q)
  PROVE  StudioInductiveInv'
<1>1. req[q].stage = "sent" /\ UNCHANGED <<active, view, spoiled, faults>>
  BY DEF Apply
<1>2. IsRow(req[q]) /\ IsRequest(req[q])
  BY ShapeRows DEF StudioInductiveInv, IsRow
<1>3. CASE ~ Accepted(req[q].edit)
  <2>. DEFINE w == [req[q] EXCEPT !.stage = "refused"]
  <2>1. req' = [req EXCEPT ![q] = w] /\ UNCHANGED <<position, removed>>
    BY <1>3 DEF Apply
  <2>2. /\ w.stage = "refused" /\ w.tab = req[q].tab /\ w.org = req[q].org
        /\ w.holds = req[q].holds /\ w.list = req[q].list /\ IsRequest(w)
    BY <1>2 DEF IsRequest
  <2>. HIDE DEF w
  <2>3. IsRow(w)
    BY <1>1, <1>2, <2>2 DEF IsRow
  <2>4. InFlight(q) /\ spoiled' \in [Tab -> BOOLEAN]
    BY <1>1 DEF InFlight, StudioInductiveInv, Shape
  <2>. QED BY <1>1, <2>1, <2>2, <2>3, <2>4, RequestGoesOn
<1>4. CASE Accepted(req[q].edit)
  <2>. DEFINE w == [req[q] EXCEPT !.stage = "accepted"]
  <2>1. /\ req' = [req EXCEPT ![q] = w]
        /\ position' = After(req[q].edit)
        /\ removed' = (removed \/ (req[q].edit.kind = "remove" /\ Affected(req[q].edit) # {}))
    BY <1>4 DEF Apply
  <2>2. /\ w.stage = "accepted" /\ w.tab = req[q].tab /\ w.org = req[q].org
        /\ w.holds = req[q].holds /\ w.list = req[q].list /\ IsRequest(w)
    BY <1>2 DEF IsRequest
  <2>. HIDE DEF w
  <2>3. IsRow(w)
    BY <1>1, <1>2, <2>2 DEF IsRow
  <2>4. /\ req' = [r \in Request |-> req'[r]]
        /\ req'[q] = w
        /\ \A r \in Request \ {q} : req'[r] = req[r]
    BY <2>1, OneRequest DEF StudioInductiveInv
  <2>5. /\ position' \in [StepId -> Nat \cup {None}]
        /\ \A s, u \in Present' : position'[s] = position'[u] => s = u
        /\ \A r \in Request \ {q} : position[r] = None => position'[r] = None
        /\ ~ removed' => /\ ~ removed
                         /\ Cardinality(Present') \in Nat
                         /\ Cardinality(Present) <= Cardinality(Present')
                         /\ Within(position)'
    BY <1>1, <1>4, <2>1, AcceptedEdit
  <2>6. Shape'
    <3>1. removed' \in BOOLEAN
      BY <2>1
    <3>2. /\ spoiled' \in [Tab -> BOOLEAN] /\ active' \in [Tab -> Org] /\ view' \in [Tab -> List]
          /\ faults' \in 0..MaxFaults
      BY <1>1 DEF StudioInductiveInv, Shape
    <3>3. \A r \in Request : IsRow(req'[r])
      BY <2>3, <2>4, ShapeRows DEF StudioInductiveInv
    <3>. QED BY <2>4, <2>5, <3>1, <3>2, <3>3 DEF Shape, IsRow, InFlight
  <2>7. EditInv'
    BY <2>2, <2>4 DEF StudioInductiveInv, EditInv
  <2>8. OrderInv'
    <3>1. \A r \in Request : req'[r].stage \in {"unused", "sent"} => position'[r] = None
      BY <2>2, <2>4, <2>5 DEF StudioInductiveInv, OrderInv
    <3>2. ASSUME ~ removed'
          PROVE  /\ \A t \in Tab : Within(view[t].position)'
                 /\ \A r \in Request : req'[r].stage = "read" => Within(req[r].list.position)'
                 /\ \A r \in Request : req'[r].stage = "sent" => Asks(req[r].edit)'
      <4>. DEFINE n == Cardinality(Present)
                  m == Cardinality(Present')
      <4>1. n \in Nat /\ m \in Nat /\ n <= m /\ ~ removed
        BY <2>5, <3>2, FinitelyManySteps
      <4>2. \A t \in Tab : \A s \in StepId :
              view[t].position[s] # None => view[t].position[s] \in 1..n
        BY <4>1 DEF StudioInductiveInv, OrderInv, Within
      <4>3. \A r \in Request : req'[r].stage = "read" => req[r].stage = "read" /\ req'[r] = req[r]
        BY <2>2, <2>4
      <4>4. \A r \in Request : req[r].stage = "read" => \A s \in StepId :
              req[r].list.position[s] # None => req[r].list.position[s] \in 1..n
        BY <4>1 DEF StudioInductiveInv, OrderInv, Within
      <4>5. \A r \in Request : req'[r].stage = "sent" => req[r].stage = "sent" /\ req'[r] = req[r]
        BY <2>2, <2>4
      <4>6. \A r \in Request : req[r].stage = "sent" =>
              (req[r].edit.kind # "remove" => \A s \in DOMAIN req[r].edit.to :
                 req[r].edit.to[s] \in 1..(n + IF req[r].edit.kind = "add" THEN 1 ELSE 0))
        BY <4>1 DEF StudioInductiveInv, OrderInv, Asks
      <4>. HIDE DEF n
      <4>7. \A t \in Tab : \A s \in StepId :
              view'[t].position[s] # None => view'[t].position[s] \in 1..m
        BY <1>1, <4>1, <4>2
      <4>8. \A r \in Request : req'[r].stage = "read" => \A s \in StepId :
              req'[r].list.position[s] # None => req'[r].list.position[s] \in 1..m
        BY <4>1, <4>3, <4>4
      <4>9. \A r \in Request : req'[r].stage = "sent" =>
              (req'[r].edit.kind # "remove" => \A s \in DOMAIN req'[r].edit.to :
                 req'[r].edit.to[s] \in 1..(m + IF req'[r].edit.kind = "add" THEN 1 ELSE 0))
        BY <4>1, <4>5, <4>6
      <4>. QED BY <4>7, <4>8, <4>9 DEF Within, Asks
    <3>. QED BY <2>5, <3>1, <3>2 DEF OrderInv
  <2>9. \A r \in Request : InFlight(r)' =>
          /\ InFlight(r) /\ req'[r].org = req[r].org /\ req'[r].tab = req[r].tab
          /\ req'[r].holds = req[r].holds
    BY <1>1, <2>2, <2>4 DEF InFlight
  <2>10. HoldsInv'
    BY <2>9 DEF StudioInductiveInv, HoldsInv
  <2>11. OrgInv'
    <3>1. \A r \in Request : req'[r].stage = "read" => req'[r].list.org = req'[r].org
      BY <2>2, <2>4 DEF StudioInductiveInv, OrgInv
    <3>2. \A u \in Tab : \A r \in Of(u) : req[r].stage \in {"load", "read"} =>
            r \in Of(u)' /\ req'[r].stage \in {"load", "read"}
      BY <1>1, <2>4 DEF Of
    <3>3. /\ \A r \in Request : InFlight(r)' => req'[r].org \in Org
          /\ \A r \in Request : InFlight(r)' /\ ~ spoiled[req'[r].tab] => req'[r].org = active[req'[r].tab]
      BY <2>9 DEF StudioInductiveInv, OrgInv
    <3>. QED BY <1>1, <3>1, <3>2, <3>3 DEF StudioInductiveInv, OrgInv
  <2>. QED BY <2>6, <2>7, <2>8, <2>10, <2>11 DEF StudioInductiveInv
<1>. QED BY <1>3, <1>4
\* A list arrives and is shown, whichever organization it is of; a tab whose
\* requests were all for the organization it is turned to shows that one.
LEMMA Arrived ==
  ASSUME StudioInductiveInv, NEW q \in Request, Arrive(q)
  PROVE  StudioInductiveInv'
<1>. DEFINE t == req[q].tab
            l == req[q].list
<1>1. /\ req[q].stage = "read"
      /\ view' = [view EXCEPT ![t] = l]
      /\ UNCHANGED <<position, removed, active, spoiled, faults>>
  BY DEF Arrive
<1>2. /\ req' = [r \in Request |-> req'[r]]
      /\ req'[q] = Over
      /\ \A r \in Request \ {q} : req'[r] = req[r] \/ req'[r] = [req[r] EXCEPT !.holds = FALSE]
  BY DEF Arrive
<1>3. \A r \in Request : IsRow(req[r])
  BY ShapeRows DEF StudioInductiveInv
<1>4. t \in Tab /\ l \in List /\ l.org = req[q].org /\ (~ removed => Within(l.position))
  BY <1>1, <1>3 DEF IsRow, StudioInductiveInv, OrgInv, OrderInv
<1>5. ASSUME NEW r \in Request \ {q}
      PROVE  /\ req'[r].stage = req[r].stage /\ req'[r].tab = req[r].tab
             /\ req'[r].edit = req[r].edit /\ req'[r].org = req[r].org
             /\ req'[r].list = req[r].list
             /\ req'[r].holds = req[r].holds \/ req'[r].holds = FALSE
             /\ IsRequest(req'[r])
  <2>. DEFINE v == [req[r] EXCEPT !.holds = FALSE]
  <2>1. IsRequest(req[r])
    BY <1>3 DEF IsRow
  <2>2. /\ v.stage = req[r].stage /\ v.tab = req[r].tab /\ v.edit = req[r].edit
        /\ v.org = req[r].org /\ v.list = req[r].list /\ v.holds = FALSE /\ IsRequest(v)
    BY <2>1 DEF IsRequest
  <2>3. req'[r] = req[r] \/ req'[r] = v
    BY <1>2
  <2>. HIDE DEF v
  <2>. QED BY <2>1, <2>2, <2>3
<1>. HIDE DEF t, l
<1>6. \A r \in Request : IsRow(req'[r])
  <2>1. ASSUME NEW r \in Request \ {q}
        PROVE  IsRow(req'[r])
    <3>1. IsRow(req[r])
      BY <1>3
    <3>2. /\ req[r].tab \in Tab \cup {None}
          /\ req[r].stage \in {"unused", "sent", "accepted", "refused", "load", "read", "over"}
          /\ req[r].holds \in BOOLEAN
          /\ req[r].list \in List \cup {None}
      BY <3>1 DEF IsRow
    <3>3. /\ req[r].stage \notin {"unused", "over"} <=> req[r].tab # None
          /\ req[r].list # None <=> req[r].stage = "read"
      BY <3>1 DEF IsRow
    <3>4. /\ req'[r].stage = req[r].stage /\ req'[r].tab = req[r].tab
          /\ req'[r].list = req[r].list /\ IsRequest(req'[r])
          /\ req'[r].holds \in BOOLEAN
      BY <1>5, <3>2
    <3>. QED BY <3>2, <3>3, <3>4 DEF IsRow
  <2>. QED BY <1>2, <2>1, OverFields
<1>7. /\ view' \in [Tab -> List]
      /\ view'[t] = l
      /\ \A u \in Tab \ {t} : view'[u] = view[u]
  BY <1>1, <1>4 DEF StudioInductiveInv, Shape
<1>8. Shape'
  <2>1. /\ position' \in [StepId -> Nat \cup {None}]
        /\ removed' \in BOOLEAN /\ spoiled' \in [Tab -> BOOLEAN]
        /\ active' \in [Tab -> Org]
        /\ faults' \in 0..MaxFaults
    BY <1>1 DEF StudioInductiveInv, Shape
  <2>. QED BY <1>2, <1>6, <1>7, <2>1 DEF Shape, IsRow, InFlight
<1>9. EditInv'
  <2>1. \A r \in Request : req'[r].stage = "sent" => req[r].stage = "sent" /\ req'[r].edit = req[r].edit
    BY <1>2, <1>5, OverFields
  <2>. QED BY <2>1 DEF StudioInductiveInv, EditInv
<1>10. OrderInv'
  <2>1. Present' = Present
    BY <1>1 DEF Present
  <2>2. \A r \in Request : req'[r].stage \in {"unused", "sent"} => req[r].stage \in {"unused", "sent"}
    BY <1>2, <1>5, OverFields
  <2>3. ASSUME ~ removed, NEW r \in Request, req'[r].stage = "read"
        PROVE  Within(req'[r].list.position)
    BY <1>2, <1>5, <2>3, OverFields DEF StudioInductiveInv, OrderInv
  <2>4. ASSUME ~ removed, NEW r \in Request, req'[r].stage = "sent"
        PROVE  Asks(req'[r].edit)
    BY <1>2, <1>5, <2>4, OverFields DEF StudioInductiveInv, OrderInv
  <2>5. ASSUME ~ removed, NEW u \in Tab
        PROVE  Within(view'[u].position)
    BY <1>4, <1>7, <2>5 DEF StudioInductiveInv, OrderInv
  <2>. QED BY <1>1, <2>1, <2>2, <2>3, <2>4, <2>5 DEF StudioInductiveInv, OrderInv, Within, Asks
<1>11. \A r \in Request : InFlight(r)' =>
         /\ r # q /\ InFlight(r) /\ req'[r].org = req[r].org /\ req'[r].tab = req[r].tab
         /\ req'[r].holds => req[r].holds
  BY <1>2, <1>5, OverFields DEF InFlight
<1>12. HoldsInv'
  BY <1>11 DEF StudioInductiveInv, HoldsInv
<1>13. OrgInv'
  <2>1. \A r \in Request : req'[r].stage = "read" => req'[r].list.org = req'[r].org
    BY <1>2, <1>5, OverFields DEF StudioInductiveInv, OrgInv
  <2>2. /\ \A r \in Request : InFlight(r)' => req'[r].org \in Org
        /\ \A r \in Request : InFlight(r)' /\ ~ spoiled[req'[r].tab] => req'[r].org = active[req'[r].tab]
    BY <1>11 DEF StudioInductiveInv, OrgInv
  <2>3. ASSUME NEW u \in Tab, ~ spoiled[u]
        PROVE  view'[u].org = active[u] \/ \E r \in Of(u)' : req'[r].stage \in {"load", "read"}
    <3>1. CASE u = t
      <4>1. InFlight(q)
        BY <1>1 DEF InFlight
      <4>2. req[q].org = active[t]
        BY <2>3, <3>1, <4>1 DEF StudioInductiveInv, OrgInv, t
      <4>. QED BY <1>4, <1>7, <3>1, <4>2
    <3>2. CASE u # t
      <4>1. view[u].org = active[u] \/ \E r \in Of(u) : req[r].stage \in {"load", "read"}
        BY <2>3 DEF StudioInductiveInv, OrgInv
      <4>2. \A r \in Of(u) : r # q
        BY <3>2 DEF Of, t
      <4>3. \A r \in Of(u) : req[r].stage \in {"load", "read"} =>
              r \in Of(u)' /\ req'[r].stage \in {"load", "read"}
        BY <1>5, <4>2 DEF Of
      <4>. QED BY <1>7, <3>2, <4>1, <4>3
    <3>. QED BY <3>1, <3>2
  <2>. QED BY <1>1, <2>1, <2>2, <2>3 DEF OrgInv
<1>. QED BY <1>8, <1>9, <1>10, <1>12, <1>13 DEF StudioInductiveInv

-----------------------------------------------------------------------------
(* The invariant.                                                          *)

\* At first the steps stand at 1, 2, ... and nothing is asked for.
LEMMA StudioInit == Init => StudioInductiveInv
<1>. SUFFICES ASSUME Init PROVE StudioInductiveInv
  OBVIOUS
<1>1. /\ removed = FALSE /\ spoiled = [t \in Tab |-> FALSE] /\ faults = 0
      /\ active = [t \in Tab |-> "Home"]
      /\ view = [t \in Tab |-> [org |-> "Home", position |-> position]]
      /\ req = [q \in Request |-> Unused]
  BY DEF Init
<1>2. /\ position \in [StepId -> 1..Cardinality(Existing) \cup {None}]
      /\ \A s \in StepId : position[s] = None <=> s \notin Existing
      /\ IsInjective([s \in Existing |-> position[s]])
  BY DEF Init
<1>3. Unused \in [tab : {None}, stage : {"unused"}, edit : {None}, holds : {FALSE}, org : {None},
                  list : {None}]
  BY DEF Unused
<1>4. /\ Unused.stage = "unused" /\ Unused.tab = None /\ Unused.holds = FALSE /\ Unused.list = None
      /\ IsRequest(Unused)
  BY <1>3 DEF IsRequest
<1>5. Present = Existing
  BY <1>2 DEF Present, StepId
<1>6. Cardinality(Existing) \in Nat
  BY <1>5, FinitelyManySteps
<1>7. position \in [StepId -> Nat \cup {None}]
  BY <1>2, <1>6
<1>8. \A t \in Tab : view[t].org = "Home" /\ view[t].position = position
  BY <1>1
<1>9. Shape
  <2>1. view \in [Tab -> List] /\ active \in [Tab -> Org]
    BY <1>1, <1>7 DEF List, Org
  <2>2. \A q \in Request : req[q] = Unused
    BY <1>1
  <2>3. req = [q \in Request |-> req[q]]
    BY <1>1
  <2>4. faults \in 0..MaxFaults
    BY <1>1, BoundAssumption
  <2>. QED BY <1>1, <1>4, <1>7, <2>1, <2>2, <2>3, <2>4 DEF Shape, InFlight
<1>10. EditInv
  BY <1>1, <1>4 DEF EditInv
<1>11. OrderInv
  <2>1. \A s, u \in Present : position[s] = position[u] => s = u
    BY <1>2, <1>5 DEF IsInjective
  <2>2. \A q \in Request : position[q] = None
    BY <1>2, StepAssumption DEF StepId
  <2>3. Within(position)
    BY <1>2, <1>5 DEF Within
  <2>. QED BY <1>1, <1>4, <1>8, <2>1, <2>2, <2>3 DEF OrderInv
<1>12. HoldsInv
  BY <1>1, <1>4 DEF HoldsInv, InFlight
<1>13. OrgInv
  BY <1>1, <1>4, <1>8 DEF OrgInv, InFlight
<1>. QED BY <1>9, <1>10, <1>11, <1>12, <1>13 DEF StudioInductiveInv

\* Every step of the tabs and of the database keeps the invariant.
LEMMA StudioNext == StudioInductiveInv /\ [Next]_vars => StudioInductiveInv'
<1>. SUFFICES ASSUME StudioInductiveInv, [Next]_vars PROVE StudioInductiveInv'
  OBVIOUS
<1>1. ASSUME NEW t \in Tab, NEW q \in Request, Click(t, q) \/ SwitchOrg(t, q)
      PROVE  StudioInductiveInv'
  BY <1>1, Clicked, OrgSwitched
<1>2. ASSUME NEW q \in Request, Apply(q) \/ Lose(q) \/ Answer(q)
      PROVE  StudioInductiveInv'
  BY <1>2, Applied, Lost, AnsweredEdit
<1>3. ASSUME NEW q \in Request, Read(q) \/ LoadFails(q) \/ RefreshFails(q) \/ Arrive(q)
      PROVE  StudioInductiveInv'
  BY <1>3, ListRead, LoadFailed, Arrived
<1>4. CASE UNCHANGED vars
  <2>1. UNCHANGED <<position, removed, active, view, req, spoiled, faults>>
    BY <1>4 DEF vars
  <2>2. Shape'
    BY <2>1 DEF StudioInductiveInv, Shape, InFlight
  <2>3. EditInv'
    BY <2>1 DEF StudioInductiveInv, EditInv
  <2>4. OrderInv'
    BY <2>1 DEF StudioInductiveInv, OrderInv, Present, Within, Asks
  <2>5. HoldsInv'
    BY <2>1 DEF StudioInductiveInv, HoldsInv, InFlight
  <2>6. OrgInv'
    BY <2>1 DEF StudioInductiveInv, OrgInv, InFlight, Of
  <2>. QED BY <2>2, <2>3, <2>4, <2>5, <2>6 DEF StudioInductiveInv
<1>. QED BY <1>1, <1>2, <1>3, <1>4 DEF Next

-----------------------------------------------------------------------------
(* The theorems.                                                           *)

\* What the tabs and the database maintain together.
THEOREM StudioInduction == Spec => []StudioInductiveInv
BY StudioInit, StudioNext, PTL DEF Spec

\* The shape of the state, and that a tab is busy with at most one request: act
\* of one editor never runs twice at a time, also over lists that arrive late
\* and editors that are unmounted meanwhile.
THEOREM StudioTypes == Spec => []TypeOK
<1>1. StudioInductiveInv => TypeOK
  <2>. SUFFICES ASSUME StudioInductiveInv, NEW t
                PROVE  Cardinality({r \in Of(t) : InFlight(r) /\ req[r].holds}) <= 1
    BY DEF StudioInductiveInv, TypeOK
  <2>. DEFINE H == {r \in Of(t) : InFlight(r) /\ req[r].holds}
  <2>1. \A q, r \in H : q = r
    BY DEF StudioInductiveInv, HoldsInv, Of
  <2>2. CASE H = {}
    BY <2>2, FS_EmptySet
  <2>3. CASE H # {}
    <3>1. PICK r \in H : TRUE
      BY <2>3
    <3>2. H = {r}
      BY <2>1, <3>1
    <3>. QED BY <3>2, FS_Singleton
  <2>. QED BY <2>2, <2>3
<1>. QED BY <1>1, StudioInduction, PTL

\* As long as nothing is removed the steps of a workflow are numbered 1, 2, ...
\* without a gap, for any number of tabs that add and move them from lists of
\* any age, and any number of requests whose answers are lost.
THEOREM OrderStaysIntact == Spec => []OrderIntact
<1>1. StudioInductiveInv => OrderIntact
  <2>. SUFFICES ASSUME StudioInductiveInv, ~ removed
                PROVE  {position[s] : s \in Present} = 1..Cardinality(Present)
    BY DEF OrderIntact
  <2>1. /\ position \in [StepId -> Nat \cup {None}]
        /\ \A s, u \in Present : position[s] = position[u] => s = u
        /\ Within(position)
    BY DEF StudioInductiveInv, Shape, OrderInv
  <2>. QED BY <2>1, NoGap
<1>. QED BY <1>1, StudioInduction, PTL

\* A tab that waits for nothing shows the list of the organization it says it
\* shows, whatever failed before, unless since it was last turned a request for
\* the other organization overtook, or the load of its list failed.
THEOREM ListMatchesOrg == Spec => []ListIsOfOrg
<1>1. StudioInductiveInv => ListIsOfOrg
  BY DEF StudioInductiveInv, OrgInv, ListIsOfOrg, InFlight, Of
<1>. QED BY <1>1, StudioInduction, PTL

=============================================================================
