-------------------------- MODULE RunCreation_proofs --------------------------
(***************************************************************************)
(* Proofs about RunCreation, for every number of organizations, callers,   *)
(* triggers, months and faults: type correctness, which includes that no   *)
(* count ever exceeds its limit; QuotaRespected and NothingOvercharged,    *)
(* which bound the count from above and from below by the units that calls *)
(* hold; UnitsAccounted; and DispatchesSpaced, that no two scheduled runs  *)
(* of a workflow are closer than their interval.                           *)
(***************************************************************************)
EXTENDS RunCreation, FiniteSetTheorems, TLAPS

(* Facts about the constants. *)

\* There are finitely many calls.
LEMMA CreationFinite == IsFiniteSet(Creation)
<1>1. IsFiniteSet(0..LastEvent) /\ IsFiniteSet(1..Tries)
  BY TimeAssumption, FS_Interval
<1>2. IsFiniteSet(Sweep)
  BY <1>1, FS_Product DEF Sweep
<1>3. IsFiniteSet(Dispatch)
  BY <1>2, CallersAssumption, FS_Product DEF Dispatch
<1>. QED BY <1>3, CallersAssumption, FS_Union DEF Creation

\* Every call is for an organization.
LEMMA OrgOfType == \A c \in Creation : OrgOf(c) \in Org
<1>. SUFFICES ASSUME NEW c \in Creation PROVE OrgOf(c) \in Org
  OBVIOUS
<1>1. CASE c \in Request
  BY <1>1, CallersAssumption DEF OrgOf
<1>2. CASE c \in Dispatch /\ c \notin Request
  <2>1. c[2] \in Trigger
    BY <1>2 DEF Dispatch
  <2>. QED BY <1>2, <2>1, CallersAssumption DEF OrgOf
<1>. QED BY <1>1, <1>2 DEF Creation

\* Months are numbers, and the clock is in one.
LEMMA MonthType == Month \subseteq Nat /\ \A t \in Time : MonthOf[t] \in Month
BY TimeAssumption DEF Month

\* None is neither a time nor a month.
LEMMA NoneType == None \notin Time /\ None \notin Month
<1>1. None \notin Int
  BY NullAssumption
<1>2. Time \subseteq Int /\ Month \subseteq Int
  BY MonthType, TimeAssumption DEF Time
<1>. QED BY <1>1, <1>2

-----------------------------------------------------------------------------
(* Type correctness. *)

\* The window's reset leaves a count within the limit.
LEMMA ResetType ==
  ASSUME TypeOK, NEW o \in Org
  PROVE  /\ Reset(org[o], MonthOf[clock]) \in [used : Nat, period : Month]
         /\ Reset(org[o], MonthOf[clock]).used <= Limit[o]
<1>1. MonthOf[clock] \in Month /\ org[o] \in [used : Nat, period : Month] /\ Limit[o] \in Nat
  BY MonthType, LimitAssumption DEF TypeOK
<1>. QED BY <1>1 DEF Reset, TypeOK

\* Answers leave pc and faults in their types.
LEMMA AnswerType ==
  ASSUME TypeOK, NEW c \in Creation, NEW p \in CallPC, NEW q \in CallPC, Answer(c, p, q)
  PROVE  pc' \in [Creation -> CallPC] /\ faults' \in 0..MaxFaults
BY TimeAssumption DEF TypeOK, Answer, Fault

\* So does a fault.
LEMMA FaultType ==
  ASSUME TypeOK, Fault
  PROVE  faults' \in 0..MaxFaults
BY TimeAssumption DEF TypeOK, Fault

\* The initial states are well typed.
LEMMA TypeInit == Init => TypeOK
<1>. SUFFICES ASSUME Init PROVE TypeOK
  OBVIOUS
<1>1. clock \in Time /\ faults \in 0..MaxFaults
  BY TimeAssumption DEF Init, Time
<1>2. org \in [Org -> [used : Nat, period : Month]] /\ \A o \in Org : org[o].used <= Limit[o]
  BY <1>1, MonthType, LimitAssumption DEF Init
<1>3. /\ paid \in [Creation -> Month \cup {None}]
      /\ refunded \in [Creation -> Month \cup {None}]
      /\ created \in [Creation -> Time \cup {None}]
      /\ pc \in [Creation -> CallPC]
  BY DEF Init, CallPC
<1>4. sweep \in [Sweep -> [pc   : {"idle", "running", "error", "dead"},
                           now  : Time \cup {None},
                           seen : SUBSET Trigger,
                           due  : SUBSET Trigger]]
  BY DEF Init, Idle
<1>. QED BY <1>1, <1>2, <1>3, <1>4 DEF TypeOK

\* Every step keeps the types.
LEMMA TypeNext == TypeOK /\ [Next]_vars => TypeOK'
<1>. SUFFICES ASSUME TypeOK, [Next]_vars PROVE TypeOK'
  OBVIOUS
<1>1. CASE UNCHANGED vars
  BY <1>1 DEF TypeOK, vars
<1>2. ASSUME NEW c \in Creation, Reserve(c) PROVE TypeOK'
  <2>. DEFINE o == OrgOf(c)
              current == Reset(org[o], MonthOf[clock])
  <2>1. o \in Org /\ MonthOf[clock] \in Month /\ Limit[o] \in Nat
    BY OrgOfType, MonthType, LimitAssumption DEF TypeOK
  <2>2. current \in [used : Nat, period : Month] /\ current.used < Limit[o]
    BY <1>2, <2>1, ResetType DEF Reserve, Exhausted
  <2>3. Charge(current) \in [used : Nat, period : Month] /\ Charge(current).used <= Limit[o]
    BY <2>1, <2>2 DEF Charge
  <2>4. /\ org' \in [Org -> [used : Nat, period : Month]]
        /\ \A p \in Org : org'[p].used <= Limit[p]
    BY <1>2, <2>1, <2>3 DEF Reserve, TypeOK
  <2>5. pc' \in [Creation -> CallPC] /\ faults' \in 0..MaxFaults
    BY <1>2, AnswerType DEF Reserve, CallPC
  <2>. QED BY <1>2, <2>1, <2>4, <2>5 DEF Reserve, TypeOK
<1>3. ASSUME NEW c \in Creation, ReserveRefused(c) PROVE TypeOK'
  <2>. DEFINE o == OrgOf(c)
              current == Reset(org[o], MonthOf[clock])
  <2>1. o \in Org
    BY OrgOfType
  <2>2. current \in [used : Nat, period : Month] /\ current.used <= Limit[o]
    BY <2>1, ResetType
  <2>3. /\ org' \in [Org -> [used : Nat, period : Month]]
        /\ \A p \in Org : org'[p].used <= Limit[p]
    BY <1>3, <2>1, <2>2 DEF ReserveRefused, TypeOK
  <2>4. pc' \in [Creation -> CallPC] /\ faults' \in 0..MaxFaults
    BY <1>3, AnswerType DEF ReserveRefused, CallPC
  <2>. QED BY <1>3, <2>3, <2>4 DEF ReserveRefused, TypeOK
<1>4. ASSUME NEW c \in Creation, ReserveFails(c) \/ ReleaseFails(c) PROVE TypeOK'
  BY <1>4, FaultType DEF ReserveFails, ReleaseFails, TypeOK, CallPC
<1>5. ASSUME NEW c \in Creation, Insert(c) PROVE TypeOK'
  <2>1. pc' \in [Creation -> CallPC] /\ faults' \in 0..MaxFaults
    BY <1>5, AnswerType DEF Insert, CallPC
  <2>. QED BY <1>5, <2>1 DEF Insert, TypeOK
<1>6. ASSUME NEW c \in Creation, InsertFails(c) PROVE TypeOK'
  BY <1>6 DEF InsertFails, TypeOK, CallPC
<1>7. ASSUME NEW c \in Creation, Release(c) PROVE TypeOK'
  <2>. DEFINE o == OrgOf(c)
  <2>1. o \in Org /\ org[o] \in [used : Nat, period : Month] /\ org[o].used <= Limit[o]
        /\ Limit[o] \in Nat
    BY OrgOfType, LimitAssumption DEF TypeOK
  <2>2. Refund(org[o]) \in [used : Nat, period : Month] /\ Refund(org[o]).used <= Limit[o]
    BY <2>1 DEF Refund
  <2>3. /\ org' \in [Org -> [used : Nat, period : Month]]
        /\ \A p \in Org : org'[p].used <= Limit[p]
    BY <1>7, <2>1, <2>2 DEF Release, TypeOK
  <2>. QED BY <1>7, <2>1, <2>3 DEF Release, TypeOK, CallPC
<1>8. ASSUME NEW c \in Request, CrashRequest(c) PROVE TypeOK'
  BY <1>8, FaultType DEF CrashRequest, TypeOK, CallPC, Creation
<1>9. ASSUME NEW s \in Sweep, BeginSweep(s) PROVE TypeOK'
  <2>. PICK seen \in SUBSET Trigger :
         sweep' = [sweep EXCEPT ![s] = [pc |-> "running", now |-> clock, seen |-> seen,
                                        due |-> {t \in seen : Due(t, clock)}]]
    BY <1>9 DEF BeginSweep
  <2>. QED BY <1>9 DEF BeginSweep, TypeOK
<1>10. ASSUME NEW s \in Sweep, SweepFails(s) PROVE TypeOK'
  BY <1>10, FaultType DEF SweepFails, TypeOK
<1>11. ASSUME NEW s \in Sweep, CrashSweep(s) PROVE TypeOK'
  BY <1>11, FaultType DEF CrashSweep, TypeOK, CallPC
<1>12. CASE Tick
  BY <1>12, TimeAssumption DEF Tick, TypeOK, Time
<1>. QED BY <1>1, <1>2, <1>3, <1>4, <1>5, <1>6, <1>7, <1>8, <1>9, <1>10, <1>11, <1>12
         DEF Next, Call

\* Type correctness: in particular quota_used stays between zero and quota_limit
\* whatever requests race, fail or are refunded.
THEOREM CreationTypes == Spec => []TypeOK
<1>. QED BY TypeInit, TypeNext, PTL DEF Spec

-----------------------------------------------------------------------------
(* The quota. *)

\* The sets that the invariant counts are finite.
LEMMA CountsType ==
  ASSUME NEW o, NEW m
  PROVE  /\ IsFiniteSet(Held(o, m)) /\ Cardinality(Held(o, m)) \in Nat
         /\ IsFiniteSet(Unearned(o, m)) /\ Cardinality(Unearned(o, m)) \in Nat
<1>1. Held(o, m) \subseteq Creation /\ Unearned(o, m) \subseteq Creation
  BY DEF Held, Unearned
<1>2. IsFiniteSet(Held(o, m)) /\ IsFiniteSet(Unearned(o, m))
  BY <1>1, CreationFinite, FS_Subset
<1>. QED BY <1>2, FS_CardinalityType

\* How far the counts move if an element comes or goes.
Change(c, Old, New) == IF c \in New THEN (IF c \in Old THEN 0 ELSE 1)
                       ELSE (IF c \in Old THEN -1 ELSE 0)

\* Two sets that differ in one element at most.
LEMMA OneElement ==
  ASSUME NEW S, IsFiniteSet(S), NEW T, NEW c, S \ {c} = T \ {c}
  PROVE  Cardinality(T) = Cardinality(S) + Change(c, S, T)
<1>1. Cardinality(S) \in Nat
  BY FS_CardinalityType
<1>2. CASE c \in T
  <2>1. T = S \cup {c}
    BY <1>2
  <2>. QED BY <1>1, <1>2, <2>1, FS_AddElement DEF Change
<1>3. CASE c \notin T
  <2>1. T = S \ {c}
    BY <1>3
  <2>. QED BY <1>1, <1>3, <2>1, FS_RemoveElement DEF Change
<1>. QED BY <1>2, <1>3

\* A step of one call moves the counts by that call at most.
LEMMA OneCall ==
  ASSUME NEW c \in Creation, NEW o, NEW m,
         \A d \in Creation \ {c} : /\ paid'[d] = paid[d] /\ created'[d] = created[d]
                                   /\ refunded'[d] = refunded[d] /\ pc'[d] = pc[d]
  PROVE  /\ Cardinality(Held(o, m)') = Cardinality(Held(o, m)) + Change(c, Held(o, m), Held(o, m)')
         /\ Cardinality(Unearned(o, m)')
              = Cardinality(Unearned(o, m)) + Change(c, Unearned(o, m), Unearned(o, m)')
<1>1. Held(o, m) \ {c} = Held(o, m)' \ {c}
  BY DEF Held
<1>2. Unearned(o, m) \ {c} = Unearned(o, m)' \ {c}
  BY DEF Unearned
<1>. QED BY <1>1, <1>2, CountsType, OneElement

\* A step after which units are held that were held before, and nothing is refunded.
LEMMA FewerHeld ==
  ASSUME TypeOK, CreationInv, TypeOK',
         UNCHANGED <<org, paid, refunded, created>>, MonthOf[clock] <= MonthOf[clock'],
         \A c \in Creation :
           \/ pc'[c] = pc[c]
           \/ pc[c] = "idle" /\ pc'[c] = "failed"
           \/ pc[c] \in {"insert", "release"} /\ pc'[c] \in {"failed", "dead", "release"}
  PROVE  CreationInv'
<1>1. \A c \in Creation :
        /\ pc'[c] = "idle" => paid'[c] = None /\ created'[c] = None
        /\ pc'[c] \in {"insert", "release"} => paid'[c] # None
        /\ pc'[c] = "insert" => created'[c] = None
        /\ pc'[c] # "failed" => refunded'[c] = None
        /\ paid'[c] # None => paid'[c] <= org'[OrgOf(c)].period
  BY DEF CreationInv
<1>2. ASSUME NEW o \in Org
      PROVE  /\ org'[o].period <= MonthOf[clock']
             /\ Cardinality(Held(o, org[o].period)')
                  <= org'[o].used + Cardinality(Unearned(o, org[o].period)')
             /\ \A m \in Month :
                  Cardinality(Held(o, m)') <= Limit[o] + Cardinality(Unearned(o, m)')
  <2>1. ASSUME NEW m
        PROVE  /\ Cardinality(Held(o, m)') <= Cardinality(Held(o, m))
               /\ Cardinality(Unearned(o, m)') = Cardinality(Unearned(o, m))
               /\ Cardinality(Held(o, m)') \in Nat
    <3>1. Held(o, m)' \subseteq Held(o, m)
      BY DEF Held
    <3>2. Unearned(o, m)' = Unearned(o, m)
      BY DEF Unearned
    <3>. QED BY <3>1, <3>2, CountsType, FS_Subset, FS_CardinalityType
  <2>2. /\ org[o].period \in Nat /\ org[o].used \in Nat /\ Limit[o] \in Nat
        /\ MonthOf[clock] \in Nat /\ MonthOf[clock'] \in Nat
    BY MonthType, LimitAssumption DEF TypeOK
  <2>3. org'[o].period <= MonthOf[clock']
    BY <2>2 DEF CreationInv
  <2>4. Cardinality(Held(o, org[o].period)')
          <= org'[o].used + Cardinality(Unearned(o, org[o].period)')
    BY <2>1, <2>2, CountsType DEF CreationInv
  <2>5. ASSUME NEW m \in Month
        PROVE  Cardinality(Held(o, m)') <= Limit[o] + Cardinality(Unearned(o, m)')
    BY <2>1, <2>2, CountsType DEF CreationInv
  <2>. QED BY <2>3, <2>4, <2>5
<1>. QED BY <1>1, <1>2 DEF CreationInv

\* What CreationInv asks of a call and of an organization.
CallOK(c) ==
  /\ pc[c] = "idle" => paid[c] = None /\ created[c] = None
  /\ pc[c] \in {"insert", "release"} => paid[c] # None
  /\ pc[c] = "insert" => created[c] = None
  /\ pc[c] # "failed" => refunded[c] = None
  /\ paid[c] # None => paid[c] <= org[OrgOf(c)].period

CountOK(o) ==
  /\ org[o].period <= MonthOf[clock]
  /\ Cardinality(Held(o, org[o].period))
        <= org[o].used + Cardinality(Unearned(o, org[o].period))
  /\ \A m \in Month :
       Cardinality(Held(o, m)) <= Limit[o] + Cardinality(Unearned(o, m))

\* The invariant is made of these parts.
LEMMA InvParts ==
  CreationInv <=> (\A c \in Creation : CallOK(c)) /\ (\A o \in Org : CountOK(o))
BY Zenon DEF CreationInv, CallOK, CountOK

\* A step of one call: what it does to its own organization is all there is to show.
LEMMA OneCallKeeps ==
  ASSUME TypeOK, CreationInv, TypeOK', NEW c \in Creation, UNCHANGED clock,
         \A d \in Creation \ {c} : /\ paid'[d] = paid[d] /\ created'[d] = created[d]
                                   /\ refunded'[d] = refunded[d] /\ pc'[d] = pc[d],
         \A o \in Org \ {OrgOf(c)} : org'[o] = org[o],
         org[OrgOf(c)].period <= org'[OrgOf(c)].period,
         CallOK(c)', CountOK(OrgOf(c))'
  PROVE  CreationInv'
<1>1. ASSUME NEW d \in Creation PROVE CallOK(d)'
  <2>1. CASE d = c
    BY <2>1
  <2>2. CASE d # c
    <3>1. CallOK(d) /\ OrgOf(d) \in Org /\ OrgOf(c) \in Org
      BY InvParts, OrgOfType
    <3>2. paid[d] # None => paid[d] \in Nat
      BY MonthType DEF TypeOK
    <3>3. org[OrgOf(d)].period \in Nat /\ org'[OrgOf(d)].period \in Nat
      BY <3>1, MonthType DEF TypeOK
    <3>4. org[OrgOf(d)].period <= org'[OrgOf(d)].period
      BY <3>1, <3>3
    <3>. QED BY <2>2, <3>1, <3>2, <3>3, <3>4 DEF CallOK
  <2>. QED BY <2>1, <2>2
<1>2. ASSUME NEW o \in Org PROVE CountOK(o)'
  <2>1. CASE o = OrgOf(c)
    BY <2>1
  <2>2. CASE o # OrgOf(c)
    <3>1. \A m : Held(o, m)' = Held(o, m) /\ Unearned(o, m)' = Unearned(o, m)
      BY <2>2 DEF Held, Unearned
    <3>2. CountOK(o) /\ org'[o] = org[o]
      BY <2>2, InvParts
    <3>. QED BY <3>1, <3>2 DEF CountOK
  <2>. QED BY <2>1, <2>2
<1>3. (\A d \in Creation : CallOK(d)') /\ (\A o \in Org : CountOK(o)')
  BY <1>1, <1>2
<1>. QED BY <1>3, Zenon DEF CreationInv, CallOK, CountOK

\* What a call's organization is before the call's step.
LEMMA CallFacts ==
  ASSUME TypeOK, CreationInv, NEW c \in Creation
  PROVE  /\ CallOK(c) /\ CountOK(OrgOf(c)) /\ OrgOf(c) \in Org
         /\ org[OrgOf(c)].used \in Nat /\ org[OrgOf(c)].period \in Nat
         /\ org[OrgOf(c)].period \in Month
         /\ Limit[OrgOf(c)] \in Nat /\ org[OrgOf(c)].used <= Limit[OrgOf(c)]
         /\ MonthOf[clock] \in Nat /\ MonthOf[clock] \in Month
         /\ None \notin Month
BY InvParts, OrgOfType, MonthType, LimitAssumption, NoneType DEF TypeOK

\* No unit is held of a month that the organization's period has not reached.
LEMMA NoneHeldAhead ==
  ASSUME TypeOK, CreationInv, NEW o \in Org, NEW m \in Month, org[o].period < m
  PROVE  Cardinality(Held(o, m)) = 0
<1>1. \A c \in Creation : OrgOf(c) = o => paid[c] # m
  <2>1. m \in Nat /\ org[o].period \in Nat /\ m # None
    BY MonthType, NoneType DEF TypeOK
  <2>2. \A c \in Creation : CallOK(c)
    BY InvParts
  <2>. QED BY <2>1, <2>2 DEF CallOK
<1>2. Held(o, m) = {}
  BY <1>1 DEF Held
<1>. QED BY <1>2, FS_EmptySet

\* The reset keeps the counts in order: nothing is held of the month it begins.
LEMMA ResetKeeps ==
  ASSUME TypeOK, CreationInv, NEW o \in Org
  PROVE  LET current == Reset(org[o], MonthOf[clock])
         IN  /\ current.period = MonthOf[clock] /\ org[o].period <= current.period
             /\ Cardinality(Held(o, MonthOf[clock]))
                  <= current.used + Cardinality(Unearned(o, MonthOf[clock]))
<1>1. org[o].period \in Nat /\ MonthOf[clock] \in Nat /\ MonthOf[clock] \in Month
  BY MonthType DEF TypeOK
<1>2. CountOK(o)
  BY InvParts
<1>3. CASE org[o].period < MonthOf[clock]
  <2>1. Cardinality(Held(o, MonthOf[clock])) = 0
    BY <1>1, <1>3, NoneHeldAhead
  <2>. QED BY <1>1, <1>3, <2>1, CountsType DEF Reset
<1>4. CASE ~ (org[o].period < MonthOf[clock])
  <2>1. org[o].period = MonthOf[clock]
    BY <1>1, <1>2, <1>4 DEF CountOK
  <2>. QED BY <1>2, <1>4, <2>1 DEF Reset, CountOK
<1>. QED BY <1>3, <1>4

\* A reservation: the unit it holds is counted, and there is one left for it.
LEMMA ReserveKeeps ==
  ASSUME TypeOK, CreationInv, TypeOK', NEW c \in Creation, Reserve(c)
  PROVE  CreationInv'
<1>. DEFINE o == OrgOf(c)
            current == Reset(org[o], MonthOf[clock])
            month == MonthOf[clock]
<1>1. /\ CallOK(c) /\ CountOK(o) /\ o \in Org /\ Limit[o] \in Nat
      /\ month \in Month /\ month \in Nat /\ None \notin Month
  BY CallFacts
<1>2. /\ current.period = month /\ org[o].period <= current.period
      /\ Cardinality(Held(o, month)) <= current.used + Cardinality(Unearned(o, month))
  BY <1>1, ResetKeeps
<1>3. current \in [used : Nat, period : Month] /\ current.used < Limit[o]
  BY <1>1, ResetType DEF Reserve, Exhausted
<1>4. org'[o].used = current.used + 1 /\ org'[o].period = month
  BY <1>1, <1>2, <1>3 DEF Reserve, Charge, TypeOK
<1>5. pc[c] = "idle" /\ paid[c] = None /\ created[c] = None /\ refunded[c] = None
  BY <1>1 DEF Reserve, CallOK
<1>6. /\ paid'[c] = month /\ created'[c] = None /\ refunded'[c] = None
      /\ pc'[c] \in {"insert", "failed"}
  BY <1>5 DEF Reserve, Answer, TypeOK
<1>7. \A d \in Creation \ {c} : /\ paid'[d] = paid[d] /\ created'[d] = created[d]
                                /\ refunded'[d] = refunded[d] /\ pc'[d] = pc[d]
  BY DEF Reserve, Answer, TypeOK
<1>8. CallOK(c)'
  BY <1>1, <1>4, <1>6 DEF CallOK
<1>9. ASSUME NEW m \in Month
      PROVE  /\ Cardinality(Held(o, m)')
                  <= Cardinality(Held(o, m)) + (IF m = month THEN 1 ELSE 0)
             /\ Cardinality(Unearned(o, m)') = Cardinality(Unearned(o, m))
  <2>1. c \notin Held(o, m) /\ c \notin Unearned(o, m) /\ c \notin Unearned(o, m)'
    BY <1>1, <1>5, <1>6 DEF Held, Unearned
  <2>2. m # month => c \notin Held(o, m)'
    BY <1>6 DEF Held
  <2>. QED BY <1>7, <2>1, <2>2, OneCall, CountsType DEF Change
<1>10. ASSUME NEW m \in Month
       PROVE  Cardinality(Held(o, m)') <= Limit[o] + Cardinality(Unearned(o, m)')
  <2>1. Cardinality(Held(o, m)) \in Nat /\ Cardinality(Unearned(o, m)) \in Nat
        /\ Cardinality(Held(o, m)') \in Nat
    <3>1. IsFiniteSet(Held(o, m)')
      BY CreationFinite, FS_Subset DEF Held
    <3>. QED BY <3>1, CountsType, FS_CardinalityType
  <2>2. CASE m = month
    <3>1. Cardinality(Held(o, m)) <= current.used + Cardinality(Unearned(o, m))
      BY <1>2, <2>2
    <3>2. Cardinality(Held(o, m)') <= Cardinality(Held(o, m)) + 1
      BY <1>9, <2>2
    <3>. QED BY <1>1, <1>3, <1>9, <2>1, <3>1, <3>2
  <2>3. CASE m # month
    <3>1. Cardinality(Held(o, m)') <= Cardinality(Held(o, m))
      BY <1>9, <2>1, <2>3
    <3>2. Cardinality(Held(o, m)) <= Limit[o] + Cardinality(Unearned(o, m))
      BY <1>1 DEF CountOK
    <3>. QED BY <1>1, <1>9, <2>1, <3>1, <3>2
  <2>. QED BY <2>2, <2>3
<1>11. Cardinality(Held(o, month)') <= org'[o].used + Cardinality(Unearned(o, month)')
  <2>1. /\ Cardinality(Held(o, month)') <= Cardinality(Held(o, month)) + 1
        /\ Cardinality(Unearned(o, month)') = Cardinality(Unearned(o, month))
    <3>1. clock' = clock
      BY DEF Reserve
    <3>2. PICK m \in Month : m = month
      BY <1>1
    <3>3. Held(o, month)' = Held(o, m)' /\ Unearned(o, month)' = Unearned(o, m)'
      BY <3>1, <3>2 DEF Held, Unearned
    <3>4. Held(o, month) = Held(o, m) /\ Unearned(o, month) = Unearned(o, m)
      BY <3>2
    <3>. QED BY <1>9, <3>2, <3>3, <3>4
  <2>2. Cardinality(Held(o, month)) \in Nat /\ Cardinality(Unearned(o, month)) \in Nat
        /\ Cardinality(Held(o, month)') \in Nat
    <3>1. IsFiniteSet(Held(o, month)')
      BY CreationFinite, FS_Subset DEF Held
    <3>. QED BY <3>1, CountsType, FS_CardinalityType
  <2>3. current.used \in Nat
    BY <1>3
  <2>. QED BY <1>2, <1>4, <2>1, <2>2, <2>3
<1>12. UNCHANGED clock /\ \A p \in Org \ {o} : org'[p] = org[p]
  BY DEF Reserve, TypeOK
<1>13. CountOK(o)'
  BY <1>1, <1>4, <1>10, <1>11, <1>12 DEF CountOK
<1>. QED BY <1>2, <1>4, <1>7, <1>8, <1>12, <1>13, OneCallKeeps

\* A reservation that is refused may still begin a new period.
LEMMA ReserveRefusedKeeps ==
  ASSUME TypeOK, CreationInv, TypeOK', NEW c \in Creation, ReserveRefused(c)
  PROVE  CreationInv'
<1>. DEFINE o == OrgOf(c)
            current == Reset(org[o], MonthOf[clock])
            month == MonthOf[clock]
<1>1. /\ CallOK(c) /\ CountOK(o) /\ o \in Org /\ Limit[o] \in Nat
      /\ month \in Month /\ month \in Nat /\ None \notin Month
  BY CallFacts
<1>2. /\ current.period = month /\ org[o].period <= current.period
      /\ Cardinality(Held(o, month)) <= current.used + Cardinality(Unearned(o, month))
  BY <1>1, ResetKeeps
<1>3. org'[o] = current
  BY <1>1 DEF ReserveRefused, TypeOK
<1>4. pc[c] = "idle" /\ paid[c] = None /\ created[c] = None /\ refunded[c] = None
  BY <1>1 DEF ReserveRefused, CallOK
<1>5. /\ paid'[c] = None /\ created'[c] = None /\ refunded'[c] = None
      /\ pc'[c] \in {"refused", "failed"}
  BY <1>4 DEF ReserveRefused, Answer, TypeOK
<1>6. \A d \in Creation \ {c} : /\ paid'[d] = paid[d] /\ created'[d] = created[d]
                                /\ refunded'[d] = refunded[d] /\ pc'[d] = pc[d]
  BY DEF ReserveRefused, Answer, TypeOK
<1>7. CallOK(c)'
  BY <1>5 DEF CallOK
<1>8. ASSUME NEW m \in Month
      PROVE  /\ Cardinality(Held(o, m)') = Cardinality(Held(o, m))
             /\ Cardinality(Unearned(o, m)') = Cardinality(Unearned(o, m))
  <2>1. /\ c \notin Held(o, m) /\ c \notin Unearned(o, m)
        /\ c \notin Held(o, m)' /\ c \notin Unearned(o, m)'
    BY <1>1, <1>4, <1>5 DEF Held, Unearned
  <2>. QED BY <1>6, <2>1, OneCall, CountsType DEF Change
<1>9. UNCHANGED clock /\ \A p \in Org \ {o} : org'[p] = org[p]
  BY DEF ReserveRefused, TypeOK
<1>10. CountOK(o)'
  BY <1>1, <1>2, <1>3, <1>8, <1>9 DEF CountOK
<1>. QED BY <1>2, <1>3, <1>6, <1>7, <1>9, <1>10, OneCallKeeps

\* The insert keeps the unit that the call holds.
LEMMA InsertKeeps ==
  ASSUME TypeOK, CreationInv, TypeOK', NEW c \in Creation, Insert(c)
  PROVE  CreationInv'
<1>. DEFINE o == OrgOf(c)
<1>1. CallOK(c) /\ CountOK(o) /\ o \in Org /\ None \notin Month /\ org[o].period \in Month
      /\ org[o].period \in Nat
  BY CallFacts
<1>2. pc[c] = "insert" /\ paid[c] # None /\ created[c] = None /\ refunded[c] = None
  BY <1>1 DEF Insert, CallOK
<1>3. /\ paid' = paid /\ created'[c] # None /\ refunded' = refunded
      /\ pc'[c] \in {"created", "release"} /\ org' = org /\ clock' = clock
  BY NoneType DEF Insert, Answer, TypeOK
<1>4. \A d \in Creation \ {c} : /\ paid'[d] = paid[d] /\ created'[d] = created[d]
                                /\ refunded'[d] = refunded[d] /\ pc'[d] = pc[d]
  BY DEF Insert, Answer, TypeOK
<1>5. CallOK(c)'
  BY <1>1, <1>2, <1>3 DEF CallOK
<1>6. ASSUME NEW m \in Month
      PROVE  /\ Cardinality(Held(o, m)') = Cardinality(Held(o, m))
             /\ Cardinality(Unearned(o, m)') = Cardinality(Unearned(o, m))
  <2>1. /\ c \in Held(o, m) <=> c \in Held(o, m)'
        /\ c \notin Unearned(o, m) /\ c \notin Unearned(o, m)'
    BY <1>1, <1>2, <1>3 DEF Held, Unearned
  <2>. QED BY <1>4, <2>1, OneCall, CountsType DEF Change
<1>7. CountOK(o)'
  BY <1>1, <1>3, <1>6 DEF CountOK
<1>. QED BY <1>1, <1>3, <1>4, <1>5, <1>7, OneCallKeeps

\* A refund gives up the unit, or is unearned.
LEMMA ReleaseKeeps ==
  ASSUME TypeOK, CreationInv, TypeOK', NEW c \in Creation, Release(c)
  PROVE  CreationInv'
<1>. DEFINE o == OrgOf(c)
            period == org[o].period
<1>1. /\ CallOK(c) /\ CountOK(o) /\ o \in Org /\ Limit[o] \in Nat
      /\ org[o].used \in Nat /\ period \in Month /\ period \in Nat /\ None \notin Month
  BY CallFacts
<1>2. pc[c] = "release" /\ paid[c] # None /\ refunded[c] = None
  BY <1>1 DEF Release, CallOK
<1>3. /\ paid' = paid /\ created' = created /\ refunded'[c] = period
      /\ pc'[c] = "failed" /\ clock' = clock
  BY DEF Release, TypeOK
<1>4. org'[o].used = (IF org[o].used > 0 THEN org[o].used - 1 ELSE 0) /\ org'[o].period = period
  BY <1>1 DEF Release, Refund, TypeOK
<1>5. \A d \in Creation \ {c} : /\ paid'[d] = paid[d] /\ created'[d] = created[d]
                                /\ refunded'[d] = refunded[d] /\ pc'[d] = pc[d]
  BY DEF Release, TypeOK
<1>6. CallOK(c)'
  BY <1>1, <1>2, <1>3, <1>4 DEF CallOK
<1>7. ASSUME NEW m \in Month
      PROVE  /\ Cardinality(Held(o, m)') = Cardinality(Held(o, m))
                                             + Change(c, Held(o, m), Held(o, m)')
             /\ Cardinality(Unearned(o, m)') = Cardinality(Unearned(o, m))
                                             + Change(c, Unearned(o, m), Unearned(o, m)')
             /\ c \notin Unearned(o, m)
             /\ c \in Held(o, m) <=> paid[c] = m
             /\ c \in Held(o, m)' <=> paid[c] = m /\ created[c] # None
             /\ c \in Unearned(o, m)' <=> m = period /\ (created[c] # None \/ paid[c] # m)
  <2>1. c \notin Unearned(o, m)
    BY <1>1, <1>2 DEF Unearned
  <2>2. c \in Held(o, m) <=> paid[c] = m
    BY <1>2 DEF Held
  <2>3. c \in Held(o, m)' <=> paid[c] = m /\ created[c] # None
    BY <1>3 DEF Held
  <2>4. c \in Unearned(o, m)' <=> m = period /\ (created[c] # None \/ paid[c] # m)
    BY <1>3 DEF Unearned
  <2>. QED BY <1>5, <2>1, <2>2, <2>3, <2>4, OneCall
<1>8. ASSUME NEW m \in Month
      PROVE  Cardinality(Held(o, m)') <= Limit[o] + Cardinality(Unearned(o, m)')
  BY <1>1, <1>7, CountsType DEF CountOK, Change
<1>9. Cardinality(Held(o, period)') <= org'[o].used + Cardinality(Unearned(o, period)')
  <2>1. Cardinality(Held(o, period)) <= org[o].used + Cardinality(Unearned(o, period))
    BY <1>1 DEF CountOK
  <2>2. CASE paid[c] = period /\ created[c] = None
    BY <1>1, <1>4, <1>7, <2>1, <2>2, CountsType DEF Change
  <2>3. CASE ~ (paid[c] = period /\ created[c] = None)
    BY <1>1, <1>4, <1>7, <2>1, <2>3, CountsType DEF Change
  <2>. QED BY <2>2, <2>3
<1>10. \A p \in Org \ {o} : org'[p] = org[p]
  BY DEF Release, TypeOK
<1>11. CountOK(o)'
  BY <1>1, <1>3, <1>4, <1>8, <1>9 DEF CountOK
<1>. QED BY <1>1, <1>3, <1>4, <1>5, <1>6, <1>10, <1>11, OneCallKeeps

\* At first nothing is held.
LEMMA CreationInit == Init => CreationInv
<1>. SUFFICES ASSUME Init PROVE CreationInv
  OBVIOUS
<1>0. TypeOK
  BY TypeInit
<1>1. \A c \in Creation : CallOK(c)
  BY DEF Init, CallOK
<1>2. ASSUME NEW o \in Org PROVE CountOK(o)
  <2>1. \A m : Held(o, m) = {}
    BY DEF Init, Held
  <2>2. \A m : Cardinality(Held(o, m)) = 0
    BY <2>1, FS_EmptySet
  <2>3. org[o].used = 0 /\ org[o].period = MonthOf[clock] /\ MonthOf[clock] \in Nat
    BY <1>0, MonthType DEF Init, TypeOK
  <2>. QED BY <2>2, <2>3, CountsType, LimitAssumption DEF CountOK
<1>. QED BY <1>1, <1>2, InvParts

\* Every step keeps the counts in order.
LEMMA CreationNext == TypeOK /\ CreationInv /\ [Next]_vars => CreationInv'
<1>. SUFFICES ASSUME TypeOK, CreationInv, [Next]_vars PROVE CreationInv'
  OBVIOUS
<1>0. TypeOK'
  BY TypeNext
<1>1. MonthOf[clock] <= MonthOf[clock]
  <2>1. MonthOf[clock] \in Nat
    BY MonthType DEF TypeOK
  <2>. QED BY <2>1
<1>2. CASE UNCHANGED vars
  BY <1>0, <1>1, <1>2, FewerHeld DEF vars
<1>3. ASSUME NEW c \in Creation, Reserve(c) PROVE CreationInv'
  BY <1>0, <1>3, ReserveKeeps
<1>4. ASSUME NEW c \in Creation, ReserveRefused(c) PROVE CreationInv'
  BY <1>0, <1>4, ReserveRefusedKeeps
<1>5. ASSUME NEW c \in Creation, Insert(c) PROVE CreationInv'
  BY <1>0, <1>5, InsertKeeps
<1>6. ASSUME NEW c \in Creation, Release(c) PROVE CreationInv'
  BY <1>0, <1>6, ReleaseKeeps
<1>7. ASSUME NEW c \in Creation, ReserveFails(c) PROVE CreationInv'
  BY <1>0, <1>1, <1>7, FewerHeld DEF ReserveFails, TypeOK
<1>8. ASSUME NEW c \in Creation, InsertFails(c) \/ ReleaseFails(c) PROVE CreationInv'
  BY <1>0, <1>1, <1>8, FewerHeld DEF InsertFails, ReleaseFails, TypeOK
<1>9. ASSUME NEW c \in Request, CrashRequest(c) PROVE CreationInv'
  BY <1>0, <1>1, <1>9, FewerHeld DEF CrashRequest, TypeOK, Creation
<1>10. ASSUME NEW s \in Sweep, BeginSweep(s) \/ SweepFails(s) PROVE CreationInv'
  BY <1>0, <1>1, <1>10, FewerHeld DEF BeginSweep, SweepFails
<1>11. ASSUME NEW s \in Sweep, CrashSweep(s) PROVE CreationInv'
  BY <1>0, <1>1, <1>11, FewerHeld DEF CrashSweep
<1>12. CASE Tick
  <2>1. MonthOf[clock] <= MonthOf[clock']
    BY <1>0, <1>12, TimeAssumption DEF Tick, TypeOK, Time
  <2>. QED BY <1>0, <1>12, <2>1, FewerHeld DEF Tick
<1>. QED BY <1>2, <1>3, <1>4, <1>5, <1>6, <1>7, <1>8, <1>9, <1>10, <1>11, <1>12
         DEF Next, Call

\* The inductive invariant: in the current period quota_used covers the units held.
THEOREM CreationCorrect == Spec => []CreationInv
<1>. QED BY TypeInit, TypeNext, CreationInit, CreationNext, PTL DEF Spec

\* An organization gets no more runs out of a month than its limit, but for unearned
\* refunds, however many calls, sweeps, resets, refunds and crashes interleave.
THEOREM QuotaHolds == Spec => []QuotaRespected
<1>1. TypeOK /\ CreationInv => QuotaRespected
  <2>. SUFFICES ASSUME TypeOK, CreationInv, NEW o \in Org, NEW m \in Month
                PROVE  Cardinality(RunsOf(o, m)) <= Limit[o] + Cardinality(Unearned(o, m))
    BY DEF QuotaRespected
  <2>1. RunsOf(o, m) \subseteq Held(o, m)
    BY DEF RunsOf, Held
  <2>2. Cardinality(RunsOf(o, m)) <= Cardinality(Held(o, m)) /\ Cardinality(RunsOf(o, m)) \in Nat
    BY <2>1, CountsType, FS_Subset, FS_CardinalityType
  <2>. QED BY <2>2, CountsType, LimitAssumption DEF CreationInv
<1>. QED BY <1>1, CreationTypes, CreationCorrect, PTL

-----------------------------------------------------------------------------
(* The charges. *)

\* A step of one call moves the count of the charges by that call at most.
LEMMA OneCharge ==
  ASSUME NEW c \in Creation, NEW o, NEW m,
         \A d \in Creation \ {c} : paid'[d] = paid[d] /\ refunded'[d] = refunded[d]
  PROVE  /\ Cardinality(Charged(o, m)) \in Nat
         /\ Cardinality(Charged(o, m)')
              = Cardinality(Charged(o, m)) + Change(c, Charged(o, m), Charged(o, m)')
<1>1. Charged(o, m) \ {c} = Charged(o, m)' \ {c}
  BY DEF Charged
<1>2. IsFiniteSet(Charged(o, m))
  BY CreationFinite, FS_Subset DEF Charged
<1>. QED BY <1>1, <1>2, OneElement, FS_CardinalityType

\* A step that pays and refunds nothing, and leaves the counts alone, charges nobody.
LEMMA SameCharges ==
  ASSUME NothingOvercharged, UNCHANGED <<org, paid, refunded>>
  PROVE  NothingOvercharged'
<1>1. ASSUME NEW o \in Org PROVE Charged(o, org[o].period)' = Charged(o, org[o].period)
  BY DEF Charged
<1>. QED BY <1>1 DEF NothingOvercharged

\* A step of one call for its own organization: the others are charged as before.
LEMMA ChargesOfOne ==
  ASSUME NothingOvercharged, NEW c \in Creation,
         \A d \in Creation \ {c} : paid'[d] = paid[d] /\ refunded'[d] = refunded[d],
         \A o \in Org \ {OrgOf(c)} : org'[o] = org[o],
         org'[OrgOf(c)].used <= Cardinality(Charged(OrgOf(c), org[OrgOf(c)].period)')
  PROVE  NothingOvercharged'
<1>. SUFFICES ASSUME NEW o \in Org
              PROVE  org'[o].used <= Cardinality(Charged(o, org[o].period)')
  BY DEF NothingOvercharged
<1>1. CASE o = OrgOf(c)
  BY <1>1
<1>2. CASE o # OrgOf(c)
  <2>1. Charged(o, org[o].period)' = Charged(o, org[o].period)
    BY <1>2 DEF Charged
  <2>. QED BY <1>2, <2>1 DEF NothingOvercharged
<1>. QED BY <1>1, <1>2

\* The unit that a reservation adds is one more charge.
LEMMA ReserveCharges ==
  ASSUME TypeOK, CreationInv, NothingOvercharged, NEW c \in Creation, Reserve(c)
  PROVE  NothingOvercharged'
<1>. DEFINE o == OrgOf(c)
            current == Reset(org[o], MonthOf[clock])
            month == MonthOf[clock]
<1>1. /\ CallOK(c) /\ CountOK(o) /\ o \in Org
      /\ org[o].used \in Nat /\ org[o].period \in Nat
      /\ month \in Month /\ month \in Nat /\ None \notin Month
  BY CallFacts
<1>2. current.period = month /\ current \in [used : Nat, period : Month]
  BY <1>1, ResetKeeps, ResetType
<1>3. org'[o].used = current.used + 1 /\ org'[o].period = month
  BY <1>1, <1>2 DEF Reserve, Charge, TypeOK
<1>4. pc[c] = "idle" /\ paid[c] = None /\ refunded[c] = None
  BY <1>1 DEF Reserve, CallOK
<1>5. paid'[c] = month /\ refunded'[c] = None
  BY <1>4 DEF Reserve, TypeOK
<1>6. \A d \in Creation \ {c} : paid'[d] = paid[d] /\ refunded'[d] = refunded[d]
  BY DEF Reserve, TypeOK
<1>7. PICK m \in Month : m = month
  BY <1>1
<1>8. c \notin Charged(o, m) /\ c \in Charged(o, m)'
  BY <1>1, <1>4, <1>5, <1>7 DEF Charged
<1>9. /\ Cardinality(Charged(o, m)) \in Nat
      /\ Cardinality(Charged(o, m)') = Cardinality(Charged(o, m)) + 1
  BY <1>6, <1>8, OneCharge DEF Change
<1>10. current.used <= Cardinality(Charged(o, m))
  <2>1. CASE org[o].period < month
    BY <1>9, <2>1 DEF Reset
  <2>2. CASE ~ (org[o].period < month)
    <3>1. org[o].period = m
      BY <1>1, <1>7, <2>2 DEF CountOK
    <3>2. org[o].used <= Cardinality(Charged(o, m))
      BY <1>1, <3>1 DEF NothingOvercharged
    <3>. QED BY <2>2, <3>2 DEF Reset
  <2>. QED BY <2>1, <2>2
<1>11. org'[o].used <= Cardinality(Charged(o, m)')
  BY <1>2, <1>3, <1>9, <1>10
<1>12. Charged(o, org[o].period)' = Charged(o, m)'
  BY <1>3, <1>7 DEF Charged
<1>13. \A p \in Org \ {o} : org'[p] = org[p]
  BY DEF Reserve, TypeOK
<1>. QED BY <1>6, <1>11, <1>12, <1>13, ChargesOfOne

\* A refusal charges nobody; the window that it may reset starts from nothing.
LEMMA ReserveRefusedCharges ==
  ASSUME TypeOK, CreationInv, NothingOvercharged, NEW c \in Creation, ReserveRefused(c)
  PROVE  NothingOvercharged'
<1>. DEFINE o == OrgOf(c)
            current == Reset(org[o], MonthOf[clock])
            month == MonthOf[clock]
<1>1. o \in Org /\ org'[o] = current
  BY CallFacts DEF ReserveRefused, TypeOK
<1>2. paid' = paid /\ refunded' = refunded
  BY DEF ReserveRefused
<1>3. \A p \in Org \ {o} : org'[p] = org[p]
  BY DEF ReserveRefused, TypeOK
<1>4. PICK m : m = current.period
  OBVIOUS
<1>5. Charged(o, org[o].period)' = Charged(o, m)
  BY <1>1, <1>2, <1>4 DEF Charged
<1>6. current.used <= Cardinality(Charged(o, m))
  <2>1. CASE org[o].period < month
    BY <1>2, <2>1, OneCharge DEF Reset
  <2>2. CASE ~ (org[o].period < month)
    BY <1>1, <1>4, <2>2 DEF Reset, NothingOvercharged
  <2>. QED BY <2>1, <2>2
<1>. QED BY <1>1, <1>2, <1>3, <1>5, <1>6, ChargesOfOne

\* A refund takes a unit off, unless there is none, and one charge at most.
LEMMA ReleaseCharges ==
  ASSUME TypeOK, CreationInv, NothingOvercharged, NEW c \in Creation, Release(c)
  PROVE  NothingOvercharged'
<1>. DEFINE o == OrgOf(c)
<1>1. /\ CallOK(c) /\ o \in Org /\ org[o].used \in Nat /\ org[o].period \in Month
      /\ None \notin Month
  BY CallFacts
<1>2. /\ paid' = paid /\ refunded'[c] # None
      /\ \A d \in Creation \ {c} : paid'[d] = paid[d] /\ refunded'[d] = refunded[d]
      /\ \A p \in Org \ {o} : org'[p] = org[p]
  BY <1>1 DEF Release, TypeOK
<1>3. /\ org'[o].used = (IF org[o].used > 0 THEN org[o].used - 1 ELSE 0)
      /\ org'[o].period = org[o].period
  BY <1>1 DEF Release, Refund, TypeOK
<1>4. PICK m \in Month : m = org[o].period
  BY <1>1
<1>5. org[o].used <= Cardinality(Charged(o, m))
  BY <1>1, <1>4 DEF NothingOvercharged
<1>6. c \notin Charged(o, m)'
  BY <1>2 DEF Charged
<1>7. /\ Cardinality(Charged(o, m)) \in Nat /\ Cardinality(Charged(o, m)') \in Nat
      /\ Cardinality(Charged(o, m)') >= Cardinality(Charged(o, m)) - 1
  <2>1. Cardinality(Charged(o, m)') \in Nat
    <3>1. IsFiniteSet(Charged(o, m)')
      BY CreationFinite, FS_Subset DEF Charged
    <3>. QED BY <3>1, FS_CardinalityType
  <2>. QED BY <1>2, <1>6, <2>1, OneCharge DEF Change
<1>8. org'[o].used <= Cardinality(Charged(o, m)')
  BY <1>1, <1>3, <1>5, <1>7
<1>9. Charged(o, org[o].period)' = Charged(o, m)'
  BY <1>3, <1>4 DEF Charged
<1>. QED BY <1>2, <1>8, <1>9, ChargesOfOne

\* quota_used never exceeds what was reserved in this period and not refunded, whatever
\* calls, resets, refunds and crashes interleave.
THEOREM NobodyOvercharged == Spec => []NothingOvercharged
<1>1. Init => NothingOvercharged
  <2>. SUFFICES ASSUME Init, NEW o \in Org
                PROVE  org[o].used <= Cardinality(Charged(o, org[o].period))
    BY DEF NothingOvercharged
  <2>1. IsFiniteSet(Charged(o, org[o].period))
    BY CreationFinite, FS_Subset DEF Charged
  <2>2. Cardinality(Charged(o, org[o].period)) \in Nat
    BY <2>1, FS_CardinalityType
  <2>. QED BY <2>2 DEF Init
<1>2. TypeOK /\ CreationInv /\ NothingOvercharged /\ [Next]_vars => NothingOvercharged'
  <2>. SUFFICES ASSUME TypeOK, CreationInv, NothingOvercharged, [Next]_vars
                PROVE  NothingOvercharged'
    OBVIOUS
  <2>1. ASSUME NEW c \in Creation, Reserve(c) PROVE NothingOvercharged'
    BY <2>1, ReserveCharges
  <2>2. ASSUME NEW c \in Creation, ReserveRefused(c) PROVE NothingOvercharged'
    BY <2>2, ReserveRefusedCharges
  <2>3. ASSUME NEW c \in Creation, Release(c) PROVE NothingOvercharged'
    BY <2>3, ReleaseCharges
  <2>4. ASSUME NEW c \in Creation,
               ReserveFails(c) \/ Insert(c) \/ InsertFails(c) \/ ReleaseFails(c)
        PROVE  NothingOvercharged'
    BY <2>4, SameCharges DEF ReserveFails, Insert, InsertFails, ReleaseFails
  <2>5. ASSUME NEW c \in Request, CrashRequest(c) PROVE NothingOvercharged'
    BY <2>5, SameCharges DEF CrashRequest
  <2>6. ASSUME NEW s \in Sweep, BeginSweep(s) \/ SweepFails(s) \/ CrashSweep(s)
        PROVE  NothingOvercharged'
    BY <2>6, SameCharges DEF BeginSweep, SweepFails, CrashSweep
  <2>7. CASE Tick \/ UNCHANGED vars
    BY <2>7, SameCharges DEF Tick, vars
  <2>. QED BY <2>1, <2>2, <2>3, <2>4, <2>5, <2>6, <2>7 DEF Next, Call
<1>. QED BY <1>1, <1>2, CreationTypes, CreationCorrect, PTL DEF Spec

-----------------------------------------------------------------------------
(* The cadence of the dispatches. *)

\* A sweep's call for a trigger is no request, and no other sweep's or trigger's.
LEMMA DispatchType ==
  ASSUME NEW s \in Sweep, NEW t \in Trigger
  PROVE  <<s, t>> \in Dispatch /\ <<s, t>> \in Creation /\ <<s, t>> \notin Request
<1>1. <<s, t>> \in Dispatch
  BY DEF Dispatch
<1>. QED BY <1>1, CallersAssumption DEF Creation

\* Intervals and times are numbers.
LEMMA SpacingType ==
  ASSUME TypeOK, NEW s \in Sweep, NEW t \in Trigger
  PROVE  /\ EveryMinutes[t] # NaN => Interval(t) \in Int
         /\ created[<<s, t>>] \in Time \cup {None} /\ Time \subseteq Int /\ None \notin Int
         /\ clock \in Int /\ sweep[s].now \in Time \cup {None}
<1>1. <<s, t>> \in Creation
  BY DispatchType
<1>2. EveryMinutes[t] \in Int \cup {None, NaN}
  BY CallersAssumption
<1>3. EveryMinutes[t] # NaN => Interval(t) \in Int
  BY <1>2, TimeAssumption DEF Interval
<1>. QED BY <1>1, <1>3, NullAssumption, TimeAssumption DEF TypeOK, Time

\* A sweep with an insert to make for a trigger is in progress.
LEMMA AheadIsLive ==
  ASSUME NEW s, NEW t, Ahead(s, t)
  PROVE  Live(s)
BY DEF Ahead, Live

\* A call begins when the sweep that makes it is there.
LEMMA StartsInSweep ==
  ASSUME NEW s \in Sweep, NEW t \in Trigger, MayStart(<<s, t>>)
  PROVE  sweep[s].pc = "running" /\ t \in sweep[s].due
<1>1. <<s, t>> \notin Request
  BY DispatchType
<1>2. PICK r \in Sweep : sweep[r].pc = "running" /\ \E u \in sweep[r].due : <<s, t>> = <<r, u>>
  BY <1>1 DEF MayStart
<1>. QED BY <1>2

\* Steps that leave the sweeps, their calls and their runs alone.
LEMMA SameDispatch ==
  ASSUME TypeOK, DispatchInv, clock' \in Int, clock <= clock', sweep' = sweep,
         \A s \in Sweep, t \in Trigger : /\ pc'[<<s, t>>] = pc[<<s, t>>]
                                         /\ created'[<<s, t>>] = created[<<s, t>>]
  PROVE  DispatchInv' /\ (DispatchesSpaced => DispatchesSpaced')
<1>1. ASSUME NEW s \in Sweep, NEW t \in Trigger PROVE InStep(s, t)'
  BY DEF DispatchInv, InStep
<1>2. ASSUME NEW s \in Sweep
      PROVE  sweep'[s].pc \in {"running", "dead"} => sweep'[s].now \in 0..clock'
  <2>1. sweep[s].pc \in {"running", "dead"} => sweep[s].now \in 0..clock
    BY DEF DispatchInv
  <2>2. clock \in Int
    BY TimeAssumption DEF TypeOK, Time
  <2>. QED BY <2>1, <2>2
<1>3. \A s \in Sweep, t \in Trigger : Ahead(s, t)' <=> Ahead(s, t)
  BY DEF Ahead, Settled
<1>4. ASSUME NEW s \in Sweep, Live(s)' PROVE Live(s)
  <2>1. PICK t \in sweep'[s].due : sweep'[s].pc = "running" /\ ~ Settled(<<s, t>>)'
    BY <1>4 DEF Live
  <2>2. t \in Trigger
    BY <2>1 DEF TypeOK
  <2>3. Ahead(s, t)
    BY <1>3, <2>1, <2>2 DEF Ahead
  <2>. QED BY <2>3, AheadIsLive
<1>5. \A r, s \in Sweep : Live(r)' /\ Live(s)' => r = s
  BY <1>4 DEF DispatchInv
<1>6. ASSUME NEW r \in Sweep, NEW s \in Sweep, NEW t \in Trigger PROVE SawRuns(r, s, t)'
  BY <1>3 DEF DispatchInv, SawRuns, Interval
<1>7. DispatchInv'
  BY <1>1, <1>2, <1>5, <1>6 DEF DispatchInv
<1>8. DispatchesSpaced => DispatchesSpaced'
  BY DEF DispatchesSpaced, Interval
<1>. QED BY <1>7, <1>8

\* One call of one sweep takes a step: the sweep is the only one with inserts to make.
LEMMA OneDispatch ==
  ASSUME TypeOK, TypeOK', DispatchInv, NEW s \in Sweep, NEW t \in Trigger,
         clock' = clock, sweep' = sweep,
         \A c \in Creation \ {<<s, t>>} : pc'[c] = pc[c] /\ created'[c] = created[c],
         ~ Settled(<<s, t>>), sweep[s].pc = "running", t \in sweep[s].due,
         pc'[<<s, t>>] # "idle",
         \/ created'[<<s, t>>] = created[<<s, t>>]
            /\ (pc'[<<s, t>>] = "insert" => pc[<<s, t>>] = "idle")
         \/ created'[<<s, t>>] = clock /\ pc'[<<s, t>>] # "insert"
  PROVE  DispatchInv'
<1>1. Live(s) /\ sweep[s].now \in 0..clock
  BY DEF Live, DispatchInv
<1>2. \A r \in Sweep, u \in Trigger : /\ <<r, u>> \in Creation
                                      /\ <<r, u>> = <<s, t>> => r = s /\ u = t
  BY DispatchType
<1>3. \A r \in Sweep, u \in Trigger : Ahead(r, u)' => Ahead(r, u)
  BY <1>2 DEF Ahead, Settled
<1>4. ASSUME NEW r \in Sweep, NEW u \in Trigger PROVE InStep(r, u)'
  <2>1. InStep(r, u) /\ clock \in Int
    BY TimeAssumption DEF DispatchInv, TypeOK, Time
  <2>2. CASE r = s /\ u = t
    <3>1. created'[<<s, t>>] # None => created'[<<s, t>>] >= sweep[s].now
      BY <1>1, <2>1, <2>2 DEF InStep
    <3>2. pc'[<<s, t>>] = "insert" => created'[<<s, t>>] = None
      BY <2>1, <2>2 DEF InStep
    <3>. QED BY <2>2, <3>1, <3>2 DEF InStep
  <2>3. CASE ~ (r = s /\ u = t)
    <3>1. pc'[<<r, u>>] = pc[<<r, u>>] /\ created'[<<r, u>>] = created[<<r, u>>]
      BY <1>2, <2>3
    <3>. QED BY <2>1, <3>1 DEF InStep
  <2>. QED BY <2>2, <2>3
<1>5. ASSUME NEW r \in Sweep, Live(r)' PROVE Live(r)
  <2>1. PICK u \in sweep'[r].due : sweep'[r].pc = "running" /\ ~ Settled(<<r, u>>)'
    BY <1>5 DEF Live
  <2>2. u \in Trigger
    BY <2>1 DEF TypeOK
  <2>3. Ahead(r, u)
    BY <1>3, <2>1, <2>2 DEF Ahead
  <2>. QED BY <2>3, AheadIsLive
<1>6. \A q, r \in Sweep : Live(q)' /\ Live(r)' => q = r
  BY <1>5 DEF DispatchInv
<1>7. ASSUME NEW q \in Sweep, NEW r \in Sweep, NEW u \in Trigger PROVE SawRuns(q, r, u)'
  <2>. SUFFICES ASSUME EveryMinutes[u] # NaN, q # r, Ahead(r, u)', created'[<<q, u>>] # None
                PROVE  sweep'[r].now - created'[<<q, u>>] >= Interval(u)
    BY DEF SawRuns, Interval
  <2>1. Ahead(r, u) /\ Live(r)
    BY <1>3, AheadIsLive
  <2>2. q # s
    BY <1>1, <2>1 DEF DispatchInv
  <2>3. created'[<<q, u>>] = created[<<q, u>>]
    BY <1>2, <2>2
  <2>4. SawRuns(q, r, u)
    BY DEF DispatchInv
  <2>. QED BY <2>1, <2>3, <2>4 DEF SawRuns
<1>. QED BY <1>1, <1>4, <1>6, <1>7 DEF DispatchInv

\* An insert comes after the read, which came an interval after the runs of the others.
LEMMA InsertIsSpaced ==
  ASSUME TypeOK, DispatchInv, DispatchesSpaced, NEW s \in Sweep, NEW t \in Trigger,
         Ahead(s, t), clock' = clock, created' = [created EXCEPT ![<<s, t>>] = clock]
  PROVE  DispatchesSpaced'
<1>. SUFFICES ASSUME NEW u \in Trigger, NEW q \in Sweep, NEW r \in Sweep,
                     EveryMinutes[u] # NaN, q # r,
                     created'[<<q, u>>] \in Int, created'[<<r, u>>] \in Int
              PROVE  \/ created'[<<r, u>>] - created'[<<q, u>>] >= Interval(u)
                     \/ created'[<<q, u>>] - created'[<<r, u>>] >= Interval(u)
  BY DEF DispatchesSpaced, Interval
<1>1. sweep[s].now \in Int /\ sweep[s].now <= clock /\ clock \in Int /\ Interval(u) \in Int
  BY SpacingType DEF DispatchInv, Ahead
<1>2. created'[<<s, t>>] = clock
  BY DispatchType DEF TypeOK
<1>3. \A p \in Sweep : p # s \/ u # t => created'[<<p, u>>] = created[<<p, u>>]
  <2>. TAKE p \in Sweep
  <2>. HAVE p # s \/ u # t
  <2>1. <<p, u>> # <<s, t>> /\ <<p, u>> \in Creation
    BY DispatchType
  <2>. QED BY <2>1 DEF TypeOK
<1>4. ASSUME NEW p \in Sweep, p # s, u = t, created'[<<p, u>>] \in Int
      PROVE  clock - created'[<<p, u>>] >= Interval(u)
  <2>1. created'[<<p, u>>] = created[<<p, u>>] /\ created[<<p, u>>] # None
    BY <1>3, <1>4, NullAssumption
  <2>2. SawRuns(p, s, u)
    BY DEF DispatchInv
  <2>3. sweep[s].now - created[<<p, u>>] >= Interval(u)
    BY <1>4, <2>1, <2>2 DEF SawRuns
  <2>. QED BY <1>1, <1>4, <2>1, <2>3
<1>5. CASE u = t /\ r = s
  BY <1>2, <1>4, <1>5
<1>6. CASE u = t /\ q = s
  BY <1>2, <1>4, <1>6
<1>7. CASE ~ (u = t /\ (r = s \/ q = s))
  <2>1. created'[<<q, u>>] = created[<<q, u>>] /\ created'[<<r, u>>] = created[<<r, u>>]
    BY <1>3, <1>7
  <2>. QED BY <2>1 DEF DispatchesSpaced
<1>. QED BY <1>5, <1>6, <1>7

\* A step of a call, whether a request's or a sweep's.
LEMMA CallIsSpaced ==
  ASSUME TypeOK, TypeOK', DispatchInv, DispatchesSpaced, NEW c \in Creation, Call(c)
  PROVE  DispatchInv' /\ DispatchesSpaced'
<1>1. /\ sweep' = sweep /\ clock' = clock /\ clock \in Int
      /\ \A d \in Creation \ {c} : pc'[d] = pc[d] /\ created'[d] = created[d]
  BY TimeAssumption DEF Call, Reserve, ReserveRefused, ReserveFails, Insert, InsertFails,
                        Release, ReleaseFails, Answer, TypeOK, Time
<1>2. CASE c \in Request
  <2>1. \A s \in Sweep, t \in Trigger : <<s, t>> \in Creation \ {c}
    BY <1>2, DispatchType
  <2>. QED BY <1>1, <2>1, SameDispatch
<1>3. CASE c \notin Request
  <2>1. PICK s \in Sweep, t \in Trigger : c = <<s, t>>
    BY <1>3 DEF Creation, Dispatch
  <2>2. InStep(s, t)
    BY DEF DispatchInv
  <2>3. /\ pc[c] \in {"idle", "insert", "release"}
        /\ pc[c] = "idle" => MayStart(c)
        /\ pc'[c] # "idle"
        /\ \/ created' = created /\ (pc'[c] = "insert" => pc[c] = "idle")
           \/ pc[c] = "insert" /\ created' = [created EXCEPT ![c] = clock] /\ pc'[c] # "insert"
    BY DEF Call, Reserve, ReserveRefused, ReserveFails, Insert, InsertFails,
           Release, ReleaseFails, Answer, TypeOK
  <2>4. sweep[s].pc = "running" /\ t \in sweep[s].due /\ ~ Settled(<<s, t>>)
    BY <2>1, <2>2, <2>3, StartsInSweep DEF InStep, Settled
  <2>5. created' = [created EXCEPT ![c] = clock] => created'[c] = clock
    BY DEF TypeOK
  <2>6. DispatchInv'
    BY <1>1, <2>1, <2>3, <2>4, <2>5, OneDispatch
  <2>7. CASE created' = created
    BY <2>6, <2>7 DEF DispatchesSpaced, Interval
  <2>8. CASE created' = [created EXCEPT ![c] = clock]
    BY <1>1, <2>1, <2>4, <2>6, <2>8, InsertIsSpaced DEF Ahead
  <2>. QED BY <2>3, <2>7, <2>8
<1>. QED BY <1>2, <1>3

\* A sweep begins when no other has inserts to make, with what is due by then.
LEMMA BeginIsSpaced ==
  ASSUME TypeOK, TypeOK', DispatchInv, NEW s \in Sweep, BeginSweep(s)
  PROVE  DispatchInv'
<1>1. PICK seen \in SUBSET Trigger :
        sweep' = [sweep EXCEPT ![s] = [pc |-> "running", now |-> clock, seen |-> seen,
                                       due |-> {t \in seen : Due(t, clock)}]]
  BY DEF BeginSweep
<1>2. /\ sweep[s].pc = "idle" /\ pc' = pc /\ created' = created /\ clock' = clock
      /\ \A r \in Sweep : ~ Live(r)
  BY DEF BeginSweep, MayBegin
<1>3. /\ sweep'[s].pc = "running" /\ sweep'[s].now = clock
      /\ sweep'[s].due = {t \in seen : Due(t, clock)}
      /\ \A r \in Sweep \ {s} : sweep'[r] = sweep[r]
  BY <1>1 DEF TypeOK
<1>4. \A r \in Sweep : Live(r)' => r = s
  BY <1>2, <1>3 DEF Live, Settled
<1>5. ASSUME NEW r \in Sweep, NEW t \in Trigger PROVE InStep(r, t)'
  <2>1. InStep(r, t)
    BY DEF DispatchInv
  <2>2. CASE r = s
    <3>1. pc'[<<s, t>>] = "idle" /\ created'[<<s, t>>] = None
      BY <1>2, <2>1, <2>2 DEF InStep
    <3>. QED BY <1>3, <2>2, <3>1 DEF InStep
  <2>3. CASE r # s
    BY <1>2, <1>3, <2>1, <2>3 DEF InStep
  <2>. QED BY <2>2, <2>3
<1>6. ASSUME NEW r \in Sweep
      PROVE  sweep'[r].pc \in {"running", "dead"} => sweep'[r].now \in 0..clock'
  <2>1. clock \in 0..clock
    BY TimeAssumption DEF TypeOK, Time
  <2>. QED BY <1>2, <1>3, <2>1 DEF DispatchInv
<1>7. ASSUME NEW q \in Sweep, NEW r \in Sweep, NEW t \in Trigger PROVE SawRuns(q, r, t)'
  <2>. SUFFICES ASSUME EveryMinutes[t] # NaN, q # r, Ahead(r, t)', created'[<<q, t>>] # None
                PROVE  sweep'[r].now - created'[<<q, t>>] >= Interval(t)
    BY DEF SawRuns, Interval
  <2>1. Live(r)'
    BY DEF Ahead, Live
  <2>2. r = s
    BY <1>4, <2>1
  <2>3. Due(t, clock)
    BY <1>3, <2>2 DEF Ahead
  <2>4. created[<<q, t>>] \in ScheduledRuns(t)
    BY <1>2 DEF ScheduledRuns
  <2>. QED BY <1>2, <1>3, <2>2, <2>3, <2>4 DEF Due
<1>. QED BY <1>4, <1>5, <1>6, <1>7 DEF DispatchInv

\* A sweep that fails or dies has no insert to make any more.
LEMMA EndIsSpaced ==
  ASSUME TypeOK, TypeOK', DispatchInv, NEW s \in Sweep, SweepFails(s) \/ CrashSweep(s)
  PROVE  DispatchInv'
<1>1. /\ created' = created /\ clock' = clock
      /\ \A r \in Sweep \ {s} : sweep'[r] = sweep[r]
      /\ sweep'[s].now = sweep[s].now /\ sweep'[s].due = sweep[s].due
      /\ \/ sweep[s].pc = "idle" /\ sweep'[s].pc = "error" /\ pc' = pc
         \/ sweep[s].pc = "running" /\ sweep'[s].pc = "dead"
  BY DEF SweepFails, MayBegin, CrashSweep, TypeOK
<1>2. \A r \in Sweep, t \in Trigger :
        \/ pc'[<<r, t>>] = pc[<<r, t>>]
        \/ r = s /\ pc[<<r, t>>] \in {"insert", "release"} /\ pc'[<<r, t>>] = "dead"
  BY DispatchType DEF SweepFails, CrashSweep
<1>3. \A t \in Trigger : pc'[<<s, t>>] \notin {"insert", "release"}
  <2>. TAKE t \in Trigger
  <2>1. CASE SweepFails(s)
    BY <1>2, <2>1 DEF SweepFails, MayBegin, DispatchInv, InStep
  <2>2. CASE CrashSweep(s)
    BY <2>2, DispatchType DEF CrashSweep
  <2>. QED BY <2>1, <2>2
<1>4. \A r \in Sweep, t \in Trigger : Ahead(r, t)' => Ahead(r, t)
  BY <1>1, <1>2 DEF Ahead, Settled
<1>5. ASSUME NEW r \in Sweep, Live(r)' PROVE Live(r)
  <2>1. PICK t \in sweep'[r].due : sweep'[r].pc = "running" /\ ~ Settled(<<r, t>>)'
    BY <1>5 DEF Live
  <2>2. t \in Trigger
    BY <2>1 DEF TypeOK
  <2>3. Ahead(r, t)
    BY <1>4, <2>1, <2>2 DEF Ahead
  <2>. QED BY <2>3, AheadIsLive
<1>6. ASSUME NEW r \in Sweep, NEW t \in Trigger PROVE InStep(r, t)'
  <2>1. InStep(r, t)
    BY DEF DispatchInv
  <2>2. CASE r = s
    BY <1>1, <1>2, <1>3, <2>1, <2>2 DEF InStep
  <2>3. CASE r # s
    BY <1>1, <1>2, <2>1, <2>3 DEF InStep
  <2>. QED BY <2>2, <2>3
<1>7. ASSUME NEW r \in Sweep
      PROVE  sweep'[r].pc \in {"running", "dead"} => sweep'[r].now \in 0..clock'
  BY <1>1 DEF DispatchInv
<1>8. ASSUME NEW q \in Sweep, NEW r \in Sweep, NEW t \in Trigger PROVE SawRuns(q, r, t)'
  BY <1>1, <1>4 DEF DispatchInv, SawRuns, Interval, Ahead
<1>9. \A q, r \in Sweep : Live(q)' /\ Live(r)' => q = r
  BY <1>5 DEF DispatchInv
<1>. QED BY <1>6, <1>7, <1>8, <1>9 DEF DispatchInv

\* A sweep's calls keep to the sweep, and its runs to their distance.
LEMMA DispatchCorrect == Spec => [](DispatchInv /\ DispatchesSpaced)
<1>. DEFINE Inv == DispatchInv /\ DispatchesSpaced
<1>1. Init => Inv
  <2>. SUFFICES ASSUME Init PROVE Inv
    OBVIOUS
  <2>1. \A s \in Sweep, t \in Trigger : pc[<<s, t>>] = "idle" /\ created[<<s, t>>] = None
    BY DispatchType DEF Init
  <2>2. \A s \in Sweep : sweep[s].pc = "idle"
    BY DEF Init, Idle
  <2>3. DispatchInv
    BY <2>1, <2>2 DEF DispatchInv, InStep, SawRuns, Ahead, Live
  <2>4. DispatchesSpaced
    BY <2>1, NullAssumption DEF DispatchesSpaced
  <2>. QED BY <2>3, <2>4
<1>2. TypeOK /\ Inv /\ [Next]_vars => Inv'
  <2>. SUFFICES ASSUME TypeOK, Inv, [Next]_vars PROVE Inv'
    OBVIOUS
  <2>0. TypeOK' /\ clock \in Int
    BY TypeNext, TimeAssumption DEF TypeOK, Time
  <2>1. ASSUME NEW c \in Creation, Call(c) PROVE Inv'
    BY <2>0, <2>1, CallIsSpaced
  <2>2. ASSUME NEW c \in Request, CrashRequest(c) PROVE Inv'
    <3>1. \A s \in Sweep, t \in Trigger : <<s, t>> \in Creation \ {c}
      BY DispatchType
    <3>2. \A s \in Sweep, t \in Trigger : pc'[<<s, t>>] = pc[<<s, t>>]
      BY <2>2, <3>1 DEF CrashRequest, TypeOK
    <3>. QED BY <2>0, <2>2, <3>2, SameDispatch DEF CrashRequest
  <2>3. ASSUME NEW s \in Sweep, BeginSweep(s) PROVE Inv'
    <3>1. DispatchesSpaced'
      BY <2>3 DEF BeginSweep, DispatchesSpaced, Interval
    <3>. QED BY <2>0, <2>3, <3>1, BeginIsSpaced
  <2>4. ASSUME NEW s \in Sweep, SweepFails(s) \/ CrashSweep(s) PROVE Inv'
    <3>1. DispatchesSpaced'
      BY <2>4 DEF SweepFails, CrashSweep, DispatchesSpaced, Interval
    <3>. QED BY <2>0, <2>4, <3>1, EndIsSpaced
  <2>5. CASE Tick
    BY <2>0, <2>5, SameDispatch DEF Tick
  <2>6. CASE UNCHANGED vars
    BY <2>0, <2>6, SameDispatch DEF vars
  <2>. QED BY <2>1, <2>2, <2>3, <2>4, <2>5, <2>6 DEF Next
<1>. QED BY <1>1, <1>2, CreationTypes, PTL DEF Spec

\* Two scheduled runs of a workflow are at least its interval apart, although a sweep
\* inserts after a read that is older, is killed in the middle and tried again, and the
\* answers of its inserts are lost.
THEOREM DispatchesAreSpaced == Spec => []DispatchesSpaced
BY DispatchCorrect, PTL

-----------------------------------------------------------------------------
(* The account of every unit. *)

\* A step of one call moves the count of the units astray by that call at most.
LEMMA OneAstray ==
  ASSUME NEW c \in Creation,
         \A d \in Creation \ {c} : /\ paid'[d] = paid[d] /\ created'[d] = created[d]
                                   /\ refunded'[d] = refunded[d] /\ pc'[d] = pc[d]
  PROVE  /\ Cardinality(Astray) \in Nat
         /\ Cardinality(Astray') = Cardinality(Astray) + Change(c, Astray, Astray')
<1>1. Astray \ {c} = Astray' \ {c}
  BY DEF Astray
<1>2. IsFiniteSet(Astray)
  BY CreationFinite, FS_Subset DEF Astray
<1>. QED BY <1>1, <1>2, OneElement, FS_CardinalityType

\* It moves by as much as there are faults, then, if the call's own unit goes astray by
\* a fault only.
LEMMA AstrayAtACost ==
  ASSUME TypeOK, UnitsAccounted, NEW c \in Creation,
         \A d \in Creation \ {c} : /\ paid'[d] = paid[d] /\ created'[d] = created[d]
                                   /\ refunded'[d] = refunded[d] /\ pc'[d] = pc[d],
         Fault \/ (faults' = faults /\ (c \in Astray' => c \in Astray))
  PROVE  UnitsAccounted'
<1>1. faults \in Int
  BY DEF TypeOK
<1>2. CASE Fault
  BY <1>1, <1>2, OneAstray DEF UnitsAccounted, Fault, Change
<1>3. CASE faults' = faults /\ (c \in Astray' => c \in Astray)
  BY <1>1, <1>3, OneAstray DEF UnitsAccounted, Change
<1>. QED BY <1>2, <1>3

\* Steps that leave the calls alone.
LEMMA SameAstray ==
  ASSUME TypeOK, UnitsAccounted, UNCHANGED <<paid, refunded, created, pc>>,
         Fault \/ faults' = faults
  PROVE  UnitsAccounted'
<1>1. Astray' = Astray
  BY DEF Astray
<1>2. faults \in Int /\ Cardinality(Astray) \in Nat
  BY CreationFinite, FS_Subset, FS_CardinalityType DEF TypeOK, Astray
<1>. QED BY <1>1, <1>2 DEF UnitsAccounted, Fault

\* Without a fault a call takes its unit one stage further, and never astray.
LEMMA CallAccounts ==
  ASSUME TypeOK, CreationInv, UnitsAccounted, NEW c \in Creation, Call(c)
  PROVE  UnitsAccounted'
<1>1. /\ None \notin Month /\ None \notin Time /\ MonthOf[clock] \in Month /\ clock \in Time
      /\ org[OrgOf(c)].period \in Month
  BY NoneType, MonthType, CallFacts DEF TypeOK
<1>2. CallOK(c)
  BY CallFacts
<1>3. \A d \in Creation \ {c} : /\ paid'[d] = paid[d] /\ created'[d] = created[d]
                                /\ refunded'[d] = refunded[d] /\ pc'[d] = pc[d]
  BY DEF Call, Reserve, ReserveRefused, ReserveFails, Insert, InsertFails,
         Release, ReleaseFails, Answer, TypeOK
<1>4. CASE Reserve(c)
  BY <1>1, <1>2, <1>3, <1>4, AstrayAtACost DEF Reserve, Answer, Astray, CallOK, TypeOK
<1>5. CASE ReserveRefused(c)
  BY <1>2, <1>3, <1>5, AstrayAtACost DEF ReserveRefused, Answer, Astray, CallOK, TypeOK
<1>6. CASE ReserveFails(c) \/ ReleaseFails(c)
  BY <1>3, <1>6, AstrayAtACost DEF ReserveFails, ReleaseFails
<1>7. CASE Insert(c)
  BY <1>1, <1>2, <1>3, <1>7, AstrayAtACost DEF Insert, Answer, Astray, CallOK, TypeOK
<1>8. CASE InsertFails(c)
  BY <1>2, <1>3, <1>8, AstrayAtACost DEF InsertFails, Astray, CallOK, TypeOK
<1>9. CASE Release(c)
  BY <1>1, <1>2, <1>3, <1>9, AstrayAtACost DEF Release, Astray, CallOK, TypeOK
<1>. QED BY <1>4, <1>5, <1>6, <1>7, <1>8, <1>9 DEF Call

\* A sweep that dies has one unit in its hands at most.
LEMMA CrashAccounts ==
  ASSUME TypeOK, DispatchInv, CallsInTurn, UnitsAccounted, NEW s \in Sweep, CrashSweep(s)
  PROVE  UnitsAccounted'
<1>. DEFINE InHand(t) == pc[<<s, t>>] \in {"insert", "release"}
<1>1. /\ Fault /\ UNCHANGED <<paid, refunded, created>>
      /\ \A c \in Creation : pc'[c] = pc[c] \/ \E t \in Trigger : c = <<s, t>> /\ InHand(t)
  BY DEF CrashSweep, Dispatch
<1>2. \A t, u \in Trigger : InHand(t) /\ InHand(u) => t = u
  <2>. SUFFICES ASSUME NEW t \in Trigger, NEW u \in Trigger, InHand(t), InHand(u), t # u
                PROVE  FALSE
    OBVIOUS
  <2>1. t \in sweep[s].due /\ u \in sweep[s].due
    BY DEF DispatchInv, InStep
  <2>2. t < u \/ u < t
    BY CallersAssumption
  <2>. QED BY <2>1, <2>2 DEF CallsInTurn, Settled
<1>3. CASE \E t \in Trigger : InHand(t)
  <2>1. PICK t \in Trigger : InHand(t)
    BY <1>3
  <2>2. \A c \in Creation \ {<<s, t>>} : pc'[c] = pc[c]
    BY <1>1, <1>2, <2>1
  <2>. QED BY <1>1, <2>2, DispatchType, AstrayAtACost
<1>4. CASE \A t \in Trigger : ~ InHand(t)
  <2>1. pc' = pc
    BY <1>1, <1>4 DEF CrashSweep, TypeOK
  <2>. QED BY <1>1, <2>1, SameAstray
<1>. QED BY <1>3, <1>4

\* Steps that start nothing out of turn: what was settled stays so.
LEMMA StillInTurn ==
  ASSUME TypeOK, CallsInTurn,
         \A s \in Sweep : sweep'[s].due = sweep[s].due,
         \A s \in Sweep, t \in Trigger :
           /\ Settled(<<s, t>>) => Settled(<<s, t>>)'
           /\ pc[<<s, t>>] = "idle" /\ pc'[<<s, t>>] # "idle" => MayStart(<<s, t>>)
  PROVE  CallsInTurn'
<1>. SUFFICES ASSUME NEW s \in Sweep, NEW t \in sweep'[s].due, NEW u \in sweep'[s].due,
                     t < u, pc'[<<s, u>>] # "idle"
              PROVE  Settled(<<s, t>>)'
  BY DEF CallsInTurn
<1>1. t \in sweep[s].due /\ u \in sweep[s].due /\ t \in Trigger /\ u \in Trigger
  BY DEF TypeOK
<1>2. Settled(<<s, t>>)
  <2>1. CASE pc[<<s, u>>] # "idle"
    BY <1>1, <2>1 DEF CallsInTurn
  <2>2. CASE pc[<<s, u>>] = "idle"
    <3>1. MayStart(<<s, u>>) /\ <<s, u>> \notin Request
      BY <1>1, <2>2, DispatchType
    <3>2. \A v \in sweep[s].due : v < u => Settled(<<s, v>>)
      BY <3>1 DEF MayStart
    <3>. QED BY <1>1, <3>2
  <2>. QED BY <2>1, <2>2
<1>. QED BY <1>1, <1>2

\* A call starts in its turn.
LEMMA CallInTurn ==
  ASSUME TypeOK, CallsInTurn, NEW c \in Creation, Call(c)
  PROVE  CallsInTurn'
<1>1. /\ sweep' = sweep /\ ~ Settled(c)
      /\ pc[c] = "idle" => MayStart(c)
      /\ \A d \in Creation \ {c} : pc'[d] = pc[d]
  BY DEF Call, Reserve, ReserveRefused, ReserveFails, Insert, InsertFails,
         Release, ReleaseFails, Answer, Settled, TypeOK
<1>. QED BY <1>1, DispatchType, StillInTurn DEF Settled

\* A sweep begins with no call made, and ends with its calls settled.
LEMMA SweepInTurn ==
  ASSUME TypeOK, TypeOK', DispatchInv, CallsInTurn, NEW s \in Sweep,
         BeginSweep(s) \/ SweepFails(s) \/ CrashSweep(s)
  PROVE  CallsInTurn'
<1>1. CASE BeginSweep(s)
  <2>1. \A r \in Sweep \ {s} : sweep'[r] = sweep[r]
    BY <1>1 DEF BeginSweep, TypeOK
  <2>2. pc' = pc /\ \A t \in Trigger : pc[<<s, t>>] = "idle"
    BY <1>1 DEF BeginSweep, MayBegin, DispatchInv, InStep
  <2>3. sweep'[s].due \subseteq Trigger
    BY DEF TypeOK
  <2>. QED BY <2>1, <2>2, <2>3 DEF CallsInTurn, Settled
<1>2. CASE SweepFails(s) \/ CrashSweep(s)
  <2>1. \A r \in Sweep : sweep'[r].due = sweep[r].due
    BY <1>2 DEF SweepFails, CrashSweep, TypeOK
  <2>2. \A r \in Sweep, t \in Trigger :
          \/ pc'[<<r, t>>] = pc[<<r, t>>]
          \/ pc[<<r, t>>] \in {"insert", "release"} /\ pc'[<<r, t>>] = "dead"
    BY <1>2, DispatchType DEF SweepFails, CrashSweep
  <2>. QED BY <2>1, <2>2, StillInTurn DEF Settled
<1>. QED BY <1>1, <1>2

\* However many calls fail, lose their answers or die, alone or in a sweep: no more
\* units go astray than there were faults, and without faults none does.
THEOREM UnitsAreAccounted == Spec => []UnitsAccounted
<1>. DEFINE Inv == CallsInTurn /\ UnitsAccounted
<1>1. Init => Inv
  <2>. SUFFICES ASSUME Init PROVE Inv
    OBVIOUS
  <2>1. Astray = {} /\ faults = 0
    BY DEF Init, Astray
  <2>2. UnitsAccounted
    BY <2>1, FS_EmptySet DEF UnitsAccounted
  <2>3. CallsInTurn
    BY DEF Init, Idle, CallsInTurn
  <2>. QED BY <2>2, <2>3
<1>2. TypeOK /\ CreationInv /\ DispatchInv /\ Inv /\ [Next]_vars => Inv'
  <2>. SUFFICES ASSUME TypeOK, CreationInv, DispatchInv, Inv, [Next]_vars PROVE Inv'
    OBVIOUS
  <2>0. TypeOK'
    BY TypeNext
  <2>1. ASSUME NEW c \in Creation, Call(c) PROVE Inv'
    BY <2>1, CallAccounts, CallInTurn
  <2>2. ASSUME NEW c \in Request, CrashRequest(c) PROVE Inv'
    <3>1. c \in Creation /\ \A d \in Creation \ {c} : pc'[d] = pc[d]
      BY <2>2 DEF CrashRequest, Creation, TypeOK
    <3>2. UnitsAccounted'
      BY <2>2, <3>1, AstrayAtACost DEF CrashRequest
    <3>3. \A s \in Sweep, t \in Trigger : pc'[<<s, t>>] = pc[<<s, t>>]
      BY <3>1, DispatchType
    <3>4. CallsInTurn'
      BY <2>2, <3>3, StillInTurn DEF CrashRequest, Settled
    <3>. QED BY <3>2, <3>4
  <2>3. ASSUME NEW s \in Sweep, BeginSweep(s) \/ SweepFails(s) PROVE Inv'
    <3>1. UnitsAccounted'
      BY <2>3, SameAstray DEF BeginSweep, SweepFails
    <3>. QED BY <2>0, <2>3, <3>1, SweepInTurn
  <2>4. ASSUME NEW s \in Sweep, CrashSweep(s) PROVE Inv'
    BY <2>0, <2>4, SweepInTurn, CrashAccounts
  <2>5. CASE Tick \/ UNCHANGED vars
    BY <2>5, SameAstray DEF Tick, vars, CallsInTurn, Settled
  <2>. QED BY <2>1, <2>2, <2>3, <2>4, <2>5 DEF Next
<1>. QED BY <1>1, <1>2, CreationTypes, CreationCorrect, DispatchCorrect, PTL DEF Spec
=============================================================================
