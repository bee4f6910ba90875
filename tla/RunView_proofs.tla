--------------------------- MODULE RunView_proofs ---------------------------
(***************************************************************************)
(* Proofs about RunView, for every number of runs, stages, drops and       *)
(* turns: a query that has shown the active run shows no other, and never  *)
(* a stage the run has not reached (PanelIsOfRun).                         *)
(*                                                                         *)
(* PanelIsOfRun says nothing of what is still on its way.  WireInv does:   *)
(* a message of the subscription that is, is about the active run, and     *)
(* every other one is recognised by its token.  It in turn needs that the  *)
(* server watches the active run (SendingInv).                             *)
(***************************************************************************)
EXTENDS RunView, TLAPS

Message == [token : Nat, run : Run, stage : 0..Final]

\* Nothing is on its way at first.
LEMMA ViewInit == Init => ViewInductiveInv
BY StageAssumption, BoundAssumption
   DEF Init, ViewInductiveInv, PanelIsOfRun, TypeOK, WireInv, SendingInv

-----------------------------------------------------------------------------
(* The steps.                                                              *)

\* What is on its way has the shape of a message.
LEMMA MessageOnWire ==
  ASSUME ViewInductiveInv, NEW q \in Query, NEW i \in 1..Len(wire[q])
  PROVE  /\ wire[q][i] \in Message
         /\ wire[q][i].token \in Nat /\ wire[q][i].run \in Run /\ wire[q][i].stage \in Nat
         /\ token[q] \in Nat
<1>1. wire[q] \in Seq(Message) /\ token[q] \in Nat
  BY DEF ViewInductiveInv, PanelIsOfRun, TypeOK, Message
<1>2. wire[q][i] \in Message
  BY <1>1
<1>. QED BY <1>1, <1>2, StageAssumption DEF Message

\* Stages only grow, so what was told of a run goes on being reached.
LEMMA StageGrows ==
  ASSUME ViewInductiveInv, NEW r \in Run, stage[r] < Final, stage' = [stage EXCEPT ![r] = @ + 1],
         UNCHANGED <<server, wire, panel, data, socket, tries, current, drops>>
  PROVE  ViewInductiveInv'
<1>. USE DEF server, panel
<1>1. /\ stage' \in [Run -> 0..Final]
      /\ \A s \in Run : stage[s] <= stage'[s] /\ stage[s] \in Nat /\ stage'[s] \in Nat
  <2>1. stage \in [Run -> 0..Final] /\ Final \in Nat
    BY StageAssumption DEF ViewInductiveInv, PanelIsOfRun, TypeOK
  <2>. QED BY <2>1
<1>2. TypeOK'
  BY <1>1 DEF ViewInductiveInv, PanelIsOfRun, TypeOK
<1>3. \A q \in Query : data[q] # None =>
        /\ data[q].stage <= stage'[data[q].run]
        /\ current[q] => data[q].run = activeRun
  <2>1. ASSUME NEW q \in Query, data[q] # None
        PROVE  data[q].run \in Run /\ data[q].stage \in Nat
    <3>1. data[q] \in Shown
      BY <2>1 DEF ViewInductiveInv, PanelIsOfRun, TypeOK
    <3>. QED BY <3>1, StageAssumption DEF Shown
  <2>. QED BY <1>1, <2>1 DEF ViewInductiveInv, PanelIsOfRun
<1>4. WireInv'
  <2>. SUFFICES ASSUME NEW q \in Query, NEW i \in 1..Len(wire[q])
                PROVE  /\ wire[q][i].token <= token[q]
                       /\ wire[q][i].token = token[q] => wire[q][i].run = activeRun
                       /\ wire[q][i].stage <= stage'[wire[q][i].run]
    BY DEF WireInv
  <2>1. wire[q][i].run \in Run /\ wire[q][i].stage \in Nat
    BY MessageOnWire
  <2>. QED BY <1>1, <2>1 DEF WireInv, ViewInductiveInv
<1>5. SendingInv'
  BY DEF SendingInv, ViewInductiveInv
<1>. QED BY <1>2, <1>3, <1>4, <1>5 DEF ViewInductiveInv, PanelIsOfRun

\* A push tells the stage of the active run under the token that is.
LEMMA Pushed ==
  ASSUME ViewInductiveInv, NEW q \in Query, Push(q)
  PROVE  ViewInductiveInv'
<1>. USE DEF ViewInductiveInv, PanelIsOfRun
<1>. DEFINE m == [token |-> token[q], run |-> sending[q], stage |-> stage[sending[q]]]
<1>1. /\ sending[q] # None /\ Len(wire[q]) < MaxWire
      /\ sent' = [sent EXCEPT ![q] = stage[sending[q]]]
      /\ wire' = [wire EXCEPT ![q] = Append(@, m)]
      /\ UNCHANGED <<stage, sending, activeRun, token, turns, data, socket, tries, current, drops>>
  BY DEF Push, panel
<1>2. sending[q] = activeRun /\ activeRun \in Run
  BY <1>1 DEF SendingInv, TypeOK
<1>3. /\ m.token = token[q] /\ m.run = activeRun /\ m.stage = stage[m.run]
      /\ m \in Message
  BY <1>2 DEF Message, TypeOK
<1>. HIDE DEF m
<1>4. wire \in [Query -> Seq(Message)] /\ wire[q] \in Seq(Message)
  BY DEF TypeOK, Message
<1>5. /\ Append(wire[q], m) \in Seq(Message)
      /\ Len(Append(wire[q], m)) = Len(wire[q]) + 1
      /\ \A i \in 1..Len(wire[q]) : Append(wire[q], m)[i] = wire[q][i]
      /\ Append(wire[q], m)[Len(wire[q]) + 1] = m
      /\ Len(wire[q]) \in Nat
  BY <1>3, <1>4
<1>6. /\ wire' \in [Query -> Seq(Message)]
      /\ wire'[q] = Append(wire[q], m)
      /\ \A p \in Query \ {q} : wire'[p] = wire[p]
  BY <1>1, <1>4, <1>5
<1>7. TypeOK'
  <2>1. sent' \in [Query -> (0..Final) \cup {None}]
    BY <1>1, <1>2 DEF TypeOK
  <2>2. \A p \in Query : Len(wire'[p]) <= MaxWire
    <3>1. MaxWire \in Nat /\ \A p \in Query : Len(wire[p]) <= MaxWire
      BY BoundAssumption DEF TypeOK
    <3>. QED BY <1>1, <1>5, <1>6, <3>1
  <2>. QED BY <1>1, <1>6, <2>1, <2>2 DEF TypeOK, Message
<1>8. ASSUME NEW p \in Query, NEW i \in 1..Len(wire'[p])
      PROVE  /\ wire'[p][i].token <= token[p]
             /\ wire'[p][i].token = token[p] => wire'[p][i].run = activeRun
             /\ wire'[p][i].stage <= stage[wire'[p][i].run]
  <2>1. CASE p = q /\ i = Len(wire[q]) + 1
    <3>1. wire'[p][i] = m
      BY <1>5, <1>6, <2>1
    <3>2. token[q] \in Nat /\ stage[activeRun] \in Nat
      <4>1. token \in [Query -> Nat] /\ stage \in [Run -> 0..Final]
        BY DEF TypeOK
      <4>. QED BY <1>2, <4>1
    <3>. QED BY <1>3, <2>1, <3>1, <3>2
  <2>2. CASE ~(p = q /\ i = Len(wire[q]) + 1)
    <3>1. i \in 1..Len(wire[p]) /\ wire'[p][i] = wire[p][i]
      BY <1>5, <1>6, <2>2
    <3>. QED BY <3>1 DEF WireInv
  <2>. QED BY <2>1, <2>2
<1>9. WireInv'
  BY <1>1, <1>8 DEF WireInv
<1>. QED BY <1>1, <1>7, <1>9 DEF SendingInv

\* A message is dropped, or shown, and then it is about the active run.
LEMMA MessageTaken ==
  ASSUME ViewInductiveInv, NEW q \in Query, Receive(q)
  PROVE  ViewInductiveInv'
<1>. USE DEF ViewInductiveInv, PanelIsOfRun
<1>1. /\ wire[q] # <<>> /\ wire' = [wire EXCEPT ![q] = Tail(@)]
      /\ UNCHANGED <<stage, sending, sent, activeRun, token, turns, socket, tries, drops>>
  BY DEF Receive, server, panel
<1>2. wire \in [Query -> Seq(Message)] /\ wire[q] \in Seq(Message)
  BY DEF TypeOK, Message
<1>3. /\ Tail(wire[q]) \in Seq(Message)
      /\ Len(Tail(wire[q])) = Len(wire[q]) - 1 /\ Len(wire[q]) \in Nat \ {0}
      /\ \A i \in 1..Len(Tail(wire[q])) : Tail(wire[q])[i] = wire[q][i + 1]
      /\ Head(wire[q]) = wire[q][1] /\ Head(wire[q]) \in Message
  BY <1>1, <1>2
<1>4. /\ wire' \in [Query -> Seq(Message)]
      /\ wire'[q] = Tail(wire[q])
      /\ \A p \in Query \ {q} : wire'[p] = wire[p]
  BY <1>1, <1>2, <1>3
<1>. DEFINE h == Head(wire[q])
<1>5. /\ h.token = token[q] => h.run = activeRun
      /\ h.stage <= stage[h.run]
      /\ h.run \in Run /\ h.stage \in 0..Final
  BY <1>3 DEF WireInv, Message
<1>. DEFINE d == [run |-> h.run, stage |-> h.stage]
<1>6. \/ data' = data /\ current' = current
      \/ /\ h.token = token[q]
         /\ data' = [data EXCEPT ![q] = d]
         /\ current' = [current EXCEPT ![q] = @ \/ h.run = activeRun]
  BY DEF Receive, disposed
<1>7. d.run = h.run /\ d.stage = h.stage /\ d \in Shown
  BY <1>5 DEF Shown
<1>. HIDE DEF d, h
<1>8. data' \in [Query -> Shown \cup {None}] /\ current' \in [Query -> BOOLEAN]
  <2>1. data' \in [Query -> Shown \cup {None}]
    BY <1>6, <1>7 DEF TypeOK
  <2>2. current' \in [Query -> BOOLEAN]
    <3>1. (current[q] \/ h.run = activeRun) \in BOOLEAN
      OBVIOUS
    <3>. QED BY <1>6, <3>1 DEF TypeOK
  <2>. QED BY <2>1, <2>2
<1>9. \A p \in Query : Len(wire'[p]) <= MaxWire
  <2>1. MaxWire \in Nat /\ \A p \in Query : Len(wire[p]) <= MaxWire
    BY BoundAssumption DEF TypeOK
  <2>. QED BY <1>3, <1>4, <2>1
<1>10. TypeOK'
  BY <1>1, <1>4, <1>8, <1>9 DEF TypeOK, Message
<1>11. ASSUME NEW p \in Query, data'[p] # None
       PROVE  /\ data'[p].stage <= stage[data'[p].run]
              /\ current'[p] => data'[p].run = activeRun
  <2>1. CASE data' = data /\ current' = current
    BY <1>11, <2>1
  <2>2. CASE /\ h.token = token[q] /\ data' = [data EXCEPT ![q] = d]
             /\ current' = [current EXCEPT ![q] = @ \/ h.run = activeRun]
    <3>1. CASE p = q
      <4>1. data'[p] = d
        BY <2>2, <3>1 DEF TypeOK
      <4>. QED BY <1>5, <1>7, <2>2, <4>1
    <3>2. CASE p # q
      <4>1. data'[p] = data[p] /\ current'[p] = current[p]
        BY <2>2, <3>2 DEF TypeOK
      <4>. QED BY <1>11, <4>1
    <3>. QED BY <3>1, <3>2
  <2>. QED BY <1>6, <2>1, <2>2
<1>12. ASSUME NEW p \in Query, NEW i \in 1..Len(wire'[p])
       PROVE  /\ wire'[p][i].token <= token[p]
              /\ wire'[p][i].token = token[p] => wire'[p][i].run = activeRun
              /\ wire'[p][i].stage <= stage[wire'[p][i].run]
  <2>1. CASE p = q
    <3>1. i + 1 \in 1..Len(wire[q]) /\ wire'[p][i] = wire[q][i + 1]
      BY <1>3, <1>4, <2>1
    <3>. QED BY <2>1, <3>1 DEF WireInv
  <2>2. CASE p # q
    BY <1>4, <2>2 DEF WireInv
  <2>. QED BY <2>1, <2>2
<1>13. WireInv'
  BY <1>1, <1>12 DEF WireInv
<1>. QED BY <1>1, <1>10, <1>11, <1>13 DEF SendingInv

\* The panel turns to another run: no message on its way has the new token.
LEMMA Turned ==
  ASSUME ViewInductiveInv, NEW r \in Run, Turn(r)
  PROVE  ViewInductiveInv'
<1>. USE DEF ViewInductiveInv, PanelIsOfRun
<1>1. /\ turns < MaxTurns /\ turns' = turns + 1
      /\ activeRun' = r
      /\ token' = [q \in Query |-> token[q] + 1]
      /\ sending' = [q \in Query |-> IF socket = "open" THEN r ELSE None]
      /\ sent' = [q \in Query |-> None]
      /\ current' = [q \in Query |-> FALSE]
      /\ socket' = IF socket = "given up" THEN "closed" ELSE socket
      /\ UNCHANGED <<stage, wire, data, tries, drops>>
  BY DEF Turn
<1>2. TypeOK'
  <2>1. token' \in [Query -> Nat]
    <3>1. token \in [Query -> Nat] /\ token' = [q \in Query |-> token[q] + 1]
      BY <1>1 DEF TypeOK
    <3>. HIDE DEF ViewInductiveInv, PanelIsOfRun
    <3>. QED BY <3>1
  <2>2. turns' \in 0..MaxTurns
    <3>1. turns \in 0..MaxTurns /\ MaxTurns \in Nat /\ turns < MaxTurns /\ turns' = turns + 1
      BY <1>1, BoundAssumption DEF TypeOK
    <3>. HIDE DEF ViewInductiveInv, PanelIsOfRun
    <3>. QED BY <3>1
  <2>3. socket' \in {"open", "closed", "given up"}
    <3>1. /\ socket \in {"open", "closed", "given up"}
          /\ socket' = IF socket = "given up" THEN "closed" ELSE socket
      BY <1>1 DEF TypeOK
    <3>. HIDE DEF ViewInductiveInv, PanelIsOfRun
    <3>. QED BY <3>1
  <2>4. /\ sending' \in [Query -> Run \cup {None}]
        /\ sent' \in [Query -> (0..Final) \cup {None}]
        /\ current' \in [Query -> BOOLEAN]
        /\ UNCHANGED <<stage, wire, data, tries, drops>>
    BY <1>1
  <2>. QED BY <1>1, <2>1, <2>2, <2>3, <2>4 DEF TypeOK
<1>3. SendingInv'
  BY <1>1 DEF SendingInv
<1>4. \A q \in Query : ~current'[q] /\ data'[q] = data[q] /\ stage' = stage
  BY <1>1
<1>5. WireInv'
  <2>. SUFFICES ASSUME NEW q \in Query, NEW i \in 1..Len(wire[q])
                PROVE  /\ wire[q][i].token <= token'[q]
                       /\ wire[q][i].token # token'[q]
                       /\ wire[q][i].stage <= stage[wire[q][i].run]
    BY <1>1 DEF WireInv
  <2>1. token[q] \in Nat /\ wire[q][i].token \in Nat
    BY MessageOnWire
  <2>2. wire[q][i].token <= token[q] /\ wire[q][i].stage <= stage[wire[q][i].run]
    BY DEF WireInv
  <2>3. token'[q] = token[q] + 1
    BY <1>1
  <2>. QED BY <2>1, <2>2, <2>3
<1>. QED BY <1>2, <1>3, <1>4, <1>5

\* The socket closes or opens: what was on its way is lost, and the server is
\* asked about the active run.
LEMMA SocketChanged ==
  ASSUME ViewInductiveInv, Drop \/ Reconnect \/ ReconnectFails
  PROVE  ViewInductiveInv'
<1>. USE DEF ViewInductiveInv, PanelIsOfRun, server, panel
<1>1. /\ activeRun \in Run /\ Query # {}
      /\ drops \in 0..MaxDrops /\ MaxDrops \in Nat
      /\ tries \in 0..retryAttempts /\ retryAttempts \in Nat
      /\ socket \in {"open", "closed", "given up"}
  <2>1. /\ activeRun \in Run /\ drops \in 0..MaxDrops /\ tries \in 0..retryAttempts
        /\ socket \in {"open", "closed", "given up"}
    BY DEF TypeOK
  <2>. QED BY <2>1, BoundAssumption DEF Query
<1>2. CASE Drop
  <2>1. /\ drops' \in 0..MaxDrops
        /\ wire' = [q \in Query |-> <<>>] /\ sending' = [q \in Query |-> None]
        /\ sent' = [q \in Query |-> None] /\ socket' = "closed"
        /\ UNCHANGED <<stage, activeRun, token, turns, data, tries, current>>
    BY <1>1, <1>2 DEF Drop
  <2>2. /\ wire' \in [Query -> Seq([token : Nat, run : Run, stage : 0..Final])]
        /\ \A q \in Query : Len(wire'[q]) = 0
    BY <2>1
  <2>3. \A q \in Query : Len(wire'[q]) <= MaxWire
    BY <2>2, BoundAssumption
  <2>4. sending' \in [Query -> Run \cup {None}] /\ sent' \in [Query -> (0..Final) \cup {None}]
    BY <2>1
  <2>5. TypeOK'
    BY <2>1, <2>2, <2>3, <2>4 DEF TypeOK
  <2>6. WireInv'
    BY <2>2 DEF WireInv
  <2>. QED BY <2>1, <2>5, <2>6 DEF SendingInv
<1>3. CASE Reconnect
  <2>1. /\ sending' = [q \in Query |-> activeRun] /\ sent' = [q \in Query |-> None]
        /\ socket' = "open" /\ tries' = 0
        /\ UNCHANGED <<stage, wire, activeRun, token, turns, data, current, drops>>
    BY <1>3 DEF Reconnect, Subscribe
  <2>2. /\ sending' \in [Query -> Run \cup {None}] /\ sent' \in [Query -> (0..Final) \cup {None}]
        /\ tries' \in 0..retryAttempts
    <3>1. tries' \in 0..retryAttempts
      <4>1. retryAttempts \in Nat /\ tries' = 0
        BY <1>1, <2>1
      <4>. HIDE DEF ViewInductiveInv, PanelIsOfRun
      <4>. QED BY <4>1
    <3>. QED BY <1>1, <2>1, <3>1
  <2>3. TypeOK'
    BY <2>1, <2>2 DEF TypeOK
  <2>. QED BY <2>1, <2>3 DEF WireInv, SendingInv
<1>4. CASE ReconnectFails
  <2>1. /\ drops' \in 0..MaxDrops /\ tries' \in 0..retryAttempts
        /\ socket' \in {"open", "closed", "given up"}
        /\ UNCHANGED <<stage, sending, sent, wire, activeRun, token, turns, data, current>>
    <3>1. /\ socket = "closed" /\ drops < MaxDrops /\ drops' = drops + 1
          /\ \/ tries < retryAttempts /\ tries' = tries + 1 /\ socket' = socket
             \/ socket' = "given up" /\ tries' = tries
          /\ UNCHANGED <<stage, sending, sent, wire, activeRun, token, turns, data, current>>
      BY <1>4 DEF ReconnectFails
    <3>2. drops' \in 0..MaxDrops
      <4>1. drops \in 0..MaxDrops /\ MaxDrops \in Nat /\ drops < MaxDrops /\ drops' = drops + 1
        BY <1>1, <3>1
      <4>. HIDE DEF ViewInductiveInv, PanelIsOfRun
      <4>. QED BY <4>1
    <3>3. tries' \in 0..retryAttempts
      <4>1. /\ tries \in 0..retryAttempts /\ retryAttempts \in Nat
            /\ tries' = tries \/ (tries < retryAttempts /\ tries' = tries + 1)
        BY <1>1, <3>1
      <4>. HIDE DEF ViewInductiveInv, PanelIsOfRun
      <4>. QED BY <4>1
    <3>4. socket' \in {"open", "closed", "given up"}
      BY <1>1, <3>1
    <3>. QED BY <3>1, <3>2, <3>3, <3>4
  <2>2. TypeOK'
    BY <2>1 DEF TypeOK
  <2>. QED BY <2>1, <2>2 DEF WireInv, SendingInv
<1>. QED BY <1>2, <1>3, <1>4

\* Every step of the view keeps the invariant.
LEMMA ViewNext == ViewInductiveInv /\ [Next]_vars => ViewInductiveInv'
<1>. SUFFICES ASSUME ViewInductiveInv, [Next]_vars PROVE ViewInductiveInv'
  OBVIOUS
<1>1. ASSUME NEW r \in Run, Advance(r) PROVE ViewInductiveInv'
  BY <1>1, StageGrows DEF Advance
<1>2. CASE approve
  <2>1. PICK r \in Run : stage[r] < Final /\ stage' = [stage EXCEPT ![r] = @ + 1]
    <3>1. data["steps"] \in Shown
      BY <1>2 DEF approve, ViewInductiveInv, PanelIsOfRun, TypeOK, Query
    <3>2. data["steps"].run \in Run
      BY <3>1 DEF Shown
    <3>3. Waiting \in Nat /\ Final \in Nat /\ Waiting < Final
      BY StageAssumption
    <3>4. /\ stage[data["steps"].run] = Waiting
          /\ stage' = [stage EXCEPT ![data["steps"].run] = @ + 1]
      BY <1>2 DEF approve
    <3>. QED BY <3>2, <3>3, <3>4
  <2>. QED BY <1>2, <2>1, StageGrows DEF approve
<1>3. ASSUME NEW r \in Run, Turn(r) PROVE ViewInductiveInv'
  BY <1>3, Turned
<1>4. ASSUME NEW q \in Query, Push(q) \/ Receive(q) PROVE ViewInductiveInv'
  BY <1>4, Pushed, MessageTaken
<1>5. CASE Drop \/ Reconnect \/ ReconnectFails
  BY <1>5, SocketChanged
<1>6. CASE UNCHANGED vars
  BY <1>6 DEF vars, ViewInductiveInv, PanelIsOfRun, TypeOK, WireInv, SendingInv
<1>. QED BY <1>1, <1>2, <1>3, <1>4, <1>5, <1>6 DEF Next

-----------------------------------------------------------------------------
(* The theorem.                                                            *)

\* Once a query has shown the run the user turned to, it shows that run and no
\* stage it has not reached, for any number of runs, turns and lost connections
\* and however many messages of earlier subscriptions are still on their way.
THEOREM PanelShowsItsRun == Spec => []PanelIsOfRun
<1>1. Spec => []ViewInductiveInv
  BY ViewInit, ViewNext, PTL DEF Spec
<1>2. ViewInductiveInv => PanelIsOfRun
  BY DEF ViewInductiveInv
<1>. QED BY <1>1, <1>2, PTL

=============================================================================
