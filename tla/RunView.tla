------------------------------- MODULE RunView -------------------------------
(***************************************************************************)
(* A run as a browser shows it: two live queries over one socket, one for  *)
(* the run's status and one for its steps, while the run goes on, the      *)
(* socket drops and comes back, and the user turns to another run.         *)
(*   apps/web/components/RunPanel.tsx                                      *)
(*   apps/web/lib/useSubscription.ts, gql.ts                               *)
(*                                                                         *)
(* A run is seen as its stage: it only moves forward (RunLifecycle), by    *)
(* the handlers, and by an approval out of the stage Waiting.              *)
(***************************************************************************)
EXTENDS Integers, Sequences

CONSTANTS
  Run,           \* the runs of the workflow
  Waiting,       \* stage of a run that is paused at its gate
  Final,         \* last stage of a run
  retryAttempts, \* connections tried in a row before graphql-ws gives up
  MaxDrops,      \* bound on lost connections
  MaxTurns,      \* bound on how often the user turns to another run
  MaxWire,       \* bound on the messages of one live query that are on their way
  None

Query == {"status", "steps"}

ASSUME StageAssumption == Final \in Nat /\ Waiting \in 1..(Final - 1)
ASSUME BoundAssumption ==
  retryAttempts \in Nat /\ MaxDrops \in Nat /\ MaxTurns \in Nat /\ MaxWire \in Nat \ {0}

VARIABLES
  stage,      \* of each run, in the database
  sending,    \* run that the server watches for each query, None if it does not
  sent,       \* stage that the server has last sent for each query
  wire,       \* messages on their way, oldest first, each <<subscription, run, stage>>
  activeRun,  \* the run the panel is for
  token,      \* number of the subscription of each query that is not disposed
  data,       \* what each query shows: a run and its stage
  socket,     \* "open", "closed" or "given up"
  tries,      \* connections tried since the last one that was opened
  current,    \* history: the query has shown the active run since the user turned to it
  turns, drops

vars == <<stage, sending, sent, wire, activeRun, token, data, socket, tries, current, turns, drops>>
server == <<sending, sent>>
panel == <<activeRun, token, turns>>

-----------------------------------------------------------------------------
(* The run. *)

Advance(r) ==
  /\ stage[r] < Final /\ stage[r] # Waiting
  /\ stage' = [stage EXCEPT ![r] = @ + 1]
  /\ UNCHANGED <<server, wire, panel, data, socket, tries, current, drops>>

\* The button is there if a row that waits is shown; the approval names that row.
approve ==
  /\ data["steps"] # None /\ data["steps"].stage = Waiting
  /\ LET r == data["steps"].run
     IN /\ stage[r] = Waiting
        /\ stage' = [stage EXCEPT ![r] = @ + 1]
  /\ UNCHANGED <<server, wire, panel, data, socket, tries, current, drops>>

-----------------------------------------------------------------------------
(* The server sends the result of a live query at once and whenever it       *)
(* changed, at intervals: what came and went between two looks is not sent.  *)

Push(q) ==
  /\ socket = "open" /\ sending[q] # None
  /\ sent[q] # stage[sending[q]]
  /\ Len(wire[q]) < MaxWire
  /\ sent' = [sent EXCEPT ![q] = stage[sending[q]]]
  /\ wire' = [wire EXCEPT ![q] = Append(@, [token |-> token[q], run |-> sending[q],
                                            stage |-> stage[sending[q]]])]
  /\ UNCHANGED <<stage, sending, panel, data, socket, tries, current, drops>>

\* Variant for a check: a message is taken for the subscription that is.
DisposedNever(q) == FALSE

\* The effect that made the subscription has been cleaned up.
disposed(q) == Head(wire[q]).token # token[q]

Receive(q) ==
  /\ wire[q] # <<>>
  /\ wire' = [wire EXCEPT ![q] = Tail(@)]
  /\ IF disposed(q)
     THEN UNCHANGED <<data, current>>
     ELSE /\ data' = [data EXCEPT ![q] = [run |-> Head(wire[q]).run, stage |-> Head(wire[q]).stage]]
          /\ current' = [current EXCEPT ![q] = @ \/ Head(wire[q]).run = activeRun]
  /\ UNCHANGED <<stage, server, panel, socket, tries, drops>>

-----------------------------------------------------------------------------
(* The panel turns to another run, when a list arrives that has a newer one  *)
(* or by a button: the effects of useSubscription dispose of the old         *)
(* subscriptions and make new ones.  What was shown stays until the  *)
(* first answer.                                                             *)

Turn(r) ==
  /\ turns < MaxTurns /\ r # activeRun
  /\ activeRun' = r
  /\ turns' = turns + 1
  /\ token' = [q \in Query |-> token[q] + 1]
  /\ sending' = [q \in Query |-> IF socket = "open" THEN r ELSE None]
  /\ sent' = [q \in Query |-> None]
  /\ current' = [q \in Query |-> FALSE]
  \* A new subscription makes graphql-ws, which is lazy, try once more.
  /\ socket' = IF socket = "given up" THEN "closed" ELSE socket
  /\ UNCHANGED <<stage, wire, data, tries, drops>>

-----------------------------------------------------------------------------
(* The socket.  A message that was on its way is lost with it.  On a new     *)
(* connection, made with a fresh token, graphql-ws subscribes again.         *)

Drop ==
  /\ socket = "open" /\ drops < MaxDrops
  /\ socket' = "closed"
  /\ drops' = drops + 1
  /\ wire' = [q \in Query |-> <<>>]
  /\ sending' = [q \in Query |-> None]
  /\ sent' = [q \in Query |-> None]
  /\ UNCHANGED <<stage, panel, data, tries, current>>

\* Variant for a check: the live queries are not asked for again.
SubscribeOnce == UNCHANGED server

Subscribe ==
  /\ sending' = [q \in Query |-> activeRun]
  /\ sent' = [q \in Query |-> None]

Reconnect ==
  /\ socket = "closed"
  /\ socket' = "open"
  /\ tries' = 0
  /\ Subscribe
  /\ UNCHANGED <<stage, wire, panel, data, current, drops>>

ReconnectFails ==
  /\ socket = "closed" /\ drops < MaxDrops
  /\ drops' = drops + 1
  /\ IF tries < retryAttempts
     THEN tries' = tries + 1 /\ UNCHANGED socket
     ELSE socket' = "given up" /\ UNCHANGED tries
  /\ UNCHANGED <<stage, server, wire, panel, data, current>>

-----------------------------------------------------------------------------
Init ==
  /\ stage = [r \in Run |-> 0]
  /\ activeRun \in Run
  /\ sending = [q \in Query |-> activeRun]
  /\ sent = [q \in Query |-> None]
  /\ wire = [q \in Query |-> <<>>]
  /\ token = [q \in Query |-> 0]
  /\ data = [q \in Query |-> None]
  /\ socket = "open"
  /\ tries = 0
  /\ current = [q \in Query |-> FALSE]
  /\ turns = 0
  /\ drops = 0

Next ==
  \/ \E r \in Run : Advance(r) \/ Turn(r)
  \/ approve
  \/ \E q \in Query : Push(q) \/ Receive(q)
  \/ Drop \/ Reconnect \/ ReconnectFails

Spec == Init /\ [][Next]_vars

\* Handlers go on, the server looks again, what was sent arrives, and the client
\* connects again.  Nobody has to approve or to turn to another run.
FairSpec ==
  /\ Spec
  /\ \A r \in Run : WF_vars(Advance(r))
  /\ \A q \in Query : WF_vars(Push(q)) /\ WF_vars(Receive(q))
  /\ WF_vars(Reconnect)

-----------------------------------------------------------------------------
(* Properties. *)

Shown == [run : Run, stage : 0..Final]

\* Types.
TypeOK ==
  /\ stage \in [Run -> 0..Final]
  /\ sending \in [Query -> Run \cup {None}]
  /\ sent \in [Query -> (0..Final) \cup {None}]
  /\ wire \in [Query -> Seq([token : Nat, run : Run, stage : 0..Final])]
  /\ \A q \in Query : Len(wire[q]) <= MaxWire
  /\ activeRun \in Run
  /\ token \in [Query -> Nat]
  /\ data \in [Query -> Shown \cup {None}]
  /\ socket \in {"open", "closed", "given up"}
  /\ tries \in 0..retryAttempts
  /\ current \in [Query -> BOOLEAN]
  /\ turns \in 0..MaxTurns /\ drops \in 0..MaxDrops

\* Once a query has shown the run the user turned to, it shows no other run, nor a
\* stage the run has not reached: a message of the subscription before, still
\* on its way when the user turned, is not taken for the new one.
PanelIsOfRun ==
  /\ TypeOK
  /\ \A q \in Query :
       data[q] # None =>
         /\ data[q].stage <= stage[data[q].run]
         /\ current[q] => data[q].run = activeRun

\* What is on its way for the subscription that is, is about the active run, and
\* nothing tells of a stage that the run it names has not reached.
WireInv ==
  \A q \in Query : \A i \in 1..Len(wire[q]) :
    /\ wire[q][i].token <= token[q]
    /\ wire[q][i].token = token[q] => wire[q][i].run = activeRun
    /\ wire[q][i].stage <= stage[wire[q][i].run]

\* The server watches the active run or none.
SendingInv == \A q \in Query : sending[q] # None => sending[q] = activeRun

ViewInductiveInv == PanelIsOfRun /\ WireInv /\ SendingInv

\* However often the socket drops, the panel comes to show a run that is over as
\* over, with both queries, unless the client has given up connecting or the
\* user has turned to another run.
ViewConverges ==
  \A r \in Run : \A q \in Query :
    (activeRun = r /\ stage[r] = Final)
      ~> \/ data[q] = [run |-> r, stage |-> Final]
         \/ activeRun # r
         \/ socket = "given up"
=============================================================================
