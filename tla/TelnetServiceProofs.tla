-------------------------- MODULE TelnetServiceProofs --------------------------
(***************************************************************************)
(* Proofs about TelnetService, for any set of clients: what its sessions   *)
(* hold, whom a cancellation reaches, and that each client's connection is *)
(* a TelnetConnection whatever the service and the other clients do.       *)
(***************************************************************************)
EXTENDS TelnetService, TLAPS

\* A protocol that has ended was shut down first.
EndedIsShutDown == \A c \in Clients : phase[c] \in {"returned", "raised"} => c \in shutdown_event

\* Whom a cancelled service has yet to list is late, and it takes no one more.
LateAccounted ==
  cancelled =>
    service # "running" /\ \A c \in Clients : phase[c] = "accepted" => c \in late

IInv == /\ TypeOK /\ SessionsAccounted /\ EndedIsShutDown
        /\ LateAccounted /\ ToldUnlessLate

-------------------------------------------------------------------------------
LEMMA InitIInv == Init => IInv
BY DEF Init, IInv, TypeOK, SessionsAccounted, EndedIsShutDown, LateAccounted,
       ToldUnlessLate

\* One step per action: a task of a client first, then run() of the service.
LEMMA NextIInv == IInv /\ [Next]_vars => IInv'
<1> SUFFICES ASSUME IInv, [Next]_vars PROVE IInv'
  OBVIOUS
<1> USE DEF IInv, TypeOK, SessionsAccounted, EndedIsShutDown, LateAccounted,
            ToldUnlessLate, serviceVars, connectionVars
<1>1. ASSUME NEW c \in Clients, Accept(c) PROVE IInv'
  BY <1>1 DEF Accept, Moves
<1>2. ASSUME NEW c \in Clients, Begin(c) PROVE IInv'
  BY <1>2 DEF Begin, Moves
<1>3. ASSUME NEW c \in Clients, Return(c) PROVE IInv'
  BY <1>3 DEF Return, Moves
<1>4. ASSUME NEW c \in Clients, Raise(c) PROVE IInv'
  BY <1>4 DEF Raise, Moves
<1>5. ASSUME NEW c \in Clients, Close(c) PROVE IInv'
  BY <1>5 DEF Close
<1>6. ASSUME NEW c \in Clients, ShutDown(c) PROVE IInv'
  BY <1>6 DEF ShutDown
<1>7. ASSUME NEW c \in Clients, Link(c) PROVE IInv'
  BY <1>7 DEF Link
<1>8. ASSUME NEW c \in Clients, Stall(c) PROVE IInv'
  BY <1>8 DEF Stall
<1>9. CASE Cancel
  BY <1>9 DEF Cancel
<1>10. CASE Shutdown
  BY <1>10 DEF Shutdown
<1>11. CASE Stop
  BY <1>11 DEF Stop
<1>12. CASE CancelClosing
  BY <1>12 DEF CancelClosing
<1>13. CASE UNCHANGED vars
  BY <1>13 DEF vars
<1> QED
  BY <1>1, <1>2, <1>3, <1>4, <1>5, <1>6, <1>7, <1>8, <1>9, <1>10, <1>11, <1>12, <1>13
     DEF Next, HandleClient, Connection

\* The inductive invariant holds in every state.
THEOREM Invariant == Spec => []IInv
BY InitIInv, NextIInv, PTL DEF Spec

\* The service is type correct.
THEOREM TypeCorrect == Spec => []TypeOK
<1>1. IInv => TypeOK
  BY DEF IInv
<1> QED BY <1>1, Invariant, PTL

\* sessions lists the protocols that run or have crashed, and no others
\* (handle_client: sessions.add, sessions.remove).
THEOREM SessionsCorrect == Spec => []SessionsAccounted
<1>1. IInv => SessionsAccounted
  BY DEF IInv
<1> QED BY <1>1, Invariant, PTL

\* A cancellation tells every client whose protocol runs, then or later, but for
\* those whose host name was being looked up (run(): sessions.copy()).
THEOREM CancellationTells == Spec => []ToldUnlessLate
<1>1. IInv => ToldUnlessLate
  BY DEF IInv
<1> QED BY <1>1, Invariant, PTL

-------------------------------------------------------------------------------
(* The connections of the service *)

LEMMA ViewInit == Init => \A c \in Clients : View(c)!Init
BY DEF Init, View!Init

LEMMA ViewNext ==
  ASSUME IInv, [Next]_vars, NEW c \in Clients
  PROVE  [View(c)!Next]_(View(c)!vars)
<1> USE DEF IInv, TypeOK, SessionsAccounted, EndedIsShutDown, serviceVars, connectionVars,
            View!vars
<1>1. ASSUME NEW d \in Clients, Accept(d) PROVE UNCHANGED View(c)!vars
  BY <1>1 DEF Accept, Moves
<1>2. ASSUME NEW d \in Clients, Begin(d) PROVE View(c)!Begin \/ UNCHANGED View(c)!vars
  BY <1>2 DEF Begin, Moves, View!Begin
<1>3. ASSUME NEW d \in Clients, Return(d) PROVE View(c)!End \/ UNCHANGED View(c)!vars
  BY <1>3 DEF Return, Moves, View!End
<1>4. ASSUME NEW d \in Clients, Raise(d) PROVE View(c)!End \/ UNCHANGED View(c)!vars
  BY <1>4 DEF Raise, Moves, View!End
<1>5. ASSUME NEW d \in Clients, Close(d) PROVE UNCHANGED View(c)!vars
  BY <1>5 DEF Close
<1>6. ASSUME NEW d \in Clients, ShutDown(d) PROVE View(c)!ShutDown \/ UNCHANGED View(c)!vars
  BY <1>6 DEF ShutDown, View!ShutDown
<1>7. ASSUME NEW d \in Clients, Link(d) PROVE View(c)!Link \/ UNCHANGED View(c)!vars
  BY <1>7 DEF Link, View!Link
<1>8. ASSUME NEW d \in Clients, Stall(d) PROVE View(c)!Stall \/ UNCHANGED View(c)!vars
  BY <1>8 DEF Stall, View!Stall
<1>9. CASE Cancel
  <2>1. View(c)!ShutDown \/ UNCHANGED View(c)!vars
    BY <1>9 DEF Cancel, View!ShutDown
  <2> QED BY <2>1 DEF View!Next
<1>10. CASE Shutdown \/ Stop \/ CancelClosing
  <2>1. UNCHANGED View(c)!vars
    BY <1>10 DEF Shutdown, Stop, CancelClosing
  <2> QED BY <2>1
<1>11. CASE UNCHANGED vars
  BY <1>11 DEF vars
<1> QED
  BY <1>1, <1>2, <1>3, <1>4, <1>5, <1>6, <1>7, <1>8, <1>9, <1>10, <1>11
     DEF Next, HandleClient, Connection, View!Next

\* Every client's connection is a TelnetConnection, whatever the service and the
\* other clients do.
THEOREM ConnectionsCorrect == Spec => Connections
<1>1. IInv /\ [Next]_vars => [\A c \in Clients : [View(c)!Next]_(View(c)!vars)]_vars
  BY ViewNext
<1> QED BY <1>1, ViewInit, Invariant, PTL DEF Spec, Connections
===============================================================================
