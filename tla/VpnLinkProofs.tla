--------------------------- MODULE VpnLinkProofs ---------------------------
(***************************************************************************)
(* Proofs about VpnLink, for any set of clients and any timer constants.   *)
(* LinkInv strengthens the two safety invariants of VpnLink: it ties every *)
(* _activityTimer to the number of silent ticks the peer has been given.    *)
(* The second half shows that VpnLink implements TunnelLink.                *)
(***************************************************************************)
EXTENDS VpnLink, TLAPS

\* The timer of an end that has heard its peer since the last SetupDataConn
\* and the ticks of silence since then add up to the initial timer value.
ClientTimerInv ==
  \A c \in Clients : connected[c] =>
    /\ clientUp[c]
    /\ quiet[c] < ActivityTimerClient
    /\ zeroed[c] => activity[c] = 0
    /\ ~zeroed[c] => activity[c] + quiet[c] = ActivityTimerClient

AcceptedTimerInv ==
  \A c \in Clients :
    /\ accConnected[c] \/ accTimer[c] => c \in links
    /\ accConnected[c] /\ accTimer[c] => accQuiet[c] < ActivityTimerAccepted
    /\ c \in links =>
         /\ accZeroed[c] => accActivity[c] = 0
         /\ ~accZeroed[c] =>
              accActivity[c] + accQuiet[c] = ActivityTimerAccepted

LinkInv == TypeOK /\ HandshakeAgreement /\ ClientTimerInv /\ AcceptedTimerInv

-----------------------------------------------------------------------------
USE TimersAssumption

\* The two counter updates stay within their limit.
LEMMA CounterRanges ==
  ASSUME NEW limit \in Nat, NEW n \in 0 .. limit
  PROVE  Decrement(n) \in 0 .. limit /\ Saturate(n, limit) \in 0 .. limit
BY DEF Decrement, Saturate

\* The constructors leave a well-typed state.
LEMMA TypeInit == Init => TypeOK
BY DEF Init, TypeOK, All

\* No handler leaves the types.
LEMMA TypeStep == TypeOK /\ [Next]_vars => TypeOK'
<1> SUFFICES ASSUME TypeOK, [Next]_vars PROVE TypeOK'
  OBVIOUS
<1> USE DEF TypeOK, ToServerKinds, ToClientKinds, clientVars, acceptVars,
            clientHist, acceptHist, Send, Exchange, Reply, Expire, Connect
<1>1. ASSUME NEW c \in Clients, ClientStart(c) PROVE TypeOK'
  BY <1>1 DEF ClientStart, Connect
<1>2. ASSUME NEW c \in Clients, ClientExit(c) PROVE TypeOK'
  BY <1>2 DEF ClientExit
<1>3. ASSUME NEW c \in Clients, ClientTick(c) PROVE TypeOK'
  <2>1. Decrement(activity[c]) \in 0 .. ActivityTimerClient
        /\ Saturate(quiet[c], ActivityTimerClient) \in 0 .. ActivityTimerClient
    BY CounterRanges
  <2>2. activity' \in [Clients -> 0 .. ActivityTimerClient]
    BY <1>3, <2>1 DEF ClientTick
  <2>3. quiet' \in [Clients -> 0 .. ActivityTimerClient]
    BY <1>3, <2>1 DEF ClientTick
  <2>4. toServer' \in [Clients -> SUBSET ToServerKinds]
    BY <1>3 DEF ClientTick
  <2>5. connected' \in [Clients -> BOOLEAN] /\ zeroed' \in [Clients -> BOOLEAN]
    BY <1>3 DEF ClientTick
  <2> QED
    BY <1>3, <2>2, <2>3, <2>4, <2>5 DEF ClientTick
<1>4. ASSUME NEW c \in Clients, NEW k \in ToClientKinds, ClientReceive(c, k)
      PROVE  TypeOK'
  BY <1>4 DEF ClientReceive
<1>5. ASSUME NEW c \in Clients, ClientSend(c) PROVE TypeOK'
  BY <1>5 DEF ClientSend
<1>6. ASSUME NEW c \in Clients, ClientSetupDataConn(c) PROVE TypeOK'
  BY <1>6 DEF ClientSetupDataConn
<1>7. ASSUME NEW c \in Clients, NEW k \in ToServerKinds, Accept(c, k)
      PROVE  TypeOK'
  BY <1>7 DEF Accept
<1>8. ASSUME NEW c \in Clients, NEW k \in ToServerKinds, AcceptedReceive(c, k)
      PROVE  TypeOK'
  BY <1>8 DEF AcceptedReceive
<1>9. ASSUME NEW c \in Clients, AcceptedTick(c) PROVE TypeOK'
  <2>1. Decrement(accActivity[c]) \in 0 .. ActivityTimerAccepted
        /\ Saturate(accQuiet[c], ActivityTimerAccepted)
             \in 0 .. ActivityTimerAccepted
    BY CounterRanges
  <2> QED
    BY <1>9, <2>1 DEF AcceptedTick
<1>10. ASSUME NEW c \in Clients, AcceptedSendData(c) PROVE TypeOK'
  BY <1>10 DEF AcceptedSendData
<1>11. ASSUME NEW c \in Clients, ServerSendSignalling(c) PROVE TypeOK'
  BY <1>11 DEF ServerSendSignalling
<1>12. ASSUME NEW c \in Clients, AcceptedSetupDataConn(c) PROVE TypeOK'
  BY <1>12 DEF AcceptedSetupDataConn
<1>13. ASSUME NEW c \in Clients, NEW k \in ToServerKinds, LoseToServer(c, k)
      PROVE  TypeOK'
  BY <1>13 DEF LoseToServer
<1>14. ASSUME NEW c \in Clients, NEW k \in ToClientKinds, LoseToClient(c, k)
      PROVE  TypeOK'
  BY <1>14 DEF LoseToClient
<1>15. ASSUME NEW c \in Clients, NEW k \in ToServerKinds, RefusedByServer(c, k)
      PROVE  TypeOK'
  BY <1>15 DEF RefusedByServer
<1>16. ASSUME NEW c \in Clients, NEW k \in ToClientKinds, RefusedByClient(c, k)
      PROVE  TypeOK'
  BY <1>16 DEF RefusedByClient
<1>17. CASE ServerCrash
  <2>1. toClient' \in [Clients -> SUBSET ToClientKinds]
    <3>1. ASSUME NEW c \in Clients
          PROVE  (IF "ConnectOK" \in toClient[c]
                  THEN (toClient[c] \ {"ConnectOK"}) \cup {"StaleConnectOK"}
                  ELSE toClient[c]) \in SUBSET ToClientKinds
      OBVIOUS
    <3> QED
      BY <1>17, <3>1 DEF ServerCrash
  <2>2. /\ All(FALSE) \in [Clients -> BOOLEAN]
        /\ All(0) \in [Clients -> 0 .. ActivityTimerAccepted]
    BY DEF All
  <2> QED
    BY <1>17, <2>1, <2>2 DEF ServerCrash
<1>18. CASE ServerRestart
  BY <1>18 DEF ServerRestart
<1>19. CASE UNCHANGED vars
  BY <1>19 DEF vars
<1>q. QED
  BY <1>1, <1>2, <1>3, <1>4, <1>5, <1>6, <1>7, <1>8, <1>9, <1>10, <1>11, <1>12, <1>13, <1>14, <1>15, <1>16, <1>17, <1>18, <1>19
     DEF Next, ClientStep, ServerStep, NetworkStep

\* Every reachable state is well typed (VpnLink, all the handlers).
THEOREM TypeCorrect == Spec => []TypeOK
<1>1. Init => TypeOK
  BY TypeInit
<1>2. TypeOK /\ [Next]_vars => TypeOK'
  BY TypeStep
<1> QED
  BY <1>1, <1>2, PTL DEF Spec

-----------------------------------------------------------------------------
\* The invariant holds before any process has started a link.
LEMMA LinkInvInit == Init => LinkInv
BY TypeInit DEF Init, All, LinkInv, HandshakeAgreement, ClientTimerInv,
   AcceptedTimerInv

\* The handshake: only an EConnect produces an EConnectOK, only the expiry of
\* the accepted link disconnects it, and a crash makes every EConnectOK stale.
LEMMA HandshakeStep == LinkInv /\ Next => HandshakeAgreement'
<1> SUFFICES ASSUME LinkInv, Next PROVE HandshakeAgreement'
  OBVIOUS
<1> USE DEF LinkInv, HandshakeAgreement, TypeOK, clientVars, acceptVars,
            clientHist, acceptHist
<1>1. ASSUME NEW c \in Clients, ClientStart(c) PROVE HandshakeAgreement'
  BY <1>1 DEF ClientStart, Connect
<1>2. ASSUME NEW c \in Clients, ClientExit(c) PROVE HandshakeAgreement'
  BY <1>2 DEF ClientExit
<1>3. ASSUME NEW c \in Clients, ClientTick(c) PROVE HandshakeAgreement'
  BY <1>3 DEF ClientTick, Connect
<1>4. ASSUME NEW c \in Clients, NEW k \in ToClientKinds, ClientReceive(c, k)
      PROVE  HandshakeAgreement'
  BY <1>4 DEF ClientReceive
<1>5. ASSUME NEW c \in Clients, ClientSend(c) \/ ClientSetupDataConn(c)
      PROVE  HandshakeAgreement'
  BY <1>5 DEF ClientSend, ClientSetupDataConn
<1>6. ASSUME NEW c \in Clients, NEW k \in ToServerKinds, Accept(c, k)
      PROVE  HandshakeAgreement'
  BY <1>6 DEF Accept, Exchange, Reply
<1>7. ASSUME NEW c \in Clients, NEW k \in ToServerKinds, AcceptedReceive(c, k)
      PROVE  HandshakeAgreement'
  BY <1>7 DEF AcceptedReceive, Exchange, Reply
<1>8. ASSUME NEW c \in Clients, AcceptedTick(c) PROVE HandshakeAgreement'
  BY <1>8 DEF AcceptedTick, Expire
<1>9. ASSUME NEW c \in Clients,
             \/ AcceptedSendData(c)
             \/ ServerSendSignalling(c)
             \/ AcceptedSetupDataConn(c)
      PROVE  HandshakeAgreement'
  BY <1>9 DEF AcceptedSendData, ServerSendSignalling, AcceptedSetupDataConn,
              Send
<1>10. ASSUME NEW c \in Clients, NetworkStep(c) PROVE HandshakeAgreement'
  BY <1>10 DEF NetworkStep, LoseToServer, LoseToClient, RefusedByServer,
               RefusedByClient, Exchange
<1>11. CASE ServerCrash
  BY <1>11 DEF ServerCrash, All
<1>12. CASE ServerRestart
  BY <1>12 DEF ServerRestart
<1> QED
  BY <1>1, <1>2, <1>3, <1>4, <1>5, <1>6, <1>7, <1>8, <1>9, <1>10, <1>11, <1>12
     DEF Next, ClientStep, ServerStep

\* The client's timer: only the client's own steps touch it.
LEMMA ClientTimerStep == LinkInv /\ Next => ClientTimerInv'
<1> SUFFICES ASSUME LinkInv, Next PROVE ClientTimerInv'
  OBVIOUS
<1> USE TimersAssumption DEF LinkInv, ClientTimerInv, TypeOK
<1> DEFINE same == UNCHANGED <<clientUp, connected, activity, quiet, zeroed>>
<1>1. ASSUME NEW c \in Clients, ClientStart(c) PROVE ClientTimerInv'
  BY <1>1 DEF ClientStart, Connect
<1>2. ASSUME NEW c \in Clients, ClientExit(c) PROVE ClientTimerInv'
  BY <1>2 DEF ClientExit
<1>3. ASSUME NEW c \in Clients, ClientTick(c) PROVE ClientTimerInv'
  BY <1>3, SMTT(30) DEF ClientTick, Connect, Decrement, Saturate
<1>4. ASSUME NEW c \in Clients, NEW k \in ToClientKinds, ClientReceive(c, k)
      PROVE  ClientTimerInv'
  BY <1>4 DEF ClientReceive
<1>5. ASSUME NEW c \in Clients, ClientSetupDataConn(c) PROVE ClientTimerInv'
  BY <1>5 DEF ClientSetupDataConn
<1>6. ASSUME NEW c \in Clients, ClientSend(c) \/ ServerStep(c) \/ NetworkStep(c)
      PROVE  same
  BY <1>6 DEF ClientSend, ServerStep, Accept, AcceptedReceive, AcceptedTick,
       AcceptedSendData, ServerSendSignalling, AcceptedSetupDataConn,
       NetworkStep, LoseToServer, LoseToClient, RefusedByServer,
       RefusedByClient, clientVars, clientHist
<1>7. ServerCrash \/ ServerRestart => same
  BY DEF ServerCrash, ServerRestart, clientVars, clientHist
<1>8. same => ClientTimerInv'
  OBVIOUS
<1> QED
  BY <1>1, <1>2, <1>3, <1>4, <1>5, <1>6, <1>7, <1>8 DEF Next, ClientStep

\* The accepted link's timer: only the server's steps touch it.
LEMMA AcceptedTimerStep == LinkInv /\ Next => AcceptedTimerInv'
<1> SUFFICES ASSUME LinkInv, Next PROVE AcceptedTimerInv'
  OBVIOUS
<1> USE TimersAssumption DEF LinkInv, AcceptedTimerInv, TypeOK
<1> DEFINE same == UNCHANGED <<links, accConnected, accTimer, accActivity,
                               accQuiet, accZeroed>>
<1>1. ASSUME NEW c \in Clients, NEW k \in ToServerKinds, Accept(c, k)
      PROVE  AcceptedTimerInv'
  BY <1>1 DEF Accept
<1>2. ASSUME NEW c \in Clients, NEW k \in ToServerKinds, AcceptedReceive(c, k)
      PROVE  AcceptedTimerInv'
  BY <1>2 DEF AcceptedReceive
<1>3. ASSUME NEW c \in Clients, AcceptedTick(c) PROVE AcceptedTimerInv'
  BY <1>3 DEF AcceptedTick, Expire, Decrement, Saturate
<1>4. ASSUME NEW c \in Clients, AcceptedSetupDataConn(c)
      PROVE  AcceptedTimerInv'
  BY <1>4 DEF AcceptedSetupDataConn
<1>5. CASE ServerCrash
  BY <1>5 DEF ServerCrash, All
<1>6. ASSUME NEW c \in Clients,
             \/ ClientStep(c)
             \/ AcceptedSendData(c)
             \/ ServerSendSignalling(c)
             \/ NetworkStep(c)
      PROVE  same
  BY <1>6 DEF ClientStep, ClientStart, ClientExit, ClientTick, ClientReceive,
       ClientSend, ClientSetupDataConn, AcceptedSendData,
       ServerSendSignalling, NetworkStep, LoseToServer, LoseToClient,
       RefusedByServer, RefusedByClient, acceptVars, acceptHist
<1>7. ServerRestart => same
  BY DEF ServerRestart, acceptVars, acceptHist
<1>8. same => AcceptedTimerInv'
  OBVIOUS
<1> QED
  BY <1>1, <1>2, <1>3, <1>4, <1>5, <1>6, <1>7, <1>8 DEF Next, ServerStep

\* The four parts together are preserved by every handler.
LEMMA LinkInvStep == LinkInv /\ [Next]_vars => LinkInv'
<1>1. LinkInv /\ UNCHANGED vars => LinkInv'
  BY DEF LinkInv, TypeOK, HandshakeAgreement, ClientTimerInv,
         AcceptedTimerInv, vars, clientVars, acceptVars, clientHist,
         acceptHist
<1> QED
  BY <1>1, TypeStep, HandshakeStep, ClientTimerStep, AcceptedTimerStep
     DEF LinkInv

\* The inductive invariant: types, handshake and the two timers against the
\* silence they measure (onReceive, timer_tick, SetupDataConn).
THEOREM LinkInvariant == Spec => []LinkInv
<1>1. Init => LinkInv
  BY LinkInvInit
<1>2. LinkInv /\ [Next]_vars => LinkInv'
  BY LinkInvStep
<1> QED
  BY <1>1, <1>2, PTL DEF Spec
-----------------------------------------------------------------------------
\* An EConnectOK still in flight or last heard by a client stands: the
\* sender's link is connected unless its own timer stopped (onReceive).
THEOREM HandshakeAgreementHolds == Spec => []HandshakeAgreement
<1>1. LinkInv => HandshakeAgreement
  BY DEF LinkInv
<1> QED
  BY <1>1, LinkInvariant, PTL

\* A connected end has heard its peer within its timer's span (timer_tick).
THEOREM SilenceIsBoundedHolds == Spec => []SilenceIsBounded
<1>1. LinkInv => SilenceIsBounded
  BY DEF LinkInv, ClientTimerInv, AcceptedTimerInv, SilenceIsBounded
<1> QED
  BY <1>1, LinkInvariant, PTL

\* A link is dropped only after a whole span of silence or after
\* SetupDataConn cleared its timer (timer_tick, SetupDataConn).
THEOREM DropsOnlyWhenSilentHolds == Spec => DropsOnlyWhenSilent
<1>1. LinkInv /\ [Next]_vars => [DropIsJustified]_vars
  <2> SUFFICES ASSUME LinkInv, Next PROVE DropIsJustified
    OBVIOUS
  <2> USE TimersAssumption DEF LinkInv, ClientTimerInv, AcceptedTimerInv,
          TypeOK, DropIsJustified
  <2> DEFINE quietStep == UNCHANGED <<connected, accConnected>>
  <2>1. ASSUME NEW c \in Clients, ClientStart(c) \/ ClientExit(c)
        PROVE  DropIsJustified
    BY <2>1 DEF ClientStart, ClientExit, acceptVars, clientVars
  <2>2. ASSUME NEW c \in Clients, ClientTick(c) PROVE DropIsJustified
    BY <2>2 DEF ClientTick, Decrement, Saturate, acceptVars
  <2>3. ASSUME NEW c \in Clients, NEW k \in ToClientKinds, ClientReceive(c, k)
        PROVE  DropIsJustified
    BY <2>3 DEF ClientReceive, acceptVars
  <2>4. ASSUME NEW c \in Clients, NEW k \in ToServerKinds,
               Accept(c, k) \/ AcceptedReceive(c, k)
        PROVE  DropIsJustified
    BY <2>4 DEF Accept, AcceptedReceive, clientVars
  <2>5. ASSUME NEW c \in Clients, AcceptedTick(c) PROVE DropIsJustified
    BY <2>5 DEF AcceptedTick, Expire, Decrement, Saturate, clientVars
  <2>6. CASE ServerCrash
    BY <2>6 DEF ServerCrash, clientVars
  <2>7. ASSUME NEW c \in Clients,
               \/ ClientSend(c)
               \/ ClientSetupDataConn(c)
               \/ AcceptedSendData(c)
               \/ ServerSendSignalling(c)
               \/ AcceptedSetupDataConn(c)
               \/ NetworkStep(c)
        PROVE  quietStep
    BY <2>7 DEF ClientSend, ClientSetupDataConn, AcceptedSendData,
         ServerSendSignalling, AcceptedSetupDataConn, NetworkStep,
         LoseToServer, LoseToClient, RefusedByServer, RefusedByClient,
         clientVars, acceptVars
  <2>8. ServerRestart => quietStep
    BY DEF ServerRestart, clientVars, acceptVars
  <2>9. quietStep => DropIsJustified
    OBVIOUS
  <2> QED
    BY <2>1, <2>2, <2>3, <2>4, <2>5, <2>6, <2>7, <2>8, <2>9
       DEF Next, ClientStep, ServerStep
<1> QED
  BY <1>1, LinkInvariant, PTL DEF Spec, DropsOnlyWhenSilent

-----------------------------------------------------------------------------
(* VpnLink implements TunnelLink: its initial states are initial states of   *)
(* the abstract link and each of its steps is a step of the abstract link or *)
(* leaves the abstract state as it is.                                       *)

far == [c \in Clients |-> FarEnd(c)]

\* The server ends stay as they are.
LEMMA FarKept ==
  ASSUME links' = links, accConnected' = accConnected, accTimer' = accTimer
  PROVE  far' = far
BY DEF far, FarEnd

-----------------------------------------------------------------------------
\* The constructors leave the abstract link with both ends down.
LEMMA InitRefines == Init => L!Init
<1> SUFFICES ASSUME Init PROVE L!Init
  OBVIOUS
<1>1. connected = [c \in Clients |-> FALSE] /\ okFrom = [c \in Clients |-> FALSE]
  BY DEF Init, All
<1>2. [c \in Clients |-> FarEnd(c)] = [c \in Clients |-> "none"]
  BY DEF Init, FarEnd
<1>3. UnderWay("ConnectOK") = {} /\ UnderWay("StaleConnectOK") = {}
  BY DEF Init, All, UnderWay
<1> QED
  BY <1>1, <1>2, <1>3 DEF L!Init

\* The handlers of the client process are steps of the client end.
LEMMA ClientRefines ==
  ASSUME TypeOK, NEW c \in Clients, ClientStep(c)
  PROVE  [L!Next]_(L!vars)
<1> USE DEF TypeOK, acceptVars, clientVars, clientHist, acceptHist
<1>1. CASE ClientStart(c)
  <2>1. L!Leave(c)
    BY <1>1, FarKept DEF ClientStart, L!Leave, far, UnderWay
  <2> QED
    BY <2>1 DEF L!Next
<1>2. CASE ClientExit(c)
  <2>1. L!Leave(c)
    BY <1>2, FarKept DEF ClientExit, L!Leave, far, UnderWay
  <2> QED
    BY <2>1 DEF L!Next
<1>3. CASE ClientTick(c)
  <2>1. far' = far /\ UNCHANGED <<okFrom, toClient>>
    BY <1>3, FarKept DEF ClientTick
  <2>2. UNCHANGED connected \/ connected' = [connected EXCEPT ![c] = FALSE]
    BY <1>3 DEF ClientTick
  <2>3. UNCHANGED L!vars \/ L!Leave(c)
    BY <2>1, <2>2 DEF L!vars, L!Leave, far, UnderWay
  <2> QED
    BY <2>3 DEF L!Next
<1>4. ASSUME NEW kind \in ToClientKinds, ClientReceive(c, kind)
      PROVE  [L!Next]_(L!vars)
  <2>1. far' = far
    BY <1>4, FarKept DEF ClientReceive
  <2>2. CASE kind = "ConnectOK"
    <3>1. connected' = [connected EXCEPT ![c] = TRUE]
          /\ okFrom' = [okFrom EXCEPT ![c] = TRUE]
      BY <1>4, <2>2 DEF ClientReceive
    <3>2. /\ c \in UnderWay("ConnectOK")
          /\ UnderWay("ConnectOK")' = UnderWay("ConnectOK") \ {c}
          /\ UnderWay("StaleConnectOK")' = UnderWay("StaleConnectOK")
      BY <1>4, <2>2 DEF ClientReceive, UnderWay
    <3>3. L!TakeOffer(c)
      BY <2>1, <3>1, <3>2 DEF L!TakeOffer, far
    <3> QED
      BY <3>3 DEF L!Next
  <2>3. CASE kind = "StaleConnectOK"
    <3>1. connected' = [connected EXCEPT ![c] = TRUE]
          /\ okFrom' = [okFrom EXCEPT ![c] = FALSE]
      BY <1>4, <2>3 DEF ClientReceive
    <3>2. /\ c \in UnderWay("StaleConnectOK")
          /\ UnderWay("StaleConnectOK")' = UnderWay("StaleConnectOK") \ {c}
          /\ UnderWay("ConnectOK")' = UnderWay("ConnectOK")
      BY <1>4, <2>3 DEF ClientReceive, UnderWay
    <3>3. L!TakeOffer(c)
      BY <2>1, <3>1, <3>2 DEF L!TakeOffer, far
    <3> QED
      BY <3>3 DEF L!Next
  <2>4. CASE kind \notin {"ConnectOK", "StaleConnectOK"}
    <3>1. connected' = connected /\ okFrom' = okFrom
      BY <1>4, <2>4 DEF ClientReceive
    <3>2. /\ UnderWay("ConnectOK")' = UnderWay("ConnectOK")
          /\ UnderWay("StaleConnectOK")' = UnderWay("StaleConnectOK")
      BY <1>4, <2>4 DEF ClientReceive, UnderWay
    <3> QED
      BY <2>1, <3>1, <3>2 DEF L!vars, far
  <2> QED
    BY <2>2, <2>3, <2>4
<1>5. CASE ClientSend(c)
  BY <1>5, FarKept DEF ClientSend, L!vars, far, UnderWay
<1>6. CASE ClientSetupDataConn(c)
  BY <1>6, FarKept DEF ClientSetupDataConn, L!vars, far, UnderWay
<1> QED
  BY <1>1, <1>2, <1>3, <1>4, <1>5, <1>6 DEF ClientStep

\* The handlers of the server process are steps of the server end.
LEMMA ServerRefines ==
  ASSUME TypeOK, NEW c \in Clients, ServerStep(c)
  PROVE  [L!Next]_(L!vars)
<1> USE DEF TypeOK, acceptVars, clientVars, clientHist, acceptHist
<1>1. ASSUME NEW kind \in ToServerKinds, Accept(c, kind)
      PROVE  [L!Next]_(L!vars)
  <2>1. UNCHANGED <<connected, okFrom>>
    BY <1>1 DEF Accept
  <2>2. CASE kind = "Connect"
    <3>1. far' = [far EXCEPT ![c] = "connected"]
      BY <1>1, <2>2 DEF Accept, far, FarEnd
    <3>2. /\ UnderWay("ConnectOK")' = UnderWay("ConnectOK") \cup {c}
          /\ UnderWay("StaleConnectOK")' = UnderWay("StaleConnectOK")
      BY <1>1, <2>2 DEF Accept, Exchange, Reply, UnderWay
    <3>3. L!Answer(c)
      BY <2>1, <3>1, <3>2 DEF L!Answer, far
    <3> QED
      BY <3>3 DEF L!Next
  <2>3. CASE kind # "Connect"
    <3>1. far[c] = "none" /\ far' = [far EXCEPT ![c] = "idle"]
      BY <1>1, <2>3 DEF Accept, far, FarEnd
    <3>2. /\ UnderWay("ConnectOK")' = UnderWay("ConnectOK")
          /\ UnderWay("StaleConnectOK")' = UnderWay("StaleConnectOK")
      BY <1>1, <2>3 DEF Accept, Exchange, Reply, UnderWay
    <3>3. L!Greet(c)
      BY <2>1, <3>1, <3>2 DEF L!Greet, far
    <3> QED
      BY <3>3 DEF L!Next
  <2> QED
    BY <2>2, <2>3
<1>2. ASSUME NEW kind \in ToServerKinds, AcceptedReceive(c, kind)
      PROVE  [L!Next]_(L!vars)
  <2>1. UNCHANGED <<connected, okFrom>>
    BY <1>2 DEF AcceptedReceive
  <2>2. CASE kind = "Connect"
    <3>1. far' = [far EXCEPT ![c] = "connected"]
      BY <1>2, <2>2 DEF AcceptedReceive, far, FarEnd
    <3>2. /\ UnderWay("ConnectOK")' = UnderWay("ConnectOK") \cup {c}
          /\ UnderWay("StaleConnectOK")' = UnderWay("StaleConnectOK")
      BY <1>2, <2>2 DEF AcceptedReceive, Exchange, Reply, UnderWay
    <3>3. L!Answer(c)
      BY <2>1, <3>1, <3>2 DEF L!Answer, far
    <3> QED
      BY <3>3 DEF L!Next
  <2>3. CASE kind # "Connect"
    <3>1. far' = far
      <4>1. accConnected' = accConnected
        BY <1>2, <2>3 DEF AcceptedReceive
      <4> QED
        BY <1>2, <4>1, FarKept DEF AcceptedReceive
    <3>2. /\ UnderWay("ConnectOK")' = UnderWay("ConnectOK")
          /\ UnderWay("StaleConnectOK")' = UnderWay("StaleConnectOK")
      BY <1>2, <2>3 DEF AcceptedReceive, Exchange, Reply, UnderWay
    <3> QED
      BY <2>1, <3>1, <3>2 DEF L!vars, far
  <2> QED
    BY <2>2, <2>3
<1>3. CASE AcceptedTick(c)
  <2>1. UNCHANGED <<connected, okFrom, toClient>>
    BY <1>3 DEF AcceptedTick
  <2>2. CASE UNCHANGED <<accConnected, accTimer>>
    BY <1>3, <2>1, <2>2, FarKept DEF AcceptedTick, L!vars, far, UnderWay
  <2>3. CASE Expire(c)
    <3>1. /\ c \in links /\ accTimer[c] /\ links' = links
          /\ accConnected' = [accConnected EXCEPT ![c] = FALSE]
          /\ accTimer' = [accTimer EXCEPT ![c] = FALSE]
      BY <1>3, <2>3 DEF AcceptedTick, Expire, acceptVars
    <3>2. far[c] \in {"idle", "connected"}
      BY <3>1 DEF far, FarEnd
    <3>3. FarEnd(c)' = "expired"
      BY <3>1 DEF FarEnd
    <3>4. \A d \in Clients \ {c} : FarEnd(d)' = FarEnd(d)
      BY <3>1 DEF FarEnd
    <3>5. far' = [far EXCEPT ![c] = "expired"]
      BY <3>3, <3>4 DEF far
    <3>6. L!Expire(c)
      BY <2>1, <3>2, <3>5 DEF L!Expire, far, UnderWay
    <3> QED
      BY <3>6 DEF L!Next
  <2> QED
    BY <1>3, <2>2, <2>3 DEF AcceptedTick
<1>4. ASSUME \/ AcceptedSendData(c) \/ ServerSendSignalling(c)
             \/ AcceptedSetupDataConn(c)
      PROVE  [L!Next]_(L!vars)
  <2>1. Send(toClient, c, "Payload")
    BY <1>4 DEF AcceptedSendData, ServerSendSignalling, AcceptedSetupDataConn
  <2>2. /\ UnderWay("ConnectOK")' = UnderWay("ConnectOK")
        /\ UnderWay("StaleConnectOK")' = UnderWay("StaleConnectOK")
    BY <2>1 DEF Send, UnderWay
  <2>3. far' = far /\ UNCHANGED <<connected, okFrom>>
    BY <1>4, FarKept
    DEF AcceptedSendData, ServerSendSignalling, AcceptedSetupDataConn
  <2> QED
    BY <2>2, <2>3 DEF L!vars, far
<1> QED
  BY <1>1, <1>2, <1>3, <1>4 DEF ServerStep

-----------------------------------------------------------------------------
\* A lost or refused datagram is at most a lost EConnectOK.
LEMMA NetworkRefines ==
  ASSUME TypeOK, NEW c \in Clients, NetworkStep(c)
  PROVE  [L!Next]_(L!vars)
<1> USE DEF TypeOK, acceptVars, clientVars, clientHist, acceptHist
<1>1. ASSUME NEW kind \in ToServerKinds,
             LoseToServer(c, kind) \/ RefusedByServer(c, kind)
      PROVE  [L!Next]_(L!vars)
  BY <1>1, FarKept DEF LoseToServer, RefusedByServer, L!vars, far, UnderWay
<1>2. ASSUME NEW kind \in ToClientKinds,
             LoseToClient(c, kind) \/ RefusedByClient(c, kind)
      PROVE  [L!Next]_(L!vars)
  <2>1. far' = far /\ UNCHANGED <<connected, okFrom>>
    BY <1>2, FarKept DEF LoseToClient, RefusedByClient
  <2>2. Exchange(toClient, c, {kind}, {})
    BY <1>2 DEF LoseToClient, RefusedByClient
  <2>3. CASE kind \in {"ConnectOK", "StaleConnectOK"}
    <3>1. UnderWay(kind)' = UnderWay(kind) \ {c}
      BY <2>2 DEF Exchange, UnderWay
    <3>2. \A other \in ToClientKinds \ {kind} :
            UnderWay(other)' = UnderWay(other)
      BY <2>2 DEF Exchange, UnderWay
    <3>3. L!LoseOffer(c)
      BY <2>1, <2>3, <3>1, <3>2 DEF L!LoseOffer, far, ToClientKinds
    <3> QED
      BY <3>3 DEF L!Next
  <2>4. CASE kind \notin {"ConnectOK", "StaleConnectOK"}
    <3>1. /\ UnderWay("ConnectOK")' = UnderWay("ConnectOK")
          /\ UnderWay("StaleConnectOK")' = UnderWay("StaleConnectOK")
      BY <2>2, <2>4 DEF Exchange, UnderWay
    <3> QED
      BY <2>1, <3>1 DEF L!vars, far
  <2> QED
    BY <2>3, <2>4
<1> QED
  BY <1>1, <1>2 DEF NetworkStep

\* The death of the server process takes every server end with it.
LEMMA CrashRefines == TypeOK /\ ServerCrash => L!FarDies
<1> SUFFICES ASSUME TypeOK, ServerCrash PROVE L!FarDies
  OBVIOUS
<1> USE DEF TypeOK, clientVars
<1>1. far' = [c \in Clients |-> "none"]
  BY DEF ServerCrash, far, FarEnd
<1>2. /\ UnderWay("ConnectOK")' = {}
      /\ UnderWay("StaleConnectOK")' =
           UnderWay("StaleConnectOK") \cup UnderWay("ConnectOK")
  BY DEF ServerCrash, UnderWay
<1>3. connected' = connected /\ okFrom' = [c \in Clients |-> FALSE]
  BY DEF ServerCrash, All
<1> QED
  BY <1>1, <1>2, <1>3 DEF L!FarDies, far

\* Every step of the two processes and the network is a step of the abstract
\* link, or leaves it as it is.
LEMMA StepRefines == TypeOK /\ [Next]_vars => [L!Next]_(L!vars)
<1> SUFFICES ASSUME TypeOK, [Next]_vars PROVE [L!Next]_(L!vars)
  OBVIOUS
<1>1. ASSUME NEW c \in Clients, ClientStep(c) \/ ServerStep(c) \/ NetworkStep(c)
      PROVE  [L!Next]_(L!vars)
  BY <1>1, ClientRefines, ServerRefines, NetworkRefines
<1>2. CASE ServerCrash
  BY <1>2, CrashRefines DEF L!Next
<1>3. CASE ServerRestart
  BY <1>3, FarKept DEF ServerRestart, clientVars, acceptVars, clientHist,
                       L!vars, far, UnderWay
<1>4. CASE UNCHANGED vars
  BY <1>4, FarKept DEF vars, clientVars, acceptVars, clientHist, L!vars, far,
                       UnderWay
<1> QED
  BY <1>1, <1>2, <1>3, <1>4 DEF Next

\* VpnLink implements the abstract link of TunnelLink.
THEOREM LinkImplementsTunnelLink == Spec => ImplementsTunnelLink
<1>1. Init => L!Init
  BY InitRefines
<1>2. TypeOK /\ [Next]_vars => [L!Next]_(L!vars)
  BY StepRefines
<1>3. Spec => []TypeOK
  BY TypeCorrect
<1> QED
  BY <1>1, <1>2, <1>3, PTL DEF Spec, L!Spec, ImplementsTunnelLink

\* The abstract link keeps its promise: each of its steps keeps the types and
\* OfferStands.
LEMMA PromiseKept == L!Spec => [](L!TypeOK /\ L!OfferStands)
<1> USE DEF L!TypeOK, L!OfferStands, L!FarStates
<1>1. L!Init => L!TypeOK /\ L!OfferStands
  BY DEF L!Init
<1>2. L!TypeOK /\ L!OfferStands /\ [L!Next]_(L!vars) => L!TypeOK' /\ L!OfferStands'
  <2> SUFFICES ASSUME L!TypeOK, L!OfferStands, [L!Next]_(L!vars)
               PROVE  L!TypeOK' /\ L!OfferStands'
    OBVIOUS
  <2>1. ASSUME NEW c \in Clients, L!Greet(c) PROVE L!TypeOK' /\ L!OfferStands'
    BY <2>1 DEF L!Greet
  <2>2. ASSUME NEW c \in Clients, L!Answer(c) PROVE L!TypeOK' /\ L!OfferStands'
    BY <2>2 DEF L!Answer
  <2>3. ASSUME NEW c \in Clients, L!Expire(c) PROVE L!TypeOK' /\ L!OfferStands'
    BY <2>3 DEF L!Expire
  <2>4. ASSUME NEW c \in Clients, L!TakeOffer(c) PROVE L!TypeOK' /\ L!OfferStands'
    BY <2>4 DEF L!TakeOffer
  <2>5. ASSUME NEW c \in Clients, L!Leave(c) PROVE L!TypeOK' /\ L!OfferStands'
    BY <2>5 DEF L!Leave
  <2>6. ASSUME NEW c \in Clients, L!LoseOffer(c) PROVE L!TypeOK' /\ L!OfferStands'
    BY <2>6 DEF L!LoseOffer
  <2>7. CASE L!FarDies
    BY <2>7 DEF L!FarDies
  <2>8. CASE UNCHANGED L!vars
    BY <2>8 DEF L!vars
  <2> QED
    BY <2>1, <2>2, <2>3, <2>4, <2>5, <2>6, <2>7, <2>8 DEF L!Next
<1> QED
  BY <1>1, <1>2, PTL DEF L!Spec

\* Hence what the abstract link promises holds of VpnLink: an EConnectOK of
\* the running server process stands for a server end that was connected.
THEOREM OffersStand == Spec => []L!OfferStands
<1>1. L!Spec => [](L!TypeOK /\ L!OfferStands)
  BY PromiseKept
<1> QED
  BY <1>1, LinkImplementsTunnelLink, PTL DEF ImplementsTunnelLink
=============================================================================
