--------------------------- MODULE DtlsLinkProofs ---------------------------
(***************************************************************************)
(* Proofs about DtlsLink, for any set of clients and any timer constants:  *)
(* the types, that the two ends of a handshake agree on its end, and that  *)
(* the secured link implements TunnelLink.                                 *)
(***************************************************************************)
EXTENDS DtlsLink, TLAPS

\* Flight by flight: what is under way tells how far the client has got, and
\* the server's last flight that its end has a session.
FlightsInv ==
  \A c \in Clients :
    /\ ssl[c] = "gone" => ~clientUp[c]
    /\ ssl[c] = "none" => up[c] = {} /\ down[c] = {}
    /\ "ClientHello" \in up[c] \/ "ServerHello" \in down[c]
         => ssl[c] \in {"hello", "gone"}
    /\ ~("ClientHello" \in up[c] /\ "ServerHello" \in down[c])
    /\ "ClientFinished" \in up[c] \/ "ServerFinished" \in down[c]
         => ssl[c] \in {"finished", "done", "gone"}
    /\ "ServerFinished" \in down[c] /\ loyal[c] => accSsl[c] = "done"
    /\ accSsl[c] = "done" => c \in links

DtlsInv == TypeOK /\ SessionsAgree /\ FlightsInv

-----------------------------------------------------------------------------
USE TimersAssumption

\* The two counter updates stay within their limit.
LEMMA CounterRanges ==
  ASSUME NEW limit \in Nat, NEW n \in 0 .. limit
  PROVE  B!Decrement(n) \in 0 .. limit /\ B!Saturate(n, limit) \in 0 .. limit
BY DEF B!Decrement, B!Saturate

\* The constructors leave a state of the invariant.
LEMMA InvInit == Init => DtlsInv
BY DEF Init, DtlsInv, TypeOK, SessionsAgree, FlightsInv, ClientStages, AcceptedStages,
       B!Init, B!TypeOK, B!All

\* The handlers of VpnLink that a session uses, and the network, keep its types.
LEMMA SecuredTypes ==
  ASSUME B!TypeOK, NEW c \in Clients,
         \/ B!ClientExit(c) \/ B!ClientTick(c) \/ B!ClientSend(c)
         \/ B!ClientSetupDataConn(c)
         \/ \E kind \in B!ToClientKinds : B!ClientReceive(c, kind)
         \/ B!AcceptedTick(c) \/ B!AcceptedSendData(c) \/ B!ServerSendSignalling(c)
         \/ B!AcceptedSetupDataConn(c)
         \/ \E kind \in B!ToServerKinds : B!AcceptedReceive(c, kind)
         \/ B!NetworkStep(c)
  PROVE  B!TypeOK'
<1> USE DEF B!TypeOK, B!ToServerKinds, B!ToClientKinds, B!clientVars, B!acceptVars,
            B!clientHist, B!acceptHist, B!Send, B!Exchange, B!Reply, B!Expire, B!Connect
<1>1. CASE B!ClientExit(c)
  BY <1>1 DEF B!ClientExit
<1>2. CASE B!ClientTick(c)
  <2>1. B!Decrement(activity[c]) \in 0 .. ActivityTimerClient
        /\ B!Saturate(quiet[c], ActivityTimerClient) \in 0 .. ActivityTimerClient
    BY CounterRanges
  <2>2. activity' \in [Clients -> 0 .. ActivityTimerClient]
    BY <1>2, <2>1 DEF B!ClientTick
  <2>3. quiet' \in [Clients -> 0 .. ActivityTimerClient]
    BY <1>2, <2>1 DEF B!ClientTick
  <2>4. toServer' \in [Clients -> SUBSET B!ToServerKinds]
    BY <1>2 DEF B!ClientTick
  <2>5. connected' \in [Clients -> BOOLEAN] /\ zeroed' \in [Clients -> BOOLEAN]
    BY <1>2 DEF B!ClientTick
  <2> QED
    BY <1>2, <2>2, <2>3, <2>4, <2>5 DEF B!ClientTick
<1>3. CASE B!ClientSend(c)
  BY <1>3 DEF B!ClientSend
<1>4. CASE B!ClientSetupDataConn(c)
  BY <1>4 DEF B!ClientSetupDataConn
<1>5. ASSUME NEW kind \in B!ToClientKinds, B!ClientReceive(c, kind) PROVE B!TypeOK'
  BY <1>5 DEF B!ClientReceive
<1>6. CASE B!AcceptedTick(c)
  <2>1. B!Decrement(accActivity[c]) \in 0 .. ActivityTimerAccepted
        /\ B!Saturate(accQuiet[c], ActivityTimerAccepted) \in 0 .. ActivityTimerAccepted
    BY CounterRanges
  <2> QED
    BY <1>6, <2>1 DEF B!AcceptedTick
<1>7. CASE B!AcceptedSendData(c) \/ B!ServerSendSignalling(c)
  BY <1>7 DEF B!AcceptedSendData, B!ServerSendSignalling
<1>8. CASE B!AcceptedSetupDataConn(c)
  BY <1>8 DEF B!AcceptedSetupDataConn
<1>9. ASSUME NEW kind \in B!ToServerKinds, B!AcceptedReceive(c, kind) PROVE B!TypeOK'
  BY <1>9 DEF B!AcceptedReceive
<1>10. CASE B!NetworkStep(c)
  <2>1. ASSUME NEW kind \in B!ToServerKinds,
               B!LoseToServer(c, kind) \/ B!RefusedByServer(c, kind)
        PROVE  B!TypeOK'
    BY <2>1, ZenonT(60) DEF B!LoseToServer, B!RefusedByServer
  <2>2. ASSUME NEW kind \in B!ToClientKinds,
               B!LoseToClient(c, kind) \/ B!RefusedByClient(c, kind)
        PROVE  B!TypeOK'
    BY <2>2, ZenonT(60) DEF B!LoseToClient, B!RefusedByClient
  <2> QED
    BY <1>10, <2>1, <2>2 DEF B!NetworkStep
<1> QED
  BY <1>1, <1>2, <1>3, <1>4, <1>5, <1>6, <1>7, <1>8, <1>9, <1>10

\* A crash and a restart of the server keep them too.
LEMMA ServerTypes ==
  ASSUME B!TypeOK, B!ServerCrash \/ B!ServerRestart
  PROVE  B!TypeOK'
<1> USE DEF B!TypeOK, B!clientVars, B!acceptVars, B!clientHist, B!acceptHist
<1>1. CASE B!ServerCrash
  <2>1. toClient' \in [Clients -> SUBSET B!ToClientKinds]
    <3>1. ASSUME NEW c \in Clients
          PROVE  (IF "ConnectOK" \in toClient[c]
                  THEN (toClient[c] \ {"ConnectOK"}) \cup {"StaleConnectOK"}
                  ELSE toClient[c]) \in SUBSET B!ToClientKinds
      BY DEF B!ToClientKinds
    <3> QED
      BY <1>1, <3>1 DEF B!ServerCrash
  <2>2. /\ B!All(FALSE) \in [Clients -> BOOLEAN]
        /\ B!All(0) \in [Clients -> 0 .. ActivityTimerAccepted]
    BY DEF B!All
  <2> QED
    BY <1>1, <2>1, <2>2 DEF B!ServerCrash
<1>2. CASE B!ServerRestart
  BY <1>2 DEF B!ServerRestart
<1> QED
  BY <1>1, <1>2

-----------------------------------------------------------------------------
\* No handler leaves the types.
LEMMA TypeStep == TypeOK /\ [Next]_vars => TypeOK'
<1> SUFFICES ASSUME TypeOK, [Next]_vars PROVE TypeOK'
  OBVIOUS
<1> USE DEF TypeOK, clientVars, acceptVars, clientHist, acceptHist, handVars, Becomes
<1>1. ASSUME B!TypeOK', UNCHANGED <<up, down, drives, fits, loyal, accSsl>>,
             ssl' \in [Clients -> ClientStages]
      PROVE  TypeOK'
  BY <1>1
<1>2. ASSUME NEW c \in Clients, ClientStart(c) PROVE TypeOK'
  BY <1>2 DEF ClientStart, B!TypeOK, B!Send, UpFlights, ClientStages
<1>3. ASSUME NEW c \in Clients, ClientExit(c) PROVE TypeOK'
  BY <1>1, <1>3, SecuredTypes DEF ClientExit, ClientStages
<1>4. ASSUME NEW c \in Clients, NEW flight \in DownFlights, ClientFlight(c, flight)
      PROVE  TypeOK'
  BY <1>4 DEF ClientFlight, LinkReady, B!TypeOK, B!Send, B!Exchange, B!Connect,
              B!ToServerKinds, UpFlights, ClientStages
<1>5. ASSUME NEW c \in Clients, ClientSecured(c) PROVE TypeOK'
  <2>1. UNCHANGED handVars
    BY <1>5 DEF ClientSecured
  <2>2. B!TypeOK'
    BY <1>5, SecuredTypes DEF ClientSecured
  <2> QED
    BY <1>1, <2>1, <2>2
<1>6. ASSUME NEW c \in Clients, NEW stage \in AcceptedStages, NewLink(c, stage),
             toServer' \in [Clients -> SUBSET B!ToServerKinds],
             up' \in [Clients -> SUBSET UpFlights],
             down' \in [Clients -> SUBSET DownFlights]
      PROVE  TypeOK'
  BY <1>6 DEF NewLink, B!TypeOK
<1>7. ASSUME NEW c \in Clients, NEW flight \in UpFlights, AcceptFlight(c, flight)
      PROVE  TypeOK'
  BY <1>6, <1>7 DEF AcceptFlight, AcceptedStages, DownFlights, B!TypeOK, B!Send, B!Exchange
<1>8. ASSUME NEW c \in Clients, NEW flight \in UpFlights, AcceptedFlight(c, flight)
      PROVE  TypeOK'
  <2>1. /\ up' \in [Clients -> SUBSET UpFlights]
        /\ UNCHANGED <<ssl, drives, fits, loyal>>
    BY <1>8 DEF AcceptedFlight, B!Exchange
  <2>2. /\ accSsl' \in [Clients -> AcceptedStages]
        /\ down' \in [Clients -> SUBSET DownFlights]
        /\ accActivity' \in [Clients -> 0 .. ActivityTimerAccepted]
        /\ accTimer' \in [Clients -> BOOLEAN]
    <3>1. CASE flight = "ClientFinished" /\ Complete(c)
      <4>1. /\ accSsl' = [accSsl EXCEPT ![c] = "done"]
            /\ down' = [down EXCEPT ![c] = down[c] \cup {"ServerFinished"}]
            /\ accActivity' = [accActivity EXCEPT ![c] = ActivityTimerAccepted]
            /\ accTimer' = [accTimer EXCEPT ![c] = TRUE]
        BY <1>8, <3>1 DEF AcceptedFlight, B!Send
      <4> QED
        BY <4>1 DEF AcceptedStages, DownFlights, B!TypeOK
    <3>2. CASE ~(flight = "ClientFinished" /\ Complete(c))
      BY <1>8, <3>2 DEF AcceptedFlight, B!TypeOK
    <3> QED
      BY <3>1, <3>2
  <2>3. B!TypeOK'
    BY <1>8, <2>2 DEF AcceptedFlight, B!TypeOK
  <2> QED
    BY <2>1, <2>2, <2>3
<1>9. ASSUME NEW c \in Clients, NEW kind \in B!ToServerKinds, AcceptRecord(c, kind)
      PROVE  TypeOK'
  BY <1>6, <1>9 DEF AcceptRecord, AcceptedStages, B!TypeOK, B!Exchange
<1>10. ASSUME NEW c \in Clients, NEW kind \in B!ToServerKinds, DropRecord(c, kind)
       PROVE  TypeOK'
  BY <1>10 DEF DropRecord, B!TypeOK, B!Exchange
<1>11. ASSUME NEW c \in Clients, AcceptedSecured(c) PROVE TypeOK'
  <2>1. UNCHANGED handVars
    BY <1>11 DEF AcceptedSecured
  <2>2. B!TypeOK'
    BY <1>11, SecuredTypes DEF AcceptedSecured
  <2> QED
    BY <1>1, <2>1, <2>2
<1>12. ASSUME NEW c \in Clients, FlightLost(c) PROVE TypeOK'
  <2>1. /\ up' \in [Clients -> SUBSET UpFlights] /\ down' \in [Clients -> SUBSET DownFlights]
        /\ UNCHANGED <<ssl, accSsl, drives, fits, loyal>>
    BY <1>12 DEF FlightLost, B!Exchange
  <2>2. /\ receiving' \in [Clients -> BOOLEAN] /\ accReceiving' \in [Clients -> BOOLEAN]
    BY <1>12 DEF FlightLost, B!TypeOK
  <2>3. B!TypeOK'
    BY <1>12, <2>2 DEF FlightLost, B!TypeOK
  <2> QED
    BY <2>1, <2>3
<1>13. ASSUME NEW c \in Clients, RecordLost(c) PROVE TypeOK'
  BY <1>1, <1>13, SecuredTypes DEF RecordLost
<1>14. CASE ServerCrash
  <2>1. B!TypeOK'
    BY <1>14, ServerTypes DEF ServerCrash
  <2> QED
    BY <1>14, <2>1 DEF ServerCrash, AcceptedStages
<1>15. CASE ServerRestart
  BY <1>1, <1>15, ServerTypes DEF ServerRestart
<1>16. CASE UNCHANGED vars
  BY <1>16 DEF vars, B!TypeOK
<1> QED
  BY <1>2, <1>3, <1>4, <1>5, <1>7, <1>8, <1>9, <1>10, <1>11, <1>12, <1>13, <1>14,
     <1>15, <1>16 DEF Next, ClientStep, ServerStep

-----------------------------------------------------------------------------
\* Nor do they break the invariant.
LEMMA InvStep == DtlsInv /\ [Next]_vars => DtlsInv'
<1> SUFFICES ASSUME DtlsInv, [Next]_vars PROVE SessionsAgree' /\ FlightsInv'
  BY TypeStep DEF DtlsInv
<1>0. TypeOK /\ SessionsAgree /\ FlightsInv
  BY DEF DtlsInv
<1> USE <1>0 DEF TypeOK, B!TypeOK, SessionsAgree, FlightsInv, Becomes, clientVars, acceptVars,
            clientHist, acceptHist, handVars, B!clientVars, B!acceptVars, B!clientHist,
            B!acceptHist
<1>1. ASSUME NEW c \in Clients, ClientStart(c) PROVE SessionsAgree' /\ FlightsInv'
  BY <1>1 DEF ClientStart, B!Send
<1>2. ASSUME NEW c \in Clients, ClientExit(c) PROVE SessionsAgree' /\ FlightsInv'
  BY <1>2 DEF ClientExit, B!ClientExit
<1>3. ASSUME NEW c \in Clients, NEW flight \in DownFlights, ClientFlight(c, flight)
      PROVE  SessionsAgree' /\ FlightsInv'
  BY <1>3 DEF ClientFlight, DownFlights, B!Exchange, B!Send
<1>4. ASSUME NEW c \in Clients, ClientSecured(c) PROVE SessionsAgree' /\ FlightsInv'
  BY <1>4 DEF ClientSecured, B!ClientTick, B!ClientReceive, B!ClientSend,
              B!ClientSetupDataConn
<1>5. ASSUME NEW c \in Clients, NEW flight \in UpFlights, AcceptFlight(c, flight)
      PROVE  SessionsAgree' /\ FlightsInv'
  BY <1>5 DEF AcceptFlight, NewLink, UpFlights, B!Exchange, B!Send
<1>6. ASSUME NEW c \in Clients, NEW flight \in UpFlights, AcceptedFlight(c, flight)
      PROVE  SessionsAgree' /\ FlightsInv'
  BY <1>6 DEF AcceptedFlight, UpFlights, B!Exchange, B!Send
<1>7. ASSUME NEW c \in Clients, NEW kind \in B!ToServerKinds, AcceptRecord(c, kind)
      PROVE  SessionsAgree' /\ FlightsInv'
  BY <1>7 DEF AcceptRecord, NewLink
<1>8. ASSUME NEW c \in Clients, NEW kind \in B!ToServerKinds, DropRecord(c, kind)
      PROVE  SessionsAgree' /\ FlightsInv'
  BY <1>8 DEF DropRecord
<1>9. ASSUME NEW c \in Clients, AcceptedSecured(c) PROVE SessionsAgree' /\ FlightsInv'
  <2>1. /\ accSsl[c] = "done" /\ UNCHANGED handVars
        /\ UNCHANGED <<clientUp, connected, links>>
        /\ \A d \in Clients \ {c} :
             accConnected'[d] = accConnected[d] /\ accTimer'[d] = accTimer[d]
    <3>1. ASSUME NEW kind \in B!ToServerKinds, B!AcceptedReceive(c, kind)
          PROVE  /\ UNCHANGED <<clientUp, connected, links, accTimer>>
                 /\ \A d \in Clients \ {c} : accConnected'[d] = accConnected[d]
      BY <3>1 DEF B!AcceptedReceive
    <3>2. ASSUME B!AcceptedTick(c)
          PROVE  /\ UNCHANGED <<clientUp, connected, links>>
                 /\ \A d \in Clients \ {c} :
                      accConnected'[d] = accConnected[d] /\ accTimer'[d] = accTimer[d]
      BY <3>2 DEF B!AcceptedTick, B!Expire
    <3>3. ASSUME B!AcceptedSendData(c) \/ B!ServerSendSignalling(c)
                   \/ B!AcceptedSetupDataConn(c)
          PROVE  UNCHANGED <<clientUp, connected, links, accConnected, accTimer>>
      BY <3>3 DEF B!AcceptedSendData, B!ServerSendSignalling, B!AcceptedSetupDataConn
    <3> QED
      BY <1>9, <3>1, <3>2, <3>3 DEF AcceptedSecured
  <2> QED
    BY <2>1
<1>10. ASSUME NEW c \in Clients, FlightLost(c) PROVE SessionsAgree' /\ FlightsInv'
  BY <1>10 DEF FlightLost, B!Exchange
<1>11. ASSUME NEW c \in Clients, RecordLost(c) PROVE SessionsAgree' /\ FlightsInv'
  <2>1. UNCHANGED <<clientUp, connected, links, accConnected, accTimer, handVars>>
    BY <1>11 DEF RecordLost, B!NetworkStep, B!LoseToServer, B!LoseToClient,
                 B!RefusedByServer, B!RefusedByClient
  <2> QED
    BY <2>1
<1>12. CASE ServerCrash
  BY <1>12 DEF ServerCrash, B!ServerCrash, B!All
<1>13. CASE ServerRestart
  BY <1>13 DEF ServerRestart, B!ServerRestart
<1>14. CASE UNCHANGED vars
  BY <1>14 DEF vars
<1> QED
  BY <1>1, <1>2, <1>3, <1>4, <1>5, <1>6, <1>7, <1>8, <1>9, <1>10, <1>11, <1>12, <1>13,
     <1>14 DEF Next, ClientStep, ServerStep

\* The inductive invariant of the secured link.
LEMMA DtlsInvariant == Spec => []DtlsInv
BY InvInit, InvStep, PTL DEF Spec

\* Every reachable state of the secured link has its types: records, flights,
\* timers and stages of the handshake.
THEOREM DtlsTypeCorrect == Spec => []TypeOK
<1>1. DtlsInv => TypeOK
  BY DEF DtlsInv
<1> QED
  BY <1>1, DtlsInvariant, PTL

\* A client that completed its handshake has an accepted end that completed it
\* too, whatever flights were lost, until a server process dies; and no end is
\* connected or counts down without a session.
THEOREM SessionsAgreeHolds == Spec => []SessionsAgree
<1>1. DtlsInv => SessionsAgree
  BY DEF DtlsInv
<1> QED
  BY <1>1, DtlsInvariant, PTL

-----------------------------------------------------------------------------
(* The refinement of TunnelLink. *)

far == [c \in Clients |-> IF accSsl[c] = "done" THEN B!FarEnd(c) ELSE "none"]

\* The server ends stay as they are.
LEMMA FarKept ==
  ASSUME links' = links, accConnected' = accConnected, accTimer' = accTimer,
         accSsl' = accSsl
  PROVE  far' = far
BY DEF far, B!FarEnd

\* The initial states map to the initial state of the abstract link.
LEMMA InitRefines == Init => L!Init
<1> SUFFICES ASSUME Init PROVE L!Init
  OBVIOUS
<1>1. connected = [c \in Clients |-> FALSE] /\ okFrom = [c \in Clients |-> FALSE]
  BY DEF Init, B!Init, B!All
<1>2. [c \in Clients |-> IF accSsl[c] = "done" THEN B!FarEnd(c) ELSE "none"]
        = [c \in Clients |-> "none"]
  BY DEF Init
<1>3. B!UnderWay("ConnectOK") = {} /\ B!UnderWay("StaleConnectOK") = {}
  BY DEF Init, B!Init, B!All, B!UnderWay
<1> QED
  BY <1>1, <1>2, <1>3 DEF L!Init

\* Until its handshake is over the client end stays down; after that its
\* handlers are steps of the abstract client end.
LEMMA ClientRefines ==
  ASSUME DtlsInv, NEW c \in Clients, ClientStep(c)
  PROVE  [L!Next]_(L!vars)
<1>0. TypeOK /\ SessionsAgree
  BY DEF DtlsInv
<1> USE <1>0 DEF TypeOK, B!TypeOK, acceptVars, clientVars, clientHist, acceptHist,
            handVars, B!acceptVars, B!clientVars, B!clientHist, B!acceptHist
<1>1. CASE ClientStart(c)
  BY <1>1, FarKept DEF ClientStart, L!vars, far, B!UnderWay
<1>2. CASE ClientExit(c)
  <2>1. L!Leave(c)
    BY <1>2, FarKept DEF ClientExit, B!ClientExit, L!Leave, far, B!UnderWay
  <2> QED
    BY <2>1 DEF L!Next
<1>3. ASSUME NEW flight \in DownFlights, ClientFlight(c, flight)
      PROVE  [L!Next]_(L!vars)
  BY <1>3, FarKept DEF ClientFlight, L!vars, far, B!UnderWay
<1>4. ASSUME B!ClientTick(c), UNCHANGED handVars PROVE [L!Next]_(L!vars)
  <2>1. far' = far /\ UNCHANGED <<okFrom, toClient>>
    BY <1>4, FarKept DEF B!ClientTick
  <2>2. UNCHANGED connected \/ connected' = [connected EXCEPT ![c] = FALSE]
    BY <1>4 DEF B!ClientTick
  <2>3. UNCHANGED L!vars \/ L!Leave(c)
    BY <2>1, <2>2 DEF L!vars, L!Leave, far, B!UnderWay
  <2> QED
    BY <2>3 DEF L!Next
<1>5. ASSUME NEW kind \in B!ToClientKinds, B!ClientReceive(c, kind), UNCHANGED handVars
      PROVE  [L!Next]_(L!vars)
  <2>1. far' = far
    BY <1>5, FarKept DEF B!ClientReceive
  <2>2. CASE kind = "ConnectOK"
    <3>1. connected' = [connected EXCEPT ![c] = TRUE]
          /\ okFrom' = [okFrom EXCEPT ![c] = TRUE]
      BY <1>5, <2>2 DEF B!ClientReceive
    <3>2. /\ c \in B!UnderWay("ConnectOK")
          /\ B!UnderWay("ConnectOK")' = B!UnderWay("ConnectOK") \ {c}
          /\ B!UnderWay("StaleConnectOK")' = B!UnderWay("StaleConnectOK")
      BY <1>5, <2>2 DEF B!ClientReceive, B!UnderWay
    <3>3. L!TakeOffer(c)
      BY <2>1, <3>1, <3>2 DEF L!TakeOffer, far
    <3> QED
      BY <3>3 DEF L!Next
  <2>3. CASE kind = "StaleConnectOK"
    <3>1. connected' = [connected EXCEPT ![c] = TRUE]
          /\ okFrom' = [okFrom EXCEPT ![c] = FALSE]
      BY <1>5, <2>3 DEF B!ClientReceive
    <3>2. /\ c \in B!UnderWay("StaleConnectOK")
          /\ B!UnderWay("StaleConnectOK")' = B!UnderWay("StaleConnectOK") \ {c}
          /\ B!UnderWay("ConnectOK")' = B!UnderWay("ConnectOK")
      BY <1>5, <2>3 DEF B!ClientReceive, B!UnderWay
    <3>3. L!TakeOffer(c)
      BY <2>1, <3>1, <3>2 DEF L!TakeOffer, far
    <3> QED
      BY <3>3 DEF L!Next
  <2>4. CASE kind \notin {"ConnectOK", "StaleConnectOK"}
    <3>1. connected' = connected /\ okFrom' = okFrom
      BY <1>5, <2>4 DEF B!ClientReceive
    <3>2. /\ B!UnderWay("ConnectOK")' = B!UnderWay("ConnectOK")
          /\ B!UnderWay("StaleConnectOK")' = B!UnderWay("StaleConnectOK")
      BY <1>5, <2>4 DEF B!ClientReceive, B!UnderWay
    <3> QED
      BY <2>1, <3>1, <3>2 DEF L!vars, far
  <2> QED
    BY <2>2, <2>3, <2>4
<1>6. ASSUME B!ClientSend(c) \/ B!ClientSetupDataConn(c), UNCHANGED handVars
      PROVE  [L!Next]_(L!vars)
  BY <1>6, FarKept DEF B!ClientSend, B!ClientSetupDataConn, L!vars, far, B!UnderWay
<1> QED
  BY <1>1, <1>2, <1>3, <1>4, <1>5, <1>6 DEF ClientStep, ClientSecured

\* The end of its handshake is where a server end appears; its handlers are
\* steps of the abstract server end from there on.
LEMMA ServerRefines ==
  ASSUME DtlsInv, NEW c \in Clients, ServerStep(c)
  PROVE  [L!Next]_(L!vars)
<1>0. TypeOK /\ SessionsAgree /\ FlightsInv
  BY DEF DtlsInv
<1> USE <1>0 DEF TypeOK, B!TypeOK, acceptVars, clientVars, clientHist, acceptHist,
            handVars, B!acceptVars, B!clientVars, B!clientHist, B!acceptHist, Becomes
<1>1. ASSUME NEW stage \in {"wait", "hello"}, NewLink(c, stage)
      PROVE  [L!Next]_(L!vars)
  <2>1. accSsl[c] # "done" /\ accSsl'[c] # "done"
    BY <1>1 DEF NewLink, FlightsInv
  <2>2. \A d \in Clients \ {c} : accSsl'[d] = accSsl[d] /\ (d \in links' <=> d \in links)
    BY <1>1 DEF NewLink
  <2>3. far' = far
    BY <1>1, <2>1, <2>2 DEF NewLink, far, B!FarEnd
  <2> QED
    BY <1>1, <2>3 DEF NewLink, L!vars, far, B!UnderWay
<1>2. ASSUME NEW flight \in UpFlights, AcceptFlight(c, flight) PROVE [L!Next]_(L!vars)
  BY <1>1, <1>2 DEF AcceptFlight
<1>3. ASSUME NEW kind \in B!ToServerKinds, AcceptRecord(c, kind) PROVE [L!Next]_(L!vars)
  BY <1>1, <1>3 DEF AcceptRecord
<1>4. ASSUME NEW flight \in UpFlights, AcceptedFlight(c, flight)
      PROVE  [L!Next]_(L!vars)
  <2>1. UNCHANGED <<connected, okFrom, toClient, links, accConnected>>
    BY <1>4 DEF AcceptedFlight
  <2>2. CASE flight = "ClientFinished" /\ Complete(c)
    <3>1. /\ far[c] = "none" /\ far' = [far EXCEPT ![c] = "idle"]
      <4>1. /\ accSsl[c] = "hello" /\ accSsl' = [accSsl EXCEPT ![c] = "done"]
            /\ accTimer' = [accTimer EXCEPT ![c] = TRUE] /\ c \in links
        BY <1>4, <2>2 DEF AcceptedFlight, Complete
      <4>2. ~accConnected[c]
        BY <4>1 DEF SessionsAgree
      <4> QED
        BY <2>1, <4>1, <4>2 DEF far, B!FarEnd
    <3>2. L!Greet(c)
      BY <2>1, <3>1 DEF L!Greet, far, B!UnderWay
    <3> QED
      BY <3>2 DEF L!Next
  <2>3. CASE ~(flight = "ClientFinished" /\ Complete(c))
    <3>1. far' = far
      BY <1>4, <2>3, FarKept DEF AcceptedFlight
    <3> QED
      BY <2>1, <3>1 DEF L!vars, far, B!UnderWay
  <2> QED
    BY <2>2, <2>3
<1>5. ASSUME NEW kind \in B!ToServerKinds, DropRecord(c, kind) PROVE [L!Next]_(L!vars)
  BY <1>5, FarKept DEF DropRecord, L!vars, far, B!UnderWay
<1>6. ASSUME NEW kind \in B!ToServerKinds, B!AcceptedReceive(c, kind),
             accSsl[c] = "done", UNCHANGED handVars
      PROVE  [L!Next]_(L!vars)
  <2>1. UNCHANGED <<connected, okFrom, links, accTimer, accSsl>>
    BY <1>6 DEF B!AcceptedReceive
  <2>2. CASE kind = "Connect"
    <3>1. far' = [far EXCEPT ![c] = "connected"]
      BY <1>6, <2>1, <2>2 DEF B!AcceptedReceive, far, B!FarEnd
    <3>2. /\ B!UnderWay("ConnectOK")' = B!UnderWay("ConnectOK") \cup {c}
          /\ B!UnderWay("StaleConnectOK")' = B!UnderWay("StaleConnectOK")
      BY <1>6, <2>2 DEF B!AcceptedReceive, B!Exchange, B!Reply, B!UnderWay
    <3>3. L!Answer(c)
      BY <2>1, <3>1, <3>2 DEF L!Answer, far
    <3> QED
      BY <3>3 DEF L!Next
  <2>3. CASE kind # "Connect"
    <3>1. accConnected' = accConnected
      BY <1>6, <2>3 DEF B!AcceptedReceive
    <3>2. far' = far
      BY <2>1, <3>1, FarKept
    <3>3. /\ B!UnderWay("ConnectOK")' = B!UnderWay("ConnectOK")
          /\ B!UnderWay("StaleConnectOK")' = B!UnderWay("StaleConnectOK")
      BY <1>6, <2>3 DEF B!AcceptedReceive, B!Exchange, B!Reply, B!UnderWay
    <3> QED
      BY <2>1, <3>2, <3>3 DEF L!vars, far
  <2> QED
    BY <2>2, <2>3
<1>7. ASSUME B!AcceptedTick(c), accSsl[c] = "done", UNCHANGED handVars
      PROVE  [L!Next]_(L!vars)
  <2>1. UNCHANGED <<connected, okFrom, toClient, links, accSsl>>
    BY <1>7 DEF B!AcceptedTick
  <2>2. CASE UNCHANGED <<accConnected, accTimer>>
    <3>1. far' = far
      BY <2>1, <2>2, FarKept
    <3> QED
      BY <2>1, <3>1 DEF L!vars, far, B!UnderWay
  <2>3. CASE B!Expire(c)
    <3>1. /\ far[c] \in {"idle", "connected"}
          /\ far' = [far EXCEPT ![c] = "expired"]
      <4>1. /\ c \in links /\ accTimer[c] = TRUE
            /\ accConnected' = [accConnected EXCEPT ![c] = FALSE]
            /\ accTimer' = [accTimer EXCEPT ![c] = FALSE]
        BY <1>7, <2>3 DEF B!AcceptedTick, B!Expire
      <4>2. B!FarEnd(c) \in {"idle", "connected"} /\ B!FarEnd(c)' = "expired"
        BY <2>1, <4>1 DEF B!FarEnd
      <4>3. \A d \in Clients \ {c} : B!FarEnd(d)' = B!FarEnd(d)
        BY <2>1, <4>1 DEF B!FarEnd
      <4> QED
        BY <1>7, <2>1, <4>2, <4>3 DEF far
    <3>2. L!Expire(c)
      BY <2>1, <3>1 DEF L!Expire, far, B!UnderWay
    <3> QED
      BY <3>2 DEF L!Next
  <2> QED
    BY <1>7, <2>2, <2>3 DEF B!AcceptedTick
<1>8. ASSUME \/ B!AcceptedSendData(c) \/ B!ServerSendSignalling(c)
             \/ B!AcceptedSetupDataConn(c),
             UNCHANGED handVars
      PROVE  [L!Next]_(L!vars)
  <2>1. B!Send(toClient, c, "Payload")
    BY <1>8 DEF B!AcceptedSendData, B!ServerSendSignalling, B!AcceptedSetupDataConn
  <2>2. /\ B!UnderWay("ConnectOK")' = B!UnderWay("ConnectOK")
        /\ B!UnderWay("StaleConnectOK")' = B!UnderWay("StaleConnectOK")
    BY <2>1 DEF B!Send, B!UnderWay
  <2>3. far' = far /\ UNCHANGED <<connected, okFrom>>
    BY <1>8, FarKept
    DEF B!AcceptedSendData, B!ServerSendSignalling, B!AcceptedSetupDataConn
  <2> QED
    BY <2>2, <2>3 DEF L!vars, far
<1> QED
  BY <1>2, <1>3, <1>4, <1>5, <1>6, <1>7, <1>8 DEF ServerStep, AcceptedSecured

\* A lost flight is nothing to the abstract link, a lost record at most a lost
\* EConnectOK.
LEMMA NetworkRefines ==
  ASSUME DtlsInv, NEW c \in Clients, FlightLost(c) \/ RecordLost(c)
  PROVE  [L!Next]_(L!vars)
<1>0. TypeOK
  BY DEF DtlsInv
<1> USE <1>0 DEF TypeOK, B!TypeOK, acceptVars, clientVars, clientHist, acceptHist,
            handVars, B!acceptVars, B!clientVars, B!clientHist, B!acceptHist
<1>1. CASE FlightLost(c)
  <2>1. far' = far
    BY <1>1, FarKept DEF FlightLost
  <2> QED
    BY <1>1, <2>1 DEF FlightLost, L!vars, far, B!UnderWay
<1>2. ASSUME NEW kind \in B!ToServerKinds, UNCHANGED handVars,
             B!LoseToServer(c, kind) \/ B!RefusedByServer(c, kind)
      PROVE  [L!Next]_(L!vars)
  BY <1>2, FarKept DEF B!LoseToServer, B!RefusedByServer, L!vars, far, B!UnderWay
<1>3. ASSUME NEW kind \in B!ToClientKinds, UNCHANGED handVars,
             B!LoseToClient(c, kind) \/ B!RefusedByClient(c, kind)
      PROVE  [L!Next]_(L!vars)
  <2>1. far' = far /\ UNCHANGED <<connected, okFrom>>
    BY <1>3, FarKept DEF B!LoseToClient, B!RefusedByClient
  <2>2. B!Exchange(toClient, c, {kind}, {})
    BY <1>3 DEF B!LoseToClient, B!RefusedByClient
  <2>3. CASE kind \in {"ConnectOK", "StaleConnectOK"}
    <3>1. B!UnderWay(kind)' = B!UnderWay(kind) \ {c}
      BY <2>2 DEF B!Exchange, B!UnderWay
    <3>2. \A other \in B!ToClientKinds \ {kind} :
            B!UnderWay(other)' = B!UnderWay(other)
      BY <2>2 DEF B!Exchange, B!UnderWay
    <3>3. L!LoseOffer(c)
      BY <2>1, <2>3, <3>1, <3>2 DEF L!LoseOffer, far, B!ToClientKinds
    <3> QED
      BY <3>3 DEF L!Next
  <2>4. CASE kind \notin {"ConnectOK", "StaleConnectOK"}
    <3>1. /\ B!UnderWay("ConnectOK")' = B!UnderWay("ConnectOK")
          /\ B!UnderWay("StaleConnectOK")' = B!UnderWay("StaleConnectOK")
      BY <2>2, <2>4 DEF B!Exchange, B!UnderWay
    <3> QED
      BY <2>1, <3>1 DEF L!vars, far
  <2> QED
    BY <2>3, <2>4
<1> QED
  BY <1>1, <1>2, <1>3 DEF RecordLost, B!NetworkStep

\* The death of the server process takes every server end with it.
LEMMA CrashRefines == DtlsInv /\ ServerCrash => L!FarDies
<1> SUFFICES ASSUME DtlsInv, ServerCrash PROVE L!FarDies
  OBVIOUS
<1>0. TypeOK /\ B!ServerCrash /\ accSsl' = [c \in Clients |-> "none"]
  BY DEF DtlsInv, ServerCrash
<1> USE <1>0 DEF TypeOK, B!TypeOK, B!clientVars
<1>1. far' = [c \in Clients |-> "none"]
  BY DEF far
<1>2. /\ B!UnderWay("ConnectOK")' = {}
      /\ B!UnderWay("StaleConnectOK")' =
           B!UnderWay("StaleConnectOK") \cup B!UnderWay("ConnectOK")
  BY DEF B!ServerCrash, B!UnderWay
<1>3. connected' = connected /\ okFrom' = [c \in Clients |-> FALSE]
  BY DEF B!ServerCrash, B!All
<1> QED
  BY <1>1, <1>2, <1>3 DEF L!FarDies, far

\* Every step maps to a step of the abstract link or to none.
LEMMA StepRefines == DtlsInv /\ [Next]_vars => [L!Next]_(L!vars)
<1> SUFFICES ASSUME DtlsInv, [Next]_vars PROVE [L!Next]_(L!vars)
  OBVIOUS
<1>1. ASSUME NEW c \in Clients,
             ClientStep(c) \/ ServerStep(c) \/ FlightLost(c) \/ RecordLost(c)
      PROVE  [L!Next]_(L!vars)
  BY <1>1, ClientRefines, ServerRefines, NetworkRefines
<1>2. CASE ServerCrash
  BY <1>2, CrashRefines DEF L!Next
<1>3. CASE ServerRestart
  BY <1>3, FarKept DEF ServerRestart, handVars, B!ServerRestart, B!clientVars,
                       B!acceptVars, B!clientHist, L!vars, far, B!UnderWay
<1>4. CASE UNCHANGED vars
  BY <1>4, FarKept DEF vars, clientVars, acceptVars, clientHist, handVars, L!vars,
                       far, B!UnderWay
<1> QED
  BY <1>1, <1>2, <1>3, <1>4 DEF Next

\* DtlsLink implements the abstract link of TunnelLink: the handshake adds no
\* way to be connected and none to be dropped.
THEOREM DtlsImplementsTunnelLink == Spec => ImplementsTunnelLink
<1>1. Init => L!Init
  BY InitRefines
<1>2. DtlsInv /\ [Next]_vars => [L!Next]_(L!vars)
  BY StepRefines
<1>3. Spec => []DtlsInv
  BY DtlsInvariant
<1> QED
  BY <1>1, <1>2, <1>3, PTL DEF Spec, L!Spec, ImplementsTunnelLink

\* The types and the promise of the abstract link, of its five variables near,
\* far, offer, stale and trust.
Promise(n, f, o, s, t) ==
  /\ n \in [Clients -> BOOLEAN]
  /\ f \in [Clients -> {"none", "idle", "connected", "expired"}]
  /\ o \subseteq Clients /\ s \subseteq Clients
  /\ t \in [Clients -> BOOLEAN]
  /\ \A c \in Clients : c \in o \/ t[c] => f[c] \in {"connected", "expired"}

\* What Greet, Answer and Expire do keeps it, ...
LEMMA EndMoves ==
  ASSUME NEW n, NEW f, NEW o, NEW s, NEW t, Promise(n, f, o, s, t),
         NEW c \in Clients, NEW oo, NEW end \in {"idle", "connected", "expired"},
         \/ end = "idle" /\ f[c] = "none" /\ oo = o
         \/ end = "connected" /\ oo = o \cup {c}
         \/ end = "expired" /\ oo = o
  PROVE  Promise(n, [f EXCEPT ![c] = end], oo, s, t)
BY DEF Promise

\* ... and what TakeOffer, Leave and LoseOffer do.
LEMMA OfferMoves ==
  ASSUME NEW n, NEW f, NEW o, NEW s, NEW t, Promise(n, f, o, s, t),
         NEW c \in Clients, NEW up1 \in BOOLEAN, NEW oo, NEW ss, NEW tt,
         oo \in {o, o \ {c}}, ss \in {s, s \ {c}},
         \/ tt = t
         \/ tt = [t EXCEPT ![c] = FALSE]
         \/ tt = [t EXCEPT ![c] = TRUE] /\ c \in o
  PROVE  Promise(n, f, oo, ss, tt) /\ Promise([n EXCEPT ![c] = up1], f, oo, ss, tt)
BY DEF Promise

\* The abstract link keeps its promise.
LEMMA PromiseKept == L!Spec => [](L!TypeOK /\ L!OfferStands)
<1> DEFINE Kept == Promise(connected, far, B!UnderWay("ConnectOK"),
                           B!UnderWay("StaleConnectOK"), okFrom)
<1>1. Kept <=> L!TypeOK /\ L!OfferStands
  BY DEF Promise, far, L!TypeOK, L!OfferStands, L!FarStates
<1>2. L!Init => Kept
  BY DEF L!Init, Promise, far
<1>3. Kept /\ [L!Next]_(L!vars) => Kept'
  <2> SUFFICES ASSUME Kept, [L!Next]_(L!vars) PROVE Kept'
    OBVIOUS
  <2>1. PICK n, f, o, s, t : /\ n = connected /\ f = far /\ o = B!UnderWay("ConnectOK")
                             /\ s = B!UnderWay("StaleConnectOK") /\ t = okFrom
    OBVIOUS
  <2>2. PICK nn, ff, oo, ss, tt :
          /\ nn = connected' /\ ff = far' /\ oo = B!UnderWay("ConnectOK")'
          /\ ss = B!UnderWay("StaleConnectOK")' /\ tt = okFrom'
    OBVIOUS
  <2>3. Promise(n, f, o, s, t)
    BY <2>1
  <2> SUFFICES Promise(nn, ff, oo, ss, tt)
    BY <2>2
  <2> HIDE DEF Kept
  <2>4. ASSUME NEW c \in Clients, L!Greet(c) \/ L!Answer(c) \/ L!Expire(c)
        PROVE  Promise(nn, ff, oo, ss, tt)
    <3>1. nn = n /\ ss = s /\ tt = t
      BY <2>1, <2>2, <2>4 DEF L!Greet, L!Answer, L!Expire
    <3>2. PICK end \in {"idle", "connected", "expired"} :
            /\ ff = [f EXCEPT ![c] = end]
            /\ \/ end = "idle" /\ f[c] = "none" /\ oo = o
               \/ end = "connected" /\ oo = o \cup {c}
               \/ end = "expired" /\ oo = o
      BY <2>1, <2>2, <2>4 DEF L!Greet, L!Answer, L!Expire, far
    <3>3. Promise(n, [f EXCEPT ![c] = end], oo, s, t)
      BY <2>3, <3>2, EndMoves
    <3> QED
      BY <3>1, <3>2, <3>3
  <2>5. ASSUME NEW c \in Clients, L!TakeOffer(c) \/ L!Leave(c) \/ L!LoseOffer(c)
        PROVE  Promise(nn, ff, oo, ss, tt)
    <3>1. ff = f
      BY <2>1, <2>2, <2>5 DEF L!TakeOffer, L!Leave, L!LoseOffer, far
    <3>2. PICK up1 \in BOOLEAN : nn = n \/ nn = [n EXCEPT ![c] = up1]
      BY <2>1, <2>2, <2>5 DEF L!TakeOffer, L!Leave, L!LoseOffer
    <3>3. /\ oo \in {o, o \ {c}} /\ ss \in {s, s \ {c}}
          /\ \/ tt = t
             \/ tt = [t EXCEPT ![c] = FALSE]
             \/ tt = [t EXCEPT ![c] = TRUE] /\ c \in o
      BY <2>1, <2>2, <2>5 DEF L!TakeOffer, L!Leave, L!LoseOffer
    <3>4. Promise(n, f, oo, ss, tt) /\ Promise([n EXCEPT ![c] = up1], f, oo, ss, tt)
      BY <2>3, <3>3, OfferMoves
    <3> QED
      BY <3>1, <3>2, <3>4
  <2>6. CASE L!FarDies
    <3>1. /\ nn = n /\ ff = [c \in Clients |-> "none"] /\ oo = {} /\ ss = s \cup o
          /\ tt = [c \in Clients |-> FALSE]
      BY <2>1, <2>2, <2>6 DEF L!FarDies, far
    <3> QED
      BY <2>3, <3>1 DEF Promise
  <2>7. CASE UNCHANGED L!vars
    <3>1. nn = n /\ ff = f /\ oo = o /\ ss = s /\ tt = t
      BY <2>1, <2>2, <2>7 DEF L!vars, far
    <3> QED
      BY <2>3, <3>1
  <2> QED
    BY <2>4, <2>5, <2>6, <2>7 DEF L!Next
<1> HIDE DEF Kept
<1> QED
  BY <1>1, <1>2, <1>3, PTL DEF L!Spec

\* Hence an EConnectOK of the running server process stands for an accepted
\* end with a session that was connected.
THEOREM SecuredOffersStand == Spec => []L!OfferStands
<1>1. L!Spec => [](L!TypeOK /\ L!OfferStands)
  BY PromiseKept
<1> QED
  BY <1>1, DtlsImplementsTunnelLink, PTL DEF ImplementsTunnelLink
=============================================================================
