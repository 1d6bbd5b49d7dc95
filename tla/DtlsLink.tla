------------------------------ MODULE DtlsLink ------------------------------
(***************************************************************************)
(* The DTLS link between a client tunnel and the server tunnel:            *)
(* VPNDTLSLink over udpsocket under VPNLinkBase.  The messages and timers  *)
(* of the link are those of VpnLink, whose actions are used here once the  *)
(* handshake is over; before that a message is not sent and a datagram     *)
(* goes to the handshake.                                                  *)
(*                                                                         *)
(* A handshake is four flights.  Each is sent once: nothing in the code    *)
(* starts a retransmission, and a peer that waits sends nothing that would *)
(* make OpenSSL notice that its own flight is late.  A client endpoint     *)
(* lives once, a client that starts again has another port.  Records are   *)
(* read whole; one of more than SSL_BUFFER_SIZE bytes is not modelled.     *)
(***************************************************************************)
EXTENDS Naturals

CONSTANTS
  Clients,                \* client endpoints (address:port) the server can see
  ActivityTimerAccepted,  \* as in VpnLink
  ActivityTimerClient

ASSUME TimersAssumption ==
  /\ ActivityTimerAccepted \in Nat \ {0}
  /\ ActivityTimerClient \in Nat \ {0}

VARIABLES
  clientUp, connected, activity, receiving, serverUp, links, accConnected,
  accActivity, accTimer, accReceiving, toServer, toClient, quiet, zeroed,
  accQuiet, accZeroed, okFrom,  \* as in VpnLink; a datagram in toServer or
                                \* toClient is now a record of the session
  ssl,      \* how far the client's end of the handshake has got
  accSsl,   \* how far the accepted end has got
  up, down, \* flights under way to the server and to the client
  drives,   \* client c's onReceive drives the handshake
  fits,     \* the certificate flights fit into the receive buffer
  loyal     \* history: no server process died since c started

B == INSTANCE VpnLink

clientVars == <<clientUp, connected, activity, receiving>>
acceptVars == <<links, accConnected, accActivity, accTimer, accReceiving>>
clientHist == <<quiet, zeroed, okFrom>>
acceptHist == <<accQuiet, accZeroed>>
handVars == <<ssl, accSsl, up, down, drives, fits, loyal>>
vars == <<clientVars, serverUp, acceptVars, toServer, toClient, clientHist,
          acceptHist, handVars>>

\* "wait" is an accepted end that was created by another datagram than a
\* ClientHello: no handshake message it can expect will ever come.
ClientStages == {"none", "hello", "finished", "done", "gone"}
AcceptedStages == {"none", "wait", "hello", "done"}
UpFlights == {"ClientHello", "ClientFinished"}
DownFlights == {"ServerHello", "ServerFinished"}

TypeOK ==
  /\ B!TypeOK
  /\ ssl \in [Clients -> ClientStages]
  /\ accSsl \in [Clients -> AcceptedStages]
  /\ up \in [Clients -> SUBSET UpFlights]
  /\ down \in [Clients -> SUBSET DownFlights]
  /\ drives \in [Clients -> BOOLEAN]
  /\ fits \in BOOLEAN
  /\ loyal \in [Clients -> BOOLEAN]

Init ==
  /\ B!Init
  /\ ssl = [c \in Clients |-> "none"]
  /\ accSsl = [c \in Clients |-> "none"]
  /\ up = [c \in Clients |-> {}]
  /\ down = [c \in Clients |-> {}]
  /\ drives = [c \in Clients |-> FALSE]
  /\ fits \in BOOLEAN
  /\ loyal = [c \in Clients |-> FALSE]

Becomes(f, c, stage) == f' = [f EXCEPT ![c] = stage]

-----------------------------------------------------------------------------
(* The client process. *)

\* The client constructor: connect the socket, start the handshake.  It never
\* sets _mode, which onReceive asks before it continues the handshake: what
\* the memory held before decides.  The link timer is not running yet.
ClientStart(c) ==
  /\ ssl[c] = "none"
  /\ clientUp' = [clientUp EXCEPT ![c] = TRUE]
  /\ receiving' = [receiving EXCEPT ![c] = TRUE]
  /\ Becomes(ssl, c, "hello")
  /\ B!Send(up, c, "ClientHello")
  /\ \E driven \in BOOLEAN : drives' = [drives EXCEPT ![c] = driven]
  /\ Becomes(loyal, c, TRUE)
  /\ UNCHANGED <<connected, activity, serverUp, acceptVars, toServer,
                 toClient, clientHist, acceptHist, accSsl, down, fits>>

ClientExit(c) ==
  /\ B!ClientExit(c)
  /\ Becomes(ssl, c, "gone")
  /\ UNCHANGED <<accSsl, up, down, drives, fits, loyal>>

\* A mutant of LinkReady: the client gets the timer of an accepted link.
LinkReadyAccepted(c) ==
  /\ B!Send(toServer, c, "Connect")
  /\ activity' = [activity EXCEPT ![c] = ActivityTimerAccepted]

\* onLinkReady in mode eClient.
LinkReady(c) == B!Connect(c)

\* onReceive while _handshaking: a flight of the server continues the
\* handshake when it is driven and was received whole.
ClientFlight(c, flight) ==
  /\ clientUp[c] /\ receiving[c]
  /\ flight \in down[c]
  /\ B!Exchange(down, c, {flight}, {})
  /\ \/ /\ flight = "ServerHello" /\ drives[c] /\ fits
        /\ Becomes(ssl, c, "finished")
        /\ B!Send(up, c, "ClientFinished")
        /\ UNCHANGED <<toServer, activity>>
     \/ /\ flight = "ServerFinished"
        /\ Becomes(ssl, c, "done")
        /\ LinkReady(c)
        /\ UNCHANGED up
     \/ /\ flight = "ServerHello" /\ ~(drives[c] /\ fits)
        /\ UNCHANGED <<ssl, up, toServer, activity>>
  /\ UNCHANGED <<clientUp, connected, receiving, serverUp, acceptVars,
                 toClient, clientHist, acceptHist, accSsl, drives, fits,
                 loyal>>

\* Once its handshake is over the client does what VpnLink says.  (Before,
\* its timer does not run, its send drops every message, and SetupDataConn
\* clears a timer that is still 0.)
ClientSecured(c) ==
  /\ ssl[c] = "done"
  /\ \/ B!ClientTick(c)
     \/ \E kind \in B!ToClientKinds : B!ClientReceive(c, kind)
     \/ B!ClientSend(c)
     \/ B!ClientSetupDataConn(c)
  /\ UNCHANGED handVars

-----------------------------------------------------------------------------
(* The server process. *)

\* A mutant of NewLink: the link is declared ready when it is created, as
\* VPNUDPLink does.
NewLinkReady(c, stage) ==
  /\ serverUp /\ c \notin links
  /\ links' = links \cup {c}
  /\ accReceiving' = [accReceiving EXCEPT ![c] = TRUE]
  /\ accActivity' = [accActivity EXCEPT ![c] = ActivityTimerAccepted]
  /\ accTimer' = [accTimer EXCEPT ![c] = TRUE]
  /\ Becomes(accSsl, c, stage)
  /\ UNCHANGED <<clientVars, serverUp, accConnected, toClient, clientHist,
                 acceptHist, ssl, drives, fits, loyal>>

\* A datagram of a client without an accepted socket: the accepted link is
\* created in mid-handshake, its timer not running, and put into the map.
NewLink(c, stage) ==
  /\ serverUp /\ c \notin links
  /\ links' = links \cup {c}
  /\ accReceiving' = [accReceiving EXCEPT ![c] = TRUE]
  /\ Becomes(accSsl, c, stage)
  /\ UNCHANGED <<clientVars, serverUp, accConnected, accActivity, accTimer,
                 toClient, clientHist, acceptHist, ssl, drives, fits, loyal>>

\* A ClientHello is answered at once.
AcceptFlight(c, flight) ==
  /\ flight \in up[c]
  /\ B!Exchange(up, c, {flight}, {})
  /\ \/ /\ flight = "ClientHello"
        /\ NewLink(c, "hello")
        /\ B!Send(down, c, "ServerHello")
     \/ /\ flight # "ClientHello"
        /\ NewLink(c, "wait")
        /\ UNCHANGED down
  /\ UNCHANGED toServer

\* A record of a session that died with the server process: the new process
\* cannot read it.
AcceptRecord(c, kind) ==
  /\ kind \in toServer[c]
  /\ B!Exchange(toServer, c, {kind}, {})
  /\ NewLink(c, "wait")
  /\ UNCHANGED <<up, down>>

\* SSL_accept returns success for the client's last flight.
Complete(c) == fits /\ accSsl[c] = "hello"

\* onReceive in mode eAccepted while _handshaking; onLinkReady starts the
\* link's timer at the end of the handshake.
AcceptedFlight(c, flight) ==
  /\ serverUp /\ c \in links /\ accReceiving[c]
  /\ flight \in up[c]
  /\ B!Exchange(up, c, {flight}, {})
  /\ \/ /\ flight = "ClientFinished" /\ Complete(c)
        /\ Becomes(accSsl, c, "done")
        /\ B!Send(down, c, "ServerFinished")
        /\ accActivity' = [accActivity EXCEPT ![c] = ActivityTimerAccepted]
        /\ accTimer' = [accTimer EXCEPT ![c] = TRUE]
     \/ /\ ~(flight = "ClientFinished" /\ Complete(c))
        /\ UNCHANGED <<accSsl, down, accActivity, accTimer>>
  /\ UNCHANGED <<clientVars, serverUp, links, accConnected, accReceiving,
                 toServer, toClient, clientHist, acceptHist, ssl, drives,
                 fits, loyal>>

\* A record reaches an accepted end that has no session with the client.
DropRecord(c, kind) ==
  /\ serverUp /\ c \in links /\ accReceiving[c] /\ accSsl[c] # "done"
  /\ kind \in toServer[c]
  /\ B!Exchange(toServer, c, {kind}, {})
  /\ UNCHANGED <<clientVars, serverUp, acceptVars, toClient,
                 clientHist, acceptHist, handVars>>

AcceptedSecured(c) ==
  /\ accSsl[c] = "done"
  /\ \/ \E kind \in B!ToServerKinds : B!AcceptedReceive(c, kind)
     \/ B!AcceptedTick(c)
     \/ B!AcceptedSendData(c)
     \/ B!ServerSendSignalling(c)
     \/ B!AcceptedSetupDataConn(c)
  /\ UNCHANGED handVars

ServerCrash ==
  /\ B!ServerCrash
  /\ accSsl' = [c \in Clients |-> "none"]
  /\ loyal' = [c \in Clients |-> FALSE]
  /\ UNCHANGED <<ssl, up, down, drives, fits>>

ServerRestart == B!ServerRestart /\ UNCHANGED handVars

-----------------------------------------------------------------------------
(* The network loses a flight, or the host of a process that is gone refuses *)
(* it; records are lost and refused as in VpnLink.                           *)

FlightLost(c) ==
  /\ \/ \E flight \in up[c] :
          /\ B!Exchange(up, c, {flight}, {})
          /\ \/ UNCHANGED receiving
             \/ /\ ~serverUp /\ clientUp[c]
                /\ receiving' = [receiving EXCEPT ![c] = FALSE]
          /\ UNCHANGED <<down, accReceiving>>
     \/ \E flight \in down[c] :
          /\ B!Exchange(down, c, {flight}, {})
          /\ \/ UNCHANGED accReceiving
             \/ /\ ~clientUp[c] /\ serverUp /\ c \in links
                /\ accReceiving' = [accReceiving EXCEPT ![c] = FALSE]
          /\ UNCHANGED <<up, receiving>>
  /\ UNCHANGED <<clientUp, connected, activity, serverUp, links, accConnected,
                 accActivity, accTimer, toServer, toClient, clientHist,
                 acceptHist, ssl, accSsl, drives, fits, loyal>>

RecordLost(c) == B!NetworkStep(c) /\ UNCHANGED handVars

-----------------------------------------------------------------------------
ClientStep(c) ==
  \/ ClientStart(c)
  \/ ClientExit(c)
  \/ \E flight \in DownFlights : ClientFlight(c, flight)
  \/ ClientSecured(c)

ServerStep(c) ==
  \/ \E flight \in UpFlights : AcceptFlight(c, flight) \/ AcceptedFlight(c, flight)
  \/ \E kind \in B!ToServerKinds : AcceptRecord(c, kind) \/ DropRecord(c, kind)
  \/ AcceptedSecured(c)

Next ==
  \/ \E c \in Clients :
       ClientStep(c) \/ ServerStep(c) \/ FlightLost(c) \/ RecordLost(c)
  \/ ServerCrash
  \/ ServerRestart

Spec == Init /\ [][Next]_vars

-----------------------------------------------------------------------------
(* Properties. *)

\* Both ends of a handshake agree on its end: a client that completed it has,
\* until a server process dies, an accepted end that completed it too, whatever
\* was lost; and neither end is connected, or counts down to be dropped,
\* without a session (onReceive, doSend, send).
SessionsAgree ==
  \A c \in Clients :
    /\ ssl[c] = "done" /\ loyal[c] => c \in links /\ accSsl[c] = "done"
    /\ connected[c] => ssl[c] = "done"
    /\ accConnected[c] \/ accTimer[c] => accSsl[c] = "done"

\* The link seen by its users: an end without a session is no end.
L == INSTANCE TunnelLink WITH
       near <- connected,
       far <- [c \in Clients |-> IF accSsl[c] = "done" THEN B!FarEnd(c) ELSE "none"],
       offer <- B!UnderWay("ConnectOK"),
       stale <- B!UnderWay("StaleConnectOK"),
       trust <- okFrom

\* The DTLS link is a link like the others: the handshake adds no way for an
\* end to become connected and none for it to be dropped.
ImplementsTunnelLink == L!Spec

\* The io_service thread runs every expired timer; a message that is sent
\* again and again gets through again and again.  A flight is sent once, so
\* nothing is assumed about flights.
Fairness ==
  \A c \in Clients :
    /\ WF_vars(ssl[c] = "done" /\ B!ClientTick(c) /\ UNCHANGED handVars)
    /\ WF_vars(B!AcceptedTick(c) /\ UNCHANGED handVars)
    /\ SF_vars(/\ accSsl[c] = "done"
               /\ B!AcceptedReceive(c, "Connect") /\ UNCHANGED handVars)
    /\ SF_vars(/\ ssl[c] = "done"
               /\ B!ClientReceive(c, "ConnectOK") /\ UNCHANGED handVars)

FairSpec == Spec /\ Fairness

\* A client that completed its handshake with the server process that still
\* runs, and stays audible, is connected again and again.  Without the session
\* nothing of the kind holds: a lost flight and a server restart are final.
SecuredClientConnects ==
  \A c \in Clients :
    <>[](/\ clientUp[c] /\ receiving[c] /\ ssl[c] = "done" /\ loyal[c]
         /\ accReceiving[c])
      => []<>connected[c]
=============================================================================
