------------------------------ MODULE VpnLink ------------------------------
(***************************************************************************)
(* The UDP link between a client tunnel and the server tunnel:             *)
(* VPNLinkBase (handshake, keep-alive, the 5 second timer), VPNUDPLink and *)
(* the receive chain of udpsocket.                                         *)
(*                                                                         *)
(* A client process owns one link object in mode eClient.  The server      *)
(* process owns one object in mode eServer whose _VpnLinkMap holds one     *)
(* link object in mode eAccepted per client that was ever heard.  Each     *)
(* process runs one thread, so a handler is one atomic step; what          *)
(* interleaves is handlers of the two processes, their timers, the         *)
(* network and crashes.  A datagram may be lost or overtaken; sending a    *)
(* kind that is already in flight merges with it (one of the two is lost). *)
(***************************************************************************)
EXTENDS Naturals

CONSTANTS
  Clients,                \* client endpoints (address:port) the server can see
  ActivityTimerAccepted,  \* ACTIVITY_TIMER_ACCEPTED_DEFAULT, in timer ticks
  ActivityTimerClient     \* ACTIVITY_TIMER_CLIENT_DEFAULT, in timer ticks

ASSUME TimersAssumption ==
  /\ ActivityTimerAccepted \in Nat \ {0}
  /\ ActivityTimerClient \in Nat \ {0}

VARIABLES
  clientUp,      \* the client process c runs
  connected,     \* _bConnected of client c's link
  activity,      \* _activityTimer of client c's link
  receiving,     \* client c's socket has an async_receive outstanding
  serverUp,      \* the server process runs
  links,         \* keys of _VpnLinkMap
  accConnected,  \* _bConnected of the accepted link of c
  accActivity,   \* _activityTimer of the accepted link of c
  accTimer,      \* the accepted link of c has its deadline timer armed
  accReceiving,  \* the accepted socket of c has an async_receive outstanding
  toServer,      \* kinds of datagrams in flight from c to the server
  toClient,      \* kinds of datagrams in flight from the server to c
  \* History: written by the actions, read by the properties only.
  quiet,         \* ticks of client c's timer since it last received
  zeroed,        \* SetupDataConn cleared client c's timer since then
  accQuiet,      \* the same two for the accepted link of c
  accZeroed,
  okFrom         \* c's last EConnectOK came from the running server process

clientVars  == <<clientUp, connected, activity, receiving>>
acceptVars  == <<links, accConnected, accActivity, accTimer, accReceiving>>
clientHist  == <<quiet, zeroed, okFrom>>
acceptHist  == <<accQuiet, accZeroed>>
vars == <<clientVars, serverUp, acceptVars, toServer, toClient,
          clientHist, acceptHist>>

(***************************************************************************)
(* Message kinds.  ESetupData, ESignalling and EData do the same thing to  *)
(* the link: they refresh its timer and go up to the sipserver; they are   *)
(* one kind, "Payload".  "StaleConnectOK" is an EConnectOK whose sender    *)
(* has died since: the client cannot tell it apart, the properties can.    *)
(***************************************************************************)
ToServerKinds == {"Connect", "Ping", "Payload"}
ToClientKinds == {"ConnectOK", "StaleConnectOK", "Ping", "Payload"}

Send(net, c, kind) == net' = [net EXCEPT ![c] = @ \cup {kind}]
Exchange(net, c, in, out) == net' = [net EXCEPT ![c] = (@ \ in) \cup out]

\* Mutants of Decrement: the test of _activityTimer is missing; the test is
\* off by one; a tick counts twice.
DecrementUnguarded(n) == n - 1
DecrementAboveOne(n) == IF n > 1 THEN n - 1 ELSE n
DecrementTwice(n) == IF n > 1 THEN n - 2 ELSE 0

Decrement(n) == IF n > 0 THEN n - 1 ELSE 0
Saturate(n, limit) == IF n < limit THEN n + 1 ELSE limit

TypeOK ==
  /\ clientUp \in [Clients -> BOOLEAN]
  /\ connected \in [Clients -> BOOLEAN]
  /\ activity \in [Clients -> 0 .. ActivityTimerClient]
  /\ receiving \in [Clients -> BOOLEAN]
  /\ serverUp \in BOOLEAN
  /\ links \subseteq Clients
  /\ accConnected \in [Clients -> BOOLEAN]
  /\ accActivity \in [Clients -> 0 .. ActivityTimerAccepted]
  /\ accTimer \in [Clients -> BOOLEAN]
  /\ accReceiving \in [Clients -> BOOLEAN]
  /\ toServer \in [Clients -> SUBSET ToServerKinds]
  /\ toClient \in [Clients -> SUBSET ToClientKinds]
  /\ quiet \in [Clients -> 0 .. ActivityTimerClient]
  /\ zeroed \in [Clients -> BOOLEAN]
  /\ accQuiet \in [Clients -> 0 .. ActivityTimerAccepted]
  /\ accZeroed \in [Clients -> BOOLEAN]
  /\ okFrom \in [Clients -> BOOLEAN]

All(value) == [c \in Clients |-> value]

Init ==
  /\ clientUp = All(FALSE)
  /\ connected = All(FALSE)
  /\ activity = All(0)
  /\ receiving = All(FALSE)
  /\ serverUp = TRUE
  /\ links = {}
  /\ accConnected = All(FALSE)
  /\ accActivity = All(0)
  /\ accTimer = All(FALSE)
  /\ accReceiving = All(FALSE)
  /\ toServer = All({})
  /\ toClient = All({})
  /\ quiet = All(0)
  /\ zeroed = All(FALSE)
  /\ accQuiet = All(0)
  /\ accZeroed = All(FALSE)
  /\ okFrom = All(FALSE)

-----------------------------------------------------------------------------
(* The client process. *)

\* A mutant of Connect: the client keeps pinging until it is connected.
ConnectByPing(c) ==
  /\ Send(toServer, c, "Ping")
  /\ activity' = [activity EXCEPT ![c] = ActivityTimerClient]

\* Connect(): send EConnect and start the client's activity timer.
Connect(c) ==
  /\ Send(toServer, c, "Connect")
  /\ activity' = [activity EXCEPT ![c] = ActivityTimerClient]

\* The eClient constructor: connect the socket, then onLinkReady, which
\* calls Connect().  An endpoint may come back after its exit.
ClientStart(c) ==
  /\ ~clientUp[c]
  /\ clientUp' = [clientUp EXCEPT ![c] = TRUE]
  /\ connected' = [connected EXCEPT ![c] = FALSE]
  /\ receiving' = [receiving EXCEPT ![c] = TRUE]
  /\ Connect(c)
  /\ quiet' = [quiet EXCEPT ![c] = 0]
  /\ zeroed' = [zeroed EXCEPT ![c] = FALSE]
  /\ okFrom' = [okFrom EXCEPT ![c] = FALSE]
  /\ UNCHANGED <<serverUp, acceptVars, toClient, acceptHist>>

\* The client process ends (no EDisconnect is sent: Disconnect has no caller).
ClientExit(c) ==
  /\ clientUp[c]
  /\ clientUp' = [clientUp EXCEPT ![c] = FALSE]
  /\ connected' = [connected EXCEPT ![c] = FALSE]
  /\ activity' = [activity EXCEPT ![c] = 0]
  /\ receiving' = [receiving EXCEPT ![c] = FALSE]
  /\ quiet' = [quiet EXCEPT ![c] = 0]
  /\ zeroed' = [zeroed EXCEPT ![c] = FALSE]
  /\ okFrom' = [okFrom EXCEPT ![c] = FALSE]
  /\ UNCHANGED <<serverUp, acceptVars, toServer, toClient, acceptHist>>

\* timer_tick in mode eClient: the connected client pings while its timer
\* runs and drops the link when it has run out; otherwise it connects again.
ClientTick(c) ==
  LET left == Decrement(activity[c]) IN
  /\ clientUp[c]
  /\ \/ /\ connected[c] /\ left # 0
        /\ Send(toServer, c, "Ping")
        /\ activity' = [activity EXCEPT ![c] = left]
        /\ UNCHANGED <<connected, zeroed>>
     \/ /\ connected[c] /\ left = 0
        /\ connected' = [connected EXCEPT ![c] = FALSE]
        /\ activity' = [activity EXCEPT ![c] = 0]
        /\ UNCHANGED <<toServer, zeroed>>
     \/ /\ ~connected[c]
        /\ Connect(c)
        /\ zeroed' = [zeroed EXCEPT ![c] = FALSE]
        /\ UNCHANGED connected
  /\ quiet' = [quiet EXCEPT ![c] = Saturate(@, ActivityTimerClient)]
  /\ UNCHANGED <<clientUp, receiving, serverUp, acceptVars, toClient, okFrom,
                 acceptHist>>

\* onReceive in mode eClient, then handle_receive starts the next receive.
ClientReceive(c, kind) ==
  /\ clientUp[c] /\ receiving[c]
  /\ kind \in toClient[c]
  /\ toClient' = [toClient EXCEPT ![c] = @ \ {kind}]
  /\ activity' = [activity EXCEPT ![c] = ActivityTimerClient]
  /\ connected' = [connected EXCEPT ![c] =
                     @ \/ kind \in {"ConnectOK", "StaleConnectOK"}]
  /\ quiet' = [quiet EXCEPT ![c] = 0]
  /\ zeroed' = [zeroed EXCEPT ![c] = FALSE]
  /\ okFrom' = [okFrom EXCEPT ![c] =
                  kind = "ConnectOK" \/ (@ /\ kind # "StaleConnectOK")]
  /\ UNCHANGED <<clientUp, receiving, serverUp, acceptVars, toServer,
                 acceptHist>>

\* The sipserver of the client hands over a SIP message (sendSignalling) or
\* media (sendData): both are dropped unless the link is connected.
ClientSend(c) ==
  /\ clientUp[c] /\ connected[c]
  /\ Send(toServer, c, "Payload")
  /\ UNCHANGED <<clientVars, serverUp, acceptVars, toClient, clientHist,
                 acceptHist>>

\* SetupDataConn: sent whether or not the link is connected, and the timer
\* is cleared afterwards.
ClientSetupDataConn(c) ==
  /\ clientUp[c]
  /\ Send(toServer, c, "Payload")
  /\ activity' = [activity EXCEPT ![c] = 0]
  /\ zeroed' = [zeroed EXCEPT ![c] = TRUE]
  /\ UNCHANGED <<clientUp, connected, receiving, serverUp, acceptVars,
                 toClient, quiet, okFrom, acceptHist>>

-----------------------------------------------------------------------------
(* The server process. *)

\* A mutant of Reply: a ping is answered like an EConnect.
ReplyConnectOK(kind) == IF kind = "Payload" THEN {} ELSE {"ConnectOK"}

\* The replies of onReceive in mode eAccepted.
Reply(kind) ==
  IF kind = "Connect" THEN {"ConnectOK"}
  ELSE IF kind = "Ping" THEN {"Ping"} ELSE {}

\* A datagram of a client that has no accepted socket reaches the listening
\* socket: handle_listen accepts a connected socket, VPNUDPLink::onAccept
\* builds the eAccepted link (onLinkReady arms its timer), stores it, and
\* hands it this first datagram.
Accept(c, kind) ==
  /\ serverUp /\ c \notin links
  /\ kind \in toServer[c]
  /\ links' = links \cup {c}
  /\ accConnected' = [accConnected EXCEPT ![c] = kind = "Connect"]
  /\ accActivity' = [accActivity EXCEPT ![c] = ActivityTimerAccepted]
  /\ accTimer' = [accTimer EXCEPT ![c] = TRUE]
  /\ accReceiving' = [accReceiving EXCEPT ![c] = TRUE]
  /\ Exchange(toServer, c, {kind}, {})
  /\ Exchange(toClient, c, {}, Reply(kind))
  /\ accQuiet' = [accQuiet EXCEPT ![c] = 0]
  /\ accZeroed' = [accZeroed EXCEPT ![c] = FALSE]
  /\ UNCHANGED <<clientVars, serverUp, clientHist>>

\* onReceive in mode eAccepted.  Nothing here looks at the timer: a link
\* whose timer was stopped can be connected again.
AcceptedReceive(c, kind) ==
  /\ serverUp /\ c \in links /\ accReceiving[c]
  /\ kind \in toServer[c]
  /\ accActivity' = [accActivity EXCEPT ![c] = ActivityTimerAccepted]
  /\ accConnected' = [accConnected EXCEPT ![c] = @ \/ kind = "Connect"]
  /\ Exchange(toServer, c, {kind}, {})
  /\ Exchange(toClient, c, {}, Reply(kind))
  /\ accQuiet' = [accQuiet EXCEPT ![c] = 0]
  /\ accZeroed' = [accZeroed EXCEPT ![c] = FALSE]
  /\ UNCHANGED <<clientVars, serverUp, links, accTimer, accReceiving,
                 clientHist>>

\* The accepted link's silence is over its limit: disconnected, timer off.
Expire(c) ==
  /\ accConnected' = [accConnected EXCEPT ![c] = FALSE]
  /\ accTimer' = [accTimer EXCEPT ![c] = FALSE]

\* timer_tick in mode eAccepted: when the timer has run out the link is
\* marked disconnected and the handler returns without arming it again.
AcceptedTick(c) ==
  LET left == Decrement(accActivity[c]) IN
  /\ serverUp /\ c \in links /\ accTimer[c]
  /\ accActivity' = [accActivity EXCEPT ![c] = left]
  /\ \/ left # 0 /\ UNCHANGED <<accConnected, accTimer>>
     \/ left = 0 /\ Expire(c)
  /\ accQuiet' = [accQuiet EXCEPT ![c] = Saturate(@, ActivityTimerAccepted)]
  /\ UNCHANGED <<clientVars, serverUp, links, accReceiving, toServer,
                 toClient, clientHist, accZeroed>>

\* Media for c: sendData on the accepted link, gated by its _bConnected.
AcceptedSendData(c) ==
  /\ serverUp /\ c \in links /\ accConnected[c]
  /\ Send(toClient, c, "Payload")
  /\ UNCHANGED <<clientVars, serverUp, acceptVars, toServer, clientHist,
                 acceptHist>>

\* A SIP response for c: sendSignalling on the eServer object finds the link
\* by id and sends on it whatever its _bConnected says.
ServerSendSignalling(c) ==
  /\ serverUp /\ c \in links
  /\ Send(toClient, c, "Payload")
  /\ UNCHANGED <<clientVars, serverUp, acceptVars, toServer, clientHist,
                 acceptHist>>

\* SetupDataConn on the accepted link (a call that came from c).
AcceptedSetupDataConn(c) ==
  /\ serverUp /\ c \in links
  /\ Send(toClient, c, "Payload")
  /\ accActivity' = [accActivity EXCEPT ![c] = 0]
  /\ accZeroed' = [accZeroed EXCEPT ![c] = TRUE]
  /\ UNCHANGED <<clientVars, serverUp, links, accConnected, accTimer,
                 accReceiving, toServer, clientHist, accQuiet>>

\* The server process dies: its link map and its sockets go with it.
ServerCrash ==
  /\ serverUp
  /\ serverUp' = FALSE
  /\ links' = {}
  /\ accConnected' = All(FALSE)
  /\ accActivity' = All(0)
  /\ accTimer' = All(FALSE)
  /\ accReceiving' = All(FALSE)
  /\ toClient' = [c \in Clients |->
                    IF "ConnectOK" \in toClient[c]
                    THEN (toClient[c] \ {"ConnectOK"}) \cup {"StaleConnectOK"}
                    ELSE toClient[c]]
  /\ accQuiet' = All(0)
  /\ accZeroed' = All(FALSE)
  /\ okFrom' = All(FALSE)
  /\ UNCHANGED <<clientVars, toServer, quiet, zeroed>>

\* The server process starts again and listens; its map is empty.
ServerRestart ==
  /\ ~serverUp
  /\ serverUp' = TRUE
  /\ UNCHANGED <<clientVars, acceptVars, toServer, toClient, clientHist,
                 acceptHist>>

-----------------------------------------------------------------------------
(* The network. *)

\* A datagram is lost.
LoseToServer(c, kind) ==
  /\ kind \in toServer[c]
  /\ Exchange(toServer, c, {kind}, {})
  /\ UNCHANGED <<clientVars, serverUp, acceptVars, toClient, clientHist,
                 acceptHist>>

LoseToClient(c, kind) ==
  /\ kind \in toClient[c]
  /\ Exchange(toClient, c, {kind}, {})
  /\ UNCHANGED <<clientVars, serverUp, acceptVars, toServer, clientHist,
                 acceptHist>>

\* A datagram reaches a host whose process is down and an ICMP port
\* unreachable comes back.  When it fails the outstanding async_receive,
\* handle_receive calls onError, which does nothing, and starts no other.
\* (When it fails a send instead, or is filtered, the datagram is just lost.)
RefusedByServer(c, kind) ==
  /\ ~serverUp
  /\ clientUp[c]
  /\ kind \in toServer[c]
  /\ Exchange(toServer, c, {kind}, {})
  /\ receiving' = [receiving EXCEPT ![c] = FALSE]
  /\ UNCHANGED <<clientUp, connected, activity, serverUp, acceptVars,
                 toClient, clientHist, acceptHist>>

RefusedByClient(c, kind) ==
  /\ ~clientUp[c]
  /\ serverUp /\ c \in links
  /\ kind \in toClient[c]
  /\ Exchange(toClient, c, {kind}, {})
  /\ accReceiving' = [accReceiving EXCEPT ![c] = FALSE]
  /\ UNCHANGED <<clientVars, serverUp, links, accConnected, accActivity,
                 accTimer, toServer, clientHist, acceptHist>>

-----------------------------------------------------------------------------
ClientStep(c) ==
  \/ ClientStart(c)
  \/ ClientExit(c)
  \/ ClientTick(c)
  \/ \E kind \in ToClientKinds : ClientReceive(c, kind)
  \/ ClientSend(c)
  \/ ClientSetupDataConn(c)

ServerStep(c) ==
  \/ \E kind \in ToServerKinds : Accept(c, kind) \/ AcceptedReceive(c, kind)
  \/ AcceptedTick(c)
  \/ AcceptedSendData(c)
  \/ ServerSendSignalling(c)
  \/ AcceptedSetupDataConn(c)

NetworkStep(c) ==
  \/ \E kind \in ToServerKinds : LoseToServer(c, kind) \/ RefusedByServer(c, kind)
  \/ \E kind \in ToClientKinds : LoseToClient(c, kind) \/ RefusedByClient(c, kind)

Next ==
  \/ \E c \in Clients : ClientStep(c) \/ ServerStep(c) \/ NetworkStep(c)
  \/ ServerCrash
  \/ ServerRestart

Spec == Init /\ [][Next]_vars

-----------------------------------------------------------------------------
(* What the link looks like to those who use it: see TunnelLink. *)

FarEnd(c) ==
  IF c \notin links THEN "none"
  ELSE IF accConnected[c] THEN "connected"
  ELSE IF accTimer[c] THEN "idle" ELSE "expired"

UnderWay(kind) == {c \in Clients : kind \in toClient[c]}

L == INSTANCE TunnelLink WITH
       near <- connected,
       far <- [c \in Clients |-> FarEnd(c)],
       offer <- UnderWay("ConnectOK"),
       stale <- UnderWay("StaleConnectOK"),
       trust <- okFrom

\* Every handler of the two link objects, every loss and every crash is a step
\* of the abstract link or invisible to it: no message other than an EConnect
\* connects a server end, nothing but an EConnectOK a client end (onReceive).
ImplementsTunnelLink == L!Spec

-----------------------------------------------------------------------------
(* Safety. *)

\* The EConnectOK a client trusts still stands: a server process that sent
\* an EConnectOK and still runs has the client's link in its map, and that
\* link is connected unless its own timer has stopped.  So the two ends can
\* disagree only after a server crash or after the accepted link expired
\* (VPNLinkBase::onReceive, EConnect and EConnectOK; timer_tick).
HandshakeAgreement ==
  \A c \in Clients :
    okFrom[c] \/ "ConnectOK" \in toClient[c] =>
      /\ serverUp /\ c \in links
      /\ accTimer[c] => accConnected[c]

\* No end stays connected to a peer it no longer hears: a connected client
\* has heard something in its last ActivityTimerClient ticks, and an accepted
\* link whose timer runs in its last ActivityTimerAccepted ticks (timer_tick).
SilenceIsBounded ==
  \A c \in Clients :
    /\ connected[c] => quiet[c] < ActivityTimerClient
    /\ accConnected[c] /\ accTimer[c] => accQuiet[c] < ActivityTimerAccepted

\* The link is not dropped early: a running client leaves the connected state
\* only at the end of ActivityTimerClient ticks in which it heard nothing, or
\* after SetupDataConn cleared its timer; the same for the accepted link of a
\* running server (timer_tick, SetupDataConn).
DropIsJustified ==
  \A c \in Clients :
    /\ connected[c] /\ ~connected'[c] /\ clientUp'[c] =>
         zeroed[c] \/ quiet'[c] = ActivityTimerClient
    /\ accConnected[c] /\ ~accConnected'[c] /\ serverUp' =>
         accZeroed[c] \/ accQuiet'[c] = ActivityTimerAccepted

DropsOnlyWhenSilent == [][DropIsJustified]_vars

-----------------------------------------------------------------------------
(***************************************************************************)
(* Liveness.  The io_service thread runs every expired timer, so ticks are *)
(* weakly fair.  The network is fair-lossy for the handshake: an EConnect  *)
(* (EConnectOK) sent again and again is delivered again and again.         *)
(***************************************************************************)
Fairness ==
  \A c \in Clients :
    /\ WF_vars(ClientTick(c))
    /\ WF_vars(AcceptedTick(c))
    /\ SF_vars(Accept(c, "Connect") \/ AcceptedReceive(c, "Connect"))
    /\ SF_vars(ClientReceive(c, "ConnectOK"))

FairSpec == Spec /\ Fairness

\* A client that keeps running and hearing, against a server that keeps
\* running and hearing it, is connected again and again: after a lost
\* EConnect, a lost EConnectOK, a lost ping or a server restart the tick
\* connects anew (timer_tick, eClient).
AudibleClientConnects ==
  \A c \in Clients :
    <>[](clientUp[c] /\ receiving[c] /\ serverUp
           /\ (c \in links => accReceiving[c]))
      => []<>connected[c]

\* The accepted link of a client that is gone for good ends up disconnected
\* or with its timer stopped: the only link that outlives its client is one
\* that was revived after it had expired (timer_tick, eAccepted).
DeadClientExpires ==
  \A c \in Clients :
    <>[](serverUp /\ ~clientUp[c]) => <>[]~(accConnected[c] /\ accTimer[c])
=============================================================================
