----------------------------- MODULE StreamLink -----------------------------
(***************************************************************************)
(* The TCP and the TLS link: VPNTCPLink, VPNTLSLink, tcpsocket and the     *)
(* part of VPNLinkBase they run, for one client tunnel and the server.     *)
(*                                                                         *)
(* The client owns one link object for its whole life; tcpsocket connects  *)
(* it again after every failure.  The server builds one link object in     *)
(* mode eAccepted per connection and never removes one from _VpnLinkMap.   *)
(* Connections are numbered; a connection is a sequence of items per       *)
(* direction, and a receive takes some of them as one segment.  Each       *)
(* process runs one thread: a handler is one step.                         *)
(***************************************************************************)
EXTENDS Naturals, Sequences, FiniteSets

CONSTANTS
  ActivityTimerAccepted,  \* ACTIVITY_TIMER_ACCEPTED_DEFAULT, in timer ticks
  ActivityTimerClient,    \* ACTIVITY_TIMER_CLIENT_DEFAULT, in timer ticks
  ConnectStartsOver,      \* SSL_connect on a finished SSL object starts a new
                          \* handshake (OpenSSL 1.0) or does nothing (1.1)
  MaxConns,               \* bound: connections established
  MaxWire,                \* bound: items in flight per direction
  MaxBacklog,             \* bound: records an SSL object has not read
  MaxPayload              \* bound: SIP, media and SetupData messages sent

ASSUME StreamAssumption ==
  /\ ActivityTimerAccepted \in Nat \ {0}
  /\ ActivityTimerClient \in Nat \ {0}
  /\ ConnectStartsOver \in BOOLEAN
  /\ {MaxConns, MaxWire, MaxBacklog, MaxPayload} \subseteq Nat

VARIABLES
  type,      \* the type of the link, the same in both processes
  client,    \* the client's link object and its socket
  accepted,  \* connection -> the server's link object for it
  broken,    \* connections that are down, whether or not an end has noticed
  toServer,  \* connection -> items in flight
  toClient,
  payloads,  \* payload messages sent so far (to bound their number)
  \* History: written by the actions, read by the properties only.
  okOn,      \* connection of the client's last EConnectOK, 0 for none
  sent,      \* direction -> connection -> number of payloads put on it
  handed     \* direction -> connection -> payloads given to the sipserver

vars == <<type, client, accepted, broken, toServer, toClient, payloads,
          okOn, sent, handed>>
hist == <<okOn, sent, handed>>

Conns == 1 .. MaxConns
Directions == {"up", "down"}

\* An item is a tunnel message (over TLS: a record, with the connection whose
\* handshake made its keys), a TLS handshake flight, or what is left of a
\* message of which a TCP receive took the first bytes.
Item(kind, id, session) == [kind |-> kind, id |-> id, session |-> session]
Flight(kind) == Item(kind, 0, 0)
Junk == Item("Junk", 0, 0)
Kinds == {"Connect", "ConnectOK", "Ping", "Payload", "Junk",
          "ClientHello", "ServerHello", "ClientFinished", "ServerFinished"}
Items == [kind : Kinds, id : 0 .. MaxPayload, session : 0 .. MaxConns]

\* sock: waiting for timed_connect, async_connect outstanding, connection
\* established but handle_connect not yet run, or receiving.
\* destroyed: the link object was deleted as soon as it was made.
ClientType ==
  [sock : {"waiting", "connecting", "established", "open"}, conn : 0 .. MaxConns,
   connected : BOOLEAN, activity : 0 .. ActivityTimerClient, timer : BOOLEAN,
   ssl : {"before", "hello", "done"}, session : 0 .. MaxConns,
   handshaking : BOOLEAN, backlog : Seq(Items)]
AcceptedType ==
  [sock : {"none", "open", "closed", "gone"}, connected : BOOLEAN,
   activity : 0 .. ActivityTimerAccepted, timer : BOOLEAN,
   ssl : {"wait", "hello", "done", "failed"}, backlog : Seq(Items),
   destroyed : BOOLEAN]

TypeOK ==
  /\ type \in {"tcp", "tls"}
  /\ client \in ClientType
  /\ accepted \in [Conns -> AcceptedType]
  /\ broken \in [Conns -> BOOLEAN]
  /\ toServer \in [Conns -> Seq(Items)]
  /\ toClient \in [Conns -> Seq(Items)]
  /\ payloads \in 0 .. MaxPayload
  /\ okOn \in 0 .. MaxConns
  /\ sent \in [Directions -> [Conns -> 0 .. MaxPayload]]
  /\ handed \in [Directions -> [Conns -> Seq(0 .. MaxPayload)]]

\* The client's constructor has called connect(addr, port).
NewClient(n) ==
  [sock |-> "connecting", conn |-> n, connected |-> FALSE, activity |-> 0,
   timer |-> FALSE, ssl |-> "before", session |-> 0, handshaking |-> FALSE,
   backlog |-> <<>>]
NoAccepted(sock) ==
  [sock |-> sock, connected |-> FALSE, activity |-> 0, timer |-> FALSE,
   ssl |-> "wait", backlog |-> <<>>, destroyed |-> FALSE]

Init ==
  /\ type \in {"tcp", "tls"}
  /\ client = NewClient(0)
  /\ accepted = [n \in Conns |-> NoAccepted("none")]
  /\ broken = [n \in Conns |-> FALSE]
  /\ toServer = [n \in Conns |-> <<>>]
  /\ toClient = [n \in Conns |-> <<>>]
  /\ payloads = 0
  /\ okOn = 0
  /\ sent = [d \in Directions |-> [n \in Conns |-> 0]]
  /\ handed = [d \in Directions |-> [n \in Conns |-> <<>>]]

\* A mutant of Decrement: the test of _activityTimer is missing.
DecrementUnguarded(n) == n - 1

\* One tick of _activityTimer, which stops at zero.
Decrement(n) == IF n > 0 THEN n - 1 ELSE 0

-----------------------------------------------------------------------------
(* The byte streams. *)

Up(n) == n \in Conns /\ ~broken[n]
Room(wire, n) == n \in Conns => Len(wire[n]) < MaxWire

\* The connection that carries what the client sends now; 0 when it is lost.
\* While async_connect is outstanding async_send waits behind it.
Carrier ==
  IF client.sock \in {"established", "open"} /\ Up(client.conn) THEN client.conn
  ELSE IF client.sock = "connecting" /\ client.conn < MaxConns THEN client.conn + 1
  ELSE 0

Put(wire, n, items) == [wire EXCEPT ![n] = @ \o items]
Payloads(items) == Cardinality({i \in DOMAIN items : items[i].kind = "Payload"})

\* async_send copies nothing.  The TCP messages that wait for the connection
\* share _mess, and all go out as the last of them; the buffer of doSend has
\* been freed when the TLS bytes go out, intact or not.
Waiting(q) ==
  IF type = "tcp" THEN {[i \in DOMAIN q |-> q[Len(q)]]} ELSE {q, [i \in DOMAIN q |-> Junk]}

\* What the client's object sends.  On a socket that is not connected
\* async_send fails; handle_sent logs it.
FromClient(items) ==
  LET n == Carrier IN
  IF n = 0 \/ items = <<>> THEN UNCHANGED <<toServer, sent>>
  ELSE /\ toServer' \in {[toServer EXCEPT ![n] = q] :
            q \in IF client.sock = "connecting" THEN Waiting(toServer[n] \o items)
                                                ELSE {toServer[n] \o items}}
       /\ sent' = [sent EXCEPT !["up"][n] = @ + Payloads(items)]

FromAccepted(n, items) ==
  IF Up(n) /\ accepted[n].sock = "open"
  THEN /\ toClient' = Put(toClient, n, items)
       /\ sent' = [sent EXCEPT !["down"][n] = @ + Payloads(items)]
  ELSE UNCHANGED <<toClient, sent>>

\* A TCP receive of 1500 bytes takes k items; when they hold a payload it may
\* end inside the last one and leave the rest at the head.
Rest(wire, k, cut) ==
  (IF cut THEN <<Junk>> ELSE <<>>) \o SubSeq(wire, k + 1, Len(wire))
CanCut(wire, k) ==
  /\ type = "tcp" /\ k > 0 /\ wire[k] # Junk
  /\ Payloads(SubSeq(wire, 1, k)) > 0

\* A segment of k items.  A TLS segment may end inside a record: k = 0.
IsSegment(wire, k, backlog) ==
  /\ wire # <<>> /\ k \in 0 .. Len(wire)
  /\ type = "tcp" => k > 0
  /\ type = "tls" => Len(backlog) + k <= MaxBacklog + 1

\* A mutant of Unread: as over TCP, what follows the first record is lost.
UnreadFirstOnly(obj) == IF obj.backlog = <<>> THEN <<>> ELSE <<Head(obj.backlog)>>

\* The records an SSL object holds and has not read.
Unread(obj) == obj.backlog

\* The message of a segment that is handed to VPNLinkBase::onReceive: over
\* TCP the one at its head; over TLS the oldest unread record, one SSL_read
\* per segment, once the handshake is over.
Message(obj, seg) ==
  IF type = "tcp" THEN <<Head(seg)>>
  ELSE IF obj.ssl = "done" /\ Unread(obj) # <<>> THEN <<Head(Unread(obj))>>
  ELSE <<>>
AfterRead(obj) ==
  IF type = "tls" /\ obj.ssl = "done" /\ Unread(obj) # <<>>
  THEN [obj EXCEPT !.backlog = Tail(Unread(obj))] ELSE obj

HandUp(d, n, message) ==
  handed' = [handed EXCEPT ![d][n] =
    IF message # <<>> /\ message[1].kind = "Payload"
    THEN Append(@, message[1].id) ELSE @]

\* A handler returns the changed link object and the items it sends.
Result(obj, out) == [obj |-> obj, out |-> out]

-----------------------------------------------------------------------------
(* The client process. *)

\* send: over TLS nothing while _handshaking; SSL_write on an object whose
\* handshake has not begun begins it, and the message is not sent.
ClientWrite(c, kind, id) ==
  IF type = "tcp" THEN Result(c, <<Item(kind, id, 0)>>)
  ELSE IF c.handshaking \/ c.ssl = "hello" THEN Result(c, <<>>)
  ELSE IF c.ssl = "before"
  THEN Result([c EXCEPT !.ssl = "hello", !.session = Carrier], <<Flight("ClientHello")>>)
  ELSE Result(c, <<Item(kind, id, c.session)>>)

\* Connect().
SendConnect(c) ==
  LET w == ClientWrite(c, "Connect", 0) IN
  Result([w.obj EXCEPT !.activity = ActivityTimerClient], w.out)

\* onLinkReady in mode eClient.  A wait of an earlier onLinkReady is
\* cancelled by expires_at: one timer runs.
ClientLinkReady(c) == SendConnect([c EXCEPT !.timer = TRUE])

\* onConnected of VPNTLSLink: SSL_connect.  An object that waits for the
\* answer of an earlier connection keeps waiting; a finished one starts over
\* (ConnectStartsOver), in vain when unread records of the old connection are
\* before it, or has nothing to do.
SSLConnect(c) ==
  LET starts == \/ c.ssl = "before"
                \/ c.ssl = "done" /\ ConnectStartsOver /\ c.backlog = <<>> IN
  Result([c EXCEPT !.handshaking = TRUE,
            !.ssl = IF @ = "done" /\ ~ConnectStartsOver THEN @ ELSE "hello",
            !.session = IF starts THEN c.conn ELSE @],
         IF starts THEN <<Flight("ClientHello")>> ELSE <<>>)

\* tcpsocket::connect when the timer of timed_connect fires.
TimedConnect ==
  /\ client.sock = "waiting"
  /\ client' = [client EXCEPT !.sock = "connecting"]
  /\ UNCHANGED <<type, accepted, broken, toServer, toClient, payloads, hist>>

\* handle_connect with an error; the sends that waited fail too.
ConnectFails ==
  LET n == client.conn + 1 IN
  /\ client.sock = "connecting"
  /\ client' = [client EXCEPT !.sock = "waiting",
                              !.session = IF @ = n THEN 0 ELSE @]
  /\ toServer' = [toServer EXCEPT ![n] = <<>>]
  /\ sent' = [sent EXCEPT !["up"][n] = 0]
  /\ UNCHANGED <<type, accepted, broken, toClient, payloads, okOn, handed>>

\* The connection is established; handle_connect has yet to run.
Establish ==
  /\ client.sock = "connecting" /\ client.conn < MaxConns
  /\ client' = [client EXCEPT !.sock = "established", !.conn = @ + 1]
  /\ UNCHANGED <<type, accepted, broken, toServer, toClient, payloads, hist>>

\* handle_connect: onConnected, then the first receive.
ClientConnected ==
  LET c == [client EXCEPT !.sock = "open"]
      ready == IF type = "tcp" THEN ClientLinkReady(c) ELSE SSLConnect(c) IN
  /\ client.sock = "established"
  /\ client' = ready.obj
  /\ FromClient(ready.out)
  /\ UNCHANGED <<type, accepted, broken, toClient, payloads, okOn, handed>>

\* timer_tick in mode eClient.
ClientTick ==
  LET left == Decrement(client.activity)
      c == [client EXCEPT !.activity = left]
      tick == IF ~client.connected THEN SendConnect(c)
              ELSE IF left # 0 THEN ClientWrite(c, "Ping", 0)
              ELSE Result([c EXCEPT !.connected = FALSE], <<>>) IN
  /\ client.timer
  /\ tick.out # <<>> => Room(toServer, Carrier)
  /\ client' = tick.obj
  /\ FromClient(tick.out)
  /\ UNCHANGED <<type, accepted, broken, toClient, payloads, okOn, handed>>

\* A mutant of Finish: _handshaking is not reset.
FinishStillHandshaking(c) == [c EXCEPT !.ssl = "done"]

\* SSL_connect has returned 1.
Finish(c) == [c EXCEPT !.ssl = "done", !.handshaking = FALSE]

\* The handshake part of VPNTLSLink::onReceive, mode eSSLClient.
ClientHandshake(c) ==
  IF ~c.handshaking \/ c.backlog = <<>> THEN Result(c, <<>>)
  ELSE IF Head(c.backlog).kind = "ServerHello"
  THEN Result([c EXCEPT !.backlog = Tail(@)], <<Flight("ClientFinished")>>)
  ELSE IF Head(c.backlog).kind = "ServerFinished"
  THEN ClientLinkReady(Finish([c EXCEPT !.backlog = Tail(@)]))
  ELSE Result(c, <<>>)

\* handle_receive: onReceive of the link type, then that of VPNLinkBase.
\* (remote_endpoint may throw when the connection was reset meanwhile: the
\* process ends, as ClientRestart and ServerRestart say.)
ClientReceive(k) ==
  LET n == client.conn
      seg == SubSeq(toClient[n], 1, k)
      shaken == IF type = "tcp" THEN Result(client, <<>>)
                ELSE ClientHandshake([client EXCEPT !.backlog = @ \o seg])
      message == Message(shaken.obj, seg)
      read == AfterRead(shaken.obj) IN
  /\ client.sock = "open"
  /\ IsSegment(toClient[n], k, client.backlog)
  /\ \E cut \in BOOLEAN :
       /\ cut => CanCut(toClient[n], k)
       /\ toClient' = [toClient EXCEPT ![n] = Rest(@, k, cut)]
  /\ client' = IF message = <<>> THEN read
               ELSE [read EXCEPT !.activity = ActivityTimerClient,
                       !.connected = @ \/ message[1].kind = "ConnectOK"]
  /\ FromClient(shaken.out)
  /\ HandUp("down", n, message)
  /\ okOn' = IF message # <<>> /\ message[1].kind = "ConnectOK" THEN n ELSE okOn
  /\ UNCHANGED <<type, accepted, broken, payloads>>

\* handle_receive with an error: onError closes and starts timed_connect.
\* Neither onClose nor onLinkDown is called.
ClientLost ==
  /\ client.sock = "open" /\ ~Up(client.conn)
  /\ client' = [client EXCEPT !.sock = "waiting"]
  /\ toClient' = [toClient EXCEPT ![client.conn] = <<>>]
  /\ UNCHANGED <<type, accepted, broken, toServer, payloads, hist>>

CountPayload == payloads < MaxPayload /\ payloads' = payloads + 1

ClientPayload(c) ==
  ClientWrite(c, "Payload", IF Carrier = 0 THEN 0 ELSE sent["up"][Carrier] + 1)

\* sendSignalling and sendData: dropped unless the link is connected.
ClientSend ==
  LET w == ClientPayload(client) IN
  /\ client.connected /\ CountPayload
  /\ client' = w.obj
  /\ FromClient(w.out)
  /\ UNCHANGED <<type, accepted, broken, toClient, okOn, handed>>

\* SetupDataConn: sent in any state of the link, and clears the timer.
ClientSetupDataConn ==
  LET w == ClientPayload(client) IN
  /\ CountPayload
  /\ client' = [w.obj EXCEPT !.activity = 0]
  /\ FromClient(w.out)
  /\ UNCHANGED <<type, accepted, broken, toClient, okOn, handed>>

\* The process ends and starts again.
ClientRestart ==
  LET n == client.conn + 1 IN
  /\ client' = NewClient(client.conn)
  /\ broken' = [broken EXCEPT ![client.conn] = TRUE]
  /\ toServer' = [toServer EXCEPT ![n] = <<>>]
  /\ sent' = [sent EXCEPT !["up"][n] = 0]
  /\ toClient' = [i \in Conns |-> <<>>]
  /\ okOn' = 0
  /\ UNCHANGED <<type, accepted, payloads, handed>>

-----------------------------------------------------------------------------
(* The server process. *)

\* onLinkReady in mode eAccepted.
AcceptedLinkReady(a) == [a EXCEPT !.activity = ActivityTimerAccepted, !.timer = TRUE]

\* _VpnLinkMap holds a link, whose endpoint (address and port) may be the one
\* the system of the client or a NAT chose for the new connection too.
EndpointMayBeTaken ==
  \E m \in Conns : accepted[m].sock \in {"open", "closed"} /\ ~accepted[m].destroyed

\* handle_accept, onAccept: the constructor of the accepted link starts the
\* receive; over TCP it is ready at once.  When the map has the endpoint, insert
\* keeps the old link: the new object is deleted and its timer with it, while
\* the socket lives on by its receive and goes on calling the deleted object.
Accept(n) ==
  LET a == NoAccepted("open")
      link == IF type = "tcp" THEN AcceptedLinkReady(a) ELSE a IN
  /\ n <= client.conn /\ accepted[n].sock = "none"
  /\ \/ accepted' = [accepted EXCEPT ![n] = link]
     \/ /\ EndpointMayBeTaken
        /\ accepted' = [accepted EXCEPT
             ![n] = [link EXCEPT !.timer = FALSE, !.destroyed = TRUE]]
  /\ UNCHANGED <<type, client, broken, toServer, toClient, payloads, hist>>

\* handle_receive of a socket whose link was deleted: the memory may still
\* answer (AcceptedReceive and the steps below), the process may die
\* (ServerRestart), or what arrives is lost from now on.
Swallow(n) ==
  /\ accepted[n].destroyed /\ toServer[n] # <<>>
  /\ accepted' = [accepted EXCEPT ![n] = [NoAccepted("gone") EXCEPT !.destroyed = TRUE]]
  /\ toServer' = [toServer EXCEPT ![n] = <<>>]
  /\ UNCHANGED <<type, client, broken, toClient, payloads, hist>>

\* send of the accepted link: over TLS nothing until the handshake is over.
AcceptedWrite(n, a, kind, id) ==
  IF type = "tcp" THEN <<Item(kind, id, 0)>>
  ELSE IF a.ssl = "done" THEN <<Item(kind, id, n)>>
  ELSE <<>>

\* A mutant of Reply: a ping is answered like an EConnect.
ReplyConnectOK(n, a, message) ==
  IF message # <<>> /\ message[1].kind \in {"Connect", "Ping"}
  THEN AcceptedWrite(n, a, "ConnectOK", 0) ELSE <<>>

\* The reply of VPNLinkBase::onReceive in mode eAccepted.
Reply(n, a, message) ==
  IF message = <<>> THEN <<>>
  ELSE IF message[1].kind = "Connect" THEN AcceptedWrite(n, a, "ConnectOK", 0)
  ELSE IF message[1].kind = "Ping" THEN AcceptedWrite(n, a, "Ping", 0)
  ELSE <<>>

\* The handshake part of VPNTLSLink::onReceive, mode eSSLAccept.  A record of
\* another session where the handshake should begin makes SSL_accept fail for
\* good.
AcceptedHandshake(a) ==
  IF a.ssl \in {"done", "failed"} \/ a.backlog = <<>> THEN Result(a, <<>>)
  ELSE IF a.ssl = "wait" /\ Head(a.backlog).kind = "ClientHello"
  THEN Result([a EXCEPT !.backlog = Tail(@), !.ssl = "hello"],
              <<Flight("ServerHello")>>)
  ELSE IF a.ssl = "hello" /\ Head(a.backlog).kind = "ClientFinished"
  THEN Result(AcceptedLinkReady([a EXCEPT !.backlog = Tail(@), !.ssl = "done"]),
              <<Flight("ServerFinished")>>)
  ELSE Result([a EXCEPT !.ssl = "failed"], <<>>)

\* What a failed SSL object holds is never read again.
Discard(a) == IF a.ssl = "failed" THEN [a EXCEPT !.backlog = <<>>] ELSE a

\* handle_receive on the server: the same chain, and the replies.
AcceptedReceive(n, k) ==
  LET seg == SubSeq(toServer[n], 1, k)
      shaken == IF type = "tcp" THEN Result(accepted[n], <<>>)
                ELSE AcceptedHandshake([accepted[n] EXCEPT !.backlog = @ \o seg])
      message == Message(shaken.obj, seg)
      read == Discard(AfterRead(shaken.obj)) IN
  /\ accepted[n].sock = "open"
  /\ IsSegment(toServer[n], k, accepted[n].backlog)
  /\ Room(toClient, n)
  /\ \E cut \in BOOLEAN :
       /\ cut => CanCut(toServer[n], k)
       /\ toServer' = [toServer EXCEPT ![n] = Rest(@, k, cut)]
  /\ accepted' = [accepted EXCEPT ![n] =
       IF message = <<>> THEN read
       ELSE [read EXCEPT !.activity = ActivityTimerAccepted,
               !.connected = @ \/ message[1].kind = "Connect"]]
  /\ FromAccepted(n, shaken.out \o Reply(n, read, message))
  /\ HandUp("up", n, message)
  /\ UNCHANGED <<type, client, broken, payloads, okOn>>

\* timer_tick in mode eAccepted.
AcceptedTick(n) ==
  LET left == Decrement(accepted[n].activity) IN
  /\ accepted[n].timer
  /\ accepted' = [accepted EXCEPT
       ![n].activity = left,
       ![n].timer = left # 0,
       ![n].connected = @ /\ left # 0]
  /\ UNCHANGED <<type, client, broken, toServer, toClient, payloads, hist>>

\* handle_receive with an error: the socket is closed for good, the link
\* object stays in _VpnLinkMap and keeps its timer.
AcceptedLost(n) ==
  /\ accepted[n].sock = "open" /\ ~Up(n)
  /\ accepted' = [accepted EXCEPT ![n].sock = "closed"]
  /\ toServer' = [toServer EXCEPT ![n] = <<>>]
  /\ UNCHANGED <<type, client, broken, toClient, payloads, hist>>

\* A response (sendSignalling finds the link by its id, connected or not) or
\* media (sendData, on a connected link) for the client of connection n.
ServerSend(n) ==
  /\ accepted[n].sock \in {"open", "closed"} /\ CountPayload
  /\ FromAccepted(n, AcceptedWrite(n, accepted[n], "Payload", sent["down"][n] + 1))
  /\ UNCHANGED <<type, client, accepted, broken, toServer, okOn, handed>>

\* SetupDataConn on the accepted link.
AcceptedSetupDataConn(n) ==
  /\ accepted[n].sock \in {"open", "closed"} /\ CountPayload
  /\ FromAccepted(n, AcceptedWrite(n, accepted[n], "Payload", sent["down"][n] + 1))
  /\ accepted' = [accepted EXCEPT ![n].activity = 0]
  /\ UNCHANGED <<type, client, broken, toServer, okOn, handed>>

\* The process ends and starts again.
ServerRestart ==
  /\ accepted' = [n \in Conns |-> IF n <= client.conn THEN NoAccepted("gone")
                                                      ELSE accepted[n]]
  /\ broken' = [n \in Conns |-> broken[n] \/ n <= client.conn]
  /\ toServer' = [n \in Conns |-> IF n <= client.conn THEN <<>> ELSE toServer[n]]
  /\ UNCHANGED <<type, client, toClient, payloads, hist>>

-----------------------------------------------------------------------------
\* The network gives up a connection, or a host resets it.
Break ==
  /\ Up(client.conn)
  /\ broken' = [broken EXCEPT ![client.conn] = TRUE]
  /\ UNCHANGED <<type, client, accepted, toServer, toClient, payloads, hist>>

ClientStep ==
  \/ TimedConnect \/ ConnectFails \/ Establish \/ ClientConnected
  \/ ClientTick
  \/ \E k \in 0 .. MaxWire + 1 : client.conn # 0 /\ ClientReceive(k)
  \/ ClientLost
  \/ ClientSend
  \/ ClientSetupDataConn
  \/ ClientRestart

ServerStep(n) ==
  \/ Accept(n)
  \/ Swallow(n)
  \/ \E k \in 0 .. MaxWire + 1 : AcceptedReceive(n, k)
  \/ AcceptedTick(n)
  \/ AcceptedLost(n)
  \/ ServerSend(n)
  \/ AcceptedSetupDataConn(n)

Next ==
  \/ ClientStep
  \/ \E n \in Conns : ServerStep(n)
  \/ ServerRestart
  \/ Break

Spec == Init /\ [][Next]_vars

\* The io_service threads run every ready handler: a completed connect or
\* accept, an expired timer, a receive with bytes to read.
Fairness ==
  /\ WF_vars(ClientConnected)
  /\ WF_vars(ClientTick)
  /\ WF_vars(\E k \in 1 .. MaxWire + 1 : client.conn # 0 /\ ClientReceive(k))
  /\ \A n \in Conns :
       /\ WF_vars(Accept(n))
       /\ WF_vars(AcceptedTick(n))
       /\ WF_vars(\E k \in 1 .. MaxWire + 1 : AcceptedReceive(n, k))

FairSpec == Spec /\ Fairness

-----------------------------------------------------------------------------
(* Properties. *)

\* What a connection hands up is in the order it was sent (a TCP message that
\* waited for the connection may be repeated); over TLS nothing is missing in
\* between and nothing comes twice.  This is the delivery SipCalls assumes of
\* an Ordered link (onReceive and send of the two link types).
DeliveredInOrder ==
  \A d \in Directions, n \in Conns :
    /\ \A i, j \in DOMAIN handed[d][n] : i < j => handed[d][n][i] <= handed[d][n][j]
    /\ type = "tls" => \A i \in DOMAIN handed[d][n] : handed[d][n][i] = i

ConnectOKOn(n) ==
  \/ okOn = n
  \/ \E i \in DOMAIN toClient[n] : toClient[n][i].kind = "ConnectOK"

\* An EConnectOK that came over a connection, or is on its way, stands: the
\* accepted link of that connection is connected until its timer stops,
\* through reconnections, lost segments and records read late.  (The timer of a
\* link that onAccept destroyed has stopped.)
ConnectOKStands ==
  \A n \in Conns :
    ConnectOKOn(n) /\ accepted[n].sock \in {"open", "closed"} =>
      (accepted[n].timer => accepted[n].connected)

\* The current connection is up at both ends, and its accepted link exists.
LinkLevelUp ==
  /\ client.sock = "open"
  /\ Up(client.conn)
  /\ accepted[client.conn].sock \in {"none", "open"} /\ ~accepted[client.conn].destroyed

\* The handshake on it began on it, with nothing of an older one before it.
CleanStart ==
  type = "tls" =>
    client.session = client.conn /\ accepted[client.conn].ssl # "failed"

\* A connection that stays up leads to a connected link again and again,
\* however its bytes are cut into segments and whatever the earlier
\* connections left behind, with two exceptions: a link in _VpnLinkMap with the
\* same endpoint, for which onAccept destroys the new one (LinkLevelUp), and
\* over TLS a handshake that did not begin on this connection (CleanStart).
StableLinkConnects ==
  <>[](client.conn # 0 /\ LinkLevelUp /\ CleanStart) => []<>client.connected
=============================================================================
