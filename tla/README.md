# svoiptunnel in TLA+

svoiptunnel carries SIP calls and their media through one VPN link between two
tunnels: a client tunnel next to SIP clients and a server tunnel next to a SIP
server. This directory holds TLA+ modules of the tunnel, TLC configurations
that check them on small instances, and TLAPS proofs of their main invariants
for every instance. Paths below are relative to `src/svoiptunnel/`.

## The system

Every process runs one `boost::asio::io_service` in one thread. A handler is
therefore atomic; what interleaves is handlers of different sockets and timers,
the two processes, the network, and crashes. Nothing is stored on disk except
the configuration.

| component | state | operations | talks to |
|---|---|---|---|
| `VPNLinkBase` | `_mode`, `_bConnected`, `_activityTimer`, the deadline timer, `_VpnLinkMap` (server) | `onReceive`, `onLinkReady`, `Connect`, `timer_tick`, `sendData`, `sendSignalling`, `SetupDataConn` | the other tunnel by messages, `sipserver` by callbacks |
| `VPNUDPLink` | one socket | constructors, `onAccept`, `onReceive`, `onError`, `send` | `udpsocket`, `VPNLinkBase` |
| `VPNTCPLink`, `VPNTLSLink`, `VPNDTLSLink` | socket, SSL object and BIOs, send backlog | the same, and reconnection | `tcpsocket`, `udpsocket`, `sslbase` |
| `udpsocket`, `tcpsocket` | socket, outstanding receive, idle flag | listen, accept, connect, bind, send, close, receive chain | their owner, by virtual callbacks |
| `sipserver`, SIP peers | `_addrMap`, `_clientVec`, 30 s timer | `onAccept`, `processIncoming`, `processOutgoing`, `closeEndpoint`, `timer_tick` | `sipendpoint`, `VPNLinkBase` |
| `sipendpoint` | socket, channel, `_lastActiveTime` | send, `onReceive`, `onError`, `onClose`, `check_if_valid` | `sipserver` |
| `sipserver`, calls | `_callMap`, `_dataPortMap` | call handling in `processIncoming` and `processOutgoing`, `onSetupData`, `onReceiveData`, `registerDataPort`, `unRegisterDataPort` | `sipcall`, `VPNLinkBase` |
| `sipcall`, `sipdataconn` | `_dataConnVec`; local port and `_vpnPort` of each connection | `addDataPort`, `getDataLink`, `delDataPort`, `linkVpnPort`, `sendData` | `sipserver`, the link |
| `sipmessage` | none that outlives a message | `parse`, `compareCode` | `sipserver` |
| `voiptunnel`, `config` | options, settings | the option loop, `Config::Read`, the choice of a link object | all |
| `log`, `util`, `sslbase` | none the tunnel depends on | logging, regular expressions, OpenSSL callbacks | all |

What is hard here:

- **The two ends of a UDP link disagree.** Either process may die at any time
  and be replaced; EConnect and EConnectOK may be lost or overtaken; an ICMP
  error ends the receive chain of a socket for good; a timer that has expired
  is not armed again although its link object lives on.
- **A stream link outlives its connections.** The client keeps one link object,
  one SSL object and one buffer through every reconnection, and closing a
  connection resets none of them. The receive path takes one message from each
  segment, however many the segment holds.
- **A DTLS flight is sent once.** No timer drives the handshake, so what a lost
  flight leaves behind at the two ends stays for good, as does what a restarted
  server leaves at a client whose session it has never seen.
- **One UDP port, many sockets.** The kernel queues datagrams on the listening
  socket while the process binds and connects a socket for their sender, and
  then the sender is accepted twice.
- **Channel numbers outlive endpoints.** A request crosses the VPN with the
  number of its endpoint's slot. Responses come back with that number alone,
  perhaps after the slot was emptied and reused.
- **Two tables describe each media connection on each side**, and the two sides
  learn each other's ports from messages that race with the SIP messages that
  caused them. A message ahead of its turn leaves NULL elements in a vector
  that other handlers dereference.
- **Limits**: timers that reach zero, slots, ports, the last index of a vector.

`PROJECT.json` lists each of these at the line where it bites ("hazards") with
the properties that would catch it.

What makes a component correct, in short: the *link* connects whenever both
ends hear each other, and gives up a peer after the announced silence, neither
later nor earlier; the *peer table* is a bijection and a response returns to
its requester; the *call tables* agree with each other, media of a line reaches
the same line of the same call and no other, and an answered call has a media
path; a *message* that passes is a SIP message, goes where it says, means the
same with the tunnel's ports in it, and its response finds back; a *tunnel that
runs* does what it was told.

## Modules

| module | models | needs |
|---|---|---|
| `TunnelLink` | the abstract link: what a link promises whatever carries it | |
| `VpnLink` | the UDP link, both ends: `vpnlinkbase.cpp`, `vpnudplink.cpp`, the receive chain of `udpsocket.cpp` | |
| `VpnLinkProofs` | theorems about it, its refinement of `TunnelLink` among them | `VpnLink`, `TLAPS` |
| `DtlsLink` | the DTLS link, both ends: `vpndtlslink.cpp` over the actions of `VpnLink` | instance of `VpnLink` |
| `DtlsLinkProofs` | theorems about it, its refinement of `TunnelLink` among them | `DtlsLink`, `TLAPS` |
| `StreamLink` | the TCP and the TLS link, both ends: `tcpsocket.cpp`, `vpntcplink.cpp`, `vpntlslink.cpp` and their part of `vpnlinkbase.cpp` | |
| `StreamLinkProofs` | theorems about it | `StreamLink`, `TLAPS` |
| `UdpDemux` | one UDP port with its listening and its connected sockets: `udpsocket.cpp`, `onAccept` of `sipserver` and `VPNUDPLink` | |
| `UdpDemuxProofs` | theorems about it | `UdpDemux`, `TLAPS` |
| `SipEndpoints` | the SIP side of one tunnel: `_addrMap`, `_clientVec`, idle endpoints | |
| `SipEndpointsProofs` | theorems about it | `SipEndpoints`, `TLAPS` |
| `SipCalls` | calls and media ports of both tunnels and the messages between them | |
| `SipCallsProofs` | theorems about it | `SipCalls`, `TLAPS` |
| `SipMessage` | `sipmessage::parse` on a start line, character by character | |
| `Sdp` | `sipcall`'s reading and rewriting of an SDP body, line by line, and what SDP means by a body | |
| `SipRelay` | one request and its response through both tunnels: `processIncoming`, `processOutgoing` | `SipMessage`, `Sdp` |
| `SipRelayProofs` | theorems about the three | `SipRelay`, `TLAPS` |
| `Startup` | `main`: options, file, and the link they lead to | |
| `StartupProofs` | theorems about it | `Startup`, `TLAPS` |
| `MCSipCalls`, `MCUdpDemux` | symmetry sets for TLC | |
| `MCSipRelay`, `MCStartup` | the messages, command lines and files TLC is given | |

### TunnelLink

The promise of a link in five variables: the two ends of each client's link, the
EConnectOKs of the running and of dead server processes that are under way, and
on whose word the client last acted. `VpnLink` and `DtlsLink` implement it, both
by an instance whose mapping is written at the end of the module: the server
end is `"none"`, `"idle"`, `"connected"` or `"expired"` by what the map, the
timer and `_bConnected` say; for DTLS an end without a session is `"none"`. So a
server end that is connected stays so until its timer or its process ends, and
an EConnectOK never comes from an end that was not connected. `StreamLink` is
not shown to implement it: there `ConnectOKStands` says the same about one
connection, since each connection has a server end of its own.

### VpnLink

A client `c` of `Clients` is an endpoint that the server can see. Its process
(`clientUp`) owns one link object in mode `eClient`: `connected`, `activity`
and `receiving` are `_bConnected`, `_activityTimer` and "an `async_receive` is
outstanding". The server process (`serverUp`) owns the object in mode `eServer`,
whose `_VpnLinkMap` has the keys `links`; `accConnected`, `accActivity`,
`accTimer` and `accReceiving` are the state of the `eAccepted` object of `c`.
`toServer[c]` and `toClient[c]` hold the kinds of datagrams in flight: a set, so
that any of them may arrive next, may be lost, and merges with another of its
kind.

| action | code |
|---|---|
| `ClientStart`, `ClientExit` | client constructor and `onLinkReady`; end of `main` or a kill |
| `ClientTick`, `AcceptedTick` | `timer_tick` in the two modes |
| `ClientReceive`, `AcceptedReceive` | `handle_receive`, `VPNUDPLink::onReceive`, `VPNLinkBase::onReceive` |
| `Accept` | `handle_listen`, `VPNUDPLink::onAccept`, and the first message |
| `ClientSend`, `AcceptedSendData`, `ServerSendSignalling` | `sendData` and `sendSignalling` with their gates |
| `ClientSetupDataConn`, `AcceptedSetupDataConn` | `SetupDataConn`, which clears `_activityTimer` |
| `ServerCrash`, `ServerRestart` | the server process dies, and starts again |
| `LoseToServer`, `LoseToClient` | a datagram is lost |
| `RefusedByServer`, `RefusedByClient` | an ICMP error fails the outstanding receive; `onError` starts no other |

`quiet`, `zeroed`, `accQuiet`, `accZeroed` and `okFrom` are history variables:
no guard reads them. `StaleConnectOK` is an EConnectOK whose sender has died
since; the client treats it like any other. `Accept` is for an endpoint without
a link; the second accept of one that has a link is in `UdpDemux`.

### DtlsLink

`B` is an instance of `VpnLink` over the same variables: once `ssl[c]` or
`accSsl[c]` is `"done"`, an end takes the steps of `VpnLink`, and a datagram in
`toServer` or `toClient` is a record of the session. Before, the handshake runs:
`up` and `down` hold its flights, as sets, so that they are lost and reordered
like datagrams.

| action | code |
|---|---|
| `ClientStart` | the client constructor, which sends the ClientHello and leaves `_mode` as the memory was (`drives`) |
| `ClientFlight`, `AcceptedFlight` | `onReceive` while `_handshaking`; `LinkReady` is `onLinkReady` at its end |
| `AcceptFlight`, `AcceptRecord` | `onAccept` with the first datagram of a client, a flight or a record of a dead session |
| `DropRecord` | a record for an end that has no session |
| `ClientSecured`, `AcceptedSecured`, `ClientExit`, `ServerCrash`, `ServerRestart`, `RecordLost` | those of `VpnLink` |
| `FlightLost` | a flight is lost, or refused by a host without the process |

`fits` says whether the certificate flights fit into the receive buffer. `loyal`
is history: no server process has died since the client started.

### UdpDemux

`owner` says whose port it is: the `sipserver`'s or a `VPNUDPLink`'s. `waiting`
is the kernel's queue of the listening socket. `handle_listen` and `onAccept`
take two steps, `AcceptBegin` (the new socket is bound) and `AcceptConnect` (it
is connected and kept or forgotten), because the kernel goes on queuing between
the two calls; no other handler runs between them. `early` is what the kernel
has queued on the bound socket by then. A connected socket `s` has a peer, a
queue, an outstanding receive (`reading`), and is `own` when it left from another
port than the listening one (`ConnectOut`, an endpoint made for a request to an
unknown peer). `endpoint[p]` is the socket of the one endpoint or link the owner
keeps for `p`; other sockets of `p` belong to nobody and live by their receive.

An accepted link is `up` while its `_bConnected` is set. `Hear` sets it, and
`Expire`, the last `timer_tick` of the link, clears it. `Expire` may come at any
time: how long the silence before it is belongs to `VpnLink` (`NoEarlyDrop`), and
`SetupDataConn` can bring it about at once. The timer of a link runs out once; a
link that hears an EConnect afterwards stays connected for good (`timer`).
`told` and `expired` are history: the peer was sent an EConnectOK, and its link
expired since.

What the kernel may do is `Arrive`: a datagram goes to a socket connected to its
sender, else to any socket that matches. `exposed` is history: the peer met the
listening socket although it had a socket, or one was on its way. Both
properties except exposed peers. That exception is the finding, not the
modesty, of the module: two quick datagrams of a new peer, or one to the SIP port
from a peer that was called from another port, are enough, and then a socket
nobody owns may swallow what the peer sends.

### StreamLink

`type` is chosen once: TCP or TLS at both ends. `client` is the client's link
object with its socket: `sock` says how far `tcpsocket` has got (waiting for the
5 s timer, `async_connect` outstanding, established but `handle_connect` not
run, receiving), `connected`, `activity` and `timer` are those of `VPNLinkBase`,
`ssl`, `handshaking` and `backlog` are the SSL object, `_handshaking` and the
records in its input BIO. `session` is the connection on which the current
handshake began; no guard reads it, `CleanStart` does. Connections are
numbered; `accepted[n]` is the `eAccepted` object the server built for
connection `n`, and `toServer[n]`,
`toClient[n]` are the two byte streams as sequences of messages.

| action | code |
|---|---|
| `TimedConnect`, `ConnectFails`, `Establish` | `timed_connect`, `connect`, `handle_connect` with an error, the kernel's connect |
| `ClientConnected` | `handle_connect`, `onConnected` and the first receive |
| `Accept` | `handle_accept`, `onAccept`, the constructor of the accepted link |
| `Swallow` | `handle_receive` of a socket whose link object was deleted |
| `ClientReceive`, `AcceptedReceive` | `handle_receive`, `onReceive` of the link type, `VPNLinkBase::onReceive` |
| `ClientLost`, `AcceptedLost` | `handle_receive` with an error, `onError` |
| `ClientTick`, `AcceptedTick` | `timer_tick` |
| `ClientSend`, `ServerSend`, `ClientSetupDataConn`, `AcceptedSetupDataConn` | `sendSignalling`, `sendData`, `SetupDataConn` |
| `ClientRestart`, `ServerRestart` | a process ends, by a kill or an exception that reaches `main`, and starts again |
| `Break` | the network or a host resets the connection |

The server never removes a link from `_VpnLinkMap`, and finds a link there by
address and port. A connection may come from the port of an earlier one
(`EndpointMayBeTaken`); then `insert` keeps the old link, and the new object is
deleted at the end of `onAccept` (`destroyed`) while its socket goes on receiving
and calls the deleted object. What that does is undefined: it works as if
nothing had happened, it loses what arrives (`Swallow`), or the process dies
(`ServerRestart`).

A receive takes `k` messages as one segment. Over TCP the first is handed up
and the rest of the segment is lost; a segment with a payload may end inside its
last message, whose remaining bytes head the next segment (`Junk`). Over TLS a
segment adds its records to the backlog and one record is read per segment;
`k = 0` is a segment that ends inside a record. Messages sent while
`async_connect` is outstanding wait behind it and share one buffer (`Waiting`).
The four flights of the TLS handshake stand for OpenSSL. What `SSL_connect` does
on an object whose handshake is over differs between OpenSSL versions, hence
the constant `ConnectStartsOver`.

### SipEndpoints

`addrMap` and `clientVec` are the tables of the code, with channels from 1.
`idle[p]` counts ticks of the 30 s timer since the endpoint of `p` was last
active. `pending` holds the requests that crossed the VPN and may still be
answered. A new peer (`AcceptNew`) takes the first NULL slot. A request to an
unknown peer (`SendRequest`) takes the slot that `processOutgoing` takes, which
is always a new one. `SocketError` and `TimerTick` close endpoints. After
`Restart` the answers to old requests may still arrive.

`_lastActiveTime` has a resolution of one second and the comparison is `> 60`.
So an endpoint is closed at the third tick after its last activity, or at the
fourth when the third sees a difference of exactly 60 s: `IdleTicksMin` and
`IdleTicksMax`.

### SipMessage, Sdp, SipRelay

`SipMessage` has the search of `parse` after so many characters of the start line
as a recursive function (`SearchOver`); it never goes back in the text, so its
answer is not that of a comparison with each method in turn. `Sdp` goes over the
lines of a body (`LoopOver`): `Incoming` is
`processIncomingSDP` with `processMLine` and `processCLine`, `Outgoing` is
`processOutgoingSDP`, and `MediaOf` says which address and port SDP gives to a
media line, without following the code. `Addrs` are the addresses a `c=` line may
carry, `NoAddr` the empty one. The two counters of the code, which may
disagree, are two definitions.

`SipRelay` composes them: a client's request (`IncomingRequest`) crosses the
link, is handed to the SIP server (`OutgoingRequest`), answered (`Answer`), and
the response takes the same two functions back (`IncomingResponse`,
`OutgoingResponse`). `at` says where the message is; `msg` has the header lines
the code reads or writes. Everything else in a message is copied, so it is left
out. Whether a message may pass, what is answered at once (`heard`: 100 and 483),
where it goes (`target`), what happens to its To, Via, Max-Forwards,
Content-Length and body are the code's. A To line has a form, a host and a tag
(`Tos`). Both tunnels look for `To: <sip:user@host>`, written exactly so; a line
written in another way, with a display name for instance, is dropped and the
request goes to the local host (`"astray"`); a URI without a user part, or with a
host the far tunnel cannot resolve, for which a host with a port or URI
parameters counts, makes the process die (`"dead"`). The configured SIP server is
assumed to resolve. `ProperStarts` says which start lines are those SIP knows;
the parser takes others for requests, "RINVITE" for instance, and the beginning
of a method with nothing or a bare line feed behind it ("INV" with CR LF is
none, since the search then meets the CR). `MCSipRelay` assumes it, so that TLC
evaluates it for the messages of the run.

### Startup

`ReadOption` is one round of the loop over `argv`, with what happens to an
option without a value and to the value of `-f`, which is compared with the other
options in the same round. `ReadWord` is one round of `Config::Read`, which reads
words and not lines; `wide` is whether `size_t` is wider than `unsigned int` in the
build, which decides about words without an equals sign. A word carries the mark
`behind` when a comment sign stands before it in its line: `ReadWord` does not look
at it, the properties do, for that is what the person who wrote the file meant.
`Numbers` are the texts `lexical_cast<unsigned>` takes for `-p`, `IntTexts` those
that `lexical_cast<int>` takes in the file. `Start` puts the two together, and
refuses to run or builds the link.

### SipCalls

Side `"near"` is the client tunnel and `"far"` the server tunnel. `calls[s][k]`
is the `_dataConnVec` of call `k`, or `NoCall`; an element is a local port with
the port of the other tunnel it is linked to, or `Hole` for NULL. `portMap[s]`
is `_dataPortMap`. `wire[s]` is the sequence of messages from `s` to the other
side. `Ordered` chooses a TLS link (records in order, none lost) or a link that
loses and reorders (UDP, DTLS, and TCP, where what follows the first message in
a segment is lost).

The call handling that `processIncoming` and `processOutgoing` share is
`ProcessSip`; the actions `NearRequest`, `CalleeResponse`, `CalleeRequest` and
`FarRequest` feed it from the SIP side, `ReceiveRequest` and `ReceiveResponse`
from the link, and `ReceiveSetup` is `onSetupData`. `Crash` is what happens when
a NULL element is dereferenced: the process ends. `onServer` are the far calls
whose `_vpnPtr` is the server-mode link object, which is never connected.

The SIP clients and the SIP server are the environment: `caller`, `asked` and
`calleeOver` say which messages they may send in a dialog.

## What is checked

| run | bounds | result |
|---|---|---|
| `vpn_link` | 1 client, timers of 3 and 2 ticks | `TypeOK`, `HandshakeAgreement`, `SilenceIsBounded`, `DropsOnlyWhenSilent`, `AudibleClientConnects`, `DeadClientExpires`, `ImplementsTunnelLink` hold (93,584 states) |
| `dtls_link` | 1 client, timers of 3 and 2 ticks | `TypeOK`, `SessionsAgree`, `ImplementsTunnelLink`, `SecuredClientConnects` hold (28,777 states) |
| `udp_demux` | 2 peers, 3 sockets, 2 datagrams waiting, 1 queued per socket; peers symmetric | `TypeOK`, `OneSocketPerPeer`, `OkMeansConnected` hold (390,331 states) |
| `stream_delivery` | 1 connection, 2 messages in flight, 1 unread record, 2 payloads | `TypeOK`, `DeliveredInOrder` hold (807,766 states) |
| `stream_relink` | 2 connections, 1 message in flight, 1 unread record, no payload | `ConnectOKStands`, `StableLinkConnects` hold (138,293 states) |
| `sip_endpoints` | 2 peers, 3 slots | `TypeOK`, `TableConsistent`, `ReplyRouteHolds`, `IdleEndpointCloses` hold |
| `sip_relay` | requests that vary in their start line, header lines or SDP body (bodies of up to 5 lines), 20 replies | `TypeOK`, `ReturnsToSender`, `MediaAgrees`, `ProperMessagesPass`, `RequestReachesItsTarget` hold (140,988 states) |
| `sip_calls_ordered` | 1 call, 3 ports, 2 lines, 4 SIP messages | `TypeOK`, `PortMapMatchesCalls`, `NoCrossTalk`, `NoHoles`, `AnsweredLinesLinked`, `DiesOfErasedOrOwnCall` hold (496,582 states) |
| `sip_calls_datagram` | 2 calls, 2 ports, 1 line, 3 SIP messages, loss and reordering | `PortMapMatchesCalls`, `NoCrossTalk` hold |
| `sip_calls_refused` | 1 call, 2 ports, 1 line, 4 SIP messages | `RefusedCallIsErased` is violated |
| `startup` | command lines of up to two options and some careless ones, files with each setting present, absent, repeated, malformed or commented out, and the one that ships | `TypeOK`, `RunsAsTold`, `RefusesOnlyIncomplete` hold (286,096 states) |
| `startup_type` | the same | `TypeAsConfigured` is violated |

**Why the bounds are enough.** Clients of the UDP link share nothing but the
process of the server: no handler of one client's link reads or writes another
client's, so every step of `VpnLink` except `ServerCrash` and `ServerRestart`
concerns one client, and one client with a free environment shows each pair of
interacting handlers; the same holds of `DtlsLink`. The proofs about the two
cover any number. The client's timer has the 2 ticks of the code; the accepted
link's 12 are 3: a tick that counts, the last tick, and one in between. Again the
proofs cover every span. In `UdpDemux` two datagrams may wait for one peer, which
is a double accept, while the other peer has a socket; three sockets are the two
of a peer accepted twice and one of the other. The proofs cover every number of
peers, sockets and queued datagrams. In `StreamLink`
`MaxWire` is a guard on the timer of the client and on the receives of the
server, so a step may put one or two messages above it: with 2, a segment holds
several messages and the backlog grows; 1 suffices for the run about
reconnection, where the connections matter. Two connections are the old one and
the one that replaces it. `stream_relink` sends no payload because a ping takes
the same way; `stream_delivery` does, because order needs two of them. It
also holds with `ConnectStartsOver = FALSE`, as does `stream_relink`. With two
peers and three slots,
slots are emptied, reused by the other peer and passed over by the search that
never runs. A call with two media lines has an order of lines to get wrong; two
calls on two ports make ports be closed and bound again by the other call. Four
SIP messages allow INVITE, 200, a second INVITE or ACK, and its response or a
BYE. In `SipRelay` a body of four lines behind `v=0` has two media sections with a
`c=` line each, the least in which the address of one section can be taken for
the other's; the last line is cut in half of the bodies. `Startup` has two options
because only the order of two matters, and files in which one setting is
written twice, or once more in a comment; TLC's integers end at 2147483647, so
70000 stands for a number that does not fit an int. `MaxSip`, `MaxLines`, `MaxSlots` and `MaxSockets` bound only what
the environment does, except that a port, slot or socket that is not available
disables the step: a bind that finds no port is not modelled.

`CHECK_DEADLOCK FALSE` appears in the `SipCalls`, `SipRelay` and `Startup` runs
only: when the budget of SIP messages is spent, or both processes are dead,
nothing is left to do; one transaction ends; a start ends with a tunnel that
runs or has refused to.

**Fairness.** `VpnLink` assumes weak fairness of the timer ticks, because
`io_service::run` runs the handler of every expired timer and the handlers do
not block; and strong fairness of the delivery of EConnect and of EConnectOK:
the network is fair-lossy, so one sent again and again is received again and
again. Nothing is assumed of pings, payload, sends by the SIP side, starts,
exits or crashes. `DtlsLink` assumes the same once the handshake is over, and
nothing of its flights: each is sent once, and that none may be lost is not the
network's to promise. `StreamLink` assumes weak fairness of
`handle_connect` and `handle_accept` once the kernel has done its part, of the
ticks, and of receives that complete at least one message: TCP delivers what was
sent on a connection that stays up, and `io_service::run` runs the handler.
That a connection is ever established, or stays up, is not assumed; the
liveness properties have it as their premise. `SipEndpoints` assumes weak
fairness of its timer. The other modules state no liveness.

**Where the code departs from what it says.** Two runs end in a violation; each
states what the repository says of the program.

- `src/README.md` calls the type `tls` secure and `tcp` unsecure. `main` maps
  each word to the other's link (`voiptunnel.cpp:178`).
- The comment at `sipserver.cpp:292` and `523` speaks of failures of INVITE; the
  comparison at `333` and `564` is inverted: a refused call keeps its ports, and a
  failed response to another request ends the call.

**What the properties except.** Where the code gives less than one would hope,
the property says exactly how much less.

- `DropsOnlyWhenSilent`: `SetupDataConn` clears `_activityTimer`, so that the next
  tick drops a link that was heard moments ago, long before the 60 s of
  `vpnlinkbase.cpp:5`, unless a message arrives first.
- `DeadClientExpires`, `HandshakeAgreement`: the timer of an accepted link never
  fires again on a link that expired and was connected again; `timer_tick`
  returned without arming it and EConnect does not arm it either. Such a link
  outlives its client.
- `StableLinkConnects`: a TLS client never gets ready when its ClientHello was
  spent before, on a connection that broke during the handshake or by a
  `SetupDataConn` before the first connection. `SSL_connect` then waits for an
  answer nobody was asked for. Nor is it claimed for a connection that comes from
  the endpoint of an earlier one, whose link object `onAccept` deletes: the client
  may then send EConnect for ever on a connection that is up.
- `SecuredClientConnects`: a lost DTLS flight and a restart of the server are
  final for a client, and so is memory in which the `_mode` its constructor never
  sets is not that of a client.
- `OneSocketPerPeer`, `OkMeansConnected`: a peer accepted twice, and for the
  latter a link whose own timer has run out since.
- `ReplyRouteHolds`: only a channel number says where a response goes. After the
  endpoint is closed it goes to whoever took the slot.
- `TableConsistent` holds although the search for an empty slot
  (`sipserver.cpp:613`) stands under a condition that is never true: the vector
  grows beside its empty slots.
- `NoHoles`, `DiesOfErasedOrOwnCall`: a call that a side has erased. A BYE that
  erases it between two SetupData of the other side leaves the second one with a
  new vector and a NULL element before its own, and the next SIP message of the
  call kills the process, on an ordered link too. A call placed on the server side
  does so with its first media line. Over a link that loses or reorders, a missing
  SetupData is enough.
- `ReturnsToSender`: the comment at `sipserver.cpp:476` has a Via added in front;
  the code adds one before every Via line and takes the first off again. A
  request that passed another proxy comes back with a line of the tunnel in the
  middle.
- `MediaAgrees`: an `m=` line such as `m=audio 8000/2 RTP/AVP 0` is counted by one
  function and not by the other, and its copy loses its line end.
- `RequestReachesItsTarget`: only `To: <sip:user@host>` takes a request to a SIP
  server. A display name, another spacing or no `<>` (`sipserver.cpp:199`, `455`)
  send it to the local host; no user part, an unknown name, a port or a URI
  parameter behind the host, be it the tunnel's own address, leave `pClient` NULL
  (`sipserver.cpp:620`, `644`) and end the far process. No property speaks of the
  To tag, which the tunnel cuts off whenever it writes the line anew, so that the
  server sees the requests within a dialog without it.
- `ProperMessagesPass`: a request with another method than the six of the table
  is taken for a response and dropped, and an empty datagram is relayed.
- `RunsAsTold` and `RefusesOnlyIncomplete`: the comment at `config.cpp:59` ("empty or
  comment line, just skip it") is false of all but the first word of a comment.
  `Read` reads words, so that in `# mode=server` the second sets the mode, and a
  word without an equals sign sets itself where `size_t` is wide: in the file that
  ships, `#voip tunnel configuration` makes two keys nobody asks for. Both
  properties admit such files and except, for each setting, just the case that
  such a word (`IsStray`) has its key and no setting of it comes after
  (`Misread`). `RunsAsTold` speaks of ports up to 65535: `-p 65536` becomes
  port 0. Both speak of command lines made of options with their values
  (`Careful`); what careless ones do is in the model and its type invariant. The
  `listenport` of the configuration file that comes with the program is never
  read.

## What is proved

TLAPS checks the following for every value of the constants that satisfies the
named assumptions (`TimersAssumption` of `VpnLink` and of `DtlsLink`: both spans
are positive;
`PeersAssumption`, `NoPeerAssumption`: `NoPeer` is no peer;
`MaxSlotsAssumption`, `BoundsAssumption`, `SipCallsAssumption`: the bounds are
numbers, the queues and SDP bodies hold something, port 0 is no port;
`NullsAssumption`: the values that stand for NULL and for "not in the map" are
none of those that are; `StreamAssumption`: both spans are positive and the
bounds are numbers; `StartupAssumption`: command lines and files are sequences of
words, what a text may be read as is a number, and what fits an int fits an
unsigned int; `NoAddrAssumption` and
`RelayAssumption`: the requests and replies are records of the fields the code
reads). Three theorems have a hypothesis besides, which their statements carry:
`NoHolesHolds`, `AnsweredLinesLinkedHolds` and `DiesOfErasedOrOwnCallHolds` that the
link keeps the order
(`Ordered`, the constant that is TRUE in `sip_calls_ordered`), and
`ProperMessagesPassHolds` that the start lines are proper (`ProperStarts`).

`VpnLinkProofs`. The properties are not inductive. A connected client with two
ticks of silence could, as far as `SilenceIsBounded` knows, have a timer that is
still full. `LinkInv` adds the relation between the two (`ClientTimerInv`,
`AcceptedTimerInv`): on a connected client and on every accepted link,
`_activityTimer` and the ticks of silence add up to the span of the timer, or
`SetupDataConn` has cleared the timer since the peer was last heard, it is 0,
and the next tick drops the link. `HandshakeAgreement`, which also covers an
EConnectOK in flight, is a conjunct of its own and needs only that a link with
a running timer is in the map. Each action preserves the invariant by a lemma of its own; `TypeCorrect`,
`LinkInvariant`, `HandshakeAgreementHolds` and `SilenceIsBoundedHolds` follow,
and `DropsOnlyWhenSilentHolds` is an action property from the same invariant.

The same module has the refinement. With the type invariant as its only help,
every step of a process or of the network is a step of `TunnelLink` or leaves its
variables as they are: one lemma for the client process, one for the server
process, one for the network, one for the crash, each with a step per action.
Hence `LinkImplementsTunnelLink`, and with `PromiseKept`, that the abstract link
keeps the promise it states (`OfferStands`, inductive as it stands),
`OffersStand`: what the abstract link promises holds of the UDP link.

`DtlsLinkProofs`. `SessionsAgree` is not inductive: from the stages of the two
ends one cannot tell whether the flight that arrives next belongs to them.
`FlightsInv` says how far the two ends have got when a flight is under way: a
ServerFinished of the living server process under way means that the accepted
end of that client has its session, which is what the client concludes when it
arrives. With it, and the type invariant, the step of each action keeps
`DtlsInv`; the refinement maps an accepted end without a session to "none" and
the end of the handshake to `Greet`, and follows `VpnLinkProofs`: a lemma
for the client, the server, the network and the crash (`ClientRefines`,
`ServerRefines`, `NetworkRefines`, `CrashRefines`). `DtlsTypeCorrect`,
`SessionsAgreeHolds`, `DtlsImplementsTunnelLink` and `SecuredOffersStand` follow.

`UdpDemuxProofs`. That a peer has one socket is not inductive: one must know that
no second datagram of it is on its way to an accept. `PendingOnce` says so of
every peer that was never exposed: it waits for an accept at most once and only
while it has no endpoint. What the peers are told needs `SipHearsNoConnect`
besides, because closing the endpoint of a SIP peer would otherwise take a link
away from a peer that was told of it. `DemuxInvariant`, `DemuxTypeCorrect`,
`OneSocketPerPeerHolds` and `OkMeansConnectedHolds` follow.

`SipEndpointsProofs`. `EndpointInv` is the type invariant, the consistency of
the two tables, and `RouteInv`: a live request carries the channel that
`_addrMap` has for its peer now. `ReplyRouteHolds` alone is not inductive: from
"the slot holds the peer" one cannot tell what closing another peer does to the
slot unless the address map points there too. Lemmas state what entering and
closing endpoints do to the tables. `EndpointTypeCorrect`,
`TableConsistentHolds` and `ReplyRouteHoldsAlways` follow.

`SipCallsProofs`. `NoCrossTalk` is about what a connection has been told, and it
is told by messages that may be long under way: what makes it inductive is
`WireHonest`, that every SetupData under way names the line its port belongs to,
unless that port was closed since. That in turn needs `PortMapMatchesCalls`,
since a port that is open must stay with its line; and a port keeps its line
because registering a vector never takes one from another connection
(`RegisterStep`: the ports of a side are different from each other, which
`PortMapMatchesCalls` itself says). Every handler is a `HandlerStep` of its side:
it leaves the tables of the other side alone, keeps or closes what was
registered, gives a connection only the peer that a SetupData names, and sends
only what is true; `HandlerKeeps` shows that such a step keeps the invariant, and
one lemma per kind of handler (`EraseStep`, `CrashStep`, `AddDataPortsHandler`,
`AddDataPortsCrashHandler`, `ProcessSipHandler`, `ReceiveSetupHandler`) that it
is one. `CallTypeCorrect`, `PortMapMatchesCallsHolds` and `NoCrossTalkHolds`
follow, for both kinds of link at once.

Over a link that keeps the order more is true, and `OrderInv` says what the order
buys. A SetupData under way is the port its line has now, unless its sender has
erased the call (`PortsStand`); that of a line follows right behind that of the
line before, or the receiver has the line before (`Successive`). So
`onSetupData` leaves no gap on a side that has not erased the call, which is
`NoHoles`. `LinkedInv` adds that a 2xx
comes after the SetupData of every line it describes (`AcceptsFollowPorts`): when
the near side passes it on, its ends of the lines are linked, and
what it has announced itself is ahead of the media (`NearLinked`, `FarLinked`).
`NoHolesHolds` and `AnsweredLinesLinkedHolds` follow. `CallersKnown` says besides whose
calls are on the link object that was never connected; with `NoHoles` it explains
every step that ends a process (`SipExplained`), which is
`DiesOfErasedOrOwnCallHolds`.

`StreamLinkProofs`. A message may be in the stream of one of many connections, in
the backlog of an SSL object, or in a buffer that waits, and the client's objects
outlive the connections. `BaseInv` is the type invariant, that no payload is
counted twice (`Counted`), and that a connection still to come is empty but for
what the client sent ahead of `handle_connect` (`Fresh`). `HandshakeInv` says for
every connection what its server end may have sent at each stage of its handshake
(`Stage`), and `ClientPhase` what the client's SSL object can have before it: an
object whose handshake is over has no flight in its backlog, and on a new
connection it either waits for good or starts over. With the two, `OKInv` is
inductive: it counts an EConnectOK in the stream, in the backlog, and acted on;
`ConnectOKStandsHolds` is weaker. For the order the proof splits by the type.
`TcpOrder` says that what was handed up, and then the payloads in the stream,
never descend; `UpOrder` and `DownOrder` say for TLS that what was handed up is
1, 2, ..., and that the backlog followed by the stream goes on exactly
there, up to what was sent. `StreamTypeCorrect`, `ConnectOKStandsHolds` and
`DeliveredInOrderHolds` follow, with either value of `ConnectStartsOver`.

`StartupProofs`. `StartupInv` follows the two loops: what is left of the command
line and of the file is the rest of what was given (`Progress`), the options are
what the last option of each kind so far says (`OptionsStand`), the items what
the last word taken for each key so far says (`ItemsStand`), a link is the one the
settings ask for (`LinkStands`), and with a careful command line the process ends
only where `main` refuses the settings (`ExitStands`). `RunsAsTold` and
`RefusesOnlyIncomplete` speak of the whole command line and the whole file, and are
what the invariant says when nothing is left to read: the last word taken for a
key is then its last setting, or a stray word (`WrittenStands`).
`StartupTypeCorrect`, `RunsAsToldHolds` and `RefusesOnlyIncompleteHolds` follow, for
lines and files of any length.

`SipRelayProofs`. What the loops over the lines of a body and over the characters
of a start line compute is proved by induction on the number of lines or
characters. The induction theorems of the library take an operator, which the
provers cannot instantiate; so a fact is written as the set of the numbers it
holds of, and the least number outside it, which exists because `<` on the
naturals is well-founded, is led to a contradiction (`LeastNat`, `Induction`).
`LoopInv` relates the variables of `processIncomingSDP` after `n` lines to the
sections of the body: which address is the default one, which `c=` and `m=` line
are waiting, and that the media lines added are those of the sections that are
complete. `IncomingIsMediaOf` follows for well-formed bodies, and with what
`Outgoing` writes (its body is well-formed again, at the tunnel's own address and
ports) and `RelayInv`, which says at each place of the way what the message has
of the one that was sent, `MediaAgreesHolds`, `ReturnsToSenderHolds` and
`RequestReachesItsTargetHolds`.

`MethodsAreFound` is about a search that never goes back: whatever text begins
with a method of the table is taken for that method, because the search leaves a
row only for one with the character it is at, and no two methods begin with
the same letter. The converse is false, since a method behind other letters
passes too, and so does the beginning of a method where the text ends. So that nothing else gets
onto the link needs `ProperStarts`: no start line but those with a method and a
blank, the empty one, and those whose first word has no method in it; replies
begin with SIP and a code of digits. Of such a text the search ends at no row
(`ForeignIsNoRequest`, `StatusIsResponse`), and `PassInv` says of every place
that the message has the start line it came with and states its length.
`ProperMessagesPassHolds` follows.

**Only model-checked**: the liveness properties `AudibleClientConnects`,
`DeadClientExpires`, `SecuredClientConnects`, `StableLinkConnects` and
`IdleEndpointCloses`, since liveness under fairness is out of the prover's reach.
Every invariant and action property of a passing run is a theorem.

## What is not modelled

- In the links: the `_WIN32` branches; `Disconnect` and EDisconnect, which
  nothing calls; the `eServer` branch of `timer_tick` that would reap links,
  whose timer is never armed; a resolver that fails when the client starts;
  duplication of datagrams by the network. `VpnLink` takes no two datagrams of a
  client to wait on the listening socket: `UdpDemux` has what happens then.
- In `DtlsLink`: messages above the 1024 bytes of one `SSL_read`, certificate
  errors. That the SSL object of the server-mode link does not exist is modelled
  in `SipCalls`.
- In `UdpDemux`: an error on the listening socket, a bind or connect that fails
  in an accept, datagrams other than an EConnect told apart.
- In `StreamLink`: an `accept` that fails, after which the listener is closed
  for good; a kernel send buffer that is full; TLS messages above the 1024 bytes
  of one `SSL_read`; a record cut by the loss of its connection; certificate
  errors; more than one client. `onLinkDown` has no caller.
- In `SipRelay`: compact header names (the code leaves such lines alone; a
  message with a compact Via has no Via here), requests of the far side and the
  responses of clients to them, header lines that are repeated other than Via,
  a client endpoint that is gone when the response arrives (`SipEndpoints`), a
  port number above 65535 in an `m=` line.
- In `SipCalls`: SIP endpoints (always reachable there), media packets
  themselves (the properties speak of where they would go), rewriting of Via,
  Contact and SDP. Both sides count the media lines of a body alike. Side far
  answers on the link of the client the call came from. The wire of an `Ordered`
  link delivers every message in order: `DeliveredInOrder` shows the order and
  the absence of gaps, while a connection that breaks is not in `SipCalls`.
- In `Startup`: what `-l`, `-v`, `-f`, `-publicip` and `-logfile` do with their
  values, the version file, `release`, `reload`, `Encode` and `Decode`, which have
  no caller. `publicip` may stay empty in a tunnel that runs. A constructor of
  `sipserver` or of a link that throws (a port taken, a host that does not resolve)
  ends the process like a refusal and is not in the model.
- `log`, `util`, `sslbase`: I/O and glue without state the tunnel depends on.

## What could follow

`Tunnel`: `SipEndpoints` and `SipCalls` composed, so that an endpoint may expire
while its call lasts; a few runs only, since the state is large.
