------------------------------ MODULE UdpDemux ------------------------------
(***************************************************************************)
(* How one UDP port serves many peers: the listening udpsocket, and for    *)
(* each peer a second socket bound to the same port and connected to the   *)
(* peer, which the kernel prefers for the peer's datagrams.  The owner of  *)
(* the port is the sipserver ("sip", sockets belong to sipendpoints) or a  *)
(* VPNUDPLink in server mode ("vpn", sockets belong to accepted links).    *)
(*                                                                         *)
(* The process runs one thread, so its handlers do not interleave; the     *)
(* kernel queues datagrams between any two of its calls, in particular     *)
(* between the bind and the connect of a new socket.  Among sockets that   *)
(* match a datagram equally well the kernel takes any.  A datagram that    *)
(* finds its queue full is lost: a step that does not happen.              *)
(***************************************************************************)
EXTENDS Naturals, Sequences, SequencesExt

CONSTANTS
  Peers,       \* remote endpoints (address:port)
  NoPeer,      \* the peer of a socket number that is not in use
  MaxSockets,  \* bound: sockets beside the listening one
  MaxWaiting,  \* bound: datagrams queued on the listening socket
  MaxQueue     \* bound: datagrams queued on any other socket

ASSUME NoPeerAssumption == NoPeer \notin Peers
ASSUME BoundsAssumption ==
  MaxSockets \in Nat /\ MaxWaiting \in Nat \ {0} /\ MaxQueue \in Nat \ {0}

VARIABLES
  owner,      \* who owns the port
  waiting,    \* datagrams queued on the listening socket
  accepting,  \* handle_listen is between bind and connect for these: none or one
  early,      \* datagrams queued on the new socket since its bind
  sockets,    \* the connected sockets
  endpoint,   \* socket of the peer's sipendpoint or accepted link; 0: none
  up,         \* _bConnected of the peer's accepted link
  timer,      \* the timer of the peer's accepted link runs
  \* History: written by the actions, read by the properties only.
  told,       \* the process sent the peer an EConnectOK
  expired,    \* the peer's link expired since it was last sent one
  exposed     \* the peer met the listening socket although a socket for it
              \* existed or was on its way

vars == <<owner, waiting, accepting, early, sockets, endpoint, up, timer, told,
          expired, exposed>>

\* What the accepted links know and what the peers know of them.
links == <<up, timer, told, expired>>

Numbers == 1 .. MaxSockets
Datagrams == [from : Peers, kind : {"Connect", "Other"}]
Queues(max) == {q \in Seq(Datagrams) : Len(q) <= max}
\* "own": connected from a port of its own, not from the listening port.
Sockets == [peer : Peers \cup {NoPeer}, own : BOOLEAN, reading : BOOLEAN,
            queue : Queues(MaxQueue)]
Closed == [peer |-> NoPeer, own |-> FALSE, reading |-> FALSE, queue |-> <<>>]

TypeOK ==
  /\ owner \in {"sip", "vpn"}
  /\ waiting \in Queues(MaxWaiting)
  /\ accepting \in Queues(1)
  /\ early \in Queues(MaxQueue)
  /\ sockets \in [Numbers -> Sockets]
  /\ endpoint \in [Peers -> 0 .. MaxSockets]
  /\ up \in [Peers -> BOOLEAN]
  /\ timer \in [Peers -> BOOLEAN]
  /\ told \in [Peers -> BOOLEAN]
  /\ expired \in [Peers -> BOOLEAN]
  /\ exposed \in [Peers -> BOOLEAN]

NoSockets == [s \in Numbers |-> Closed]
All(value) == [p \in Peers |-> value]

\* The process listens; nothing has arrived yet.
Init ==
  /\ owner \in {"sip", "vpn"}
  /\ waiting = <<>> /\ accepting = <<>> /\ early = <<>>
  /\ sockets = NoSockets
  /\ endpoint = All(0)
  /\ up = All(FALSE) /\ timer = All(FALSE)
  /\ told = All(FALSE) /\ expired = All(FALSE) /\ exposed = All(FALSE)

-----------------------------------------------------------------------------
(* The kernel. *)

SocketsOf(p) == {s \in Numbers : sockets[s].peer = p}

\* The sockets the kernel prefers for what p sends to the listening port.
Connected(p) == {s \in SocketsOf(p) : ~sockets[s].own}

Pending(p) == \E d \in ToSet(waiting) \cup ToSet(accepting) : d.from = p

Queue(s, d) ==
  /\ Len(sockets[s].queue) < MaxQueue
  /\ sockets' = [sockets EXCEPT ![s].queue = Append(@, d)]

\* A datagram for the listening port arrives: for a socket connected to its
\* sender if there is one; otherwise for the listening socket or for the one
\* that is bound and not yet connected.
Arrive(d) ==
  /\ owner = "sip" => d.kind = "Other"
  /\ \/ /\ \E s \in Connected(d.from) : Queue(s, d)
        /\ UNCHANGED <<waiting, early, exposed>>
     \/ /\ Connected(d.from) = {} /\ accepting # <<>>
        /\ Len(early) < MaxQueue
        /\ early' = Append(early, d)
        /\ UNCHANGED <<waiting, sockets, exposed>>
     \/ /\ Connected(d.from) = {}
        /\ Len(waiting) < MaxWaiting
        /\ waiting' = Append(waiting, d)
        /\ exposed' = [exposed EXCEPT ![d.from] =
                         @ \/ Pending(d.from) \/ endpoint[d.from] # 0]
        /\ UNCHANGED <<early, sockets>>
  /\ UNCHANGED <<owner, accepting, endpoint, links>>

-----------------------------------------------------------------------------
(* Handlers of the process. *)

IsNext(s) == s \in SocketsOf(NoPeer) /\ \A i \in Numbers : i < s => i \notin SocketsOf(NoPeer)

Open(s, p, own, queue) ==
  sockets' = [sockets EXCEPT ![s] =
                [peer |-> p, own |-> own, reading |-> TRUE, queue |-> queue]]

\* A mutant of AcceptBegin: the next accept starts before the last has ended.
AcceptAgain ==
  /\ waiting # <<>>
  /\ SocketsOf(NoPeer) # {}
  /\ accepting' = Append(accepting, Head(waiting))
  /\ waiting' = Tail(waiting)
  /\ UNCHANGED <<owner, early, sockets, endpoint, links, exposed>>

\* handle_listen takes a datagram; onAccept makes a socket and binds it.
AcceptBegin ==
  /\ accepting = <<>> /\ waiting # <<>>
  /\ SocketsOf(NoPeer) # {}
  /\ accepting' = <<Head(waiting)>>
  /\ waiting' = Tail(waiting)
  /\ UNCHANGED <<owner, early, sockets, endpoint, links, exposed>>

\* A link answers an EConnect.
Answer(p, kind) ==
  /\ told' = [told EXCEPT ![p] = @ \/ kind = "Connect"]
  /\ expired' = [expired EXCEPT ![p] = @ /\ kind # "Connect"]

\* A mutant of Hear: the answer comes first, the state is not kept.
HearUnmindful(p, kind) == Answer(p, kind) /\ UNCHANGED up

\* An accepted link is handed a datagram: an EConnect connects it and is
\* answered.
Hear(p, kind) ==
  /\ up' = [up EXCEPT ![p] = @ \/ kind = "Connect"]
  /\ Answer(p, kind)

\* The rest of onAccept: connect the socket and receive on it; the owner keeps
\* it for a new peer, and the timer of a new link starts.  For a known peer the sipserver hands the datagram to
\* the peer's endpoint and the new socket to nobody; a VPN link builds a
\* second accepted link, which answers and is destroyed, because the map keeps
\* the first.  Either way the socket lives on by its own receive.
AcceptConnect ==
  /\ accepting # <<>>
  /\ LET d == Head(accepting)
         p == d.from IN
     /\ \E s \in Numbers :
          /\ IsNext(s)
          /\ Open(s, p, FALSE, early)
          /\ endpoint' = [endpoint EXCEPT ![p] = IF @ = 0 THEN s ELSE @]
     /\ \/ /\ endpoint[p] = 0
           /\ Hear(p, d.kind)
           /\ timer' = [timer EXCEPT ![p] = owner = "vpn"]
        \/ /\ endpoint[p] # 0
           /\ Answer(p, d.kind)
           /\ UNCHANGED <<up, timer>>
  /\ accepting' = <<>>
  /\ early' = <<>>
  /\ UNCHANGED <<owner, waiting, exposed>>

\* handle_receive on socket s.  A socket that nobody owns swallows what it
\* receives when its _pEvents is NULL ("sip"); when _pEvents is the address of
\* a destroyed link ("vpn") that memory may still answer, or the process dies
\* (Restart).
Receive(s) ==
  /\ accepting = <<>>
  /\ sockets[s].reading /\ sockets[s].queue # <<>>
  /\ LET p == sockets[s].peer
         kind == Head(sockets[s].queue).kind IN
     \/ endpoint[p] = s /\ Hear(p, kind)
     \/ endpoint[p] # s /\ UNCHANGED <<up, told, expired>>
     \/ /\ endpoint[p] # s /\ owner = "vpn"
        /\ Answer(p, kind)
        /\ UNCHANGED up
  /\ sockets' = [sockets EXCEPT ![s].queue = Tail(@)]
  /\ UNCHANGED <<owner, waiting, accepting, early, endpoint, timer, exposed>>

\* timer_tick of an accepted link that nothing has reset for 60 seconds, or
\* whose timer SetupDataConn cleared: the link disconnects and its timer is not
\* started again, so a link does this once.
Expire(p) ==
  /\ accepting = <<>>
  /\ timer[p]
  /\ timer' = [timer EXCEPT ![p] = FALSE]
  /\ up' = [up EXCEPT ![p] = FALSE]
  /\ expired' = [expired EXCEPT ![p] = TRUE]
  /\ UNCHANGED <<owner, waiting, accepting, early, sockets, endpoint, told, exposed>>

\* A mutant of CloseSocket: the endpoint is forgotten, its socket stays open.
CloseSocketLater(s) ==
  /\ endpoint' = [p \in Peers |-> IF endpoint[p] = s THEN 0 ELSE endpoint[p]]
  /\ UNCHANGED sockets

\* udpsocket::close, or the end of the receive chain of a socket without owner.
CloseSocket(s) ==
  /\ endpoint' = [p \in Peers |-> IF endpoint[p] = s THEN 0 ELSE endpoint[p]]
  /\ sockets' = [sockets EXCEPT ![s] = Closed]

\* The idle timer closes the endpoint of a SIP peer.
Idle(p) ==
  /\ owner = "sip" /\ accepting = <<>>
  /\ endpoint[p] # 0
  /\ CloseSocket(endpoint[p])
  /\ UNCHANGED <<owner, waiting, accepting, early, links, exposed>>

\* An ICMP error ends the receive chain of s.  A sipendpoint closes its socket,
\* a socket without owner is freed, an accepted link does nothing at all.
SocketError(s) ==
  /\ accepting = <<>>
  /\ sockets[s].reading
  /\ \/ /\ owner = "sip" \/ endpoint[sockets[s].peer] # s
        /\ CloseSocket(s)
     \/ /\ owner = "vpn" /\ endpoint[sockets[s].peer] = s
        /\ sockets' = [sockets EXCEPT ![s].reading = FALSE]
        /\ UNCHANGED endpoint
  /\ UNCHANGED <<owner, waiting, accepting, early, links, exposed>>

\* processOutgoing of a request for an unknown SIP peer: its endpoint gets a
\* socket connected from another port than the listening one.
ConnectOut(p) ==
  /\ owner = "sip" /\ accepting = <<>>
  /\ endpoint[p] = 0
  /\ \E s \in Numbers :
       /\ IsNext(s)
       /\ Open(s, p, TRUE, <<>>)
       /\ endpoint' = [endpoint EXCEPT ![p] = s]
  /\ exposed' = [exposed EXCEPT ![p] = @ \/ Pending(p)]
  /\ UNCHANGED <<owner, waiting, accepting, early, links>>

\* The process dies and starts again.
Restart ==
  /\ waiting' = <<>> /\ accepting' = <<>> /\ early' = <<>>
  /\ sockets' = NoSockets
  /\ endpoint' = All(0)
  /\ up' = All(FALSE) /\ timer' = All(FALSE)
  /\ told' = All(FALSE) /\ expired' = All(FALSE) /\ exposed' = All(FALSE)
  /\ UNCHANGED owner

Next ==
  \/ \E d \in Datagrams : Arrive(d)
  \/ AcceptBegin \/ AcceptConnect
  \/ \E s \in Numbers : Receive(s) \/ SocketError(s)
  \/ \E p \in Peers : Idle(p) \/ ConnectOut(p) \/ Expire(p)
  \/ Restart

Spec == Init /\ [][Next]_vars

-----------------------------------------------------------------------------
(* Properties. *)

\* A peer has the socket of its endpoint and no other, unless one of its
\* datagrams met the listening socket while it had a socket or was about to
\* get one.  Only then can a socket that nobody owns come before the socket of
\* the endpoint and swallow what the peer sends (onAccept, handle_listen).
OneSocketPerPeer ==
  \A p \in Peers :
    ~exposed[p] => SocketsOf(p) = {endpoint[p]} \ {0}

\* A peer that was sent an EConnectOK has an accepted link, and the link is
\* connected unless its own timer ran out since that answer: nothing else that
\* happens on the shared port disconnects it.  The same peers are excepted: a
\* second accepted link answers for the first and takes what it knew to its
\* grave (VPNUDPLink::onAccept, map insert).
OkMeansConnected ==
  \A p \in Peers :
    told[p] /\ ~exposed[p] => endpoint[p] # 0 /\ (up[p] \/ expired[p])
=============================================================================
