---------------------------- MODULE UdpDemuxProofs ----------------------------
(***************************************************************************)
(* Proofs about UdpDemux, for any peers and any bounds of the queues.      *)
(***************************************************************************)
EXTENDS UdpDemux, TLAPS

\* What the sockets of a peer rest on: until a peer is exposed it waits for an
\* accept at most once, and only as long as it has no endpoint.
PendingOnce ==
  \A p \in Peers : ~exposed[p] =>
    /\ Pending(p) => endpoint[p] = 0
    /\ \A i, j \in DOMAIN waiting : waiting[i].from = p /\ waiting[j].from = p => i = j
    /\ \A i \in DOMAIN waiting, j \in DOMAIN accepting :
         waiting[i].from = p => accepting[j].from # p

Quiet(q) == \A i \in DOMAIN q : q[i].kind = "Other"

\* No SIP peer is ever told anything by a VPN link.
SipHearsNoConnect ==
  owner = "sip" =>
    /\ \A p \in Peers : ~told[p]
    /\ Quiet(waiting) /\ Quiet(accepting) /\ Quiet(early)
    /\ \A s \in Numbers : Quiet(sockets[s].queue)

DemuxInv ==
  TypeOK /\ PendingOnce /\ SipHearsNoConnect /\ OneSocketPerPeer /\ OkMeansConnected
-----------------------------------------------------------------------------
(* Types. *)

\* A queue that is not full takes one more datagram.
LEMMA QueueGrows ==
  ASSUME NEW max \in Nat, NEW q \in Queues(max), NEW d \in Datagrams, Len(q) < max
  PROVE  Append(q, d) \in Queues(max)
BY DEF Queues

\* The head and the tail of a queue.
LEMMA QueueShrinks ==
  ASSUME NEW max \in Nat, NEW q \in Queues(max), q # <<>>
  PROVE  Head(q) \in Datagrams /\ Tail(q) \in Queues(max)
BY DEF Queues

\* A queue may be empty, or hold one datagram if it holds any.
LEMMA QueueBegins ==
  ASSUME NEW max \in Nat
  PROVE  /\ <<>> \in Queues(max)
         /\ \A d \in Datagrams : max > 0 => <<d>> \in Queues(max)
BY DEF Queues

\* The closed socket is a socket.
LEMMA ClosedIsSocket == Closed \in Sockets
<1>1. <<>> \in Queues(MaxQueue)
  BY QueueBegins, BoundsAssumption
<1> QED
  BY <1>1 DEF Closed, Sockets

\* Every step keeps the types.
LEMMA TypeStep == TypeOK /\ [Next]_vars => TypeOK'
<1> SUFFICES ASSUME TypeOK, [Next]_vars PROVE TypeOK'
  OBVIOUS
<1> USE BoundsAssumption DEF TypeOK
<1>1. ASSUME NEW d \in Datagrams, Arrive(d) PROVE TypeOK'
  <2>1. ASSUME NEW s \in Numbers, Queue(s, d) PROVE sockets' \in [Numbers -> Sockets]
    <3>1. sockets[s] \in Sockets
      OBVIOUS
    <3>2. Append(sockets[s].queue, d) \in Queues(MaxQueue)
      BY <2>1, <3>1, QueueGrows DEF Queue, Sockets
    <3>3. [sockets[s] EXCEPT !.queue = Append(@, d)] \in Sockets
      BY <3>1, <3>2 DEF Sockets
    <3> QED
      BY <2>1, <3>3 DEF Queue
  <2>2. Connected(d.from) \subseteq Numbers
    BY DEF Connected, SocketsOf
  <2>3. early' \in Queues(MaxQueue)
    <3>1. Len(early) < MaxQueue => Append(early, d) \in Queues(MaxQueue)
      BY QueueGrows
    <3> QED
      BY <1>1, <3>1, Zenon DEF Arrive
  <2>4. waiting' \in Queues(MaxWaiting)
    <3>1. Len(waiting) < MaxWaiting => Append(waiting, d) \in Queues(MaxWaiting)
      BY QueueGrows
    <3> QED
      BY <1>1, <3>1, Zenon DEF Arrive
  <2>5. sockets' \in [Numbers -> Sockets]
    BY <1>1, <2>1, <2>2 DEF Arrive
  <2>6. exposed' \in [Peers -> BOOLEAN]
    <3>1. d.from \in Peers
      BY DEF Datagrams
    <3>2. (exposed[d.from] \/ Pending(d.from) \/ endpoint[d.from] # 0) \in BOOLEAN
      BY <3>1 DEF Pending
    <3> QED
      BY <1>1, <3>1, <3>2 DEF Arrive
  <2> QED
    BY <1>1, <2>3, <2>4, <2>5, <2>6 DEF Arrive, links
<1>2. CASE AcceptBegin
  <2>1. Head(waiting) \in Datagrams /\ Tail(waiting) \in Queues(MaxWaiting)
    BY <1>2, QueueShrinks DEF AcceptBegin
  <2>2. <<Head(waiting)>> \in Queues(1)
    BY <2>1, QueueBegins
  <2> QED
    BY <1>2, <2>1, <2>2 DEF AcceptBegin, links
<1>3. CASE AcceptConnect
  <2> DEFINE d == Head(accepting)
  <2>1. d \in Datagrams /\ d.from \in Peers
    BY <1>3, QueueShrinks DEF AcceptConnect, Datagrams
  <2>2. PICK s \in Numbers :
          /\ Open(s, d.from, FALSE, early)
          /\ endpoint' = [endpoint EXCEPT ![d.from] = IF @ = 0 THEN s ELSE @]
    BY <1>3 DEF AcceptConnect
  <2>3. sockets' \in [Numbers -> Sockets]
    BY <2>1, <2>2 DEF Open, Sockets
  <2>4. endpoint' \in [Peers -> 0 .. MaxSockets]
    BY <2>1, <2>2 DEF Numbers
  <2>5. /\ up' \in [Peers -> BOOLEAN] /\ timer' \in [Peers -> BOOLEAN]
        /\ told' \in [Peers -> BOOLEAN] /\ expired' \in [Peers -> BOOLEAN]
    BY <1>3, <2>1 DEF AcceptConnect, Hear, Answer
  <2>6. accepting' \in Queues(1) /\ early' \in Queues(MaxQueue)
    BY <1>3, QueueBegins DEF AcceptConnect
  <2> QED
    BY <1>3, <2>3, <2>4, <2>5, <2>6 DEF AcceptConnect
<1>4. ASSUME NEW s \in Numbers, Receive(s) PROVE TypeOK'
  <2>1. sockets[s] \in Sockets
    OBVIOUS
  <2>2. Tail(sockets[s].queue) \in Queues(MaxQueue)
    BY <1>4, <2>1, QueueShrinks DEF Receive, Sockets
  <2>3. [sockets[s] EXCEPT !.queue = Tail(@)] \in Sockets
    BY <2>1, <2>2 DEF Sockets
  <2>4. sockets' \in [Numbers -> Sockets]
    BY <1>4, <2>3 DEF Receive
  <2>5. /\ up' \in [Peers -> BOOLEAN] /\ told' \in [Peers -> BOOLEAN]
        /\ expired' \in [Peers -> BOOLEAN]
    BY <1>4 DEF Receive, Hear, Answer
  <2> QED
    BY <1>4, <2>4, <2>5 DEF Receive
<1>5. ASSUME NEW s \in Numbers, CloseSocket(s)
      PROVE  /\ sockets' \in [Numbers -> Sockets]
             /\ endpoint' \in [Peers -> 0 .. MaxSockets]
  BY <1>5, ClosedIsSocket DEF CloseSocket
<1>6. ASSUME NEW s \in Numbers, SocketError(s) PROVE TypeOK'
  <2>1. CASE CloseSocket(s)
    BY <1>5, <1>6, <2>1 DEF SocketError, links
  <2>2. CASE ~CloseSocket(s)
    <3>1. [sockets[s] EXCEPT !.reading = FALSE] \in Sockets
      BY DEF Sockets
    <3>2. /\ sockets' = [sockets EXCEPT ![s].reading = FALSE]
          /\ UNCHANGED endpoint
      BY <1>6, <2>2 DEF SocketError
    <3> QED
      BY <1>6, <3>1, <3>2 DEF SocketError, links
  <2> QED
    BY <2>1, <2>2
<1>7. ASSUME NEW p \in Peers, Idle(p) PROVE TypeOK'
  <2>1. endpoint[p] \in Numbers /\ CloseSocket(endpoint[p])
    BY <1>7 DEF Idle, Numbers
  <2> QED
    BY <1>5, <1>7, <2>1 DEF Idle, links
<1>8. ASSUME NEW p \in Peers, ConnectOut(p) PROVE TypeOK'
  <2>1. PICK s \in Numbers : /\ Open(s, p, TRUE, <<>>)
                              /\ endpoint' = [endpoint EXCEPT ![p] = s]
    BY <1>8 DEF ConnectOut
  <2>2. sockets' \in [Numbers -> Sockets]
    BY <2>1, QueueBegins DEF Open, Sockets
  <2>3. endpoint' \in [Peers -> 0 .. MaxSockets]
    BY <2>1 DEF Numbers
  <2>4. (exposed[p] \/ Pending(p)) \in BOOLEAN
    BY DEF Pending
  <2> QED
    BY <1>8, <2>2, <2>3, <2>4 DEF ConnectOut, links
<1>9. ASSUME NEW p \in Peers, Expire(p) PROVE TypeOK'
  BY <1>9 DEF Expire
<1>10. CASE Restart
  <2>1. sockets' \in [Numbers -> Sockets]
    BY <1>10, ClosedIsSocket DEF Restart, NoSockets
  <2> QED
    BY <1>10, <2>1, QueueBegins DEF Restart, All
<1>11. CASE UNCHANGED vars
  BY <1>11 DEF vars, links
<1> QED
  BY <1>1, <1>2, <1>3, <1>4, <1>6, <1>7, <1>8, <1>9, <1>10, <1>11 DEF Next

-----------------------------------------------------------------------------
(* Sockets. *)

\* Opening a socket number that is not in use gives it to p and leaves the
\* sockets of the others as they are.
LEMMA OpenFacts ==
  ASSUME TypeOK, NEW p \in Peers, NEW s \in Numbers, sockets[s].peer = NoPeer,
         NEW own, NEW queue, Open(s, p, own, queue)
  PROVE  /\ SocketsOf(p)' = SocketsOf(p) \cup {s}
         /\ \A q \in Peers \ {p} : SocketsOf(q)' = SocketsOf(q)
BY NoPeerAssumption DEF TypeOK, Open, SocketsOf

\* Closing socket s takes it, and the endpoint that has it, from its peer.
LEMMA CloseFacts ==
  ASSUME TypeOK, NEW s \in Numbers, CloseSocket(s), NEW p \in Peers
  PROVE  /\ SocketsOf(p)' = SocketsOf(p) \ {s}
         /\ endpoint'[p] = IF endpoint[p] = s THEN 0 ELSE endpoint[p]
BY NoPeerAssumption DEF TypeOK, CloseSocket, SocketsOf, Closed

\* Changing what is queued on a socket, or that it reads, changes no peer.
LEMMA SamePeers ==
  ASSUME TypeOK, sockets' \in [Numbers -> Sockets],
         \A s \in Numbers : sockets'[s].peer = sockets[s].peer,
         NEW p \in Peers
  PROVE  SocketsOf(p)' = SocketsOf(p)
BY DEF TypeOK, SocketsOf

\* Who waits for an accept, in terms of the two queues.
LEMMA PendingMeans ==
  ASSUME NEW p \in Peers
  PROVE  Pending(p) <=> \/ \E i \in DOMAIN waiting : waiting[i].from = p
                        \/ \E i \in DOMAIN accepting : accepting[i].from = p
BY DEF Pending, ToSet

\* A step that leaves the queues of the listening socket, the endpoints, who
\* was exposed and the peers of the sockets alone.
LEMMA QuietStep ==
  ASSUME TypeOK, PendingOnce, OneSocketPerPeer,
         UNCHANGED <<waiting, accepting, endpoint, exposed>>,
         \A p \in Peers : SocketsOf(p)' = SocketsOf(p)
  PROVE  PendingOnce' /\ OneSocketPerPeer'
BY DEF PendingOnce, OneSocketPerPeer, Pending

\* Every step keeps the two invariants about the sockets of a peer.
LEMMA SocketStep ==
  TypeOK /\ PendingOnce /\ OneSocketPerPeer /\ [Next]_vars
    => PendingOnce' /\ OneSocketPerPeer'
<1> SUFFICES ASSUME TypeOK, PendingOnce, OneSocketPerPeer, [Next]_vars
             PROVE  PendingOnce' /\ OneSocketPerPeer'
  OBVIOUS
<1>a. TypeOK'
  BY TypeStep
<1>1. ASSUME NEW d \in Datagrams, Arrive(d)
      PROVE  PendingOnce' /\ OneSocketPerPeer'
  <2>1. \A s \in Numbers : sockets'[s].peer = sockets[s].peer
    <3>1. CASE UNCHANGED sockets
      BY <3>1
    <3>2. ASSUME NEW n \in Numbers, Queue(n, d)
          PROVE  \A s \in Numbers : sockets'[s].peer = sockets[s].peer
      BY <3>2 DEF Queue, TypeOK, Sockets
    <3>3. UNCHANGED sockets \/ \E n \in Numbers : Queue(n, d)
      BY <1>1 DEF Arrive, Connected, SocketsOf
    <3> QED
      BY <3>1, <3>2, <3>3
  <2>2. \A p \in Peers : SocketsOf(p)' = SocketsOf(p)
    BY <1>a, <2>1, SamePeers DEF TypeOK
  <2>3. CASE UNCHANGED <<waiting, exposed>>
    BY <1>1, <2>2, <2>3, QuietStep DEF Arrive
  <2>4. CASE ~UNCHANGED <<waiting, exposed>>
    <3>1. /\ waiting' = Append(waiting, d)
          /\ exposed' = [exposed EXCEPT ![d.from] =
                           @ \/ Pending(d.from) \/ endpoint[d.from] # 0]
          /\ UNCHANGED <<accepting, endpoint>>
      BY <1>1, <2>4 DEF Arrive
    <3>2. /\ DOMAIN waiting' = 1 .. Len(waiting) + 1
          /\ \A i \in DOMAIN waiting : waiting'[i] = waiting[i]
          /\ waiting'[Len(waiting) + 1] = d
          /\ DOMAIN waiting = 1 .. Len(waiting) /\ Len(waiting) \in Nat
      BY <3>1 DEF TypeOK, Queues
    <3>3. ASSUME NEW p \in Peers, ~exposed'[p]
          PROVE  /\ ~exposed[p]
                 /\ p = d.from => ~Pending(p) /\ endpoint[p] = 0
      BY <3>1, <3>3 DEF TypeOK
    <3>4. ASSUME NEW p \in Peers, ~exposed'[p]
          PROVE  /\ \A i \in DOMAIN waiting' : waiting'[i].from = p /\ p # d.from
                       => i \in DOMAIN waiting /\ waiting[i].from = p
                 /\ \A i \in DOMAIN waiting' : waiting'[i].from = p /\ p = d.from
                       => i = Len(waiting) + 1
      BY <3>2, <3>3, <3>4, PendingMeans
    <3>5. ASSUME NEW p \in Peers, ~exposed'[p]
          PROVE  /\ Pending(p)' => endpoint'[p] = 0
                 /\ \A i, j \in DOMAIN waiting' :
                      waiting'[i].from = p /\ waiting'[j].from = p => i = j
                 /\ \A i \in DOMAIN waiting', j \in DOMAIN accepting' :
                      waiting'[i].from = p => accepting'[j].from # p
      <4>1. Pending(p)' <=> \/ \E i \in DOMAIN waiting' : waiting'[i].from = p
                            \/ \E i \in DOMAIN accepting' : accepting'[i].from = p
        BY DEF Pending, ToSet
      <4>2. CASE p = d.from
        BY <3>1, <3>3, <3>4, <3>5, <4>1, <4>2, PendingMeans
      <4>3. CASE p # d.from
        BY <3>1, <3>3, <3>4, <3>5, <4>1, <4>3, PendingMeans DEF PendingOnce
      <4> QED
        BY <4>2, <4>3
    <3>6. PendingOnce'
      BY <3>5 DEF PendingOnce
    <3>7. OneSocketPerPeer'
      BY <2>2, <3>1, <3>3 DEF OneSocketPerPeer
    <3> QED
      BY <3>6, <3>7
  <2> QED
    BY <2>3, <2>4
<1>2. CASE AcceptBegin
  <2>1. /\ DOMAIN waiting' = 1 .. Len(waiting) - 1
        /\ \A i \in DOMAIN waiting' : i + 1 \in DOMAIN waiting /\ waiting'[i] = waiting[i + 1]
        /\ DOMAIN accepting' = {1} /\ accepting'[1] = waiting[1] /\ 1 \in DOMAIN waiting
    BY <1>2 DEF AcceptBegin, TypeOK, Queues
  <2>2. \A p \in Peers : Pending(p)' <=>
           \/ \E i \in DOMAIN waiting' : waiting'[i].from = p
           \/ \E i \in DOMAIN accepting' : accepting'[i].from = p
    BY DEF Pending, ToSet
  <2>3. \A p \in Peers : Pending(p)' => Pending(p)
    BY <2>1, <2>2, PendingMeans
  <2>4. UNCHANGED <<endpoint, exposed, sockets>> /\ Len(waiting) \in Nat
    BY <1>2 DEF AcceptBegin, TypeOK, Queues
  <2>5. PendingOnce'
    BY <2>1, <2>3, <2>4 DEF PendingOnce
  <2>6. OneSocketPerPeer'
    BY <2>4 DEF OneSocketPerPeer, SocketsOf
  <2> QED
    BY <2>5, <2>6
<1>3. CASE AcceptConnect
  <2>1. PICK p \in Peers : p = Head(accepting).from
    BY <1>3, QueueShrinks DEF AcceptConnect, Datagrams, TypeOK
  <2>2. PICK s \in Numbers :
          /\ sockets[s].peer = NoPeer
          /\ Open(s, p, FALSE, early)
          /\ endpoint' = [endpoint EXCEPT ![p] = IF @ = 0 THEN s ELSE @]
    BY <1>3, <2>1 DEF AcceptConnect, IsNext, SocketsOf
  <2>3. accepting' = <<>> /\ UNCHANGED <<waiting, exposed>>
    BY <1>3 DEF AcceptConnect
  <2>4. /\ SocketsOf(p)' = SocketsOf(p) \cup {s}
        /\ \A q \in Peers \ {p} : SocketsOf(q)' = SocketsOf(q)
    BY <2>2, OpenFacts, Zenon
  <2>5. 1 \in DOMAIN accepting /\ accepting[1].from = p
    BY <1>3, <2>1 DEF AcceptConnect, TypeOK, Queues
  <2>6. \A q \in Peers : Pending(q)' <=> \E i \in DOMAIN waiting : waiting[i].from = q
    BY <2>3 DEF Pending, ToSet
  <2>7. ASSUME ~exposed[p] PROVE ~Pending(p)' /\ endpoint[p] = 0 /\ SocketsOf(p) = {}
    <3>1. Pending(p)
      BY <2>5, PendingMeans
    <3>2. endpoint[p] = 0 /\ \A i \in DOMAIN waiting : waiting[i].from # p
      BY <2>5, <2>7, <3>1 DEF PendingOnce
    <3>3. SocketsOf(p) = {}
      BY <2>7, <3>2 DEF OneSocketPerPeer
    <3> QED
      BY <2>6, <3>2, <3>3
  <2>8. \A q \in Peers \ {p} : endpoint'[q] = endpoint[q] /\ (Pending(q)' => Pending(q))
    BY <2>2, <2>6, PendingMeans DEF TypeOK
  <2>9. PendingOnce'
    <3>1. DOMAIN accepting' = {}
      BY <2>3
    <3>2. ASSUME NEW q \in Peers, ~exposed'[q], Pending(q)' PROVE endpoint'[q] = 0
      BY <2>3, <2>7, <2>8, <3>2 DEF PendingOnce
    <3> QED
      BY <2>3, <3>1, <3>2 DEF PendingOnce
  <2>10. OneSocketPerPeer'
    <3>1. ~exposed[p] => endpoint'[p] = s /\ s # 0
      BY <2>2, <2>7, BoundsAssumption DEF TypeOK, Numbers
    <3> QED
      BY <2>3, <2>4, <2>7, <2>8, <3>1 DEF OneSocketPerPeer
  <2> QED
    BY <2>9, <2>10
<1>4. ASSUME NEW s \in Numbers, Receive(s) PROVE PendingOnce' /\ OneSocketPerPeer'
  <2>1. \A n \in Numbers : sockets'[n].peer = sockets[n].peer
    BY <1>4 DEF Receive, TypeOK, Sockets
  <2> QED
    BY <1>4, <1>a, <2>1, SamePeers, QuietStep DEF Receive, TypeOK
<1>5. ASSUME NEW s \in Numbers, CloseSocket(s), UNCHANGED <<waiting, accepting, exposed>>
      PROVE  PendingOnce' /\ OneSocketPerPeer'
  <2>1. \A p \in Peers :
          /\ SocketsOf(p)' = SocketsOf(p) \ {s}
          /\ endpoint'[p] = IF endpoint[p] = s THEN 0 ELSE endpoint[p]
    BY <1>5, CloseFacts
  <2>2. PendingOnce'
    BY <1>5, <2>1 DEF PendingOnce, Pending
  <2>3. OneSocketPerPeer'
    BY <1>5, <2>1 DEF OneSocketPerPeer
  <2> QED
    BY <2>2, <2>3
<1>6. ASSUME NEW s \in Numbers, SocketError(s)
      PROVE  PendingOnce' /\ OneSocketPerPeer'
  <2>1. CASE CloseSocket(s)
    BY <1>5, <1>6, <2>1 DEF SocketError
  <2>2. CASE ~CloseSocket(s)
    <3>1. \A n \in Numbers : sockets'[n].peer = sockets[n].peer
      <4>1. sockets' = [sockets EXCEPT ![s].reading = FALSE]
        BY <1>6, <2>2 DEF SocketError
      <4> QED
        BY <4>1 DEF TypeOK, Sockets
    <3>2. UNCHANGED <<waiting, accepting, endpoint, exposed>>
      BY <1>6, <2>2 DEF SocketError
    <3>3. \A p \in Peers : SocketsOf(p)' = SocketsOf(p)
      BY <1>a, <3>1, SamePeers DEF TypeOK
    <3> QED
      BY <3>2, <3>3, QuietStep
  <2> QED
    BY <2>1, <2>2
<1>7. ASSUME NEW p \in Peers, Idle(p) PROVE PendingOnce' /\ OneSocketPerPeer'
  <2>1. endpoint[p] \in Numbers
    BY <1>7, BoundsAssumption DEF Idle, TypeOK, Numbers
  <2> QED
    BY <1>5, <1>7, <2>1 DEF Idle
<1>8. ASSUME NEW p \in Peers, ConnectOut(p) PROVE PendingOnce' /\ OneSocketPerPeer'
  <2>1. PICK s \in Numbers : /\ sockets[s].peer = NoPeer
                              /\ Open(s, p, TRUE, <<>>)
                              /\ endpoint' = [endpoint EXCEPT ![p] = s]
    BY <1>8 DEF ConnectOut, IsNext, SocketsOf
  <2>2. /\ SocketsOf(p)' = SocketsOf(p) \cup {s}
        /\ \A q \in Peers \ {p} : SocketsOf(q)' = SocketsOf(q)
    BY <2>1, OpenFacts, Zenon
  <2>3. /\ endpoint[p] = 0 /\ endpoint'[p] = s /\ s # 0
        /\ \A q \in Peers \ {p} : endpoint'[q] = endpoint[q]
    BY <1>8, <2>1, BoundsAssumption DEF ConnectOut, TypeOK, Numbers
  <2>4. UNCHANGED <<waiting, accepting>>
    BY <1>8 DEF ConnectOut
  <2>5. /\ ~exposed'[p] => ~exposed[p] /\ ~Pending(p)
        /\ \A q \in Peers \ {p} : exposed'[q] = exposed[q]
    <3>1. /\ exposed' = [exposed EXCEPT ![p] = exposed[p] \/ Pending(p)]
          /\ exposed \in [Peers -> BOOLEAN]
      BY <1>8 DEF ConnectOut, TypeOK
    <3>2. exposed'[p] <=> exposed[p] \/ Pending(p)
      BY <3>1, Zenon
    <3> QED
      BY <3>1, <3>2
  <2>6. \A q \in Peers : Pending(q)' <=> Pending(q)
    BY <2>4 DEF Pending
  <2>7. PendingOnce'
    BY <2>3, <2>4, <2>5, <2>6 DEF PendingOnce
  <2>8. OneSocketPerPeer'
    BY <2>2, <2>3, <2>5 DEF OneSocketPerPeer
  <2> QED
    BY <2>7, <2>8
<1>9. ASSUME NEW p \in Peers, Expire(p) PROVE PendingOnce' /\ OneSocketPerPeer'
  BY <1>9, QuietStep DEF Expire, SocketsOf
<1>10. CASE Restart
  <2>1. \A p \in Peers : SocketsOf(p)' = {} /\ endpoint'[p] = 0
    BY <1>10, NoPeerAssumption DEF Restart, NoSockets, Closed, SocketsOf, All
  <2>2. waiting' = <<>> /\ accepting' = <<>>
    BY <1>10 DEF Restart
  <2> QED
    BY <2>1, <2>2 DEF PendingOnce, OneSocketPerPeer, Pending, ToSet
<1>11. CASE UNCHANGED vars
  BY <1>11, QuietStep DEF vars, SocketsOf
<1> QED
  BY <1>1, <1>2, <1>3, <1>4, <1>6, <1>7, <1>8, <1>9, <1>10, <1>11 DEF Next

-----------------------------------------------------------------------------
(* What the peers are told. *)

\* In a queue of datagrams of the kind "Other" every one is of that kind, also
\* after one is added or taken.
LEMMA QuietQueues ==
  ASSUME NEW max \in Nat, NEW q \in Queues(max), Quiet(q)
  PROVE  /\ \A d \in Datagrams : d.kind = "Other" => Quiet(Append(q, d))
         /\ q # <<>> => Head(q).kind = "Other" /\ Quiet(Tail(q)) /\ Quiet(<<Head(q)>>)
<1>1. q \in Seq(Datagrams)
  BY DEF Queues
<1>2. ASSUME NEW d \in Datagrams, d.kind = "Other" PROVE Quiet(Append(q, d))
  BY <1>1, <1>2 DEF Quiet
<1>3. ASSUME q # <<>> PROVE Head(q).kind = "Other" /\ Quiet(Tail(q)) /\ Quiet(<<Head(q)>>)
  <2>1. 1 \in DOMAIN q /\ Head(q) = q[1]
    BY <1>1, <1>3
  <2>2. \A i \in DOMAIN Tail(q) : i + 1 \in DOMAIN q /\ Tail(q)[i] = q[i + 1]
    BY <1>1, <1>3
  <2> QED
    BY <2>1, <2>2 DEF Quiet
<1> QED
  BY <1>2, <1>3

\* Every step keeps the SIP side free of EConnect.
LEMMA SipStep == TypeOK /\ SipHearsNoConnect /\ [Next]_vars => SipHearsNoConnect'
<1> SUFFICES ASSUME TypeOK, SipHearsNoConnect, [Next]_vars, owner' = "sip"
             PROVE  /\ \A p \in Peers : ~told'[p]
                    /\ Quiet(waiting') /\ Quiet(accepting') /\ Quiet(early')
                    /\ \A s \in Numbers : Quiet(sockets'[s].queue)
  BY DEF SipHearsNoConnect, Quiet
<1> DEFINE Goal == /\ \A p \in Peers : ~told'[p]
                   /\ Quiet(waiting') /\ Quiet(accepting') /\ Quiet(early')
                   /\ \A s \in Numbers : Quiet(sockets'[s].queue)
<1> USE BoundsAssumption
<1>a. owner = "sip"
  BY DEF Next, vars, Arrive, AcceptBegin, AcceptConnect, Receive, SocketError,
         Idle, ConnectOut, Expire, Restart
<1>b. /\ \A p \in Peers : told[p] = FALSE
      /\ Quiet(waiting) /\ Quiet(accepting) /\ Quiet(early)
      /\ \A s \in Numbers : Quiet(sockets[s].queue)
  BY <1>a DEF SipHearsNoConnect, TypeOK
<1>c. Quiet(<<>>)
  BY DEF Quiet
<1>1. ASSUME NEW d \in Datagrams, Arrive(d) PROVE Goal
  <2>1. d.kind = "Other" /\ UNCHANGED <<accepting, told>>
    BY <1>1, <1>a DEF Arrive, links
  <2>2. Quiet(waiting')
    <3>1. waiting' = waiting \/ waiting' = Append(waiting, d)
      BY <1>1, Zenon DEF Arrive
    <3>2. Quiet(Append(waiting, d))
      BY <1>b, <2>1, QuietQueues DEF TypeOK
    <3> QED
      BY <1>b, <3>1, <3>2
  <2>3. Quiet(early')
    BY <1>1, <1>b, <2>1, QuietQueues, ZenonT(60) DEF Arrive, TypeOK
  <2>4. ASSUME NEW n \in Numbers, Queue(n, d), NEW s \in Numbers
        PROVE  Quiet(sockets'[s].queue)
    <3>1. sockets[n] \in Sockets
      BY DEF TypeOK
    <3>2. Quiet(Append(sockets[n].queue, d))
      BY <1>b, <2>1, <3>1, QuietQueues DEF Sockets
    <3>3. sockets'[s].queue = IF s = n THEN Append(sockets[n].queue, d)
                                        ELSE sockets[s].queue
      BY <2>4, <3>1 DEF Queue, TypeOK, Sockets
    <3> QED
      BY <1>b, <3>2, <3>3
  <2>5. UNCHANGED sockets \/ \E n \in Numbers : Queue(n, d)
    BY <1>1 DEF Arrive, Connected, SocketsOf
  <2> QED
    BY <1>b, <2>1, <2>2, <2>3, <2>4, <2>5
<1>2. CASE AcceptBegin
  BY <1>2, <1>b, QuietQueues DEF AcceptBegin, TypeOK, links
<1>3. CASE AcceptConnect
  <2>1. Head(accepting).kind = "Other"
    BY <1>3, <1>b, QuietQueues DEF AcceptConnect, TypeOK
  <2>2. told' = told \/ told' = [told EXCEPT ![Head(accepting).from] = @ \/ FALSE]
    BY <1>3, <2>1 DEF AcceptConnect, Hear, Answer
  <2>3. \A p \in Peers : ~told'[p]
    BY <1>b, <2>2 DEF TypeOK
  <2>4. \A s \in Numbers : Quiet(sockets'[s].queue)
    BY <1>3, <1>b DEF AcceptConnect, Open, TypeOK
  <2> QED
    BY <1>3, <1>b, <1>c, <2>3, <2>4 DEF AcceptConnect
<1>4. ASSUME NEW s \in Numbers, Receive(s) PROVE Goal
  <2>0. sockets[s] \in Sockets /\ sockets[s].queue # <<>>
    BY <1>4 DEF Receive, TypeOK
  <2>1. Head(sockets[s].queue).kind = "Other" /\ Quiet(Tail(sockets[s].queue))
    BY <1>b, <2>0, QuietQueues DEF Sockets
  <2>2. told' = told \/ told' = [told EXCEPT ![sockets[s].peer] = @ \/ FALSE]
    BY <1>4, <2>1 DEF Receive, Hear, Answer
  <2>3. \A p \in Peers : ~told'[p]
    BY <1>b, <2>2 DEF TypeOK
  <2>4. \A n \in Numbers : sockets'[n].queue = IF n = s THEN Tail(sockets[s].queue)
                                                   ELSE sockets[n].queue
    BY <1>4, <2>0 DEF Receive, TypeOK, Sockets
  <2> QED
    BY <1>4, <1>b, <2>1, <2>3, <2>4 DEF Receive
<1>5. ASSUME NEW s \in Numbers, CloseSocket(s) PROVE \A n \in Numbers : Quiet(sockets'[n].queue)
  BY <1>5, <1>b, <1>c DEF CloseSocket, Closed, TypeOK
<1>6. ASSUME NEW s \in Numbers, SocketError(s) PROVE Goal
  <2>1. CloseSocket(s)
    BY <1>6, <1>a DEF SocketError
  <2> QED
    BY <1>5, <1>6, <1>b, <2>1 DEF SocketError, links
<1>7. ASSUME NEW p \in Peers, Idle(p) PROVE Goal
  <2>1. endpoint[p] \in Numbers
    BY <1>7 DEF Idle, TypeOK, Numbers
  <2> QED
    BY <1>5, <1>7, <1>b, <2>1 DEF Idle, links
<1>8. ASSUME NEW p \in Peers, ConnectOut(p) PROVE Goal
  BY <1>8, <1>b, <1>c DEF ConnectOut, Open, TypeOK, links
<1>9. ASSUME NEW p \in Peers, Expire(p) PROVE Goal
  BY <1>9, <1>b DEF Expire
<1>10. CASE Restart
  BY <1>10, <1>c DEF Restart, All, NoSockets, Closed
<1>11. CASE UNCHANGED vars
  BY <1>11, <1>b DEF vars
<1> QED
  BY <1>1, <1>2, <1>3, <1>4, <1>6, <1>7, <1>8, <1>9, <1>10, <1>11 DEF Next

\* Every step keeps the promise behind an EConnectOK.
LEMMA OkStep == DemuxInv /\ [Next]_vars => OkMeansConnected'
<1> SUFFICES ASSUME DemuxInv, [Next]_vars,
                    NEW p \in Peers, told'[p], ~exposed'[p]
             PROVE  endpoint'[p] # 0 /\ (up'[p] \/ expired'[p])
  BY DEF OkMeansConnected
<1> DEFINE Goal == endpoint'[p] # 0 /\ (up'[p] \/ expired'[p])
<1>a. /\ TypeOK
      /\ ~exposed[p] /\ told[p] => endpoint[p] # 0 /\ (up[p] \/ expired[p])
      /\ ~exposed[p] => SocketsOf(p) = {endpoint[p]} \ {0}
      /\ owner = "sip" => ~told[p]
  BY DEF DemuxInv, OkMeansConnected, OneSocketPerPeer, SipHearsNoConnect
<1>b. /\ told \in [Peers -> BOOLEAN] /\ up \in [Peers -> BOOLEAN]
      /\ expired \in [Peers -> BOOLEAN]
      /\ endpoint \in [Peers -> 0 .. MaxSockets]
  BY <1>a DEF TypeOK
<1>1. ASSUME NEW d \in Datagrams, Arrive(d) PROVE Goal
  <2>1. UNCHANGED <<told, expired, endpoint, up>>
    BY <1>1 DEF Arrive, links
  <2>2. ~exposed[p]
    BY <1>1, <1>a DEF Arrive, TypeOK
  <2> QED
    BY <1>a, <2>1, <2>2
<1>2. CASE AcceptBegin
  BY <1>2, <1>a DEF AcceptBegin, links
<1>3. CASE AcceptConnect
  <2>1. PICK q \in Peers : q = Head(accepting).from
    BY <1>3, <1>a, QueueShrinks DEF AcceptConnect, Datagrams, TypeOK
  <2>2. PICK s \in Numbers : endpoint' = [endpoint EXCEPT ![q] = IF @ = 0 THEN s ELSE @]
    BY <1>3, <2>1 DEF AcceptConnect
  <2>3. PICK c \in BOOLEAN : \/ /\ endpoint[q] = 0
                               /\ up' = [up EXCEPT ![q] = @ \/ c]
                               /\ told' = [told EXCEPT ![q] = @ \/ c]
                               /\ expired' = [expired EXCEPT ![q] = @ /\ ~c]
                            \/ /\ endpoint[q] # 0
                               /\ told' = [told EXCEPT ![q] = @ \/ c]
                               /\ expired' = [expired EXCEPT ![q] = @ /\ ~c]
                               /\ UNCHANGED up
    BY <1>3, <2>1 DEF AcceptConnect, Hear, Answer
  <2>4. ~exposed[p]
    BY <1>3 DEF AcceptConnect
  <2>5. CASE p # q
    BY <1>a, <1>b, <2>2, <2>3, <2>4, <2>5
  <2>6. CASE p = q
    <3>1. 1 \in DOMAIN accepting /\ accepting[1].from = q
      BY <1>3, <1>a, <2>1 DEF AcceptConnect, TypeOK, Queues
    <3>2. endpoint[q] = 0
      BY <2>4, <2>6, <3>1, PendingMeans DEF DemuxInv, PendingOnce
    <3>3. endpoint'[q] # 0
      BY <1>b, <2>2, <3>2 DEF Numbers
    <3>4. ~told[q]
      BY <1>a, <2>4, <2>6, <3>2
    <3> QED
      BY <1>b, <2>3, <2>6, <3>2, <3>3, <3>4
  <2> QED
    BY <2>5, <2>6
<1>4. ASSUME NEW s \in Numbers, Receive(s) PROVE Goal
  <2>1. UNCHANGED <<endpoint, exposed>>
    BY <1>4 DEF Receive
  <2> DEFINE r == sockets[s].peer
  <2>2. CASE p # r
    <3>1. told'[p] = told[p] /\ up'[p] = up[p] /\ expired'[p] = expired[p]
      BY <1>4, <1>b, <2>2 DEF Receive, Hear, Answer
    <3> QED
      BY <1>a, <2>1, <3>1
  <2>3. CASE p = r
    <3>1. s \in SocketsOf(p)
      BY <2>3 DEF SocketsOf
    <3>2. endpoint[p] = s /\ s # 0
      BY <1>a, <2>1, <3>1
    <3>3. PICK c \in BOOLEAN : /\ up' = [up EXCEPT ![p] = @ \/ c]
                               /\ told' = [told EXCEPT ![p] = @ \/ c]
                               /\ expired' = [expired EXCEPT ![p] = @ /\ ~c]
      BY <1>4, <2>3, <3>2 DEF Receive, Hear, Answer
    <3> QED
      BY <1>a, <1>b, <2>1, <3>2, <3>3
  <2> QED
    BY <2>2, <2>3
<1>5. ASSUME owner = "sip", UNCHANGED told PROVE FALSE
  BY <1>5, <1>a
<1>6. ASSUME NEW s \in Numbers, SocketError(s) PROVE Goal
  <2>1. UNCHANGED <<told, expired, up, exposed>>
    BY <1>6 DEF SocketError, links
  <2>2. CASE UNCHANGED endpoint
    BY <1>a, <2>1, <2>2
  <2>3. CASE ~UNCHANGED endpoint
    <3>1. CloseSocket(s) /\ endpoint[sockets[s].peer] # s
      BY <1>5, <1>6, <2>1, <2>3 DEF SocketError
    <3>2. endpoint[p] # 0 /\ (up[p] \/ expired[p]) /\ endpoint[p] \in SocketsOf(p)
      BY <1>a, <2>1
    <3>3. endpoint[p] # s
      BY <3>1, <3>2 DEF SocketsOf
    <3>4. endpoint'[p] = endpoint[p]
      BY <3>1, <3>3 DEF CloseSocket
    <3> QED
      BY <2>1, <3>2, <3>4
  <2> QED
    BY <2>2, <2>3
<1>7. ASSUME NEW q \in Peers, Idle(q) PROVE Goal
  BY <1>5, <1>7 DEF Idle, links
<1>8. ASSUME NEW q \in Peers, ConnectOut(q) PROVE Goal
  BY <1>5, <1>8 DEF ConnectOut, links
<1>9. ASSUME NEW q \in Peers, Expire(q) PROVE Goal
  <2>1. UNCHANGED <<told, endpoint, exposed>>
    BY <1>9 DEF Expire
  <2>2. up'[p] \/ expired'[p]
    BY <1>9, <1>a, <1>b, <2>1 DEF Expire
  <2> QED
    BY <1>a, <2>1, <2>2
<1>10. CASE Restart
  BY <1>10 DEF Restart, All
<1>11. CASE UNCHANGED vars
  BY <1>11, <1>a DEF vars, links
<1> QED
  BY <1>1, <1>2, <1>3, <1>4, <1>6, <1>7, <1>8, <1>9, <1>10, <1>11 DEF Next

-----------------------------------------------------------------------------
(* The theorems. *)

\* All sockets are closed and nobody has been told anything at the start.
LEMMA DemuxInit == Init => DemuxInv
<1> SUFFICES ASSUME Init PROVE DemuxInv
  OBVIOUS
<1> USE BoundsAssumption DEF Init, All
<1>1. TypeOK
  BY ClosedIsSocket, QueueBegins DEF TypeOK, NoSockets
<1>2. \A p \in Peers : SocketsOf(p) = {}
  BY NoPeerAssumption DEF SocketsOf, NoSockets, Closed
<1>3. \A p \in Peers : ~Pending(p)
  BY DEF Pending, ToSet
<1>4. PendingOnce /\ OneSocketPerPeer /\ OkMeansConnected
  BY <1>2, <1>3 DEF PendingOnce, OneSocketPerPeer, OkMeansConnected
<1>5. SipHearsNoConnect
  BY DEF SipHearsNoConnect, Quiet, NoSockets, Closed
<1> QED
  BY <1>1, <1>4, <1>5 DEF DemuxInv

\* The variables keep their types, whatever the peers send and the kernel picks.
THEOREM DemuxTypeCorrect == Spec => []TypeOK
<1>1. Init => TypeOK
  BY DemuxInit DEF DemuxInv
<1>2. TypeOK /\ [Next]_vars => TypeOK'
  BY TypeStep
<1> QED
  BY <1>1, <1>2, PTL DEF Spec

\* The inductive invariant of the port that many peers share.
THEOREM DemuxInvariant == Spec => []DemuxInv
<1>1. Init => DemuxInv
  BY DemuxInit
<1>2. DemuxInv /\ [Next]_vars => DemuxInv'
  BY TypeStep, SocketStep, SipStep, OkStep DEF DemuxInv
<1> QED
  BY <1>1, <1>2, PTL DEF Spec

\* A peer that never met the listening socket a second time has the socket of
\* its endpoint and no other (handle_listen, onAccept).
THEOREM OneSocketPerPeerHolds == Spec => []OneSocketPerPeer
<1>1. DemuxInv => OneSocketPerPeer
  BY DEF DemuxInv
<1> QED
  BY <1>1, DemuxInvariant, PTL

\* Such a peer, once sent an EConnectOK, has a link that is connected unless its
\* own timer ran out since (VPNLinkBase::onReceive and timer_tick of an accepted
\* link).
THEOREM OkMeansConnectedHolds == Spec => []OkMeansConnected
<1>1. DemuxInv => OkMeansConnected
  BY DEF DemuxInv
<1> QED
  BY <1>1, DemuxInvariant, PTL
=============================================================================
