----------------------------- MODULE StreamLinkProofs -----------------------------
(***************************************************************************)
(* Proofs about StreamLink, for any number of connections and any bounds:  *)
(* the types, the EConnectOK that stands, and delivery in order over TCP   *)
(* and TLS.                                                                *)
(***************************************************************************)
EXTENDS StreamLink, FiniteSetTheorems, SequenceTheorems, TLAPS

-----------------------------------------------------------------------------
(* Sequences and items. *)

\* A sequence is its first k elements and the rest.
LEMMA Cut ==
  ASSUME NEW S, NEW q \in Seq(S), NEW k \in 0 .. Len(q)
  PROVE  /\ SubSeq(q, 1, k) \in Seq(S) /\ Len(SubSeq(q, 1, k)) = k
         /\ \A i \in 1 .. k : SubSeq(q, 1, k)[i] = q[i]
         /\ SubSeq(q, k + 1, Len(q)) \in Seq(S)
         /\ Len(SubSeq(q, k + 1, Len(q))) = Len(q) - k
         /\ \A i \in 1 .. Len(q) - k : SubSeq(q, k + 1, Len(q))[i] = q[i + k]
         /\ SubSeq(q, 1, k) \o SubSeq(q, k + 1, Len(q)) = q
<1> DEFINE a == SubSeq(q, 1, k)
           b == SubSeq(q, k + 1, Len(q))
<1>1. Len(q) \in Nat /\ DOMAIN q = 1 .. Len(q) /\ k \in Nat
  OBVIOUS
<1>2. /\ a \in Seq(S) /\ Len(a) = IF 1 <= k THEN k - 1 + 1 ELSE 0
      /\ \A i \in 1 .. k - 1 + 1 : a[i] = q[1 + i - 1]
  <2>1. \A i \in 1 .. k : q[i] \in S
    BY <1>1
  <2> QED
    BY <1>1, <2>1, SubSeqProperties
<1>3. Len(a) = k /\ \A i \in 1 .. k : a[i] = q[i]
  BY <1>1, <1>2
<1>4. \A m \in Int : (\A i \in m .. Len(q) : q[i] \in S) =>
        /\ SubSeq(q, m, Len(q)) \in Seq(S)
        /\ Len(SubSeq(q, m, Len(q))) = IF m <= Len(q) THEN Len(q) - m + 1 ELSE 0
        /\ \A i \in 1 .. Len(q) - m + 1 : SubSeq(q, m, Len(q))[i] = q[m + i - 1]
  BY <1>1, SubSeqProperties
<1>5. /\ b \in Seq(S) /\ Len(b) = Len(q) - k
      /\ \A i \in 1 .. Len(q) - k : b[i] = q[i + k]
  <2>1. PICK m \in Int : m = k + 1
    BY <1>1
  <2>2. \A i \in m .. Len(q) : q[i] \in S
    BY <1>1, <2>1
  <2>3. b = SubSeq(q, m, Len(q))
    BY <2>1
  <2> HIDE DEF b
  <2>4. /\ b \in Seq(S) /\ Len(b) = IF m <= Len(q) THEN Len(q) - m + 1 ELSE 0
        /\ \A i \in 1 .. Len(q) - m + 1 : b[i] = q[m + i - 1]
    BY <1>4, <2>2, <2>3
  <2>5. (IF m <= Len(q) THEN Len(q) - m + 1 ELSE 0) = Len(q) - k /\ Len(q) - m + 1 = Len(q) - k
    <3>1. \A x \in Nat : \A y \in 0 .. x :
            (IF y + 1 <= x THEN x - (y + 1) + 1 ELSE 0) = x - y /\ x - (y + 1) + 1 = x - y
      OBVIOUS
    <3> QED
      BY <1>1, <2>1, <3>1
  <2>6. \A i \in 1 .. Len(q) - k : m + i - 1 = i + k
    BY <1>1, <2>1
  <2> QED
    BY <2>4, <2>5, <2>6
<1> HIDE DEF a, b
<1>6. a \o b = q
  <2>1. /\ a \o b \in Seq(S) /\ Len(a \o b) = Len(a) + Len(b)
        /\ \A i \in 1 .. Len(a) + Len(b) : (a \o b)[i] = IF i <= Len(a) THEN a[i] ELSE b[i - Len(a)]
    BY <1>2, <1>5, ConcatProperties
  <2>2. Len(a \o b) = Len(q)
    BY <1>1, <1>3, <1>5, <2>1
  <2>3. ASSUME NEW i \in 1 .. Len(q) PROVE (a \o b)[i] = q[i]
    <3>1. CASE i <= k
      BY <1>1, <1>3, <1>5, <2>1, <3>1
    <3>2. CASE ~ i <= k
      <4>1. i - k \in 1 .. Len(q) - k /\ i - k + k = i
        BY <1>1, <3>2
      <4> QED
        BY <1>1, <1>3, <1>5, <2>1, <3>2, <4>1
    <3> QED
      BY <3>1, <3>2
  <2> QED
    BY <2>1, <2>2, <2>3, SeqEqual
<1> QED
  BY <1>2, <1>3, <1>5, <1>6 DEF a, b

\* Taking the first element before or after adding at the end.
LEMMA TailFirst ==
  ASSUME NEW S, NEW p \in Seq(S), p # <<>>, NEW r \in Seq(S)
  PROVE  /\ p \o r \in Seq(S) /\ p \o r # <<>> /\ Tail(p) \in Seq(S)
         /\ Head(p \o r) = Head(p) /\ Head(p) \in S
         /\ Tail(p \o r) = Tail(p) \o r
<1>1. /\ p \o r \in Seq(S) /\ Len(p \o r) = Len(p) + Len(r)
      /\ \A i \in 1 .. Len(p) + Len(r) : (p \o r)[i] = IF i <= Len(p) THEN p[i] ELSE r[i - Len(p)]
  BY ConcatProperties
<1>2. Len(p) \in Nat \ {0} /\ Len(r) \in Nat
  OBVIOUS
<1>3. p \o r # <<>>
  BY <1>1, <1>2
<1>4. /\ Head(p) \in S /\ Tail(p) \in Seq(S) /\ Len(Tail(p)) = Len(p) - 1
      /\ \A i \in 1 .. Len(Tail(p)) : Tail(p)[i] = p[i + 1]
  BY HeadTailProperties
<1>5. /\ Tail(p \o r) \in Seq(S) /\ Len(Tail(p \o r)) = Len(p \o r) - 1
      /\ \A i \in 1 .. Len(Tail(p \o r)) : Tail(p \o r)[i] = (p \o r)[i + 1]
  BY <1>1, <1>3, HeadTailProperties
<1>6. /\ Tail(p) \o r \in Seq(S) /\ Len(Tail(p) \o r) = Len(Tail(p)) + Len(r)
      /\ \A i \in 1 .. Len(Tail(p)) + Len(r) :
           (Tail(p) \o r)[i] = IF i <= Len(Tail(p)) THEN Tail(p)[i] ELSE r[i - Len(Tail(p))]
  BY <1>4, ConcatProperties
<1>7. Len(Tail(p \o r)) = Len(Tail(p) \o r)
  BY <1>1, <1>2, <1>4, <1>5, <1>6
<1>8. ASSUME NEW i \in 1 .. Len(Tail(p \o r)) PROVE Tail(p \o r)[i] = (Tail(p) \o r)[i]
  <2>1. i \in Nat /\ i >= 1 /\ i + 1 <= Len(p) + Len(r) /\ i + 1 \in 1 .. Len(p) + Len(r)
    BY <1>1, <1>2, <1>5
  <2>2. Tail(p \o r)[i] = IF i + 1 <= Len(p) THEN p[i + 1] ELSE r[i + 1 - Len(p)]
    BY <1>1, <1>5, <2>1
  <2>3. CASE i + 1 <= Len(p)
    BY <1>2, <1>4, <1>6, <2>1, <2>2, <2>3
  <2>4. CASE ~ i + 1 <= Len(p)
    <3>1. i - Len(Tail(p)) = i + 1 - Len(p) /\ ~ i <= Len(Tail(p)) /\ i \in 1 .. Len(Tail(p)) + Len(r)
      BY <1>2, <1>4, <2>1, <2>4
    <3> QED
      BY <1>6, <2>2, <2>4, <3>1
  <2> QED
    BY <2>3, <2>4
<1>9. Tail(p \o r) = Tail(p) \o r
  BY <1>5, <1>6, <1>7, <1>8, SeqEqual
<1>10. Head(p \o r) = Head(p)
  BY <1>1, <1>2
<1> QED
  BY <1>1, <1>3, <1>4, <1>9, <1>10

\* Items are items.
LEMMA ItemTypes ==
  /\ Junk \in Items
  /\ \A kind \in Kinds : Flight(kind) \in Items
  /\ \A kind \in Kinds, id \in 0 .. MaxPayload, session \in 0 .. MaxConns :
       Item(kind, id, session) \in Items
BY StreamAssumption DEF Items, Item, Junk, Flight, Kinds

\* How many payloads are sent: none or the one message.
LEMMA PayloadCount ==
  /\ Payloads(<<>>) = 0
  /\ \A x : Payloads(<<x>>) = IF x.kind = "Payload" THEN 1 ELSE 0
  /\ \A x, y : x.kind # "Payload" /\ y.kind # "Payload" => Payloads(<<x, y>>) = 0
<1>1. Payloads(<<>>) = 0
  <2>1. {i \in DOMAIN <<>> : <<>>[i].kind = "Payload"} = {}
    OBVIOUS
  <2> QED
    BY <2>1, FS_EmptySet DEF Payloads
<1>2. ASSUME NEW x PROVE Payloads(<<x>>) = IF x.kind = "Payload" THEN 1 ELSE 0
  <2>1. CASE x.kind = "Payload"
    <3>1. {i \in DOMAIN <<x>> : <<x>>[i].kind = "Payload"} = {1}
      BY <2>1
    <3> QED
      BY <2>1, <3>1, FS_Singleton DEF Payloads
  <2>2. CASE x.kind # "Payload"
    <3>1. {i \in DOMAIN <<x>> : <<x>>[i].kind = "Payload"} = {}
      BY <2>2
    <3> QED
      BY <2>2, <3>1, FS_EmptySet DEF Payloads
  <2> QED
    BY <2>1, <2>2
<1>3. ASSUME NEW x, NEW y, x.kind # "Payload", y.kind # "Payload"
      PROVE  Payloads(<<x, y>>) = 0
  <2>1. {i \in DOMAIN <<x, y>> : <<x, y>>[i].kind = "Payload"} = {}
    BY <1>3
  <2> QED
    BY <2>1, FS_EmptySet DEF Payloads
<1> QED
  BY <1>1, <1>2, <1>3

-----------------------------------------------------------------------------
(* The types, and what is known of connections to come. *)

\* No payload was put on a connection that was not counted.
Counted == \A d \in Directions, n \in Conns : sent[d][n] <= payloads

\* A connection that is not established carries nothing, but what the client
\* sends ahead of handle_connect.
Unused(n) ==
  /\ accepted[n] = NoAccepted("none") /\ toClient[n] = <<>>
  /\ n # client.conn + 1 \/ client.sock # "connecting" =>
       toServer[n] = <<>> /\ sent["up"][n] = 0
  /\ sent["down"][n] = 0 /\ handed["up"][n] = <<>> /\ handed["down"][n] = <<>>

Fresh ==
  /\ client.conn = 0 => client.sock \in {"waiting", "connecting"}
  /\ \A n \in Conns : n > client.conn => Unused(n)
  /\ okOn <= client.conn

BaseInv == TypeOK /\ Counted /\ Fresh

\* The client's object says one thing, or nothing.
Says(obj, x) ==
  /\ x.kind \in {"Connect", "Ping", "Payload", "ClientHello"}
  /\ x.kind = "ClientHello" => type = "tls" /\ obj.ssl = "hello"
  /\ x.kind = "Payload" =>
       /\ payloads' = payloads + 1 /\ payloads < MaxPayload
       /\ Carrier # 0 => x.id = sent["up"][Carrier] + 1

\* What a handler that receives nothing makes of the client's object.
Became(obj) ==
  /\ obj \in ClientType /\ obj.conn = client.conn /\ obj.backlog = client.backlog
  /\ \/ /\ obj.sock = client.sock /\ obj.handshaking = client.handshaking
        /\ obj.ssl = client.ssl \/ (client.ssl = "before" /\ obj.ssl = "hello")
     \/ /\ client.sock = "established" /\ obj.sock = "open"
        /\ type = "tls" =>
             /\ obj.handshaking
             /\ obj.ssl = "hello" \/ (client.ssl = "done" /\ obj.ssl = "done")

TalkStep(obj, out) ==
  /\ Became(obj) /\ client' = obj /\ FromClient(out)
  /\ out = <<>> \/ \E x \in Items : out = <<x>> /\ Says(obj, x)
  /\ payloads' \in payloads .. MaxPayload
  /\ UNCHANGED <<type, accepted, broken, toClient, okOn, handed>>

Talks == \E obj, out : TalkStep(obj, out)

\* The connection that carries what the client sends.
LEMMA CarrierType ==
  ASSUME TypeOK, Fresh
  PROVE  /\ Carrier \in 0 .. MaxConns
         /\ Carrier # 0 =>
              /\ Carrier \in Conns /\ (~broken[Carrier] \/ client.sock = "connecting")
              /\ \/ client.sock \in {"established", "open"} /\ Carrier = client.conn
                 \/ client.sock = "connecting" /\ Carrier = client.conn + 1
BY StreamAssumption DEF TypeOK, Fresh, ClientType, Carrier, Up, Conns

\* send of the client: the message, a ClientHello, or nothing.
LEMMA ClientWriteFacts ==
  ASSUME NEW c \in ClientType, NEW kind \in Kinds, NEW id \in 0 .. MaxPayload,
         type \in {"tcp", "tls"}, Carrier \in 0 .. MaxConns,
         NEW w, w = ClientWrite(c, kind, id)
  PROVE  /\ w.obj \in ClientType
         /\ w.obj.conn = c.conn /\ w.obj.backlog = c.backlog /\ w.obj.sock = c.sock
         /\ w.obj.handshaking = c.handshaking
         /\ w.obj.ssl = c.ssl \/ (c.ssl = "before" /\ w.obj.ssl = "hello")
         /\ w.obj.connected = c.connected /\ w.obj.activity = c.activity
         /\ \/ w.out = <<>>
            \/ w.out = <<Item(kind, id, 0)>>
            \/ w.out = <<Item(kind, id, c.session)>>
            \/ w.out = <<Flight("ClientHello")>> /\ type = "tls" /\ w.obj.ssl = "hello"
         /\ type = "tls" /\ c.ssl = "done" /\ ~c.handshaking =>
              w.obj = c /\ w.out = <<Item(kind, id, c.session)>>
<1>1. CASE type = "tcp"
  BY <1>1 DEF ClientWrite, Result, ClientType
<1>2. CASE type # "tcp" /\ (c.handshaking \/ c.ssl = "hello")
  BY <1>2 DEF ClientWrite, Result, ClientType
<1>3. CASE type # "tcp" /\ ~c.handshaking /\ c.ssl = "done"
  BY <1>3 DEF ClientWrite, Result, ClientType
<1>4. CASE type # "tcp" /\ ~c.handshaking /\ c.ssl = "before"
  <2>1. /\ w.obj = [c EXCEPT !.ssl = "hello", !.session = Carrier]
        /\ w.out = <<Flight("ClientHello")>>
    BY <1>4 DEF ClientWrite, Result
  <2> QED
    BY <1>4, <2>1 DEF ClientType
<1> QED
  BY <1>1, <1>2, <1>3, <1>4 DEF ClientType

\* The four handlers of the client that receive nothing and may send.
LEMMA ClientTalks ==
  ASSUME BaseInv, ClientConnected \/ ClientTick \/ ClientSend \/ ClientSetupDataConn
  PROVE  Talks
<1> USE StreamAssumption
<1>1. /\ client \in ClientType /\ type \in {"tcp", "tls"} /\ Carrier \in 0 .. MaxConns
      /\ payloads \in 0 .. MaxPayload /\ 0 \in 0 .. MaxPayload
  BY CarrierType DEF BaseInv, TypeOK
<1>2. {"Connect", "Ping", "Payload"} \subseteq Kinds
  BY DEF Kinds
\* A message that is no payload, and one that is.
<1>3. ASSUME NEW c \in ClientType, NEW kind \in {"Connect", "Ping"}, NEW x,
             x \in {Item(kind, 0, 0), Item(kind, 0, c.session)}
      PROVE  \A obj : x \in Items /\ Says(obj, x)
  <2>1. x.kind = kind
    BY <1>3 DEF Item
  <2>2. x \in Items
    BY <1>1, <1>2, <1>3, ItemTypes DEF ClientType
  <2> QED
    BY <1>3, <2>1, <2>2 DEF Says
<1>4. ASSUME NEW obj, obj.ssl = "hello", type = "tls"
      PROVE  Flight("ClientHello") \in Items /\ Says(obj, Flight("ClientHello"))
  BY <1>4, ItemTypes DEF Says, Flight, Item, Kinds
\* Connect().
<1>5. ASSUME NEW c \in ClientType, c.conn = client.conn, c.backlog = client.backlog,
             NEW w, w = SendConnect(c)
      PROVE  /\ w.obj \in ClientType
             /\ w.obj.conn = c.conn /\ w.obj.backlog = c.backlog /\ w.obj.sock = c.sock
             /\ w.obj.handshaking = c.handshaking
             /\ w.obj.ssl = c.ssl \/ (c.ssl = "before" /\ w.obj.ssl = "hello")
             /\ w.out = <<>> \/ \E x \in Items : w.out = <<x>> /\ Says(w.obj, x)
  <2>1. PICK v : v = ClientWrite(c, "Connect", 0)
    OBVIOUS
  <2>2. w.obj = [v.obj EXCEPT !.activity = ActivityTimerClient] /\ w.out = v.out
    BY <1>5, <2>1 DEF SendConnect, Result
  <2>3. /\ v.obj \in ClientType
        /\ v.obj.conn = c.conn /\ v.obj.backlog = c.backlog /\ v.obj.sock = c.sock
        /\ v.obj.handshaking = c.handshaking
        /\ v.obj.ssl = c.ssl \/ (c.ssl = "before" /\ v.obj.ssl = "hello")
        /\ \/ v.out = <<>>
           \/ v.out = <<Item("Connect", 0, 0)>>
           \/ v.out = <<Item("Connect", 0, c.session)>>
           \/ v.out = <<Flight("ClientHello")>> /\ type = "tls" /\ v.obj.ssl = "hello"
    BY <1>1, <1>2, <2>1, ClientWriteFacts
  <2>4. w.obj \in ClientType /\ w.obj.ssl = v.obj.ssl
    <3>1. ActivityTimerClient \in 0 .. ActivityTimerClient
      OBVIOUS
    <3> QED
      BY <2>2, <2>3, <3>1 DEF ClientType
  <2>5. w.out = <<>> \/ \E x \in Items : w.out = <<x>> /\ Says(w.obj, x)
    BY <1>3, <1>4, <2>2, <2>3, <2>4
  <2> QED
    BY <2>2, <2>3, <2>4, <2>5 DEF ClientType
<1>6. CASE ClientConnected
  <2> DEFINE c == [client EXCEPT !.sock = "open"]
  <2>1. c \in ClientType /\ c.conn = client.conn /\ c.backlog = client.backlog /\ c.sock = "open"
    BY <1>1 DEF ClientType
  <2>2. CASE type = "tcp"
    <3> DEFINE d == [c EXCEPT !.timer = TRUE]
    <3>1. d \in ClientType /\ d.conn = client.conn /\ d.backlog = client.backlog /\ d.sock = "open"
      BY <2>1 DEF ClientType
    <3>2. PICK w : w = SendConnect(d)
      OBVIOUS
    <3>3. client' = w.obj /\ FromClient(w.out) /\ client.sock = "established"
          /\ UNCHANGED <<type, accepted, broken, toClient, payloads, okOn, handed>>
      BY <1>6, <2>2, <3>2 DEF ClientConnected, ClientLinkReady
    <3> HIDE DEF c, d
    <3>4. /\ w.obj \in ClientType
          /\ w.obj.conn = d.conn /\ w.obj.backlog = d.backlog /\ w.obj.sock = d.sock
          /\ w.out = <<>> \/ \E x \in Items : w.out = <<x>> /\ Says(w.obj, x)
      BY <1>5, <3>1, <3>2
    <3>5. TalkStep(w.obj, w.out)
      BY <1>1, <2>2, <3>1, <3>3, <3>4 DEF TalkStep, Became
    <3> QED
      BY <3>5 DEF Talks
  <2>3. CASE type = "tls"
    <3>1. PICK w : w = SSLConnect(c)
      OBVIOUS
    <3>2. client' = w.obj /\ FromClient(w.out) /\ client.sock = "established"
          /\ UNCHANGED <<type, accepted, broken, toClient, payloads, okOn, handed>>
      BY <1>6, <2>3, <3>1 DEF ClientConnected
    <3>3. /\ w.obj \in ClientType /\ w.obj.handshaking /\ w.obj.sock = "open"
          /\ w.obj.conn = client.conn /\ w.obj.backlog = client.backlog
          /\ w.obj.ssl = "hello" \/ (client.ssl = "done" /\ w.obj.ssl = "done")
          /\ w.out = <<>> \/ (w.out = <<Flight("ClientHello")>> /\ w.obj.ssl = "hello")
      BY <1>1, <2>1, <3>1 DEF SSLConnect, Result, ClientType
    <3>4. TalkStep(w.obj, w.out)
      BY <1>1, <1>4, <2>3, <3>2, <3>3 DEF TalkStep, Became
    <3> QED
      BY <3>4 DEF Talks
  <2> QED
    BY <1>1, <2>2, <2>3
<1>7. CASE ClientTick
  <2> DEFINE left == Decrement(client.activity)
             c == [client EXCEPT !.activity = left]
  <2>1. left \in 0 .. ActivityTimerClient
    BY <1>1 DEF ClientType, Decrement
  <2>2. /\ c \in ClientType /\ c.conn = client.conn /\ c.backlog = client.backlog
        /\ c.sock = client.sock /\ c.handshaking = client.handshaking /\ c.ssl = client.ssl
    BY <1>1, <2>1 DEF ClientType
  <2> HIDE DEF left
  <2>3. CASE ~client.connected
    <3>1. PICK w : w = SendConnect(c)
      OBVIOUS
    <3>2. client' = w.obj /\ FromClient(w.out)
          /\ UNCHANGED <<type, accepted, broken, toClient, payloads, okOn, handed>>
      BY <1>7, <2>3, <3>1 DEF ClientTick, left
    <3> HIDE DEF c
    <3>3. TalkStep(w.obj, w.out)
      BY <1>1, <1>5, <2>2, <3>1, <3>2 DEF TalkStep, Became
    <3> QED
      BY <3>3 DEF Talks
  <2>4. CASE client.connected /\ left # 0
    <3>1. PICK w : w = ClientWrite(c, "Ping", 0)
      OBVIOUS
    <3>2. client' = w.obj /\ FromClient(w.out)
          /\ UNCHANGED <<type, accepted, broken, toClient, payloads, okOn, handed>>
      BY <1>7, <2>4, <3>1 DEF ClientTick, left
    <3> HIDE DEF c
    <3>3. /\ w.obj \in ClientType
          /\ w.obj.conn = c.conn /\ w.obj.backlog = c.backlog /\ w.obj.sock = c.sock
          /\ w.obj.handshaking = c.handshaking
          /\ w.obj.ssl = c.ssl \/ (c.ssl = "before" /\ w.obj.ssl = "hello")
          /\ \/ w.out = <<>>
             \/ w.out = <<Item("Ping", 0, 0)>>
             \/ w.out = <<Item("Ping", 0, c.session)>>
             \/ w.out = <<Flight("ClientHello")>> /\ type = "tls" /\ w.obj.ssl = "hello"
      BY <1>1, <1>2, <2>2, <3>1, ClientWriteFacts
    <3>4. w.out = <<>> \/ \E x \in Items : w.out = <<x>> /\ Says(w.obj, x)
      BY <1>3, <1>4, <2>2, <3>3
    <3>5. TalkStep(w.obj, w.out)
      BY <1>1, <2>2, <3>2, <3>3, <3>4 DEF TalkStep, Became
    <3> QED
      BY <3>5 DEF Talks
  <2>5. CASE client.connected /\ left = 0
    <3>1. client' = [c EXCEPT !.connected = FALSE] /\ FromClient(<<>>)
          /\ UNCHANGED <<type, accepted, broken, toClient, payloads, okOn, handed>>
      BY <1>7, <2>5 DEF ClientTick, left, Result
    <3> HIDE DEF c
    <3>2. /\ client' \in ClientType /\ client'.conn = client.conn
          /\ client'.backlog = client.backlog /\ client'.sock = client.sock
          /\ client'.handshaking = client.handshaking /\ client'.ssl = client.ssl
      BY <2>2, <3>1 DEF ClientType
    <3>3. TalkStep(client', <<>>)
      BY <1>1, <3>1, <3>2 DEF TalkStep, Became
    <3> QED
      BY <3>3 DEF Talks
  <2> QED
    BY <2>3, <2>4, <2>5
\* A payload.
<1>8. ASSUME ClientSend \/ ClientSetupDataConn
      PROVE  Talks
  <2>1. payloads' = payloads + 1 /\ payloads < MaxPayload
    BY <1>8 DEF ClientSend, ClientSetupDataConn, CountPayload
  <2>2. PICK id : id = IF Carrier = 0 THEN 0 ELSE sent["up"][Carrier] + 1
    OBVIOUS
  <2>3. id \in 0 .. MaxPayload
    <3>1. CASE Carrier = 0
      BY <1>1, <2>2, <3>1
    <3>2. CASE Carrier # 0
      <4>1. Carrier \in Conns
        BY <1>1, <3>2 DEF Conns
      <4>2. sent["up"][Carrier] \in 0 .. MaxPayload /\ sent["up"][Carrier] <= payloads
        BY <4>1 DEF BaseInv, TypeOK, Counted, Directions
      <4> QED
        BY <1>1, <2>1, <2>2, <3>2, <4>2
    <3> QED
      BY <3>1, <3>2
  <2>4. PICK w : w = ClientWrite(client, "Payload", id)
    OBVIOUS
  <2>5. /\ client' = w.obj \/ client' = [w.obj EXCEPT !.activity = 0]
        /\ FromClient(w.out)
        /\ UNCHANGED <<type, accepted, broken, toClient, okOn, handed>>
    BY <1>8, <2>2, <2>4 DEF ClientSend, ClientSetupDataConn, ClientPayload
  <2>6. /\ w.obj \in ClientType
        /\ w.obj.conn = client.conn /\ w.obj.backlog = client.backlog
        /\ w.obj.sock = client.sock
        /\ w.obj.handshaking = client.handshaking
        /\ w.obj.ssl = client.ssl \/ (client.ssl = "before" /\ w.obj.ssl = "hello")
        /\ \/ w.out = <<>>
           \/ w.out = <<Item("Payload", id, 0)>>
           \/ w.out = <<Item("Payload", id, client.session)>>
           \/ w.out = <<Flight("ClientHello")>> /\ type = "tls" /\ w.obj.ssl = "hello"
    BY <1>1, <1>2, <2>3, <2>4, ClientWriteFacts
  <2>7. /\ client' \in ClientType
        /\ client'.conn = client.conn /\ client'.backlog = client.backlog
        /\ client'.sock = client.sock
        /\ client'.handshaking = client.handshaking
        /\ client'.ssl = w.obj.ssl
    BY <2>5, <2>6, SMTT(30) DEF ClientType
  <2>8. ASSUME NEW x, x \in {Item("Payload", id, 0), Item("Payload", id, client.session)}
        PROVE  x \in Items /\ Says(client', x)
    <3>1. x.kind = "Payload" /\ x.id = id
      BY <2>8 DEF Item
    <3>2. x \in Items
      BY <1>1, <1>2, <2>3, <2>8, ItemTypes DEF ClientType
    <3> QED
      BY <2>1, <2>2, <3>1, <3>2 DEF Says
  <2>9. w.out = <<>> \/ \E x \in Items : w.out = <<x>> /\ Says(client', x)
    BY <1>4, <2>6, <2>7, <2>8
  <2>10. payloads' \in payloads .. MaxPayload
    BY <1>1, <2>1
  <2>11. TalkStep(client', w.out)
    BY <2>5, <2>6, <2>7, <2>9, <2>10 DEF TalkStep, Became
  <2> QED
    BY <2>11 DEF Talks
<1> QED
  BY <1>6, <1>7, <1>8

-----------------------------------------------------------------------------
(* What the sends and the receives do. *)

\* Sends that wait for the connection and do not go out as they were.
Mixed(r, n, x) ==
  /\ client.sock = "connecting" /\ Len(r) = Len(toServer[n]) + 1
  /\ \A i \in DOMAIN r : r[i] = IF type = "tcp" THEN x ELSE Junk

\* Item x is put on connection n.
PutUp(n, x) ==
  /\ n = Carrier
  /\ \E q \in Seq(Items) :
       /\ toServer' = [toServer EXCEPT ![n] = q]
       /\ q = toServer[n] \o <<x>> \/ Mixed(q, n, x)
  /\ sent' = [sent EXCEPT !["up"][n] = @ + IF x.kind = "Payload" THEN 1 ELSE 0]

\* What the client sends reaches one connection, or none (send of the two link types).
LEMMA FromClientFacts ==
  ASSUME BaseInv, NEW out, FromClient(out),
         out = <<>> \/ \E x \in Items : out = <<x>>
  PROVE  \/ toServer' = toServer /\ sent' = sent
         \/ \E n \in Conns, x \in Items : out = <<x>> /\ PutUp(n, x)
<1>1. CASE out = <<>>
  BY <1>1 DEF FromClient
<1>2. ASSUME NEW x \in Items, out = <<x>>
      PROVE  \/ toServer' = toServer /\ sent' = sent
             \/ \E n \in Conns : PutUp(n, x)
  <2>1. CASE Carrier = 0
    BY <2>1 DEF FromClient
  <2>2. CASE Carrier # 0
    <3>1. PICK n : n = Carrier
      OBVIOUS
    <3>2. n \in Conns /\ type \in {"tcp", "tls"} /\ toServer[n] \in Seq(Items)
      <4>1. Carrier \in 0 .. MaxConns
        BY CarrierType DEF BaseInv
      <4>2. n \in Conns
        BY <2>2, <3>1, <4>1, StreamAssumption DEF Conns
      <4> QED
        BY <4>2 DEF BaseInv, TypeOK
    <3>3. PICK q : q = toServer[n] \o <<x>>
      OBVIOUS
    <3>4. q \in Seq(Items) /\ Len(q) = Len(toServer[n]) + 1 /\ q[Len(q)] = x
          /\ DOMAIN q = 1 .. Len(q) /\ Len(q) \in Nat
      BY <3>2, <3>3
    <3>5. PICK r : /\ toServer' = [toServer EXCEPT ![n] = r]
                   /\ r = q \/ (client.sock = "connecting" /\ r \in Waiting(q))
      BY <1>2, <2>2, <3>1, <3>3 DEF FromClient
    <3>6. sent' = [sent EXCEPT !["up"][n] = @ + IF x.kind = "Payload" THEN 1 ELSE 0]
      <4>1. sent' = [sent EXCEPT !["up"][n] = @ + Payloads(<<x>>)]
        BY <1>2, <2>2, <3>1 DEF FromClient
      <4> QED
        BY <4>1, PayloadCount
    <3>7. r \in Seq(Items) /\ (r = q \/ Mixed(r, n, x))
      <4>1. CASE r = q
        BY <3>4, <4>1
      <4>2. CASE type = "tcp" /\ client.sock = "connecting" /\ r \in Waiting(q)
        <5>1. r = [i \in DOMAIN q |-> q[Len(q)]]
          BY <4>2 DEF Waiting
        <5>2. r = [i \in 1 .. Len(q) |-> x]
          BY <3>4, <5>1
        <5>3. r \in Seq(Items) /\ Len(r) = Len(q)
          BY <3>4, <5>2
        <5> QED
          BY <3>4, <4>2, <5>2, <5>3 DEF Mixed
      <4>3. CASE type = "tls" /\ client.sock = "connecting" /\ r \in Waiting(q) /\ r # q
        <5>1. r = [i \in DOMAIN q |-> Junk]
          BY <4>3 DEF Waiting
        <5>2. r = [i \in 1 .. Len(q) |-> Junk]
          BY <3>4, <5>1
        <5>3. r \in Seq(Items) /\ Len(r) = Len(q)
          BY <3>4, <5>2, ItemTypes
        <5> QED
          BY <3>4, <4>3, <5>2, <5>3 DEF Mixed
      <4> QED
        BY <3>2, <3>5, <4>1, <4>2, <4>3
    <3> QED
      BY <3>1, <3>2, <3>3, <3>5, <3>6, <3>7 DEF PutUp
  <2> QED
    BY <2>1, <2>2
<1> QED
  BY <1>1, <1>2

\* The oldest record, if any, and what it leaves.
First(r) == IF r = <<>> THEN <<>> ELSE <<Head(r)>>
Others(r) == IF r = <<>> THEN <<>> ELSE Tail(r)

Flights == {"ServerHello", "ServerFinished"}

\* A receive of the client that takes k items, reads message and sends out.
ClientTook(k, message, out) ==
  LET n == client.conn IN
  /\ client.sock = "open" /\ n \in Conns
  /\ toClient[n] # <<>> /\ k \in 0 .. Len(toClient[n])
  /\ \E cut \in BOOLEAN :
       /\ cut => type = "tcp"
       /\ toClient' = [toClient EXCEPT ![n] = Rest(toClient[n], k, cut)]
  /\ FromClient(out) /\ HandUp("down", n, message)
  /\ okOn' = IF message # <<>> /\ message[1].kind = "ConnectOK" THEN n ELSE okOn
  /\ client' \in ClientType /\ client'.sock = "open" /\ client'.conn = n
  /\ UNCHANGED <<type, accepted, broken, payloads>>

ClientTookTcp(k, message, out) ==
  /\ type = "tcp" /\ k > 0 /\ out = <<>> /\ message = <<Head(toClient[client.conn])>>

\* The unread records with those of the segment.
Gathered(k) == client.backlog \o SubSeq(toClient[client.conn], 1, k)

\* The handshake waits, answers the server, or is over; or it was before.
Stalls(k, message, out) ==
  /\ client.ssl = "hello"
  /\ Gathered(k) = <<>> \/ Head(Gathered(k)).kind \notin Flights
  /\ client'.ssl = "hello" /\ client'.handshaking /\ client'.backlog = Gathered(k)
  /\ message = <<>> /\ out = <<>>
Answers(k, message, out) ==
  /\ client.ssl = "hello"
  /\ Gathered(k) # <<>> /\ Head(Gathered(k)).kind = "ServerHello"
  /\ client'.ssl = "hello" /\ client'.handshaking /\ client'.backlog = Tail(Gathered(k))
  /\ message = <<>> /\ out = <<Flight("ClientFinished")>>
Finishes(k, message, out) ==
  /\ client.ssl = "hello"
  /\ Gathered(k) # <<>> /\ Head(Gathered(k)).kind = "ServerFinished"
  /\ client'.ssl = "done" /\ ~client'.handshaking
  /\ client'.backlog = Others(Tail(Gathered(k))) /\ message = First(Tail(Gathered(k)))
  /\ \E session \in 0 .. MaxConns : out = <<Item("Connect", 0, session)>>
ReadsOn(k, message, out) ==
  /\ client.ssl = "done" /\ ~client.handshaking
  /\ client'.ssl = "done" /\ ~client'.handshaking
  /\ client'.backlog = Others(Gathered(k)) /\ message = First(Gathered(k))
  /\ out = <<>>

ClientTookTls(k, message, out) ==
  /\ type = "tls"
  /\ \/ Stalls(k, message, out) \/ Answers(k, message, out)
     \/ Finishes(k, message, out) \/ ReadsOn(k, message, out)

\* handle_receive of the client.
LEMMA ClientReceives ==
  ASSUME BaseInv, NEW k, ClientReceive(k), client.conn # 0,
         type = "tls" => \/ client.ssl = "hello" /\ client.handshaking
                         \/ client.ssl = "done" /\ ~client.handshaking
  PROVE  \E message, out :
           /\ ClientTook(k, message, out)
           /\ ClientTookTcp(k, message, out) \/ ClientTookTls(k, message, out)
<1> USE StreamAssumption
<1>1. PICK n : n = client.conn
  OBVIOUS
<1>2. /\ client \in ClientType /\ type \in {"tcp", "tls"} /\ n \in Conns
      /\ toClient \in [Conns -> Seq(Items)] /\ toClient[n] \in Seq(Items)
      /\ client.sock = "open" /\ toClient[n] # <<>> /\ k \in 0 .. Len(toClient[n])
      /\ type = "tcp" => k > 0
  BY <1>1 DEF BaseInv, TypeOK, ClientType, Conns, ClientReceive, IsSegment
<1>3. PICK cut \in BOOLEAN :
        /\ cut => type = "tcp"
        /\ toClient' = [toClient EXCEPT ![n] = Rest(toClient[n], k, cut)]
  BY <1>1, <1>2 DEF ClientReceive, CanCut
<1>4. UNCHANGED <<type, accepted, broken, payloads>>
  BY DEF ClientReceive
<1>5. PICK seg : seg = SubSeq(toClient[n], 1, k)
  OBVIOUS
<1>6. seg \in Seq(Items) /\ Len(seg) = k /\ \A i \in 1 .. k : seg[i] = toClient[n][i]
  BY <1>2, <1>5, Cut
<1>7. PICK shaken : shaken = IF type = "tcp" THEN Result(client, <<>>)
                ELSE ClientHandshake([client EXCEPT !.backlog = client.backlog \o seg])
  OBVIOUS
<1>8. PICK message : message = Message(shaken.obj, seg)
  OBVIOUS
<1>9. PICK read : read = AfterRead(shaken.obj)
  OBVIOUS
<1>10. /\ client' = IF message = <<>> THEN read
                    ELSE [read EXCEPT !.activity = ActivityTimerClient,
                            !.connected = read.connected \/ message[1].kind = "ConnectOK"]
       /\ FromClient(shaken.out) /\ HandUp("down", n, message)
       /\ okOn' = IF message # <<>> /\ message[1].kind = "ConnectOK" THEN n ELSE okOn
  BY <1>1, <1>5, <1>7, <1>8, <1>9 DEF ClientReceive
\* What reading changes besides.
<1>11. ASSUME read \in ClientType
       PROVE  /\ client' \in ClientType /\ client'.sock = read.sock /\ client'.conn = read.conn
              /\ client'.ssl = read.ssl /\ client'.handshaking = read.handshaking
              /\ client'.backlog = read.backlog
  <2>1. ActivityTimerClient \in 0 .. ActivityTimerClient
    OBVIOUS
  <2>2. (read.connected \/ message[1].kind = "ConnectOK") \in BOOLEAN
    BY <1>11 DEF ClientType
  <2> QED
    BY <1>10, <1>11, <2>1, <2>2 DEF ClientType
<1>12. CASE type = "tcp"
  <2>1. shaken.obj = client /\ shaken.out = <<>>
    BY <1>7, <1>12 DEF Result
  <2>2. read = client
    BY <1>9, <1>12, <2>1 DEF AfterRead
  <2>3. message = <<Head(seg)>> /\ Head(seg) = Head(toClient[n])
    BY <1>2, <1>6, <1>8, <1>12 DEF Message
  <2>4. ClientTook(k, message, <<>>)
    BY <1>1, <1>2, <1>3, <1>4, <1>10, <1>11, <2>1, <2>2 DEF ClientTook
  <2> QED
    BY <1>1, <1>2, <1>12, <2>3, <2>4 DEF ClientTookTcp
<1>13. CASE type = "tls"
  <2>1. PICK b : b = client.backlog \o seg
    OBVIOUS
  <2>2. b = Gathered(k)
    BY <1>1, <1>5, <2>1 DEF Gathered
  <2>3. b \in Seq(Items) /\ (b # <<>> => Tail(b) \in Seq(Items) /\ Head(b) \in Items)
    BY <1>2, <1>6, <2>1 DEF ClientType
  <2>4. PICK c : c = [client EXCEPT !.backlog = b]
    OBVIOUS
  <2>5. /\ c \in ClientType /\ c.backlog = b /\ c.ssl = client.ssl
        /\ c.handshaking = client.handshaking /\ c.sock = "open" /\ c.conn = n
    BY <1>1, <1>2, <2>3, <2>4 DEF ClientType
  <2>6. shaken = ClientHandshake(c)
    BY <1>7, <1>13, <2>1, <2>4
  \* A record is read once the handshake is over.
  <2>7. ASSUME NEW r \in Seq(Items), shaken.obj \in ClientType, shaken.obj.backlog = r,
               shaken.obj.ssl = "done"
        PROVE  /\ message = First(r) /\ read \in ClientType /\ read.backlog = Others(r)
               /\ read.ssl = "done" /\ read.handshaking = shaken.obj.handshaking
               /\ read.sock = shaken.obj.sock /\ read.conn = shaken.obj.conn
    <3>1. CASE r = <<>>
      <4>1. message = <<>>
        BY <1>8, <1>13, <2>7, <3>1 DEF Message, Unread
      <4>2. read = shaken.obj
        BY <1>9, <1>13, <2>7, <3>1 DEF AfterRead, Unread
      <4> QED
        BY <2>7, <3>1, <4>1, <4>2 DEF First, Others
    <3>2. CASE r # <<>>
      <4>1. message = <<Head(r)>>
        BY <1>8, <1>13, <2>7, <3>2 DEF Message, Unread
      <4>2. read = [shaken.obj EXCEPT !.backlog = Tail(r)]
        BY <1>9, <1>13, <2>7, <3>2 DEF AfterRead, Unread
      <4>3. Tail(r) \in Seq(Items)
        BY <2>7, <3>2
      <4> QED
        BY <2>7, <3>2, <4>1, <4>2, <4>3 DEF First, Others, ClientType
    <3> QED
      BY <3>1, <3>2
  <2>8. ASSUME shaken.obj.ssl = "hello"
        PROVE  message = <<>> /\ read = shaken.obj
    BY <1>8, <1>9, <1>13, <2>8 DEF Message, AfterRead
  <2>9. CASE client.ssl = "hello" /\ client.handshaking
             /\ (b = <<>> \/ Head(b).kind \notin Flights)
    <3>1. shaken.obj = c /\ shaken.out = <<>>
      BY <2>5, <2>6, <2>9 DEF ClientHandshake, Result, Flights
    <3>2. message = <<>> /\ read = c
      BY <2>5, <2>8, <2>9, <3>1
    <3>3. ClientTook(k, <<>>, <<>>)
      BY <1>1, <1>2, <1>3, <1>4, <1>10, <1>11, <2>5, <3>1, <3>2 DEF ClientTook
    <3>4. Stalls(k, <<>>, <<>>)
      BY <1>11, <2>2, <2>5, <2>9, <3>2 DEF Stalls
    <3> QED
      BY <1>13, <3>3, <3>4 DEF ClientTookTls
  <2>10. CASE client.ssl = "hello" /\ client.handshaking
             /\ b # <<>> /\ Head(b).kind = "ServerHello"
    <3>1. shaken.obj = [c EXCEPT !.backlog = Tail(b)] /\ shaken.out = <<Flight("ClientFinished")>>
      BY <2>5, <2>6, <2>10 DEF ClientHandshake, Result
    <3>2. /\ shaken.obj \in ClientType /\ shaken.obj.ssl = "hello" /\ shaken.obj.handshaking
          /\ shaken.obj.sock = "open" /\ shaken.obj.conn = n /\ shaken.obj.backlog = Tail(b)
      BY <2>3, <2>5, <2>10, <3>1 DEF ClientType
    <3>3. message = <<>> /\ read = shaken.obj
      BY <2>8, <3>2
    <3>4. ClientTook(k, <<>>, shaken.out)
      BY <1>1, <1>2, <1>3, <1>4, <1>10, <1>11, <3>2, <3>3 DEF ClientTook
    <3>5. Answers(k, <<>>, shaken.out)
      BY <1>11, <2>2, <2>10, <3>1, <3>2, <3>3 DEF Answers
    <3> QED
      BY <1>13, <3>4, <3>5 DEF ClientTookTls
  <2>11. CASE client.ssl = "hello" /\ client.handshaking
             /\ b # <<>> /\ Head(b).kind = "ServerFinished"
    <3>1. PICK d : d = [Finish([c EXCEPT !.backlog = Tail(b)]) EXCEPT !.timer = TRUE]
      OBVIOUS
    <3>2. /\ d \in ClientType /\ d.ssl = "done" /\ ~d.handshaking /\ d.backlog = Tail(b)
          /\ d.sock = "open" /\ d.conn = n
      BY <2>3, <2>5, <2>11, <3>1 DEF ClientType, Finish
    <3>3. shaken = SendConnect(d)
      BY <2>5, <2>6, <2>11, <3>1 DEF ClientHandshake, ClientLinkReady
    <3>4. PICK w : w = ClientWrite(d, "Connect", 0)
      OBVIOUS
    <3>5. w.obj = d /\ w.out = <<Item("Connect", 0, d.session)>>
      BY <1>13, <3>2, <3>4 DEF ClientWrite, Result
    <3>6. shaken.obj = [d EXCEPT !.activity = ActivityTimerClient] /\ shaken.out = w.out
      BY <3>3, <3>4, <3>5 DEF SendConnect, Result
    <3>7. /\ shaken.obj \in ClientType /\ shaken.obj.ssl = "done" /\ ~shaken.obj.handshaking
          /\ shaken.obj.backlog = Tail(b) /\ shaken.obj.sock = "open" /\ shaken.obj.conn = n
      <4>1. ActivityTimerClient \in 0 .. ActivityTimerClient
        OBVIOUS
      <4> QED
        BY <3>2, <3>6, <4>1 DEF ClientType
    <3>8. /\ message = First(Tail(b)) /\ read \in ClientType /\ read.backlog = Others(Tail(b))
          /\ read.ssl = "done" /\ ~read.handshaking /\ read.sock = "open" /\ read.conn = n
      BY <2>3, <2>7, <2>11, <3>7
    <3>9. ClientTook(k, message, shaken.out)
      BY <1>1, <1>2, <1>3, <1>4, <1>10, <1>11, <3>8 DEF ClientTook
    <3>10. d.session \in 0 .. MaxConns
      BY <3>2 DEF ClientType
    <3>11. Finishes(k, message, shaken.out)
      BY <1>11, <2>2, <2>11, <3>5, <3>6, <3>8, <3>10 DEF Finishes
    <3> QED
      BY <1>13, <3>9, <3>11 DEF ClientTookTls
  <2>12. CASE client.ssl = "done" /\ ~client.handshaking
    <3>1. shaken.obj = c /\ shaken.out = <<>>
      BY <2>5, <2>6, <2>12 DEF ClientHandshake, Result
    <3>2. /\ message = First(b) /\ read \in ClientType /\ read.backlog = Others(b)
          /\ read.ssl = "done" /\ ~read.handshaking /\ read.sock = "open" /\ read.conn = n
      BY <2>3, <2>5, <2>7, <2>12, <3>1
    <3>3. ClientTook(k, message, <<>>)
      BY <1>1, <1>2, <1>3, <1>4, <1>10, <1>11, <3>1, <3>2 DEF ClientTook
    <3>4. ReadsOn(k, message, <<>>)
      BY <1>11, <2>2, <2>12, <3>2 DEF ReadsOn
    <3> QED
      BY <1>13, <3>3, <3>4 DEF ClientTookTls
  <2> QED
    BY <1>13, <2>9, <2>10, <2>11, <2>12 DEF Flights
<1> QED
  BY <1>2, <1>12, <1>13

\* A receive of the accepted link of connection n.
AcceptedTook(n, k, message, out) ==
  /\ accepted[n].sock = "open" /\ toServer[n] # <<>> /\ k \in 0 .. Len(toServer[n])
  /\ \E cut \in BOOLEAN :
       /\ cut => type = "tcp"
       /\ toServer' = [toServer EXCEPT ![n] = Rest(toServer[n], k, cut)]
  /\ FromAccepted(n, out) /\ HandUp("up", n, message)
  /\ accepted' = [accepted EXCEPT ![n] = accepted'[n]]
  /\ accepted'[n] \in AcceptedType /\ accepted'[n].sock = "open"
  /\ accepted[n].connected => accepted'[n].connected
  /\ UNCHANGED <<type, client, broken, payloads, okOn>>

\* The reply to message, of the link as it is afterwards.
Replied(n, message, reply) ==
  \/ reply = <<>>
  \/ \E x \in Items :
       /\ reply = <<x>> /\ message # <<>> /\ x.kind \in {"ConnectOK", "Ping"}
       /\ x.kind = "ConnectOK" => accepted'[n].connected

AcceptedTookTcp(n, k, message, out) ==
  /\ type = "tcp" /\ k > 0 /\ message = <<Head(toServer[n])>> /\ Replied(n, message, out)
  /\ accepted'[n].timer = accepted[n].timer

Arrived(n, k) == accepted[n].backlog \o SubSeq(toServer[n], 1, k)

\* The handshake waits, begins, is over or was so before, or has failed.
Waits(n, k, message, out) ==
  /\ Arrived(n, k) = <<>> /\ accepted' = accepted /\ message = <<>> /\ out = <<>>
Begins(n, k, message, out) ==
  /\ accepted[n].ssl = "wait" /\ Arrived(n, k) # <<>>
  /\ Head(Arrived(n, k)).kind = "ClientHello"
  /\ accepted'[n].ssl = "hello" /\ accepted'[n].timer = accepted[n].timer
  /\ accepted'[n].backlog = Tail(Arrived(n, k))
  /\ message = <<>> /\ out = <<Flight("ServerHello")>>
Ends(n, k, message, out) ==
  /\ accepted[n].ssl = "hello" /\ Arrived(n, k) # <<>>
  /\ Head(Arrived(n, k)).kind = "ClientFinished"
  /\ accepted'[n].ssl = "done"
  /\ accepted'[n].backlog = Others(Tail(Arrived(n, k)))
  /\ message = First(Tail(Arrived(n, k)))
  /\ \E reply : Replied(n, message, reply) /\ out = <<Flight("ServerFinished")>> \o reply
Serves(n, k, message, out) ==
  /\ accepted[n].ssl = "done" /\ accepted'[n].ssl = "done"
  /\ accepted'[n].timer = accepted[n].timer
  /\ accepted'[n].backlog = Others(Arrived(n, k)) /\ message = First(Arrived(n, k))
  /\ Replied(n, message, out)
Fails(n, k, message, out) ==
  /\ \/ accepted[n].ssl = "failed"
     \/ accepted[n].ssl = "wait" /\ Head(Arrived(n, k)).kind # "ClientHello"
     \/ accepted[n].ssl = "hello" /\ Head(Arrived(n, k)).kind # "ClientFinished"
  /\ accepted'[n].ssl = "failed" /\ accepted'[n].timer = accepted[n].timer
  /\ accepted'[n].backlog = <<>> /\ message = <<>> /\ out = <<>>

AcceptedTookTls(n, k, message, out) ==
  /\ type = "tls"
  /\ \/ Waits(n, k, message, out) \/ Begins(n, k, message, out) \/ Ends(n, k, message, out)
     \/ Serves(n, k, message, out) \/ Fails(n, k, message, out)

\* handle_receive of the accepted link.
LEMMA AcceptedReceives ==
  ASSUME BaseInv, NEW n \in Conns, NEW k, AcceptedReceive(n, k)
  PROVE  \E message, out :
           /\ AcceptedTook(n, k, message, out)
           /\ AcceptedTookTcp(n, k, message, out) \/ AcceptedTookTls(n, k, message, out)
<1> USE StreamAssumption
<1>1. PICK a : a = accepted[n]
  OBVIOUS
<1>2. /\ a \in AcceptedType /\ type \in {"tcp", "tls"}
      /\ toServer[n] \in Seq(Items) /\ accepted \in [Conns -> AcceptedType]
      /\ a.sock = "open" /\ toServer[n] # <<>> /\ k \in 0 .. Len(toServer[n])
      /\ type = "tcp" => k > 0
  BY <1>1 DEF BaseInv, TypeOK, AcceptedReceive, IsSegment
<1>3. PICK cut \in BOOLEAN :
        /\ cut => type = "tcp"
        /\ toServer' = [toServer EXCEPT ![n] = Rest(toServer[n], k, cut)]
  BY DEF AcceptedReceive, CanCut
<1>4. UNCHANGED <<type, client, broken, payloads, okOn>>
  BY DEF AcceptedReceive
<1>5. PICK seg : seg = SubSeq(toServer[n], 1, k)
  OBVIOUS
<1>6. seg \in Seq(Items) /\ Len(seg) = k /\ \A i \in 1 .. k : seg[i] = toServer[n][i]
  BY <1>2, <1>5, Cut
<1>7. PICK shaken : shaken = IF type = "tcp" THEN Result(a, <<>>)
                ELSE AcceptedHandshake([a EXCEPT !.backlog = a.backlog \o seg])
  OBVIOUS
<1>8. PICK message : message = Message(shaken.obj, seg)
  OBVIOUS
<1>9. PICK read : read = Discard(AfterRead(shaken.obj))
  OBVIOUS
<1>10. PICK after : after = IF message = <<>> THEN read
                    ELSE [read EXCEPT !.activity = ActivityTimerAccepted,
                            !.connected = read.connected \/ message[1].kind = "Connect"]
  OBVIOUS
<1>11. /\ accepted' = [accepted EXCEPT ![n] = after]
       /\ FromAccepted(n, shaken.out \o Reply(n, read, message)) /\ HandUp("up", n, message)
  BY <1>1, <1>5, <1>7, <1>8, <1>9, <1>10 DEF AcceptedReceive
<1>12. accepted'[n] = after /\ accepted' = [accepted EXCEPT ![n] = accepted'[n]]
  BY <1>2, <1>11
\* What reading changes besides.
<1>13. ASSUME read \in AcceptedType
       PROVE  /\ after \in AcceptedType /\ after.sock = read.sock /\ after.ssl = read.ssl
              /\ after.backlog = read.backlog /\ after.timer = read.timer
              /\ read.connected => after.connected
              /\ message # <<>> /\ message[1].kind = "Connect" => after.connected
              /\ message = <<>> => after = read
  <2>1. ActivityTimerAccepted \in 0 .. ActivityTimerAccepted
    OBVIOUS
  <2>2. (read.connected \/ message[1].kind = "Connect") \in BOOLEAN
    BY <1>13 DEF AcceptedType
  <2> QED
    BY <1>10, <1>13, <2>1, <2>2 DEF AcceptedType
<1>14. ASSUME after.connected \in BOOLEAN,
              message # <<>> /\ message[1].kind = "Connect" => after.connected
       PROVE  Replied(n, message, Reply(n, read, message))
  <2>1. \A kind \in {"ConnectOK", "Ping"} : \A s \in 0 .. MaxConns :
          Item(kind, 0, s) \in Items /\ Item(kind, 0, s).kind = kind
    BY ItemTypes DEF Item, Kinds
  <2>2. 0 \in 0 .. MaxConns /\ n \in 0 .. MaxConns
    BY DEF Conns
  <2>3. CASE message = <<>>
    BY <2>3 DEF Reply, Replied
  <2>4. CASE message # <<>> /\ message[1].kind = "Connect"
    BY <1>12, <1>14, <2>1, <2>2, <2>4 DEF Reply, Replied, AcceptedWrite
  <2>5. CASE message # <<>> /\ message[1].kind = "Ping"
    BY <2>1, <2>2, <2>5 DEF Reply, Replied, AcceptedWrite
  <2>6. CASE message # <<>> /\ message[1].kind \notin {"Connect", "Ping"}
    BY <2>6 DEF Reply, Replied
  <2> QED
    BY <2>3, <2>4, <2>5, <2>6
<1>15. CASE type = "tcp"
  <2>1. shaken.obj = a /\ shaken.out = <<>>
    BY <1>7, <1>15 DEF Result
  <2>2. AfterRead(a) = a
    BY <1>15 DEF AfterRead
  <2>3. message = <<Head(seg)>> /\ Head(seg) = Head(toServer[n])
    BY <1>2, <1>6, <1>8, <1>15 DEF Message
  <2>4. /\ read \in AcceptedType /\ read.timer = a.timer /\ read.sock = "open"
        /\ read.connected = a.connected
    <3>1. read = a \/ read = [a EXCEPT !.backlog = <<>>]
      BY <1>9, <2>1, <2>2 DEF Discard
    <3>2. <<>> \in Seq(Items)
      OBVIOUS
    <3> QED
      BY <1>2, <3>1, <3>2 DEF AcceptedType
  <2>5. shaken.out \o Reply(n, read, message) = Reply(n, read, message)
    <3>1. Reply(n, read, message) = <<>> \/ \E x : Reply(n, read, message) = <<x>>
      BY DEF Reply, AcceptedWrite
    <3> QED
      BY <2>1, <3>1
  <2>6. /\ after \in AcceptedType /\ after.sock = "open" /\ after.timer = a.timer
        /\ a.connected => after.connected
        /\ message # <<>> /\ message[1].kind = "Connect" => after.connected
    BY <1>13, <2>4
  <2>7. Replied(n, message, Reply(n, read, message))
    BY <1>14, <2>6 DEF AcceptedType
  <2>8. AcceptedTook(n, k, message, Reply(n, read, message))
    BY <1>1, <1>2, <1>3, <1>4, <1>11, <1>12, <2>5, <2>6 DEF AcceptedTook
  <2>9. AcceptedTookTcp(n, k, message, Reply(n, read, message))
    BY <1>1, <1>2, <1>12, <1>15, <2>3, <2>6, <2>7 DEF AcceptedTookTcp
  <2> QED
    BY <2>8, <2>9
<1>16. CASE type = "tls"
  <2>1. PICK b : b = a.backlog \o seg
    OBVIOUS
  <2>2. b = Arrived(n, k)
    BY <1>1, <1>5, <2>1 DEF Arrived
  <2>3. b \in Seq(Items) /\ (b # <<>> => Tail(b) \in Seq(Items) /\ Head(b) \in Items)
    BY <1>2, <1>6, <2>1 DEF AcceptedType
  <2>4. PICK c : c = [a EXCEPT !.backlog = b]
    OBVIOUS
  <2>5. /\ c \in AcceptedType /\ c.backlog = b /\ c.ssl = a.ssl
        /\ c.timer = a.timer /\ c.sock = "open" /\ c.connected = a.connected
    BY <1>2, <2>3, <2>4 DEF AcceptedType
  <2>6. shaken = AcceptedHandshake(c)
    BY <1>7, <1>16, <2>1, <2>4
  \* A record is read once the handshake is over.
  <2>7. ASSUME NEW r \in Seq(Items), shaken.obj \in AcceptedType, shaken.obj.backlog = r,
               shaken.obj.ssl = "done"
        PROVE  /\ message = First(r) /\ read \in AcceptedType /\ read.backlog = Others(r)
               /\ read.ssl = "done" /\ read.timer = shaken.obj.timer
               /\ read.sock = shaken.obj.sock /\ read.connected = shaken.obj.connected
    <3>1. CASE r = <<>>
      <4>1. message = <<>>
        BY <1>8, <1>16, <2>7, <3>1 DEF Message, Unread
      <4>2. read = shaken.obj
        BY <1>9, <1>16, <2>7, <3>1 DEF AfterRead, Unread, Discard
      <4> QED
        BY <2>7, <3>1, <4>1, <4>2 DEF First, Others
    <3>2. CASE r # <<>>
      <4>1. message = <<Head(r)>>
        BY <1>8, <1>16, <2>7, <3>2 DEF Message, Unread
      <4>2. AfterRead(shaken.obj) = [shaken.obj EXCEPT !.backlog = Tail(r)]
        BY <1>16, <2>7, <3>2 DEF AfterRead, Unread
      <4>3. Tail(r) \in Seq(Items)
        BY <2>7, <3>2
      <4>4. [shaken.obj EXCEPT !.backlog = Tail(r)].ssl = "done"
        BY <2>7 DEF AcceptedType
      <4>5. read = [shaken.obj EXCEPT !.backlog = Tail(r)]
        BY <1>9, <4>2, <4>4 DEF Discard
      <4> QED
        BY <2>7, <3>2, <4>1, <4>3, <4>5 DEF First, Others, AcceptedType
    <3> QED
      BY <3>1, <3>2
  <2>8. ASSUME shaken.obj.ssl # "done"
        PROVE  message = <<>> /\ read = Discard(shaken.obj)
               /\ Reply(n, read, message) = <<>> /\ after = read
    BY <1>8, <1>9, <1>10, <1>16, <2>8 DEF Message, AfterRead, Reply
  \* The common part.
  <2>9. ASSUME NEW out, FromAccepted(n, out), read \in AcceptedType, read.sock = "open",
               read.connected = a.connected
        PROVE  AcceptedTook(n, k, message, out)
    BY <1>1, <1>2, <1>3, <1>4, <1>11, <1>12, <1>13, <2>9 DEF AcceptedTook
  <2>10. CASE a.ssl \in {"wait", "hello"} /\ b = <<>>
    <3>1. shaken.obj = c /\ shaken.out = <<>>
      BY <2>5, <2>6, <2>10 DEF AcceptedHandshake, Result
    <3>2. message = <<>> /\ read = c /\ Reply(n, read, message) = <<>> /\ after = c
      BY <2>5, <2>8, <2>10, <3>1 DEF Discard
    <3>3. <<>> \o <<>> = <<>>
      OBVIOUS
    <3>4. AcceptedTook(n, k, message, <<>>)
      BY <1>11, <2>5, <2>9, <3>1, <3>2, <3>3
    <3>5. accepted' = accepted
      <4>1. a.backlog = <<>>
        <5>1. a.backlog \in Seq(Items)
          BY <1>2 DEF AcceptedType
        <5>2. a.backlog \o seg = <<>>
          BY <2>1, <2>10
        <5> QED
          BY <1>6, <5>1, <5>2, ConcatSimplifications!concIsEmpty
      <4>2. c = a
        BY <1>2, <2>4, <2>10, <4>1 DEF AcceptedType
      <4> QED
        BY <1>1, <1>2, <1>11, <3>2, <4>2
    <3>6. Waits(n, k, message, <<>>)
      BY <2>2, <2>10, <3>2, <3>5 DEF Waits
    <3> QED
      BY <1>16, <3>4, <3>6 DEF AcceptedTookTls
  <2>11. CASE a.ssl = "wait" /\ b # <<>> /\ Head(b).kind = "ClientHello"
    <3>1. /\ shaken.obj = [c EXCEPT !.backlog = Tail(b), !.ssl = "hello"]
          /\ shaken.out = <<Flight("ServerHello")>>
      BY <2>5, <2>6, <2>11 DEF AcceptedHandshake, Result
    <3>2. /\ shaken.obj \in AcceptedType /\ shaken.obj.ssl = "hello"
          /\ shaken.obj.timer = a.timer /\ shaken.obj.sock = "open"
          /\ shaken.obj.backlog = Tail(b) /\ shaken.obj.connected = a.connected
      BY <2>3, <2>5, <2>11, <3>1 DEF AcceptedType
    <3>3. /\ message = <<>> /\ read = shaken.obj
          /\ Reply(n, read, message) = <<>> /\ after = read
      BY <2>8, <3>2 DEF Discard
    <3>4. shaken.out \o <<>> = shaken.out
      BY <3>1
    <3>5. AcceptedTook(n, k, message, shaken.out)
      BY <1>11, <2>9, <3>2, <3>3, <3>4
    <3>6. Begins(n, k, message, shaken.out)
      BY <1>1, <1>12, <2>2, <2>11, <3>1, <3>2, <3>3 DEF Begins
    <3> QED
      BY <1>16, <3>5, <3>6 DEF AcceptedTookTls
  <2>12. CASE a.ssl = "hello" /\ b # <<>> /\ Head(b).kind = "ClientFinished"
    <3>1. /\ shaken.obj = AcceptedLinkReady([c EXCEPT !.backlog = Tail(b), !.ssl = "done"])
          /\ shaken.out = <<Flight("ServerFinished")>>
      BY <2>5, <2>6, <2>12 DEF AcceptedHandshake, Result
    <3>2. /\ shaken.obj \in AcceptedType /\ shaken.obj.ssl = "done" /\ shaken.obj.sock = "open"
          /\ shaken.obj.backlog = Tail(b) /\ shaken.obj.connected = a.connected
      <4>1. ActivityTimerAccepted \in 0 .. ActivityTimerAccepted
        OBVIOUS
      <4> QED
        BY <2>3, <2>5, <2>12, <3>1, <4>1 DEF AcceptedType, AcceptedLinkReady
    <3>3. /\ message = First(Tail(b)) /\ read \in AcceptedType /\ read.backlog = Others(Tail(b))
          /\ read.ssl = "done" /\ read.sock = "open" /\ read.connected = a.connected
      BY <2>3, <2>7, <2>12, <3>2
    <3>4. PICK out : out = shaken.out \o Reply(n, read, message)
      OBVIOUS
    <3>5. AcceptedTook(n, k, message, out)
      BY <1>11, <2>9, <3>3, <3>4
    <3>6. /\ after \in AcceptedType /\ after.ssl = "done" /\ after.backlog = Others(Tail(b))
          /\ message # <<>> /\ message[1].kind = "Connect" => after.connected
      BY <1>13, <3>3
    <3>7. Replied(n, message, Reply(n, read, message))
      BY <1>14, <3>6 DEF AcceptedType
    <3>8. Ends(n, k, message, out)
      BY <1>1, <1>12, <2>2, <2>12, <3>1, <3>3, <3>4, <3>6, <3>7 DEF Ends
    <3> QED
      BY <1>16, <3>5, <3>8 DEF AcceptedTookTls
  <2>13. CASE a.ssl = "done"
    <3>1. shaken.obj = c /\ shaken.out = <<>>
      BY <2>5, <2>6, <2>13 DEF AcceptedHandshake, Result
    <3>2. /\ message = First(b) /\ read \in AcceptedType /\ read.backlog = Others(b)
          /\ read.ssl = "done" /\ read.timer = a.timer /\ read.sock = "open"
          /\ read.connected = a.connected
      BY <2>3, <2>5, <2>7, <2>13, <3>1
    <3>3. PICK reply : reply = Reply(n, read, message)
      OBVIOUS
    <3>4. shaken.out \o reply = reply
      <4>1. reply = <<>> \/ \E x : reply = <<x>>
        BY <3>3 DEF Reply, AcceptedWrite
      <4> QED
        BY <3>1, <4>1
    <3>5. AcceptedTook(n, k, message, reply)
      BY <1>11, <2>9, <3>2, <3>3, <3>4
    <3>6. /\ after \in AcceptedType /\ after.ssl = "done" /\ after.backlog = Others(b)
          /\ after.timer = a.timer
          /\ message # <<>> /\ message[1].kind = "Connect" => after.connected
      BY <1>13, <3>2
    <3>7. Replied(n, message, reply)
      BY <1>14, <3>3, <3>6 DEF AcceptedType
    <3>8. Serves(n, k, message, reply)
      BY <1>1, <1>12, <2>2, <2>13, <3>2, <3>6, <3>7 DEF Serves
    <3> QED
      BY <1>16, <3>5, <3>8 DEF AcceptedTookTls
  <2>14. CASE \/ a.ssl = "failed"
              \/ a.ssl = "wait" /\ b # <<>> /\ Head(b).kind # "ClientHello"
              \/ a.ssl = "hello" /\ b # <<>> /\ Head(b).kind # "ClientFinished"
    <3>1. /\ shaken.obj = c \/ shaken.obj = [c EXCEPT !.ssl = "failed"]
          /\ shaken.obj.ssl = "failed" /\ shaken.out = <<>>
      BY <2>5, <2>6, <2>14 DEF AcceptedHandshake, Result, AcceptedType
    <3>2. /\ shaken.obj \in AcceptedType /\ shaken.obj.timer = a.timer
          /\ shaken.obj.sock = "open" /\ shaken.obj.connected = a.connected
      BY <2>5, <3>1 DEF AcceptedType
    <3>3. /\ message = <<>> /\ read = [shaken.obj EXCEPT !.backlog = <<>>]
          /\ Reply(n, read, message) = <<>> /\ after = read
      BY <2>8, <3>1 DEF Discard
    <3>4. /\ read \in AcceptedType /\ read.ssl = "failed" /\ read.timer = a.timer
          /\ read.sock = "open" /\ read.connected = a.connected /\ read.backlog = <<>>
      <4>1. <<>> \in Seq(Items)
        OBVIOUS
      <4> QED
        BY <3>1, <3>2, <3>3, <4>1 DEF AcceptedType
    <3>5. <<>> \o <<>> = <<>>
      OBVIOUS
    <3>6. AcceptedTook(n, k, message, <<>>)
      BY <1>11, <2>9, <3>1, <3>3, <3>4, <3>5
    <3>7. Fails(n, k, message, <<>>)
      BY <1>1, <1>12, <2>2, <2>14, <3>3, <3>4 DEF Fails
    <3> QED
      BY <1>16, <3>6, <3>7 DEF AcceptedTookTls
  <2> QED
    BY <1>2, <2>10, <2>11, <2>12, <2>13, <2>14 DEF AcceptedType
<1> QED
  BY <1>2, <1>15, <1>16

-----------------------------------------------------------------------------
(* The types. *)

\* What a send of the client changes.
LEMMA UpwardBase ==
  ASSUME BaseInv, NEW out, FromClient(out), payloads' \in payloads .. MaxPayload,
         out = <<>> \/ \E x \in Items :
           out = <<x>> /\ (x.kind = "Payload" => payloads' = payloads + 1)
  PROVE  /\ toServer' \in [Conns -> Seq(Items)]
         /\ sent' \in [Directions -> [Conns -> 0 .. MaxPayload]]
         /\ \A d \in Directions, n \in Conns : sent'[d][n] <= payloads'
         /\ \A n \in Conns :
              /\ sent'["down"][n] = sent["down"][n]
              /\ n # Carrier => toServer'[n] = toServer[n] /\ sent'["up"][n] = sent["up"][n]
<1>1. /\ toServer \in [Conns -> Seq(Items)] /\ payloads \in 0 .. MaxPayload
      /\ sent \in [Directions -> [Conns -> 0 .. MaxPayload]] /\ MaxPayload \in Nat
      /\ \A d \in Directions, n \in Conns : sent[d][n] <= payloads
      /\ Directions = {"up", "down"}
  BY StreamAssumption DEF BaseInv, TypeOK, Counted, Directions
<1>2. /\ payloads \in Nat /\ payloads' \in Nat /\ payloads <= payloads'
      /\ payloads' <= MaxPayload
      /\ \A d \in Directions, m \in Conns : sent[d][m] \in Nat /\ sent[d][m] <= MaxPayload
  <2>1. payloads \in Nat /\ payloads <= MaxPayload /\ MaxPayload \in Nat
    BY <1>1
  <2>2. payloads' \in Nat /\ payloads <= payloads' /\ payloads' <= MaxPayload
    BY <2>1
  <2>3. \A y \in 0 .. MaxPayload : y \in Nat /\ y <= MaxPayload
    BY <2>1
  <2>4. \A d \in Directions, m \in Conns : sent[d][m] \in 0 .. MaxPayload
    BY <1>1
  <2> QED
    BY <2>1, <2>2, <2>3, <2>4
<1>3. CASE toServer' = toServer /\ sent' = sent
  <2>1. \A d \in Directions, m \in Conns : sent'[d][m] <= payloads'
    <3>1. \A x \in Nat : x <= payloads => x <= payloads'
      BY <1>2
    <3> QED
      BY <1>1, <1>2, <1>3, <3>1
  <2> QED
    BY <1>1, <1>3, <2>1
<1>4. ASSUME NEW n \in Conns, NEW x \in Items, out = <<x>>, PutUp(n, x)
      PROVE  /\ toServer' \in [Conns -> Seq(Items)]
             /\ sent' \in [Directions -> [Conns -> 0 .. MaxPayload]]
             /\ \A d \in Directions, m \in Conns : sent'[d][m] <= payloads'
             /\ \A m \in Conns :
                  /\ sent'["down"][m] = sent["down"][m]
                  /\ m # Carrier => toServer'[m] = toServer[m] /\ sent'["up"][m] = sent["up"][m]
  <2>1. PICK q \in Seq(Items) : toServer' = [toServer EXCEPT ![n] = q]
    BY <1>4 DEF PutUp
  <2>2. PICK c : /\ c \in {0, 1} /\ sent["up"][n] + c <= payloads'
                 /\ sent' = [sent EXCEPT !["up"][n] = @ + c]
    <3>1. x.kind = "Payload" => payloads' = payloads + 1
      BY <1>4
    <3>2. sent' = [sent EXCEPT !["up"][n] = @ + IF x.kind = "Payload" THEN 1 ELSE 0]
      BY <1>4 DEF PutUp
    <3>3. PICK u \in Nat : u = sent["up"][n] /\ u <= payloads
      BY <1>1, <1>2
    <3>4. CASE x.kind = "Payload"
      <4>1. u + 1 <= payloads'
        BY <1>2, <3>1, <3>3, <3>4
      <4>2. sent' = [sent EXCEPT !["up"][n] = @ + 1]
        BY <3>2, <3>4
      <4> QED
        BY <3>3, <4>1, <4>2
    <3>5. CASE x.kind # "Payload"
      <4>1. u + 0 <= payloads'
        BY <1>2, <3>3
      <4>2. sent' = [sent EXCEPT !["up"][n] = @ + 0]
        BY <3>2, <3>5
      <4> QED
        BY <3>3, <4>1, <4>2
    <3> QED
      BY <3>4, <3>5
  <2>3. sent["up"][n] + c \in 0 .. MaxPayload
    <3>1. PICK u \in Nat : u = sent["up"][n]
      BY <1>1, <1>2
    <3> QED
      BY <1>1, <1>2, <2>2, <3>1
  <2>4. n = Carrier
    BY <1>4 DEF PutUp
  <2>5. sent' \in [Directions -> [Conns -> 0 .. MaxPayload]]
    BY <1>1, <2>2, <2>3
  <2>6. \A d \in Directions, m \in Conns : sent'[d][m] <= payloads'
    <3>1. \A y \in Nat : y <= payloads => y <= payloads'
      BY <1>2
    <3>2. \A d \in Directions, m \in Conns :
            sent'[d][m] = IF d = "up" /\ m = n THEN sent["up"][n] + c ELSE sent[d][m]
      BY <1>1, <2>2
    <3> QED
      BY <1>1, <1>2, <2>2, <3>1, <3>2
  <2>7. \A m \in Conns :
          /\ sent'["down"][m] = sent["down"][m]
          /\ m # Carrier => toServer'[m] = toServer[m] /\ sent'["up"][m] = sent["up"][m]
    BY <1>1, <2>1, <2>2, <2>4
  <2>8. toServer' \in [Conns -> Seq(Items)]
    BY <1>1, <2>1
  <2> QED
    BY <2>5, <2>6, <2>7, <2>8
<1> QED
  BY <1>3, <1>4, FromClientFacts

\* What a send of an accepted link changes.
LEMMA DownwardBase ==
  ASSUME BaseInv, NEW n \in Conns, NEW out \in Seq(Items), NEW c \in {0, 1},
         Payloads(out) = c, payloads' \in payloads + c .. MaxPayload,
         FromAccepted(n, out)
  PROVE  /\ toClient' \in [Conns -> Seq(Items)]
         /\ sent' \in [Directions -> [Conns -> 0 .. MaxPayload]]
         /\ \A d \in Directions, m \in Conns : sent'[d][m] <= payloads'
         /\ \A m \in Conns :
              /\ sent'["up"][m] = sent["up"][m]
              /\ m # n => toClient'[m] = toClient[m] /\ sent'["down"][m] = sent["down"][m]
         /\ accepted[n].sock # "open" => toClient' = toClient /\ sent' = sent
<1>1. /\ toClient \in [Conns -> Seq(Items)] /\ payloads \in 0 .. MaxPayload
      /\ sent \in [Directions -> [Conns -> 0 .. MaxPayload]] /\ MaxPayload \in Nat
      /\ \A d \in Directions, m \in Conns : sent[d][m] <= payloads
      /\ Directions = {"up", "down"}
  BY StreamAssumption DEF BaseInv, TypeOK, Counted, Directions
<1>2. /\ payloads \in Nat /\ payloads' \in Nat /\ payloads <= payloads'
      /\ payloads' <= MaxPayload
      /\ \A d \in Directions, m \in Conns : sent[d][m] \in Nat /\ sent[d][m] <= MaxPayload
  <2>1. payloads \in Nat /\ payloads <= MaxPayload /\ MaxPayload \in Nat
    BY <1>1
  <2>2. payloads' \in Nat /\ payloads <= payloads' /\ payloads' <= MaxPayload
    BY <2>1
  <2>3. \A y \in 0 .. MaxPayload : y \in Nat /\ y <= MaxPayload
    BY <2>1
  <2>4. \A d \in Directions, m \in Conns : sent[d][m] \in 0 .. MaxPayload
    BY <1>1
  <2> QED
    BY <2>1, <2>2, <2>3, <2>4
<1>3. CASE toClient' = toClient /\ sent' = sent
  <2>1. \A d \in Directions, m \in Conns : sent'[d][m] <= payloads'
    <3>1. \A x \in Nat : x <= payloads => x <= payloads'
      BY <1>2
    <3> QED
      BY <1>1, <1>2, <1>3, <3>1
  <2> QED
    BY <1>1, <1>3, <2>1
<1>4. CASE /\ accepted[n].sock = "open"
           /\ toClient' = Put(toClient, n, out)
           /\ sent' = [sent EXCEPT !["down"][n] = @ + c]
  <2>1. toClient' = [toClient EXCEPT ![n] = toClient[n] \o out]
    BY <1>4 DEF Put
  <2>2. toClient[n] \o out \in Seq(Items)
    BY <1>1, ConcatProperties
  <2>3. sent["down"][n] + c \in 0 .. MaxPayload /\ sent["down"][n] + c <= payloads'
    <3>1. PICK u \in Nat : u = sent["down"][n] /\ u <= payloads
      BY <1>1, <1>2
    <3> QED
      BY <1>1, <1>2, <3>1
  <2>4. sent' \in [Directions -> [Conns -> 0 .. MaxPayload]]
    BY <1>1, <1>4, <2>3
  <2>5. \A d \in Directions, m \in Conns : sent'[d][m] <= payloads'
    <3>1. \A y \in Nat : y <= payloads => y <= payloads'
      BY <1>2
    <3>2. \A d \in Directions, m \in Conns :
            sent'[d][m] = IF d = "down" /\ m = n THEN sent["down"][n] + c ELSE sent[d][m]
      BY <1>1, <1>4
    <3> QED
      BY <1>1, <1>2, <2>3, <3>1, <3>2
  <2>6. \A m \in Conns :
          /\ sent'["up"][m] = sent["up"][m]
          /\ m # n => toClient'[m] = toClient[m] /\ sent'["down"][m] = sent["down"][m]
    BY <1>1, <1>4, <2>1
  <2>7. toClient' \in [Conns -> Seq(Items)]
    BY <1>1, <2>1, <2>2
  <2> QED
    BY <1>4, <2>4, <2>5, <2>6, <2>7
<1> QED
  BY <1>3, <1>4 DEF FromAccepted

\* What a receive leaves and hands up.
LEMMA RestType ==
  ASSUME NEW q \in Seq(Items), NEW k \in 0 .. Len(q), NEW cut \in BOOLEAN
  PROVE  /\ Rest(q, k, cut) \in Seq(Items)
         /\ ~cut => Rest(q, k, cut) = SubSeq(q, k + 1, Len(q))
<1>1. SubSeq(q, k + 1, Len(q)) \in Seq(Items)
  BY Cut
<1>2. CASE cut
  <2>1. Rest(q, k, cut) = <<Junk>> \o SubSeq(q, k + 1, Len(q))
    BY <1>2 DEF Rest
  <2>2. <<Junk>> \in Seq(Items)
    BY ItemTypes
  <2> QED
    BY <1>1, <1>2, <2>1, <2>2, ConcatProperties
<1>3. CASE ~cut
  <2>1. Rest(q, k, cut) = <<>> \o SubSeq(q, k + 1, Len(q))
    BY <1>3 DEF Rest
  <2> QED
    BY <1>1, <2>1, ConcatEmptySeq
<1> QED
  BY <1>2, <1>3

\* What is handed up is typed, and at one end of one connection.
LEMMA HandUpType ==
  ASSUME BaseInv, NEW d \in Directions, NEW n \in Conns, NEW message, HandUp(d, n, message),
         message = <<>> \/ \E x \in Items : message = <<x>>
  PROVE  /\ handed' \in [Directions -> [Conns -> Seq(0 .. MaxPayload)]]
         /\ \A e \in Directions, m \in Conns : e # d \/ m # n => handed'[e][m] = handed[e][m]
<1>1. handed \in [Directions -> [Conns -> Seq(0 .. MaxPayload)]]
  BY DEF BaseInv, TypeOK
<1>2. CASE message # <<>> /\ message[1].kind = "Payload"
  <2>1. message[1].id \in 0 .. MaxPayload
    BY <1>2 DEF Items
  <2>2. PICK h : h = Append(handed[d][n], message[1].id)
    OBVIOUS
  <2>3. h \in Seq(0 .. MaxPayload)
    BY <1>1, <2>1, <2>2
  <2>4. handed' = [handed EXCEPT ![d][n] = h]
    BY <1>2, <2>2 DEF HandUp
  <2> QED
    BY <1>1, <2>3, <2>4
<1>3. CASE ~(message # <<>> /\ message[1].kind = "Payload")
  <2>1. handed' = [handed EXCEPT ![d][n] = @]
    BY <1>3 DEF HandUp
  <2> QED
    BY <1>1, <2>1
<1> QED
  BY <1>2, <1>3

\* The first record is an item.
LEMMA FirstType ==
  ASSUME NEW r \in Seq(Items)
  PROVE  /\ First(r) = <<>> \/ \E x \in Items : First(r) = <<x>>
         /\ Others(r) \in Seq(Items)
<1>1. CASE r = <<>>
  BY <1>1 DEF First, Others
<1>2. CASE r # <<>>
  BY <1>2 DEF First, Others
<1> QED
  BY <1>1, <1>2

\* The client sends of its own accord: ticks, SIP messages, media, handle_connect.
LEMMA TalkBase ==
  ASSUME BaseInv, Talks
  PROVE  BaseInv'
<1>1. PICK obj, out : TalkStep(obj, out)
  BY DEF Talks
<1>2. /\ client' = obj /\ FromClient(out) /\ payloads' \in payloads .. MaxPayload
      /\ out = <<>> \/ \E x \in Items :
           out = <<x>> /\ (x.kind = "Payload" => payloads' = payloads + 1)
      /\ UNCHANGED <<type, accepted, broken, toClient, okOn, handed>>
  BY <1>1 DEF TalkStep, Says
<1>3. /\ toServer' \in [Conns -> Seq(Items)]
      /\ sent' \in [Directions -> [Conns -> 0 .. MaxPayload]]
      /\ \A d \in Directions, n \in Conns : sent'[d][n] <= payloads'
      /\ \A n \in Conns :
           /\ sent'["down"][n] = sent["down"][n]
           /\ n # Carrier => toServer'[n] = toServer[n] /\ sent'["up"][n] = sent["up"][n]
  BY <1>2, UpwardBase
<1>4. /\ client' \in ClientType /\ client'.conn = client.conn
      /\ client'.sock = client.sock \/ (client.sock = "established" /\ client'.sock = "open")
  BY <1>1 DEF TalkStep, Became
<1>5. TypeOK'
  <2>1. payloads' \in 0 .. MaxPayload
    BY <1>2 DEF BaseInv, TypeOK
  <2> QED
    BY <1>2, <1>3, <1>4, <2>1 DEF BaseInv, TypeOK
<1>6. Counted'
  BY <1>3 DEF Counted
<1>7. Fresh'
  <2>1. client.conn \in 0 .. MaxConns /\ MaxConns \in Nat
    BY StreamAssumption DEF BaseInv, TypeOK, ClientType
  <2>2. ASSUME NEW n \in Conns, n > client.conn PROVE Unused(n)'
    <3>1. Unused(n)
      BY <2>2 DEF BaseInv, Fresh
    <3>2. n # client.conn + 1 \/ client.sock # "connecting" => n # Carrier
      BY <2>1, <2>2 DEF Carrier, Conns
    <3> QED
      BY <1>2, <1>3, <1>4, <3>1, <3>2 DEF Unused
  <2> QED
    BY <1>2, <1>4, <2>2 DEF BaseInv, Fresh
<1> QED
  BY <1>5, <1>6, <1>7 DEF BaseInv

\* What a receive of the client changes of the types.
LEMMA ClientTookBase ==
  ASSUME BaseInv, NEW k, NEW message, NEW out, ClientTook(k, message, out),
         ClientTookTcp(k, message, out) \/ ClientTookTls(k, message, out)
  PROVE  /\ BaseInv'
         /\ message = <<>> \/ \E x \in Items : message = <<x>>
         /\ Gathered(k) \in Seq(Items)
         /\ out = <<>> \/ \E x \in Items : out = <<x>> /\ x.kind \in {"Connect", "ClientFinished"}
         /\ toServer' \in [Conns -> Seq(Items)]
         /\ \A n \in Conns : /\ sent'["down"][n] = sent["down"][n]
                             /\ n # Carrier => /\ toServer'[n] = toServer[n]
                                               /\ sent'["up"][n] = sent["up"][n]
<1>1. PICK n : n = client.conn
  OBVIOUS
<1>2. /\ n \in Conns /\ toClient[n] \in Seq(Items) /\ toClient[n] # <<>>
      /\ k \in 0 .. Len(toClient[n]) /\ client.backlog \in Seq(Items)
      /\ client'.sock = "open" /\ client'.conn = n /\ client' \in ClientType
      /\ UNCHANGED <<type, accepted, broken, payloads>>
      /\ client.sock = "open" /\ payloads \in 0 .. MaxPayload
  BY <1>1 DEF ClientTook, BaseInv, TypeOK, ClientType
<1>3. Gathered(k) \in Seq(Items)
  BY <1>1, <1>2, Cut DEF Gathered
<1>4. Gathered(k) # <<>> => Tail(Gathered(k)) \in Seq(Items)
  BY <1>3
<1>5. message = <<>> \/ \E x \in Items : message = <<x>>
  <2>1. CASE ClientTookTcp(k, message, out)
    BY <1>1, <1>2, <2>1 DEF ClientTookTcp
  <2>2. CASE ClientTookTls(k, message, out)
    BY <1>3, <1>4, <2>2, FirstType
       DEF ClientTookTls, Stalls, Answers, Finishes, ReadsOn
  <2> QED
    BY <2>1, <2>2
<1>6. out = <<>> \/ \E x \in Items : out = <<x>> /\ x.kind \in {"Connect", "ClientFinished"}
  <2>1. \A session \in 0 .. MaxConns : /\ Item("Connect", 0, session) \in Items
                                       /\ Item("Connect", 0, session).kind = "Connect"
    <3>1. 0 \in 0 .. MaxPayload /\ "Connect" \in Kinds
      BY StreamAssumption DEF Kinds
    <3> QED
      BY <3>1, ItemTypes DEF Item
  <2>2. Flight("ClientFinished") \in Items /\ Flight("ClientFinished").kind = "ClientFinished"
    BY ItemTypes DEF Flight, Item, Kinds
  <2> QED
    BY <2>1, <2>2 DEF ClientTookTcp, ClientTookTls, Stalls, Answers, Finishes, ReadsOn
<1>7. payloads' \in payloads .. MaxPayload /\ FromClient(out) /\ HandUp("down", n, message)
  <2>1. payloads \in Nat /\ payloads <= MaxPayload /\ MaxPayload \in Nat
    BY <1>2, StreamAssumption
  <2> QED
    BY <1>1, <1>2, <2>1 DEF ClientTook
<1>8. /\ toServer' \in [Conns -> Seq(Items)]
      /\ sent' \in [Directions -> [Conns -> 0 .. MaxPayload]]
      /\ \A d \in Directions, m \in Conns : sent'[d][m] <= payloads'
      /\ \A m \in Conns :
           /\ sent'["down"][m] = sent["down"][m]
           /\ m # Carrier => toServer'[m] = toServer[m] /\ sent'["up"][m] = sent["up"][m]
  <2>1. out = <<>> \/ \E x \in Items :
          out = <<x>> /\ (x.kind = "Payload" => payloads' = payloads + 1)
    BY <1>6
  <2> QED
    BY <1>7, <2>1, UpwardBase
<1>9. /\ handed' \in [Directions -> [Conns -> Seq(0 .. MaxPayload)]]
      /\ \A e \in Directions, m \in Conns : e # "down" \/ m # n => handed'[e][m] = handed[e][m]
  <2>1. "down" \in Directions
    BY DEF Directions
  <2> QED
    BY <1>2, <1>5, <1>7, <2>1, HandUpType
<1>10. /\ toClient' \in [Conns -> Seq(Items)]
       /\ \A m \in Conns : m # n => toClient'[m] = toClient[m]
  <2>1. PICK cut \in BOOLEAN : toClient' = [toClient EXCEPT ![n] = Rest(toClient[n], k, cut)]
    BY <1>1 DEF ClientTook
  <2>2. Rest(toClient[n], k, cut) \in Seq(Items)
    BY <1>2, RestType
  <2> QED
    BY <2>1, <2>2 DEF BaseInv, TypeOK
<1>11. okOn' \in {okOn, n}
  BY <1>1 DEF ClientTook
<1>12. n \in 1 .. MaxConns /\ okOn \in 0 .. MaxConns /\ MaxConns \in Nat /\ okOn <= n
  BY <1>1, <1>2, StreamAssumption DEF Conns, BaseInv, TypeOK, Fresh
<1>13. TypeOK'
  <2>1. okOn' \in 0 .. MaxConns
    BY <1>11, <1>12
  <2> QED
    BY <1>2, <1>8, <1>9, <1>10, <2>1 DEF BaseInv, TypeOK
<1>14. Counted'
  BY <1>8 DEF Counted
<1>15. Fresh'
  <2>1. ASSUME NEW m \in Conns, m > n PROVE Unused(m)'
    <3>1. Unused(m) /\ m # n /\ m # Carrier
      BY <1>1, <1>2, <1>12, <2>1 DEF BaseInv, Fresh, Carrier
    <3>2. handed'["up"][m] = handed["up"][m] /\ handed'["down"][m] = handed["down"][m]
      BY <1>9, <3>1 DEF Directions
    <3> QED
      BY <1>2, <1>8, <1>10, <3>1, <3>2 DEF Unused
  <2>2. client'.conn # 0 /\ okOn' <= client'.conn
    BY <1>2, <1>11, <1>12
  <2> QED
    BY <1>2, <2>1, <2>2 DEF Fresh
<1> QED
  BY <1>3, <1>5, <1>6, <1>8, <1>13, <1>14, <1>15 DEF BaseInv

\* And a receive of an accepted link.
LEMMA AcceptedTookBase ==
  ASSUME BaseInv, NEW n \in Conns, NEW k, NEW message, NEW out,
         AcceptedTook(n, k, message, out),
         AcceptedTookTcp(n, k, message, out) \/ AcceptedTookTls(n, k, message, out)
  PROVE  /\ BaseInv'
         /\ message = <<>> \/ \E x \in Items : message = <<x>>
         /\ Arrived(n, k) \in Seq(Items)
         /\ out \in Seq(Items) /\ Payloads(out) = 0
         /\ \A m \in Conns : /\ sent'["up"][m] = sent["up"][m]
                             /\ m # n => toClient'[m] = toClient[m]
<1>2. /\ toServer[n] \in Seq(Items) /\ toServer[n] # <<>>
      /\ k \in 0 .. Len(toServer[n]) /\ accepted[n].backlog \in Seq(Items)
      /\ accepted' = [accepted EXCEPT ![n] = accepted'[n]] /\ accepted'[n] \in AcceptedType
      /\ UNCHANGED <<type, client, broken, payloads, okOn>>
      /\ accepted[n].sock = "open" /\ payloads \in 0 .. MaxPayload /\ MaxPayload \in Nat
      /\ FromAccepted(n, out) /\ HandUp("up", n, message)
  BY StreamAssumption DEF AcceptedTook, BaseInv, TypeOK, AcceptedType
<1>3. Arrived(n, k) \in Seq(Items)
  BY <1>2, Cut DEF Arrived
<1>4. Arrived(n, k) # <<>> => Tail(Arrived(n, k)) \in Seq(Items)
  BY <1>3
<1>5. message = <<>> \/ \E x \in Items : message = <<x>>
  <2>1. CASE AcceptedTookTcp(n, k, message, out)
    BY <1>2, <2>1 DEF AcceptedTookTcp
  <2>2. CASE AcceptedTookTls(n, k, message, out)
    BY <1>3, <1>4, <2>2, FirstType
       DEF AcceptedTookTls, Waits, Begins, Ends, Serves, Fails
  <2> QED
    BY <2>1, <2>2
<1>6. out \in Seq(Items) /\ Payloads(out) = 0
  <2>1. /\ Flight("ServerFinished") \in Items /\ Flight("ServerHello") \in Items
        /\ Flight("ServerFinished").kind # "Payload" /\ Flight("ServerHello").kind # "Payload"
    BY ItemTypes DEF Flight, Item, Kinds
  <2>2. PICK f : f = Flight("ServerFinished")
    OBVIOUS
  <2>3. CASE out = <<>>
    BY <2>3, PayloadCount
  <2>4. CASE Replied(n, message, out)
    <3>1. ASSUME NEW x \in Items, out = <<x>>, x.kind # "Payload"
          PROVE  out \in Seq(Items) /\ Payloads(out) = 0
      BY <3>1, PayloadCount
    <3> QED
      BY <2>3, <2>4, <3>1 DEF Replied
  <2>5. CASE out = <<Flight("ServerHello")>>
    BY <2>1, <2>5, PayloadCount
  <2>6. CASE \E reply : Replied(n, message, reply) /\ out = <<f>> \o reply
    <3>1. PICK reply : Replied(n, message, reply) /\ out = <<f>> \o reply
      BY <2>6
    <3>2. CASE reply = <<>>
      <4>1. out = <<f>>
        BY <3>1, <3>2
      <4> QED
        BY <2>1, <2>2, <4>1, PayloadCount
    <3>3. ASSUME NEW x \in Items, reply = <<x>>, x.kind \in {"ConnectOK", "Ping"}
          PROVE  out \in Seq(Items) /\ Payloads(out) = 0
      <4>1. f \in Items
        BY <2>1, <2>2
      <4>2. <<f>> \o <<x>> = <<f, x>>
        <5>1. /\ <<f>> \in Seq(Items) /\ <<x>> \in Seq(Items) /\ <<f, x>> \in Seq(Items)
              /\ Len(<<f>>) = 1 /\ Len(<<x>>) = 1 /\ Len(<<f, x>>) = 2
          BY <3>3, <4>1
        <5>2. /\ <<f>> \o <<x>> \in Seq(Items) /\ Len(<<f>> \o <<x>>) = 2
              /\ (<<f>> \o <<x>>)[1] = f /\ (<<f>> \o <<x>>)[2] = x
          BY <5>1, ConcatProperties
        <5>3. \A i \in 1 .. 2 : (<<f>> \o <<x>>)[i] = <<f, x>>[i]
          BY <5>2
        <5> QED
          BY <5>1, <5>2, <5>3, SeqEqual
      <4>3. out = <<f, x>>
        BY <3>1, <3>3, <4>2
      <4> QED
        BY <2>1, <2>2, <3>3, <4>3, PayloadCount
    <3> QED
      BY <3>1, <3>2, <3>3 DEF Replied
  <2> QED
    BY <2>2, <2>3, <2>4, <2>5, <2>6
       DEF AcceptedTookTcp, AcceptedTookTls, Waits, Begins, Ends, Serves, Fails
<1>7. /\ toClient' \in [Conns -> Seq(Items)]
      /\ sent' \in [Directions -> [Conns -> 0 .. MaxPayload]]
      /\ \A d \in Directions, m \in Conns : sent'[d][m] <= payloads'
      /\ \A m \in Conns :
           /\ sent'["up"][m] = sent["up"][m]
           /\ m # n => toClient'[m] = toClient[m] /\ sent'["down"][m] = sent["down"][m]
  <2>1. payloads' \in payloads + 0 .. MaxPayload /\ 0 \in {0, 1}
    BY <1>2
  <2> QED
    BY <1>2, <1>6, <2>1, DownwardBase
<1>8. /\ handed' \in [Directions -> [Conns -> Seq(0 .. MaxPayload)]]
      /\ \A e \in Directions, m \in Conns : e # "up" \/ m # n => handed'[e][m] = handed[e][m]
  <2>1. "up" \in Directions
    BY DEF Directions
  <2> QED
    BY <1>2, <1>5, <2>1, HandUpType
<1>9. /\ toServer' \in [Conns -> Seq(Items)]
      /\ \A m \in Conns : m # n => toServer'[m] = toServer[m]
  <2>1. PICK cut \in BOOLEAN : toServer' = [toServer EXCEPT ![n] = Rest(toServer[n], k, cut)]
    BY DEF AcceptedTook
  <2>2. Rest(toServer[n], k, cut) \in Seq(Items)
    BY <1>2, RestType
  <2> QED
    BY <2>1, <2>2 DEF BaseInv, TypeOK
<1>10. /\ accepted' \in [Conns -> AcceptedType]
       /\ \A m \in Conns : m # n => accepted'[m] = accepted[m]
  BY <1>2 DEF BaseInv, TypeOK
<1>11. TypeOK'
  BY <1>2, <1>7, <1>8, <1>9, <1>10 DEF BaseInv, TypeOK
<1>12. Counted'
  BY <1>7 DEF Counted
<1>13. Fresh'
  <2>1. ASSUME NEW m \in Conns, m > client.conn PROVE Unused(m)'
    <3>1. Unused(m) /\ m # n
      <4>1. Unused(m)
        BY <2>1 DEF BaseInv, Fresh
      <4> QED
        BY <1>2, <4>1 DEF Unused, NoAccepted
    <3>2. handed'["up"][m] = handed["up"][m] /\ handed'["down"][m] = handed["down"][m]
      BY <1>8, <3>1 DEF Directions
    <3> QED
      BY <1>2, <1>7, <1>9, <1>10, <3>1, <3>2 DEF Unused
  <2> QED
    BY <1>2, <2>1 DEF BaseInv, Fresh
<1> QED
  BY <1>3, <1>5, <1>6, <1>7, <1>11, <1>12, <1>13 DEF BaseInv

\* What an accepted link sends of its own accord: a payload, or nothing.
ServerTalks(n) ==
  /\ accepted[n].sock \in {"open", "closed"}
  /\ \E out :
       /\ FromAccepted(n, out)
       /\ \/ out = <<>>
          \/ \E x \in Items : /\ out = <<x>> /\ x.kind = "Payload"
                              /\ x.id = sent["down"][n] + 1
                              /\ type = "tls" => accepted[n].ssl = "done"
  /\ payloads' = payloads + 1 /\ payloads < MaxPayload
  /\ accepted' = [accepted EXCEPT ![n] = accepted'[n]] /\ accepted'[n] \in AcceptedType
  /\ accepted'[n].sock = accepted[n].sock /\ accepted'[n].ssl = accepted[n].ssl
  /\ accepted'[n].backlog = accepted[n].backlog
  /\ accepted'[n].connected = accepted[n].connected
  /\ accepted'[n].timer = accepted[n].timer
  /\ UNCHANGED <<type, client, broken, toServer, okOn, handed>>

\* A send and a SetupDataConn of an accepted link are what ServerTalks says.
LEMMA ServerSays ==
  ASSUME BaseInv, NEW n \in Conns, ServerSend(n) \/ AcceptedSetupDataConn(n)
  PROVE  ServerTalks(n)
<1>1. /\ accepted \in [Conns -> AcceptedType] /\ accepted[n] \in AcceptedType
      /\ type \in {"tcp", "tls"} /\ payloads \in 0 .. MaxPayload
      /\ sent["down"][n] \in 0 .. MaxPayload /\ sent["down"][n] <= payloads
      /\ MaxPayload \in Nat /\ MaxConns \in Nat /\ ActivityTimerAccepted \in Nat
  BY StreamAssumption DEF BaseInv, TypeOK, Counted, Directions
<1>2. /\ accepted[n].sock \in {"open", "closed"}
      /\ payloads' = payloads + 1 /\ payloads < MaxPayload
      /\ FromAccepted(n, AcceptedWrite(n, accepted[n], "Payload", sent["down"][n] + 1))
      /\ UNCHANGED <<type, client, broken, toServer, okOn, handed>>
  BY DEF ServerSend, AcceptedSetupDataConn, CountPayload
<1>3. accepted' = accepted \/ accepted' = [accepted EXCEPT ![n].activity = 0]
  BY DEF ServerSend, AcceptedSetupDataConn
<1>4. accepted' = [accepted EXCEPT ![n] = accepted'[n]] /\ accepted'[n] \in AcceptedType
      /\ accepted'[n].sock = accepted[n].sock /\ accepted'[n].ssl = accepted[n].ssl
      /\ accepted'[n].backlog = accepted[n].backlog
      /\ accepted'[n].connected = accepted[n].connected
      /\ accepted'[n].timer = accepted[n].timer
  <2>1. CASE accepted' = accepted
    BY <1>1, <2>1
  <2>2. CASE accepted' = [accepted EXCEPT ![n].activity = 0]
    <3>1. accepted' = [accepted EXCEPT ![n] = [accepted[n] EXCEPT !.activity = 0]]
      BY <2>2
    <3>2. accepted'[n] = [accepted[n] EXCEPT !.activity = 0]
      BY <1>1, <3>1
    <3>3. 0 \in 0 .. ActivityTimerAccepted
      BY <1>1
    <3> QED
      BY <1>1, <3>1, <3>2, <3>3 DEF AcceptedType
  <2> QED
    BY <1>3, <2>1, <2>2
<1>5. PICK out : out = AcceptedWrite(n, accepted[n], "Payload", sent["down"][n] + 1)
  OBVIOUS
<1>6. \/ out = <<>>
      \/ \E x \in Items : /\ out = <<x>> /\ x.kind = "Payload"
                          /\ x.id = sent["down"][n] + 1
                          /\ type = "tls" => accepted[n].ssl = "done"
  <2>1. PICK id : id = sent["down"][n] + 1
    OBVIOUS
  <2>2. id \in 0 .. MaxPayload
    <3>1. PICK u \in Nat : u = sent["down"][n] /\ u <= payloads
      BY <1>1
    <3> QED
      BY <1>1, <1>2, <2>1, <3>1
  <2>3. ASSUME NEW session \in {0, n}
        PROVE  /\ Item("Payload", id, session) \in Items
               /\ Item("Payload", id, session).kind = "Payload"
               /\ Item("Payload", id, session).id = id
    <3>1. session \in 0 .. MaxConns /\ "Payload" \in Kinds
      BY <1>1 DEF Conns, Kinds
    <3> QED
      BY <2>2, <3>1, ItemTypes DEF Item
  <2> QED
    BY <1>1, <1>5, <2>1, <2>3 DEF AcceptedWrite
<1> QED
  BY <1>2, <1>4, <1>5, <1>6 DEF ServerTalks

\* An accepted link that sends keeps the types, and touches its connection only.
LEMMA ServerTalkBase ==
  ASSUME BaseInv, NEW n \in Conns, ServerTalks(n)
  PROVE  BaseInv' /\ \A m \in Conns : /\ sent'["up"][m] = sent["up"][m]
                                      /\ m # n => toClient'[m] = toClient[m]
<1>1. PICK out : /\ FromAccepted(n, out)
                 /\ out = <<>> \/ \E x \in Items : out = <<x>> /\ x.kind = "Payload"
  BY DEF ServerTalks
<1>2. PICK c \in {0, 1} : Payloads(out) = c /\ out \in Seq(Items)
  <2>1. CASE out = <<>>
    BY <2>1, PayloadCount
  <2>2. ASSUME NEW x \in Items, out = <<x>>, x.kind = "Payload"
        PROVE  Payloads(out) = 1 /\ out \in Seq(Items)
    BY <2>2, PayloadCount
  <2> QED
    BY <1>1, <2>1, <2>2
<1>3. payloads \in 0 .. MaxPayload /\ MaxPayload \in Nat
      /\ payloads' = payloads + 1 /\ payloads < MaxPayload
  BY StreamAssumption DEF BaseInv, TypeOK, ServerTalks
<1>4. payloads' \in payloads + c .. MaxPayload /\ payloads' \in 0 .. MaxPayload
  BY <1>3
<1>5. /\ toClient' \in [Conns -> Seq(Items)]
      /\ sent' \in [Directions -> [Conns -> 0 .. MaxPayload]]
      /\ \A d \in Directions, m \in Conns : sent'[d][m] <= payloads'
      /\ \A m \in Conns :
           /\ sent'["up"][m] = sent["up"][m]
           /\ m # n => toClient'[m] = toClient[m] /\ sent'["down"][m] = sent["down"][m]
  BY <1>1, <1>2, <1>4, DownwardBase
<1>6. /\ accepted' \in [Conns -> AcceptedType]
      /\ \A m \in Conns : m # n => accepted'[m] = accepted[m]
      /\ UNCHANGED <<type, client, broken, toServer, okOn, handed>>
  BY DEF BaseInv, TypeOK, ServerTalks
<1>7. TypeOK'
  BY <1>4, <1>5, <1>6 DEF BaseInv, TypeOK
<1>8. Counted'
  BY <1>5 DEF Counted
<1>9. Fresh'
  <2>1. ASSUME NEW m \in Conns, m > client.conn PROVE Unused(m)'
    <3>1. Unused(m)
      BY <2>1 DEF BaseInv, Fresh
    <3>2. m # n
      BY <3>1 DEF Unused, NoAccepted, ServerTalks
    <3> QED
      BY <1>5, <1>6, <3>1, <3>2 DEF Unused
  <2> QED
    BY <1>6, <2>1 DEF BaseInv, Fresh
<1> QED
  BY <1>5, <1>7, <1>8, <1>9 DEF BaseInv

\* The steps that neither send nor receive.
LEMMA SocketBase ==
  ASSUME BaseInv, TimedConnect \/ ConnectFails \/ Establish \/ ClientLost \/ ClientRestart
  PROVE  BaseInv'
<1> USE StreamAssumption
<1>1. /\ client \in ClientType /\ client.conn \in 0 .. MaxConns /\ MaxConns \in Nat
      /\ Directions = {"up", "down"} /\ Conns = 1 .. MaxConns /\ <<>> \in Seq(Items)
      /\ 0 \in 0 .. MaxPayload /\ 0 \in 0 .. MaxConns /\ 0 \in 0 .. ActivityTimerClient
  BY DEF BaseInv, TypeOK, ClientType, Directions, Conns
<1>2. PICK next : next = client.conn + 1
  OBVIOUS
<1>3. CASE TimedConnect
  <2>1. /\ client' \in ClientType /\ client'.conn = client.conn
        /\ client.sock = "waiting" /\ client'.sock = "connecting"
        /\ UNCHANGED <<type, accepted, broken, toServer, toClient, payloads, hist>>
    BY <1>1, <1>3 DEF TimedConnect, ClientType
  <2>2. TypeOK' /\ Counted'
    BY <2>1 DEF BaseInv, TypeOK, Counted, hist
  <2>3. Fresh'
    BY <2>1 DEF BaseInv, Fresh, Unused, hist
  <2> QED
    BY <2>2, <2>3 DEF BaseInv
<1>4. CASE Establish
  <2>1. /\ client' \in ClientType /\ client'.conn = next
        /\ client.sock = "connecting" /\ client'.sock = "established"
        /\ UNCHANGED <<type, accepted, broken, toServer, toClient, payloads, hist>>
    <3>1. next \in 0 .. MaxConns
      BY <1>1, <1>2, <1>4 DEF Establish
    <3>2. client' = [client EXCEPT !.sock = "established", !.conn = next]
      BY <1>2, <1>4 DEF Establish
    <3> QED
      BY <1>1, <1>4, <3>1, <3>2 DEF Establish, ClientType
  <2>2. TypeOK' /\ Counted'
    BY <2>1 DEF BaseInv, TypeOK, Counted, hist
  <2>3. ASSUME NEW n \in Conns, n > next PROVE Unused(n)'
    <3>1. Unused(n) /\ n # client.conn + 1
      BY <1>1, <1>2, <2>3 DEF BaseInv, Fresh
    <3> QED
      BY <2>1, <3>1 DEF Unused, hist
  <2>4. okOn' <= client'.conn /\ client'.conn # 0
    BY <1>1, <1>2, <2>1 DEF BaseInv, TypeOK, Fresh, hist
  <2> QED
    BY <2>1, <2>2, <2>3, <2>4 DEF BaseInv, Fresh
<1>5. CASE ClientLost
  <2>1. /\ client' \in ClientType /\ client'.conn = client.conn
        /\ client.sock = "open" /\ client'.sock = "waiting"
        /\ toClient' = [toClient EXCEPT ![client.conn] = <<>>]
        /\ UNCHANGED <<type, accepted, broken, toServer, payloads, hist>>
    BY <1>1, <1>5 DEF ClientLost, ClientType
  <2>2. TypeOK' /\ Counted'
    BY <1>1, <2>1 DEF BaseInv, TypeOK, Counted, hist
  <2>3. Fresh'
    BY <2>1 DEF BaseInv, TypeOK, Fresh, Unused, hist
  <2> QED
    BY <2>2, <2>3 DEF BaseInv
\* The client's waiting sends are gone.
<1>6. ASSUME client' \in ClientType, client'.conn = client.conn,
             client'.sock \in {"waiting", "connecting"},
             toServer' = [toServer EXCEPT ![next] = <<>>],
             sent' = [sent EXCEPT !["up"][next] = 0],
             toClient' = toClient \/ toClient' = [i \in Conns |-> <<>>],
             okOn' \in {okOn, 0},
             UNCHANGED <<type, accepted, payloads, handed>>,
             broken' \in [Conns -> BOOLEAN]
      PROVE  BaseInv'
  <2>1. toServer' \in [Conns -> Seq(Items)] /\ toClient' \in [Conns -> Seq(Items)]
        /\ sent' \in [Directions -> [Conns -> 0 .. MaxPayload]] /\ okOn' \in 0 .. MaxConns
    BY <1>1, <1>6 DEF BaseInv, TypeOK
  <2>2. \A d \in Directions, n \in Conns :
          sent'[d][n] = IF d = "up" /\ n = next THEN 0 ELSE sent[d][n]
    BY <1>1, <1>6 DEF BaseInv, TypeOK
  <2>3. TypeOK'
    BY <1>6, <2>1 DEF BaseInv, TypeOK
  <2>4. Counted'
    BY <1>6, <2>2 DEF BaseInv, TypeOK, Counted
  <2>5. ASSUME NEW n \in Conns, n > client.conn PROVE Unused(n)'
    <3>1. Unused(n)
      BY <2>5 DEF BaseInv, Fresh
    <3>2. toClient'[n] = <<>>
      BY <1>6, <3>1 DEF Unused
    <3>3. sent'["down"][n] = sent["down"][n]
      BY <1>1, <2>2
    <3>4. CASE n = next
      <4>1. toServer'[n] = <<>> /\ sent'["up"][n] = 0
        BY <1>1, <1>6, <2>2, <3>4 DEF BaseInv, TypeOK
      <4> QED
        BY <1>6, <3>1, <3>2, <3>3, <4>1 DEF Unused
    <3>5. CASE n # next
      <4>1. toServer'[n] = toServer[n] /\ sent'["up"][n] = sent["up"][n]
        BY <1>1, <1>6, <2>2, <3>5 DEF BaseInv, TypeOK
      <4>2. toServer[n] = <<>> /\ sent["up"][n] = 0
        BY <1>2, <3>1, <3>5 DEF Unused
      <4> QED
        BY <1>6, <3>1, <3>2, <3>3, <4>1, <4>2 DEF Unused
    <3> QED
      BY <3>4, <3>5
  <2>6. okOn' <= client'.conn
    BY <1>1, <1>6 DEF BaseInv, Fresh
  <2> QED
    BY <1>6, <2>3, <2>4, <2>5, <2>6 DEF BaseInv, Fresh
<1>7. CASE ConnectFails
  <2>1. client' \in ClientType /\ client'.conn = client.conn /\ client'.sock = "waiting"
    BY <1>1, <1>7 DEF ConnectFails, ClientType
  <2> QED
    BY <1>2, <1>6, <1>7, <2>1 DEF ConnectFails, BaseInv, TypeOK
<1>8. CASE ClientRestart
  <2>1. client' = NewClient(client.conn)
    BY <1>8 DEF ClientRestart
  <2>2. client' \in ClientType /\ client'.conn = client.conn /\ client'.sock = "connecting"
    BY <1>1, <2>1 DEF NewClient, ClientType
  <2>3. broken' \in [Conns -> BOOLEAN]
    BY <1>8 DEF ClientRestart, BaseInv, TypeOK
  <2> QED
    BY <1>2, <1>6, <1>8, <2>2, <2>3 DEF ClientRestart
<1> QED
  BY <1>3, <1>4, <1>5, <1>7, <1>8

\* Accepting, the tick and the loss of an accepted link keep the types.
LEMMA AcceptedBase ==
  ASSUME BaseInv, NEW n \in Conns, Accept(n) \/ AcceptedTick(n) \/ AcceptedLost(n)
  PROVE  BaseInv'
<1> USE StreamAssumption
<1>1. /\ accepted \in [Conns -> AcceptedType] /\ accepted[n] \in AcceptedType
      /\ ActivityTimerAccepted \in Nat /\ 0 \in 0 .. ActivityTimerAccepted
      /\ <<>> \in Seq(Items)
  BY DEF BaseInv, TypeOK
<1>2. PICK a \in AcceptedType : accepted' = [accepted EXCEPT ![n] = a]
  <2>1. CASE Accept(n)
    <3>1. PICK b : b = NoAccepted("open")
      OBVIOUS
    <3>2. b \in AcceptedType
      BY <1>1, <3>1 DEF NoAccepted, AcceptedType
    <3>3. AcceptedLinkReady(b) \in AcceptedType
      <4>1. ActivityTimerAccepted \in 0 .. ActivityTimerAccepted
        BY <1>1
      <4> QED
        BY <3>2, <4>1 DEF AcceptedLinkReady, AcceptedType
    <3>4. PICK link : link = IF type = "tcp" THEN AcceptedLinkReady(b) ELSE b
      OBVIOUS
    <3>5. link \in AcceptedType
      BY <3>2, <3>3, <3>4
    <3>6. [link EXCEPT !.timer = FALSE, !.destroyed = TRUE] \in AcceptedType
      BY <3>5 DEF AcceptedType
    <3>7. \/ accepted' = [accepted EXCEPT ![n] = link]
          \/ accepted' = [accepted EXCEPT ![n] = [link EXCEPT !.timer = FALSE, !.destroyed = TRUE]]
      BY <2>1, <3>1, <3>4 DEF Accept
    <3> QED
      BY <3>5, <3>6, <3>7
  <2>2. CASE AcceptedTick(n)
    <3>1. PICK left : left = Decrement(accepted[n].activity)
      OBVIOUS
    <3>2. left \in 0 .. ActivityTimerAccepted
      BY <1>1, <3>1 DEF Decrement, AcceptedType
    <3>3. PICK a : a = [accepted[n] EXCEPT !.activity = left, !.timer = left # 0,
                                           !.connected = accepted[n].connected /\ left # 0]
      OBVIOUS
    <3>4. accepted' = [accepted EXCEPT ![n] = a]
      BY <1>1, <2>2, <3>1, <3>3 DEF AcceptedTick
    <3>5. a \in AcceptedType
      BY <1>1, <3>2, <3>3 DEF AcceptedType
    <3> QED
      BY <3>4, <3>5
  <2>3. CASE AcceptedLost(n)
    <3>1. accepted' = [accepted EXCEPT ![n] = [accepted[n] EXCEPT !.sock = "closed"]]
      BY <1>1, <2>3 DEF AcceptedLost
    <3>2. [accepted[n] EXCEPT !.sock = "closed"] \in AcceptedType
      BY <1>1 DEF AcceptedType
    <3> QED
      BY <3>1, <3>2
  <2> QED
    BY <2>1, <2>2, <2>3
<1>3. /\ toServer' = toServer \/ toServer' = [toServer EXCEPT ![n] = <<>>]
      /\ UNCHANGED <<type, client, broken, toClient, payloads, hist>>
  BY DEF Accept, AcceptedTick, AcceptedLost
<1>4. TypeOK' /\ Counted'
  BY <1>1, <1>2, <1>3 DEF BaseInv, TypeOK, Counted, hist
<1>5. Fresh'
  <2>1. ASSUME NEW m \in Conns, m > client.conn PROVE Unused(m)'
    <3>1. Unused(m)
      BY <2>1 DEF BaseInv, Fresh
    <3>2. m # n
      <4>1. CASE Accept(n)
        BY <2>1, <4>1 DEF Accept, Conns, BaseInv, TypeOK, ClientType
      <4>2. CASE AcceptedTick(n) \/ AcceptedLost(n)
        BY <3>1, <4>2 DEF AcceptedTick, AcceptedLost, Unused, NoAccepted
      <4> QED
        BY <4>1, <4>2
    <3>3. accepted'[m] = accepted[m] /\ toServer'[m] = toServer[m]
      BY <1>2, <1>3, <3>2 DEF BaseInv, TypeOK
    <3> QED
      BY <1>3, <3>1, <3>3 DEF Unused, hist
  <2> QED
    BY <1>3, <2>1 DEF BaseInv, Fresh, hist
<1> QED
  BY <1>4, <1>5 DEF BaseInv

\* What arrives for a link that was destroyed is lost: it has no handshake, no
\* backlog and no stream any more.
LEMMA SwallowFrame ==
  ASSUME BaseInv, NEW n \in Conns, Swallow(n)
  PROVE  /\ UNCHANGED <<type, client, broken, toClient, payloads, okOn, sent, handed>>
         /\ \A m \in Conns : m # n => accepted'[m] = accepted[m] /\ toServer'[m] = toServer[m]
         /\ accepted'[n].sock = "gone" /\ accepted'[n].ssl = "wait"
         /\ accepted'[n].backlog = <<>> /\ toServer'[n] = <<>>
         /\ ~ n > client.conn
         /\ accepted' \in [Conns -> AcceptedType] /\ toServer' \in [Conns -> Seq(Items)]
<1> USE StreamAssumption
<1>1. PICK a : a = [NoAccepted("gone") EXCEPT !.destroyed = TRUE]
  OBVIOUS
<1>2. /\ accepted' = [accepted EXCEPT ![n] = a] /\ toServer' = [toServer EXCEPT ![n] = <<>>]
      /\ accepted[n].destroyed
      /\ UNCHANGED <<type, client, broken, toClient, payloads, okOn, sent, handed>>
  BY <1>1 DEF Swallow, hist
<1>3. /\ a.sock = "gone" /\ a.ssl = "wait" /\ a.backlog = <<>>
      /\ a \in AcceptedType /\ <<>> \in Seq(Items)
  <2>1. NoAccepted("gone") \in AcceptedType
    BY DEF NoAccepted, AcceptedType
  <2>2. a \in AcceptedType
    BY <1>1, <2>1 DEF AcceptedType
  <2> QED
    BY <1>1, <2>2 DEF NoAccepted
<1>4. accepted \in [Conns -> AcceptedType] /\ toServer \in [Conns -> Seq(Items)]
  BY DEF BaseInv, TypeOK
<1>5. ~ n > client.conn
  <2>1. NoAccepted("none").destroyed = FALSE
    BY DEF NoAccepted
  <2> QED
    BY <1>2, <2>1 DEF BaseInv, Fresh, Unused
<1> QED
  <2>1. accepted'[n] = a /\ toServer'[n] = <<>>
    BY <1>2, <1>4
  <2>2. \A m \in Conns : m # n => accepted'[m] = accepted[m] /\ toServer'[m] = toServer[m]
    BY <1>2, <1>4
  <2>3. accepted' \in [Conns -> AcceptedType] /\ toServer' \in [Conns -> Seq(Items)]
    BY <1>2, <1>3, <1>4
  <2> QED
    BY <1>2, <1>3, <1>5, <2>1, <2>2, <2>3

\* The types stand.
LEMMA SwallowBase ==
  ASSUME BaseInv, NEW n \in Conns, Swallow(n)
  PROVE  BaseInv'
<1>1. /\ UNCHANGED <<type, client, broken, toClient, payloads, okOn, sent, handed>>
      /\ \A m \in Conns : m # n => accepted'[m] = accepted[m] /\ toServer'[m] = toServer[m]
      /\ ~ n > client.conn
      /\ accepted' \in [Conns -> AcceptedType] /\ toServer' \in [Conns -> Seq(Items)]
  BY SwallowFrame
<1>2. TypeOK' /\ Counted'
  BY <1>1 DEF BaseInv, TypeOK, Counted
<1>3. ASSUME NEW m \in Conns, m > client.conn PROVE Unused(m)'
  <2>1. Unused(m) /\ m # n
    BY <1>1, <1>3 DEF BaseInv, Fresh
  <2> QED
    BY <1>1, <2>1 DEF Unused
<1> QED
  BY <1>1, <1>2, <1>3 DEF BaseInv, Fresh

\* So do a restart of the server and a connection that breaks.
LEMMA RestBase ==
  ASSUME BaseInv, ServerRestart \/ Break
  PROVE  BaseInv'
<1> USE StreamAssumption
<1>1. CASE ServerRestart
  <2>1. /\ accepted' = [n \in Conns |-> IF n <= client.conn THEN NoAccepted("gone")
                                                            ELSE accepted[n]]
        /\ broken' = [n \in Conns |-> broken[n] \/ n <= client.conn]
        /\ toServer' = [n \in Conns |-> IF n <= client.conn THEN <<>> ELSE toServer[n]]
        /\ UNCHANGED <<type, client, toClient, payloads, hist>>
    BY <1>1 DEF ServerRestart
  <2>2. NoAccepted("gone") \in AcceptedType /\ <<>> \in Seq(Items)
    BY DEF NoAccepted, AcceptedType
  <2>3. TypeOK' /\ Counted'
    BY <2>1, <2>2 DEF BaseInv, TypeOK, Counted, hist
  <2>4. ASSUME NEW n \in Conns, n > client.conn PROVE Unused(n)'
    <3>1. Unused(n) /\ ~ n <= client.conn
      BY <2>4 DEF BaseInv, TypeOK, ClientType, Conns, Fresh
    <3>2. accepted'[n] = accepted[n] /\ toServer'[n] = toServer[n]
      BY <2>1, <3>1
    <3> QED
      BY <2>1, <3>1, <3>2 DEF Unused, hist
  <2> QED
    BY <2>1, <2>3, <2>4 DEF BaseInv, Fresh, hist
<1>2. CASE Break
  <2>1. broken' \in [Conns -> BOOLEAN]
        /\ UNCHANGED <<type, client, accepted, toServer, toClient, payloads, hist>>
    BY <1>2 DEF Break, BaseInv, TypeOK
  <2> QED
    BY <2>1 DEF BaseInv, TypeOK, Counted, Fresh, Unused, hist
<1> QED
  BY <1>1, <1>2

-----------------------------------------------------------------------------
(* What a sequence holds. *)

Elements(q) == {q[i] : i \in DOMAIN q}
Has(q, kind) == \E x \in Elements(q) : x.kind = kind
NoFlight(q) == \A x \in Elements(q) : x.kind \notin Flights

\* The elements of the shortest sequences.
LEMMA ElementsOf ==
  /\ Elements(<<>>) = {}
  /\ \A x : Elements(<<x>>) = {x}
<1>1. Elements(<<>>) = {}
  BY DEF Elements
<1>2. ASSUME NEW x PROVE Elements(<<x>>) = {x}
  <2>1. DOMAIN <<x>> = {1} /\ <<x>>[1] = x
    OBVIOUS
  <2> QED
    BY <2>1 DEF Elements
<1> QED
  BY <1>1, <1>2

\* The elements of two sequences put together.
LEMMA ElementsConcat ==
  ASSUME NEW p \in Seq(Items), NEW r \in Seq(Items)
  PROVE  p \o r \in Seq(Items) /\ Elements(p \o r) = Elements(p) \cup Elements(r)
<1>1. /\ p \o r \in Seq(Items) /\ Len(p \o r) = Len(p) + Len(r)
      /\ \A i \in 1 .. Len(p) + Len(r) : (p \o r)[i] = IF i <= Len(p) THEN p[i] ELSE r[i - Len(p)]
  BY ConcatProperties
<1>2. /\ Len(p) \in Nat /\ Len(r) \in Nat /\ DOMAIN p = 1 .. Len(p) /\ DOMAIN r = 1 .. Len(r)
      /\ DOMAIN (p \o r) = 1 .. Len(p) + Len(r)
  BY <1>1
<1>3. ASSUME NEW x \in Elements(p \o r) PROVE x \in Elements(p) \cup Elements(r)
  <2>1. PICK i \in 1 .. Len(p) + Len(r) : x = (p \o r)[i]
    BY <1>2, <1>3 DEF Elements
  <2>2. CASE i <= Len(p)
    <3>1. i \in 1 .. Len(p) /\ x = p[i]
      BY <1>1, <1>2, <2>1, <2>2
    <3> QED
      BY <1>2, <3>1 DEF Elements
  <2>3. CASE ~ i <= Len(p)
    <3>1. i - Len(p) \in 1 .. Len(r) /\ x = r[i - Len(p)]
      BY <1>1, <1>2, <2>1, <2>3
    <3> QED
      BY <1>2, <3>1 DEF Elements
  <2> QED
    BY <2>2, <2>3
<1>4. ASSUME NEW x \in Elements(p) PROVE x \in Elements(p \o r)
  <2>1. PICK i \in 1 .. Len(p) : x = p[i]
    BY <1>2, <1>4 DEF Elements
  <2>2. i \in 1 .. Len(p) + Len(r) /\ x = (p \o r)[i]
    BY <1>1, <1>2, <2>1
  <2> QED
    BY <1>2, <2>2 DEF Elements
<1>5. ASSUME NEW x \in Elements(r) PROVE x \in Elements(p \o r)
  <2>1. PICK i \in 1 .. Len(r) : x = r[i]
    BY <1>2, <1>5 DEF Elements
  <2>2. PICK j \in Nat : j = i + Len(p)
    BY <1>2
  <2>3. j \in 1 .. Len(p) + Len(r) /\ ~ j <= Len(p) /\ j - Len(p) = i
    BY <1>2, <2>2
  <2>4. x = (p \o r)[j]
    BY <1>1, <2>1, <2>3
  <2> QED
    BY <1>2, <2>3, <2>4 DEF Elements
<1> QED
  BY <1>1, <1>3, <1>4, <1>5

\* The first element and the others.
LEMMA ElementsTail ==
  ASSUME NEW q \in Seq(Items), q # <<>>
  PROVE  /\ Head(q) \in Elements(q) /\ Head(q) \in Items /\ Tail(q) \in Seq(Items)
         /\ Elements(q) = {Head(q)} \cup Elements(Tail(q))
<1>1. Head(q) \in Items /\ Tail(q) \in Seq(Items)
  OBVIOUS
<1>2. /\ Len(q) \in Nat \ {0} /\ DOMAIN q = 1 .. Len(q) /\ Head(q) = q[1]
      /\ Len(Tail(q)) = Len(q) - 1 /\ DOMAIN Tail(q) = 1 .. Len(q) - 1
      /\ \A i \in 1 .. Len(Tail(q)) : Tail(q)[i] = q[i + 1]
  BY HeadTailProperties
<1>3. Head(q) \in Elements(q)
  BY <1>2 DEF Elements
<1>4. ASSUME NEW x \in Elements(q), x # Head(q) PROVE x \in Elements(Tail(q))
  <2>1. PICK i \in 1 .. Len(q) : x = q[i]
    BY <1>2, <1>4 DEF Elements
  <2>2. PICK j \in Nat : j = i - 1 /\ i = j + 1 /\ j \in 1 .. Len(q) - 1
    BY <1>2, <1>4, <2>1
  <2>3. x = Tail(q)[j]
    BY <1>2, <2>1, <2>2
  <2> QED
    BY <1>2, <2>2, <2>3 DEF Elements
<1>5. ASSUME NEW x \in Elements(Tail(q)) PROVE x \in Elements(q)
  <2>1. PICK j \in 1 .. Len(q) - 1 : x = Tail(q)[j]
    BY <1>2, <1>5 DEF Elements
  <2>2. j + 1 \in 1 .. Len(q) /\ x = q[j + 1]
    BY <1>2, <2>1
  <2> QED
    BY <1>2, <2>2 DEF Elements
<1> QED
  BY <1>1, <1>3, <1>4, <1>5

\* What a segment takes and what it leaves.
LEMMA ElementsCut ==
  ASSUME NEW q \in Seq(Items), NEW k \in 0 .. Len(q)
  PROVE  /\ SubSeq(q, 1, k) \in Seq(Items) /\ SubSeq(q, k + 1, Len(q)) \in Seq(Items)
         /\ Elements(q) = Elements(SubSeq(q, 1, k)) \cup Elements(SubSeq(q, k + 1, Len(q)))
         /\ SubSeq(q, 1, k) \o SubSeq(q, k + 1, Len(q)) = q
         /\ SubSeq(q, 1, k) = <<>> => SubSeq(q, k + 1, Len(q)) = q
         /\ SubSeq(q, 1, k) # <<>> =>
              /\ q # <<>> /\ Head(SubSeq(q, 1, k)) = Head(q)
              /\ Tail(SubSeq(q, 1, k)) \o SubSeq(q, k + 1, Len(q)) = Tail(q)
              /\ Elements(Tail(q)) =
                   Elements(Tail(SubSeq(q, 1, k))) \cup Elements(SubSeq(q, k + 1, Len(q)))
<1>1. PICK a, b : a = SubSeq(q, 1, k) /\ b = SubSeq(q, k + 1, Len(q))
  OBVIOUS
<1>2. a \in Seq(Items) /\ b \in Seq(Items) /\ a \o b = q
  BY <1>1, Cut
<1>3. Elements(q) = Elements(a) \cup Elements(b)
  BY <1>2, ElementsConcat
<1>4. a = <<>> => b = q
  BY <1>2, ConcatEmptySeq
<1>5. ASSUME a # <<>>
      PROVE  /\ q # <<>> /\ Head(a) = Head(q) /\ Tail(a) \o b = Tail(q)
             /\ Elements(Tail(q)) = Elements(Tail(a)) \cup Elements(b)
  <2>1. /\ a \o b # <<>> /\ Tail(a) \in Seq(Items)
        /\ Head(a \o b) = Head(a) /\ Tail(a \o b) = Tail(a) \o b
    BY <1>2, <1>5, TailFirst, SMTT(30)
  <2>2. Elements(Tail(a) \o b) = Elements(Tail(a)) \cup Elements(b)
    BY <1>2, <2>1, ElementsConcat
  <2> QED
    BY <1>2, <2>1, <2>2
<1> QED
  BY <1>1, <1>2, <1>3, <1>4, <1>5

\* What stays in a stream was in it, or is the rest of a message cut in two.
LEMMA ElementsRest ==
  ASSUME NEW q \in Seq(Items), NEW k \in 0 .. Len(q), NEW cut \in BOOLEAN
  PROVE  Elements(Rest(q, k, cut)) \subseteq Elements(q) \cup {Junk}
<1>1. SubSeq(q, k + 1, Len(q)) \in Seq(Items)
      /\ Elements(SubSeq(q, k + 1, Len(q))) \subseteq Elements(q)
  <2>1. /\ SubSeq(q, k + 1, Len(q)) \in Seq(Items)
        /\ Elements(q) = Elements(SubSeq(q, 1, k)) \cup Elements(SubSeq(q, k + 1, Len(q)))
    BY ElementsCut
  <2> QED
    BY <2>1
<1>2. CASE cut
  <2>1. Rest(q, k, cut) = <<Junk>> \o SubSeq(q, k + 1, Len(q))
    BY <1>2 DEF Rest
  <2>2. <<Junk>> \in Seq(Items)
    BY ItemTypes
  <2>3. Elements(Rest(q, k, cut)) = Elements(<<Junk>>) \cup Elements(SubSeq(q, k + 1, Len(q)))
    BY <1>1, <2>1, <2>2, ElementsConcat
  <2> QED
    BY <1>1, <2>3, ElementsOf
<1>3. CASE ~cut
  BY <1>1, <1>3, RestType
<1> QED
  BY <1>2, <1>3

\* What is read first was in the segment, and so is what is left of it.
LEMMA ElementsFirst ==
  ASSUME NEW r \in Seq(Items)
  PROVE  /\ Others(r) \in Seq(Items)
         /\ Elements(First(r)) \subseteq Elements(r) /\ Elements(Others(r)) \subseteq Elements(r)
         /\ First(r) # <<>> => First(r)[1] \in Elements(r)
<1>1. CASE r = <<>>
  BY <1>1 DEF First, Others
<1>2. CASE r # <<>>
  <2>1. /\ Head(r) \in Elements(r) /\ Tail(r) \in Seq(Items)
        /\ Elements(Tail(r)) \subseteq Elements(r)
    BY <1>2, ElementsTail
  <2>2. Others(r) = Tail(r) /\ First(r) = <<Head(r)>>
    BY <1>2 DEF First, Others
  <2>3. Elements(<<Head(r)>>) = {Head(r)} /\ <<Head(r)>>[1] = Head(r)
    BY ElementsOf
  <2> QED
    BY <2>1, <2>2, <2>3
<1> QED
  BY <1>1, <1>2

\* A handshake flight to the client is the first thing in flight, and a
\* ServerHello the only one.
Shape(q) ==
  q # <<>> => NoFlight(Tail(q)) /\ (Head(q).kind = "ServerHello" => Tail(q) = <<>>)

\* Where a ServerHello may stand in a stream: it stays there when the stream is
\* read, and when what is no flight is added.
LEMMA ShapeFacts ==
  ASSUME NEW q \in Seq(Items)
  PROVE  /\ NoFlight(q) => Shape(q)
         /\ \A x \in Items : Shape(<<x>>)
         /\ \A k \in 0 .. Len(q) : Shape(q) => Shape(SubSeq(q, k + 1, Len(q)))
         /\ \A x \in Items : Shape(q) /\ ~Has(q, "ServerHello") /\ x.kind \notin Flights =>
              Shape(q \o <<x>>) /\ ~Has(q \o <<x>>, "ServerHello")
<1>1. ASSUME NEW r \in Seq(Items), NoFlight(r) PROVE Shape(r)
  <2>1. r # <<>> => Head(r) \in Elements(r) /\ Elements(Tail(r)) \subseteq Elements(r)
    BY ElementsTail
  <2> QED
    BY <1>1, <2>1 DEF Shape, NoFlight, Flights
<1>2. ASSUME NEW x \in Items PROVE Shape(<<x>>)
  <2>1. Tail(<<x>>) = <<>>
    OBVIOUS
  <2> QED
    BY <2>1, ElementsOf DEF Shape, NoFlight
<1>3. ASSUME NEW k \in 0 .. Len(q), Shape(q) PROVE Shape(SubSeq(q, k + 1, Len(q)))
  <2>1. CASE SubSeq(q, 1, k) = <<>>
    BY <1>3, <2>1, ElementsCut, ZenonT(60)
  <2>2. CASE SubSeq(q, 1, k) # <<>>
    <3>1. /\ q # <<>> /\ SubSeq(q, k + 1, Len(q)) \in Seq(Items)
          /\ Elements(SubSeq(q, k + 1, Len(q))) \subseteq Elements(Tail(q))
      <4>1. /\ SubSeq(q, k + 1, Len(q)) \in Seq(Items) /\ q # <<>>
            /\ Elements(Tail(q)) =
                 Elements(Tail(SubSeq(q, 1, k))) \cup Elements(SubSeq(q, k + 1, Len(q)))
        BY <2>2, ElementsCut
      <4> QED
        BY <4>1
    <3>2. NoFlight(SubSeq(q, k + 1, Len(q)))
      BY <1>3, <3>1 DEF Shape, NoFlight
    <3> QED
      BY <1>1, <3>1, <3>2
  <2> QED
    BY <2>1, <2>2
<1>4. ASSUME NEW x \in Items, Shape(q), ~Has(q, "ServerHello"), x.kind \notin Flights
      PROVE  Shape(q \o <<x>>) /\ ~Has(q \o <<x>>, "ServerHello")
  <2>1. <<x>> \in Seq(Items) /\ Elements(<<x>>) = {x}
    BY <1>4, ElementsOf
  <2>2. ~Has(q \o <<x>>, "ServerHello")
    <3>1. Elements(q \o <<x>>) = Elements(q) \cup {x}
      BY <2>1, ElementsConcat
    <3> QED
      BY <1>4, <3>1 DEF Has, Flights
  <2>3. CASE q = <<>>
    <3>1. q \o <<x>> = <<x>>
      BY <2>1, <2>3, ConcatEmptySeq
    <3> QED
      BY <1>2, <2>2, <3>1
  <2>4. CASE q # <<>>
    <3>1. /\ Head(q \o <<x>>) = Head(q) /\ Tail(q) \in Seq(Items)
          /\ Tail(q \o <<x>>) = Tail(q) \o <<x>>
      BY <2>1, <2>4, TailFirst
    <3>2. Elements(Tail(q) \o <<x>>) = Elements(Tail(q)) \cup {x}
      BY <2>1, <3>1, ElementsConcat
    <3>3. Head(q).kind # "ServerHello"
      BY <1>4, <2>4, ElementsTail DEF Has
    <3> QED
      BY <1>4, <2>2, <2>4, <3>1, <3>2, <3>3 DEF Shape, NoFlight
  <2> QED
    BY <2>3, <2>4
<1> QED
  BY <1>1, <1>2, <1>3, <1>4

\* Item x goes out on connection n, alone or with what waited before it.
SentOn(n, x) ==
  /\ n = Carrier
  /\ toServer'[n] = toServer[n] \o <<x>> \/ Mixed(toServer'[n], n, x)
  /\ sent'["up"][n] = sent["up"][n] + (IF x.kind = "Payload" THEN 1 ELSE 0)
  /\ x.kind = "Payload" => x.id = sent["up"][n] + 1

Grew(n, kinds) ==
  \/ toServer'[n] = toServer[n] /\ sent'["up"][n] = sent["up"][n]
  \/ \E x \in Items : x.kind \in kinds /\ SentOn(n, x)

\* What is new in the stream to the server is what was said, or a waiting message
\* that was overwritten.
LEMMA GrewElements ==
  ASSUME TypeOK, TypeOK', NEW n \in Conns, NEW kinds, Grew(n, kinds)
  PROVE  \A y \in Elements(toServer'[n]) :
           y \in Elements(toServer[n]) \/ y.kind \in kinds \/ y.kind = "Junk"
<1>1. PICK r : r = toServer'[n]
  OBVIOUS
<1>2. toServer[n] \in Seq(Items) /\ r \in Seq(Items)
  BY <1>1 DEF TypeOK
<1>3. CASE r = toServer[n]
  BY <1>1, <1>3
<1>4. ASSUME NEW x \in Items, x.kind \in kinds, r = toServer[n] \o <<x>>
      PROVE  \A y \in Elements(r) : y \in Elements(toServer[n]) \/ y.kind \in kinds
  <2>1. <<x>> \in Seq(Items) /\ Elements(<<x>>) = {x}
    BY <1>4, ElementsOf
  <2>2. Elements(toServer[n] \o <<x>>) = Elements(toServer[n]) \cup Elements(<<x>>)
    BY <1>2, <2>1, ElementsConcat
  <2> QED
    BY <1>4, <2>1, <2>2
<1>5. ASSUME NEW x \in Items, x.kind \in kinds, Mixed(r, n, x)
      PROVE  \A y \in Elements(r) : y.kind \in kinds \/ y.kind = "Junk"
  <2>1. Junk.kind = "Junk"
    BY DEF Junk, Item
  <2>2. \A y \in Elements(r) : y = x \/ y = Junk
    BY <1>5 DEF Mixed, Elements
  <2> QED
    BY <1>5, <2>1, <2>2
<1> QED
  BY <1>1, <1>3, <1>4, <1>5 DEF Grew, SentOn

\* What a client that receives nothing sends.
Spoken == {"Connect", "Ping", "Payload"} \cup
          (IF type = "tls" /\ client'.ssl = "hello" THEN {"ClientHello"} ELSE {})

\* What the client sends of its own accord is no ClientFinished.
LEMMA TalkGrows ==
  ASSUME BaseInv, Talks, NEW n \in Conns
  PROVE  Grew(n, Spoken)
<1>1. PICK obj, out : TalkStep(obj, out)
  BY DEF Talks
<1>2. /\ client' = obj /\ FromClient(out)
      /\ out = <<>> \/ \E x \in Items : out = <<x>> /\ Says(obj, x)
  BY <1>1 DEF TalkStep
<1>3. CASE toServer' = toServer /\ sent' = sent
  BY <1>3 DEF Grew
<1>4. ASSUME NEW m \in Conns, NEW x \in Items, out = <<x>>, PutUp(m, x)
      PROVE  Grew(n, Spoken)
  <2>1. Says(obj, x)
    <3>1. PICK y \in Items : out = <<y>> /\ Says(obj, y)
      BY <1>2, <1>4
    <3>2. y = x
      BY <1>4, <3>1
    <3> QED
      BY <3>1, <3>2
  <2>2. x.kind \in Spoken
    BY <1>2, <2>1 DEF Says, Spoken
  <2>3. PICK q \in Seq(Items) :
          /\ toServer' = [toServer EXCEPT ![m] = q]
          /\ q = toServer[m] \o <<x>> \/ Mixed(q, m, x)
    BY <1>4 DEF PutUp
  <2>4. m = Carrier /\ Carrier # 0
        /\ sent' = [sent EXCEPT !["up"][m] = @ + IF x.kind = "Payload" THEN 1 ELSE 0]
    BY <1>4 DEF PutUp, Conns
  <2>5. CASE n = m
    <3>1. toServer'[n] = q
      BY <2>3, <2>5 DEF BaseInv, TypeOK
    <3>2. sent'["up"][n] = sent["up"][n] + (IF x.kind = "Payload" THEN 1 ELSE 0)
      BY <2>4, <2>5 DEF BaseInv, TypeOK, Directions
    <3>3. x.kind = "Payload" => x.id = sent["up"][n] + 1
      BY <2>1, <2>4, <2>5 DEF Says
    <3>4. SentOn(n, x)
      BY <2>3, <2>4, <2>5, <3>1, <3>2, <3>3 DEF SentOn
    <3> QED
      BY <2>2, <3>4 DEF Grew
  <2>6. CASE n # m
    <3>1. toServer'[n] = toServer[n] /\ sent'["up"][n] = sent["up"][n]
      BY <2>3, <2>4, <2>6 DEF BaseInv, TypeOK, Directions
    <3> QED
      BY <3>1 DEF Grew
  <2> QED
    BY <2>5, <2>6
<1> QED
  BY <1>2, <1>3, <1>4, FromClientFacts

\* What a client that receives sends.
LEMMA TookGrows ==
  ASSUME BaseInv, NEW k, NEW message, NEW out, ClientTook(k, message, out),
         NEW kinds, "Payload" \notin kinds,
         out = <<>> \/ \E x \in Items : out = <<x>> /\ x.kind \in kinds,
         NEW n \in Conns
  PROVE  Grew(n, kinds)
<1>1. FromClient(out) /\ (out = <<>> \/ \E x \in Items : out = <<x>>)
  BY DEF ClientTook
<1>2. CASE toServer' = toServer /\ sent' = sent
  BY <1>2 DEF Grew
<1>3. ASSUME NEW m \in Conns, NEW x \in Items, out = <<x>>, PutUp(m, x)
      PROVE  Grew(n, kinds)
  <2>1. x.kind \in kinds
    <3>1. PICK y \in Items : out = <<y>> /\ y.kind \in kinds
      BY <1>3
    <3>2. y = x
      BY <1>3, <3>1
    <3> QED
      BY <3>1, <3>2
  <2>2. PICK q \in Seq(Items) :
          /\ toServer' = [toServer EXCEPT ![m] = q]
          /\ q = toServer[m] \o <<x>> \/ Mixed(q, m, x)
    BY <1>3 DEF PutUp
  <2>3. m = Carrier
        /\ sent' = [sent EXCEPT !["up"][m] = @ + IF x.kind = "Payload" THEN 1 ELSE 0]
    BY <1>3 DEF PutUp
  <2>4. CASE n = m
    <3>1. toServer'[n] = q
      BY <2>2, <2>4 DEF BaseInv, TypeOK
    <3>2. sent'["up"][n] = sent["up"][n] + (IF x.kind = "Payload" THEN 1 ELSE 0)
      BY <2>3, <2>4 DEF BaseInv, TypeOK, Directions
    <3>3. SentOn(n, x)
      BY <2>1, <2>2, <2>3, <2>4, <3>1, <3>2 DEF SentOn
    <3> QED
      BY <2>1, <3>3 DEF Grew
  <2>5. CASE n # m
    <3>1. toServer'[n] = toServer[n] /\ sent'["up"][n] = sent["up"][n]
      BY <2>2, <2>3, <2>5 DEF BaseInv, TypeOK, Directions
    <3> QED
      BY <3>1 DEF Grew
  <2> QED
    BY <2>4, <2>5
<1> QED
  BY <1>1, <1>2, <1>3, FromClientFacts

-----------------------------------------------------------------------------
(* The handshake, connection by connection. *)

\* What the server's end has reached bounds what is in flight to the client;
\* a ClientFinished is in flight only when the ServerHello was taken.
Stage(ssl, up, held, down) ==
  /\ ssl = "wait" => down = <<>>
  /\ ssl \in {"hello", "failed"} => \A x \in Elements(down) : x.kind = "ServerHello"
  /\ ssl = "done" => ~Has(down, "ServerHello")
  /\ Has(up, "ClientFinished") \/ Has(held, "ClientFinished") =>
       ssl # "wait" /\ ~Has(down, "ServerHello")

HandshakeAt(n) ==
  LET a == accepted[n] IN
  /\ a.sock = "none" => a = NoAccepted("none") /\ toClient[n] = <<>>
  /\ type = "tls" =>
       /\ Shape(toClient[n])
       /\ a.sock # "gone" => Stage(a.ssl, toServer[n], a.backlog, toClient[n])

HandshakeInv == \A n \in Conns : HandshakeAt(n)

\* Nothing comes and nothing can come from connection n.
Mute(n) ==
  /\ toClient[n] = <<>> /\ accepted[n].ssl \in {"wait", "failed"}
  /\ ~Has(toServer[n], "ClientHello") /\ ~Has(accepted[n].backlog, "ClientHello")

\* Nothing but records comes from connection n.
Served(n) ==
  /\ NoFlight(toClient[n])
  /\ accepted[n].ssl = "done" \/ accepted[n].sock = "gone"

\* The client reads what its current connection brings.
Reads == client.sock = "open" /\ client.ssl = "done" /\ ~client.handshaking

\* A finished SSL object has no flight to read, and one that has nothing to do
\* on a new connection waits in silence.
Finished ==
  /\ NoFlight(client.backlog)
  /\ client.sock = "connecting" =>
       \A n \in Conns : n = client.conn + 1 => ~Has(toServer[n], "ClientHello")
  /\ client.sock = "established" \/ (client.sock = "open" /\ client.handshaking) =>
       Mute(client.conn)

ClientPhase ==
  type = "tls" =>
    /\ client.ssl = "before" => client.backlog = <<>> /\ client.sock # "open"
    /\ client.ssl = "hello" =>
         /\ client.backlog = <<>> \/ Head(client.backlog).kind \notin Flights
         /\ client.sock = "open" => client.handshaking
    /\ client.ssl = "done" => Finished
    /\ Reads => Served(client.conn)

\* An EConnectOK has come over connection n, or is on its way.
OKFrom(n) ==
  \/ okOn = n
  \/ Has(toClient[n], "ConnectOK")
  \/ type = "tls" /\ n = client.conn /\ Reads /\ Has(client.backlog, "ConnectOK")

OKStands(n) ==
  OKFrom(n) =>
    /\ accepted[n].sock # "none"
    /\ accepted[n].sock \in {"open", "closed"} =>
         /\ type = "tls" => accepted[n].ssl = "done"
         /\ accepted[n].timer => accepted[n].connected

OKInv == \A n \in Conns : OKStands(n)

\* The stage of a handshake stands while its accepted link does not move.
LEMMA HandshakeFrame ==
  ASSUME NEW n \in Conns, HandshakeAt(n), type' = type, accepted'[n] = accepted[n],
         toClient'[n] = toClient[n] \/ toClient'[n] = <<>>,
         Has(toServer'[n], "ClientFinished") => Has(toServer[n], "ClientFinished")
  PROVE  HandshakeAt(n)'
<1>1. Shape(<<>>) /\ Elements(<<>>) = {} /\ ~Has(<<>>, "ServerHello")
  BY ElementsOf DEF Shape, Has
<1>2. CASE toClient'[n] = toClient[n]
  BY <1>2 DEF HandshakeAt, Stage
<1>3. CASE toClient'[n] = <<>>
  BY <1>1, <1>3 DEF HandshakeAt, Stage
<1> QED
  BY <1>2, <1>3

\* The client sends no ClientFinished of its own accord.
LEMMA TalkHandshake ==
  ASSUME BaseInv, Talks, HandshakeInv
  PROVE  HandshakeInv'
<1>1. BaseInv'
  BY TalkBase
<1>2. UNCHANGED <<type, accepted, toClient>>
  BY DEF Talks, TalkStep
<1>3. ASSUME NEW n \in Conns PROVE HandshakeAt(n)'
  <2>1. \A y \in Elements(toServer'[n]) :
          y \in Elements(toServer[n]) \/ y.kind \in Spoken \/ y.kind = "Junk"
    BY <1>1, TalkGrows, GrewElements DEF BaseInv
  <2>2. Has(toServer'[n], "ClientFinished") => Has(toServer[n], "ClientFinished")
    BY <2>1 DEF Has, Spoken
  <2> QED
    BY <1>2, <2>2, HandshakeFrame DEF HandshakeInv
<1> QED
  BY <1>3 DEF HandshakeInv

\* The steps of the client's socket lose what is in flight or change nothing.
LEMMA SocketFrame ==
  ASSUME BaseInv, TimedConnect \/ ConnectFails \/ Establish \/ ClientLost \/ ClientRestart
  PROVE  /\ UNCHANGED <<type, accepted, handed>>
         /\ okOn' = okOn \/ okOn' = 0
         /\ client'.sock \in {"waiting", "connecting", "established"}
         /\ \A n \in Conns :
              /\ \/ toServer'[n] = toServer[n] /\ sent'["up"][n] = sent["up"][n]
                 \/ n = client.conn + 1 /\ toServer'[n] = <<>> /\ sent'["up"][n] = 0
              /\ toClient'[n] = toClient[n] \/ toClient'[n] = <<>>
              /\ sent'["down"][n] = sent["down"][n]
<1>1. /\ client \in ClientType /\ toServer \in [Conns -> Seq(Items)]
      /\ toClient \in [Conns -> Seq(Items)] /\ Directions = {"up", "down"}
      /\ sent \in [Directions -> [Conns -> 0 .. MaxPayload]]
  BY DEF BaseInv, TypeOK, Directions
<1>2. CASE TimedConnect \/ Establish \/ ClientLost
  <2>1. client'.sock \in {"waiting", "connecting", "established"}
    BY <1>1, <1>2 DEF TimedConnect, Establish, ClientLost, ClientType
  <2>2. \A n \in Conns : toClient'[n] = toClient[n] \/ toClient'[n] = <<>>
    BY <1>1, <1>2 DEF TimedConnect, Establish, ClientLost
  <2> QED
    BY <1>1, <1>2, <2>1, <2>2 DEF TimedConnect, Establish, ClientLost, hist
<1>3. CASE ConnectFails \/ ClientRestart
  <2>1. PICK next : next = client.conn + 1
    OBVIOUS
  <2>2. /\ toServer' = [toServer EXCEPT ![next] = <<>>]
        /\ sent' = [sent EXCEPT !["up"][next] = 0]
        /\ UNCHANGED <<type, accepted, handed>>
        /\ okOn' = okOn \/ okOn' = 0
        /\ toClient' = toClient \/ toClient' = [i \in Conns |-> <<>>]
    BY <1>3, <2>1 DEF ConnectFails, ClientRestart
  <2>3. client'.sock \in {"waiting", "connecting", "established"}
    <3>1. CASE ConnectFails
      <4>1. client'.sock = "waiting"
        BY <1>1, <3>1 DEF ConnectFails, ClientType
      <4> QED
        BY <4>1
    <3>2. CASE ClientRestart
      <4>1. client'.sock = "connecting"
        BY <3>2 DEF ClientRestart, NewClient
      <4> QED
        BY <4>1
    <3> QED
      BY <1>3, <3>1, <3>2
  <2> QED
    BY <1>1, <2>1, <2>2, <2>3
<1> QED
  BY <1>2, <1>3

\* The socket of the client moves no handshake.
LEMMA SocketHandshake ==
  ASSUME BaseInv, TimedConnect \/ ConnectFails \/ Establish \/ ClientLost \/ ClientRestart,
         HandshakeInv
  PROVE  HandshakeInv'
<1>1. ~Has(<<>>, "ClientFinished")
  BY ElementsOf DEF Has
<1>2. ASSUME NEW n \in Conns PROVE HandshakeAt(n)'
  <2>1. /\ UNCHANGED <<type, accepted>>
        /\ toServer'[n] = toServer[n] \/ toServer'[n] = <<>>
        /\ toClient'[n] = toClient[n] \/ toClient'[n] = <<>>
    BY SocketFrame
  <2>2. Has(toServer'[n], "ClientFinished") => Has(toServer[n], "ClientFinished")
    BY <1>1, <2>1
  <2> QED
    BY <2>1, <2>2, HandshakeFrame DEF HandshakeInv
<1> QED
  BY <1>2 DEF HandshakeInv

\* A server that restarts, or a connection that breaks, leaves nothing to go on with.
LEMMA RestHandshake ==
  ASSUME BaseInv, ServerRestart \/ Break, HandshakeInv
  PROVE  HandshakeInv'
<1>1. CASE Break
  BY <1>1, HandshakeFrame DEF Break, HandshakeInv
<1>2. CASE ServerRestart
  <2>1. ASSUME NEW n \in Conns PROVE HandshakeAt(n)'
    <3>1. UNCHANGED <<type, toClient>> /\ HandshakeAt(n)
      BY <1>2 DEF ServerRestart, HandshakeInv
    <3>2. CASE n <= client.conn
      <4>1. accepted'[n] = NoAccepted("gone")
        BY <1>2, <3>2 DEF ServerRestart
      <4>2. accepted'[n].sock = "gone"
        BY <4>1 DEF NoAccepted
      <4> QED
        BY <3>1, <4>2 DEF HandshakeAt
    <3>3. CASE ~ n <= client.conn
      <4>1. accepted'[n] = accepted[n] /\ toServer'[n] = toServer[n]
        BY <1>2, <3>3 DEF ServerRestart
      <4> QED
        BY <3>1, <4>1, HandshakeFrame
    <3> QED
      BY <3>2, <3>3
  <2> QED
    BY <2>1 DEF HandshakeInv
<1> QED
  BY <1>1, <1>2

\* Nor does a link that is gone.
LEMMA SwallowHandshake ==
  ASSUME BaseInv, NEW n \in Conns, Swallow(n), HandshakeInv
  PROVE  HandshakeInv'
<1>1. /\ UNCHANGED <<type, toClient>> /\ accepted'[n].sock = "gone"
      /\ \A m \in Conns : m # n => accepted'[m] = accepted[m] /\ toServer'[m] = toServer[m]
  BY SwallowFrame
<1>2. ASSUME NEW m \in Conns PROVE HandshakeAt(m)'
  <2>1. HandshakeAt(m)
    BY DEF HandshakeInv
  <2>2. CASE m = n
    BY <1>1, <2>1, <2>2 DEF HandshakeAt
  <2>3. CASE m # n
    BY <1>1, <2>1, <2>3, HandshakeFrame
  <2> QED
    BY <2>2, <2>3
<1> QED
  BY <1>2 DEF HandshakeInv

\* The steps of an accepted link's socket and timer.
LEMMA AcceptedFrame ==
  ASSUME BaseInv, HandshakeInv,
         NEW n \in Conns, Accept(n) \/ AcceptedTick(n) \/ AcceptedLost(n)
  PROVE  /\ UNCHANGED <<type, client, toClient, okOn, sent, handed>>
         /\ \A m \in Conns : m # n => accepted'[m] = accepted[m] /\ toServer'[m] = toServer[m]
         /\ accepted'[n].ssl = accepted[n].ssl
         /\ accepted'[n].backlog = accepted[n].backlog
         /\ \/ /\ accepted[n].sock = "none" /\ accepted'[n].sock = "open"
               /\ toServer'[n] = toServer[n]
            \/ /\ accepted'[n].sock = accepted[n].sock /\ toServer'[n] = toServer[n]
               /\ accepted[n].timer
               /\ accepted'[n].timer /\ accepted[n].connected => accepted'[n].connected
            \/ /\ accepted[n].sock = "open" /\ accepted'[n].sock = "closed"
               /\ toServer'[n] = <<>>
               /\ accepted'[n].timer = accepted[n].timer
               /\ accepted'[n].connected = accepted[n].connected
<1>1. /\ accepted \in [Conns -> AcceptedType] /\ accepted[n] \in AcceptedType
      /\ toServer \in [Conns -> Seq(Items)]
  BY DEF BaseInv, TypeOK
<1>2. CASE Accept(n)
  <2>1. accepted[n] = NoAccepted("none")
    BY <1>2 DEF Accept, HandshakeInv, HandshakeAt
  <2>2. PICK link : link = IF type = "tcp" THEN AcceptedLinkReady(NoAccepted("open"))
                           ELSE NoAccepted("open")
    OBVIOUS
  <2>3. PICK a : /\ a = link \/ a = [link EXCEPT !.timer = FALSE, !.destroyed = TRUE]
                 /\ accepted' = [accepted EXCEPT ![n] = a]
    BY <1>2, <2>2 DEF Accept
  <2>4. link.sock = "open" /\ link.ssl = "wait" /\ link.backlog = <<>>
    BY <2>2 DEF AcceptedLinkReady, NoAccepted
  <2>5. a.sock = "open" /\ a.ssl = "wait" /\ a.backlog = <<>>
    <3>1. a = link => a.sock = "open" /\ a.ssl = "wait" /\ a.backlog = <<>>
      BY <2>4
    <3>2. a = [link EXCEPT !.timer = FALSE, !.destroyed = TRUE] =>
            a.sock = "open" /\ a.ssl = "wait" /\ a.backlog = <<>>
      BY <2>2 DEF AcceptedLinkReady, NoAccepted
    <3> QED
      BY <2>3, <3>1, <3>2
  <2> QED
    BY <1>1, <1>2, <2>1, <2>3, <2>5 DEF Accept, NoAccepted, hist
<1>3. CASE AcceptedTick(n)
  <2>1. PICK left : left = Decrement(accepted[n].activity)
    OBVIOUS
  <2>2. PICK a : a = [accepted[n] EXCEPT !.activity = left, !.timer = left # 0,
                                         !.connected = accepted[n].connected /\ left # 0]
    OBVIOUS
  <2>3. accepted' = [accepted EXCEPT ![n] = a]
    BY <1>1, <1>3, <2>1, <2>2 DEF AcceptedTick
  <2>4. /\ a.sock = accepted[n].sock /\ a.ssl = accepted[n].ssl
        /\ a.backlog = accepted[n].backlog
        /\ a.timer = (left # 0) /\ a.connected = (accepted[n].connected /\ left # 0)
    BY <1>1, <2>2 DEF AcceptedType
  <2> QED
    BY <1>1, <1>3, <2>3, <2>4 DEF AcceptedTick, hist
<1>4. CASE AcceptedLost(n)
  <2>1. accepted' = [accepted EXCEPT ![n] = [accepted[n] EXCEPT !.sock = "closed"]]
    BY <1>1, <1>4 DEF AcceptedLost
  <2> QED
    BY <1>1, <1>4, <2>1 DEF AcceptedLost, AcceptedType, hist
<1> QED
  BY <1>2, <1>3, <1>4

\* A new accepted link waits for a ClientHello; a lost one is gone.
LEMMA AcceptedHandshakes ==
  ASSUME BaseInv, NEW n \in Conns, Accept(n) \/ AcceptedTick(n) \/ AcceptedLost(n),
         HandshakeInv
  PROVE  HandshakeInv'
<1>1. ~Has(<<>>, "ClientFinished")
  BY ElementsOf DEF Has
<1>2. /\ UNCHANGED <<type, toClient>>
      /\ \A m \in Conns : m # n => accepted'[m] = accepted[m] /\ toServer'[m] = toServer[m]
      /\ accepted'[n].ssl = accepted[n].ssl
      /\ accepted'[n].backlog = accepted[n].backlog
      /\ toServer'[n] = toServer[n] \/ toServer'[n] = <<>>
      /\ accepted[n].sock # "gone" \/ accepted'[n].sock = "gone"
      /\ accepted'[n].sock # "none" \/ (accepted[n].sock = "none" /\ accepted[n].timer)
  BY AcceptedFrame
<1>3. ASSUME NEW m \in Conns, m # n PROVE HandshakeAt(m)'
  BY <1>2, <1>3, HandshakeFrame DEF HandshakeInv
<1>4. HandshakeAt(n)'
  <2>1. HandshakeAt(n)
    BY DEF HandshakeInv
  <2>2. accepted'[n].sock # "none"
    BY <1>2, <2>1 DEF HandshakeAt, NoAccepted
  <2>3. Has(toServer'[n], "ClientFinished") => Has(toServer[n], "ClientFinished")
    BY <1>1, <1>2
  <2> QED
    BY <1>2, <2>1, <2>2, <2>3 DEF HandshakeAt, Stage
<1> QED
  BY <1>3, <1>4 DEF HandshakeInv

\* What an accepted link sends is put at the end, or lost.
LEMMA Downward ==
  ASSUME BaseInv, NEW n \in Conns, NEW out, FromAccepted(n, out)
  PROVE  /\ \/ toClient'[n] = toClient[n] /\ sent'["down"][n] = sent["down"][n]
            \/ /\ accepted[n].sock = "open" /\ toClient'[n] = toClient[n] \o out
               /\ sent'["down"][n] = sent["down"][n] + Payloads(out)
         /\ \A m \in Conns : m # n => /\ toClient'[m] = toClient[m]
                                      /\ sent'["down"][m] = sent["down"][m]
         /\ \A m \in Conns : sent'["up"][m] = sent["up"][m]
<1>1. /\ toClient \in [Conns -> Seq(Items)] /\ Directions = {"up", "down"}
      /\ sent \in [Directions -> [Conns -> 0 .. MaxPayload]]
  BY DEF BaseInv, TypeOK, Directions
<1> QED
  BY <1>1, ZenonT(60) DEF FromAccepted, Put

\* What a receive of an accepted link reads and leaves.
LEMMA ArrivedFacts ==
  ASSUME BaseInv, NEW n \in Conns, NEW k, NEW message, NEW out,
         AcceptedTook(n, k, message, out)
  PROVE  /\ UNCHANGED <<type, client, broken, okOn>>
         /\ Arrived(n, k) \in Seq(Items)
         /\ Elements(Arrived(n, k)) \subseteq Elements(accepted[n].backlog) \cup Elements(toServer[n])
         /\ Elements(toServer'[n]) \subseteq Elements(toServer[n]) \cup {Junk}
         /\ k \in 0 .. Len(toServer[n])
         /\ type = "tls" => toServer'[n] = SubSeq(toServer[n], k + 1, Len(toServer[n]))
         /\ accepted[n].sock = "open" /\ accepted'[n].sock = "open"
         /\ accepted'[n] \in AcceptedType
         /\ \A m \in Conns : m # n => toServer'[m] = toServer[m] /\ accepted'[m] = accepted[m]
<1>1. /\ toServer \in [Conns -> Seq(Items)] /\ toServer[n] \in Seq(Items)
      /\ accepted \in [Conns -> AcceptedType] /\ accepted[n].backlog \in Seq(Items)
      /\ k \in 0 .. Len(toServer[n])
  BY DEF BaseInv, TypeOK, AcceptedType, AcceptedTook
<1>2. PICK cut \in BOOLEAN :
        /\ cut => type = "tcp"
        /\ toServer' = [toServer EXCEPT ![n] = Rest(toServer[n], k, cut)]
  BY DEF AcceptedTook
<1>3. Elements(Rest(toServer[n], k, cut)) \subseteq Elements(toServer[n]) \cup {Junk}
  BY <1>1, ElementsRest
<1>4. ~cut => Rest(toServer[n], k, cut) = SubSeq(toServer[n], k + 1, Len(toServer[n]))
  BY <1>1, RestType
<1>5. PICK seg \in Seq(Items) :
        seg = SubSeq(toServer[n], 1, k) /\ Elements(seg) \subseteq Elements(toServer[n])
  <2>1. /\ SubSeq(toServer[n], 1, k) \in Seq(Items)
        /\ Elements(toServer[n]) = Elements(SubSeq(toServer[n], 1, k))
                              \cup Elements(SubSeq(toServer[n], k + 1, Len(toServer[n])))
    BY <1>1, ElementsCut
  <2> QED
    BY <2>1
<1>6. /\ accepted[n].backlog \o seg \in Seq(Items)
      /\ Elements(accepted[n].backlog \o seg) = Elements(accepted[n].backlog) \cup Elements(seg)
  BY <1>1, ElementsConcat
<1>7. Arrived(n, k) = accepted[n].backlog \o seg
  BY <1>5 DEF Arrived
<1>8. /\ accepted' = [accepted EXCEPT ![n] = accepted'[n]] /\ accepted'[n] \in AcceptedType
      /\ accepted[n].sock = "open" /\ accepted'[n].sock = "open"
      /\ UNCHANGED <<type, client, broken, okOn>>
  BY DEF AcceptedTook
<1>9. \A m \in Conns : m # n => toServer'[m] = toServer[m] /\ accepted'[m] = accepted[m]
  BY <1>1, <1>2, <1>8
<1>10. toServer'[n] = Rest(toServer[n], k, cut)
  BY <1>1, <1>2
<1> QED
  BY <1>1, <1>2, <1>3, <1>4, <1>5, <1>6, <1>7, <1>8, <1>9, <1>10

\* What an accepted link sends in a receive, as far as the handshake goes.
LEMMA OutFacts ==
  ASSUME NEW n, NEW message, NEW reply, Replied(n, message, reply)
  PROVE  reply = <<>> \/ \E x \in Items : /\ reply = <<x>> /\ x.kind \in {"ConnectOK", "Ping"}
                                          /\ x.kind = "ConnectOK" => accepted'[n].connected
BY DEF Replied

\* An accepted link that reads goes through the stages of the handshake in order.
LEMMA TookHandshakes ==
  ASSUME BaseInv, NEW n \in Conns, NEW k, NEW message, NEW out,
         AcceptedTook(n, k, message, out),
         AcceptedTookTcp(n, k, message, out) \/ AcceptedTookTls(n, k, message, out),
         HandshakeInv
  PROVE  HandshakeInv'
<1>1. /\ UNCHANGED <<type, client, broken, okOn>>
      /\ Arrived(n, k) \in Seq(Items)
      /\ Elements(Arrived(n, k)) \subseteq Elements(accepted[n].backlog) \cup Elements(toServer[n])
      /\ Elements(toServer'[n]) \subseteq Elements(toServer[n]) \cup {Junk}
      /\ accepted[n].sock = "open" /\ accepted'[n].sock = "open"
      /\ accepted'[n] \in AcceptedType
      /\ \A m \in Conns : m # n => toServer'[m] = toServer[m] /\ accepted'[m] = accepted[m]
  BY ArrivedFacts
<1>2. FromAccepted(n, out)
  BY DEF AcceptedTook
<1>3. /\ toClient'[n] = toClient[n] \/ toClient'[n] = toClient[n] \o out
      /\ \A m \in Conns : m # n => toClient'[m] = toClient[m]
  BY <1>2, Downward
<1>4. ASSUME NEW m \in Conns, m # n PROVE HandshakeAt(m)'
  BY <1>1, <1>3, <1>4, HandshakeFrame DEF HandshakeInv
<1>5. HandshakeAt(n) /\ type \in {"tcp", "tls"}
  BY DEF HandshakeInv, BaseInv, TypeOK
<1>6. PICK q \in Seq(Items) : q = toClient[n]
  BY DEF BaseInv, TypeOK
<1>7. PICK p : p = toClient'[n] /\ (p = q \/ p = q \o out)
  BY <1>3, <1>6
<1>8. PICK a, b, u, v : /\ a = accepted[n] /\ b = accepted'[n]
                         /\ u = toServer[n] /\ v = toServer'[n]
  OBVIOUS
\* No new ClientFinished.
<1>9. Has(v, "ClientFinished") => Has(u, "ClientFinished")
  BY <1>1, <1>8 DEF Has, Junk, Item
<1>10. ASSUME NEW r, Elements(r) \subseteq Elements(Arrived(n, k)), Has(r, "ClientFinished")
       PROVE  Has(u, "ClientFinished") \/ Has(a.backlog, "ClientFinished")
  BY <1>1, <1>8, <1>10 DEF Has
<1>11. /\ Elements(<<>>) = {} /\ Shape(<<>>)
       /\ \A x : Elements(<<x>>) = {x}
  BY ElementsOf DEF Shape
<1>12. CASE type = "tcp"
  <2>1. type' # "tls" /\ accepted'[n].sock # "none"
    BY <1>1, <1>12
  <2> QED
    BY <1>4, <2>1 DEF HandshakeInv, HandshakeAt
<1>13. CASE type = "tls"
  \* The facts of the connection, before and what is to be shown after.
  <2>1. Shape(q) /\ Stage(a.ssl, u, a.backlog, q)
    BY <1>1, <1>5, <1>6, <1>8, <1>13 DEF HandshakeAt
  <2>2. ASSUME Shape(p), Stage(b.ssl, v, b.backlog, p)
        PROVE  HandshakeInv'
    <3>1. HandshakeAt(n)'
      BY <1>1, <1>7, <1>8, <2>2 DEF HandshakeAt
    <3> QED
      BY <1>4, <3>1 DEF HandshakeInv
  <2>3. CASE Waits(n, k, message, out)
    <3>1. b = a
      BY <1>8, <2>3 DEF Waits
    <3>2. p = q
      <4>1. q \o out = q
        BY <1>6, <2>3, ConcatEmptySeq DEF Waits
      <4> QED
        BY <1>7, <4>1
    <3> QED
      BY <1>9, <2>1, <2>2, <3>1, <3>2 DEF Stage
  <2>4. CASE Begins(n, k, message, out)
    <3>1. /\ a.ssl = "wait" /\ b.ssl = "hello" /\ b.backlog = Tail(Arrived(n, k))
          /\ Arrived(n, k) # <<>> /\ out = <<Flight("ServerHello")>>
      BY <1>8, <2>4 DEF Begins
    <3>2. p = <<>> \/ p = <<Flight("ServerHello")>>
      <4>1. q = <<>>
        BY <2>1, <3>1 DEF Stage
      <4>2. q \o out = out
        <5>1. out \in Seq(Items)
          BY <3>1, ItemTypes DEF Kinds
        <5> QED
          BY <4>1, <5>1, ConcatEmptySeq
      <4> QED
        BY <1>7, <3>1, <4>1, <4>2
    <3>3. Flight("ServerHello").kind = "ServerHello" /\ Flight("ServerHello") \in Items
      BY ItemTypes DEF Flight, Item, Kinds
    <3>4. Shape(p) /\ \A x \in Elements(p) : x.kind = "ServerHello"
      <4>1. CASE p = <<>>
        BY <1>11, <4>1
      <4>2. CASE p = <<Flight("ServerHello")>>
        <5>1. <<>> \in Seq(Items)
          OBVIOUS
        <5>2. Shape(<<Flight("ServerHello")>>)
          BY <3>3, <5>1, ShapeFacts
        <5> QED
          BY <1>11, <3>3, <4>2, <5>2
      <4> QED
        BY <3>2, <4>1, <4>2
    <3>5. ~Has(v, "ClientFinished") /\ ~Has(b.backlog, "ClientFinished")
      <4>1. Elements(Tail(Arrived(n, k))) \subseteq Elements(Arrived(n, k))
        BY <1>1, <3>1, ElementsTail
      <4> QED
        BY <1>9, <1>10, <2>1, <3>1, <4>1 DEF Stage
    <3>6. Stage(b.ssl, v, b.backlog, p)
      BY <3>1, <3>4, <3>5 DEF Stage
    <3> QED
      BY <2>2, <3>4, <3>6
  <2>5. CASE Ends(n, k, message, out)
    <3>1. PICK reply : /\ Replied(n, message, reply)
                       /\ out = <<Flight("ServerFinished")>> \o reply
      BY <2>5 DEF Ends
    <3>2. /\ a.ssl = "hello" /\ b.ssl = "done" /\ Arrived(n, k) # <<>>
          /\ Head(Arrived(n, k)).kind = "ClientFinished"
      BY <1>8, <2>5 DEF Ends
    <3>3. q = <<>>
      <4>1. Head(Arrived(n, k)) \in Elements(Arrived(n, k))
        BY <1>1, <3>2, ElementsTail
      <4>2. Has(Arrived(n, k), "ClientFinished")
        BY <3>2, <4>1 DEF Has
      <4>3. ~Has(q, "ServerHello") /\ \A x \in Elements(q) : x.kind = "ServerHello"
        BY <1>10, <2>1, <3>2, <4>2 DEF Stage
      <4>4. Elements(q) = {}
        BY <4>3 DEF Has
      <4> QED
        BY <1>6, <4>4, ElementsTail
    <3>4. PICK f : f = Flight("ServerFinished") /\ f \in Items /\ f.kind = "ServerFinished"
      BY ItemTypes DEF Flight, Item, Kinds
    <3>5. <<f>> \in Seq(Items) /\ Shape(<<f>>) /\ ~Has(<<f>>, "ServerHello")
      <4>1. <<>> \in Seq(Items)
        OBVIOUS
      <4>2. Shape(<<f>>)
        BY <3>4, <4>1, ShapeFacts
      <4> QED
        BY <1>11, <3>4, <4>2 DEF Has
    <3>6. out \in Seq(Items) /\ Shape(out) /\ ~Has(out, "ServerHello")
      <4>1. CASE reply = <<>>
        <5>1. out = <<f>>
          BY <3>1, <3>4, <3>5, <4>1, ConcatEmptySeq
        <5> QED
          BY <3>5, <5>1
      <4>2. ASSUME NEW x \in Items, reply = <<x>>, x.kind \in {"ConnectOK", "Ping"}
            PROVE  out \in Seq(Items) /\ Shape(out) /\ ~Has(out, "ServerHello")
        <5>1. x.kind \notin Flights /\ <<x>> \in Seq(Items)
          BY <4>2 DEF Flights
        <5>2. Shape(<<f>> \o <<x>>) /\ ~Has(<<f>> \o <<x>>, "ServerHello")
          BY <3>5, <5>1, ShapeFacts
        <5>3. <<f>> \o <<x>> \in Seq(Items)
          BY <3>5, <5>1, ConcatProperties
        <5> QED
          BY <3>1, <3>4, <4>2, <5>2, <5>3
      <4> QED
        BY <3>1, <4>1, <4>2, OutFacts
    <3>7. p = <<>> \/ p = out
      <4>1. q \o out = out
        BY <3>3, <3>6, ConcatEmptySeq
      <4> QED
        BY <1>7, <3>3, <4>1
    <3>8. Shape(p) /\ ~Has(p, "ServerHello")
      BY <1>11, <3>6, <3>7 DEF Has
    <3>9. Stage(b.ssl, v, b.backlog, p)
      BY <3>2, <3>8 DEF Stage
    <3> QED
      BY <2>2, <3>8, <3>9
  <2>6. CASE Serves(n, k, message, out)
    <3>1. Replied(n, message, out) /\ a.ssl = "done" /\ b.ssl = "done"
      BY <1>8, <2>6 DEF Serves
    <3>2. Shape(p) /\ ~Has(p, "ServerHello")
      <4>1. CASE out = <<>>
        <5>1. p = q
          BY <1>6, <1>7, <4>1, ConcatEmptySeq
        <5> QED
          BY <2>1, <3>1, <5>1 DEF Stage
      <4>2. ASSUME NEW x \in Items, out = <<x>>, x.kind \in {"ConnectOK", "Ping"}
            PROVE  Shape(p) /\ ~Has(p, "ServerHello")
        <5>1. x.kind \notin Flights
          BY <4>2 DEF Flights
        <5>2. Shape(q \o <<x>>) /\ ~Has(q \o <<x>>, "ServerHello")
          BY <1>6, <2>1, <3>1, <5>1, ShapeFacts DEF Stage
        <5> QED
          BY <1>7, <2>1, <3>1, <4>2, <5>2 DEF Stage
      <4> QED
        BY <3>1, <4>1, <4>2, OutFacts
    <3>3. Stage(b.ssl, v, b.backlog, p)
      BY <3>1, <3>2 DEF Stage
    <3> QED
      BY <2>2, <3>2, <3>3
  <2>7. CASE Fails(n, k, message, out)
    <3>1. b.ssl = "failed" /\ out = <<>> /\ b.backlog = <<>>
          /\ a.ssl \in {"wait", "hello", "failed"}
      BY <1>8, <2>7 DEF Fails
    <3>2. p = q
      BY <1>6, <1>7, <3>1, ConcatEmptySeq
    <3>3. \A x \in Elements(q) : x.kind = "ServerHello"
      BY <1>11, <2>1, <3>1 DEF Stage
    <3>4. ~Has(b.backlog, "ClientFinished")
      BY <1>11, <3>1 DEF Has
    <3>5. Stage(b.ssl, v, b.backlog, p)
      BY <1>9, <2>1, <3>1, <3>2, <3>3, <3>4 DEF Stage
    <3> QED
      BY <2>1, <2>2, <3>2, <3>5
  <2> QED
    BY <1>13, <2>3, <2>4, <2>5, <2>6, <2>7 DEF AcceptedTookTcp, AcceptedTookTls
<1> QED
  BY <1>5, <1>12, <1>13

\* An accepted link whose handshake is not over sends no record.
LEMMA ServerTalkHandshake ==
  ASSUME BaseInv, NEW n \in Conns, ServerTalks(n), HandshakeInv
  PROVE  HandshakeInv'
<1>1. PICK out :
        /\ FromAccepted(n, out)
        /\ \/ out = <<>>
           \/ \E x \in Items : /\ out = <<x>> /\ x.kind = "Payload"
                               /\ type = "tls" => accepted[n].ssl = "done"
  BY DEF ServerTalks
<1>2. /\ UNCHANGED <<type, toServer>> /\ accepted[n].sock \in {"open", "closed"}
      /\ accepted'[n].sock = accepted[n].sock /\ accepted'[n].ssl = accepted[n].ssl
      /\ accepted'[n].backlog = accepted[n].backlog
      /\ \A m \in Conns : m # n => accepted'[m] = accepted[m]
  BY DEF ServerTalks, BaseInv, TypeOK
<1>3. /\ toClient'[n] = toClient[n] \/ toClient'[n] = toClient[n] \o out
      /\ \A m \in Conns : m # n => toClient'[m] = toClient[m]
  BY <1>1, Downward
<1>4. ASSUME NEW m \in Conns, m # n PROVE HandshakeAt(m)'
  BY <1>2, <1>3, <1>4, HandshakeFrame DEF HandshakeInv
<1>5. HandshakeAt(n)
  BY DEF HandshakeInv
<1>6. PICK q \in Seq(Items) : q = toClient[n]
  BY DEF BaseInv, TypeOK
<1>7. CASE toClient'[n] = toClient[n]
  BY <1>2, <1>4, <1>5, <1>7 DEF HandshakeInv, HandshakeAt
<1>8. CASE out = <<>>
  <2>1. q \o out = q
    BY <1>8, ConcatEmptySeq
  <2> QED
    BY <1>3, <1>6, <1>7, <2>1
<1>9. ASSUME NEW x \in Items, out = <<x>>, x.kind = "Payload",
             type = "tls" => accepted[n].ssl = "done", toClient'[n] = toClient[n] \o out
      PROVE  HandshakeAt(n)'
  <2>1. CASE type # "tls"
    BY <1>2, <2>1 DEF HandshakeAt
  <2>2. CASE type = "tls"
    <3>1. Shape(q) /\ ~Has(q, "ServerHello") /\ accepted[n].ssl = "done"
      BY <1>2, <1>5, <1>6, <1>9, <2>2 DEF HandshakeAt, Stage
    <3>2. x.kind \notin Flights
      BY <1>9 DEF Flights
    <3>3. Shape(q \o <<x>>) /\ ~Has(q \o <<x>>, "ServerHello")
      BY <3>1, <3>2, ShapeFacts
    <3>4. Shape(toClient'[n]) /\ ~Has(toClient'[n], "ServerHello")
      BY <1>6, <1>9, <3>3
    <3> QED
      BY <1>2, <1>5, <3>1, <3>4 DEF HandshakeAt, Stage
  <2> QED
    BY <2>1, <2>2
<1> QED
  BY <1>1, <1>3, <1>4, <1>7, <1>8, <1>9 DEF HandshakeInv

\* What a receive of the client reads and leaves.
LEMMA GatheredFacts ==
  ASSUME BaseInv, NEW k, NEW message, NEW out, ClientTook(k, message, out),
         NEW n, n = client.conn
  PROVE  /\ UNCHANGED <<type, accepted, broken, payloads>>
         /\ n \in Conns /\ toClient[n] \in Seq(Items) /\ toClient[n] # <<>>
         /\ k \in 0 .. Len(toClient[n])
         /\ client.sock = "open" /\ client'.sock = "open" /\ client'.conn = n
         /\ client' \in ClientType
         /\ Gathered(k) \in Seq(Items)
         /\ Elements(Gathered(k)) \subseteq Elements(client.backlog) \cup Elements(toClient[n])
         /\ toClient'[n] \in Seq(Items)
         /\ Elements(toClient'[n]) \subseteq Elements(toClient[n]) \cup {Junk}
         /\ type = "tls" => toClient'[n] = SubSeq(toClient[n], k + 1, Len(toClient[n]))
         /\ \A m \in Conns : m # n => toClient'[m] = toClient[m]
<1>1. /\ toClient \in [Conns -> Seq(Items)] /\ toClient[n] \in Seq(Items) /\ n \in Conns
      /\ client.backlog \in Seq(Items) /\ k \in 0 .. Len(toClient[n])
  BY DEF BaseInv, TypeOK, ClientType, ClientTook
<1>2. PICK cut \in BOOLEAN :
        /\ cut => type = "tcp"
        /\ toClient' = [toClient EXCEPT ![n] = Rest(toClient[n], k, cut)]
  BY DEF ClientTook
<1>3. Elements(Rest(toClient[n], k, cut)) \subseteq Elements(toClient[n]) \cup {Junk}
  BY <1>1, ElementsRest
<1>4. /\ Rest(toClient[n], k, cut) \in Seq(Items)
      /\ ~cut => Rest(toClient[n], k, cut) = SubSeq(toClient[n], k + 1, Len(toClient[n]))
  BY <1>1, RestType
<1>5. PICK seg \in Seq(Items) :
        seg = SubSeq(toClient[n], 1, k) /\ Elements(seg) \subseteq Elements(toClient[n])
  <2>1. /\ SubSeq(toClient[n], 1, k) \in Seq(Items)
        /\ Elements(toClient[n]) = Elements(SubSeq(toClient[n], 1, k))
                              \cup Elements(SubSeq(toClient[n], k + 1, Len(toClient[n])))
    BY <1>1, ElementsCut
  <2> QED
    BY <2>1
<1>6. /\ client.backlog \o seg \in Seq(Items)
      /\ Elements(client.backlog \o seg) = Elements(client.backlog) \cup Elements(seg)
  BY <1>1, ElementsConcat
<1>7. Gathered(k) = client.backlog \o seg
  BY <1>5 DEF Gathered
<1>8. /\ UNCHANGED <<type, accepted, broken, payloads>> /\ toClient[n] # <<>>
      /\ client.sock = "open" /\ client'.sock = "open" /\ client'.conn = n
      /\ client' \in ClientType
  BY DEF ClientTook
<1>9. /\ \A m \in Conns : m # n => toClient'[m] = toClient[m]
      /\ toClient'[n] = Rest(toClient[n], k, cut)
  BY <1>1, <1>2
<1> QED
  BY <1>1, <1>2, <1>3, <1>4, <1>5, <1>6, <1>7, <1>8, <1>9

\* A flight is taken only as the first thing its connection brings.
LEMMA FlightTaken ==
  ASSUME BaseInv, HandshakeInv, ClientPhase,
         NEW k, NEW message, NEW out, ClientTook(k, message, out), type = "tls",
         client.ssl = "hello", Gathered(k) # <<>>, Head(Gathered(k)).kind \in Flights,
         NEW n, n = client.conn
  PROVE  /\ client.backlog = <<>>
         /\ Gathered(k) = SubSeq(toClient[n], 1, k)
         /\ Head(toClient[n]) = Head(Gathered(k))
         /\ NoFlight(Tail(Gathered(k))) /\ NoFlight(toClient'[n])
         /\ Elements(Tail(Gathered(k))) \subseteq Elements(toClient[n])
         /\ Tail(Gathered(k)) \in Seq(Items)
         /\ Head(Gathered(k)).kind = "ServerHello" =>
              Tail(Gathered(k)) = <<>> /\ toClient'[n] = <<>>
<1>1. /\ n \in Conns /\ toClient[n] \in Seq(Items) /\ k \in 0 .. Len(toClient[n])
      /\ toClient'[n] \in Seq(Items)
      /\ toClient'[n] = SubSeq(toClient[n], k + 1, Len(toClient[n]))
  BY GatheredFacts
<1>2. PICK q, seg, rest :
        /\ q \in Seq(Items) /\ q = toClient[n]
        /\ seg = SubSeq(q, 1, k) /\ rest = SubSeq(q, k + 1, Len(q))
  BY <1>1
<1>3. /\ seg \in Seq(Items) /\ rest \in Seq(Items) /\ rest = toClient'[n]
      /\ Elements(q) = Elements(seg) \cup Elements(rest)
      /\ seg # <<>> => /\ q # <<>> /\ Head(seg) = Head(q)
                       /\ Elements(Tail(q)) = Elements(Tail(seg)) \cup Elements(rest)
  BY <1>1, <1>2, ElementsCut, ZenonT(60)
<1>4. client.backlog \in Seq(Items) /\ Gathered(k) = client.backlog \o seg
  BY <1>2 DEF BaseInv, TypeOK, ClientType, Gathered
<1>5. client.backlog = <<>>
  <2>1. SUFFICES ASSUME client.backlog # <<>> PROVE FALSE
    OBVIOUS
  <2>2. Head(Gathered(k)) = Head(client.backlog)
    BY <1>3, <1>4, <2>1, TailFirst
  <2> QED
    BY <2>1, <2>2 DEF ClientPhase
<1>6. Gathered(k) = seg /\ seg # <<>>
  BY <1>3, <1>4, <1>5, ConcatEmptySeq
<1>7. Shape(q)
  BY <1>1, <1>2 DEF HandshakeInv, HandshakeAt
<1>8. NoFlight(Tail(q)) /\ (Head(q).kind = "ServerHello" => Tail(q) = <<>>)
  BY <1>3, <1>6, <1>7 DEF Shape
<1>9. Elements(Tail(seg)) \subseteq Elements(Tail(q)) /\ Elements(rest) \subseteq Elements(Tail(q))
  BY <1>3, <1>6
<1>10. NoFlight(Tail(seg)) /\ NoFlight(rest)
  BY <1>8, <1>9 DEF NoFlight
<1>11. Tail(seg) \in Seq(Items) /\ Elements(Tail(seg)) \subseteq Elements(seg)
  BY <1>3, <1>6, ElementsTail
<1>12. ASSUME Head(seg).kind = "ServerHello"
       PROVE  Tail(seg) = <<>> /\ rest = <<>>
  <2>1. Elements(Tail(q)) = {}
    BY <1>3, <1>6, <1>8, <1>12, ElementsOf
  <2>2. Elements(Tail(seg)) = {} /\ Elements(rest) = {}
    BY <1>9, <2>1
  <2> QED
    BY <1>3, <1>11, <2>2, ElementsTail
<1> QED
  BY <1>2, <1>3, <1>5, <1>6, <1>10, <1>11, <1>12

\* The client sends its ClientFinished only for a ServerHello of that connection.
LEMMA ClientTookHandshake ==
  ASSUME BaseInv, HandshakeInv, ClientPhase,
         NEW k, NEW message, NEW out, ClientTook(k, message, out),
         ClientTookTcp(k, message, out) \/ ClientTookTls(k, message, out)
  PROVE  HandshakeInv'
<1>1. PICK n : n = client.conn
  OBVIOUS
<1>2. /\ UNCHANGED <<type, accepted, broken, payloads>>
      /\ n \in Conns /\ toClient[n] \in Seq(Items) /\ k \in 0 .. Len(toClient[n])
      /\ toClient[n] # <<>> /\ toClient'[n] \in Seq(Items)
      /\ Elements(toClient'[n]) \subseteq Elements(toClient[n]) \cup {Junk}
      /\ type = "tls" => toClient'[n] = SubSeq(toClient[n], k + 1, Len(toClient[n]))
      /\ \A m \in Conns : m # n => toClient'[m] = toClient[m]
  BY <1>1, GatheredFacts
<1>3. /\ BaseInv'
      /\ out = <<>> \/ \E x \in Items : out = <<x>> /\ x.kind \in {"Connect", "ClientFinished"}
      /\ \A m \in Conns : m # Carrier => toServer'[m] = toServer[m]
  BY ClientTookBase
<1>4. ASSUME NEW m \in Conns, m # n PROVE HandshakeAt(m)'
  <2>1. m # Carrier
    BY <1>1, <1>4, CarrierType DEF ClientTook, BaseInv, Conns
  <2> QED
    BY <1>2, <1>3, <1>4, <2>1, HandshakeFrame DEF HandshakeInv
<1>5. HandshakeAt(n) /\ type \in {"tcp", "tls"}
  BY <1>2 DEF HandshakeInv, BaseInv, TypeOK
<1>6. PICK a, q, p, u, v : /\ a = accepted[n] /\ q = toClient[n] /\ p = toClient'[n]
                           /\ u = toServer[n] /\ v = toServer'[n]
  OBVIOUS
\* A connection that brings something has been accepted.
<1>7. a.sock # "none"
  BY <1>2, <1>5, <1>6 DEF HandshakeAt
<1>8. CASE type = "tcp"
  <2>1. HandshakeAt(n)'
    BY <1>2, <1>6, <1>7, <1>8 DEF HandshakeAt
  <2> QED
    BY <1>4, <2>1 DEF HandshakeInv
<1>9. CASE type = "tls"
  <2>1. Shape(q) /\ (a.sock # "gone" => Stage(a.ssl, u, a.backlog, q))
    BY <1>5, <1>6, <1>9 DEF HandshakeAt
  <2>2. Shape(p) /\ Elements(p) \subseteq Elements(q)
    <3>1. Shape(SubSeq(q, k + 1, Len(q)))
      BY <1>2, <1>6, <2>1, ShapeFacts
    <3>2. Elements(q) = Elements(SubSeq(q, 1, k)) \cup Elements(SubSeq(q, k + 1, Len(q)))
      BY <1>2, <1>6, ElementsCut
    <3>3. p = SubSeq(q, k + 1, Len(q))
      BY <1>2, <1>6, <1>9
    <3> QED
      BY <3>1, <3>2, <3>3
  <2>3. ASSUME a.sock # "gone" => Stage(a.ssl, v, a.backlog, p)
        PROVE  HandshakeInv'
    <3>1. HandshakeAt(n)'
      BY <1>2, <1>6, <1>7, <2>2, <2>3 DEF HandshakeAt
    <3> QED
      BY <1>4, <3>1 DEF HandshakeInv
  <2>4. ASSUME NEW kinds, Grew(n, kinds)
        PROVE  \A y \in Elements(v) : y \in Elements(u) \/ y.kind \in kinds \/ y.kind = "Junk"
    BY <1>2, <1>3, <1>6, <2>4, GrewElements DEF BaseInv
  \* No new ClientFinished.
  <2>5. CASE out = <<>> \/ \E x \in Items : out = <<x>> /\ x.kind \in {"Connect"}
    <3>1. Grew(n, {"Connect"})
      BY <1>2, <2>5, TookGrows
    <3>2. Has(v, "ClientFinished") => Has(u, "ClientFinished")
      BY <2>4, <3>1 DEF Has
    <3>3. p = <<>> \/ q # <<>>
      BY <1>2, <1>6
    <3>4. Has(p, "ServerHello") => Has(q, "ServerHello")
      BY <2>2 DEF Has
    <3>5. Stage(a.ssl, u, a.backlog, q) => Stage(a.ssl, v, a.backlog, p)
      BY <2>2, <3>2, <3>3, <3>4 DEF Stage
    <3> QED
      BY <2>1, <2>3, <3>5
  \* The one that answers the ServerHello.
  <2>6. CASE Answers(k, message, out)
    <3>1. /\ client.ssl = "hello" /\ Gathered(k) # <<>>
          /\ Head(Gathered(k)).kind = "ServerHello"
      BY <2>6 DEF Answers
    <3>2. p = <<>>
      BY <1>1, <1>6, <1>9, <3>1, FlightTaken DEF Flights
    <3>3. Elements(p) = {} /\ ~Has(p, "ServerHello")
      BY <3>2, ElementsOf DEF Has
    <3>4. Stage(a.ssl, u, a.backlog, q) => Stage(a.ssl, v, a.backlog, p)
      BY <1>2, <1>6, <3>2, <3>3 DEF Stage
    <3> QED
      BY <2>1, <2>3, <3>4
  <2>7. CASE Stalls(k, message, out) \/ ReadsOn(k, message, out)
    BY <2>5, <2>7 DEF Stalls, ReadsOn
  <2>8. CASE Finishes(k, message, out)
    <3>1. PICK session \in 0 .. MaxConns : out = <<Item("Connect", 0, session)>>
      BY <2>8 DEF Finishes
    <3>2. Item("Connect", 0, session).kind = "Connect"
      BY DEF Item
    <3>3. PICK x \in Items : out = <<x>>
      BY <1>3, <3>1
    <3>4. x = Item("Connect", 0, session)
      BY <3>1, <3>3
    <3> QED
      BY <2>5, <3>2, <3>3, <3>4
  <2> QED
    BY <1>9, <2>6, <2>7, <2>8 DEF ClientTookTcp, ClientTookTls
<1> QED
  BY <1>5, <1>8, <1>9

-----------------------------------------------------------------------------
(* The client's side of the handshake. *)

\* What the client sends moves its SSL object to "hello" at most.
LEMMA TalkPhase ==
  ASSUME BaseInv, Talks, ClientPhase
  PROVE  ClientPhase'
<1>1. /\ BaseInv' /\ UNCHANGED <<type, accepted, toClient>>
      /\ client.conn \in 0 .. MaxConns
  BY TalkBase DEF Talks, TalkStep, BaseInv, TypeOK, ClientType
<1>2. /\ client'.conn = client.conn /\ client'.backlog = client.backlog
      /\ \/ /\ client'.sock = client.sock /\ client'.handshaking = client.handshaking
            /\ client'.ssl = client.ssl \/ (client.ssl = "before" /\ client'.ssl = "hello")
         \/ /\ client.sock = "established" /\ client'.sock = "open"
            /\ type = "tls" =>
                 /\ client'.handshaking
                 /\ client'.ssl = "hello" \/ (client.ssl = "done" /\ client'.ssl = "done")
  BY DEF Talks, TalkStep, Became
<1>3. client \in ClientType
  BY DEF BaseInv, TypeOK
\* A finished object says no ClientHello.
<1>4. ASSUME NEW n \in Conns, client'.ssl = "done", ~Has(toServer[n], "ClientHello")
      PROVE  ~Has(toServer'[n], "ClientHello")
  <2>1. \A y \in Elements(toServer'[n]) :
          y \in Elements(toServer[n]) \/ y.kind \in Spoken \/ y.kind = "Junk"
    BY <1>1, TalkGrows, GrewElements DEF BaseInv
  <2> QED
    BY <1>4, <2>1 DEF Has, Spoken
<1>5. CASE type # "tls"
  BY <1>1, <1>5 DEF ClientPhase
<1>6. CASE type = "tls"
  <2>1. client'.ssl = "before" => client'.backlog = <<>> /\ client'.sock # "open"
    BY <1>2, <1>6 DEF ClientPhase
  <2>2. client'.ssl = "hello" =>
          /\ client'.backlog = <<>> \/ Head(client'.backlog).kind \notin Flights
          /\ client'.sock = "open" => client'.handshaking
    <3>1. client.backlog = <<>> \/ Head(client.backlog).kind \notin Flights
      <4>1. CASE client.ssl \in {"before", "hello"}
        BY <1>6, <4>1 DEF ClientPhase
      <4>2. CASE client.ssl = "done"
        <5>1. NoFlight(client.backlog) /\ client.backlog \in Seq(Items)
          BY <1>3, <1>6, <4>2 DEF ClientPhase, Finished, ClientType
        <5> QED
          BY <5>1, ElementsTail DEF NoFlight
      <4> QED
        BY <1>3, <4>1, <4>2 DEF ClientType
    <3>2. client'.ssl = "hello" /\ client'.sock = "open" => client'.handshaking
      BY <1>2, <1>6 DEF ClientPhase
    <3> QED
      BY <1>2, <3>1, <3>2
  <2>3. client'.ssl = "done" => Finished'
    <3>1. SUFFICES ASSUME client'.ssl = "done" PROVE Finished'
      OBVIOUS
    <3>2. client.ssl = "done" /\ Finished
      BY <1>2, <1>6, <3>1 DEF ClientPhase
    <3>3. NoFlight(client'.backlog)
      BY <1>2, <3>2 DEF Finished
    <3>4. client'.sock = "connecting" =>
            \A n \in Conns : n = client'.conn + 1 => ~Has(toServer'[n], "ClientHello")
      BY <1>2, <1>4, <3>1, <3>2 DEF Finished
    <3>5. ASSUME client'.sock = "established" \/ (client'.sock = "open" /\ client'.handshaking)
          PROVE  Mute(client.conn)'
      <4>1. client.sock = "established" \/ (client.sock = "open" /\ client.handshaking)
        BY <1>2, <3>5
      <4>2. PICK n : n = client.conn
        OBVIOUS
      <4>3. n \in Conns
        BY <1>1, <4>1, <4>2 DEF BaseInv, Fresh, Conns
      <4>4. Mute(n)
        BY <3>2, <4>1, <4>2 DEF Finished
      <4>5. Mute(n)'
        BY <1>1, <1>4, <3>1, <4>3, <4>4 DEF Mute
      <4> QED
        BY <1>2, <4>2, <4>5
    <3> QED
      BY <3>3, <3>4, <3>5 DEF Finished
  <2>4. Reads' => Served(client.conn)'
    <3>1. SUFFICES ASSUME Reads' PROVE Served(client.conn)'
      OBVIOUS
    <3>2. Reads
      BY <1>2, <1>6, <3>1 DEF Reads
    <3>3. PICK n : n = client.conn
      OBVIOUS
    <3>4. Served(n)
      BY <1>6, <3>2, <3>3 DEF ClientPhase
    <3>5. Served(n)'
      BY <1>1, <3>4 DEF Served
    <3> QED
      BY <1>2, <3>3, <3>5
  <2> QED
    BY <2>1, <2>2, <2>3, <2>4 DEF ClientPhase
<1> QED
  BY <1>5, <1>6

\* A connection that comes or goes resets none of the SSL object of the client.
LEMMA SocketPhase ==
  ASSUME BaseInv, TimedConnect \/ ConnectFails \/ Establish \/ ClientLost \/ ClientRestart,
         ClientPhase
  PROVE  ClientPhase'
<1>1. type' = type /\ client'.sock \in {"waiting", "connecting", "established"} /\ ~Reads'
  BY SocketFrame DEF Reads
<1>2. client \in ClientType /\ client.backlog \in Seq(Items) /\ client.conn \in 0 .. MaxConns
  BY DEF BaseInv, TypeOK, ClientType
<1>3. ~Has(<<>>, "ClientHello")
  BY ElementsOf DEF Has
<1>4. CASE ClientRestart
  <2>1. client'.ssl = "before" /\ client'.backlog = <<>> /\ client'.sock = "connecting"
    BY <1>4 DEF ClientRestart, NewClient
  <2> QED
    BY <1>1, <2>1 DEF ClientPhase
<1>5. CASE TimedConnect \/ ConnectFails \/ Establish \/ ClientLost
  <2>1. client'.ssl = client.ssl /\ client'.backlog = client.backlog
    BY <1>2, <1>5 DEF TimedConnect, ConnectFails, Establish, ClientLost, ClientType
  <2>2. ASSUME type = "tls", client.ssl = "done"
        PROVE  Finished'
    <3>1. NoFlight(client.backlog)
      BY <2>2 DEF ClientPhase, Finished
    <3>2. CASE TimedConnect
      <4>1. /\ client'.sock = "connecting" /\ client'.conn = client.conn /\ toServer' = toServer
            /\ client.sock = "waiting"
        BY <1>2, <3>2 DEF TimedConnect, ClientType
      <4>2. ASSUME NEW n \in Conns, n = client'.conn + 1
            PROVE  ~Has(toServer'[n], "ClientHello")
        <5>1. n > client.conn
          BY <1>2, <4>1, <4>2
        <5>2. toServer[n] = <<>>
          BY <4>1, <5>1 DEF BaseInv, Fresh, Unused
        <5> QED
          BY <1>3, <4>1, <5>2
      <4> QED
        BY <2>1, <3>1, <4>1, <4>2 DEF Finished
    <3>3. CASE ConnectFails \/ ClientLost
      <4>1. client'.sock = "waiting"
        BY <1>2, <3>3 DEF ConnectFails, ClientLost, ClientType
      <4> QED
        BY <2>1, <3>1, <4>1 DEF Finished
    <3>4. CASE Establish
      <4>1. PICK n : n = client.conn + 1
        OBVIOUS
      <4>2. /\ client'.sock = "established" /\ client'.conn = n /\ n \in Conns
            /\ client.sock = "connecting" /\ n > client.conn
            /\ UNCHANGED <<accepted, toServer, toClient>>
        BY <1>2, <3>4, <4>1, StreamAssumption DEF Establish, ClientType, Conns
      <4>3. toClient[n] = <<>> /\ accepted[n] = NoAccepted("none")
        BY <4>2 DEF BaseInv, Fresh, Unused
      <4>4. ~Has(toServer[n], "ClientHello")
        BY <2>2, <4>1, <4>2 DEF ClientPhase, Finished
      <4>5. accepted[n].ssl = "wait" /\ accepted[n].backlog = <<>>
        BY <4>3 DEF NoAccepted
      <4>6. Mute(n)'
        BY <1>3, <4>2, <4>3, <4>4, <4>5 DEF Mute
      <4> QED
        BY <2>1, <3>1, <4>2, <4>6 DEF Finished
    <3> QED
      BY <1>5, <3>2, <3>3, <3>4
  <2> QED
    BY <1>1, <2>1, <2>2 DEF ClientPhase
<1> QED
  BY <1>4, <1>5

\* The client reads: its handshake ends with a ServerHello, and then it reads records.
LEMMA ClientTookPhase ==
  ASSUME BaseInv, HandshakeInv, ClientPhase,
         NEW k, NEW message, NEW out, ClientTook(k, message, out),
         ClientTookTcp(k, message, out) \/ ClientTookTls(k, message, out)
  PROVE  ClientPhase'
<1>1. PICK n : n = client.conn
  OBVIOUS
<1>2. /\ UNCHANGED <<type, accepted>> /\ n \in Conns /\ toClient[n] # <<>>
      /\ client.sock = "open" /\ client'.sock = "open" /\ client'.conn = n
      /\ toClient[n] \in Seq(Items) /\ Gathered(k) \in Seq(Items)
      /\ Elements(Gathered(k)) \subseteq Elements(client.backlog) \cup Elements(toClient[n])
      /\ Elements(toClient'[n]) \subseteq Elements(toClient[n]) \cup {Junk}
  BY <1>1, GatheredFacts
<1>3. CASE type = "tcp"
  BY <1>2, <1>3 DEF ClientPhase
<1>4. CASE Stalls(k, message, out)
  <2>1. /\ client'.ssl = "hello" /\ client'.handshaking /\ client'.backlog = Gathered(k)
        /\ Gathered(k) = <<>> \/ Head(Gathered(k)).kind \notin Flights
    BY <1>4 DEF Stalls
  <2>2. ~Reads'
    BY <2>1 DEF Reads
  <2> QED
    BY <2>1, <2>2 DEF ClientPhase
<1>5. CASE Answers(k, message, out) /\ type = "tls"
  <2>1. /\ client.ssl = "hello" /\ Gathered(k) # <<>>
        /\ Head(Gathered(k)).kind = "ServerHello"
        /\ client'.ssl = "hello" /\ client'.handshaking /\ client'.backlog = Tail(Gathered(k))
    BY <1>5 DEF Answers
  <2>2. Tail(Gathered(k)) = <<>>
    BY <1>1, <1>5, <2>1, FlightTaken DEF Flights
  <2>3. ~Reads'
    BY <2>1 DEF Reads
  <2> QED
    BY <2>1, <2>2, <2>3 DEF ClientPhase
<1>6. CASE Finishes(k, message, out) /\ type = "tls"
  <2>1. /\ client.ssl = "hello" /\ Gathered(k) # <<>>
        /\ Head(Gathered(k)).kind = "ServerFinished"
        /\ client'.ssl = "done" /\ ~client'.handshaking
        /\ client'.backlog = Others(Tail(Gathered(k)))
    BY <1>6 DEF Finishes
  <2>2. /\ Head(toClient[n]) = Head(Gathered(k)) /\ Tail(Gathered(k)) \in Seq(Items)
        /\ NoFlight(Tail(Gathered(k))) /\ NoFlight(toClient'[n])
    BY <1>1, <1>6, <2>1, FlightTaken DEF Flights
  <2>3. NoFlight(client'.backlog)
    <3>1. Elements(Others(Tail(Gathered(k)))) \subseteq Elements(Tail(Gathered(k)))
      BY <2>2, ElementsFirst
    <3> QED
      BY <2>1, <2>2, <3>1 DEF NoFlight
  \* The ServerFinished is that of a link that is done.
  <2>4. accepted[n].ssl = "done" \/ accepted[n].sock = "gone"
    <3>1. Head(toClient[n]) \in Elements(toClient[n])
      BY <1>2, ElementsTail
    <3>2. accepted[n].ssl \in {"wait", "hello", "done", "failed"}
      BY <1>2 DEF BaseInv, TypeOK, AcceptedType
    <3>3. HandshakeAt(n)
      BY <1>2 DEF HandshakeInv
    <3>4. PICK a, u, q : a = accepted[n] /\ u = toServer[n] /\ q = toClient[n]
      OBVIOUS
    <3>5. a.sock # "gone" => Stage(a.ssl, u, a.backlog, q)
      BY <1>6, <3>3, <3>4 DEF HandshakeAt
    <3>6. Head(q).kind = "ServerFinished" /\ Head(q) \in Elements(q) /\ q # <<>>
      BY <1>2, <2>1, <2>2, <3>1, <3>4
    <3>7. a.ssl = "done" \/ a.sock = "gone"
      BY <3>2, <3>4, <3>5, <3>6 DEF Stage
    <3> QED
      BY <3>4, <3>7
  <2>5. Served(n)'
    BY <1>2, <2>2, <2>4 DEF Served
  <2>6. Finished'
    BY <1>2, <2>1, <2>3 DEF Finished
  <2> QED
    BY <1>2, <2>1, <2>5, <2>6 DEF ClientPhase
<1>7. CASE ReadsOn(k, message, out) /\ type = "tls"
  <2>1. /\ client.ssl = "done" /\ ~client.handshaking /\ client'.ssl = "done"
        /\ ~client'.handshaking /\ client'.backlog = Others(Gathered(k))
    BY <1>7 DEF ReadsOn
  <2>2. Served(n) /\ NoFlight(client.backlog)
    BY <1>1, <1>2, <1>7, <2>1 DEF ClientPhase, Reads, Finished
  <2>3. Served(n)'
    <3>1. Junk.kind \notin Flights
      BY DEF Junk, Item, Flights
    <3> QED
      BY <1>2, <2>2, <3>1 DEF Served, NoFlight
  <2>4. NoFlight(client'.backlog)
    <3>1. Elements(Others(Gathered(k))) \subseteq Elements(Gathered(k))
      BY <1>2, ElementsFirst
    <3> QED
      BY <1>2, <2>1, <2>2, <3>1 DEF NoFlight, Served
  <2>5. Finished'
    BY <1>2, <2>1, <2>4 DEF Finished
  <2> QED
    BY <1>2, <2>1, <2>3, <2>5 DEF ClientPhase
<1> QED
  BY <1>3, <1>4, <1>5, <1>6, <1>7 DEF ClientTookTcp, ClientTookTls

\* Steps of the server.
LEMMA PhaseFrame ==
  ASSUME BaseInv, ClientPhase, UNCHANGED <<type, client>>,
         \A n \in Conns : n > client.conn => toServer'[n] = toServer[n],
         \A n \in Conns : n = client.conn /\ type = "tls" =>
           (Mute(n) => Mute(n)') /\ (Served(n) => Served(n)')
  PROVE  ClientPhase'
<1>1. client.conn \in 0 .. MaxConns /\ MaxConns \in Nat
  BY StreamAssumption DEF BaseInv, TypeOK, ClientType
<1>2. PICK n : n = client.conn
  OBVIOUS
<1>3. client.sock \in {"established", "open"} => n \in Conns
  BY <1>1, <1>2 DEF BaseInv, Fresh, Conns
<1>4. \A m \in Conns : m = client.conn + 1 => toServer'[m] = toServer[m]
  BY <1>1
<1>5. CASE type # "tls"
  BY <1>5 DEF ClientPhase
<1>6. CASE type = "tls"
  <2>1. Finished => Finished'
    <3>1. SUFFICES ASSUME Finished PROVE Finished'
      OBVIOUS
    <3>2. NoFlight(client'.backlog)
      BY <3>1 DEF Finished
    <3>3. client'.sock = "connecting" =>
            \A m \in Conns : m = client'.conn + 1 => ~Has(toServer'[m], "ClientHello")
      BY <1>4, <3>1 DEF Finished
    <3>4. client'.sock = "established" \/ (client'.sock = "open" /\ client'.handshaking) =>
            Mute(client.conn)'
      BY <1>2, <1>3, <1>6, <3>1 DEF Finished
    <3> QED
      BY <3>2, <3>3, <3>4 DEF Finished
  <2>2. Reads' => Served(client.conn)'
    <3>1. SUFFICES ASSUME Reads PROVE Served(n)'
      BY <1>2 DEF Reads
    <3>2. Served(n) /\ n \in Conns
      BY <1>2, <1>3, <1>6, <3>1 DEF ClientPhase, Reads
    <3> QED
      BY <1>2, <1>6, <3>2
  <2> QED
    BY <2>1, <2>2 DEF ClientPhase
<1> QED
  BY <1>5, <1>6

\* An accepted link that reads sends no flight to a client that has finished.
LEMMA TookPhase ==
  ASSUME BaseInv, NEW n \in Conns, NEW k, NEW message, NEW out,
         AcceptedTook(n, k, message, out),
         AcceptedTookTcp(n, k, message, out) \/ AcceptedTookTls(n, k, message, out),
         ClientPhase
  PROVE  ClientPhase'
<1>1. /\ UNCHANGED <<type, client, broken, okOn>>
      /\ Arrived(n, k) \in Seq(Items)
      /\ Elements(Arrived(n, k)) \subseteq Elements(accepted[n].backlog) \cup Elements(toServer[n])
      /\ Elements(toServer'[n]) \subseteq Elements(toServer[n]) \cup {Junk}
      /\ accepted[n].sock = "open" /\ accepted'[n].sock = "open"
      /\ \A m \in Conns : m # n => toServer'[m] = toServer[m] /\ accepted'[m] = accepted[m]
  BY ArrivedFacts
<1>2. FromAccepted(n, out)
  BY DEF AcceptedTook
<1>3. /\ toClient'[n] = toClient[n] \/ toClient'[n] = toClient[n] \o out
      /\ \A m \in Conns : m # n => toClient'[m] = toClient[m]
  BY <1>2, Downward
<1>4. \A m \in Conns : m > client.conn => m # n
  BY <1>1 DEF BaseInv, Fresh, Unused, NoAccepted
<1>5. ASSUME NEW m \in Conns, m # n
      PROVE  (Mute(m) => Mute(m)') /\ (Served(m) => Served(m)')
  BY <1>1, <1>3, <1>5 DEF Mute, Served
<1>6. PICK q \in Seq(Items) : q = toClient[n]
  BY DEF BaseInv, TypeOK
<1>7. q \o <<>> = q
  BY ConcatEmptySeq
<1>8. ~Has(<<>>, "ClientHello")
  BY ElementsOf DEF Has
<1>9. ~Has(toServer[n], "ClientHello") => ~Has(toServer'[n], "ClientHello")
  BY <1>1 DEF Has, Junk, Item
<1>10. ASSUME type = "tls", Mute(n)
       PROVE  Mute(n)'
  <2>1. ~Has(Arrived(n, k), "ClientHello") /\ accepted[n].ssl \in {"wait", "failed"}
    BY <1>1, <1>10 DEF Mute, Has
  <2>2. Waits(n, k, message, out) \/ Fails(n, k, message, out)
    <3>1. ~Begins(n, k, message, out)
      BY <1>1, <2>1, ElementsTail DEF Begins, Has
    <3>2. ~Ends(n, k, message, out) /\ ~Serves(n, k, message, out)
      BY <2>1 DEF Ends, Serves
    <3> QED
      BY <1>10, <3>1, <3>2 DEF AcceptedTookTcp, AcceptedTookTls
  <2>3. toClient'[n] = toClient[n]
    BY <1>3, <1>6, <1>7, <2>2 DEF Waits, Fails
  <2>4. CASE Waits(n, k, message, out)
    BY <1>9, <1>10, <2>3, <2>4 DEF Waits, Mute
  <2>5. CASE Fails(n, k, message, out)
    BY <1>8, <1>9, <1>10, <2>3, <2>5 DEF Fails, Mute
  <2> QED
    BY <2>2, <2>4, <2>5
<1>11. ASSUME type = "tls", Served(n)
       PROVE  Served(n)'
  <2>1. accepted[n].ssl = "done"
    BY <1>1, <1>11 DEF Served
  <2>2. Waits(n, k, message, out) \/ Serves(n, k, message, out)
    BY <1>11, <2>1
       DEF AcceptedTookTcp, AcceptedTookTls, Begins, Ends, Fails
  <2>3. accepted'[n].ssl = "done"
    BY <2>1, <2>2 DEF Waits, Serves
  <2>4. CASE out = <<>>
    BY <1>3, <1>6, <1>7, <1>11, <2>3, <2>4 DEF Served
  <2>5. ASSUME NEW x \in Items, out = <<x>>, x.kind \in {"ConnectOK", "Ping"}
        PROVE  Served(n)'
    <3>1. <<x>> \in Seq(Items) /\ Elements(<<x>>) = {x}
      BY <2>5, ElementsOf
    <3>2. Elements(q \o <<x>>) = Elements(q) \cup {x}
      BY <3>1, ElementsConcat
    <3>3. NoFlight(q)
      BY <1>6, <1>11 DEF Served
    <3>4. NoFlight(q \o <<x>>)
      BY <2>5, <3>2, <3>3 DEF NoFlight, Flights
    <3> QED
      BY <1>3, <1>6, <2>3, <2>5, <3>3, <3>4 DEF Served
  <2> QED
    BY <2>2, <2>4, <2>5, OutFacts DEF Waits, Serves
<1> QED
  BY <1>1, <1>4, <1>5, <1>10, <1>11, PhaseFrame

\* Nor does one that sends.
LEMMA ServerTalkPhase ==
  ASSUME BaseInv, NEW n \in Conns, ServerTalks(n), ClientPhase
  PROVE  ClientPhase'
<1>1. PICK out :
        /\ FromAccepted(n, out)
        /\ \/ out = <<>>
           \/ \E x \in Items : /\ out = <<x>> /\ x.kind = "Payload"
                               /\ type = "tls" => accepted[n].ssl = "done"
  BY DEF ServerTalks
<1>2. /\ UNCHANGED <<type, client, toServer>>
      /\ accepted'[n].sock = accepted[n].sock /\ accepted'[n].ssl = accepted[n].ssl
      /\ accepted'[n].backlog = accepted[n].backlog
      /\ \A m \in Conns : m # n => accepted'[m] = accepted[m]
  BY DEF ServerTalks, BaseInv, TypeOK
<1>3. /\ toClient'[n] = toClient[n] \/ toClient'[n] = toClient[n] \o out
      /\ \A m \in Conns : m # n => toClient'[m] = toClient[m]
  BY <1>1, Downward
<1>4. ASSUME NEW m \in Conns, m # n
      PROVE  (Mute(m) => Mute(m)') /\ (Served(m) => Served(m)')
  BY <1>2, <1>3, <1>4 DEF Mute, Served
<1>5. PICK q \in Seq(Items) : q = toClient[n]
  BY DEF BaseInv, TypeOK
<1>6. ASSUME toClient'[n] = toClient[n]
      PROVE  (Mute(n) => Mute(n)') /\ (Served(n) => Served(n)')
  BY <1>2, <1>6 DEF Mute, Served
<1>7. CASE out = <<>>
  <2>1. q \o out = q
    BY <1>7, ConcatEmptySeq
  <2>2. (Mute(n) => Mute(n)') /\ (Served(n) => Served(n)')
    BY <1>3, <1>5, <1>6, <2>1
  <2> QED
    BY <1>2, <1>4, <2>2, PhaseFrame
<1>8. ASSUME NEW x \in Items, out = <<x>>, x.kind = "Payload", type = "tls",
             accepted[n].ssl = "done", toClient'[n] = q \o <<x>>
      PROVE  (Mute(n) => Mute(n)') /\ (Served(n) => Served(n)')
  <2>1. <<x>> \in Seq(Items) /\ Elements(<<x>>) = {x}
    BY <1>8, ElementsOf
  <2>2. Elements(q \o <<x>>) = Elements(q) \cup {x}
    BY <2>1, ElementsConcat
  <2>3. NoFlight(q) => NoFlight(q \o <<x>>)
    BY <1>8, <2>2 DEF NoFlight, Flights
  <2> QED
    BY <1>2, <1>5, <1>8, <2>3 DEF Mute, Served
<1>9. type = "tls" => (Mute(n) => Mute(n)') /\ (Served(n) => Served(n)')
  <2>1. CASE toClient'[n] = toClient[n]
    BY <1>6, <2>1
  <2>2. CASE out = <<>>
    <3>1. q \o out = q
      BY <2>2, ConcatEmptySeq
    <3> QED
      BY <1>3, <1>5, <1>6, <3>1
  <2>3. CASE toClient'[n] # toClient[n] /\ out # <<>>
    BY <1>1, <1>3, <1>5, <1>8, <2>3
  <2> QED
    BY <2>1, <2>2, <2>3
<1> QED
  BY <1>2, <1>4, <1>9, PhaseFrame

\* Accepting, the tick and the loss of an accepted link bring the client nothing.
LEMMA AcceptedPhase ==
  ASSUME BaseInv, HandshakeInv, ClientPhase,
         NEW n \in Conns, Accept(n) \/ AcceptedTick(n) \/ AcceptedLost(n)
  PROVE  ClientPhase'
<1>1. /\ UNCHANGED <<type, client, toClient>>
      /\ \A m \in Conns : m # n => accepted'[m] = accepted[m] /\ toServer'[m] = toServer[m]
      /\ accepted'[n].ssl = accepted[n].ssl
      /\ accepted'[n].backlog = accepted[n].backlog
      /\ toServer'[n] = toServer[n] \/ toServer'[n] = <<>>
      /\ accepted[n].sock = "gone" => accepted'[n].sock = "gone"
      /\ toServer'[n] # toServer[n] => accepted[n].sock = "open"
  BY AcceptedFrame
<1>2. ~Has(<<>>, "ClientHello")
  BY ElementsOf DEF Has
<1>3. ASSUME NEW m \in Conns PROVE (Mute(m) => Mute(m)') /\ (Served(m) => Served(m)')
  <2>1. CASE m = n
    BY <1>1, <1>2, <2>1 DEF Mute, Served
  <2>2. CASE m # n
    BY <1>1, <2>2 DEF Mute, Served
  <2> QED
    BY <2>1, <2>2
<1>4. \A m \in Conns : m > client.conn => toServer'[m] = toServer[m]
  <2>1. \A m \in Conns : m > client.conn => accepted[m].sock = "none"
    BY DEF BaseInv, Fresh, Unused, NoAccepted
  <2> QED
    BY <1>1, <2>1
<1> QED
  BY <1>1, <1>3, <1>4, PhaseFrame

\* Nor does a link that is gone.
LEMMA SwallowPhase ==
  ASSUME BaseInv, NEW n \in Conns, Swallow(n), ClientPhase
  PROVE  ClientPhase'
<1>1. /\ UNCHANGED <<type, client, toClient>>
      /\ accepted'[n].sock = "gone" /\ accepted'[n].ssl = "wait"
      /\ accepted'[n].backlog = <<>> /\ toServer'[n] = <<>> /\ ~ n > client.conn
      /\ \A m \in Conns : m # n => accepted'[m] = accepted[m] /\ toServer'[m] = toServer[m]
  BY SwallowFrame
<1>2. ~Has(<<>>, "ClientHello")
  BY ElementsOf DEF Has
<1>3. ASSUME NEW m \in Conns PROVE (Mute(m) => Mute(m)') /\ (Served(m) => Served(m)')
  <2>1. CASE m = n
    BY <1>1, <1>2, <2>1 DEF Mute, Served
  <2>2. CASE m # n
    BY <1>1, <2>2 DEF Mute, Served
  <2> QED
    BY <2>1, <2>2
<1>4. \A m \in Conns : m > client.conn => toServer'[m] = toServer[m]
  BY <1>1
<1> QED
  BY <1>1, <1>3, <1>4, PhaseFrame

\* Nor do a restart of the server and a connection that breaks.
LEMMA RestPhase ==
  ASSUME BaseInv, ServerRestart \/ Break, ClientPhase
  PROVE  ClientPhase'
<1>1. CASE Break
  <2>1. UNCHANGED <<type, client, accepted, toServer, toClient>>
    BY <1>1 DEF Break
  <2>2. \A m \in Conns : (Mute(m) => Mute(m)') /\ (Served(m) => Served(m)')
    BY <2>1 DEF Mute, Served
  <2> QED
    BY <2>1, <2>2, PhaseFrame
<1>2. CASE ServerRestart
  <2>1. /\ UNCHANGED <<type, client, toClient>>
        /\ accepted' = [n \in Conns |-> IF n <= client.conn THEN NoAccepted("gone")
                                                            ELSE accepted[n]]
        /\ toServer' = [n \in Conns |-> IF n <= client.conn THEN <<>> ELSE toServer[n]]
    BY <1>2 DEF ServerRestart
  <2>2. client.conn \in Nat /\ Conns \subseteq Nat
    BY DEF BaseInv, TypeOK, ClientType, Conns
  <2>3. ASSUME NEW m \in Conns, m = client.conn
        PROVE  (Mute(m) => Mute(m)') /\ (Served(m) => Served(m)')
    <3>1. accepted'[m] = NoAccepted("gone") /\ toServer'[m] = <<>>
      BY <2>1, <2>2, <2>3
    <3>2. accepted'[m].sock = "gone" /\ accepted'[m].ssl = "wait" /\ accepted'[m].backlog = <<>>
      BY <3>1 DEF NoAccepted
    <3>3. ~Has(<<>>, "ClientHello")
      BY ElementsOf DEF Has
    <3> QED
      BY <2>1, <3>1, <3>2, <3>3 DEF Mute, Served
  <2>4. \A m \in Conns : m > client.conn => toServer'[m] = toServer[m]
    BY <2>1, <2>2
  <2> QED
    BY <2>1, <2>3, <2>4, PhaseFrame
<1> QED
  BY <1>1, <1>2

-----------------------------------------------------------------------------
(* The EConnectOK that stands. *)

\* Steps that bring no EConnectOK and leave the accepted links alone.
LEMMA OKFrame ==
  ASSUME OKInv, UNCHANGED <<type, accepted>>, \A n \in Conns : OKFrom(n)' => OKFrom(n)
  PROVE  OKInv'
BY DEF OKInv, OKStands

\* No EConnectOK comes of what the client sends.
LEMMA TalkOK ==
  ASSUME BaseInv, Talks, OKInv
  PROVE  OKInv'
<1>1. /\ UNCHANGED <<type, accepted, toClient, okOn>>
      /\ client'.conn = client.conn /\ client'.backlog = client.backlog
      /\ type = "tls" /\ Reads' => Reads
  BY DEF Talks, TalkStep, Became, Reads
<1>2. \A n \in Conns : OKFrom(n)' => OKFrom(n)
  BY <1>1 DEF OKFrom
<1> QED
  BY <1>1, <1>2, OKFrame

\* Nor of its socket.
LEMMA SocketOK ==
  ASSUME BaseInv, TimedConnect \/ ConnectFails \/ Establish \/ ClientLost \/ ClientRestart,
         OKInv
  PROVE  OKInv'
<1>1. /\ UNCHANGED <<type, accepted>> /\ (okOn' = okOn \/ okOn' = 0)
      /\ client'.sock \in {"waiting", "connecting", "established"}
      /\ \A n \in Conns : toClient'[n] = toClient[n] \/ toClient'[n] = <<>>
  BY SocketFrame
<1>2. ~Has(<<>>, "ConnectOK")
  BY ElementsOf DEF Has
<1>3. \A n \in Conns : OKFrom(n)' => OKFrom(n)
  BY <1>1, <1>2 DEF OKFrom, Reads, Conns
<1> QED
  BY <1>1, <1>3, OKFrame

\* An EConnectOK that the client acts on came over its current connection.
LEMMA ClientTookOK ==
  ASSUME BaseInv, HandshakeInv, ClientPhase, OKInv,
         NEW k, NEW message, NEW out, ClientTook(k, message, out),
         ClientTookTcp(k, message, out) \/ ClientTookTls(k, message, out)
  PROVE  OKInv'
<1>1. PICK n : n = client.conn
  OBVIOUS
<1>2. /\ UNCHANGED <<type, accepted>> /\ n \in Conns /\ toClient[n] # <<>>
      /\ client.sock = "open" /\ client'.sock = "open" /\ client'.conn = n
      /\ toClient[n] \in Seq(Items) /\ Gathered(k) \in Seq(Items)
      /\ Elements(Gathered(k)) \subseteq Elements(client.backlog) \cup Elements(toClient[n])
      /\ Elements(toClient'[n]) \subseteq Elements(toClient[n]) \cup {Junk}
      /\ \A m \in Conns : m # n => toClient'[m] = toClient[m]
  BY <1>1, GatheredFacts
<1>3. okOn' = IF message # <<>> /\ message[1].kind = "ConnectOK" THEN n ELSE okOn
  BY <1>1 DEF ClientTook
<1>4. ASSUME NEW m \in Conns, m # n, OKFrom(m)' PROVE OKFrom(m)
  BY <1>2, <1>3, <1>4 DEF OKFrom
\* What is read and what is kept comes from connection n.
<1>5. ASSUME NEW x, x.kind = "ConnectOK",
             \/ message # <<>> /\ x = message[1]
             \/ x \in Elements(toClient'[n])
             \/ type = "tls" /\ Reads' /\ x \in Elements(client'.backlog)
      PROVE  OKFrom(n)
  <2>1. CASE x \in Elements(toClient'[n])
    BY <1>2, <1>5, <2>1 DEF OKFrom, Has, Junk, Item
  <2>2. CASE type = "tcp" /\ message # <<>> /\ x = message[1]
    <3>1. message = <<Head(toClient[n])>>
      BY <1>1, <2>2 DEF ClientTookTcp, ClientTookTls
    <3>2. x \in Elements(toClient[n])
      BY <1>2, <2>2, <3>1, ElementsTail
    <3> QED
      BY <1>5, <3>2 DEF OKFrom, Has
  <2>3. CASE Finishes(k, message, out) /\ type = "tls" /\ x \notin Elements(toClient'[n])
    <3>1. /\ client.ssl = "hello" /\ Gathered(k) # <<>>
          /\ Head(Gathered(k)).kind = "ServerFinished"
          /\ client'.backlog = Others(Tail(Gathered(k))) /\ message = First(Tail(Gathered(k)))
      BY <2>3 DEF Finishes
    <3>2. /\ Tail(Gathered(k)) \in Seq(Items)
          /\ Elements(Tail(Gathered(k))) \subseteq Elements(toClient[n])
      BY <1>1, <2>3, <3>1, FlightTaken DEF Flights
    <3>3. x \in Elements(Tail(Gathered(k)))
      BY <1>5, <2>3, <3>1, <3>2, ElementsFirst
    <3> QED
      BY <1>5, <3>2, <3>3 DEF OKFrom, Has
  <2>4. CASE ReadsOn(k, message, out) /\ type = "tls" /\ x \notin Elements(toClient'[n])
    <3>1. /\ client.ssl = "done" /\ ~client.handshaking
          /\ client'.backlog = Others(Gathered(k)) /\ message = First(Gathered(k))
      BY <2>4 DEF ReadsOn
    <3>2. x \in Elements(Gathered(k))
      BY <1>2, <1>5, <2>4, <3>1, ElementsFirst
    <3>3. Reads
      BY <1>2, <3>1 DEF Reads
    <3>4. x \in Elements(client.backlog) \/ x \in Elements(toClient[n])
      BY <1>2, <3>2
    <3> QED
      BY <1>1, <1>5, <2>4, <3>3, <3>4 DEF OKFrom, Has
  <2>5. CASE Stalls(k, message, out) \/ Answers(k, message, out)
    <3>1. message = <<>> /\ ~Reads'
      BY <2>5 DEF Stalls, Answers, Reads
    <3> QED
      BY <1>5, <2>1, <3>1
  <2> QED
    BY <1>5, <2>1, <2>2, <2>3, <2>4, <2>5 DEF ClientTookTcp, ClientTookTls
<1>6. OKFrom(n)' => OKFrom(n)
  <2>1. SUFFICES ASSUME OKFrom(n)' PROVE OKFrom(n)
    OBVIOUS
  <2>2. CASE okOn' = n
    <3>1. CASE okOn' = okOn
      BY <2>2, <3>1 DEF OKFrom
    <3>2. CASE message # <<>> /\ message[1].kind = "ConnectOK"
      BY <1>5, <3>2
    <3> QED
      BY <1>3, <3>1, <3>2
  <2>3. CASE Has(toClient'[n], "ConnectOK")
    BY <1>5, <2>3 DEF Has
  <2>4. CASE type' = "tls" /\ Reads' /\ Has(client'.backlog, "ConnectOK")
    BY <1>2, <1>5, <2>4 DEF Has
  <2> QED
    BY <2>1, <2>2, <2>3, <2>4 DEF OKFrom
<1> QED
  BY <1>2, <1>4, <1>6, OKFrame

\* Steps of the server.
LEMMA TookOK ==
  ASSUME BaseInv, NEW n \in Conns, NEW k, NEW message, NEW out,
         AcceptedTook(n, k, message, out),
         AcceptedTookTcp(n, k, message, out) \/ AcceptedTookTls(n, k, message, out),
         OKInv
  PROVE  OKInv'
<1>1. /\ UNCHANGED <<type, client, broken, okOn>>
      /\ accepted[n].sock = "open" /\ accepted'[n].sock = "open"
      /\ \A m \in Conns : m # n => toServer'[m] = toServer[m] /\ accepted'[m] = accepted[m]
  BY ArrivedFacts
<1>2. FromAccepted(n, out) /\ (accepted[n].connected => accepted'[n].connected)
  BY DEF AcceptedTook
<1>3. /\ toClient'[n] = toClient[n] \/ toClient'[n] = toClient[n] \o out
      /\ \A m \in Conns : m # n => toClient'[m] = toClient[m]
  BY <1>2, Downward
<1>4. ASSUME NEW m \in Conns, m # n PROVE OKStands(m)'
  <2>1. OKFrom(m)' => OKFrom(m)
    BY <1>1, <1>3, <1>4 DEF OKFrom, Reads
  <2> QED
    BY <1>1, <1>4, <2>1 DEF OKInv, OKStands
<1>5. PICK q \in Seq(Items) : q = toClient[n]
  BY DEF BaseInv, TypeOK
\* What stood before stands.
<1>6. ASSUME OKFrom(n)
      PROVE  (type = "tls" => accepted'[n].ssl = "done")
             /\ (accepted'[n].timer => accepted'[n].connected)
  <2>1. (type = "tls" => accepted[n].ssl = "done") /\ (accepted[n].timer => accepted[n].connected)
    BY <1>1, <1>6 DEF OKInv, OKStands
  <2>2. CASE AcceptedTookTcp(n, k, message, out)
    BY <1>2, <2>1, <2>2 DEF AcceptedTookTcp
  <2>3. CASE AcceptedTookTls(n, k, message, out)
    <3>1. Waits(n, k, message, out) \/ Serves(n, k, message, out)
      BY <2>1, <2>3 DEF AcceptedTookTls, Begins, Ends, Fails
    <3> QED
      BY <1>2, <2>1, <3>1 DEF Waits, Serves
  <2> QED
    BY <2>2, <2>3
\* An EConnectOK is sent by a link that is connected.
<1>7. ASSUME NEW reply, Replied(n, message, reply), Has(reply, "ConnectOK")
      PROVE  accepted'[n].connected
  <2>1. reply # <<>>
    BY <1>7, ElementsOf DEF Has
  <2>2. PICK x : reply = <<x>> /\ (x.kind = "ConnectOK" => accepted'[n].connected)
    BY <1>7, <2>1, OutFacts
  <2> QED
    BY <1>7, <2>2, ElementsOf DEF Has
<1>8. ASSUME Has(out, "ConnectOK")
      PROVE  accepted'[n].connected /\ (type = "tls" => accepted'[n].ssl = "done")
  <2>1. out # <<>> /\ out # <<Flight("ServerHello")>>
    BY <1>8, ElementsOf DEF Has, Flight, Item
  <2>2. CASE AcceptedTookTcp(n, k, message, out)
    BY <1>7, <1>8, <2>2 DEF AcceptedTookTcp
  <2>3. CASE Serves(n, k, message, out)
    BY <1>7, <1>8, <2>3 DEF Serves
  <2>4. CASE Ends(n, k, message, out)
    <3>1. PICK reply : /\ Replied(n, message, reply)
                       /\ out = <<Flight("ServerFinished")>> \o reply
      BY <2>4 DEF Ends
    <3>2. reply \in Seq(Items)
      <4>1. reply = <<>> \/ \E x \in Items : reply = <<x>>
        BY <3>1 DEF Replied
      <4>2. CASE reply = <<>>
        BY <4>2
      <4>3. ASSUME NEW x \in Items, reply = <<x>> PROVE reply \in Seq(Items)
        BY <4>3
      <4> QED
        BY <4>1, <4>2, <4>3
    <3>3. PICK f : f = Flight("ServerFinished") /\ f \in Items /\ f.kind = "ServerFinished"
      BY ItemTypes DEF Flight, Item, Kinds
    <3>4. <<f>> \in Seq(Items) /\ Elements(<<f>>) = {f}
      BY <3>3, ElementsOf
    <3>5. Elements(<<f>> \o reply) = {f} \cup Elements(reply)
      BY <3>2, <3>4, ElementsConcat
    <3>6. Has(reply, "ConnectOK")
      BY <1>8, <3>1, <3>3, <3>5 DEF Has
    <3> QED
      BY <1>7, <2>4, <3>1, <3>6 DEF Ends
  <2> QED
    BY <2>1, <2>2, <2>3, <2>4 DEF AcceptedTookTls, Waits, Begins, Fails
<1>9. out \in Seq(Items)
  BY AcceptedTookBase
<1>10. OKFrom(n)' => OKFrom(n) \/ Has(out, "ConnectOK")
  <2>1. Elements(q \o out) = Elements(q) \cup Elements(out)
    BY <1>9, ElementsConcat
  <2>2. Has(toClient'[n], "ConnectOK") => Has(toClient[n], "ConnectOK") \/ Has(out, "ConnectOK")
    BY <1>3, <1>5, <2>1 DEF Has
  <2> QED
    BY <1>1, <2>2 DEF OKFrom, Reads
<1>11. OKStands(n)'
  BY <1>1, <1>6, <1>8, <1>10 DEF OKStands
<1> QED
  BY <1>4, <1>11 DEF OKInv

\* An accepted link that sends stays as connected as it was.
LEMMA ServerTalkOK ==
  ASSUME BaseInv, NEW n \in Conns, ServerTalks(n), OKInv
  PROVE  OKInv'
<1>1. PICK out :
        /\ FromAccepted(n, out)
        /\ out = <<>> \/ \E x \in Items : out = <<x>> /\ x.kind = "Payload"
  BY DEF ServerTalks
<1>2. /\ UNCHANGED <<type, client, okOn>>
      /\ accepted'[n].sock = accepted[n].sock /\ accepted'[n].ssl = accepted[n].ssl
      /\ accepted'[n].connected = accepted[n].connected
      /\ accepted'[n].timer = accepted[n].timer
      /\ \A m \in Conns : m # n => accepted'[m] = accepted[m]
  BY DEF ServerTalks, BaseInv, TypeOK
<1>3. /\ toClient'[n] = toClient[n] \/ toClient'[n] = toClient[n] \o out
      /\ \A m \in Conns : m # n => toClient'[m] = toClient[m]
  BY <1>1, Downward
<1>4. PICK q \in Seq(Items) : q = toClient[n]
  BY DEF BaseInv, TypeOK
<1>5. out \in Seq(Items) /\ ~Has(out, "ConnectOK")
  <2>1. CASE out = <<>>
    BY <2>1, ElementsOf DEF Has
  <2>2. ASSUME NEW x \in Items, out = <<x>>, x.kind = "Payload"
        PROVE  out \in Seq(Items) /\ ~Has(out, "ConnectOK")
    BY <2>2, ElementsOf DEF Has
  <2> QED
    BY <1>1, <2>1, <2>2
<1>6. Elements(q \o out) = Elements(q) \cup Elements(out)
  BY <1>5, ElementsConcat
<1>7. Has(toClient'[n], "ConnectOK") => Has(toClient[n], "ConnectOK")
  BY <1>3, <1>4, <1>5, <1>6 DEF Has
<1>8. ASSUME NEW m \in Conns PROVE OKStands(m)'
  <2>1. OKFrom(m)' => OKFrom(m)
    BY <1>2, <1>3, <1>7 DEF OKFrom, Reads
  <2>2. /\ accepted'[m].sock = accepted[m].sock /\ accepted'[m].ssl = accepted[m].ssl
        /\ accepted'[m].connected = accepted[m].connected
        /\ accepted'[m].timer = accepted[m].timer
    BY <1>2
  <2> QED
    BY <1>2, <2>1, <2>2 DEF OKInv, OKStands
<1> QED
  BY <1>8 DEF OKInv

\* The tick that disconnects an accepted link stops its timer.
LEMMA AcceptedOK ==
  ASSUME BaseInv, HandshakeInv, OKInv,
         NEW n \in Conns, Accept(n) \/ AcceptedTick(n) \/ AcceptedLost(n)
  PROVE  OKInv'
<1>1. /\ UNCHANGED <<type, client, toClient, okOn>>
      /\ \A m \in Conns : m # n => accepted'[m] = accepted[m]
      /\ accepted'[n].ssl = accepted[n].ssl
      /\ \/ accepted[n].sock = "none"
         \/ /\ accepted'[n].sock = accepted[n].sock /\ accepted[n].timer
            /\ accepted'[n].timer /\ accepted[n].connected => accepted'[n].connected
         \/ /\ accepted[n].sock = "open" /\ accepted'[n].sock = "closed"
            /\ accepted'[n].timer = accepted[n].timer
            /\ accepted'[n].connected = accepted[n].connected
  BY AcceptedFrame
<1>2. \A m \in Conns : OKFrom(m)' => OKFrom(m)
  BY <1>1 DEF OKFrom, Reads
<1>3. ASSUME NEW m \in Conns, m # n PROVE OKStands(m)'
  BY <1>1, <1>2, <1>3 DEF OKInv, OKStands
<1>4. OKStands(n)'
  BY <1>1, <1>2 DEF OKInv, OKStands
<1> QED
  BY <1>3, <1>4 DEF OKInv

\* A link that is gone promises nothing.
LEMMA SwallowOK ==
  ASSUME BaseInv, NEW n \in Conns, Swallow(n), OKInv
  PROVE  OKInv'
<1>1. /\ UNCHANGED <<type, client, toClient, okOn>> /\ accepted'[n].sock = "gone"
      /\ \A m \in Conns : m # n => accepted'[m] = accepted[m]
  BY SwallowFrame
<1>2. \A m \in Conns : OKFrom(m)' => OKFrom(m)
  BY <1>1 DEF OKFrom, Reads
<1>3. ASSUME NEW m \in Conns PROVE OKStands(m)'
  <2>1. CASE m = n
    BY <1>1, <2>1 DEF OKStands
  <2>2. CASE m # n
    BY <1>1, <1>2, <2>2 DEF OKInv, OKStands
  <2> QED
    BY <2>1, <2>2
<1> QED
  BY <1>3 DEF OKInv

\* A server that restarts has no accepted links to speak of.
LEMMA RestOK ==
  ASSUME BaseInv, ServerRestart \/ Break, OKInv
  PROVE  OKInv'
<1>1. UNCHANGED <<type, client, toClient, okOn>>
  BY DEF ServerRestart, Break, hist
<1>2. \A m \in Conns : OKFrom(m)' => OKFrom(m)
  BY <1>1 DEF OKFrom, Reads
<1>3. CASE Break
  BY <1>1, <1>2, <1>3, OKFrame DEF Break
<1>4. CASE ServerRestart
  <2>1. ASSUME NEW m \in Conns PROVE OKStands(m)'
    <3>1. accepted'[m] = accepted[m] \/ accepted'[m] = NoAccepted("gone")
      BY <1>4 DEF ServerRestart
    <3>2. NoAccepted("gone").sock = "gone"
      BY DEF NoAccepted
    <3> QED
      BY <1>1, <1>2, <3>1, <3>2 DEF OKInv, OKStands
  <2> QED
    BY <2>1 DEF OKInv
<1> QED
  BY <1>3, <1>4

-----------------------------------------------------------------------------
(* Payloads in order. *)

IsPayload(x) == x.kind = "Payload"

\* The payloads in q are those after a up to b, each once and in order.
Exact(q, a, b) ==
  /\ a <= b
  /\ \A i \in DOMAIN q : IsPayload(q[i]) => q[i].id \in a + 1 .. b
  /\ \A i, j \in DOMAIN q : IsPayload(q[i]) /\ IsPayload(q[j]) /\ i < j => q[i].id < q[j].id
  /\ \A v \in a + 1 .. b : \E i \in DOMAIN q : IsPayload(q[i]) /\ q[i].id = v

\* What was handed up is 1, 2, 3, ...
Counts(h) == \A i \in DOMAIN h : h[i] = i

\* What was handed up, then the payloads in q, never descend and stay below b.
InOrder(q, h, b) ==
  /\ \A i \in DOMAIN h : h[i] <= b
  /\ \A i, j \in DOMAIN h : i < j => h[i] <= h[j]
  /\ \A i \in DOMAIN q : IsPayload(q[i]) =>
       /\ q[i].id <= b
       /\ \A l \in DOMAIN h : h[l] <= q[i].id
       /\ \A j \in DOMAIN q : IsPayload(q[j]) /\ i < j => q[i].id <= q[j].id

Added(x) == IF IsPayload(x) THEN 1 ELSE 0

\* All but the last.
LEMMA LastIndex == \A m \in Nat : \A i \in 1 .. m + 1 : i # m + 1 => i \in 1 .. m
OBVIOUS

\* Messages are numbered by naturals.
LEMMA ItemIds == \A y \in Items : y.id \in Nat
<1>1. \A v \in 0 .. MaxPayload : v \in Nat
  OBVIOUS
<1>2. \A y \in Items : y.id \in 0 .. MaxPayload
  BY DEF Items
<1> QED
  BY <1>1, <1>2

\* Nothing is missing of nothing.
LEMMA ExactEmpty == \A a \in Nat : Exact(<<>>, a, a)
<1>1. \A a \in Nat : a + 1 .. a = {}
  OBVIOUS
<1> QED
  BY <1>1 DEF Exact

\* The next payload continues an exact sequence; anything else leaves it exact.
LEMMA ExactAppend ==
  ASSUME NEW q \in Seq(Items), NEW a \in Nat, NEW b \in Nat, Exact(q, a, b),
         NEW x \in Items, IsPayload(x) => x.id = b + 1
  PROVE  Exact(q \o <<x>>, a, b + Added(x))
<1>1. PICK p : p = q \o <<x>>
  OBVIOUS
<1>2. /\ p \in Seq(Items) /\ Len(q) \in Nat /\ Len(p) = Len(q) + 1
      /\ \A i \in 1 .. Len(q) : p[i] = q[i]
      /\ p[Len(p)] = x
  BY <1>1
<1>3. DOMAIN p = 1 .. Len(p) /\ DOMAIN q = 1 .. Len(q) /\ Len(p) \in Nat
  BY <1>2
<1>4. PICK m \in Nat : m = Len(p) /\ m = Len(q) + 1
  BY <1>2, <1>3
<1>5. \A i \in 1 .. m : i # m => i \in 1 .. Len(q)
  BY <1>2, <1>4
<1>6. m \in 1 .. m
  BY <1>2, <1>4
<1>7. /\ a <= b
      /\ \A i \in 1 .. Len(q) : IsPayload(q[i]) => q[i].id \in a + 1 .. b
      /\ \A i, j \in 1 .. Len(q) :
           IsPayload(q[i]) /\ IsPayload(q[j]) /\ i < j => q[i].id < q[j].id
      /\ \A v \in a + 1 .. b : \E i \in 1 .. Len(q) : IsPayload(q[i]) /\ q[i].id = v
  BY <1>3 DEF Exact
<1>8. CASE ~IsPayload(x)
  <2>1. \A i \in 1 .. m : IsPayload(p[i]) => i \in 1 .. Len(q) /\ p[i] = q[i]
    BY <1>2, <1>4, <1>5, <1>8
  <2>2. \A v \in a + 1 .. b : \E i \in 1 .. m : IsPayload(p[i]) /\ p[i].id = v
    <3>1. \A i \in 1 .. Len(q) : i \in 1 .. m
      BY <1>2, <1>4
    <3> QED
      BY <1>2, <1>7, <3>1
  <2>3. Exact(p, a, b)
    BY <1>3, <1>4, <1>7, <2>1, <2>2 DEF Exact
  <2>4. b + Added(x) = b
    BY <1>8 DEF Added
  <2> QED
    BY <1>1, <2>3, <2>4
<1>9. CASE IsPayload(x)
  <2>1. PICK c \in Nat : c = b + 1 /\ c = b + Added(x)
    BY <1>9 DEF Added
  <2>2. \A i \in 1 .. m : IsPayload(p[i]) => p[i].id \in a + 1 .. c
    <3>1. TAKE i \in 1 .. m
    <3>2. HAVE IsPayload(p[i])
    <3>3. CASE i = m
      BY <1>2, <1>4, <1>7, <1>9, <2>1, <3>3
    <3>4. CASE i # m
      <4>1. i \in 1 .. Len(q) /\ p[i] = q[i]
        BY <1>2, <1>5, <3>4
      <4>2. p[i].id \in a + 1 .. b
        BY <1>7, <3>2, <4>1
      <4> QED
        BY <2>1, <4>2
    <3> QED
      BY <3>3, <3>4
  <2>3. \A i, j \in 1 .. m : IsPayload(p[i]) /\ IsPayload(p[j]) /\ i < j => p[i].id < p[j].id
    <3>1. TAKE i, j \in 1 .. m
    <3>2. HAVE IsPayload(p[i]) /\ IsPayload(p[j]) /\ i < j
    <3>3. i # m /\ i \in 1 .. Len(q) /\ p[i] = q[i]
      BY <1>2, <1>4, <1>5, <3>2
    <3>4. CASE j = m
      <4>1. p[i].id \in a + 1 .. b /\ p[j].id = b + 1
        BY <1>2, <1>4, <1>7, <1>9, <3>2, <3>3, <3>4
      <4> QED
        BY <4>1
    <3>5. CASE j # m
      <4>1. j \in 1 .. Len(q) /\ p[j] = q[j]
        BY <1>2, <1>5, <3>5
      <4> QED
        BY <1>7, <3>2, <3>3, <4>1
    <3> QED
      BY <3>4, <3>5
  <2>4. \A v \in a + 1 .. c : \E i \in 1 .. m : IsPayload(p[i]) /\ p[i].id = v
    <3>1. TAKE v \in a + 1 .. c
    <3>2. CASE v = c
      BY <1>2, <1>4, <1>6, <1>9, <2>1, <3>2
    <3>3. CASE v # c
      <4>1. v \in a + 1 .. b
        BY <2>1, <3>3
      <4>2. PICK i \in 1 .. Len(q) : IsPayload(q[i]) /\ q[i].id = v
        BY <1>7, <4>1
      <4>3. i \in 1 .. m /\ p[i] = q[i]
        BY <1>2, <1>4
      <4> QED
        BY <4>2, <4>3
    <3> QED
      BY <3>2, <3>3
  <2>5. a <= c
    BY <1>7, <2>1
  <2>6. Exact(p, a, c)
    BY <1>3, <1>4, <2>2, <2>3, <2>4, <2>5 DEF Exact
  <2> QED
    BY <1>1, <2>1, <2>6
<1> QED
  BY <1>8, <1>9

\* The first payload of an exact sequence is the next to be handed up.
LEMMA ExactTail ==
  ASSUME NEW q \in Seq(Items), q # <<>>, NEW a \in Nat, NEW b \in Nat, Exact(q, a, b)
  PROVE  /\ IsPayload(Head(q)) => Head(q).id = a + 1
         /\ Exact(Tail(q), a + Added(Head(q)), b)
<1>1. /\ Head(q) \in Items /\ Tail(q) \in Seq(Items) /\ Len(q) \in Nat \ {0}
      /\ Len(Tail(q)) = Len(q) - 1 /\ Head(q) = q[1]
      /\ \A i \in 1 .. Len(Tail(q)) : Tail(q)[i] = q[i + 1]
  BY HeadTailProperties
<1>2. PICK t, m : t = Tail(q) /\ m = Len(q)
  OBVIOUS
<1>3. /\ m \in Nat \ {0} /\ DOMAIN q = 1 .. m /\ DOMAIN t = 1 .. m - 1
      /\ \A i \in 1 .. m - 1 : t[i] = q[i + 1] /\ i + 1 \in 1 .. m
      /\ \A i \in 1 .. m : i # 1 => i - 1 \in 1 .. m - 1 /\ t[i - 1] = q[i]
  <2>1. m \in Nat \ {0} /\ DOMAIN q = 1 .. m /\ DOMAIN t = 1 .. m - 1
    BY <1>1, <1>2
  <2>2. \A i \in 1 .. m - 1 : t[i] = q[i + 1] /\ i + 1 \in 1 .. m
    BY <1>1, <1>2
  <2>3. \A i \in 1 .. m : i # 1 => i - 1 \in 1 .. m - 1 /\ i - 1 + 1 = i
    BY <2>1
  <2> QED
    BY <2>1, <2>2, <2>3
<1>4. /\ a <= b
      /\ \A i \in 1 .. m : IsPayload(q[i]) => q[i].id \in a + 1 .. b
      /\ \A i, j \in 1 .. m : IsPayload(q[i]) /\ IsPayload(q[j]) /\ i < j => q[i].id < q[j].id
      /\ \A v \in a + 1 .. b : \E i \in 1 .. m : IsPayload(q[i]) /\ q[i].id = v
  BY <1>3 DEF Exact
<1>5. \A i, j \in 1 .. m - 1 :
        IsPayload(t[i]) /\ IsPayload(t[j]) /\ i < j => t[i].id < t[j].id
  <2>1. TAKE i, j \in 1 .. m - 1
  <2>2. HAVE IsPayload(t[i]) /\ IsPayload(t[j]) /\ i < j
  <2>3. PICK x, y \in 1 .. m : x = i + 1 /\ y = j + 1 /\ x < y /\ t[i] = q[x] /\ t[j] = q[y]
    BY <1>3, <2>2
  <2> QED
    BY <1>4, <2>2, <2>3
<1>6. 1 \in 1 .. m /\ Head(q) = q[1]
  BY <1>1, <1>3
<1>7. CASE ~IsPayload(Head(q))
  <2>1. \A i \in 1 .. m - 1 : IsPayload(t[i]) => t[i].id \in a + 1 .. b
    BY <1>3, <1>4
  <2>2. \A v \in a + 1 .. b : \E i \in 1 .. m - 1 : IsPayload(t[i]) /\ t[i].id = v
    <3>1. TAKE v \in a + 1 .. b
    <3>2. PICK i \in 1 .. m : IsPayload(q[i]) /\ q[i].id = v
      BY <1>4
    <3>3. i # 1
      BY <1>6, <1>7, <3>2
    <3>4. PICK x \in 1 .. m - 1 : x = i - 1 /\ t[x] = q[i]
      BY <1>3, <3>3
    <3> QED
      BY <3>2, <3>4
  <2>3. Exact(t, a, b)
    BY <1>3, <1>4, <1>5, <2>1, <2>2 DEF Exact
  <2>4. a + Added(Head(q)) = a
    BY <1>7 DEF Added
  <2> QED
    BY <1>2, <1>7, <2>3, <2>4
<1>8. CASE IsPayload(Head(q))
  <2>1. PICK c \in Nat : c = a + 1 /\ c = a + Added(Head(q))
    BY <1>8 DEF Added
  <2>2. q[1].id \in a + 1 .. b /\ c <= b
    BY <1>4, <1>6, <1>8, <2>1
  <2>3. q[1].id = c
    <3>1. PICK i \in 1 .. m : IsPayload(q[i]) /\ q[i].id = c
      BY <1>4, <2>1, <2>2, SMTT(30)
    <3>2. CASE i = 1
      BY <3>1, <3>2
    <3>3. CASE i # 1
      <4>1. 1 < i
        BY <1>3, <3>3
      <4>2. q[1].id < q[i].id
        BY <1>4, <1>6, <1>8, <3>1, <4>1
      <4> QED
        BY <2>1, <2>2, <3>1, <4>2
    <3> QED
      BY <3>2, <3>3
  <2>4. \A i \in 1 .. m - 1 : IsPayload(t[i]) => t[i].id \in c + 1 .. b
    <3>1. TAKE i \in 1 .. m - 1
    <3>2. HAVE IsPayload(t[i])
    <3>3. PICK x \in 1 .. m : x = i + 1 /\ t[i] = q[x] /\ 1 < x
      BY <1>3
    <3>4. q[x].id \in a + 1 .. b /\ q[1].id < q[x].id
      BY <1>4, <1>6, <1>8, <3>2, <3>3
    <3> QED
      BY <2>1, <2>3, <3>3, <3>4
  <2>5. \A v \in c + 1 .. b : \E i \in 1 .. m - 1 : IsPayload(t[i]) /\ t[i].id = v
    <3>1. TAKE v \in c + 1 .. b
    <3>2. v \in a + 1 .. b /\ v # c
      BY <2>1
    <3>3. PICK i \in 1 .. m : IsPayload(q[i]) /\ q[i].id = v
      BY <1>4, <3>2
    <3>4. i # 1
      BY <2>3, <3>2, <3>3
    <3>5. PICK x \in 1 .. m - 1 : x = i - 1 /\ t[x] = q[i]
      BY <1>3, <3>4
    <3> QED
      BY <3>3, <3>5
  <2>6. Exact(t, c, b)
    BY <1>3, <1>5, <2>2, <2>4, <2>5 DEF Exact
  <2> QED
    BY <1>1, <1>2, <2>1, <2>3, <2>6
<1> QED
  BY <1>7, <1>8

\* What was handed up once message is read.
Handed(h, message) ==
  IF message # <<>> /\ message[1].kind = "Payload" THEN Append(h, message[1].id) ELSE h

\* The first of the unread records is taken from the payloads to come.
LEMMA Consume ==
  ASSUME NEW p \in Seq(Items), NEW r \in Seq(Items), NEW h \in Seq(Nat), NEW b \in Nat,
         Counts(h), Exact(p \o r, Len(h), b),
         NEW message, message = First(p),
         NEW g, g = Handed(h, message)
  PROVE  Counts(g) /\ Exact(Others(p) \o r, Len(g), b)
<1>1. CASE p = <<>>
  BY <1>1 DEF First, Others, Handed
<1>2. CASE p # <<>>
  <2>1. /\ p \o r \in Seq(Items) /\ p \o r # <<>> /\ Head(p \o r) = Head(p)
        /\ Tail(p \o r) = Tail(p) \o r
    BY <1>2, TailFirst
  <2>2. message = <<Head(p)>> /\ Others(p) = Tail(p)
    BY <1>2 DEF First, Others
  <2>3. Len(h) \in Nat
    OBVIOUS
  <2>4. /\ IsPayload(Head(p)) => Head(p).id = Len(h) + 1
        /\ Exact(Tail(p) \o r, Len(h) + Added(Head(p)), b)
    BY <2>1, <2>3, ExactTail
  <2>5. CASE IsPayload(Head(p))
    <3>1. g = Append(h, Len(h) + 1)
      BY <2>2, <2>4, <2>5 DEF IsPayload, Handed
    <3>2. Len(g) = Len(h) + 1 /\ DOMAIN g = 1 .. Len(h) + 1
          /\ \A i \in 1 .. Len(h) + 1 : g[i] = IF i <= Len(h) THEN h[i] ELSE Len(h) + 1
      BY <2>3, <3>1
    <3>3. Counts(g)
      BY <2>3, <3>2 DEF Counts
    <3> QED
      BY <2>2, <2>4, <2>5, <3>2, <3>3 DEF Added
  <2>6. CASE ~IsPayload(Head(p))
    <3>1. g = h
      BY <2>2, <2>6 DEF IsPayload, Handed
    <3> QED
      BY <2>2, <2>3, <2>4, <2>6, <3>1 DEF Added
  <2> QED
    BY <2>5, <2>6
<1> QED
  BY <1>1, <1>2

\* The order stands when the stream is lost.
LEMMA InOrderEmpty ==
  ASSUME NEW q, NEW h, NEW b, InOrder(q, h, b)
  PROVE  InOrder(<<>>, h, b)
BY DEF InOrder

\* It stands when the next payload is sent, and when that overwrites what waits in
\* the same buffer.
LEMMA InOrderAppend ==
  ASSUME NEW q \in Seq(Items), NEW h \in Seq(Nat), NEW b \in Nat, InOrder(q, h, b),
         NEW x \in Items, IsPayload(x) => x.id = b + 1,
         NEW p, p = q \o <<x>> \/ (p \in Seq(Items) /\ \A i \in DOMAIN p : p[i] = x)
  PROVE  InOrder(p, h, b + Added(x))
<1>1. PICK c \in Nat : c = b + Added(x) /\ b <= c /\ (IsPayload(x) => x.id = c)
  BY DEF Added
<1>2. \A i \in DOMAIN h : h[i] \in Nat /\ h[i] <= b /\ h[i] <= c
  BY <1>1 DEF InOrder
<1>3. /\ \A i, j \in DOMAIN h : i < j => h[i] <= h[j]
      /\ \A i \in DOMAIN q : IsPayload(q[i]) =>
           /\ q[i].id <= b
           /\ \A l \in DOMAIN h : h[l] <= q[i].id
           /\ \A j \in DOMAIN q : IsPayload(q[j]) /\ i < j => q[i].id <= q[j].id
  BY DEF InOrder
<1>4. IsPayload(x) => x.id = c /\ x.id <= c /\ \A l \in DOMAIN h : h[l] <= x.id
  BY <1>1, <1>2
<1>5. CASE p \in Seq(Items) /\ \A i \in DOMAIN p : p[i] = x
  <2>1. InOrder(p, h, c)
    BY <1>1, <1>2, <1>3, <1>4, <1>5 DEF InOrder
  <2> QED
    BY <1>1, <2>1
<1>6. CASE p = q \o <<x>>
  <2>1. PICK m \in Nat : m = Len(q)
    BY LenProperties
  <2>2. /\ p \in Seq(Items) /\ DOMAIN p = 1 .. m + 1 /\ DOMAIN q = 1 .. m
        /\ p[m + 1] = x /\ \A i \in 1 .. m : p[i] = q[i]
    BY <1>6, <2>1
  <2>3. ASSUME NEW i \in 1 .. m, IsPayload(q[i])
        PROVE  q[i].id <= c
    <3>1. q[i] \in Items
      BY <2>1
    <3>2. PICK v \in Nat : v = q[i].id
      BY <3>1, ItemIds
    <3>3. v <= b
      BY <1>3, <2>2, <2>3, <3>2
    <3>4. v <= c
      BY <1>1, <3>3
    <3> QED
      BY <3>2, <3>4
  <2>4. \A i \in 1 .. m + 1 : i # m + 1 => i \in 1 .. m
    BY LastIndex
  <2>5. ASSUME NEW i \in 1 .. m + 1, IsPayload(p[i])
        PROVE  /\ p[i].id <= c
               /\ \A l \in DOMAIN h : h[l] <= p[i].id
               /\ \A j \in 1 .. m + 1 : IsPayload(p[j]) /\ i < j => p[i].id <= p[j].id
    <3>1. CASE i = m + 1
      <4>1. \A j \in 1 .. m + 1 : ~ i < j
        BY <2>1, <3>1
      <4> QED
        BY <1>4, <2>2, <2>5, <3>1, <4>1
    <3>2. CASE i # m + 1
      <4>1. i \in 1 .. m /\ p[i] = q[i] /\ IsPayload(q[i])
        BY <2>2, <2>4, <2>5, <3>2
      <4>2. p[i].id <= c /\ \A l \in DOMAIN h : h[l] <= p[i].id
        BY <1>3, <2>2, <2>3, <4>1
      <4>3. ASSUME NEW j \in 1 .. m + 1, IsPayload(p[j]), i < j
            PROVE  p[i].id <= p[j].id
        <5>1. CASE j = m + 1
          BY <1>4, <2>2, <4>2, <4>3, <5>1
        <5>2. CASE j # m + 1
          <6>1. j \in 1 .. m /\ p[j] = q[j]
            BY <2>2, <2>4, <5>2
          <6> QED
            BY <1>3, <2>2, <4>1, <4>3, <6>1
        <5> QED
          BY <5>1, <5>2
      <4> QED
        BY <4>2, <4>3
    <3> QED
      BY <3>1, <3>2
  <2>6. InOrder(p, h, c)
    BY <1>2, <1>3, <2>2, <2>5 DEF InOrder
  <2> QED
    BY <1>1, <2>6
<1> QED
  BY <1>5, <1>6

\* What a TCP receive hands up and leaves.
LEMMA InOrderTook ==
  ASSUME NEW q \in Seq(Items), NEW h \in Seq(Nat), NEW b \in Nat, InOrder(q, h, b),
         q # <<>>, NEW k \in 0 .. Len(q), k > 0, NEW cut \in BOOLEAN,
         NEW message, message = <<Head(q)>>,
         NEW g, g = Handed(h, message)
  PROVE  InOrder(Rest(q, k, cut), g, b)
<1>1. PICK s, m, e : s = SubSeq(q, k + 1, Len(q)) /\ m = Len(q) /\ e = m - k
  OBVIOUS
<1>2. /\ m \in Nat /\ e \in Nat /\ DOMAIN q = 1 .. m /\ s \in Seq(Items) /\ DOMAIN s = 1 .. e
      /\ \A i \in 1 .. e : s[i] = q[i + k] /\ i + k \in 1 .. m /\ 1 < i + k
  <2>1. /\ SubSeq(q, k + 1, Len(q)) \in Seq(Items)
        /\ Len(SubSeq(q, k + 1, Len(q))) = Len(q) - k
        /\ \A i \in 1 .. Len(q) - k : SubSeq(q, k + 1, Len(q))[i] = q[i + k]
    BY Cut
  <2>2. m \in Nat /\ e \in Nat /\ k \in Nat /\ DOMAIN q = 1 .. m
    BY <1>1
  <2>3. s \in Seq(Items) /\ Len(s) = e /\ \A i \in 1 .. e : s[i] = q[i + k]
    BY <1>1, <2>1
  <2>4. \A i \in 1 .. e : i + k \in 1 .. m /\ 1 < i + k
    BY <1>1, <2>2
  <2>5. DOMAIN s = 1 .. e
    BY <2>2, <2>3
  <2>6. \A i \in 1 .. e : s[i] = q[i + k] /\ i + k \in 1 .. m /\ 1 < i + k
    BY <2>3, <2>4
  <2> QED
    BY <2>2, <2>3, <2>5, <2>6
<1>3. /\ \A i \in 1 .. m : q[i] \in Items /\ q[i].id \in Nat
      /\ Head(q) = q[1] /\ 1 \in 1 .. m
  <2>1. \A i \in 1 .. m : q[i] \in Items
    BY <1>2
  <2>2. 1 \in 1 .. m
    BY <1>1, <1>2
  <2> QED
    BY <1>1, <2>1, <2>2, ItemIds
<1>4. /\ \A i \in DOMAIN h : h[i] \in Nat /\ h[i] <= b
      /\ \A i, j \in DOMAIN h : i < j => h[i] <= h[j]
      /\ \A i \in 1 .. m : IsPayload(q[i]) =>
           /\ q[i].id <= b
           /\ \A l \in DOMAIN h : h[l] <= q[i].id
           /\ \A j \in 1 .. m : IsPayload(q[j]) /\ i < j => q[i].id <= q[j].id
  <2>1. \A i \in DOMAIN h : h[i] \in Nat
    OBVIOUS
  <2>2. DOMAIN q = 1 .. m
    BY <1>2
  <2>3. /\ \A i \in DOMAIN h : h[i] <= b
        /\ \A i, j \in DOMAIN h : i < j => h[i] <= h[j]
        /\ \A i \in DOMAIN q : IsPayload(q[i]) =>
             /\ q[i].id <= b
             /\ \A l \in DOMAIN h : h[l] <= q[i].id
             /\ \A j \in DOMAIN q : IsPayload(q[j]) /\ i < j => q[i].id <= q[j].id
    BY DEF InOrder
  <2> QED
    BY <2>1, <2>2, <2>3
\* What is handed up now.
<1>5. /\ \A i \in DOMAIN g : g[i] <= b
      /\ \A i, j \in DOMAIN g : i < j => g[i] <= g[j]
      /\ \A i \in 1 .. m : IsPayload(q[i]) /\ 1 < i => \A l \in DOMAIN g : g[l] <= q[i].id
  <2>1. CASE ~IsPayload(q[1])
    <3>1. g = h
      BY <1>3, <2>1 DEF IsPayload, Handed
    <3> QED
      BY <1>4, <3>1
  <2>2. CASE IsPayload(q[1])
    <3>1. PICK x \in Nat : x = q[1].id
      BY <1>3
    <3>2. g = Append(h, x)
      BY <1>3, <2>2, <3>1 DEF IsPayload, Handed
    <3>3. PICK z \in Nat : z = Len(h)
      OBVIOUS
    <3>4. /\ DOMAIN h = 1 .. z /\ DOMAIN g = 1 .. z + 1
          /\ g[z + 1] = x /\ \A i \in 1 .. z : g[i] = h[i]
      <4>1. /\ Append(h, x) \in Seq(Nat) /\ Len(Append(h, x)) = Len(h) + 1
            /\ \A i \in 1 .. Len(h) : Append(h, x)[i] = h[i]
            /\ Append(h, x)[Len(h) + 1] = x
        BY AppendProperties
      <4>2. DOMAIN h = 1 .. Len(h) /\ DOMAIN Append(h, x) = 1 .. Len(Append(h, x))
        BY <4>1
      <4> QED
        BY <3>2, <3>3, <4>1, <4>2
    <3>5. \A i \in 1 .. z + 1 : i # z + 1 => i \in 1 .. z
      BY LastIndex
    <3>6. x <= b /\ \A l \in 1 .. z : h[l] <= x
      BY <1>3, <1>4, <2>2, <3>1, <3>4
    <3>7. ASSUME NEW i \in 1 .. z + 1
          PROVE  g[i] <= b /\ g[i] \in Nat /\ g[i] <= x
      <4>1. CASE i = z + 1
        <5>1. g[i] = x /\ x <= x
          BY <3>4, <4>1
        <5> QED
          BY <3>6, <5>1
      <4>2. CASE i # z + 1
        <5>1. i \in 1 .. z
          BY <3>5, <4>2
        <5> QED
          BY <1>4, <3>4, <3>6, <5>1
      <4> QED
        BY <4>1, <4>2
    <3>8. ASSUME NEW i \in 1 .. z + 1, NEW j \in 1 .. z + 1, i < j
          PROVE  g[i] <= g[j]
      <4>1. CASE j = z + 1
        BY <3>4, <3>7, <4>1
      <4>2. CASE j # z + 1
        <5>1. j \in 1 .. z
          BY <3>5, <4>2
        <5>2. i # z + 1 /\ i \in 1 .. z
          BY <3>5, <3>8, <5>1
        <5> QED
          BY <1>4, <3>4, <3>8, <5>1, <5>2
      <4> QED
        BY <4>1, <4>2
    <3>9. \A i \in 1 .. m : IsPayload(q[i]) /\ 1 < i => x <= q[i].id
      BY <1>3, <1>4, <2>2, <3>1
    <3>10. ASSUME NEW i \in 1 .. m, IsPayload(q[i]), 1 < i, NEW l \in 1 .. z + 1
           PROVE  g[l] <= q[i].id
      <4>1. PICK u \in Nat, v \in Nat : u = g[l] /\ v = q[i].id
        BY <1>3, <3>7, <3>10
      <4>2. u <= x /\ x <= v
        BY <3>7, <3>9, <3>10, <4>1
      <4>3. u <= v
        BY <4>2
      <4> QED
        BY <4>1, <4>3
    <3> QED
      BY <3>4, <3>7, <3>8, <3>10
  <2> QED
    BY <2>1, <2>2
<1>6. InOrder(s, g, b)
  <2>1. ASSUME NEW i \in 1 .. e, IsPayload(s[i])
        PROVE  /\ s[i].id <= b
               /\ \A l \in DOMAIN g : g[l] <= s[i].id
               /\ \A j \in 1 .. e : IsPayload(s[j]) /\ i < j => s[i].id <= s[j].id
    <3>1. PICK x \in 1 .. m : x = i + k /\ s[i] = q[x] /\ 1 < x
      BY <1>2
    <3>2. ASSUME NEW j \in 1 .. e, IsPayload(s[j]), i < j PROVE s[i].id <= s[j].id
      <4>1. PICK y \in 1 .. m : y = j + k /\ s[j] = q[y] /\ x < y
        BY <1>2, <3>1, <3>2
      <4> QED
        BY <1>4, <2>1, <3>1, <3>2, <4>1
    <3> QED
      BY <1>4, <1>5, <2>1, <3>1, <3>2
  <2> QED
    BY <1>2, <1>5, <2>1 DEF InOrder
<1>7. CASE ~cut
  BY <1>1, <1>6, <1>7, RestType
<1>8. CASE cut
  <2>1. PICK p : p = <<Junk>> \o s
    OBVIOUS
  <2>2. Rest(q, k, cut) = p
    BY <1>1, <1>8, <2>1 DEF Rest
  <2>3. /\ DOMAIN p = 1 .. e + 1 /\ p[1] = Junk
        /\ \A i \in 1 .. e + 1 : i # 1 => p[i] = s[i - 1] /\ i - 1 \in 1 .. e
    <3>1. <<Junk>> \in Seq(Items) /\ Len(<<Junk>>) = 1 /\ <<Junk>>[1] = Junk /\ Len(s) = e
      BY <1>2, ItemTypes
    <3>2. /\ p \in Seq(Items) /\ Len(p) = 1 + e
          /\ \A i \in 1 .. 1 + e : p[i] = IF i <= 1 THEN <<Junk>>[i] ELSE s[i - 1]
      BY <1>2, <2>1, <3>1, ConcatProperties
    <3> QED
      BY <1>2, <3>1, <3>2
  <2>4. ~IsPayload(p[1])
    BY <2>3 DEF IsPayload, Junk, Item
  <2>5. /\ \A i \in 1 .. e : IsPayload(s[i]) =>
           /\ s[i].id <= b
           /\ \A l \in DOMAIN g : g[l] <= s[i].id
           /\ \A j \in 1 .. e : IsPayload(s[j]) /\ i < j => s[i].id <= s[j].id
    BY <1>2, <1>6 DEF InOrder
  <2>6. ASSUME NEW i \in 1 .. e + 1, IsPayload(p[i])
        PROVE  /\ p[i].id <= b
               /\ \A l \in DOMAIN g : g[l] <= p[i].id
               /\ \A j \in 1 .. e + 1 : IsPayload(p[j]) /\ i < j => p[i].id <= p[j].id
    <3>1. PICK x \in 1 .. e : x = i - 1 /\ p[i] = s[x]
      BY <2>3, <2>4, <2>6
    <3>2. ASSUME NEW j \in 1 .. e + 1, IsPayload(p[j]), i < j PROVE p[i].id <= p[j].id
      <4>1. PICK y \in 1 .. e : y = j - 1 /\ p[j] = s[y] /\ x < y
        BY <2>3, <2>4, <3>1, <3>2
      <4> QED
        BY <2>5, <2>6, <3>1, <3>2, <4>1
    <3> QED
      BY <2>5, <2>6, <3>1, <3>2
  <2>7. InOrder(p, g, b)
    BY <1>5, <2>3, <2>6 DEF InOrder
  <2> QED
    BY <2>2, <2>7
<1> QED
  BY <1>7, <1>8

-----------------------------------------------------------------------------
(* What is added to a connection, and the order over TCP. *)

\* What was sent is counted, what was handed up is numbers.
LEMMA HistoryTypes ==
  ASSUME TypeOK, NEW d \in Directions, NEW n \in Conns
  PROVE  handed[d][n] \in Seq(Nat) /\ sent[d][n] \in Nat
<1>1. handed[d][n] \in Seq(0 .. MaxPayload) /\ sent[d][n] \in 0 .. MaxPayload
  BY DEF TypeOK
<1>2. \A v \in 0 .. MaxPayload : v \in Nat
  OBVIOUS
<1>3. PICK h : h = handed[d][n]
  OBVIOUS
<1>4. h \in [1 .. Len(h) -> 0 .. MaxPayload] /\ Len(h) \in Nat
  BY <1>1, <1>3, LenProperties
<1>5. h \in [1 .. Len(h) -> Nat]
  BY <1>2, <1>4
<1>6. h \in Seq(Nat)
  BY <1>4, <1>5, SeqDef
<1> QED
  BY <1>1, <1>2, <1>3, <1>6

\* A message is handed up at one end of one connection.
LEMMA HandUpFacts ==
  ASSUME TypeOK, NEW d \in Directions, NEW n \in Conns, NEW message, HandUp(d, n, message)
  PROVE  /\ handed'[d][n] = Handed(handed[d][n], message)
         /\ \A e \in Directions, m \in Conns : e # d \/ m # n => handed'[e][m] = handed[e][m]
<1>1. handed \in [Directions -> [Conns -> Seq(0 .. MaxPayload)]]
  BY DEF TypeOK
<1>2. PICK g : g = Handed(handed[d][n], message)
  OBVIOUS
<1>3. handed' = [handed EXCEPT ![d][n] = g]
  BY <1>2 DEF HandUp, Handed
<1> QED
  BY <1>1, <1>2, <1>3

\* What an accepted link puts on connection n: nothing, a message, or the end
\* of the handshake and a reply.
Said(n) ==
  \/ toClient'[n] = toClient[n] /\ sent'["down"][n] = sent["down"][n]
  \/ \E x \in Items :
       /\ toClient'[n] = toClient[n] \o <<x>>
       /\ sent'["down"][n] = sent["down"][n] + Added(x)
       /\ IsPayload(x) => x.id = sent["down"][n] + 1
  \/ \E x, y \in Items :
       /\ ~IsPayload(x) /\ ~IsPayload(y)
       /\ toClient'[n] = (toClient[n] \o <<x>>) \o <<y>>
       /\ sent'["down"][n] = sent["down"][n]

\* What an accepted link sends is counted, and goes down its connection.
LEMMA ServerTalkSaid ==
  ASSUME BaseInv, NEW n \in Conns, ServerTalks(n), NEW m \in Conns
  PROVE  Said(m) /\ sent'["up"][m] = sent["up"][m]
<1>1. PICK out :
        /\ FromAccepted(n, out)
        /\ \/ out = <<>>
           \/ \E x \in Items : /\ out = <<x>> /\ x.kind = "Payload"
                               /\ x.id = sent["down"][n] + 1
  BY DEF ServerTalks
<1>2. /\ \/ toClient'[n] = toClient[n] /\ sent'["down"][n] = sent["down"][n]
         \/ /\ toClient'[n] = toClient[n] \o out
            /\ sent'["down"][n] = sent["down"][n] + Payloads(out)
      /\ \A i \in Conns : i # n => /\ toClient'[i] = toClient[i]
                                   /\ sent'["down"][i] = sent["down"][i]
      /\ \A i \in Conns : sent'["up"][i] = sent["up"][i]
  BY <1>1, Downward
<1>3. CASE m # n \/ (toClient'[n] = toClient[n] /\ sent'["down"][n] = sent["down"][n])
  BY <1>2, <1>3 DEF Said
<1>4. CASE m = n /\ toClient'[n] = toClient[n] \o out
               /\ sent'["down"][n] = sent["down"][n] + Payloads(out)
  <2>1. toClient[n] \in Seq(Items) /\ sent["down"][n] \in Nat
    BY HistoryTypes DEF BaseInv, TypeOK, Directions
  <2>2. CASE out = <<>>
    <3>1. toClient[n] \o out = toClient[n] /\ Payloads(out) = 0
      BY <2>1, <2>2, ConcatEmptySeq, PayloadCount
    <3>2. sent["down"][n] + 0 = sent["down"][n]
      BY <2>1
    <3> QED
      BY <1>2, <1>4, <3>1, <3>2 DEF Said
  <2>3. ASSUME NEW x \in Items, out = <<x>>, x.kind = "Payload", x.id = sent["down"][n] + 1
        PROVE  Said(n)
    <3>1. Payloads(out) = Added(x)
      BY <2>3, PayloadCount DEF Added, IsPayload
    <3> QED
      BY <1>4, <2>3, <3>1 DEF Said
  <2> QED
    BY <1>1, <1>2, <1>4, <2>2, <2>3
<1> QED
  BY <1>2, <1>3, <1>4

\* So is what it sends when it has read a segment.
LEMMA TookSaid ==
  ASSUME BaseInv, NEW n \in Conns, NEW k, NEW message, NEW out,
         AcceptedTook(n, k, message, out),
         AcceptedTookTcp(n, k, message, out) \/ AcceptedTookTls(n, k, message, out),
         NEW m \in Conns
  PROVE  Said(m) /\ sent'["up"][m] = sent["up"][m]
<1>1. FromAccepted(n, out) /\ Payloads(out) = 0
  <2>1. Payloads(out) = 0
    BY AcceptedTookBase
  <2> QED
    BY <2>1 DEF AcceptedTook
<1>2. toClient[n] \in Seq(Items) /\ sent["down"][n] \in Nat
  BY HistoryTypes DEF BaseInv, TypeOK, Directions
<1>3. /\ sent'["down"][n] = sent["down"][n]
      /\ toClient'[n] = toClient[n] \/ toClient'[n] = toClient[n] \o out
      /\ \A i \in Conns : i # n => /\ toClient'[i] = toClient[i]
                                   /\ sent'["down"][i] = sent["down"][i]
      /\ \A i \in Conns : sent'["up"][i] = sent["up"][i]
  BY <1>1, <1>2, Downward
<1>4. CASE m # n \/ toClient'[n] = toClient[n]
  BY <1>3, <1>4 DEF Said
<1>5. CASE m = n /\ toClient'[n] = toClient[n] \o out
  <2> SUFFICES Said(n)
    BY <1>3, <1>5
  <2>1. ASSUME out = <<>> PROVE Said(n)
    <3>1. toClient[n] \o out = toClient[n]
      BY <1>2, <2>1, ConcatEmptySeq
    <3> QED
      BY <1>3, <1>5, <3>1 DEF Said
  <2>2. ASSUME NEW x \in Items, out = <<x>>, x.kind # "Payload"
        PROVE  Said(n)
    <3>1. Added(x) = 0 /\ ~IsPayload(x)
      BY <2>2 DEF Added, IsPayload
    <3>2. sent["down"][n] + Added(x) = sent["down"][n]
      BY <1>2, <3>1
    <3> QED
      BY <1>3, <1>5, <2>2, <3>1, <3>2 DEF Said
  <2>3. ASSUME Replied(n, message, out) PROVE Said(n)
    <3>1. out = <<>> \/ \E x \in Items : out = <<x>> /\ x.kind \in {"ConnectOK", "Ping"}
      BY <2>3, OutFacts
    <3> QED
      BY <2>1, <2>2, <3>1
  <2>4. ASSUME NEW kind \in {"ServerHello", "ServerFinished"}
        PROVE  Flight(kind) \in Items /\ Flight(kind).kind # "Payload"
    BY ItemTypes DEF Flight, Item, Kinds
  <2>5. ASSUME NEW reply, Replied(n, message, reply), out = <<Flight("ServerFinished")>> \o reply
        PROVE  Said(n)
    <3>1. PICK f \in Items : f = Flight("ServerFinished") /\ ~IsPayload(f)
      BY <2>4 DEF IsPayload
    <3>2. <<f>> \in Seq(Items)
      OBVIOUS
    <3>3. reply = <<>> \/ \E x \in Items : reply = <<x>> /\ x.kind \in {"ConnectOK", "Ping"}
      BY <2>5, OutFacts
    <3>4. CASE reply = <<>>
      <4>1. out = <<f>>
        BY <2>5, <3>1, <3>2, <3>4, ConcatEmptySeq
      <4> QED
        BY <2>2, <3>1, <4>1 DEF IsPayload
    <3>5. ASSUME NEW x \in Items, reply = <<x>>, x.kind \in {"ConnectOK", "Ping"}
          PROVE  Said(n)
      <4>1. <<x>> \in Seq(Items)
        OBVIOUS
      <4>2. (toClient[n] \o <<f>>) \o <<x>> = toClient[n] \o out
        BY <1>2, <2>5, <3>1, <3>2, <3>5, <4>1, ConcatAssociative
      <4>3. ~IsPayload(x)
        BY <3>5 DEF IsPayload
      <4> QED
        BY <1>3, <1>5, <3>1, <4>2, <4>3 DEF Said
    <3> QED
      BY <3>3, <3>4, <3>5
  <2>6. CASE AcceptedTookTcp(n, k, message, out)
    BY <2>3, <2>6 DEF AcceptedTookTcp
  <2>7. CASE Waits(n, k, message, out) \/ Fails(n, k, message, out)
    BY <2>1, <2>7 DEF Waits, Fails
  <2>8. CASE Begins(n, k, message, out)
    BY <2>2, <2>4, <2>8 DEF Begins
  <2>9. CASE Ends(n, k, message, out)
    BY <2>5, <2>9 DEF Ends
  <2>10. CASE Serves(n, k, message, out)
    BY <2>3, <2>10 DEF Serves
  <2> QED
    BY <1>3, <1>5, <2>6, <2>7, <2>8, <2>9, <2>10 DEF AcceptedTookTls
<1> QED
  BY <1>3, <1>4, <1>5

\* What was handed up and what is in flight on connection n.
TcpOrder ==
  type = "tcp" =>
    \A n \in Conns : /\ InOrder(toServer[n], handed["up"][n], sent["up"][n])
                     /\ InOrder(toClient[n], handed["down"][n], sent["down"][n])

\* The order stands as the stream to the server grows.
LEMMA InOrderGrew ==
  ASSUME TypeOK, TypeOK', type = "tcp", NEW n \in Conns, NEW kinds, Grew(n, kinds),
         NEW h \in Seq(Nat), InOrder(toServer[n], h, sent["up"][n])
  PROVE  InOrder(toServer'[n], h, sent'["up"][n])
<1>1. PICK q, b : q = toServer[n] /\ b = sent["up"][n]
  OBVIOUS
<1>2. q \in Seq(Items) /\ b \in Nat /\ toServer'[n] \in Seq(Items)
  BY <1>1, HistoryTypes DEF TypeOK, Directions
<1>3. CASE toServer'[n] = q /\ sent'["up"][n] = b
  BY <1>1, <1>3
<1>4. ASSUME NEW x \in Items, SentOn(n, x)
      PROVE  InOrder(toServer'[n], h, sent'["up"][n])
  <2>1. sent'["up"][n] = b + Added(x) /\ (IsPayload(x) => x.id = b + 1)
    BY <1>1, <1>4 DEF SentOn, Added, IsPayload
  <2>2. PICK p : p = toServer'[n]
    OBVIOUS
  <2>3. p = q \o <<x>> \/ (p \in Seq(Items) /\ \A i \in DOMAIN p : p[i] = x)
    BY <1>1, <1>2, <1>4, <2>2 DEF SentOn, Mixed
  <2>4. InOrder(p, h, b + Added(x))
    BY <1>1, <1>2, <2>1, <2>3, InOrderAppend
  <2> QED
    BY <2>1, <2>2, <2>4
<1> QED
  BY <1>1, <1>3, <1>4 DEF Grew

\* The order stands as the stream to the client grows.
LEMMA InOrderSaid ==
  ASSUME TypeOK, NEW n \in Conns, Said(n),
         NEW h \in Seq(Nat), InOrder(toClient[n], h, sent["down"][n])
  PROVE  InOrder(toClient'[n], h, sent'["down"][n])
<1>1. PICK q, b : q = toClient[n] /\ b = sent["down"][n]
  OBVIOUS
<1>2. q \in Seq(Items) /\ b \in Nat
  BY <1>1, HistoryTypes DEF TypeOK, Directions
<1>3. ASSUME NEW p \in Seq(Items), NEW c \in Nat, InOrder(p, h, c),
             NEW x \in Items, IsPayload(x) => x.id = c + 1
      PROVE  InOrder(p \o <<x>>, h, c + Added(x))
  <2>1. PICK r : r = p \o <<x>>
    OBVIOUS
  <2> QED
    BY <1>3, <2>1, InOrderAppend
<1>4. ASSUME NEW x \in Items, toClient'[n] = q \o <<x>>, sent'["down"][n] = b + Added(x),
             IsPayload(x) => x.id = b + 1
      PROVE  InOrder(toClient'[n], h, sent'["down"][n])
  BY <1>1, <1>2, <1>3, <1>4
<1>5. ASSUME NEW x \in Items, NEW y \in Items, ~IsPayload(x), ~IsPayload(y),
             toClient'[n] = (q \o <<x>>) \o <<y>>, sent'["down"][n] = b
      PROVE  InOrder(toClient'[n], h, sent'["down"][n])
  <2>1. b + Added(x) = b /\ b + Added(y) = b
    <3>1. Added(x) = 0 /\ Added(y) = 0
      BY <1>5 DEF Added
    <3> QED
      BY <1>2, <3>1
  <2>2. PICK p \in Seq(Items) : p = q \o <<x>>
    <3>1. <<x>> \in Seq(Items)
      OBVIOUS
    <3>2. q \o <<x>> \in Seq(Items)
      BY <1>2, <3>1, ConcatProperties
    <3> QED
      BY <3>2
  <2>3. InOrder(p, h, b)
    BY <1>1, <1>2, <1>3, <1>5, <2>1, <2>2
  <2>4. InOrder(p \o <<y>>, h, b)
    BY <1>2, <1>3, <1>5, <2>1, <2>3
  <2> QED
    BY <1>5, <2>2, <2>4
<1> QED
  BY <1>1, <1>4, <1>5 DEF Said

\* What the client sends is not counted with what the server sends.
LEMMA TalkDown ==
  ASSUME BaseInv, Talks, NEW n \in Conns
  PROVE  sent'["down"][n] = sent["down"][n]
<1>1. PICK out : FromClient(out)
  BY DEF Talks, TalkStep
<1>2. sent \in [Directions -> [Conns -> 0 .. MaxPayload]] /\ Directions = {"up", "down"}
  BY DEF BaseInv, TypeOK, Directions
<1> QED
  BY <1>1, <1>2 DEF FromClient

\* What the client sends of its own accord keeps the order over TCP.
LEMMA TalkTcp ==
  ASSUME BaseInv, Talks, TcpOrder
  PROVE  TcpOrder'
<1>1. UNCHANGED <<type, toClient, handed>> /\ TypeOK'
  BY TalkBase DEF Talks, TalkStep, BaseInv
<1>2. \A n \in Conns : sent'["down"][n] = sent["down"][n]
  BY TalkDown
<1>3. ASSUME type = "tcp", NEW n \in Conns
      PROVE  InOrder(toServer'[n], handed["up"][n], sent'["up"][n])
  BY <1>1, <1>3, TalkGrows, InOrderGrew, HistoryTypes DEF BaseInv, TcpOrder, Directions
<1> QED
  BY <1>1, <1>2, <1>3 DEF TcpOrder

\* So do the steps of its socket, which lose what is in flight.
LEMMA SocketTcp ==
  ASSUME BaseInv, TimedConnect \/ ConnectFails \/ Establish \/ ClientLost \/ ClientRestart,
         TcpOrder
  PROVE  TcpOrder'
<1>1. UNCHANGED <<type, handed>>
  BY SocketFrame
<1>2. ASSUME type = "tcp", NEW n \in Conns
      PROVE  /\ InOrder(toServer'[n], handed["up"][n], sent'["up"][n])
             /\ InOrder(toClient'[n], handed["down"][n], sent'["down"][n])
  <2>1. /\ InOrder(toServer[n], handed["up"][n], sent["up"][n])
        /\ InOrder(toClient[n], handed["down"][n], sent["down"][n])
    BY <1>2 DEF TcpOrder
  <2>2. InOrder(toClient'[n], handed["down"][n], sent'["down"][n])
    BY <2>1, SocketFrame, InOrderEmpty
  \* A connection that failed carried nothing yet.
  <2>3. ASSUME n = client.conn + 1, toServer'[n] = <<>>, sent'["up"][n] = 0
        PROVE  InOrder(toServer'[n], handed["up"][n], sent'["up"][n])
    <3>1. n > client.conn
      BY <2>3 DEF BaseInv, TypeOK, ClientType
    <3>2. handed["up"][n] = <<>>
      BY <3>1 DEF BaseInv, Fresh, Unused
    <3> QED
      BY <2>3, <3>2 DEF InOrder
  <2> QED
    BY <2>1, <2>2, <2>3, SocketFrame
<1> QED
  BY <1>1, <1>2 DEF TcpOrder

\* The client hands up the first message of a segment and loses the rest.
LEMMA ClientTookOrder ==
  ASSUME BaseInv, NEW k, NEW message, NEW out, ClientTook(k, message, out),
         ClientTookTcp(k, message, out) \/ ClientTookTls(k, message, out), TcpOrder
  PROVE  TcpOrder'
<1>1. CASE type # "tcp"
  BY <1>1 DEF TcpOrder, ClientTook
<1>2. CASE type = "tcp"
  <2>1. PICK n \in Conns : n = client.conn
    BY DEF ClientTook
  <2>2. /\ k > 0 /\ k \in 0 .. Len(toClient[n]) /\ out = <<>>
        /\ message = <<Head(toClient[n])>> /\ toClient[n] # <<>>
        /\ FromClient(out) /\ HandUp("down", n, message)
        /\ type' = type
    BY <1>2, <2>1 DEF ClientTook, ClientTookTcp, ClientTookTls
  <2>3. toServer' = toServer /\ sent' = sent
    BY <2>2 DEF FromClient
  <2>4. PICK cut \in BOOLEAN :
          toClient' = [toClient EXCEPT ![n] = Rest(toClient[n], k, cut)]
    BY <2>1 DEF ClientTook
  <2>5. PICK g : g = Handed(handed["down"][n], message)
    OBVIOUS
  <2>6. /\ handed'["down"][n] = g
        /\ \A m \in Conns : handed'["up"][m] = handed["up"][m]
        /\ \A m \in Conns : m # n => handed'["down"][m] = handed["down"][m]
    BY <2>2, <2>5, HandUpFacts DEF BaseInv, Directions
  <2>7. /\ toClient[n] \in Seq(Items) /\ handed["down"][n] \in Seq(Nat) /\ sent["down"][n] \in Nat
        /\ InOrder(toClient[n], handed["down"][n], sent["down"][n])
    BY <1>2, HistoryTypes DEF BaseInv, TypeOK, Directions, TcpOrder
  <2>8. InOrder(Rest(toClient[n], k, cut), g, sent["down"][n])
    BY <2>2, <2>5, <2>7, InOrderTook
  <2>9. /\ toClient'[n] = Rest(toClient[n], k, cut)
        /\ \A m \in Conns : m # n => toClient'[m] = toClient[m]
    BY <2>4 DEF BaseInv, TypeOK
  <2> QED
    BY <1>2, <2>2, <2>3, <2>6, <2>8, <2>9 DEF TcpOrder
<1> QED
  BY <1>1, <1>2

\* So does an accepted link.
LEMMA TookOrder ==
  ASSUME BaseInv, NEW n \in Conns, NEW k, NEW message, NEW out,
         AcceptedTook(n, k, message, out),
         AcceptedTookTcp(n, k, message, out) \/ AcceptedTookTls(n, k, message, out),
         TcpOrder
  PROVE  TcpOrder'
<1>1. CASE type # "tcp"
  BY <1>1 DEF TcpOrder, AcceptedTook
<1>2. CASE type = "tcp"
  <2>1. /\ k > 0 /\ k \in 0 .. Len(toServer[n]) /\ toServer[n] # <<>>
        /\ message = <<Head(toServer[n])>> /\ HandUp("up", n, message)
        /\ type' = type
    BY <1>2 DEF AcceptedTook, AcceptedTookTcp, AcceptedTookTls
  <2>2. PICK cut \in BOOLEAN :
          toServer' = [toServer EXCEPT ![n] = Rest(toServer[n], k, cut)]
    BY DEF AcceptedTook
  <2>3. PICK g : g = Handed(handed["up"][n], message)
    OBVIOUS
  <2>4. /\ handed'["up"][n] = g
        /\ \A m \in Conns : handed'["down"][m] = handed["down"][m]
        /\ \A m \in Conns : m # n => handed'["up"][m] = handed["up"][m]
    BY <2>1, <2>3, HandUpFacts DEF BaseInv, Directions
  <2>5. /\ toServer[n] \in Seq(Items) /\ handed["up"][n] \in Seq(Nat) /\ sent["up"][n] \in Nat
        /\ InOrder(toServer[n], handed["up"][n], sent["up"][n])
    BY <1>2, HistoryTypes DEF BaseInv, TypeOK, Directions, TcpOrder
  <2>6. InOrder(Rest(toServer[n], k, cut), g, sent["up"][n])
    BY <2>1, <2>3, <2>5, InOrderTook
  <2>7. /\ toServer'[n] = Rest(toServer[n], k, cut)
        /\ \A m \in Conns : m # n => toServer'[m] = toServer[m]
    BY <2>2 DEF BaseInv, TypeOK
  <2>8. ASSUME NEW m \in Conns
        PROVE  /\ sent'["up"][m] = sent["up"][m]
               /\ InOrder(toClient'[m], handed["down"][m], sent'["down"][m])
    <3>1. InOrder(toClient[m], handed["down"][m], sent["down"][m])
      BY <1>2 DEF TcpOrder
    <3>2. Said(m) /\ sent'["up"][m] = sent["up"][m]
      BY TookSaid
    <3> QED
      BY <3>1, <3>2, InOrderSaid, HistoryTypes DEF BaseInv, Directions
  <2> QED
    BY <1>2, <2>1, <2>4, <2>6, <2>7, <2>8 DEF TcpOrder
<1> QED
  BY <1>1, <1>2

\* What an accepted link sends is ahead of nothing.
LEMMA ServerTalkOrder ==
  ASSUME BaseInv, NEW n \in Conns, ServerTalks(n), TcpOrder
  PROVE  TcpOrder'
<1>1. UNCHANGED <<type, toServer, handed>>
  BY DEF ServerTalks
<1>2. ASSUME type = "tcp", NEW m \in Conns
      PROVE  /\ sent'["up"][m] = sent["up"][m]
             /\ InOrder(toClient'[m], handed["down"][m], sent'["down"][m])
  <2>1. InOrder(toClient[m], handed["down"][m], sent["down"][m])
    BY <1>2 DEF TcpOrder
  <2>2. Said(m) /\ sent'["up"][m] = sent["up"][m]
    BY ServerTalkSaid
  <2> QED
    BY <2>1, <2>2, InOrderSaid, HistoryTypes DEF BaseInv, Directions
<1> QED
  BY <1>1, <1>2 DEF TcpOrder

\* A step that sends and hands up nothing keeps the order.
LEMMA OtherTcp ==
  ASSUME BaseInv, TcpOrder,
         UNCHANGED <<type, toClient, sent, handed>>,
         \A n \in Conns : toServer'[n] = toServer[n] \/ toServer'[n] = <<>>
  PROVE  TcpOrder'
<1>1. ASSUME type = "tcp", NEW n \in Conns
      PROVE  InOrder(toServer'[n], handed["up"][n], sent["up"][n])
  <2>1. InOrder(toServer[n], handed["up"][n], sent["up"][n])
    BY <1>1 DEF TcpOrder
  <2> QED
    BY <2>1, InOrderEmpty
<1> QED
  BY <1>1 DEF TcpOrder

-----------------------------------------------------------------------------
(* The order over TLS, to the server. *)

\* The handshake is the next thing to read: what follows is worth reading.
Follows(q) == q # <<>> => Head(q).kind = "ClientFinished"
Opens(q) == q # <<>> => Head(q).kind = "ClientHello" /\ Follows(Tail(q))

\* q is what the server has of a connection and what is in flight, h what was
\* handed up, b the number of payloads sent.
UpStage(sock, ssl, q, h, b) ==
  sock \in {"none", "open"} =>
    /\ ssl = "wait" => h = <<>> /\ (Opens(q) => Exact(q, 0, b))
    /\ ssl = "hello" => h = <<>> /\ (Follows(q) => Exact(q, 0, b))
    /\ ssl = "done" => Exact(q, Len(h), b)

UpAt(n) ==
  /\ Counts(handed["up"][n])
  /\ UpStage(accepted[n].sock, accepted[n].ssl, accepted[n].backlog \o toServer[n],
             handed["up"][n], sent["up"][n])

UpOrder == type = "tls" => \A n \in Conns : UpAt(n)

\* Concatenation is associative.
LEMMA ItemsAssociative ==
  \A p, q, r \in Seq(Items) : (p \o q) \o r = p \o (q \o r)
BY ConcatAssociative

\* The next message goes behind the stream to the server at every stage.
LEMMA UpStageAppend ==
  ASSUME NEW q \in Seq(Items), NEW h \in Seq(Nat), NEW b \in Nat, NEW sock, NEW ssl,
         UpStage(sock, ssl, q, h, b),
         NEW x \in Items, IsPayload(x) => x.id = b + 1,
         NEW p, p = q \o <<x>>
  PROVE  UpStage(sock, ssl, p, h, b + Added(x))
<1>1. <<x>> \in Seq(Items) /\ Len(h) \in Nat /\ 0 \in Nat
  OBVIOUS
<1>2. \A a \in Nat : Exact(q, a, b) => Exact(p, a, b + Added(x))
  BY ExactAppend
<1>3. ASSUME NEW r \in Seq(Items), Follows(r \o <<x>>)
      PROVE  Follows(r)
  BY <1>1, <1>3, TailFirst DEF Follows
<1>4. ASSUME Opens(p) PROVE Opens(q)
  <2>1. CASE q # <<>>
    <3>1. /\ p # <<>> /\ Tail(q) \in Seq(Items) /\ Head(p) = Head(q)
          /\ Tail(p) = Tail(q) \o <<x>>
      BY <1>1, <2>1, TailFirst
    <3> QED
      BY <1>3, <1>4, <3>1 DEF Opens
  <2> QED
    BY <2>1 DEF Opens
<1> QED
  BY <1>1, <1>2, <1>3, <1>4 DEF UpStage

\* So does what the client sends on a connection over TLS.
LEMMA UpGrew ==
  ASSUME BaseInv, TypeOK', type = "tls", NEW n \in Conns, NEW kinds, Grew(n, kinds), UpAt(n)
  PROVE  UpStage(accepted[n].sock, accepted[n].ssl, accepted[n].backlog \o toServer'[n],
                 handed["up"][n], sent'["up"][n])
<1>1. PICK a, h, u, v, b : /\ a = accepted[n] /\ h = handed["up"][n] /\ b = sent["up"][n]
                           /\ u = toServer[n] /\ v = toServer'[n]
  OBVIOUS
<1>2. /\ a.backlog \in Seq(Items) /\ h \in Seq(Nat) /\ b \in Nat
      /\ u \in Seq(Items) /\ v \in Seq(Items)
  BY <1>1, HistoryTypes DEF BaseInv, TypeOK, AcceptedType, Directions
<1>3. UpStage(a.sock, a.ssl, a.backlog \o u, h, b)
  BY <1>1 DEF UpAt
<1>4. CASE v = u /\ sent'["up"][n] = b
  BY <1>1, <1>3, <1>4
<1>5. ASSUME NEW x \in Items, SentOn(n, x)
      PROVE  UpStage(a.sock, a.ssl, a.backlog \o v, h, sent'["up"][n])
  <2>1. sent'["up"][n] = b + Added(x) /\ (IsPayload(x) => x.id = b + 1)
    BY <1>1, <1>5 DEF SentOn, Added, IsPayload
  <2>2. CASE v = u \o <<x>>
    <3>1. PICK q \in Seq(Items) : q = a.backlog \o u
      BY <1>2, ConcatProperties
    <3>2. <<x>> \in Seq(Items)
      OBVIOUS
    <3>3. (a.backlog \o u) \o <<x>> = a.backlog \o (u \o <<x>>)
      BY <1>2, <3>2, ItemsAssociative, ZenonT(60)
    <3>4. a.backlog \o v = q \o <<x>>
      BY <2>2, <3>1, <3>3
    <3>5. UpStage(a.sock, a.ssl, q \o <<x>>, h, b + Added(x))
      BY <1>2, <1>3, <2>1, <3>1, UpStageAppend
    <3> QED
      BY <2>1, <3>4, <3>5
  \* What waited for the connection was lost: no handshake can begin.
  <2>3. CASE Mixed(v, n, x)
    <3>1. /\ client.sock = "connecting" /\ n = Carrier /\ Len(v) = Len(u) + 1
          /\ \A i \in DOMAIN v : v[i] = Junk
      BY <1>1, <1>5, <2>3 DEF Mixed, SentOn
    <3>2. n > client.conn
      <4>1. n = client.conn + 1 /\ client.conn \in Nat
        BY <3>1 DEF Carrier, Conns, BaseInv, TypeOK, ClientType
      <4> QED
        BY <4>1
    <3>3. a = NoAccepted("none") /\ h = <<>>
      BY <1>1, <3>2 DEF BaseInv, Fresh, Unused
    <3>4. a.sock = "none" /\ a.ssl = "wait" /\ a.backlog = <<>>
      BY <3>3 DEF NoAccepted
    <3>5. a.backlog \o v = v
      BY <1>2, <3>4, ConcatEmptySeq
    <3>6. v # <<>> /\ Head(v) = Junk
      BY <1>2, <3>1, SMTT(30)
    <3>7. ~Opens(v)
      BY <3>6 DEF Opens, Junk, Item
    <3> QED
      BY <3>3, <3>4, <3>5, <3>7 DEF UpStage
  <2> QED
    BY <1>1, <1>5, <2>2, <2>3 DEF SentOn
<1> QED
  BY <1>1, <1>4, <1>5 DEF Grew

\* What the client sends of its own accord goes behind all it has sent.
LEMMA TalkUp ==
  ASSUME BaseInv, Talks, UpOrder
  PROVE  UpOrder'
<1>1. UNCHANGED <<type, accepted, handed>> /\ TypeOK'
  BY TalkBase DEF Talks, TalkStep, BaseInv
<1>2. ASSUME type = "tls", NEW n \in Conns PROVE UpAt(n)'
  <2>1. UpAt(n)
    BY <1>2 DEF UpOrder
  <2> QED
    BY <1>1, <1>2, <2>1, TalkGrows, UpGrew DEF UpAt
<1> QED
  BY <1>1, <1>2 DEF UpOrder

\* So does what it answers.
LEMMA ClientTookUp ==
  ASSUME BaseInv, NEW k, NEW message, NEW out, ClientTook(k, message, out),
         ClientTookTcp(k, message, out) \/ ClientTookTls(k, message, out), UpOrder
  PROVE  UpOrder'
<1>1. /\ UNCHANGED <<type, accepted>> /\ HandUp("down", client.conn, message)
      /\ client.conn \in Conns
  BY DEF ClientTook
<1>2. \A m \in Conns : handed'["up"][m] = handed["up"][m]
  BY <1>1, HandUpFacts DEF BaseInv, Directions
<1>3. TypeOK' /\ (out = <<>> \/ \E x \in Items :
                    out = <<x>> /\ x.kind \in {"Connect", "ClientFinished"})
  BY ClientTookBase DEF BaseInv
<1>4. ASSUME type = "tls", NEW n \in Conns PROVE UpAt(n)'
  <2>1. UpAt(n)
    BY <1>4 DEF UpOrder
  <2>2. Grew(n, {"Connect", "ClientFinished"})
    BY <1>3, TookGrows
  <2> QED
    BY <1>1, <1>2, <1>3, <1>4, <2>1, <2>2, UpGrew DEF UpAt
<1> QED
  BY <1>1, <1>4 DEF UpOrder

\* A stream that is lost was read up to some message.
LEMMA SocketUp ==
  ASSUME BaseInv, TimedConnect \/ ConnectFails \/ Establish \/ ClientLost \/ ClientRestart,
         UpOrder
  PROVE  UpOrder'
<1>1. UNCHANGED <<type, accepted, handed>>
  BY SocketFrame
<1>2. ASSUME type = "tls", NEW n \in Conns PROVE UpAt(n)'
  <2>1. UpAt(n)
    BY <1>2 DEF UpOrder
  <2>2. CASE toServer'[n] = toServer[n] /\ sent'["up"][n] = sent["up"][n]
    BY <1>1, <2>1, <2>2 DEF UpAt
  <2>3. CASE n = client.conn + 1 /\ toServer'[n] = <<>> /\ sent'["up"][n] = 0
    <3>1. n > client.conn
      BY <2>3 DEF BaseInv, TypeOK, ClientType
    <3>2. accepted[n] = NoAccepted("none") /\ handed["up"][n] = <<>>
      BY <3>1 DEF BaseInv, Fresh, Unused
    <3>3. accepted[n].ssl = "wait" /\ accepted[n].backlog = <<>>
      BY <3>2 DEF NoAccepted
    <3>4. accepted[n].backlog \o toServer'[n] = <<>>
      BY <2>3, <3>3
    <3>5. Exact(<<>>, 0, 0)
      BY ExactEmpty
    <3>6. UpStage(accepted[n].sock, accepted[n].ssl, <<>>, handed["up"][n], 0)
      BY <3>2, <3>3, <3>5 DEF UpStage
    <3> QED
      BY <1>1, <2>1, <2>3, <3>4, <3>6 DEF UpAt
  <2> QED
    BY <2>2, <2>3, SocketFrame
<1> QED
  BY <1>1, <1>2 DEF UpOrder

\* A new accepted link has read nothing; a lost one reads no more.
LEMMA AcceptedUp ==
  ASSUME BaseInv, HandshakeInv,
         NEW n \in Conns, Accept(n) \/ AcceptedTick(n) \/ AcceptedLost(n), UpOrder
  PROVE  UpOrder'
<1>1. /\ UNCHANGED <<type, sent, handed>>
      /\ \A m \in Conns : m # n => accepted'[m] = accepted[m] /\ toServer'[m] = toServer[m]
      /\ accepted'[n].ssl = accepted[n].ssl
      /\ accepted'[n].backlog = accepted[n].backlog
      /\ \/ accepted[n].sock = "none" /\ toServer'[n] = toServer[n]
         \/ accepted'[n].sock = accepted[n].sock /\ toServer'[n] = toServer[n]
         \/ accepted'[n].sock = "closed"
  BY AcceptedFrame
<1>2. ASSUME type = "tls", NEW m \in Conns PROVE UpAt(m)'
  <2>1. UpAt(m)
    BY <1>2 DEF UpOrder
  <2>2. CASE m # n
    BY <1>1, <2>1, <2>2 DEF UpAt
  <2>3. CASE m = n
    BY <1>1, <2>1, <2>3 DEF UpAt, UpStage
  <2> QED
    BY <2>2, <2>3
<1> QED
  BY <1>1, <1>2 DEF UpOrder

\* What an accepted link sends is not in the stream to it.
LEMMA ServerTalkUp ==
  ASSUME BaseInv, NEW n \in Conns, ServerTalks(n), UpOrder
  PROVE  UpOrder'
<1>1. /\ UNCHANGED <<type, toServer, handed>>
      /\ \A m \in Conns : /\ accepted'[m].sock = accepted[m].sock
                          /\ accepted'[m].ssl = accepted[m].ssl
                          /\ accepted'[m].backlog = accepted[m].backlog
  BY DEF ServerTalks, BaseInv, TypeOK
<1>2. \A m \in Conns : sent'["up"][m] = sent["up"][m]
  BY ServerTalkSaid
<1> QED
  BY <1>1, <1>2 DEF UpOrder, UpAt

\* A link that is gone hands up no more of its stream.
LEMMA SwallowUp ==
  ASSUME BaseInv, NEW n \in Conns, Swallow(n), UpOrder
  PROVE  UpOrder'
<1>1. /\ UNCHANGED <<type, sent, handed>> /\ accepted'[n].sock = "gone"
      /\ \A m \in Conns : m # n => accepted'[m] = accepted[m] /\ toServer'[m] = toServer[m]
  BY SwallowFrame
<1>2. ASSUME type = "tls", NEW m \in Conns PROVE UpAt(m)'
  <2>1. UpAt(m)
    BY <1>2 DEF UpOrder
  <2>2. CASE m = n
    BY <1>1, <2>1, <2>2 DEF UpAt, UpStage
  <2>3. CASE m # n
    BY <1>1, <2>1, <2>3 DEF UpAt
  <2> QED
    BY <2>2, <2>3
<1> QED
  BY <1>1, <1>2 DEF UpOrder

\* A server that restarts, or a connection that breaks, hands up no more of the stream.
LEMMA RestUp ==
  ASSUME BaseInv, ServerRestart \/ Break, UpOrder
  PROVE  UpOrder'
<1>1. CASE Break
  BY <1>1 DEF Break, UpOrder, UpAt, hist
<1>2. CASE ServerRestart
  <2>1. UNCHANGED <<type, sent, handed>>
    BY <1>2 DEF ServerRestart, hist
  <2>2. ASSUME type = "tls", NEW n \in Conns PROVE UpAt(n)'
    <3>1. UpAt(n)
      BY <2>2 DEF UpOrder
    <3>2. CASE n <= client.conn
      <4>1. accepted'[n] = NoAccepted("gone")
        BY <1>2, <3>2 DEF ServerRestart
      <4>2. accepted'[n].sock = "gone"
        BY <4>1 DEF NoAccepted
      <4> QED
        BY <2>1, <3>1, <4>2 DEF UpAt, UpStage
    <3>3. CASE ~ n <= client.conn
      BY <1>2, <2>1, <3>1, <3>3 DEF ServerRestart, UpAt
    <3> QED
      BY <3>2, <3>3
  <2> QED
    BY <2>1, <2>2 DEF UpOrder
<1> QED
  BY <1>1, <1>2

\* An accepted link hands up the next payload or none: one record of each segment.
LEMMA TookUp ==
  ASSUME BaseInv, NEW n \in Conns, NEW k, NEW message, NEW out,
         AcceptedTook(n, k, message, out),
         AcceptedTookTcp(n, k, message, out) \/ AcceptedTookTls(n, k, message, out),
         UpOrder
  PROVE  UpOrder'
<1>1. /\ type' = type /\ Arrived(n, k) \in Seq(Items) /\ k \in 0 .. Len(toServer[n])
      /\ type = "tls" => toServer'[n] = SubSeq(toServer[n], k + 1, Len(toServer[n]))
      /\ accepted[n].sock = "open" /\ accepted'[n].sock = "open"
      /\ \A m \in Conns : m # n => toServer'[m] = toServer[m] /\ accepted'[m] = accepted[m]
  BY ArrivedFacts
<1>2. HandUp("up", n, message)
  BY DEF AcceptedTook
<1>3. PICK h, g : /\ h = handed["up"][n] /\ g = handed'["up"][n]
  OBVIOUS
<1>4. /\ g = Handed(h, message)
      /\ \A m \in Conns : m # n => handed'["up"][m] = handed["up"][m]
  BY <1>2, <1>3, HandUpFacts DEF BaseInv, Directions
<1>5. \A m \in Conns : sent'["up"][m] = sent["up"][m]
  BY TookSaid
<1>6. CASE type # "tls"
  BY <1>1, <1>6 DEF UpOrder
<1>7. CASE type = "tls"
  <2>1. PICK a, b, seg, rest, arrived :
          /\ a = accepted[n] /\ b = accepted'[n] /\ arrived = Arrived(n, k)
          /\ seg = SubSeq(toServer[n], 1, k) /\ rest = SubSeq(toServer[n], k + 1, Len(toServer[n]))
    OBVIOUS
  <2>2. PICK s : s = sent["up"][n]
    OBVIOUS
  <2>3. /\ toServer[n] \in Seq(Items) /\ a.backlog \in Seq(Items) /\ h \in Seq(Nat) /\ s \in Nat
        /\ arrived \in Seq(Items)
    BY <1>1, <1>3, <2>1, <2>2, HistoryTypes DEF BaseInv, TypeOK, AcceptedType, Directions
  <2>4. seg \in Seq(Items) /\ rest \in Seq(Items) /\ seg \o rest = toServer[n]
    BY <1>1, <2>1, <2>3, Cut
  <2>5. arrived = a.backlog \o seg
    BY <2>1 DEF Arrived
  <2>6. a.backlog \o toServer[n] = arrived \o rest
    <3>1. (a.backlog \o seg) \o rest = a.backlog \o (seg \o rest)
      BY <2>3, <2>4, ItemsAssociative
    <3> QED
      BY <2>4, <2>5, <3>1
  <2>7. toServer'[n] = rest
    BY <1>1, <1>7, <2>1
  <2>8. Counts(h) /\ UpStage(a.sock, a.ssl, arrived \o rest, h, s)
    BY <1>3, <1>7, <2>1, <2>2, <2>6 DEF UpOrder, UpAt
  <2>9. ASSUME Counts(g), UpStage(b.sock, b.ssl, b.backlog \o rest, g, s)
        PROVE  UpOrder'
    <3>1. UpAt(n)'
      BY <1>3, <1>5, <2>1, <2>2, <2>7, <2>9 DEF UpAt
    <3>2. ASSUME NEW m \in Conns, m # n PROVE UpAt(m)'
      BY <1>1, <1>4, <1>5, <1>7, <3>2 DEF UpOrder, UpAt
    <3> QED
      BY <3>1, <3>2 DEF UpOrder
  <2>10. a.sock = "open" /\ b.sock = "open"
    BY <1>1, <2>1
  <2>11. message = <<>> => g = h
    BY <1>4 DEF Handed
  \* What is behind the first of the unread records.
  <2>12. ASSUME arrived # <<>>
         PROVE  /\ arrived \o rest \in Seq(Items) /\ arrived \o rest # <<>>
                /\ Tail(arrived) \in Seq(Items) /\ Head(arrived \o rest) = Head(arrived)
                /\ Tail(arrived \o rest) = Tail(arrived) \o rest
    BY <2>3, <2>4, <2>12, TailFirst
  <2>13. ASSUME arrived # <<>>, ~IsPayload(Head(arrived)), Exact(arrived \o rest, 0, s)
         PROVE  Exact(Tail(arrived) \o rest, 0, s)
    <3>1. Exact(Tail(arrived \o rest), 0 + Added(Head(arrived \o rest)), s)
      BY <2>3, <2>12, <2>13, ExactTail
    <3>2. 0 + Added(Head(arrived \o rest)) = 0
      BY <2>12, <2>13 DEF Added
    <3> QED
      BY <2>12, <2>13, <3>1, <3>2
  <2>14. ASSUME NEW p \in Seq(Items), message = First(p), Exact(p \o rest, Len(h), s)
         PROVE  Counts(g) /\ Exact(Others(p) \o rest, Len(g), s)
    <3>1. g = Handed(h, message)
      BY <1>4
    <3>2. Counts(h)
      BY <2>8
    <3> QED
      BY <2>3, <2>4, <2>14, <3>1, <3>2, Consume
  <2>15. CASE Waits(n, k, message, out)
    <3>1. b = a /\ message = <<>> /\ arrived = <<>>
      BY <2>1, <2>15 DEF Waits
    <3>2. a.backlog \o rest = arrived \o rest
      <4>1. a.backlog \o seg = <<>> <=> a.backlog = <<>> /\ seg = <<>>
        BY <2>3, <2>4, ConcatEqualIffEmpty
      <4>2. a.backlog = <<>>
        BY <2>5, <3>1, <4>1
      <4> QED
        BY <3>1, <4>2
    <3> QED
      BY <2>8, <2>9, <2>11, <3>1, <3>2
  <2>16. CASE Begins(n, k, message, out)
    <3>1. /\ a.ssl = "wait" /\ arrived # <<>> /\ Head(arrived).kind = "ClientHello"
          /\ b.ssl = "hello" /\ b.backlog = Tail(arrived) /\ message = <<>>
      BY <2>1, <2>16 DEF Begins
    <3>2. h = <<>> /\ (Opens(arrived \o rest) => Exact(arrived \o rest, 0, s))
      BY <2>8, <2>10, <3>1 DEF UpStage
    <3>3. ASSUME Follows(Tail(arrived) \o rest)
          PROVE  Exact(Tail(arrived) \o rest, 0, s)
      <4>1. Opens(arrived \o rest)
        BY <2>12, <3>1, <3>3 DEF Opens
      <4>2. ~IsPayload(Head(arrived))
        BY <3>1 DEF IsPayload
      <4> QED
        BY <2>13, <3>1, <3>2, <4>1, <4>2
    <3>4. UpStage(b.sock, b.ssl, b.backlog \o rest, h, s)
      BY <3>1, <3>2, <3>3 DEF UpStage
    <3> QED
      BY <2>8, <2>9, <2>11, <3>1, <3>4
  <2>17. CASE Ends(n, k, message, out)
    <3>1. /\ a.ssl = "hello" /\ arrived # <<>> /\ Head(arrived).kind = "ClientFinished"
          /\ b.ssl = "done" /\ b.backlog = Others(Tail(arrived))
          /\ message = First(Tail(arrived))
      BY <2>1, <2>17 DEF Ends
    <3>2. h = <<>> /\ (Follows(arrived \o rest) => Exact(arrived \o rest, 0, s))
      BY <2>8, <2>10, <3>1 DEF UpStage
    <3>3. ~IsPayload(Head(arrived)) /\ Follows(arrived \o rest)
      BY <2>12, <3>1 DEF IsPayload, Follows
    <3>4. Exact(Tail(arrived) \o rest, Len(h), s)
      <4>1. Len(h) = 0
        BY <3>2
      <4> QED
        BY <2>13, <3>1, <3>2, <3>3, <4>1
    <3>5. Tail(arrived) \in Seq(Items)
      BY <2>12, <3>1
    <3>6. Counts(g) /\ Exact(Others(Tail(arrived)) \o rest, Len(g), s)
      BY <2>14, <3>1, <3>4, <3>5
    <3>7. UpStage(b.sock, b.ssl, b.backlog \o rest, g, s)
      BY <3>1, <3>6 DEF UpStage
    <3> QED
      BY <2>9, <3>6, <3>7
  <2>18. CASE Serves(n, k, message, out)
    <3>1. /\ a.ssl = "done" /\ b.ssl = "done" /\ b.backlog = Others(arrived)
          /\ message = First(arrived)
      BY <2>1, <2>18 DEF Serves
    <3>2. Exact(arrived \o rest, Len(h), s)
      BY <2>8, <2>10, <3>1 DEF UpStage
    <3>3. Counts(g) /\ Exact(Others(arrived) \o rest, Len(g), s)
      BY <2>3, <2>14, <3>1, <3>2
    <3>4. UpStage(b.sock, b.ssl, b.backlog \o rest, g, s)
      BY <3>1, <3>3 DEF UpStage
    <3> QED
      BY <2>9, <3>3, <3>4
  <2>19. CASE Fails(n, k, message, out)
    <3>1. b.ssl = "failed" /\ message = <<>>
      BY <2>1, <2>19 DEF Fails
    <3>2. UpStage(b.sock, b.ssl, b.backlog \o rest, h, s)
      BY <3>1 DEF UpStage
    <3> QED
      BY <2>8, <2>9, <2>11, <3>1, <3>2
  <2> QED
    BY <1>7, <2>15, <2>16, <2>17, <2>18, <2>19 DEF AcceptedTookTcp, AcceptedTookTls
<1> QED
  BY <1>6, <1>7

-----------------------------------------------------------------------------
(* The order over TLS, to the client. *)

\* Nothing of the current connection has been read.
Untouched ==
  \/ client.sock = "established"
  \/ client.sock = "open" /\ client.ssl = "hello" /\ client.backlog = <<>>

DownAt(n) ==
  LET h == handed["down"][n]
      b == sent["down"][n] IN
  /\ Counts(h)
  /\ n = client.conn /\ Untouched => h = <<>> /\ Exact(toClient[n], 0, b)
  /\ n = client.conn /\ Reads => Exact(client.backlog \o toClient[n], Len(h), b)

DownOrder == type = "tls" => \A n \in Conns : DownAt(n)

\* What the server adds comes after the rest.
LEMMA ExactSaid ==
  ASSUME TypeOK, NEW n \in Conns, Said(n), NEW p \in Seq(Items), NEW a \in Nat,
         Exact(p \o toClient[n], a, sent["down"][n])
  PROVE  Exact(p \o toClient'[n], a, sent'["down"][n])
<1>1. PICK q, b : q = toClient[n] /\ b = sent["down"][n]
  OBVIOUS
<1>2. q \in Seq(Items) /\ b \in Nat /\ p \o q \in Seq(Items)
  BY <1>1, HistoryTypes, ConcatProperties DEF TypeOK, Directions
<1>3. ASSUME NEW r \in Seq(Items), NEW c \in Nat, Exact(p \o r, a, c),
             NEW x \in Items, IsPayload(x) => x.id = c + 1
      PROVE  r \o <<x>> \in Seq(Items) /\ Exact(p \o (r \o <<x>>), a, c + Added(x))
  <2>1. <<x>> \in Seq(Items)
    OBVIOUS
  <2>2. p \o r \in Seq(Items) /\ r \o <<x>> \in Seq(Items)
    BY <2>1, ConcatProperties
  <2>3. (p \o r) \o <<x>> = p \o (r \o <<x>>)
    BY <2>1, ItemsAssociative
  <2>4. Exact((p \o r) \o <<x>>, a, c + Added(x))
    BY <1>3, <2>2, ExactAppend
  <2> QED
    BY <2>2, <2>3, <2>4
<1>4. ASSUME NEW x \in Items, toClient'[n] = q \o <<x>>, sent'["down"][n] = b + Added(x),
             IsPayload(x) => x.id = b + 1
      PROVE  Exact(p \o toClient'[n], a, sent'["down"][n])
  BY <1>1, <1>2, <1>3, <1>4
<1>5. ASSUME NEW x \in Items, NEW y \in Items, ~IsPayload(x), ~IsPayload(y),
             toClient'[n] = (q \o <<x>>) \o <<y>>, sent'["down"][n] = b
      PROVE  Exact(p \o toClient'[n], a, sent'["down"][n])
  <2>1. b + Added(x) = b /\ b + Added(y) = b
    <3>1. Added(x) = 0 /\ Added(y) = 0
      BY <1>5 DEF Added
    <3> QED
      BY <1>2, <3>1
  <2>2. PICK r : r = q \o <<x>>
    OBVIOUS
  <2>3. r \in Seq(Items) /\ Exact(p \o r, a, b)
    BY <1>1, <1>2, <1>3, <1>5, <2>1, <2>2
  <2>4. Exact(p \o (r \o <<y>>), a, b)
    BY <1>2, <1>3, <1>5, <2>1, <2>3
  <2> QED
    BY <1>5, <2>2, <2>4
<1> QED
  BY <1>1, <1>4, <1>5 DEF Said

\* The client's object stays as it is, or no longer reads.
LEMMA DownFrame ==
  ASSUME BaseInv, NEW n \in Conns, DownAt(n), Said(n),
         handed'["down"][n] = handed["down"][n],
         client'.conn = client.conn, client'.backlog = client.backlog,
         Untouched' => Untouched, Reads' => Reads
  PROVE  DownAt(n)'
<1>1. PICK h, b : h = handed["down"][n] /\ b = sent["down"][n]
  OBVIOUS
<1>2. /\ Counts(h)
      /\ n = client.conn /\ Untouched => h = <<>> /\ Exact(toClient[n], 0, b)
      /\ n = client.conn /\ Reads => Exact(client.backlog \o toClient[n], Len(h), b)
  BY <1>1 DEF DownAt
<1>3. PICK p \in Seq(Items) : p = client.backlog
  BY DEF BaseInv, TypeOK, ClientType
<1>4. /\ h \in Seq(Nat) /\ Len(h) \in Nat /\ toClient[n] \in Seq(Items) /\ TypeOK
      /\ <<>> \in Seq(Items) /\ 0 \in Nat
  BY <1>1, HistoryTypes DEF BaseInv, TypeOK, Directions
<1>5. PICK v, c : v = toClient'[n] /\ c = sent'["down"][n]
  OBVIOUS
<1>6. ASSUME n = client.conn, Untouched
      PROVE  h = <<>> /\ Exact(v, 0, c)
  <2>1. Exact(<<>> \o toClient[n], 0, b)
    BY <1>2, <1>4, <1>6, ConcatEmptySeq
  <2>2. Exact(<<>> \o v, 0, c)
    BY <1>1, <1>4, <1>5, <2>1, ExactSaid
  <2>3. v \in Seq(Items)
    <3>1. ASSUME NEW q \in Seq(Items), NEW x \in Items PROVE q \o <<x>> \in Seq(Items)
      <4>1. <<x>> \in Seq(Items)
        OBVIOUS
      <4> QED
        BY <4>1, ConcatProperties
    <3> QED
      BY <1>4, <1>5, <3>1 DEF Said
  <2> QED
    BY <1>2, <1>6, <2>2, <2>3, ConcatEmptySeq
<1>7. ASSUME n = client.conn, Reads
      PROVE  Exact(p \o v, Len(h), c)
  BY <1>1, <1>2, <1>3, <1>4, <1>5, <1>7, ExactSaid
<1> QED
  BY <1>1, <1>2, <1>3, <1>5, <1>6, <1>7 DEF DownAt

\* What the client sends is not in the stream to it.
LEMMA TalkDownOrder ==
  ASSUME BaseInv, Talks, ClientPhase, DownOrder
  PROVE  DownOrder'
<1>1. /\ UNCHANGED <<type, toClient, handed>>
      /\ \A n \in Conns : sent'["down"][n] = sent["down"][n]
  BY TalkDown DEF Talks, TalkStep
<1>2. PICK obj : Became(obj) /\ client' = obj
  BY DEF Talks, TalkStep
<1>3. client'.conn = client.conn /\ client'.backlog = client.backlog
  BY <1>2 DEF Became
<1>4. ASSUME type = "tls", NEW n \in Conns PROVE DownAt(n)'
  <2>1. Untouched' => Untouched
    BY <1>2, <1>4 DEF Untouched, Became, ClientPhase
  <2>2. Reads' => Reads
    BY <1>2, <1>4 DEF Reads, Became
  <2>3. DownAt(n) /\ Said(n)
    BY <1>1, <1>4 DEF DownOrder, Said
  <2> QED
    BY <1>1, <1>3, <2>1, <2>2, <2>3, DownFrame
<1> QED
  BY <1>1, <1>4 DEF DownOrder

\* The socket of the client loses the stream of a connection that is over.
LEMMA SocketDown ==
  ASSUME BaseInv, TimedConnect \/ ConnectFails \/ Establish \/ ClientLost \/ ClientRestart,
         DownOrder
  PROVE  DownOrder'
<1>1. /\ UNCHANGED <<type, handed>>
      /\ client'.sock \in {"waiting", "connecting", "established"}
      /\ \A n \in Conns : sent'["down"][n] = sent["down"][n]
  BY SocketFrame
<1>2. ~Reads'
  BY <1>1 DEF Reads
<1>3. client'.sock = "established" => Establish
  <2>1. client \in ClientType
    BY DEF BaseInv, TypeOK
  <2>2. CASE TimedConnect
    <3>1. client'.sock = "connecting"
      BY <2>1, <2>2 DEF TimedConnect, ClientType
    <3> QED
      BY <3>1
  <2>3. CASE ConnectFails \/ ClientLost
    <3>1. client'.sock = "waiting"
      BY <2>1, <2>3 DEF ConnectFails, ClientLost, ClientType
    <3> QED
      BY <3>1
  <2>4. CASE ClientRestart
    <3>1. client'.sock = "connecting"
      BY <2>4 DEF ClientRestart, NewClient
    <3> QED
      BY <3>1
  <2> QED
    BY <2>2, <2>3, <2>4
<1>4. ASSUME type = "tls", NEW n \in Conns PROVE DownAt(n)'
  <2>1. Counts(handed["down"][n])
    BY <1>4 DEF DownOrder, DownAt
  <2>2. ASSUME n = client'.conn, Untouched'
        PROVE  handed["down"][n] = <<>> /\ Exact(toClient'[n], 0, sent'["down"][n])
    <3>1. Establish
      BY <1>1, <1>3, <2>2 DEF Untouched
    <3>2. n = client.conn + 1 /\ toClient' = toClient
      BY <2>2, <3>1 DEF Establish, BaseInv, TypeOK, ClientType
    <3>3. n > client.conn
      BY <3>2 DEF BaseInv, TypeOK, ClientType
    <3>4. toClient[n] = <<>> /\ sent["down"][n] = 0 /\ handed["down"][n] = <<>>
      BY <3>3 DEF BaseInv, Fresh, Unused
    <3>5. Exact(<<>>, 0, 0)
      BY ExactEmpty
    <3> QED
      BY <1>1, <3>2, <3>4, <3>5
  <2> QED
    BY <1>1, <1>2, <2>1, <2>2 DEF DownAt
<1> QED
  BY <1>1, <1>4 DEF DownOrder

\* What an accepted link sends goes behind all it has sent.
LEMMA ServerTalkDown ==
  ASSUME BaseInv, NEW n \in Conns, ServerTalks(n), DownOrder
  PROVE  DownOrder'
<1>1. UNCHANGED <<type, client, handed>>
  BY DEF ServerTalks
<1>2. ASSUME type = "tls", NEW m \in Conns PROVE DownAt(m)'
  <2>1. DownAt(m) /\ Said(m)
    BY <1>2, ServerTalkSaid DEF DownOrder
  <2> QED
    BY <1>1, <2>1, DownFrame DEF Untouched, Reads
<1> QED
  BY <1>1, <1>2 DEF DownOrder

\* So does what it answers.
LEMMA TookDown ==
  ASSUME BaseInv, NEW n \in Conns, NEW k, NEW message, NEW out,
         AcceptedTook(n, k, message, out),
         AcceptedTookTcp(n, k, message, out) \/ AcceptedTookTls(n, k, message, out),
         DownOrder
  PROVE  DownOrder'
<1>1. UNCHANGED <<type, client>> /\ HandUp("up", n, message)
  BY DEF AcceptedTook
<1>2. \A m \in Conns : handed'["down"][m] = handed["down"][m]
  BY <1>1, HandUpFacts DEF BaseInv, Directions
<1>3. ASSUME type = "tls", NEW m \in Conns PROVE DownAt(m)'
  <2>1. DownAt(m)
    BY <1>3 DEF DownOrder
  <2>2. Said(m)
    BY TookSaid
  <2> QED
    BY <1>1, <1>2, <2>1, <2>2, DownFrame DEF Untouched, Reads
<1> QED
  BY <1>1, <1>3 DEF DownOrder

\* A step that does nothing to the client and its streams keeps the order.
LEMMA OtherDown ==
  ASSUME UNCHANGED <<type, client, toClient, sent, handed>>, DownOrder
  PROVE  DownOrder'
BY DEF DownOrder, DownAt, Untouched, Reads

\* The client hands up the next payload or none: one record of each segment.
LEMMA ClientTookDown ==
  ASSUME BaseInv, HandshakeInv, ClientPhase,
         NEW k, NEW message, NEW out, ClientTook(k, message, out),
         ClientTookTcp(k, message, out) \/ ClientTookTls(k, message, out),
         DownOrder
  PROVE  DownOrder'
<1>1. PICK n : n = client.conn
  OBVIOUS
<1>2. /\ type' = type /\ n \in Conns /\ toClient[n] \in Seq(Items)
      /\ k \in 0 .. Len(toClient[n]) /\ client.sock = "open" /\ client'.sock = "open"
      /\ client'.conn = n /\ Gathered(k) \in Seq(Items)
      /\ type = "tls" => toClient'[n] = SubSeq(toClient[n], k + 1, Len(toClient[n]))
      /\ \A m \in Conns : m # n => toClient'[m] = toClient[m]
  BY <1>1, GatheredFacts
<1>3. HandUp("down", n, message)
  BY <1>1 DEF ClientTook
<1>4. \A m \in Conns : sent'["down"][m] = sent["down"][m]
  BY ClientTookBase
<1>5. PICK h, g, s : h = handed["down"][n] /\ g = handed'["down"][n] /\ s = sent["down"][n]
  OBVIOUS
<1>6. /\ g = Handed(h, message)
      /\ \A m \in Conns : m # n => handed'["down"][m] = handed["down"][m]
  BY <1>2, <1>3, <1>5, HandUpFacts DEF BaseInv, Directions
<1>7. CASE type # "tls"
  BY <1>2, <1>7 DEF DownOrder
<1>8. CASE type = "tls"
  <2>1. PICK seg, rest, unread, gathered :
          /\ unread = client.backlog /\ gathered = Gathered(k)
          /\ seg = SubSeq(toClient[n], 1, k) /\ rest = SubSeq(toClient[n], k + 1, Len(toClient[n]))
    OBVIOUS
  <2>2. /\ unread \in Seq(Items) /\ h \in Seq(Nat) /\ s \in Nat /\ gathered \in Seq(Items)
    BY <1>2, <1>5, <2>1, HistoryTypes DEF BaseInv, TypeOK, ClientType, Directions
  <2>3. seg \in Seq(Items) /\ rest \in Seq(Items) /\ seg \o rest = toClient[n]
    <3>1. PICK q \in Seq(Items) : q = toClient[n] /\ k \in 0 .. Len(q)
      BY <1>2
    <3>2. /\ SubSeq(q, 1, k) \in Seq(Items) /\ SubSeq(q, k + 1, Len(q)) \in Seq(Items)
          /\ SubSeq(q, 1, k) \o SubSeq(q, k + 1, Len(q)) = q
      BY <3>1, Cut
    <3> QED
      BY <2>1, <3>1, <3>2
  <2>4. gathered = unread \o seg
    BY <1>1, <2>1 DEF Gathered
  <2>5. unread \o toClient[n] = gathered \o rest
    <3>1. (unread \o seg) \o rest = unread \o (seg \o rest)
      BY <2>2, <2>3, ItemsAssociative
    <3> QED
      BY <2>3, <2>4, <3>1
  <2>6. toClient'[n] = rest
    BY <1>2, <1>8, <2>1
  <2>7. /\ Counts(h)
        /\ Untouched => h = <<>> /\ Exact(toClient[n], 0, s)
        /\ Reads => Exact(gathered \o rest, Len(h), s)
    BY <1>1, <1>2, <1>5, <1>8, <2>1, <2>5 DEF DownOrder, DownAt
  <2>8. ASSUME Counts(g), Untouched' => g = <<>> /\ Exact(rest, 0, s),
               Reads' => Exact(client'.backlog \o rest, Len(g), s)
        PROVE  DownOrder'
    <3>1. DownAt(n)'
      BY <1>4, <1>2, <1>5, <2>6, <2>8 DEF DownAt
    <3>2. ASSUME NEW m \in Conns, m # n PROVE DownAt(m)'
      <4>1. Counts(handed'["down"][m])
        BY <1>6, <1>8, <3>2 DEF DownOrder, DownAt
      <4> QED
        BY <1>2, <3>2, <4>1 DEF DownAt
    <3> QED
      BY <3>1, <3>2 DEF DownOrder
  <2>9. message = <<>> => g = h
    BY <1>6 DEF Handed
  <2>10. ASSUME NEW p \in Seq(Items), message = First(p), Exact(p \o rest, Len(h), s)
         PROVE  Counts(g) /\ Exact(Others(p) \o rest, Len(g), s)
    <3>1. g = Handed(h, message)
      BY <1>6
    <3>2. Counts(h)
      BY <2>7
    <3> QED
      BY <2>2, <2>3, <2>10, <3>1, <3>2, Consume
  \* The flight at the head is no payload.
  <2>11. ASSUME client.ssl = "hello", gathered # <<>>, Head(gathered).kind \in Flights
         PROVE  /\ h = <<>> /\ Tail(gathered) \in Seq(Items)
                /\ Exact(Tail(gathered) \o rest, 0, s)
                /\ Head(gathered).kind = "ServerHello" => Tail(gathered) = <<>> /\ rest = <<>>
    <3>1. /\ client.backlog = <<>> /\ gathered = seg /\ Tail(gathered) \in Seq(Items)
          /\ Head(gathered).kind = "ServerHello" => Tail(gathered) = <<>> /\ rest = <<>>
      <4>1. /\ client.backlog = <<>> /\ Gathered(k) = SubSeq(toClient[n], 1, k)
            /\ Tail(Gathered(k)) \in Seq(Items)
            /\ Head(Gathered(k)).kind = "ServerHello" =>
                 Tail(Gathered(k)) = <<>> /\ toClient'[n] = <<>>
        BY <1>1, <1>8, <2>1, <2>11, FlightTaken
      <4> QED
        BY <2>1, <2>6, <4>1
    <3>2. Untouched
      BY <1>2, <2>11, <3>1 DEF Untouched
    <3>3. h = <<>> /\ Exact(seg \o rest, 0, s)
      BY <2>3, <2>7, <3>2
    <3>4. /\ seg \o rest \in Seq(Items) /\ seg \o rest # <<>>
          /\ Head(seg \o rest) = Head(seg) /\ Tail(seg \o rest) = Tail(seg) \o rest
      <4>1. seg # <<>> /\ seg \in Seq(Items) /\ rest \in Seq(Items)
        BY <2>3, <2>11, <3>1
      <4> QED
        BY <4>1, TailFirst
    <3>5. ~IsPayload(Head(seg))
      BY <2>11, <3>1 DEF IsPayload, Flights
    <3>6. Exact(Tail(seg \o rest), 0 + Added(Head(seg \o rest)), s)
      BY <2>2, <3>3, <3>4, ExactTail
    <3>7. 0 + Added(Head(seg \o rest)) = 0
      BY <3>4, <3>5 DEF Added
    <3> QED
      BY <3>1, <3>3, <3>4, <3>6, <3>7
  <2>12. CASE Stalls(k, message, out)
    <3>1. /\ client.ssl = "hello" /\ client'.ssl = "hello" /\ client'.handshaking
          /\ client'.backlog = gathered /\ message = <<>>
      BY <2>1, <2>12 DEF Stalls
    <3>2. ~Reads'
      BY <3>1 DEF Reads
    <3>3. ASSUME Untouched' PROVE h = <<>> /\ Exact(rest, 0, s)
      <4>1. gathered = <<>>
        BY <1>2, <3>1, <3>3 DEF Untouched
      <4>2. unread \o seg = <<>> <=> unread = <<>> /\ seg = <<>>
        BY <2>2, <2>3, ConcatEqualIffEmpty
      <4>3. unread = <<>> /\ seg = <<>>
        BY <2>4, <4>1, <4>2
      <4>4. toClient[n] = rest
        BY <2>3, <4>3, ConcatEmptySeq
      <4>5. Untouched
        BY <1>2, <2>1, <3>1, <4>3 DEF Untouched
      <4> QED
        BY <2>7, <4>4, <4>5
    <3> QED
      BY <2>7, <2>8, <2>9, <3>1, <3>2, <3>3
  <2>13. CASE Answers(k, message, out)
    <3>1. /\ client.ssl = "hello" /\ gathered # <<>> /\ Head(gathered).kind = "ServerHello"
          /\ client'.handshaking /\ client'.backlog = Tail(gathered) /\ message = <<>>
      BY <2>1, <2>13 DEF Answers
    <3>2. ~Reads'
      BY <3>1 DEF Reads
    <3>3. h = <<>> /\ Exact(Tail(gathered) \o rest, 0, s) /\ Tail(gathered) = <<>> /\ rest = <<>>
      BY <2>11, <3>1 DEF Flights
    <3>4. Exact(rest, 0, s)
      BY <2>3, <3>3, ConcatEmptySeq
    <3> QED
      BY <2>7, <2>8, <2>9, <3>1, <3>2, <3>3, <3>4
  <2>14. CASE Finishes(k, message, out)
    <3>1. /\ client.ssl = "hello" /\ gathered # <<>> /\ Head(gathered).kind = "ServerFinished"
          /\ client'.ssl = "done" /\ client'.backlog = Others(Tail(gathered))
          /\ message = First(Tail(gathered))
      BY <2>1, <2>14 DEF Finishes
    <3>2. /\ h = <<>> /\ Tail(gathered) \in Seq(Items)
          /\ Exact(Tail(gathered) \o rest, 0, s)
      BY <2>11, <3>1 DEF Flights
    <3>3. Len(h) = 0
      BY <3>2
    <3>4. Counts(g) /\ Exact(Others(Tail(gathered)) \o rest, Len(g), s)
      BY <2>10, <3>1, <3>2, <3>3
    <3>5. ~Untouched'
      BY <1>2, <3>1 DEF Untouched
    <3> QED
      BY <2>8, <3>1, <3>4, <3>5
  <2>15. CASE ReadsOn(k, message, out)
    <3>1. /\ client.ssl = "done" /\ ~client.handshaking /\ client'.ssl = "done"
          /\ client'.backlog = Others(gathered) /\ message = First(gathered)
      BY <2>1, <2>15 DEF ReadsOn
    <3>2. Exact(gathered \o rest, Len(h), s)
      BY <1>2, <2>7, <3>1 DEF Reads
    <3>3. Counts(g) /\ Exact(Others(gathered) \o rest, Len(g), s)
      BY <2>2, <2>10, <3>1, <3>2
    <3>4. ~Untouched'
      BY <1>2, <3>1 DEF Untouched
    <3> QED
      BY <2>8, <3>1, <3>3, <3>4
  <2> QED
    BY <1>8, <2>12, <2>13, <2>14, <2>15 DEF ClientTookTcp, ClientTookTls
<1> QED
  BY <1>7, <1>8

-----------------------------------------------------------------------------
(* The inductive invariant. *)

StreamInv ==
  /\ BaseInv /\ HandshakeInv /\ ClientPhase /\ OKInv
  /\ TcpOrder /\ UpOrder /\ DownOrder

\* At the start nothing is under way.
LEMMA StreamInit == Init => StreamInv
<1> SUFFICES ASSUME Init PROVE StreamInv
  OBVIOUS
<1> USE StreamAssumption
<1>1. /\ type \in {"tcp", "tls"} /\ client = NewClient(0)
      /\ accepted = [n \in Conns |-> NoAccepted("none")]
      /\ broken = [n \in Conns |-> FALSE]
      /\ toServer = [n \in Conns |-> <<>>] /\ toClient = [n \in Conns |-> <<>>]
      /\ payloads = 0 /\ okOn = 0
      /\ sent = [d \in Directions |-> [n \in Conns |-> 0]]
      /\ handed = [d \in Directions |-> [n \in Conns |-> <<>>]]
      /\ Directions = {"up", "down"}
  BY DEF Init, Directions
<1>2. /\ client.sock = "connecting" /\ client.conn = 0 /\ client.ssl = "before"
      /\ client.backlog = <<>>
  BY <1>1 DEF NewClient
<1>3. \A n \in Conns : /\ accepted[n] = NoAccepted("none") /\ toServer[n] = <<>>
                       /\ toClient[n] = <<>> /\ sent["up"][n] = 0 /\ sent["down"][n] = 0
                       /\ handed["up"][n] = <<>> /\ handed["down"][n] = <<>> /\ n # 0
  BY <1>1 DEF Conns
<1>4. /\ NoAccepted("none").sock = "none" /\ NoAccepted("none").ssl = "wait"
      /\ NoAccepted("none").backlog = <<>>
  BY DEF NoAccepted
<1>5. Elements(<<>>) = {} /\ \A kind : ~Has(<<>>, kind)
  BY ElementsOf DEF Has
<1>6. ~Reads /\ ~Untouched
  BY <1>2 DEF Reads, Untouched
<1>7. TypeOK
  <2>1. /\ <<>> \in Seq(Items) /\ <<>> \in Seq(0 .. MaxPayload) /\ 0 \in 0 .. MaxPayload
        /\ 0 \in 0 .. MaxConns /\ 0 \in 0 .. ActivityTimerClient
        /\ 0 \in 0 .. ActivityTimerAccepted
    OBVIOUS
  <2>2. NewClient(0) \in ClientType
    BY <2>1 DEF NewClient, ClientType
  <2>3. NoAccepted("none") \in AcceptedType
    BY <2>1 DEF NoAccepted, AcceptedType
  <2> QED
    BY <1>1, <2>1, <2>2, <2>3 DEF TypeOK
<1>8. BaseInv
  <2>1. Counted
    BY <1>1 DEF Counted
  <2>2. Fresh
    BY <1>1, <1>2, <1>3 DEF Fresh, Unused
  <2> QED
    BY <1>7, <2>1, <2>2 DEF BaseInv
<1>9. HandshakeInv
  BY <1>3, <1>4, <1>5 DEF HandshakeInv, HandshakeAt, Stage, Shape
<1>10. ClientPhase
  BY <1>2, <1>6 DEF ClientPhase
<1>11. OKInv
  BY <1>1, <1>3, <1>5, <1>6 DEF OKInv, OKStands, OKFrom
<1>12. TcpOrder
  BY <1>3 DEF TcpOrder, InOrder
<1>13. UpOrder
  <2>1. Exact(<<>>, 0, 0) /\ <<>> \o <<>> = <<>>
    BY ExactEmpty
  <2>2. UpStage("none", "wait", <<>>, <<>>, 0)
    BY <2>1 DEF UpStage
  <2>3. Counts(<<>>)
    BY DEF Counts
  <2>4. ASSUME NEW n \in Conns PROVE UpAt(n)
    <3>1. /\ accepted[n].sock = "none" /\ accepted[n].ssl = "wait"
          /\ accepted[n].backlog = <<>> /\ toServer[n] = <<>>
      BY <1>3, <1>4, <2>4
    <3>2. accepted[n].backlog \o toServer[n] = <<>>
      BY <2>1, <3>1
    <3>3. handed["up"][n] = <<>> /\ sent["up"][n] = 0
      BY <1>3, <2>4
    <3> QED
      BY <2>2, <2>3, <3>1, <3>2, <3>3 DEF UpAt
  <2> QED
    BY <2>4 DEF UpOrder
<1>14. DownOrder
  BY <1>3, <1>6 DEF DownOrder, DownAt, Counts
<1> QED
  BY <1>8, <1>9, <1>10, <1>11, <1>12, <1>13, <1>14 DEF StreamInv

\* Records come only while the handshake runs or after it.
LEMMA ReceivesReady ==
  ASSUME BaseInv, HandshakeInv, ClientPhase, type = "tls",
         NEW k, ClientReceive(k), client.conn # 0
  PROVE  \/ client.ssl = "hello" /\ client.handshaking
         \/ client.ssl = "done" /\ ~client.handshaking
<1>1. /\ client.sock = "open" /\ toClient[client.conn] # <<>>
      /\ client.ssl \in {"before", "hello", "done"}
  BY DEF ClientReceive, IsSegment, BaseInv, TypeOK, ClientType
<1>2. client.ssl = "done" => ~client.handshaking
  BY <1>1 DEF ClientPhase, Finished, Mute
<1> QED
  BY <1>1, <1>2 DEF ClientPhase

\* The kinds of steps, one by one: the client sends of its own accord,
LEMMA TalkInv ==
  ASSUME StreamInv, Talks
  PROVE  StreamInv'
BY TalkBase, TalkHandshake, TalkPhase, TalkOK, TalkTcp, TalkUp, TalkDownOrder DEF StreamInv

\* the client receives a segment,
LEMMA ClientTookInv ==
  ASSUME StreamInv, NEW k, NEW message, NEW out, ClientTook(k, message, out),
         ClientTookTcp(k, message, out) \/ ClientTookTls(k, message, out)
  PROVE  StreamInv'
BY ClientTookBase, ClientTookHandshake, ClientTookPhase, ClientTookOK, ClientTookOrder,
   ClientTookUp, ClientTookDown DEF StreamInv

\* an accepted link receives a segment,
LEMMA TookInv ==
  ASSUME StreamInv, NEW n \in Conns, NEW k, NEW message, NEW out,
         AcceptedTook(n, k, message, out),
         AcceptedTookTcp(n, k, message, out) \/ AcceptedTookTls(n, k, message, out)
  PROVE  StreamInv'
BY AcceptedTookBase, TookHandshakes, TookPhase, TookOK, TookOrder, TookUp, TookDown
   DEF StreamInv

\* an accepted link sends of its own accord,
LEMMA ServerTalkInv ==
  ASSUME StreamInv, NEW n \in Conns, ServerTalks(n)
  PROVE  StreamInv'
BY ServerTalkBase, ServerTalkHandshake, ServerTalkPhase, ServerTalkOK, ServerTalkOrder,
   ServerTalkUp, ServerTalkDown DEF StreamInv

\* the socket of the client moves,
LEMMA SocketInv ==
  ASSUME StreamInv, TimedConnect \/ ConnectFails \/ Establish \/ ClientLost \/ ClientRestart
  PROVE  StreamInv'
BY SocketBase, SocketHandshake, SocketPhase, SocketOK, SocketTcp, SocketUp, SocketDown
   DEF StreamInv

\* a connection is accepted, an accepted link ticks or is lost,
LEMMA AcceptedInv ==
  ASSUME StreamInv, NEW n \in Conns, Accept(n) \/ AcceptedTick(n) \/ AcceptedLost(n)
  PROVE  StreamInv'
<1>1. /\ BaseInv' /\ HandshakeInv' /\ ClientPhase' /\ OKInv' /\ UpOrder'
  BY AcceptedBase, AcceptedHandshakes, AcceptedPhase, AcceptedOK, AcceptedUp DEF StreamInv
<1>2. /\ UNCHANGED <<type, client, toClient, okOn, sent, handed>>
      /\ \A m \in Conns : toServer'[m] = toServer[m] \/ toServer'[m] = <<>>
  BY AcceptedFrame DEF StreamInv
<1>3. TcpOrder' /\ DownOrder'
  BY <1>2, OtherTcp, OtherDown DEF StreamInv
<1> QED
  BY <1>1, <1>3 DEF StreamInv

\* what arrives for a link that was destroyed is lost,
LEMMA SwallowInv ==
  ASSUME StreamInv, NEW n \in Conns, Swallow(n)
  PROVE  StreamInv'
<1>1. /\ BaseInv' /\ HandshakeInv' /\ ClientPhase' /\ OKInv' /\ UpOrder'
  BY SwallowBase, SwallowHandshake, SwallowPhase, SwallowOK, SwallowUp DEF StreamInv
<1>2. /\ UNCHANGED <<type, client, toClient, okOn, sent, handed>>
      /\ \A m \in Conns : toServer'[m] = toServer[m] \/ toServer'[m] = <<>>
  BY SwallowFrame DEF StreamInv
<1>3. TcpOrder' /\ DownOrder'
  BY <1>2, OtherTcp, OtherDown DEF StreamInv
<1> QED
  BY <1>1, <1>3 DEF StreamInv

\* the server restarts, or a connection breaks.
LEMMA RestInv ==
  ASSUME StreamInv, ServerRestart \/ Break
  PROVE  StreamInv'
<1>1. /\ BaseInv' /\ HandshakeInv' /\ ClientPhase' /\ OKInv' /\ UpOrder'
  BY RestBase, RestHandshake, RestPhase, RestOK, RestUp DEF StreamInv
<1>2. /\ UNCHANGED <<type, client, toClient, okOn, sent, handed>>
      /\ \A m \in Conns : toServer'[m] = toServer[m] \/ toServer'[m] = <<>>
  BY DEF ServerRestart, Break, hist
<1>3. TcpOrder' /\ DownOrder'
  BY <1>2, OtherTcp, OtherDown DEF StreamInv
<1> QED
  BY <1>1, <1>3 DEF StreamInv

\* Every step keeps the invariant.
LEMMA StreamStep == StreamInv /\ [Next]_vars => StreamInv'
<1> SUFFICES ASSUME StreamInv, [Next]_vars PROVE StreamInv'
  OBVIOUS
<1>1. CASE UNCHANGED vars
  BY <1>1 DEF vars, hist, StreamInv, BaseInv, TypeOK, Counted, Fresh, Unused, HandshakeInv,
     HandshakeAt, ClientPhase, Finished, Mute, Served, Reads, OKInv, OKStands, OKFrom,
     TcpOrder, UpOrder, UpAt, DownOrder, DownAt, Untouched
<1>2. CASE ClientConnected \/ ClientTick \/ ClientSend \/ ClientSetupDataConn
  BY <1>2, ClientTalks, TalkInv DEF StreamInv
<1>3. CASE TimedConnect \/ ConnectFails \/ Establish \/ ClientLost \/ ClientRestart
  BY <1>3, SocketInv
<1>4. ASSUME NEW k, client.conn # 0, ClientReceive(k)
      PROVE  StreamInv'
  <2>1. BaseInv /\ HandshakeInv /\ ClientPhase
    BY DEF StreamInv
  <2>2. type = "tls" => \/ client.ssl = "hello" /\ client.handshaking
                        \/ client.ssl = "done" /\ ~client.handshaking
    BY <1>4, <2>1, ReceivesReady
  <2>3. PICK message, out :
          /\ ClientTook(k, message, out)
          /\ ClientTookTcp(k, message, out) \/ ClientTookTls(k, message, out)
    BY <1>4, <2>1, <2>2, ClientReceives
  <2> QED
    BY <2>3, ClientTookInv
<1>5. ASSUME NEW n \in Conns, NEW k, AcceptedReceive(n, k)
      PROVE  StreamInv'
  <2>1. PICK message, out :
          /\ AcceptedTook(n, k, message, out)
          /\ AcceptedTookTcp(n, k, message, out) \/ AcceptedTookTls(n, k, message, out)
    BY <1>5, AcceptedReceives DEF StreamInv
  <2> QED
    BY <2>1, TookInv
<1>6. ASSUME NEW n \in Conns, ServerSend(n) \/ AcceptedSetupDataConn(n)
      PROVE  StreamInv'
  BY <1>6, ServerSays, ServerTalkInv DEF StreamInv
<1>7. ASSUME NEW n \in Conns, Accept(n) \/ AcceptedTick(n) \/ AcceptedLost(n)
      PROVE  StreamInv'
  BY <1>7, AcceptedInv
<1>8. ASSUME NEW n \in Conns, Swallow(n)
      PROVE  StreamInv'
  BY <1>8, SwallowInv
<1>9. CASE ServerRestart \/ Break
  BY <1>9, RestInv
<1> QED
  BY <1>1, <1>2, <1>3, <1>4, <1>5, <1>6, <1>7, <1>8, <1>9 DEF Next, ClientStep, ServerStep

\* The inductive invariant.
LEMMA StreamInvHolds == Spec => []StreamInv
BY StreamInit, StreamStep, PTL DEF Spec

\* The types of the state are those of the declarations, for any number of
\* connections, items in flight and payloads (both link types).
THEOREM StreamTypeCorrect == Spec => []TypeOK
<1>1. StreamInv => TypeOK
  BY DEF StreamInv, BaseInv
<1> QED
  BY <1>1, StreamInvHolds, PTL

\* An EConnectOK that came, or is on its way, is that of an accepted link that
\* is connected until its timer stops.
THEOREM ConnectOKStandsHolds == Spec => []ConnectOKStands
<1>1. StreamInv => ConnectOKStands
  <2> SUFFICES ASSUME StreamInv, NEW n \in Conns, ConnectOKOn(n),
                      accepted[n].sock \in {"open", "closed"}
               PROVE  accepted[n].timer => accepted[n].connected
    BY DEF ConnectOKStands
  <2>1. OKFrom(n)
    BY DEF ConnectOKOn, OKFrom, Has, Elements
  <2> QED
    BY <2>1 DEF StreamInv, OKInv, OKStands
<1> QED
  BY <1>1, StreamInvHolds, PTL

\* What a connection hands up comes in the order it was sent; over TLS nothing
\* is missing in between and nothing comes twice.
THEOREM DeliveredInOrderHolds == Spec => []DeliveredInOrder
<1>1. StreamInv => DeliveredInOrder
  <2> SUFFICES ASSUME StreamInv, NEW d \in Directions, NEW n \in Conns
               PROVE  /\ \A i, j \in DOMAIN handed[d][n] :
                           i < j => handed[d][n][i] <= handed[d][n][j]
                      /\ type = "tls" => \A i \in DOMAIN handed[d][n] : handed[d][n][i] = i
    BY DEF DeliveredInOrder
  <2>1. PICK h : h = handed[d][n]
    OBVIOUS
  <2>2. type \in {"tcp", "tls"} /\ h \in Seq(Nat) /\ (d = "up" \/ d = "down")
    BY <2>1, HistoryTypes DEF StreamInv, BaseInv, TypeOK, Directions
  <2>3. CASE type = "tcp"
    BY <2>1, <2>2, <2>3 DEF StreamInv, TcpOrder, InOrder
  <2>4. CASE type = "tls"
    <3>1. Counts(h)
      BY <2>1, <2>2, <2>4 DEF StreamInv, UpOrder, UpAt, DownOrder, DownAt
    <3>2. \A i, j \in DOMAIN h : i < j => h[i] <= h[j]
      BY <2>2, <3>1 DEF Counts
    <3> QED
      BY <2>1, <3>1, <3>2 DEF Counts
  <2> QED
    BY <2>2, <2>3, <2>4
<1> QED
  BY <1>1, StreamInvHolds, PTL
=============================================================================
