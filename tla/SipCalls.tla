------------------------------ MODULE SipCalls ------------------------------
(***************************************************************************)
(* Calls and their media ports in the two sipservers of a tunnel.  "near"  *)
(* is the client-mode tunnel, whose SIP clients place the calls; "far" is  *)
(* the server-mode tunnel next to the called SIP server.  Each side keeps  *)
(* a sipcall per Call-ID (_callMap) with a vector of sipdataconn, one per  *)
(* media line, and finds a connection by its local port (_dataPortMap).    *)
(* The sides tell each other their local ports with SetupData messages,    *)
(* which share the VPN link with the SIP messages.                         *)
(*                                                                         *)
(* Each side runs one thread: a handler is one step.  The link is up and   *)
(* is a sequence of messages per direction.  Ordered: delivered in order   *)
(* without loss, which a TLS link does (one record per message, messages   *)
(* of at most SSL_BUFFER_SIZE bytes).  Not Ordered: any message may be     *)
(* lost or overtaken (UDP, DTLS; and TCP, where the messages behind the    *)
(* first of a segment are lost).  A request of the far side is not         *)
(* relayed: sendSignalling with an empty id fails on the server's link     *)
(* object, which is never connected.                                       *)
(***************************************************************************)
EXTENDS Naturals, Sequences, FiniteSets

CONSTANTS
  Calls,        \* Call-IDs
  Ports,        \* UDP ports a side can bind
  NoPort,       \* _vpnPort of a connection that was not linked yet (0)
  Hole,         \* a NULL element of _dataConnVec
  NoCall,       \* the Call-ID is not in _callMap
  NoConn,       \* the port is not in _dataPortMap
  Ordered,      \* TRUE for a TLS link, FALSE for UDP, DTLS and TCP
  MaxLines,     \* bound: media lines in one SDP body
  MaxSip        \* bound: SIP messages the SIP clients and servers send

ASSUME SipCallsAssumption ==
  /\ NoPort \notin Ports
  /\ Ordered \in BOOLEAN
  /\ MaxLines \in Nat \ {0}
  /\ MaxSip \in Nat

Sides == {"near", "far"}
Other(s) == IF s = "near" THEN "far" ELSE "near"
\* ACK, OPTIONS and REGISTER are handled alike (OPTIONS), and so are CANCEL
\* and BYE; sipmessage::parse rejects every other method.
Methods == {"INVITE", "OPTIONS", "BYE"}
Classes == {"provisional", "success", "failure"}

VARIABLES
  up,        \* the process of the side runs
  calls,     \* _callMap: side -> call -> its _dataConnVec, or NoCall
  onServer,  \* calls of "far" whose _vpnPtr is the server-mode link object
  portMap,   \* _dataPortMap: side -> port -> <<call, index>>, or NoConn
  wire,      \* messages the side has sent and the other has not received
  caller,    \* where the client that placed the call stands
  asked,     \* requests of the call the callee has received
  calleeOver,\* the callee has ended the call
  sips,      \* SIP messages sent so far (to bound their number)
  \* History: written by the actions, read by the properties only.
  answered,  \* lines of the last 2xx to INVITE the caller has received
  released,  \* calls the side has erased from _callMap at least once
  freed      \* ports the side has closed at least once

env  == <<caller, asked, calleeOver, sips>>
vars == <<up, calls, onServer, portMap, wire, env, answered, released, freed>>

Connections == [port : Ports, peer : Ports \cup {NoPort}]
Vectors == {v \in Seq(Connections \cup {Hole}) : Len(v) <= MaxLines}
Messages ==
  [type : {"Setup"}, call : Calls, idx : 1 .. MaxLines, port : Ports]
    \cup [type : {"Request"}, call : Calls, method : Methods, lines : 0 .. MaxLines]
    \cup [type : {"Response"}, call : Calls, cseq : Methods, class : Classes,
          lines : 0 .. MaxLines]

ASSUME NullsAssumption ==
  /\ Hole \notin Connections
  /\ NoCall \notin Vectors
  /\ NoConn \notin Calls \X (1 .. MaxLines)

TypeOK ==
  /\ up \in [Sides -> BOOLEAN]
  /\ calls \in [Sides -> [Calls -> {NoCall} \cup Vectors]]
  /\ onServer \in SUBSET Calls
  /\ portMap \in [Sides -> [Ports -> (Calls \X (1 .. MaxLines)) \cup {NoConn}]]
  /\ wire \in [Sides -> Seq(Messages)]
  /\ caller \in [Calls -> {"idle", "active", "refused", "foreign", "over"}]
  /\ asked \in [Calls -> SUBSET Methods]
  /\ calleeOver \in [Calls -> BOOLEAN]
  /\ sips \in 0 .. MaxSip
  /\ answered \in [Calls -> 0 .. MaxLines]
  /\ released \in [Sides -> SUBSET Calls]
  /\ freed \in [Sides -> SUBSET Ports]

Init ==
  /\ up = [s \in Sides |-> TRUE]
  /\ calls = [s \in Sides |-> [k \in Calls |-> NoCall]]
  /\ onServer = {}
  /\ portMap = [s \in Sides |-> [p \in Ports |-> NoConn]]
  /\ wire = [s \in Sides |-> <<>>]
  /\ caller = [k \in Calls |-> "idle"]
  /\ asked = [k \in Calls |-> {}]
  /\ calleeOver = [k \in Calls |-> FALSE]
  /\ sips = 0
  /\ answered = [k \in Calls |-> 0]
  /\ released = [s \in Sides |-> {}]
  /\ freed = [s \in Sides |-> {}]

-----------------------------------------------------------------------------
(* The link. *)

\* Positions of s's messages that the other side may receive next.
Deliverable(s) == IF Ordered THEN DOMAIN wire[s] \cap {1} ELSE DOMAIN wire[s]

Without(q, i) == SubSeq(q, 1, i - 1) \o SubSeq(q, i + 1, Len(q))

\* s takes message i of the other side (none when i = 0) and sends msgs.
Exchange(s, i, msgs) ==
  wire' = [wire EXCEPT ![s] = @ \o msgs, ![Other(s)] = Without(@, i)]

Setup(k, i, p) == [type |-> "Setup", call |-> k, idx |-> i, port |-> p]
Request(k, m, n) == [type |-> "Request", call |-> k, method |-> m, lines |-> n]
Response(k, m, c, n) ==
  [type |-> "Response", call |-> k, cseq |-> m, class |-> c, lines |-> n]

-----------------------------------------------------------------------------
(* Connections of a call. *)

Vector(s, k) == IF calls[s][k] = NoCall THEN <<>> ELSE calls[s][k]

\* The connection of line i of call k on side s has local port p.
Has(s, k, i, p) ==
  LET v == Vector(s, k) IN i \in DOMAIN v /\ v[i] # Hole /\ v[i].port = p

InUse(s) == {p \in Ports : \E k \in Calls, i \in 1 .. MaxLines : Has(s, k, i, p)}

\* n different ports the operating system may give to s.
FreshPorts(s, n) ==
  {f \in [1 .. n -> Ports \ InUse(s)] :
     \A i, j \in 1 .. n : f[i] = f[j] => i = j}

Conn(p) == [port |-> p, peer |-> NoPort]
HasHole(v, n) == \E i \in DOMAIN v : i <= n /\ v[i] = Hole
SetVector(s, k, v) == calls' = [calls EXCEPT ![s][k] = v]

\* s's messages about call k get onto the link: SetupDataConn of the
\* server-mode link object (the calls own), never connected, reaches nobody.
Relays(s, k, own) == s = "near" \/ k \notin own

\* Mutants of Advertise: the lines are announced in reverse; each under the
\* index after its own.
AdvertiseReversed(k, n, v) ==
  [i \in 1 .. n |-> Setup(k, n + 1 - i, v[n + 1 - i].port)]
AdvertiseShifted(k, n, v) == [i \in 1 .. n |-> Setup(k, i + 1, v[i].port)]

\* SetupDataConn for the lines 1 .. n of call k.
Advertise(k, n, v) == [i \in 1 .. n |-> Setup(k, i, v[i].port)]

\* A mutant of InOrder: the SIP message goes first.
SipFirst(setups, sip) == sip \o setups

\* What one SIP message puts on the link: its ports, then the message.
InOrder(setups, sip) == setups \o sip

\* A mutant of Register: addDataPort does not register the connection.
RegisterNothing(s, k, is, v) == UNCHANGED portMap

\* registerDataPort for the connections of v at the indices is.
Register(s, k, is, v) ==
  portMap' = [portMap EXCEPT ![s] = [p \in Ports |->
                IF \E i \in is : v[i].port = p
                THEN <<k, CHOOSE i \in is : v[i].port = p>> ELSE @[p]]]

\* A mutant of Unregister: delDataPort closes the socket only.
UnregisterNothing(s, v) == UNCHANGED portMap

Unregister(s, v) ==
  portMap' = [portMap EXCEPT ![s] = [p \in Ports |->
                IF \E i \in DOMAIN v : v[i].port = p THEN NoConn ELSE @[p]]]

\* _callMap.erase and ~sipcall: close and unregister every connection.
Erase(s, k) ==
  /\ SetVector(s, k, NoCall)
  /\ onServer' = IF s = "far" THEN onServer \ {k} ELSE onServer
  /\ Unregister(s, Vector(s, k))
  /\ released' = [released EXCEPT
       ![s] = IF calls[s][k] = NoCall THEN @ ELSE @ \cup {k}]
  /\ freed' = [freed EXCEPT ![s] = @ \cup {Vector(s, k)[i].port :
                                             i \in DOMAIN Vector(s, k)}]
  /\ UNCHANGED up

\* A NULL element of _dataConnVec is dereferenced: the process dies with its
\* tables; msgs is what the handler has sent up to there.
Crash(s, i, msgs) ==
  /\ up' = [up EXCEPT ![s] = FALSE]
  /\ calls' = [calls EXCEPT ![s] = [k \in Calls |-> NoCall]]
  /\ onServer' = IF s = "far" THEN {} ELSE onServer
  /\ portMap' = [portMap EXCEPT ![s] = [p \in Ports |-> NoConn]]
  /\ released' = [released EXCEPT
       ![s] = @ \cup {k \in Calls : calls[s][k] # NoCall}]
  /\ freed' = [freed EXCEPT ![s] = @ \cup InUse(s)]
  /\ Exchange(s, i, msgs)

\* addDataPort for the lines 1 .. n: bind what is missing, announce all of
\* them on the link the call belongs to and register them.
AddDataPorts(s, k, n, i, sip) ==
  LET old == Vector(s, k)
      missing == IF n > Len(old) THEN n - Len(old) ELSE 0 IN
  \E f \in FreshPorts(s, missing) :
    LET v == old \o [j \in DOMAIN f |-> Conn(f[j])] IN
    /\ SetVector(s, k, v)
    /\ Register(s, k, 1 .. n, v)
    /\ Exchange(s, i,
         InOrder(IF Relays(s, k, onServer') THEN Advertise(k, n, v) ELSE <<>>, sip))
    /\ UNCHANGED <<up, released, freed>>

\* addDataPort up to the first NULL element of the lines 1 .. n.
AddDataPortsCrash(s, k, n, i) ==
  LET v == Vector(s, k) IN
  \E before \in 0 .. n - 1 :
    /\ ~HasHole(v, before) /\ HasHole(v, before + 1)
    /\ Crash(s, i, IF Relays(s, k, onServer) THEN Advertise(k, before, v) ELSE <<>>)

\* The call handling processIncoming and processOutgoing share, for a SIP
\* message of call k with n media lines: "ends" erases the call, "invites"
\* creates it; sip is what is sent on the link afterwards.  A sipcall that
\* a message of the local network creates belongs to the side's own link
\* object; on "far" SetupDataConn on that object writes to an SSL that was
\* never set up (TLS, DTLS: the process dies, or nothing is sent).
ProcessSip(s, k, ends, invites, n, i, sip) ==
  LET v == Vector(s, k)
      known == calls[s][k] # NoCall
      creates == ~known /\ invites
      own == IF s = "far" /\ i = 0 /\ creates THEN onServer \cup {k}
                                              ELSE onServer IN
  \/ /\ ends /\ HasHole(v, Len(v))
     /\ Crash(s, i, <<>>)
  \/ /\ ends /\ ~HasHole(v, Len(v))
     /\ Erase(s, k) /\ Exchange(s, i, sip)
  \/ /\ ~ends /\ known /\ HasHole(v, n)
     /\ AddDataPortsCrash(s, k, n, i)
  \/ /\ ~ends /\ (known \/ creates) /\ ~HasHole(v, n)
     /\ onServer' = own
     /\ AddDataPorts(s, k, n, i, sip)
  \/ /\ ~ends /\ (known \/ creates) /\ ~HasHole(v, n)
     /\ n > 0 /\ ~Relays(s, k, own)
     /\ Crash(s, i, <<>>)
  \/ /\ ~ends /\ ~known /\ ~invites
     /\ Exchange(s, i, sip)
     /\ UNCHANGED <<up, calls, onServer, portMap, released, freed>>

\* A response ends the call when it is no success and not for an INVITE.
EndsCall(m) == m.class # "success" /\ m.cseq # "INVITE"

-----------------------------------------------------------------------------
(* SIP messages from the local network. *)

CountSip == sips < MaxSip /\ sips' = sips + 1

\* The near SIP client sends a request: it places the call, repeats or
\* changes the INVITE, acknowledges, or hangs up.
NearRequest(k, method, n) ==
  /\ up["near"] /\ CountSip
  /\ \/ caller[k] = "idle" /\ method = "INVITE"
     \/ caller[k] = "active"
  /\ method = "BYE" => n = 0
  /\ caller' = [caller EXCEPT ![k] = IF method = "BYE" THEN "over" ELSE "active"]
  /\ ProcessSip("near", k, method = "BYE", method = "INVITE", n, 0,
                <<Request(k, method, n)>>)
  /\ UNCHANGED <<asked, calleeOver, answered>>

\* The callee answers a request it has received.
CalleeResponse(k, cseq, class, n) ==
  /\ up["far"] /\ CountSip
  /\ cseq \in asked[k]
  /\ cseq = "INVITE" => ~calleeOver[k]
  /\ cseq # "INVITE" \/ class = "failure" => n = 0
  /\ calleeOver' = [calleeOver EXCEPT
                      ![k] = @ \/ (cseq = "INVITE" /\ class = "failure")]
  /\ LET m == Response(k, cseq, class, n) IN
     ProcessSip("far", k, EndsCall(m), FALSE, n, 0, <<m>>)
  /\ UNCHANGED <<caller, asked, answered>>

\* The callee sends a request in the call, which is processed and not relayed.
CalleeRequest(k, method, n) ==
  /\ up["far"] /\ CountSip
  /\ "INVITE" \in asked[k] /\ ~calleeOver[k]
  /\ method = "BYE" => n = 0
  /\ calleeOver' = [calleeOver EXCEPT ![k] = method = "BYE"]
  /\ ProcessSip("far", k, method = "BYE", method = "INVITE", n, 0, <<>>)
  /\ UNCHANGED <<caller, asked, answered>>

\* A client on the far side places or ends a call of its own: its sipcall
\* belongs to the server's link object, nothing reaches the near side.
FarRequest(k, method, n) ==
  /\ up["far"] /\ CountSip
  /\ \/ caller[k] = "idle" /\ method = "INVITE"
     \/ caller[k] = "foreign"
  /\ method = "BYE" => n = 0
  /\ caller' = [caller EXCEPT ![k] = IF method = "BYE" THEN "over" ELSE "foreign"]
  /\ ProcessSip("far", k, method = "BYE", method = "INVITE", n, 0, <<>>)
  /\ UNCHANGED <<asked, calleeOver, answered>>

-----------------------------------------------------------------------------
(* Messages from the link. *)

\* onSetupData: the call is created if it is unknown, the vector grows to
\* the index, the elements below a new one stay NULL.
ReceiveSetup(s, i) ==
  LET m == wire[Other(s)][i]
      old == Vector(s, m.call)
      holes == [j \in 1 .. m.idx - 1 - Len(old) |-> Hole] IN
  /\ up[s] /\ m.type = "Setup"
  /\ \/ /\ m.idx \in DOMAIN old /\ old[m.idx] = Hole
        /\ Crash(s, i, <<>>)
     \/ /\ m.idx \in DOMAIN old /\ old[m.idx] # Hole
        /\ LET v == [old EXCEPT ![m.idx].peer = m.port] IN
           SetVector(s, m.call, v) /\ Register(s, m.call, {m.idx}, v)
        /\ Exchange(s, i, <<>>)
        /\ UNCHANGED <<up, onServer, released, freed>>
     \/ /\ m.idx \notin DOMAIN old
        /\ \E f \in FreshPorts(s, 1) :
             LET v == old \o holes \o <<[Conn(f[1]) EXCEPT !.peer = m.port]>> IN
             SetVector(s, m.call, v) /\ Register(s, m.call, {m.idx}, v)
        /\ Exchange(s, i, <<>>)
        /\ UNCHANGED <<up, onServer, released, freed>>
  /\ UNCHANGED <<env, answered>>

\* processOutgoing of a request: it goes on to the callee.
ReceiveRequest(i) ==
  LET m == wire["near"][i] IN
  /\ up["far"] /\ m.type = "Request"
  /\ asked' = [asked EXCEPT ![m.call] = @ \cup {m.method}]
  /\ calleeOver' = [calleeOver EXCEPT ![m.call] = @ \/ m.method = "BYE"]
  /\ ProcessSip("far", m.call, m.method = "BYE", m.method = "INVITE", m.lines,
                i, <<>>)
  /\ UNCHANGED <<caller, sips, answered>>

\* processOutgoing of a response: it goes on to the caller.
ReceiveResponse(i) ==
  LET m == wire["far"][i]
      refused == m.cseq = "INVITE" /\ m.class = "failure" IN
  /\ up["near"] /\ m.type = "Response"
  /\ caller' = [caller EXCEPT ![m.call] =
                  IF refused /\ @ = "active" THEN "refused" ELSE @]
  /\ answered' = [answered EXCEPT ![m.call] =
                    IF m.cseq = "INVITE" /\ m.class = "success"
                    THEN m.lines ELSE @]
  /\ ProcessSip("near", m.call, EndsCall(m), FALSE, m.lines, i, <<>>)
  /\ UNCHANGED <<asked, calleeOver, sips>>

\* A message is lost.
Lose(s, i) ==
  /\ ~Ordered
  /\ wire' = [wire EXCEPT ![s] = Without(@, i)]
  /\ UNCHANGED <<up, calls, onServer, portMap, env, answered, released, freed>>

Lines == 0 .. MaxLines

Next ==
  \/ \E k \in Calls, method \in Methods, n \in Lines :
       NearRequest(k, method, n) \/ CalleeRequest(k, method, n) \/ FarRequest(k, method, n)
  \/ \E k \in Calls, cseq \in Methods, class \in Classes, n \in Lines :
       CalleeResponse(k, cseq, class, n)
  \/ \E s \in Sides : \E i \in Deliverable(Other(s)) : ReceiveSetup(s, i)
  \/ \E i \in Deliverable("near") : ReceiveRequest(i)
  \/ \E i \in Deliverable("far") : ReceiveResponse(i)
  \/ \E s \in Sides : \E i \in DOMAIN wire[s] : Lose(s, i)

Spec == Init /\ [][Next]_vars

-----------------------------------------------------------------------------
(* Properties. *)

\* A port is in _dataPortMap exactly when it is the local port of a
\* connection of a call in _callMap, and then under that call and index:
\* media never reaches a connection of a call that was erased, and no
\* connection of a live call is unreachable (addDataPort, onSetupData,
\* ~sipcall).
PortMapMatchesCalls ==
  \A s \in Sides, p \in Ports, k \in Calls, i \in 1 .. MaxLines :
    portMap[s][p] = <<k, i>> <=> Has(s, k, i, p)

\* Media of one call and line goes to the same call and line on the other
\* side, unless the other side has closed the port since it announced it:
\* whatever the link loses or reorders (linkVpnPort, sendData,
\* onReceiveData).
NoCrossTalk ==
  \A s \in Sides, k \in Calls :
    calls[s][k] # NoCall =>
      \A i \in DOMAIN calls[s][k] :
        LET c == calls[s][k][i] IN
        c # Hole /\ c.peer # NoPort /\ c.peer \notin freed[Other(s)]
          => portMap[Other(s)][c.peer] = <<k, i>>

\* Over an ordered link the vector of a call has a NULL element only on a side
\* that has erased the call before: a SetupData of a later line then meets a
\* new vector (onSetupData, getDataLink, addDataPort).
NoHoles ==
  \A s \in Sides, k \in Calls :
    k \notin released[s] /\ calls[s][k] # NoCall
      => \A i \in DOMAIN calls[s][k] : calls[s][k][i] # Hole

\* Over an ordered link a process dies only of a NULL element in the vector of
\* a call it has erased before, or, on the far side, of media lines of a call
\* whose ports are announced on the link object without an SSL: one a client
\* there has placed, or one the callee asks about after it was erased
\* (getDataLink, addDataPort, ~sipcall, SetupDataConn).
DiesOfErasedOrOwnCall ==
  [][\A s \in Sides : up[s] /\ ~up'[s] =>
       \E k \in Calls :
         \/ k \in released[s] /\ HasHole(Vector(s, k), MaxLines)
         \/ s = "far" /\ (caller'[k] = "foreign" \/ k \in released["far"])]_vars

Announcing(s, k, i) ==
  \E j \in DOMAIN wire[s] :
    wire[s][j].type = "Setup" /\ wire[s][j].call = k /\ wire[s][j].idx = i

\* Over an ordered link, as long as neither side has erased the call: when
\* the caller has heard a 2xx, the media of every line it describes can flow
\* both ways.  The near end of the line holds the far end's local port, and
\* the far end holds the near one's or is about to be told (SetupDataConn
\* goes out before the SIP message whose SDP caused it).
AnsweredLinesLinked ==
  \A k \in Calls :
    k \notin released["near"] \cup released["far"] /\ caller[k] # "foreign" =>
      \A i \in 1 .. answered[k] :
        /\ i \in DOMAIN Vector("near", k) \cap DOMAIN Vector("far", k)
        /\ calls["near"][k][i].peer = calls["far"][k][i].port
        /\ \/ Announcing("near", k, i)
           \/ calls["far"][k][i].peer = calls["near"][k][i].port

\* What "check if we have failure on INVITE" says: the failure response that
\* refuses an INVITE ends the call at the tunnel.  The comparison is
\* inverted: the call and its ports stay.
RefusedCallIsErased ==
  [][\A k \in Calls :
       caller[k] = "active" /\ caller'[k] = "refused"
         => calls'["near"][k] = NoCall]_vars
=============================================================================
