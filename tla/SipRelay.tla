------------------------------ MODULE SipRelay ------------------------------
(***************************************************************************)
(* The way of one SIP request and of its response through a tunnel.  A     *)
(* client behind the near tunnel sends the request; the near sipserver     *)
(* relays it (processIncoming), the far one hands it to the SIP server     *)
(* (processOutgoing), the SIP server answers, and the same two functions   *)
(* take the response back.  What they do to the header lines and to an SDP *)
(* body is modelled here; SipEndpoints has the channels and SipCalls the   *)
(* calls when many messages are under way.                                 *)
(*                                                                         *)
(* A header line that the code does not know (another name, a compact or   *)
(* lower-case form) is copied as it is: such lines are left out, and a     *)
(* message with a compact Via is one without vias here.                    *)
(***************************************************************************)
EXTENDS SipMessage, Sdp, Integers

CONSTANTS
  Channels,  \* of the endpoints of the near tunnel
  Requests,  \* what the client may send
  Replies    \* what the SIP server may answer: start line, type, body

\* The fields of a message: its start line; the Via lines; the To line;
\* Max-Forwards, 0 to MaxHops, or None; Content-Type; Content-Length, or None;
\* whether there is a Call-ID; the body.  Forms of a To line:
\*   "sip"     To: <sip:user@host>, with one blank and nothing else before <
\*   "nouser"  To: <sip:host>, written the same way
\*   "loose"   any other: a display name, other spacing, no <>
\*   "gone"    there is none, or the tunnel has dropped it
\* and what stands behind the @ (or behind sip:):
\*   "own"     the address of the near tunnel
\*   "other"   another name or address, which the far tunnel can resolve, as it
\*             can "default", the name of the configured SIP server
\*   "odd"     what it cannot: an unknown name, or a host (the near tunnel's
\*             too) with a port or with URI parameters
\*   "none"    nothing
None == -1
MaxHops == 70

Sides == {"near", "far"}
ClientVia == [by |-> "client", ch |-> 0]
ProxyVia == [by |-> "proxy", ch |-> 0]
TunnelVia(c) == [by |-> "tunnel", ch |-> c]
Tos == [form : {"sip", "nouser", "loose", "gone"}, host : {"own", "other", "odd", "none"},
        tag : BOOLEAN]

ASSUME RelayAssumption ==
  /\ Sides \subseteq Addrs  \* the tunnels' own addresses
  /\ Requests \subseteq
       [start : Seq(STRING), vias : Seq({ClientVia, ProxyVia}), to : Tos,
        hops : (0 .. MaxHops) \cup {None}, type : STRING, length : Nat \cup {None}, callId : BOOLEAN,
        cseq : STRING, body : Bodies]
  /\ Replies \subseteq [start : Seq(STRING), type : STRING, body : Bodies]

VARIABLES
  at,        \* where the message is
  sent,      \* the request as the client sent it
  msg,       \* the request or response on its way
  from,      \* the channel of the client's endpoint in the near tunnel
  ch,        \* the channel the link carries with msg
  target,    \* the host the far tunnel sends the request to
  known,     \* side -> the call is in its _callMap
  media,     \* side -> media lines its processIncomingSDP registered
  heard,     \* the replies of the near tunnel itself
  answer     \* history: the response as the SIP server sent it

vars == <<at, sent, msg, from, ch, target, known, media, heard, answer>>

Places == {"client", "toFar", "server", "answered", "toNear", "delivered",
           "rejected", "dropped", "astray", "dead"}

\* The local ports of the far and near connections, by media index.
PortsOf(side) == [i \in Nat |-> IF side = "near" THEN 100 + i ELSE 200 + i]

LengthLine == <<"C", "o", "n", "t", "e", "n", "t", Space, "0">>
StartLines == {m.start : m \in Requests \cup Replies} \cup {LengthLine}
ParsedStart == [start \in StartLines |-> Parse(start)]
Parsed(m) == ParsedStart[m.start]

TypeOK ==
  /\ at \in Places
  /\ ToSet(msg.vias) \subseteq {ClientVia, ProxyVia} \cup {TunnelVia(c) : c \in Channels}
  /\ msg.hops \in (0 .. MaxHops) \cup {None}
  /\ from \in Channels /\ ch \in Channels
  /\ target \in {"default", "other", "none"}
  /\ known \in [Sides -> BOOLEAN]
  /\ \A s \in Sides : \A line \in ToSet(media[s]) : line.port \in Nat
  /\ heard \in SUBSET {"trying", "tooManyHops"}

\* A call is known on both sides or on none: it is a first request, or one
\* within the call.
Init ==
  /\ at = "client"
  /\ sent \in Requests /\ msg = sent
  /\ from \in Channels /\ ch = from
  /\ target = "none"
  /\ \E k \in BOOLEAN : known = [s \in Sides |-> k]
  /\ media = [s \in Sides |-> <<>>]
  /\ heard = {}
  /\ answer = sent

-----------------------------------------------------------------------------
(* What the two handlers share. *)

\* The header lines are read and the length they state is the length found.
LengthFits(m) == Length(m.body) = (IF m.length = None THEN 0 ELSE m.length)

\* The side knows the call after message m, which is about method.
KnownAfter(side, m) ==
  LET start == Parsed(m)
      ends == \/ start.method \in {"CANCEL", "BYE"}
              \/ ~start.request /\ start.class # "success" /\ m.cseq # "INVITE" IN
  IF m.callId THEN ~ends /\ (known[side] \/ start.method = "INVITE") ELSE known[side]

\* The handler has a call to give an SDP body to.
HasSdp(side, m) == m.callId /\ KnownAfter(side, m) /\ m.type = "sdp"

Call(side, m) == known' = [known EXCEPT ![side] = KnownAfter(side, m)]

\* Content-Length is written anew for the body that goes out.
WithBody(m, body) == [m EXCEPT !.body = body, !.length = Length(body)]

-----------------------------------------------------------------------------
(* processIncoming. *)

\* processIncomingSDP registers where the local party wants its media.
Register(side, m) ==
  media' = [media EXCEPT ![side] = IF HasSdp(side, m) THEN Incoming(m.body) ELSE @]

\* A mutant of Blank: the host stays.
BlankNothing(to) == IF to.form = "loose" THEN [to EXCEPT !.form = "gone"] ELSE to

\* A To line with the tunnel's own address loses the host, and its tag; one
\* the expression does not match is dropped.
Blank(to) ==
  CASE to.form = "sip" /\ to.host = "own" -> [to EXCEPT !.host = "none", !.tag = FALSE]
    [] to.form = "loose" -> [to EXCEPT !.form = "gone"]
    [] OTHER -> to

\* A mutant of Fewer: a request without Max-Forwards is counted too.
FewerAlways(hops) == hops - 1

Fewer(hops) == IF hops = None THEN None ELSE hops - 1

\* An empty datagram passes for a request; what goes out begins with the
\* Content-Length line.  (A datagram that begins with a line feed, the other
\* one whose start line is empty, is left out.)
FirstLine(start) == IF start = <<>> THEN LengthLine ELSE start

\* A request of the client: rejected, dropped or relayed.
IncomingRequest ==
  /\ at = "client"
  /\ LET start == Parsed(msg) IN
     \/ /\ ~start.request
        /\ at' = "dropped"
        /\ UNCHANGED <<msg, known, media, heard>>
     \/ /\ start.request /\ msg.hops = 0
        /\ at' = "rejected" /\ heard' = {"tooManyHops"}
        /\ UNCHANGED <<msg, known, media>>
     \/ /\ start.request /\ msg.hops # 0 /\ ~LengthFits(msg)
        /\ at' = "dropped"
        /\ UNCHANGED <<msg, known, media, heard>>
     \/ /\ start.request /\ msg.hops # 0 /\ LengthFits(msg)
        /\ at' = "toFar"
        /\ Call("near", msg) /\ Register("near", msg)
        /\ heard' = {"trying"}
        /\ msg' = WithBody([msg EXCEPT !.start = FirstLine(@), !.to = Blank(@),
                                        !.hops = Fewer(@)], msg.body)
  /\ UNCHANGED <<sent, from, ch, target, answer>>

\* The response of the SIP server: its first Via names the channel.
IncomingResponse ==
  /\ at = "answered"
  /\ LET start == Parsed(msg)
         mine == msg.vias # <<>> /\ msg.vias[1].by = "tunnel" IN
     \/ /\ ~start.valid \/ start.class = "trying" \/ ~LengthFits(msg)
        /\ at' = "dropped"
        /\ UNCHANGED <<msg, ch, known, media>>
     \/ /\ start.valid /\ start.class # "trying" /\ LengthFits(msg)
        /\ Call("far", msg) /\ Register("far", msg)
        /\ msg' = WithBody([msg EXCEPT !.vias = IF @ = <<>> THEN @ ELSE Tail(@)], msg.body)
        /\ \/ mine /\ at' = "toNear" /\ ch' = msg.vias[1].ch
           \/ ~mine /\ at' = "dropped" /\ UNCHANGED ch
  /\ UNCHANGED <<sent, from, target, heard, answer>>

-----------------------------------------------------------------------------
(* processOutgoing. *)

\* A mutant of Push: the line carries the far tunnel's own channel.
PushLocalChannel(vias, c) ==
  [i \in 1 .. 2 * Len(vias) |-> IF i % 2 = 1 THEN TunnelVia(0) ELSE vias[i \div 2]]

\* A Via line of the tunnel is added before every Via line.
Push(vias, c) ==
  [i \in 1 .. 2 * Len(vias) |-> IF i % 2 = 1 THEN TunnelVia(c) ELSE vias[i \div 2]]

\* A host that was blanked becomes the configured server; the line is written
\* anew, without its tag.
Fill(to) ==
  CASE to.form = "sip" /\ to.host = "none" -> [to EXCEPT !.host = "default", !.tag = FALSE]
    [] to.form = "sip" /\ to.host # "none" -> [to EXCEPT !.tag = FALSE]
    [] OTHER -> to

OutgoingBody(side, m) ==
  IF HasSdp(side, m) THEN Outgoing(m.body, side, PortsOf(side)) ELSE m.body

\* What the request is sent to.  Without a user part the whole URI is taken for
\* the host.  A host that is not resolved is not connected, and the process
\* dies of the missing endpoint.  Without a To line the host is the empty name,
\* which is the local host.
Reached(to) ==
  CASE to.form = "gone" -> "astray"
    [] to.form = "nouser" \/ (to.form = "sip" /\ to.host = "odd") -> "dead"
    [] OTHER -> "server"

\* The request goes to the host of its To line.
OutgoingRequest ==
  /\ at = "toFar"
  /\ LET start == Parsed(msg)
         to == Fill(msg.to) IN
     \/ /\ ~start.valid \/ ~LengthFits(msg)
        /\ at' = "dropped"
        /\ UNCHANGED <<msg, target, known>>
     \/ /\ start.valid /\ LengthFits(msg)
        /\ Call("far", msg)
        /\ at' = Reached(to)
        /\ target' = IF Reached(to) = "server" THEN to.host ELSE "none"
        /\ msg' = WithBody([msg EXCEPT !.to = to, !.vias = Push(@, ch)],
                           OutgoingBody("far", msg))
  /\ UNCHANGED <<sent, from, ch, media, heard, answer>>

\* The client's endpoint is still there: SipEndpoints has the case that it is
\* not.  A message the checks refuse is dropped as anywhere else.
OutgoingResponse ==
  /\ at = "toNear"
  /\ LET passes == Parsed(msg).valid /\ LengthFits(msg) IN
     /\ at' = IF passes THEN "delivered" ELSE "dropped"
     /\ known' = [known EXCEPT !["near"] = IF passes THEN KnownAfter("near", msg) ELSE @]
     /\ msg' = IF passes THEN WithBody(msg, OutgoingBody("near", msg)) ELSE msg
  /\ UNCHANGED <<sent, from, ch, target, media, heard, answer>>

-----------------------------------------------------------------------------
(* The SIP server: it answers what it takes for a request of its own, with   *)
(* the Via lines and the Call-ID of the request.                            *)

Answer(reply) ==
  /\ at = "server"
  /\ Parsed(msg).method # "ACK"
  /\ at' = "answered"
  /\ msg' = [msg EXCEPT !.start = reply.start, !.cseq = Parsed(msg).method,
                        !.type = reply.type, !.body = reply.body,
                        !.length = IF reply.body = <<>> THEN None ELSE Length(reply.body)]
  /\ answer' = msg'
  /\ UNCHANGED <<sent, from, ch, target, known, media, heard>>

Next ==
  \/ IncomingRequest \/ OutgoingRequest
  \/ \E reply \in Replies : Answer(reply)
  \/ IncomingResponse \/ OutgoingResponse

Spec == Init /\ [][Next]_vars

-----------------------------------------------------------------------------
(* Properties. *)

\* A response comes back to the endpoint its request came from, and with the
\* Via lines of the request when that had one.  With more of them it does not:
\* the far tunnel adds its line before every Via line and takes only the first
\* off (processOutgoing, processIncoming).
ReturnsToSender ==
  at = "delivered" =>
    /\ ch = from
    /\ Len(sent.vias) = 1 => msg.vias = sent.vias

\* The media lines of body b that are wanted at side's ports.
AtPortsOf(side, b) ==
  [n \in 1 .. MediaLines(b) |-> [addr |-> side, port |-> PortsOf(side)[n]]]

\* A well-formed SDP body, offer or answer, in a call both tunnels know: the
\* tunnel it enters wants each line's media where the body says, the tunnel it
\* leaves puts its own port for the same line, and the length it states is the
\* length of what it sends (processIncomingSDP, processOutgoingSDP).
MediaAgrees ==
  known["near"] /\ known["far"] =>
    /\ at = "server" /\ sent.callId /\ sent.type = "sdp" /\ WellFormed(sent.body) =>
         /\ media["near"] = MediaOf(sent.body)
         /\ MediaOf(msg.body) = AtPortsOf("far", sent.body)
         /\ msg.length = Length(msg.body)
    /\ at = "delivered" /\ answer.callId /\ answer.type = "sdp" /\ WellFormed(answer.body) =>
         /\ media["far"] = MediaOf(answer.body)
         /\ MediaOf(msg.body) = AtPortsOf("near", answer.body)
         /\ msg.length = Length(msg.body)

HasMethod(m) == \E r \in DOMAIN Table : IsPrefix(Table[r] \o <<Space>>, m.start)

\* Another start line: a method of the table is nowhere in its first word.
IsForeign(text) ==
  \E blank \in DOMAIN text :
    /\ text[blank] = Space
    /\ \A r \in DOMAIN Table : \A p \in 0 .. blank - 1 :
         p + Len(Table[r]) < blank => SubSeq(text, p + 1, p + Len(Table[r])) # Table[r]

\* A status line: SIP, a blank, a code of digits, a blank.
IsStatus(text) ==
  /\ text # <<>> /\ text[1] = "S"
  /\ \E first, last \in DOMAIN text :
       /\ first < last /\ last <= first + 4 /\ text[first] = Space /\ text[last] = Space
       /\ \A i \in 1 .. first - 1 : text[i] # Space
       /\ \A i \in first + 1 .. last - 1 : text[i] \in Digits

\* The start lines SIP knows, or none.  A text the parser takes for a request
\* although it holds no method, "RINVITE" or an "INV" with nothing behind it, is
\* not among them.
ProperStarts ==
  /\ \A m \in Requests : HasMethod(m) \/ m.start = <<>> \/ IsForeign(m.start)
  /\ \A m \in Replies : IsStatus(m.start)

\* What gets onto the link is a request with one of the six methods, or an
\* empty datagram; and such a request is not dropped on its way if its body has
\* the stated length, nor is its response, unless it is the server's 100 Trying
\* or the request had no Via line to return by (parse, processIncoming).
ProperMessagesPass ==
  /\ at \notin {"client", "dropped", "rejected"} => HasMethod(sent) \/ sent.start = <<>>
  /\ at = "dropped" /\ HasMethod(sent) /\ LengthFits(sent) /\ sent.vias # <<>> =>
       answer # sent /\ Parsed(answer).class = "trying"

\* The To line has the one form the expressions of both tunnels match.
Readable(to) == to.form \in {"sip", "nouser"}

\* A host the far tunnel can connect to is behind its @.
NamesHost(to) == to.form = "sip" /\ to.host # "odd"

\* Where a request ends that leaves the far tunnel.  It gets to a SIP server
\* only if its To line has the form <sip:user@host> with a host to connect to,
\* and then to the one it means: the configured server if it names the near
\* tunnel's own address or no host, the host it names if not.  Only a request
\* whose To line neither expression matches, or that has none, is sent to the
\* local host; only one whose URI has no user, or no host that resolves, kills
\* the far tunnel (processIncoming, processOutgoing).
RequestReachesItsTarget ==
  /\ at \in {"server", "answered", "toNear", "delivered"} =>
       /\ NamesHost(sent.to)
       /\ target = IF sent.to.host \in {"own", "none"} THEN "default" ELSE sent.to.host
  /\ at = "astray" => ~Readable(sent.to)
  /\ at = "dead" => Readable(sent.to) /\ ~NamesHost(sent.to)
=============================================================================
