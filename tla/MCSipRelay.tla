----------------------------- MODULE MCSipRelay -----------------------------
(***************************************************************************)
(* SipRelay for TLC: requests that differ in their header lines, requests  *)
(* that differ in their SDP body, and the answers of a SIP server.         *)
(***************************************************************************)
EXTENDS SipRelay

Invite == <<"I", "N", "V", "I", "T", "E", " ">>
Bye == <<"B", "Y", "E", " ">>
Ack == <<"A", "C", "K", " ">>
Options == <<"O", "P", "T", "I", "O", "N", "S", " ">>
Info == <<"I", "N", "F", "O", " ">>
Refer == <<"R", "E", "F", "E", "R", " ">>
Code(a, b, c) == <<"S", "I", "P", " ", a, b, c, " ">>

V == Line("v", NoAddr, 0)
C(addr) == Line("c", addr, 0)
M(port) == Line("m", NoAddr, port)
Offer == <<V, C("a"), M(1), Line("a", NoAddr, 0)>>

Request0 ==
  [start |-> Invite, vias |-> <<ClientVia>>,
   to |-> [form |-> "sip", host |-> "own", tag |-> FALSE],
   hops |-> MaxHops, type |-> "sdp", length |-> Length(Offer), callId |-> TRUE,
   cseq |-> "none", body |-> Offer]

\* Start lines and what decides whether a request passes.
StartCases ==
  {[Request0 EXCEPT !.start = start, !.hops = hops, !.length = length, !.callId = callId] :
     start \in {Invite, Bye, Ack, Options, Info, Refer}, hops \in {None, 0, 1, MaxHops},
     length \in {Length(Offer), 3, None}, callId \in BOOLEAN}

\* The lines that route a request and its response.
RouteCases ==
  {[Request0 EXCEPT !.vias = vias, !.to = [form |-> form, host |-> host, tag |-> tag]] :
     vias \in {<<>>, <<ClientVia>>, <<ProxyVia, ClientVia>>},
     form \in {"sip", "nouser", "loose", "gone"}, host \in {"own", "other", "odd", "none"},
     tag \in BOOLEAN}

Empty == [Request0 EXCEPT !.start = <<>>, !.vias = <<>>, !.hops = None,
                          !.to = [form |-> "gone", host |-> "none", tag |-> FALSE],
                          !.type = "none", !.length = None, !.callId = FALSE,
                          !.body = <<>>]

\* Offers of up to four lines behind v=0, and some that do not begin with it;
\* the last line may lack its end.
SomeLines == {C("a"), C("b"), Line("c?", NoAddr, 0), M(1), M(0), Line("m/", NoAddr, 2)}
FewLines == SomeLines \ {Line("c?", NoAddr, 0), M(0)}
Offers == {<<V>> \o s : s \in SeqOf(SomeLines, 3) \cup TupleOf(FewLines, 4)}
            \cup SeqOf(SomeLines, 2)
Cut(body) == IF body = <<>> THEN body ELSE [body EXCEPT ![Len(body)].end = FALSE]
BodyCases ==
  {[Request0 EXCEPT !.body = body, !.length = Length(body)] :
     body \in Offers \cup {Cut(body) : body \in Offers}}

MCRequests == StartCases \cup RouteCases \cup BodyCases \cup {Empty}

Answers == {<<>>, Offer, <<V, C("a"), M(3), C("b"), M(0)>>, <<V, M(3), C("b")>>,
            <<V, M(3), C("a"), Line("m/", NoAddr, 2), C("b"), M(4), C("a")>>}
MCReplies ==
  {[start |-> start, type |-> IF body = <<>> THEN "none" ELSE "sdp", body |-> body] :
     start \in {Code("1", "8", "0"), Code("2", "0", "0"), Code("4", "0", "4"),
                Code("1", "0", "0")},
     body \in Answers}

\* All of them are start lines SIP knows.
ASSUME StartsAreProper == ProperStarts
=============================================================================
