-------------------------------- MODULE Sdp --------------------------------
(***************************************************************************)
(* What sipcall does with an SDP body.  processIncomingSDP reads where the *)
(* local party wants its media; processOutgoingSDP puts the address and    *)
(* the ports of the tunnel in.  MediaOf is what SDP means by a body, the   *)
(* definition processIncomingSDP is measured by.                           *)
(*                                                                         *)
(* A body is a sequence of lines.  A line has a kind: "v" (v=0), "c" with  *)
(* an address, "c?" (a c= line without one), "m" with a port, "m/" (an m=  *)
(* line whose port is not a plain number, as in "m=audio 8000/2 RTP/AVP    *)
(* 0"), "a" (any other).  Only its last line may lack its line end.        *)
(***************************************************************************)
EXTENDS Naturals, Sequences, FiniteSets, SequencesExt

CONSTANTS
  Addrs,    \* the address strings a c= line may carry
  NoAddr    \* the empty one

ASSUME NoAddrAssumption == NoAddr \in Addrs

Line(kind, addr, port) == [kind |-> kind, addr |-> addr, port |-> port, end |-> TRUE]
Nothing == Line("none", NoAddr, 0)

Lines == [kind : {"v", "c", "c?", "m", "m/", "a"}, addr : Addrs, port : Nat, end : BOOLEAN]
Bodies == {body \in Seq(Lines) : \A i \in 1 .. Len(body) - 1 : body[i].end}

\* The lines of a body that have their end; the others are not read.
Whole(body) ==
  IF body # <<>> /\ ~body[Len(body)].end THEN SubSeq(body, 1, Len(body) - 1) ELSE body

IsM(line) == line.kind \in {"m", "m/"}
IsC(line) == line.kind \in {"c", "c?"}

\* Bytes, if the text of a line and its line end count one each.
Length(body) == Cardinality(DOMAIN body) + Cardinality({i \in DOMAIN body : body[i].end})

-----------------------------------------------------------------------------
(* processIncomingSDP. *)

\* The variables of the loop, and the lines addDataPort was called for.
Start == [checking |-> TRUE, default |-> NoAddr, cline |-> Nothing,
          mline |-> Nothing, media |-> <<>>]

\* A mutant of Flush: the address of a line is kept for the next one.
FlushKeepingAddress(loop) ==
  LET line == [addr |-> IF loop.cline = Nothing THEN loop.default ELSE loop.cline.addr,
               port |-> loop.mline.port] IN
  IF loop.mline.kind = "m" /\ loop.cline.kind \in {"none", "c"}
  THEN [loop EXCEPT !.checking = FALSE, !.media = Append(@, line)]
  ELSE loop

\* The m= line read before is complete: processMLine, processCLine, addDataPort.
Flush(loop) ==
  LET line == [addr |-> IF loop.cline = Nothing THEN loop.default ELSE loop.cline.addr,
               port |-> loop.mline.port]
      added == loop.mline.kind = "m" /\ loop.cline.kind \in {"none", "c"} IN
  [loop EXCEPT !.checking = @ /\ ~added,
               !.media = IF added THEN Append(@, line) ELSE @,
               !.cline = IF loop.mline = Nothing THEN @ ELSE Nothing]

Read(loop, line) ==
  CASE line.kind = "c" /\ loop.checking
         -> [loop EXCEPT !.checking = FALSE, !.default = line.addr]
    [] IsC(line) /\ ~loop.checking -> [loop EXCEPT !.cline = line]
    [] IsM(line) -> [Flush(loop) EXCEPT !.mline = line]
    [] OTHER -> loop

\* The loop after so many lines.
LoopOver(lines) ==
  LET loop[n \in 0 .. Len(lines)] == IF n = 0 THEN Start ELSE Read(loop[n - 1], lines[n])
  IN loop

\* Where the media of the body is wanted, by media index.  A body that does
\* not begin with v=0 is not read, a last line without an end neither.
Incoming(body) ==
  LET lines == Whole(body) IN
  IF lines = <<>> \/ lines[1].kind # "v" THEN <<>>
  ELSE Flush(LoopOver(lines)[Len(lines)]).media

-----------------------------------------------------------------------------
(* processOutgoingSDP. *)

\* The media index of line i: the m= lines are counted, plain or not.
MediaIndex(body, i) == Cardinality({j \in 1 .. i : IsM(body[j])})

\* The body with own address and ports.  An m= line whose port is not plain is
\* copied as it is, without its line end: the line behind it is glued to it.
Outgoing(body, own, ports) ==
  LET lines == Whole(body) IN
  [i \in DOMAIN lines |->
     CASE lines[i].kind = "m" -> [lines[i] EXCEPT !.port = ports[MediaIndex(lines, i)]]
       [] lines[i].kind = "m/" -> [lines[i] EXCEPT !.end = FALSE]
       [] IsC(lines[i]) -> Line("c", own, 0)
       [] OTHER -> lines[i]]

-----------------------------------------------------------------------------
(* What SDP means. *)

\* The section of line i: 0 for the session, then one for each m= line.
Section(body, i) == Cardinality({j \in 1 .. i : IsM(body[j])})
MediaLines(body) == Section(body, Len(body))

\* The body starts with v=0, every line is complete, every m= and c= line is
\* plain, a section has one c= line at most, and one applies to every m= line.
WellFormed(body) ==
  /\ body # <<>> /\ body[1].kind = "v"
  /\ \A i \in DOMAIN body : body[i].end /\ body[i].kind \notin {"m/", "c?"}
  /\ \A i, j \in DOMAIN body :
       IsC(body[i]) /\ IsC(body[j]) /\ Section(body, i) = Section(body, j) => i = j
  /\ \A n \in 1 .. MediaLines(body) :
       \E i \in DOMAIN body : IsC(body[i]) /\ Section(body, i) \in {0, n}

\* The lines of a well-formed body: the c= line of the section itself, or else
\* the one of the session.
MediaOf(body) ==
  LET Clines(n) == {i \in DOMAIN body : IsC(body[i]) /\ Section(body, i) = n} IN
  [n \in 1 .. MediaLines(body) |->
     LET own == IF Clines(n) # {} THEN Clines(n) ELSE Clines(0)
         m == CHOOSE i \in DOMAIN body : IsM(body[i]) /\ Section(body, i) = n IN
     [addr |-> body[CHOOSE i \in own : TRUE].addr, port |-> body[m].port]]
=============================================================================
