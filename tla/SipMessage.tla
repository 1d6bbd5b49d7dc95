----------------------------- MODULE SipMessage -----------------------------
(***************************************************************************)
(* sipmessage::parse: what the start line of a SIP message says.  A start  *)
(* line is the sequence of characters before the first line feed, or       *)
(* before the end of the datagram; the carriage return of a CR LF belongs  *)
(* to it, so "INV" is the beginning of a method only if a bare line feed   *)
(* or nothing follows.  The parser walks down the table of methods and     *)
(* never goes back in the text: when a character does not match, it is     *)
(* compared with the first character of the methods further down.  A line  *)
(* that matches none is taken for the start of a response, which must      *)
(* carry a code of digits.                                                 *)
(***************************************************************************)
EXTENDS Naturals, Sequences, SequencesExt

\* _methodArray.
Table == <<
  <<"R", "E", "G", "I", "S", "T", "E", "R">>,
  <<"I", "N", "V", "I", "T", "E">>,
  <<"A", "C", "K">>,
  <<"C", "A", "N", "C", "E", "L">>,
  <<"B", "Y", "E">>,
  <<"O", "P", "T", "I", "O", "N", "S">> >>

Names == <<"REGISTER", "INVITE", "ACK", "CANCEL", "BYE", "OPTIONS">>

Space == " "
Digits == {"0", "1", "2", "3", "4", "5", "6", "7", "8", "9"}

\* A mutant of Advance: what does not match is not compared with the methods
\* further down.
AdvanceSkipping(search, char) ==
  LET row == search.row
      at == search.at IN
  CASE row \notin DOMAIN Table -> search
    [] row \in DOMAIN Table /\ at = Len(Table[row]) -> search
    [] row \in DOMAIN Table /\ at < Len(Table[row]) /\ Table[row][at + 1] = char
         -> [search EXCEPT !.at = at + 1, !.read = @ + 1]
    [] OTHER -> [search EXCEPT !.row = row + 1, !.at = 0]

\* One character of the search: the rows of the table from "row" on are left,
\* "at" characters of that row have matched; "at" is kept once the row has
\* matched to its end, and row Len(Table) + 1 is eUNKNOWN.
Advance(search, char) ==
  LET row == search.row
      at == search.at
      first == {r \in DOMAIN Table : r > row /\ Table[r][1] = char} IN
  CASE row \notin DOMAIN Table -> search
    [] row \in DOMAIN Table /\ at = Len(Table[row]) -> search
    [] row \in DOMAIN Table /\ at < Len(Table[row]) /\ Table[row][at + 1] = char
         -> [search EXCEPT !.at = at + 1, !.read = @ + 1]
    [] OTHER
         -> IF first = {} THEN [search EXCEPT !.row = Len(Table) + 1]
            ELSE [row |-> CHOOSE r \in first : \A o \in first : r <= o,
                  at |-> 1, read |-> search.read + 1]

\* The search after so many characters.
SearchOver(text) ==
  LET search[n \in 0 .. Len(text)] ==
        IF n = 0 THEN [row |-> 1, at |-> 0, read |-> 0] ELSE Advance(search[n - 1], text[n])
  IN search

Search(text) == SearchOver(text)[Len(text)]

NextBlank(text, from) == SelectInSubSeq(text, from, Len(text), LAMBDA c : c = Space)

\* The word between the first two blanks of what the search has left.
CodeOf(text, read) ==
  LET from == NextBlank(text, read + 1)
      to == NextBlank(text, from + 1) IN
  IF from = 0 \/ to = 0 THEN <<"none">> ELSE SubSeq(text, from + 1, to - 1)

Invalid == [valid |-> FALSE, request |-> FALSE, method |-> "none", class |-> "none"]

Request(method) ==
  [valid |-> TRUE, request |-> TRUE, method |-> method, class |-> "none"]

\* isSuccess looks at the first digit, compareCode("100") at all three; the
\* digits a short code lacks are zeros.
Response(code) ==
  LET first == IF code = <<>> THEN "0" ELSE code[1] IN
  [valid |-> TRUE, request |-> FALSE, method |-> "none",
   class |-> CASE first = "1" /\ ToSet(Tail(code)) \subseteq {"0"} -> "trying"
               [] first = "2" -> "success"
               [] OTHER -> "other"]

Parse(text) ==
  LET search == Search(text)
      code == CodeOf(text, search.read) IN
  CASE search.row \in DOMAIN Table -> Request(Names[search.row])
    [] search.row \notin DOMAIN Table /\ Len(code) <= 3 /\ ToSet(code) \subseteq Digits
         -> Response(code)
    [] OTHER -> Invalid
=============================================================================
