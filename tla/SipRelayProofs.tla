---------------------------- MODULE SipRelayProofs ----------------------------
(***************************************************************************)
(* Proofs about SipRelay, about the SDP functions of Sdp and about the     *)
(* parser of SipMessage, for requests and replies with start lines and     *)
(* bodies of any length: what processIncomingSDP makes of a well-formed    *)
(* body is what SDP means by it, what processOutgoingSDP makes of one is   *)
(* at the tunnel's own address and ports, both tunnels agree on the media, *)
(* a request reaches its target and its response the endpoint it came      *)
(* from; parse finds every method of its table, and with start lines that  *)
(* SIP knows nothing else gets onto the link and nothing is lost on it.    *)
(*                                                                         *)
(* The loops over lines and over characters are followed by induction.     *)
(* The set of the numbers for which a fact fails has a least element if it *)
(* has one at all (WFMin), so a fact that is a set of numbers needs no     *)
(* operator argument.                                                      *)
(***************************************************************************)
EXTENDS SipRelay, FiniteSetTheorems, SequenceTheorems, WellFoundedInduction, TLAPS

-----------------------------------------------------------------------------
(* Induction. *)

\* Numbers are in a linear order.
LEMMA NotLess == \A n, m \in Nat : ~(n < m) => m <= n
OBVIOUS

\* A set of numbers that is not empty has a least one.
LEMMA LeastNat ==
  ASSUME NEW T \in SUBSET Nat, T # {}
  PROVE  \E x \in T : \A y \in T : x <= y
<1>1. PICK x \in T : \A y \in T : ~ (<<y, x>> \in OpToRel(<, Nat))
  BY NatLessThanWellFounded, WFMin
<1>2. \A y \in T : ~(y < x)
  BY <1>1 DEF OpToRel
<1>3. \A y \in T : y \in Nat /\ x \in Nat
  OBVIOUS
<1> QED
  BY <1>2, <1>3, NotLess

\* What holds of 0 and goes on from n to n + 1, up to a bound, holds up to there.
LEMMA Induction ==
  ASSUME NEW N \in Nat, NEW G \in SUBSET Nat, 0 \in G,
         \A n \in Nat : n < N /\ n \in G => n + 1 \in G
  PROVE  \A n \in 0 .. N : n \in G
<1> DEFINE T == {n \in 0 .. N : n \notin G}
<1> SUFFICES ASSUME T # {} PROVE FALSE
  OBVIOUS
<1>1. T \in SUBSET Nat
  OBVIOUS
<1>2. PICK x \in T : \A y \in T : x <= y
  <2> HIDE DEF T
  <2> QED
    BY <1>1, LeastNat
<1>3. x \in 1 .. N /\ x \notin G
  OBVIOUS
<1>4. x - 1 \in 0 .. N /\ ~(x <= x - 1) /\ (x - 1) + 1 = x /\ x - 1 < N
  BY <1>3
<1>5. x - 1 \in G
  BY <1>2, <1>4
<1> QED
  BY <1>3, <1>4, <1>5

-----------------------------------------------------------------------------
(* The loop. *)

\* The recursion over the lines defines a function.
LEMMA LoopIs ==
  ASSUME NEW S, NEW lines \in Seq(S)
  PROVE  LoopOver(lines) =
           [n \in 0 .. Len(lines) |->
              IF n = 0 THEN Start ELSE Read(LoopOver(lines)[n - 1], lines[n])]
<1> DEFINE Is(g, k) == g = [n \in 0 .. k |-> IF n = 0 THEN Start ELSE Read(g[n - 1], lines[n])]
           G == {k \in Nat : \E g : Is(g, k)}
<1>1. 0 \in G
  <2>1. PICK g : g = [n \in 0 .. 0 |-> Start]
    OBVIOUS
  <2>2. Is(g, 0)
    BY <2>1
  <2> QED
    BY <2>2
<1>2. ASSUME NEW k \in Nat, k \in G PROVE k + 1 \in G
  <2>1. PICK g : Is(g, k)
    BY <1>2
  <2>2. PICK h : h = [n \in 0 .. k + 1 |-> IF n <= k THEN g[n] ELSE Read(g[k], lines[k + 1])]
    OBVIOUS
  <2>3. ASSUME NEW n \in 0 .. k + 1
        PROVE  h[n] = IF n = 0 THEN Start ELSE Read(h[n - 1], lines[n])
    <3>1. CASE n = 0
      BY <2>1, <2>2, <3>1
    <3>2. CASE n # 0 /\ n <= k
      <4>1. n - 1 \in 0 .. k /\ n - 1 <= k /\ n - 1 \in 0 .. k + 1 /\ n \in 0 .. k
        BY <3>2
      <4>2. h[n - 1] = g[n - 1] /\ h[n] = g[n]
        BY <2>2, <3>2, <4>1
      <4> QED
        BY <2>1, <3>2, <4>1, <4>2
    <3>3. CASE n = k + 1
      BY <2>2, <3>3
    <3> QED
      BY <3>1, <3>2, <3>3
  <2>4. Is(h, k + 1)
    BY <2>2, <2>3
  <2> HIDE DEF Is
  <2> QED
    BY <2>4
<1>3. Len(lines) \in G
  <2>1. Len(lines) \in Nat /\ G \in SUBSET Nat
    BY LenProperties
  <2>2. \A n \in 0 .. Len(lines) : n \in G
    <3> HIDE DEF G
    <3> QED
      BY <1>1, <1>2, <2>1, Induction
  <2> QED
    BY <2>1, <2>2
<1>4. Is(LoopOver(lines), Len(lines))
  BY <1>3 DEF LoopOver
<1> QED
  BY <1>4

-----------------------------------------------------------------------------
(* Sections. *)

\* A count that goes up by one at most.
LEMMA CountGrows ==
  ASSUME NEW N \in Nat, NEW S \in [0 .. N -> Nat], S[0] = 0,
         \A i \in 0 .. N - 1 : S[i + 1] = S[i] \/ S[i + 1] = S[i] + 1
  PROVE  /\ \A i, j \in 0 .. N : i <= j => S[i] <= S[j]
         /\ \A n \in 1 .. S[N] : \E i \in 1 .. N : S[i] = n /\ S[i - 1] = n - 1
<1> DEFINE Grows(j) == \A i \in 0 .. j : S[i] <= S[j]
           Meets(j) == \A n \in 1 .. S[j] : \E i \in 1 .. j : S[i] = n /\ S[i - 1] = n - 1
           G == {j \in Nat : j <= N => Grows(j) /\ Meets(j)}
<1>1. 0 \in G
  BY Z3
<1>2. ASSUME NEW j \in Nat, j < N, j \in G PROVE j + 1 \in G
  <2>1. /\ Grows(j) /\ Meets(j) /\ j \in 0 .. N - 1 /\ j \in 0 .. N /\ j + 1 \in 0 .. N
        /\ S[j] \in Nat /\ S[j + 1] \in Nat
    BY <1>2
  <2>2. CASE S[j + 1] = S[j]
    <3>1. Grows(j + 1)
      <4>1. TAKE i \in 0 .. j + 1
      <4>2. CASE i \in 0 .. j
        BY <2>1, <2>2, <4>2
      <4>3. CASE i = j + 1
        BY <2>1, <4>3
      <4> QED
        BY <2>1, <4>2, <4>3
    <3>2. Meets(j + 1)
      <4>1. TAKE n \in 1 .. S[j + 1]
      <4>2. PICK i \in 1 .. j : S[i] = n /\ S[i - 1] = n - 1
        BY <2>1, <2>2
      <4>3. i \in 1 .. j + 1
        BY <2>1
      <4> QED
        BY <4>2, <4>3
    <3> HIDE DEF Grows, Meets
    <3> QED
      BY <3>1, <3>2
  <2>3. CASE S[j + 1] = S[j] + 1
    <3>1. Grows(j + 1)
      <4>1. TAKE i \in 0 .. j + 1
      <4>2. CASE i \in 0 .. j
        <5>1. S[i] <= S[j] /\ S[i] \in Nat
          BY <2>1, <4>2
        <5> QED
          BY <2>1, <2>3, <5>1
      <4>3. CASE i = j + 1
        BY <2>1, <4>3
      <4> QED
        BY <2>1, <4>2, <4>3
    <3>2. Meets(j + 1)
      <4>1. TAKE n \in 1 .. S[j + 1]
      <4>2. CASE n \in 1 .. S[j]
        <5>1. PICK i \in 1 .. j : S[i] = n /\ S[i - 1] = n - 1
          BY <2>1, <4>2
        <5>2. i \in 1 .. j + 1
          BY <2>1
        <5> QED
          BY <5>1, <5>2
      <4>3. CASE n = S[j] + 1
        <5>1. j + 1 \in 1 .. j + 1 /\ (j + 1) - 1 = j /\ n - 1 = S[j]
          BY <2>1, <4>3
        <5> QED
          BY <2>3, <4>3, <5>1
      <4> QED
        BY <2>1, <2>3, <4>2, <4>3
    <3> HIDE DEF Grows, Meets
    <3> QED
      BY <3>1, <3>2
  <2> QED
    BY <2>1, <2>2, <2>3
<1>3. \A j \in 0 .. N : j \in G
  <2>1. G \in SUBSET Nat
    OBVIOUS
  <2> HIDE DEF G
  <2> QED
    BY <1>1, <1>2, <2>1, Induction
<1>4. \A j \in 0 .. N : Grows(j) /\ Meets(j)
  <2> HIDE DEF Grows, Meets
  <2>1. \A j \in 0 .. N : j <= N
    OBVIOUS
  <2> QED
    BY <1>3, <2>1
<1>5. N \in 0 .. N
  OBVIOUS
<1>6. ASSUME NEW i \in 0 .. N, NEW j \in 0 .. N, i <= j PROVE S[i] <= S[j]
  <2>1. i \in 0 .. j
    BY <1>6
  <2> QED
    BY <1>4, <2>1
<1> QED
  BY <1>4, <1>5, <1>6

\* The section of a line is that of the line before, or the next.
LEMMA SectionStep ==
  ASSUME NEW b \in Seq(Lines)
  PROVE  /\ Section(b, 0) = 0
         /\ \A i \in 0 .. Len(b) : Section(b, i) \in Nat
         /\ \A i \in 0 .. Len(b) - 1 :
              Section(b, i + 1) = IF IsM(b[i + 1]) THEN Section(b, i) + 1 ELSE Section(b, i)
<1> DEFINE Ms(i) == {j \in 1 .. i : IsM(b[j])}
<1>1. Len(b) \in Nat
  BY LenProperties
<1>2. ASSUME NEW i \in Nat PROVE IsFiniteSet(Ms(i)) /\ Cardinality(Ms(i)) \in Nat
  <2>1. IsFiniteSet(1 .. i)
    BY FS_Interval
  <2>2. Ms(i) \subseteq 1 .. i
    OBVIOUS
  <2> QED
    BY <2>1, <2>2, FS_Subset, FS_CardinalityType
<1>3. Ms(0) = {}
  OBVIOUS
<1>4. ASSUME NEW i \in Nat
      PROVE  Cardinality(Ms(i + 1)) = IF IsM(b[i + 1]) THEN Cardinality(Ms(i)) + 1
                                      ELSE Cardinality(Ms(i))
  <2>1. CASE IsM(b[i + 1])
    <3>1. Ms(i + 1) = Ms(i) \cup {i + 1} /\ i + 1 \notin Ms(i)
      BY <2>1
    <3> HIDE DEF Ms
    <3> QED
      BY <1>2, <2>1, <3>1, FS_AddElement
  <2>2. CASE ~IsM(b[i + 1])
    <3>1. Ms(i + 1) = Ms(i)
      BY <2>2
    <3> HIDE DEF Ms
    <3> QED
      BY <2>2, <3>1
  <2> QED
    BY <2>1, <2>2
<1>5. \A i : Section(b, i) = Cardinality(Ms(i))
  BY DEF Section
<1> HIDE DEF Ms
<1>6. Section(b, 0) = 0
  BY <1>3, <1>5, FS_EmptySet
<1>7. \A i \in 0 .. Len(b) : i \in Nat
  OBVIOUS
<1>8. \A i \in 0 .. Len(b) - 1 : i \in Nat
  BY <1>1
<1> QED
  BY <1>2, <1>4, <1>5, <1>6, <1>7, <1>8

\* Lines further down are in the same section or a later one; every section
\* but the first begins with its m= line, the only one it has.
LEMMA Sections ==
  ASSUME NEW b \in Seq(Lines)
  PROVE  /\ \A i, j \in 0 .. Len(b) : i <= j => Section(b, i) <= Section(b, j)
         /\ \A n \in 1 .. MediaLines(b) : \E i \in DOMAIN b : IsM(b[i]) /\ Section(b, i) = n
         /\ \A i, j \in DOMAIN b :
              IsM(b[i]) /\ IsM(b[j]) /\ Section(b, i) = Section(b, j) => i = j
<1>1. Len(b) \in Nat /\ DOMAIN b = 1 .. Len(b)
  BY LenProperties
<1>2. PICK S : S = [i \in 0 .. Len(b) |-> Section(b, i)]
  OBVIOUS
<1>3. /\ S \in [0 .. Len(b) -> Nat] /\ S[0] = 0
      /\ \A i \in 0 .. Len(b) - 1 : i \in 0 .. Len(b) /\ i + 1 \in 0 .. Len(b)
  BY <1>1, <1>2, SectionStep
<1>4. \A i \in 0 .. Len(b) - 1 : S[i + 1] = IF IsM(b[i + 1]) THEN S[i] + 1 ELSE S[i]
  BY <1>2, <1>3, SectionStep
<1>5. \A i \in 0 .. Len(b) - 1 : S[i + 1] = S[i] \/ S[i + 1] = S[i] + 1
  BY <1>4
<1>6. /\ \A i, j \in 0 .. Len(b) : i <= j => S[i] <= S[j]
      /\ \A n \in 1 .. S[Len(b)] : \E i \in 1 .. Len(b) : S[i] = n /\ S[i - 1] = n - 1
  BY <1>1, <1>3, <1>5, CountGrows
<1>7. \A i, j \in 0 .. Len(b) : i <= j => Section(b, i) <= Section(b, j)
  BY <1>2, <1>6
<1>8. ASSUME NEW n \in 1 .. MediaLines(b)
      PROVE  \E i \in DOMAIN b : IsM(b[i]) /\ Section(b, i) = n
  <2>1. MediaLines(b) = S[Len(b)]
    BY <1>1, <1>2 DEF MediaLines
  <2>2. PICK i \in 1 .. Len(b) : S[i] = n /\ S[i - 1] = n - 1
    BY <1>6, <2>1
  <2>3. i - 1 \in 0 .. Len(b) - 1 /\ (i - 1) + 1 = i /\ i \in 0 .. Len(b)
    BY <1>1
  <2>4. n # n - 1
    OBVIOUS
  <2>5. IsM(b[i])
    BY <1>4, <2>2, <2>3, <2>4
  <2> QED
    BY <1>1, <1>2, <2>2, <2>3, <2>5
<1>9. ASSUME NEW i \in 1 .. Len(b), NEW j \in 1 .. Len(b), IsM(b[j]), i < j PROVE S[i] # S[j]
  <2>1. j - 1 \in 0 .. Len(b) - 1 /\ (j - 1) + 1 = j /\ i <= j - 1 /\ i \in 0 .. Len(b)
        /\ j - 1 \in 0 .. Len(b)
    BY <1>1, <1>9
  <2>2. S[j] = S[j - 1] + 1 /\ S[i] <= S[j - 1] /\ S[i] \in Nat /\ S[j - 1] \in Nat
    BY <1>3, <1>4, <1>6, <1>9, <2>1
  <2> QED
    BY <2>2
<1>10. ASSUME NEW i \in DOMAIN b, NEW j \in DOMAIN b, IsM(b[i]), IsM(b[j]),
              Section(b, i) = Section(b, j)
       PROVE  i = j
  <2>1. i \in 1 .. Len(b) /\ j \in 1 .. Len(b) /\ i \in 0 .. Len(b) /\ j \in 0 .. Len(b)
    BY <1>1
  <2>2. S[i] = S[j]
    BY <1>2, <1>10, <2>1
  <2>3. i < j \/ j < i \/ i = j
    BY <2>1
  <2> QED
    BY <1>9, <1>10, <2>1, <2>2, <2>3
<1> QED
  BY <1>7, <1>8, <1>10

-----------------------------------------------------------------------------
(* Types. *)

MediaType == [addr : Addrs, port : Nat]
Loops == [checking : BOOLEAN, default : Addrs, cline : Lines \cup {Nothing},
          mline : Lines \cup {Nothing}, media : Seq(MediaType)]

\* The variables of the loop keep their types.
LEMMA NothingIs ==
  /\ Nothing \notin Lines /\ Nothing.addr \in Addrs /\ Nothing.port \in Nat
  /\ Nothing.kind = "none"
BY NoAddrAssumption DEF Nothing, Line, Lines

\* What the end of an m= line does to the variables of the loop.
LEMMA FlushType ==
  ASSUME NEW loop \in Loops
  PROVE  /\ Flush(loop) \in Loops
         /\ Flush(loop).default = loop.default /\ Flush(loop).mline = loop.mline
         /\ LET added == loop.mline.kind = "m" /\ loop.cline.kind \in {"none", "c"} IN
            /\ Flush(loop).checking <=> loop.checking /\ ~added
            /\ Flush(loop).media =
                 IF added THEN Append(loop.media,
                                 [addr |-> IF loop.cline = Nothing THEN loop.default
                                           ELSE loop.cline.addr,
                                  port |-> loop.mline.port])
                 ELSE loop.media
            /\ Flush(loop).cline = IF loop.mline = Nothing THEN loop.cline ELSE Nothing
<1>1. PICK line : line = [addr |-> IF loop.cline = Nothing THEN loop.default
                                   ELSE loop.cline.addr,
                          port |-> loop.mline.port]
  OBVIOUS
<1>2. line \in MediaType
  BY <1>1, NothingIs DEF Loops, MediaType, Lines
<1>3. Append(loop.media, line) \in Seq(MediaType)
  BY <1>2, AppendProperties DEF Loops
<1>4. PICK added \in BOOLEAN :
        added <=> loop.mline.kind = "m" /\ loop.cline.kind \in {"none", "c"}
  OBVIOUS
<1>5. Flush(loop) = [loop EXCEPT !.checking = @ /\ ~added,
                                 !.media = IF added THEN Append(@, line) ELSE @,
                                 !.cline = IF loop.mline = Nothing THEN @ ELSE Nothing]
  BY <1>1, <1>4 DEF Flush
<1> QED
  BY <1>1, <1>3, <1>4, <1>5 DEF Loops

\* Flush adds the line that the m= line before and its address make.
LEMMA FlushAdds ==
  ASSUME NEW loop \in Loops, loop.mline.kind = "m", loop.cline.kind \in {"none", "c"},
         NEW line, line = [addr |-> IF loop.cline = Nothing THEN loop.default ELSE loop.cline.addr,
                           port |-> loop.mline.port]
  PROVE  /\ Flush(loop).media = Append(loop.media, line)
         /\ ~Flush(loop).checking /\ Flush(loop).cline = Nothing
BY FlushType, NothingIs

\* A line keeps the types of the variables.
LEMMA ReadType ==
  ASSUME NEW loop \in Loops, NEW line \in Lines
  PROVE  Read(loop, line) \in Loops
<1>1. [Flush(loop) EXCEPT !.mline = line] \in Loops
  BY FlushType DEF Loops
<1>2. [loop EXCEPT !.checking = FALSE, !.default = line.addr] \in Loops
  BY DEF Loops, Lines
<1>3. [loop EXCEPT !.cline = line] \in Loops
  BY DEF Loops
<1> QED
  BY <1>1, <1>2, <1>3 DEF Read

\* They start with their types.
LEMMA StartType == Start \in Loops
BY NoAddrAssumption DEF Start, Loops

\* The variables of the loop after so many lines.
LEMMA LoopType ==
  ASSUME NEW b \in Seq(Lines)
  PROVE  /\ \A n \in 0 .. Len(b) : LoopOver(b)[n] \in Loops
         /\ LoopOver(b)[0] = Start
         /\ \A n \in 0 .. Len(b) - 1 : LoopOver(b)[n + 1] = Read(LoopOver(b)[n], b[n + 1])
<1>1. Len(b) \in Nat /\ \A n \in 1 .. Len(b) : b[n] \in Lines
  BY LenProperties
<1>2. PICK loop : loop = LoopOver(b)
  OBVIOUS
<1>3. loop = [n \in 0 .. Len(b) |-> IF n = 0 THEN Start ELSE Read(loop[n - 1], b[n])]
  BY <1>2, LoopIs
<1>4. loop[0] = Start
  BY <1>1, <1>3
<1>5. ASSUME NEW n \in 0 .. Len(b) - 1
      PROVE  loop[n + 1] = Read(loop[n], b[n + 1])
  <2>1. n + 1 \in 0 .. Len(b) /\ n + 1 # 0 /\ (n + 1) - 1 = n
    BY <1>1
  <2> QED
    BY <1>3, <2>1
<1> DEFINE G == {n \in Nat : n <= Len(b) => loop[n] \in Loops}
<1>6. 0 \in G
  BY <1>4, StartType
<1>7. ASSUME NEW n \in Nat, n < Len(b), n \in G PROVE n + 1 \in G
  <2>1. n \in 0 .. Len(b) - 1 /\ n <= Len(b) /\ n + 1 \in 1 .. Len(b)
    BY <1>1, <1>7
  <2>2. Read(loop[n], b[n + 1]) \in Loops
    BY <1>1, <1>7, <2>1, ReadType
  <2> QED
    BY <1>5, <2>1, <2>2
<1>8. \A n \in 0 .. Len(b) : n \in G
  <2>1. G \in SUBSET Nat
    OBVIOUS
  <2> HIDE DEF G
  <2> QED
    BY <1>1, <1>6, <1>7, <2>1, Induction
<1>9. \A n \in 0 .. Len(b) : loop[n] \in Loops
  BY <1>1, <1>8
<1> QED
  BY <1>2, <1>4, <1>5, <1>9

\* The lines with their end are lines.
LEMMA WholeType ==
  ASSUME NEW b \in Seq(Lines)
  PROVE  Whole(b) \in Seq(Lines)
<1>1. Len(b) \in Nat /\ \A n \in 1 .. Len(b) : b[n] \in Lines
  BY LenProperties
<1>2. CASE b # <<>>
  <2>1. Len(b) >= 1
    BY <1>1, <1>2, EmptySeq
  <2>2. \A i \in 1 .. Len(b) - 1 : b[i] \in Lines
    BY <1>1
  <2>3. SubSeq(b, 1, Len(b) - 1) \in Seq(Lines)
    BY <1>1, <2>2, SubSeqProperties
  <2> QED
    BY <2>3 DEF Whole
<1>3. CASE b = <<>>
  BY <1>3 DEF Whole
<1> QED
  BY <1>2, <1>3

\* The media lines read from a body have an address and a port each.
LEMMA IncomingType ==
  ASSUME NEW b \in Seq(Lines)
  PROVE  Incoming(b) \in Seq(MediaType)
<1>1. PICK lines \in Seq(Lines) : lines = Whole(b)
  BY WholeType
<1>2. Len(lines) \in 0 .. Len(lines)
  BY LenProperties
<1>3. LoopOver(lines)[Len(lines)] \in Loops
  BY <1>2, LoopType
<1>4. Flush(LoopOver(lines)[Len(lines)]).media \in Seq(MediaType)
  <2>1. Flush(LoopOver(lines)[Len(lines)]) \in Loops
    BY <1>3, FlushType
  <2> QED
    BY <2>1 DEF Loops
<1>5. <<>> \in Seq(MediaType)
  OBVIOUS
<1> QED
  BY <1>1, <1>4, <1>5 DEF Incoming

-----------------------------------------------------------------------------
(* What the loop makes of a well-formed body. *)

\* Lines of a well-formed body are plain, a section has one c= line at most.
LEMMA Plain ==
  ASSUME NEW b \in Seq(Lines), WellFormed(b)
  PROVE  /\ Len(b) \in Nat /\ Len(b) >= 1 /\ DOMAIN b = 1 .. Len(b) /\ b[1].kind = "v"
         /\ \A i \in DOMAIN b : /\ b[i] \in Lines /\ b[i].end
                                /\ IsC(b[i]) <=> b[i].kind = "c"
                                /\ IsM(b[i]) <=> b[i].kind = "m"
         /\ \A i, j \in DOMAIN b :
              IsC(b[i]) /\ IsC(b[j]) /\ Section(b, i) = Section(b, j) => i = j
         /\ \A n \in 1 .. MediaLines(b) :
              \E i \in DOMAIN b : IsC(b[i]) /\ Section(b, i) \in {0, n}
<1>1. Len(b) \in Nat /\ DOMAIN b = 1 .. Len(b) /\ \A i \in DOMAIN b : b[i] \in Lines
  BY LenProperties
<1>2. b # <<>> /\ b[1].kind = "v"
  BY DEF WellFormed
<1>3. Len(b) >= 1
  BY <1>1, <1>2, EmptySeq
<1>4. \A i \in DOMAIN b : b[i].end /\ b[i].kind \notin {"m/", "c?"}
  BY DEF WellFormed
<1>5. /\ \A i, j \in DOMAIN b :
           IsC(b[i]) /\ IsC(b[j]) /\ Section(b, i) = Section(b, j) => i = j
      /\ \A n \in 1 .. MediaLines(b) :
           \E i \in DOMAIN b : IsC(b[i]) /\ Section(b, i) \in {0, n}
  BY DEF WellFormed
<1> QED
  BY <1>1, <1>2, <1>3, <1>4, <1>5 DEF IsC, IsM

\* The c= line j applies to section n.
Applies(b, j, n) ==
  /\ IsC(b[j])
  /\ \/ Section(b, j) = n
     \/ Section(b, j) = 0 /\ \A i \in DOMAIN b : IsC(b[i]) => Section(b, i) # n

\* What SDP means by the section that line m begins and line j applies to.
LEMMA MediaOfIs ==
  ASSUME NEW b \in Seq(Lines), WellFormed(b), NEW n \in 1 .. MediaLines(b),
         NEW m \in DOMAIN b, IsM(b[m]), Section(b, m) = n,
         NEW j \in DOMAIN b, Applies(b, j, n)
  PROVE  MediaOf(b)[n] = [addr |-> b[j].addr, port |-> b[m].port]
<1> DEFINE Clines(k) == {i \in DOMAIN b : IsC(b[i]) /\ Section(b, i) = k}
           own == IF Clines(n) # {} THEN Clines(n) ELSE Clines(0)
<1>1. m = CHOOSE i \in DOMAIN b : IsM(b[i]) /\ Section(b, i) = n
  <2>1. \A i \in DOMAIN b : IsM(b[i]) /\ Section(b, i) = n => i = m
    BY Sections
  <2> QED
    BY <2>1
<1>2. own = {j}
  <2>1. CASE Section(b, j) = n
    <3>1. j \in Clines(n) /\ \A i \in Clines(n) : i = j
      BY <2>1, Plain DEF Applies
    <3> QED
      BY <3>1
  <2>2. CASE Section(b, j) = 0 /\ \A i \in DOMAIN b : IsC(b[i]) => Section(b, i) # n
    <3>1. Clines(n) = {} /\ j \in Clines(0) /\ \A i \in Clines(0) : i = j
      BY <2>2, Plain DEF Applies
    <3> QED
      BY <3>1
  <2> QED
    BY <2>1, <2>2 DEF Applies
<1>3. j = CHOOSE i \in own : TRUE
  BY <1>2
<1>4. MediaOf(b)[n] = [addr |-> b[CHOOSE i \in own : TRUE].addr,
                       port |-> b[CHOOSE i \in DOMAIN b : IsM(b[i]) /\ Section(b, i) = n].port]
  BY DEF MediaOf
<1> QED
  BY <1>1, <1>3, <1>4

\* Line f is the first c= line of the first i lines, or 0.
FirstC(b, f, i) ==
  /\ f \in 0 .. i
  /\ f # 0 => IsC(b[f])
  /\ \A j \in 1 .. i : IsC(b[j]) => f # 0 /\ f <= j

\* The c= lines of the section of line i so far, the first of all excepted.
Later(b, f, i) ==
  {j \in 1 .. i : IsC(b[j]) /\ Section(b, j) = Section(b, i) /\ j # f}

\* The variables of the loop after i lines.
LoopInv(b, l, i) ==
  /\ \E f \in 0 .. i :
       /\ FirstC(b, f, i)
       /\ l.checking <=> f = 0
       /\ f # 0 => l.default = b[f].addr
       /\ \A j \in Later(b, f, i) : l.cline = b[j]
       /\ Later(b, f, i) = {} => l.cline = Nothing
  /\ Section(b, i) = 0 => l.mline = Nothing /\ Len(l.media) = 0
  /\ Section(b, i) # 0 =>
       /\ \E m \in 1 .. i : IsM(b[m]) /\ Section(b, m) = Section(b, i) /\ l.mline = b[m]
       /\ Len(l.media) = Section(b, i) - 1
  /\ \A n \in 1 .. Len(l.media) : l.media[n] = MediaOf(b)[n]

\* At the end of a section the loop has a c= line for it.
LEMMA SectionEnds ==
  ASSUME NEW b \in Seq(Lines), WellFormed(b), NEW i \in 1 .. Len(b), NEW l \in Loops,
         LoopInv(b, l, i), Section(b, i) # 0,
         \A j \in DOMAIN b : j > i => Section(b, j) # Section(b, i)
  PROVE  /\ ~l.checking /\ l.mline.kind = "m" /\ l.cline.kind \in {"none", "c"}
         /\ Section(b, i) \in 1 .. MediaLines(b)
         /\ MediaOf(b)[Section(b, i)] =
              [addr |-> IF l.cline = Nothing THEN l.default ELSE l.cline.addr,
               port |-> l.mline.port]
<1>1. /\ Len(b) \in Nat /\ DOMAIN b = 1 .. Len(b) /\ i \in 0 .. Len(b) /\ Len(b) \in 0 .. Len(b)
      /\ i \in Nat /\ i <= Len(b)
  BY Plain
<1>2. PICK k \in Nat : k = Section(b, i) /\ k # 0
  BY <1>1, SectionStep
<1>3. k \in 1 .. MediaLines(b)
  <2>1. Section(b, i) <= MediaLines(b) /\ MediaLines(b) \in Nat
    BY <1>1, Sections, SectionStep DEF MediaLines
  <2> QED
    BY <1>2, <2>1
<1>4. PICK f \in 0 .. i :
        /\ FirstC(b, f, i)
        /\ l.checking <=> f = 0
        /\ f # 0 => l.default = b[f].addr
        /\ \A j \in Later(b, f, i) : l.cline = b[j]
        /\ Later(b, f, i) = {} => l.cline = Nothing
  BY DEF LoopInv
<1>5. PICK m \in 1 .. i : IsM(b[m]) /\ Section(b, m) = k /\ l.mline = b[m]
  BY <1>2 DEF LoopInv
<1>6. m \in DOMAIN b /\ l.mline.kind = "m"
  <2>1. m \in DOMAIN b
    BY <1>1
  <2> QED
    BY <1>5, <2>1, Plain
<1>7. PICK c \in DOMAIN b : IsC(b[c]) /\ Section(b, c) \in {0, k}
  BY <1>3, Plain
<1>8. c \in 1 .. i
  <2>1. CASE Section(b, c) = k
    <3>1. ~(c > i)
      BY <1>2, <2>1
    <3> QED
      BY <1>1, <3>1
  <2>2. CASE Section(b, c) = 0
    <3>1. c \in 0 .. Len(b)
      BY <1>1
    <3>2. ~(i <= c)
      <4>1. SUFFICES ASSUME i <= c PROVE FALSE
        OBVIOUS
      <4>2. Section(b, i) <= Section(b, c)
        BY <1>1, <3>1, <4>1, Sections
      <4> QED
        BY <1>2, <2>2, <4>2
    <3> QED
      BY <1>1, <3>2
  <2> QED
    BY <1>7, <2>1, <2>2
<1>9. f # 0 /\ f <= c /\ IsC(b[f]) /\ f \in DOMAIN b
  <2>1. f # 0 /\ f <= c /\ IsC(b[f])
    BY <1>4, <1>7, <1>8 DEF FirstC
  <2> QED
    BY <1>1, <2>1
<1>10. CASE \E j \in Later(b, f, i) : TRUE
  <2>1. PICK j \in 1 .. i : IsC(b[j]) /\ Section(b, j) = k /\ l.cline = b[j]
    BY <1>2, <1>4, <1>10 DEF Later
  <2>2. j \in DOMAIN b
    BY <1>1
  <2>3. l.cline.kind = "c" /\ l.cline # Nothing
    BY <2>1, <2>2, Plain, NothingIs
  <2>4. MediaOf(b)[k] = [addr |-> b[j].addr, port |-> b[m].port]
    BY <1>3, <1>5, <1>6, <2>1, <2>2, MediaOfIs DEF Applies
  <2> QED
    BY <1>2, <1>3, <1>4, <1>5, <1>6, <1>9, <2>1, <2>3, <2>4
<1>11. CASE Later(b, f, i) = {}
  <2>1. l.cline = Nothing
    BY <1>4, <1>11
  <2>2. Applies(b, f, k)
    <3>1. CASE Section(b, f) = k
      BY <1>9, <3>1 DEF Applies
    <3>2. CASE Section(b, f) # k
      <4>1. ASSUME NEW j \in DOMAIN b, IsC(b[j]) PROVE Section(b, j) # k
        <5>1. SUFFICES ASSUME Section(b, j) = k PROVE FALSE
          OBVIOUS
        <5>2. ~(j > i)
          BY <1>2, <5>1
        <5>3. j \in 1 .. i
          BY <1>1, <5>2
        <5>4. j \in Later(b, f, i)
          BY <1>2, <3>2, <4>1, <5>1, <5>3 DEF Later
        <5> QED
          BY <1>11, <5>4
      <4>2. Section(b, c) = 0
        BY <1>7, <4>1
      <4>3. f \in 0 .. Len(b) /\ c \in 0 .. Len(b)
        BY <1>1
      <4>4. Section(b, f) <= Section(b, c) /\ Section(b, f) \in Nat
        BY <1>9, <4>3, Sections, SectionStep
      <4>5. Section(b, f) = 0
        BY <4>2, <4>4
      <4> QED
        BY <1>9, <4>1, <4>5 DEF Applies
    <3> QED
      BY <3>1, <3>2
  <2>3. MediaOf(b)[k] = [addr |-> b[f].addr, port |-> b[m].port]
    BY <1>3, <1>5, <1>6, <1>9, <2>2, MediaOfIs
  <2> QED
    BY <1>2, <1>3, <1>4, <1>5, <1>6, <1>9, <2>1, <2>3, NothingIs
<1> QED
  BY <1>10, <1>11

\* A line that is no m= line stays in the section of the line before it.
LEMMA SameSection ==
  ASSUME NEW b \in Seq(Lines), WellFormed(b), NEW i \in 0 .. Len(b) - 1, ~IsM(b[i + 1])
  PROVE  /\ Section(b, i + 1) = Section(b, i)
         /\ ~IsC(b[i + 1]) =>
              \A f \in 0 .. i : /\ Later(b, f, i + 1) = Later(b, f, i)
                                /\ FirstC(b, f, i) => FirstC(b, f, i + 1)
<1>1. Len(b) \in Nat /\ i \in Nat /\ i + 1 \in DOMAIN b
  BY Plain
<1>2. Section(b, i + 1) = Section(b, i)
  BY <1>1, SectionStep
<1>3. ASSUME ~IsC(b[i + 1]), NEW f \in 0 .. i
      PROVE  /\ Later(b, f, i + 1) = Later(b, f, i)
             /\ FirstC(b, f, i) => FirstC(b, f, i + 1)
  <2>1. \A j \in 1 .. i + 1 : IsC(b[j]) => j \in 1 .. i
    BY <1>1, <1>3
  <2>2. \A j \in 1 .. i : j \in 1 .. i + 1
    BY <1>1
  <2>3. f \in 0 .. i + 1
    BY <1>1
  <2> QED
    BY <1>2, <2>1, <2>2, <2>3 DEF Later, FirstC
<1> QED
  BY <1>2, <1>3

\* The media sections that are complete, and the one that is not, as LoopInv
\* has them, for a loop that has not met another m= line.
LEMMA MediaStay ==
  ASSUME NEW b \in Seq(Lines), WellFormed(b), NEW i \in 0 .. Len(b) - 1, ~IsM(b[i + 1]),
         NEW l, NEW h, LoopInv(b, l, i), h.mline = l.mline, h.media = l.media,
         \E f \in 0 .. i + 1 :
           /\ FirstC(b, f, i + 1)
           /\ h.checking <=> f = 0
           /\ f # 0 => h.default = b[f].addr
           /\ \A j \in Later(b, f, i + 1) : h.cline = b[j]
           /\ Later(b, f, i + 1) = {} => h.cline = Nothing
  PROVE  LoopInv(b, h, i + 1)
<1>1. Section(b, i + 1) = Section(b, i)
  BY SameSection
<1>2. \A m \in 1 .. i : m \in 1 .. i + 1
  OBVIOUS
<1> QED
  BY <1>1, <1>2 DEF LoopInv

\* LoopInv is kept by any line: one that is neither m= nor c=, ...
LEMMA ReadOther ==
  ASSUME NEW b \in Seq(Lines), WellFormed(b), NEW i \in 0 .. Len(b) - 1, NEW l \in Loops,
         LoopInv(b, l, i), ~IsM(b[i + 1]), ~IsC(b[i + 1])
  PROVE  LoopInv(b, Read(l, b[i + 1]), i + 1)
<1>1. i + 1 \in DOMAIN b /\ i \in Nat
  BY Plain
<1>2. Read(l, b[i + 1]) = l
  BY DEF Read, IsC
<1>3. PICK f \in 0 .. i :
        /\ FirstC(b, f, i)
        /\ l.checking <=> f = 0
        /\ f # 0 => l.default = b[f].addr
        /\ \A j \in Later(b, f, i) : l.cline = b[j]
        /\ Later(b, f, i) = {} => l.cline = Nothing
  BY DEF LoopInv
<1>4. f \in 0 .. i + 1 /\ Later(b, f, i + 1) = Later(b, f, i) /\ FirstC(b, f, i + 1)
  BY <1>1, <1>3, SameSection
<1>5. \E g \in 0 .. i + 1 :
        /\ FirstC(b, g, i + 1)
        /\ l.checking <=> g = 0
        /\ g # 0 => l.default = b[g].addr
        /\ \A j \in Later(b, g, i + 1) : l.cline = b[j]
        /\ Later(b, g, i + 1) = {} => l.cline = Nothing
  BY <1>3, <1>4
<1>6. LoopInv(b, l, i + 1)
  BY <1>5, MediaStay
<1> QED
  BY <1>2, <1>6

\* ... a c= line, ...
LEMMA ReadC ==
  ASSUME NEW b \in Seq(Lines), WellFormed(b), NEW i \in 0 .. Len(b) - 1, NEW l \in Loops,
         LoopInv(b, l, i), IsC(b[i + 1])
  PROVE  LoopInv(b, Read(l, b[i + 1]), i + 1)
<1>1. /\ i + 1 \in DOMAIN b /\ i \in Nat /\ Len(b) \in Nat /\ DOMAIN b = 1 .. Len(b)
      /\ b[i + 1].kind = "c" /\ ~IsM(b[i + 1]) /\ i + 1 # 0 /\ i + 1 \in 1 .. i + 1
  BY Plain
<1>2. PICK f \in 0 .. i :
        /\ FirstC(b, f, i)
        /\ l.checking <=> f = 0
        /\ f # 0 => l.default = b[f].addr
        /\ \A j \in Later(b, f, i) : l.cline = b[j]
        /\ Later(b, f, i) = {} => l.cline = Nothing
  BY DEF LoopInv
<1>3. \A j \in 1 .. i + 1 : j \in 1 .. i \/ j = i + 1
  BY <1>1
<1>4. CASE f = 0
  <2>1. \A j \in 1 .. i : ~IsC(b[j])
    BY <1>2, <1>4 DEF FirstC
  <2>2. Later(b, i + 1, i + 1) = {} /\ Later(b, f, i) = {}
    BY <1>3, <2>1 DEF Later
  <2>3. FirstC(b, i + 1, i + 1)
    BY <1>1, <1>3, <2>1 DEF FirstC
  <2>4. PICK h : h = [l EXCEPT !.checking = FALSE, !.default = b[i + 1].addr]
    OBVIOUS
  <2>5. Read(l, b[i + 1]) = h
    BY <1>1, <1>2, <1>4, <2>4 DEF Read
  <2>6. /\ h.mline = l.mline /\ h.media = l.media /\ ~h.checking
        /\ h.default = b[i + 1].addr /\ h.cline = Nothing
    BY <1>2, <2>2, <2>4 DEF Loops
  <2>7. \E g \in 0 .. i + 1 :
          /\ FirstC(b, g, i + 1)
          /\ h.checking <=> g = 0
          /\ g # 0 => h.default = b[g].addr
          /\ \A j \in Later(b, g, i + 1) : h.cline = b[j]
          /\ Later(b, g, i + 1) = {} => h.cline = Nothing
    BY <1>1, <2>2, <2>3, <2>6
  <2>8. LoopInv(b, h, i + 1)
    BY <1>1, <2>6, <2>7, MediaStay
  <2> QED
    BY <2>5, <2>8
<1>5. CASE f # 0
  <2>1. /\ FirstC(b, f, i + 1) /\ f \in 0 .. i + 1
        /\ f # i + 1
    <3>1. f \in 0 .. i + 1 /\ f <= i + 1 /\ f # i + 1
      BY <1>1
    <3> QED
      BY <1>2, <1>3, <1>5, <3>1 DEF FirstC
  <2>2. Later(b, f, i + 1) = {i + 1}
    <3>1. i + 1 \in Later(b, f, i + 1)
      BY <1>1, <2>1 DEF Later
    <3>2. ASSUME NEW j \in Later(b, f, i + 1) PROVE j = i + 1
      <4>1. j \in 1 .. i + 1 /\ IsC(b[j]) /\ Section(b, j) = Section(b, i + 1)
        BY DEF Later
      <4>2. j \in DOMAIN b
        BY <1>1, <4>1
      <4> QED
        BY <1>1, <4>1, <4>2, Plain
    <3> QED
      BY <3>1, <3>2
  <2>3. PICK h : h = [l EXCEPT !.cline = b[i + 1]]
    OBVIOUS
  <2>4. Read(l, b[i + 1]) = h
    BY <1>1, <1>2, <1>5, <2>3 DEF Read
  <2>5. /\ h.mline = l.mline /\ h.media = l.media /\ h.checking = l.checking
        /\ h.default = l.default /\ h.cline = b[i + 1]
    BY <2>3 DEF Loops
  <2>6. \E g \in 0 .. i + 1 :
          /\ FirstC(b, g, i + 1)
          /\ h.checking <=> g = 0
          /\ g # 0 => h.default = b[g].addr
          /\ \A j \in Later(b, g, i + 1) : h.cline = b[j]
          /\ Later(b, g, i + 1) = {} => h.cline = Nothing
    BY <1>2, <1>5, <2>1, <2>2, <2>5
  <2>7. LoopInv(b, h, i + 1)
    BY <1>1, <2>5, <2>6, MediaStay
  <2> QED
    BY <2>4, <2>7
<1> QED
  BY <1>4, <1>5

\* ... an m= line.
LEMMA ReadM ==
  ASSUME NEW b \in Seq(Lines), WellFormed(b), NEW i \in 0 .. Len(b) - 1, NEW l \in Loops,
         LoopInv(b, l, i), IsM(b[i + 1])
  PROVE  LoopInv(b, Read(l, b[i + 1]), i + 1)
<1>1. /\ i + 1 \in DOMAIN b /\ i \in Nat /\ Len(b) \in Nat /\ DOMAIN b = 1 .. Len(b)
      /\ b[i + 1].kind = "m" /\ ~IsC(b[i + 1]) /\ i + 1 \in 1 .. i + 1
      /\ i \in 0 .. Len(b) /\ i + 1 \in 0 .. Len(b)
  BY Plain
<1>2. PICK k \in Nat : k = Section(b, i) /\ Section(b, i + 1) = k + 1
  BY <1>1, SectionStep
<1>3. PICK f \in 0 .. i :
        /\ FirstC(b, f, i)
        /\ l.checking <=> f = 0
        /\ f # 0 => l.default = b[f].addr
        /\ \A j \in Later(b, f, i) : l.cline = b[j]
        /\ Later(b, f, i) = {} => l.cline = Nothing
  BY DEF LoopInv
<1>4. PICK h : h = [Flush(l) EXCEPT !.mline = b[i + 1]]
  OBVIOUS
<1>5. Read(l, b[i + 1]) = h
  BY <1>1, <1>4 DEF Read, IsC
<1>6. /\ h.checking = Flush(l).checking /\ h.default = l.default /\ h.mline = b[i + 1]
      /\ h.cline = Flush(l).cline /\ h.media = Flush(l).media
  BY <1>4, FlushType DEF Loops
<1>7. f \in 0 .. i + 1 /\ FirstC(b, f, i + 1) /\ Later(b, f, i + 1) = {}
  <2>1. \A j \in 1 .. i + 1 : IsC(b[j]) => j \in 1 .. i
    BY <1>1
  <2>2. f \in 0 .. i + 1
    BY <1>1
  <2>3. ASSUME NEW j \in 1 .. i PROVE Section(b, j) # k + 1
    <3>1. j \in 0 .. Len(b) /\ j <= i
      BY <1>1
    <3>2. Section(b, j) <= k /\ Section(b, j) \in Nat
      BY <1>1, <1>2, <3>1, Sections, SectionStep
    <3> QED
      BY <3>2
  <2> QED
    BY <1>2, <1>3, <2>1, <2>2, <2>3 DEF FirstC, Later
<1>8. CASE k = 0
  <2>1. l.mline = Nothing /\ Len(l.media) = 0
    BY <1>2, <1>8 DEF LoopInv
  <2>2. Later(b, f, i) = {}
    <3>1. SUFFICES ASSUME NEW j \in Later(b, f, i) PROVE FALSE
      OBVIOUS
    <3>2. j \in 1 .. i /\ IsC(b[j]) /\ Section(b, j) = 0 /\ j # f
      BY <1>2, <1>8 DEF Later
    <3>3. f # 0 /\ f <= j /\ IsC(b[f])
      BY <1>3, <3>2 DEF FirstC
    <3>4. j \in 0 .. Len(b) /\ f \in 0 .. Len(b) /\ j \in DOMAIN b /\ f \in DOMAIN b
      BY <1>1, <3>2, <3>3
    <3>5. Section(b, f) <= Section(b, j) /\ Section(b, f) \in Nat
      BY <3>3, <3>4, Sections, SectionStep
    <3>6. Section(b, f) = Section(b, j)
      BY <3>2, <3>5
    <3>7. f = j
      BY <3>2, <3>3, <3>4, <3>6, Plain
    <3> QED
      BY <3>2, <3>7
  <2>3. /\ h.checking = l.checking /\ h.cline = Nothing /\ h.media = l.media
    <3>1. l.cline = Nothing /\ l.mline = Nothing /\ l.mline.kind # "m"
      BY <1>3, <2>1, <2>2, NothingIs
    <3>2. Flush(l) \in Loops /\ (Flush(l).checking <=> l.checking)
      BY <3>1, FlushType
    <3>3. Flush(l).cline = Nothing /\ Flush(l).media = l.media
      BY <3>1, FlushType
    <3> QED
      BY <1>6, <3>2, <3>3 DEF Loops
  <2>4. Section(b, i + 1) # 0 /\ Section(b, i + 1) - 1 = 0
    BY <1>2, <1>8
  <2>5. \A n \in 1 .. Len(h.media) : h.media[n] = MediaOf(b)[n]
    BY <2>3 DEF LoopInv
  <2>6. \E m \in 1 .. i + 1 : IsM(b[m]) /\ Section(b, m) = Section(b, i + 1) /\ h.mline = b[m]
    BY <1>1, <1>6
  <2>7. LoopInv(b, h, i + 1)
    BY <1>3, <1>6, <1>7, <2>1, <2>3, <2>4, <2>5, <2>6 DEF LoopInv
  <2> QED
    BY <1>5, <2>7
<1>9. CASE k # 0
  <2>1. i \in 1 .. Len(b)
    <3>1. i # 0
      BY <1>2, <1>9, SectionStep
    <3> QED
      BY <1>1, <3>1
  <2>2. ASSUME NEW j \in DOMAIN b, j > i PROVE Section(b, j) # Section(b, i)
    <3>1. j \in 0 .. Len(b) /\ i + 1 <= j
      BY <1>1, <2>2
    <3>2. k + 1 <= Section(b, j) /\ Section(b, j) \in Nat
      BY <1>1, <1>2, <3>1, Sections, SectionStep
    <3> QED
      BY <1>2, <3>2
  <2>3. /\ ~l.checking /\ l.mline.kind = "m" /\ l.cline.kind \in {"none", "c"}
        /\ k \in 1 .. MediaLines(b)
        /\ MediaOf(b)[k] = [addr |-> IF l.cline = Nothing THEN l.default ELSE l.cline.addr,
                            port |-> l.mline.port]
    BY <1>2, <1>9, <2>1, <2>2, SectionEnds
  <2>4. /\ ~h.checking /\ h.cline = Nothing /\ h.media = Append(l.media, MediaOf(b)[k])
    <3>1. PICK line : line = MediaOf(b)[k]
      OBVIOUS
    <3>2. /\ Flush(l).media = Append(l.media, line)
          /\ ~Flush(l).checking /\ Flush(l).cline = Nothing
      BY <2>3, <3>1, FlushAdds
    <3> QED
      BY <1>6, <3>1, <3>2
  <2>5. /\ Len(l.media) = k - 1 /\ l.media \in Seq(MediaType)
        /\ \A n \in 1 .. Len(l.media) : l.media[n] = MediaOf(b)[n]
    BY <1>2, <1>9 DEF LoopInv, Loops
  <2>6. /\ Len(h.media) = k
        /\ \A n \in 1 .. k : h.media[n] = MediaOf(b)[n]
    <3>1. MediaOf(b)[k] \in MediaType
      <4>1. l.cline.addr \in Addrs /\ l.mline.port \in Nat
        BY NothingIs DEF Loops, Lines
      <4> QED
        BY <2>3, <4>1 DEF MediaType, Loops
    <3>2. /\ Len(h.media) = Len(l.media) + 1
          /\ \A n \in 1 .. Len(l.media) : h.media[n] = l.media[n]
          /\ h.media[Len(l.media) + 1] = MediaOf(b)[k]
      BY <2>4, <2>5, <3>1, AppendProperties
    <3>3. Len(l.media) + 1 = k /\ \A n \in 1 .. k : n \in 1 .. Len(l.media) \/ n = k
      BY <1>9, <2>5
    <3> QED
      BY <2>5, <3>2, <3>3
  <2>7. Section(b, i + 1) # 0 /\ Section(b, i + 1) - 1 = k
    BY <1>2
  <2>8. \E m \in 1 .. i + 1 : IsM(b[m]) /\ Section(b, m) = Section(b, i + 1) /\ h.mline = b[m]
    BY <1>1, <1>6
  <2>9. f # 0
    BY <1>3, <2>3
  <2>10. LoopInv(b, h, i + 1)
    BY <1>3, <1>6, <1>7, <2>4, <2>6, <2>7, <2>8, <2>9 DEF LoopInv
  <2> QED
    BY <1>5, <2>10
<1> QED
  BY <1>8, <1>9

\* LoopInv holds after any number of lines.
LEMMA LoopInvHolds ==
  ASSUME NEW b \in Seq(Lines), WellFormed(b)
  PROVE  \A i \in 0 .. Len(b) : LoopInv(b, LoopOver(b)[i], i)
<1>1. Len(b) \in Nat
  BY Plain
<1> DEFINE G == {i \in Nat : i <= Len(b) => LoopInv(b, LoopOver(b)[i], i)}
<1>2. 0 \in G
  <2>1. LoopOver(b)[0] = Start /\ Section(b, 0) = 0
    BY LoopType, SectionStep
  <2>2. Start.checking /\ Start.cline = Nothing /\ Start.mline = Nothing /\ Start.media = <<>>
    BY DEF Start
  <2>3. FirstC(b, 0, 0) /\ Later(b, 0, 0) = {} /\ Len(<<>>) = 0 /\ 0 \in 0 .. 0
    BY DEF FirstC, Later
  <2>4. LoopInv(b, Start, 0)
    BY <2>1, <2>2, <2>3 DEF LoopInv
  <2> QED
    BY <2>1, <2>4
<1>3. ASSUME NEW i \in Nat, i < Len(b), i \in G PROVE i + 1 \in G
  <2>1. i \in 0 .. Len(b) - 1 /\ i \in 0 .. Len(b) /\ i <= Len(b)
    BY <1>1, <1>3
  <2>2. LoopInv(b, LoopOver(b)[i], i) /\ LoopOver(b)[i] \in Loops
        /\ LoopOver(b)[i + 1] = Read(LoopOver(b)[i], b[i + 1])
    BY <1>3, <2>1, LoopType
  <2>3. LoopInv(b, LoopOver(b)[i + 1], i + 1)
    BY <2>1, <2>2, ReadOther, ReadC, ReadM
  <2> QED
    BY <2>3
<1>4. \A i \in 0 .. Len(b) : i \in G
  <2>1. G \in SUBSET Nat
    OBVIOUS
  <2> HIDE DEF G
  <2> QED
    BY <1>1, <1>2, <1>3, <2>1, Induction
<1> QED
  BY <1>1, <1>4

\* processIncomingSDP reads from a well-formed body what SDP means by it: one
\* media line for each m= line, at the address of the c= line that applies.
THEOREM IncomingIsMediaOf ==
  ASSUME NEW b \in Seq(Lines), WellFormed(b)
  PROVE  Incoming(b) = MediaOf(b)
<1>1. /\ Len(b) \in Nat /\ Len(b) >= 1 /\ b # <<>> /\ b[1].kind = "v"
      /\ \A i \in 1 .. Len(b) : b[i].end
      /\ Len(b) \in 0 .. Len(b) /\ Len(b) \in 1 .. Len(b)
  BY Plain, EmptySeq DEF WellFormed
<1>2. Whole(b) = b
  BY <1>1 DEF Whole
<1>3. PICK l \in Loops : l = LoopOver(b)[Len(b)]
  BY <1>1, LoopType
<1>4. Incoming(b) = Flush(l).media
  BY <1>1, <1>2, <1>3 DEF Incoming
<1>5. LoopInv(b, l, Len(b))
  BY <1>1, <1>3, LoopInvHolds
<1>6. PICK k \in Nat : k = Section(b, Len(b)) /\ k = MediaLines(b)
  BY <1>1, SectionStep DEF MediaLines
<1>7. CASE k = 0
  <2>1. l.mline = Nothing /\ Len(l.media) = 0 /\ l.media \in Seq(MediaType)
    BY <1>5, <1>6, <1>7 DEF LoopInv, Loops
  <2>2. Flush(l).media = l.media
    BY <2>1, FlushType, NothingIs
  <2>3. l.media = <<>> /\ MediaOf(b) = <<>>
    <3>1. 1 .. MediaLines(b) = {}
      BY <1>6, <1>7
    <3>2. l.media = <<>>
      BY <2>1, EmptySeq
    <3> QED
      BY <3>1, <3>2 DEF MediaOf
  <2> QED
    BY <1>4, <2>2, <2>3
<1>8. CASE k # 0
  <2>1. \A j \in DOMAIN b : ~(j > Len(b))
    BY <1>1, Plain
  <2>2. /\ l.mline.kind = "m" /\ l.cline.kind \in {"none", "c"}
        /\ MediaOf(b)[k] = [addr |-> IF l.cline = Nothing THEN l.default ELSE l.cline.addr,
                            port |-> l.mline.port]
    BY <1>1, <1>5, <1>6, <1>8, <2>1, SectionEnds
  <2>3. Flush(l).media = Append(l.media, MediaOf(b)[k])
    <3>1. PICK line : line = MediaOf(b)[k]
      OBVIOUS
    <3>2. Flush(l).media = Append(l.media, line)
      BY <2>2, <3>1, FlushAdds
    <3> QED
      BY <3>1, <3>2
  <2>4. /\ Len(l.media) = k - 1 /\ l.media \in Seq(MediaType)
        /\ \A n \in 1 .. Len(l.media) : l.media[n] = MediaOf(b)[n]
    BY <1>5, <1>6, <1>8 DEF LoopInv, Loops
  <2>5. MediaOf(b)[k] \in MediaType
    <3>1. l.cline.addr \in Addrs /\ l.mline.port \in Nat
      BY NothingIs DEF Loops, Lines
    <3> QED
      BY <2>2, <3>1 DEF MediaType, Loops
  <2>6. PICK all : all = Append(l.media, MediaOf(b)[k])
    OBVIOUS
  <2>7. /\ all \in Seq(MediaType) /\ Len(all) = Len(l.media) + 1
        /\ \A n \in 1 .. Len(l.media) : all[n] = l.media[n]
        /\ all[Len(l.media) + 1] = MediaOf(b)[k]
    BY <2>4, <2>5, <2>6, AppendProperties
  <2>8. Len(l.media) + 1 = k /\ \A n \in 1 .. k : n \in 1 .. Len(l.media) \/ n = k
    BY <1>8, <2>4
  <2>9. Len(all) = k /\ \A n \in 1 .. k : all[n] = MediaOf(b)[n]
    BY <2>4, <2>7, <2>8
  <2>10. all = [n \in 1 .. k |-> all[n]] /\ MediaOf(b) = [n \in 1 .. k |-> MediaOf(b)[n]]
    <3>1. DOMAIN all = 1 .. k /\ all = [n \in DOMAIN all |-> all[n]]
      BY <2>7, <2>9
    <3>2. MediaOf(b) = [n \in 1 .. k |-> MediaOf(b)[n]]
      BY <1>6 DEF MediaOf
    <3> QED
      BY <3>1, <3>2
  <2>11. all = MediaOf(b)
    BY <2>9, <2>10
  <2> QED
    BY <1>4, <2>3, <2>6, <2>11
<1> QED
  BY <1>7, <1>8

-----------------------------------------------------------------------------
(* What the tunnel makes of a well-formed body it sends. *)

\* All lines of a well-formed body have their end.
LEMMA WholeIs ==
  ASSUME NEW b \in Seq(Lines), WellFormed(b)
  PROVE  Whole(b) = b
<1>1. Len(b) \in DOMAIN b
  BY Plain
<1> QED
  BY <1>1, Plain DEF Whole

\* o has the lines of b with the tunnel's own address and ports in it.
Rewritten(o, b, own, ports) ==
  /\ o \in Seq(Lines) /\ Len(o) = Len(b) /\ DOMAIN o = DOMAIN b
  /\ \A i \in DOMAIN b :
       /\ o[i].kind = b[i].kind /\ o[i].end
       /\ b[i].kind = "m" => o[i].port = ports[Section(b, i)]
       /\ b[i].kind = "c" => o[i].addr = own

\* The body processOutgoingSDP writes has the lines of a well-formed one, at the
\* own address and ports.
LEMMA OutgoingLines ==
  ASSUME NEW b \in Seq(Lines), WellFormed(b), NEW own \in Addrs, NEW ports \in [Nat -> Nat]
  PROVE  Rewritten(Outgoing(b, own, ports), b, own, ports)
<1> DEFINE line(i) == CASE b[i].kind = "m" -> [b[i] EXCEPT !.port = ports[MediaIndex(b, i)]]
                        [] b[i].kind = "m/" -> [b[i] EXCEPT !.end = FALSE]
                        [] IsC(b[i]) -> Line("c", own, 0)
                        [] OTHER -> b[i]
<1>1. Outgoing(b, own, ports) = [i \in DOMAIN b |-> line(i)]
  <2>1. PICK w : w = Whole(b)
    OBVIOUS
  <2>2. w = b
    BY <2>1, WholeIs
  <2>3. Outgoing(b, own, ports) =
          [i \in DOMAIN w |->
             CASE w[i].kind = "m" -> [w[i] EXCEPT !.port = ports[MediaIndex(w, i)]]
               [] w[i].kind = "m/" -> [w[i] EXCEPT !.end = FALSE]
               [] IsC(w[i]) -> Line("c", own, 0)
               [] OTHER -> w[i]]
    BY <2>1 DEF Outgoing
  <2> QED
    BY <2>2, <2>3
<1>2. DOMAIN b = 1 .. Len(b) /\ Len(b) \in Nat /\ \A i \in DOMAIN b : i \in 0 .. Len(b)
  <2>1. DOMAIN b = 1 .. Len(b) /\ Len(b) \in Nat
    BY LenProperties
  <2> QED
    BY <2>1
<1>3. ASSUME NEW i \in DOMAIN b
      PROVE  /\ line(i) \in Lines
             /\ line(i).kind = b[i].kind
             /\ line(i).end
             /\ b[i].kind = "m" => line(i).port = ports[Section(b, i)]
             /\ b[i].kind = "c" => line(i).addr = own
  <2>1. /\ b[i] \in Lines /\ b[i].end /\ (IsC(b[i]) <=> b[i].kind = "c")
        /\ (b[i].kind \in {"m/", "c?"} => FALSE)
    BY Plain DEF WellFormed
  <2>2. MediaIndex(b, i) = Section(b, i) /\ Section(b, i) \in Nat
    BY <1>2, SectionStep DEF MediaIndex, Section
  <2>3. CASE b[i].kind = "m"
    <3>1. line(i) = [b[i] EXCEPT !.port = ports[Section(b, i)]]
      BY <2>1, <2>2, <2>3
    <3>2. ports[Section(b, i)] \in Nat
      BY <2>2
    <3> QED
      BY <2>1, <2>3, <3>1, <3>2 DEF Lines
  <2>4. CASE b[i].kind = "c"
    <3>1. line(i) = Line("c", own, 0)
      BY <2>1, <2>4
    <3>2. PICK c : c = Line("c", own, 0)
      OBVIOUS
    <3>3. c \in Lines /\ c.kind = "c" /\ c.addr = own /\ c.end
      BY <3>2 DEF Line, Lines
    <3>4. line(i) = c
      BY <3>1, <3>2
    <3> HIDE DEF line
    <3> QED
      BY <2>4, <3>3, <3>4
  <2>5. CASE b[i].kind \notin {"m", "c"}
    <3>1. line(i) = b[i]
      BY <2>1, <2>5
    <3> QED
      BY <2>1, <2>5, <3>1
  <2> QED
    BY <2>3, <2>4, <2>5
<1>4. [i \in 1 .. Len(b) |-> line(i)] \in Seq(Lines)
      /\ Len([i \in 1 .. Len(b) |-> line(i)]) = Len(b)
  <2>1. \A i \in 1 .. Len(b) : line(i) \in Lines
    BY <1>2, <1>3
  <2> HIDE DEF line
  <2> QED
    BY <1>2, <2>1
<1> HIDE DEF line
<1>5. PICK o : o = Outgoing(b, own, ports)
  OBVIOUS
<1>6. Rewritten(o, b, own, ports)
  BY <1>1, <1>2, <1>3, <1>4, <1>5 DEF Rewritten
<1> QED
  BY <1>5, <1>6

\* Its sections are those of the body, and it is well formed.
LEMMA OutgoingForm ==
  ASSUME NEW b \in Seq(Lines), WellFormed(b), NEW o \in Seq(Lines),
         Len(o) = Len(b), DOMAIN o = DOMAIN b,
         \A i \in DOMAIN b : o[i].kind = b[i].kind /\ o[i].end
  PROVE  /\ \A i \in 0 .. Len(b) : Section(o, i) = Section(b, i)
         /\ \A i \in DOMAIN b : IsM(o[i]) = IsM(b[i]) /\ IsC(o[i]) = IsC(b[i])
         /\ MediaLines(o) = MediaLines(b)
         /\ WellFormed(o)
<1>1. Len(b) \in Nat /\ DOMAIN b = 1 .. Len(b) /\ 1 \in DOMAIN b
  BY Plain
<1>2. \A i \in DOMAIN b : IsM(o[i]) = IsM(b[i]) /\ IsC(o[i]) = IsC(b[i])
  BY DEF IsM, IsC
<1>3. ASSUME NEW i \in 0 .. Len(b) PROVE Section(o, i) = Section(b, i)
  <2>1. \A j \in 1 .. i : j \in DOMAIN b
    BY <1>1
  <2>2. {j \in 1 .. i : IsM(o[j])} = {j \in 1 .. i : IsM(b[j])}
    BY <1>2, <2>1
  <2> QED
    BY <2>2 DEF Section
<1>4. MediaLines(o) = MediaLines(b)
  BY <1>1, <1>3 DEF MediaLines
<1>5. WellFormed(o)
  <2>1. o # <<>> /\ o[1].kind = "v"
    <3>1. b[1].kind = "v" /\ Len(o) # 0
      BY <1>1, Plain
    <3> QED
      BY <1>1, <3>1, EmptySeq
  <2>2. \A i \in DOMAIN o : o[i].end /\ o[i].kind \notin {"m/", "c?"}
    BY DEF WellFormed
  <2>3. \A i \in DOMAIN b : Section(o, i) = Section(b, i)
    BY <1>1, <1>3
  <2>4. \A i, j \in DOMAIN o :
          IsC(o[i]) /\ IsC(o[j]) /\ Section(o, i) = Section(o, j) => i = j
    BY <1>2, <2>3, Plain
  <2>5. \A n \in 1 .. MediaLines(o) :
          \E i \in DOMAIN o : IsC(o[i]) /\ Section(o, i) \in {0, n}
    <3>1. \A n \in 1 .. MediaLines(b) :
            \E i \in DOMAIN b : IsC(b[i]) /\ Section(b, i) \in {0, n}
      BY Plain
    <3> QED
      BY <1>2, <1>4, <2>3, <3>1
  <2> QED
    BY <2>1, <2>2, <2>4, <2>5 DEF WellFormed
<1> QED
  BY <1>2, <1>3, <1>4, <1>5

\* A c= line applies to every section of a well-formed body.
LEMMA SomeLineApplies ==
  ASSUME NEW b \in Seq(Lines), WellFormed(b), NEW n \in 1 .. MediaLines(b)
  PROVE  \E j \in DOMAIN b : Applies(b, j, n)
<1>1. CASE \E j \in DOMAIN b : IsC(b[j]) /\ Section(b, j) = n
  BY <1>1 DEF Applies
<1>2. CASE \A j \in DOMAIN b : IsC(b[j]) => Section(b, j) # n
  <2>1. PICK j \in DOMAIN b : IsC(b[j]) /\ Section(b, j) \in {0, n}
    BY Plain
  <2> QED
    BY <1>2, <2>1 DEF Applies
<1> QED
  BY <1>1, <1>2

\* In a well-formed body that goes out, every line's media is wanted at the
\* tunnel's own address and at its port for the line (processOutgoingSDP).
LEMMA OutgoingMedia ==
  ASSUME NEW b \in Seq(Lines), WellFormed(b), NEW own \in Addrs, NEW ports \in [Nat -> Nat]
  PROVE  MediaOf(Outgoing(b, own, ports)) =
           [n \in 1 .. MediaLines(b) |-> [addr |-> own, port |-> ports[n]]]
<1>1. PICK o : o = Outgoing(b, own, ports)
  OBVIOUS
<1>2. /\ o \in Seq(Lines) /\ Len(o) = Len(b) /\ DOMAIN o = DOMAIN b
      /\ \A i \in DOMAIN b :
           /\ o[i].kind = b[i].kind /\ o[i].end
           /\ b[i].kind = "m" => o[i].port = ports[Section(b, i)]
           /\ b[i].kind = "c" => o[i].addr = own
  <2>1. Rewritten(o, b, own, ports)
    BY <1>1, OutgoingLines
  <2> QED
    BY <2>1 DEF Rewritten
<1>3. \A i \in DOMAIN b : o[i].kind = b[i].kind /\ o[i].end
  BY <1>2
<1>4. /\ \A i \in 0 .. Len(b) : Section(o, i) = Section(b, i)
      /\ \A i \in DOMAIN b : IsM(o[i]) = IsM(b[i]) /\ IsC(o[i]) = IsC(b[i])
      /\ MediaLines(o) = MediaLines(b)
      /\ WellFormed(o)
  BY <1>2, <1>3, OutgoingForm
<1>5. ASSUME NEW n \in 1 .. MediaLines(b)
      PROVE  MediaOf(o)[n] = [addr |-> own, port |-> ports[n]]
  <2>1. PICK m \in DOMAIN b : IsM(b[m]) /\ Section(b, m) = n
    BY Sections
  <2>2. m \in 0 .. Len(b) /\ b[m].kind = "m"
    <3>1. m \in 1 .. Len(b) /\ Len(b) \in Nat
      BY Plain
    <3>2. m \in 0 .. Len(b)
      BY <3>1
    <3>3. b[m].kind = "m"
      BY <2>1, Plain
    <3> QED
      BY <3>2, <3>3
  <2>3. n \in 1 .. MediaLines(o) /\ m \in DOMAIN o /\ IsM(o[m]) /\ Section(o, m) = n
    BY <1>2, <1>4, <2>1, <2>2
  <2>4. PICK j \in DOMAIN o : Applies(o, j, n)
    BY <1>2, <1>4, <2>3, SomeLineApplies
  <2>5. MediaOf(o)[n] = [addr |-> o[j].addr, port |-> o[m].port]
    BY <1>2, <1>4, <2>3, <2>4, MediaOfIs
  <2>6. b[j].kind = "c"
    BY <1>2, <1>4, <2>4, Plain DEF Applies
  <2> QED
    BY <1>2, <2>1, <2>2, <2>5, <2>6
<1>6. MediaOf(o) = [n \in 1 .. MediaLines(b) |-> MediaOf(o)[n]]
  BY <1>4 DEF MediaOf
<1> QED
  BY <1>1, <1>5, <1>6

-----------------------------------------------------------------------------
(* The invariant: what is known of the message at each place of its way. *)

Vias == {ClientVia, ProxyVia} \cup {TunnelVia(c) : c \in Channels}
Hops == (0 .. MaxHops) \cup {None}
Fields == {"start", "vias", "to", "hops", "type", "length", "callId", "cseq", "body"}

\* What goes out is not typed field by field: its To line and its body are no
\* longer ones a client may send.
Types ==
  /\ at \in Places
  /\ sent \in Requests /\ DOMAIN msg = Fields
  /\ msg.vias \in Seq(Vias) /\ msg.hops \in Hops
  /\ from \in Channels /\ ch \in Channels
  /\ target \in {"default", "other", "none"}
  /\ known \in [Sides -> BOOLEAN]
  /\ media \in [Sides -> Seq(MediaType)]
  /\ heard \in SUBSET {"trying", "tooManyHops"}

\* A side that knows the call has read the body of a message with one.
NearRegistered ==
  known["near"] /\ sent.callId /\ sent.type = "sdp" => media["near"] = Incoming(sent.body)
FarRegistered ==
  known["far"] /\ answer.callId /\ answer.type = "sdp" => media["far"] = Incoming(answer.body)

\* The client's request has not been touched.
AsSent == at = "client" => msg = sent /\ ch = from

\* The near tunnel has blanked the host and left the Via lines and the body.
OnTheLink ==
  at = "toFar" =>
    /\ ch = from
    /\ msg.vias = sent.vias /\ msg.to = Blank(sent.to)
    /\ msg.callId = sent.callId /\ msg.type = sent.type /\ msg.body = sent.body

\* The far tunnel has written its own address and ports into the body.
AtServer ==
  at = "server" =>
    /\ known["far"] /\ sent.callId /\ sent.type = "sdp" =>
         msg.body = Outgoing(sent.body, "far", PortsOf("far"))
    /\ msg.length = Length(msg.body)

Requested == at \in {"toFar", "server"} => NearRegistered

\* The far tunnel's Via lines name the channel the request came from.
ByItsVias ==
  at \in {"server", "answered"} => ch = from /\ msg.vias = Push(sent.vias, from)

\* The response, until the far tunnel takes it, and its body.
Answered ==
  /\ at = "answered" => msg = answer
  /\ at \in {"answered", "toNear", "delivered"} => answer.body \in Bodies

\* Only a response to a request with a Via line is on the link, without the
\* first line of the far tunnel, and the far tunnel has read its body.
Returned ==
  at \in {"toNear", "delivered"} =>
    /\ ch = from /\ sent.vias # <<>> /\ msg.vias = Tail(Push(sent.vias, from))
    /\ FarRegistered

\* The far tunnel has left the body of the response.
BackOnTheLink ==
  at = "toNear" =>
    msg.callId = answer.callId /\ msg.type = answer.type /\ msg.body = answer.body

\* The near tunnel has written its own address and ports into it.
Delivered ==
  at = "delivered" =>
    /\ known["near"] /\ answer.callId /\ answer.type = "sdp" =>
         msg.body = Outgoing(answer.body, "near", PortsOf("near"))
    /\ msg.length = Length(msg.body)

RelayInv ==
  /\ Types
  /\ AsSent /\ OnTheLink /\ Requested /\ AtServer
  /\ ByItsVias /\ Answered /\ Returned /\ BackOnTheLink /\ Delivered
  /\ RequestReachesItsTarget

-----------------------------------------------------------------------------
(* Lemmas about the operators. *)

\* A hop less is a number of hops.
LEMMA NumbersAre ==
  \A h \in Hops : h # 0 => Fewer(h) \in Hops
BY DEF None, MaxHops, Hops, Fewer

\* The fields of a request.
LEMMA RequestIs ==
  ASSUME NEW r \in Requests
  PROVE  /\ DOMAIN r = Fields /\ r.vias \in Seq(Vias) /\ r.to \in Tos /\ r.hops \in Hops
         /\ r.callId \in BOOLEAN /\ r.body \in Bodies
<1>1. r \in [start : Seq(STRING), vias : Seq({ClientVia, ProxyVia}), to : Tos,
             hops : (0 .. MaxHops) \cup {None}, type : STRING,
             length : Nat \cup {None},
             callId : BOOLEAN, cseq : STRING, body : Bodies]
  BY RelayAssumption
<1>2. PICK v \in Seq({ClientVia, ProxyVia}) : v = r.vias
  BY <1>1
<1>3. v \in Seq(Vias)
  <2>1. Len(v) \in Nat /\ v = [i \in 1 .. Len(v) |-> v[i]]
        /\ \A i \in 1 .. Len(v) : v[i] \in {ClientVia, ProxyVia}
    BY LenProperties, SeqDef
  <2>2. \A i \in 1 .. Len(v) : v[i] \in Vias
    BY <2>1 DEF Vias
  <2> QED
    BY <2>1, <2>2
<1> QED
  BY <1>1, <1>2, <1>3 DEF Fields, Hops

\* What is sent with a body has its other fields as they are.
LEMMA WithBodyIs ==
  ASSUME NEW m, DOMAIN m = Fields, NEW body
  PROVE  /\ DOMAIN WithBody(m, body) = Fields
         /\ WithBody(m, body).body = body /\ WithBody(m, body).length = Length(body)
         /\ WithBody(m, body).vias = m.vias /\ WithBody(m, body).to = m.to
         /\ WithBody(m, body).hops = m.hops /\ WithBody(m, body).callId = m.callId
         /\ WithBody(m, body).type = m.type /\ WithBody(m, body).start = m.start
BY DEF WithBody, Fields

\* A line is put before each Via line.
LEMMA PushIs ==
  ASSUME NEW vias \in Seq(Vias), NEW c \in Channels
  PROVE  /\ Push(vias, c) \in Seq(Vias)
         /\ Len(Push(vias, c)) = 2 * Len(vias)
         /\ vias # <<>> => /\ Push(vias, c) # <<>> /\ Push(vias, c)[1] = TunnelVia(c)
                           /\ Tail(Push(vias, c)) \in Seq(Vias)
         /\ vias = <<>> => Push(vias, c) = <<>>
         /\ Len(vias) = 1 => Tail(Push(vias, c)) = vias
<1>1. PICK n \in Nat : n = Len(vias)
  BY LenProperties
<1>2. PICK p : p = Push(vias, c)
  OBVIOUS
<1>3. p = [i \in 1 .. 2 * n |-> IF i % 2 = 1 THEN TunnelVia(c) ELSE vias[i \div 2]]
  BY <1>1, <1>2 DEF Push
<1>4. \A i \in 1 .. n : vias[i] \in Vias
  BY <1>1, ElementOfSeq
<1>5. ASSUME NEW i \in 1 .. 2 * n PROVE p[i] \in Vias
  <2>1. CASE i % 2 = 1
    BY <1>3, <2>1 DEF Vias
  <2>2. CASE i % 2 # 1
    <3>1. i \div 2 \in 1 .. n
      BY <2>2
    <3> QED
      BY <1>3, <1>4, <2>2, <3>1
  <2> QED
    BY <2>1, <2>2
<1>6. p \in Seq(Vias) /\ Len(p) = 2 * n
  BY <1>3, <1>5
<1>7. ASSUME vias # <<>>
      PROVE  p # <<>> /\ p[1] = TunnelVia(c) /\ Tail(p) \in Seq(Vias)
  <2>1. n # 0
    BY <1>1, <1>7, EmptySeq
  <2>2. p # <<>> /\ 1 \in 1 .. 2 * n /\ 1 % 2 = 1
    BY <1>6, <2>1, EmptySeq
  <2> QED
    BY <1>3, <1>6, <2>2, HeadTailProperties
<1>8. ASSUME vias = <<>> PROVE p = <<>>
  <2>1. n = 0
    BY <1>1, <1>8, EmptySeq
  <2> QED
    BY <1>6, <2>1, EmptySeq
<1>9. ASSUME Len(vias) = 1 PROVE Tail(p) = vias
  <2>1. n = 1 /\ Len(p) = 2 /\ p # <<>>
    BY <1>1, <1>6, <1>9, EmptySeq
  <2>2. Len(Tail(p)) = 1 /\ Tail(p)[1] = p[2] /\ Tail(p) \in Seq(Vias)
    <3>1. /\ Tail(p) \in Seq(Vias) /\ Len(Tail(p)) = Len(p) - 1
          /\ \A i \in 1 .. Len(Tail(p)) : Tail(p)[i] = p[i + 1]
      BY <1>6, <2>1, HeadTailProperties
    <3>2. Len(Tail(p)) = 1 /\ 1 \in 1 .. 1 /\ 1 + 1 = 2
      BY <2>1, <3>1
    <3>3. Tail(p)[1] = p[1 + 1]
      BY <3>1, <3>2, Zenon
    <3> QED
      BY <3>1, <3>2, <3>3, Zenon
  <2>3. p[2] = vias[1]
    <3>1. 2 \in 1 .. 2 * n /\ 2 % 2 = 0 /\ 2 \div 2 = 1
      BY <2>1
    <3> QED
      BY <1>3, <3>1
  <2> QED
    <3>1. PICK t \in Seq(Vias) : t = Tail(p)
      BY <2>2
    <3>2. Len(t) = Len(vias) /\ \A i \in 1 .. Len(t) : t[i] = vias[i]
      BY <1>9, <2>2, <2>3, <3>1
    <3>3. t = vias
      BY <3>2, SeqEqual
    <3> QED
      BY <3>1, <3>3
<1> QED
  BY <1>1, <1>2, <1>6, <1>7, <1>8, <1>9

\* Where the far tunnel sends a request whose To line the near one has passed
\* on.
LEMMA TargetIs ==
  ASSUME NEW to \in Tos
  PROVE  LET filled == Fill(Blank(to)) IN
         /\ Reached(filled) \in {"server", "dead", "astray"}
         /\ Reached(filled) = "server" =>
              /\ NamesHost(to)
              /\ filled.host \in {"default", "other"}
              /\ filled.host = (IF to.host \in {"own", "none"} THEN "default" ELSE to.host)
         /\ Reached(filled) = "astray" => ~Readable(to)
         /\ Reached(filled) = "dead" => Readable(to) /\ ~NamesHost(to)
BY DEF Tos, Fill, Blank, Reached, NamesHost, Readable

\* PortsOf gives every media index a port.
LEMMA PortsAre ==
  ASSUME NEW side
  PROVE  PortsOf(side) \in [Nat -> Nat]
BY DEF PortsOf

\* A body is a sequence of lines.
LEMMA BodyLines ==
  ASSUME NEW b \in Bodies
  PROVE  b \in Seq(Lines)
BY DEF Bodies

\* Whether the call is known is a truth value.
LEMMA KnownIs ==
  ASSUME Types, NEW side \in Sides, NEW m
  PROVE  KnownAfter(side, m) \in BOOLEAN
BY DEF KnownAfter, Types

\* The handler has a body for the call if the side knows the call afterwards.
LEMMA SdpIfKnown ==
  ASSUME Types, NEW side \in Sides, NEW m, Call(side, m)
  PROVE  /\ known' \in [Sides -> BOOLEAN]
         /\ HasSdp(side, m) <=> m.callId /\ known'[side] /\ m.type = "sdp"
         /\ \A s \in Sides : s # side => known'[s] = known[s]
<1>1. KnownAfter(side, m) \in BOOLEAN
  BY KnownIs
<1>2. known' = [known EXCEPT ![side] = KnownAfter(side, m)]
  BY DEF Call
<1>3. known'[side] = KnownAfter(side, m)
  BY <1>2 DEF Types
<1> QED
  BY <1>1, <1>2, <1>3 DEF Types, HasSdp

\* Registering reads the body of the message.
LEMMA MediaAre ==
  ASSUME Types, NEW side \in Sides, NEW m, m.body \in Bodies, Register(side, m)
  PROVE  /\ media' \in [Sides -> Seq(MediaType)]
         /\ HasSdp(side, m) => media'[side] = Incoming(m.body)
         /\ \A s \in Sides : s # side => media'[s] = media[s]
<1>1. Incoming(m.body) \in Seq(MediaType)
  BY BodyLines, IncomingType
<1>2. media' = [media EXCEPT ![side] = IF HasSdp(side, m) THEN Incoming(m.body) ELSE media[side]]
  BY DEF Register
<1> QED
  BY <1>1, <1>2 DEF Types

\* Where a message is lost or refused, only the types are left to keep.
LEMMA Over ==
  ASSUME Types', at' \in {"dropped", "rejected", "astray", "dead"}, RequestReachesItsTarget'
  PROVE  RelayInv'
BY DEF RelayInv, AsSent, OnTheLink, Requested, AtServer, ByItsVias, Answered, Returned,
       BackOnTheLink, Delivered

\* Nothing is asked of a message that is dropped or refused.
LEMMA Stopped ==
  ASSUME Types', at' \in {"dropped", "rejected"}
  PROVE  RelayInv'
BY Over DEF RequestReachesItsTarget

\* A client has made its request.
LEMMA RelayInit == Init => RelayInv
<1> SUFFICES ASSUME Init PROVE RelayInv
  OBVIOUS
<1>1. /\ DOMAIN sent = Fields /\ sent.vias \in Seq(Vias) /\ sent.hops \in Hops
      /\ sent.callId \in BOOLEAN
  BY RequestIs DEF Init
<1>2. <<>> \in Seq(MediaType)
  BY EmptySeq
<1>3. Types
  BY <1>1, <1>2 DEF Init, Types, Places
<1>4. at = "client" /\ msg = sent /\ ch = from
  BY DEF Init
<1> QED
  BY <1>3, <1>4
     DEF RelayInv, AsSent, OnTheLink, Requested, AtServer, ByItsVias, Answered, Returned,
         BackOnTheLink, Delivered, RequestReachesItsTarget

-----------------------------------------------------------------------------
(* The near tunnel takes the request. *)

\* The near tunnel takes the request of the client.
LEMMA IncomingRequestStep ==
  ASSUME RelayInv, IncomingRequest
  PROVE  RelayInv'
<1>1. /\ at = "client" /\ msg = sent /\ ch = from /\ Types
      /\ UNCHANGED <<sent, from, ch, target, answer>>
  BY DEF IncomingRequest, RelayInv, AsSent
<1>2. /\ sent \in Requests /\ DOMAIN msg = Fields /\ msg.vias \in Seq(Vias)
      /\ msg.hops \in Hops /\ msg.body \in Bodies
  BY <1>1, RequestIs DEF Types
<1>3. CASE /\ at' \in {"dropped", "rejected"} /\ heard' \in {heard, {"tooManyHops"}}
           /\ UNCHANGED <<msg, known, media>>
  <2>1. Types'
    BY <1>1, <1>3 DEF Types, Places
  <2> QED
    BY <1>3, <2>1, Stopped
<1>4. CASE /\ msg.hops # 0 /\ at' = "toFar"
           /\ Call("near", msg) /\ Register("near", msg)
           /\ heard' = {"trying"}
           /\ msg' = WithBody([msg EXCEPT !.start = FirstLine(@), !.to = Blank(@),
                                           !.hops = Fewer(@)], msg.body)
  <2>1. PICK m : m = [msg EXCEPT !.start = FirstLine(@), !.to = Blank(@), !.hops = Fewer(@)]
    OBVIOUS
  <2>2. /\ DOMAIN m = Fields /\ m.to = Blank(msg.to) /\ m.hops = Fewer(msg.hops)
        /\ m.vias = msg.vias /\ m.callId = msg.callId /\ m.type = msg.type
    BY <1>2, <2>1 DEF Fields
  <2>3. /\ DOMAIN msg' = Fields /\ msg'.body = msg.body /\ msg'.vias = msg.vias
        /\ msg'.to = Blank(msg.to) /\ msg'.hops = Fewer(msg.hops)
        /\ msg'.callId = msg.callId /\ msg'.type = msg.type
    <3>1. PICK body : body = msg.body
      OBVIOUS
    <3>2. msg' = WithBody(m, body)
      BY <1>4, <2>1, <3>1
    <3>3. /\ DOMAIN msg' = Fields /\ msg'.body = body /\ msg'.vias = m.vias /\ msg'.to = m.to
          /\ msg'.hops = m.hops /\ msg'.callId = m.callId /\ msg'.type = m.type
      BY <2>2, <3>2, WithBodyIs
    <3> QED
      BY <2>2, <3>1, <3>3
  <2>4. msg'.hops \in Hops
    BY <1>2, <1>4, <2>3, NumbersAre
  <2>5. /\ known' \in [Sides -> BOOLEAN]
        /\ HasSdp("near", msg) <=> msg.callId /\ known'["near"] /\ msg.type = "sdp"
    BY <1>1, <1>4, SdpIfKnown DEF Sides
  <2>6. /\ media' \in [Sides -> Seq(MediaType)]
        /\ HasSdp("near", msg) => media'["near"] = Incoming(msg.body)
    BY <1>1, <1>2, <1>4, MediaAre DEF Sides
  <2>7. Types'
    BY <1>1, <1>2, <1>4, <2>3, <2>4, <2>5, <2>6 DEF Types, Places
  <2>8. NearRegistered'
    BY <1>1, <2>5, <2>6 DEF NearRegistered
  <2>9. OnTheLink'
    BY <1>1, <2>3 DEF OnTheLink
  <2> QED
    BY <1>4, <2>7, <2>8, <2>9
       DEF RelayInv, AsSent, Requested, AtServer, ByItsVias, Answered, Returned,
           BackOnTheLink, Delivered, RequestReachesItsTarget
<1> QED
  BY <1>3, <1>4 DEF IncomingRequest

(* The far tunnel hands it to the SIP server. *)
LEMMA OutgoingRequestStep ==
  ASSUME RelayInv, OutgoingRequest
  PROVE  RelayInv'
<1>1. /\ at = "toFar" /\ ch = from /\ Types /\ NearRegistered
      /\ msg.vias = sent.vias /\ msg.to = Blank(sent.to)
      /\ msg.callId = sent.callId /\ msg.type = sent.type /\ msg.body = sent.body
      /\ UNCHANGED <<sent, from, ch, media, heard, answer>>
  BY DEF OutgoingRequest, RelayInv, OnTheLink, Requested
<1>2. sent \in Requests /\ sent.vias \in Seq(Vias) /\ sent.to \in Tos /\ from \in Channels
  BY <1>1, RequestIs DEF Types
<1>3. CASE at' = "dropped" /\ UNCHANGED <<msg, target, known>>
  <2>1. Types'
    BY <1>1, <1>3 DEF Types, Places
  <2> QED
    BY <1>3, <2>1, Stopped
<1>4. ASSUME Call("far", msg),
             NEW to, to = Fill(msg.to),
             at' = Reached(to),
             target' = IF Reached(to) = "server" THEN to.host ELSE "none",
             msg' = WithBody([msg EXCEPT !.to = to, !.vias = Push(@, ch)],
                             OutgoingBody("far", msg))
      PROVE  RelayInv'
  <2>1. /\ Reached(to) \in {"server", "dead", "astray"}
        /\ Reached(to) = "server" =>
              /\ NamesHost(sent.to)
              /\ to.host \in {"default", "other"}
              /\ to.host = (IF sent.to.host \in {"own", "none"} THEN "default" ELSE sent.to.host)
        /\ Reached(to) = "astray" => ~Readable(sent.to)
        /\ Reached(to) = "dead" => Readable(sent.to) /\ ~NamesHost(sent.to)
    BY <1>1, <1>2, <1>4, TargetIs
  <2>2. PICK m : m = [msg EXCEPT !.to = to, !.vias = Push(@, ch)]
    OBVIOUS
  <2>3. /\ DOMAIN m = Fields /\ m.vias = Push(sent.vias, from) /\ m.hops = msg.hops
    BY <1>1, <2>2 DEF Fields, Types
  <2>4. /\ DOMAIN msg' = Fields /\ msg'.vias = Push(sent.vias, from)
        /\ msg'.hops = msg.hops
        /\ msg'.body = OutgoingBody("far", msg) /\ msg'.length = Length(OutgoingBody("far", msg))
    <3>1. PICK body : body = OutgoingBody("far", msg)
      OBVIOUS
    <3>2. msg' = WithBody(m, body)
      BY <1>4, <2>2, <3>1
    <3>3. /\ DOMAIN msg' = Fields /\ msg'.body = body /\ msg'.length = Length(body)
          /\ msg'.vias = m.vias /\ msg'.hops = m.hops
      BY <2>3, <3>2, WithBodyIs
    <3> QED
      BY <2>3, <3>1, <3>3
  <2>5. msg'.length = Length(msg'.body)
    BY <2>4
  <2>6. /\ known' \in [Sides -> BOOLEAN] /\ known'["near"] = known["near"]
        /\ HasSdp("far", msg) <=> msg.callId /\ known'["far"] /\ msg.type = "sdp"
    BY <1>1, <1>4, SdpIfKnown DEF Sides
  <2>7. at' \in {"server", "dead", "astray"}
        /\ RequestReachesItsTarget'
    BY <1>1, <1>4, <2>1 DEF RequestReachesItsTarget
  <2>8. Types'
    <3>1. target' \in {"default", "other", "none"}
      BY <1>4, <2>1
    <3>2. msg'.vias \in Seq(Vias)
      BY <1>2, <2>4, PushIs
    <3> QED
      BY <1>1, <2>4, <2>6, <2>7, <3>1, <3>2 DEF Types, Places
  <2>9. CASE at' # "server"
    BY <2>7, <2>8, <2>9, Over
  <2>10. CASE at' = "server"
    <3>2. Requested'
      BY <1>1, <2>6 DEF Requested, NearRegistered
    <3>3. AtServer'
      BY <1>1, <2>4, <2>5, <2>6 DEF AtServer, OutgoingBody
    <3>4. ByItsVias'
      BY <1>1, <2>4 DEF ByItsVias
    <3> QED
      BY <2>7, <2>8, <2>10, <3>2, <3>3, <3>4
         DEF RelayInv, AsSent, OnTheLink, Answered, Returned, BackOnTheLink, Delivered
  <2> QED
    BY <2>9, <2>10
<1> QED
  BY <1>3, <1>4 DEF OutgoingRequest

-----------------------------------------------------------------------------
(* The SIP server answers. *)

\* The SIP server answers.
LEMMA AnswerStep ==
  ASSUME RelayInv, NEW reply \in Replies, Answer(reply)
  PROVE  RelayInv'
<1>1. /\ at = "server" /\ at' = "answered" /\ Types /\ RequestReachesItsTarget
      /\ ch = from /\ msg.vias = Push(sent.vias, from)
      /\ answer' = msg'
      /\ UNCHANGED <<sent, from, ch, target, known, media, heard>>
  BY DEF Answer, RelayInv, ByItsVias
<1>2. reply.body \in Bodies
  BY RelayAssumption
<1>3. PICK m : m = [msg EXCEPT !.start = reply.start, !.cseq = Parsed(msg).method,
                               !.type = reply.type, !.body = reply.body,
                               !.length = IF reply.body = <<>> THEN None
                                          ELSE Length(reply.body)]
  OBVIOUS
<1>4. msg' = m
  BY <1>3 DEF Answer
<1>5. DOMAIN m = Fields /\ m.vias = msg.vias /\ m.hops = msg.hops /\ m.body = reply.body
  BY <1>1, <1>3 DEF Types, Fields
<1>6. Types'
  BY <1>1, <1>4, <1>5 DEF Types, Places
<1>7. ByItsVias' /\ RequestReachesItsTarget'
  BY <1>1, <1>4, <1>5 DEF ByItsVias, RequestReachesItsTarget
<1>8. Answered'
  BY <1>1, <1>2, <1>4, <1>5 DEF Answered
<1> QED
  BY <1>1, <1>6, <1>7, <1>8
     DEF RelayInv, AsSent, OnTheLink, Requested, AtServer, Returned, BackOnTheLink, Delivered

(* The far tunnel takes the response. *)
LEMMA IncomingResponseStep ==
  ASSUME RelayInv, IncomingResponse
  PROVE  RelayInv'
<1>1. /\ at = "answered" /\ Types /\ RequestReachesItsTarget
      /\ ch = from /\ msg.vias = Push(sent.vias, from)
      /\ msg = answer /\ answer.body \in Bodies
      /\ UNCHANGED <<sent, from, target, heard, answer>>
  BY DEF IncomingResponse, RelayInv, ByItsVias, Answered
<1>2. sent \in Requests /\ sent.vias \in Seq(Vias) /\ from \in Channels
  BY <1>1, RequestIs DEF Types
<1>3. /\ msg.vias \in Seq(Vias)
      /\ sent.vias # <<>> => /\ msg.vias # <<>> /\ msg.vias[1] = TunnelVia(from)
                             /\ Tail(msg.vias) \in Seq(Vias)
      /\ sent.vias = <<>> => msg.vias = <<>>
  BY <1>1, <1>2, PushIs
<1>4. CASE at' = "dropped" /\ UNCHANGED <<msg, ch, known, media>>
  <2>1. Types'
    BY <1>1, <1>4 DEF Types, Places
  <2> QED
    BY <1>4, <2>1, Stopped
<1>5. ASSUME Call("far", msg), Register("far", msg),
             msg' = WithBody([msg EXCEPT !.vias = IF @ = <<>> THEN @ ELSE Tail(@)], msg.body),
             NEW mine, mine <=> msg.vias # <<>> /\ msg.vias[1].by = "tunnel",
             \/ mine /\ at' = "toNear" /\ ch' = msg.vias[1].ch
             \/ ~mine /\ at' = "dropped" /\ UNCHANGED ch
      PROVE  RelayInv'
  <2>1. PICK m : m = [msg EXCEPT !.vias = IF @ = <<>> THEN @ ELSE Tail(@)]
    OBVIOUS
  <2>2. /\ DOMAIN m = Fields /\ m.vias = (IF msg.vias = <<>> THEN msg.vias ELSE Tail(msg.vias))
        /\ m.hops = msg.hops /\ m.callId = msg.callId /\ m.type = msg.type
    BY <1>1, <2>1 DEF Fields, Types
  <2>3. /\ DOMAIN msg' = Fields /\ msg'.body = msg.body /\ msg'.vias = m.vias
        /\ msg'.hops = msg.hops /\ msg'.callId = msg.callId /\ msg'.type = msg.type
    <3>1. PICK body : body = msg.body
      OBVIOUS
    <3>2. msg' = WithBody(m, body)
      BY <1>5, <2>1, <3>1
    <3>3. /\ DOMAIN msg' = Fields /\ msg'.body = body /\ msg'.vias = m.vias
          /\ msg'.hops = m.hops /\ msg'.callId = m.callId /\ msg'.type = m.type
      BY <2>2, <3>2, WithBodyIs
    <3> QED
      BY <2>2, <3>1, <3>3
  <2>4. /\ known' \in [Sides -> BOOLEAN]
        /\ HasSdp("far", msg) <=> msg.callId /\ known'["far"] /\ msg.type = "sdp"
    BY <1>1, <1>5, SdpIfKnown DEF Sides
  <2>5. /\ media' \in [Sides -> Seq(MediaType)]
        /\ HasSdp("far", msg) => media'["far"] = Incoming(msg.body)
    BY <1>1, <1>5, MediaAre DEF Sides
  <2>6. /\ msg'.vias \in Seq(Vias) /\ ch' = from /\ at' \in {"toNear", "dropped"}
        /\ at' = "toNear" => sent.vias # <<>> /\ msg'.vias = Tail(Push(sent.vias, from))
    <3>1. CASE sent.vias = <<>>
      BY <1>1, <1>3, <1>5, <2>2, <2>3, <3>1
    <3>2. CASE sent.vias # <<>>
      <4>1. mine /\ msg.vias[1].ch = from
        BY <1>3, <1>5, <3>2 DEF TunnelVia
      <4>2. msg'.vias = Tail(msg.vias)
        BY <1>3, <2>2, <2>3, <3>2
      <4> QED
        BY <1>1, <1>3, <1>5, <3>2, <4>1, <4>2
    <3> QED
      BY <3>1, <3>2
  <2>7. Types'
    BY <1>1, <2>3, <2>2, <2>4, <2>5, <2>6 DEF Types, Places
  <2>8. CASE at' = "dropped"
    BY <2>7, <2>8, Stopped
  <2>9. CASE at' = "toNear"
    <3>1. FarRegistered'
      BY <1>1, <2>4, <2>5 DEF FarRegistered
    <3>2. Returned'
      BY <1>1, <2>6, <2>9, <3>1 DEF Returned
    <3>3. BackOnTheLink' /\ Answered'
      BY <1>1, <2>3, <2>9 DEF BackOnTheLink, Answered
    <3>4. RequestReachesItsTarget'
      BY <1>1, <2>9 DEF RequestReachesItsTarget
    <3> QED
      BY <2>7, <2>9, <3>2, <3>3, <3>4
         DEF RelayInv, AsSent, OnTheLink, Requested, AtServer, ByItsVias, Delivered
  <2> QED
    BY <2>6, <2>8, <2>9
<1> QED
  BY <1>4, <1>5 DEF IncomingResponse

(* The near tunnel hands it to the client. *)
LEMMA OutgoingResponseStep ==
  ASSUME RelayInv, OutgoingResponse
  PROVE  RelayInv'
<1>1. /\ at = "toNear" /\ Types /\ RequestReachesItsTarget
      /\ ch = from /\ sent.vias # <<>> /\ msg.vias = Tail(Push(sent.vias, from)) /\ FarRegistered
      /\ msg.callId = answer.callId /\ msg.type = answer.type /\ msg.body = answer.body
      /\ answer.body \in Bodies
      /\ UNCHANGED <<sent, from, ch, target, media, heard, answer>>
  BY DEF OutgoingResponse, RelayInv, Returned, BackOnTheLink, Answered
<1>2. CASE ~(Parsed(msg).valid /\ LengthFits(msg))
  <2>1. at' = "dropped" /\ msg' = msg
    BY <1>2 DEF OutgoingResponse
  <2>2. known' = known
    <3>1. known' = [known EXCEPT !["near"] = known["near"]]
      BY <1>2 DEF OutgoingResponse
    <3> QED
      BY <1>1, <3>1 DEF Types
  <2>3. Types'
    BY <1>1, <2>1, <2>2 DEF Types, Places
  <2> QED
    BY <2>1, <2>3, Stopped
<1>3. CASE Parsed(msg).valid /\ LengthFits(msg)
  <2>1. /\ at' = "delivered" /\ msg' = WithBody(msg, OutgoingBody("near", msg))
        /\ Call("near", msg)
    BY <1>3 DEF OutgoingResponse, Call
  <2>2. /\ DOMAIN msg' = Fields /\ msg'.vias = msg.vias /\ msg'.hops = msg.hops
        /\ msg'.body = OutgoingBody("near", msg) /\ msg'.length = Length(msg'.body)
    <3>1. PICK m, body : m = msg /\ body = OutgoingBody("near", msg)
      OBVIOUS
    <3>2. msg' = WithBody(m, body) /\ DOMAIN m = Fields
      BY <1>1, <2>1, <3>1 DEF Types
    <3>3. /\ DOMAIN msg' = Fields /\ msg'.body = body /\ msg'.length = Length(body)
          /\ msg'.vias = m.vias /\ msg'.hops = m.hops
      BY <3>2, WithBodyIs
    <3> QED
      BY <3>1, <3>3
  <2>3. /\ known' \in [Sides -> BOOLEAN] /\ known'["far"] = known["far"]
        /\ HasSdp("near", msg) <=> msg.callId /\ known'["near"] /\ msg.type = "sdp"
    BY <1>1, <2>1, SdpIfKnown DEF Sides
  <2>4. Types'
    BY <1>1, <2>1, <2>2, <2>3 DEF Types, Places
  <2>5. Returned'
    BY <1>1, <2>2, <2>3 DEF Returned, FarRegistered
  <2>6. Delivered'
    BY <1>1, <2>2, <2>3 DEF Delivered, OutgoingBody
  <2>7. Answered'
    BY <1>1, <2>1 DEF Answered
  <2>8. RequestReachesItsTarget'
    BY <1>1, <2>1 DEF RequestReachesItsTarget
  <2> QED
    BY <2>1, <2>4, <2>5, <2>6, <2>7, <2>8
       DEF RelayInv, AsSent, OnTheLink, Requested, AtServer, ByItsVias, BackOnTheLink
<1> QED
  BY <1>2, <1>3

-----------------------------------------------------------------------------
(* The theorems. *)

\* The media of a well-formed body that has gone out through side.
LEMMA SentMedia ==
  ASSUME NEW side \in Addrs, NEW b \in Seq(Lines), WellFormed(b)
  PROVE  MediaOf(Outgoing(b, side, PortsOf(side))) = AtPortsOf(side, b)
<1>1. PICK ports \in [Nat -> Nat] : ports = PortsOf(side)
  BY PortsAre
<1>2. MediaOf(Outgoing(b, side, ports)) =
        [n \in 1 .. MediaLines(b) |-> [addr |-> side, port |-> ports[n]]]
  BY OutgoingMedia
<1> QED
  BY <1>1, <1>2 DEF AtPortsOf

\* Every step keeps the invariant.
LEMMA RelayStep ==
  ASSUME RelayInv, [Next]_vars
  PROVE  RelayInv'
<1>1. ASSUME UNCHANGED vars PROVE RelayInv'
  BY <1>1 DEF vars, RelayInv, Types, NearRegistered, FarRegistered, AsSent, OnTheLink, Requested,
              AtServer, ByItsVias, Answered, Returned, BackOnTheLink, Delivered,
              RequestReachesItsTarget
<1> QED
  BY <1>1, IncomingRequestStep, OutgoingRequestStep, AnswerStep, IncomingResponseStep,
     OutgoingResponseStep DEF Next

\* The inductive invariant.
LEMMA RelayInvariant == Spec => []RelayInv
<1>1. Init => RelayInv
  BY RelayInit
<1>2. RelayInv /\ [Next]_vars => RelayInv'
  BY RelayStep
<1> QED
  BY <1>1, <1>2, PTL DEF Spec

\* TypeOK holds for every set of requests, replies and channels.
THEOREM RelayTypeCorrect == Spec => []TypeOK
<1>1. RelayInv => TypeOK
  <2> SUFFICES ASSUME RelayInv PROVE TypeOK
    OBVIOUS
  <2>1. Types
    BY DEF RelayInv
  <2>2. ToSet(msg.vias) \subseteq Vias
    <3>1. \A i \in DOMAIN msg.vias : msg.vias[i] \in Vias
      BY <2>1, LenProperties, ElementOfSeq DEF Types
    <3> QED
      BY <3>1 DEF ToSet
  <2>3. ASSUME NEW s \in Sides PROVE \A line \in ToSet(media[s]) : line.port \in Nat
    <3>1. media[s] \in Seq(MediaType)
      BY <2>1 DEF Types
    <3>2. \A i \in DOMAIN media[s] : media[s][i] \in MediaType
      BY <3>1, LenProperties, ElementOfSeq
    <3> QED
      BY <3>2 DEF ToSet, MediaType
  <2> QED
    BY <2>1, <2>2, <2>3 DEF TypeOK, Types, Vias, Hops
<1> QED
  BY <1>1, RelayInvariant, PTL

\* A response comes back to the endpoint its request came from, with the Via
\* line of the request if that had just one.
THEOREM ReturnsToSenderHolds == Spec => []ReturnsToSender
<1>1. RelayInv => ReturnsToSender
  <2> SUFFICES ASSUME RelayInv, at = "delivered"
               PROVE  ch = from /\ (Len(sent.vias) = 1 => msg.vias = sent.vias)
    BY DEF ReturnsToSender
  <2>1. ch = from /\ msg.vias = Tail(Push(sent.vias, from)) /\ Types
    BY DEF RelayInv, Returned
  <2>2. sent.vias \in Seq(Vias) /\ from \in Channels
    BY <2>1, RequestIs DEF Types
  <2> QED
    BY <2>1, <2>2, PushIs
<1> QED
  BY <1>1, RelayInvariant, PTL

\* A request that leaves the far tunnel gets to the SIP server it means if its
\* To line has the form <sip:user@host> with a host to connect to, to the local
\* host only if that line is none the expressions match, and kills the tunnel
\* only if its URI has no user or no host that resolves.
THEOREM RequestReachesItsTargetHolds == Spec => []RequestReachesItsTarget
<1>1. RelayInv => RequestReachesItsTarget
  BY DEF RelayInv
<1> QED
  BY <1>1, RelayInvariant, PTL

\* For every well-formed SDP body, of any length, both tunnels agree on where
\* each line's media goes, and the length they state is the one they send.
THEOREM MediaAgreesHolds == Spec => []MediaAgrees
<1>1. RelayInv => MediaAgrees
  <2> SUFFICES ASSUME RelayInv, known["near"], known["far"] PROVE MediaAgrees
    BY DEF MediaAgrees
  <2>1. ASSUME at = "server", sent.callId, sent.type = "sdp", WellFormed(sent.body)
        PROVE  /\ media["near"] = MediaOf(sent.body)
               /\ MediaOf(msg.body) = AtPortsOf("far", sent.body)
               /\ msg.length = Length(msg.body)
    <3>1. PICK b : b = sent.body
      OBVIOUS
    <3>2. b \in Seq(Lines) /\ WellFormed(b)
      BY <2>1, <3>1, RequestIs, BodyLines DEF RelayInv, Types
    <3>3. /\ media["near"] = Incoming(b) /\ msg.body = Outgoing(b, "far", PortsOf("far"))
          /\ msg.length = Length(msg.body)
      BY <2>1, <3>1 DEF RelayInv, AtServer, Requested, NearRegistered
    <3>4. MediaOf(msg.body) = AtPortsOf("far", b)
      <4>1. "far" \in Addrs
        BY RelayAssumption DEF Sides
      <4>2. MediaOf(Outgoing(b, "far", PortsOf("far"))) = AtPortsOf("far", b)
        BY <3>2, <4>1, SentMedia, Zenon
      <4> QED
        BY <3>3, <4>2
    <3> QED
      BY <3>1, <3>2, <3>3, <3>4, IncomingIsMediaOf
  <2>2. ASSUME at = "delivered", answer.callId, answer.type = "sdp", WellFormed(answer.body)
        PROVE  /\ media["far"] = MediaOf(answer.body)
               /\ MediaOf(msg.body) = AtPortsOf("near", answer.body)
               /\ msg.length = Length(msg.body)
    <3>1. PICK b : b = answer.body
      OBVIOUS
    <3>2. b \in Seq(Lines) /\ WellFormed(b)
      BY <2>2, <3>1, BodyLines DEF RelayInv, Answered
    <3>3. /\ media["far"] = Incoming(b) /\ msg.body = Outgoing(b, "near", PortsOf("near"))
          /\ msg.length = Length(msg.body)
      BY <2>2, <3>1 DEF RelayInv, Delivered, Returned, FarRegistered
    <3>4. MediaOf(msg.body) = AtPortsOf("near", b)
      <4>1. "near" \in Addrs
        BY RelayAssumption DEF Sides
      <4>2. MediaOf(Outgoing(b, "near", PortsOf("near"))) = AtPortsOf("near", b)
        BY <3>2, <4>1, SentMedia, Zenon
      <4> QED
        BY <3>3, <4>2
    <3> QED
      BY <3>1, <3>2, <3>3, <3>4, IncomingIsMediaOf
  <2> QED
    BY <2>1, <2>2 DEF MediaAgrees
<1> QED
  BY <1>1, RelayInvariant, PTL

-----------------------------------------------------------------------------
(* Start lines. *)

\* The recursion over the characters defines a function.
LEMMA SearchIs ==
  ASSUME NEW S, NEW text \in Seq(S)
  PROVE  SearchOver(text) =
           [n \in 0 .. Len(text) |->
              IF n = 0 THEN [row |-> 1, at |-> 0, read |-> 0]
              ELSE Advance(SearchOver(text)[n - 1], text[n])]
<1> DEFINE First == [row |-> 1, at |-> 0, read |-> 0]
           Is(g, k) ==
             g = [n \in 0 .. k |-> IF n = 0 THEN First ELSE Advance(g[n - 1], text[n])]
           G == {k \in Nat : \E g : Is(g, k)}
<1>1. 0 \in G
  <2>1. PICK g : g = [n \in 0 .. 0 |-> First]
    OBVIOUS
  <2>2. Is(g, 0)
    BY <2>1
  <2> QED
    BY <2>2
<1>2. ASSUME NEW k \in Nat, k \in G PROVE k + 1 \in G
  <2>1. PICK g : Is(g, k)
    BY <1>2
  <2>2. PICK h : h = [n \in 0 .. k + 1 |-> IF n <= k THEN g[n] ELSE Advance(g[k], text[k + 1])]
    OBVIOUS
  <2>3. ASSUME NEW n \in 0 .. k + 1
        PROVE  h[n] = IF n = 0 THEN First ELSE Advance(h[n - 1], text[n])
    <3>1. CASE n = 0
      BY <2>1, <2>2, <3>1
    <3>2. CASE n # 0 /\ n <= k
      <4>1. n - 1 \in 0 .. k /\ n - 1 <= k /\ n - 1 \in 0 .. k + 1 /\ n \in 0 .. k
        BY <3>2
      <4>2. h[n - 1] = g[n - 1] /\ h[n] = g[n]
        BY <2>2, <3>2, <4>1
      <4> QED
        BY <2>1, <3>2, <4>1, <4>2
    <3>3. CASE n = k + 1
      BY <2>2, <3>3
    <3> QED
      BY <3>1, <3>2, <3>3
  <2>4. Is(h, k + 1)
    BY <2>2, <2>3
  <2> HIDE DEF Is
  <2> QED
    BY <2>4
<1>3. Len(text) \in G
  <2>1. Len(text) \in Nat /\ G \in SUBSET Nat
    BY LenProperties
  <2>2. \A n \in 0 .. Len(text) : n \in G
    <3> HIDE DEF G
    <3> QED
      BY <1>1, <1>2, <2>1, Induction
  <2> QED
    BY <2>1, <2>2
<1>4. Is(SearchOver(text), Len(text))
  BY <1>3 DEF SearchOver
<1> QED
  BY <1>4

\* The characters of the methods.
Letters == {"A", "B", "C", "E", "G", "I", "K", "L", "N", "O", "P", "R", "S", "T", "V", "Y"}
IsWord(w) ==
  /\ Len(w) \in Nat /\ Len(w) >= 3 /\ DOMAIN w = 1 .. Len(w)
  /\ \A i \in 1 .. Len(w) : w[i] \in Letters
IsSequence(w) == w = [i \in 1 .. Len(w) |-> w[i]]

\* A blank is no letter of a method,
LEMMA BlankIsNoLetter == Space \notin Letters
BY DEF Space, Letters

\* and no digit.
LEMMA BlankIsNoDigit == Space \notin Digits
BY DEF Space, Digits

\* The methods have different first letters, none of them that of SIP.
LEMMA TableIs ==
  /\ DOMAIN Table = 1 .. 6 /\ Len(Table) = 6
  /\ \A r \in 1 .. 6 : IsWord(Table[r]) /\ IsSequence(Table[r]) /\ Table[r][1] # "S"
  /\ \A r, q \in 1 .. 6 : Table[r][1] = Table[q][1] => r = q
<1>1. DOMAIN Table = 1 .. 6 /\ Len(Table) = 6
  BY DEF Table
<1>2. \A r \in 1 .. 6 : IsWord(Table[r])
  <2>1. \A w \in {Table[1], Table[2], Table[3], Table[4], Table[5], Table[6]} : IsWord(w)
    BY DEF IsWord, Letters, Table
  <2> QED
    BY <2>1
<1>6. \A r \in 1 .. 6 : IsSequence(Table[r])
  <2>1. \A w \in {Table[1], Table[2], Table[3], Table[4], Table[5], Table[6]} : IsSequence(w)
    BY DEF IsSequence, Table
  <2> QED
    BY <2>1
<1>3. /\ Table[1][1] = "R" /\ Table[2][1] = "I" /\ Table[3][1] = "A"
      /\ Table[4][1] = "C" /\ Table[5][1] = "B" /\ Table[6][1] = "O"
  BY DEF Table
<1>4. \A r \in 1 .. 6 : Table[r][1] # "S"
  BY <1>3
<1>5. \A r, q \in 1 .. 6 : Table[r][1] = Table[q][1] => r = q
  BY <1>3
<1> QED
  BY <1>1, <1>2, <1>4, <1>5, <1>6

\* The search is at a position of a row.
Searching(s, row, pos, read) == s = [row |-> row, at |-> pos, read |-> read]

\* A method that is found stays found.
LEMMA FoundStays ==
  ASSUME NEW row \in 1 .. 6, NEW char, NEW s, Searching(s, row, Len(Table[row]), Len(Table[row]))
  PROVE  Advance(s, char) = s
<1>1. s.row = row /\ s.at = Len(Table[row])
  BY DEF Searching
<1>2. s.row \in DOMAIN Table
  BY <1>1, TableIs
<1> QED
  BY <1>1, <1>2 DEF Advance

\* What a character does to it.
LEMMA AdvanceIs ==
  ASSUME NEW row \in 1 .. 6, NEW pos \in Nat, pos <= Len(Table[row]), NEW read \in Nat,
         NEW char, NEW s, Searching(s, row, pos, read)
  PROVE  /\ pos = Len(Table[row]) => Advance(s, char) = s
         /\ pos < Len(Table[row]) /\ Table[row][pos + 1] = char =>
              Searching(Advance(s, char), row, pos + 1, read + 1)
         /\ pos < Len(Table[row]) /\ Table[row][pos + 1] # char =>
              \/ /\ \A r \in 1 .. 6 : r > row => Table[r][1] # char
                 /\ Searching(Advance(s, char), 7, pos, read)
              \/ \E r \in 1 .. 6 : /\ r > row /\ Table[r][1] = char
                                   /\ Searching(Advance(s, char), r, 1, read + 1)
<1>1. s = [row |-> row, at |-> pos, read |-> read] /\ s.row = row /\ s.at = pos /\ s.read = read
  BY DEF Searching
<1>2. DOMAIN Table = 1 .. 6 /\ Len(Table) = 6 /\ s.row \in DOMAIN Table
  BY <1>1, TableIs
<1>3. PICK word : word = Table[row]
  OBVIOUS
<1>4. Len(word) \in Nat /\ pos <= Len(word)
  BY <1>3, TableIs DEF IsWord
<1>5. CASE pos = Len(word)
  <2>1. Advance(s, char) = s
    BY <1>1, <1>2, <1>3, <1>5 DEF Advance
  <2> QED
    BY <1>3, <1>4, <1>5, <2>1
<1>6. CASE pos < Len(word) /\ word[pos + 1] = char
  <2>1. pos # Len(word)
    BY <1>4, <1>6
  <2>2. Advance(s, char) = [s EXCEPT !.at = s.at + 1, !.read = @ + 1]
    BY <1>1, <1>2, <1>3, <1>6, <2>1 DEF Advance
  <2> QED
    BY <1>1, <1>3, <1>6, <2>1, <2>2 DEF Searching
<1>7. CASE pos < Len(word) /\ word[pos + 1] # char
  <2> DEFINE first == {r \in DOMAIN Table : r > s.row /\ Table[r][1] = char}
  <2>1. pos # Len(word)
    BY <1>4, <1>7
  <2>2. Advance(s, char) =
          IF first = {} THEN [s EXCEPT !.row = Len(Table) + 1]
          ELSE [row |-> CHOOSE r \in first : \A o \in first : r <= o, at |-> 1,
                read |-> s.read + 1]
    BY <1>1, <1>2, <1>3, <1>7, <2>1 DEF Advance
  <2>3. CASE first = {}
    <3>1. Searching(Advance(s, char), 7, pos, read)
      BY <1>1, <1>2, <2>2, <2>3 DEF Searching
    <3>2. \A r \in 1 .. 6 : r > row => Table[r][1] # char
      BY <1>1, <1>2, <2>3
    <3> QED
      BY <1>3, <1>7, <2>1, <3>1, <3>2
  <2>4. CASE first # {}
    <3>1. \E x \in first : \A y \in first : x <= y
      <4>1. first \in SUBSET Nat
        BY <1>2
      <4> HIDE DEF first
      <4> QED
        BY <2>4, <4>1, LeastNat
    <3>2. PICK r \in first : r = CHOOSE x \in first : \A o \in first : x <= o
      <4> HIDE DEF first
      <4> QED
        BY <3>1
    <3>3. Searching(Advance(s, char), r, 1, read + 1)
      <4> HIDE DEF first
      <4> QED
        BY <1>1, <2>2, <2>4, <3>2 DEF Searching
    <3>4. r \in 1 .. 6 /\ r > row /\ Table[r][1] = char
      BY <1>1, <1>2
    <3> QED
      BY <1>3, <1>7, <2>1, <3>3, <3>4
  <2> QED
    BY <2>3, <2>4
<1> QED
  BY <1>3, <1>4, <1>5, <1>6, <1>7

\* Below the table nothing changes any more.
LEMMA UnknownStays ==
  ASSUME NEW pos, NEW read, NEW s, NEW char, Searching(s, 7, pos, read)
  PROVE  Advance(s, char) = s
<1>1. s.row = 7 /\ DOMAIN Table = 1 .. 6
  BY TableIs DEF Searching
<1>2. s.row \notin DOMAIN Table
  BY <1>1
<1> QED
  BY <1>2 DEF Advance

\* One more character.
LEMMA SearchStep ==
  ASSUME NEW S, NEW text \in Seq(S)
  PROVE  /\ Searching(SearchOver(text)[0], 1, 0, 0)
         /\ \A n \in Nat : n < Len(text) =>
              SearchOver(text)[n + 1] = Advance(SearchOver(text)[n], text[n + 1])
<1>1. PICK f : f = SearchOver(text)
  OBVIOUS
<1>2. f = [n \in 0 .. Len(text) |->
             IF n = 0 THEN [row |-> 1, at |-> 0, read |-> 0] ELSE Advance(f[n - 1], text[n])]
  BY <1>1, SearchIs
<1>3. Len(text) \in Nat
  BY LenProperties
<1>4. Searching(f[0], 1, 0, 0)
  BY <1>2, <1>3 DEF Searching
<1>5. ASSUME NEW n \in Nat, n < Len(text) PROVE f[n + 1] = Advance(f[n], text[n + 1])
  <2>1. n + 1 \in 0 .. Len(text) /\ n + 1 # 0 /\ (n + 1) - 1 = n
    BY <1>3, <1>5
  <2>2. f[n + 1] = Advance(f[(n + 1) - 1], text[n + 1])
    BY <1>2, <2>1
  <2> QED
    BY <2>1, <2>2
<1> QED
  BY <1>1, <1>4, <1>5

\* Every method at the beginning of a text is found, although the search never
\* goes back: the methods differ in their first letters (parse).
THEOREM MethodsAreFound ==
  ASSUME NEW S, NEW text \in Seq(S), NEW r \in DOMAIN Table, IsPrefix(Table[r], text)
  PROVE  Parse(text) = Request(Names[r])
<1>1. r \in 1 .. 6 /\ Len(Table[r]) \in Nat /\ Len(Table[r]) >= 3 /\ Len(text) \in Nat
  BY TableIs, LenProperties DEF IsWord
<1>2. /\ Len(Table[r]) <= Len(text)
      /\ \A i \in 1 .. Len(Table[r]) : text[i] = Table[r][i]
  <2>1. Len(Table[r]) <= Len(text) /\ SubSeq(Table[r], 1, Len(Table[r])) = SubSeq(text, 1, Len(Table[r]))
    BY DEF IsPrefix
  <2>2. ASSUME NEW i \in 1 .. Len(Table[r])
        PROVE  /\ SubSeq(Table[r], 1, Len(Table[r]))[i] = Table[r][i]
               /\ SubSeq(text, 1, Len(Table[r]))[i] = text[i]
    BY <1>1
  <2> QED
    BY <2>1, <2>2
<1>3. PICK k \in Nat : k = Len(Table[r])
  BY <1>1
<1>4. PICK f : f = SearchOver(text)
  OBVIOUS
<1>5. /\ Searching(f[0], 1, 0, 0)
      /\ \A n \in Nat : n < Len(text) => f[n + 1] = Advance(f[n], text[n + 1])
  BY <1>4, SearchStep
<1> DEFINE At(n) == IF n < k THEN n ELSE k
           G == {n \in Nat : n = 0 \/ Searching(f[n], r, At(n), At(n))}
<1>6. 0 \in G /\ G \in SUBSET Nat
  OBVIOUS
<1>7. ASSUME NEW n \in Nat, n < Len(text), n \in G PROVE n + 1 \in G
  <2>1. f[n + 1] = Advance(f[n], text[n + 1]) /\ n + 1 \in Nat
    BY <1>5, <1>7
  <2>2. CASE n = 0
    <3>1. text[1] = Table[r][1] /\ f[1] = Advance(f[0], text[1])
      BY <1>1, <1>2, <2>1, <2>2
    <3>2. 0 < Len(Table[1]) /\ 0 <= Len(Table[1])
      BY TableIs DEF IsWord
    <3>3. CASE r = 1
      <4>1. Searching(f[1], 1, 0 + 1, 0 + 1)
        BY <1>5, <3>1, <3>2, <3>3, AdvanceIs
      <4> QED
        BY <1>1, <1>3, <2>2, <3>3, <4>1
    <3>4. CASE r # 1
      <4>1. Table[1][0 + 1] # Table[r][1]
        BY <1>1, <3>4, TableIs
      <4>2. PICK q \in 1 .. 6 : q > 1 /\ Table[q][1] = text[1] /\ Searching(f[1], q, 1, 0 + 1)
        <5>1. \/ \A q \in 1 .. 6 : q > 1 => Table[q][1] # text[1]
              \/ \E q \in 1 .. 6 : /\ q > 1 /\ Table[q][1] = text[1]
                                   /\ Searching(Advance(f[0], text[1]), q, 1, 0 + 1)
          BY <1>5, <3>1, <3>2, <4>1, AdvanceIs
        <5>2. r > 1
          BY <1>1, <3>4
        <5> QED
          BY <1>1, <3>1, <5>1, <5>2
      <4>3. q = r
        BY <1>1, <3>1, <4>2, TableIs
      <4> QED
        BY <1>1, <1>3, <2>2, <4>2, <4>3
    <3> QED
      BY <3>3, <3>4
  <2>3. CASE n # 0 /\ n < k
    <3>1. Searching(f[n], r, n, n)
      BY <1>7, <2>3
    <3>2. text[n + 1] = Table[r][n + 1]
      BY <1>2, <1>3, <2>3
    <3>3. n < Len(Table[r]) /\ n <= Len(Table[r]) /\ Table[r][n + 1] = text[n + 1]
      BY <1>3, <2>3, <3>2
    <3>4. Searching(Advance(f[n], text[n + 1]), r, n + 1, n + 1)
      BY <1>1, <3>1, <3>3, AdvanceIs
    <3>5. Searching(f[n + 1], r, n + 1, n + 1)
      BY <2>1, <3>4
    <3>6. At(n + 1) = n + 1
      BY <1>3, <2>3
    <3> QED
      BY <2>1, <3>5, <3>6
  <2>4. CASE n # 0 /\ ~(n < k)
    <3>1. At(n) = k /\ At(n + 1) = k
      BY <1>3, <2>4
    <3>2. Searching(f[n], r, k, k)
      BY <1>7, <2>4, <3>1
    <3>3. f[n + 1] = f[n]
      <4>1. r \in 1 .. 6 /\ k \in Nat /\ k <= Len(Table[r]) /\ k = Len(Table[r])
        BY <1>1, <1>3
      <4>2. Searching(f[n], r, Len(Table[r]), Len(Table[r]))
        BY <3>2, <4>1
      <4>3. Advance(f[n], text[n + 1]) = f[n]
        BY <4>1, <4>2, FoundStays
      <4> QED
        BY <2>1, <4>3
    <3> QED
      BY <2>1, <3>1, <3>2, <3>3
  <2> QED
    BY <2>2, <2>3, <2>4
<1>8. Len(text) \in G
  <2> HIDE DEF G
  <2>1. \A n \in 0 .. Len(text) : n \in G
    BY <1>1, <1>6, <1>7, Induction
  <2> QED
    BY <1>1, <2>1
<1>9. Search(text).row = r
  <2>1. Len(text) # 0
    BY <1>1, <1>2
  <2> QED
    BY <1>4, <1>8, <2>1 DEF Searching, Search
<1> QED
  BY <1>9 DEF Parse

\* A search that has left the table finds no request.
LEMMA Unknown ==
  ASSUME NEW S, NEW text \in Seq(S), NEW pos, NEW read, Searching(Search(text), 7, pos, read)
  PROVE  /\ ~Parse(text).request
         /\ LET code == CodeOf(text, read) IN
            Len(code) <= 3 /\ ToSet(code) \subseteq Digits => Parse(text) = Response(code)
<1>1. PICK s : s = Search(text)
  OBVIOUS
<1>2. s.row = 7 /\ s.read = read /\ s.row \notin DOMAIN Table
  BY <1>1, TableIs DEF Searching
<1>3. PICK code : code = CodeOf(text, read)
  OBVIOUS
<1>4. Parse(text) = CASE s.row \in DOMAIN Table -> Request(Names[s.row])
                      [] s.row \notin DOMAIN Table /\ Len(code) <= 3 /\ ToSet(code) \subseteq Digits
                           -> Response(code)
                      [] OTHER -> Invalid
  BY <1>1, <1>2, <1>3 DEF Parse
<1>5. CASE Len(code) <= 3 /\ ToSet(code) \subseteq Digits
  <2>1. Parse(text) = Response(code)
    BY <1>2, <1>4, <1>5
  <2>2. ~Response(code).request
    BY DEF Response
  <2> QED
    BY <1>3, <2>1, <2>2
<1>6. CASE ~(Len(code) <= 3 /\ ToSet(code) \subseteq Digits)
  <2>1. Parse(text) = Invalid
    BY <1>2, <1>4, <1>6
  <2> QED
    BY <1>3, <1>6, <2>1 DEF Invalid
<1> QED
  BY <1>5, <1>6

\* The characters read last are those the row begins with.
Matched(text, n, row, pos) ==
  /\ row \in 1 .. 6 /\ pos \in Nat /\ pos <= n /\ pos < Len(Table[row])
  /\ \A i \in 1 .. pos : text[n - pos + i] = Table[row][i]

\* One character more of them.
LEMMA MatchGrows ==
  ASSUME NEW text, NEW n \in Nat, NEW row \in 1 .. 6, NEW pos \in Nat, pos <= n,
         \A i \in 1 .. pos : text[n - pos + i] = Table[row][i],
         text[n + 1] = Table[row][pos + 1]
  PROVE  \A i \in 1 .. pos + 1 : text[(n + 1) - (pos + 1) + i] = Table[row][i]
<1> TAKE i \in 1 .. pos + 1
<1>1. CASE i \in 1 .. pos
  <2>1. (n + 1) - (pos + 1) + i = n - pos + i
    BY <1>1
  <2> QED
    BY <1>1, <2>1
<1>2. CASE i = pos + 1
  <2>1. (n + 1) - (pos + 1) + i = n + 1
    BY <1>2
  <2> QED
    BY <1>2, <2>1
<1> QED
  BY <1>1, <1>2

\* No method of the table stands before this blank.
BlankAt(text, b) ==
  /\ b \in 1 .. Len(text) /\ text[b] = Space
  /\ \A r \in DOMAIN Table : \A p \in 0 .. b - 1 :
       p + Len(Table[r]) < b => SubSeq(text, p + 1, p + Len(Table[r])) # Table[r]

\* The search has left the table, or is in a row before the blank.
HasLeft(s) == \E pos, read \in Nat : Searching(s, 7, pos, read)
IsBefore(text, b, n, s) ==
  /\ n < b
  /\ \E row, pos, read \in Nat : Matched(text, n, row, pos) /\ Searching(s, row, pos, read)

\* The place of a blank.
LEMMA BlankIs ==
  ASSUME NEW S, NEW text \in Seq(S), NEW b, BlankAt(text, b)
  PROVE  Len(text) \in Nat /\ b \in Nat /\ 0 < b /\ b <= Len(text) /\ text[b] = Space
<1>1. Len(text) \in Nat
  BY LenProperties
<1>2. b \in 1 .. Len(text) /\ text[b] = Space
  BY DEF BlankAt
<1> QED
  BY <1>1, <1>2

\* A letter is not the blank.
LEMMA LetterBefore ==
  ASSUME NEW S, NEW text \in Seq(S), NEW b, BlankAt(text, b), NEW n \in Nat, n < b,
         text[n + 1] \in Letters
  PROVE  n + 1 < b
<1>1. Len(text) \in Nat /\ b \in Nat /\ text[b] = Space
  BY BlankIs
<1>2. n + 1 # b
  BY <1>1, BlankIsNoLetter
<1>3. n + 1 = b \/ n + 1 < b
  BY <1>1
<1> QED
  BY <1>2, <1>3

\* It does not get through a row before the blank.
LEMMA MatchEndsEarly ==
  ASSUME NEW S, NEW text \in Seq(S), NEW b, BlankAt(text, b), NEW n \in Nat, n + 1 < b,
         NEW row \in 1 .. 6, NEW pos \in Nat, pos <= n, pos < Len(Table[row]),
         \A i \in 1 .. pos + 1 : text[(n + 1) - (pos + 1) + i] = Table[row][i]
  PROVE  pos + 1 < Len(Table[row])
<1> PICK word : word = Table[row]
  OBVIOUS
<1>1. IsSequence(word) /\ \E len \in Nat : len = Len(word)
  BY TableIs DEF IsWord
<1> PICK len \in Nat : len = Len(word)
  BY <1>1
<1> SUFFICES ASSUME pos + 1 = len PROVE FALSE
  BY <1>1
<1>2. Len(text) \in Nat /\ b \in Nat /\ b <= Len(text)
  BY BlankIs
<1>3. PICK p \in Nat : p = n - pos
  OBVIOUS
<1>4. /\ p \in 0 .. b - 1 /\ p + len < b /\ p + len <= Len(text)
      /\ (n + 1) - (pos + 1) = p
  BY <1>2, <1>3
<1>5. \A i \in 1 .. len : text[p + i] = word[i]
  BY <1>4
<1>6. SubSeq(text, p + 1, p + len) = word
  <2>1. PICK part : part = SubSeq(text, p + 1, p + len)
    OBVIOUS
  <2>2. part = [i \in 1 .. (p + len) - (p + 1) + 1 |-> text[(p + 1) + i - 1]]
    BY <2>1 DEF SubSeq
  <2>3. (p + len) - (p + 1) + 1 = len /\ \A i \in 1 .. len : (p + 1) + i - 1 = p + i
    BY <1>3
  <2>4. part = [i \in 1 .. len |-> word[i]]
    BY <1>5, <2>2, <2>3
  <2>5. word = [i \in 1 .. len |-> word[i]]
    BY <1>1 DEF IsSequence
  <2> QED
    BY <2>1, <2>4, <2>5
<1>7. p + Len(Table[row]) < b => SubSeq(text, p + 1, p + Len(Table[row])) # Table[row]
  BY <1>4, TableIs DEF BlankAt
<1> QED
  BY <1>1, <1>4, <1>6, <1>7

\* Before that blank a character leads on within the first word, or out of the table.
LEMMA ForeignStep ==
  ASSUME NEW S, NEW text \in Seq(S), NEW b, BlankAt(text, b), NEW n \in Nat,
         NEW s, IsBefore(text, b, n, s)
  PROVE  \/ HasLeft(Advance(s, text[n + 1]))
         \/ IsBefore(text, b, n + 1, Advance(s, text[n + 1]))
<1>1. PICK row \in Nat, pos \in Nat, read \in Nat :
        Matched(text, n, row, pos) /\ Searching(s, row, pos, read)
  BY DEF IsBefore
<1>2. /\ row \in 1 .. 6 /\ pos <= n /\ pos < Len(Table[row]) /\ n < b
      /\ \A i \in 1 .. pos : text[n - pos + i] = Table[row][i]
  BY <1>1 DEF Matched, IsBefore
<1>3. /\ Len(Table[row]) \in Nat /\ pos <= Len(Table[row])
      /\ pos + 1 \in 1 .. Len(Table[row]) /\ Table[row][pos + 1] \in Letters
  <2>1. Len(Table[row]) \in Nat /\ \A i \in 1 .. Len(Table[row]) : Table[row][i] \in Letters
    BY <1>2, TableIs DEF IsWord
  <2>2. pos + 1 \in 1 .. Len(Table[row]) /\ pos <= Len(Table[row])
    BY <1>2, <2>1
  <2> QED
    BY <2>1, <2>2
<1>4. PICK char, t : char = text[n + 1] /\ t = Advance(s, char)
  OBVIOUS
<1>5. CASE Table[row][pos + 1] = char
  <2>1. Searching(t, row, pos + 1, read + 1)
    BY <1>1, <1>2, <1>3, <1>4, <1>5, AdvanceIs
  <2>2. n + 1 < b
    BY <1>2, <1>3, <1>4, <1>5, LetterBefore
  <2>3. \A i \in 1 .. pos + 1 : text[(n + 1) - (pos + 1) + i] = Table[row][i]
    BY <1>2, <1>4, <1>5, MatchGrows
  <2>4. pos + 1 < Len(Table[row])
    BY <1>2, <2>2, <2>3, MatchEndsEarly
  <2>5. Matched(text, n + 1, row, pos + 1)
    BY <1>2, <2>3, <2>4 DEF Matched
  <2> QED
    BY <1>4, <2>1, <2>2, <2>5 DEF IsBefore
<1>6. CASE Table[row][pos + 1] # char
  <2>1. \/ Searching(t, 7, pos, read)
        \/ \E r \in 1 .. 6 : r > row /\ Table[r][1] = char /\ Searching(t, r, 1, read + 1)
    BY <1>1, <1>2, <1>3, <1>4, <1>6, AdvanceIs
  <2>2. CASE Searching(t, 7, pos, read)
    BY <1>4, <2>2 DEF HasLeft
  <2>3. CASE \E r \in 1 .. 6 : r > row /\ Table[r][1] = char /\ Searching(t, r, 1, read + 1)
    <3>1. PICK r \in 1 .. 6 : Table[r][1] = char /\ Searching(t, r, 1, read + 1)
      BY <2>3
    <3>2. Len(Table[r]) \in Nat /\ Len(Table[r]) >= 3 /\ Table[r][1] \in Letters
      <4>1. /\ Len(Table[r]) \in Nat /\ Len(Table[r]) >= 3
            /\ \A i \in 1 .. Len(Table[r]) : Table[r][i] \in Letters
        BY TableIs DEF IsWord
      <4> QED
        BY <4>1
    <3>3. n + 1 < b
      BY <1>2, <1>4, <3>1, <3>2, LetterBefore
    <3>4. Matched(text, n + 1, r, 1)
      <4>1. 1 <= n + 1 /\ 1 < Len(Table[r]) /\ (n + 1) - 1 + 1 = n + 1
        BY <3>2
      <4> QED
        BY <1>4, <3>1, <4>1 DEF Matched
    <3> QED
      BY <1>4, <3>1, <3>3, <3>4 DEF IsBefore
  <2> QED
    BY <2>1, <2>2, <2>3
<1> QED
  BY <1>5, <1>6

\* What has no method of the table before one of its blanks is no request.
LEMMA ForeignIsNoRequest ==
  ASSUME NEW S, NEW text \in Seq(S), IsForeign(text)
  PROVE  ~Parse(text).request
<1>1. Len(text) \in Nat /\ DOMAIN text = 1 .. Len(text)
  BY LenProperties
<1>2. PICK b : BlankAt(text, b)
  BY <1>1 DEF IsForeign, BlankAt
<1>3. PICK f : f = SearchOver(text)
  OBVIOUS
<1>4. /\ Searching(f[0], 1, 0, 0)
      /\ \A n \in Nat : n < Len(text) => f[n + 1] = Advance(f[n], text[n + 1])
  BY <1>3, SearchStep
<1> DEFINE G == {n \in Nat : HasLeft(f[n]) \/ IsBefore(text, b, n, f[n])}
<1>5. 0 \in G /\ G \in SUBSET Nat
  <2>1. Matched(text, 0, 1, 0)
    <3>1. 0 < Len(Table[1])
      BY TableIs DEF IsWord
    <3> QED
      BY <3>1 DEF Matched
  <2>2. b \in Nat /\ 0 < b
    BY <1>2, BlankIs
  <2> QED
    BY <1>4, <2>1, <2>2 DEF IsBefore
<1>6. ASSUME NEW n \in Nat, n < Len(text), n \in G PROVE n + 1 \in G
  <2>1. f[n + 1] = Advance(f[n], text[n + 1]) /\ n + 1 \in Nat
    BY <1>4, <1>6
  <2>2. CASE HasLeft(f[n])
    <3>1. f[n + 1] = f[n]
      BY <2>1, <2>2, UnknownStays DEF HasLeft
    <3> QED
      BY <2>1, <2>2, <3>1
  <2>3. CASE IsBefore(text, b, n, f[n])
    <3>1. \/ HasLeft(Advance(f[n], text[n + 1]))
          \/ IsBefore(text, b, n + 1, Advance(f[n], text[n + 1]))
      BY <1>2, <2>3, ForeignStep
    <3> QED
      BY <2>1, <3>1
  <2> QED
    BY <1>6, <2>2, <2>3
<1>7. Len(text) \in G
  <2> HIDE DEF G
  <2>1. \A n \in 0 .. Len(text) : n \in G
    BY <1>1, <1>5, <1>6, Induction
  <2> QED
    BY <1>1, <2>1
<1>8. HasLeft(f[Len(text)])
  <2>1. ~IsBefore(text, b, Len(text), f[Len(text)])
    BY <1>1, <1>2, BlankIs DEF IsBefore
  <2> QED
    BY <1>7, <2>1
<1>9. PICK pos \in Nat, read \in Nat : Searching(Search(text), 7, pos, read)
  BY <1>3, <1>8 DEF Search, HasLeft
<1> QED
  BY <1>9, Unknown

\* The first blank behind a place.
LEMMA FirstBlank ==
  ASSUME NEW text, NEW low \in Nat, NEW b \in Nat, low <= b, b <= Len(text),
         Len(text) \in Nat,
         text[b] = Space, \A i \in low .. b - 1 : text[i] # Space
  PROVE  NextBlank(text, low) = b
<1> DEFINE I == {i \in low .. Len(text) : text[i] = Space}
<1>1. NextBlank(text, low) = IF I # {} THEN Min(I) ELSE 0
  BY DEF NextBlank, SelectInSubSeq
<1>2. b \in I /\ \A i \in I : i \in Nat /\ b <= i
  <2>1. ASSUME NEW i \in I PROVE i \in Nat /\ b <= i
    <3>1. i \in low .. Len(text) /\ text[i] = Space /\ i \in Nat
      OBVIOUS
    <3>2. ~(i < b)
      BY <3>1
    <3> QED
      BY <3>1, <3>2
  <2> QED
    BY <2>1
<1>3. Min(I) = b
  <2>1. PICK m : m = Min(I)
    OBVIOUS
  <2>2. m \in I /\ \A y \in I : m <= y
    <3> HIDE DEF I
    <3> QED
      BY <1>2, <2>1 DEF Min
  <2>3. m <= b /\ b <= m /\ m \in Nat
    <3> HIDE DEF I
    <3> QED
      BY <1>2, <2>2
  <2> QED
    BY <2>1, <2>3
<1> QED
  BY <1>1, <1>2, <1>3

\* A status line is taken for a response.
LEMMA StatusIsResponse ==
  ASSUME NEW S, NEW text \in Seq(S), IsStatus(text)
  PROVE  Parse(text).valid /\ ~Parse(text).request
<1>1. Len(text) \in Nat /\ DOMAIN text = 1 .. Len(text)
  BY LenProperties
<1>2. PICK b \in 1 .. Len(text), e \in 1 .. Len(text) :
        /\ b < e /\ e <= b + 4 /\ text[b] = Space /\ text[e] = Space
        /\ \A i \in 1 .. b - 1 : text[i] # Space
        /\ \A i \in b + 1 .. e - 1 : text[i] \in Digits
  BY <1>1 DEF IsStatus
<1>3. PICK f : f = SearchOver(text)
  OBVIOUS
<1>4. /\ Searching(f[0], 1, 0, 0)
      /\ \A n \in Nat : n < Len(text) => f[n + 1] = Advance(f[n], text[n + 1])
  BY <1>3, SearchStep
<1> DEFINE G == {n \in Nat : n = 0 \/ Searching(f[n], 7, 0, 0)}
<1>5. Searching(f[1], 7, 0, 0)
  <2>1. f[1] = Advance(f[0], text[1]) /\ text[1] = "S"
    BY <1>1, <1>2, <1>4 DEF IsStatus
  <2>2. /\ 0 < Len(Table[1]) /\ 0 <= Len(Table[1])
        /\ \A r \in 1 .. 6 : Table[r][1] # text[1]
    BY <2>1, TableIs DEF IsWord
  <2>3. Table[1][0 + 1] # text[1]
    BY <2>2
  <2>4. \/ Searching(Advance(f[0], text[1]), 7, 0, 0)
        \/ \E r \in 1 .. 6 : Table[r][1] = text[1]
    BY <1>4, <2>2, <2>3, AdvanceIs
  <2> QED
    BY <2>1, <2>2, <2>4
<1>6. ASSUME NEW n \in Nat, n < Len(text), n \in G PROVE n + 1 \in G
  <2>1. f[n + 1] = Advance(f[n], text[n + 1]) /\ n + 1 \in Nat
    BY <1>4, <1>6
  <2>2. CASE n = 0
    BY <1>5, <2>2
  <2>3. CASE Searching(f[n], 7, 0, 0)
    <3>1. f[n + 1] = f[n]
      BY <2>1, <2>3, UnknownStays
    <3> QED
      BY <2>1, <2>3, <3>1
  <2> QED
    BY <1>6, <2>2, <2>3
<1>7. Searching(Search(text), 7, 0, 0)
  <2>1. Len(text) \in G /\ Len(text) # 0
    <3>1. 0 \in G /\ G \in SUBSET Nat
      OBVIOUS
    <3>2. \A n \in 0 .. Len(text) : n \in G
      <4> HIDE DEF G
      <4> QED
        BY <1>1, <1>6, <3>1, Induction
    <3> QED
      BY <1>1, <1>2, <3>2
  <2> QED
    BY <1>3, <2>1 DEF Search
<1>8. PICK code : code = CodeOf(text, 0)
  OBVIOUS
<1>9. code = SubSeq(text, b + 1, e - 1)
  <2>1. NextBlank(text, 1) = b
    BY <1>1, <1>2, FirstBlank
  <2>2. NextBlank(text, b + 1) = e
    <3>1. \A i \in b + 1 .. e - 1 : text[i] # Space
      BY <1>2, BlankIsNoDigit
    <3> QED
      BY <1>1, <1>2, <3>1, FirstBlank
  <2>3. b # 0 /\ e # 0 /\ 0 + 1 = 1
    BY <1>2
  <2> QED
    BY <1>8, <2>1, <2>2, <2>3 DEF CodeOf
<1>10. Len(code) <= 3 /\ ToSet(code) \subseteq Digits
  <2>1. code = [i \in 1 .. (e - 1) - (b + 1) + 1 |-> text[(b + 1) + i - 1]]
    BY <1>9 DEF SubSeq
  <2>2. PICK len \in Nat : len = (e - 1) - (b + 1) + 1 /\ len <= 3
    BY <1>2
  <2>3. Len(code) = len /\ DOMAIN code = 1 .. len
    BY <2>1, <2>2
  <2>4. ASSUME NEW i \in 1 .. len PROVE code[i] \in Digits
    <3>1. (b + 1) + i - 1 \in b + 1 .. e - 1
      BY <1>2, <2>2
    <3>2. code[i] = text[(b + 1) + i - 1]
      BY <2>1, <2>2
    <3> QED
      BY <1>2, <3>1, <3>2
  <2> QED
    BY <2>2, <2>3, <2>4 DEF ToSet
<1>11. Parse(text) = Response(code)
  BY <1>7, <1>8, <1>10, Unknown
<1>12. Response(code).valid /\ ~Response(code).request
  BY DEF Response
<1> QED
  BY <1>11, <1>12

-----------------------------------------------------------------------------
(* What passes. *)

\* The table of parsed start lines has what parse returns.
LEMMA ParsedIs ==
  ASSUME NEW m, m.start \in StartLines
  PROVE  Parsed(m) = Parse(m.start)
BY DEF Parsed, ParsedStart

\* The start lines are sequences of characters, and parsed as such.
LEMMA RequestStart ==
  ASSUME NEW r \in Requests
  PROVE  r.start \in Seq(STRING) /\ r.start \in StartLines /\ Parsed(r) = Parse(r.start)
<1>1. r.start \in Seq(STRING)
  BY RelayAssumption
<1>2. r.start \in StartLines
  BY DEF StartLines
<1> QED
  BY <1>1, <1>2, ParsedIs

\* So are those of the replies.
LEMMA ReplyStart ==
  ASSUME NEW r \in Replies
  PROVE  /\ r.start \in Seq(STRING) /\ r.start \in StartLines /\ Parsed(r) = Parse(r.start)
         /\ r.body \in Bodies
<1>1. r.start \in Seq(STRING) /\ r.body \in Bodies
  BY RelayAssumption
<1>2. r.start \in StartLines
  BY DEF StartLines
<1> QED
  BY <1>1, <1>2, ParsedIs

\* A method with a blank behind it is a method.
LEMMA MethodAtFront ==
  ASSUME NEW text \in Seq(STRING), NEW r \in DOMAIN Table, IsPrefix(Table[r] \o <<Space>>, text)
  PROVE  IsPrefix(Table[r], text) /\ text # <<>>
<1>1. PICK word \in Seq(Letters \cup {Space}) : word = Table[r] /\ Len(word) >= 3
  <2>1. r \in 1 .. 6
    BY TableIs
  <2>2. PICK word : word = Table[r]
    OBVIOUS
  <2>3. /\ Len(word) \in Nat /\ Len(word) >= 3 /\ \A i \in 1 .. Len(word) : word[i] \in Letters
        /\ word = [i \in 1 .. Len(word) |-> word[i]]
    BY <2>1, <2>2, TableIs DEF IsWord, IsSequence
  <2>4. word \in Seq(Letters \cup {Space})
    BY <2>3, SeqDef
  <2> QED
    BY <2>2, <2>3, <2>4
<1>2. PICK long \in Seq(Letters \cup {Space}) : long = word \o <<Space>>
  <2>1. PICK blank : blank = <<Space>>
    OBVIOUS
  <2>2. blank \in Seq(Letters \cup {Space})
    BY <2>1
  <2>3. word \o blank \in Seq(Letters \cup {Space})
    BY <1>1, <2>2
  <2> QED
    BY <2>1, <2>3
<1>3. /\ Len(word) \in Nat /\ Len(text) \in Nat /\ Len(long) = Len(word) + 1
      /\ \A i \in 1 .. Len(word) : long[i] = word[i]
  BY <1>1, <1>2, LenProperties
<1>4. Len(long) <= Len(text) /\ SubSeq(long, 1, Len(long)) = SubSeq(text, 1, Len(long))
  BY <1>1, <1>2 DEF IsPrefix
<1>5. ASSUME NEW i \in 1 .. Len(word) PROVE text[i] = word[i]
  <2>1. i \in 1 .. Len(long)
    BY <1>3
  <2>2. SubSeq(long, 1, Len(long))[i] = long[i] /\ SubSeq(text, 1, Len(long))[i] = text[i]
    BY <1>3, <1>4, <2>1
  <2> QED
    BY <1>3, <1>4, <2>2
<1>6. SubSeq(word, 1, Len(word)) = [i \in 1 .. Len(word) |-> word[i]]
  BY <1>1, <1>3
<1>7. SubSeq(text, 1, Len(word)) = [i \in 1 .. Len(word) |-> text[i]]
  BY <1>3, <1>4
<1>8. Len(word) <= Len(text) /\ Len(text) # 0
  BY <1>1, <1>3, <1>4
<1> QED
  BY <1>1, <1>5, <1>6, <1>7, <1>8 DEF IsPrefix

\* A request with a method of the table is taken for one.
LEMMA MethodPasses ==
  ASSUME NEW m \in Requests, HasMethod(m)
  PROVE  Parsed(m).valid /\ Parsed(m).request /\ m.start # <<>>
<1>1. PICK r \in DOMAIN Table : IsPrefix(Table[r] \o <<Space>>, m.start)
  BY DEF HasMethod
<1>2. PICK text \in Seq(STRING) : text = m.start /\ Parsed(m) = Parse(text)
  BY RequestStart
<1>3. IsPrefix(Table[r], text) /\ text # <<>>
  BY <1>1, <1>2, MethodAtFront
<1>4. Parse(text) = Request(Names[r])
  BY <1>3, MethodsAreFound
<1> QED
  BY <1>2, <1>3, <1>4 DEF Request

\* Of the start lines SIP knows only those are.
LEMMA RequestsAreMeant ==
  ASSUME ProperStarts, NEW m \in Requests, Parsed(m).request
  PROVE  HasMethod(m) \/ m.start = <<>>
<1>1. m.start \in Seq(STRING) /\ ~IsForeign(m.start)
  BY RequestStart, ForeignIsNoRequest
<1> QED
  BY <1>1 DEF ProperStarts

\* A status line is taken for a response.
LEMMA RepliesAreMeant ==
  ASSUME ProperStarts, NEW reply \in Replies
  PROVE  Parsed(reply).valid /\ ~Parsed(reply).request
<1>1. IsStatus(reply.start)
  BY DEF ProperStarts
<1> QED
  BY <1>1, ReplyStart, StatusIsResponse

\* The length of a body is a number, and the one stated fits.
LEMMA LengthIs ==
  ASSUME NEW body \in Bodies
  PROVE  Length(body) \in Nat /\ (body = <<>> => Length(body) = 0)
<1>1. body \in Seq(Lines)
  BY BodyLines
<1>2. PICK n \in Nat : n = Len(body) /\ DOMAIN body = 1 .. n
  BY <1>1, LenProperties
<1>3. IsFiniteSet(1 .. n) /\ Cardinality(1 .. n) \in Nat
  BY FS_Interval, FS_CardinalityType
<1>4. PICK T : T = {i \in DOMAIN body : body[i].end}
  OBVIOUS
<1>5. IsFiniteSet(T) /\ Cardinality(T) \in Nat
  BY <1>2, <1>3, <1>4, FS_Subset, FS_CardinalityType
<1>6. Length(body) = Cardinality(1 .. n) + Cardinality(T)
  BY <1>2, <1>4 DEF Length
<1>7. ASSUME body = <<>> PROVE Length(body) = 0
  <2>1. 1 .. n = {} /\ T = {}
    BY <1>2, <1>4, <1>7
  <2> QED
    BY <1>6, <2>1, FS_EmptySet
<1> QED
  BY <1>3, <1>5, <1>6, <1>7

\* A length that is written as found fits, and so does none with no body.
LEMMA FitsAsWritten ==
  ASSUME NEW m, m.body \in Bodies,
         m.length = Length(m.body) \/ (m.body = <<>> /\ m.length = None)
  PROVE  LengthFits(m)
<1>1. PICK n \in Nat : n = Length(m.body) /\ (m.body = <<>> => n = 0)
  BY LengthIs
<1> QED
  BY <1>1 DEF LengthFits, None

\* What is known of the message where it may be dropped.
PassInv ==
  /\ at \notin {"client", "dropped", "rejected"} => Parsed(sent).request
  /\ at = "toFar" => LengthFits(msg) /\ msg.start = FirstLine(sent.start)
  /\ at \in {"answered", "toNear"} =>
       /\ LengthFits(msg) /\ msg.start = answer.start
       /\ \E reply \in Replies : answer.start = reply.start
  /\ at = "dropped" => ProperMessagesPass

\* A response is not the request.
LEMMA AnswerDiffers ==
  ASSUME ProperStarts, NEW s \in Requests, HasMethod(s), NEW a,
         NEW reply \in Replies, a.start = reply.start
  PROVE  a # s /\ Parsed(a).valid /\ Parsed(a) = Parsed(reply)
<1>1. Parsed(a) = Parsed(reply)
  BY DEF Parsed
<1> QED
  BY <1>1, RepliesAreMeant, MethodPasses

\* The near tunnel drops no request with one of the methods.
LEMMA IncomingRequestPasses ==
  ASSUME ProperStarts, RelayInv, PassInv, IncomingRequest
  PROVE  PassInv'
<1>1. /\ at = "client" /\ msg = sent /\ Types /\ UNCHANGED <<sent, answer>>
  BY DEF IncomingRequest, RelayInv, AsSent
<1>2. /\ sent \in Requests /\ DOMAIN msg = Fields /\ msg.body \in Bodies
  BY <1>1, RequestIs DEF Types
<1>3. CASE at' = "dropped" /\ (~Parsed(msg).request \/ ~LengthFits(msg))
  <2>1. ~(HasMethod(sent) /\ LengthFits(sent))
    BY <1>1, <1>2, <1>3, MethodPasses
  <2> QED
    BY <1>1, <1>3, <2>1 DEF PassInv, ProperMessagesPass, HasMethod, LengthFits
<1>4. CASE at' = "rejected"
  BY <1>4 DEF PassInv
<1>5. CASE /\ Parsed(msg).request /\ at' = "toFar"
           /\ msg' = WithBody([msg EXCEPT !.start = FirstLine(@), !.to = Blank(@),
                                           !.hops = Fewer(@)], msg.body)
  <2>1. PICK m, new : /\ m = [msg EXCEPT !.start = FirstLine(@), !.to = Blank(@), !.hops = Fewer(@)]
                      /\ new = WithBody(m, msg.body)
    OBVIOUS
  <2>2. DOMAIN m = Fields /\ m.start = FirstLine(sent.start)
    <3>1. m = [msg EXCEPT !.start = FirstLine(@), !.to = Blank(@), !.hops = Fewer(@)]
      BY <2>1
    <3>2. DOMAIN m = Fields /\ m.start = FirstLine(msg.start)
      BY <1>2, <3>1 DEF Fields
    <3> QED
      BY <1>1, <3>2
  <2>3. new.body = msg.body /\ new.length = Length(msg.body) /\ new.start = m.start
    <3>1. PICK body : body = msg.body
      OBVIOUS
    <3>2. DOMAIN m = Fields
      BY <2>2
    <3>3. new = WithBody(m, body)
      BY <2>1, <3>1
    <3>4. /\ WithBody(m, body).body = body /\ WithBody(m, body).length = Length(body)
          /\ WithBody(m, body).start = m.start
      BY <3>2, WithBodyIs
    <3> QED
      BY <3>1, <3>3, <3>4
  <2>4. LengthFits(new)
    BY <1>2, <2>3, FitsAsWritten
  <2>5. msg' = new
    BY <1>5, <2>1
  <2>6. LengthFits(msg)' /\ msg'.start = FirstLine(sent.start)
    BY <2>2, <2>3, <2>4, <2>5 DEF LengthFits
  <2> QED
    BY <1>1, <1>5, <2>6 DEF PassInv, Parsed
<1> QED
  BY <1>3, <1>4, <1>5 DEF IncomingRequest

\* Nor does the far tunnel.
LEMMA OutgoingRequestPasses ==
  ASSUME ProperStarts, RelayInv, PassInv, OutgoingRequest
  PROVE  PassInv'
<1>1. /\ at = "toFar" /\ Types /\ UNCHANGED <<sent, answer>>
      /\ LengthFits(msg) /\ msg.start = FirstLine(sent.start) /\ Parsed(sent).request
  BY DEF OutgoingRequest, RelayInv, PassInv
<1>2. sent \in Requests
  BY <1>1 DEF Types
<1>3. CASE at' = "dropped" /\ (~Parsed(msg).valid \/ ~LengthFits(msg))
  <2>1. ~HasMethod(sent)
    <3> SUFFICES ASSUME HasMethod(sent) PROVE FALSE
      OBVIOUS
    <3>1. Parsed(sent).valid /\ sent.start # <<>>
      BY <1>2, MethodPasses
    <3>2. Parsed(msg) = Parsed(sent)
      BY <1>1, <3>1 DEF Parsed, FirstLine
    <3> QED
      BY <1>1, <1>3, <3>1, <3>2
  <2> QED
    BY <1>1, <1>3, <2>1 DEF PassInv, ProperMessagesPass, HasMethod
<1>4. CASE at' \in {"server", "dead", "astray"}
  BY <1>1, <1>4 DEF PassInv, Parsed
<1>5. \/ at' = "dropped" /\ (~Parsed(msg).valid \/ ~LengthFits(msg))
      \/ at' \in {"server", "dead", "astray"}
  <2>1. PICK to : to = Fill(msg.to)
    OBVIOUS
  <2>2. Reached(to) \in {"server", "dead", "astray"}
    <3>1. msg.to = Blank(sent.to) /\ sent.to \in Tos
      BY <1>1, <1>2, RequestIs DEF RelayInv, OnTheLink
    <3> QED
      BY <2>1, <3>1, TargetIs
  <2> QED
    BY <2>1, <2>2 DEF OutgoingRequest
<1> QED
  BY <1>3, <1>4, <1>5

\* The answer of the SIP server has one of the replies' start lines.
LEMMA AnswerPasses ==
  ASSUME ProperStarts, RelayInv, PassInv, NEW reply \in Replies, Answer(reply)
  PROVE  PassInv'
<1>1. /\ at = "server" /\ at' = "answered" /\ Types /\ answer' = msg' /\ sent' = sent
      /\ Parsed(sent).request
  BY DEF Answer, RelayInv, PassInv
<1>2. reply.body \in Bodies
  BY ReplyStart
<1>3. PICK m : m = [msg EXCEPT !.start = reply.start, !.cseq = Parsed(msg).method,
                               !.type = reply.type, !.body = reply.body,
                               !.length = IF reply.body = <<>> THEN None
                                          ELSE Length(reply.body)]
  OBVIOUS
<1>4. msg' = m
  BY <1>3 DEF Answer
<1>5. /\ m.start = reply.start /\ m.body = reply.body
      /\ m.length = IF reply.body = <<>> THEN None ELSE Length(reply.body)
  BY <1>1, <1>3 DEF Types, Fields
<1>6. LengthFits(m)
  BY <1>2, <1>5, FitsAsWritten
<1>7. LengthFits(msg)' /\ msg'.start = reply.start
  BY <1>4, <1>5, <1>6 DEF LengthFits
<1> QED
  BY <1>1, <1>7 DEF PassInv, Parsed

\* The far tunnel drops a 100 Trying, and a response without a Via line.
LEMMA IncomingResponsePasses ==
  ASSUME ProperStarts, RelayInv, PassInv, IncomingResponse
  PROVE  PassInv'
<1>1. /\ at = "answered" /\ Types /\ UNCHANGED <<sent, answer>>
      /\ msg = answer /\ answer.body \in Bodies /\ msg.vias = Push(sent.vias, from)
      /\ LengthFits(msg) /\ Parsed(sent).request
  BY DEF IncomingResponse, RelayInv, PassInv, ByItsVias, Answered
<1>2. PICK reply \in Replies : answer.start = reply.start
  BY <1>1 DEF PassInv
<1>3. sent \in Requests /\ sent.vias \in Seq(Vias) /\ from \in Channels
  BY <1>1, RequestIs DEF Types
<1>4. CASE at' = "dropped" /\ (~Parsed(msg).valid \/ Parsed(msg).class = "trying")
  <2>1. HasMethod(sent) => answer # sent /\ Parsed(answer).class = "trying"
    BY <1>1, <1>2, <1>3, <1>4, AnswerDiffers
  <2> QED
    BY <1>1, <1>4, <2>1 DEF PassInv, ProperMessagesPass, HasMethod, Parsed
<1>5. CASE at' = "dropped" /\ ~(msg.vias # <<>> /\ msg.vias[1].by = "tunnel")
  <2>1. sent.vias = <<>>
    <3> SUFFICES ASSUME sent.vias # <<>> PROVE FALSE
      OBVIOUS
    <3>1. msg.vias # <<>> /\ msg.vias[1] = TunnelVia(from)
      BY <1>1, <1>3, PushIs
    <3>2. TunnelVia(from).by = "tunnel"
      BY DEF TunnelVia
    <3> QED
      BY <1>5, <3>1, <3>2
  <2> QED
    BY <1>1, <1>5, <2>1 DEF PassInv, ProperMessagesPass
<1>6. CASE /\ at' = "toNear"
           /\ msg' = WithBody([msg EXCEPT !.vias = IF @ = <<>> THEN @ ELSE Tail(@)], msg.body)
  <2>1. PICK m, new : /\ m = [msg EXCEPT !.vias = IF @ = <<>> THEN @ ELSE Tail(@)]
                      /\ new = WithBody(m, msg.body)
    OBVIOUS
  <2>2. DOMAIN m = Fields /\ m.start = msg.start
    <3>1. m = [msg EXCEPT !.vias = IF @ = <<>> THEN @ ELSE Tail(@)]
      BY <2>1
    <3>2. DOMAIN msg = Fields
      BY <1>1 DEF Types
    <3> QED
      BY <3>1, <3>2 DEF Fields
  <2>3. new.body = msg.body /\ new.length = Length(msg.body) /\ new.start = m.start
    <3>1. PICK body : body = msg.body
      OBVIOUS
    <3>2. DOMAIN m = Fields
      BY <2>2
    <3>3. new = WithBody(m, body)
      BY <2>1, <3>1
    <3>4. /\ WithBody(m, body).body = body /\ WithBody(m, body).length = Length(body)
          /\ WithBody(m, body).start = m.start
      BY <3>2, WithBodyIs
    <3> QED
      BY <3>1, <3>3, <3>4
  <2>4. LengthFits(new)
    BY <1>1, <2>3, FitsAsWritten
  <2>5. msg' = new
    BY <1>6, <2>1
  <2>6. LengthFits(msg)' /\ msg'.start = answer.start
    BY <1>1, <2>2, <2>3, <2>4, <2>5 DEF LengthFits
  <2> QED
    BY <1>1, <1>2, <1>6, <2>6 DEF PassInv, Parsed
<1> QED
  BY <1>1, <1>4, <1>5, <1>6 DEF IncomingResponse

\* The near tunnel drops no response.
LEMMA OutgoingResponsePasses ==
  ASSUME ProperStarts, RelayInv, PassInv, OutgoingResponse
  PROVE  PassInv'
<1>1. /\ at = "toNear" /\ Types /\ UNCHANGED <<sent, answer>>
      /\ LengthFits(msg) /\ msg.start = answer.start /\ Parsed(sent).request
  BY DEF OutgoingResponse, RelayInv, PassInv
<1>2. PICK reply \in Replies : answer.start = reply.start
  BY <1>1 DEF PassInv
<1>3. Parsed(msg).valid
  BY <1>1, <1>2, RepliesAreMeant DEF Parsed
<1>4. at' = "delivered"
  BY <1>1, <1>3 DEF OutgoingResponse
<1> QED
  BY <1>1, <1>4 DEF PassInv, Parsed

\* Every step keeps what is known of the message.
LEMMA PassStep ==
  ASSUME ProperStarts, RelayInv, PassInv, [Next]_vars
  PROVE  PassInv'
<1>1. ASSUME UNCHANGED vars PROVE PassInv'
  BY <1>1 DEF vars, PassInv, ProperMessagesPass, HasMethod, LengthFits, Parsed
<1> QED
  BY <1>1, IncomingRequestPasses, OutgoingRequestPasses, AnswerPasses, IncomingResponsePasses,
     OutgoingResponsePasses DEF Next

\* With start lines SIP knows: only requests with one of the six methods get onto
\* the link, none of them is dropped on its way, and neither is its response.
THEOREM ProperMessagesPassHolds ==
  ASSUME ProperStarts
  PROVE  Spec => []ProperMessagesPass
<1>1. Init => PassInv
  BY DEF Init, PassInv
<1>2. RelayInv /\ PassInv /\ [Next]_vars => PassInv'
  BY PassStep
<1>3. RelayInv /\ PassInv => ProperMessagesPass
  <2> SUFFICES ASSUME RelayInv, PassInv PROVE ProperMessagesPass
    OBVIOUS
  <2>1. sent \in Requests
    BY DEF RelayInv, Types
  <2>2. CASE at = "dropped"
    BY <2>2 DEF PassInv
  <2>3. CASE at \in {"client", "rejected"}
    BY <2>3 DEF ProperMessagesPass
  <2>4. CASE at \notin {"client", "dropped", "rejected"}
    BY <2>1, <2>4, RequestsAreMeant DEF PassInv, ProperMessagesPass
  <2> QED
    BY <2>2, <2>3, <2>4
<1> QED
  BY <1>1, <1>2, <1>3, RelayInvariant, PTL DEF Spec
=============================================================================
