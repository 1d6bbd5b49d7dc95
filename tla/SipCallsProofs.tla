---------------------------- MODULE SipCallsProofs ----------------------------
(***************************************************************************)
(* Proofs about SipCalls, for any calls, ports and bounds, and for a link  *)
(* of either kind: the types, the agreement of _dataPortMap with _callMap, *)
(* and that media never reaches another call or line; and for a link that  *)
(* keeps the order, that no handler meets a NULL element and that the      *)
(* lines of an answered call are linked.                                   *)
(***************************************************************************)
EXTENDS SipCalls, SequenceTheorems, TLAPS

\* The tables of the two processes have their types.
TablesOK ==
  /\ up \in [Sides -> BOOLEAN]
  /\ calls \in [Sides -> [Calls -> {NoCall} \cup Vectors]]
  /\ onServer \in SUBSET Calls
  /\ portMap \in [Sides -> [Ports -> (Calls \X (1 .. MaxLines)) \cup {NoConn}]]
  /\ released \in [Sides -> SUBSET Calls]
  /\ freed \in [Sides -> SUBSET Ports]

\* A SetupData of side s tells the truth: unless s has closed the port since,
\* it belongs to the line of the call the message names.
Honest(s, q) ==
  \A j \in DOMAIN q :
    q[j].type = "Setup" /\ q[j].port \notin freed[s]
      => portMap[s][q[j].port] = <<q[j].call, q[j].idx>>

WireHonest == \A s \in Sides : Honest(s, wire[s])

CallInv == TypeOK /\ PortMapMatchesCalls /\ WireHonest /\ NoCrossTalk

-----------------------------------------------------------------------------
(* Tables. *)

\* What a line of a call holds is a connection or NULL.
LEMMA VectorType ==
  ASSUME TablesOK, NEW s \in Sides, NEW k \in Calls
  PROVE  /\ Vector(s, k) \in Vectors
         /\ Vector(s, k) \in Seq(Connections \cup {Hole})
         /\ Len(Vector(s, k)) \in 0 .. MaxLines
         /\ DOMAIN Vector(s, k) = 1 .. Len(Vector(s, k))
         /\ \A i \in DOMAIN Vector(s, k) :
              Vector(s, k)[i] # Hole => /\ Vector(s, k)[i] \in Connections
                                        /\ Vector(s, k)[i].port \in Ports
<1>1. <<>> \in Vectors
  BY SipCallsAssumption DEF Vectors
<1>2. Vector(s, k) \in Vectors
  BY <1>1 DEF TablesOK, Vector
<1> QED
  BY <1>2, SipCallsAssumption DEF Vectors, Connections

\* What the next lemma needs to know of the new vector v of call k: it keeps
\* the ports it had; what is new is NULL, or has a fresh port of its own and
\* is registered.
Extends(v, s, k, is) ==
  LET old == Vector(s, k) IN
  /\ v \in Vectors /\ Len(old) <= Len(v) /\ is \subseteq DOMAIN v
  /\ \A i \in is : v[i] # Hole
  /\ \A i \in DOMAIN old : /\ v[i] = Hole <=> old[i] = Hole
                           /\ v[i] # Hole => v[i].port = old[i].port
  /\ \A i \in DOMAIN v \ DOMAIN old :
       v[i] # Hole => i \in is /\ v[i].port \notin InUse(s)
  /\ \A i, j \in DOMAIN v \ DOMAIN old :
       v[i] # Hole /\ v[j] # Hole /\ v[i].port = v[j].port => i = j

\* Registering such a vector keeps the port map right and every port that was
\* registered as it was.
LEMMA RegisterStep ==
  ASSUME TablesOK, PortMapMatchesCalls,
         NEW s \in Sides, NEW k \in Calls, NEW is, NEW v,
         Extends(v, s, k, is), SetVector(s, k, v), Register(s, k, is, v)
  PROVE  /\ calls' \in [Sides -> [Calls -> {NoCall} \cup Vectors]]
         /\ portMap' \in [Sides -> [Ports -> (Calls \X (1 .. MaxLines)) \cup {NoConn}]]
         /\ calls'[Other(s)] = calls[Other(s)] /\ portMap'[Other(s)] = portMap[Other(s)]
         /\ Vector(s, k)' = v
         /\ \A c \in Calls \ {k} : Vector(s, c)' = Vector(s, c)
         /\ \A p \in Ports : portMap[s][p] # NoConn => portMap'[s][p] = portMap[s][p]
         /\ \A i \in is : portMap'[s][v[i].port] = <<k, i>>
         /\ PortMapMatchesCalls'
<1> DEFINE old == Vector(s, k)
<1> USE SipCallsAssumption, NullsAssumption
<1>1. /\ v \in Vectors /\ Len(v) \in 0 .. MaxLines /\ DOMAIN v = 1 .. Len(v)
      /\ \A i \in DOMAIN v : v[i] # Hole => v[i].port \in Ports
      /\ is \subseteq 1 .. MaxLines
  BY DEF Extends, Vectors, Connections
<1>2. /\ old \in Vectors /\ Len(old) \in 0 .. MaxLines /\ DOMAIN old = 1 .. Len(old)
      /\ \A i \in DOMAIN old : old[i] # Hole => old[i].port \in Ports
  BY VectorType
<1>3. DOMAIN old \subseteq DOMAIN v
  BY <1>1, <1>2 DEF Extends
<1>4. /\ calls' \in [Sides -> [Calls -> {NoCall} \cup Vectors]]
      /\ calls'[Other(s)] = calls[Other(s)]
      /\ calls'[s][k] = v /\ \A c \in Calls \ {k} : calls'[s][c] = calls[s][c]
  BY <1>1 DEF SetVector, TablesOK, Other, Sides
<1>5. /\ Vector(s, k)' = v
      /\ \A c \in Calls \ {k} : Vector(s, c)' = Vector(s, c)
      /\ \A c \in Calls : Vector(Other(s), c)' = Vector(Other(s), c)
  BY <1>1, <1>4 DEF Vector
\* The ports of v are different from each other.
<1>6. ASSUME NEW i \in DOMAIN v, NEW j \in DOMAIN v, v[i] # Hole, v[j] # Hole,
             v[i].port = v[j].port
      PROVE  i = j
  <2>1. ASSUME NEW n \in DOMAIN old, v[n] # Hole
        PROVE  Has(s, k, n, v[n].port) /\ v[n].port \in Ports /\ n \in 1 .. MaxLines
    BY <1>1, <1>2, <1>3, <2>1 DEF Extends, Has
  <2>2. CASE i \in DOMAIN old /\ j \in DOMAIN old
    <3>1. portMap[s][v[i].port] = <<k, i>> /\ portMap[s][v[j].port] = <<k, j>>
      BY <1>6, <2>1, <2>2 DEF PortMapMatchesCalls
    <3> QED
      BY <1>6, <3>1
  <2>3. CASE i \in DOMAIN old /\ j \notin DOMAIN old
    <3>1. v[i].port \in InUse(s)
      BY <1>6, <2>1, <2>3 DEF InUse
    <3> QED
      BY <1>6, <2>3, <3>1 DEF Extends
  <2>4. CASE i \notin DOMAIN old /\ j \in DOMAIN old
    <3>1. v[j].port \in InUse(s)
      BY <1>6, <2>1, <2>4 DEF InUse
    <3> QED
      BY <1>6, <2>4, <3>1 DEF Extends
  <2>5. CASE i \notin DOMAIN old /\ j \notin DOMAIN old
    BY <1>6, <2>5 DEF Extends
  <2> QED
    BY <2>2, <2>3, <2>4, <2>5
<1>7. /\ portMap'[Other(s)] = portMap[Other(s)]
      /\ \A p \in Ports : portMap'[s][p] =
           IF \E i \in is : v[i].port = p THEN <<k, CHOOSE i \in is : v[i].port = p>>
           ELSE portMap[s][p]
      /\ portMap' = [portMap EXCEPT ![s] = portMap'[s]]
      /\ portMap'[s] = [p \in Ports |-> portMap'[s][p]]
  BY DEF Register, TablesOK, Other, Sides
<1>8. ASSUME NEW p \in Ports, NEW i \in is, v[i].port = p
      PROVE  portMap'[s][p] = <<k, i>>
  <2>1. \A j \in is : v[j].port = p => j = i
    BY <1>6, <1>8 DEF Extends
  <2>2. (CHOOSE j \in is : v[j].port = p) = i
    BY <1>8, <2>1
  <2> QED
    BY <1>7, <1>8, <2>2
<1>9. ASSUME NEW p \in Ports, \A i \in is : v[i].port # p
      PROVE  portMap'[s][p] = portMap[s][p]
  BY <1>7, <1>9
<1>10. portMap' \in [Sides -> [Ports -> (Calls \X (1 .. MaxLines)) \cup {NoConn}]]
  <2>1. ASSUME NEW p \in Ports
        PROVE  portMap'[s][p] \in (Calls \X (1 .. MaxLines)) \cup {NoConn}
    <3>1. portMap[s][p] \in (Calls \X (1 .. MaxLines)) \cup {NoConn}
      BY DEF TablesOK
    <3>2. ASSUME NEW i \in is, v[i].port = p
          PROVE  portMap'[s][p] \in Calls \X (1 .. MaxLines)
      <4>1. i \in 1 .. MaxLines /\ portMap'[s][p] = <<k, i>>
        BY <1>1, <1>8, <3>2
      <4> QED
        BY <4>1
    <3> QED
      BY <1>9, <3>1, <3>2
  <2> QED
    BY <1>7, <2>1 DEF TablesOK
\* A registered port of v was new or has stayed with its line.
<1>11. ASSUME NEW p \in Ports, portMap[s][p] # NoConn
       PROVE  portMap'[s][p] = portMap[s][p]
  <2>1. PICK c \in Calls, n \in 1 .. MaxLines : portMap[s][p] = <<c, n>>
    BY <1>11 DEF TablesOK
  <2>2. Has(s, c, n, p) /\ p \in InUse(s)
    BY <2>1 DEF PortMapMatchesCalls, InUse
  <2>3. ASSUME NEW i \in is, v[i].port = p PROVE c = k /\ n = i
    <3>1. i \in DOMAIN old /\ old[i] # Hole /\ old[i].port = p
      BY <2>2, <2>3, <1>3 DEF Extends
    <3>2. Has(s, k, i, p) /\ i \in 1 .. MaxLines
      BY <1>1, <3>1 DEF Has
    <3>3. portMap[s][p] = <<k, i>>
      BY <3>2 DEF PortMapMatchesCalls
    <3> QED
      BY <2>1, <3>3
  <2> QED
    BY <1>8, <1>9, <2>1, <2>3
<1>12. ASSUME NEW p \in Ports, NEW c \in Calls, NEW n \in 1 .. MaxLines
       PROVE  portMap'[s][p] = <<c, n>> <=> Has(s, c, n, p)'
  <2>0. Has(s, c, n, p)' <=> /\ n \in DOMAIN Vector(s, c)' /\ Vector(s, c)'[n] # Hole
                             /\ Vector(s, c)'[n].port = p
    BY DEF Has
  <2>1. CASE c # k
    <3>1. Has(s, c, n, p)' <=> Has(s, c, n, p)
      BY <1>5, <2>0, <2>1 DEF Has
    <3>2. ASSUME Has(s, c, n, p) PROVE portMap'[s][p] = <<c, n>>
      <4>1. portMap[s][p] = <<c, n>>
        BY <3>2 DEF PortMapMatchesCalls
      <4> QED
        BY <1>11, <4>1
    <3>3. ASSUME portMap'[s][p] = <<c, n>> PROVE Has(s, c, n, p)
      <4>1. \A i \in is : v[i].port # p
        BY <1>8, <2>1, <3>3
      <4> QED
        BY <1>9, <3>3, <4>1 DEF PortMapMatchesCalls
    <3> QED
      BY <3>1, <3>2, <3>3
  <2>2. CASE c = k
    <3>1. Has(s, k, n, p)' <=> n \in DOMAIN v /\ v[n] # Hole /\ v[n].port = p
      BY <1>5, <2>0, <2>2
    <3>2. ASSUME n \in DOMAIN v, v[n] # Hole, v[n].port = p
          PROVE  portMap'[s][p] = <<k, n>>
      <4>1. CASE n \in is
        BY <1>8, <3>2, <4>1
      <4>2. CASE n \notin is
        <5>1. n \in DOMAIN old /\ old[n] # Hole /\ old[n].port = p
          BY <3>2, <4>2 DEF Extends
        <5>2. portMap[s][p] = <<k, n>>
          BY <5>1 DEF PortMapMatchesCalls, Has
        <5> QED
          BY <1>11, <5>2
      <4> QED
        BY <4>1, <4>2
    <3>3. ASSUME portMap'[s][p] = <<k, n>>
          PROVE  n \in DOMAIN v /\ v[n] # Hole /\ v[n].port = p
      <4>1. CASE \E i \in is : v[i].port = p
        <5>1. PICK i \in is : v[i].port = p
          BY <4>1
        <5>2. portMap'[s][p] = <<k, i>>
          BY <1>8, <5>1
        <5>3. i = n
          BY <3>3, <5>2
        <5> QED
          BY <5>1, <5>3 DEF Extends
      <4>2. CASE ~\E i \in is : v[i].port = p
        <5>1. portMap[s][p] = <<k, n>>
          BY <1>9, <3>3, <4>2
        <5>2. n \in DOMAIN old /\ old[n] # Hole /\ old[n].port = p
          BY <5>1 DEF PortMapMatchesCalls, Has
        <5> QED
          BY <1>3, <5>2 DEF Extends
      <4> QED
        BY <4>1, <4>2
    <3> QED
      BY <2>2, <3>1, <3>2, <3>3
  <2> QED
    BY <2>1, <2>2
<1>13. ASSUME NEW p \in Ports, NEW c \in Calls, NEW n \in 1 .. MaxLines
       PROVE  portMap'[Other(s)][p] = <<c, n>> <=> Has(Other(s), c, n, p)'
  <2>1. Has(Other(s), c, n, p)' <=> Has(Other(s), c, n, p)
    BY <1>5 DEF Has
  <2>2. Other(s) \in Sides
    BY DEF Other, Sides
  <2> QED
    BY <1>7, <2>1, <2>2 DEF PortMapMatchesCalls
<1>14. PortMapMatchesCalls'
  <2>1. \A o \in Sides : o = s \/ o = Other(s)
    BY DEF Other, Sides
  <2> QED
    BY <1>12, <1>13, <2>1 DEF PortMapMatchesCalls
<1>15. \A i \in is : portMap'[s][v[i].port] = <<k, i>>
  BY <1>1, <1>8 DEF Extends
<1> QED
  BY <1>4, <1>5, <1>7, <1>10, <1>11, <1>14, <1>15

\* What every handler of side s does to the tables: the other side keeps its
\* own; a port that was registered stays with its line or is closed; a
\* connection has the peer it had, none, or one that a SetupData names.
TableStep(s) ==
  /\ TablesOK'
  /\ PortMapMatchesCalls'
  /\ calls'[Other(s)] = calls[Other(s)]
  /\ portMap'[Other(s)] = portMap[Other(s)]
  /\ freed'[Other(s)] = freed[Other(s)]
  /\ \A p \in Ports \ freed'[s] :
       /\ p \notin freed[s]
       /\ portMap[s][p] # NoConn => portMap'[s][p] = portMap[s][p]
  /\ \A k \in Calls : \A n \in DOMAIN Vector(s, k)' :
       LET c == Vector(s, k)'[n] IN
       c # Hole =>
         \/ c.peer = NoPort
         \/ /\ n \in DOMAIN Vector(s, k) /\ Vector(s, k)[n] # Hole
            /\ Vector(s, k)[n].peer = c.peer
         \/ \E j \in DOMAIN wire[Other(s)] : wire[Other(s)][j] = Setup(k, n, c.peer)

\* The value of a free port is no connection.
LEMMA NoConnIsNoPair == \A c \in Calls, n \in 1 .. MaxLines : NoConn # <<c, n>>
<1>1. \A c \in Calls, n \in 1 .. MaxLines : <<c, n>> \in Calls \X (1 .. MaxLines)
  OBVIOUS
<1> QED
  BY <1>1, NullsAssumption

\* The two sides.
LEMMA OtherSide ==
  ASSUME NEW s \in Sides
  PROVE  Other(s) \in Sides /\ Other(s) # s /\ Other(Other(s)) = s
         /\ \A o \in Sides : o = s \/ o = Other(s)
BY DEF Sides, Other

\* A handler that leaves the tables alone.
LEMMA IdleTables ==
  ASSUME TablesOK, PortMapMatchesCalls, NEW s \in Sides,
         UNCHANGED <<up, calls, onServer, portMap, released, freed>>
  PROVE  TableStep(s)
BY DEF TableStep, TablesOK, PortMapMatchesCalls, Has, Vector

\* Erasing a call closes and unregisters all of its connections.
LEMMA EraseStep ==
  ASSUME TablesOK, PortMapMatchesCalls, NEW s \in Sides, NEW k \in Calls,
         ~HasHole(Vector(s, k), Len(Vector(s, k))), Erase(s, k)
  PROVE  TableStep(s)
<1> DEFINE v == Vector(s, k)
<1> USE SipCallsAssumption, NullsAssumption
<1>1. /\ DOMAIN v = 1 .. Len(v) /\ Len(v) \in 0 .. MaxLines
      /\ \A i \in DOMAIN v : v[i] # Hole /\ v[i].port \in Ports
  BY VectorType DEF HasHole
<1>2. /\ calls' \in [Sides -> [Calls -> {NoCall} \cup Vectors]]
      /\ calls'[Other(s)] = calls[Other(s)]
      /\ calls'[s][k] = NoCall /\ \A c \in Calls \ {k} : calls'[s][c] = calls[s][c]
  BY OtherSide DEF Erase, SetVector, TablesOK
<1>3. /\ Vector(s, k)' = <<>>
      /\ \A c \in Calls \ {k} : Vector(s, c)' = Vector(s, c)
      /\ \A c \in Calls : Vector(Other(s), c)' = Vector(Other(s), c)
  BY <1>2 DEF Vector
<1>4. /\ portMap' = [portMap EXCEPT ![s] = portMap'[s]]
      /\ portMap'[s] = [p \in Ports |-> portMap'[s][p]]
      /\ portMap'[Other(s)] = portMap[Other(s)]
      /\ \A p \in Ports : portMap'[s][p] =
           IF \E i \in DOMAIN v : v[i].port = p THEN NoConn ELSE portMap[s][p]
  BY OtherSide DEF Erase, Unregister, TablesOK
<1>a. ASSUME NEW p \in Ports, NEW i \in DOMAIN v, v[i].port = p
      PROVE  portMap'[s][p] = NoConn
  BY <1>4, <1>a
<1>b. ASSUME NEW p \in Ports, \A i \in DOMAIN v : v[i].port # p
      PROVE  portMap'[s][p] = portMap[s][p]
  BY <1>4, <1>b
<1>c. ASSUME NEW p \in Ports, NEW n
      PROVE  Has(s, k, n, p) <=> n \in DOMAIN v /\ v[n] # Hole /\ v[n].port = p
  BY DEF Has
<1>5. /\ freed'[s] = freed[s] \cup {v[i].port : i \in DOMAIN v}
      /\ freed'[Other(s)] = freed[Other(s)]
      /\ freed' \in [Sides -> SUBSET Ports]
  BY <1>1, OtherSide DEF Erase, TablesOK
<1> HIDE DEF v
<1>6. TablesOK'
  <2>1. portMap' \in [Sides -> [Ports -> (Calls \X (1 .. MaxLines)) \cup {NoConn}]]
    <3>1. \A p \in Ports : portMap[s][p] \in (Calls \X (1 .. MaxLines)) \cup {NoConn}
      BY DEF TablesOK
    <3>2. \A p \in Ports : portMap'[s][p] \in (Calls \X (1 .. MaxLines)) \cup {NoConn}
      BY <1>a, <1>b, <3>1
    <3>3. portMap \in [Sides -> [Ports -> (Calls \X (1 .. MaxLines)) \cup {NoConn}]]
      BY DEF TablesOK
    <3>4. portMap'[s] \in [Ports -> (Calls \X (1 .. MaxLines)) \cup {NoConn}]
      BY <1>4, <3>2
    <3>5. portMap' = [portMap EXCEPT ![s] = portMap'[s]]
      BY <1>4
    <3> QED
      BY <3>3, <3>4, <3>5
  <2>2. onServer' \in SUBSET Calls /\ released' \in [Sides -> SUBSET Calls]
        /\ up' \in [Sides -> BOOLEAN]
    BY DEF Erase, TablesOK
  <2> QED
    BY <1>2, <1>5, <2>1, <2>2 DEF TablesOK
<1>7. ASSUME NEW p \in Ports, NEW c \in Calls, NEW n \in 1 .. MaxLines
      PROVE  portMap'[s][p] = <<c, n>> <=> Has(s, c, n, p)'
  <2>1. CASE c = k
    <3>1. ~Has(s, c, n, p)'
      BY <1>3, <2>1 DEF Has
    <3>2. ASSUME portMap'[s][p] = <<c, n>> PROVE FALSE
      <4>1. \A i \in DOMAIN v : v[i].port # p
        BY <1>a, <3>2, NoConnIsNoPair
      <4>2. portMap[s][p] = <<k, n>>
        BY <1>b, <2>1, <3>2, <4>1
      <4>3. Has(s, k, n, p)
        BY <4>2 DEF PortMapMatchesCalls
      <4> QED
        BY <1>c, <4>1, <4>3
    <3> QED
      BY <3>1, <3>2
  <2>2. CASE c # k
    <3>1. Has(s, c, n, p)' <=> Has(s, c, n, p)
      BY <1>3, <2>2 DEF Has
    <3>2. ASSUME Has(s, c, n, p) PROVE portMap'[s][p] = <<c, n>>
      <4>1. portMap[s][p] = <<c, n>>
        BY <3>2 DEF PortMapMatchesCalls
      <4>2. ASSUME NEW i \in DOMAIN v, v[i].port = p PROVE FALSE
        <5>1. Has(s, k, i, p) /\ i \in 1 .. MaxLines
          BY <1>1, <1>c, <4>2
        <5> QED
          BY <2>2, <4>1, <5>1 DEF PortMapMatchesCalls
      <4> QED
        BY <1>b, <4>1, <4>2
    <3>3. ASSUME portMap'[s][p] = <<c, n>> PROVE Has(s, c, n, p)
      <4>1. \A i \in DOMAIN v : v[i].port # p
        BY <1>a, <3>3, NoConnIsNoPair
      <4> QED
        BY <1>b, <3>3, <4>1 DEF PortMapMatchesCalls
    <3> QED
      BY <3>1, <3>2, <3>3
  <2> QED
    BY <2>1, <2>2
<1>8. ASSUME NEW p \in Ports, NEW c \in Calls, NEW n \in 1 .. MaxLines
      PROVE  portMap'[Other(s)][p] = <<c, n>> <=> Has(Other(s), c, n, p)'
  <2>1. Has(Other(s), c, n, p)' <=> Has(Other(s), c, n, p)
    BY <1>3 DEF Has
  <2> QED
    BY <1>4, <2>1, OtherSide DEF PortMapMatchesCalls
<1>9. PortMapMatchesCalls'
  BY <1>7, <1>8, OtherSide DEF PortMapMatchesCalls
<1>10. \A p \in Ports \ freed'[s] :
         /\ p \notin freed[s]
         /\ portMap[s][p] # NoConn => portMap'[s][p] = portMap[s][p]
  BY <1>4, <1>5
<1> QED
  BY <1>2, <1>3, <1>4, <1>5, <1>6, <1>9, <1>10 DEF TableStep

\* A crash closes every port of the side.
LEMMA CrashStep ==
  ASSUME TablesOK, PortMapMatchesCalls, NEW s \in Sides, NEW i, NEW msgs,
         Crash(s, i, msgs)
  PROVE  /\ TableStep(s)
         /\ InUse(s) \subseteq freed'[s]
<1> USE SipCallsAssumption, NullsAssumption
<1>1. /\ calls' \in [Sides -> [Calls -> {NoCall} \cup Vectors]]
      /\ calls'[Other(s)] = calls[Other(s)]
      /\ \A c \in Calls : calls'[s][c] = NoCall
  BY OtherSide DEF Crash, TablesOK
<1>2. \A c \in Calls : /\ Vector(s, c)' = <<>>
                        /\ Vector(Other(s), c)' = Vector(Other(s), c)
  BY <1>1 DEF Vector
<1>3. /\ portMap' \in [Sides -> [Ports -> (Calls \X (1 .. MaxLines)) \cup {NoConn}]]
      /\ portMap'[Other(s)] = portMap[Other(s)]
      /\ \A p \in Ports : portMap'[s][p] = NoConn
  BY OtherSide DEF Crash, TablesOK
<1>4. /\ freed'[s] = freed[s] \cup InUse(s) /\ freed'[Other(s)] = freed[Other(s)]
      /\ freed' \in [Sides -> SUBSET Ports]
  BY OtherSide DEF Crash, TablesOK, InUse
<1>5. TablesOK'
  <2>1. /\ onServer' \in SUBSET Calls /\ released' \in [Sides -> SUBSET Calls]
        /\ up' \in [Sides -> BOOLEAN]
    BY DEF Crash, TablesOK
  <2> QED
    BY <1>1, <1>3, <1>4, <2>1 DEF TablesOK
<1>6. ASSUME NEW p \in Ports, NEW c \in Calls, NEW n \in 1 .. MaxLines
      PROVE  /\ portMap'[s][p] = <<c, n>> <=> Has(s, c, n, p)'
             /\ portMap'[Other(s)][p] = <<c, n>> <=> Has(Other(s), c, n, p)'
  <2>1. Has(Other(s), c, n, p)' <=> Has(Other(s), c, n, p)
    BY <1>2 DEF Has
  <2>2. portMap'[s][p] # <<c, n>>
    BY <1>3, NoConnIsNoPair
  <2>3. ~Has(s, c, n, p)'
    <3>1. DOMAIN Vector(s, c)' = {}
      BY <1>2
    <3> QED
      BY <3>1 DEF Has
  <2> QED
    BY <1>3, <2>1, <2>2, <2>3, OtherSide DEF PortMapMatchesCalls
<1>7. PortMapMatchesCalls'
  BY <1>6, OtherSide DEF PortMapMatchesCalls
<1>8. ASSUME NEW p \in Ports \ freed'[s] PROVE p \notin freed[s] /\ portMap[s][p] = NoConn
  <2>1. \A c \in Calls, n \in 1 .. MaxLines : portMap[s][p] # <<c, n>>
    BY <1>4, <1>8 DEF InUse, PortMapMatchesCalls
  <2>2. portMap[s][p] \in (Calls \X (1 .. MaxLines)) \cup {NoConn}
    BY <1>8 DEF TablesOK
  <2> QED
    BY <1>4, <1>8, <2>1, <2>2
<1> QED
  BY <1>1, <1>2, <1>3, <1>4, <1>5, <1>7, <1>8 DEF TableStep

-----------------------------------------------------------------------------
(* Messages. *)

\* Taking message i from a stream (none when i = 0) leaves the others.
LEMMA WithoutFacts ==
  ASSUME NEW S, NEW q \in Seq(S), NEW i \in {0} \cup DOMAIN q
  PROVE  /\ Without(q, i) \in Seq(S)
         /\ \A j \in DOMAIN Without(q, i) : \E l \in DOMAIN q : Without(q, i)[j] = q[l]
<1> DEFINE a == SubSeq(q, 1, i - 1)
           b == SubSeq(q, i + 1, Len(q))
<1>1. Len(q) \in Nat /\ DOMAIN q = 1 .. Len(q) /\ i \in 0 .. Len(q)
  OBVIOUS
<1>2. /\ a \in Seq(S) /\ Len(a) \in Nat /\ Len(a) <= i
      /\ \A j \in 1 .. Len(a) : j \in DOMAIN q /\ a[j] = q[j]
  <2>1. \A j \in 1 .. i - 1 : q[j] \in S
    BY <1>1
  <2>2. /\ a \in Seq(S) /\ Len(a) = IF 1 <= i - 1 THEN i - 1 - 1 + 1 ELSE 0
        /\ \A j \in 1 .. i - 1 - 1 + 1 : a[j] = q[1 + j - 1]
    BY <1>1, <2>1, SubSeqProperties
  <2> QED
    BY <1>1, <2>2
<1>3. /\ b \in Seq(S) /\ Len(b) \in Nat
      /\ \A j \in 1 .. Len(b) : i + j \in DOMAIN q /\ b[j] = q[i + j]
  <2>1. \A j \in i + 1 .. Len(q) : q[j] \in S
    BY <1>1
  <2>2. /\ b \in Seq(S) /\ Len(b) = IF i + 1 <= Len(q) THEN Len(q) - (i + 1) + 1 ELSE 0
        /\ \A j \in 1 .. Len(q) - (i + 1) + 1 : b[j] = q[i + 1 + j - 1]
    BY <1>1, <2>1, SubSeqProperties
  <2> QED
    BY <1>1, <2>2
<1> HIDE DEF a, b
<1>4. /\ a \o b \in Seq(S)
      /\ Len(a \o b) = Len(a) + Len(b)
      /\ \A j \in 1 .. Len(a) + Len(b) :
           (a \o b)[j] = IF j <= Len(a) THEN a[j] ELSE b[j - Len(a)]
  BY <1>2, <1>3, ConcatProperties
<1>5. ASSUME NEW j \in DOMAIN (a \o b) PROVE \E l \in DOMAIN q : (a \o b)[j] = q[l]
  <2>1. j \in 1 .. Len(a) + Len(b)
    BY <1>4
  <2>2. CASE j <= Len(a)
    BY <1>2, <1>4, <2>1, <2>2
  <2>3. CASE j > Len(a)
    <3>1. j - Len(a) \in 1 .. Len(b) /\ (a \o b)[j] = b[j - Len(a)]
      BY <1>2, <1>3, <1>4, <2>1, <2>3
    <3> QED
      BY <1>3, <3>1
  <2> QED
    BY <1>2, <2>1, <2>2, <2>3
<1> QED
  BY <1>4, <1>5 DEF Without, a, b

\* What a handler of s does besides: it takes message i of the other side
\* and sends messages that tell the truth.
HandlerStep(s, i) ==
  /\ TableStep(s)
  /\ \E q \in Seq(Messages) : Exchange(s, i, q) /\ Honest(s, q)'

\* Such a step keeps the invariant.
LEMMA HandlerKeeps ==
  ASSUME CallInv, NEW s \in Sides,
         NEW i \in {0} \cup DOMAIN wire[Other(s)], HandlerStep(s, i)
  PROVE  /\ TablesOK' /\ PortMapMatchesCalls'
         /\ wire' \in [Sides -> Seq(Messages)]
         /\ WireHonest' /\ NoCrossTalk'
<1> DEFINE o == Other(s)
<1>1. o \in Sides /\ o # s /\ Other(o) = s /\ \A x \in Sides : x = s \/ x = o
  BY OtherSide
<1>2. /\ wire \in [Sides -> Seq(Messages)] /\ TablesOK /\ TablesOK'
      /\ TableStep(s)
  BY DEF CallInv, TypeOK, TablesOK, HandlerStep, TableStep
<1>3. PICK q \in Seq(Messages) : Exchange(s, i, q) /\ Honest(s, q)'
  BY DEF HandlerStep
<1>4. wire' = [wire EXCEPT ![s] = wire[s] \o q, ![o] = Without(wire[o], i)]
  BY <1>1, <1>3 DEF Exchange
<1> HIDE DEF o
<1>5. wire'[s] = wire[s] \o q /\ wire'[o] = Without(wire[o], i)
  BY <1>1, <1>2, <1>4
<1>6. /\ Without(wire[o], i) \in Seq(Messages)
      /\ \A j \in DOMAIN Without(wire[o], i) :
           \E l \in DOMAIN wire[o] : Without(wire[o], i)[j] = wire[o][l]
  BY <1>1, <1>2, WithoutFacts DEF o
<1>7. /\ wire[s] \o q \in Seq(Messages)
      /\ DOMAIN (wire[s] \o q) = 1 .. Len(wire[s]) + Len(q)
      /\ \A j \in 1 .. Len(wire[s]) + Len(q) : (wire[s] \o q)[j] =
           IF j <= Len(wire[s]) THEN wire[s][j] ELSE q[j - Len(wire[s])]
  <2>1. wire[s] \in Seq(Messages)
    BY <1>2
  <2>2. /\ wire[s] \o q \in Seq(Messages) /\ Len(wire[s] \o q) = Len(wire[s]) + Len(q)
    BY <2>1, ConcatProperties
  <2> QED
    BY <2>1, <2>2, ConcatProperties
<1>8. wire' \in [Sides -> Seq(Messages)]
  <2>1. wire[s] \in Seq(Messages) /\ wire[o] \in Seq(Messages)
    BY <1>1, <1>2
  <2> QED
    BY <1>1, <1>2, <1>4, <1>6, <1>7
<1>9. ASSUME NEW x \in Sides, NEW m \in Messages, m.type = "Setup"
      PROVE  m.port \in Ports /\ m.call \in Calls /\ m.idx \in 1 .. MaxLines
             /\ <<m.call, m.idx>> # NoConn
  <2>1. m.port \in Ports /\ m.call \in Calls /\ m.idx \in 1 .. MaxLines
    BY <1>9 DEF Messages
  <2> QED
    BY <2>1, NoConnIsNoPair
\* What was true of a port that is not closed stays true.
<1>10. ASSUME NEW x \in Sides, NEW p \in Ports, p \notin freed'[x]
       PROVE  /\ p \notin freed[x]
              /\ portMap[x][p] # NoConn => portMap'[x][p] = portMap[x][p]
  <2>1. CASE x = s
    BY <1>2, <1>10, <2>1 DEF TableStep
  <2>2. CASE x = o
    BY <1>2, <1>10, <2>2 DEF TableStep, o
  <2> QED
    BY <1>1, <2>1, <2>2
<1>11. WireHonest'
  <2> SUFFICES ASSUME NEW x \in Sides, NEW j \in DOMAIN wire'[x],
                      wire'[x][j].type = "Setup", wire'[x][j].port \notin freed'[x]
               PROVE  portMap'[x][wire'[x][j].port] = <<wire'[x][j].call, wire'[x][j].idx>>
    BY DEF WireHonest, Honest
  <2>1. ASSUME NEW l \in DOMAIN wire[x], wire'[x][j] = wire[x][l]
        PROVE  portMap'[x][wire'[x][j].port] = <<wire'[x][j].call, wire'[x][j].idx>>
    <3> DEFINE m == wire[x][l]
    <3>1. m \in Messages /\ m.type = "Setup"
      BY <1>2, <2>1
    <3>2. /\ m.port \in Ports /\ m.port \notin freed'[x]
          /\ <<m.call, m.idx>> # NoConn
      BY <1>9, <2>1, <3>1
    <3>3. portMap[x][m.port] = <<m.call, m.idx>>
      <4>1. m.port \notin freed[x]
        BY <1>10, <3>2
      <4> QED
        BY <3>1, <4>1 DEF CallInv, WireHonest, Honest
    <3>4. portMap'[x][m.port] = <<m.call, m.idx>>
      BY <1>10, <3>2, <3>3
    <3> QED
      BY <2>1, <3>4
  <2>2. CASE x = o
    BY <1>5, <1>6, <2>1, <2>2
  <2>3. CASE x = s
    <3>1. j \in 1 .. Len(wire[s]) + Len(q) /\ Len(wire[s]) \in Nat /\ Len(q) \in Nat
          /\ DOMAIN wire[s] = 1 .. Len(wire[s]) /\ DOMAIN q = 1 .. Len(q)
      <4>1. wire[s] \in Seq(Messages)
        BY <1>2
      <4> QED
        BY <1>5, <1>7, <2>3, <4>1
    <3>2. CASE j <= Len(wire[s])
      <4>1. j \in DOMAIN wire[s] /\ wire'[s][j] = wire[s][j]
        BY <1>5, <1>7, <3>1, <3>2
      <4> QED
        BY <2>1, <2>3, <4>1
    <3>3. CASE j > Len(wire[s])
      <4>1. j - Len(wire[s]) \in DOMAIN q /\ wire'[s][j] = q[j - Len(wire[s])]
        BY <1>5, <1>7, <3>1, <3>3
      <4> QED
        BY <1>3, <2>3, <4>1 DEF Honest
    <3> QED
      BY <3>1, <3>2, <3>3
  <2> QED
    BY <1>1, <2>2, <2>3
<1>12. NoCrossTalk'
  <2> SUFFICES ASSUME NEW x \in Sides, NEW k \in Calls, calls'[x][k] # NoCall,
                      NEW n \in DOMAIN calls'[x][k], calls'[x][k][n] # Hole,
                      calls'[x][k][n].peer # NoPort,
                      calls'[x][k][n].peer \notin freed'[Other(x)]
               PROVE  portMap'[Other(x)][calls'[x][k][n].peer] = <<k, n>>
    BY DEF NoCrossTalk
  <2> DEFINE c == calls'[x][k][n]
  <2>1. /\ c \in Connections /\ c.peer \in Ports /\ n \in 1 .. MaxLines
        /\ <<k, n>> # NoConn
    <3>1. calls'[x][k] \in Vectors
      BY <1>2 DEF TablesOK
    <3>2. c \in Connections /\ c.peer \in Ports /\ n \in 1 .. MaxLines
      BY <3>1, SipCallsAssumption DEF Vectors, Connections
    <3> QED
      BY <3>2, NoConnIsNoPair
  <2>2. Other(x) \in Sides
    BY OtherSide
  <2> HIDE DEF c
  <2>3. ASSUME NEW l \in DOMAIN calls[x][k], calls[x][k] # NoCall, l = n,
               calls[x][k][l] # Hole, calls[x][k][l].peer = c.peer
        PROVE  portMap'[Other(x)][c.peer] = <<k, n>>
    <3>1. c.peer \notin freed[Other(x)]
      BY <1>10, <2>1, <2>2 DEF c
    <3>2. portMap[Other(x)][c.peer] = <<k, n>>
      BY <2>3, <3>1 DEF CallInv, NoCrossTalk, c
    <3> QED
      BY <1>10, <2>1, <2>2, <3>2 DEF c
  <2>4. CASE x = o
    <3>1. calls'[x] = calls[x]
      BY <1>2, <2>4 DEF TableStep, o
    <3> QED
      BY <2>3, <3>1 DEF c
  <2>5. CASE x = s
    <3>1. Vector(s, k)' = calls'[s][k]
      BY <2>5 DEF Vector
    <3>2. \/ /\ n \in DOMAIN Vector(s, k) /\ Vector(s, k)[n] # Hole
             /\ Vector(s, k)[n].peer = c.peer
          \/ \E j \in DOMAIN wire[o] : wire[o][j] = Setup(k, n, c.peer)
      BY <1>2, <2>5, <3>1 DEF TableStep, c, o
    <3>3. CASE /\ n \in DOMAIN Vector(s, k) /\ Vector(s, k)[n] # Hole
               /\ Vector(s, k)[n].peer = c.peer
      <4>1. calls[s][k] # NoCall /\ Vector(s, k) = calls[s][k]
        BY <3>3 DEF Vector
      <4> QED
        BY <2>3, <2>5, <3>3, <4>1 DEF c
    <3>4. CASE \E j \in DOMAIN wire[o] : wire[o][j] = Setup(k, n, c.peer)
      <4>1. PICK j \in DOMAIN wire[o] : wire[o][j] = Setup(k, n, c.peer)
        BY <3>4
      <4>2. c.peer \notin freed[o]
        BY <1>10, <1>1, <2>1, <2>5 DEF c, o
      <4>3. portMap[o][c.peer] = <<k, n>>
        <5>1. /\ wire[o][j].type = "Setup" /\ wire[o][j].port = c.peer
              /\ wire[o][j].call = k /\ wire[o][j].idx = n
          BY <4>1 DEF Setup
        <5>2. Honest(o, wire[o])
          BY <1>1 DEF CallInv, WireHonest
        <5> QED
          BY <4>2, <5>1, <5>2 DEF Honest
      <4> QED
        BY <1>1, <1>10, <2>1, <2>5, <4>3 DEF c, o
    <3> QED
      BY <3>2, <3>3, <3>4
  <2> QED
    BY <1>1, <2>4, <2>5 DEF c
<1> QED
  BY <1>2, <1>8, <1>11, <1>12 DEF TableStep

-----------------------------------------------------------------------------
(* Handlers. *)

\* The SetupData messages for the lines 1 .. n of a vector.
LEMMA AdvertiseFacts ==
  ASSUME NEW k \in Calls, NEW v \in Vectors, NEW n \in 0 .. Len(v),
         \A j \in 1 .. n : v[j] # Hole
  PROVE  /\ Advertise(k, n, v) \in Seq(Messages)
         /\ DOMAIN Advertise(k, n, v) = 1 .. n
         /\ \A j \in 1 .. n : /\ Advertise(k, n, v)[j] = Setup(k, j, v[j].port)
                              /\ v[j].port \in Ports
<1>1. Len(v) \in Nat /\ Len(v) <= MaxLines /\ DOMAIN v = 1 .. Len(v)
      /\ \A j \in DOMAIN v : v[j] # Hole => v[j].port \in Ports
  BY SipCallsAssumption DEF Vectors, Connections
<1>2. ASSUME NEW j \in 1 .. n PROVE v[j].port \in Ports /\ Setup(k, j, v[j].port) \in Messages
  <2>1. v[j].port \in Ports /\ j \in 1 .. MaxLines
    BY <1>1, SipCallsAssumption
  <2> QED
    BY <2>1 DEF Setup, Messages
<1>3. Advertise(k, n, v) \in [1 .. n -> Messages]
  BY <1>2 DEF Advertise
<1>4. n \in Nat
  BY <1>1
<1> QED
  BY <1>2, <1>3, <1>4, SeqDef DEF Advertise

\* A SIP message sends nothing about ports.
Plain(q) == q \in Seq(Messages) /\ \A j \in DOMAIN q : q[j].type # "Setup"

\* SetupData messages that tell the truth, and a SIP message after them.
LEMMA InOrderHonest ==
  ASSUME NEW s, NEW a \in Seq(Messages), NEW sip, Plain(sip), Honest(s, a)'
  PROVE  InOrder(a, sip) \in Seq(Messages) /\ Honest(s, InOrder(a, sip))'
<1>1. sip \in Seq(Messages)
  BY DEF Plain
<1>2. /\ a \o sip \in Seq(Messages) /\ Len(a \o sip) = Len(a) + Len(sip)
      /\ \A j \in 1 .. Len(a) + Len(sip) : (a \o sip)[j] =
           IF j <= Len(a) THEN a[j] ELSE sip[j - Len(a)]
  BY <1>1, ConcatProperties
<1>3. /\ DOMAIN a = 1 .. Len(a) /\ DOMAIN sip = 1 .. Len(sip)
      /\ Len(a) \in Nat /\ Len(sip) \in Nat
      /\ DOMAIN (a \o sip) = 1 .. Len(a) + Len(sip)
  BY <1>1, <1>2
<1>4. ASSUME NEW j \in DOMAIN (a \o sip), (a \o sip)[j].type = "Setup"
      PROVE  j \in DOMAIN a /\ (a \o sip)[j] = a[j]
  <2>1. CASE j <= Len(a)
    BY <1>2, <1>3, <2>1
  <2>2. CASE j > Len(a)
    <3>1. j - Len(a) \in DOMAIN sip /\ (a \o sip)[j] = sip[j - Len(a)]
      BY <1>2, <1>3, <2>2
    <3> QED
      BY <1>4, <3>1 DEF Plain
  <2> QED
    BY <1>3, <2>1, <2>2
<1> QED
  BY <1>2, <1>4 DEF InOrder, Honest

\* A crash: what was sent up to there is about ports that are closed now.
LEMMA CrashHandler ==
  ASSUME TablesOK, PortMapMatchesCalls, NEW s \in Sides, NEW i,
         NEW msgs \in Seq(Messages), Crash(s, i, msgs),
         \A j \in DOMAIN msgs : msgs[j].type = "Setup" => msgs[j].port \in InUse(s)
  PROVE  HandlerStep(s, i)
<1>1. TableStep(s) /\ InUse(s) \subseteq freed'[s]
  BY CrashStep
<1>2. Exchange(s, i, msgs)
  BY DEF Crash
<1>3. Honest(s, msgs)'
  BY <1>1 DEF Honest
<1> QED
  BY <1>1, <1>2, <1>3 DEF HandlerStep

\* v is the vector of call k after addDataPort for its lines 1 .. n.
Added(v, s, k, n) ==
  LET missing == IF n > Len(Vector(s, k)) THEN n - Len(Vector(s, k)) ELSE 0 IN
  \E f \in FreshPorts(s, missing) :
    v = Vector(s, k) \o [j \in DOMAIN f |-> Conn(f[j])]

\* Such a vector only extends the old one, with lines that have no peer yet.
LEMMA AddedFacts ==
  ASSUME TablesOK, PortMapMatchesCalls, NEW s \in Sides, NEW k \in Calls,
         NEW n \in 0 .. MaxLines, ~HasHole(Vector(s, k), n), NEW v, Added(v, s, k, n)
  PROVE  /\ Extends(v, s, k, 1 .. n)
         /\ n \in 0 .. Len(v)
         /\ \A i \in DOMAIN v \ DOMAIN Vector(s, k) : v[i] # Hole
         /\ \A i \in DOMAIN Vector(s, k) : i \in DOMAIN v /\ v[i] = Vector(s, k)[i]
         /\ \A i \in DOMAIN v : v[i] # Hole =>
              \/ v[i].peer = NoPort
              \/ i \in DOMAIN Vector(s, k) /\ v[i] = Vector(s, k)[i]
<1>0. PICK missing, f :
        /\ missing = (IF n > Len(Vector(s, k)) THEN n - Len(Vector(s, k)) ELSE 0)
        /\ f \in FreshPorts(s, missing)
        /\ v = Vector(s, k) \o [j \in DOMAIN f |-> Conn(f[j])]
  BY DEF Added
<1> DEFINE old == Vector(s, k)
           new == [j \in DOMAIN f |-> Conn(f[j])]
<1> USE SipCallsAssumption, NullsAssumption
<1>1. /\ old \in Seq(Connections \cup {Hole}) /\ Len(old) \in 0 .. MaxLines
      /\ DOMAIN old = 1 .. Len(old)
  BY VectorType
<1>2. missing \in 0 .. MaxLines /\ Len(old) + missing \in 0 .. MaxLines
      /\ n <= Len(old) + missing
  BY <1>0, <1>1
<1>3. /\ DOMAIN f = 1 .. missing
      /\ \A j \in 1 .. missing : f[j] \in Ports \ InUse(s)
      /\ \A i, j \in 1 .. missing : f[i] = f[j] => i = j
  BY <1>0 DEF FreshPorts
<1>4. \A j \in 1 .. missing : /\ new[j] = Conn(f[j]) /\ new[j] \in Connections
                             /\ new[j].port = f[j] /\ new[j].peer = NoPort
  BY <1>3 DEF Conn, Connections
<1>5. /\ new \in Seq(Connections \cup {Hole}) /\ Len(new) = missing
  <2>1. new \in [1 .. missing -> Connections \cup {Hole}]
    BY <1>3, <1>4
  <2>2. missing \in Nat
    BY <1>2
  <2> QED
    BY <2>1, <2>2, SeqDef
<1> HIDE DEF old, new
<1>6. /\ v \in Seq(Connections \cup {Hole}) /\ Len(v) = Len(old) + missing
      /\ \A i \in 1 .. Len(old) + missing :
           v[i] = IF i <= Len(old) THEN old[i] ELSE new[i - Len(old)]
  BY <1>0, <1>1, <1>5, ConcatProperties DEF old, new
<1>7. DOMAIN v = 1 .. Len(old) + missing /\ v \in Vectors
  BY <1>2, <1>6 DEF Vectors
<1>8. \A i \in DOMAIN old : i \in DOMAIN v /\ v[i] = old[i]
  <2>1. ASSUME NEW i \in DOMAIN old PROVE i \in DOMAIN v /\ v[i] = old[i]
    <3>1. i \in 1 .. Len(old) /\ i <= Len(old) /\ i \in 1 .. Len(old) + missing
      BY <1>1, <1>2
    <3> QED
      BY <1>6, <1>7, <3>1
  <2> QED
    BY <2>1
<1>9. ASSUME NEW i \in DOMAIN v \ DOMAIN old
      PROVE  /\ i - Len(old) \in 1 .. missing /\ i \in 1 .. n
             /\ v[i] = new[i - Len(old)] /\ v[i].port = f[i - Len(old)]
             /\ v[i] \in Connections /\ v[i] # Hole /\ v[i].peer = NoPort
  <2>1. i \in 1 .. Len(old) + missing /\ i > Len(old)
    BY <1>1, <1>7
  <2>2. i - Len(old) \in 1 .. missing
    BY <1>1, <1>2, <2>1
  <2>3. v[i] = new[i - Len(old)]
    BY <1>1, <1>2, <1>6, <2>1
  <2>4. i \in 1 .. n
    BY <1>0, <1>1, <1>2, <2>1 DEF old
  <2> QED
    BY <1>4, <2>2, <2>3, <2>4
<1>10. \A i \in 1 .. n : i \in DOMAIN v /\ v[i] # Hole
  <2>1. ASSUME NEW i \in 1 .. n PROVE i \in DOMAIN v /\ v[i] # Hole
    <3>1. i \in DOMAIN v
      BY <1>1, <1>2, <1>7
    <3>2. CASE i \in DOMAIN old
      BY <1>8, <3>2 DEF HasHole, old
    <3>3. CASE i \notin DOMAIN old
      BY <1>9, <3>1, <3>3
    <3> QED
      BY <3>1, <3>2, <3>3
  <2> QED
    BY <2>1
<1>11. \A i, j \in DOMAIN v \ DOMAIN old : v[i].port = v[j].port => i = j
  <2>1. ASSUME NEW i \in DOMAIN v \ DOMAIN old, NEW j \in DOMAIN v \ DOMAIN old,
               v[i].port = v[j].port
        PROVE  i = j
    <3>0. /\ i - Len(old) \in 1 .. missing /\ v[i].port = f[i - Len(old)]
          /\ j - Len(old) \in 1 .. missing /\ v[j].port = f[j - Len(old)]
      BY <1>9
    <3>1. i - Len(old) = j - Len(old)
      BY <1>3, <2>1, <3>0
    <3>2. i \in Nat /\ j \in Nat /\ Len(old) \in Nat
      BY <1>1, <1>2, <1>7
    <3> QED
      BY <3>1, <3>2
  <2> QED
    BY <2>1
<1>12. \A i \in DOMAIN v \ DOMAIN old : v[i].port \notin InUse(s)
  BY <1>3, <1>9
<1>13. Extends(v, s, k, 1 .. n)
  <2>1. Len(old) <= Len(v)
    BY <1>1, <1>2, <1>6
  <2> QED
    BY <1>7, <1>8, <1>9, <1>10, <1>11, <1>12, <2>1 DEF Extends, old
<1>14. n \in 0 .. Len(v)
  BY <1>1, <1>2, <1>6
<1> QED
  BY <1>8, <1>9, <1>13, <1>14 DEF old

\* A call whose vector is extended, with lines announced that are in it.
LEMMA ExtendedHandler ==
  ASSUME TablesOK, PortMapMatchesCalls, NEW s \in Sides, NEW k \in Calls,
         NEW is, NEW v, Extends(v, s, k, is), SetVector(s, k, v), Register(s, k, is, v),
         onServer' \in SUBSET Calls, UNCHANGED <<up, released, freed>>,
         \A n \in DOMAIN v : v[n] # Hole =>
           \/ v[n].peer = NoPort
           \/ /\ n \in DOMAIN Vector(s, k) /\ Vector(s, k)[n] # Hole
              /\ Vector(s, k)[n].peer = v[n].peer
           \/ \E j \in DOMAIN wire[Other(s)] : wire[Other(s)][j] = Setup(k, n, v[n].peer)
  PROVE  TableStep(s)
<1>1. /\ calls' \in [Sides -> [Calls -> {NoCall} \cup Vectors]]
      /\ portMap' \in [Sides -> [Ports -> (Calls \X (1 .. MaxLines)) \cup {NoConn}]]
      /\ calls'[Other(s)] = calls[Other(s)] /\ portMap'[Other(s)] = portMap[Other(s)]
      /\ Vector(s, k)' = v
      /\ \A c \in Calls \ {k} : Vector(s, c)' = Vector(s, c)
      /\ \A p \in Ports : portMap[s][p] # NoConn => portMap'[s][p] = portMap[s][p]
      /\ PortMapMatchesCalls'
  BY RegisterStep
<1>2. TablesOK'
  BY <1>1 DEF TablesOK
<1>3. ASSUME NEW c \in Calls, NEW n \in DOMAIN Vector(s, c)', Vector(s, c)'[n] # Hole
      PROVE  LET w == Vector(s, c)'[n] IN
             \/ w.peer = NoPort
             \/ /\ n \in DOMAIN Vector(s, c) /\ Vector(s, c)[n] # Hole
                /\ Vector(s, c)[n].peer = w.peer
             \/ \E j \in DOMAIN wire[Other(s)] : wire[Other(s)][j] = Setup(c, n, w.peer)
  <2>1. CASE c = k
    BY <1>1, <1>3, <2>1
  <2>2. CASE c # k
    BY <1>1, <1>3, <2>2
  <2> QED
    BY <2>1, <2>2
<1> QED
  BY <1>1, <1>2, <1>3 DEF TableStep

\* addDataPort, when no line is NULL.
LEMMA AddDataPortsHandler ==
  ASSUME TablesOK, PortMapMatchesCalls, NEW s \in Sides, NEW k \in Calls,
         NEW n \in 0 .. MaxLines, NEW i, NEW sip, Plain(sip),
         ~HasHole(Vector(s, k), n), onServer' \in SUBSET Calls,
         AddDataPorts(s, k, n, i, sip)
  PROVE  HandlerStep(s, i)
<1>1. PICK v, is, a :
        /\ Added(v, s, k, n) /\ is = 1 .. n
        /\ a = (IF Relays(s, k, onServer') THEN Advertise(k, n, v) ELSE <<>>)
        /\ SetVector(s, k, v) /\ Register(s, k, is, v)
        /\ Exchange(s, i, InOrder(a, sip))
        /\ UNCHANGED <<up, released, freed>>
  BY DEF AddDataPorts, Added
<1>2. /\ Extends(v, s, k, is) /\ n \in 0 .. Len(v)
      /\ \A l \in DOMAIN v : v[l] # Hole =>
           v[l].peer = NoPort \/ (l \in DOMAIN Vector(s, k) /\ v[l] = Vector(s, k)[l])
  <2>1. Added(v, s, k, n)
    BY <1>1
  <2> QED
    BY <1>1, <2>1, AddedFacts
<1>3. TableStep(s)
  <2>1. \A l \in DOMAIN v : v[l] # Hole =>
          \/ v[l].peer = NoPort
          \/ /\ l \in DOMAIN Vector(s, k) /\ Vector(s, k)[l] # Hole
             /\ Vector(s, k)[l].peer = v[l].peer
    BY <1>2
  <2>2. SetVector(s, k, v) /\ Register(s, k, is, v) /\ UNCHANGED <<up, released, freed>>
    BY <1>1
  <2> QED
    BY <1>2, <2>1, <2>2, ExtendedHandler
<1>4. /\ v \in Vectors /\ \A j \in 1 .. n : v[j] # Hole
      /\ \A j \in 1 .. n : portMap'[s][v[j].port] = <<k, j>>
  <2>1. SetVector(s, k, v) /\ Register(s, k, is, v) /\ Extends(v, s, k, is)
    BY <1>1, <1>2
  <2>2. \A j \in is : portMap'[s][v[j].port] = <<k, j>>
    BY <2>1, RegisterStep
  <2> QED
    BY <1>1, <1>2, <2>2 DEF Extends
<1>5. /\ Advertise(k, n, v) \in Seq(Messages)
      /\ DOMAIN Advertise(k, n, v) = 1 .. n
      /\ \A j \in 1 .. n : Advertise(k, n, v)[j] = Setup(k, j, v[j].port)
  BY <1>2, <1>4, AdvertiseFacts
<1>6. Honest(s, Advertise(k, n, v))'
  <2>1. ASSUME NEW j \in 1 .. n
        PROVE  /\ Advertise(k, n, v)[j].port = v[j].port
               /\ Advertise(k, n, v)[j].call = k /\ Advertise(k, n, v)[j].idx = j
    BY <1>5 DEF Setup
  <2>2. ASSUME NEW j \in 1 .. n
        PROVE  portMap'[s][Advertise(k, n, v)[j].port] =
                 <<Advertise(k, n, v)[j].call, Advertise(k, n, v)[j].idx>>
    BY <1>4, <2>1
  <2> QED
    BY <1>5, <2>2 DEF Honest
<1>8. a \in Seq(Messages) /\ Honest(s, a)'
  <2>1. CASE Relays(s, k, onServer')
    BY <1>1, <1>5, <1>6, <2>1
  <2>2. CASE ~Relays(s, k, onServer')
    BY <1>1, <2>2 DEF Honest
  <2> QED
    BY <2>1, <2>2
<1>9. InOrder(a, sip) \in Seq(Messages) /\ Honest(s, InOrder(a, sip))'
  BY <1>8, InOrderHonest
<1> QED
  BY <1>1, <1>3, <1>9 DEF HandlerStep

\* addDataPort up to a NULL line.
LEMMA AddDataPortsCrashHandler ==
  ASSUME TablesOK, PortMapMatchesCalls, NEW s \in Sides, NEW k \in Calls,
         NEW n \in 0 .. MaxLines, NEW i, AddDataPortsCrash(s, k, n, i)
  PROVE  HandlerStep(s, i)
<1>1. /\ Vector(s, k) \in Vectors /\ Len(Vector(s, k)) \in 0 .. MaxLines
      /\ DOMAIN Vector(s, k) = 1 .. Len(Vector(s, k))
  BY VectorType
<1>2. PICK before, v :
        /\ before \in 0 .. n - 1 /\ v = Vector(s, k)
        /\ ~HasHole(v, before) /\ HasHole(v, before + 1)
        /\ Crash(s, i, IF Relays(s, k, onServer) THEN Advertise(k, before, v) ELSE <<>>)
  BY DEF AddDataPortsCrash
<1>3. before \in 0 .. Len(v) /\ \A j \in 1 .. before : v[j] # Hole
  BY <1>1, <1>2, SipCallsAssumption DEF HasHole
<1>4. /\ Advertise(k, before, v) \in Seq(Messages)
      /\ DOMAIN Advertise(k, before, v) = 1 .. before
      /\ \A j \in 1 .. before : /\ Advertise(k, before, v)[j] = Setup(k, j, v[j].port)
                                /\ v[j].port \in Ports
  BY <1>1, <1>2, <1>3, AdvertiseFacts
<1>5. ASSUME NEW j \in 1 .. before
      PROVE  Advertise(k, before, v)[j].port \in InUse(s)
  <2>1. Has(s, k, j, v[j].port) /\ j \in 1 .. MaxLines
    BY <1>1, <1>2, <1>3, SipCallsAssumption DEF Has
  <2>2. v[j].port \in InUse(s)
    BY <1>4, <2>1 DEF InUse
  <2> QED
    BY <1>4, <2>2 DEF Setup
<1>6. CASE Relays(s, k, onServer)
  <2>1. Crash(s, i, Advertise(k, before, v))
    BY <1>2, <1>6
  <2> QED
    BY <1>4, <1>5, <2>1, CrashHandler
<1>7. CASE ~Relays(s, k, onServer)
  <2>1. Crash(s, i, <<>>)
    BY <1>2, <1>7
  <2>2. <<>> \in Seq(Messages) /\ DOMAIN <<>> = {}
    OBVIOUS
  <2> QED
    BY <2>1, <2>2, CrashHandler
<1> QED
  BY <1>6, <1>7

\* A SIP message, from the local network or from the link.
LEMMA ProcessSipHandler ==
  ASSUME TablesOK, PortMapMatchesCalls, NEW s \in Sides, NEW k \in Calls,
         NEW ends, NEW invites, NEW n \in Lines, NEW i, NEW sip, Plain(sip),
         ProcessSip(s, k, ends, invites, n, i, sip)
  PROVE  HandlerStep(s, i)
<1>0. n \in 0 .. MaxLines
  BY DEF Lines
<1>1. PICK own :
        /\ own \in SUBSET Calls
        /\ \/ Crash(s, i, <<>>)
           \/ /\ ~HasHole(Vector(s, k), Len(Vector(s, k)))
              /\ Erase(s, k) /\ Exchange(s, i, sip)
           \/ AddDataPortsCrash(s, k, n, i)
           \/ /\ ~HasHole(Vector(s, k), n) /\ onServer' = own
              /\ AddDataPorts(s, k, n, i, sip)
           \/ /\ Exchange(s, i, sip)
              /\ UNCHANGED <<up, calls, onServer, portMap, released, freed>>
  BY Zenon DEF ProcessSip, TablesOK
<1>2. sip \in Seq(Messages) /\ Honest(s, sip)'
  BY DEF Plain, Honest
<1>3. CASE Crash(s, i, <<>>)
  <2>1. <<>> \in Seq(Messages) /\ DOMAIN <<>> = {}
    OBVIOUS
  <2> QED
    BY <1>3, <2>1, CrashHandler
<1>4. CASE /\ ~HasHole(Vector(s, k), Len(Vector(s, k)))
           /\ Erase(s, k) /\ Exchange(s, i, sip)
  <2>1. TableStep(s)
    BY <1>4, EraseStep
  <2> QED
    BY <1>2, <1>4, <2>1 DEF HandlerStep
<1>5. CASE AddDataPortsCrash(s, k, n, i)
  BY <1>0, <1>5, AddDataPortsCrashHandler
<1>6. CASE /\ ~HasHole(Vector(s, k), n) /\ onServer' = own
           /\ AddDataPorts(s, k, n, i, sip)
  <2>1. onServer' \in SUBSET Calls
    BY <1>1, <1>6
  <2> QED
    BY <1>0, <1>6, <2>1, AddDataPortsHandler
<1>7. CASE /\ Exchange(s, i, sip)
           /\ UNCHANGED <<up, calls, onServer, portMap, released, freed>>
  <2>1. TableStep(s)
    BY <1>7, IdleTables
  <2> QED
    BY <1>2, <1>7, <2>1 DEF HandlerStep
<1> QED
  BY <1>1, <1>3, <1>4, <1>5, <1>6, <1>7

\* What onSetupData does to the vector of call k: line n has the peer p, the
\* others are as they were or NULL.
Learns(v, s, k, n, p) ==
  /\ Extends(v, s, k, {n}) /\ v[n].peer = p
  /\ \A l \in DOMAIN v \ {n} :
       v[l] # Hole => l \in DOMAIN Vector(s, k) /\ v[l] = Vector(s, k)[l]

\* onSetupData for a line the call has: it learns its peer.
Linked(v, s, k, n, p) == v = [Vector(s, k) EXCEPT ![n].peer = p]

\* Such a vector is the old one but for one peer.
LEMMA LinkedFacts ==
  ASSUME TablesOK, PortMapMatchesCalls, NEW s \in Sides, NEW k \in Calls,
         NEW n \in DOMAIN Vector(s, k), Vector(s, k)[n] # Hole, NEW p \in Ports,
         NEW v, Linked(v, s, k, n, p)
  PROVE  Learns(v, s, k, n, p) /\ DOMAIN v = DOMAIN Vector(s, k)
<1> DEFINE old == Vector(s, k)
<1> USE SipCallsAssumption, NullsAssumption
<1>1. /\ old \in Seq(Connections \cup {Hole}) /\ Len(old) \in 0 .. MaxLines
      /\ DOMAIN old = 1 .. Len(old) /\ old[n] \in Connections
  BY VectorType
<1> HIDE DEF old
<1>2. v = [old EXCEPT ![n] = [old[n] EXCEPT !.peer = p]]
  BY DEF Linked, old
<1>3. /\ [old[n] EXCEPT !.peer = p] \in Connections
      /\ [old[n] EXCEPT !.peer = p].port = old[n].port
      /\ [old[n] EXCEPT !.peer = p].peer = p
  BY <1>1 DEF Connections
<1>4. /\ n \in DOMAIN old /\ old[n] # Hole
  BY DEF old
<1>5. /\ DOMAIN v = DOMAIN old /\ v[n].port = old[n].port /\ v[n].peer = p
      /\ v[n] \in Connections /\ \A l \in DOMAIN v \ {n} : v[l] = old[l]
  BY <1>1, <1>2, <1>3, <1>4
<1>6. v \in Seq(Connections \cup {Hole}) /\ Len(v) = Len(old)
  <2>0. Len(old) \in Nat
    BY <1>1
  <2>1. PICK len \in Nat : len = Len(old)
    BY <2>0
  <2>2. old \in [1 .. len -> Connections \cup {Hole}]
    BY <1>1, <2>1
  <2>3. v \in [1 .. len -> Connections \cup {Hole}]
    BY <1>2, <1>3, <2>2
  <2> QED
    BY <2>1, <2>3, SeqDef
<1>7. v \in Vectors /\ Len(old) <= Len(v)
  BY <1>1, <1>6 DEF Vectors
<1>8. \A l \in DOMAIN old : /\ v[l] = Hole <=> old[l] = Hole
                            /\ v[l] # Hole => v[l].port = old[l].port
  BY <1>4, <1>5
<1>9. v[n] # Hole
  BY <1>5
<1> QED
  BY <1>4, <1>5, <1>7, <1>8, <1>9 DEF Learns, Extends, old

\* onSetupData for a line beyond the call's: the vector grows up to it.
Grown(v, s, k, n, c) ==
  v = Vector(s, k) \o [j \in 1 .. n - 1 - Len(Vector(s, k)) |-> Hole] \o <<c>>

\* Such a vector has the new line at its place and NULL elements before it.
LEMMA GrownFacts ==
  ASSUME TablesOK, PortMapMatchesCalls, NEW s \in Sides, NEW k \in Calls,
         NEW n \in (1 .. MaxLines) \ DOMAIN Vector(s, k), NEW c \in Connections,
         c.port \notin InUse(s), NEW v, Grown(v, s, k, n, c)
  PROVE  Learns(v, s, k, n, c.peer) /\ DOMAIN v = 1 .. n
<1> DEFINE old == Vector(s, k)
           gap == n - 1 - Len(old)
           holes == [j \in 1 .. gap |-> Hole]
<1> USE SipCallsAssumption, NullsAssumption
<1>1. /\ old \in Seq(Connections \cup {Hole}) /\ Len(old) \in 0 .. MaxLines
      /\ DOMAIN old = 1 .. Len(old)
  BY VectorType
<1>2. gap \in 0 .. MaxLines /\ Len(old) + gap = n - 1
  BY <1>1
<1>3. /\ holes \in Seq(Connections \cup {Hole}) /\ Len(holes) = gap
      /\ \A j \in 1 .. gap : holes[j] = Hole
  <2>1. holes \in [1 .. gap -> Connections \cup {Hole}]
    OBVIOUS
  <2>2. gap \in Nat
    BY <1>2
  <2> QED
    BY <2>1, <2>2, SeqDef
<1>4. v = old \o holes \o <<c>>
  BY DEF Grown
<1> HIDE DEF old, gap, holes
<1>5. PICK w : w = old \o holes
  OBVIOUS
<1>6. /\ w \in Seq(Connections \cup {Hole}) /\ Len(w) = n - 1
      /\ \A j \in 1 .. n - 1 : w[j] = IF j <= Len(old) THEN old[j] ELSE holes[j - Len(old)]
  BY <1>1, <1>2, <1>3, <1>5, ConcatProperties
<1>7. /\ v \in Seq(Connections \cup {Hole}) /\ Len(v) = n /\ v[n] = c
      /\ \A j \in 1 .. n - 1 : v[j] = w[j]
  BY <1>4, <1>5, <1>6, AppendProperties, AppendIsConcat
<1>8. DOMAIN v = 1 .. n /\ v \in Vectors
  BY <1>7 DEF Vectors
<1>9. \A j \in DOMAIN old : j \in DOMAIN v /\ j # n /\ v[j] = old[j]
  BY <1>1, <1>2, <1>6, <1>7, <1>8
<1>10. ASSUME NEW j \in DOMAIN v \ DOMAIN old, j # n PROVE v[j] = Hole
  <2>1. j \in 1 .. n - 1 /\ j > Len(old)
    BY <1>1, <1>8, <1>10
  <2>2. j - Len(old) \in 1 .. gap /\ v[j] = holes[j - Len(old)]
    <3>1. j - Len(old) \in 1 .. gap
      BY <1>1, <1>2, <2>1
    <3>2. v[j] = w[j] /\ w[j] = holes[j - Len(old)]
      BY <1>1, <1>6, <1>7, <2>1
    <3> QED
      BY <3>1, <3>2
  <2> QED
    BY <1>3, <2>2
<1>11. c # Hole /\ n \in DOMAIN v /\ Len(old) <= Len(v)
  BY <1>1, <1>2, <1>7, <1>8
<1>12. Extends(v, s, k, {n})
  <2>1. \A i \in DOMAIN v \ DOMAIN old : v[i] # Hole => i = n /\ v[i].port \notin InUse(s)
    BY <1>7, <1>8, <1>10
  <2> QED
    BY <1>7, <1>8, <1>9, <1>11, <2>1 DEF Extends, old
<1> QED
  BY <1>7, <1>8, <1>9, <1>10, <1>12 DEF Learns, old

\* onSetupData in all its cases: a new call, a new line, a known line.
LEMMA ReceiveSetupHandler ==
  ASSUME TablesOK, PortMapMatchesCalls, wire \in [Sides -> Seq(Messages)],
         NEW s \in Sides, NEW i \in DOMAIN wire[Other(s)], ReceiveSetup(s, i)
  PROVE  HandlerStep(s, i)
<1>1. PICK m : m = wire[Other(s)][i]
  OBVIOUS
<1>2. /\ m \in Messages /\ m.type = "Setup"
  <2>1. wire[Other(s)] \in Seq(Messages) /\ i \in DOMAIN wire[Other(s)]
    BY OtherSide
  <2>2. m \in Messages
    BY <1>1, <2>1
  <2>3. m.type = "Setup"
    BY <1>1 DEF ReceiveSetup
  <2> QED
    BY <2>2, <2>3
<1>3. PICK k, n, p : m = Setup(k, n, p) /\ k \in Calls /\ n \in 1 .. MaxLines /\ p \in Ports
  BY <1>2 DEF Messages, Setup
<1>4. m.call = k /\ m.idx = n /\ m.port = p
  BY <1>3 DEF Setup
<1>5. <<>> \in Seq(Messages) /\ DOMAIN <<>> = {}
  OBVIOUS
<1>6. Honest(s, <<>>)'
  BY <1>5 DEF Honest
<1>7. \/ Crash(s, i, <<>>)
      \/ /\ n \in DOMAIN Vector(s, k) /\ Vector(s, k)[n] # Hole
         /\ \E v : /\ Linked(v, s, k, n, p)
                   /\ SetVector(s, k, v) /\ Register(s, k, {n}, v)
         /\ Exchange(s, i, <<>>)
         /\ UNCHANGED <<up, onServer, released, freed>>
      \/ /\ n \notin DOMAIN Vector(s, k)
         /\ \E f \in FreshPorts(s, 1) : \E v :
              /\ Grown(v, s, k, n, [Conn(f[1]) EXCEPT !.peer = p])
              /\ SetVector(s, k, v) /\ Register(s, k, {n}, v)
         /\ Exchange(s, i, <<>>)
         /\ UNCHANGED <<up, onServer, released, freed>>
  BY <1>1, <1>4 DEF ReceiveSetup, Linked, Grown
<1>8. CASE Crash(s, i, <<>>)
  BY <1>5, <1>8, CrashHandler
<1>9. ASSUME NEW v, Learns(v, s, k, n, p), SetVector(s, k, v), Register(s, k, {n}, v),
             Exchange(s, i, <<>>), UNCHANGED <<up, onServer, released, freed>>
      PROVE  HandlerStep(s, i)
  <2>1. \A l \in DOMAIN v : v[l] # Hole =>
          \/ /\ l \in DOMAIN Vector(s, k) /\ Vector(s, k)[l] # Hole
             /\ Vector(s, k)[l].peer = v[l].peer
          \/ \E j \in DOMAIN wire[Other(s)] : wire[Other(s)][j] = Setup(k, l, v[l].peer)
    <3>1. wire[Other(s)][i] = Setup(k, n, v[n].peer)
      BY <1>1, <1>3, <1>9 DEF Learns
    <3> QED
      BY <1>9, <3>1 DEF Learns
  <2>2. onServer' \in SUBSET Calls /\ UNCHANGED <<up, released, freed>>
    BY <1>9 DEF TablesOK
  <2>3. TableStep(s)
    BY <1>3, <1>9, <2>1, <2>2, ExtendedHandler DEF Learns
  <2> QED
    BY <1>5, <1>6, <1>9, <2>3 DEF HandlerStep
<1>10. CASE /\ n \in DOMAIN Vector(s, k) /\ Vector(s, k)[n] # Hole
            /\ \E v : /\ Linked(v, s, k, n, p)
                      /\ SetVector(s, k, v) /\ Register(s, k, {n}, v)
            /\ Exchange(s, i, <<>>)
            /\ UNCHANGED <<up, onServer, released, freed>>
  <2>1. PICK v : /\ Linked(v, s, k, n, p)
                 /\ SetVector(s, k, v) /\ Register(s, k, {n}, v)
    BY <1>10
  <2>2. Learns(v, s, k, n, p)
    <3>1. /\ k \in Calls /\ p \in Ports /\ Linked(v, s, k, n, p)
          /\ n \in DOMAIN Vector(s, k) /\ Vector(s, k)[n] # Hole
      BY <1>3, <1>10, <2>1
    <3> QED
      BY <3>1, LinkedFacts
  <2> QED
    BY <1>9, <1>10, <2>1, <2>2
<1>11. CASE /\ n \notin DOMAIN Vector(s, k)
            /\ \E f \in FreshPorts(s, 1) : \E v :
                 /\ Grown(v, s, k, n, [Conn(f[1]) EXCEPT !.peer = p])
                 /\ SetVector(s, k, v) /\ Register(s, k, {n}, v)
            /\ Exchange(s, i, <<>>)
            /\ UNCHANGED <<up, onServer, released, freed>>
  <2>1. PICK f, c, v :
          /\ f \in FreshPorts(s, 1) /\ c = [Conn(f[1]) EXCEPT !.peer = p]
          /\ Grown(v, s, k, n, c)
          /\ SetVector(s, k, v) /\ Register(s, k, {n}, v)
    BY <1>11
  <2>2. f[1] \in Ports \ InUse(s)
    BY <2>1 DEF FreshPorts
  <2>3. c \in Connections /\ c.port = f[1] /\ c.peer = p
    BY <1>3, <2>1, <2>2 DEF Conn, Connections
  <2>4. Learns(v, s, k, n, c.peer)
    <3>1. /\ k \in Calls /\ c \in Connections /\ c.port \notin InUse(s)
          /\ n \in (1 .. MaxLines) \ DOMAIN Vector(s, k) /\ Grown(v, s, k, n, c)
      BY <1>3, <1>11, <2>1, <2>2, <2>3
    <3> QED
      BY <3>1, GrownFacts
  <2> QED
    BY <1>9, <1>11, <2>1, <2>3, <2>4
<1> QED
  BY <1>7, <1>8, <1>10, <1>11

-----------------------------------------------------------------------------
(* Steps and theorems. *)

\* The SIP clients and servers have their types.
EnvOK ==
  /\ caller \in [Calls -> {"idle", "active", "refused", "foreign", "over"}]
  /\ asked \in [Calls -> SUBSET Methods]
  /\ calleeOver \in [Calls -> BOOLEAN]
  /\ sips \in 0 .. MaxSip
  /\ answered \in [Calls -> 0 .. MaxLines]

\* The parts of the type invariant.
LEMMA TypeParts == TypeOK <=> TablesOK /\ EnvOK /\ wire \in [Sides -> Seq(Messages)]
BY DEF TypeOK, TablesOK, EnvOK

\* A step in which a side handles something.
Handled ==
  \E s \in Sides : \E i \in {0} \cup DOMAIN wire[Other(s)] : HandlerStep(s, i)

\* A SIP message announces no port,
LEMMA SipPlain ==
  ASSUME NEW m \in Messages, m.type # "Setup"
  PROVE  Plain(<<m>>)
BY DEF Plain

\* and nothing does not either.
LEMMA NothingPlain == Plain(<<>>)
BY DEF Plain

\* A SIP message from the local network.
LEMMA LocalStep ==
  ASSUME CallInv, NEW k \in Calls, NEW n \in Lines, NEW method \in Methods,
         \/ NearRequest(k, method, n) \/ CalleeRequest(k, method, n)
         \/ FarRequest(k, method, n)
         \/ \E class \in Classes : CalleeResponse(k, method, class, n)
  PROVE  Handled /\ EnvOK'
<1> USE SipCallsAssumption
<1>0. TablesOK /\ EnvOK /\ PortMapMatchesCalls
  BY TypeParts DEF CallInv
<1>1. ASSUME NEW s \in Sides, HandlerStep(s, 0) PROVE Handled
  BY <1>1 DEF Handled
<1>2. ASSUME CountSip PROVE sips' \in 0 .. MaxSip
  BY <1>0, <1>2 DEF CountSip, EnvOK
<1>3. n \in 0 .. MaxLines
  BY DEF Lines
<1>4. CASE NearRequest(k, method, n)
  <2>1. Request(k, method, n) \in Messages /\ Request(k, method, n).type # "Setup"
    BY <1>3 DEF Request, Messages
  <2>2. ProcessSip("near", k, method = "BYE", method = "INVITE", n, 0,
                   <<Request(k, method, n)>>)
    BY <1>4 DEF NearRequest
  <2>3. HandlerStep("near", 0)
    BY <1>0, <2>1, <2>2, SipPlain, ProcessSipHandler DEF Sides
  <2>4. EnvOK'
    BY <1>0, <1>2, <1>4 DEF NearRequest, EnvOK
  <2> QED
    BY <1>1, <2>3, <2>4 DEF Sides
<1>5. CASE CalleeRequest(k, method, n)
  <2>1. ProcessSip("far", k, method = "BYE", method = "INVITE", n, 0, <<>>)
    BY <1>5 DEF CalleeRequest
  <2>2. HandlerStep("far", 0)
    BY <1>0, <2>1, NothingPlain, ProcessSipHandler DEF Sides
  <2>3. EnvOK'
    BY <1>0, <1>2, <1>5 DEF CalleeRequest, EnvOK
  <2> QED
    BY <1>1, <2>2, <2>3 DEF Sides
<1>6. CASE FarRequest(k, method, n)
  <2>1. ProcessSip("far", k, method = "BYE", method = "INVITE", n, 0, <<>>)
    BY <1>6 DEF FarRequest
  <2>2. HandlerStep("far", 0)
    BY <1>0, <2>1, NothingPlain, ProcessSipHandler DEF Sides
  <2>3. EnvOK'
    BY <1>0, <1>2, <1>6 DEF FarRequest, EnvOK
  <2> QED
    BY <1>1, <2>2, <2>3 DEF Sides
<1>7. CASE \E class \in Classes : CalleeResponse(k, method, class, n)
  <2>0. PICK class \in Classes : CalleeResponse(k, method, class, n)
    BY <1>7
  <2>1. PICK m : /\ m = Response(k, method, class, n)
                 /\ ProcessSip("far", k, EndsCall(m), FALSE, n, 0, <<m>>)
    BY <2>0 DEF CalleeResponse
  <2>2. m \in Messages /\ m.type # "Setup"
    BY <1>3, <2>1 DEF Response, Messages
  <2>3. HandlerStep("far", 0)
    BY <1>0, <2>1, <2>2, SipPlain, ProcessSipHandler DEF Sides
  <2>4. /\ caller' = caller /\ asked' = asked /\ answered' = answered
        /\ calleeOver' \in [Calls -> BOOLEAN] /\ CountSip
    BY <1>0, <2>0 DEF CalleeResponse, EnvOK
  <2>5. EnvOK'
    BY <1>0, <1>2, <2>4 DEF EnvOK
  <2> QED
    BY <1>1, <2>3, <2>5 DEF Sides
<1> QED
  BY <1>4, <1>5, <1>6, <1>7

\* A message from the link.
LEMMA LinkStep ==
  ASSUME CallInv,
         \/ \E s \in Sides : \E i \in Deliverable(Other(s)) : ReceiveSetup(s, i)
         \/ \E i \in Deliverable("near") : ReceiveRequest(i)
         \/ \E i \in Deliverable("far") : ReceiveResponse(i)
  PROVE  Handled /\ EnvOK'
<1> USE SipCallsAssumption
<1>0. TablesOK /\ EnvOK /\ PortMapMatchesCalls /\ wire \in [Sides -> Seq(Messages)]
  BY TypeParts DEF CallInv
<1>1. \A s \in Sides : Deliverable(s) \subseteq DOMAIN wire[s]
  BY DEF Deliverable
<1>2. CASE \E s \in Sides : \E i \in Deliverable(Other(s)) : ReceiveSetup(s, i)
  <2>0. PICK s \in Sides : \E i \in Deliverable(Other(s)) : ReceiveSetup(s, i)
    BY <1>2
  <2>1. PICK i \in Deliverable(Other(s)) : ReceiveSetup(s, i)
    BY <2>0
  <2>2. i \in DOMAIN wire[Other(s)]
    BY <1>1, OtherSide
  <2>3. HandlerStep(s, i)
    BY <1>0, <2>1, <2>2, ReceiveSetupHandler
  <2>4. EnvOK'
    BY <1>0, <2>1 DEF ReceiveSetup, env, EnvOK
  <2> QED
    BY <2>2, <2>3, <2>4 DEF Handled
<1>3. CASE \E i \in Deliverable("near") : ReceiveRequest(i)
  <2>1. PICK i, m : /\ i \in Deliverable("near") /\ ReceiveRequest(i)
                     /\ m = wire["near"][i]
    BY <1>3
  <2>2. /\ i \in DOMAIN wire["near"] /\ Other("far") = "near" /\ "far" \in Sides
        /\ m \in Messages /\ m.type = "Request"
    BY SMTT(30), <1>0, <1>1, <2>1 DEF Sides, Other, ReceiveRequest
  <2>3. m.call \in Calls /\ m.method \in Methods /\ m.lines \in Lines
    BY <2>2 DEF Messages, Lines
  <2>4. ProcessSip("far", m.call, m.method = "BYE", m.method = "INVITE", m.lines, i, <<>>)
    BY <2>1 DEF ReceiveRequest
  <2>5. HandlerStep("far", i)
    BY <1>0, <2>2, <2>3, <2>4, NothingPlain, ProcessSipHandler
  <2>6. EnvOK'
    BY <1>0, <2>1, <2>3 DEF ReceiveRequest, EnvOK
  <2> QED
    BY <2>2, <2>5, <2>6 DEF Handled
<1>4. CASE \E i \in Deliverable("far") : ReceiveResponse(i)
  <2>1. PICK i, m : /\ i \in Deliverable("far") /\ ReceiveResponse(i)
                     /\ m = wire["far"][i]
    BY <1>4
  <2>2. /\ i \in DOMAIN wire["far"] /\ Other("near") = "far" /\ "near" \in Sides
        /\ m \in Messages /\ m.type = "Response"
    BY <1>0, <1>1, <2>1 DEF Sides, Other, ReceiveResponse
  <2>3. m.call \in Calls /\ m.lines \in Lines /\ m.lines \in 0 .. MaxLines
    BY <2>2 DEF Messages, Lines
  <2>4. ProcessSip("near", m.call, EndsCall(m), FALSE, m.lines, i, <<>>)
    BY <2>1 DEF ReceiveResponse
  <2>5. HandlerStep("near", i)
    BY <1>0, <2>2, <2>3, <2>4, NothingPlain, ProcessSipHandler
  <2>6. EnvOK'
    BY <1>0, <2>1, <2>3 DEF ReceiveResponse, EnvOK
  <2> QED
    BY <2>2, <2>5, <2>6 DEF Handled
<1> QED
  BY <1>2, <1>3, <1>4

\* A message that is lost.
LEMMA LoseKeeps ==
  ASSUME CallInv, NEW s \in Sides, NEW i \in DOMAIN wire[s], Lose(s, i)
  PROVE  CallInv'
<1>1. /\ TablesOK /\ EnvOK /\ wire \in [Sides -> Seq(Messages)]
  BY TypeParts DEF CallInv
<1>2. /\ Without(wire[s], i) \in Seq(Messages)
      /\ \A j \in DOMAIN Without(wire[s], i) :
           \E l \in DOMAIN wire[s] : Without(wire[s], i)[j] = wire[s][l]
  BY <1>1, WithoutFacts
<1>3. wire' = [wire EXCEPT ![s] = Without(wire[s], i)]
  BY DEF Lose
<1>4. /\ wire' \in [Sides -> Seq(Messages)] /\ wire'[s] = Without(wire[s], i)
      /\ \A x \in Sides \ {s} : wire'[x] = wire[x]
  BY <1>1, <1>2, <1>3
<1>5. UNCHANGED <<up, calls, onServer, portMap, caller, asked, calleeOver, sips,
                  answered, released, freed>>
  BY DEF Lose, env
<1>6. TypeOK'
  BY <1>4, <1>5 DEF CallInv, TypeOK
<1>7. PortMapMatchesCalls' /\ NoCrossTalk'
  BY <1>5 DEF CallInv, PortMapMatchesCalls, NoCrossTalk, Has, Vector
<1>8. WireHonest'
  <2> SUFFICES ASSUME NEW x \in Sides, NEW j \in DOMAIN wire'[x]
               PROVE  wire'[x][j].type = "Setup" /\ wire'[x][j].port \notin freed[x]
                        => portMap[x][wire'[x][j].port] = <<wire'[x][j].call, wire'[x][j].idx>>
    BY <1>5 DEF WireHonest, Honest
  <2>1. PICK l \in DOMAIN wire[x] : wire'[x][j] = wire[x][l]
    BY <1>2, <1>4
  <2> QED
    BY <2>1 DEF CallInv, WireHonest, Honest
<1> QED
  BY <1>6, <1>7, <1>8 DEF CallInv

\* It holds at the start, when there are no calls.
LEMMA InitCallInv ==
  ASSUME Init
  PROVE  CallInv
<1> USE SipCallsAssumption
<1>1. TypeOK
  BY DEF Init, TypeOK
<1>2. \A s \in Sides, k \in Calls : Vector(s, k) = <<>>
  BY DEF Init, Vector
<1>3. \A s \in Sides, k \in Calls, n \in 1 .. MaxLines, p \in Ports : ~Has(s, k, n, p)
  BY <1>2 DEF Has
<1>4. PortMapMatchesCalls
  BY <1>3, NoConnIsNoPair DEF Init, PortMapMatchesCalls
<1>5. WireHonest
  BY DEF Init, WireHonest, Honest
<1>6. NoCrossTalk
  BY DEF Init, NoCrossTalk
<1> QED
  BY <1>1, <1>4, <1>5, <1>6 DEF CallInv

\* The invariant of the two tunnels.
LEMMA CallInvariant == Spec => []CallInv
<1>1. Init => CallInv
  BY InitCallInv
<1>2. CallInv /\ [Next]_vars => CallInv'
  <2> SUFFICES ASSUME CallInv, [Next]_vars PROVE CallInv'
    OBVIOUS
  <2>1. ASSUME Handled, EnvOK' PROVE CallInv'
    <3>0. PICK s \in Sides : \E i \in {0} \cup DOMAIN wire[Other(s)] : HandlerStep(s, i)
      BY <2>1 DEF Handled
    <3>1. PICK i \in {0} \cup DOMAIN wire[Other(s)] : HandlerStep(s, i)
      BY <3>0
    <3>2. /\ TablesOK' /\ PortMapMatchesCalls' /\ wire' \in [Sides -> Seq(Messages)]
          /\ WireHonest' /\ NoCrossTalk'
      BY <3>1, HandlerKeeps
    <3>3. TypeOK'
      BY <2>1, <3>2 DEF TypeOK, TablesOK, EnvOK
    <3> QED
      BY <3>2, <3>3 DEF CallInv
  <2>2. CASE \E k \in Calls, method \in Methods, n \in Lines :
               \/ NearRequest(k, method, n) \/ CalleeRequest(k, method, n)
               \/ FarRequest(k, method, n)
    BY <2>1, <2>2, LocalStep
  <2>3. CASE \E k \in Calls, cseq \in Methods, class \in Classes, n \in Lines :
               CalleeResponse(k, cseq, class, n)
    BY <2>1, <2>3, LocalStep
  <2>4. CASE \/ \E s \in Sides : \E i \in Deliverable(Other(s)) : ReceiveSetup(s, i)
             \/ \E i \in Deliverable("near") : ReceiveRequest(i)
             \/ \E i \in Deliverable("far") : ReceiveResponse(i)
    BY <2>1, <2>4, LinkStep
  <2>5. CASE \E s \in Sides : \E i \in DOMAIN wire[s] : Lose(s, i)
    BY <2>5, LoseKeeps
  <2>6. CASE UNCHANGED vars
    <3>1. UNCHANGED <<up, calls, onServer, portMap, wire, caller, asked, calleeOver,
                      sips, answered, released, freed>>
      BY <2>6 DEF vars, env
    <3>2. TypeOK' /\ NoCrossTalk'
      BY <3>1 DEF CallInv, TypeOK, NoCrossTalk
    <3>3. PortMapMatchesCalls'
      <4>1. PortMapMatchesCalls
        BY DEF CallInv
      <4> QED
        BY <3>1, <4>1 DEF PortMapMatchesCalls, Has, Vector
    <3>4. WireHonest'
      BY <3>1 DEF CallInv, WireHonest, Honest
    <3> QED
      BY <3>2, <3>3, <3>4 DEF CallInv
  <2> QED
    BY <2>2, <2>3, <2>4, <2>5, <2>6 DEF Next
<1> QED
  BY <1>1, <1>2, PTL DEF Spec

\* The tables of both tunnels, the messages between them and the SIP clients
\* and servers have their types: no vector is longer than MaxLines and no
\* message is about a call, a line or a port that does not exist.
THEOREM CallTypeCorrect == Spec => []TypeOK
<1>1. CallInv => TypeOK
  BY DEF CallInv
<1> QED
  BY <1>1, CallInvariant, PTL

\* _dataPortMap and _callMap agree, whatever the SIP clients send and the
\* link does: registerDataPort and ~sipcall never leave a port with the wrong
\* connection, one that is gone, or none.
THEOREM PortMapMatchesCallsHolds == Spec => []PortMapMatchesCalls
<1>1. CallInv => PortMapMatchesCalls
  BY DEF CallInv
<1> QED
  BY <1>1, CallInvariant, PTL

\* Media of one call and line never goes to another, over a link that keeps
\* the order of the messages or one that loses and reorders them.
THEOREM NoCrossTalkHolds == Spec => []NoCrossTalk
<1>1. CallInv => NoCrossTalk
  BY DEF CallInv
<1> QED
  BY <1>1, CallInvariant, PTL

-----------------------------------------------------------------------------
(* What follows is about a link that keeps the order of the messages (TLS): *)
(* no vector has a NULL element before its call was erased, and the lines   *)
(* of an answered call are linked at both ends.  Both are about what is     *)
(* under way: the SetupData of a call are true, come in the order of the    *)
(* lines, and a 2xx comes after those of the lines it describes.            *)

-----------------------------------------------------------------------------
(* A link that keeps the order. *)

IsSetup(m, k, n) == m.type = "Setup" /\ m.call = k /\ m.idx = n

\* The port of a SetupData under way is that of the line it names, unless its
\* sender has erased the call since.
PortsStand ==
  \A s \in Sides : \A j \in DOMAIN wire[s] :
    LET m == wire[s][j] IN
    m.type = "Setup" /\ m.call \notin released[s] => Has(s, m.call, m.idx, m.port)

\* The lines of a call are announced one after the other from the first on:
\* the SetupData of the line before is right before it, or was received.
Successive ==
  \A s \in Sides : \A j \in DOMAIN wire[s] :
    LET m == wire[s][j] IN
    m.type = "Setup" /\ m.idx > 1 =>
      IF j > 1 THEN IsSetup(wire[s][j - 1], m.call, m.idx - 1)
      ELSE m.call \in released[Other(s)] \/ m.idx - 1 \in DOMAIN Vector(Other(s), m.call)

OrderInv == CallInv /\ PortsStand /\ Successive /\ NoHoles

\* What a handler of s that takes message i does to a call that it does not
\* erase: lines are added, none is NULL, and a line that was there has a new
\* peer only from message i.
CallKept(s, c, i) ==
  /\ calls[s][c] # NoCall => calls'[s][c] # NoCall
  /\ \A l \in DOMAIN Vector(s, c) :
       /\ l \in DOMAIN Vector(s, c)'
       /\ Vector(s, c)'[l].port = Vector(s, c)[l].port
       /\ \/ Vector(s, c)'[l].peer = Vector(s, c)[l].peer
          \/ i # 0 /\ wire[Other(s)][i] = Setup(c, l, Vector(s, c)'[l].peer)
  /\ \A l \in DOMAIN Vector(s, c)' : Vector(s, c)'[l] # Hole

Kept(s, i) ==
  /\ up'[s] => up[s]
  /\ up'[Other(s)] = up[Other(s)]
  /\ calls'[Other(s)] = calls[Other(s)]
  /\ released[s] \subseteq released'[s]
  /\ released'[Other(s)] = released[Other(s)]
  /\ \A c \in Calls \ released'[s] : CallKept(s, c, i)

\* A SetupData is not lost on the side that takes it.
Learned(s, i) ==
  \A k \in Calls \ released'[s], n \in 1 .. MaxLines, p \in Ports :
    i # 0 /\ wire[Other(s)][i] = Setup(k, n, p) =>
      n \in DOMAIN Vector(s, k)' /\ Vector(s, k)'[n].peer = p

\* What s sends about ports is true and in order.
Sends(s, q) ==
  \A j \in DOMAIN q :
    q[j].type = "Setup" =>
      /\ q[j].call \notin released'[s] => Has(s, q[j].call, q[j].idx, q[j].port)'
      /\ q[j].idx > 1 => j > 1 /\ IsSetup(q[j - 1], q[j].call, q[j].idx - 1)

OrderStep(s, i) ==
  /\ Kept(s, i) /\ Learned(s, i)
  /\ \E q \in Seq(Messages) : Exchange(s, i, q) /\ Sends(s, q)

\* Taking the first message of a stream, or none, moves the others up.
LEMMA WithoutFirst ==
  ASSUME NEW S, NEW q \in Seq(S), NEW i \in {0} \cup (DOMAIN q \cap {1})
  PROVE  /\ Without(q, i) \in Seq(S) /\ Len(Without(q, i)) = Len(q) - i
         /\ \A j \in 1 .. Len(q) - i : Without(q, i)[j] = q[j + i]
<1> DEFINE a == SubSeq(q, 1, i - 1)
           b == SubSeq(q, i + 1, Len(q))
<1>1. Len(q) \in Nat /\ DOMAIN q = 1 .. Len(q) /\ i \in 0 .. Len(q) /\ i \in 0 .. 1
  OBVIOUS
<1>2. a = <<>>
  BY <1>1, SubSeqEmpty
<1>3. /\ b \in Seq(S) /\ Len(b) = Len(q) - i
      /\ \A j \in 1 .. Len(q) - i : b[j] = q[j + i]
  <2>1. \A j \in i + 1 .. Len(q) : q[j] \in S
    BY <1>1
  <2>2. /\ b \in Seq(S) /\ Len(b) = IF i + 1 <= Len(q) THEN Len(q) - (i + 1) + 1 ELSE 0
        /\ \A j \in 1 .. Len(q) - (i + 1) + 1 : b[j] = q[i + 1 + j - 1]
    BY <1>1, <2>1, SubSeqProperties
  <2>3. Len(q) - (i + 1) + 1 = Len(q) - i
    BY <1>1
  <2>4. \A j \in 1 .. Len(q) - i : i + 1 + j - 1 = j + i
    BY <1>1
  <2> HIDE DEF b
  <2>5. Len(b) = Len(q) - i
    <3>1. \A x \in Nat : \A y \in 0 .. x :
            (IF y + 1 <= x THEN x - (y + 1) + 1 ELSE 0) = x - y
      OBVIOUS
    <3>2. (IF i + 1 <= Len(q) THEN Len(q) - (i + 1) + 1 ELSE 0) = Len(q) - i
      BY <1>1, <3>1
    <3> QED
      BY <2>2, <3>2
  <2> QED
    BY <2>2, <2>3, <2>4, <2>5
<1>4. Without(q, i) = a \o b
  BY DEF Without
<1>5. Without(q, i) = b
  BY <1>2, <1>3, <1>4, ConcatEmptySeq
<1> QED
  BY <1>3, <1>5

\* What the two streams are after s took message i and sent q.
LEMMA ExchangeFacts ==
  ASSUME wire \in [Sides -> Seq(Messages)], NEW s \in Sides,
         NEW i \in {0} \cup (DOMAIN wire[Other(s)] \cap {1}),
         NEW q \in Seq(Messages), Exchange(s, i, q)
  PROVE  /\ DOMAIN wire'[s] = 1 .. Len(wire[s]) + Len(q)
         /\ DOMAIN wire[s] = 1 .. Len(wire[s]) /\ DOMAIN q = 1 .. Len(q)
         /\ \A j \in DOMAIN wire[s] : j \in DOMAIN wire'[s] /\ wire'[s][j] = wire[s][j]
         /\ \A j \in DOMAIN q : /\ j + Len(wire[s]) \in DOMAIN wire'[s]
                                /\ wire'[s][j + Len(wire[s])] = q[j]
         /\ \A j \in DOMAIN wire'[s] \ DOMAIN wire[s] :
              j - Len(wire[s]) \in DOMAIN q /\ wire'[s][j] = q[j - Len(wire[s])]
         /\ \A j \in DOMAIN wire'[Other(s)] :
              /\ j + i \in DOMAIN wire[Other(s)]
              /\ wire'[Other(s)][j] = wire[Other(s)][j + i]
         /\ \A j \in DOMAIN wire[Other(s)] : j > i =>
              /\ j - i \in DOMAIN wire'[Other(s)]
              /\ wire'[Other(s)][j - i] = wire[Other(s)][j]
<1> DEFINE o == Other(s)
<1>1. o \in Sides /\ o # s
  BY OtherSide
<1>2. wire'[s] = wire[s] \o q /\ wire'[o] = Without(wire[o], i)
  BY <1>1 DEF Exchange
<1>3. wire[s] \in Seq(Messages) /\ wire[o] \in Seq(Messages)
  BY <1>1
<1> HIDE DEF o
<1>4. /\ Len(wire[s]) \in Nat /\ DOMAIN wire[s] = 1 .. Len(wire[s])
      /\ Len(wire[o]) \in Nat /\ DOMAIN wire[o] = 1 .. Len(wire[o])
      /\ Len(q) \in Nat /\ DOMAIN q = 1 .. Len(q)
  BY <1>3
<1>5. /\ wire'[s] \in Seq(Messages) /\ Len(wire'[s]) = Len(wire[s]) + Len(q)
      /\ \A j \in 1 .. Len(wire[s]) + Len(q) : wire'[s][j] =
           IF j <= Len(wire[s]) THEN wire[s][j] ELSE q[j - Len(wire[s])]
  BY <1>2, <1>3, ConcatProperties
<1>6. DOMAIN wire'[s] = 1 .. Len(wire[s]) + Len(q)
  BY <1>5
<1>7. /\ \A j \in DOMAIN wire[s] : j \in DOMAIN wire'[s] /\ wire'[s][j] = wire[s][j]
      /\ \A j \in DOMAIN q : /\ j + Len(wire[s]) \in DOMAIN wire'[s]
                             /\ wire'[s][j + Len(wire[s])] = q[j]
      /\ \A j \in DOMAIN wire'[s] \ DOMAIN wire[s] :
           j - Len(wire[s]) \in DOMAIN q /\ wire'[s][j] = q[j - Len(wire[s])]
  BY <1>4, <1>5, <1>6, SMTT(30)
<1>8. /\ wire'[o] \in Seq(Messages) /\ Len(wire'[o]) = Len(wire[o]) - i
      /\ \A j \in 1 .. Len(wire[o]) - i : wire'[o][j] = wire[o][j + i]
  <2>1. i \in {0} \cup (DOMAIN wire[o] \cap {1})
    BY DEF o
  <2> QED
    BY <1>2, <1>3, <2>1, WithoutFirst, ZenonT(60)
<1>9. i \in 0 .. 1 /\ i <= Len(wire[o]) /\ DOMAIN wire'[o] = 1 .. Len(wire[o]) - i
  BY <1>4, <1>8 DEF o
<1>10. ASSUME NEW j \in DOMAIN wire'[o]
       PROVE  j + i \in DOMAIN wire[o] /\ wire'[o][j] = wire[o][j + i]
  BY <1>4, <1>8, <1>9, SMTT(30)
<1>11. ASSUME NEW j \in DOMAIN wire[o], j > i
       PROVE  j - i \in DOMAIN wire'[o] /\ wire'[o][j - i] = wire[o][j]
  <2>1. j - i \in 1 .. Len(wire[o]) - i /\ (j - i) + i = j
    BY <1>4, <1>9, <1>11
  <2> QED
    BY <1>8, <1>9, <2>1
<1> QED
  BY <1>4, <1>6, <1>7, <1>10, <1>11 DEF o

\* Such a step keeps the order: nothing is announced before its time and no
\* port that is under way is closed.
LEMMA OrderKeeps ==
  ASSUME OrderInv, TablesOK', NEW s \in Sides,
         NEW i \in {0} \cup (DOMAIN wire[Other(s)] \cap {1}), OrderStep(s, i)
  PROVE  PortsStand' /\ Successive' /\ NoHoles'
<1> DEFINE o == Other(s)
<1>1. /\ o \in Sides /\ o # s /\ Other(o) = s
      /\ \A x \in Sides : x = s \/ x = o
  BY OtherSide
<1>2. /\ wire \in [Sides -> Seq(Messages)] /\ TablesOK /\ Kept(s, i) /\ Learned(s, i)
  BY TypeParts DEF OrderInv, CallInv, OrderStep
<1>3. PICK q \in Seq(Messages) : Exchange(s, i, q) /\ Sends(s, q)
  BY DEF OrderStep
<1>4. /\ DOMAIN wire'[s] = 1 .. Len(wire[s]) + Len(q)
      /\ DOMAIN wire[s] = 1 .. Len(wire[s]) /\ DOMAIN q = 1 .. Len(q)
      /\ \A j \in DOMAIN wire[s] : j \in DOMAIN wire'[s] /\ wire'[s][j] = wire[s][j]
      /\ \A j \in DOMAIN wire'[s] \ DOMAIN wire[s] :
           j - Len(wire[s]) \in DOMAIN q /\ wire'[s][j] = q[j - Len(wire[s])]
      /\ \A j \in DOMAIN wire'[o] :
           j + i \in DOMAIN wire[o] /\ wire'[o][j] = wire[o][j + i]
      /\ \A j \in DOMAIN q : wire'[s][j + Len(wire[s])] = q[j]
  <2>1. Exchange(s, i, q)
    BY <1>3
  <2> QED
    BY <1>2, <2>1, ExchangeFacts
<1>5. /\ Len(wire[s]) \in Nat /\ Len(wire[o]) \in Nat /\ Len(q) \in Nat
      /\ DOMAIN wire[o] = 1 .. Len(wire[o])
      /\ \E n \in Nat : DOMAIN wire'[o] = 1 .. n
      /\ i \in {0, 1}
  <2>1. wire[s] \in Seq(Messages) /\ wire[o] \in Seq(Messages)
    BY <1>1, <1>2
  <2>2. wire'[o] = Without(wire[o], i)
    BY <1>1, <1>2, <1>3 DEF Exchange
  <2>3. wire'[o] \in Seq(Messages)
    BY <2>1, <2>2, WithoutFirst
  <2> QED
    BY <2>1, <2>3, SMTT(30)
<1>6. \A c \in Calls : Vector(o, c)' = Vector(o, c)
  BY <1>2 DEF Kept, Vector, o
<1>7. \A c \in Calls : \A n, p : Has(o, c, n, p)' <=> Has(o, c, n, p)
  BY <1>6 DEF Has
<1>8. ASSUME NEW c \in Calls, c \notin released'[s], NEW n, NEW p, Has(s, c, n, p)
      PROVE  Has(s, c, n, p)'
  <2>1. CallKept(s, c, i)
    BY <1>2, <1>8 DEF Kept
  <2> QED
    BY <1>8, <2>1 DEF CallKept, Has
<1>9. ASSUME NEW x \in Sides, NEW j \in DOMAIN wire[x], wire[x][j].type = "Setup"
      PROVE  /\ wire[x][j].call \in Calls /\ wire[x][j].idx \in 1 .. MaxLines
             /\ wire[x][j].port \in Ports
             /\ wire[x][j] = Setup(wire[x][j].call, wire[x][j].idx, wire[x][j].port)
  <2>1. wire[x][j] \in Messages
    BY <1>2
  <2> QED
    BY <1>9, <2>1 DEF Messages, Setup
<1>10. /\ released[s] \subseteq released'[s] /\ released'[o] = released[o]
       /\ \A c \in Calls \ released'[s] : CallKept(s, c, i)
  BY <1>2 DEF Kept, o
<1>11. /\ PortsStand /\ Successive /\ NoHoles
  BY DEF OrderInv
<1>12. /\ DOMAIN wire[Other(s)] = DOMAIN wire[o] /\ wire[Other(s)] = wire[o]
  OBVIOUS
<1> HIDE DEF o
<1>13. PortsStand'
  <2> SUFFICES ASSUME NEW x \in Sides, NEW j \in DOMAIN wire'[x], NEW m,
                      m = wire'[x][j], m.type = "Setup", m.call \notin released'[x]
               PROVE  Has(x, m.call, m.idx, m.port)'
    BY DEF PortsStand
  <2>1. CASE x = o
    <3>1. j + i \in DOMAIN wire[o] /\ m = wire[o][j + i]
      BY <1>4, <2>1
    <3>2. Has(o, m.call, m.idx, m.port)
      BY <1>1, <1>10, <1>11, <2>1, <3>1 DEF PortsStand
    <3>3. m.call \in Calls
      BY <1>1, <1>9, <2>1, <3>1
    <3> QED
      BY <1>7, <2>1, <3>2, <3>3
  <2>2. CASE x = s /\ j \in DOMAIN wire[s]
    <3>1. m = wire[s][j]
      BY <1>4, <2>2
    <3>2. Has(s, m.call, m.idx, m.port)
      BY <1>10, <1>11, <2>2, <3>1 DEF PortsStand
    <3>3. m.call \in Calls
      BY <1>9, <2>2, <3>1
    <3> QED
      BY <1>8, <2>2, <3>2, <3>3
  <2>3. CASE x = s /\ j \notin DOMAIN wire[s]
    <3>1. PICK l \in DOMAIN q : m = q[l]
      BY <1>4, <2>3
    <3> QED
      BY <1>3, <2>3, <3>1 DEF Sends
  <2> QED
    BY <1>1, <2>1, <2>2, <2>3
<1>14. Successive'
  <2> SUFFICES ASSUME NEW x \in Sides, NEW j \in DOMAIN wire'[x], NEW m,
                      m = wire'[x][j], m.type = "Setup", m.idx > 1
               PROVE  IF j > 1 THEN IsSetup(wire'[x][j - 1], m.call, m.idx - 1)
                      ELSE \/ m.call \in released'[Other(x)]
                           \/ m.idx - 1 \in DOMAIN Vector(Other(x), m.call)'
    BY DEF Successive, IsSetup
  <2>1. CASE x = o
    <3>1. j + i \in DOMAIN wire[o] /\ m = wire[o][j + i]
      BY <1>4, <2>1
    <3>2. j \in Nat /\ j >= 1
      BY <1>1, <1>5, <2>1
    <3>3. m.call \in Calls
      BY <1>1, <1>9, <2>1, <3>1
    <3>4. PICK l \in DOMAIN wire[o] :
            /\ l = j + i
            /\ IF l > 1 THEN IsSetup(wire[o][l - 1], m.call, m.idx - 1)
               ELSE m.call \in released[s] \/ m.idx - 1 \in DOMAIN Vector(s, m.call)
      <4>1. PICK l \in DOMAIN wire[o] : l = j + i /\ m = wire[o][l]
        BY <3>1
      <4> QED
        BY <1>1, <1>11, <4>1 DEF Successive
    <3>5. CASE j > 1
      <4>1. j - 1 \in DOMAIN wire'[o] /\ (j - 1) + i = l - 1 /\ l > 1
        BY <1>5, <2>1, <3>2, <3>4, <3>5
      <4>2. wire'[o][j - 1] = wire[o][l - 1]
        BY <1>4, <4>1
      <4> QED
        BY <2>1, <3>4, <3>5, <4>1, <4>2
    <3>6. CASE j = 1 /\ i = 1
      <4>0. l > 1 /\ l - 1 = 1
        BY <3>4, <3>6
      <4>1. /\ IsSetup(wire[o][1], m.call, m.idx - 1) /\ 1 \in DOMAIN wire[o]
        BY <1>12, <3>4, <3>6, <4>0
      <4>2. /\ m.idx - 1 \in 1 .. MaxLines
            /\ \E p \in Ports : wire[o][1] = Setup(m.call, m.idx - 1, p)
        BY <1>1, <1>9, <4>1 DEF IsSetup
      <4>3. m.call \notin released'[s] => m.idx - 1 \in DOMAIN Vector(s, m.call)'
        BY <1>2, <1>12, <3>3, <3>6, <4>2 DEF Learned
      <4> QED
        BY <1>1, <2>1, <3>6, <4>3
    <3>7. CASE j = 1 /\ i = 0
      <4>3. l = 1
        BY <3>4, <3>7
      <4>1. m.call \in released[s] \/ m.idx - 1 \in DOMAIN Vector(s, m.call)
        BY <3>4, <4>3
      <4>2. m.call \notin released'[s] => m.idx - 1 \in DOMAIN Vector(s, m.call)'
        BY <1>10, <3>3, <4>1 DEF CallKept
      <4> QED
        BY <1>1, <2>1, <3>7, <4>2
    <3> QED
      BY <1>5, <3>2, <3>5, <3>6, <3>7
  <2>2. CASE x = s /\ j \in DOMAIN wire[s]
    <3>1. m = wire[s][j]
      BY <1>4, <2>2
    <3>2. j \in Nat /\ j >= 1
      BY <1>4, <1>5, <2>2
    <3>3. m.call \in Calls
      BY <1>9, <2>2, <3>1
    <3>4. IF j > 1 THEN IsSetup(wire[s][j - 1], m.call, m.idx - 1)
          ELSE m.call \in released[o] \/ m.idx - 1 \in DOMAIN Vector(o, m.call)
      BY <1>11, <2>2, <3>1 DEF Successive, o
    <3>5. j > 1 => wire'[s][j - 1] = wire[s][j - 1]
      <4>1. j > 1 => j - 1 \in DOMAIN wire[s]
        BY <1>4, <1>5, <2>2
      <4> QED
        BY <1>4, <4>1
    <3>6. DOMAIN Vector(o, m.call)' = DOMAIN Vector(o, m.call)
      BY <1>6, <3>3
    <3>7. CASE j > 1
      BY <2>2, <3>4, <3>5, <3>7
    <3>8. CASE ~(j > 1)
      <4>1. m.call \in released'[o] \/ m.idx - 1 \in DOMAIN Vector(o, m.call)'
        BY <1>10, <3>4, <3>6, <3>8
      <4> QED
        BY <2>2, <3>8, <4>1 DEF o
    <3> QED
      BY <3>7, <3>8
  <2>3. CASE x = s /\ j \notin DOMAIN wire[s]
    <3>1. PICK l : l = j - Len(wire[s])
      OBVIOUS
    <3>2. l \in DOMAIN q /\ m = q[l] /\ j \in Nat /\ j = l + Len(wire[s])
      <4>1. l \in DOMAIN q /\ m = q[l]
        BY <1>4, <2>3, <3>1
      <4>2. j \in 1 .. Len(wire[s]) + Len(q)
        BY <1>4, <2>3
      <4>3. \A a, b \in Nat : \A z \in 1 .. a + b : z \in Nat /\ z = (z - a) + a
        OBVIOUS
      <4> QED
        BY <1>5, <3>1, <4>1, <4>2, <4>3
    <3>3. l > 1 /\ IsSetup(q[l - 1], m.call, m.idx - 1)
      BY <1>3, <3>2 DEF Sends
    <3>4. l \in 1 .. Len(q) /\ j > 1 /\ l - 1 \in 1 .. Len(q)
      BY <1>4, <1>5, <3>2, <3>3
    <3>5. l - 1 + Len(wire[s]) = j - 1
      <4>1. \A a, b \in Nat : b - 1 + a = (b + a) - 1
        OBVIOUS
      <4>2. l \in Nat
        BY <3>4
      <4> QED
        BY <1>5, <3>2, <4>1, <4>2
    <3>6. wire'[s][j - 1] = q[l - 1]
      BY <1>4, <3>4, <3>5
    <3> QED
      BY <2>3, <3>3, <3>4, <3>6
  <2> QED
    BY <1>1, <2>1, <2>2, <2>3
<1>15. NoHoles'
  <2> SUFFICES ASSUME NEW x \in Sides, NEW k \in Calls, k \notin released'[x],
                      calls'[x][k] # NoCall, NEW n \in DOMAIN calls'[x][k]
               PROVE  calls'[x][k][n] # Hole
    BY DEF NoHoles
  <2>1. CASE x = o
    <3>1. calls'[o] = calls[o]
      BY <1>2 DEF Kept, o
    <3> QED
      BY <1>1, <1>10, <1>11, <2>1, <3>1 DEF NoHoles
  <2>2. CASE x = s
    <3>1. Vector(s, k)' = calls'[s][k]
      BY <2>2 DEF Vector
    <3> QED
      BY <1>10, <2>2, <3>1 DEF CallKept
  <2> QED
    BY <1>1, <2>1, <2>2
<1> QED
  BY <1>13, <1>14, <1>15

\* What the handlers leave of the calls they do not handle.
LEMMA ElsewhereKept ==
  ASSUME TablesOK, NoHoles, NEW s \in Sides, NEW c \in Calls, NEW i,
         c \notin released[s], Vector(s, c)' = Vector(s, c),
         calls[s][c] # NoCall => calls'[s][c] # NoCall
  PROVE  CallKept(s, c, i)
<1>1. \A l \in DOMAIN Vector(s, c) : Vector(s, c)[l] # Hole
  BY DEF NoHoles, Vector
<1> QED
  BY <1>1 DEF CallKept

\* Nothing changes at the side.
LEMMA IdleKept ==
  ASSUME OrderInv, NEW s \in Sides, NEW i,
         UNCHANGED <<up, calls, onServer, portMap, released, freed>>
  PROVE  Kept(s, i)
<1>1. TablesOK /\ NoHoles
  BY TypeParts DEF OrderInv, CallInv
<1>2. \A c \in Calls : Vector(s, c)' = Vector(s, c)
  BY DEF Vector
<1>3. \A c \in Calls \ released'[s] : CallKept(s, c, i)
  BY <1>1, <1>2, ElsewhereKept
<1> QED
  BY <1>3 DEF Kept

\* The call that is erased is not kept; the others are.
LEMMA EraseKept ==
  ASSUME OrderInv, NEW s \in Sides, NEW i, NEW k \in Calls, Erase(s, k)
  PROVE  Kept(s, i)
<1>1. TablesOK /\ NoHoles
  BY TypeParts DEF OrderInv, CallInv
<1>2. /\ calls'[Other(s)] = calls[Other(s)]
      /\ calls'[s][k] = NoCall /\ \A c \in Calls \ {k} : calls'[s][c] = calls[s][c]
  BY <1>1, OtherSide DEF Erase, SetVector, TablesOK
<1>3. /\ released'[s] = IF calls[s][k] = NoCall THEN released[s] ELSE released[s] \cup {k}
      /\ released'[Other(s)] = released[Other(s)] /\ up' = up
  BY <1>1, OtherSide DEF Erase, TablesOK
<1>4. ASSUME NEW c \in Calls \ released'[s] PROVE CallKept(s, c, i)
  <2>1. calls'[s][c] = calls[s][c] /\ c \notin released[s]
    BY <1>2, <1>3, <1>4
  <2>2. Vector(s, c)' = Vector(s, c)
    BY <2>1 DEF Vector
  <2> QED
    BY <1>1, <2>1, <2>2, ElsewhereKept
<1> QED
  BY <1>2, <1>3, <1>4 DEF Kept

\* A crash erases every call.
LEMMA CrashKept ==
  ASSUME OrderInv, NEW s \in Sides, NEW i, NEW msgs, Crash(s, i, msgs)
  PROVE  /\ Kept(s, i) /\ ~up'[s]
         /\ \A c \in Calls : calls[s][c] # NoCall => c \in released'[s]
         /\ onServer' \subseteq onServer /\ (s = "far" => onServer' = {})
<1>1. TablesOK /\ NoHoles
  BY TypeParts DEF OrderInv, CallInv
<1>2. /\ calls'[Other(s)] = calls[Other(s)]
      /\ \A c \in Calls : calls'[s][c] = NoCall
      /\ released'[s] = released[s] \cup {c \in Calls : calls[s][c] # NoCall}
      /\ released'[Other(s)] = released[Other(s)]
      /\ up'[s] = FALSE /\ up'[Other(s)] = up[Other(s)]
  BY <1>1, OtherSide DEF Crash, TablesOK
<1>3. ASSUME NEW c \in Calls \ released'[s] PROVE CallKept(s, c, i)
  <2>1. calls'[s][c] = calls[s][c] /\ c \notin released[s]
    BY <1>2, <1>3
  <2>2. Vector(s, c)' = Vector(s, c)
    BY <2>1 DEF Vector
  <2> QED
    BY <1>1, <2>1, <2>2, ElsewhereKept
<1>4. onServer' \subseteq onServer /\ (s = "far" => onServer' = {})
  BY DEF Crash
<1> QED
  BY <1>2, <1>3, <1>4 DEF Kept

\* A call that gets lines, none of them NULL, or a peer from message i.
LEMMA ExtendedKept ==
  ASSUME OrderInv, NEW s \in Sides, NEW i, NEW k \in Calls, NEW v, NEW is,
         Extends(v, s, k, is), SetVector(s, k, v), UNCHANGED <<up, released>>,
         k \notin released[s] => \A l \in DOMAIN v : v[l] # Hole,
         \A l \in DOMAIN Vector(s, k) :
           v[l] # Hole =>
             \/ v[l].peer = Vector(s, k)[l].peer
             \/ i # 0 /\ wire[Other(s)][i] = Setup(k, l, v[l].peer)
  PROVE  Kept(s, i) /\ Vector(s, k)' = v /\ calls'[s][k] # NoCall
<1>1. TablesOK /\ NoHoles
  BY TypeParts DEF OrderInv, CallInv
<1>2. /\ calls'[Other(s)] = calls[Other(s)]
      /\ calls'[s][k] = v /\ \A c \in Calls \ {k} : calls'[s][c] = calls[s][c]
  BY <1>1, OtherSide DEF SetVector, TablesOK
<1>3. v # NoCall
  BY NullsAssumption DEF Extends
<1>4. Vector(s, k)' = v
  BY <1>2, <1>3 DEF Vector
<1>5. ASSUME NEW c \in Calls \ released'[s], c # k PROVE CallKept(s, c, i)
  <2>1. calls'[s][c] = calls[s][c] /\ c \notin released[s]
    BY <1>2, <1>5
  <2>2. Vector(s, c)' = Vector(s, c)
    BY <2>1 DEF Vector
  <2> QED
    BY <1>1, <2>1, <2>2, ElsewhereKept
<1>6. ASSUME k \notin released'[s] PROVE CallKept(s, k, i)
  <2>1. \A l \in DOMAIN v : v[l] # Hole
    BY <1>6
  <2>2. ASSUME NEW l \in DOMAIN Vector(s, k)
        PROVE  l \in DOMAIN v /\ v[l].port = Vector(s, k)[l].port
    <3>1. /\ DOMAIN Vector(s, k) = 1 .. Len(Vector(s, k)) /\ Len(Vector(s, k)) \in Nat
      BY <1>1, VectorType
    <3>2. v \in Seq(Connections \cup {Hole}) /\ Len(Vector(s, k)) <= Len(v)
      BY DEF Extends, Vectors
    <3>3. l \in DOMAIN v
      BY <3>1, <3>2
    <3> QED
      BY <2>1, <3>3 DEF Extends
  <2> QED
    BY <1>2, <1>3, <1>4, <2>1, <2>2 DEF CallKept
<1> QED
  BY <1>2, <1>3, <1>4, <1>5, <1>6 DEF Kept

-----------------------------------------------------------------------------
(* The handlers of the sip endpoint announce the lines in order. *)

\* The first n lines of call k on side s are those of v, unless it was erased.
FirstLines(s, k, n, v) ==
  \A j \in 1 .. n : \A p :
    p = v[j].port /\ k \notin released'[s] => Has(s, k, j, p)'

\* q announces the lines 1 .. n of call k in order, then sends sip.
Announces(s, k, n, q, sip) ==
  /\ q \in Seq(Messages) /\ Sends(s, q)
  /\ \A l \in 1 .. n : l \in DOMAIN q /\ IsSetup(q[l], k, l)
  /\ \A j \in DOMAIN q : q[j].type # "Setup" => j > n /\ \E l \in DOMAIN sip : q[j] = sip[l]

\* What a SIP message sends: the lines of its call in order, then itself.
LEMMA AdvertisedInOrder ==
  ASSUME NEW s, NEW k \in Calls, NEW v \in Vectors, NEW n \in 0 .. Len(v),
         \A j \in 1 .. n : v[j] # Hole,
         FirstLines(s, k, n, v),
         NEW sip, Plain(sip), NEW q, q = InOrder(Advertise(k, n, v), sip)
  PROVE  Announces(s, k, n, q, sip)
<1> DEFINE a == Advertise(k, n, v)
<1>1. /\ a \in Seq(Messages) /\ DOMAIN a = 1 .. n
      /\ \A j \in 1 .. n : a[j] = Setup(k, j, v[j].port)
  BY AdvertiseFacts
<1>2. n \in Nat /\ Len(a) = n
  <2>1. Len(v) \in Nat
    BY DEF Vectors
  <2> QED
    BY <1>1, <2>1
<1>3. sip \in Seq(Messages)
  BY DEF Plain
<1> HIDE DEF a
<1>4. /\ q \in Seq(Messages) /\ Len(q) = n + Len(sip) /\ Len(sip) \in Nat
      /\ \A j \in 1 .. n + Len(sip) : q[j] = IF j <= n THEN a[j] ELSE sip[j - n]
  <2>1. q = a \o sip
    BY DEF InOrder, a
  <2>2. /\ a \o sip \in Seq(Messages) /\ Len(a \o sip) = Len(a) + Len(sip)
        /\ \A j \in 1 .. Len(a) + Len(sip) :
             (a \o sip)[j] = IF j <= Len(a) THEN a[j] ELSE sip[j - Len(a)]
    BY <1>1, <1>3, ConcatProperties
  <2>3. Len(sip) \in Nat
    BY <1>3
  <2> QED
    BY <1>2, <2>1, <2>2, <2>3
<1>5. DOMAIN q = 1 .. n + Len(sip) /\ DOMAIN sip = 1 .. Len(sip)
  BY <1>3, <1>4
<1>6. ASSUME NEW l \in 1 .. n PROVE l \in DOMAIN q /\ q[l] = Setup(k, l, v[l].port)
  BY <1>1, <1>2, <1>4, <1>5
<1>7. ASSUME NEW j \in DOMAIN q, j > n PROVE j - n \in DOMAIN sip /\ q[j] = sip[j - n]
  BY <1>2, <1>4, <1>5, <1>7
<1>8. ASSUME NEW j \in DOMAIN q, q[j].type = "Setup" PROVE j \in 1 .. n
  <2>1. ~(j > n)
    BY <1>7, <1>8 DEF Plain
  <2>2. j \in 1 .. n + Len(sip)
    BY <1>5
  <2> QED
    BY <1>2, <1>4, <2>1, <2>2
<1>9. ASSUME NEW j \in DOMAIN q, q[j].type # "Setup"
      PROVE  j > n /\ \E l \in DOMAIN sip : q[j] = sip[l]
  <2>1. ASSUME j \in 1 .. n PROVE FALSE
    <3>1. q[j] = Setup(k, j, v[j].port)
      BY <1>6, <2>1
    <3>2. q[j].type = "Setup"
      BY <3>1 DEF Setup
    <3> QED
      BY <1>9, <3>2
  <2>2. j > n
    <3>1. j \in 1 .. n + Len(sip) /\ j \notin 1 .. n
      BY <1>5, <2>1
    <3> QED
      BY <1>2, <1>4, <3>1
  <2>3. j - n \in DOMAIN sip /\ q[j] = sip[j - n]
    BY <1>7, <2>2
  <2> QED
    BY <2>2, <2>3
<1>10. Sends(s, q)
  <2> SUFFICES ASSUME NEW j \in DOMAIN q, q[j].type = "Setup"
               PROVE  /\ q[j].call \notin released'[s] => Has(s, q[j].call, q[j].idx, q[j].port)'
                      /\ q[j].idx > 1 => j > 1 /\ IsSetup(q[j - 1], q[j].call, q[j].idx - 1)
    BY DEF Sends
  <2>1. j \in 1 .. n
    BY <1>8
  <2>2. q[j] = Setup(k, j, v[j].port)
    BY <1>6, <2>1
  <2>3. q[j].call = k /\ q[j].idx = j /\ q[j].port = v[j].port
    BY <2>2 DEF Setup
  <2>4. ASSUME q[j].idx > 1 PROVE j > 1 /\ IsSetup(q[j - 1], q[j].call, q[j].idx - 1)
    <3>1. j > 1 /\ j - 1 \in 1 .. n
      BY <1>2, <2>1, <2>3, <2>4
    <3>2. q[j - 1] = Setup(k, j - 1, v[j - 1].port)
      BY <1>6, <3>1
    <3> QED
      BY <2>3, <3>1, <3>2 DEF IsSetup, Setup
  <2>5. ASSUME q[j].call \notin released'[s] PROVE Has(s, q[j].call, q[j].idx, q[j].port)'
    <3>1. PICK p : p = v[j].port
      OBVIOUS
    <3>2. Has(s, k, j, p)'
      BY <2>1, <2>3, <2>5, <3>1 DEF FirstLines
    <3> QED
      BY <2>3, <3>1, <3>2
  <2> QED
    BY <2>4, <2>5
<1>11. ASSUME NEW l \in 1 .. n PROVE l \in DOMAIN q /\ IsSetup(q[l], k, l)
  <2>1. l \in DOMAIN q /\ q[l] = Setup(k, l, v[l].port)
    BY <1>6
  <2> QED
    BY <2>1 DEF IsSetup, Setup
<1> QED
  BY <1>4, <1>9, <1>10, <1>11 DEF Announces

\* A message without SetupData says nothing about ports.
LEMMA NothingSent ==
  ASSUME NEW s, NEW q, Plain(q)
  PROVE  q \in Seq(Messages) /\ Sends(s, q)
<1>1. q \in Seq(Messages) /\ \A j \in DOMAIN q : q[j].type # "Setup"
  BY DEF Plain
<1>2. Sends(s, q)
  BY <1>1 DEF Sends
<1> QED
  BY <1>1, <1>2

\* What is sent besides SetupData is the SIP message.
Relayed(q, sip) == \A j \in DOMAIN q : q[j].type # "Setup" => \E l \in DOMAIN sip : q[j] = sip[l]

\* The lines 1 .. n of call k are there and are announced first.
Tells(s, k, n, q) ==
  /\ \A l \in 1 .. n : /\ l \in DOMAIN q /\ IsSetup(q[l], k, l)
                       /\ l \in DOMAIN Vector(s, k)'
  /\ \A j \in DOMAIN q : q[j].type # "Setup" => j > n

\* It does when the call is known and goes on.
TellsKnown(s, k, ends, n, q) ==
  ~ends /\ calls[s][k] # NoCall /\ k \notin released'[s] /\ (s = "near" \/ k \notin onServer)
    => Tells(s, k, n, q)

\* What ProcessSip does that the order depends on.
SipOutcome(s, k, ends, invites, n, i, sip) ==
  /\ Kept(s, i)
  /\ \E q \in Seq(Messages) :
       Exchange(s, i, q) /\ Sends(s, q) /\ Relayed(q, sip) /\ TellsKnown(s, k, ends, n, q)
  /\ ~ends /\ invites /\ up'[s] => calls'[s][k] # NoCall
  /\ \A c \in onServer' :
       c \in onServer \/ (s = "far" /\ i = 0 /\ c = k /\ ~ends /\ invites /\ calls[s][k] = NoCall)
  /\ ends /\ s = "far" => k \notin onServer'

\* What a process that stops has sent was still true.
LEMMA CrashOutcome ==
  ASSUME OrderInv, NEW s \in Sides, NEW k \in Calls, NEW ends, NEW invites, NEW n,
         NEW i, NEW sip, NEW q \in Seq(Messages), Crash(s, i, q), Sends(s, q), Relayed(q, sip)
  PROVE  SipOutcome(s, k, ends, invites, n, i, sip)
<1>1. /\ Kept(s, i) /\ ~up'[s]
      /\ \A c \in Calls : calls[s][c] # NoCall => c \in released'[s]
      /\ onServer' \subseteq onServer /\ (s = "far" => onServer' = {})
  BY CrashKept
<1>2. Exchange(s, i, q)
  BY DEF Crash
<1>3. calls[s][k] # NoCall => k \in released'[s]
  BY <1>1
<1>4. \E z \in Seq(Messages) :
        Exchange(s, i, z) /\ Sends(s, z) /\ Relayed(z, sip) /\ TellsKnown(s, k, ends, n, z)
  BY <1>2, <1>3 DEF TellsKnown
<1>5. /\ ~(~ends /\ invites /\ up'[s])
      /\ \A c \in onServer' : c \in onServer
      /\ ends /\ s = "far" => k \notin onServer'
  BY <1>1
<1> QED
  BY <1>1, <1>4, <1>5 DEF SipOutcome

\* addDataPorts announces the new lines in order, before the SIP message goes.
LEMMA AddDataPortsOutcome ==
  ASSUME OrderInv, NEW s \in Sides, NEW k \in Calls, NEW ends, NEW invites,
         NEW n \in 0 .. MaxLines, NEW i, NEW sip, Plain(sip),
         ~ends, ~HasHole(Vector(s, k), n), AddDataPorts(s, k, n, i, sip),
         onServer' = IF s = "far" /\ i = 0 /\ calls[s][k] = NoCall /\ invites
                     THEN onServer \cup {k} ELSE onServer
  PROVE  SipOutcome(s, k, ends, invites, n, i, sip)
<1>0. TablesOK /\ PortMapMatchesCalls /\ NoHoles
  BY TypeParts DEF OrderInv, CallInv
<1>1. PICK v, is, a, q :
        /\ Added(v, s, k, n) /\ is = 1 .. n
        /\ a = (IF Relays(s, k, onServer') THEN Advertise(k, n, v) ELSE <<>>)
        /\ SetVector(s, k, v) /\ Register(s, k, is, v)
        /\ q = InOrder(a, sip) /\ Exchange(s, i, q)
        /\ UNCHANGED <<up, released, freed>>
  BY DEF AddDataPorts, Added
<1>2. /\ Extends(v, s, k, is) /\ n \in 0 .. Len(v)
      /\ \A l \in DOMAIN v \ DOMAIN Vector(s, k) : v[l] # Hole
      /\ \A l \in DOMAIN Vector(s, k) : l \in DOMAIN v /\ v[l] = Vector(s, k)[l]
  <2>1. Added(v, s, k, n)
    BY <1>1
  <2> QED
    BY <1>0, <1>1, <2>1, AddedFacts
<1>3. k \notin released[s] => \A l \in DOMAIN v : v[l] # Hole
  <2>1. k \notin released[s] => \A l \in DOMAIN Vector(s, k) : Vector(s, k)[l] # Hole
    BY <1>0 DEF NoHoles, Vector
  <2> QED
    BY <1>2, <2>1
<1>4. Kept(s, i) /\ Vector(s, k)' = v /\ calls'[s][k] # NoCall
  <2>1. SetVector(s, k, v) /\ UNCHANGED <<up, released>>
    BY <1>1
  <2>2. \A l \in DOMAIN Vector(s, k) : v[l].peer = Vector(s, k)[l].peer
    BY <1>2
  <2> QED
    BY <1>2, <1>3, <2>1, <2>2, ExtendedKept
<1>5. /\ v \in Vectors /\ \A j \in 1 .. n : j \in DOMAIN v /\ v[j] # Hole
  BY <1>1, <1>2 DEF Extends
<1>6. FirstLines(s, k, n, v)
  BY <1>4, <1>5 DEF Has, FirstLines
<1>9. /\ \A c \in onServer' :
           c \in onServer \/ (s = "far" /\ i = 0 /\ c = k /\ ~ends /\ invites /\ calls[s][k] = NoCall)
      /\ ~ends /\ Exchange(s, i, q)
  BY <1>1
<1>7. CASE Relays(s, k, onServer')
  <2>1. q = InOrder(Advertise(k, n, v), sip)
    BY <1>1, <1>7
  <2>2. Announces(s, k, n, q, sip)
    <3>1. v \in Vectors /\ n \in 0 .. Len(v) /\ \A j \in 1 .. n : v[j] # Hole
      BY <1>2, <1>5
    <3> QED
      BY <1>6, <2>1, <3>1, AdvertisedInOrder
  <2>3. Tells(s, k, n, q) /\ Relayed(q, sip)
    <3>1. \A l \in 1 .. n : l \in DOMAIN Vector(s, k)'
      BY <1>4, <1>5
    <3> QED
      BY <2>2, <3>1 DEF Announces, Tells, Relayed
  <2> QED
    BY <1>4, <1>9, <2>2, <2>3 DEF Announces, TellsKnown, SipOutcome
<1>8. CASE ~Relays(s, k, onServer')
  <2>1. q = sip
    <3>1. q = <<>> \o sip /\ sip \in Seq(Messages)
      BY <1>1, <1>8 DEF InOrder, Plain
    <3> QED
      BY <3>1, ConcatEmptySeq
  <2>2. q \in Seq(Messages) /\ Sends(s, q) /\ Relayed(q, sip)
    BY <2>1, NothingSent DEF Relayed
  <2>3. calls[s][k] = NoCall \/ ~(s = "near" \/ k \notin onServer)
    BY <1>8 DEF Relays
  <2> QED
    BY <1>4, <1>9, <2>2, <2>3 DEF TellsKnown, SipOutcome
<1> QED
  BY <1>7, <1>8

\* addDataPorts that dereferences a NULL line has announced those before it.
LEMMA AddDataPortsCrashOutcome ==
  ASSUME OrderInv, NEW s \in Sides, NEW k \in Calls, NEW ends, NEW invites,
         NEW n \in 0 .. MaxLines, NEW i, NEW sip, AddDataPortsCrash(s, k, n, i)
  PROVE  SipOutcome(s, k, ends, invites, n, i, sip)
<1>0. TablesOK
  BY TypeParts DEF OrderInv, CallInv
<1>1. /\ Vector(s, k) \in Vectors /\ Len(Vector(s, k)) \in 0 .. MaxLines
      /\ DOMAIN Vector(s, k) = 1 .. Len(Vector(s, k))
  BY <1>0, VectorType
<1>2. PICK before, v, q :
        /\ before \in 0 .. n - 1 /\ v = Vector(s, k)
        /\ ~HasHole(v, before) /\ HasHole(v, before + 1)
        /\ q = (IF Relays(s, k, onServer) THEN Advertise(k, before, v) ELSE <<>>)
        /\ Crash(s, i, q)
  BY DEF AddDataPortsCrash
<1>3. before \in 0 .. Len(v) /\ \A j \in 1 .. before : v[j] # Hole
  BY <1>1, <1>2, SipCallsAssumption DEF HasHole
<1>4. k \in released'[s]
  <2>1. DOMAIN v # {}
    BY <1>2 DEF HasHole
  <2>2. calls[s][k] # NoCall
    BY <1>2, <2>1 DEF Vector
  <2> QED
    BY <1>2, <2>2, CrashKept
<1>5. q \in Seq(Messages) /\ Sends(s, q) /\ Relayed(q, sip)
  <2>1. CASE Relays(s, k, onServer)
    <3>1. q = InOrder(Advertise(k, before, v), <<>>)
      <4>1. Advertise(k, before, v) \in Seq(Messages)
        BY <1>1, <1>2, <1>3, AdvertiseFacts
      <4> QED
        BY <1>2, <2>1, <4>1, ConcatEmptySeq DEF InOrder
    <3>2. Announces(s, k, before, q, <<>>)
      <4>1. v \in Vectors
        BY <1>1, <1>2
      <4> QED
        BY <1>3, <1>4, <3>1, <4>1, NothingPlain, AdvertisedInOrder DEF FirstLines
    <3>3. DOMAIN <<>> = {}
      OBVIOUS
    <3> QED
      BY <3>2, <3>3 DEF Announces, Relayed
  <2>2. CASE ~Relays(s, k, onServer)
    <3>1. q = <<>> /\ DOMAIN <<>> = {}
      BY <1>2, <2>2
    <3> QED
      BY <3>1, NothingPlain, NothingSent DEF Relayed
  <2> QED
    BY <2>1, <2>2
<1> QED
  BY <1>2, <1>5, CrashOutcome

\* A SIP message, from the local network or from the link.
LEMMA ProcessSipOutcome ==
  ASSUME OrderInv, NEW s \in Sides, NEW k \in Calls, NEW ends, NEW invites,
         NEW n \in Lines, NEW i, NEW sip, Plain(sip),
         ProcessSip(s, k, ends, invites, n, i, sip)
  PROVE  SipOutcome(s, k, ends, invites, n, i, sip)
<1>0. n \in 0 .. MaxLines /\ TablesOK
  BY TypeParts DEF Lines, OrderInv, CallInv
<1>1. PICK own :
        /\ own = IF s = "far" /\ i = 0 /\ calls[s][k] = NoCall /\ invites
                 THEN onServer \cup {k} ELSE onServer
        /\ \/ Crash(s, i, <<>>)
           \/ ends /\ Erase(s, k) /\ Exchange(s, i, sip)
           \/ AddDataPortsCrash(s, k, n, i)
           \/ /\ ~ends /\ ~HasHole(Vector(s, k), n) /\ onServer' = own
              /\ AddDataPorts(s, k, n, i, sip)
           \/ /\ ~ends /\ calls[s][k] = NoCall /\ ~invites
              /\ Exchange(s, i, sip)
              /\ UNCHANGED <<up, calls, onServer, portMap, released, freed>>
  BY Zenon DEF ProcessSip
<1>2. sip \in Seq(Messages) /\ Sends(s, sip) /\ Relayed(sip, sip)
  BY NothingSent DEF Relayed
<1>3. CASE Crash(s, i, <<>>)
  <2>1. <<>> \in Seq(Messages) /\ Sends(s, <<>>) /\ DOMAIN <<>> = {}
    BY NothingPlain, NothingSent
  <2>2. Relayed(<<>>, sip)
    BY <2>1 DEF Relayed
  <2> QED
    BY <1>3, <2>1, <2>2, CrashOutcome
<1>4. CASE ends /\ Erase(s, k) /\ Exchange(s, i, sip)
  <2>1. Kept(s, i)
    BY <1>4, EraseKept
  <2>2. onServer' = IF s = "far" THEN onServer \ {k} ELSE onServer
    BY <1>4 DEF Erase
  <2> QED
    BY <1>2, <1>4, <2>1, <2>2 DEF TellsKnown, SipOutcome
<1>5. CASE AddDataPortsCrash(s, k, n, i)
  BY <1>0, <1>5, AddDataPortsCrashOutcome
<1>6. CASE /\ ~ends /\ ~HasHole(Vector(s, k), n) /\ onServer' = own
           /\ AddDataPorts(s, k, n, i, sip)
  BY <1>0, <1>1, <1>6, AddDataPortsOutcome
<1>7. CASE /\ ~ends /\ calls[s][k] = NoCall /\ ~invites
           /\ Exchange(s, i, sip)
           /\ UNCHANGED <<up, calls, onServer, portMap, released, freed>>
  <2>1. Kept(s, i)
    BY <1>7, IdleKept
  <2> QED
    BY <1>2, <1>7, <2>1 DEF TellsKnown, SipOutcome
<1> QED
  BY <1>1, <1>3, <1>4, <1>5, <1>6, <1>7

\* A SIP message keeps the order.
LEMMA SipOrderStep ==
  ASSUME NEW s, NEW k, NEW ends, NEW invites, NEW n, NEW i, NEW sip,
         SipOutcome(s, k, ends, invites, n, i, sip),
         i = 0 \/ wire[Other(s)][i].type # "Setup"
  PROVE  OrderStep(s, i)
<1>1. Learned(s, i)
  BY DEF Learned, Setup
<1> QED
  BY <1>1 DEF SipOutcome, OrderStep

\* So does a SetupData, which is the first of the stream.
LEMMA ReceiveSetupOrder ==
  ASSUME OrderInv, NEW s \in Sides, NEW i \in DOMAIN wire[Other(s)] \cap {1},
         ReceiveSetup(s, i)
  PROVE  OrderStep(s, i) /\ onServer' \subseteq onServer /\ Exchange(s, i, <<>>)
<1>0. /\ TablesOK /\ PortMapMatchesCalls /\ NoHoles /\ Successive
      /\ wire \in [Sides -> Seq(Messages)]
  BY TypeParts DEF OrderInv, CallInv
<1>1. PICK m : m = wire[Other(s)][i]
  OBVIOUS
<1>2. /\ m \in Messages /\ m.type = "Setup"
  <2>1. wire[Other(s)] \in Seq(Messages) /\ i \in DOMAIN wire[Other(s)]
    BY <1>0, OtherSide
  <2>2. m \in Messages
    BY <1>1, <2>1
  <2>3. m.type = "Setup"
    BY <1>1 DEF ReceiveSetup
  <2> QED
    BY <2>2, <2>3
<1>3. PICK k, n, p : m = Setup(k, n, p) /\ k \in Calls /\ n \in 1 .. MaxLines /\ p \in Ports
  BY <1>2 DEF Messages, Setup
<1>4. m.call = k /\ m.idx = n /\ m.port = p
  BY <1>3 DEF Setup
<1>5. <<>> \in Seq(Messages) /\ Sends(s, <<>>)
  BY NothingPlain, NothingSent
<1>6. ASSUME NEW c \in Calls, NEW l, NEW z, wire[Other(s)][i] = Setup(c, l, z)
      PROVE  c = k /\ l = n /\ z = p
  <2>1. Setup(c, l, z).call = c /\ Setup(c, l, z).idx = l /\ Setup(c, l, z).port = z
    BY DEF Setup
  <2>2. m = Setup(c, l, z)
    BY <1>1, <1>6
  <2> QED
    BY <1>4, <2>1, <2>2
<1>7. \/ Crash(s, i, <<>>) /\ n \in DOMAIN Vector(s, k)
      \/ /\ n \in DOMAIN Vector(s, k) /\ Vector(s, k)[n] # Hole
         /\ \E v : /\ Linked(v, s, k, n, p)
                   /\ SetVector(s, k, v) /\ Register(s, k, {n}, v)
         /\ Exchange(s, i, <<>>)
         /\ UNCHANGED <<up, onServer, released, freed>>
      \/ /\ n \notin DOMAIN Vector(s, k)
         /\ \E f \in FreshPorts(s, 1) : \E v :
              /\ Grown(v, s, k, n, [Conn(f[1]) EXCEPT !.peer = p])
              /\ SetVector(s, k, v) /\ Register(s, k, {n}, v)
         /\ Exchange(s, i, <<>>)
         /\ UNCHANGED <<up, onServer, released, freed>>
  BY <1>1, <1>4 DEF ReceiveSetup, Linked, Grown
<1>8. CASE Crash(s, i, <<>>) /\ n \in DOMAIN Vector(s, k)
  <2>1. /\ Kept(s, i)
        /\ \A c \in Calls : calls[s][c] # NoCall => c \in released'[s]
        /\ onServer' \subseteq onServer
    BY <1>8, CrashKept
  <2>2. calls[s][k] # NoCall
    BY <1>8 DEF Vector
  <2>3. Learned(s, i)
    <3>1. k \in released'[s]
      BY <1>3, <2>1, <2>2
    <3>2. \A c \in Calls \ released'[s], l \in 1 .. MaxLines, z \in Ports :
            wire[Other(s)][i] # Setup(c, l, z)
      BY <1>6, <3>1
    <3> QED
      BY <3>2 DEF Learned
  <2>4. Exchange(s, i, <<>>)
    BY <1>8 DEF Crash
  <2> QED
    BY <1>5, <2>1, <2>3, <2>4 DEF OrderStep
<1>9. ASSUME NEW v, Learns(v, s, k, n, p), SetVector(s, k, v), Register(s, k, {n}, v),
             Exchange(s, i, <<>>), UNCHANGED <<up, onServer, released, freed>>,
             k \notin released[s] => \A l \in DOMAIN v : v[l] # Hole
      PROVE  OrderStep(s, i)
  <2>1. \A l \in DOMAIN Vector(s, k) :
          v[l] # Hole =>
            \/ v[l].peer = Vector(s, k)[l].peer
            \/ i # 0 /\ wire[Other(s)][i] = Setup(k, l, v[l].peer)
    <3>1. \A l \in DOMAIN Vector(s, k) : l \in DOMAIN v
      BY <1>0, <1>3, <1>9, VectorType DEF Learns, Extends, Vectors
    <3>2. wire[Other(s)][i] = Setup(k, n, v[n].peer) /\ i # 0
      BY <1>1, <1>3, <1>9 DEF Learns
    <3>3. \A l \in DOMAIN v \ {n} : v[l] # Hole => v[l] = Vector(s, k)[l]
      BY <1>9 DEF Learns
    <3> QED
      BY <3>1, <3>2, <3>3
  <2>2. Kept(s, i) /\ Vector(s, k)' = v
    <3>1. Extends(v, s, k, {n}) /\ UNCHANGED <<up, released>>
      BY <1>9 DEF Learns
    <3> QED
      BY <1>3, <1>9, <2>1, <3>1, ExtendedKept
  <2>3. n \in DOMAIN v /\ v[n].peer = p
    BY <1>9 DEF Learns, Extends
  <2>4. Learned(s, i)
    BY <1>3, <1>6, <2>2, <2>3 DEF Learned
  <2> QED
    BY <1>5, <1>9, <2>2, <2>4 DEF OrderStep
<1>10. \A l \in DOMAIN Vector(s, k) : k \notin released[s] => Vector(s, k)[l] # Hole
  BY <1>0, <1>3 DEF NoHoles, Vector
<1>11. CASE /\ n \in DOMAIN Vector(s, k) /\ Vector(s, k)[n] # Hole
            /\ \E v : /\ Linked(v, s, k, n, p)
                      /\ SetVector(s, k, v) /\ Register(s, k, {n}, v)
            /\ Exchange(s, i, <<>>)
            /\ UNCHANGED <<up, onServer, released, freed>>
  <2>1. PICK v : /\ Linked(v, s, k, n, p)
                 /\ SetVector(s, k, v) /\ Register(s, k, {n}, v)
    BY <1>11
  <2>2. Learns(v, s, k, n, p) /\ DOMAIN v = DOMAIN Vector(s, k)
    <3>1. /\ k \in Calls /\ p \in Ports /\ Linked(v, s, k, n, p)
          /\ n \in DOMAIN Vector(s, k) /\ Vector(s, k)[n] # Hole
      BY <1>3, <1>11, <2>1
    <3> QED
      BY <1>0, <3>1, LinkedFacts
  <2>3. \A l \in DOMAIN v : k \notin released[s] => v[l] # Hole
    BY <1>10, <2>2 DEF Learns, Extends
  <2> QED
    BY <1>9, <1>11, <2>1, <2>2, <2>3
<1>12. CASE /\ n \notin DOMAIN Vector(s, k)
            /\ \E f \in FreshPorts(s, 1) : \E v :
                 /\ Grown(v, s, k, n, [Conn(f[1]) EXCEPT !.peer = p])
                 /\ SetVector(s, k, v) /\ Register(s, k, {n}, v)
            /\ Exchange(s, i, <<>>)
            /\ UNCHANGED <<up, onServer, released, freed>>
  <2>1. PICK f, c, v :
          /\ f \in FreshPorts(s, 1) /\ c = [Conn(f[1]) EXCEPT !.peer = p]
          /\ Grown(v, s, k, n, c)
          /\ SetVector(s, k, v) /\ Register(s, k, {n}, v)
    BY <1>12
  <2>2. f[1] \in Ports \ InUse(s)
    BY <2>1 DEF FreshPorts
  <2>3. c \in Connections /\ c.port = f[1] /\ c.peer = p
    BY <1>3, <2>1, <2>2 DEF Conn, Connections
  <2>4. Learns(v, s, k, n, p) /\ DOMAIN v = 1 .. n
    <3>1. /\ k \in Calls /\ c \in Connections /\ c.port \notin InUse(s)
          /\ n \in (1 .. MaxLines) \ DOMAIN Vector(s, k) /\ Grown(v, s, k, n, c)
      BY <1>3, <1>12, <2>1, <2>2, <2>3
    <3> QED
      BY <1>0, <2>3, <3>1, GrownFacts
  <2>5. k \notin released[s] => n = 1 \/ n - 1 \in DOMAIN Vector(s, k)
    <3>1. i \in DOMAIN wire[Other(s)] /\ i = 1
      OBVIOUS
    <3>2. n > 1 => m.call \in released[s] \/ m.idx - 1 \in DOMAIN Vector(s, m.call)
      BY <1>0, <1>1, <1>2, <1>4, <3>1, OtherSide DEF Successive
    <3>3. n > 1 \/ n = 1
      BY <1>3
    <3> QED
      BY <1>4, <3>2, <3>3
  <2>6. ASSUME k \notin released[s], NEW l \in DOMAIN v PROVE v[l] # Hole
    <3>1. l \in DOMAIN Vector(s, k) \/ l = n
      <4>1. DOMAIN Vector(s, k) = 1 .. Len(Vector(s, k)) /\ Len(Vector(s, k)) \in Nat
        BY <1>0, <1>3, VectorType
      <4>2. l \in 1 .. n /\ n \in Nat
        BY <1>3, <2>4, <2>6
      <4> QED
        BY <2>5, <2>6, <4>1, <4>2
    <3> QED
      BY <1>10, <2>4, <2>6, <3>1 DEF Learns, Extends
  <2> QED
    BY <1>9, <1>12, <2>1, <2>4, <2>6
<1>13. onServer' \subseteq onServer /\ Exchange(s, i, <<>>)
  BY <1>7, CrashKept DEF Crash
<1> QED
  BY <1>7, <1>8, <1>11, <1>12, <1>13

-----------------------------------------------------------------------------
(* The lines of an answered call are linked at both ends. *)

\* The near end of line n of call k holds the far end's port.
NearLinked(k, n) ==
  /\ n \in DOMAIN Vector("near", k) /\ n \in DOMAIN Vector("far", k)
  /\ Vector("near", k)[n].peer = Vector("far", k)[n].port

\* The far end holds the near end's, or is about to be told.
FarLinked(k, n) ==
  \/ Announcing("near", k, n)
  \/ Vector("far", k)[n].peer = Vector("near", k)[n].port

\* Neither side has erased the call, and it is not one of the far side's own.
Untouched(k) == k \notin released["near"] \cup released["far"] /\ caller[k] # "foreign"

Accepts(m) == m.type = "Response" /\ m.cseq = "INVITE" /\ m.class = "success"

\* The lines a 2xx describes are announced before it, or the near end of them
\* is linked already.
AcceptsFollowPorts ==
  \A j \in DOMAIN wire["far"] :
    LET m == wire["far"][j] IN
    Accepts(m) /\ Untouched(m.call) =>
      \A n \in 1 .. m.lines :
        /\ n \in DOMAIN Vector("far", m.call)
        /\ \/ \E l \in 1 .. j - 1 : IsSetup(wire["far"][l], m.call, n)
           \/ NearLinked(m.call, n)

\* Nothing of call k has crossed the link.
Unplaced(k) ==
  /\ asked[k] = {} /\ answered[k] = 0
  /\ \A j \in DOMAIN wire["near"] : wire["near"][j].type = "Request" => wire["near"][j].call # k
  /\ \A j \in DOMAIN wire["far"] : wire["far"][j].type = "Response" => wire["far"][j].call # k

\* A call whose INVITE the callee has received is known at the far side, and
\* belongs to the link unless it was erased or is one of the far side's own.
CallersKnown ==
  \A k \in Calls :
    /\ caller[k] \in {"idle", "foreign"} => Unplaced(k)
    /\ "INVITE" \in asked[k] /\ up["far"] => calls["far"][k] # NoCall \/ k \in released["far"]
    /\ k \in onServer => k \in released["far"] \/ caller[k] = "foreign"

LinkedInv == OrderInv /\ AcceptsFollowPorts /\ CallersKnown /\ AnsweredLinesLinked

\* AnsweredLinesLinked in these terms.
AnswersLinked ==
  \A k \in Calls : Untouched(k) =>
    \A n \in 1 .. answered[k] : NearLinked(k, n) /\ FarLinked(k, n)

\* Both say the same.
LEMMA LinesLinked == AnsweredLinesLinked <=> AnswersLinked
<1>1. ASSUME NEW k \in Calls, NEW n
      PROVE  /\ n \in DOMAIN Vector("near", k) => Vector("near", k) = calls["near"][k]
             /\ n \in DOMAIN Vector("far", k) => Vector("far", k) = calls["far"][k]
  BY DEF Vector
<1>2. ASSUME NEW k \in Calls, NEW n
      PROVE  NearLinked(k, n) /\ FarLinked(k, n) <=>
               /\ n \in DOMAIN Vector("near", k) \cap DOMAIN Vector("far", k)
               /\ calls["near"][k][n].peer = calls["far"][k][n].port
               /\ \/ Announcing("near", k, n)
                  \/ calls["far"][k][n].peer = calls["near"][k][n].port
  BY <1>1 DEF NearLinked, FarLinked
<1> QED
  BY <1>2 DEF AnsweredLinesLinked, AnswersLinked, Untouched

\* The message that is taken says what the ports are.
LEMMA TakenStands ==
  ASSUME OrderInv, NEW s \in Sides, NEW i \in {0} \cup (DOMAIN wire[Other(s)] \cap {1}),
         NEW k \in Calls \ released[Other(s)], NEW n, NEW p, i # 0,
         wire[Other(s)][i] = Setup(k, n, p)
  PROVE  /\ n \in DOMAIN Vector(Other(s), k) /\ Vector(Other(s), k)[n].port = p
         /\ n \in 1 .. MaxLines /\ p \in Ports
<1>1. i \in DOMAIN wire[Other(s)] /\ Other(s) \in Sides
  BY OtherSide
<1>2. /\ Setup(k, n, p).type = "Setup" /\ Setup(k, n, p).call = k
      /\ Setup(k, n, p).idx = n /\ Setup(k, n, p).port = p
  BY DEF Setup
<1>3. Has(Other(s), k, n, p)
  BY <1>1, <1>2 DEF OrderInv, PortsStand
<1>4. wire[Other(s)][i] \in Messages
  BY <1>1, TypeParts DEF OrderInv, CallInv
<1>5. n \in 1 .. MaxLines /\ p \in Ports
  BY <1>2, <1>4 DEF Messages
<1> QED
  BY <1>3, <1>5 DEF Has

\* A line that is linked stays linked.
LEMMA NearLinkedKept ==
  ASSUME OrderInv, NEW s \in Sides,
         NEW i \in {0} \cup (DOMAIN wire[Other(s)] \cap {1}), Kept(s, i),
         NEW k \in Calls, k \notin released'["near"] \cup released'["far"],
         NEW n, NearLinked(k, n)
  PROVE  NearLinked(k, n)'
<1>1. k \notin released["near"] \cup released["far"] /\ CallKept(s, k, i)
  <2>1. released["near"] \subseteq released'["near"] /\ released["far"] \subseteq released'["far"]
    BY OtherSide DEF Kept, Other, Sides
  <2> QED
    BY <2>1 DEF Kept, Sides
<1>2. Vector(Other(s), k)' = Vector(Other(s), k)
  BY DEF Kept, Vector
<1>3. CASE s = "near"
  <2>1. /\ n \in DOMAIN Vector("near", k)'
        /\ \/ Vector("near", k)'[n].peer = Vector("near", k)[n].peer
           \/ i # 0 /\ wire["far"][i] = Setup(k, n, Vector("near", k)'[n].peer)
    BY <1>1, <1>3 DEF CallKept, NearLinked, Other
  <2>2. Vector("far", k)' = Vector("far", k)
    BY <1>2, <1>3 DEF Other
  <2>3. ASSUME NEW p, p = Vector("near", k)'[n].peer, i # 0, wire["far"][i] = Setup(k, n, p)
        PROVE  Vector("far", k)[n].port = p
    BY <1>1, <1>3, <2>3, TakenStands DEF Other
  <2> QED
    BY <2>1, <2>2, <2>3 DEF NearLinked
<1>4. CASE s = "far"
  <2>1. /\ n \in DOMAIN Vector("far", k)'
        /\ Vector("far", k)'[n].port = Vector("far", k)[n].port
    BY <1>1, <1>4 DEF CallKept, NearLinked
  <2>2. Vector("near", k)' = Vector("near", k)
    BY <1>2, <1>4 DEF Other
  <2> QED
    BY <2>1, <2>2 DEF NearLinked
<1> QED
  BY <1>3, <1>4 DEF Sides

\* The far end of such a line learns the near end's port, or is told of it.
LEMMA FarLinkedKept ==
  ASSUME OrderInv, NEW s \in Sides,
         NEW i \in {0} \cup (DOMAIN wire[Other(s)] \cap {1}),
         NEW q \in Seq(Messages), Kept(s, i), Learned(s, i), Exchange(s, i, q),
         NEW k \in Calls, k \notin released'["near"] \cup released'["far"],
         NEW n, NearLinked(k, n), FarLinked(k, n)
  PROVE  FarLinked(k, n)'
<1>0. wire \in [Sides -> Seq(Messages)]
  BY TypeParts DEF OrderInv, CallInv
<1>1. k \notin released["near"] \cup released["far"] /\ CallKept(s, k, i)
  <2>1. released["near"] \subseteq released'["near"] /\ released["far"] \subseteq released'["far"]
    BY OtherSide DEF Kept, Other, Sides
  <2> QED
    BY <2>1 DEF Kept, Sides
<1>2. Vector(Other(s), k)' = Vector(Other(s), k)
  BY DEF Kept, Vector
<1>3. CASE s = "near"
  <2>1. \A j \in DOMAIN wire["near"] :
          j \in DOMAIN wire'["near"] /\ wire'["near"][j] = wire["near"][j]
    BY <1>0, <1>3, ExchangeFacts
  <2>2. /\ Vector("far", k)' = Vector("far", k)
        /\ Vector("near", k)'[n].port = Vector("near", k)[n].port
    BY <1>1, <1>2, <1>3 DEF Other, CallKept, NearLinked
  <2>3. Announcing("near", k, n) => Announcing("near", k, n)'
    BY <2>1 DEF Announcing
  <2> QED
    BY <2>2, <2>3 DEF FarLinked
<1>4. CASE s = "far"
  <2>1. Vector("near", k)' = Vector("near", k)
    BY <1>2, <1>4 DEF Other
  <2>2. CASE Announcing("near", k, n)
    <3>1. PICK j \in DOMAIN wire["near"] : IsSetup(wire["near"][j], k, n)
      BY <2>2 DEF Announcing, IsSetup
    <3>2. PICK p : wire["near"][j] = Setup(k, n, p)
      <4>1. wire["near"][j] \in Messages
        BY <1>0 DEF Sides
      <4> QED
        BY <3>1, <4>1 DEF Messages, IsSetup, Setup
    <3>3. CASE j = i
      <4>1. i # 0
        <5>1. wire["near"] \in Seq(Messages)
          BY <1>0 DEF Sides
        <5> QED
          BY <3>3, <5>1
      <4>2. /\ n \in 1 .. MaxLines /\ p \in Ports /\ Vector("near", k)[n].port = p
        BY <1>1, <1>4, <3>2, <3>3, <4>1, TakenStands DEF Other
      <4>3. Vector("far", k)'[n].peer = p
        BY <1>4, <3>2, <3>3, <4>1, <4>2 DEF Learned, Other
      <4> QED
        BY <2>1, <4>2, <4>3 DEF FarLinked
    <3>4. CASE j # i
      <4>1. j > i
        <5>1. wire["near"] \in Seq(Messages)
          BY <1>0 DEF Sides
        <5> QED
          BY <3>4, <5>1
      <4>2. j - i \in DOMAIN wire'["near"] /\ wire'["near"][j - i] = wire["near"][j]
        BY <1>0, <1>4, <4>1, ExchangeFacts DEF Other
      <4>3. Announcing("near", k, n)'
        BY <3>1, <4>2 DEF Announcing, IsSetup
      <4> QED
        BY <4>3 DEF FarLinked
    <3> QED
      BY <3>3, <3>4
  <2>3. CASE Vector("far", k)[n].peer = Vector("near", k)[n].port
    <3>1. \/ Vector("far", k)'[n].peer = Vector("far", k)[n].peer
          \/ i # 0 /\ wire["near"][i] = Setup(k, n, Vector("far", k)'[n].peer)
      BY <1>1, <1>4 DEF CallKept, NearLinked, Other
    <3>2. ASSUME NEW p, i # 0, wire["near"][i] = Setup(k, n, p)
          PROVE  Vector("near", k)[n].port = p
      BY <1>1, <1>4, <3>2, TakenStands DEF Other
    <3> QED
      BY <2>1, <2>3, <3>1, <3>2 DEF FarLinked
  <2> QED
    BY <2>2, <2>3 DEF FarLinked
<1> QED
  BY <1>3, <1>4 DEF Sides

\* Every 2xx of q follows the SetupData of its lines, which are there.
Heralds(q) ==
  \A c \in Calls : \A j \in DOMAIN q :
    Accepts(q[j]) /\ q[j].call = c /\ Untouched(c)' =>
      \A n \in 1 .. q[j].lines :
        /\ n \in DOMAIN Vector("far", c)'
        /\ \E l \in 1 .. j - 1 : IsSetup(q[l], c, n)

\* A call of the far side's own that ends never crossed the link.
LeavesUnplaced == \A k \in Calls : Untouched(k)' => Untouched(k) \/ Unplaced(k)'

\* What the caller has newly heard is about linked lines.
Answers ==
  \A k \in Calls : Untouched(k)' =>
    \/ answered'[k] = answered[k]
    \/ \A n \in 1 .. answered'[k] : NearLinked(k, n)' /\ FarLinked(k, n)'

\* Such a step keeps the lines of the answered calls linked.
LEMMA LinesKept ==
  ASSUME LinkedInv, wire' \in [Sides -> Seq(Messages)], NEW s \in Sides,
         NEW i \in {0} \cup (DOMAIN wire[Other(s)] \cap {1}),
         NEW q \in Seq(Messages), Kept(s, i), Learned(s, i), Exchange(s, i, q),
         s = "far" => Heralds(q), LeavesUnplaced, Answers
  PROVE  AcceptsFollowPorts' /\ AnsweredLinesLinked'
<1>0. OrderInv /\ wire \in [Sides -> Seq(Messages)]
  BY TypeParts DEF LinkedInv, OrderInv, CallInv
<1>1. ASSUME NEW k \in Calls, Untouched(k)'
      PROVE  /\ k \notin released'["near"] \cup released'["far"]
             /\ Untouched(k) \/ Unplaced(k)'
  BY <1>1 DEF LeavesUnplaced, Untouched
<1>2. AnsweredLinesLinked'
  <2>1. ASSUME NEW k \in Calls, Untouched(k)', NEW n \in 1 .. answered'[k]
        PROVE  NearLinked(k, n)' /\ FarLinked(k, n)'
    <3>1. CASE Unplaced(k)'
      <4>1. answered'[k] = 0
        BY <3>1 DEF Unplaced
      <4> QED
        BY <2>1, <4>1
    <3>2. CASE Untouched(k) /\ answered'[k] = answered[k]
      <4>1. NearLinked(k, n) /\ FarLinked(k, n)
        BY <2>1, <3>2, LinesLinked DEF LinkedInv, AnswersLinked
      <4> QED
        BY <1>0, <1>1, <2>1, <4>1, NearLinkedKept, FarLinkedKept
    <3>3. CASE Untouched(k) /\ answered'[k] # answered[k]
      BY <2>1, <3>3 DEF Answers
    <3> QED
      BY <1>1, <2>1, <3>1, <3>2, <3>3
  <2>2. AnswersLinked'
    BY <2>1 DEF AnswersLinked
  <2> QED
    BY <2>2, LinesLinked, PTL
<1>3. AcceptsFollowPorts'
  <2> SUFFICES ASSUME NEW j \in DOMAIN wire'["far"], NEW m, m = wire'["far"][j],
                      Accepts(m), Untouched(m.call)', NEW n \in 1 .. m.lines
               PROVE  /\ n \in DOMAIN Vector("far", m.call)'
                      /\ \/ \E l \in 1 .. j - 1 : IsSetup(wire'["far"][l], m.call, n)
                         \/ NearLinked(m.call, n)'
    BY DEF AcceptsFollowPorts
  <2>1. wire'["far"] \in Seq(Messages) /\ wire["far"] \in Seq(Messages)
    BY <1>0 DEF Sides
  <2>2. m \in Messages /\ j \in Nat /\ j >= 1
    BY <2>1
  <2>3. PICK k \in Calls : k = m.call
    BY <2>2 DEF Messages, Accepts
  <2>4. Untouched(k)
    <3>1. Untouched(k)'
      BY <2>3
    <3>2. ~Unplaced(k)'
      BY <2>3 DEF Unplaced, Accepts
    <3> QED
      BY <1>1, <3>1, <3>2
  <2>5. k \notin released'["near"] \cup released'["far"] /\ CallKept(s, k, i)
    <3>1. Untouched(k)'
      BY <2>3
    <3> QED
      BY <1>1, <3>1 DEF Kept, Sides
  <2>6. NearLinked(k, n) => NearLinked(k, n)'
    BY <1>0, <2>5, NearLinkedKept
  <2>7. CASE s = "near"
    <3>1. PICK x \in DOMAIN wire["far"] : x = j + i /\ m = wire["far"][x]
      BY <1>0, <2>7, ExchangeFacts DEF Other
    <3>2. /\ n \in DOMAIN Vector("far", k)
          /\ \/ \E l \in 1 .. x - 1 : IsSetup(wire["far"][l], k, n)
             \/ NearLinked(k, n)
      BY <2>3, <2>4, <3>1 DEF LinkedInv, AcceptsFollowPorts
    <3>3. Vector("far", k)' = Vector("far", k)
      BY <2>7 DEF Kept, Vector, Other
    <3>4. ASSUME NEW l \in 1 .. x - 1, IsSetup(wire["far"][l], k, n)
          PROVE  \/ \E y \in 1 .. j - 1 : IsSetup(wire'["far"][y], k, n)
                 \/ NearLinked(k, n)'
      <4>1. /\ l \in DOMAIN wire["far"] /\ l \in Nat /\ i \in {0, 1} /\ x \in Nat
        BY <2>1, <3>1, <3>4
      <4>2. CASE l > i
        <5>1. l - i \in 1 .. j - 1
          BY <2>2, <3>1, <4>1, <4>2
        <5>2. wire'["far"][l - i] = wire["far"][l]
          BY <1>0, <2>7, <4>1, <4>2, ExchangeFacts DEF Other
        <5> QED
          BY <3>4, <5>1, <5>2
      <4>3. CASE ~(l > i)
        <5>1. l = i /\ i # 0
          BY <4>1, <4>3
        <5>2. PICK p : wire["far"][i] = Setup(k, n, p)
          <6>1. wire["far"][l] \in Messages
            BY <2>1, <4>1
          <6> QED
            BY <3>4, <5>1, <6>1 DEF Messages, IsSetup, Setup
        <5>3. /\ n \in 1 .. MaxLines /\ p \in Ports /\ Vector("far", k)[n].port = p
          BY <1>0, <2>4, <2>7, <5>1, <5>2, TakenStands DEF Other, Untouched
        <5>4. n \in DOMAIN Vector("near", k)' /\ Vector("near", k)'[n].peer = p
          BY <2>5, <2>7, <5>1, <5>2, <5>3 DEF Learned, Other
        <5> QED
          BY <3>2, <3>3, <5>3, <5>4 DEF NearLinked
      <4> QED
        BY <4>2, <4>3
    <3> QED
      BY <2>3, <2>6, <3>2, <3>3, <3>4
  <2>8. CASE s = "far" /\ j \in DOMAIN wire["far"]
    <3>1. m = wire["far"][j]
      BY <1>0, <2>8, ExchangeFacts
    <3>2. /\ n \in DOMAIN Vector("far", k)
          /\ \/ \E l \in 1 .. j - 1 : IsSetup(wire["far"][l], k, n)
             \/ NearLinked(k, n)
      BY <2>3, <2>4, <2>8, <3>1 DEF LinkedInv, AcceptsFollowPorts
    <3>3. n \in DOMAIN Vector("far", k)'
      BY <2>5, <2>8, <3>2 DEF CallKept
    <3>4. \A l \in 1 .. j - 1 : wire'["far"][l] = wire["far"][l]
      <4>1. \A l \in 1 .. j - 1 : l \in DOMAIN wire["far"]
        BY <2>1, <2>8
      <4> QED
        BY <1>0, <2>8, <4>1, ExchangeFacts
    <3> QED
      BY <2>3, <2>6, <3>2, <3>3, <3>4
  <2>9. CASE s = "far" /\ j \notin DOMAIN wire["far"]
    <3>1. PICK x \in DOMAIN q : x = j - Len(wire["far"]) /\ m = q[x]
      BY <1>0, <2>9, ExchangeFacts
    <3>2. /\ n \in DOMAIN Vector("far", k)'
          /\ \E l \in 1 .. x - 1 : IsSetup(q[l], k, n)
      <4>1. Untouched(k)'
        BY <2>3
      <4> QED
        BY <2>3, <2>9, <3>1, <4>1 DEF Heralds
    <3>3. PICK l \in 1 .. x - 1 : IsSetup(q[l], k, n)
      BY <3>2
    <3>4. l \in DOMAIN q /\ l + Len(wire["far"]) \in 1 .. j - 1
      BY <2>1, <2>2, <3>1
    <3>5. wire'["far"][l + Len(wire["far"])] = q[l]
      BY <1>0, <2>9, <3>4, ExchangeFacts
    <3> QED
      BY <2>3, <3>2, <3>3, <3>4, <3>5
  <2> QED
    BY <2>7, <2>8, <2>9 DEF Sides
<1> QED
  BY <1>2, <1>3

\* Nothing of call k crosses the link in a step that sends sip.
Silent(k, sip) ==
  /\ asked'[k] = asked[k] /\ answered'[k] = answered[k]
  /\ \A l \in DOMAIN sip : sip[l].call # k

\* A call that was never placed stays so while nothing of it crosses the link.
LEMMA UnplacedKept ==
  ASSUME wire \in [Sides -> Seq(Messages)], NEW s \in Sides,
         NEW i \in {0} \cup (DOMAIN wire[Other(s)] \cap {1}),
         NEW q \in Seq(Messages), Exchange(s, i, q), NEW sip, Relayed(q, sip),
         NEW k \in Calls, Unplaced(k), Silent(k, sip)
  PROVE  Unplaced(k)'
<1>1. ASSUME NEW x \in Sides, NEW j \in DOMAIN wire'[x], wire'[x][j].type # "Setup"
      PROVE  \/ \E l \in DOMAIN wire[x] : wire'[x][j] = wire[x][l]
             \/ wire'[x][j].call # k
  <2>1. CASE x = s /\ j \in DOMAIN wire[s]
    BY <2>1, ExchangeFacts
  <2>2. CASE x = s /\ j \notin DOMAIN wire[s]
    <3>1. PICK l \in DOMAIN q : wire'[s][j] = q[l]
      BY <2>2, ExchangeFacts
    <3> QED
      BY <1>1, <2>2, <3>1 DEF Relayed, Silent
  <2>3. CASE x = Other(s)
    BY <2>3, ExchangeFacts
  <2> QED
    BY <2>1, <2>2, <2>3, OtherSide
<1>2. ASSUME NEW j \in DOMAIN wire'["near"], wire'["near"][j].type = "Request"
      PROVE  wire'["near"][j].call # k
  <2>1. \/ \E l \in DOMAIN wire["near"] : wire'["near"][j] = wire["near"][l]
        \/ wire'["near"][j].call # k
    BY <1>1, <1>2 DEF Sides
  <2> QED
    BY <1>2, <2>1 DEF Unplaced
<1>3. ASSUME NEW j \in DOMAIN wire'["far"], wire'["far"][j].type = "Response"
      PROVE  wire'["far"][j].call # k
  <2>1. \/ \E l \in DOMAIN wire["far"] : wire'["far"][j] = wire["far"][l]
        \/ wire'["far"][j].call # k
    BY <1>1, <1>3 DEF Sides
  <2> QED
    BY <1>3, <2>1 DEF Unplaced
<1> QED
  BY <1>2, <1>3 DEF Unplaced, Silent

\* What a step of s that takes message i and sends q does to a linked call.
LinkedStep(s, i, q, sip) ==
  /\ q \in Seq(Messages) /\ Exchange(s, i, q) /\ Relayed(q, sip)
  /\ Kept(s, i) /\ Learned(s, i)

\* When no call changes hands: a call the near side placed is not taken for
\* one of the far side's own, nor is a call that nobody placed asked for.
LEMMA CallersKept ==
  ASSUME LinkedInv, NEW s \in Sides,
         NEW i \in {0} \cup (DOMAIN wire[Other(s)] \cap {1}), NEW q, NEW sip,
         LinkedStep(s, i, q, sip),
         \A k \in Calls : caller'[k] \in {"idle", "foreign"} =>
           caller[k] \in {"idle", "foreign"} /\ Silent(k, sip),
         \A k \in Calls : "INVITE" \in asked'[k] /\ up'["far"] =>
           "INVITE" \in asked[k] \/ calls'["far"][k] # NoCall,
         \A k \in onServer' :
           \/ k \in onServer /\ (caller[k] = "foreign" => caller'[k] = "foreign")
           \/ k \in released["far"] \/ caller'[k] = "foreign",
         onServer' \subseteq Calls
  PROVE  CallersKnown'
<1>0. OrderInv /\ wire \in [Sides -> Seq(Messages)]
  BY TypeParts DEF LinkedInv, OrderInv, CallInv
<1>1. /\ released["far"] \subseteq released'["far"]
      /\ up'["far"] => up["far"]
      /\ \A k \in Calls \ released'["far"] : calls["far"][k] # NoCall => calls'["far"][k] # NoCall
  <2>1. CASE s = "far"
    BY <2>1 DEF LinkedStep, Kept, CallKept
  <2>2. CASE s = "near"
    BY <2>2 DEF LinkedStep, Kept, Other
  <2> QED
    BY <2>1, <2>2 DEF Sides
<1>2. ASSUME NEW k \in Calls, caller'[k] \in {"idle", "foreign"} PROVE Unplaced(k)'
  <2>1. Unplaced(k) /\ Silent(k, sip)
    BY <1>2 DEF LinkedInv, CallersKnown
  <2> QED
    BY <1>0, <2>1, UnplacedKept DEF LinkedStep
<1>3. ASSUME NEW k \in Calls, "INVITE" \in asked'[k], up'["far"]
      PROVE  calls'["far"][k] # NoCall \/ k \in released'["far"]
  BY <1>1, <1>3 DEF LinkedInv, CallersKnown
<1>4. ASSUME NEW k \in Calls, k \in onServer'
      PROVE  k \in released'["far"] \/ caller'[k] = "foreign"
  BY <1>1, <1>4 DEF LinkedInv, CallersKnown
<1> QED
  BY <1>2, <1>3, <1>4 DEF CallersKnown

\* The same step, when the caller does not hear a new answer.
LEMMA QuietStep ==
  ASSUME LinkedInv, wire' \in [Sides -> Seq(Messages)], NEW s \in Sides,
         NEW i \in {0} \cup (DOMAIN wire[Other(s)] \cap {1}), NEW q, NEW sip,
         LinkedStep(s, i, q, sip), s = "far" => Heralds(q), Answers,
         \A k \in Calls : caller[k] = "foreign" =>
           caller'[k] = "foreign" \/ Unplaced(k)'
  PROVE  AcceptsFollowPorts' /\ AnsweredLinesLinked'
<1>1. ASSUME NEW k \in Calls, Untouched(k)' PROVE Untouched(k) \/ Unplaced(k)'
  <2>1. released["near"] \subseteq released'["near"] /\ released["far"] \subseteq released'["far"]
    BY OtherSide DEF LinkedStep, Kept, Other, Sides
  <2> QED
    BY <1>1, <2>1 DEF Untouched
<1>2. LeavesUnplaced
  BY <1>1 DEF LeavesUnplaced
<1> QED
  BY <1>2, LinesKept DEF LinkedStep

\* A handler of a SIP message, for both invariants.
LEMMA SipLinked ==
  ASSUME NEW s, NEW k, NEW ends, NEW invites, NEW n, NEW i, NEW sip,
         SipOutcome(s, k, ends, invites, n, i, sip),
         i = 0 \/ wire[Other(s)][i].type # "Setup"
  PROVE  /\ OrderStep(s, i)
         /\ \E q : LinkedStep(s, i, q, sip) /\ TellsKnown(s, k, ends, n, q)
<1>1. OrderStep(s, i)
  BY SipOrderStep
<1>2. Kept(s, i) /\ Learned(s, i)
  BY <1>1 DEF OrderStep
<1>3. PICK q \in Seq(Messages) :
        Exchange(s, i, q) /\ Relayed(q, sip) /\ TellsKnown(s, k, ends, n, q)
  BY DEF SipOutcome
<1>4. LinkedStep(s, i, q, sip)
  BY <1>2, <1>3 DEF LinkedStep
<1> QED
  BY <1>1, <1>3, <1>4

\* A step that sends no SIP message announces no 2xx.
LEMMA NoHeralds ==
  ASSUME NEW q, NEW sip, Relayed(q, sip), \A l \in DOMAIN sip : ~Accepts(sip[l])
  PROVE  Heralds(q)
<1>1. \A j \in DOMAIN q : ~Accepts(q[j])
  BY DEF Relayed, Accepts
<1> QED
  BY <1>1 DEF Heralds

\* A SIP message of call k is nothing to any other call.
LEMMA SilentOthers ==
  ASSUME NEW k, NEW c, c # k, NEW m, m.call = k, asked'[c] = asked[c], answered'[c] = answered[c]
  PROVE  Silent(c, <<m>>)
BY DEF Silent

\* Nor is sending nothing.
LEMMA SilentNothing ==
  ASSUME NEW c, asked'[c] = asked[c], answered'[c] = answered[c]
  PROVE  Silent(c, <<>>)
BY DEF Silent

\* What the invariant says of the types.
LEMMA LinkedTypes ==
  ASSUME LinkedInv
  PROVE  /\ TypeOK /\ OrderInv /\ CallInv /\ EnvOK /\ TablesOK
         /\ wire \in [Sides -> Seq(Messages)]
BY TypeParts DEF LinkedInv, OrderInv, CallInv

-----------------------------------------------------------------------------
(* The handlers keep the order and the links. *)

\* The invariant after a step.
AfterInv == AcceptsFollowPorts' /\ AnsweredLinesLinked' /\ CallersKnown'

\* A request of the phone keeps the order and the links.
LEMMA NearRequestLinked ==
  ASSUME LinkedInv, TypeOK', NEW k \in Calls, NEW method \in Methods, NEW n \in Lines,
         NearRequest(k, method, n)
  PROVE  OrderStep("near", 0) /\ AfterInv
<1> DEFINE m == Request(k, method, n)
<1>0. /\ OrderInv /\ EnvOK /\ TablesOK /\ wire' \in [Sides -> Seq(Messages)]
      /\ onServer' \subseteq Calls /\ "near" \in Sides
  BY LinkedTypes DEF TypeOK, Sides
<1>1. m \in Messages /\ m.type = "Request" /\ m.call = k
  BY DEF Request, Messages, Lines
<1>2. /\ ProcessSip("near", k, method = "BYE", method = "INVITE", n, 0, <<m>>)
      /\ asked' = asked /\ answered' = answered
      /\ caller[k] \in {"idle", "active"}
      /\ caller' = [caller EXCEPT ![k] = IF method = "BYE" THEN "over" ELSE "active"]
  BY DEF NearRequest
<1> HIDE DEF m
<1>3. SipOutcome("near", k, method = "BYE", method = "INVITE", n, 0, <<m>>)
  BY <1>0, <1>1, <1>2, SipPlain, ProcessSipOutcome
<1>4. OrderStep("near", 0)
  BY <1>3, SipLinked
<1>5. PICK q : LinkedStep("near", 0, q, <<m>>)
  BY <1>3, SipLinked
<1>6. /\ caller'[k] \in {"over", "active"}
      /\ \A c \in Calls \ {k} : caller'[c] = caller[c]
  BY <1>0, <1>2 DEF EnvOK
<1>7. Answers
  BY <1>2 DEF Answers
<1>8. \A c \in Calls : caller[c] = "foreign" => caller'[c] = "foreign"
  BY <1>2, <1>6
<1>9. AcceptsFollowPorts' /\ AnsweredLinesLinked'
  BY <1>0, <1>5, <1>7, <1>8, QuietStep
<1>10. \A c \in Calls : caller'[c] \in {"idle", "foreign"} =>
         caller[c] \in {"idle", "foreign"} /\ Silent(c, <<m>>)
  BY <1>1, <1>2, <1>6, SilentOthers
<1>11. \A c \in onServer' : c \in onServer
  BY <1>3 DEF SipOutcome
<1>12. calls'["far"] = calls["far"]
  BY <1>5 DEF LinkedStep, Kept, Other
<1>13. CallersKnown'
  <2>1. \A c \in Calls : "INVITE" \in asked'[c] /\ up'["far"] => "INVITE" \in asked[c]
    BY <1>2
  <2>2. \A c \in onServer' :
          \/ c \in onServer /\ (caller[c] = "foreign" => caller'[c] = "foreign")
          \/ c \in released["far"] \/ caller'[c] = "foreign"
    BY <1>0, <1>8, <1>11
  <2> QED
    BY <1>0, <1>5, <1>10, <2>1, <2>2, CallersKept
<1> QED
  BY <1>4, <1>9, <1>13 DEF AfterInv

\* A response of the callee: a 2xx goes after the SetupData of its lines.
LEMMA CalleeResponseLinked ==
  ASSUME LinkedInv, TypeOK', NEW k \in Calls, NEW cseq \in Methods, NEW class \in Classes,
         NEW n \in Lines, CalleeResponse(k, cseq, class, n)
  PROVE  OrderStep("far", 0) /\ AfterInv
<1> DEFINE m == Response(k, cseq, class, n)
<1>0. /\ OrderInv /\ EnvOK /\ TablesOK /\ wire' \in [Sides -> Seq(Messages)]
      /\ onServer' \subseteq Calls /\ "far" \in Sides
  BY LinkedTypes DEF TypeOK, Sides
<1>1. /\ m \in Messages /\ m.type = "Response" /\ m.call = k
      /\ m.cseq = cseq /\ m.class = class /\ m.lines = n
  BY DEF Response, Messages, Lines
<1>2. /\ ProcessSip("far", k, EndsCall(m), FALSE, n, 0, <<m>>)
      /\ asked' = asked /\ answered' = answered /\ caller' = caller
      /\ up["far"] /\ cseq \in asked[k]
  BY DEF CalleeResponse
<1> HIDE DEF m
<1>3. SipOutcome("far", k, EndsCall(m), FALSE, n, 0, <<m>>)
  BY <1>0, <1>1, <1>2, SipPlain, ProcessSipOutcome
<1>4. OrderStep("far", 0)
  BY <1>3, SipLinked
<1>5. PICK q : LinkedStep("far", 0, q, <<m>>) /\ TellsKnown("far", k, EndsCall(m), n, q)
  BY <1>3, SipLinked
<1>6. ASSUME NEW c \in Calls, NEW j \in DOMAIN q, Accepts(q[j]), q[j].call = c, Untouched(c)',
             NEW l \in 1 .. q[j].lines
      PROVE  l \in DOMAIN Vector("far", c)' /\ \E x \in 1 .. j - 1 : IsSetup(q[x], c, l)
  <2>1. q[j] = m /\ q[j].type # "Setup"
    <3>1. q[j].type # "Setup"
      BY <1>6 DEF Accepts
    <3>2. \E x \in DOMAIN <<m>> : q[j] = <<m>>[x]
      BY <1>5, <3>1 DEF LinkedStep, Relayed
    <3> QED
      BY <3>1, <3>2
  <2>2. c = k /\ l \in 1 .. n /\ cseq = "INVITE" /\ ~EndsCall(m)
    BY <1>1, <1>6, <2>1 DEF Accepts, EndsCall
  <2>3. k \notin released'["far"] /\ caller[k] # "foreign" /\ k \notin released["far"]
    <3>1. released["far"] \subseteq released'["far"]
      BY <1>5 DEF LinkedStep, Kept
    <3> QED
      BY <1>2, <1>6, <2>2, <3>1 DEF Untouched
  <2>4. calls["far"][k] # NoCall /\ k \notin onServer
    BY <1>2, <2>2, <2>3 DEF LinkedInv, CallersKnown
  <2>5. Tells("far", k, n, q)
    BY <1>5, <2>2, <2>3, <2>4 DEF TellsKnown
  <2>6. l \in DOMAIN Vector("far", k)' /\ IsSetup(q[l], k, l) /\ j > n
    BY <2>1, <2>2, <2>5 DEF Tells
  <2>7. l \in 1 .. j - 1
    <3>1. j \in Nat /\ n \in Nat
      BY <1>5 DEF LinkedStep, Lines
    <3> QED
      BY <2>2, <2>6, <3>1
  <2> QED
    BY <2>2, <2>6, <2>7
<1>7. Heralds(q)
  BY <1>6 DEF Heralds
<1>8. Answers
  BY <1>2 DEF Answers
<1>9. AcceptsFollowPorts' /\ AnsweredLinesLinked'
  BY <1>0, <1>2, <1>5, <1>7, <1>8, QuietStep
<1>10. \A c \in Calls : caller'[c] \in {"idle", "foreign"} =>
         caller[c] \in {"idle", "foreign"} /\ Silent(c, <<m>>)
  <2>1. ASSUME NEW c \in Calls, caller[c] \in {"idle", "foreign"} PROVE c # k
    BY <1>2, <2>1 DEF LinkedInv, CallersKnown, Unplaced
  <2>2. ASSUME NEW c \in Calls, c # k PROVE Silent(c, <<m>>)
    BY <1>1, <1>2, <2>2, SilentOthers
  <2> QED
    BY <1>2, <2>1, <2>2
<1>11. \A c \in onServer' : c \in onServer
  BY <1>3 DEF SipOutcome
<1>13. CallersKnown'
  <2>1. \A c \in Calls : "INVITE" \in asked'[c] /\ up'["far"] => "INVITE" \in asked[c]
    BY <1>2
  <2>2. \A c \in onServer' :
          \/ c \in onServer /\ (caller[c] = "foreign" => caller'[c] = "foreign")
          \/ c \in released["far"] \/ caller'[c] = "foreign"
    BY <1>2, <1>11
  <2> QED
    BY <1>0, <1>5, <1>10, <2>1, <2>2, CallersKept
<1> QED
  BY <1>4, <1>9, <1>13 DEF AfterInv

\* A request of the callee within the call.
LEMMA CalleeRequestLinked ==
  ASSUME LinkedInv, TypeOK', NEW k \in Calls, NEW method \in Methods, NEW n \in Lines,
         CalleeRequest(k, method, n)
  PROVE  OrderStep("far", 0) /\ AfterInv
<1>0. /\ OrderInv /\ EnvOK /\ TablesOK /\ wire' \in [Sides -> Seq(Messages)]
      /\ onServer' \subseteq Calls /\ "far" \in Sides
  BY LinkedTypes DEF TypeOK, Sides
<1>1. /\ ProcessSip("far", k, method = "BYE", method = "INVITE", n, 0, <<>>)
      /\ asked' = asked /\ answered' = answered /\ caller' = caller
      /\ up["far"] /\ "INVITE" \in asked[k]
  BY DEF CalleeRequest
<1>2. SipOutcome("far", k, method = "BYE", method = "INVITE", n, 0, <<>>)
  BY <1>0, <1>1, NothingPlain, ProcessSipOutcome
<1>3. OrderStep("far", 0)
  BY <1>2, SipLinked
<1>4. PICK q : LinkedStep("far", 0, q, <<>>)
  BY <1>2, SipLinked
<1>5. Heralds(q) /\ Answers
  <2>1. Heralds(q)
    BY <1>4, NoHeralds DEF LinkedStep
  <2> QED
    BY <1>1, <2>1 DEF Answers
<1>6. AcceptsFollowPorts' /\ AnsweredLinesLinked'
  BY <1>0, <1>1, <1>4, <1>5, QuietStep
<1>7. \A c \in Calls : Silent(c, <<>>)
  BY <1>1, SilentNothing
<1>8. \A c \in onServer' :
        \/ c \in onServer
        \/ c = k /\ calls["far"][k] = NoCall
  BY <1>2 DEF SipOutcome
<1>9. calls["far"][k] = NoCall => k \in released["far"]
  BY <1>1 DEF LinkedInv, CallersKnown
<1>10. CallersKnown'
  <2>1. \A c \in onServer' :
          \/ c \in onServer /\ (caller[c] = "foreign" => caller'[c] = "foreign")
          \/ c \in released["far"] \/ caller'[c] = "foreign"
    BY <1>1, <1>8, <1>9
  <2>2. \A c \in Calls : "INVITE" \in asked'[c] /\ up'["far"] => "INVITE" \in asked[c]
    BY <1>1
  <2>3. \A c \in Calls : caller'[c] \in {"idle", "foreign"} =>
          caller[c] \in {"idle", "foreign"} /\ Silent(c, <<>>)
    BY <1>1, <1>7
  <2> QED
    BY <1>0, <1>4, <2>1, <2>2, <2>3, CallersKept
<1> QED
  BY <1>3, <1>6, <1>10 DEF AfterInv

\* A request for a call of the server's own network.
LEMMA FarRequestLinked ==
  ASSUME LinkedInv, TypeOK', NEW k \in Calls, NEW method \in Methods, NEW n \in Lines,
         FarRequest(k, method, n)
  PROVE  OrderStep("far", 0) /\ AfterInv
<1>0. /\ OrderInv /\ EnvOK /\ TablesOK /\ wire' \in [Sides -> Seq(Messages)]
      /\ onServer' \subseteq Calls /\ "far" \in Sides
      /\ wire \in [Sides -> Seq(Messages)]
  BY LinkedTypes DEF TypeOK, Sides
<1>1. /\ ProcessSip("far", k, method = "BYE", method = "INVITE", n, 0, <<>>)
      /\ asked' = asked /\ answered' = answered
      /\ caller[k] \in {"idle", "foreign"}
      /\ caller' = [caller EXCEPT ![k] = IF method = "BYE" THEN "over" ELSE "foreign"]
  BY DEF FarRequest
<1>2. SipOutcome("far", k, method = "BYE", method = "INVITE", n, 0, <<>>)
  BY <1>0, <1>1, NothingPlain, ProcessSipOutcome
<1>3. OrderStep("far", 0)
  BY <1>2, SipLinked
<1>4. PICK q : LinkedStep("far", 0, q, <<>>)
  BY <1>2, SipLinked
<1>5. Heralds(q) /\ Answers
  <2>1. Heralds(q)
    BY <1>4, NoHeralds DEF LinkedStep
  <2> QED
    BY <1>1, <2>1 DEF Answers
<1>6. \A c \in Calls : Silent(c, <<>>)
  BY <1>1, SilentNothing
<1>7. /\ caller'[k] = IF method = "BYE" THEN "over" ELSE "foreign"
      /\ \A c \in Calls \ {k} : caller'[c] = caller[c]
  BY <1>0, <1>1 DEF EnvOK
<1>8. Unplaced(k)'
  <2>1. Unplaced(k)
    BY <1>1 DEF LinkedInv, CallersKnown
  <2> QED
    BY <1>0, <1>4, <1>6, <2>1, UnplacedKept DEF LinkedStep
<1>9. AcceptsFollowPorts' /\ AnsweredLinesLinked'
  <2>1. \A c \in Calls : caller[c] = "foreign" => caller'[c] = "foreign" \/ Unplaced(c)'
    BY <1>7, <1>8
  <2> QED
    BY <1>0, <1>4, <1>5, <2>1, QuietStep
<1>10. CallersKnown'
  <2>1. \A c \in onServer' :
          \/ c \in onServer /\ ~(method = "BYE" /\ c = k)
          \/ c = k /\ method # "BYE"
    BY <1>2 DEF SipOutcome
  <2>2. \A c \in onServer' :
          \/ c \in onServer /\ (caller[c] = "foreign" => caller'[c] = "foreign")
          \/ c \in released["far"] \/ caller'[c] = "foreign"
    BY <1>0, <1>7, <2>1
  <2>3. \A c \in Calls : "INVITE" \in asked'[c] /\ up'["far"] => "INVITE" \in asked[c]
    BY <1>1
  <2>4. \A c \in Calls : caller'[c] \in {"idle", "foreign"} =>
          caller[c] \in {"idle", "foreign"} /\ Silent(c, <<>>)
    BY <1>1, <1>6, <1>7
  <2> QED
    BY <1>0, <1>4, <2>2, <2>3, <2>4, CallersKept
<1> QED
  BY <1>3, <1>9, <1>10 DEF AfterInv

\* onSetupData keeps the order and the links.
LEMMA ReceiveSetupLinked ==
  ASSUME LinkedInv, TypeOK', NEW s \in Sides, NEW i \in DOMAIN wire[Other(s)] \cap {1},
         ReceiveSetup(s, i)
  PROVE  OrderStep(s, i) /\ AfterInv
<1>0. /\ OrderInv /\ EnvOK /\ TablesOK /\ wire' \in [Sides -> Seq(Messages)]
      /\ onServer' \subseteq Calls
  BY LinkedTypes DEF TypeOK
<1>1. OrderStep(s, i) /\ onServer' \subseteq onServer /\ Exchange(s, i, <<>>)
  BY <1>0, ReceiveSetupOrder
<1>2. caller' = caller /\ asked' = asked /\ answered' = answered
  BY DEF ReceiveSetup, env
<1>3. LinkedStep(s, i, <<>>, <<>>)
  <2>1. Relayed(<<>>, <<>>) /\ <<>> \in Seq(Messages)
    BY DEF Relayed
  <2> QED
    BY <1>1, <2>1 DEF LinkedStep, OrderStep
<1>4. Heralds(<<>>) /\ Answers
  <2>1. Heralds(<<>>)
    BY <1>3, NoHeralds DEF LinkedStep
  <2> QED
    BY <1>2, <2>1 DEF Answers
<1>5. AcceptsFollowPorts' /\ AnsweredLinesLinked'
  BY <1>0, <1>2, <1>3, <1>4, QuietStep
<1>6. CallersKnown'
  <2>1. \A c \in Calls : caller'[c] \in {"idle", "foreign"} =>
          caller[c] \in {"idle", "foreign"} /\ Silent(c, <<>>)
    BY <1>2, SilentNothing
  <2>2. \A c \in Calls : "INVITE" \in asked'[c] /\ up'["far"] => "INVITE" \in asked[c]
    BY <1>2
  <2>3. \A c \in onServer' :
          \/ c \in onServer /\ (caller[c] = "foreign" => caller'[c] = "foreign")
          \/ c \in released["far"] \/ caller'[c] = "foreign"
    BY <1>1, <1>2
  <2> QED
    BY <1>0, <1>3, <2>1, <2>2, <2>3, CallersKept
<1> QED
  BY <1>1, <1>5, <1>6 DEF AfterInv

\* A request that arrives at the server side.
LEMMA ReceiveRequestLinked ==
  ASSUME LinkedInv, TypeOK', NEW i \in DOMAIN wire["near"] \cap {1}, ReceiveRequest(i)
  PROVE  OrderStep("far", i) /\ AfterInv
<1>0. /\ OrderInv /\ EnvOK /\ TablesOK /\ wire' \in [Sides -> Seq(Messages)]
      /\ onServer' \subseteq Calls /\ "far" \in Sides /\ Other("far") = "near"
      /\ wire \in [Sides -> Seq(Messages)]
  BY LinkedTypes DEF TypeOK, Sides, Other
<1>1. PICK m : m = wire["near"][i]
  OBVIOUS
<1>2. m \in Messages /\ m.type = "Request"
  BY <1>0, <1>1 DEF ReceiveRequest, Sides
<1>3. PICK k, method, n :
        /\ k = m.call /\ method = m.method /\ n = m.lines
        /\ k \in Calls /\ method \in Methods /\ n \in Lines
  BY <1>2 DEF Messages, Lines
<1>4. /\ ProcessSip("far", k, method = "BYE", method = "INVITE", n, i, <<>>)
      /\ asked' = [asked EXCEPT ![k] = @ \cup {method}]
      /\ answered' = answered /\ caller' = caller
  BY <1>1, <1>3 DEF ReceiveRequest
<1>5. SipOutcome("far", k, method = "BYE", method = "INVITE", n, i, <<>>)
  BY <1>0, <1>3, <1>4, NothingPlain, ProcessSipOutcome
<1>6. wire[Other("far")][i].type # "Setup" /\ i # 0
  BY <1>0, <1>1, <1>2
<1>7. OrderStep("far", i)
  BY <1>5, <1>6, SipLinked
<1>8. PICK q : LinkedStep("far", i, q, <<>>)
  BY <1>5, <1>6, SipLinked
<1>9. Heralds(q) /\ Answers
  <2>1. Heralds(q)
    BY <1>8, NoHeralds DEF LinkedStep
  <2> QED
    BY <1>4, <2>1 DEF Answers
<1>10. AcceptsFollowPorts' /\ AnsweredLinesLinked'
  BY <1>0, <1>4, <1>8, <1>9, QuietStep
<1>11. ~Unplaced(k)
  BY <1>1, <1>2, <1>3 DEF Unplaced
<1>12. \A c \in Calls \ {k} : asked'[c] = asked[c] /\ Silent(c, <<>>)
  <2>1. \A c \in Calls \ {k} : asked'[c] = asked[c]
    BY <1>0, <1>4 DEF EnvOK
  <2> QED
    BY <1>4, <2>1, SilentNothing
<1>13. CallersKnown'
  <2>1. caller[k] \notin {"idle", "foreign"}
    BY <1>3, <1>11 DEF LinkedInv, CallersKnown
  <2>2. \A c \in Calls : caller'[c] \in {"idle", "foreign"} =>
          caller[c] \in {"idle", "foreign"} /\ Silent(c, <<>>)
    BY <1>4, <1>12, <2>1
  <2>3. \A c \in Calls : "INVITE" \in asked'[c] /\ up'["far"] =>
          "INVITE" \in asked[c] \/ calls'["far"][c] # NoCall
    <3>1. method = "INVITE" /\ up'["far"] => calls'["far"][k] # NoCall
      BY <1>5 DEF SipOutcome
    <3>2. "INVITE" \in asked'[k] => "INVITE" \in asked[k] \/ method = "INVITE"
      BY <1>0, <1>3, <1>4 DEF EnvOK
    <3> QED
      BY <1>12, <3>1, <3>2
  <2>4. \A c \in onServer' : c \in onServer
    BY <1>5, <1>6 DEF SipOutcome
  <2>5. \A c \in onServer' :
          \/ c \in onServer /\ (caller[c] = "foreign" => caller'[c] = "foreign")
          \/ c \in released["far"] \/ caller'[c] = "foreign"
    BY <1>4, <2>4
  <2> QED
    BY <1>0, <1>8, <2>2, <2>3, <2>5, CallersKept
<1> QED
  BY <1>7, <1>10, <1>13 DEF AfterInv

\* A response that arrives at the client side: a 2xx finds its lines linked.
LEMMA ReceiveResponseLinked ==
  ASSUME LinkedInv, TypeOK', NEW i \in DOMAIN wire["far"] \cap {1}, ReceiveResponse(i)
  PROVE  OrderStep("near", i) /\ AfterInv
<1>0. /\ OrderInv /\ EnvOK /\ TablesOK /\ wire' \in [Sides -> Seq(Messages)]
      /\ onServer' \subseteq Calls /\ "near" \in Sides /\ Other("near") = "far"
      /\ wire \in [Sides -> Seq(Messages)]
  BY LinkedTypes DEF TypeOK, Sides, Other
<1>1. PICK m : m = wire["far"][i]
  OBVIOUS
<1>2. m \in Messages /\ m.type = "Response"
  BY <1>0, <1>1 DEF ReceiveResponse, Sides
<1>3. PICK k, n : k = m.call /\ n = m.lines /\ k \in Calls /\ n \in Lines
  BY <1>2 DEF Messages, Lines
<1>4. /\ ProcessSip("near", k, EndsCall(m), FALSE, n, i, <<>>)
      /\ asked' = asked
      /\ answered' = [answered EXCEPT ![k] = IF Accepts(m) THEN n ELSE @]
      /\ caller' = [caller EXCEPT ![k] =
           IF (m.cseq = "INVITE" /\ m.class = "failure") /\ @ = "active" THEN "refused" ELSE @]
  BY <1>1, <1>2, <1>3 DEF ReceiveResponse, Accepts
<1>5. SipOutcome("near", k, EndsCall(m), FALSE, n, i, <<>>)
  BY <1>0, <1>3, <1>4, NothingPlain, ProcessSipOutcome
<1>6. wire[Other("near")][i].type # "Setup" /\ i # 0 /\ i = 1 /\ i \in DOMAIN wire["far"]
  BY <1>0, <1>1, <1>2
<1>7. OrderStep("near", i)
  BY <1>5, <1>6, SipLinked
<1>8. PICK q : LinkedStep("near", i, q, <<>>) /\ TellsKnown("near", k, EndsCall(m), n, q)
  BY <1>5, <1>6, SipLinked
<1>9. /\ answered'[k] = IF Accepts(m) THEN n ELSE answered[k]
      /\ \A c \in Calls \ {k} : answered'[c] = answered[c]
      /\ \A c \in Calls : caller[c] = "foreign" <=> caller'[c] = "foreign"
      /\ \A c \in Calls : caller'[c] = "idle" => caller[c] = "idle"
  <2>1. /\ answered'[k] = IF Accepts(m) THEN n ELSE answered[k]
        /\ \A c \in Calls \ {k} : answered'[c] = answered[c]
    BY <1>0, <1>3, <1>4 DEF EnvOK
  <2>2. /\ caller'[k] = caller[k] \/ (caller[k] = "active" /\ caller'[k] = "refused")
        /\ \A c \in Calls \ {k} : caller'[c] = caller[c]
    BY <1>0, <1>3, <1>4 DEF EnvOK
  <2>3. \A c \in Calls :
          caller'[c] = caller[c] \/ (caller[c] = "active" /\ caller'[c] = "refused")
    BY <2>2
  <2> QED
    BY <2>1, <2>3
<1>10. ASSUME Untouched(k)', Accepts(m), NEW l \in 1 .. n
       PROVE  NearLinked(k, l)' /\ FarLinked(k, l)'
  <2>1. k \notin released'["near"] \cup released'["far"] /\ Untouched(k)
    <3>1. released["near"] \subseteq released'["near"] /\ released["far"] \subseteq released'["far"]
      BY <1>0, <1>8 DEF LinkedStep, Kept
    <3> QED
      BY <1>3, <1>9, <1>10, <3>1 DEF Untouched
  <2>2. NearLinked(k, l)
    <3>1. \/ \E x \in 1 .. i - 1 : IsSetup(wire["far"][x], k, l)
          \/ NearLinked(k, l)
      <4>1. AcceptsFollowPorts /\ Accepts(m) /\ Untouched(m.call) /\ l \in 1 .. m.lines
        BY <1>3, <1>10, <2>1 DEF LinkedInv
      <4> QED
        BY <1>1, <1>3, <1>6, <4>1 DEF AcceptsFollowPorts
    <3>2. 1 .. i - 1 = {}
      BY <1>6
    <3> QED
      BY <3>1, <3>2
  <2>3. NearLinked(k, l)'
    BY <1>0, <1>3, <1>8, <2>1, <2>2, NearLinkedKept DEF LinkedStep
  <2>4. Tells("near", k, n, q)
    <3>1. calls["near"][k] # NoCall
      <4>1. l \in DOMAIN Vector("near", k)
        BY <2>2 DEF NearLinked
      <4>2. DOMAIN <<>> = {}
        OBVIOUS
      <4> QED
        BY <4>1, <4>2 DEF Vector
    <3>2. ~EndsCall(m)
      BY <1>10 DEF Accepts, EndsCall
    <3> QED
      BY <1>8, <2>1, <3>1, <3>2 DEF TellsKnown
  <2>5. Announcing("near", k, l)'
    <3>1. l \in DOMAIN q /\ IsSetup(q[l], k, l)
      BY <2>4 DEF Tells
    <3>2. /\ l + Len(wire["near"]) \in DOMAIN wire'["near"]
          /\ wire'["near"][l + Len(wire["near"])] = q[l]
      BY <1>0, <1>8, <3>1, ExchangeFacts DEF LinkedStep
    <3> QED
      BY <3>1, <3>2 DEF Announcing, IsSetup
  <2> QED
    BY <2>3, <2>5 DEF FarLinked
<1>11. Answers
  <2>1. ASSUME NEW c \in Calls, Untouched(c)', answered'[c] # answered[c],
               NEW l \in 1 .. answered'[c]
        PROVE  NearLinked(c, l)' /\ FarLinked(c, l)'
    <3>1. c = k /\ Accepts(m) /\ l \in 1 .. n
      BY <1>9, <2>1
    <3> QED
      BY <1>10, <2>1, <3>1
  <2> QED
    BY <2>1 DEF Answers
<1>12. AcceptsFollowPorts' /\ AnsweredLinesLinked'
  <2>1. \A c \in Calls : caller[c] = "foreign" => caller'[c] = "foreign"
    BY <1>9
  <2> QED
    BY <1>0, <1>8, <1>11, <2>1, QuietStep
<1>13. CallersKnown'
  <2>1. ~Unplaced(k)
    BY <1>1, <1>2, <1>3, <1>6 DEF Unplaced
  <2>2. caller[k] \notin {"idle", "foreign"}
    BY <1>3, <2>1 DEF LinkedInv, CallersKnown
  <2>3. \A c \in Calls \ {k} : Silent(c, <<>>)
    BY <1>4, <1>9, SilentNothing
  <2>4. \A c \in Calls : caller'[c] \in {"idle", "foreign"} =>
          caller[c] \in {"idle", "foreign"} /\ Silent(c, <<>>)
    BY <1>9, <2>2, <2>3
  <2>5. \A c \in onServer' : c \in onServer
    BY <1>5 DEF SipOutcome
  <2>6. \A c \in onServer' :
          \/ c \in onServer /\ (caller[c] = "foreign" => caller'[c] = "foreign")
          \/ c \in released["far"] \/ caller'[c] = "foreign"
    BY <1>0, <1>9, <2>5
  <2>7. \A c \in Calls : "INVITE" \in asked'[c] /\ up'["far"] => "INVITE" \in asked[c]
    BY <1>4
  <2> QED
    BY <1>0, <1>8, <2>4, <2>6, <2>7, CallersKept
<1> QED
  BY <1>7, <1>12, <1>13 DEF AfterInv

-----------------------------------------------------------------------------
(* Every step keeps them. *)

\* The steps of an ordered link.
LEMMA OrderedStep ==
  ASSUME Ordered, LinkedInv, TypeOK', Next
  PROVE  /\ \E s \in Sides : \E i \in {0} \cup (DOMAIN wire[Other(s)] \cap {1}) : OrderStep(s, i)
         /\ AfterInv
<1>0. /\ "near" \in Sides /\ "far" \in Sides
      /\ Other("near") = "far" /\ Other("far") = "near"
  BY DEF Sides, Other
<1>1. \A s : Deliverable(s) = DOMAIN wire[s] \cap {1}
  BY DEF Deliverable
<1>2. CASE \E k \in Calls, method \in Methods, n \in Lines :
             NearRequest(k, method, n) \/ CalleeRequest(k, method, n) \/ FarRequest(k, method, n)
  BY <1>0, <1>2, NearRequestLinked, CalleeRequestLinked, FarRequestLinked
<1>3. CASE \E k \in Calls, cseq \in Methods, class \in Classes, n \in Lines :
             CalleeResponse(k, cseq, class, n)
  BY <1>0, <1>3, CalleeResponseLinked
<1>4. CASE \E s \in Sides : \E i \in Deliverable(Other(s)) : ReceiveSetup(s, i)
  BY <1>1, <1>4, ReceiveSetupLinked
<1>5. CASE \E i \in Deliverable("near") : ReceiveRequest(i)
  BY <1>0, <1>1, <1>5, ReceiveRequestLinked
<1>6. CASE \E i \in Deliverable("far") : ReceiveResponse(i)
  BY <1>0, <1>1, <1>6, ReceiveResponseLinked
<1>7. CASE \E s \in Sides : \E i \in DOMAIN wire[s] : Lose(s, i)
  BY <1>7 DEF Lose
<1> QED
  BY <1>2, <1>3, <1>4, <1>5, <1>6, <1>7 DEF Next

\* The order of the messages and the links of the lines hold together.
LEMMA LinkedInvariant ==
  ASSUME Ordered
  PROVE  Spec => []LinkedInv
<1>1. Init => LinkedInv
  <2> SUFFICES ASSUME Init PROVE LinkedInv
    OBVIOUS
  <2>1. CallInv
    BY InitCallInv
  <2>2. \A s \in Sides : wire[s] = <<>> /\ DOMAIN wire[s] = {}
    BY DEF Init
  <2>3. PortsStand /\ Successive
    BY <2>2 DEF PortsStand, Successive
  <2>4. NoHoles /\ AnsweredLinesLinked
    BY DEF Init, NoHoles, AnsweredLinesLinked
  <2>5. AcceptsFollowPorts /\ CallersKnown
    BY <2>2 DEF Init, AcceptsFollowPorts, CallersKnown, Unplaced, Sides
  <2> QED
    BY <2>1, <2>3, <2>4, <2>5 DEF LinkedInv, OrderInv
<1>2. LinkedInv /\ CallInv' /\ [Next]_vars => LinkedInv'
  <2> SUFFICES ASSUME LinkedInv, CallInv', [Next]_vars PROVE LinkedInv'
    OBVIOUS
  <2>1. TypeOK' /\ TablesOK'
    BY TypeParts, PTL DEF CallInv
  <2>2. CASE Next
    <3>1. /\ \E s \in Sides : \E i \in {0} \cup (DOMAIN wire[Other(s)] \cap {1}) : OrderStep(s, i)
          /\ AfterInv
      BY <2>1, <2>2, OrderedStep
    <3>2. PortsStand' /\ Successive' /\ NoHoles'
      BY <2>1, <3>1, OrderKeeps DEF LinkedInv
    <3> QED
      BY <3>1, <3>2 DEF LinkedInv, OrderInv, AfterInv
  <2>3. CASE UNCHANGED vars
    <3>1. UNCHANGED <<up, calls, onServer, portMap, wire, caller, asked, calleeOver,
                      sips, answered, released, freed>>
      BY <2>3 DEF vars, env
    <3>2. PortsStand' /\ Successive' /\ NoHoles'
      BY <3>1, ZenonT(60) DEF LinkedInv, OrderInv, PortsStand, Successive, NoHoles, IsSetup, Has, Vector
    <3>3. AcceptsFollowPorts'
      <4>1. \A k, n : NearLinked(k, n)' <=> NearLinked(k, n)
        BY <3>1 DEF NearLinked, Vector
      <4>2. \A k : Untouched(k)' <=> Untouched(k)
        BY <3>1 DEF Untouched
      <4> QED
        BY <3>1, <4>1, <4>2 DEF LinkedInv, AcceptsFollowPorts, IsSetup, Vector
    <3>4. CallersKnown' /\ AnsweredLinesLinked'
      BY <3>1 DEF LinkedInv, CallersKnown, Unplaced, AnsweredLinesLinked, Announcing, Vector
    <3> QED
      BY <3>2, <3>3, <3>4 DEF LinkedInv, OrderInv
  <2> QED
    BY <2>2, <2>3
<1> QED
  BY <1>1, <1>2, CallInvariant, PTL DEF Spec

-----------------------------------------------------------------------------
(* What a process may die of. *)

\* A NULL element, or a call of the far side's own.
Explained ==
  \A s \in Sides : up[s] /\ ~up'[s] =>
    \E k \in Calls :
      \/ k \in released[s] /\ HasHole(Vector(s, k), MaxLines)
      \/ s = "far" /\ (caller'[k] = "foreign" \/ k \in released["far"])

\* A vector with a NULL element is that of a call the side has erased.
LEMMA HoleErased ==
  ASSUME TablesOK, NoHoles, NEW s \in Sides, NEW k \in Calls, NEW n, HasHole(Vector(s, k), n)
  PROVE  k \in released[s] /\ HasHole(Vector(s, k), MaxLines)
<1>1. DOMAIN Vector(s, k) = 1 .. Len(Vector(s, k)) /\ Len(Vector(s, k)) \in 0 .. MaxLines
  BY VectorType
<1>2. PICK l \in DOMAIN Vector(s, k) : Vector(s, k)[l] = Hole
  BY DEF HasHole
<1>3. l <= MaxLines
  BY <1>1, <1>2, SipCallsAssumption
<1>4. calls[s][k] # NoCall /\ Vector(s, k) = calls[s][k]
  <2>1. ASSUME calls[s][k] = NoCall PROVE FALSE
    BY <1>2, <2>1 DEF Vector
  <2> QED
    BY <2>1 DEF Vector
<1> QED
  BY <1>2, <1>3, <1>4 DEF NoHoles, HasHole

\* A handler of a SIP message stops at a NULL element, or at the link object of
\* the far side's own calls.
LEMMA SipStops ==
  ASSUME TablesOK, NEW s \in Sides, NEW k \in Calls, NEW ends, NEW invites, NEW n, NEW i,
         NEW sip, ProcessSip(s, k, ends, invites, n, i, sip), up[s], ~up'[s]
  PROVE  \/ \E l : HasHole(Vector(s, k), l)
         \/ /\ s = "far" /\ ~ends
            /\ k \in onServer \/ (i = 0 /\ invites /\ calls[s][k] = NoCall)
<1>1. PICK own :
        /\ own = IF s = "far" /\ i = 0 /\ calls[s][k] = NoCall /\ invites
                 THEN onServer \cup {k} ELSE onServer
        /\ \/ \E l : HasHole(Vector(s, k), l)
           \/ Erase(s, k)
           \/ AddDataPorts(s, k, n, i, sip)
           \/ ~ends /\ ~Relays(s, k, own)
           \/ UNCHANGED up
  BY Zenon DEF ProcessSip
<1>2. ~Erase(s, k) /\ ~AddDataPorts(s, k, n, i, sip) /\ ~UNCHANGED up
  BY Zenon DEF Erase, AddDataPorts
<1>3. CASE ~ends /\ ~Relays(s, k, own)
  BY <1>1, <1>3 DEF Relays, Sides
<1> QED
  BY <1>1, <1>2, <1>3

\* So what the process dies of is one of the two.
LEMMA SipExplained ==
  ASSUME LinkedInv, NEW s \in Sides, NEW k \in Calls, NEW ends, NEW invites, NEW n, NEW i,
         NEW sip, ProcessSip(s, k, ends, invites, n, i, sip), Kept(s, i),
         s = "far" /\ ~ends => (caller[k] = "foreign" => caller'[k] = "foreign"),
         s = "far" /\ ~ends /\ i = 0 /\ invites /\ calls[s][k] = NoCall =>
           caller'[k] = "foreign" \/ k \in released["far"]
  PROVE  Explained
<1>1. TablesOK /\ NoHoles /\ CallersKnown
  BY LinkedTypes DEF LinkedInv, OrderInv
<1> SUFFICES ASSUME NEW t \in Sides, up[t], ~up'[t]
             PROVE  \E c \in Calls :
                      \/ c \in released[t] /\ HasHole(Vector(t, c), MaxLines)
                      \/ t = "far" /\ (caller'[c] = "foreign" \/ c \in released["far"])
  BY DEF Explained
<1>2. t = s
  BY DEF Kept, Sides, Other
<1>3. CASE \E l : HasHole(Vector(s, k), l)
  BY <1>1, <1>2, <1>3, HoleErased
<1>4. CASE /\ s = "far" /\ ~ends
           /\ k \in onServer \/ (i = 0 /\ invites /\ calls[s][k] = NoCall)
  BY <1>1, <1>2, <1>4 DEF CallersKnown
<1> QED
  BY <1>1, <1>2, <1>3, <1>4, SipStops

\* A message is about a call.
LEMMA CallOf ==
  ASSUME TypeOK, NEW s \in Sides, NEW i \in DOMAIN wire[s]
  PROVE  wire[s][i].call \in Calls
<1>1. wire[s] \in Seq(Messages)
  BY DEF TypeOK
<1>2. wire[s][i] \in Messages
  BY <1>1
<1> QED
  BY <1>2 DEF Messages

\* Every death of a step is explained.
LEMMA StepExplained ==
  ASSUME Ordered, LinkedInv, TypeOK', Next
  PROVE  Explained
<1>0. /\ "near" \in Sides /\ "far" \in Sides /\ Other("near") = "far" /\ Other("far") = "near"
      /\ TypeOK /\ TablesOK /\ EnvOK /\ OrderInv /\ NoHoles /\ CallersKnown
  BY LinkedTypes DEF Sides, Other, LinkedInv, OrderInv
<1>1. \A s : Deliverable(s) = DOMAIN wire[s] \cap {1}
  BY DEF Deliverable
<1>2. ASSUME NEW k \in Calls, NEW method \in Methods, NEW n \in Lines, NearRequest(k, method, n)
      PROVE  Explained
  <2>1. Kept("near", 0)
    BY <1>2, NearRequestLinked DEF OrderStep
  <2>2. ProcessSip("near", k, method = "BYE", method = "INVITE", n, 0, <<Request(k, method, n)>>)
    BY <1>2 DEF NearRequest
  <2> QED
    BY <1>0, <2>1, <2>2, SipExplained
<1>3. ASSUME NEW k \in Calls, NEW method \in Methods, NEW n \in Lines, CalleeRequest(k, method, n)
      PROVE  Explained
  <2>1. Kept("far", 0)
    BY <1>3, CalleeRequestLinked DEF OrderStep
  <2>2. /\ ProcessSip("far", k, method = "BYE", method = "INVITE", n, 0, <<>>)
        /\ caller' = caller /\ up["far"] /\ "INVITE" \in asked[k]
    BY <1>3 DEF CalleeRequest
  <2>3. calls["far"][k] = NoCall => k \in released["far"]
    BY <1>0, <2>2 DEF CallersKnown
  <2> QED
    BY <1>0, <2>1, <2>2, <2>3, SipExplained
<1>4. ASSUME NEW k \in Calls, NEW method \in Methods, NEW n \in Lines, FarRequest(k, method, n)
      PROVE  Explained
  <2>1. Kept("far", 0)
    BY <1>4, FarRequestLinked DEF OrderStep
  <2>2. /\ ProcessSip("far", k, method = "BYE", method = "INVITE", n, 0, <<>>)
        /\ caller' = [caller EXCEPT ![k] = IF method = "BYE" THEN "over" ELSE "foreign"]
    BY <1>4 DEF FarRequest
  <2>3. method # "BYE" => caller'[k] = "foreign"
    BY <1>0, <2>2 DEF EnvOK
  <2> QED
    BY <1>0, <2>1, <2>2, <2>3, SipExplained
<1>5. ASSUME NEW k \in Calls, NEW cseq \in Methods, NEW class \in Classes, NEW n \in Lines,
             CalleeResponse(k, cseq, class, n)
      PROVE  Explained
  <2>1. Kept("far", 0)
    BY <1>5, CalleeResponseLinked DEF OrderStep
  <2>2. PICK m : /\ ProcessSip("far", k, EndsCall(m), FALSE, n, 0, <<m>>)
                 /\ caller' = caller
    BY <1>5 DEF CalleeResponse
  <2> QED
    BY <1>0, <2>1, <2>2, SipExplained
<1>6. ASSUME NEW s \in Sides, NEW i \in Deliverable(Other(s)), ReceiveSetup(s, i)
      PROVE  Explained
  <2>1. i \in DOMAIN wire[Other(s)] \cap {1}
    BY <1>1, <1>6
  <2>2. Kept(s, i)
    BY <1>6, <2>1, ReceiveSetupLinked DEF OrderStep
  <2> SUFFICES ASSUME NEW t \in Sides, up[t], ~up'[t]
               PROVE  \E c \in Calls : c \in released[t] /\ HasHole(Vector(t, c), MaxLines)
    BY DEF Explained
  <2>3. t = s
    BY <2>2 DEF Kept, Sides, Other
  <2>4. PICK k, n : k = wire[Other(s)][i].call /\ n \in DOMAIN Vector(s, k) /\ Vector(s, k)[n] = Hole
    BY <1>6, <2>3, Zenon DEF ReceiveSetup
  <2>5. k \in Calls
    BY <1>0, <2>1, <2>4, CallOf, OtherSide
  <2>6. DOMAIN Vector(s, k) \subseteq Nat
    BY <1>0, <2>5, VectorType
  <2>7. HasHole(Vector(s, k), n)
    BY <2>4, <2>6 DEF HasHole
  <2> QED
    BY <1>0, <2>3, <2>5, <2>7, HoleErased
<1>7. ASSUME NEW i \in Deliverable("near"), ReceiveRequest(i)
      PROVE  Explained
  <2>1. i \in DOMAIN wire["near"] \cap {1} /\ i # 0
    BY <1>1, <1>7
  <2>2. Kept("far", i)
    BY <1>7, <2>1, ReceiveRequestLinked DEF OrderStep
  <2>3. PICK m : /\ m = wire["near"][i] /\ caller' = caller
                 /\ ProcessSip("far", m.call, m.method = "BYE", m.method = "INVITE", m.lines, i, <<>>)
    BY <1>7 DEF ReceiveRequest
  <2>4. m.call \in Calls
    BY <1>0, <2>1, <2>3, CallOf
  <2> QED
    BY <1>0, <2>1, <2>2, <2>3, <2>4, SipExplained
<1>8. ASSUME NEW i \in Deliverable("far"), ReceiveResponse(i)
      PROVE  Explained
  <2>1. i \in DOMAIN wire["far"] \cap {1} /\ i # 0
    BY <1>1, <1>8
  <2>2. Kept("near", i)
    BY <1>8, <2>1, ReceiveResponseLinked DEF OrderStep
  <2>3. PICK m : /\ m = wire["far"][i]
                 /\ ProcessSip("near", m.call, EndsCall(m), FALSE, m.lines, i, <<>>)
    BY <1>8 DEF ReceiveResponse
  <2>4. m.call \in Calls
    BY <1>0, <2>1, <2>3, CallOf
  <2> QED
    BY <1>0, <2>1, <2>2, <2>3, <2>4, SipExplained
<1>9. ASSUME NEW s \in Sides, NEW i \in DOMAIN wire[s], Lose(s, i)
      PROVE  Explained
  BY <1>9 DEF Lose
<1> QED
  BY <1>2, <1>3, <1>4, <1>5, <1>6, <1>7, <1>8, <1>9 DEF Next

-----------------------------------------------------------------------------
(* The three properties. *)

\* Over a link that keeps the order of the messages, the vector of a call has
\* a NULL element only on a side that has erased the call before: until then
\* onSetupData leaves no gap.
THEOREM NoHolesHolds ==
  ASSUME Ordered
  PROVE  Spec => []NoHoles
<1>1. LinkedInv => NoHoles
  BY DEF LinkedInv, OrderInv
<1> QED
  BY <1>1, LinkedInvariant, PTL

\* Over such a link, a process dies only of a NULL element of a call that it
\* has erased before, or, on the far side, of the media lines of a call whose
\* ports are announced on the link object without an SSL.
THEOREM DiesOfErasedOrOwnCallHolds ==
  ASSUME Ordered
  PROVE  Spec => DiesOfErasedOrOwnCall
<1>1. LinkedInv /\ CallInv' /\ [Next]_vars => [Explained]_vars
  <2> SUFFICES ASSUME LinkedInv, CallInv', Next PROVE Explained
    OBVIOUS
  <2>1. TypeOK'
    BY PTL DEF CallInv
  <2> QED
    BY <2>1, StepExplained
<1>2. [Explained]_vars =>
        [\A s \in Sides : up[s] /\ ~up'[s] =>
           \E k \in Calls :
             \/ k \in released[s] /\ HasHole(Vector(s, k), MaxLines)
             \/ s = "far" /\ (caller'[k] = "foreign" \/ k \in released["far"])]_vars
  BY DEF Explained
<1> QED
  BY <1>1, <1>2, LinkedInvariant, CallInvariant, PTL DEF Spec, DiesOfErasedOrOwnCall

\* Over such a link, the media of every line that the caller has heard a 2xx
\* about can flow both ways, as long as neither side has erased the call.
THEOREM AnsweredLinesLinkedHolds ==
  ASSUME Ordered
  PROVE  Spec => []AnsweredLinesLinked
<1>1. LinkedInv => AnsweredLinesLinked
  BY DEF LinkedInv
<1> QED
  BY <1>1, LinkedInvariant, PTL
=============================================================================
