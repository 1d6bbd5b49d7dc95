------------------------- MODULE SipEndpointsProofs -------------------------
(***************************************************************************)
(* Proofs about SipEndpoints, for any set of peers and any number of       *)
(* slots.  The inductive invariant adds to the consistency of the table    *)
(* that a live request carries the channel its peer has in _addrMap.       *)
(***************************************************************************)
EXTENDS SipEndpoints, TLAPS

RouteInv ==
  \A r \in pending : r.live => addrMap[r.from] = r.ch /\ r.ch # 0

EndpointInv == TypeOK /\ TableConsistent /\ RouteInv

-----------------------------------------------------------------------------
(* Facts about the two updates of the table. *)

\* Store writes one slot of the vector, or appends it, and keeps the others.
LEMMA StoreFacts ==
  ASSUME NEW S, NEW vec \in Seq(S), NEW e \in S, NEW i \in 1 .. Len(vec) + 1
  PROVE  /\ Store(vec, i, e) \in Seq(S)
         /\ i \in DOMAIN Store(vec, i, e)
         /\ Store(vec, i, e)[i] = e
         /\ DOMAIN vec \subseteq DOMAIN Store(vec, i, e)
         /\ \A j \in DOMAIN Store(vec, i, e) :
              j # i => j \in DOMAIN vec /\ Store(vec, i, e)[j] = vec[j]
<1>1. CASE i \in DOMAIN vec
  BY <1>1 DEF Store
<1>2. CASE i \notin DOMAIN vec
  <2>1. i = Len(vec) + 1
    BY <1>2
  <2> QED
    BY <1>2, <2>1 DEF Store
<1> QED
  BY <1>1, <1>2

\* An unknown peer entered into a free slot leaves the table consistent.
LEMMA EnterFacts ==
  ASSUME TypeOK, TableConsistent,
         NEW p \in Peers, addrMap[p] = 0,
         NEW i \in 1 .. Len(clientVec) + 1,
         i \in DOMAIN clientVec => clientVec[i] = NoPeer,
         Enter(p, i)
  PROVE  /\ addrMap' \in [Peers -> Nat]
         /\ clientVec' \in Seq(Peers \cup {NoPeer})
         /\ TableConsistent'
<1> USE PeersAssumption
<1>1. /\ clientVec' = Store(clientVec, i, p)
      /\ addrMap' = [addrMap EXCEPT ![p] = i]
  BY DEF Enter
<1>2. clientVec \in Seq(Peers \cup {NoPeer}) /\ p \in Peers \cup {NoPeer}
  BY DEF TypeOK
<1>3. /\ clientVec' \in Seq(Peers \cup {NoPeer})
      /\ i \in DOMAIN clientVec'
      /\ clientVec'[i] = p
      /\ DOMAIN clientVec \subseteq DOMAIN clientVec'
      /\ \A j \in DOMAIN clientVec' :
           j # i => j \in DOMAIN clientVec /\ clientVec'[j] = clientVec[j]
  <2> DEFINE S == Peers \cup {NoPeer}
  <2>1. clientVec \in Seq(S) /\ p \in S
    BY <1>2
  <2> HIDE DEF S
  <2>2. /\ Store(clientVec, i, p) \in Seq(S)
        /\ i \in DOMAIN Store(clientVec, i, p)
        /\ Store(clientVec, i, p)[i] = p
        /\ DOMAIN clientVec \subseteq DOMAIN Store(clientVec, i, p)
        /\ \A j \in DOMAIN Store(clientVec, i, p) :
             j # i => /\ j \in DOMAIN clientVec
                      /\ Store(clientVec, i, p)[j] = clientVec[j]
    BY <2>1, StoreFacts
  <2> QED
    BY <1>1, <2>2 DEF S
<1>4. addrMap' \in [Peers -> Nat]
  BY <1>1, <1>2 DEF TypeOK
<1>5. ASSUME NEW q \in Known'
      PROVE  addrMap'[q] \in DOMAIN clientVec' /\ clientVec'[addrMap'[q]] = q
  <2>1. CASE q = p
    BY <1>1, <1>3, <2>1 DEF TypeOK
  <2>2. CASE q # p
    <3>1. q \in Known /\ addrMap'[q] = addrMap[q]
      BY <1>1, <1>5, <2>2 DEF TypeOK, Known
    <3>2. addrMap[q] \in DOMAIN clientVec /\ clientVec[addrMap[q]] = q
      BY <3>1 DEF TableConsistent
    <3>3. addrMap[q] # i
      BY <3>1, <3>2 DEF Known
    <3> QED
      BY <1>3, <3>1, <3>2, <3>3
  <2> QED
    BY <2>1, <2>2
<1>6. ASSUME NEW j \in DOMAIN clientVec', clientVec'[j] # NoPeer
      PROVE  addrMap'[clientVec'[j]] = j
  <2>1. CASE j = i
    BY <1>1, <1>3, <2>1 DEF TypeOK
  <2>2. CASE j # i
    <3>1. j \in DOMAIN clientVec /\ clientVec'[j] = clientVec[j]
      BY <1>3, <2>2
    <3>2. addrMap[clientVec[j]] = j /\ clientVec[j] \in Peers
      BY <1>2, <1>6, <3>1 DEF TableConsistent
    <3>3. j # 0
      BY <1>2, <3>1
    <3>4. clientVec[j] # p
      BY <3>2, <3>3
    <3> QED
      BY <1>1, <3>1, <3>2, <3>4 DEF TypeOK
  <2> QED
    BY <2>1, <2>2
<1> QED
  BY <1>3, <1>4, <1>5, <1>6 DEF TableConsistent

\* Closing a set of endpoints keeps the whole invariant, idle times apart.
LEMMA CloseFacts ==
  ASSUME EndpointInv, NEW ps \in SUBSET Peers, Close(ps)
  PROVE  /\ addrMap' \in [Peers -> Nat]
         /\ clientVec' \in Seq(Peers \cup {NoPeer})
         /\ pending' \in SUBSET Requests
         /\ TableConsistent'
         /\ RouteInv'
<1> USE PeersAssumption DEF EndpointInv
<1>1. addrMap' \in [Peers -> Nat]
  BY DEF Close, TypeOK
<1>2. /\ clientVec' \in Seq(Peers \cup {NoPeer})
      /\ DOMAIN clientVec' = DOMAIN clientVec
      /\ \A i \in DOMAIN clientVec :
           clientVec'[i] = IF \E p \in ps : addrMap[p] = i THEN NoPeer
                                                           ELSE clientVec[i]
  <2>1. clientVec \in Seq(Peers \cup {NoPeer})
    BY DEF TypeOK
  <2>2. clientVec' \in [1 .. Len(clientVec) -> Peers \cup {NoPeer}]
    BY <2>1 DEF Close
  <2>3. clientVec' \in Seq(Peers \cup {NoPeer})
    BY <2>1, <2>2
  <2> QED
    BY <2>1, <2>3 DEF Close
<1>3. pending' \in SUBSET Requests
  <2> SUFFICES ASSUME NEW o \in pending
               PROVE  [o EXCEPT !.live = @ /\ o.from \notin ps] \in Requests
    BY DEF Close
  <2>1. o \in Requests
    BY DEF TypeOK
  <2> QED
    BY <2>1 DEF Requests
<1>4. ASSUME NEW q \in Known'
      PROVE  addrMap'[q] \in DOMAIN clientVec' /\ clientVec'[addrMap'[q]] = q
  <2>1. q \in Known /\ q \notin ps /\ addrMap'[q] = addrMap[q]
    BY <1>4 DEF Close, Known, TypeOK
  <2>2. addrMap[q] \in DOMAIN clientVec /\ clientVec[addrMap[q]] = q
    BY <2>1 DEF TableConsistent
  <2>3. ~ \E p \in ps : addrMap[p] = addrMap[q]
    <3> SUFFICES ASSUME NEW p \in ps, addrMap[p] = addrMap[q] PROVE FALSE
      OBVIOUS
    <3>1. p \in Known
      BY <2>1 DEF Known
    <3>2. clientVec[addrMap[p]] = p
      BY <3>1 DEF TableConsistent
    <3> QED
      BY <2>1, <2>2, <3>2
  <2> QED
    BY <1>2, <2>1, <2>2, <2>3
<1>5. ASSUME NEW j \in DOMAIN clientVec', clientVec'[j] # NoPeer
      PROVE  addrMap'[clientVec'[j]] = j
  <2>1. /\ j \in DOMAIN clientVec
        /\ clientVec'[j] = clientVec[j]
        /\ ~ \E p \in ps : addrMap[p] = j
    BY <1>2, <1>5
  <2>2. addrMap[clientVec[j]] = j /\ clientVec[j] \in Peers
    BY <1>5, <2>1 DEF TableConsistent, TypeOK
  <2>3. clientVec[j] \notin ps
    BY <2>1, <2>2
  <2> QED
    BY <2>1, <2>2, <2>3 DEF Close
<1>6. ASSUME NEW r \in pending', r.live PROVE addrMap'[r.from] = r.ch /\ r.ch # 0
  <2>1. PICK o \in pending : r = [o EXCEPT !.live = @ /\ o.from \notin ps]
    BY DEF Close
  <2>2. o \in Requests
    BY DEF TypeOK
  <2>3. r.from = o.from /\ r.ch = o.ch /\ o.live /\ o.from \notin ps
    BY <1>6, <2>1, <2>2 DEF Requests
  <2> QED
    BY <2>2, <2>3 DEF RouteInv, Close, Requests
<1> QED
  BY <1>1, <1>2, <1>3, <1>4, <1>5, <1>6 DEF TableConsistent, RouteInv

\* processIncoming adds at most one well-formed request.
LEMMA ForwardType ==
  ASSUME TypeOK, NEW p \in Peers, NEW ch \in Nat, Forward(p, ch)
  PROVE  pending' \in SUBSET Requests
<1> DEFINE new == [from |-> p, ch |-> ch, live |-> TRUE]
<1>1. new \in Requests
  BY DEF Requests
<1>2. pending' = pending \/ pending' = pending \cup {new}
  BY DEF Forward
<1> HIDE DEF new
<1> QED
  BY <1>1, <1>2 DEF TypeOK

-----------------------------------------------------------------------------
\* The empty tables are consistent.
LEMMA EndpointInit == Init => EndpointInv
BY DEF Init, EndpointInv, TypeOK, TableConsistent, RouteInv, Known,
       IdleTicksMax

\* Every handler preserves types, table and reply routes together.
LEMMA EndpointStep == EndpointInv /\ [Next]_vars => EndpointInv'
<1> SUFFICES ASSUME EndpointInv, [Next]_vars PROVE EndpointInv'
  OBVIOUS
<1> USE PeersAssumption DEF EndpointInv
<1>1. ASSUME NEW p \in Peers, AcceptNew(p) PROVE EndpointInv'
  <2>1. PICK i \in 1 .. Len(clientVec) + 1 :
          IsFirstFree(i) /\ Enter(p, i) /\ Forward(p, i)
    BY <1>1 DEF AcceptNew
  <2>2. /\ addrMap' \in [Peers -> Nat]
        /\ clientVec' \in Seq(Peers \cup {NoPeer})
        /\ TableConsistent'
    BY <1>1, <2>1, EnterFacts DEF AcceptNew, IsFirstFree
  <2>3. idle' \in [Peers -> 0 .. IdleTicksMax]
    BY <1>1 DEF AcceptNew, Touch, TypeOK, IdleTicksMax
  <2>4. i \in Nat \ {0} /\ addrMap' = [addrMap EXCEPT ![p] = i]
    BY <2>1 DEF Enter, TypeOK
  <2>5. pending' \in SUBSET Requests
    BY <2>1, <2>4, ForwardType DEF TypeOK
  <2>6. RouteInv'
    <3> SUFFICES ASSUME NEW r \in pending', r.live
                 PROVE  addrMap'[r.from] = r.ch /\ r.ch # 0
      BY DEF RouteInv
    <3>1. CASE r \in pending
      <4>1. r.from \in Peers /\ addrMap[r.from] = r.ch /\ r.ch # 0
        BY <3>1 DEF RouteInv, TypeOK, Requests
      <4>2. r.from # p
        BY <1>1, <4>1 DEF AcceptNew
      <4> QED
        BY <2>4, <4>1, <4>2 DEF TypeOK
    <3>2. CASE r = [from |-> p, ch |-> i, live |-> TRUE]
      BY <2>4, <3>2 DEF TypeOK
    <3> QED
      BY <2>1, <3>1, <3>2 DEF Forward
  <2> QED
    BY <2>2, <2>3, <2>5, <2>6 DEF TypeOK
<1>2. ASSUME NEW p \in Peers, Receive(p) PROVE EndpointInv'
  <2>1. TypeOK'
    <3>1. pending' \in SUBSET Requests
      BY <1>2, ForwardType DEF Receive, TypeOK
    <3>2. idle' \in [Peers -> 0 .. IdleTicksMax]
      BY <1>2 DEF Receive, Touch, TypeOK, IdleTicksMax
    <3> QED
      BY <1>2, <3>1, <3>2 DEF Receive, TypeOK
  <2>2. TableConsistent'
    BY <1>2 DEF Receive, TableConsistent, Known
  <2>3. RouteInv'
    BY <1>2 DEF Receive, Forward, RouteInv
  <2> QED
    BY <2>1, <2>2, <2>3
<1>3. ASSUME NEW p \in Peers, SendRequest(p) PROVE EndpointInv'
  <2>1. idle' \in [Peers -> 0 .. IdleTicksMax] /\ pending' = pending
    BY <1>3 DEF SendRequest, Touch, TypeOK, IdleTicksMax
  <2>2. CASE addrMap[p] # 0 /\ UNCHANGED <<addrMap, clientVec>>
    BY <2>1, <2>2 DEF TypeOK, TableConsistent, Known, RouteInv
  <2>3. CASE addrMap[p] = 0 /\ \E i \in 1 .. Len(clientVec) + 1 :
                                 IsOutgoingSlot(i) /\ Enter(p, i)
    <3>1. PICK i \in 1 .. Len(clientVec) + 1 : IsOutgoingSlot(i) /\ Enter(p, i)
      BY <2>3
    <3>2. i \in DOMAIN clientVec => clientVec[i] = NoPeer
      BY <3>1 DEF IsOutgoingSlot, IsFirstFree, TypeOK
    <3>3. /\ addrMap' \in [Peers -> Nat]
          /\ clientVec' \in Seq(Peers \cup {NoPeer})
          /\ TableConsistent'
      BY <2>3, <3>1, <3>2, EnterFacts
    <3>4. RouteInv'
      BY <2>1, <2>3, <3>1 DEF Enter, RouteInv, TypeOK, Requests
    <3> QED
      BY <2>1, <3>3, <3>4 DEF TypeOK
  <2> QED
    BY <1>3, <2>2, <2>3 DEF SendRequest
<1>4. ASSUME NEW p \in Peers, SocketError(p) PROVE EndpointInv'
  <2>1. Close({p}) /\ idle' \in [Peers -> 0 .. IdleTicksMax]
    BY <1>4 DEF SocketError, Touch, TypeOK, IdleTicksMax
  <2> QED
    BY <2>1, CloseFacts DEF TypeOK
<1>5. ASSUME NEW r \in pending, SendResponse(r) PROVE EndpointInv'
  <2>1. idle' \in [Peers -> 0 .. IdleTicksMax]
    <3>1. idle' = idle \/ Touch(clientVec[r.ch])
      BY <1>5 DEF SendResponse
    <3>2. 0 \in 0 .. IdleTicksMax
      BY DEF IdleTicksMax
    <3> QED
      BY <3>1, <3>2 DEF Touch, TypeOK
  <2>2. pending' \subseteq pending /\ UNCHANGED <<addrMap, clientVec>>
    BY <1>5 DEF SendResponse
  <2> QED
    BY <2>1, <2>2 DEF TypeOK, TableConsistent, Known, RouteInv
<1>6. ASSUME NEW r \in pending, Forget(r) PROVE EndpointInv'
  BY <1>6 DEF Forget, TypeOK, TableConsistent, Known, RouteInv
<1>7. CASE TimerTick
  <2>1. PICK expired \in SUBSET {p \in Known : Aged(p) >= IdleTicksMin} :
          /\ Close(expired)
          /\ idle' = [p \in Peers |-> IF p \in expired THEN 0 ELSE Aged(p)]
    BY <1>7 DEF TimerTick
  <2>2. idle' \in [Peers -> 0 .. IdleTicksMax]
    <3>1. ASSUME NEW p \in Peers PROVE Aged(p) \in 0 .. IdleTicksMax
      BY DEF Aged, TypeOK, IdleTicksMax
    <3> QED
      BY <2>1, <3>1 DEF IdleTicksMax
  <2>3. expired \in SUBSET Peers
    BY DEF Known
  <2> QED
    BY <2>1, <2>2, <2>3, CloseFacts DEF TypeOK
<1>8. CASE Restart
  <2>1. pending' \in SUBSET Requests /\ \A r \in pending' : ~r.live
    <3> SUFFICES ASSUME NEW o \in pending
                 PROVE  /\ [o EXCEPT !.live = FALSE] \in Requests
                        /\ ~[o EXCEPT !.live = FALSE].live
      BY <1>8 DEF Restart
    <3>1. o \in Requests
      BY DEF TypeOK
    <3> QED
      BY <3>1 DEF Requests
  <2> QED
    BY <1>8, <2>1 DEF Restart, TypeOK, TableConsistent, Known, RouteInv,
                      IdleTicksMax
<1>9. CASE UNCHANGED vars
  BY <1>9 DEF vars, TypeOK, TableConsistent, Known, RouteInv
<1> QED
  BY <1>1, <1>2, <1>3, <1>4, <1>5, <1>6, <1>7, <1>8, <1>9 DEF Next

\* The inductive invariant: types, the two maps inverse to each other, idle
\* times only of known peers, and the routes of live requests (sipserver).
THEOREM EndpointInvariant == Spec => []EndpointInv
<1> QED
  BY EndpointInit, EndpointStep, PTL DEF Spec

\* Every reachable state is well typed (sipserver, all the handlers).
THEOREM EndpointTypeCorrect == Spec => []TypeOK
<1>1. EndpointInv => TypeOK
  BY DEF EndpointInv
<1> QED
  BY <1>1, EndpointInvariant, PTL

\* _addrMap and _clientVec are inverse to each other in every reachable state
\* (onAccept, processOutgoing, closeEndpoint).
THEOREM TableConsistentHolds == Spec => []TableConsistent
<1>1. EndpointInv => TableConsistent
  BY DEF EndpointInv
<1> QED
  BY <1>1, EndpointInvariant, PTL

\* The channel of a request leads to its requester until the requester's
\* endpoint is closed (processIncoming, processOutgoing).
THEOREM ReplyRouteHoldsAlways == Spec => []ReplyRouteHolds
<1>1. EndpointInv => ReplyRouteHolds
  <2> SUFFICES ASSUME EndpointInv, NEW r \in pending, r.live
               PROVE  r.ch \in DOMAIN clientVec /\ clientVec[r.ch] = r.from
    BY DEF ReplyRouteHolds
  <2>1. r.from \in Peers /\ addrMap[r.from] = r.ch /\ r.ch # 0
    BY DEF EndpointInv, RouteInv, TypeOK, Requests
  <2> QED
    BY <2>1 DEF EndpointInv, TableConsistent, Known
<1> QED
  BY <1>1, EndpointInvariant, PTL

=============================================================================
