---------------------------- MODULE SipEndpoints ----------------------------
(***************************************************************************)
(* The SIP side of one tunnel: the sipserver's table of SIP peers          *)
(* (_addrMap from "address:port" to a channel number, _clientVec from a    *)
(* channel number to the sipendpoint) and the idle timer that closes       *)
(* endpoints.  A request of a peer crosses the VPN tagged with the peer's  *)
(* channel, the other tunnel echoes the tag in the Via branch, and the     *)
(* response comes back addressed by that number alone.                     *)
(*                                                                         *)
(* The process runs one thread: a handler is one step.  The peers, the VPN *)
(* and the other tunnel are the environment: they send at any time, and a  *)
(* datagram that is lost is a step that does not happen.  Channel numbers  *)
(* start at 1 here (0 in the code); 0 stands for "not in _addrMap".        *)
(***************************************************************************)
EXTENDS Naturals, Sequences, FiniteSets

CONSTANTS
  Peers,     \* ids "address:port" of SIP peers
  NoPeer,    \* the NULL pointer in _clientVec
  MaxSlots   \* bound: _clientVec never grows beyond this many slots

ASSUME PeersAssumption == NoPeer \notin Peers
ASSUME MaxSlotsAssumption == MaxSlots \in Nat

\* The timer fires every 30 s and closes an endpoint idle for more than 60 s:
\* at the third tick after its last activity, except that the third tick
\* finds exactly 60 s when the activity fell into the second of a tick.
IdleTicksMin == 3
IdleTicksMax == 4

VARIABLES
  addrMap,    \* _addrMap: peer -> channel, 0 when absent
  clientVec,  \* _clientVec: channel -> peer of the sipendpoint, or NoPeer
  idle,       \* ticks since _lastActiveTime of the peer's endpoint, 0 without
  pending     \* requests of peers the other tunnel may still answer; "live"
              \* is history: the endpoint has not been closed since

vars == <<addrMap, clientVec, idle, pending>>

Requests == [from : Peers, ch : Nat, live : BOOLEAN]

TypeOK ==
  /\ addrMap \in [Peers -> Nat]
  /\ clientVec \in Seq(Peers \cup {NoPeer})
  /\ idle \in [Peers -> 0 .. IdleTicksMax]
  /\ pending \in SUBSET Requests

Init ==
  /\ addrMap = [p \in Peers |-> 0]
  /\ clientVec = <<>>
  /\ idle = [p \in Peers |-> 0]
  /\ pending = {}

Known == {p \in Peers : addrMap[p] # 0}

-----------------------------------------------------------------------------
(* Channels. *)

\* A mutant of IsFirstFree: the test of the slot is inverted.
IsFirstUsed(i) ==
  /\ i \in 1 .. Len(clientVec) + 1
  /\ i \in DOMAIN clientVec => clientVec[i] # NoPeer
  /\ \A j \in 1 .. i - 1 : clientVec[j] = NoPeer

\* The search loops: i is the first NULL slot, or one past the last slot.
IsFirstFree(i) ==
  /\ i \in 1 .. Len(clientVec) + 1
  /\ i \in DOMAIN clientVec => clientVec[i] = NoPeer
  /\ \A j \in 1 .. i - 1 : clientVec[j] # NoPeer

\* The slot processOutgoing takes.  The search for an empty slot runs only
\* when there are fewer slots than entries of _addrMap, which never happens.
IsOutgoingSlot(i) ==
  IF Len(clientVec) < Cardinality(Known)
  THEN IsFirstFree(i) ELSE i = Len(clientVec) + 1

Store(vec, i, p) == IF i \in DOMAIN vec THEN [vec EXCEPT ![i] = p]
                                        ELSE Append(vec, p)

\* A new sipendpoint for p on channel i.
Enter(p, i) ==
  /\ i <= MaxSlots
  /\ clientVec' = Store(clientVec, i, p)
  /\ addrMap' = [addrMap EXCEPT ![p] = i]

\* A mutant of Close: the slot is emptied, the address stays in the map.
CloseKeepsAddress(ps) ==
  /\ clientVec' = [i \in DOMAIN clientVec |->
                     IF \E p \in ps : addrMap[p] = i THEN NoPeer
                                                     ELSE clientVec[i]]
  /\ UNCHANGED addrMap
  /\ pending' = {[r EXCEPT !.live = @ /\ r.from \notin ps] : r \in pending}

\* closeEndpoint for every peer of ps: empty the slot, forget the address.
Close(ps) ==
  /\ clientVec' = [i \in DOMAIN clientVec |->
                     IF \E p \in ps : addrMap[p] = i THEN NoPeer
                                                     ELSE clientVec[i]]
  /\ addrMap' = [p \in Peers |-> IF p \in ps THEN 0 ELSE addrMap[p]]
  /\ pending' = {[r EXCEPT !.live = @ /\ r.from \notin ps] : r \in pending}

\* processIncoming of what p sent on channel ch: a request is forwarded when
\* the VPN link is connected; a response, a message that is dropped and a
\* request while the link is down leave nothing behind.
Forward(p, ch) ==
  pending' \in {pending, pending \cup {[from |-> p, ch |-> ch, live |-> TRUE]}}

Touch(p) == idle' = [idle EXCEPT ![p] = 0]

-----------------------------------------------------------------------------
(* Handlers. *)

\* onAccept of a datagram from an unknown peer on the listening socket.
AcceptNew(p) ==
  /\ addrMap[p] = 0
  /\ \E i \in 1 .. Len(clientVec) + 1 :
       /\ IsFirstFree(i)
       /\ Enter(p, i)
       /\ Forward(p, i)
  /\ Touch(p)

\* A datagram of a known peer, on the socket of its endpoint or through
\* onAccept, which hands it to the endpoint it finds in _addrMap.
Receive(p) ==
  /\ addrMap[p] # 0
  /\ Forward(p, addrMap[p])
  /\ Touch(p)
  /\ UNCHANGED <<addrMap, clientVec>>

\* processOutgoing of a request for p: use p's endpoint or connect a new one.
SendRequest(p) ==
  /\ \/ addrMap[p] # 0 /\ UNCHANGED <<addrMap, clientVec>>
     \/ /\ addrMap[p] = 0
        /\ \E i \in 1 .. Len(clientVec) + 1 : IsOutgoingSlot(i) /\ Enter(p, i)
  /\ Touch(p)
  /\ UNCHANGED pending

\* processOutgoing of a response to request r: whoever holds the channel gets
\* it; a channel out of range or empty drops it.  A provisional response
\* leaves r pending.
Answered(r) == r.ch \in DOMAIN clientVec /\ clientVec[r.ch] # NoPeer

SendResponse(r) ==
  /\ r \in pending
  /\ \/ Answered(r) /\ Touch(clientVec[r.ch])
     \/ ~Answered(r) /\ UNCHANGED idle
  /\ pending' \in {pending, pending \ {r}}
  /\ UNCHANGED <<addrMap, clientVec>>

\* The other tunnel, or the link, loses a request or its response.
Forget(r) ==
  /\ r \in pending
  /\ pending' = pending \ {r}
  /\ UNCHANGED <<addrMap, clientVec, idle>>

\* A receive or send error on p's socket: sipendpoint::onError closes it.
SocketError(p) ==
  /\ addrMap[p] # 0
  /\ Close({p})
  /\ Touch(p)

\* Mutants of Aged: closed endpoints keep ageing; check_if_valid counts as
\* activity.
AgedAlways(p) == idle[p] + 1
AgedThenTouched(p) == IF addrMap[p] # 0 THEN 1 ELSE idle[p]

\* timer_tick: check_if_valid on every endpoint.
Aged(p) == IF addrMap[p] # 0 /\ idle[p] < IdleTicksMax THEN idle[p] + 1
                                                       ELSE idle[p]

TimerTick ==
  \E expired \in SUBSET {p \in Known : Aged(p) >= IdleTicksMin} :
    /\ {p \in Known : Aged(p) = IdleTicksMax} \subseteq expired
    /\ Close(expired)
    /\ idle' = [p \in Peers |-> IF p \in expired THEN 0 ELSE Aged(p)]

\* The process dies, on a NULL pClient when the connect of processOutgoing
\* failed for instance, and starts again with empty tables.  Requests it
\* forwarded can still be answered.
Restart ==
  /\ addrMap' = [p \in Peers |-> 0]
  /\ clientVec' = <<>>
  /\ idle' = [p \in Peers |-> 0]
  /\ pending' = {[r EXCEPT !.live = FALSE] : r \in pending}

Next ==
  \/ \E p \in Peers : AcceptNew(p) \/ Receive(p) \/ SendRequest(p) \/ SocketError(p)
  \/ \E r \in pending : SendResponse(r) \/ Forget(r)
  \/ TimerTick
  \/ Restart

Spec == Init /\ [][Next]_vars
FairSpec == Spec /\ WF_vars(TimerTick)

-----------------------------------------------------------------------------
(* Properties. *)

\* _addrMap and _clientVec stay inverse to each other: every known address
\* leads to its own endpoint, every occupied slot belongs to exactly the
\* address that leads to it, whatever mix of accepted and connected
\* endpoints, errors, expiries and reused slots came before (onAccept,
\* processOutgoing, closeEndpoint).
TableConsistent ==
  /\ \A p \in Known :
       addrMap[p] \in DOMAIN clientVec /\ clientVec[addrMap[p]] = p
  /\ \A i \in DOMAIN clientVec :
       clientVec[i] # NoPeer => addrMap[clientVec[i]] = i

\* As long as the endpoint a request came from is not closed, the channel the
\* request carries still leads to it, so the response gets back to its
\* requester (processIncoming, processOutgoing line 637).
ReplyRouteHolds ==
  \A r \in pending :
    r.live => r.ch \in DOMAIN clientVec /\ clientVec[r.ch] = r.from

\* An endpoint that stays idle is closed: a tick that finds it idle is
\* followed by activity or by its closing (check_if_valid, timer_tick).  The
\* io_service thread runs every expired timer: ticks are weakly fair.
IdleEndpointCloses ==
  \A p \in Peers : (addrMap[p] # 0 /\ idle[p] > 0) ~> (addrMap[p] = 0 \/ idle[p] = 0)
=============================================================================
