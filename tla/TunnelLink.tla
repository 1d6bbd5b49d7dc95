----------------------------- MODULE TunnelLink -----------------------------
(***************************************************************************)
(* What a link between a client tunnel and the server tunnel promises,     *)
(* whatever carries it: the client end is up only on the strength of an    *)
(* EConnectOK, an EConnectOK is sent only by a server end that the         *)
(* client's EConnect has just connected, and a server end leaves the       *)
(* connected state only by its timer or with its process.  Timers, pings,  *)
(* payloads, sockets and the datagrams other than EConnectOK are gone.     *)
(* VpnLink (datagrams) and DtlsLink (secured datagrams) implement it.      *)
(***************************************************************************)
CONSTANT Clients

VARIABLES
  near,   \* the client end of c is connected
  far,    \* the server end for c, one of FarStates
  offer,  \* clients to which an EConnectOK of the running server is under way
  stale,  \* clients to which one of a dead server process is under way
  trust   \* c acted last on an EConnectOK of the running server process

vars == <<near, far, offer, stale, trust>>

FarStates == {"none", "idle", "connected", "expired"}

TypeOK ==
  /\ near \in [Clients -> BOOLEAN]
  /\ far \in [Clients -> FarStates]
  /\ offer \subseteq Clients
  /\ stale \subseteq Clients
  /\ trust \in [Clients -> BOOLEAN]

Init ==
  /\ near = [c \in Clients |-> FALSE]
  /\ far = [c \in Clients |-> "none"]
  /\ offer = {}
  /\ stale = {}
  /\ trust = [c \in Clients |-> FALSE]

\* The first message the server hears from c is not an EConnect.
Greet(c) ==
  /\ far[c] = "none"
  /\ far' = [far EXCEPT ![c] = "idle"]
  /\ UNCHANGED <<near, offer, stale, trust>>

\* An EConnect reaches the server: an expired end is connected again as well.
Answer(c) ==
  /\ far' = [far EXCEPT ![c] = "connected"]
  /\ offer' = offer \cup {c}
  /\ UNCHANGED <<near, stale, trust>>

\* The server end has been silent for too long.
Expire(c) ==
  /\ far[c] \in {"idle", "connected"}
  /\ far' = [far EXCEPT ![c] = "expired"]
  /\ UNCHANGED <<near, offer, stale, trust>>

\* The client acts on an EConnectOK.
TakeOffer(c) ==
  /\ near' = [near EXCEPT ![c] = TRUE]
  /\ \/ /\ c \in offer
        /\ offer' = offer \ {c}
        /\ trust' = [trust EXCEPT ![c] = TRUE]
        /\ UNCHANGED stale
     \/ /\ c \in stale
        /\ stale' = stale \ {c}
        /\ trust' = [trust EXCEPT ![c] = FALSE]
        /\ UNCHANGED offer
  /\ UNCHANGED far

\* The client gives the link up, by its timer or with its process.
Leave(c) ==
  /\ near' = [near EXCEPT ![c] = FALSE]
  /\ \/ UNCHANGED trust
     \/ trust' = [trust EXCEPT ![c] = FALSE]
  /\ UNCHANGED <<far, offer, stale>>

\* An EConnectOK is lost.
LoseOffer(c) ==
  /\ \/ offer' = offer \ {c} /\ UNCHANGED stale
     \/ stale' = stale \ {c} /\ UNCHANGED offer
  /\ UNCHANGED <<near, far, trust>>

\* The server process dies with all its ends.
FarDies ==
  /\ far' = [c \in Clients |-> "none"]
  /\ offer' = {}
  /\ stale' = stale \cup offer
  /\ trust' = [c \in Clients |-> FALSE]
  /\ UNCHANGED near

Next ==
  \/ \E c \in Clients :
       \/ Greet(c) \/ Answer(c) \/ Expire(c)
       \/ TakeOffer(c) \/ Leave(c) \/ LoseOffer(c)
  \/ FarDies

Spec == Init /\ [][Next]_vars

\* An EConnectOK of the running server process, under way or acted on, stands
\* for a server end that was connected and has at most expired since.
OfferStands ==
  \A c \in Clients : c \in offer \/ trust[c] => far[c] \in {"connected", "expired"}
=============================================================================
