----------------------------- MODULE MCUdpDemux -----------------------------
(* UdpDemux for TLC: peers are interchangeable.                             *)
EXTENDS UdpDemux, TLC

Symmetry == Permutations(Peers)
=============================================================================
