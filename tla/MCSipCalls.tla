----------------------------- MODULE MCSipCalls -----------------------------
(* SipCalls for TLC: calls and ports are interchangeable model values. *)
EXTENDS SipCalls, TLC

Symmetry == Permutations(Calls) \cup Permutations(Ports)
=============================================================================
