------------------------------ MODULE MCSockPool ------------------------------
(* Instances of SockPool for TLC. *)
EXTENDS SockPoolLife, TLC

\* Workers are interchangeable, and so are clients.
PoolSymmetry == Permutations(Workers) \cup Permutations(Conns)
==============================================================================
