------------------------------ MODULE ClaimsMC ------------------------------
(* Claims on small instances: all objects on one peer, or on two peers.     *)
EXTENDS Claims, TLC

CONSTANTS o1, p1, p2

OnePeer == [o \in Objects |-> p1]
TwoPeers == [o \in Objects |-> IF o = o1 THEN p1 ELSE p2]
Symmetry == Permutations(Tasks \ Stoppers)
=============================================================================
