----------------------------- MODULE MCPairing ------------------------------
(* Instances of Pairing for TLC. *)
EXTENDS Pairing, TLC

CONSTANTS w1, w2

MCRoleAsked == <<"edge-ingress", "feed">>

MCSymmetry == Permutations(Workers) \cup Permutations(Feeds)
=============================================================================
