---------------------------- MODULE MCHomeRelay ------------------------------
(* Instances of HomeRelay for TLC. *)
EXTENDS HomeRelay, TLC

CONSTANTS e1, e2, t1, t2

MCOwner == t1 :> e1

MCOwners == (t1 :> e1) @@ (t2 :> e2)
=============================================================================
