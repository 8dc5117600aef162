--------------------------- MODULE VersionedSource ---------------------------
(***************************************************************************)
(* What an Edge promises the receivers of its snapshots: a content that    *)
(* changes only together with its order <<generation, revision>>.  Two     *)
(* snapshots of equal order then carry equal content, and a receiver that  *)
(* keeps the snapshot of highest order keeps the newest one.  Everything   *)
(* downstream (device slots, the Home relay, stale-action checks) relies   *)
(* on this and on nothing else of the semantic core.                       *)
(***************************************************************************)
EXTENDS Naturals

CONSTANTS Content,     \* the contents a snapshot can carry
          Empty        \* the content of a core that has just started

VARIABLES content, generation, revision

vars == <<content, generation, revision>>

TypeOK ==
  /\ content \in Content
  /\ generation \in Nat
  /\ revision \in Nat

Init ==
  /\ content = Empty
  /\ generation = 1
  /\ revision = 0

\* The owner publishes a content (possibly the one it already had).
Publish ==
  /\ content' \in Content
  /\ revision' = revision + 1
  /\ UNCHANGED generation

\* A new process starts from nothing, under a generation never used before.
Restart ==
  /\ content' = Empty
  /\ generation' \in Nat
  /\ generation' > generation
  /\ revision' = 0

Next == Publish \/ Restart

Spec == Init /\ [][Next]_vars

\* The lexicographic order every receiver compares snapshots by.
OlderOrder(g1, r1, g2, r2) == g1 < g2 \/ (g1 = g2 /\ r1 < r2)
=============================================================================
