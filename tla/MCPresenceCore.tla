--------------------------- MODULE MCPresenceCore ----------------------------
(* Instances of PresenceCore for TLC. *)
EXTENDS PresenceCore

CONSTANTS s1, s2, t1, t2

R(s, st, why, n) ==
  [session |-> s, title |-> t1, state |-> st, reason |-> why, subagents |-> n]

One(r) == [reports |-> <<r>>, ends |-> <<>>]

\* Both reasons of needs_input, an unrelated change, a terminal state, a malformed
\* entry, ends, and batches that touch a session twice.
MCBatches ==
  {One(R(s1, "running", "working", 0)), One(R(s1, "needs_input", "question", 0)),
   One(R(s1, "ready", "completed", 0)),
   [reports |-> <<R(s1, "needs_input", "question", 0), R(s1, "needs_input", "approval", 1)>>,
    ends |-> <<>>],
   [reports |-> <<R(NoSession, "running", "working", 0), R(s2, "blocked", "failed", 0)>>,
    ends |-> <<s1>>]}

=============================================================================
