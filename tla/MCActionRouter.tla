--------------------------- MODULE MCActionRouter ----------------------------
(* Instances of ActionRouter for TLC. *)
EXTENDS ActionRouter, TLC

CONSTANTS a1, a2, k1

Ask(c, t) == [cap |-> c, task |-> t]

\* One action is a focus, the other anything else or malformed.
MCRequests ==
  (a1 :> {Ask("focus", k1)}) @@
  (a2 :> {Ask("other", k1), Ask("focus", NoID), Ask("acknowledge", k1),
          Ask("snooze", k1)})

\* One action, a focus.
MCFocus == a1 :> {Ask("focus", k1)}
=============================================================================
