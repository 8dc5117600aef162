---------------------------- MODULE MCDeviceMerge ----------------------------
(* Instances of DeviceMerge for TLC. *)
EXTENDS DeviceMerge, TLC

CONSTANTS a, b, c

T(id, rank) == [id |-> id, rank |-> rank]

F(g, r, ts) == [generation |-> g, revision |-> r, tasks |-> ts]

\* Two Edges of two versions each, the first restarting in between, that share
\* a task and have more of them than the screen has room for.
MCFrames ==
  (0 :> {F(1, 1, <<T(a, 1)>>), F(2, 0, <<T(b, 3), T(a, 2)>>)})
    @@ (1 :> {F(1, 1, <<T(c, 4)>>), F(1, 2, <<T(a, 3), T(c, 1)>>)})
=============================================================================
