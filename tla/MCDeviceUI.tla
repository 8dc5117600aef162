------------------------------ MODULE MCDeviceUI -----------------------------
(* Instances of DeviceUI for TLC. *)
EXTENDS DeviceUI, TLC

CONSTANTS a, b, c

Updated == (a :> 1) @@ (b :> 2) @@ (c :> 2)

Variants(t) ==
  {task \in [id : {t}, rank : {1, 2, 4}, snoozed : BOOLEAN, updated : {Updated[t]}] :
    task.snoozed => task.rank = NeedsInput}

\* Every list of up to two of the tasks.
MCSnapshots ==
  LET one == UNION {Variants(t) : t \in TaskIDs} IN
  {<<>>} \cup {<<x>> : x \in one}
         \cup {<<p[1], p[2]>> : p \in {q \in one \X one : q[1].id # q[2].id}}

\* b and c are alike.
Alike == Permutations({b, c})
=============================================================================
