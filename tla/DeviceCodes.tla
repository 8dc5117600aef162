----------------------------- MODULE DeviceCodes -----------------------------
(***************************************************************************)
(* What a pairing ceremony promises about its device codes: a code that    *)
(* was asked for is open until it is denied, expires or is exchanged; only *)
(* an open code that an administrator approved is exchanged, once, for one *)
(* credential of its own; and a closed code never opens again.             *)
(***************************************************************************)
EXTENDS Naturals

CONSTANTS Codes, Credentials

VARIABLES life,    \* the life of every code
          grants   \* the credentials that were issued for it

vars == <<life, grants>>

Init ==
  /\ life = [k \in Codes |-> "unborn"]
  /\ grants = [k \in Codes |-> {}]

Ask(k) ==
  /\ life[k] = "unborn"
  /\ life' = [life EXCEPT ![k] = "waiting"]
  /\ UNCHANGED grants

Approve(k) ==
  /\ life[k] = "waiting"
  /\ life' = [life EXCEPT ![k] = "approved"]
  /\ UNCHANGED grants

\* Denied, expired, lost with the process, or consumed in vain.
Close(K) ==
  /\ \A k \in K : life[k] \in {"waiting", "approved"}
  /\ life' = [k \in Codes |-> IF k \in K THEN "closed" ELSE life[k]]
  /\ UNCHANGED grants

Grant(k, c) ==
  /\ life[k] = "approved"
  /\ \A other \in Codes : c \notin grants[other]
  /\ life' = [life EXCEPT ![k] = "closed"]
  /\ grants' = [grants EXCEPT ![k] = {c}]

Next ==
  \/ \E k \in Codes : Ask(k) \/ Approve(k)
  \/ \E K \in SUBSET Codes : Close(K)
  \/ \E k \in Codes, c \in Credentials : Grant(k, c)

Spec == Init /\ [][Next]_vars
=============================================================================
