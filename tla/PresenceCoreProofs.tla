------------------------- MODULE PresenceCoreProofs --------------------------
(***************************************************************************)
(* Theorems about PresenceCore, for every value of its constants.          *)
(***************************************************************************)
EXTENDS PresenceCore, TLAPS

-----------------------------------------------------------------------------
(* Facts about the operators. *)

\* What a snapshot shows of well-typed tasks is well-typed feed content.
LEMMA ProjectionType ==
  ASSUME NEW ts \in [TaskIDs -> Task \cup {NoTask}]
  PROVE  Projection(ts) \in FeedContent
<1>1. ASSUME NEW t \in Task PROVE FeedTaskOf(t) \in FeedTask
  BY DEF FeedTaskOf, FeedTask, Task
<1>. QED
  BY <1>1 DEF Projection, FeedContent

\* A report folded into a task keeps its identity and takes over its state.
LEMMA AppliedFacts ==
  ASSUME NEW t \in Task, NEW r \in Report, WellFormed(r),
         NEW a \in Titles \cup {NoTitle}, NEW at \in 0..MaxNow
  PROVE  /\ Applied(t, r, a, at) \in Task
         /\ Applied(t, r, a, at).key = t.key
         /\ Applied(t, r, a, at).lease = t.lease
         /\ Applied(t, r, a, at).state = r.state
         /\ Applied(t, r, a, at).reason = r.reason
<1>1. Title(t, r, a) \in Titles \cup {NoTitle}
  BY DEF Title, Task, Report
<1>2. StillSnoozed(t, r) \in BOOLEAN
  BY DEF StillSnoozed, Task
<1>3. r.state \in States /\ r.reason \in Reasons /\ r.subagents \in SubagentCounts
  BY DEF WellFormed, Report
<1>4. (IF Differs(t, r, a) THEN at ELSE t.updatedAt) \in 0..MaxNow
  BY DEF Task
<1>. QED
  BY <1>1, <1>2, <1>3, <1>4 DEF Applied, Task

\* A report that changes nothing visible changes nothing that is shown.
LEMMA UnchangedProjection ==
  ASSUME NEW t \in Task, NEW r \in Report,
         NEW a \in Titles \cup {NoTitle}, NEW at \in 0..MaxNow,
         ~Differs(t, r, a)
  PROVE  FeedTaskOf(Applied(t, r, a, at)) = FeedTaskOf(t)
  BY DEF Differs, Applied, FeedTaskOf, Task

\* endLocked keeps the types.
LEMMA EndType ==
  ASSUME TypeOK, NEW ids, End(ids)
  PROVE  /\ tasks' \in [TaskIDs -> Task \cup {NoTask}]
         /\ byNative' \in [Keys -> TaskIDs \cup {NoID}]
         /\ alias' \in [TaskIDs -> Titles \cup {NoTitle}]
  BY DEF TypeOK, End

LEMMA NewLeaseType ==
  ASSUME CoreAssumption, TypeOK, NEW a \in Adapters, NEW p \in BOOLEAN
  PROVE  NewLease(a, p) \in Lease
  BY DEF CoreAssumption, TypeOK, NewLease, Lease

-----------------------------------------------------------------------------
(* Type correctness.  The holder of the mutex keeps its lease and has IDs *)
(* left for the rest of its batch.                                        *)

Holder ==
  call # NoCall => /\ up
                   /\ leases[call.lease] # NoLease
                   /\ minted + Len(call.reports) <= MaxMinted

TypeInv == TypeOK /\ Holder

\* Types hold when the service has started for the first time.
LEMMA TypeInit == Init => TypeInv
<1> SUFFICES ASSUME Init PROVE TypeInv
  OBVIOUS
<1> USE CoreAssumption DEF CoreAssumption
<1>1. NewLease(LocalAdapter, TRUE) \in Lease
  BY DEF Init, NewLease, Lease
<1>2. leases \in [LeaseIDs -> Lease \cup {NoLease}]
  BY <1>1 DEF Init, NoLeases, LeaseIDs, LocalLease
<1>3. /\ tasks \in [TaskIDs -> Task \cup {NoTask}]
      /\ byNative \in [Keys -> TaskIDs \cup {NoID}]
      /\ alias \in [TaskIDs -> Titles \cup {NoTitle}]
  BY DEF Init, NoID
<1>4. shown \in FeedContent
  BY <1>3, ProjectionType DEF Init
<1>5. disk \in [generation : Nat, alias : [TaskIDs -> Titles \cup {NoTitle}]]
  BY <1>3 DEF Init
<1>6. /\ minted \in 0..MaxMinted /\ attached \in 0..MaxLeases
      /\ now \in 0..MaxNow /\ wall \in 0..MaxNow
      /\ generation \in Nat /\ revision \in Nat
      /\ call = NoCall /\ up \in BOOLEAN
  BY DEF Init
<1>. QED
  BY <1>2, <1>3, <1>4, <1>5, <1>6 DEF TypeInv, TypeOK, Holder

\* Ending tasks, with or without a bump, keeps the types.
LEMMA EndAndBumpType ==
  ASSUME TypeOK, NEW ids, EndAndBump(ids)
  PROVE  /\ tasks' \in [TaskIDs -> Task \cup {NoTask}]
         /\ byNative' \in [Keys -> TaskIDs \cup {NoID}]
         /\ alias' \in [TaskIDs -> Titles \cup {NoTitle}]
         /\ revision' \in Nat
         /\ shown' \in FeedContent
<1>1. End(ids)
  BY DEF EndAndBump
<1>2. tasks' \in [TaskIDs -> Task \cup {NoTask}]
  BY <1>1, EndType
<1>3. shown' \in FeedContent
  BY <1>2, ProjectionType DEF EndAndBump, Release
<1>4. revision' \in Nat
  BY DEF EndAndBump, TypeOK, Bump
<1>. QED
  BY <1>1, <1>2, <1>3, <1>4, EndType

\* What is left of a batch after its first report.
LEMMA AfterReportType ==
  ASSUME TypeOK, Reporting, NEW b \in BOOLEAN, AfterReport(b)
  PROVE  /\ call' \in Call
         /\ call'.lease = call.lease /\ call'.at = call.at
         /\ call'.changed = (call.changed \/ b)
         /\ Head(call.reports) \in Report
         /\ Len(call'.reports) = Len(call.reports) - 1
         /\ Len(call.reports) \in Nat /\ call \in Call
<1>1. /\ call \in Call /\ call.reports \in Seq(Report) /\ call.reports # <<>>
      /\ call.changed \in BOOLEAN
  BY DEF TypeOK, Reporting, Call
<1>2. /\ Head(call.reports) \in Report /\ Tail(call.reports) \in Seq(Report)
      /\ Len(Tail(call.reports)) = Len(call.reports) - 1
      /\ Len(call.reports) \in Nat
  BY <1>1
<1>3. call' = [call EXCEPT !.reports = Tail(call.reports),
                           !.changed = call.changed \/ b]
  BY DEF AfterReport
<1>4. call' \in Call
  BY <1>1, <1>2, <1>3 DEF Call
<1>. QED
  BY <1>1, <1>2, <1>3, <1>4 DEF Call


\* The process stops, or starts, from nothing.
LEMMA ForgetType ==
  ASSUME Forget
  PROVE  /\ tasks' \in [TaskIDs -> Task \cup {NoTask}]
         /\ byNative' \in [Keys -> TaskIDs \cup {NoID}]
         /\ leases' \in [LeaseIDs -> Lease \cup {NoLease}]
         /\ alias' \in [TaskIDs -> Titles \cup {NoTitle}]
  BY DEF Forget, NoLeases

\* Every action keeps types and the holder's guarantees.
LEMMA TypeStep == TypeInv /\ [Next]_vars => TypeInv'
<1> SUFFICES ASSUME TypeInv, [Next]_vars PROVE TypeInv'
  OBVIOUS
<1> USE CoreAssumption DEF CoreAssumption, TypeInv
<1>1. ASSUME NEW a \in Adapters, Attach(a) PROVE TypeInv'
  <2>1. NewLease(a, FALSE) \in Lease
    BY NewLeaseType
  <2>2. attached + 1 \in LeaseIDs /\ attached' \in 0..MaxLeases
    BY <1>1 DEF Attach, TypeOK, LeaseIDs
  <2>3. leases' \in [LeaseIDs -> Lease \cup {NoLease}]
    BY <1>1, <2>1, <2>2 DEF Attach, TypeOK
  <2>. QED
    BY <1>1, <2>2, <2>3 DEF Attach, TypeOK, Holder, Free
<1>2. ASSUME NEW l \in LeaseIDs, Renew(l) PROVE TypeInv'
  <2>1. leases' \in [LeaseIDs -> Lease \cup {NoLease}]
    BY <1>2 DEF Renew, TypeOK, Lease
  <2>. QED
    BY <1>2, <2>1 DEF Renew, TypeOK, Holder, Free, outside
<1>3. ASSUME NEW l \in LeaseIDs, Detach(l) PROVE TypeInv'
  <2>1. leases' \in [LeaseIDs -> Lease \cup {NoLease}]
    BY <1>3 DEF Detach, TypeOK
  <2>. QED
    BY <1>3, <2>1, EndAndBumpType DEF Detach, TypeOK, Holder, Free, outside
<1>4. ASSUME ExpireLeases PROVE TypeInv'
  <2>1. leases' \in [LeaseIDs -> Lease \cup {NoLease}]
    BY <1>4 DEF ExpireLeases, TypeOK
  <2>. QED
    BY <1>4, <2>1, EndAndBumpType DEF ExpireLeases, TypeOK, Holder, Free, outside
<1>5. ASSUME NEW l \in LeaseIDs, NEW seq \in 0..MaxSeq, NEW b \in Batches,
             BeginApply(l, seq, b)
      PROVE  TypeInv'
  <2>1. b \in Batch
    OBVIOUS
  <2>2. leases' \in [LeaseIDs -> Lease \cup {NoLease}] /\ leases'[l] # NoLease
    BY <1>5, AbsentAssumption DEF BeginApply, TypeOK, Lease, AbsentAssumption
  <2>3. call' \in Call /\ call'.lease = l /\ call'.reports = b.reports
    BY <1>5, <2>1 DEF BeginApply, TypeOK, Call, Batch
  <2>. QED
    BY <1>5, <2>2, <2>3 DEF BeginApply, TypeOK, Holder, Free, outside
<1>6. ASSUME SkipReport PROVE TypeInv'
  <2>1. call' \in Call /\ call'.lease = call.lease
        /\ Len(call'.reports) = Len(call.reports) - 1 /\ Len(call.reports) \in Nat
    BY <1>6, AfterReportType DEF SkipReport
  <2>. QED
    BY <1>6, <2>1 DEF SkipReport, Reporting, TypeOK, Holder, outside
<1>7. ASSUME UpsertKnown PROVE TypeInv'
  <2> DEFINE r  == Head(call.reports)
             id == byNative[CallKey(r.session)]
             d  == Differs(tasks[id], r, alias[id])
  <2>1. AfterReport(d) /\ Reporting /\ WellFormed(r)
        /\ TaskAt(CallKey(r.session)) # NoTask
        /\ tasks' = [tasks EXCEPT ![id] = Applied(tasks[id], r, alias[id], call.at)]
    BY <1>7 DEF UpsertKnown
  <2>2. d \in BOOLEAN
    BY DEF Differs
  <2>3. call' \in Call /\ call'.lease = call.lease /\ r \in Report
        /\ Len(call'.reports) = Len(call.reports) - 1 /\ Len(call.reports) \in Nat
    BY <2>1, <2>2, AfterReportType
  <2>4. call \in Call
    BY <2>1 DEF Reporting, TypeOK
  <2>5. CallKey(r.session) \in Keys
    BY <2>1, <2>3, <2>4 DEF CallKey, Keys, Holder, Reporting, TypeOK, Call, Lease,
                            WellFormed, Report
  <2>6. id \in TaskIDs /\ tasks[id] \in Task
    BY <2>1, <2>5 DEF TaskAt, TypeOK
  <2>7. Applied(tasks[id], r, alias[id], call.at) \in Task
    BY <2>1, <2>3, <2>4, <2>6, AppliedFacts DEF TypeOK, Call
  <2>8. tasks' \in [TaskIDs -> Task \cup {NoTask}]
    BY <2>1, <2>6, <2>7 DEF TypeOK
  <2>9. UNCHANGED <<byNative, leases, alias, generation, revision, shown, minted,
                    attached, now, wall, up, disk>>
    BY <1>7 DEF UpsertKnown, outside
  <2>10. Holder'
    <3>1. up /\ leases[call.lease] # NoLease /\ minted + Len(call.reports) <= MaxMinted
      BY <2>1 DEF Holder, Reporting
    <3>2. minted \in Nat /\ MaxMinted \in Nat
      BY CoreAssumption DEF TypeOK
    <3>3. minted + Len(call'.reports) <= MaxMinted
      BY <2>3, <3>1, <3>2
    <3>. HIDE DEF r, id, d
    <3>. QED
      BY <2>3, <2>9, <3>1, <3>3 DEF Holder
  <2>. QED
    BY <2>3, <2>8, <2>9, <2>10 DEF TypeOK
<1>8. ASSUME UpsertNew PROVE TypeInv'
  <2> DEFINE r  == Head(call.reports)
             k  == CallKey(r.session)
             id == minted + 1
  <2>1. AfterReport(TRUE) /\ Reporting /\ WellFormed(r) /\ minted' = id
        /\ tasks' = [tasks EXCEPT ![id] = FreshTask(k, r, alias[id])]
        /\ byNative' = [byNative EXCEPT ![k] = id]
    BY <1>8 DEF UpsertNew
  <2>2. call' \in Call /\ call'.lease = call.lease /\ r \in Report
        /\ Len(call'.reports) = Len(call.reports) - 1 /\ Len(call.reports) \in Nat
    BY <2>1, AfterReportType
  <2>3. call \in Call /\ Len(call.reports) > 0
    BY <2>1 DEF Reporting, TypeOK, Call
  <2>4. k \in Keys
    BY <2>1, <2>2, <2>3 DEF CallKey, Keys, Holder, Reporting, TypeOK, Call, Lease,
                            WellFormed, Report
  <2>5. id \in TaskIDs
    BY <2>1, <2>2, <2>3 DEF Holder, Reporting, TypeOK, TaskIDs
  <2>6. FreshTask(k, r, alias[id]) \in Task
    BY <2>1, <2>2, <2>3, <2>4, <2>5
       DEF FreshTask, Task, Report, WellFormed, Call, TypeOK, Capabilities
  <2>7. /\ tasks' \in [TaskIDs -> Task \cup {NoTask}]
        /\ byNative' \in [Keys -> TaskIDs \cup {NoID}]
    BY <2>1, <2>4, <2>5, <2>6 DEF TypeOK
  <2>8. minted + Len(call.reports) <= MaxMinted /\ minted \in Nat
    BY <2>1 DEF Holder, Reporting, TypeOK
  <2>9. minted' \in 0..MaxMinted /\ minted' + Len(call'.reports) <= MaxMinted
    BY <2>1, <2>2, <2>3, <2>8
  <2>. HIDE DEF r, id, k
  <2>. QED
    BY <1>8, <2>1, <2>2, <2>7, <2>9 DEF UpsertNew, TypeOK, Holder, Reporting
<1>9. ASSUME IdentityFails PROVE TypeInv'
  BY <1>9, ProjectionType DEF IdentityFails, TypeOK, Holder, Release, outside
<1>10. ASSUME EndSession PROVE TypeInv'
  <2>1. call' \in Call /\ call'.lease = call.lease /\ call'.reports = call.reports
    <3>1. call \in Call /\ call.ends \in Seq(Sessions) /\ Tail(call.ends) \in Seq(Sessions)
      BY <1>10 DEF EndSession, TypeOK, Call
    <3>2. \/ call' = [call EXCEPT !.ends = Tail(call.ends), !.changed = TRUE]
          \/ call' = [call EXCEPT !.ends = Tail(call.ends)]
      BY <1>10 DEF EndSession
    <3>. QED
      BY <3>1, <3>2 DEF Call
  <2>2. /\ tasks' \in [TaskIDs -> Task \cup {NoTask}]
        /\ byNative' \in [Keys -> TaskIDs \cup {NoID}]
        /\ alias' \in [TaskIDs -> Titles \cup {NoTitle}]
    BY <1>10, EndType DEF EndSession, TypeOK
  <2>. QED
    BY <1>10, <2>1, <2>2 DEF EndSession, TypeOK, Holder, outside
<1>11. ASSUME FinishApply PROVE TypeInv'
  BY <1>11, ProjectionType DEF FinishApply, TypeOK, Holder, Release, Bump, outside
<1>12. ASSUME NEW id \in TaskIDs, Acknowledge(id) PROVE TypeInv'
  BY <1>12, EndAndBumpType DEF Acknowledge, TypeOK, Holder, Free, outside
<1>13. ASSUME NEW id \in TaskIDs, Snooze(id) PROVE TypeInv'
  <2>1. tasks' \in [TaskIDs -> Task \cup {NoTask}]
    <3>1. tasks[id] \in Task
      BY <1>13 DEF Snooze, TypeOK, Live
    <3>2. Snoozed(tasks[id]) \in Task
      BY <3>1 DEF Snoozed, Task, TypeOK
    <3>. QED
      BY <1>13, <3>2 DEF Snooze, TypeOK
  <2>2. shown' \in FeedContent
    BY <1>13, <2>1, ProjectionType DEF Snooze, Release
  <2>. QED
    BY <1>13, <2>1, <2>2 DEF Snooze, TypeOK, Holder, Free, Bump, outside
<1>14. ASSUME NEW id \in TaskIDs, NEW clean \in AliasTitles \cup {NoTitle},
              SetAlias(id, clean)
       PROVE  TypeInv'
  <2>1. tasks' \in [TaskIDs -> Task \cup {NoTask}]
        /\ alias' \in [TaskIDs -> Titles \cup {NoTitle}]
    <3>1. tasks[id] \in Task /\ clean \in Titles \cup {NoTitle}
      BY <1>14 DEF SetAlias, TypeOK, Live
    <3>2. [tasks[id] EXCEPT !.title = clean] \in Task
      BY <3>1 DEF Task
    <3>3. \/ tasks' = tasks
          \/ tasks' = [tasks EXCEPT ![id] = [tasks[id] EXCEPT !.title = clean]]
      BY <1>14 DEF SetAlias
    <3>. QED
      BY <1>14, <3>1, <3>2, <3>3 DEF SetAlias, TypeOK
  <2>2. shown' \in FeedContent
    BY <1>14, <2>1, ProjectionType DEF SetAlias, Release
  <2>. QED
    BY <1>14, <2>1, <2>2 DEF SetAlias, TypeOK, Holder, Free, Bump, outside
<1>15. ASSUME NEW id \in TaskIDs, NEW caps \in Capabilities, SetCapabilities(id, caps)
       PROVE  TypeInv'
  <2>1. tasks' \in [TaskIDs -> Task \cup {NoTask}]
    <3>1. tasks[id] \in Task
      BY <1>15 DEF SetCapabilities, TypeOK, Live
    <3>2. [tasks[id] EXCEPT !.caps = caps] \in Task
      BY <3>1 DEF Task
    <3>3. tasks' = [tasks EXCEPT ![id] = [tasks[id] EXCEPT !.caps = caps]]
      BY <1>15 DEF SetCapabilities
    <3>. QED
      BY <3>2, <3>3 DEF TypeOK
  <2>2. shown' \in FeedContent
    BY <1>15, <2>1, ProjectionType DEF SetCapabilities, Release
  <2>. QED
    BY <1>15, <2>1, <2>2 DEF SetCapabilities, TypeOK, Holder, Free, Bump, outside
<1>16. ASSUME EnforceRetention PROVE TypeInv'
  <2>1. PICK ids \in Evictions : ids # {} /\ EndAndBump(ids)
    BY <1>16 DEF EnforceRetention
  <2>. QED
    BY <1>16, <2>1, EndAndBumpType
       DEF EnforceRetention, TypeOK, Holder, Free, outside
<1>17. ASSUME Crash PROVE TypeInv'
  BY <1>17, ForgetType DEF Crash, Stop, TypeOK, Holder, Forget
<1>18. ASSUME Shutdown PROVE TypeInv'
  BY <1>18, ForgetType DEF Shutdown, Stop, TypeOK, Holder, Forget
<1>19. ASSUME StartFails PROVE TypeInv'
  <2>1. disk' \in [generation : Nat, alias : [TaskIDs -> Titles \cup {NoTitle}]]
    <3>1. disk \in [generation : Nat, alias : [TaskIDs -> Titles \cup {NoTitle}]]
      BY DEF TypeOK
    <3>. HIDE DEF TypeInv
    <3>. QED
      BY <1>19, <3>1 DEF StartFails
  <2>. QED
    BY <1>19, <2>1 DEF StartFails, TypeOK, Holder, memory
<1>20. ASSUME Start PROVE TypeInv'
  <2>1. NewLease(LocalAdapter, TRUE) \in Lease
    BY NewLeaseType
  <2>2. leases' \in [LeaseIDs -> Lease \cup {NoLease}]
    BY <1>20, <2>1 DEF Start, NoLeases, LocalLease, LeaseIDs
  <2>3. shown' \in FeedContent
    BY <1>20, ProjectionType DEF Start, Release, TypeOK
  <2>4. call' = NoCall
    BY <1>20 DEF Start, Holder
  <2>5. disk \in [generation : Nat, alias : [TaskIDs -> Titles \cup {NoTitle}]]
    BY DEF TypeOK
  <2>6. disk' = [disk EXCEPT !.generation = disk.generation + 1]
    BY <1>20 DEF Start
  <2>7. disk' \in [generation : Nat, alias : [TaskIDs -> Titles \cup {NoTitle}]]
        /\ generation' \in Nat
        /\ alias' \in [TaskIDs -> Titles \cup {NoTitle}]
    BY <1>20, <2>5, <2>6 DEF Start
  <2>. QED
    BY <1>20, <2>2, <2>3, <2>4, <2>7 DEF Start, TypeOK, Holder
<1>21. ASSUME Tick \/ StepClock PROVE TypeInv'
  <2>1. now' \in 0..MaxNow /\ wall' \in 0..MaxNow
    BY <1>21 DEF Tick, StepClock, TypeOK
  <2>2. UNCHANGED <<memory, minted, attached, up, disk, shown>>
    BY <1>21 DEF Tick, StepClock
  <2>. QED
    BY <2>1, <2>2 DEF TypeOK, Holder, memory
<1>22. CASE UNCHANGED vars
  BY <1>22 DEF vars, memory, TypeOK, Holder
<1>. QED
  BY <1>1, <1>2, <1>3, <1>4, <1>5, <1>6, <1>7, <1>8, <1>9, <1>10, <1>11, <1>12,
     <1>13, <1>14, <1>15, <1>16, <1>17, <1>18, <1>19, <1>20, <1>21, <1>22
     DEF Next, Dismissals, Others

\* Every variable keeps its type in every behaviour of the core.
THEOREM TypeCorrect == Spec => []TypeOK
<1>1. TypeInv /\ [Next]_vars => TypeInv'
  BY TypeStep
<1>2. Spec => []TypeInv
  BY <1>1, TypeInit, PTL DEF Spec
<1>. QED
  BY <1>2, PTL DEF TypeInv

-----------------------------------------------------------------------------
(* Every step does one of five things to the set of presences: nothing, end *)
(* some, rewrite one in place, add one under a fresh ID, forget all.        *)

Quiet   == UNCHANGED <<tasks, byNative, minted>>
Ends    == \E ids \in SUBSET Live : End(ids) /\ UNCHANGED minted
Forgets == Forget /\ ~up' /\ UNCHANGED minted

Rewrites(id, t) ==
  /\ t.key = tasks[id].key /\ t.lease = tasks[id].lease
  /\ tasks' = [tasks EXCEPT ![id] = t]
  /\ UNCHANGED <<byNative, minted, leases>>

Adds(k, t) ==
  /\ call # NoCall /\ TaskAt(k) = NoTask
  /\ t.key = k /\ k[1] = leases[call.lease].adapter /\ t.lease = call.lease
  /\ minted + 1 \in TaskIDs /\ minted' = minted + 1
  /\ tasks' = [tasks EXCEPT ![minted + 1] = t]
  /\ byNative' = [byNative EXCEPT ![k] = minted + 1]
  /\ UNCHANGED leases

\* IDs not handed out yet name no task: NewTaskPresenceID never repeats one.
FreshIDs == \A id \in TaskIDs : id > minted => tasks[id] = NoTask

RoutingInv == TypeInv /\ RoutingExact /\ FreshIDs

LEMMA EvictionsLive == \A ids \in Evictions : ids \subseteq Live
  BY DEF Evictions, Terminals, Aged

LEMMA StepKinds ==
  ASSUME RoutingInv, [Next]_vars
  PROVE  \/ Quiet \/ Ends \/ Forgets
         \/ \E id \in Live, t \in Task : Rewrites(id, t)
         \/ \E k \in Keys, t \in Task : Adds(k, t)
<1> DEFINE Kinds == \/ Quiet \/ Ends \/ Forgets
                    \/ \E id \in Live, t \in Task : Rewrites(id, t)
                    \/ \E k \in Keys, t \in Task : Adds(k, t)
<1> SUFFICES Kinds
  OBVIOUS
<1> USE CoreAssumption, AbsentAssumption DEF RoutingInv, TypeInv
<1>1. CASE \/ \E a \in Adapters : Attach(a)
           \/ \E l \in LeaseIDs : Renew(l)
           \/ \E l \in LeaseIDs, seq \in 0..MaxSeq, b \in Batches : BeginApply(l, seq, b)
           \/ SkipReport \/ IdentityFails \/ FinishApply \/ StartFails \/ Start \/ Tick \/ StepClock
           \/ UNCHANGED vars
  <2>1. Quiet
    BY <1>1 DEF Quiet, Attach, Renew, BeginApply, SkipReport, IdentityFails,
                FinishApply, StartFails, Start, Tick, StepClock, outside, memory, vars
  <2>. QED
    BY <2>1
<1>2. CASE \E l \in LeaseIDs : Detach(l)
  <2>1. Ends
    BY <1>2 DEF Ends, Detach, EndAndBump, OwnedBy, outside
  <2>. QED
    BY <2>1
<1>3. CASE ExpireLeases
  <2>1. Ends
    BY <1>3 DEF Ends, ExpireLeases, EndAndBump, OwnedBy, outside
  <2>. QED
    BY <2>1
<1>4. CASE EndSession
  <2> DEFINE k == CallKey(Head(call.ends))
  <2>1. k \in Keys
    <3>1. call # NoCall /\ call \in Call /\ call.ends # <<>>
      BY <1>4 DEF EndSession, TypeOK
    <3>2. Head(call.ends) \in Sessions /\ call.lease \in LeaseIDs
      BY <3>1 DEF Call
    <3>3. leases[call.lease] \in Lease
      BY <3>1, <3>2 DEF Holder, TypeOK
    <3>. QED
      BY <3>2, <3>3 DEF CallKey, Keys, Lease
  <2>2. CASE byNative[k] # NoID
    BY <1>4, <2>1, <2>2 DEF EndSession, Ends, RoutingExact, outside
  <2>3. CASE byNative[k] = NoID
    BY <1>4, <2>3 DEF EndSession, Quiet, outside
  <2>. QED
    BY <2>2, <2>3
<1>5. CASE \E id \in TaskIDs : Acknowledge(id)
  <2>1. Ends
    BY <1>5 DEF Ends, Acknowledge, EndAndBump, outside
  <2>. QED
    BY <2>1
<1>6. CASE EnforceRetention
  <2>1. Ends
    BY <1>6, EvictionsLive DEF Ends, EnforceRetention, EndAndBump, outside
  <2>. QED
    BY <2>1
<1>7. CASE Crash \/ Shutdown
  <2>1. Forgets
    BY <1>7 DEF Forgets, Crash, Shutdown, Stop
  <2>. QED
    BY <2>1
<1>8. CASE UpsertKnown
  <2> DEFINE r  == Head(call.reports)
             id == byNative[CallKey(r.session)]
             t  == Applied(tasks[id], r, alias[id], call.at)
  <2>1. call \in Call /\ r \in Report /\ WellFormed(r)
    BY <1>8 DEF UpsertKnown, Reporting, TypeOK, Call
  <2>2. CallKey(r.session) \in Keys
    BY <1>8, <2>1 DEF UpsertKnown, Reporting, CallKey, Keys, Holder, TypeOK, Call,
                      Lease, WellFormed, Report
  <2>3. id \in Live /\ tasks[id] \in Task
    BY <1>8, <2>2 DEF UpsertKnown, TaskAt, TypeOK, Live
  <2>4. t \in Task /\ t.key = tasks[id].key /\ t.lease = tasks[id].lease
    <3>1. alias[id] \in Titles \cup {NoTitle} /\ call.at \in 0..MaxNow
      BY <2>1, <2>3 DEF Live, TypeOK, Call
    <3> DEFINE task == tasks[id]
               a    == alias[id]
               at   == call.at
    <3>2. task \in Task /\ r \in Report /\ WellFormed(r) /\ a \in Titles \cup {NoTitle} /\ at \in 0..MaxNow
      BY <2>1, <2>3, <3>1
    <3>. HIDE DEF r, task, a, at
    <3>3. LET u == Applied(task, r, a, at) IN u \in Task /\ u.key = task.key /\ u.lease = task.lease
      BY <3>2, AppliedFacts
    <3>. QED
      BY <3>3 DEF task, a, at
  <2>5. tasks' = [tasks EXCEPT ![id] = t] /\ UNCHANGED <<byNative, leases>>
    BY <1>8 DEF UpsertKnown
  <2>6. UNCHANGED minted
    BY <1>8 DEF UpsertKnown, outside
  <2>7. Rewrites(id, t)
    <3>. HIDE DEF id, t
    <3>. QED
      BY <2>4, <2>5, <2>6 DEF Rewrites
  <2>. QED
    BY <2>3, <2>4, <2>7
<1>9. CASE UpsertNew
  <2> DEFINE r  == Head(call.reports)
             k  == CallKey(r.session)
             id == minted + 1
             t  == FreshTask(k, r, alias[id])
  <2>1. call \in Call /\ r \in Report /\ WellFormed(r) /\ Len(call.reports) > 0
        /\ Len(call.reports) \in Nat
    BY <1>9 DEF UpsertNew, Reporting, TypeOK, Call
  <2>2. k \in Keys /\ k[1] = leases[call.lease].adapter
    BY <1>9, <2>1 DEF UpsertNew, Reporting, CallKey, Keys, Holder, TypeOK, Call,
                      Lease, WellFormed, Report
  <2>3. id \in TaskIDs
    BY <1>9, <2>1 DEF UpsertNew, Holder, Reporting, TypeOK, TaskIDs
  <2>4. t \in Task
    BY <2>1, <2>2, <2>3
       DEF FreshTask, Task, Report, WellFormed, Call, TypeOK, Capabilities
  <2>5. t.key = k /\ t.lease = call.lease
    BY DEF FreshTask
  <2>6. Adds(k, t)
    BY <1>9, <2>2, <2>3, <2>5 DEF UpsertNew, Adds, Reporting
  <2>. QED
    BY <2>2, <2>4, <2>6
<1>10. CASE \E id \in TaskIDs : Snooze(id)
  <2>1. PICK id \in TaskIDs : Snooze(id)
    BY <1>10
  <2>2. id \in Live /\ tasks[id] \in Task
    BY <2>1 DEF Snooze, TypeOK, Live
  <2>3. Snoozed(tasks[id]) \in Task /\ Snoozed(tasks[id]).key = tasks[id].key
        /\ Snoozed(tasks[id]).lease = tasks[id].lease
    BY <2>2 DEF Snoozed, Task, TypeOK
  <2>4. Rewrites(id, Snoozed(tasks[id]))
    BY <2>1, <2>3 DEF Snooze, Rewrites, outside
  <2>. QED
    BY <2>2, <2>3, <2>4
<1>11. CASE \E id \in TaskIDs, clean \in AliasTitles \cup {NoTitle} : SetAlias(id, clean)
  <2>1. PICK id \in TaskIDs, clean \in AliasTitles \cup {NoTitle} : SetAlias(id, clean)
    BY <1>11
  <2>2. id \in Live /\ tasks[id] \in Task /\ clean \in Titles \cup {NoTitle}
    BY <2>1 DEF SetAlias, TypeOK, Live, CoreAssumption
  <2> DEFINE t == [tasks[id] EXCEPT !.title = clean]
  <2>3. t \in Task /\ t.key = tasks[id].key /\ t.lease = tasks[id].lease
    BY <2>2 DEF Task
  <2>4. CASE clean = NoTitle
    BY <2>1, <2>4 DEF SetAlias, Quiet, outside
  <2>5. CASE clean # NoTitle
    <3>1. Rewrites(id, t)
      BY <2>1, <2>3, <2>5 DEF SetAlias, Rewrites, outside
    <3>. QED
      BY <2>2, <2>3, <3>1
  <2>. QED
    BY <2>4, <2>5
<1>12. CASE \E id \in TaskIDs, caps \in Capabilities : SetCapabilities(id, caps)
  <2>1. PICK id \in TaskIDs, caps \in Capabilities : SetCapabilities(id, caps)
    BY <1>12
  <2>2. id \in Live /\ tasks[id] \in Task
    BY <2>1 DEF SetCapabilities, TypeOK, Live
  <2> DEFINE t == [tasks[id] EXCEPT !.caps = caps]
  <2>3. t \in Task /\ t.key = tasks[id].key /\ t.lease = tasks[id].lease
    BY <2>2 DEF Task
  <2>4. Rewrites(id, t)
    BY <2>1, <2>3 DEF SetCapabilities, Rewrites, outside
  <2>. QED
    BY <2>2, <2>3, <2>4
<1>. QED
  BY <1>1, <1>2, <1>3, <1>4, <1>5, <1>6, <1>7, <1>8, <1>9, <1>10, <1>11, <1>12
     DEF Next, Dismissals, Others

-----------------------------------------------------------------------------
(* The private routing map. *)

LEMMA RoutingStep == RoutingInv /\ [Next]_vars => RoutingExact' /\ FreshIDs'
<1> SUFFICES ASSUME RoutingInv, [Next]_vars PROVE RoutingExact' /\ FreshIDs'
  OBVIOUS
<1> USE AbsentAssumption DEF RoutingInv, TypeInv, NoID, AbsentAssumption
<1>1. CASE Quiet
  BY <1>1 DEF Quiet, RoutingExact, FreshIDs, Live
<1>2. CASE Ends
  <2>1. PICK ids \in SUBSET Live : End(ids) /\ minted' = minted
    BY <1>2 DEF Ends
  <2>2. \A id \in TaskIDs : tasks'[id] = IF id \in ids THEN NoTask ELSE tasks[id]
    BY <2>1 DEF End
  <2>3. \A k \in Keys : byNative'[k] =
          IF \E id \in ids : tasks[id].key = k THEN NoID ELSE byNative[k]
    BY <2>1 DEF End
  <2>4. ASSUME NEW k \in Keys, byNative'[k] # NoID
        PROVE  byNative'[k] \in Live' /\ tasks'[byNative'[k]].key = k
    BY <2>2, <2>3, <2>4 DEF RoutingExact, Live
  <2>5. ASSUME NEW id \in Live' PROVE byNative'[tasks'[id].key] = id
    <3>1. id \in Live /\ id \notin ids /\ tasks'[id] = tasks[id] /\ tasks[id] \in Task
      BY <2>2 DEF Live, TypeOK
    <3>2. tasks[id].key \in Keys /\ byNative[tasks[id].key] = id
      BY <3>1 DEF RoutingExact, Task
    <3>3. ~\E other \in ids : tasks[other].key = tasks[id].key
      BY <3>1, <3>2 DEF RoutingExact
    <3>. QED
      BY <2>3, <3>1, <3>2, <3>3
  <2>. QED
    BY <2>1, <2>2, <2>4, <2>5 DEF RoutingExact, FreshIDs
<1>3. CASE Forgets
  BY <1>3 DEF Forgets, Forget, RoutingExact, FreshIDs, Live
<1>4. ASSUME NEW id \in Live, NEW t \in Task, Rewrites(id, t)
      PROVE  RoutingExact' /\ FreshIDs'
  <2>1. /\ tasks \in [TaskIDs -> Task \cup {NoTask}] /\ id \in TaskIDs
        /\ tasks' = [tasks EXCEPT ![id] = t] /\ t # NoTask
        /\ t.key = tasks[id].key /\ byNative' = byNative /\ minted' = minted
    BY <1>4 DEF Rewrites, TypeOK, Live
  <2>2. Live' = Live
    BY <2>1 DEF Live
  <2>. QED
    BY <2>1, <2>2 DEF RoutingExact, FreshIDs, Live
<1>5. ASSUME NEW k \in Keys, NEW t \in Task, Adds(k, t)
      PROVE  RoutingExact' /\ FreshIDs'
  <2> DEFINE id == minted + 1
  <2>1. /\ tasks \in [TaskIDs -> Task \cup {NoTask}] /\ id \in TaskIDs /\ minted \in Nat
        /\ byNative \in [Keys -> TaskIDs \cup {NoID}]
        /\ tasks' = [tasks EXCEPT ![id] = t] /\ t # NoTask
        /\ byNative' = [byNative EXCEPT ![k] = id] /\ minted' = id /\ t.key = k
    BY <1>5 DEF Adds, TypeOK
  <2>2. tasks[id] = NoTask
    BY <2>1 DEF FreshIDs
  <2>3. byNative[k] = NoID
    BY <1>5 DEF Adds, TaskAt, RoutingExact, Live
  <2>4. Live' = Live \cup {id}
    BY <2>1 DEF Live
  <2>5. \A i \in Live : tasks'[i] = tasks[i] /\ tasks[i].key # k /\ tasks[i].key \in Keys
    <3>1. TAKE i \in Live
    <3>2. i \in TaskIDs /\ tasks[i] \in Task /\ i # id
      BY <2>1, <2>2 DEF Live
    <3>3. tasks[i].key \in Keys /\ byNative[tasks[i].key] = i
      BY <3>2 DEF RoutingExact, Task
    <3>. QED
      BY <2>1, <2>3, <3>2, <3>3 DEF TaskIDs
  <2>6. FreshIDs'
    BY <2>1 DEF FreshIDs, TaskIDs
  <2>7. ASSUME NEW n \in Keys, byNative'[n] # NoID
        PROVE  byNative'[n] \in Live' /\ tasks'[byNative'[n]].key = n
    BY <2>1, <2>4, <2>5, <2>7 DEF RoutingExact, TaskIDs
  <2>8. ASSUME NEW i \in Live' PROVE byNative'[tasks'[i].key] = i
    BY <2>1, <2>4, <2>5 DEF RoutingExact
  <2>. QED
    BY <2>6, <2>7, <2>8 DEF RoutingExact
<1>. QED
  BY <1>1, <1>2, <1>3, <1>4, <1>5, StepKinds

LEMMA RoutingInvariant == Spec => []RoutingInv
<1>1. Init => RoutingInv
  BY TypeInit DEF Init, RoutingInv, RoutingExact, FreshIDs, Live
<1>2. RoutingInv /\ [Next]_vars => RoutingInv'
  BY TypeStep, RoutingStep DEF RoutingInv
<1>. QED
  BY <1>1, <1>2, PTL DEF Spec

\* The private routing map and the presences are each other's inverse, over
\* any sequence of reports, ends, dismissals, evictions and restarts.
THEOREM RoutingCorrect == Spec => []RoutingExact
<1>1. RoutingInv => RoutingExact
  BY DEF RoutingInv
<1>. QED
  BY <1>1, RoutingInvariant, PTL

-----------------------------------------------------------------------------
(* Owners. *)

\* Lease IDs not handed out yet are no lease: Attach never overwrites one.
FreshLeases == \A l \in LeaseIDs : l > attached => leases[l] = NoLease

\* A process that does not run holds no presence.
Down == ~up => tasks = [id \in TaskIDs |-> NoTask]

OwnersInv == RoutingInv /\ OwnersLive /\ FreshLeases /\ Down

\* A lease goes only with every presence it owns; one that stays keeps its
\* harness.
LEMMA LeasesKept ==
  ASSUME OwnersInv, [Next]_vars, ~Forgets, NEW id \in Live, id \in Live'
  PROVE  /\ leases'[tasks[id].lease] # NoLease
         /\ leases'[tasks[id].lease].adapter = leases[tasks[id].lease].adapter
<1> DEFINE l == tasks[id].lease
           Kept == leases'[l] # NoLease /\ leases'[l].adapter = leases[l].adapter
<1> SUFFICES Kept
  OBVIOUS
<1> USE AbsentAssumption DEF OwnersInv, RoutingInv, TypeInv, AbsentAssumption
<1>1. /\ id \in TaskIDs /\ l \in LeaseIDs /\ leases[l] # NoLease
      /\ leases[l] \in Lease /\ leases \in [LeaseIDs -> Lease \cup {NoLease}]
      /\ attached \in Nat /\ up
  <2>1. id \in TaskIDs /\ tasks[id] # NoTask /\ tasks[id] \in Task
    BY DEF TypeOK, Live
  <2>2. l \in LeaseIDs /\ leases[l] # NoLease
    BY <2>1 DEF OwnersLive, Task, Live
  <2>3. up
    BY <2>1 DEF Down, TypeOK
  <2>. QED
    BY <2>1, <2>2, <2>3 DEF TypeOK
<1>2. CASE UNCHANGED leases
  BY <1>1, <1>2
<1>3. ASSUME NEW a \in Adapters, Attach(a) PROVE Kept
  <2>1. l # attached + 1
    BY <1>1 DEF FreshLeases, LeaseIDs
  <2>. QED
    BY <1>1, <1>3, <2>1 DEF Attach
<1>4. ASSUME NEW m \in LeaseIDs, Renew(m) PROVE Kept
  <2>1. \/ leases' = leases
        \/ leases' = [leases EXCEPT ![m] = [leases[m] EXCEPT !.expiresAt = now + LeaseDuration]]
    BY <1>4 DEF Renew
  <2>2. leases'[l] = leases[l] \/ leases'[l] = [leases[l] EXCEPT !.expiresAt = now + LeaseDuration]
    BY <1>1, <2>1
  <2>3. leases'[l] \in [adapter : {leases[l].adapter}, expiresAt : {leases'[l].expiresAt},
                        persistent : BOOLEAN, lastSeq : 0..MaxSeq]
    BY <1>1, <2>2 DEF Lease
  <2>4. leases'[l] # NoLease
    <3>1. \A x \in Nat : now + LeaseDuration = x => [leases[l] EXCEPT !.expiresAt = x] \in Lease
      BY <1>1 DEF Lease
    <3>2. now + LeaseDuration \in Nat
      BY CoreAssumption DEF CoreAssumption, TypeOK
    <3>. QED
      BY <1>1, <2>2, <3>1, <3>2
  <2>. QED
    BY <2>3, <2>4
<1>5. ASSUME NEW m \in LeaseIDs, NEW seq \in 0..MaxSeq, NEW b \in Batches,
             BeginApply(m, seq, b)
      PROVE  Kept
  <2>1. leases'[l] = leases[l] \/ leases'[l] = [leases[l] EXCEPT !.lastSeq = seq]
    BY <1>1, <1>5 DEF BeginApply
  <2>2. [leases[l] EXCEPT !.lastSeq = seq] \in Lease
        /\ [leases[l] EXCEPT !.lastSeq = seq].adapter = leases[l].adapter
    BY <1>1 DEF Lease
  <2>. QED
    BY <1>1, <2>1, <2>2
<1>6. ASSUME NEW m \in LeaseIDs, Detach(m) PROVE Kept
  <2>1. id \notin OwnedBy({m})
    BY <1>1, <1>6 DEF Detach, EndAndBump, End, Live
  <2>. QED
    BY <1>1, <1>6, <2>1 DEF Detach, OwnedBy
<1>7. CASE ExpireLeases
  <2>1. id \notin OwnedBy(Expired)
    BY <1>1, <1>7 DEF ExpireLeases, EndAndBump, End, Live
  <2>2. l \notin Expired
    BY <2>1 DEF OwnedBy
  <2>. QED
    BY <1>1, <1>7, <2>2 DEF ExpireLeases
<1>8. CASE Start
  BY <1>1, <1>8 DEF Start
<1>9. CASE Crash \/ Shutdown
  BY <1>9 DEF Crash, Shutdown, Stop, Forgets
<1>10. CASE \/ SkipReport \/ UpsertKnown \/ UpsertNew \/ IdentityFails \/ EndSession
            \/ FinishApply \/ EnforceRetention \/ StartFails \/ Tick \/ StepClock \/ UNCHANGED vars
            \/ \E i \in TaskIDs : Acknowledge(i)
            \/ \E i \in TaskIDs : Snooze(i)
            \/ \E i \in TaskIDs, clean \in AliasTitles \cup {NoTitle} : SetAlias(i, clean)
            \/ \E i \in TaskIDs, caps \in Capabilities : SetCapabilities(i, caps)
  <2>1. UNCHANGED leases
    BY <1>10 DEF SkipReport, UpsertKnown, UpsertNew, IdentityFails, EndSession,
         FinishApply, EnforceRetention, StartFails, Tick, StepClock, Acknowledge, Snooze,
         SetAlias, SetCapabilities, memory, vars
  <2>. QED
    BY <1>2, <2>1
<1>. QED
  BY <1>3, <1>4, <1>5, <1>6, <1>7, <1>8, <1>9, <1>10 DEF Next, Dismissals, Others

LEMMA FreshLeasesStep == OwnersInv /\ [Next]_vars => FreshLeases'
<1> SUFFICES ASSUME OwnersInv, [Next]_vars, NEW n \in LeaseIDs, n > attached'
             PROVE  leases'[n] = NoLease
  BY DEF FreshLeases
<1> USE DEF OwnersInv, RoutingInv, TypeInv
<1>1. leases \in [LeaseIDs -> Lease \cup {NoLease}] /\ attached \in Nat
      /\ (n > attached => leases[n] = NoLease)
  BY DEF TypeOK, FreshLeases
<1>2. CASE leases' = leases /\ attached' = attached
  BY <1>1, <1>2
<1>3. CASE \E a \in Adapters : Attach(a)
  <2>1. attached' = attached + 1 /\ \E x : leases' = [leases EXCEPT ![attached + 1] = x]
    BY <1>3 DEF Attach
  <2>2. n \in Nat /\ n # attached + 1 /\ n > attached
    BY <1>1, <2>1 DEF LeaseIDs
  <2>. QED
    BY <1>1, <2>1, <2>2
<1>4. CASE \E l \in LeaseIDs : Renew(l)
  BY <1>1, <1>4 DEF Renew, outside
<1>5. CASE \E l \in LeaseIDs : Detach(l)
  BY <1>1, <1>5 DEF Detach, outside
<1>6. CASE ExpireLeases
  BY <1>1, <1>6 DEF ExpireLeases, outside
<1>7. CASE \E l \in LeaseIDs, seq \in 0..MaxSeq, b \in Batches : BeginApply(l, seq, b)
  BY <1>1, <1>7 DEF BeginApply, outside
<1>8. CASE Crash \/ Shutdown
  BY <1>1, <1>8 DEF Crash, Shutdown, Stop, Forget, NoLeases
<1>9. CASE Start
  <2>1. n # LocalLease
    BY <1>1, <1>9 DEF Start, LocalLease, LeaseIDs
  <2>. QED
    BY <1>9, <2>1 DEF Start, NoLeases
<1>10. CASE \/ SkipReport \/ UpsertKnown \/ UpsertNew \/ IdentityFails \/ EndSession
            \/ FinishApply \/ EnforceRetention \/ StartFails \/ Tick \/ StepClock \/ UNCHANGED vars
            \/ \E i \in TaskIDs : Acknowledge(i)
            \/ \E i \in TaskIDs : Snooze(i)
            \/ \E i \in TaskIDs, clean \in AliasTitles \cup {NoTitle} : SetAlias(i, clean)
            \/ \E i \in TaskIDs, caps \in Capabilities : SetCapabilities(i, caps)
  <2>1. leases' = leases /\ attached' = attached
    BY <1>10 DEF SkipReport, UpsertKnown, UpsertNew, IdentityFails, EndSession,
         FinishApply, EnforceRetention, StartFails, Tick, StepClock, Acknowledge, Snooze,
         SetAlias, SetCapabilities, outside, memory, vars
  <2>. QED
    BY <1>2, <2>1
<1>. QED
  BY <1>3, <1>4, <1>5, <1>6, <1>7, <1>8, <1>9, <1>10 DEF Next, Dismissals, Others

\* Only a start makes a stopped process run, and only a stop forgets.
LEMMA DownStep == TypeInv /\ Down /\ [Next]_vars => Down'
<1> SUFFICES ASSUME TypeInv, Down, [Next]_vars, ~up'
             PROVE  tasks' = [id \in TaskIDs |-> NoTask]
  BY DEF Down
<1>1. CASE Crash \/ Shutdown
  BY <1>1 DEF Crash, Shutdown, Stop, Forget
<1>2. CASE StartFails \/ Tick \/ StepClock \/ UNCHANGED vars
  BY <1>2 DEF StartFails, Tick, StepClock, memory, vars, Down
<1>3. CASE Start
  BY <1>3 DEF Start
<1>4. CASE \/ \E a \in Adapters : Attach(a)
           \/ \E l \in LeaseIDs : Renew(l) \/ Detach(l)
           \/ ExpireLeases
           \/ \E l \in LeaseIDs, seq \in 0..MaxSeq, b \in Batches : BeginApply(l, seq, b)
           \/ SkipReport \/ UpsertKnown \/ UpsertNew \/ IdentityFails \/ EndSession
           \/ FinishApply \/ EnforceRetention
           \/ \E i \in TaskIDs : Acknowledge(i) \/ Snooze(i)
           \/ \E i \in TaskIDs, clean \in AliasTitles \cup {NoTitle} : SetAlias(i, clean)
           \/ \E i \in TaskIDs, caps \in Capabilities : SetCapabilities(i, caps)
  <2>1. up /\ up' = up
    BY <1>4 DEF Attach, Renew, Detach, ExpireLeases, BeginApply, SkipReport,
         UpsertKnown, UpsertNew, IdentityFails, EndSession, FinishApply,
         EnforceRetention, Acknowledge, Snooze, SetAlias, SetCapabilities,
         Free, Reporting, outside
  <2>. QED
    BY <2>1
<1>. QED
  BY <1>1, <1>2, <1>3, <1>4 DEF Next, Dismissals, Others

LEMMA OwnersStep == OwnersInv /\ [Next]_vars => OwnersLive'
<1> SUFFICES ASSUME OwnersInv, [Next]_vars, NEW id \in Live'
             PROVE  /\ leases'[tasks'[id].lease] # NoLease
                    /\ leases'[tasks'[id].lease].adapter = tasks'[id].key[1]
  BY DEF OwnersLive
<1> USE AbsentAssumption DEF AbsentAssumption
<1>1. /\ RoutingInv /\ TypeInv /\ tasks \in [TaskIDs -> Task \cup {NoTask}]
      /\ id \in TaskIDs /\ tasks'[id] # NoTask
  BY DEF OwnersInv, RoutingInv, TypeInv, TypeOK, Live
<1>2. ~Forgets
  BY <1>1 DEF Forgets, Forget
<1>3. CASE id \in Live /\ tasks'[id].lease = tasks[id].lease
                      /\ tasks'[id].key = tasks[id].key
  BY <1>2, <1>3, LeasesKept DEF OwnersInv, OwnersLive
<1>4. CASE Quiet
  BY <1>1, <1>3, <1>4 DEF Quiet, Live
<1>5. CASE Ends
  BY <1>1, <1>3, <1>5 DEF Ends, End, Live
<1>6. ASSUME NEW i \in Live, NEW t \in Task, Rewrites(i, t)
      PROVE  id \in Live /\ tasks'[id].lease = tasks[id].lease
                         /\ tasks'[id].key = tasks[id].key
  BY <1>1, <1>6 DEF Rewrites, Live
<1>7. ASSUME NEW k \in Keys, NEW t \in Task, Adds(k, t)
      PROVE  /\ leases'[tasks'[id].lease] # NoLease
             /\ leases'[tasks'[id].lease].adapter = tasks'[id].key[1]
  <2>1. CASE id = minted + 1
    BY <1>1, <1>7, <2>1 DEF Adds, TypeInv, Holder
  <2>2. CASE id # minted + 1
    BY <1>1, <1>3, <1>7, <2>2 DEF Adds, Live
  <2>. QED
    BY <2>1, <2>2
<1>. QED
  BY <1>1, <1>2, <1>3, <1>4, <1>5, <1>6, <1>7, StepKinds

LEMMA OwnersInvariant == Spec => []OwnersInv
<1>1. Init => OwnersLive /\ FreshLeases /\ Down
  <2>1. Init => OwnersLive /\ Down
    BY DEF Init, OwnersLive, Down, Live
  <2>2. ASSUME Init, NEW l \in LeaseIDs, l > attached PROVE leases[l] = NoLease
    <3>1. l # LocalLease
      BY <2>2 DEF Init, LocalLease, LeaseIDs
    <3>. QED
      BY <2>2, <3>1 DEF Init, NoLeases
  <2>. QED
    BY <2>1, <2>2 DEF FreshLeases
<1>2. Init => OwnersInv
  BY <1>1, TypeInit
     DEF OwnersInv, Init, RoutingInv, RoutingExact, FreshIDs, Live
<1>3. OwnersInv /\ [Next]_vars => OwnersInv'
  BY TypeStep, RoutingStep, OwnersStep, FreshLeasesStep, DownStep
     DEF OwnersInv, RoutingInv
<1>. QED
  BY <1>2, <1>3, PTL DEF Spec

\* Every presence is owned by a lease that still exists and speaks for its
\* harness, in every behaviour of the core.
THEOREM OwnersCorrect == Spec => []OwnersLive
<1>1. OwnersInv => OwnersLive
  BY DEF OwnersInv
<1>. QED
  BY <1>1, OwnersInvariant, PTL

-----------------------------------------------------------------------------
(* Refinement: what readers are shown is a versioned source. *)

\* Readers see the tasks as they are, unless the call that holds the mutex has
\* changed them already.
ShownFollows ==
  up /\ (call = NoCall \/ ~call.changed) => shown = Projection(tasks)

\* The generation in use has been persisted.
DiskAhead == disk.generation >= generation

RefinementInv == TypeInv /\ Down /\ ShownFollows /\ DiskAhead

LEMMA DiskAheadStep == RefinementInv /\ [Next]_vars => DiskAhead'
<1> SUFFICES ASSUME RefinementInv, [Next]_vars PROVE DiskAhead'
  OBVIOUS
<1> USE DEF RefinementInv, TypeInv
<1>1. /\ disk \in [generation : Nat, alias : [TaskIDs -> Titles \cup {NoTitle}]]
      /\ generation \in Nat /\ disk.generation \in Nat /\ disk.generation >= generation
  BY DEF TypeOK, DiskAhead
<1>2. CASE UNCHANGED <<disk, generation>>
  BY <1>1, <1>2 DEF DiskAhead
<1>3. CASE Crash \/ Shutdown
  <2>1. generation' = generation /\ (disk' = disk \/ disk'.generation = generation)
    BY <1>3 DEF Crash, Shutdown, Stop
  <2>. QED
    BY <1>1, <2>1 DEF DiskAhead
<1>4. CASE StartFails
  <2>1. disk' = [disk EXCEPT !.generation = disk.generation + 1] /\ generation' = generation
    BY <1>4 DEF StartFails, memory
  <2>. QED
    BY <1>1, <2>1 DEF DiskAhead
<1>5. CASE Start
  <2>1. disk' = [disk EXCEPT !.generation = disk.generation + 1]
        /\ generation' = disk.generation + 1
    BY <1>5 DEF Start
  <2>. QED
    BY <1>1, <2>1 DEF DiskAhead
<1>6. CASE \/ \E a \in Adapters : Attach(a)
           \/ \E l \in LeaseIDs : Renew(l) \/ Detach(l)
           \/ ExpireLeases
           \/ \E l \in LeaseIDs, seq \in 0..MaxSeq, b \in Batches : BeginApply(l, seq, b)
           \/ SkipReport \/ UpsertKnown \/ UpsertNew \/ IdentityFails \/ EndSession
           \/ FinishApply \/ EnforceRetention \/ Tick \/ StepClock \/ UNCHANGED vars
           \/ \E i \in TaskIDs : Acknowledge(i) \/ Snooze(i)
           \/ \E i \in TaskIDs, clean \in AliasTitles \cup {NoTitle} : SetAlias(i, clean)
           \/ \E i \in TaskIDs, caps \in Capabilities : SetCapabilities(i, caps)
  <2>1. UNCHANGED <<disk, generation>>
    BY <1>6 DEF Attach, Renew, Detach, ExpireLeases, BeginApply, SkipReport,
         UpsertKnown, UpsertNew, IdentityFails, EndSession, FinishApply,
         EnforceRetention, Acknowledge, Snooze, SetAlias, SetCapabilities, Tick, StepClock,
         outside, memory, vars
  <2>. QED
    BY <1>2, <2>1
<1>. QED
  BY <1>3, <1>4, <1>5, <1>6 DEF Next, Dismissals, Others

\* The projection of a call's tasks changes only when the call notes a change.
LEMMA UpsertKnownShown ==
  ASSUME TypeInv, ShownFollows, UpsertKnown PROVE ShownFollows'
<1> DEFINE r  == Head(call.reports)
           id == byNative[CallKey(r.session)]
           d  == Differs(tasks[id], r, alias[id])
           t  == Applied(tasks[id], r, alias[id], call.at)
<1> USE AbsentAssumption DEF TypeInv, AbsentAssumption
<1>1. /\ AfterReport(d) /\ Reporting /\ WellFormed(r)
      /\ TaskAt(CallKey(r.session)) # NoTask
      /\ tasks' = [tasks EXCEPT ![id] = t]
      /\ shown' = shown /\ up' = up
  BY DEF UpsertKnown, outside
<1>2. /\ call' \in Call /\ call'.changed = (call.changed \/ d)
      /\ r \in Report /\ call \in Call
  <2>1. d \in BOOLEAN
    BY DEF Differs
  <2>. QED
    BY <1>1, <2>1, AfterReportType
<1>3. CallKey(r.session) \in Keys
  BY <1>1, <1>2 DEF CallKey, Keys, Holder, Reporting, TypeOK, Call, Lease,
                    WellFormed, Report
<1>4. /\ id \in TaskIDs /\ tasks[id] \in Task
      /\ alias[id] \in Titles \cup {NoTitle} /\ call.at \in 0..MaxNow
  BY <1>1, <1>2, <1>3 DEF TaskAt, TypeOK, Call
<1>5. ASSUME ~call'.changed PROVE shown' = Projection(tasks')
  <2>1. ~d /\ ~call.changed
    BY <1>2, <1>5
  <2>2. FeedTaskOf(t) = FeedTaskOf(tasks[id]) /\ t \in Task
    BY <1>1, <1>2, <1>4, <2>1, UnchangedProjection, AppliedFacts
  <2>3. shown = Projection(tasks)
    BY <1>1, <2>1 DEF ShownFollows, Holder, Reporting
  <2>4. \A i \in TaskIDs : (tasks'[i] = NoTask <=> tasks[i] = NoTask)
                           /\ (tasks[i] # NoTask =>
                                 FeedTaskOf(tasks'[i]) = FeedTaskOf(tasks[i]))
    <3>. HIDE DEF t, id
    <3>1. tasks \in [TaskIDs -> Task \cup {NoTask}]
      BY DEF TypeOK
    <3>. QED
      BY <1>1, <1>4, <2>2, <3>1
  <2>. QED
    BY <1>1, <2>3, <2>4 DEF Projection
<1>6. call' # NoCall
  BY <1>2
<1>. QED
  BY <1>5, <1>6 DEF ShownFollows

LEMMA ShownFollowsStep ==
  RefinementInv /\ [Next]_vars => ShownFollows'
<1> SUFFICES ASSUME RefinementInv, [Next]_vars PROVE ShownFollows'
  OBVIOUS
<1> USE AbsentAssumption DEF RefinementInv, TypeInv, AbsentAssumption
<1>1. CASE \/ \E l \in LeaseIDs : Detach(l)
           \/ ExpireLeases \/ FinishApply \/ IdentityFails \/ EnforceRetention \/ Start
           \/ \E i \in TaskIDs : Acknowledge(i) \/ Snooze(i)
           \/ \E i \in TaskIDs, clean \in AliasTitles \cup {NoTitle} : SetAlias(i, clean)
           \/ \E i \in TaskIDs, caps \in Capabilities : SetCapabilities(i, caps)
  <2>1. shown' = Projection(tasks')
    BY <1>1 DEF Detach, ExpireLeases, FinishApply, IdentityFails, EnforceRetention, Start,
         Acknowledge, Snooze, SetAlias, SetCapabilities, EndAndBump, Release
  <2>. QED
    BY <2>1 DEF ShownFollows
<1>2. CASE \/ \E a \in Adapters : Attach(a)
           \/ \E l \in LeaseIDs : Renew(l)
           \/ StartFails \/ Tick \/ StepClock \/ UNCHANGED vars
  <2>1. UNCHANGED <<tasks, shown, up, call>>
    BY <1>2 DEF Attach, Renew, StartFails, Tick, StepClock, outside, memory, vars
  <2>. QED
    BY <2>1 DEF ShownFollows, Projection
<1>3. CASE \E l \in LeaseIDs, seq \in 0..MaxSeq, b \in Batches : BeginApply(l, seq, b)
  <2>1. UNCHANGED <<tasks, shown, up>> /\ up /\ call = NoCall
    BY <1>3 DEF BeginApply, Free, outside
  <2>. QED
    BY <2>1 DEF ShownFollows, Projection
<1>4. CASE SkipReport
  <2>1. UNCHANGED <<tasks, shown, up>> /\ AfterReport(FALSE) /\ Reporting
    BY <1>4 DEF SkipReport, outside
  <2>2. call'.changed = call.changed
    BY <2>1, AfterReportType DEF TypeOK, Call
  <2>. QED
    BY <2>1, <2>2, AfterReportType DEF ShownFollows, Projection, Reporting
<1>5. CASE UpsertKnown
  BY <1>5, UpsertKnownShown
<1>6. CASE UpsertNew
  <2>1. AfterReport(TRUE) /\ Reporting
    BY <1>6 DEF UpsertNew
  <2>. QED
    BY <2>1, AfterReportType DEF ShownFollows
<1>7. CASE EndSession
  <2>1. call \in Call /\ call # NoCall /\ up
    BY <1>7 DEF EndSession, TypeOK
  <2>2. CASE byNative[CallKey(Head(call.ends))] # NoID
    <3>1. call' = [call EXCEPT !.ends = Tail(call.ends), !.changed = TRUE]
      BY <1>7, <2>2 DEF EndSession
    <3>2. call'.changed /\ Tail(call.ends) \in Seq(Sessions)
      BY <1>7, <2>1, <3>1 DEF Call, EndSession
    <3>3. call' \in Call
      BY <2>1, <3>1, <3>2 DEF Call
    <3>. QED
      BY <3>2, <3>3 DEF ShownFollows
  <2>3. CASE byNative[CallKey(Head(call.ends))] = NoID
    <3>1. call' = [call EXCEPT !.ends = Tail(call.ends)] /\ UNCHANGED <<tasks, shown, up>>
      BY <1>7, <2>3 DEF EndSession, outside
    <3>2. Tail(call.ends) \in Seq(Sessions)
      BY <1>7, <2>1 DEF Call, EndSession
    <3>3. call'.changed = call.changed /\ call' \in Call
      BY <2>1, <3>1, <3>2 DEF Call
    <3>. QED
      BY <2>1, <3>1, <3>3 DEF ShownFollows, Projection
  <2>. QED
    BY <2>2, <2>3
<1>8. CASE Crash \/ Shutdown
  BY <1>8 DEF Crash, Shutdown, Stop, ShownFollows
<1>. QED
  BY <1>1, <1>2, <1>3, <1>4, <1>5, <1>6, <1>7, <1>8
     DEF Next, Dismissals, Others

\* A step maps to a new version, to a restart, or to a stutter, or is a batch
\* that ends in the middle.
LEMMA SourceStep ==
  RefinementInv /\ RefinementInv' /\ [Next]_vars
    => [Source!Next \/ IdentityFails]_(Source!vars)
<1> SUFFICES ASSUME RefinementInv, RefinementInv', [Next]_vars, ~IdentityFails
             PROVE  Source!Next \/ UNCHANGED Source!vars
  OBVIOUS
<1> USE DEF RefinementInv, TypeInv
<1>1. shown' \in FeedContent /\ generation \in Nat /\ disk.generation \in Nat
      /\ disk.generation >= generation
  BY DEF TypeOK, DiskAhead
<1>2. ASSUME NEW ids, Free, EndAndBump(ids), generation' = generation
      PROVE  Source!Next \/ UNCHANGED Source!vars
  <2>1. CASE ids = {}
    <3>1. tasks' = tasks /\ revision' = revision /\ shown' = Projection(tasks')
      BY <1>2, <2>1 DEF EndAndBump, End, Release, TypeOK
    <3>. QED
      BY <1>2, <3>1 DEF ShownFollows, Free, Source!vars, Projection
  <2>2. CASE ids # {}
    BY <1>1, <1>2, <2>2 DEF EndAndBump, Bump, Source!Next, Source!Publish
  <2>. QED
    BY <2>1, <2>2
<1>3. CASE \E l \in LeaseIDs : Detach(l)
  BY <1>2, <1>3 DEF Detach
<1>4. CASE ExpireLeases
  BY <1>2, <1>4 DEF ExpireLeases
<1>5. CASE \E i \in TaskIDs : Acknowledge(i)
  BY <1>2, <1>5 DEF Acknowledge
<1>6. CASE EnforceRetention
  BY <1>2, <1>6 DEF EnforceRetention
<1>7. CASE \/ \E i \in TaskIDs : Snooze(i)
           \/ \E i \in TaskIDs, clean \in AliasTitles \cup {NoTitle} : SetAlias(i, clean)
           \/ \E i \in TaskIDs, caps \in Capabilities : SetCapabilities(i, caps)
  BY <1>1, <1>7 DEF Snooze, SetAlias, SetCapabilities, Bump, Source!Next, Source!Publish
<1>8. CASE FinishApply
  <2>1. CASE call.changed
    BY <1>1, <1>8, <2>1 DEF FinishApply, Bump, Source!Next, Source!Publish
  <2>2. CASE ~call.changed
    <3>1. shown' = shown
      BY <1>8, <2>2 DEF FinishApply, Release, ShownFollows, Projection
    <3>. QED
      BY <1>8, <2>2, <3>1 DEF FinishApply, Source!vars
  <2>. QED
    BY <2>1, <2>2
<1>9. CASE Start
  <2>1. shown' = [id \in TaskIDs |-> NoTask]
    BY <1>9 DEF Start, Release, Down, Projection
  <2>2. generation' = disk.generation + 1 /\ revision' = 0
    BY <1>9 DEF Start
  <2>. QED
    BY <1>1, <2>1, <2>2 DEF Source!Next, Source!Restart
<1>10. CASE \/ \E a \in Adapters : Attach(a)
            \/ \E l \in LeaseIDs : Renew(l)
            \/ \E l \in LeaseIDs, seq \in 0..MaxSeq, b \in Batches : BeginApply(l, seq, b)
            \/ SkipReport \/ UpsertKnown \/ UpsertNew \/ EndSession
            \/ Crash \/ Shutdown \/ StartFails \/ Tick \/ StepClock \/ UNCHANGED vars
  <2>1. UNCHANGED <<shown, generation, revision>>
    BY <1>10 DEF Attach, Renew, BeginApply, SkipReport, UpsertKnown, UpsertNew,
         EndSession, Crash, Shutdown, Stop, StartFails, Tick, StepClock, memory, vars
  <2>. QED
    BY <2>1 DEF Source!vars
<1>. QED
  BY <1>3, <1>4, <1>5, <1>6, <1>7, <1>8, <1>9, <1>10
     DEF Next, Dismissals, Others

\* What the core shows changes only under a new revision, and a restart only
\* under a new generation; the one exception is a batch that ends in the middle
\* because no identity can be made.
THEOREM VersionsPublished == Spec => PublishesVersions
<1>1. Init => RefinementInv
  <2>1. Init => TypeInv
    BY TypeInit
  <2>2. Init => Down /\ ShownFollows /\ DiskAhead
    BY DEF Init, Down, ShownFollows, DiskAhead
  <2>. QED
    BY <2>1, <2>2 DEF RefinementInv
<1>2. RefinementInv /\ [Next]_vars => RefinementInv'
  BY TypeStep, DownStep, ShownFollowsStep, DiskAheadStep DEF RefinementInv
<1>3. Init => Source!Init
  <2>1. Init => shown = [id \in TaskIDs |-> NoTask]
    BY DEF Init, Projection
  <2>. QED
    BY <2>1 DEF Init, Source!Init
<1>4. RefinementInv /\ RefinementInv' /\ [Next]_vars
        => [Source!Next \/ IdentityFails]_(Source!vars)
  BY SourceStep
<1>. QED
  BY <1>1, <1>2, <1>3, <1>4, PTL DEF Spec, PublishesVersions

\* As long as identities can be drawn, the core implements a versioned source.
THEOREM SourceImplemented == ~EntropyMayFail => (Spec => Source!Spec)
<1> SUFFICES ASSUME ~EntropyMayFail PROVE Spec => Source!Spec
  OBVIOUS
<1>1. [Source!Next \/ IdentityFails]_(Source!vars) => [Source!Next]_(Source!vars)
  BY DEF IdentityFails
<1>2. Spec => PublishesVersions
  BY VersionsPublished
<1>. QED
  BY <1>1, <1>2, PTL DEF PublishesVersions, Source!Spec

-----------------------------------------------------------------------------
(* Who puts a presence into a state. *)

\* What a step must have done to the presence id it put into a new state.
Reported(id) ==
  /\ Reporting
  /\ tasks'[id].key = CallKey(Head(call.reports).session)
  /\ tasks'[id].state = Head(call.reports).state
  /\ tasks'[id].reason = Head(call.reports).reason

NewLook(id) ==
  \/ tasks[id] = NoTask
  \/ tasks'[id].state # tasks[id].state \/ tasks'[id].reason # tasks[id].reason

LEMMA FabricationStep ==
  ASSUME RoutingInv, [Next]_vars, NEW id \in Live', NewLook(id) PROVE Reported(id)
<1> USE AbsentAssumption DEF RoutingInv, TypeInv, AbsentAssumption
<1>1. /\ tasks \in [TaskIDs -> Task \cup {NoTask}]
      /\ id \in TaskIDs /\ tasks'[id] # NoTask
  BY DEF TypeOK, Live
<1>2. CASE UpsertKnown
  <2> DEFINE r == Head(call.reports)
             i == byNative[CallKey(r.session)]
             t == Applied(tasks[i], r, alias[i], call.at)
  <2>1. /\ call \in Call /\ r \in Report /\ WellFormed(r) /\ Reporting
        /\ tasks' = [tasks EXCEPT ![i] = t]
        /\ TaskAt(CallKey(r.session)) # NoTask
    BY <1>2 DEF UpsertKnown, Reporting, TypeOK, Call
  <2>2. CallKey(r.session) \in Keys
    BY <2>1 DEF Reporting, CallKey, Keys, Holder, TypeOK, Call, Lease, WellFormed, Report
  <2>3. /\ i \in Live /\ tasks[i] \in Task /\ tasks[i].key = CallKey(r.session)
        /\ alias[i] \in Titles \cup {NoTitle} /\ call.at \in 0..MaxNow
    BY <2>1, <2>2 DEF TaskAt, TypeOK, Live, RoutingExact, Call
  <2>4. t.key = tasks[i].key /\ t.state = r.state /\ t.reason = r.reason
    BY <2>1, <2>3, AppliedFacts
  <2>5. id = i
    <3>. HIDE DEF t, i
    <3>. QED
      BY <1>1, <2>1 DEF NewLook, Live
  <2>6. tasks'[id] = t
    BY <1>1, <2>1, <2>5
  <2>. QED
    BY <2>1, <2>3, <2>4, <2>6 DEF Reported
<1>3. CASE UpsertNew
  <2> DEFINE r == Head(call.reports)
             k == CallKey(r.session)
             t == FreshTask(k, r, alias[minted + 1])
  <2>1. Reporting /\ tasks' = [tasks EXCEPT ![minted + 1] = t]
    BY <1>3 DEF UpsertNew
  <2>2. t.key = k /\ t.state = r.state /\ t.reason = r.reason
    BY DEF FreshTask
  <2>3. tasks'[id] = t
    <3>. HIDE DEF t
    <3>. QED
      BY <1>1, <2>1 DEF NewLook
  <2>. QED
    BY <2>1, <2>2, <2>3 DEF Reported
<1>4. CASE \E i \in TaskIDs : Snooze(i)
  <2>1. PICK i \in TaskIDs : tasks' = [tasks EXCEPT ![i] = Snoozed(tasks[i])] /\ i \in Live
    BY <1>4 DEF Snooze
  <2>2. tasks[i] \in Task /\ Snoozed(tasks[i]).state = tasks[i].state
        /\ Snoozed(tasks[i]).reason = tasks[i].reason
    BY <1>1, <2>1 DEF Snoozed, Task, Live
  <2>. QED
    BY <1>1, <2>1, <2>2 DEF NewLook, Live
<1>5. CASE \E i \in TaskIDs, clean \in AliasTitles \cup {NoTitle} : SetAlias(i, clean)
  <2>1. PICK i \in TaskIDs, clean \in AliasTitles \cup {NoTitle} :
          /\ i \in Live
          /\ \/ tasks' = tasks
             \/ tasks' = [tasks EXCEPT ![i] = [tasks[i] EXCEPT !.title = clean]]
    BY <1>5 DEF SetAlias
  <2>2. [tasks[i] EXCEPT !.title = clean].state = tasks[i].state
        /\ [tasks[i] EXCEPT !.title = clean].reason = tasks[i].reason
    BY <1>1, <2>1 DEF Task, Live
  <2>. QED
    BY <1>1, <2>1, <2>2 DEF NewLook, Live
<1>6. CASE \E i \in TaskIDs, caps \in Capabilities : SetCapabilities(i, caps)
  <2>1. PICK i \in TaskIDs, caps \in Capabilities :
          i \in Live /\ tasks' = [tasks EXCEPT ![i] = [tasks[i] EXCEPT !.caps = caps]]
    BY <1>6 DEF SetCapabilities
  <2>2. [tasks[i] EXCEPT !.caps = caps].state = tasks[i].state
        /\ [tasks[i] EXCEPT !.caps = caps].reason = tasks[i].reason
    BY <1>1, <2>1 DEF Task, Live
  <2>. QED
    BY <1>1, <2>1, <2>2 DEF NewLook, Live
<1>7. CASE \E ids : End(ids)
  BY <1>1, <1>7 DEF End, NewLook
<1>8. CASE tasks' = tasks
  BY <1>1, <1>8 DEF NewLook
<1>9. CASE Crash \/ Shutdown
  BY <1>1, <1>9 DEF Crash, Shutdown, Stop, Forget
<1>10. CASE \/ EnforceRetention \/ ExpireLeases
            \/ \E l \in LeaseIDs : Detach(l)
            \/ \E i \in TaskIDs : Acknowledge(i)
  BY <1>7, <1>10 DEF EnforceRetention, ExpireLeases, Detach, Acknowledge, EndAndBump
<1>11. CASE EndSession
  BY <1>7, <1>8, <1>11 DEF EndSession
<1>12. CASE \/ \E a \in Adapters : Attach(a)
            \/ \E l \in LeaseIDs : Renew(l)
            \/ \E l \in LeaseIDs, seq \in 0..MaxSeq, b \in Batches : BeginApply(l, seq, b)
            \/ SkipReport \/ IdentityFails \/ FinishApply \/ StartFails \/ Start \/ Tick \/ StepClock
            \/ UNCHANGED vars
  BY <1>8, <1>12 DEF Attach, Renew, BeginApply, SkipReport, IdentityFails,
                     FinishApply, StartFails, Start, Tick, StepClock, memory, vars
<1>. QED
  BY <1>2, <1>3, <1>4, <1>5, <1>6, <1>9, <1>10, <1>11, <1>12
     DEF Next, Dismissals, Others

\* Leases that end, retention, dismissals, aliases and restarts never fabricate
\* a state: only a report of a session puts its presence into one.
THEOREM NothingFabricated == Spec => NoFabrication
<1> DEFINE Step == \A id \in Live' : NewLook(id) => Reported(id)
<1>1. RoutingInv /\ [Next]_vars => Step
  BY FabricationStep
<1>2. Step <=> \A id \in Live' :
       (tasks[id] = NoTask \/ tasks'[id].state # tasks[id].state
                          \/ tasks'[id].reason # tasks[id].reason)
       => /\ Reporting
          /\ tasks'[id].key = CallKey(Head(call.reports).session)
          /\ tasks'[id].state = Head(call.reports).state
          /\ tasks'[id].reason = Head(call.reports).reason
  BY DEF NewLook, Reported
<1>. HIDE DEF Step
<1>. QED
  BY <1>1, <1>2, RoutingInvariant, PTL DEF Spec, NoFabrication

-----------------------------------------------------------------------------
(* What becomes of one presence in a step: it is edited in place, it arrives *)
(* or it goes.                                                               *)

Edited(t, a, u) ==
  \/ \E r \in Report : WellFormed(r) /\ u = Applied(t, r, a, call.at) /\ call.at \in 0..MaxNow
  \/ ~t.snoozed /\ u = Snoozed(t)
  \/ \E clean \in Titles : u = [t EXCEPT !.title = clean]
  \/ \E caps \in Capabilities : u = [t EXCEPT !.caps = caps]

LEMMA EditedInPlace ==
  ASSUME RoutingInv, [Next]_vars, NEW id \in Live, id \in Live', tasks'[id] # tasks[id]
  PROVE  Edited(tasks[id], alias[id], tasks'[id])
<1> DEFINE Goal == Edited(tasks[id], alias[id], tasks'[id])
<1> USE CoreAssumption, AbsentAssumption DEF RoutingInv, TypeInv, CoreAssumption, AbsentAssumption
<1>1. /\ tasks \in [TaskIDs -> Task \cup {NoTask}] /\ id \in TaskIDs
      /\ tasks'[id] # NoTask /\ tasks[id] # NoTask
  BY DEF TypeOK, Live
<1>2. CASE UpsertKnown
  <2> DEFINE r == Head(call.reports)
             i == byNative[CallKey(r.session)]
             t == Applied(tasks[i], r, alias[i], call.at)
  <2>1. /\ call \in Call /\ r \in Report /\ WellFormed(r) /\ call.at \in 0..MaxNow
        /\ tasks' = [tasks EXCEPT ![i] = t]
    BY <1>2 DEF UpsertKnown, Reporting, TypeOK, Call
  <2>2. i = id /\ tasks'[i] = t
    <3>. HIDE DEF t, i
    <3>. QED
      BY <1>1, <2>1
  <2> HIDE DEF r, i
  <2>. QED
    BY <2>1, <2>2 DEF Edited
<1>3. CASE UpsertNew
  <2>1. PICK t : tasks' = [tasks EXCEPT ![minted + 1] = t]
    BY <1>3 DEF UpsertNew
  <2>2. id <= minted
    BY <1>1 DEF FreshIDs, TaskIDs, TypeOK
  <2>. QED
    BY <1>1, <2>1, <2>2 DEF TypeOK, TaskIDs
<1>4. ASSUME NEW i \in TaskIDs, Snooze(i) PROVE Goal
  <2>1. tasks' = [tasks EXCEPT ![i] = Snoozed(tasks[i])] /\ ~tasks[i].snoozed
    BY <1>4 DEF Snooze
  <2>. QED
    BY <1>1, <2>1 DEF Edited
<1>5. ASSUME NEW i \in TaskIDs, NEW clean \in AliasTitles \cup {NoTitle}, SetAlias(i, clean)
      PROVE  Goal
  <2>1. \/ tasks' = tasks
        \/ /\ clean # NoTitle
           /\ tasks' = [tasks EXCEPT ![i] = [tasks[i] EXCEPT !.title = clean]]
    BY <1>5 DEF SetAlias
  <2>. QED
    BY <1>1, <2>1 DEF Edited
<1>6. ASSUME NEW i \in TaskIDs, NEW caps \in Capabilities, SetCapabilities(i, caps)
      PROVE  Goal
  <2>1. tasks' = [tasks EXCEPT ![i] = [tasks[i] EXCEPT !.caps = caps]]
    BY <1>6 DEF SetCapabilities
  <2>. QED
    BY <1>1, <2>1 DEF Edited
<1>7. CASE \E ids : End(ids)
  BY <1>1, <1>7 DEF End
<1>8. CASE \/ EnforceRetention \/ ExpireLeases
           \/ \E l \in LeaseIDs : Detach(l)
           \/ \E i \in TaskIDs : Acknowledge(i)
  BY <1>7, <1>8 DEF EnforceRetention, ExpireLeases, Detach, Acknowledge, EndAndBump
<1>9. CASE EndSession
  BY <1>7, <1>9 DEF EndSession
<1>10. CASE Crash \/ Shutdown
  BY <1>1, <1>10 DEF Crash, Shutdown, Stop, Forget
<1>11. CASE \/ \E a \in Adapters : Attach(a)
            \/ \E l \in LeaseIDs : Renew(l)
            \/ \E l \in LeaseIDs, seq \in 0..MaxSeq, b \in Batches : BeginApply(l, seq, b)
            \/ SkipReport \/ IdentityFails \/ FinishApply \/ StartFails \/ Start \/ Tick \/ StepClock
            \/ UNCHANGED vars
  BY <1>11 DEF Attach, Renew, BeginApply, SkipReport, IdentityFails,
               FinishApply, StartFails, Start, Tick, StepClock, memory, vars
<1>. QED
  BY <1>2, <1>3, <1>4, <1>5, <1>6, <1>8, <1>9, <1>10, <1>11
     DEF Next, Dismissals, Others

\* A presence arrives awake, under the alias that waits for its ID if any does.
LEMMA Arrival ==
  ASSUME RoutingInv, [Next]_vars, NEW id \in Live', id \notin Live
  PROVE  /\ tasks'[id].snoozed = FALSE /\ alias' = alias
         /\ alias[id] # NoTitle => tasks'[id].title = alias[id]
<1> USE AbsentAssumption DEF RoutingInv, TypeInv, AbsentAssumption
<1>1. /\ tasks \in [TaskIDs -> Task \cup {NoTask}] /\ id \in TaskIDs
      /\ tasks'[id] # NoTask /\ tasks[id] = NoTask
  BY DEF TypeOK, Live
<1>2. CASE UpsertNew
  <2> DEFINE t == FreshTask(CallKey(Head(call.reports).session), Head(call.reports),
                            alias[minted + 1])
  <2>1. tasks' = [tasks EXCEPT ![minted + 1] = t] /\ alias' = alias
    BY <1>2 DEF UpsertNew
  <2>2. id = minted + 1 /\ tasks'[id] = t
    <3> HIDE DEF t
    <3>. QED
      BY <1>1, <2>1
  <2>3. t.snoozed = FALSE /\ t.title = IF alias[minted + 1] # NoTitle THEN alias[minted + 1]
                                       ELSE Head(call.reports).title
    BY DEF FreshTask
  <2> HIDE DEF t
  <2>. QED
    BY <2>1, <2>2, <2>3
<1>3. CASE Quiet
  BY <1>1, <1>3 DEF Quiet
<1>4. CASE Ends
  BY <1>1, <1>4 DEF Ends, End
<1>5. CASE Forgets
  BY <1>1, <1>5 DEF Forgets, Forget
<1>6. ASSUME NEW i \in Live, NEW t \in Task, Rewrites(i, t) PROVE FALSE
  BY <1>1, <1>6 DEF Rewrites, Live
<1>7. ASSUME NEW k \in Keys, NEW t \in Task, Adds(k, t) PROVE UpsertNew
  <2>1. minted' = minted + 1 /\ minted \in Nat
    BY <1>7 DEF Adds, TypeOK
  <2>2. minted' # minted
    BY <2>1
  <2>. QED
    BY <2>2 DEF Next, Dismissals, Others, Attach, Renew, Detach, ExpireLeases, BeginApply,
         SkipReport, UpsertKnown, IdentityFails, EndSession, FinishApply, Acknowledge,
         Snooze, SetAlias, SetCapabilities, EnforceRetention, Crash, Shutdown, Stop,
         StartFails, Start, Tick, StepClock, outside, vars
<1>. QED
  BY <1>2, <1>3, <1>4, <1>5, <1>6, <1>7, StepKinds

-----------------------------------------------------------------------------
(* Snoozes.  A snoozed presence is still in the episode it was snoozed in. *)

SameEpisode ==
  \A id \in Live : tasks[id].snoozed => /\ tasks[id].snoozeState = tasks[id].state
                                        /\ tasks[id].snoozeReason = tasks[id].reason

\* An edit keeps a snooze, and stays in its episode, or ends both.
LEMMA EditedSnooze ==
  ASSUME TypeOK, NEW t \in Task, NEW a \in Titles \cup {NoTitle}, NEW u, Edited(t, a, u),
         t.snoozed => t.snoozeState = t.state /\ t.snoozeReason = t.reason
  PROVE  /\ u.snoozed => u.snoozeState = u.state /\ u.snoozeReason = u.reason
         /\ t.snoozed => (u.snoozed <=> u.state = t.state /\ u.reason = t.reason)
<1>1. /\ t.snoozed \in BOOLEAN /\ wall \in 0..MaxNow
  BY DEF Task, TypeOK
<1>2. ASSUME NEW r \in Report, u = Applied(t, r, a, call.at)
      PROVE  /\ u.state = r.state /\ u.reason = r.reason /\ u.snoozed = StillSnoozed(t, r)
             /\ u.snoozeState = t.snoozeState /\ u.snoozeReason = t.snoozeReason
  BY <1>2 DEF Applied, Task
<1>3. CASE \E r \in Report : u = Applied(t, r, a, call.at)
  BY <1>1, <1>2, <1>3 DEF StillSnoozed
<1>4. CASE ~t.snoozed /\ u = Snoozed(t)
  BY <1>1, <1>4 DEF Snoozed, Task
<1>5. CASE \/ \E clean \in Titles : u = [t EXCEPT !.title = clean]
           \/ \E caps \in Capabilities : u = [t EXCEPT !.caps = caps]
  <2>1. /\ u.snoozed = t.snoozed /\ u.state = t.state /\ u.reason = t.reason
        /\ u.snoozeState = t.snoozeState /\ u.snoozeReason = t.snoozeReason
    BY <1>5 DEF Task
  <2>. QED
    BY <1>1, <2>1
<1>. QED
  BY <1>3, <1>4, <1>5 DEF Edited

\* What SnoozeEpisode says of one step.
EpisodeStep ==
  \A id \in Live \cap Live' : tasks[id].snoozed =>
    (tasks'[id].snoozed <=> /\ tasks'[id].state = tasks[id].state
                            /\ tasks'[id].reason = tasks[id].reason)

LEMMA SnoozeStep ==
  ASSUME RoutingInv, SameEpisode, [Next]_vars PROVE SameEpisode' /\ EpisodeStep
<1>1. ASSUME NEW id \in Live, id \in Live'
      PROVE  /\ tasks'[id].snoozed => /\ tasks'[id].snoozeState = tasks'[id].state
                                      /\ tasks'[id].snoozeReason = tasks'[id].reason
             /\ tasks[id].snoozed =>
                  (tasks'[id].snoozed <=> /\ tasks'[id].state = tasks[id].state
                                          /\ tasks'[id].reason = tasks[id].reason)
  <2>1. /\ tasks[id] \in Task /\ alias[id] \in Titles \cup {NoTitle} /\ TypeOK
        /\ tasks[id].snoozed => /\ tasks[id].snoozeState = tasks[id].state
                                /\ tasks[id].snoozeReason = tasks[id].reason
    BY DEF RoutingInv, TypeInv, TypeOK, Live, SameEpisode
  <2>2. CASE tasks'[id] = tasks[id]
    BY <2>1, <2>2
  <2>3. CASE tasks'[id] # tasks[id]
    BY <1>1, <2>1, <2>3, EditedInPlace, EditedSnooze
  <2>. QED
    BY <2>2, <2>3
<1>2. ASSUME NEW id \in Live', id \notin Live PROVE tasks'[id].snoozed = FALSE
  BY <1>2, Arrival
<1>. QED
  BY <1>1, <1>2 DEF SameEpisode, EpisodeStep

\* A snooze lasts exactly as long as the state and reason it was given for, over
\* any sequence of reports, aliases, capabilities and restarts.
THEOREM SnoozesLastOneEpisode == Spec => SnoozeEpisode
<1>1. Init => SameEpisode
  BY DEF Init, SameEpisode, Live
<1>2. RoutingInv /\ SameEpisode /\ [Next]_vars => SameEpisode' /\ EpisodeStep
  BY SnoozeStep
<1>3. Spec => [](RoutingInv /\ SameEpisode)
  BY <1>1, <1>2, RoutingInvariant, PTL DEF Spec
<1>. QED
  BY <1>2, <1>3, PTL DEF Spec, SnoozeEpisode, EpisodeStep

-----------------------------------------------------------------------------
(* Aliases. *)

\* One step keeps the title of a presence under its alias: a report yields to
\* the alias, SetAlias sets both, and Start, which loads other aliases, meets no
\* presence.
LEMMA AliasKept ==
  ASSUME OwnersInv, AliasWins, [Next]_vars, NEW id \in Live, id \in Live'
  PROVE  alias'[id] # NoTitle => tasks'[id].title = alias'[id]
<1> DEFINE Goal == alias'[id] # NoTitle => tasks'[id].title = alias'[id]
<1> USE AbsentAssumption DEF OwnersInv, RoutingInv, TypeInv, AbsentAssumption
<1>1. /\ tasks \in [TaskIDs -> Task \cup {NoTask}] /\ id \in TaskIDs
      /\ tasks'[id] # NoTask /\ tasks[id] \in Task
      /\ alias \in [TaskIDs -> Titles \cup {NoTitle}]
      /\ alias[id] # NoTitle => tasks[id].title = alias[id]
  BY DEF TypeOK, Live, AliasWins
<1>2. CASE UpsertKnown
  <2> DEFINE r == Head(call.reports)
             i == byNative[CallKey(r.session)]
             t == Applied(tasks[i], r, alias[i], call.at)
  <2>1. tasks' = [tasks EXCEPT ![i] = t] /\ alias' = alias
    BY <1>2 DEF UpsertKnown
  <2>2. CASE i = id
    <3>1. alias[id] # NoTitle => Applied(tasks[id], r, alias[id], call.at).title = alias[id]
      BY <1>1 DEF Applied, Task, Title
    <3>2. tasks'[id] = t /\ alias[i] = alias[id] /\ tasks[i] = tasks[id]
      <4>. HIDE DEF t, i
      <4>. QED
        BY <1>1, <2>1, <2>2
    <3>. QED
      BY <2>1, <3>1, <3>2
  <2>3. CASE i # id
    <3>. HIDE DEF t, i
    <3>. QED
      BY <1>1, <2>1, <2>3
  <2>. QED
    BY <2>2, <2>3
<1>3. CASE UpsertNew
  <2>1. PICK t : tasks' = [tasks EXCEPT ![minted + 1] = t] /\ alias' = alias
    BY <1>3 DEF UpsertNew
  <2>2. id <= minted
    BY <1>1 DEF FreshIDs, TaskIDs, TypeOK
  <2>. QED
    BY <1>1, <2>1, <2>2 DEF TypeOK, TaskIDs
<1>4. ASSUME NEW i \in TaskIDs, Snooze(i) PROVE Goal
  <2>1. tasks' = [tasks EXCEPT ![i] = Snoozed(tasks[i])] /\ alias' = alias
    BY <1>4 DEF Snooze
  <2>2. Snoozed(tasks[id]).title = tasks[id].title
    BY <1>1 DEF Snoozed, Task
  <2>. QED
    BY <1>1, <2>1, <2>2
<1>5. ASSUME NEW i \in TaskIDs, NEW clean \in AliasTitles \cup {NoTitle}, SetAlias(i, clean)
      PROVE  Goal
  <2>1. /\ alias' = [alias EXCEPT ![i] = clean]
        /\ \/ clean = NoTitle /\ tasks' = tasks
           \/ tasks' = [tasks EXCEPT ![i] = [tasks[i] EXCEPT !.title = clean]]
    BY <1>5 DEF SetAlias
  <2>2. [tasks[id] EXCEPT !.title = clean].title = clean
    BY <1>1 DEF Task
  <2>. QED
    BY <1>1, <2>1, <2>2
<1>6. ASSUME NEW i \in TaskIDs, NEW caps \in Capabilities, SetCapabilities(i, caps)
      PROVE  Goal
  <2>1. /\ tasks' = [tasks EXCEPT ![i] = [tasks[i] EXCEPT !.caps = caps]]
        /\ alias' = alias
    BY <1>6 DEF SetCapabilities
  <2>2. [tasks[id] EXCEPT !.caps = caps].title = tasks[id].title
    BY <1>1 DEF Task
  <2>. QED
    BY <1>1, <2>1, <2>2
<1>7. ASSUME NEW ids, End(ids) PROVE Goal
  <2>1. id \notin ids
    BY <1>1, <1>7 DEF End
  <2>. QED
    BY <1>1, <1>7, <2>1 DEF End
<1>8. CASE \/ EnforceRetention \/ ExpireLeases
           \/ \E l \in LeaseIDs : Detach(l)
           \/ \E i \in TaskIDs : Acknowledge(i)
  BY <1>7, <1>8 DEF EnforceRetention, ExpireLeases, Detach, Acknowledge, EndAndBump
<1>9. CASE EndSession
  BY <1>1, <1>7, <1>9 DEF EndSession
<1>10. CASE Crash \/ Shutdown
  BY <1>1, <1>10 DEF Crash, Shutdown, Stop, Forget
<1>11. CASE Start
  BY <1>1, <1>11 DEF Start, Down
<1>12. CASE \/ \E a \in Adapters : Attach(a)
            \/ \E l \in LeaseIDs : Renew(l)
            \/ \E l \in LeaseIDs, seq \in 0..MaxSeq, b \in Batches : BeginApply(l, seq, b)
            \/ SkipReport \/ IdentityFails \/ FinishApply \/ StartFails \/ Tick \/ StepClock
            \/ UNCHANGED vars
  BY <1>1, <1>12 DEF Attach, Renew, BeginApply, SkipReport, IdentityFails,
               FinishApply, StartFails, Tick, StepClock, memory, vars
<1>. QED
  BY <1>2, <1>3, <1>4, <1>5, <1>6, <1>8, <1>9, <1>10, <1>11, <1>12
     DEF Next, Dismissals, Others

LEMMA AliasStep == OwnersInv /\ AliasWins /\ [Next]_vars => AliasWins'
<1> SUFFICES ASSUME OwnersInv, AliasWins, [Next]_vars, NEW id \in Live'
             PROVE  alias'[id] # NoTitle => tasks'[id].title = alias'[id]
  BY DEF AliasWins
<1>. QED
  BY AliasKept, Arrival DEF OwnersInv

\* An approved alias is the title for as long as its presence lives, whatever its
\* adapter reports, and after any restart.
THEOREM AliasesWin == Spec => []AliasWins
<1>1. Init => AliasWins
  BY DEF Init, AliasWins, Live
<1>. QED
  BY <1>1, AliasStep, OwnersInvariant, PTL DEF Spec

-----------------------------------------------------------------------------
(* Departures. *)

\* What WorkNeverDropped allows a presence to leave for.
MayLeave(id) ==
  \/ IsTerminal(tasks[id].state)
  \/ ~up'
  \/ leases'[tasks[id].lease] = NoLease
  \/ /\ call # NoCall /\ call.ends # <<>>
     /\ tasks[id].key = CallKey(Head(call.ends))

\* A presence that goes was ended, or its process was.
LEMMA GoneWasEnded ==
  ASSUME RoutingInv, [Next]_vars, NEW id \in Live, id \notin Live', up'
  PROVE  \/ EnforceRetention \/ ExpireLeases \/ EndSession
         \/ \E l \in LeaseIDs : Detach(l)
         \/ \E i \in TaskIDs : Acknowledge(i)
<1> USE CoreAssumption, AbsentAssumption DEF RoutingInv, TypeInv, CoreAssumption, AbsentAssumption
<1>1. /\ tasks \in [TaskIDs -> Task \cup {NoTask}] /\ id \in TaskIDs
      /\ tasks[id] \in Task /\ tasks'[id] = NoTask
  BY DEF TypeOK, Live
<1>2. ASSUME UpsertKnown PROVE FALSE
  <2> DEFINE r == Head(call.reports)
             i == byNative[CallKey(r.session)]
             t == Applied(tasks[i], r, alias[i], call.at)
  <2>1. /\ call \in Call /\ r \in Report /\ WellFormed(r) /\ call.at \in 0..MaxNow
        /\ tasks' = [tasks EXCEPT ![i] = t] /\ alias \in [TaskIDs -> Titles \cup {NoTitle}]
    BY <1>2 DEF UpsertKnown, Reporting, TypeOK, Call
  <2>2. i = id /\ tasks'[i] = t
    <3>. HIDE DEF t, i
    <3>. QED
      BY <1>1, <2>1
  <2>3. alias[id] \in Titles \cup {NoTitle}
    BY <1>1, <2>1
  <2>4. Applied(tasks[id], r, alias[id], call.at) \in Task
    <3>. HIDE DEF r
    <3>. QED
      BY <1>1, <2>1, <2>3, AppliedFacts
  <2> HIDE DEF r, i
  <2>. QED
    BY <1>1, <2>2, <2>4
<1>3. ASSUME UpsertNew PROVE FALSE
  <2>1. PICK t : tasks' = [tasks EXCEPT ![minted + 1] = t]
    BY <1>3 DEF UpsertNew
  <2>2. id <= minted
    BY <1>1 DEF FreshIDs, TaskIDs, TypeOK
  <2>. QED
    BY <1>1, <2>1, <2>2 DEF TypeOK, TaskIDs
<1>4. ASSUME NEW i \in TaskIDs, Snooze(i) PROVE FALSE
  <2>1. tasks' = [tasks EXCEPT ![i] = Snoozed(tasks[i])] /\ tasks[i].state = "needs_input"
        /\ i \in Live
    BY <1>4 DEF Snooze
  <2>2. Snoozed(tasks[id]) \in Task
    BY <1>1 DEF Snoozed, Task, TypeOK
  <2>. QED
    BY <1>1, <2>1, <2>2
<1>5. ASSUME NEW i \in TaskIDs, NEW clean \in AliasTitles \cup {NoTitle}, SetAlias(i, clean)
      PROVE  FALSE
  <2>1. \/ tasks' = tasks
        \/ tasks' = [tasks EXCEPT ![i] = [tasks[i] EXCEPT !.title = clean]]
    BY <1>5 DEF SetAlias
  <2>2. [tasks[id] EXCEPT !.title = clean] \in Task
    BY <1>1 DEF Task
  <2>. QED
    BY <1>1, <2>1, <2>2
<1>6. ASSUME NEW i \in TaskIDs, NEW caps \in Capabilities, SetCapabilities(i, caps)
      PROVE  FALSE
  <2>1. tasks' = [tasks EXCEPT ![i] = [tasks[i] EXCEPT !.caps = caps]]
    BY <1>6 DEF SetCapabilities
  <2>2. [tasks[id] EXCEPT !.caps = caps] \in Task
    BY <1>1 DEF Task
  <2>. QED
    BY <1>1, <2>1, <2>2
<1>7. ~(Crash \/ Shutdown)
  BY DEF Crash, Shutdown, Stop
<1>8. ASSUME \/ \E a \in Adapters : Attach(a)
             \/ \E l \in LeaseIDs : Renew(l)
             \/ \E l \in LeaseIDs, seq \in 0..MaxSeq, b \in Batches : BeginApply(l, seq, b)
             \/ SkipReport \/ IdentityFails \/ FinishApply \/ StartFails \/ Start \/ Tick
             \/ StepClock \/ UNCHANGED vars
      PROVE  FALSE
  BY <1>1, <1>8 DEF Attach, Renew, BeginApply, SkipReport, IdentityFails,
               FinishApply, StartFails, Start, Tick, StepClock, memory, vars
<1>. QED
  BY <1>2, <1>3, <1>4, <1>5, <1>6, <1>7, <1>8 DEF Next, Dismissals, Others

LEMMA LeaveStep ==
  ASSUME RoutingInv, [Next]_vars, NEW id \in Live, id \notin Live', up'
  PROVE  MayLeave(id)
<1> USE AbsentAssumption DEF RoutingInv, TypeInv, AbsentAssumption
<1>1. /\ tasks[id] \in Task /\ tasks'[id] = NoTask /\ tasks[id] # NoTask /\ id \in TaskIDs
      /\ tasks[id].lease \in LeaseIDs /\ leases \in [LeaseIDs -> Lease \cup {NoLease}]
  BY DEF TypeOK, Live, Task
<1>2. ASSUME NEW ids, End(ids) PROVE id \in ids
  BY <1>1, <1>2 DEF End
<1>3. CASE EnforceRetention
  <2>1. PICK ids \in Evictions : End(ids)
    BY <1>3 DEF EnforceRetention, EndAndBump
  <2>2. ids \subseteq Terminals
    BY <2>1 DEF Evictions, Aged
  <2>. QED
    BY <1>2, <2>1, <2>2 DEF Terminals, MayLeave
<1>4. CASE ExpireLeases
  <2>1. tasks[id].lease \in Expired
    BY <1>2, <1>4 DEF ExpireLeases, EndAndBump, OwnedBy
  <2>. QED
    BY <1>1, <1>4, <2>1 DEF ExpireLeases, MayLeave
<1>5. ASSUME NEW l \in LeaseIDs, Detach(l) PROVE MayLeave(id)
  <2>1. tasks[id].lease = l
    BY <1>2, <1>5 DEF Detach, EndAndBump, OwnedBy
  <2>. QED
    BY <1>1, <1>5, <2>1 DEF Detach, MayLeave
<1>6. ASSUME NEW i \in TaskIDs, Acknowledge(i) PROVE MayLeave(id)
  <2>1. id \in {i}
    BY <1>2, <1>6 DEF Acknowledge, EndAndBump
  <2>. QED
    BY <1>6, <2>1 DEF Acknowledge, MayLeave
<1>7. CASE EndSession
  <2> DEFINE k == CallKey(Head(call.ends))
  <2>1. call # NoCall /\ call.ends # <<>> /\ byNative[k] # NoID /\ id = byNative[k]
    BY <1>1, <1>2, <1>7 DEF EndSession
  <2>2. k \in Keys
    <3>1. call \in Call /\ Head(call.ends) \in Sessions
      BY <2>1 DEF TypeOK, Call
    <3>2. leases[call.lease] \in Lease
      BY <2>1 DEF Holder, TypeOK, Call
    <3>. QED
      BY <3>1, <3>2 DEF CallKey, Keys, Lease
  <2>3. tasks[id].key = k
    BY <2>1, <2>2 DEF RoutingExact
  <2>. QED
    BY <2>1, <2>3 DEF MayLeave
<1>. QED
  BY <1>3, <1>4, <1>5, <1>6, <1>7, GoneWasEnded

\* Unfinished work leaves the feed only when its own session is ended by a
\* report, its lease ends or the process does; never by retention or dismissal.
THEOREM WorkStays == Spec => WorkNeverDropped
<1> DEFINE Step == \A id \in Live \ Live' : MayLeave(id)
<1>1. RoutingInv /\ [Next]_vars => Step
  <2>1. ASSUME ~up', NEW id \in Live PROVE MayLeave(id)
    BY <2>1 DEF MayLeave
  <2>. QED
    BY <2>1, LeaveStep
<1>2. Step <=> \A id \in Live \ Live' : IsTerminal(tasks[id].state)
       \/ ~up'
       \/ leases'[tasks[id].lease] = NoLease
       \/ /\ call # NoCall /\ call.ends # <<>>
          /\ tasks[id].key = CallKey(Head(call.ends))
  BY DEF MayLeave
<1>. HIDE DEF Step
<1>. QED
  BY <1>1, <1>2, RoutingInvariant, PTL DEF Spec, WorkNeverDropped

-----------------------------------------------------------------------------
(* The order of a snapshot. *)

\* When some presence is awake, those the sort may put first are exactly those
\* the scan of Featured may return.
LEMMA LeadsAreFeatured ==
  ASSUME TypeOK, FeaturedChoices # {} PROVE Leads = FeaturedChoices
<1> DEFINE Awake == {id \in Live : ~tasks[id].snoozed}
<1>1. ASSUME NEW id \in Live PROVE tasks[id].snoozed \in BOOLEAN
  BY DEF TypeOK, Live, Task
<1>2. PICK f \in Awake : TRUE
  BY DEF FeaturedChoices
<1>3. \A a \in Leads : a \in Awake
  BY <1>1, <1>2 DEF Leads, Precedes
<1>4. Leads \subseteq FeaturedChoices
  BY <1>1, <1>3 DEF Leads, Precedes, FeaturedChoices
<1>5. FeaturedChoices \subseteq Leads
  BY <1>1 DEF Leads, Precedes, FeaturedChoices
<1>. QED
  BY <1>4, <1>5

\* The aggregate state of a snapshot is the state of the Featured Task whenever
\* there is one, however ties fall.
THEOREM AggregateCorrect == Spec => []AggregateIsFeatured
<1>1. TypeOK => AggregateIsFeatured
  <2> SUFFICES ASSUME TypeOK, FeaturedChoices # {}
               PROVE  AggregateStates = {tasks[id].state : id \in FeaturedChoices}
    BY DEF AggregateIsFeatured
  <2>1. Live # {}
    BY DEF FeaturedChoices
  <2>. QED
    BY <2>1, LeadsAreFeatured DEF AggregateStates
<1>. QED
  BY <1>1, TypeCorrect, PTL

=============================================================================
