---------------------------- MODULE PresenceCore -----------------------------
(***************************************************************************)
(* The Edge's semantic core (internal/presence/presence.go) with the state *)
(* file that carries its generation over restarts (internal/edge/state.go).*)
(*                                                                         *)
(* Every method of Core runs under the mutex c.mu, so a method is one      *)
(* action.  ApplyReports is the exception: it is a loop that may return in *)
(* the middle, so each turn of the loop is an action of its own and `call` *)
(* holds the running call, i.e. the mutex.                                 *)
(*                                                                         *)
(* Go's zero values are kept: a lookup in a map that has no such key gives *)
(* NoTask, NoLease, NoID or NoTitle.                                       *)
(***************************************************************************)
EXTENDS Integers, Sequences, FiniteSets

CONSTANTS
  Adapters,          \* harness names; the adapter half of a native key
  LocalAdapter,      \* "codex", whose hooks the Edge ingests itself
  Sessions,          \* native session IDs
  Titles, NoTitle,   \* sanitized Safe Titles; NoTitle is ""
  SubagentCounts,
  AliasTitles,       \* titles an owner may approve as an alias
  Batches,           \* the [reports, ends] arguments of ApplyReports
  LeaseDuration, TerminalTTL, TerminalFIFO,      \* presence.Config
  EntropyMayFail,    \* whether crypto/rand may return an error
  ClockMayStep,      \* whether the wall clock may be set back
  MaxNow, MaxMinted, MaxLeases, MaxSeq, MaxRevision, MaxGeneration, \* bounds
  NoTask, NoLease, NoCall, NoSession             \* absent values

States  == {"idle", "running", "needs_input", "ready", "blocked"}
Reasons == {"working", "question", "approval", "permission", "completed", "failed"}

Report ==
  [session : Sessions \cup {NoSession}, title : Titles \cup {NoTitle},
   state : States \cup {"other"}, reason : Reasons \cup {"other"},
   subagents : SubagentCounts]

Batch == [reports : Seq(Report), ends : Seq(Sessions)]

TaskIDs  == 1..MaxMinted
NoID     == 0
LeaseIDs == 0..MaxLeases
LocalLease == 0        \* codexLease, attached when the service starts
Keys     == Adapters \X Sessions
Capabilities == SUBSET {"focus"}

Task ==
  [key : Keys, lease : LeaseIDs, title : Titles \cup {NoTitle},
   state : States, reason : Reasons, subagents : SubagentCounts,
   caps : Capabilities, updatedAt : 0..MaxNow,
   snoozed : BOOLEAN, snoozeState : States \cup {""},
   snoozeReason : Reasons \cup {""}]

Lease ==
  [adapter : Adapters, expiresAt : Nat, persistent : BOOLEAN, lastSeq : 0..MaxSeq]

Call ==
  [lease : LeaseIDs, reports : Seq(Report), ends : Seq(Sessions),
   changed : BOOLEAN, at : 0..MaxNow]

\* The allowlisted projection of a task (contract.FeedTask).
FeedTask ==
  [title : Titles \cup {NoTitle}, state : States, reason : Reasons,
   subagents : SubagentCounts, caps : Capabilities, updatedAt : 0..MaxNow,
   snoozed : BOOLEAN]

FeedContent == [TaskIDs -> FeedTask \cup {NoTask}]

ASSUME CoreAssumption ==
  /\ LocalAdapter \in Adapters
  /\ AliasTitles \subseteq Titles
  /\ NoTitle \notin Titles /\ NoSession \notin Sessions
  /\ \A b \in Batches : b \in Batch
  /\ LeaseDuration \in Nat \ {0} /\ TerminalTTL \in Nat \ {0}
  /\ TerminalFIFO \in Nat \ {0}
  /\ EntropyMayFail \in BOOLEAN /\ ClockMayStep \in BOOLEAN
  /\ MaxNow \in Nat /\ MaxMinted \in Nat /\ MaxLeases \in Nat
  /\ MaxSeq \in Nat /\ MaxRevision \in Nat /\ MaxGeneration \in Nat

\* The absent values are not values: no record is NoTask, NoLease or NoCall.
ASSUME AbsentAssumption ==
  /\ NoTask \notin Task /\ NoTask \notin FeedTask
  /\ NoLease \notin Lease
  /\ NoCall \notin Call

VARIABLES
  tasks,       \* c.tasks
  byNative,    \* c.byNative
  leases,      \* c.leases
  alias,       \* c.alias
  generation,  \* c.generation
  revision,    \* c.revision
  call,        \* the ApplyReports call that holds c.mu, or NoCall
  minted,      \* Task Presence IDs handed out: NewTaskPresenceID is fresh
  attached,    \* remote leases handed out
  now,         \* the monotonic clock
  wall,        \* the wall clock
  up,          \* whether the Edge process runs
  disk,        \* state.json: the persisted generation and aliases
  shown        \* history: the projection at the last release of c.mu

memory == <<tasks, byNative, leases, alias, generation, revision, call>>
vars == <<memory, minted, attached, now, wall, up, disk, shown>>

-----------------------------------------------------------------------------
Live == {id \in TaskIDs : tasks[id] # NoTask}

IsTerminal(s) == s \in {"ready", "blocked"}

Rank(s) ==
  CASE s = "needs_input" -> 4 [] s = "blocked" -> 3 [] s = "ready" -> 2
    [] s = "running" -> 1 [] OTHER -> 0

\* Mutant: the record goes out whole, private routing key and all.
FeedTaskLeaks(t) == t

FeedTaskOf(t) ==
  [title |-> t.title, state |-> t.state, reason |-> t.reason,
   subagents |-> t.subagents, caps |-> t.caps, updatedAt |-> t.updatedAt,
   snoozed |-> t.snoozed]

\* The tasks of a Snapshot, without their order.
Projection(ts) ==
  [id \in TaskIDs |-> IF ts[id] = NoTask THEN NoTask ELSE FeedTaskOf(ts[id])]

\* Mutant: a snoozed task may still come first.
PrecedesSnoozed(a, b) ==
  \/ Rank(tasks[a].state) > Rank(tasks[b].state)
  \/ /\ Rank(tasks[a].state) = Rank(tasks[b].state)
     /\ tasks[a].updatedAt > tasks[b].updatedAt

\* The comparison Snapshot sorts by: unsnoozed first, then rank, then recency.
Precedes(a, b) ==
  \/ ~tasks[a].snoozed /\ tasks[b].snoozed
  \/ /\ tasks[a].snoozed = tasks[b].snoozed
     /\ \/ Rank(tasks[a].state) > Rank(tasks[b].state)
        \/ /\ Rank(tasks[a].state) = Rank(tasks[b].state)
           /\ tasks[a].updatedAt > tasks[b].updatedAt

\* The tasks a Snapshot may list first (map order decides between equals);
\* its aggregate state is the state of the one it lists.
Leads == {a \in Live : \A b \in Live : ~Precedes(b, a)}

AggregateStates ==
  IF Live = {} THEN {"idle"} ELSE {tasks[a].state : a \in Leads}

\* What Featured may return: its scan keeps the best unsnoozed task so far.
FeaturedChoices ==
  LET Awake == {id \in Live : ~tasks[id].snoozed}
      Beats(b, a) == \/ Rank(tasks[b].state) > Rank(tasks[a].state)
                     \/ /\ Rank(tasks[b].state) = Rank(tasks[a].state)
                        /\ tasks[b].updatedAt > tasks[a].updatedAt
  IN {a \in Awake : \A b \in Awake : ~Beats(b, a)}

-----------------------------------------------------------------------------
NewLease(a, persistent) ==
  [adapter |-> a, expiresAt |-> now + LeaseDuration, persistent |-> persistent,
   lastSeq |-> 0]

NoLeases == [l \in LeaseIDs |-> NoLease]

Init ==
  /\ tasks = [id \in TaskIDs |-> NoTask]
  /\ byNative = [k \in Keys |-> NoID]
  /\ now = 0 /\ wall = 0
  /\ leases = [NoLeases EXCEPT ![LocalLease] = NewLease(LocalAdapter, TRUE)]
  /\ alias = [id \in TaskIDs |-> NoTitle]
  /\ generation = 1
  /\ revision = 0
  /\ call = NoCall
  /\ minted = 0
  /\ attached = 0
  /\ up = TRUE
  /\ disk = [generation |-> 1, alias |-> alias]
  /\ shown = Projection(tasks)

\* The mutex is free and the process runs: a method may enter.
Free == up /\ call = NoCall

\* The method releases the mutex: readers see the tasks as they are now.
Release == shown' = Projection(tasks')

CanBump == revision < MaxRevision
Bump    == revision' = revision + 1

outside == <<minted, attached, now, wall, up, disk>>

\* Mutant: the private mapping of an ended task stays.
EndKeepsRoute(ids) ==
  /\ tasks' = [id \in TaskIDs |-> IF id \in ids THEN NoTask ELSE tasks[id]]
  /\ alias' = [id \in TaskIDs |-> IF id \in ids THEN NoTitle ELSE alias[id]]
  /\ UNCHANGED byNative

\* Mutant: work that ends is reported as completed.
EndCompletes(ids) ==
  /\ tasks' = [id \in TaskIDs |-> IF id \notin ids \cap Live THEN tasks[id]
       ELSE IF IsTerminal(tasks[id].state) THEN NoTask
       ELSE [tasks[id] EXCEPT !.state = "ready", !.reason = "completed"]]
  /\ UNCHANGED <<byNative, alias>>

\* endLocked on every id of ids.
End(ids) ==
  /\ tasks' = [id \in TaskIDs |-> IF id \in ids THEN NoTask ELSE tasks[id]]
  /\ byNative' = [k \in Keys |->
       IF \E id \in ids \cap Live : tasks[id].key = k THEN NoID ELSE byNative[k]]
  /\ alias' = [id \in TaskIDs |->
       IF id \in ids \cap Live THEN NoTitle ELSE alias[id]]

\* ... and the bump that follows when at least one was ended.
EndAndBump(ids) ==
  /\ End(ids)
  /\ IF ids = {} THEN UNCHANGED revision ELSE CanBump /\ Bump
  /\ Release

\* Mutant: a lease ends without its finished tasks.
OwnedUnfinished(ls) ==
  {id \in Live : tasks[id].lease \in ls /\ ~IsTerminal(tasks[id].state)}

OwnedBy(ls) == {id \in Live : tasks[id].lease \in ls}

-----------------------------------------------------------------------------
(* Leases *)

Attach(a) ==
  /\ Free
  /\ attached < MaxLeases
  /\ attached' = attached + 1
  /\ leases' = [leases EXCEPT ![attached + 1] = NewLease(a, FALSE)]
  /\ UNCHANGED <<tasks, byNative, alias, generation, revision, call>>
  /\ UNCHANGED <<minted, now, wall, up, disk, shown>>

Renew(l) ==
  /\ Free
  /\ leases[l] # NoLease
  /\ leases' = IF leases[l].persistent THEN leases
               ELSE [leases EXCEPT ![l].expiresAt = now + LeaseDuration]
  /\ UNCHANGED <<tasks, byNative, alias, generation, revision, call, shown>>
  /\ UNCHANGED outside

Detach(l) ==
  /\ Free
  /\ leases[l] # NoLease /\ ~leases[l].persistent
  /\ leases' = [leases EXCEPT ![l] = NoLease]
  /\ EndAndBump(OwnedBy({l}))
  /\ UNCHANGED <<generation, call>> /\ UNCHANGED outside

Expired ==
  {l \in LeaseIDs : leases[l] # NoLease /\ ~leases[l].persistent
                                        /\ now > leases[l].expiresAt}

ExpireLeases ==
  /\ Free
  /\ Expired # {}
  /\ leases' = [l \in LeaseIDs |-> IF l \in Expired THEN NoLease ELSE leases[l]]
  /\ EndAndBump(OwnedBy(Expired))
  /\ UNCHANGED <<generation, call>> /\ UNCHANGED outside

-----------------------------------------------------------------------------
(* ApplyReports *)

\* The batch passes the sequence check; the mutex is held from here on.  The
\* bounds make sure that the call can run to its end.
BeginApply(l, seq, b) ==
  /\ Free
  /\ leases[l] # NoLease
  /\ seq # 0 /\ (leases[l].lastSeq # 0 => seq > leases[l].lastSeq)
  /\ CanBump /\ minted + Len(b.reports) <= MaxMinted
  /\ leases' = [leases EXCEPT ![l].lastSeq = seq]
  /\ call' = [lease |-> l, reports |-> b.reports, ends |-> b.ends,
              changed |-> FALSE, at |-> wall]
  /\ UNCHANGED <<tasks, byNative, alias, generation, revision, shown>>
  /\ UNCHANGED outside

Reporting == up /\ call # NoCall /\ call.reports # <<>>

WellFormed(r) == /\ r.session # NoSession
                 /\ r.state \in States /\ r.reason \in Reasons

CallKey(s) == <<leases[call.lease].adapter, s>>

\* c.tasks[c.byNative[key]]
TaskAt(k) == IF byNative[k] = NoID THEN NoTask ELSE tasks[byNative[k]]

AfterReport(changed) ==
  call' = [call EXCEPT !.reports = Tail(@), !.changed = @ \/ changed]

\* A malformed entry is dropped, not fatal.
SkipReport ==
  /\ Reporting
  /\ ~WellFormed(Head(call.reports))
  /\ AfterReport(FALSE)
  /\ UNCHANGED <<tasks, byNative, leases, alias, generation, revision, shown>>
  /\ UNCHANGED outside

\* Mutants: an alias loses to the next report; a snooze outlives its reason, or
\* ends with the next report whatever it says.
TitleReported(t, r, a) == IF r.title # NoTitle THEN r.title ELSE t.title

NeverStillSnoozed(t, r) == FALSE

\* TaskPresence.apply: the report r folded into t at time at, under alias a.
Title(t, r, a) ==
  IF a # NoTitle THEN a ELSE IF r.title # NoTitle THEN r.title ELSE t.title

StillSnoozed(t, r) ==
  t.snoozed /\ t.snoozeState = r.state /\ t.snoozeReason = r.reason

Differs(t, r, a) ==
  \/ Title(t, r, a) # t.title
  \/ r.state # t.state \/ r.reason # t.reason
  \/ r.subagents # t.subagents
  \/ StillSnoozed(t, r) # t.snoozed

Applied(t, r, a, at) ==
  [t EXCEPT !.title = Title(t, r, a), !.state = r.state, !.reason = r.reason,
            !.subagents = r.subagents, !.snoozed = StillSnoozed(t, r),
            !.updatedAt = IF Differs(t, r, a) THEN at ELSE @]

UpsertKnown ==
  /\ Reporting
  /\ LET r  == Head(call.reports)
         id == byNative[CallKey(r.session)]
     IN /\ WellFormed(r)
        /\ TaskAt(CallKey(r.session)) # NoTask
        /\ tasks' = [tasks EXCEPT ![id] = Applied(@, r, alias[id], call.at)]
        /\ AfterReport(Differs(tasks[id], r, alias[id]))
  /\ UNCHANGED <<byNative, leases, alias, generation, revision, shown>>
  /\ UNCHANGED outside

\* The record of a first observation.  Its Go zero State "" always differs from
\* the reported one, so apply stamps it.
FreshTask(k, r, a) ==
  [key |-> k, lease |-> call.lease,
   title |-> IF a # NoTitle THEN a ELSE r.title,
   state |-> r.state, reason |-> r.reason, subagents |-> r.subagents,
   caps |-> {}, updatedAt |-> call.at, snoozed |-> FALSE,
   snoozeState |-> "", snoozeReason |-> ""]

UpsertNew ==
  /\ Reporting
  /\ LET r  == Head(call.reports)
         k  == CallKey(r.session)
         id == minted + 1
     IN /\ WellFormed(r)
        /\ TaskAt(k) = NoTask
        /\ minted' = id
        /\ tasks' = [tasks EXCEPT ![id] = FreshTask(k, r, alias[id])]
        /\ byNative' = [byNative EXCEPT ![k] = id]
        /\ AfterReport(TRUE)
  /\ UNCHANGED <<leases, alias, generation, revision, attached, now, wall, up,
                 disk, shown>>

\* NewTaskPresenceID fails: the call returns at once.  What earlier entries of
\* the batch changed stays, and no revision announces it.
IdentityFails ==
  /\ EntropyMayFail
  /\ Reporting
  /\ WellFormed(Head(call.reports))
  /\ TaskAt(CallKey(Head(call.reports).session)) = NoTask
  /\ call' = NoCall
  /\ UNCHANGED <<tasks, byNative, leases, alias, generation, revision>>
  /\ Release
  /\ UNCHANGED outside

EndSession ==
  /\ up /\ call # NoCall /\ call.reports = <<>> /\ call.ends # <<>>
  /\ LET k == CallKey(Head(call.ends))
     IN IF byNative[k] # NoID
        THEN /\ End({byNative[k]})
             /\ call' = [call EXCEPT !.ends = Tail(@), !.changed = TRUE]
        ELSE /\ call' = [call EXCEPT !.ends = Tail(@)]
             /\ UNCHANGED <<tasks, byNative, alias>>
  /\ UNCHANGED <<leases, generation, revision, shown>> /\ UNCHANGED outside

FinishApply ==
  /\ up /\ call # NoCall /\ call.reports = <<>> /\ call.ends = <<>>
  /\ IF call.changed THEN Bump ELSE UNCHANGED revision
  /\ call' = NoCall
  /\ UNCHANGED <<tasks, byNative, leases, alias, generation>>
  /\ Release
  /\ UNCHANGED outside

-----------------------------------------------------------------------------
(* Dismissal, aliases, capabilities, retention *)

\* Mutant: work in progress can be acknowledged.
AcknowledgeAny(id) ==
  /\ Free
  /\ id \in Live
  /\ EndAndBump({id})
  /\ UNCHANGED <<leases, generation, call>> /\ UNCHANGED outside

Acknowledge(id) ==
  /\ Free
  /\ id \in Live /\ IsTerminal(tasks[id].state)
  /\ EndAndBump({id})
  /\ UNCHANGED <<leases, generation, call>> /\ UNCHANGED outside

\* Set aside for as long as state and reason stay what they are.
Snoozed(t) ==
  [t EXCEPT !.snoozed = TRUE, !.snoozeState = t.state, !.snoozeReason = t.reason,
            !.updatedAt = wall]

\* A second Snooze of the same episode succeeds and changes nothing.
Snooze(id) ==
  /\ Free
  /\ id \in Live /\ tasks[id].state = "needs_input" /\ ~tasks[id].snoozed
  /\ CanBump /\ Bump
  /\ tasks' = [tasks EXCEPT ![id] = Snoozed(@)]
  /\ Release
  /\ UNCHANGED <<byNative, leases, alias, generation, call>> /\ UNCHANGED outside

\* clean is the sanitized alias; NoTitle removes the alias and keeps the title.
SetAlias(id, clean) ==
  /\ Free
  /\ id \in Live
  /\ CanBump /\ Bump
  /\ alias' = [alias EXCEPT ![id] = clean]
  /\ tasks' = IF clean = NoTitle THEN tasks
              ELSE [tasks EXCEPT ![id].title = clean]
  /\ Release
  /\ UNCHANGED <<byNative, leases, generation, call>> /\ UNCHANGED outside

SetCapabilities(id, caps) ==
  /\ Free
  /\ id \in Live /\ tasks[id].caps # caps
  /\ CanBump /\ Bump
  /\ tasks' = [tasks EXCEPT ![id].caps = caps]
  /\ Release
  /\ UNCHANGED <<byNative, leases, alias, generation, call>> /\ UNCHANGED outside

Terminals == {id \in Live : IsTerminal(tasks[id].state)}

\* UpdatedAt is stamped with now.UTC(), which drops the monotonic reading: ages
\* are differences of wall clock times.
Aged == {id \in Terminals : wall - tasks[id].updatedAt > TerminalTTL}

\* What EnforceRetention may evict: every aged task and, beyond the bound, the
\* oldest of the rest (the stable sort over a map leaves ties open).
Evictions ==
  LET Kept == Terminals \ Aged
      Excess == IF Cardinality(Kept) > TerminalFIFO
                THEN Cardinality(Kept) - TerminalFIFO ELSE 0
  IN {Aged \cup E : E \in {F \in SUBSET Kept :
         /\ Cardinality(F) = Excess
         /\ \A e \in F, k \in Kept \ F : tasks[e].updatedAt <= tasks[k].updatedAt}}

EnforceRetention ==
  /\ Free
  /\ \E ids \in Evictions : ids # {} /\ EndAndBump(ids)
  /\ UNCHANGED <<leases, generation, call>> /\ UNCHANGED outside

-----------------------------------------------------------------------------
(* The process: a clean shutdown saves the aliases, a crash does not; a start *)
(* persists the next generation before the core exists.                       *)

Forget ==
  /\ tasks' = [id \in TaskIDs |-> NoTask]
  /\ byNative' = [k \in Keys |-> NoID]
  /\ leases' = NoLeases
  /\ alias' = [id \in TaskIDs |-> NoTitle]
  /\ call' = NoCall

Stop(saved) ==
  /\ up /\ disk.generation < MaxGeneration
  /\ up' = FALSE
  /\ disk' = saved
  /\ Forget
  /\ UNCHANGED <<generation, revision, minted, attached, now, wall, shown>>

Crash    == Stop(disk)
Shutdown == call = NoCall /\ Stop([generation |-> generation, alias |-> alias])

\* loadAndAdvanceState succeeded, a later step of NewService failed.
StartFails ==
  /\ ~up /\ disk.generation < MaxGeneration
  /\ disk' = [disk EXCEPT !.generation = @ + 1]
  /\ UNCHANGED <<memory, minted, attached, now, wall, up, shown>>

\* Mutant: the new generation is used before it is on disk.
StartUnsaved ==
  /\ ~up
  /\ generation' = disk.generation + 1
  /\ revision' = 0
  /\ alias' = disk.alias
  /\ leases' = [NoLeases EXCEPT ![LocalLease] = NewLease(LocalAdapter, TRUE)]
  /\ up' = TRUE
  /\ UNCHANGED <<tasks, byNative, call, minted, attached, now, wall, disk>>
  /\ Release

Start ==
  /\ ~up
  /\ disk' = [disk EXCEPT !.generation = @ + 1]
  /\ generation' = disk.generation + 1
  /\ revision' = 0
  /\ alias' = disk.alias
  /\ leases' = [NoLeases EXCEPT ![LocalLease] = NewLease(LocalAdapter, TRUE)]
  /\ up' = TRUE
  /\ UNCHANGED <<tasks, byNative, call, minted, attached, now, wall>>
  /\ Release

\* Time passes on both clocks.
Tick ==
  /\ now < MaxNow /\ wall < MaxNow
  /\ now' = now + 1 /\ wall' = wall + 1
  /\ UNCHANGED <<memory, minted, attached, up, disk, shown>>

\* The wall clock is set back, by hand or by a time service: once, by a unit, and
\* at the end of the time modelled.
StepClock ==
  /\ ClockMayStep
  /\ now = MaxNow /\ wall = now /\ wall > 0
  /\ wall' = wall - 1
  /\ UNCHANGED <<memory, minted, attached, now, up, disk, shown>>

-----------------------------------------------------------------------------
Dismissals == \E id \in TaskIDs : Acknowledge(id)

Others ==
  \/ \E a \in Adapters : Attach(a)
  \/ \E l \in LeaseIDs : Renew(l)
  \/ \E l \in LeaseIDs : Detach(l)
  \/ ExpireLeases
  \/ \E l \in LeaseIDs, seq \in 0..MaxSeq, b \in Batches : BeginApply(l, seq, b)
  \/ SkipReport
  \/ UpsertKnown
  \/ UpsertNew
  \/ IdentityFails
  \/ EndSession
  \/ FinishApply
  \/ \E id \in TaskIDs : Snooze(id)
  \/ \E id \in TaskIDs, clean \in AliasTitles \cup {NoTitle} : SetAlias(id, clean)
  \/ \E id \in TaskIDs, caps \in Capabilities : SetCapabilities(id, caps)
  \/ EnforceRetention
  \/ Crash
  \/ Shutdown
  \/ StartFails
  \/ Start
  \/ Tick
  \/ StepClock

Next == Dismissals \/ Others

Spec == Init /\ [][Next]_vars

-----------------------------------------------------------------------------
(* Properties *)

\* Types of every variable.
TypeOK ==
  /\ tasks \in [TaskIDs -> Task \cup {NoTask}]
  /\ byNative \in [Keys -> TaskIDs \cup {NoID}]
  /\ leases \in [LeaseIDs -> Lease \cup {NoLease}]
  /\ alias \in [TaskIDs -> Titles \cup {NoTitle}]
  /\ generation \in Nat /\ revision \in Nat
  /\ call = NoCall \/ call \in Call
  /\ minted \in 0..MaxMinted /\ attached \in 0..MaxLeases
  /\ now \in 0..MaxNow /\ wall \in 0..MaxNow
  /\ up \in BOOLEAN
  /\ disk \in [generation : Nat, alias : [TaskIDs -> Titles \cup {NoTitle}]]
  /\ shown \in FeedContent

\* The private routing map and the tasks are each other's inverse: a report, an
\* end or a focus request never reaches the task of another session, and no task
\* is left that its session cannot reach (byNative against tasks, endLocked).
RoutingExact ==
  /\ \A k \in Keys : byNative[k] # NoID =>
       byNative[k] \in Live /\ tasks[byNative[k]].key = k
  /\ \A id \in Live : byNative[tasks[id].key] = id

\* Every presence is owned by a lease that still exists and that speaks for its
\* harness, so each one ends when its adapter goes (Detach, ExpireLeases).
OwnersLive ==
  \A id \in Live : LET l == leases[tasks[id].lease] IN
    l # NoLease /\ l.adapter = tasks[id].key[1]

\* The aggregate state of a snapshot is the state of the Featured Task whenever
\* there is one: Snapshot's sort and Featured's scan agree, however ties fall.
AggregateIsFeatured ==
  FeaturedChoices # {} =>
    AggregateStates = {tasks[id].state : id \in FeaturedChoices}

\* An approved alias is the title for as long as the presence lives, whatever
\* titles its adapter reports (SetAlias, apply).
AliasWins == \A id \in Live : alias[id] # NoTitle => tasks[id].title = alias[id]

\* Only a report of a session puts its presence into a state: leases that end,
\* retention, dismissal and restarts never fabricate completion or failure.
NoFabrication ==
  [][\A id \in Live' :
       (tasks[id] = NoTask \/ tasks'[id].state # tasks[id].state
                          \/ tasks'[id].reason # tasks[id].reason)
       => /\ Reporting
          /\ tasks'[id].key = CallKey(Head(call.reports).session)
          /\ tasks'[id].state = Head(call.reports).state
          /\ tasks'[id].reason = Head(call.reports).reason]_vars

\* A snooze lasts exactly as long as state and reason do: repeated identical
\* reports and unrelated changes keep it, any other change drops it.
SnoozeEpisode ==
  [][\A id \in Live \cap Live' : tasks[id].snoozed =>
       (tasks'[id].snoozed <=> /\ tasks'[id].state = tasks[id].state
                               /\ tasks'[id].reason = tasks[id].reason)]_vars

\* Unfinished work leaves the feed only when its own session is ended by a
\* report, its lease ends, or the process does; never by retention or dismissal.
WorkNeverDropped ==
  [][\A id \in Live \ Live' : IsTerminal(tasks[id].state)
       \/ ~up'
       \/ leases'[tasks[id].lease] = NoLease
       \/ /\ call # NoCall /\ call.ends # <<>>
          /\ tasks[id].key = CallKey(Head(call.ends))]_vars

\* What readers are shown is a versioned source: it changes only together with
\* <<generation, revision>>, which only grows, restarts and crashes included.  The
\* one exception is a batch that ends in the middle, when no identity can be made.
Source == INSTANCE VersionedSource
  WITH Content <- FeedContent, Empty <- [id \in TaskIDs |-> NoTask],
       content <- shown

PublishesVersions ==
  Source!Init /\ [][Source!Next \/ IdentityFails]_(Source!vars)
=============================================================================
