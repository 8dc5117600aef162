----------------------------- MODULE DeviceMerge -----------------------------
(***************************************************************************)
(* The device between its feeds and its screen (firmware/main):            *)
(* app_network.c keeps one slot per paired feed, each fed by a websocket   *)
(* task of its own, merges the slots under merge_lock and posts the result *)
(* on the UI queue of app_main.c.                                          *)
(*                                                                         *)
(* What is done under merge_lock is one action.  handle_snapshot parses    *)
(* into slot->snapshot before it takes the lock, so another slot's rebuild *)
(* may read a contribution that is half written or not yet checked.        *)
(***************************************************************************)
EXTENDS DeviceTasks, Integers, Sequences, FiniteSets, SequencesExt

CONSTANTS
  SlotCount,       \* APP_MAX_FEED_SLOTS
  Frames,          \* of each slot: the snapshots its feed may send
  Blank,           \* the id of a task that is all zeros
  QueueDepth,      \* UI_QUEUE_DEPTH
  MaxMerges        \* bound: feeds fall silent after this many rebuilds

Slots == 0..(SlotCount - 1)

Task == [id : TaskIDs \cup {Blank}, rank : Ranks]

Frame == [generation : Nat, revision : Nat, tasks : Seq(Task)]

ASSUME DeviceAssumption ==
  /\ SlotCount \in Nat \ {0} /\ MaxTasks \in Nat /\ QueueDepth \in Nat \ {0}
  /\ MaxMerges \in Nat /\ Blank \notin TaskIDs
  /\ Frames \in [Slots -> SUBSET Frame]

VARIABLES
  snapshot,   \* slot->snapshot
  order,      \* slot->last_generation and last_revision, None until has_order
  stale,      \* slot->stale
  valid,      \* slot->contribution_valid
  connected,  \* slot->connected
  newest,     \* history: the highest order handled on the slot
  pc,         \* where each slot's websocket task is
  incoming,   \* the candidate it is copying
  counted,    \* the count of its post_network_state
  netCount,   \* the count of the network task's own post, or None
  merged,     \* merged_snapshot
  queue,      \* the UI queue
  lost,       \* history: the latest snapshot was discarded
  display,    \* the snapshot the UI task took last
  status      \* the number of connected feeds it was told last

slotVars == <<snapshot, order, stale, valid, newest>>
netVars == <<connected, counted, netCount>>
tasks == <<pc, incoming>>
uiVars == <<queue, lost, display, status>>
vars == <<slotVars, netVars, tasks, merged, uiVars>>

MergedTask == [id : TaskIDs \cup {Blank}, rank : Ranks, slot : Slots,
               generation : Nat, revision : Nat]

Merged == [seq : Nat, tasks : Seq(MergedTask)]

Event == [seq : Nat \ {0}, tasks : Seq(MergedTask)] \cup [feeds : 0..SlotCount]

IsSnapshot(e) == "seq" \in DOMAIN e

Zero == [generation |-> 0, revision |-> 0, tasks |-> <<>>]

Init ==
  /\ snapshot = [s \in Slots |-> Zero] /\ order = [s \in Slots |-> None]
  /\ stale = [s \in Slots |-> FALSE] /\ valid = [s \in Slots |-> FALSE]
  /\ connected = [s \in Slots |-> FALSE] /\ newest = [s \in Slots |-> None]
  /\ pc = [s \in Slots |-> "idle"] /\ incoming = [s \in Slots |-> Zero]
  /\ counted = [s \in Slots |-> 0] /\ netCount = None
  /\ merged = [seq |-> 0, tasks |-> <<>>]
  /\ queue = <<>> /\ lost = FALSE
  /\ display = merged /\ status = 0

-----------------------------------------------------------------------------
(* The merge. *)

OriginOlder(a, b) ==
  a.generation < b.generation \/ (a.generation = b.generation /\ a.revision < b.revision)

\* Mutant: the first slot's copy stays.
FirstIsNewer(candidate, current) == candidate.slot < current.slot

CandidateIsNewer(candidate, current) ==
  \/ OriginOlder(current, candidate)
  \/ ~OriginOlder(candidate, current) /\ candidate.slot < current.slot

FindWorst(ts) ==
  CHOOSE w \in DOMAIN ts : \A i \in DOMAIN ts :
    ts[w].rank < ts[i].rank \/ (ts[w].rank = ts[i].rank /\ w <= i)

Insert(ts, candidate) ==
  LET existing == {i \in DOMAIN ts : ts[i].id = candidate.id} IN
  IF existing # {} THEN
    LET i == CHOOSE j \in existing : \A k \in existing : j <= k IN
    IF CandidateIsNewer(candidate, ts[i]) THEN [ts EXCEPT ![i] = candidate] ELSE ts
  ELSE IF Len(ts) < MaxTasks THEN Append(ts, candidate)
  ELSE IF ts # <<>> /\ candidate.rank > ts[FindWorst(ts)].rank
    THEN [ts EXCEPT ![FindWorst(ts)] = candidate]
    ELSE ts

Candidates(s, f) ==
  [i \in DOMAIN f.tasks |->
    [id |-> f.tasks[i].id, rank |-> f.tasks[i].rank, slot |-> s,
     generation |-> f.generation, revision |-> f.revision]]

InsertAll(ts, candidates) ==
  LET after[k \in 0..Len(candidates)] ==
        IF k = 0 THEN ts ELSE Insert(after[k - 1], candidates[k])
  IN after[Len(candidates)]

\* The tasks of the contributions in `view`, slot by slot.
MergedTasks(contributing, view) ==
  LET upTo[n \in 0..SlotCount] ==
        IF n = 0 THEN <<>>
        ELSE IF contributing[n - 1]
          THEN InsertAll(upTo[n - 1], Candidates(n - 1, view[n - 1]))
        ELSE upTo[n - 1]
  IN upTo[SlotCount]

\* What a reader may find in a snapshot while memcpy replaces `old` by `new`.
TaskAt(f, i) == IF i <= Len(f.tasks) THEN f.tasks[i] ELSE [id |-> Blank, rank |-> 0]

Torn(old, new) ==
  UNION {{[generation |-> h.generation, revision |-> h.revision,
           tasks |-> [i \in DOMAIN pick |-> TaskAt(pick[i], i)]] :
            pick \in [1..Len(n.tasks) -> {old, new}]} : h \in {old, new}, n \in {old, new}}

Readable(s) == IF pc[s] = "copying" THEN Torn(snapshot[s], incoming[s]) ELSE {snapshot[s]}

\* What the owner of merge_lock may read of all slots.
Views ==
  {v \in [Slots -> UNION {Readable(s) : s \in Slots}] : \A s \in Slots : v[s] \in Readable(s)}

-----------------------------------------------------------------------------
(* The UI queue. *)

\* Mutant: the event goes to the front of a full queue.
PostFirst(e) ==
  \/ /\ Len(queue) < QueueDepth
     /\ queue' = Append(queue, e)
     /\ lost' = (lost /\ ~IsSnapshot(e))
  \/ /\ Len(queue) = QueueDepth
     /\ queue' = <<e>> \o Tail(queue)
     /\ lost' = (lost /\ ~IsSnapshot(e))

\* app_ui_post.  If the queue is full its oldest event goes, unless the memory
\* to take it out cannot be had; between taking it out and sending, another
\* task may take the room.
Post(e) ==
  \/ /\ Len(queue) < QueueDepth
     /\ queue' = Append(queue, e)
     /\ lost' = (lost /\ ~IsSnapshot(e))
  \/ /\ Len(queue) = QueueDepth
     /\ queue' \in {Append(Tail(queue), e), Tail(queue), queue}
     /\ lost' = IF IsSnapshot(e) THEN e \notin ToSet(queue')
                ELSE lost \/ \E d \in ToSet(queue) \ ToSet(queue') :
                               IsSnapshot(d) /\ d.seq = merged.seq

\* rebuild_merged_snapshot_locked and post_merged_snapshot_locked.
RebuildAndPost(contributing) ==
  \E v \in Views :
    /\ merged' = [seq |-> merged.seq + 1, tasks |-> MergedTasks(contributing, v)]
    /\ Post(merged')

\* The UI task takes an event.
Receive ==
  /\ queue # <<>>
  /\ queue' = Tail(queue)
  /\ IF IsSnapshot(Head(queue))
       THEN display' = Head(queue) /\ UNCHANGED status
       ELSE status' = Head(queue).feeds /\ UNCHANGED display
  /\ UNCHANGED <<slotVars, netVars, tasks, merged, lost>>

-----------------------------------------------------------------------------
(* A slot's websocket task. *)

\* A whole, valid frame has come; parsing ends with the copy into the slot.
Arrive(s) ==
  /\ pc[s] = "idle" /\ connected[s] /\ merged.seq < MaxMerges
  /\ \E f \in Frames[s] : incoming' = [incoming EXCEPT ![s] = f]
  /\ pc' = [pc EXCEPT ![s] = "copying"]
  /\ UNCHANGED <<slotVars, netVars, merged, uiVars>>

Copied(s) ==
  /\ pc[s] = "copying"
  /\ snapshot' = [snapshot EXCEPT ![s] = incoming[s]]
  /\ incoming' = [incoming EXCEPT ![s] = Zero]
  /\ pc' = [pc EXCEPT ![s] = "parsed"]
  /\ UNCHANGED <<order, stale, valid, newest, netVars, merged, uiVars>>

OrderOf(f) == [generation |-> f.generation, revision |-> f.revision]

IsNewer(s) == IF order[s] = None THEN TRUE ELSE OriginOlder(order[s], snapshot[s])

IsEqual(s) == order[s] = OrderOf(snapshot[s])

Newest(s) ==
  IF newest[s] = None \/ OriginOlder(newest[s], snapshot[s])
    THEN OrderOf(snapshot[s]) ELSE newest[s]

\* Mutant: only the generation is compared.
AcceptableByGeneration(s) ==
  IF order[s] = None THEN TRUE ELSE snapshot[s].generation >= order[s].generation

Acceptable(s) == IsNewer(s) \/ (IsEqual(s) /\ ~stale[s])

Accept(s) ==
  /\ pc[s] = "parsed" /\ Acceptable(s)
  /\ order' = [order EXCEPT ![s] = OrderOf(snapshot[s])]
  /\ stale' = [stale EXCEPT ![s] = FALSE]
  /\ valid' = [valid EXCEPT ![s] = TRUE]
  /\ newest' = [newest EXCEPT ![s] = Newest(s)]
  /\ RebuildAndPost(valid')
  /\ pc' = [pc EXCEPT ![s] = "idle"]
  /\ UNCHANGED <<snapshot, netVars, incoming, display, status>>

\* A regression drops this complete contribution.
Reject(s) ==
  /\ pc[s] = "parsed" /\ ~Acceptable(s)
  /\ stale' = [stale EXCEPT ![s] = TRUE]
  /\ valid' = [valid EXCEPT ![s] = FALSE]
  /\ newest' = [newest EXCEPT ![s] = Newest(s)]
  /\ RebuildAndPost(valid')
  /\ pc' = [pc EXCEPT ![s] = "idle"]
  /\ UNCHANGED <<snapshot, order, netVars, incoming, display, status>>

Open(s) ==
  /\ pc[s] = "idle" /\ ~connected[s]
  /\ connected' = [connected EXCEPT ![s] = TRUE]
  /\ pc' = [pc EXCEPT ![s] = "report"]
  /\ UNCHANGED <<slotVars, counted, netCount, incoming, merged, uiVars>>

\* Mutant: the merge is left as it was.
LoseQuietly(s) ==
  /\ pc[s] = "idle"
  /\ connected' = [connected EXCEPT ![s] = FALSE]
  /\ valid' = [valid EXCEPT ![s] = FALSE]
  /\ pc' = [pc EXCEPT ![s] = "report"]
  /\ UNCHANGED <<snapshot, order, stale, newest, counted, netCount, incoming,
                 merged, uiVars>>

\* The connection, or an attempt to connect, fails.
Lose(s) ==
  /\ pc[s] = "idle" /\ merged.seq < MaxMerges
  /\ connected' = [connected EXCEPT ![s] = FALSE]
  /\ valid' = [valid EXCEPT ![s] = FALSE]
  /\ IF valid[s] THEN RebuildAndPost(valid') ELSE UNCHANGED <<merged, queue, lost>>
  /\ pc' = [pc EXCEPT ![s] = "report"]
  /\ UNCHANGED <<snapshot, order, stale, newest, counted, netCount, incoming,
                 display, status>>

-----------------------------------------------------------------------------
(* post_network_state, and the network task's report every five seconds. *)

ConnectedFeeds == Cardinality({s \in Slots : connected[s]})

Count(s) ==
  /\ pc[s] = "report"
  /\ counted' = [counted EXCEPT ![s] = ConnectedFeeds]
  /\ pc' = [pc EXCEPT ![s] = "counted"]
  /\ UNCHANGED <<slotVars, connected, netCount, incoming, merged, uiVars>>

\* The event is static: another task on its way through post_network_state may
\* fill it before it is copied into the queue.
Report(s) ==
  /\ pc[s] = "counted"
  /\ \E o \in Slots : pc[o] = "counted" /\ Post([feeds |-> counted[o]])
  /\ counted' = [counted EXCEPT ![s] = 0]
  /\ pc' = [pc EXCEPT ![s] = "idle"]
  /\ UNCHANGED <<slotVars, connected, netCount, incoming, merged, display, status>>

CountAll ==
  /\ netCount = None
  /\ netCount' = ConnectedFeeds
  /\ UNCHANGED <<slotVars, connected, counted, tasks, merged, uiVars>>

\* Mutant: only when no feed is connected.
ReportIfNone ==
  /\ netCount # None
  /\ netCount' = None
  /\ IF netCount = 0 THEN Post([feeds |-> netCount]) ELSE UNCHANGED <<queue, lost>>
  /\ UNCHANGED <<slotVars, connected, counted, tasks, merged, display, status>>

ReportAll ==
  /\ netCount # None
  /\ Post([feeds |-> netCount])
  /\ netCount' = None
  /\ UNCHANGED <<slotVars, connected, counted, tasks, merged, display, status>>

-----------------------------------------------------------------------------
Next ==
  \/ \E s \in Slots : \/ Arrive(s) \/ Copied(s) \/ Accept(s) \/ Reject(s)
                      \/ Open(s) \/ Lose(s) \/ Count(s) \/ Report(s)
  \/ CountAll \/ ReportAll \/ Receive

Spec == Init /\ [][Next]_vars

\* The network task goes on reporting, the UI timer goes on taking events, and
\* a websocket task does not stop between counting and reporting.
Fairness ==
  /\ WF_vars(CountAll) /\ WF_vars(ReportAll) /\ WF_vars(Receive)
  /\ \A s \in Slots : WF_vars(Report(s))

FairSpec == Spec /\ Fairness

-----------------------------------------------------------------------------
(* Properties. *)

\* Types; the queue never holds more than UI_QUEUE_DEPTH and the merge never
\* more than APP_MAX_TASKS.
TypeOK ==
  /\ snapshot \in [Slots -> Frame] /\ incoming \in [Slots -> Frame]
  /\ \A s \in Slots : order[s] \in {None} \cup [generation : Nat, revision : Nat]
  /\ \A s \in Slots : newest[s] \in {None} \cup [generation : Nat, revision : Nat]
  /\ stale \in [Slots -> BOOLEAN] /\ valid \in [Slots -> BOOLEAN]
  /\ connected \in [Slots -> BOOLEAN]
  /\ pc \in [Slots -> {"idle", "copying", "parsed", "report", "counted"}]
  /\ counted \in [Slots -> 0..SlotCount]
  /\ netCount \in {None} \cup 0..SlotCount
  /\ merged \in Merged /\ display \in Merged /\ Len(merged.tasks) <= MaxTasks
  /\ queue \in Seq(Event) /\ Len(queue) <= QueueDepth
  /\ lost \in BOOLEAN /\ status \in 0..SlotCount

Writing == {s \in Slots : pc[s] \in {"copying", "parsed"}}

\* While no websocket task is between its copy and the lock, what was merged
\* last is the merge of what the slots hold: whatever a rebuild read half
\* written is rebuilt (handle_snapshot, app_network.c:278-319).
MergedIsCurrent ==
  Writing = {} => merged.tasks = MergedTasks(valid, snapshot)

\* A contribution in the merge is of the highest order the slot has ever had,
\* over lost connections and regressions (app_network.c:293-315, 340-346).
ContributionIsNewest ==
  \A s \in Slots \ Writing :
    valid[s] => connected[s] /\ ~stale[s] /\ order[s] = newest[s]
                /\ order[s] = OrderOf(snapshot[s])

\* Snapshots reach the UI task in the order they were made, and the last one
\* made is displayed, queued, or was discarded at a full queue
\* (app_network.c:220-225, app_main.c:29-46).
SnapshotsInOrder ==
  LET queued == {i \in DOMAIN queue : IsSnapshot(queue[i])} IN
  /\ \A i \in queued : display.seq < queue[i].seq /\ queue[i].seq <= merged.seq
  /\ \A i, j \in queued : i < j => queue[i].seq < queue[j].seq
  /\ ~lost => merged.seq \in {display.seq} \cup {queue[i].seq : i \in queued}

\* The number of feeds shown is right in the end, although the reports of the
\* websocket tasks overtake each other and share one event
\* (app_network.c:238-254, 645-668).
StatusConverges ==
  \A n \in 0..SlotCount : <>[](ConnectedFeeds = n) => <>[](status = n)

\* What is merged, queued and displayed is a list as the screen takes it
\* (UIAssumption of DeviceUI), also where a contribution was read half written: no
\* task is there twice, and there are no more than the screen has records for
\* (app_network.c:187-214, app_ui.c:265-273).
OneCopyEach ==
  \A e \in {merged, display} \cup ToSet(queue) : IsSnapshot(e) =>
    /\ Len(e.tasks) <= MaxTasks
    /\ Cardinality({e.tasks[i].id : i \in DOMAIN e.tasks}) = Len(e.tasks)

\* While there is room for all of them, every task that a slot contributes is
\* in the merge, in no copy of a lower origin order
\* (docs/PROTOCOL.md:173-175, app_network.c:110-119, 171-218).
NewestCopyWins ==
  LET contributed == {s \in Slots : valid[s]}
      ids == UNION {{t.id : t \in ToSet(snapshot[s].tasks)} : s \in contributed}
  IN Writing = {} /\ Cardinality(ids) <= MaxTasks =>
       \A s \in contributed : \A t \in ToSet(snapshot[s].tasks) :
         \E m \in ToSet(merged.tasks) : m.id = t.id /\ ~OriginOlder(m, snapshot[s])
=============================================================================
