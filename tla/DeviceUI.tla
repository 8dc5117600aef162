------------------------------ MODULE DeviceUI -------------------------------
(***************************************************************************)
(* The device's screen (firmware/main/app_ui.c): the LVGL task applies     *)
(* each merged snapshot it takes from the UI queue, orders the tasks, and  *)
(* features one of them with the pet; touches browse, focus and dismiss.   *)
(* Requests go through focus_queue to the network task (app_network.c).    *)
(*                                                                         *)
(* LVGL calls every handler from one task, so a handler is one action.     *)
(* Snapshots may come between the press of a finger, the moment it has     *)
(* been down long enough, and its release.                                 *)
(***************************************************************************)
EXTENDS DeviceTasks, Sequences, FiniteSets, SequencesExt

CONSTANTS
  NoTask,
  Snapshots,     \* the task lists DeviceMerge may post
  Focusable,     \* the tasks that advertise focus
  FocusDepth,    \* the length of focus_queue
  MaxEntered     \* bound: snapshots come while priority_sequence is below this

Ready == 2
Blocked == 3
NeedsInput == 4
UITask == [id : TaskIDs, rank : Ranks, snoozed : BOOLEAN, updated : Nat]

PriorityRecord == [rank : Ranks, entered : Nat]

IDs(ts) == {ts[i].id : i \in DOMAIN ts}

\* What a finger can be on: the pet or a row of the tray.
Pet == 0
Target == 0..MaxTasks

ASSUME UIAssumption ==
  /\ NoTask \notin TaskIDs /\ None \notin PriorityRecord /\ None \notin Target
  /\ Focusable \subseteq TaskIDs
  /\ MaxTasks \in Nat /\ FocusDepth \in Nat /\ MaxEntered \in Nat
  /\ Snapshots \subseteq Seq(UITask)
  /\ \A ts \in Snapshots : Len(ts) <= MaxTasks /\ Cardinality(IDs(ts)) = Len(ts)

Capability == {"focus", "acknowledge", "snooze"}

VARIABLES
  shown,      \* s_ui.snapshot.tasks, in display order
  priority,   \* s_ui.priority: of each task its record, or None
  entered,    \* priority_sequence
  manual,     \* manual_task_id, NoTask unless manual_override
  featured,   \* featured_task_id
  dismissed,  \* dismissed_task_id
  touch,      \* the object the finger is on, or None
  long,       \* whether LVGL has reported it as a long press
  sent,       \* history: the requests of this gesture
  switched,   \* history: the pet changed to another task under the finger
  requests    \* focus_queue

touchVars == <<touch, long, sent, requests>>
screen == <<shown, priority, entered, manual, featured, dismissed, touchVars, switched>>

UITypeOK ==
  /\ shown \in Seq(UITask) /\ Len(shown) <= MaxTasks
  /\ priority \in [TaskIDs -> {None} \cup PriorityRecord]
  /\ entered \in Nat
  /\ {manual, featured, dismissed} \subseteq TaskIDs \cup {NoTask}
  /\ touch \in Target \cup {None} /\ long \in BOOLEAN
  /\ sent \in SUBSET Capability /\ switched \in BOOLEAN
  /\ requests \in Seq([task : TaskIDs, capability : Capability])
  /\ Len(requests) <= FocusDepth

UIInit ==
  /\ shown = <<>> /\ priority = [t \in TaskIDs |-> None] /\ entered = 0
  /\ manual = NoTask /\ featured = NoTask /\ dismissed = NoTask
  /\ touch = None /\ long = FALSE /\ sent = {} /\ switched = FALSE
  /\ requests = <<>>

-----------------------------------------------------------------------------
(* The priority queue. *)

\* A queue is [priority, entered], the two fields of s_ui.
Queued(q) == {t \in TaskIDs : q.priority[t] # None}

Enter(q, task) ==
  [priority |-> [q.priority EXCEPT ![task.id] = [rank |-> task.rank, entered |-> q.entered + 1]],
   entered  |-> q.entered + 1]

\* Mutant: every update moves a task to the end of its rank.
RecordAnew(q, task) ==
  IF q.priority[task.id] = None /\ Cardinality(Queued(q)) >= MaxTasks THEN q
  ELSE Enter(q, task)

Record(q, task) ==
  IF q.priority[task.id] = None
    THEN IF Cardinality(Queued(q)) < MaxTasks THEN Enter(q, task) ELSE q
  ELSE IF q.priority[task.id].rank # task.rank THEN Enter(q, task) ELSE q

\* Mutant: records of tasks that are gone are kept until they are needed again.
KeepAll(q, next) == q

Forget(q, next) ==
  [q EXCEPT !.priority = [t \in TaskIDs |-> IF t \in IDs(next) THEN @[t] ELSE None]]

Pairs(ts) == (DOMAIN ts) \X (DOMAIN ts)

\* ts sorted: <<i, j>> \in B if the task at i belongs before the one at j; tasks
\* that B does not tell apart keep their order.
Sorted(ts, B) ==
  LET D == DOMAIN ts
      before == {p \in Pairs(ts) : p \in B \/ (<<p[2], p[1]>> \notin B /\ p[1] < p[2])}
      order == CHOOSE o \in [D -> D] : \A k, l \in D : k < l => <<o[k], o[l]>> \in before
  IN [k \in D |-> ts[order[k]]]

\* The known tasks, then the new ones, latest updated first.
Arrivals(q, next) ==
  LET known(i) == q.priority[next[i].id] # None
  IN Sorted(next, {p \in Pairs(next) :
              ~known(p[2]) /\ (known(p[1]) \/ next[p[1]].updated > next[p[2]].updated)})

UpdateQueue(q, next) ==
  LET kept == Forget(q, next)
      arrivals == Arrivals(kept, next)
      after[k \in 0..Len(arrivals)] ==
        IF k = 0 THEN kept ELSE Record(after[k - 1], arrivals[k])
  IN after[Len(arrivals)]

-----------------------------------------------------------------------------
(* Order and feature. *)

\* task_display_before; the last line is for tasks without a record.
Before(q, x, y) ==
  LET p == q.priority[x.id] r == q.priority[y.id] IN
  IF p # None /\ r # None /\ p.rank # r.rank THEN p.rank > r.rank
  ELSE IF p # None /\ r # None /\ p.entered # r.entered THEN p.entered < r.entered
  ELSE x.updated > y.updated

\* sort_snapshot_tasks, an insertion sort.
Ordered(q, ts) ==
  Sorted(ts, {p \in Pairs(ts) : Before(q, ts[p[1]], ts[p[2]])})

\* automatic_feature_index: the first task that is queued and not snoozed.
Automatic(q, ts) ==
  LET eligible == {i \in DOMAIN ts : ~ts[i].snoozed /\ q.priority[ts[i].id] # None}
      leads(i, j) ==
        LET p == q.priority[ts[i].id] r == q.priority[ts[j].id] IN
        p.rank > r.rank \/ (p.rank = r.rank /\ p.entered <= r.entered)
  IN IF eligible = {} THEN NoTask
     ELSE ts[CHOOSE i \in eligible : \A j \in eligible : leads(i, j)].id

\* Mutant: a manual choice stays until the task is gone.
ManualStays(q, ts, chosen) == IF chosen \in IDs(ts) THEN chosen ELSE NoTask

\* New urgency reclaims the main pet from a manual browse.
ManualAfter(q, ts, chosen) ==
  LET automatic == Automatic(q, ts) IN
  IF chosen \notin IDs(ts) THEN NoTask
  ELSE IF /\ automatic # NoTask /\ q.priority[chosen] # None
          /\ q.priority[automatic].rank > q.priority[chosen].rank
    THEN NoTask
  ELSE chosen

\* reconcile_featured_task
Reconcile(q, ts, chosen) ==
  /\ manual' = ManualAfter(q, ts, chosen)
  /\ featured' = IF manual' # NoTask THEN manual' ELSE Automatic(q, ts)

\* apply_snapshot
Apply(next) ==
  LET q == UpdateQueue([priority |-> priority, entered |-> entered], next)
      ordered == Ordered(q, next)
  IN /\ entered < MaxEntered
     /\ priority' = q.priority /\ entered' = q.entered
     /\ shown' = ordered
     /\ Reconcile(q, ordered, manual)
     /\ switched' = (switched \/ (touch = Pet /\ featured' # featured))
     /\ UNCHANGED <<dismissed, touchVars>>

-----------------------------------------------------------------------------
(* Touches. *)

Press(target) ==
  /\ touch = None
  /\ target = Pet \/ target \in DOMAIN shown
  /\ touch' = target /\ long' = FALSE /\ sent' = {} /\ switched' = FALSE
  /\ UNCHANGED <<shown, priority, entered, manual, featured, dismissed, requests>>

\* featured_task_index
Featured ==
  IF featured \in IDs(shown) THEN featured
  ELSE Automatic([priority |-> priority, entered |-> entered], shown)

\* The task that is touched now, by the pet or by its row.
Touched ==
  IF touch = Pet THEN {i \in DOMAIN shown : shown[i].id = Featured}
  ELSE {touch} \cap DOMAIN shown

\* app_network_request_focus and _dismiss: the request goes, or focus_queue is
\* full.
Request(task, capability) ==
  /\ requests' = IF Len(requests) < FocusDepth
                   THEN Append(requests, [task |-> task, capability |-> capability])
                   ELSE requests
  /\ sent' = IF Len(requests) < FocusDepth THEN sent \cup {capability} ELSE sent

Dismissal(task) ==
  IF task.rank \in {Ready, Blocked} THEN "acknowledge" ELSE "snooze"

\* LV_EVENT_LONG_PRESSED, alike on the pet and on a row.
LongPress ==
  /\ touch # None /\ ~long
  /\ long' = TRUE
  /\ IF \E i \in Touched : shown[i].rank \in {Ready, Blocked, NeedsInput}
       THEN \E i \in Touched :
              /\ dismissed' = shown[i].id
              /\ Request(shown[i].id, Dismissal(shown[i]))
       ELSE UNCHANGED <<dismissed, requests, sent>>
  /\ UNCHANGED <<shown, priority, entered, manual, featured, touch, switched>>

\* Mutant: the release that follows a long press is a tap as well.
ReleasePetTwice ==
  /\ touch = Pet
  /\ touch' = None /\ long' = FALSE
  /\ IF \E i \in Touched : shown[i].id \in Focusable
       THEN \E i \in Touched : Request(shown[i].id, "focus")
       ELSE UNCHANGED <<requests, sent>>
  /\ UNCHANGED <<shown, priority, entered, manual, featured, dismissed, switched>>

\* LV_EVENT_RELEASED on the pet.
ReleasePet ==
  /\ touch = Pet
  /\ touch' = None /\ long' = FALSE
  /\ \/ /\ \E i \in Touched : shown[i].id = dismissed
        /\ dismissed' = NoTask
        /\ UNCHANGED <<requests, sent>>
     \/ /\ \A i \in Touched : shown[i].id # dismissed
        /\ IF \E i \in Touched : shown[i].id \in Focusable
             THEN \E i \in Touched : Request(shown[i].id, "focus")
             ELSE UNCHANGED <<requests, sent>>
        /\ UNCHANGED dismissed
  /\ UNCHANGED <<shown, priority, entered, manual, featured, switched>>

\* LV_EVENT_RELEASED on a row: it browses, and never asks a host for anything.
ReleaseRow ==
  /\ touch \notin {None, Pet}
  /\ touch' = None /\ long' = FALSE
  /\ IF Touched = {} THEN UNCHANGED <<dismissed, manual, featured>>
     ELSE /\ dismissed' = NoTask
          /\ IF shown[touch].id = dismissed THEN UNCHANGED <<manual, featured>>
             ELSE Reconcile([priority |-> priority, entered |-> entered], shown,
                            IF manual = shown[touch].id THEN NoTask ELSE shown[touch].id)
  /\ UNCHANGED <<shown, priority, entered, sent, switched, requests>>

\* The network task takes a request; it sends it if the slot is connected.
Transmit ==
  /\ requests # <<>>
  /\ requests' = Tail(requests)
  /\ UNCHANGED <<shown, priority, entered, manual, featured, dismissed, touch, long,
                 sent, switched>>

-----------------------------------------------------------------------------
UINext ==
  \/ \E next \in Snapshots : Apply(next)
  \/ \E target \in Target : Press(target)
  \/ LongPress \/ ReleasePet \/ ReleaseRow \/ Transmit

UISpec == UIInit /\ [][UINext]_screen

-----------------------------------------------------------------------------
(* Properties. *)

RankOf(t) == (CHOOSE task \in ToSet(shown) : task.id = t).rank

\* The pet features a task of the snapshot, and no task that is not snoozed is
\* more urgent, whatever was browsed before; it features none only if all are
\* snoozed (app_ui.c:338-440).
FeaturedIsMostUrgent ==
  IF featured = NoTask THEN \A task \in ToSet(shown) : task.snoozed
  ELSE /\ featured \in IDs(shown)
       /\ \A task \in ToSet(shown) : ~task.snoozed => task.rank <= RankOf(featured)

\* The 64 priority records are enough for any sequence of snapshots: exactly
\* the tasks shown are queued, each at its rank and place, and they are shown
\* in that order (app_ui.c:252-396).
QueueIsExact ==
  /\ \A t \in TaskIDs : priority[t] # None <=> t \in IDs(shown)
  /\ \A i \in DOMAIN shown : priority[shown[i].id].rank = shown[i].rank
  /\ \A i, j \in DOMAIN shown : i < j =>
       \/ shown[i].rank > shown[j].rank
       \/ shown[i].rank = shown[j].rank
            /\ priority[shown[i].id].entered < priority[shown[j].id].entered

\* A task that comes to a rank, or comes back to it, queues behind those that
\* were there, and those that stay keep their order (app_ui.c:292-297).
FirstComeFirstShown ==
  [][\A i \in DOMAIN shown, k, l \in DOMAIN shown' :
       (/\ shown'[k].id = shown[i].id /\ shown'[k].rank = shown[i].rank
        /\ shown'[l].rank = shown[i].rank
        /\ \A j \in 1..i : shown[j].id = shown'[l].id => shown[j].rank # shown[i].rank)
       => k <= l]_shown

\* One touch asks for one thing: the release that follows a long press is not
\* taken for a tap (app_ui.c:713-718), unless a snapshot has put another task
\* under the finger in between.
OneRequestPerTouch == Cardinality(sent) > 1 => switched
=============================================================================
