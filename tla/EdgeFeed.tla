------------------------------ MODULE EdgeFeed -------------------------------
(***************************************************************************)
(* The direct Presence Feed: from a change of the semantic core, over the  *)
(* Edge's signal channel and broadcastLoop (internal/edge/server.go), to   *)
(* the feed slot of a device (firmware/main/app_network.c).                *)
(*                                                                         *)
(* The core is the VersionedSource that PresenceCore implements.  The      *)
(* goroutines are separate processes: those that change the core and then  *)
(* signal (hook and adapter handlers, action handlers, maintenance), the   *)
(* broadcastLoop, and one handleFeed per connection.  The two that write   *)
(* to a connection each take their own Snapshot first.                     *)
(***************************************************************************)
EXTENDS Naturals, Sequences

CONSTANTS
  Content, Empty,
  Devices,          \* paired devices, each with one connection at a time
  Mutators,         \* goroutines that change the core and then signal
  MaxRevision, MaxGeneration, MaxDrops,     \* bounds
  NoSnapshot

ASSUME FeedAssumption ==
  /\ Empty \in Content
  /\ MaxRevision \in Nat /\ MaxGeneration \in Nat /\ MaxDrops \in Nat
  /\ NoSnapshot \notin [content : Content, generation : Nat, revision : Nat]

VARIABLES
  content, generation, revision,   \* the core
  owes,       \* the mutators that changed the core and have not signalled yet
  notify,     \* Service.notify: a channel of capacity one
  loop,       \* where broadcastLoop is
  snap,       \* the snapshot it took
  todo,       \* the connections of the broadcast it has still to write
  hub,        \* feedHub.clients
  feed,       \* where the handleFeed of each device's connection is
  held,       \* the initial snapshot it took
  wire,       \* the frames on the connection, oldest first
  slot,       \* the device's feed_slot_context_t
  drops       \* connections lost so far

Core == INSTANCE VersionedSource

core == <<content, generation, revision>>
sender == <<owes, notify, loop, snap, todo>>
conns == <<hub, feed, held, wire>>
vars == <<core, sender, conns, slot, drops>>

Snapshot == [content : Content, generation : Nat, revision : Nat]

CoreSnapshot ==
  [content |-> content, generation |-> generation, revision |-> revision]

Older(a, b) == Core!OlderOrder(a.generation, a.revision, b.generation, b.revision)
SameOrder(a, b) == a.generation = b.generation /\ a.revision = b.revision

\* last is the snapshot whose order the slot remembers (has_order); it is
\* displayed while the slot is valid.
Slot == [connected : BOOLEAN, valid : BOOLEAN, stale : BOOLEAN,
         last : Snapshot \cup {NoSnapshot}]

Init ==
  /\ Core!Init
  /\ owes = {} /\ notify = FALSE
  /\ loop = "wait" /\ snap = NoSnapshot /\ todo = {}
  /\ hub = {}
  /\ feed = [d \in Devices |-> "none"]
  /\ held = [d \in Devices |-> NoSnapshot]
  /\ wire = [d \in Devices |-> <<>>]
  /\ slot = [d \in Devices |-> [connected |-> FALSE, valid |-> FALSE,
                                stale |-> FALSE, last |-> NoSnapshot]]
  /\ drops = 0

-----------------------------------------------------------------------------
(* Changing the core and signalling are two steps of one goroutine. *)

\* Mutant: a change that is not numbered.
ChangeUnnumbered(m) ==
  /\ m \notin owes
  /\ content' \in Content
  /\ owes' = owes \cup {m}
  /\ UNCHANGED <<generation, revision, notify, loop, snap, todo, conns, slot, drops>>

Change(m) ==
  /\ m \notin owes
  /\ revision < MaxRevision
  /\ Core!Publish
  /\ owes' = owes \cup {m}
  /\ UNCHANGED <<notify, loop, snap, todo, conns, slot, drops>>

\* Mutant: no wake-up is kept while a broadcast is under way.
SignalIfIdle(m) ==
  /\ m \in owes
  /\ owes' = owes \ {m}
  /\ notify' = (notify \/ loop = "wait")
  /\ UNCHANGED <<core, loop, snap, todo, conns, slot, drops>>

\* A full channel already holds the wake-up: the send is dropped.
Signal(m) ==
  /\ m \in owes
  /\ owes' = owes \ {m}
  /\ notify' = TRUE
  /\ UNCHANGED <<core, loop, snap, todo, conns, slot, drops>>

-----------------------------------------------------------------------------
(* broadcastLoop: receive, Snapshot, list the clients, write to each. *)

Wake ==
  /\ loop = "wait" /\ notify
  /\ notify' = FALSE
  /\ loop' = "awake"
  /\ UNCHANGED <<core, owes, snap, todo, conns, slot, drops>>

TakeSnapshot ==
  /\ loop = "awake"
  /\ snap' = CoreSnapshot
  /\ loop' = "taken"
  /\ UNCHANGED <<core, owes, notify, todo, conns, slot, drops>>

ListClients ==
  /\ loop = "taken"
  /\ todo' = hub
  /\ loop' = "writing"
  /\ UNCHANGED <<core, owes, notify, snap, conns, slot, drops>>

Broadcast(d) ==
  /\ loop = "writing" /\ d \in todo
  /\ wire' = [wire EXCEPT ![d] = Append(@, snap)]
  /\ todo' = todo \ {d}
  /\ UNCHANGED <<core, owes, notify, loop, snap, hub, feed, held, slot, drops>>

\* Mutant: wake-ups that came during the broadcast are drained.
EndBroadcastDrains ==
  /\ loop = "writing" /\ todo = {}
  /\ loop' = "wait" /\ snap' = NoSnapshot /\ notify' = FALSE
  /\ UNCHANGED <<core, owes, todo, conns, slot, drops>>

EndBroadcast ==
  /\ loop = "writing" /\ todo = {}
  /\ loop' = "wait" /\ snap' = NoSnapshot
  /\ UNCHANGED <<core, owes, notify, todo, conns, slot, drops>>

-----------------------------------------------------------------------------
(* handleFeed, up to its read loop. *)

\* The upgrade succeeds; the device's CONNECTED event marks the slot.
Connect(d) ==
  /\ feed[d] = "none"
  /\ feed' = [feed EXCEPT ![d] = "upgraded"]
  /\ slot' = [slot EXCEPT ![d].connected = TRUE]
  /\ UNCHANGED <<core, sender, hub, held, wire, drops>>

JoinHub(d) ==
  /\ feed[d] = "upgraded"
  /\ hub' = hub \cup {d}
  /\ feed' = [feed EXCEPT ![d] = "joined"]
  /\ UNCHANGED <<core, sender, held, wire, slot, drops>>

\* writeSnapshot: the Snapshot ...
TakeInitial(d) ==
  /\ feed[d] = "joined"
  /\ held' = [held EXCEPT ![d] = CoreSnapshot]
  /\ feed' = [feed EXCEPT ![d] = "holding"]
  /\ UNCHANGED <<core, sender, hub, wire, slot, drops>>

\* ... and the write.  broadcastLoop may have written a newer one in between.
WriteInitial(d) ==
  /\ feed[d] = "holding"
  /\ wire' = [wire EXCEPT ![d] = Append(@, held[d])]
  /\ held' = [held EXCEPT ![d] = NoSnapshot]
  /\ feed' = [feed EXCEPT ![d] = "serving"]
  /\ UNCHANGED <<core, sender, hub, slot, drops>>

-----------------------------------------------------------------------------
(* The device. *)

\* Mutant: the last frame wins.
HandledLast(sl, s) ==
  [sl EXCEPT !.stale = FALSE, !.valid = TRUE, !.last = s]

\* handle_snapshot: s is applied, or it drops the contribution and leaves the
\* slot stale until something strictly newer arrives.
Handled(sl, s) ==
  LET newer == sl.last = NoSnapshot \/ Older(sl.last, s)
      equal == sl.last # NoSnapshot /\ SameOrder(sl.last, s)
  IN IF (sl.stale /\ ~newer) \/ (~newer /\ ~equal)
     THEN [sl EXCEPT !.stale = TRUE, !.valid = FALSE]
     ELSE [sl EXCEPT !.stale = FALSE, !.valid = TRUE, !.last = s]

Deliver(d) ==
  /\ wire[d] # <<>>
  /\ slot' = [slot EXCEPT ![d] = Handled(@, Head(wire[d]))]
  /\ wire' = [wire EXCEPT ![d] = Tail(@)]
  /\ UNCHANGED <<core, sender, hub, feed, held, drops>>

\* WEBSOCKET_EVENT_DISCONNECTED: the contribution goes, its order is remembered.
Disconnected(sl) == [sl EXCEPT !.connected = FALSE, !.valid = FALSE]

\* The connection of d is lost: a failed or timed-out write or ping, a closed
\* socket.  A broadcast under way fails on it, which has no further effect.
Drop(d) ==
  /\ feed[d] # "none"
  /\ drops < MaxDrops /\ drops' = drops + 1
  /\ feed' = [feed EXCEPT ![d] = "none"]
  /\ held' = [held EXCEPT ![d] = NoSnapshot]
  /\ wire' = [wire EXCEPT ![d] = <<>>]
  /\ hub' = hub \ {d}
  /\ todo' = todo \ {d}
  /\ slot' = [slot EXCEPT ![d] = Disconnected(@)]
  /\ UNCHANGED <<core, owes, notify, loop, snap>>

\* The Edge process restarts: every connection goes with it.
EdgeRestart ==
  /\ generation < MaxGeneration
  /\ content' = Empty /\ generation' = generation + 1 /\ revision' = 0
  /\ owes' = {} /\ notify' = FALSE
  /\ loop' = "wait" /\ snap' = NoSnapshot /\ todo' = {}
  /\ hub' = {}
  /\ feed' = [d \in Devices |-> "none"]
  /\ held' = [d \in Devices |-> NoSnapshot]
  /\ wire' = [d \in Devices |-> <<>>]
  /\ slot' = [d \in Devices |-> Disconnected(slot[d])]
  /\ UNCHANGED drops

-----------------------------------------------------------------------------
FeedSteps(d) ==
  Connect(d) \/ JoinHub(d) \/ TakeInitial(d) \/ WriteInitial(d)

LoopSteps ==
  Wake \/ TakeSnapshot \/ ListClients \/ EndBroadcast

Next ==
  \/ \E m \in Mutators : Change(m) \/ Signal(m)
  \/ LoopSteps
  \/ \E d \in Devices : Broadcast(d) \/ FeedSteps(d) \/ Deliver(d) \/ Drop(d)
  \/ EdgeRestart

Spec == Init /\ [][Next]_vars

\* Goroutines and the firmware's reconnecting client keep running; nothing has
\* to change the core, drop a connection or restart the Edge.
Fairness ==
  /\ \A m \in Mutators : WF_vars(Signal(m))
  /\ WF_vars(LoopSteps)
  /\ \A d \in Devices : WF_vars(Broadcast(d)) /\ WF_vars(FeedSteps(d))
                                             /\ WF_vars(Deliver(d))

FairSpec == Spec /\ Fairness

-----------------------------------------------------------------------------
(* Properties *)

TypeOK ==
  /\ Core!TypeOK
  /\ owes \subseteq Mutators /\ notify \in BOOLEAN
  /\ loop \in {"wait", "awake", "taken", "writing"}
  /\ snap \in Snapshot \cup {NoSnapshot}
  /\ todo \subseteq Devices /\ hub \subseteq Devices
  /\ feed \in [Devices -> {"none", "upgraded", "joined", "holding", "serving"}]
  /\ held \in [Devices -> Snapshot \cup {NoSnapshot}]
  /\ wire \in [Devices -> Seq(Snapshot)]
  /\ slot \in [Devices -> Slot]
  /\ drops \in Nat

\* The core's present version has been put on d's connection or been received.
Reached(d) ==
  \/ slot[d].last # NoSnapshot /\ SameOrder(slot[d].last, CoreSnapshot)
  \/ \E i \in DOMAIN wire[d] : SameOrder(wire[d][i], CoreSnapshot)

\* No change is lost between the core and a subscriber, although the signal
\* channel drops wake-ups and a client may join at any moment: a connection
\* that lacks the present version has a wake-up, a broadcast or its own initial
\* snapshot coming (signal, broadcastLoop, handleFeed).
NoLostWakeup ==
  \A d \in hub :
    \/ Reached(d)
    \/ owes # {} \/ notify \/ loop = "awake"
    \/ loop = "taken" /\ SameOrder(snap, CoreSnapshot)
    \/ loop = "writing" /\ d \in todo /\ SameOrder(snap, CoreSnapshot)
    \/ feed[d] = "joined"
    \/ feed[d] = "holding" /\ SameOrder(held[d], CoreSnapshot)

\* Every snapshot under way or remembered.
Snapshots ==
  ({snap} \cup {held[d] : d \in Devices} \cup {slot[d].last : d \in Devices}
    \cup UNION {{wire[d][i] : i \in DOMAIN wire[d]} : d \in Devices}) \ {NoSnapshot}

\* No snapshot is ahead of the core, and two of one order carry one content:
\* what a device shows under the core's present order is what the core holds.
SameOrderSameContent ==
  LET All == Snapshots \cup {CoreSnapshot} IN
  /\ \A a \in All : ~Older(CoreSnapshot, a)
  /\ \A a, b \in All : SameOrder(a, b) => a = b

\* Whatever order the two writers of a connection write in, and over lost
\* connections and restarts, a device never goes back to an older version.
DisplayNeverGoesBack ==
  [][\A d \in Devices :
       slot'[d].valid /\ slot[d].last # NoSnapshot
         => ~Older(slot'[d].last, slot[d].last)]_vars

\* Once the core and the connections are quiet, every device has received the
\* core's version on a live connection: it shows it, unless its slot is stale.
Reception ==
  <>[](\A d \in Devices : /\ slot[d].connected
                          /\ slot[d].last # NoSnapshot
                          /\ SameOrder(slot[d].last, CoreSnapshot)
                          /\ slot[d].valid \/ slot[d].stale)

\* docs/adr/0004 "convergence after any gap (dropped frames, restarts, ...) is
\* trivially correct: newest snapshot wins": every device ends up showing it.
Convergence ==
  <>[](\A d \in Devices : slot[d].valid /\ SameOrder(slot[d].last, CoreSnapshot))
=============================================================================
