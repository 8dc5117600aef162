------------------------------ MODULE HomeRelay ------------------------------
(***************************************************************************)
(* The Home relay: Edges that push their snapshots upstream                *)
(* (internal/edge/upstream.go), the Durable Object that keeps one          *)
(* contribution per Edge and shows devices the merge of them               *)
(* (packages/home/src/presence.ts, home-do.ts), and actions on their way   *)
(* back to the owning Edge.                                                *)
(*                                                                         *)
(* The platform's gates deliver no event while a handler awaits storage    *)
(* and hold its messages back until the write is confirmed, so an event    *)
(* handler is one action.  Between events the object may be evicted from   *)
(* memory while its WebSockets, with their attachments, stay open.         *)
(***************************************************************************)
EXTENDS Naturals, Sequences

CONSTANTS
  Edges, TaskIDs, OwnerOf,       \* OwnerOf: the Edge each task belongs to
  Focusable,                     \* the tasks that advertise focus
  Devices,
  MaxConnections, MaxRevision, MaxGeneration, MaxActions,   \* bounds
  None, Due, Closing

Connections == 1..MaxConnections
Sockets == Edges \X Connections

ASSUME HomeAssumption ==
  /\ OwnerOf \in [TaskIDs -> Edges] /\ Focusable \subseteq TaskIDs
  /\ MaxConnections \in Nat /\ MaxRevision \in Nat
  /\ MaxGeneration \in Nat /\ MaxActions \in Nat

\* An Edge's absolute snapshot, and what the Home keeps of it.
Snapshot == [generation : Nat, revision : Nat, tasks : SUBSET TaskIDs]

\* presence.dump(): the contributions and homeRevision.
Presence == [edges : [Edges -> Snapshot \cup {None}], revision : Nat]

NoPresence == [edges |-> [e \in Edges |-> None], revision |-> 0]

\* What a device is shown.  `edges` is there to tell what the merge was made
\* of: a feed snapshot carries none of it.
Feed == [revision : Nat, tasks : SUBSET TaskIDs, edges : [Edges -> Snapshot \cup {None}]]

Action == [device : Devices, task : TaskIDs, cap : {"focus", "acknowledge"}, view : Feed]

Request == [action : Action, seen : Nat]

\* The absent value is no Edge and no socket, and a close is no snapshot.
ASSUME AbsentAssumption ==
  None \notin Edges /\ None \notin Sockets /\ Closing \notin Snapshot

VARIABLES
  source,     \* the semantic core of each Edge: its present snapshot
  notify,     \* its notifyUpstream channel
  conn,       \* its upstream connection (u.conn), or None
  dials,      \* connections it has used
  initial,    \* connectOnce's sendSnapshot: None, Due or the snapshot taken
  update,     \* upstreamNotifyLoop's sendSnapshot, likewise
  up,         \* of each socket: snapshots, results and the close, oldest first
  down,       \* of each socket: action requests on their way to the Edge
  sockets,    \* ctx.getWebSockets("edge")
  bound,      \* the edgeId in each socket's attachment, or None
  loaded,     \* whether the object is in memory and has read its storage
  presence,   \* this.presence
  stored,     \* its copy in storage
  pending,    \* this.pendingActions: the actions a device waits for
  erased,     \* history: Edges a late close took the live contribution from
  feed,       \* of each device: the snapshots on its connection
  view,       \* the one it shows
  asking,     \* the action it has sent and the Home has not taken up
  actions     \* actions sent so far

edgeVars == <<source, notify, conn, dials, initial, update>>
wires == <<up, down>>
home == <<sockets, bound, loaded, presence, stored, pending, erased>>
deviceVars == <<feed, view, asking, actions>>
vars == <<edgeVars, wires, home, deviceVars>>

EmptySnapshot(g) == [generation |-> g, revision |-> 0, tasks |-> {}]

Merged(p) == UNION {p.edges[e].tasks : e \in {f \in Edges : p.edges[f] # None}}

FeedOf(p) == [revision |-> p.revision, tasks |-> Merged(p), edges |-> p.edges]

Init ==
  /\ source = [e \in Edges |-> EmptySnapshot(1)]
  /\ notify = [e \in Edges |-> FALSE]
  /\ conn = [e \in Edges |-> None] /\ dials = [e \in Edges |-> 0]
  /\ initial = [e \in Edges |-> None] /\ update = [e \in Edges |-> None]
  /\ up = [s \in Sockets |-> <<>>] /\ down = [s \in Sockets |-> <<>>]
  /\ sockets = {} /\ bound = [s \in Sockets |-> None]
  /\ loaded = FALSE /\ presence = NoPresence /\ stored = NoPresence
  /\ pending = {} /\ erased = {}
  /\ feed = [d \in Devices |-> <<>>] /\ view = [d \in Devices |-> None]
  /\ asking = [d \in Devices |-> None] /\ actions = 0

-----------------------------------------------------------------------------
(* The Edge. *)

\* The core changes and signals (EdgeFeed has the steps in between).
Publish(e) ==
  /\ source[e].revision < MaxRevision
  /\ \E ts \in SUBSET {t \in TaskIDs : OwnerOf[t] = e} :
       source' = [source EXCEPT ![e].tasks = ts, ![e].revision = @ + 1]
  /\ notify' = [notify EXCEPT ![e] = TRUE]
  /\ UNCHANGED <<conn, dials, initial, update, wires, home, deviceVars>>

\* ensureLoaded, which comes first in every handler but webSocketClose.
Loaded == IF loaded THEN presence ELSE stored

Load(p) == loaded' = TRUE /\ presence' = p

\* handleEdgeIngress accepts a new, unbound socket, and connectOnce has its
\* connection.
Dial(e) ==
  /\ conn[e] = None /\ dials[e] < MaxConnections
  /\ dials' = [dials EXCEPT ![e] = @ + 1]
  /\ conn' = [conn EXCEPT ![e] = <<e, dials[e] + 1>>]
  /\ initial' = [initial EXCEPT ![e] = Due]
  /\ sockets' = sockets \cup {<<e, dials[e] + 1>>}
  /\ Load(Loaded)
  /\ UNCHANGED <<source, notify, update, wires, bound, stored, pending, erased,
                 deviceVars>>

TakeInitial(e) ==
  /\ initial[e] = Due
  /\ initial' = [initial EXCEPT ![e] = source[e]]
  /\ UNCHANGED <<source, notify, conn, dials, update, wires, home, deviceVars>>

SendInitial(e) ==
  /\ initial[e] \notin {None, Due}
  /\ up' = [up EXCEPT ![conn[e]] = Append(@, initial[e])]
  /\ initial' = [initial EXCEPT ![e] = None]
  /\ UNCHANGED <<source, notify, conn, dials, update, down, home, deviceVars>>

\* NotifySnapshot: nothing is sent or kept while there is no connection.
Wake(e) ==
  /\ notify[e] /\ update[e] = None
  /\ notify' = [notify EXCEPT ![e] = FALSE]
  /\ update' = [update EXCEPT ![e] = IF conn[e] = None THEN None ELSE Due]
  /\ UNCHANGED <<source, conn, dials, initial, wires, home, deviceVars>>

TakeUpdate(e) ==
  /\ update[e] = Due
  /\ update' = [update EXCEPT ![e] = source[e]]
  /\ UNCHANGED <<source, notify, conn, dials, initial, wires, home, deviceVars>>

\* The connection is looked up after the snapshot: it may be the next one.
SendUpdate(e) ==
  /\ update[e] \notin {None, Due}
  /\ update' = [update EXCEPT ![e] = None]
  /\ up' = IF conn[e] = None THEN up
           ELSE [up EXCEPT ![conn[e]] = Append(@, update[e])]
  /\ UNCHANGED <<source, notify, conn, dials, initial, down, home, deviceVars>>

\* The Edge handles a request and answers on the same connection.
Answer(e) ==
  /\ conn[e] # None /\ down[conn[e]] # <<>>
  /\ down' = [down EXCEPT ![conn[e]] = Tail(@)]
  /\ up' = [up EXCEPT ![conn[e]] = Append(@, Head(down[conn[e]]).action)]
  /\ UNCHANGED <<edgeVars, home, deviceVars>>

\* What Home still receives on s: some of what was under way, then the close,
\* whenever it notices.
Cut(s) ==
  /\ \E n \in 0..Len(up[s]) :
       up' = [up EXCEPT ![s] = Append(SubSeq(@, 1, n), Closing)]
  /\ down' = [down EXCEPT ![s] = <<>>]

\* The connection is lost for the Edge: connectOnce returns.
Lose(e) ==
  /\ conn[e] # None
  /\ Cut(conn[e])
  /\ conn' = [conn EXCEPT ![e] = None]
  /\ initial' = [initial EXCEPT ![e] = None]
  /\ UNCHANGED <<source, notify, dials, update, home, deviceVars>>

EdgeRestart(e) ==
  /\ source[e].generation < MaxGeneration
  /\ source' = [source EXCEPT ![e] = EmptySnapshot(@.generation + 1)]
  /\ notify' = [notify EXCEPT ![e] = FALSE]
  /\ update' = [update EXCEPT ![e] = None]
  /\ initial' = [initial EXCEPT ![e] = None]
  /\ conn' = [conn EXCEPT ![e] = None]
  /\ IF conn[e] = None THEN UNCHANGED wires ELSE Cut(conn[e])
  /\ UNCHANGED <<dials, home, deviceVars>>

-----------------------------------------------------------------------------
(* The Durable Object. *)

Arrived(s) == s \in sockets /\ up[s] # <<>>
Consume(s) == up' = [up EXCEPT ![s] = Tail(@)]

\* Mutant: what is broadcast is not stored.
SaveInMemory(p) ==
  /\ presence' = p /\ UNCHANGED stored
  /\ feed' = [d \in Devices |-> IF view[d] = None /\ feed[d] = <<>> THEN feed[d]
                                ELSE Append(feed[d], FeedOf(p))]

\* persist and broadcastFeed.
Save(p) ==
  /\ presence' = p /\ stored' = p
  /\ feed' = [d \in Devices |-> IF view[d] = None /\ feed[d] = <<>> THEN feed[d]
                                ELSE Append(feed[d], FeedOf(p))]

Keep(p) == presence' = p /\ UNCHANGED <<stored, feed>>

\* Mutant: only an older generation is out of date.
NewerByGeneration(old, new) == old = None \/ new.generation >= old.generation

Newer(old, new) ==
  \/ old = None
  \/ new.generation > old.generation
  \/ new.generation = old.generation /\ new.revision > old.revision

\* A snapshot binds an unbound socket and replaces its Edge's contribution,
\* unless it is a replay.
OnSnapshot(s) ==
  /\ Arrived(s) /\ Head(up[s]) \in Snapshot
  /\ Consume(s)
  /\ loaded' = TRUE
  /\ bound' = [bound EXCEPT ![s] = s[1]]
  /\ LET e == s[1]
         new == Head(up[s])
     IN IF Newer(Loaded.edges[e], new)
        THEN Save([edges |-> [Loaded.edges EXCEPT ![e] = new],
                   revision |-> Loaded.revision + 1])
        ELSE Keep(Loaded)
  /\ UNCHANGED <<edgeVars, down, sockets, pending, erased, view, asking, actions>>

\* The answer goes to the device that waits for it, if any still does.
OnResult(s) ==
  /\ Arrived(s) /\ Head(up[s]) \in Action
  /\ Consume(s)
  /\ Load(Loaded)
  /\ pending' = pending \ {Head(up[s])}
  /\ UNCHANGED <<edgeVars, down, sockets, bound, stored, erased, deviceVars>>

\* Mutant: a departure keeps the revision.
WithoutUnnumbered(p, e) == [p EXCEPT !.edges[e] = None]

Without(p, e) ==
  [edges |-> [p.edges EXCEPT ![e] = None], revision |-> p.revision + 1]

\* webSocketClose does not call ensureLoaded: it acts on what is in memory.
OnClose(s) ==
  /\ Arrived(s) /\ Head(up[s]) = Closing
  /\ Consume(s)
  /\ sockets' = sockets \ {s}
  /\ IF bound[s] # None /\ presence.edges[bound[s]] # None
     THEN Save(Without(presence, bound[s])) ELSE Keep(presence)
  /\ erased' = IF conn[s[1]] \in {None, s} THEN erased ELSE erased \cup {s[1]}
  /\ UNCHANGED <<edgeVars, down, bound, loaded, pending, view, asking, actions>>

\* The object is evicted; its WebSockets hibernate.
Evict ==
  /\ loaded
  /\ loaded' = FALSE /\ presence' = NoPresence /\ pending' = {}
  /\ UNCHANGED <<edgeVars, wires, sockets, bound, stored, erased, deviceVars>>

-----------------------------------------------------------------------------
(* Devices. *)

\* handleDeviceFeed sends the present snapshot at once.
DeviceConnect(d) ==
  /\ view[d] = None /\ feed[d] = <<>>
  /\ Load(Loaded)
  /\ feed' = [feed EXCEPT ![d] = <<FeedOf(Loaded)>>]
  /\ UNCHANGED <<edgeVars, wires, sockets, bound, stored, pending, erased, view,
                 asking, actions>>

DeviceReceive(d) ==
  /\ feed[d] # <<>>
  /\ view' = [view EXCEPT ![d] = Head(feed[d])]
  /\ feed' = [feed EXCEPT ![d] = Tail(@)]
  /\ UNCHANGED <<edgeVars, wires, home, asking, actions>>

DeviceAct(d) ==
  /\ view[d] # None /\ asking[d] = None
  /\ actions < MaxActions /\ actions' = actions + 1
  /\ \E t \in view[d].tasks, cap \in {"focus", "acknowledge"} :
       asking' = [asking EXCEPT ![d] =
                    [device |-> d, task |-> t, cap |-> cap, view |-> view[d]]]
  /\ UNCHANGED <<edgeVars, wires, home, feed, view>>

\* ownerOf: the Edge whose contribution holds the task.
Owners(p, t) == {e \in Edges : p.edges[e] # None /\ t \in p.edges[e].tasks}

BoundTo(e) == {s \in sockets : bound[s] = e}

\* Mutant: the device's own revision is passed on.
TranslateNothing(p, e, a) == a.view.revision

\* originRevisionOf: the owning Edge's revision as of its contribution.
Translate(p, e, a) == p.edges[e].revision

\* handleDeviceMessage: forwarded to a socket of the owning Edge, with the view
\* translated to that Edge's revision, or refused on the spot.
OnAction(d) ==
  /\ asking[d] # None
  /\ asking' = [asking EXCEPT ![d] = None]
  /\ Load(Loaded)
  /\ LET a == asking[d]
         forwarded ==
           {e \in Owners(Loaded, a.task) :
              /\ a.cap = "acknowledge" \/ a.task \in Focusable
              /\ a.view.revision = Loaded.revision
              /\ BoundTo(e) # {}}
     IN IF forwarded = {} THEN UNCHANGED <<pending, down>>
        ELSE \E e \in forwarded : \E s \in BoundTo(e) :
               /\ pending' = pending \cup {a}
               /\ down' = IF conn[e] # s THEN down    \* lost with the connection
                          ELSE [down EXCEPT ![s] = Append(@,
                                  [action |-> a, seen |-> Translate(Loaded, e, a)])]
  /\ UNCHANGED <<edgeVars, up, sockets, bound, stored, erased, feed, view, actions>>

-----------------------------------------------------------------------------
Sending(e) ==
  TakeInitial(e) \/ SendInitial(e) \/ Wake(e) \/ TakeUpdate(e) \/ SendUpdate(e)

Events(s) == OnSnapshot(s) \/ OnResult(s) \/ OnClose(s)

Next ==
  \/ \E e \in Edges : \/ Publish(e) \/ Dial(e) \/ Sending(e) \/ Answer(e)
                      \/ Lose(e) \/ EdgeRestart(e)
  \/ \E s \in Sockets : Events(s)
  \/ Evict
  \/ \E d \in Devices : \/ DeviceConnect(d) \/ DeviceReceive(d)
                        \/ DeviceAct(d) \/ OnAction(d)

Spec == Init /\ [][Next]_vars

\* The Edge's goroutines run and the platform delivers what arrives.  No Edge
\* has to connect, stay connected or change.
Fairness ==
  /\ \A e \in Edges : WF_vars(Sending(e))
  /\ \A s \in Sockets : WF_vars(Events(s))

FairSpec == Spec /\ Fairness

-----------------------------------------------------------------------------
(* Properties *)

TypeOK ==
  /\ source \in [Edges -> Snapshot] /\ notify \in [Edges -> BOOLEAN]
  /\ conn \in [Edges -> Sockets \cup {None}]
  /\ dials \in [Edges -> 0..MaxConnections]
  /\ initial \in [Edges -> Snapshot \cup {None, Due}]
  /\ update \in [Edges -> Snapshot \cup {None, Due}]
  /\ up \in [Sockets -> Seq(Snapshot \cup Action \cup {Closing})]
  /\ down \in [Sockets -> Seq(Request)]
  /\ sockets \subseteq Sockets /\ bound \in [Sockets -> Edges \cup {None}]
  /\ loaded \in BOOLEAN /\ presence \in Presence /\ stored \in Presence
  /\ pending \subseteq Action /\ erased \subseteq Edges
  /\ feed \in [Devices -> Seq(Feed)] /\ view \in [Devices -> Feed \cup {None}]
  /\ asking \in [Devices -> Action \cup {None}] /\ actions \in 0..MaxActions

\* Nothing is known only to memory: eviction at any moment loses no
\* contribution, and an object that is not loaded never acts on what it lacks
\* (persist, ensureLoaded).
NothingUnsaved == presence = IF loaded THEN stored ELSE NoPresence

\* Devices see a versioned source, over reconnects of Edges and evictions: what
\* Home shows changes only under a higher homeRevision, so a device that orders
\* by it never shows older content again (applySnapshot, removeEdge, load).
Source == INSTANCE VersionedSource
  WITH Content <- SUBSET TaskIDs, Empty <- {}, content <- Merged(stored),
       generation <- 1, revision <- stored.revision

PublishesVersions == Source!Spec

\* docs/PROTOCOL.md "Home translates the device's feed-revision seenRevision
\* into the owning Edge's": a request reaches no other Edge than the owner, and
\* the revision it carries is that of the very snapshot the device was looking
\* at, however many Edges and reconnects are between (handleDeviceMessage).
TranslationSound ==
  \A s \in Sockets : \A i \in DOMAIN down[s] :
    LET r == down[s][i]
        saw == r.action.view.edges[OwnerOf[r.action.task]]
    IN /\ s[1] = OwnerOf[r.action.task]
       /\ saw # None /\ r.action.task \in saw.tasks /\ r.seen = saw.revision

Shown == IF loaded THEN presence ELSE stored

\* upstream.go "Absolute resync on every (re)connect": however the two senders of an Edge
\* overtake each other, over reconnects, restarts and evictions, Home ends up
\* with the present snapshot of every connected Edge, unless the close of an
\* earlier connection came so late that it took the new contribution away
\* (sendSnapshot, applySnapshot; MergesConnected is what the docs say).
Resync ==
  <>[](\A e \in Edges \ erased : conn[e] # None => Shown.edges[e] = source[e])

\* docs/PROTOCOL.md "A Home feed merges each connected Edge's contribution":
\* in the end Home shows what the connected Edges hold and nothing else.
MergesConnected ==
  <>[](\A e \in Edges : Shown.edges[e] = IF conn[e] = None THEN None ELSE source[e])
=============================================================================
