--------------------------- MODULE HomeRelayProofs ---------------------------
(***************************************************************************)
(* Theorems about HomeRelay, for any number of Edges, connections, devices *)
(* and actions: the object knows nothing that its storage does not, what   *)
(* it shows is a versioned source, and an action is translated to the      *)
(* revision of the snapshot that the device was looking at.                *)
(***************************************************************************)
EXTENDS HomeRelay, TLAPS

-----------------------------------------------------------------------------
(* Queues.  What they carry is what counts, not where it stands. *)

Carried(q) == {q[i] : i \in DOMAIN q}

LEMMA AppendCarries ==
  ASSUME NEW S, NEW q \in Seq(S), NEW m \in S
  PROVE  /\ Append(q, m) \in Seq(S)
         /\ Carried(Append(q, m)) = Carried(q) \cup {m}
<1>1. /\ Append(q, m) \in Seq(S)
      /\ DOMAIN Append(q, m) = DOMAIN q \cup {Len(q) + 1}
      /\ Append(q, m)[Len(q) + 1] = m
      /\ \A i \in DOMAIN q : Append(q, m)[i] = q[i]
  OBVIOUS
<1>. QED
  BY <1>1, Zenon DEF Carried

LEMMA TailCarries ==
  ASSUME NEW S, NEW q \in Seq(S), q # <<>>
  PROVE  /\ Tail(q) \in Seq(S) /\ Carried(Tail(q)) \subseteq Carried(q)
         /\ Head(q) \in S /\ Head(q) \in Carried(q)
<1>1. /\ Tail(q) \in Seq(S) /\ Head(q) \in S /\ Head(q) = q[1] /\ 1 \in DOMAIN q
      /\ \A i \in DOMAIN Tail(q) : i + 1 \in DOMAIN q /\ Tail(q)[i] = q[i + 1]
  OBVIOUS
<1>. QED
  BY <1>1 DEF Carried

\* A connection that is cut still brings a part of what was sent, and the close.
LEMMA PrefixCarries ==
  ASSUME NEW S, NEW q \in Seq(S), NEW n \in 0..Len(q)
  PROVE  SubSeq(q, 1, n) \in Seq(S) /\ Carried(SubSeq(q, 1, n)) \subseteq Carried(q)
<1>1. /\ SubSeq(q, 1, n) \in Seq(S)
      /\ \A i \in DOMAIN SubSeq(q, 1, n) : i \in DOMAIN q /\ SubSeq(q, 1, n)[i] = q[i]
  OBVIOUS
<1>. QED
  BY <1>1 DEF Carried

LEMMA EmptyCarries == ASSUME NEW S PROVE <<>> \in Seq(S) /\ Carried(<<>>) = {}
  BY DEF Carried

-----------------------------------------------------------------------------
(* Types. *)

Upward == Snapshot \cup Action \cup {Closing}

LEMMA EmptyTypes ==
  /\ NoPresence \in Presence
  /\ \A g \in Nat : EmptySnapshot(g) \in Snapshot
  BY DEF NoPresence, Presence, EmptySnapshot, Snapshot

LEMMA MergedType == ASSUME NEW p \in Presence PROVE Merged(p) \in SUBSET TaskIDs
<1>1. \A e \in Edges : p.edges[e] # None => p.edges[e].tasks \subseteq TaskIDs
  BY DEF Presence, Snapshot
<1>. QED
  BY <1>1 DEF Merged

LEMMA FeedType == ASSUME NEW p \in Presence PROVE FeedOf(p) \in Feed
<1>1. p.revision \in Nat /\ p.edges \in [Edges -> Snapshot \cup {None}]
  BY DEF Presence
<1>. QED
  BY <1>1, MergedType DEF FeedOf, Feed

\* What a save makes of a well-typed presence.
LEMMA SaveType ==
  ASSUME TypeOK, NEW p \in Presence, Save(p)
  PROVE  /\ presence' \in Presence /\ stored' \in Presence
         /\ feed' \in [Devices -> Seq(Feed)]
<1>1. FeedOf(p) \in Feed
  BY FeedType
<1>2. \A d \in Devices : feed[d] \in Seq(Feed) /\ Append(feed[d], FeedOf(p)) \in Seq(Feed)
  BY <1>1, AppendCarries DEF TypeOK
<1>3. feed' \in [Devices -> Seq(Feed)]
  BY <1>2 DEF Save
<1>. QED
  BY <1>3 DEF Save

LEMMA LoadedType == TypeOK => Loaded \in Presence
  BY DEF TypeOK, Loaded

LEMMA TypeInit == Init => TypeOK
<1> SUFFICES ASSUME Init PROVE TypeOK
  OBVIOUS
<1>1. source \in [Edges -> Snapshot]
  BY EmptyTypes DEF Init
<1>2. dials \in [Edges -> 0..MaxConnections] /\ actions \in 0..MaxActions
  BY HomeAssumption DEF Init, HomeAssumption
<1>3. /\ up \in [Sockets -> Seq(Upward)] /\ down \in [Sockets -> Seq(Request)]
      /\ feed \in [Devices -> Seq(Feed)]
  BY EmptyCarries DEF Init
<1>. QED
  BY <1>1, <1>2, <1>3, EmptyTypes DEF Init, TypeOK, Upward

\* A connection of an Edge is cut.
LEMMA CutType ==
  ASSUME TypeOK, NEW s \in Sockets, Cut(s)
  PROVE  up' \in [Sockets -> Seq(Upward)] /\ down' \in [Sockets -> Seq(Request)]
<1>1. up \in [Sockets -> Seq(Upward)] /\ down \in [Sockets -> Seq(Request)]
  BY DEF TypeOK, Upward
<1>2. PICK n \in 0..Len(up[s]) : up' = [up EXCEPT ![s] = Append(SubSeq(up[s], 1, n), Closing)]
  BY DEF Cut
<1>3. SubSeq(up[s], 1, n) \in Seq(Upward)
  BY <1>1, PrefixCarries
<1>4. Append(SubSeq(up[s], 1, n), Closing) \in Seq(Upward)
  BY <1>3, AppendCarries DEF Upward
<1>. QED
  BY <1>1, <1>2, <1>4, EmptyCarries DEF Cut

\* An Edge publishes other tasks, under its next revision.
LEMMA PublishEffect ==
  ASSUME TypeOK, NEW e \in Edges, NEW ts \in SUBSET TaskIDs,
         source' = [source EXCEPT ![e].tasks = ts, ![e].revision = @ + 1]
  PROVE  /\ source' \in [Edges -> Snapshot] /\ source'[e].tasks = ts
         /\ \A f \in Edges : f # e => source'[f] = source[f]
<1> DEFINE mid == [source[e] EXCEPT !.tasks = ts]
           new == [mid EXCEPT !.revision = mid.revision + 1]
<1>1. source \in [Edges -> Snapshot] /\ source[e] \in Snapshot
  BY DEF TypeOK
<1>2. mid \in Snapshot /\ mid.tasks = ts
  BY <1>1 DEF Snapshot
<1>3. new \in Snapshot /\ new.tasks = ts
  <2> HIDE DEF mid
  <2>. QED
    BY <1>2 DEF Snapshot
<1>4. source' = [source EXCEPT ![e] = new]
  BY <1>1
<1> HIDE DEF new
<1>. QED
  BY <1>1, <1>3, <1>4

LEMMA TypeStep == TypeOK /\ [Next]_vars => TypeOK'
<1> SUFFICES ASSUME TypeOK, [Next]_vars PROVE TypeOK'
  OBVIOUS
<1> USE HomeAssumption DEF HomeAssumption
<1>0. /\ source \in [Edges -> Snapshot] /\ conn \in [Edges -> Sockets \cup {None}]
      /\ dials \in [Edges -> 0..MaxConnections]
      /\ initial \in [Edges -> Snapshot \cup {None, Due}]
      /\ update \in [Edges -> Snapshot \cup {None, Due}]
      /\ up \in [Sockets -> Seq(Upward)] /\ down \in [Sockets -> Seq(Request)]
      /\ bound \in [Sockets -> Edges \cup {None}] /\ Loaded \in Presence
      /\ feed \in [Devices -> Seq(Feed)] /\ view \in [Devices -> Feed \cup {None}]
      /\ asking \in [Devices -> Action \cup {None}] /\ actions \in 0..MaxActions
  BY LoadedType DEF TypeOK, Upward
<1>1. ASSUME NEW e \in Edges, Publish(e) PROVE TypeOK'
  <2>1. PICK ts \in SUBSET {t \in TaskIDs : OwnerOf[t] = e} :
          source' = [source EXCEPT ![e].tasks = ts, ![e].revision = @ + 1]
    BY <1>1 DEF Publish
  <2>2. source' \in [Edges -> Snapshot]
    BY <2>1, PublishEffect
  <2>. QED
    BY <1>0, <1>1, <2>2 DEF Publish, TypeOK, wires, home, deviceVars, Upward
<1>2. ASSUME NEW e \in Edges, Dial(e) PROVE TypeOK'
  <2>1. <<e, dials[e] + 1>> \in Sockets /\ dials[e] + 1 \in 0..MaxConnections
    BY <1>0, <1>2 DEF Dial, Sockets, Connections
  <2>. QED
    BY <1>0, <1>2, <2>1 DEF Dial, Load, TypeOK, wires, deviceVars, Upward
<1>3. ASSUME NEW e \in Edges, TakeInitial(e) \/ TakeUpdate(e) \/ Wake(e) PROVE TypeOK'
  <2>1. /\ initial' \in [Edges -> Snapshot \cup {None, Due}]
        /\ update' \in [Edges -> Snapshot \cup {None, Due}]
        /\ notify' \in [Edges -> BOOLEAN]
    BY <1>0, <1>3 DEF TakeInitial, TakeUpdate, Wake, TypeOK
  <2>2. UNCHANGED <<source, conn, dials, wires, home, deviceVars>>
    BY <1>3 DEF TakeInitial, TakeUpdate, Wake
  <2>. QED
    BY <2>1, <2>2 DEF TypeOK, wires, home, deviceVars
<1>4. ASSUME NEW e \in Edges, SendInitial(e) \/ SendUpdate(e) \/ Answer(e) PROVE TypeOK'
  <2>1. up' \in [Sockets -> Seq(Upward)] /\ down' \in [Sockets -> Seq(Request)]
    <3>1. ASSUME NEW s \in Sockets, NEW m \in Upward,
                 up' = [up EXCEPT ![s] = Append(up[s], m)]
          PROVE  up' \in [Sockets -> Seq(Upward)]
      <4>1. Append(up[s], m) \in Seq(Upward)
        BY <1>0, AppendCarries
      <4>. QED
        BY <1>0, <3>1, <4>1
    <3>2. CASE SendInitial(e)
      BY <1>0, <3>1, <3>2 DEF SendInitial, Upward
    <3>3. CASE SendUpdate(e)
      BY <1>0, <3>1, <3>3 DEF SendUpdate, Upward
    <3>4. CASE Answer(e)
      <4>1. /\ conn[e] \in Sockets /\ down[conn[e]] \in Seq(Request) /\ down[conn[e]] # <<>>
            /\ up' = [up EXCEPT ![conn[e]] = Append(up[conn[e]], Head(down[conn[e]]).action)]
            /\ down' = [down EXCEPT ![conn[e]] = Tail(down[conn[e]])]
        BY <1>0, <3>4 DEF Answer
      <4>2. Tail(down[conn[e]]) \in Seq(Request) /\ Head(down[conn[e]]) \in Request
        BY <4>1, TailCarries
      <4>3. Head(down[conn[e]]).action \in Upward
        BY <4>2 DEF Request, Upward
      <4>. QED
        BY <1>0, <3>1, <4>1, <4>2, <4>3
    <3>. QED
      BY <1>4, <3>2, <3>3, <3>4
  <2>. QED
    BY <1>0, <1>4, <2>1
       DEF SendInitial, SendUpdate, Answer, TypeOK, edgeVars, home, deviceVars, Upward
<1>5. ASSUME NEW e \in Edges, Lose(e) \/ EdgeRestart(e) PROVE TypeOK'
  <2>1. up' \in [Sockets -> Seq(Upward)] /\ down' \in [Sockets -> Seq(Request)]
    BY <1>0, <1>5, CutType DEF Lose, EdgeRestart, wires
  <2>2. source' \in [Edges -> Snapshot]
    <3>1. EmptySnapshot(source[e].generation + 1) \in Snapshot
      <4>1. source[e].generation + 1 \in Nat
        BY <1>0 DEF Snapshot
      <4>. QED
        BY <4>1, EmptyTypes
    <3>2. \/ source' = source
          \/ source' = [source EXCEPT ![e] = EmptySnapshot(source[e].generation + 1)]
      BY <1>5 DEF Lose, EdgeRestart
    <3>. QED
      BY <1>0, <3>1, <3>2
  <2>. QED
    BY <1>0, <1>5, <2>1, <2>2
       DEF Lose, EdgeRestart, TypeOK, home, deviceVars, Upward
<1>6. ASSUME NEW s \in Sockets, Arrived(s), Consume(s)
      PROVE  /\ Head(up[s]) \in Upward /\ up' \in [Sockets -> Seq(Upward)]
  BY <1>0, <1>6, TailCarries DEF Arrived, Consume
<1>7. ASSUME NEW s \in Sockets, OnSnapshot(s) PROVE TypeOK'
  <2> DEFINE e == s[1]
             new == Head(up[s])
             p == [edges |-> [Loaded.edges EXCEPT ![e] = new],
                   revision |-> Loaded.revision + 1]
  <2>1. e \in Edges /\ new \in Snapshot /\ up' \in [Sockets -> Seq(Upward)]
    BY <1>6, <1>7 DEF OnSnapshot, Sockets
  <2>2. p \in Presence
    BY <1>0, <2>1 DEF Presence
  <2>3. Save(p) \/ Keep(Loaded)
    BY <1>7 DEF OnSnapshot
  <2> HIDE DEF p, e, new
  <2>4. presence' \in Presence /\ stored' \in Presence /\ feed' \in [Devices -> Seq(Feed)]
    BY <1>0, <2>2, <2>3, SaveType DEF Keep, TypeOK
  <2>5. bound' \in [Sockets -> Edges \cup {None}]
    BY <1>0, <1>7, <2>1 DEF OnSnapshot, e
  <2>. QED
    BY <1>0, <1>7, <2>1, <2>4, <2>5 DEF OnSnapshot, TypeOK, edgeVars, Upward
<1>8. ASSUME NEW s \in Sockets, OnResult(s) PROVE TypeOK'
  BY <1>0, <1>6, <1>8 DEF OnResult, Load, TypeOK, edgeVars, deviceVars, Upward
<1>9. ASSUME NEW s \in Sockets, OnClose(s) PROVE TypeOK'
  <2>1. up' \in [Sockets -> Seq(Upward)] /\ s[1] \in Edges
    BY <1>6, <1>9 DEF OnClose, Sockets
  <2>2. presence \in Presence /\ bound[s] \in Edges \cup {None}
    BY <1>0 DEF TypeOK
  <2>3. Without(presence, bound[s]) \in Presence
    <3>1. presence.edges \in [Edges -> Snapshot \cup {None}] /\ presence.revision \in Nat
      BY <2>2 DEF Presence
    <3>2. [presence.edges EXCEPT ![bound[s]] = None] \in [Edges -> Snapshot \cup {None}]
      BY <3>1
    <3>. QED
      BY <3>1, <3>2 DEF Without, Presence
  <2>4. Save(Without(presence, bound[s])) \/ Keep(presence)
    BY <1>9 DEF OnClose
  <2>5. presence' \in Presence /\ stored' \in Presence /\ feed' \in [Devices -> Seq(Feed)]
    BY <1>0, <2>3, <2>4, SaveType DEF Keep, TypeOK
  <2>6. erased' \subseteq Edges
    BY <1>9, <2>1 DEF OnClose, TypeOK
  <2>. QED
    BY <1>0, <1>9, <2>1, <2>5, <2>6 DEF OnClose, TypeOK, edgeVars, Upward
<1>10. ASSUME Evict PROVE TypeOK'
  BY <1>10, EmptyTypes DEF Evict, TypeOK, edgeVars, wires, deviceVars
<1>11. ASSUME NEW d \in Devices, DeviceConnect(d) PROVE TypeOK'
  <2>1. <<FeedOf(Loaded)>> \in Seq(Feed)
    BY <1>0, FeedType
  <2>2. feed' \in [Devices -> Seq(Feed)]
    BY <1>0, <1>11, <2>1 DEF DeviceConnect
  <2>. QED
    BY <1>0, <1>11, <2>2 DEF DeviceConnect, Load, TypeOK, edgeVars, wires
<1>12. ASSUME NEW d \in Devices, DeviceReceive(d) PROVE TypeOK'
  <2>1. Head(feed[d]) \in Feed /\ Tail(feed[d]) \in Seq(Feed)
    BY <1>0, <1>12, TailCarries DEF DeviceReceive
  <2>2. feed' \in [Devices -> Seq(Feed)] /\ view' \in [Devices -> Feed \cup {None}]
    BY <1>0, <1>12, <2>1 DEF DeviceReceive
  <2>. QED
    BY <1>0, <1>12, <2>2 DEF DeviceReceive, TypeOK, edgeVars, wires, home
<1>13. ASSUME NEW d \in Devices, DeviceAct(d) PROVE TypeOK'
  <2>1. PICK t \in view[d].tasks, cap \in {"focus", "acknowledge"} :
          asking' = [asking EXCEPT ![d] =
                      [device |-> d, task |-> t, cap |-> cap, view |-> view[d]]]
    BY <1>13 DEF DeviceAct
  <2>2. view[d] \in Feed /\ t \in TaskIDs
    BY <1>0, <1>13 DEF DeviceAct, Feed
  <2>3. [device |-> d, task |-> t, cap |-> cap, view |-> view[d]] \in Action
    BY <2>2 DEF Action
  <2>4. asking' \in [Devices -> Action \cup {None}]
    BY <1>0, <2>1, <2>3
  <2>. QED
    BY <1>0, <1>13, <2>4 DEF DeviceAct, TypeOK, edgeVars, wires, home
<1>14. ASSUME NEW d \in Devices, OnAction(d) PROVE TypeOK'
  <2> DEFINE a == asking[d]
  <2>1. a \in Action /\ asking' = [asking EXCEPT ![d] = None]
    BY <1>0, <1>14 DEF OnAction
  <2>2. \/ UNCHANGED <<pending, down>>
        \/ \E e \in Edges : \E s \in sockets :
             /\ pending' = pending \cup {a}
             /\ \/ down' = down
                \/ down' = [down EXCEPT ![s] = Append(down[s],
                              [action |-> a, seen |-> Translate(Loaded, e, a)])]
             /\ Loaded.edges[e] # None
    BY <1>14 DEF OnAction, Owners, BoundTo
  <2>3. pending' \subseteq Action /\ down' \in [Sockets -> Seq(Request)]
    <3>1. CASE UNCHANGED <<pending, down>>
      BY <1>0, <3>1 DEF TypeOK
    <3>2. ASSUME NEW e \in Edges, NEW s \in Sockets, Loaded.edges[e] # None
          PROVE  [down EXCEPT ![s] = Append(down[s],
                    [action |-> a, seen |-> Translate(Loaded, e, a)])]
                   \in [Sockets -> Seq(Request)]
      <4>1. Loaded.edges[e] \in Snapshot
        BY <1>0, <3>2 DEF Presence
      <4>2. [action |-> a, seen |-> Translate(Loaded, e, a)] \in Request
        BY <2>1, <4>1 DEF Translate, Snapshot, Request
      <4>3. Append(down[s], [action |-> a, seen |-> Translate(Loaded, e, a)]) \in Seq(Request)
        BY <1>0, <4>2, AppendCarries
      <4>. QED
        BY <1>0, <4>3
    <3>3. ASSUME pending' = pending \cup {a} PROVE pending' \subseteq Action
      BY <2>1, <3>3 DEF TypeOK
    <3>4. sockets \subseteq Sockets
      BY DEF TypeOK
    <3>5. CASE \E e \in Edges : \E s \in sockets :
                 /\ pending' = pending \cup {a}
                 /\ \/ down' = down
                    \/ down' = [down EXCEPT ![s] = Append(down[s],
                                  [action |-> a, seen |-> Translate(Loaded, e, a)])]
                 /\ Loaded.edges[e] # None
      <4>1. PICK e \in Edges, s \in sockets :
              /\ pending' = pending \cup {a}
              /\ \/ down' = down
                 \/ down' = [down EXCEPT ![s] = Append(down[s],
                               [action |-> a, seen |-> Translate(Loaded, e, a)])]
              /\ Loaded.edges[e] # None
        BY <3>5
      <4>2. s \in Sockets
        BY <3>4
      <4>3. down' \in [Sockets -> Seq(Request)]
        <5>1. [down EXCEPT ![s] = Append(down[s],
                 [action |-> a, seen |-> Translate(Loaded, e, a)])]
                \in [Sockets -> Seq(Request)]
          BY <3>2, <4>1, <4>2
        <5>. QED
          BY <1>0, <4>1, <5>1
      <4>. QED
        BY <3>3, <4>1, <4>3
    <3>. QED
      BY <2>2, <3>1, <3>5
  <2>4. asking' \in [Devices -> Action \cup {None}]
    BY <1>0, <2>1
  <2>. QED
    BY <1>0, <1>14, <2>3, <2>4 DEF OnAction, Load, TypeOK, edgeVars
<1>15. CASE UNCHANGED vars
  BY <1>15 DEF vars, edgeVars, wires, home, deviceVars, TypeOK
<1>. QED
  BY <1>1, <1>2, <1>3, <1>4, <1>5, <1>7, <1>8, <1>9, <1>10, <1>11, <1>12, <1>13,
     <1>14, <1>15 DEF Next, Sending, Events

\* Every variable keeps its type in every behaviour of the relay.
THEOREM TypeCorrect == Spec => []TypeOK
BY TypeInit, TypeStep, PTL DEF Spec

-----------------------------------------------------------------------------
(* Memory and storage.  A step keeps what is stored, or saves a presence *)
(* under the next revision and shows it to the devices.                  *)

Keeps ==
  /\ UNCHANGED stored
  /\ \A d \in Devices : Carried(feed'[d]) \subseteq Carried(feed[d]) \cup {FeedOf(stored)}

Saves(p) ==
  /\ stored' = p /\ p.revision = stored.revision + 1
  /\ \A d \in Devices : Carried(feed'[d]) \subseteq Carried(feed[d]) \cup {FeedOf(p)}

\* Where the contributions of what is saved come from: they were stored, but for
\* the one Edge that a socket brings a snapshot of.
SavedFrom(p) ==
  \A e \in Edges : \/ p.edges[e] = stored.edges[e] \/ p.edges[e] = None
                   \/ \E s \in Sockets : s[1] = e /\ p.edges[e] \in Carried(up[s]) \cap Snapshot

LEMMA SaveEffect ==
  ASSUME TypeOK, NEW p \in Presence, Save(p), p.revision = stored.revision + 1
  PROVE  Saves(p)
<1>1. ASSUME NEW d \in Devices
      PROVE  Carried(feed'[d]) \subseteq Carried(feed[d]) \cup {FeedOf(p)}
  <2>1. feed[d] \in Seq(Feed) /\ FeedOf(p) \in Feed
    BY FeedType DEF TypeOK
  <2>2. feed'[d] = feed[d] \/ feed'[d] = Append(feed[d], FeedOf(p))
    BY DEF Save
  <2>3. Carried(Append(feed[d], FeedOf(p))) = Carried(feed[d]) \cup {FeedOf(p)}
    BY <2>1, AppendCarries
  <2>. QED
    BY <2>2, <2>3
<1>. QED
  BY <1>1 DEF Save, Saves

LEMMA HomeSteps ==
  ASSUME TypeOK, NothingUnsaved, [Next]_vars
  PROVE  /\ NothingUnsaved'
         /\ Keeps \/ \E p \in Presence : Saves(p) /\ SavedFrom(p)
<1> DEFINE Goal == /\ NothingUnsaved'
                   /\ Keeps \/ \E p \in Presence : Saves(p) /\ SavedFrom(p)
<1>0. /\ Loaded = stored /\ stored \in Presence /\ presence \in Presence
      /\ stored.edges \in [Edges -> Snapshot \cup {None}] /\ stored.revision \in Nat
      /\ loaded \in BOOLEAN /\ feed \in [Devices -> Seq(Feed)]
      /\ up \in [Sockets -> Seq(Upward)]
  BY DEF NothingUnsaved, Loaded, TypeOK, Presence, Upward
<1>1. ASSUME UNCHANGED <<loaded, presence, stored, feed>> PROVE Goal
  BY <1>1 DEF NothingUnsaved, Keeps
<1>2. ASSUME Load(Loaded), UNCHANGED <<stored, feed>> PROVE Goal
  BY <1>0, <1>2 DEF Load, NothingUnsaved, Keeps
<1>3. ASSUME NEW s \in Sockets, OnSnapshot(s) PROVE Goal
  <2> DEFINE e == s[1]
             new == Head(up[s])
             p == [edges |-> [Loaded.edges EXCEPT ![e] = new],
                   revision |-> Loaded.revision + 1]
  <2>1. /\ e \in Edges /\ new \in Snapshot /\ new \in Carried(up[s])
        /\ loaded' = TRUE
    BY <1>0, <1>3, TailCarries DEF OnSnapshot, Arrived, Sockets
  <2>2. p \in Presence /\ p.revision = stored.revision + 1 /\ SavedFrom(p)
    <3>1. /\ p.edges \in [Edges -> Snapshot \cup {None}] /\ p.revision = stored.revision + 1
          /\ p.edges[e] = new /\ \A f \in Edges : f # e => p.edges[f] = stored.edges[f]
      BY <1>0, <2>1
    <3>2. p \in Presence
      BY <1>0, <3>1 DEF Presence
    <3>3. SavedFrom(p)
      BY <2>1, <3>1 DEF SavedFrom
    <3>. QED
      BY <3>1, <3>2, <3>3
  <2>3. Save(p) \/ Keep(Loaded)
    BY <1>3 DEF OnSnapshot
  <2> HIDE DEF p, e, new
  <2>4. CASE Save(p)
    BY <2>1, <2>2, <2>4, SaveEffect DEF Save, NothingUnsaved
  <2>5. CASE Keep(Loaded)
    BY <1>0, <2>1, <2>5 DEF Keep, Keeps, NothingUnsaved
  <2>. QED
    BY <2>3, <2>4, <2>5
<1>4. ASSUME NEW s \in Sockets, OnClose(s) PROVE Goal
  <2> DEFINE p == Without(presence, bound[s])
  <2>1. UNCHANGED loaded
    BY <1>4 DEF OnClose
  <2>2. CASE bound[s] # None /\ presence.edges[bound[s]] # None
    <3>1. bound[s] \in Edges
      BY <2>2 DEF TypeOK
    <3>2. loaded /\ presence = stored
      BY <2>2, <3>1 DEF NothingUnsaved, NoPresence
    <3>3. p \in Presence /\ p.revision = stored.revision + 1 /\ SavedFrom(p)
      <4> DEFINE left == [stored.edges EXCEPT ![bound[s]] = None]
      <4>1. p = [edges |-> left, revision |-> stored.revision + 1]
        BY <3>2 DEF Without
      <4>2. /\ left \in [Edges -> Snapshot \cup {None}]
            /\ \A f \in Edges : left[f] \in {None, stored.edges[f]}
        BY <1>0
      <4> HIDE DEF p, left
      <4>. QED
        BY <1>0, <4>1, <4>2 DEF Presence, SavedFrom
    <3>4. Save(p)
      BY <1>4, <2>2 DEF OnClose
    <3> HIDE DEF p
    <3>. QED
      BY <2>1, <3>2, <3>3, <3>4, SaveEffect DEF Save, NothingUnsaved
  <2>3. CASE Keep(presence)
    BY <2>1, <2>3 DEF Keep, Keeps, NothingUnsaved
  <2>. QED
    BY <1>4, <2>2, <2>3 DEF OnClose
<1>5. CASE Evict
  BY <1>5 DEF Evict, NothingUnsaved, Keeps, deviceVars
<1>6. ASSUME NEW d \in Devices, DeviceConnect(d) PROVE Goal
  <2>1. feed' = [feed EXCEPT ![d] = <<FeedOf(stored)>>]
    BY <1>0, <1>6 DEF DeviceConnect
  <2>2. Carried(<<FeedOf(stored)>>) = {FeedOf(stored)}
    BY DEF Carried
  <2>. QED
    BY <1>0, <1>6, <2>1, <2>2 DEF DeviceConnect, Load, NothingUnsaved, Keeps
<1>7. ASSUME NEW d \in Devices, DeviceReceive(d) PROVE Goal
  <2>1. Carried(Tail(feed[d])) \subseteq Carried(feed[d])
    BY <1>0, <1>7, TailCarries DEF DeviceReceive
  <2>. QED
    BY <1>0, <1>7, <2>1 DEF DeviceReceive, home, NothingUnsaved, Keeps
<1>8. ASSUME NEW e \in Edges,
             Publish(e) \/ Sending(e) \/ Answer(e) \/ Lose(e) \/ EdgeRestart(e)
      PROVE  Goal
  BY <1>1, <1>8 DEF Publish, Sending, TakeInitial, SendInitial, Wake, TakeUpdate, SendUpdate,
                    Answer, Lose, EdgeRestart, home, deviceVars
<1>9. ASSUME NEW e \in Edges, Dial(e) PROVE Goal
  BY <1>2, <1>9 DEF Dial, deviceVars
<1>10. ASSUME NEW s \in Sockets, OnResult(s) PROVE Goal
  BY <1>2, <1>10 DEF OnResult, deviceVars
<1>11. ASSUME NEW d \in Devices, DeviceAct(d) PROVE Goal
  BY <1>1, <1>11 DEF DeviceAct, home
<1>12. ASSUME NEW d \in Devices, OnAction(d) PROVE Goal
  BY <1>2, <1>12 DEF OnAction
<1>13. CASE UNCHANGED vars
  BY <1>1, <1>13 DEF vars, home, deviceVars
<1>. QED
  BY <1>3, <1>4, <1>5, <1>6, <1>7, <1>8, <1>9, <1>10, <1>11, <1>12, <1>13
     DEF Next, Events

SavedInv == TypeOK /\ NothingUnsaved

LEMMA SavedInvariant == Spec => []SavedInv
<1>1. Init => SavedInv
  BY TypeInit DEF Init, SavedInv, NothingUnsaved
<1>2. SavedInv /\ [Next]_vars => SavedInv'
  BY TypeStep, HomeSteps DEF SavedInv
<1>. QED
  BY <1>1, <1>2, PTL DEF Spec

\* An eviction at any moment loses no contribution: what the object knows in
\* memory is what it has stored, and an object that is not loaded acts on nothing.
THEOREM MemoryIsSaved == Spec => []NothingUnsaved
BY SavedInvariant, PTL DEF SavedInv

\* What devices are shown changes only under a higher homeRevision.
THEOREM HomePublishes == Spec => PublishesVersions
<1>1. Init => Source!Init
  BY DEF Init, Source!Init, Merged, NoPresence
<1>2. SavedInv /\ [Next]_vars => [Source!Next]_(Source!vars)
  <2> SUFFICES ASSUME SavedInv, [Next]_vars PROVE [Source!Next]_(Source!vars)
    OBVIOUS
  <2>1. CASE Keeps
    BY <2>1 DEF Keeps, Merged, Source!vars
  <2>2. ASSUME NEW p \in Presence, Saves(p) PROVE Source!Next
    BY <2>2, MergedType DEF Saves, Source!Next, Source!Publish
  <2>. QED
    BY <2>1, <2>2, HomeSteps DEF SavedInv
<1>. QED
  BY <1>1, <1>2, SavedInvariant, PTL DEF Spec, PublishesVersions, Source!Spec

-----------------------------------------------------------------------------
(* Whose snapshots travel where.  An Edge's senders, its connections and its *)
(* contribution carry its own tasks only.                                    *)

Of(e, snapshot) == \A t \in snapshot.tasks : OwnerOf[t] = e

OnlyTheirs ==
  /\ \A e \in Edges :
       /\ Of(e, source[e])
       /\ initial[e] \notin {None, Due} => Of(e, initial[e])
       /\ update[e] \notin {None, Due} => Of(e, update[e])
       /\ conn[e] # None => conn[e][1] = e
       /\ stored.edges[e] # None => Of(e, stored.edges[e])
  /\ \A s \in Sockets :
       /\ bound[s] \in {None, s[1]}
       /\ \A m \in Carried(up[s]) \cap Snapshot : Of(s[1], m)

LEMMA ActionIsNoSnapshot == ASSUME NEW m \in Action PROVE m \notin Snapshot
<1>1. "device" \in DOMAIN m
  BY DEF Action
<1>2. \A x \in Snapshot : "device" \notin DOMAIN x
  BY DEF Snapshot
<1>. QED
  BY <1>1, <1>2

\* The connections: what is put on one is its Edge's own.
LEMMA WiresTheirs ==
  ASSUME TypeOK, OnlyTheirs, [Next]_vars, NEW s \in Sockets
  PROVE  \A m \in Carried(up'[s]) \cap Snapshot : Of(s[1], m)
<1> DEFINE Goal == \A m \in Carried(up'[s]) \cap Snapshot : Of(s[1], m)
<1>0. /\ up \in [Sockets -> Seq(Upward)] /\ down \in [Sockets -> Seq(Request)]
      /\ conn \in [Edges -> Sockets \cup {None}]
      /\ initial \in [Edges -> Snapshot \cup {None, Due}]
      /\ update \in [Edges -> Snapshot \cup {None, Due}]
      /\ \A m \in Carried(up[s]) \cap Snapshot : Of(s[1], m)
      /\ \A e \in Edges : conn[e] # None => conn[e] \in Sockets /\ conn[e][1] = e
  BY DEF TypeOK, Upward, OnlyTheirs
<1>1. ASSUME Carried(up'[s]) \subseteq Carried(up[s]) PROVE Goal
  BY <1>0, <1>1
<1>2. ASSUME NEW r \in Sockets, NEW m \in Upward, m \in Snapshot => Of(r[1], m),
             up' = [up EXCEPT ![r] = Append(up[r], m)]
      PROVE  Goal
  <2>1. CASE r = s
    <3>1. Carried(up'[s]) = Carried(up[s]) \cup {m}
      BY <1>0, <1>2, <2>1, AppendCarries
    <3>. QED
      BY <1>0, <1>2, <2>1, <3>1
  <2>2. CASE r # s
    BY <1>0, <1>1, <1>2, <2>2
  <2>. QED
    BY <2>1, <2>2
<1>3. ASSUME NEW r \in Sockets, Cut(r) PROVE Goal
  <2>1. PICK n \in 0..Len(up[r]) :
          up' = [up EXCEPT ![r] = Append(SubSeq(up[r], 1, n), Closing)]
    BY <1>3 DEF Cut
  <2>2. CASE r = s
    <3> DEFINE part == SubSeq(up[s], 1, n)
    <3>1. part \in Seq(Upward) /\ Carried(part) \subseteq Carried(up[s])
      BY <1>0, <2>2, PrefixCarries
    <3>2. up'[s] = Append(part, Closing) /\ Closing \in Upward
      BY <1>0, <2>1, <2>2 DEF Upward
    <3> HIDE DEF part
    <3>3. Carried(up'[s]) = Carried(part) \cup {Closing}
      BY <3>1, <3>2, AppendCarries
    <3>. QED
      BY <1>0, <3>1, <3>3, AbsentAssumption DEF AbsentAssumption
  <2>3. CASE r # s
    BY <1>0, <1>1, <2>1, <2>3
  <2>. QED
    BY <2>2, <2>3
<1>4. ASSUME NEW r \in Sockets, Events(r) PROVE Goal
  <2>1. up[r] # <<>> /\ up' = [up EXCEPT ![r] = Tail(up[r])]
    BY <1>4 DEF Events, OnSnapshot, OnResult, OnClose, Arrived, Consume
  <2>2. Carried(Tail(up[r])) \subseteq Carried(up[r])
    BY <1>0, <2>1, TailCarries
  <2>. QED
    BY <1>0, <1>1, <2>1, <2>2
<1>5. ASSUME NEW e \in Edges, SendInitial(e) PROVE Goal
  <2>1. initial[e] \in Snapshot /\ Of(e, initial[e])
        /\ up' = [up EXCEPT ![conn[e]] = Append(up[conn[e]], initial[e])]
    BY <1>0, <1>5 DEF SendInitial, OnlyTheirs
  <2>2. CASE conn[e] \in Sockets
    <3>1. conn[e][1] = e /\ initial[e] \in Upward
      BY <1>0, <2>1, <2>2, AbsentAssumption DEF AbsentAssumption, Upward
    <3>. QED
      BY <1>2, <2>1, <2>2, <3>1
  <2>3. CASE conn[e] \notin Sockets
    BY <1>0, <1>1, <2>1, <2>3
  <2>. QED
    BY <2>2, <2>3
<1>6. ASSUME NEW e \in Edges, SendUpdate(e) PROVE Goal
  <2>1. update[e] \in Snapshot /\ Of(e, update[e])
    BY <1>0, <1>6 DEF SendUpdate, OnlyTheirs
  <2>2. CASE conn[e] = None
    BY <1>1, <1>6, <2>2 DEF SendUpdate
  <2>3. CASE conn[e] # None
    BY <1>0, <1>2, <1>6, <2>1, <2>3 DEF SendUpdate, Upward
  <2>. QED
    BY <2>2, <2>3
<1>7. ASSUME NEW e \in Edges, Answer(e) PROVE Goal
  <2>1. /\ conn[e] \in Sockets /\ down[conn[e]] \in Seq(Request) /\ down[conn[e]] # <<>>
        /\ up' = [up EXCEPT ![conn[e]] = Append(up[conn[e]], Head(down[conn[e]]).action)]
    BY <1>0, <1>7 DEF Answer
  <2>2. Head(down[conn[e]]) \in Request
    BY <2>1, TailCarries
  <2>3. Head(down[conn[e]]).action \in Action
    BY <2>2 DEF Request
  <2>. QED
    BY <1>2, <2>1, <2>3, ActionIsNoSnapshot DEF Upward
<1>8. ASSUME NEW e \in Edges, Lose(e) \/ EdgeRestart(e) PROVE Goal
  BY <1>0, <1>1, <1>3, <1>8 DEF Lose, EdgeRestart, wires
<1>9. ASSUME UNCHANGED up PROVE Goal
  BY <1>1, <1>9
<1>10. ASSUME NEW e \in Edges,
              Publish(e) \/ Dial(e) \/ TakeInitial(e) \/ Wake(e) \/ TakeUpdate(e)
       PROVE  Goal
  BY <1>9, <1>10 DEF Publish, Dial, TakeInitial, Wake, TakeUpdate, wires
<1>11. CASE Evict \/ UNCHANGED vars
  BY <1>9, <1>11 DEF Evict, vars, wires
<1>12. ASSUME NEW d \in Devices,
              DeviceConnect(d) \/ DeviceReceive(d) \/ DeviceAct(d) \/ OnAction(d)
       PROVE  Goal
  BY <1>9, <1>12 DEF DeviceConnect, DeviceReceive, DeviceAct, OnAction, wires
<1>. QED
  BY <1>4, <1>5, <1>6, <1>7, <1>8, <1>10, <1>11, <1>12 DEF Next, Sending

\* The Edges: a sender takes the snapshot of its own core.
LEMMA SendersTheirs ==
  ASSUME TypeOK, OnlyTheirs, [Next]_vars, NEW e \in Edges
  PROVE  /\ Of(e, source'[e])
         /\ initial'[e] \notin {None, Due} => Of(e, initial'[e])
         /\ update'[e] \notin {None, Due} => Of(e, update'[e])
         /\ conn'[e] # None => conn'[e][1] = e
<1> DEFINE Goal == /\ Of(e, source'[e])
                   /\ initial'[e] \notin {None, Due} => Of(e, initial'[e])
                   /\ update'[e] \notin {None, Due} => Of(e, update'[e])
                   /\ conn'[e] # None => conn'[e][1] = e
<1>0. /\ source \in [Edges -> Snapshot] /\ conn \in [Edges -> Sockets \cup {None}]
      /\ initial \in [Edges -> Snapshot \cup {None, Due}]
      /\ update \in [Edges -> Snapshot \cup {None, Due}]
      /\ Of(e, source[e])
      /\ initial[e] \notin {None, Due} => Of(e, initial[e])
      /\ update[e] \notin {None, Due} => Of(e, update[e])
      /\ conn[e] # None => conn[e][1] = e
  BY DEF TypeOK, OnlyTheirs
<1>1. ASSUME UNCHANGED <<source, conn, initial, update>> PROVE Goal
  BY <1>0, <1>1
<1>2. ASSUME NEW f \in Edges, Publish(f) PROVE Goal
  <2>1. PICK ts \in SUBSET {t \in TaskIDs : OwnerOf[t] = f} :
          source' = [source EXCEPT ![f].tasks = ts, ![f].revision = @ + 1]
    BY <1>2 DEF Publish
  <2>2. source'[f].tasks = ts /\ (e # f => source'[e] = source[e])
    BY <2>1, PublishEffect
  <2>3. Of(e, source'[e])
    BY <1>0, <2>2 DEF Of
  <2>. QED
    BY <1>0, <1>2, <2>3 DEF Publish
<1>3. ASSUME NEW f \in Edges, Dial(f) \/ Lose(f) PROVE Goal
  BY <1>0, <1>3 DEF Dial, Lose
<1>4. ASSUME NEW f \in Edges, Sending(f) PROVE Goal
  BY <1>0, <1>4 DEF Sending, TakeInitial, SendInitial, Wake, TakeUpdate, SendUpdate
<1>5. ASSUME NEW f \in Edges, EdgeRestart(f) PROVE Goal
  <2>1. Of(f, EmptySnapshot(source[f].generation + 1))
    BY DEF Of, EmptySnapshot
  <2>2. Of(e, source'[e])
    BY <1>0, <1>5, <2>1 DEF EdgeRestart
  <2>. QED
    BY <1>0, <1>5, <2>2 DEF EdgeRestart
<1>6. ASSUME NEW f \in Edges, Answer(f) PROVE Goal
  BY <1>1, <1>6 DEF Answer, edgeVars
<1>7. ASSUME NEW s \in Sockets, Events(s) PROVE Goal
  BY <1>1, <1>7 DEF Events, OnSnapshot, OnResult, OnClose, edgeVars
<1>8. ASSUME NEW d \in Devices,
             DeviceConnect(d) \/ DeviceReceive(d) \/ DeviceAct(d) \/ OnAction(d)
      PROVE  Goal
  BY <1>1, <1>8 DEF DeviceConnect, DeviceReceive, DeviceAct, OnAction, edgeVars
<1>9. CASE Evict \/ UNCHANGED vars
  BY <1>1, <1>9 DEF Evict, vars, edgeVars
<1>. QED
  BY <1>2, <1>3, <1>4, <1>5, <1>6, <1>7, <1>8, <1>9 DEF Next

\* A socket is bound to the Edge that opened it.
LEMMA SocketsTheirs ==
  ASSUME TypeOK, OnlyTheirs, [Next]_vars, NEW s \in Sockets
  PROVE  bound'[s] \in {None, s[1]}
<1>0. bound \in [Sockets -> Edges \cup {None}] /\ bound[s] \in {None, s[1]}
  BY DEF TypeOK, OnlyTheirs
<1>1. ASSUME NEW r \in Sockets, Events(r) PROVE bound'[s] \in {None, s[1]}
  BY <1>0, <1>1 DEF Events, OnSnapshot, OnResult, OnClose
<1>2. ASSUME ~\E r \in Sockets : Events(r) PROVE UNCHANGED bound
  BY <1>2 DEF Next, Publish, Dial, Sending, TakeInitial, SendInitial, Wake, TakeUpdate, SendUpdate,
              Answer, Lose, EdgeRestart, Evict, DeviceConnect, DeviceReceive, DeviceAct,
              OnAction, vars, home
<1>. QED
  BY <1>0, <1>1, <1>2

LEMMA OnlyTheirsStep ==
  ASSUME TypeOK, NothingUnsaved, OnlyTheirs, [Next]_vars PROVE OnlyTheirs'
<1>1. ASSUME NEW e \in Edges, stored'.edges[e] # None PROVE Of(e, stored'.edges[e])
  <2>1. CASE Keeps
    BY <1>1, <2>1 DEF Keeps, OnlyTheirs
  <2>2. ASSUME NEW p \in Presence, Saves(p), SavedFrom(p) PROVE Of(e, stored'.edges[e])
    BY <1>1, <2>2 DEF Saves, SavedFrom, OnlyTheirs
  <2>. QED
    BY <2>1, <2>2, HomeSteps
<1>. QED
  BY <1>1, WiresTheirs, SendersTheirs, SocketsTheirs DEF OnlyTheirs

(* What devices have seen.  A snapshot shown under the present homeRevision was *)
(* made of the present contributions.                                           *)

Agrees(f) ==
  /\ f.revision <= stored.revision
  /\ f.revision = stored.revision => f.edges = stored.edges

Seen ==
  \A d \in Devices :
    /\ \A f \in Carried(feed[d]) : Agrees(f)
    /\ view[d] # None => Agrees(view[d])
    /\ asking[d] # None => Agrees(asking[d].view)

\* A save makes every snapshot seen so far an old one.
LEMMA AgreesStays ==
  ASSUME TypeOK, Keeps \/ \E p \in Presence : Saves(p), NEW f \in Feed, Agrees(f)
  PROVE  Agrees(f)'
<1>1. f.revision \in Nat /\ stored.revision \in Nat
  BY DEF TypeOK, Presence, Feed
<1>2. CASE Keeps
  BY <1>2 DEF Keeps, Agrees
<1>3. CASE \E p \in Presence : Saves(p)
  BY <1>1, <1>3 DEF Saves, Agrees
<1>. QED
  BY <1>2, <1>3

LEMMA FeedsAgree ==
  ASSUME TypeOK, Seen, Keeps \/ \E p \in Presence : Saves(p), NEW d \in Devices
  PROVE  \A f \in Carried(feed'[d]) : Agrees(f)'
<1>1. stored \in Presence /\ stored.revision \in Nat
  BY DEF TypeOK, Presence
<1>2. \A f \in Carried(feed[d]) : f \in Feed /\ Agrees(f)
  BY DEF TypeOK, Seen, Carried
<1>3. \A f \in Carried(feed[d]) : Agrees(f)'
  BY <1>2, AgreesStays
<1>4. Agrees(FeedOf(stored))'
  <2>1. stored'.revision \in Nat
    BY <1>1 DEF Keeps, Saves
  <2>. QED
    BY <2>1 DEF Agrees, FeedOf
<1>5. Carried(feed'[d]) \subseteq Carried(feed[d]) \cup {FeedOf(stored)'}
  BY DEF Keeps, Saves, FeedOf, Merged
<1>. QED
  BY <1>3, <1>4, <1>5

LEMMA SeenStep ==
  ASSUME TypeOK, NothingUnsaved, Seen, [Next]_vars PROVE Seen'
<1>1. Keeps \/ \E p \in Presence : Saves(p)
  BY HomeSteps
<1> SUFFICES ASSUME NEW d \in Devices
             PROVE  /\ view'[d] # None => Agrees(view[d])'
                    /\ asking'[d] # None => Agrees(asking[d].view)'
  BY <1>1, FeedsAgree DEF Seen
<1> DEFINE Goal == /\ view'[d] # None => Agrees(view[d])'
                   /\ asking'[d] # None => Agrees(asking[d].view)'
<1>2. /\ view \in [Devices -> Feed \cup {None}] /\ asking \in [Devices -> Action \cup {None}]
      /\ feed \in [Devices -> Seq(Feed)]
      /\ view[d] # None => view[d] \in Feed /\ Agrees(view[d])
      /\ asking[d] # None => asking[d].view \in Feed /\ Agrees(asking[d].view)
  BY DEF TypeOK, Seen, Action
<1>3. /\ \A f \in Feed : Agrees(f) => Agrees(f)'
  BY <1>1, AgreesStays
<1>4. ASSUME UNCHANGED <<view, asking>> PROVE Goal
  BY <1>2, <1>3, <1>4
<1>5. ASSUME NEW c \in Devices, DeviceReceive(c) PROVE Goal
  <2>1. Head(feed[c]) \in Carried(feed[c]) /\ Head(feed[c]) \in Feed
    BY <1>2, <1>5, TailCarries DEF DeviceReceive
  <2>2. Agrees(Head(feed[c]))
    BY <2>1 DEF Seen
  <2>3. view'[d] = view[d] \/ view'[d] = Head(feed[c])
    BY <1>2, <1>5 DEF DeviceReceive
  <2>4. asking' = asking
    BY <1>5 DEF DeviceReceive
  <2>. QED
    BY <1>2, <1>3, <2>1, <2>2, <2>3, <2>4
<1>6. ASSUME NEW c \in Devices, DeviceAct(c) PROVE Goal
  <2>1. PICK t, cap : asking' = [asking EXCEPT ![c] =
               [device |-> c, task |-> t, cap |-> cap, view |-> view[c]]]
    BY <1>6 DEF DeviceAct
  <2>2. view' = view /\ (view[c] # None)
    BY <1>6 DEF DeviceAct
  <2>3. asking'[d] = asking[d] \/ (c = d /\ asking'[d].view = view[d])
    BY <1>2, <2>1
  <2>. QED
    BY <1>2, <1>3, <2>2, <2>3
<1>7. ASSUME NEW c \in Devices, OnAction(c) PROVE Goal
  <2>1. asking'[d] \in {asking[d], None} /\ view' = view
    BY <1>2, <1>7 DEF OnAction
  <2>. QED
    BY <1>2, <1>3, <2>1
<1>8. ASSUME NEW e \in Edges, \/ Publish(e) \/ Dial(e) \/ Sending(e) \/ Answer(e)
                              \/ Lose(e) \/ EdgeRestart(e)
      PROVE  Goal
  BY <1>4, <1>8 DEF Publish, Dial, Sending, TakeInitial, SendInitial, Wake, TakeUpdate,
                    SendUpdate, Answer, Lose, EdgeRestart, deviceVars
<1>9. ASSUME NEW s \in Sockets, Events(s) PROVE Goal
  BY <1>4, <1>9 DEF Events, OnSnapshot, OnResult, OnClose, deviceVars
<1>10. ASSUME NEW c \in Devices, DeviceConnect(c) PROVE Goal
  BY <1>4, <1>10 DEF DeviceConnect
<1>11. CASE Evict \/ UNCHANGED vars
  BY <1>4, <1>11 DEF Evict, vars, deviceVars
<1>. QED
  BY <1>5, <1>6, <1>7, <1>8, <1>9, <1>10, <1>11 DEF Next

-----------------------------------------------------------------------------
(* The requests on their way to an Edge. *)

RightFor(s, r) ==
  LET saw == r.action.view.edges[OwnerOf[r.action.task]]
  IN /\ s[1] = OwnerOf[r.action.task]
     /\ saw # None /\ r.action.task \in saw.tasks /\ r.seen = saw.revision

LEMMA TranslationMeans ==
  TranslationSound <=> \A s \in Sockets : \A r \in Carried(down[s]) : RightFor(s, r)
  BY DEF TranslationSound, RightFor, Carried

\* What is forwarded is right: the device's revision is the present one, so what
\* it saw are the present contributions, and a socket of the owner takes it.
LEMMA ForwardedRight ==
  ASSUME TypeOK, NothingUnsaved, OnlyTheirs, Seen,
         NEW d \in Devices, asking[d] # None,
         asking[d].view.revision = Loaded.revision,
         NEW e \in Owners(Loaded, asking[d].task), NEW s \in BoundTo(e)
  PROVE  RightFor(s, [action |-> asking[d], seen |-> Translate(Loaded, e, asking[d])])
<1> DEFINE a == asking[d]
<1>1. Loaded = stored /\ a \in Action /\ e \in Edges /\ s \in Sockets
  BY DEF NothingUnsaved, Loaded, TypeOK, Owners, BoundTo
<1>2. a.view.edges = stored.edges
  BY <1>1 DEF Seen, Agrees
<1>3. stored.edges[e] # None /\ a.task \in stored.edges[e].tasks
  BY <1>1 DEF Owners
<1>4. OwnerOf[a.task] = e
  BY <1>1, <1>3 DEF OnlyTheirs, Of
<1>5. s[1] = e
  BY <1>1, AbsentAssumption DEF BoundTo, OnlyTheirs, AbsentAssumption
<1> HIDE DEF a
<1>. QED
  BY <1>1, <1>2, <1>3, <1>4, <1>5 DEF RightFor, Translate, a

LEMMA TranslationStep ==
  ASSUME TypeOK, NothingUnsaved, OnlyTheirs, Seen, TranslationSound, [Next]_vars
  PROVE  TranslationSound'
<1> SUFFICES ASSUME NEW s \in Sockets
             PROVE  \A r \in Carried(down'[s]) : RightFor(s, r)
  BY DEF TranslationSound, RightFor, Carried
<1> DEFINE Goal == \A r \in Carried(down'[s]) : RightFor(s, r)
<1>0. /\ down \in [Sockets -> Seq(Request)] /\ \A r \in Carried(down[s]) : RightFor(s, r)
      /\ conn \in [Edges -> Sockets \cup {None}]
  BY TranslationMeans DEF TypeOK
<1>1. ASSUME Carried(down'[s]) \subseteq Carried(down[s]) PROVE Goal
  BY <1>0, <1>1
<1>2. ASSUME NEW e \in Edges, Answer(e) PROVE Goal
  <2>1. /\ conn[e] \in Sockets /\ down[conn[e]] # <<>>
        /\ down' = [down EXCEPT ![conn[e]] = Tail(down[conn[e]])]
    BY <1>0, <1>2 DEF Answer
  <2>2. Carried(Tail(down[conn[e]])) \subseteq Carried(down[conn[e]])
    BY <1>0, <2>1, TailCarries
  <2>. QED
    BY <1>0, <1>1, <2>1, <2>2
<1>3. ASSUME NEW e \in Edges, Lose(e) \/ EdgeRestart(e) PROVE Goal
  <2>1. down'[s] = down[s] \/ down'[s] = <<>>
    BY <1>0, <1>3 DEF Lose, EdgeRestart, Cut, wires
  <2>2. Carried(<<>>) = {}
    BY DEF Carried
  <2>. QED
    BY <1>0, <2>1, <2>2
<1>4. ASSUME NEW d \in Devices, OnAction(d) PROVE Goal
  <2> DEFINE a == asking[d]
             r(e) == [action |-> a, seen |-> Translate(Loaded, e, a)]
  <2>1. CASE UNCHANGED down
    BY <1>1, <2>1
  <2>2. CASE ~UNCHANGED down
    <3>1. PICK e \in Owners(Loaded, a.task), q \in sockets :
            /\ q \in BoundTo(e)
            /\ a.view.revision = Loaded.revision
            /\ down' = [down EXCEPT ![q] = Append(down[q], r(e))]
      BY <1>4, <2>2 DEF OnAction, BoundTo
    <3>2. asking[d] # None
      BY <1>4 DEF OnAction
    <3>3. RightFor(q, r(e))
      BY <3>1, <3>2, ForwardedRight
    <3>4. q \in Sockets
      BY DEF TypeOK
    <3>5. r(e) \in Request
      <4>1. Loaded \in Presence /\ e \in Edges /\ Loaded.edges[e] # None /\ a \in Action
        BY <3>2, LoadedType DEF Owners, TypeOK
      <4>2. Loaded.edges[e].revision \in Nat
        BY <4>1 DEF Presence, Snapshot
      <4>. HIDE DEF a
      <4>. QED
        BY <4>1, <4>2 DEF Translate, Request
    <3> HIDE DEF r
    <3>6. Carried(Append(down[q], r(e))) = Carried(down[q]) \cup {r(e)}
      BY <1>0, <3>4, <3>5, AppendCarries
    <3>. QED
      BY <1>0, <3>1, <3>3, <3>4, <3>6
  <2>. QED
    BY <2>1, <2>2
<1>5. ASSUME NEW e \in Edges, Publish(e) \/ Dial(e) \/ Sending(e) PROVE Goal
  BY <1>1, <1>5 DEF Publish, Dial, Sending, TakeInitial, SendInitial, Wake, TakeUpdate,
                    SendUpdate, wires
<1>6. ASSUME NEW q \in Sockets, Events(q) PROVE Goal
  BY <1>1, <1>6 DEF Events, OnSnapshot, OnResult, OnClose
<1>7. ASSUME NEW d \in Devices, DeviceConnect(d) \/ DeviceReceive(d) \/ DeviceAct(d)
      PROVE  Goal
  BY <1>1, <1>7 DEF DeviceConnect, DeviceReceive, DeviceAct, wires
<1>8. CASE Evict \/ UNCHANGED vars
  BY <1>1, <1>8 DEF Evict, vars, wires
<1>. QED
  BY <1>2, <1>3, <1>4, <1>5, <1>6, <1>7, <1>8 DEF Next

TranslationInv == SavedInv /\ OnlyTheirs /\ Seen /\ TranslationSound

\* A request reaches no other Edge than the owner of its task, with the revision
\* of the very snapshot the device was looking at, however many Edges, devices,
\* reconnects, restarts and evictions are between.
THEOREM ActionsTranslated == Spec => []TranslationSound
<1>1. Init => TranslationInv
  <2> SUFFICES ASSUME Init PROVE TranslationInv
    OBVIOUS
  <2>1. SavedInv
    BY TypeInit DEF Init, SavedInv, NothingUnsaved
  <2>2. OnlyTheirs
    BY DEF Init, OnlyTheirs, Of, EmptySnapshot, NoPresence, Carried
  <2>3. Seen
    BY DEF Init, Seen, Carried
  <2>4. TranslationSound
    BY DEF Init, TranslationSound
  <2>. QED
    BY <2>1, <2>2, <2>3, <2>4 DEF TranslationInv
<1>2. TranslationInv /\ [Next]_vars => TranslationInv'
  BY TypeStep, HomeSteps, OnlyTheirsStep, SeenStep, TranslationStep
     DEF TranslationInv, SavedInv
<1>. QED
  BY <1>1, <1>2, PTL DEF Spec, TranslationInv

=============================================================================
