--------------------------- MODULE EdgeFeedProofs ----------------------------
(***************************************************************************)
(* Theorems about EdgeFeed, for any number of devices and of goroutines    *)
(* that change the core.                                                   *)
(***************************************************************************)
EXTENDS EdgeFeed, TLAPS

-----------------------------------------------------------------------------
(* The frames on a connection. *)

Elements(w) == {w[i] : i \in DOMAIN w}

LEMMA AppendElements ==
  ASSUME NEW S, NEW w \in Seq(S), NEW e \in S
  PROVE  /\ Append(w, e) \in Seq(S)
         /\ Elements(Append(w, e)) = Elements(w) \cup {e}
<1>1. /\ Append(w, e) \in Seq(S)
      /\ DOMAIN Append(w, e) = DOMAIN w \cup {Len(w) + 1}
      /\ Append(w, e)[Len(w) + 1] = e
      /\ \A i \in DOMAIN w : Append(w, e)[i] = w[i]
  OBVIOUS
<1>. QED
  BY <1>1, Zenon DEF Elements

LEMMA TailElements ==
  ASSUME NEW S, NEW w \in Seq(S), w # <<>>
  PROVE  /\ Tail(w) \in Seq(S) /\ Head(w) \in S /\ Head(w) \in Elements(w)
         /\ Elements(w) = {Head(w)} \cup Elements(Tail(w))
<1>1. /\ Tail(w) \in Seq(S) /\ Head(w) \in S /\ Head(w) = w[1] /\ 1 \in DOMAIN w
      /\ Len(w) \in Nat /\ Len(w) # 0 /\ DOMAIN w = 1..Len(w)
      /\ DOMAIN Tail(w) = 1..(Len(w) - 1)
      /\ \A i \in DOMAIN Tail(w) : Tail(w)[i] = w[i + 1]
  OBVIOUS
<1>2. Elements(Tail(w)) \subseteq Elements(w)
  BY <1>1 DEF Elements
<1>3. ASSUME NEW i \in DOMAIN w PROVE w[i] = Head(w) \/ w[i] \in Elements(Tail(w))
  <2>1. CASE i = 1
    BY <1>1, <2>1
  <2>2. CASE i # 1
    <3>1. i - 1 \in DOMAIN Tail(w) /\ Tail(w)[i - 1] = w[i]
      BY <1>1, <2>2
    <3>. QED
      BY <3>1 DEF Elements
  <2>. QED
    BY <2>1, <2>2
<1>. QED
  BY <1>1, <1>2, <1>3 DEF Elements

-----------------------------------------------------------------------------
(* Types. *)

LEMMA CoreSnapshotType == TypeOK => CoreSnapshot \in Snapshot
  BY DEF TypeOK, Core!TypeOK, CoreSnapshot, Snapshot

LEMMA HandledType ==
  ASSUME NEW sl \in Slot, NEW s \in Snapshot
  PROVE  Handled(sl, s) \in Slot
  BY DEF Handled, Slot

LEMMA LastFacts ==
  ASSUME NEW sl \in Slot, NEW s \in Snapshot
  PROVE  /\ Handled(sl, s).last \in {sl.last, s}
         /\ Disconnected(sl).last = sl.last
  BY DEF Handled, Disconnected, Slot

\* Who is about to write a snapshot has taken one.
Writers ==
  /\ loop \in {"taken", "writing"} => snap \in Snapshot
  /\ \A d \in Devices : feed[d] = "holding" => held[d] \in Snapshot

TypeInv == TypeOK /\ Writers

LEMMA TypeInit == Init => TypeInv
<1> SUFFICES ASSUME Init PROVE TypeInv
  OBVIOUS
<1>1. Core!TypeOK
  BY FeedAssumption DEF Init, Core!Init, Core!TypeOK, FeedAssumption
<1>2. slot \in [Devices -> Slot]
  BY DEF Init, Slot
<1>3. wire \in [Devices -> Seq(Snapshot)]
  BY DEF Init
<1>4. /\ feed \in [Devices -> {"none", "upgraded", "joined", "holding", "serving"}]
      /\ held \in [Devices -> Snapshot \cup {NoSnapshot}]
      /\ drops \in Nat
  BY DEF Init
<1>5. Writers
  BY DEF Init, Writers
<1>. QED
  BY <1>1, <1>2, <1>3, <1>4, <1>5 DEF Init, TypeOK, TypeInv

LEMMA TypeStep == TypeInv /\ [Next]_vars => TypeInv'
<1> SUFFICES ASSUME TypeInv, [Next]_vars PROVE TypeInv'
  OBVIOUS
<1> USE FeedAssumption DEF FeedAssumption, TypeInv
<1>0. /\ CoreSnapshot \in Snapshot
      /\ content \in Content /\ generation \in Nat /\ revision \in Nat /\ drops \in Nat
      /\ slot \in [Devices -> Slot] /\ wire \in [Devices -> Seq(Snapshot)]
      /\ held \in [Devices -> Snapshot \cup {NoSnapshot}]
      /\ feed \in [Devices -> {"none", "upgraded", "joined", "holding", "serving"}]
  BY CoreSnapshotType DEF TypeOK, Core!TypeOK
<1>1. ASSUME NEW m \in Mutators, Change(m) PROVE TypeInv'
  <2>1. Core!TypeOK'
    BY <1>0, <1>1 DEF Change, Core!Publish, Core!TypeOK
  <2>. QED
    BY <1>1, <2>1 DEF Change, TypeOK, Writers, conns
<1>2. ASSUME NEW m \in Mutators, Signal(m) PROVE TypeInv'
  BY <1>2 DEF Signal, TypeOK, Writers, core, conns, Core!TypeOK
<1>3. CASE LoopSteps
  BY <1>0, <1>3 DEF LoopSteps, Wake, TakeSnapshot, ListClients, EndBroadcast, TypeOK,
                    Writers, core, conns, Core!TypeOK
<1>4. ASSUME NEW d \in Devices, Broadcast(d) PROVE TypeInv'
  <2>1. Append(wire[d], snap) \in Seq(Snapshot)
    BY <1>0, <1>4, AppendElements DEF Broadcast, Writers
  <2>2. wire' \in [Devices -> Seq(Snapshot)]
    BY <1>0, <1>4, <2>1 DEF Broadcast
  <2>. QED
    BY <1>4, <2>2 DEF Broadcast, TypeOK, Writers, core, Core!TypeOK
<1>5. ASSUME NEW d \in Devices, Connect(d) PROVE TypeInv'
  <2>1. slot' \in [Devices -> Slot]
    BY <1>0, <1>5 DEF Connect, Slot
  <2>. QED
    BY <1>0, <1>5, <2>1 DEF Connect, TypeOK, Writers, core, sender, Core!TypeOK
<1>6. ASSUME NEW d \in Devices, JoinHub(d) PROVE TypeInv'
  BY <1>0, <1>6 DEF JoinHub, TypeOK, Writers, core, sender, Core!TypeOK
<1>7. ASSUME NEW d \in Devices, TakeInitial(d) PROVE TypeInv'
  BY <1>0, <1>7 DEF TakeInitial, TypeOK, Writers, core, sender, Core!TypeOK
<1>8. ASSUME NEW d \in Devices, WriteInitial(d) PROVE TypeInv'
  <2>1. Append(wire[d], held[d]) \in Seq(Snapshot)
    BY <1>0, <1>8, AppendElements DEF WriteInitial, Writers
  <2>2. wire' \in [Devices -> Seq(Snapshot)]
    BY <1>0, <1>8, <2>1 DEF WriteInitial
  <2>3. /\ held' \in [Devices -> Snapshot \cup {NoSnapshot}]
        /\ feed' \in [Devices -> {"none", "upgraded", "joined", "holding", "serving"}]
        /\ \A e \in Devices : feed'[e] = "holding" => held'[e] \in Snapshot
    BY <1>0, <1>8 DEF WriteInitial, Writers
  <2>. QED
    BY <1>8, <2>2, <2>3 DEF WriteInitial, TypeOK, Writers, core, sender, Core!TypeOK
<1>9. ASSUME NEW d \in Devices, Deliver(d) PROVE TypeInv'
  <2>1. Tail(wire[d]) \in Seq(Snapshot) /\ Head(wire[d]) \in Snapshot
    BY <1>0, <1>9, TailElements DEF Deliver
  <2>2. wire' \in [Devices -> Seq(Snapshot)]
    BY <1>0, <1>9, <2>1 DEF Deliver
  <2>3. slot' \in [Devices -> Slot]
    BY <1>0, <1>9, <2>1, HandledType DEF Deliver
  <2>. QED
    BY <1>9, <2>2, <2>3 DEF Deliver, TypeOK, Writers, core, sender, Core!TypeOK
<1>10. ASSUME NEW d \in Devices, Drop(d) PROVE TypeInv'
  <2>1. slot' \in [Devices -> Slot]
    BY <1>0, <1>10 DEF Drop, Disconnected, Slot
  <2>2. wire' \in [Devices -> Seq(Snapshot)]
    BY <1>0, <1>10 DEF Drop
  <2>3. /\ held' \in [Devices -> Snapshot \cup {NoSnapshot}]
        /\ feed' \in [Devices -> {"none", "upgraded", "joined", "holding", "serving"}]
        /\ \A e \in Devices : feed'[e] = "holding" => held'[e] \in Snapshot
        /\ drops' \in Nat
    BY <1>0, <1>10 DEF Drop, Writers
  <2>. QED
    BY <1>10, <2>1, <2>2, <2>3 DEF Drop, TypeOK, Writers, core, Core!TypeOK
<1>11. CASE EdgeRestart
  <2>1. slot' \in [Devices -> Slot]
    BY <1>0, <1>11 DEF EdgeRestart, Disconnected, Slot
  <2>2. wire' \in [Devices -> Seq(Snapshot)]
    BY <1>11 DEF EdgeRestart
  <2>3. Core!TypeOK' /\ owes' \subseteq Mutators /\ drops' \in Nat
    BY <1>0, <1>11 DEF EdgeRestart, Core!TypeOK
  <2>. QED
    BY <1>11, <2>1, <2>2, <2>3 DEF EdgeRestart, TypeOK, Writers
<1>12. CASE UNCHANGED vars
  BY <1>12 DEF vars, core, sender, conns, TypeOK, Writers, Core!TypeOK
<1>. QED
  BY <1>1, <1>2, <1>3, <1>4, <1>5, <1>6, <1>7, <1>8, <1>9, <1>10, <1>11, <1>12
     DEF Next, FeedSteps

\* Every variable keeps its type in every behaviour of the feed.
THEOREM TypeCorrect == Spec => []TypeOK
<1>1. TypeInv => TypeOK
  BY DEF TypeInv
<1>. QED
  BY <1>1, TypeInit, TypeStep, PTL DEF Spec

-----------------------------------------------------------------------------
(* Versions.  A step copies snapshots, or takes the core's; and the core's *)
(* version stays or moves ahead.                                           *)

LEMMA SnapshotsAre ==
  \A s : s \in Snapshots <=>
           /\ s # NoSnapshot
           /\ \/ s = snap
              \/ \E d \in Devices : \/ s = held[d] \/ s = slot[d].last
                                    \/ s \in Elements(wire[d])
  BY DEF Snapshots, Elements

LEMMA NewSnapshots ==
  ASSUME TypeInv, [Next]_vars PROVE Snapshots' \subseteq Snapshots \cup {CoreSnapshot}
<1> DEFINE Old == Snapshots \cup {CoreSnapshot}
<1> SUFFICES ASSUME NEW s \in Snapshots' PROVE s \in Old
  OBVIOUS
<1> USE DEF TypeInv
<1>0. /\ slot \in [Devices -> Slot] /\ wire \in [Devices -> Seq(Snapshot)]
      /\ held \in [Devices -> Snapshot \cup {NoSnapshot}]
  BY DEF TypeOK
<1>1. /\ s # NoSnapshot
      /\ \/ s = snap'
         \/ \E d \in Devices : \/ s = held'[d] \/ s = slot'[d].last
                               \/ s \in Elements(wire'[d])
  BY DEF Snapshots, Elements
<1>2. \A x : x # NoSnapshot /\ (\/ x = snap
                                \/ \E d \in Devices : \/ x = held[d] \/ x = slot[d].last
                                                      \/ x \in Elements(wire[d]))
             => x \in Old
  BY SnapshotsAre
<1>3. CASE UNCHANGED <<held, slot, wire>> /\ (snap' \in {snap, NoSnapshot, CoreSnapshot})
  BY <1>1, <1>2, <1>3
<1>4. CASE \E m \in Mutators : Change(m) \/ Signal(m)
  BY <1>3, <1>4 DEF Change, Signal, conns
<1>5. CASE LoopSteps
  BY <1>3, <1>5 DEF LoopSteps, Wake, TakeSnapshot, ListClients, EndBroadcast, conns
<1>6. ASSUME NEW d \in Devices, Broadcast(d) PROVE s \in Old
  <2>1. snap \in Snapshot /\ UNCHANGED <<held, slot, snap>>
    BY <1>6 DEF Broadcast, Writers
  <2>2. \A e \in Devices : Elements(wire'[e]) \subseteq Elements(wire[e]) \cup {snap}
    <3>1. Elements(Append(wire[d], snap)) = Elements(wire[d]) \cup {snap}
      BY <1>0, <2>1, AppendElements
    <3>2. \A e \in Devices : wire'[e] = IF e = d THEN Append(wire[d], snap) ELSE wire[e]
      BY <1>0, <1>6 DEF Broadcast
    <3>. QED
      BY <3>1, <3>2
  <2>. QED
    BY <1>1, <1>2, <2>1, <2>2
<1>7. ASSUME NEW d \in Devices, Connect(d) PROVE s \in Old
  <2>1. \A e \in Devices : slot'[e].last = slot[e].last
    BY <1>0, <1>7 DEF Connect, Slot
  <2>. QED
    BY <1>1, <1>2, <1>7, <2>1 DEF Connect, sender
<1>8. ASSUME NEW d \in Devices, JoinHub(d) PROVE s \in Old
  BY <1>3, <1>8 DEF JoinHub, sender
<1>9. ASSUME NEW d \in Devices, TakeInitial(d) PROVE s \in Old
  <2>1. \A e \in Devices : held'[e] = held[e] \/ held'[e] = CoreSnapshot
    BY <1>0, <1>9 DEF TakeInitial
  <2>. QED
    BY <1>1, <1>2, <1>9, <2>1 DEF TakeInitial, sender
<1>10. ASSUME NEW d \in Devices, WriteInitial(d) PROVE s \in Old
  <2>1. held[d] \in Snapshot /\ UNCHANGED <<slot, snap>>
    BY <1>10 DEF WriteInitial, Writers, sender
  <2>2. \A e \in Devices : Elements(wire'[e]) \subseteq Elements(wire[e]) \cup {held[d]}
    <3>1. Elements(Append(wire[d], held[d])) = Elements(wire[d]) \cup {held[d]}
      BY <1>0, <2>1, AppendElements
    <3>2. \A e \in Devices : wire'[e] = IF e = d THEN Append(wire[d], held[d]) ELSE wire[e]
      BY <1>0, <1>10 DEF WriteInitial
    <3>. QED
      BY <3>1, <3>2
  <2>3. \A e \in Devices : held'[e] = held[e] \/ held'[e] = NoSnapshot
    BY <1>0, <1>10 DEF WriteInitial
  <2>. QED
    BY <1>1, <1>2, <2>1, <2>2, <2>3
<1>11. ASSUME NEW d \in Devices, Deliver(d) PROVE s \in Old
  <2>1. /\ Head(wire[d]) \in Elements(wire[d])
        /\ Elements(Tail(wire[d])) \subseteq Elements(wire[d])
        /\ Head(wire[d]) \in Snapshot
    BY <1>0, <1>11, TailElements DEF Deliver
  <2>2. \A e \in Devices : Elements(wire'[e]) \subseteq Elements(wire[e])
    <3>1. \A e \in Devices : wire'[e] = IF e = d THEN Tail(wire[d]) ELSE wire[e]
      BY <1>0, <1>11 DEF Deliver
    <3>. QED
      BY <2>1, <3>1
  <2>3. \A e \in Devices : \/ slot'[e].last = slot[e].last
                           \/ e = d /\ slot'[e].last = Head(wire[d])
    <3>1. Handled(slot[d], Head(wire[d])).last \in {slot[d].last, Head(wire[d])}
      BY <1>0, <2>1, LastFacts
    <3> TAKE e \in Devices
    <3>2. slot'[e] = IF e = d THEN Handled(slot[d], Head(wire[d])) ELSE slot[e]
      BY <1>0, <1>11 DEF Deliver
    <3>3. CASE e = d
      BY <3>1, <3>2, <3>3
    <3>4. CASE e # d
      BY <3>2, <3>4
    <3>. QED
      BY <3>3, <3>4
  <2>4. UNCHANGED <<held, snap>>
    BY <1>11 DEF Deliver, sender
  <2>. QED
    BY <1>1, <1>2, <2>1, <2>2, <2>3, <2>4
<1>12. CASE (\E d \in Devices : Drop(d)) \/ EdgeRestart
  <2>1. \A e \in Devices : slot'[e].last = slot[e].last
    <3> TAKE e \in Devices
    <3>1. slot[e] \in Slot /\ (slot'[e] = slot[e] \/ slot'[e] = Disconnected(slot[e]))
      BY <1>0, <1>12 DEF Drop, EdgeRestart
    <3>. QED
      BY <3>1 DEF Disconnected, Slot
  <2>2. \A e \in Devices : held'[e] = held[e] \/ held'[e] = NoSnapshot
    BY <1>0, <1>12 DEF Drop, EdgeRestart
  <2>3. \A e \in Devices : wire'[e] = wire[e] \/ wire'[e] = <<>>
    BY <1>0, <1>12 DEF Drop, EdgeRestart
  <2>4. Elements(<<>>) = {}
    BY DEF Elements
  <2>5. snap' = snap \/ snap' = NoSnapshot
    BY <1>12 DEF Drop, EdgeRestart
  <2>. QED
    BY <1>1, <1>2, <2>1, <2>2, <2>3, <2>4, <2>5
<1>13. CASE UNCHANGED vars
  BY <1>3, <1>13 DEF vars, sender, conns
<1>. QED
  BY <1>4, <1>5, <1>6, <1>7, <1>8, <1>9, <1>10, <1>11, <1>12, <1>13
     DEF Next, FeedSteps

LEMMA CoreMovesAhead ==
  ASSUME TypeInv, [Next]_vars
  PROVE  CoreSnapshot' = CoreSnapshot \/ Older(CoreSnapshot, CoreSnapshot')
<1> USE DEF TypeInv
<1>0. generation \in Nat /\ revision \in Nat
  BY DEF TypeOK, Core!TypeOK
<1>1. CASE \E m \in Mutators : Change(m)
  BY <1>0, <1>1 DEF Change, Core!Publish, CoreSnapshot, Older, Core!OlderOrder
<1>2. CASE EdgeRestart
  BY <1>0, <1>2 DEF EdgeRestart, CoreSnapshot, Older, Core!OlderOrder
<1>3. CASE UNCHANGED core
  BY <1>3 DEF core, CoreSnapshot
<1>4. CASE \/ \E m \in Mutators : Signal(m)
           \/ LoopSteps
           \/ \E d \in Devices : Broadcast(d) \/ FeedSteps(d) \/ Deliver(d) \/ Drop(d)
           \/ UNCHANGED vars
  <2>1. UNCHANGED core
    BY <1>4 DEF Signal, LoopSteps, Wake, TakeSnapshot, ListClients, EndBroadcast,
         Broadcast, FeedSteps, Connect, JoinHub, TakeInitial, WriteInitial, Deliver,
         Drop, vars
  <2>. QED
    BY <1>3, <2>1
<1>. QED
  BY <1>1, <1>2, <1>4 DEF Next

LEMMA SnapshotsType == TypeInv => Snapshots \subseteq Snapshot
<1> SUFFICES ASSUME TypeInv, NEW s \in Snapshots PROVE s \in Snapshot
  OBVIOUS
<1>1. \A d \in Devices : Elements(wire[d]) \subseteq Snapshot
  BY DEF TypeInv, TypeOK, Elements
<1>2. \A d \in Devices : slot[d].last \in Snapshot \cup {NoSnapshot}
  BY DEF TypeInv, TypeOK, Slot
<1>. QED
  BY <1>1, <1>2, SnapshotsAre DEF TypeInv, TypeOK

VersionInv == TypeInv /\ SameOrderSameContent

LEMMA VersionStep ==
  ASSUME VersionInv, [Next]_vars PROVE SameOrderSameContent'
<1> USE DEF VersionInv
<1> DEFINE Now == CoreSnapshot
           Old == Snapshots \cup {CoreSnapshot}
<1>1. /\ Old \subseteq Snapshot /\ CoreSnapshot' \in Snapshot
      /\ Snapshots' \subseteq Old
      /\ (CoreSnapshot' = CoreSnapshot \/ Older(CoreSnapshot, CoreSnapshot'))
  <2>1. TypeInv'
    BY TypeStep
  <2>2. CoreSnapshot' \in Snapshot
    BY <2>1 DEF TypeInv, TypeOK, Core!TypeOK, CoreSnapshot, Snapshot
  <2>. QED
    BY <2>2, SnapshotsType, CoreSnapshotType, NewSnapshots, CoreMovesAhead DEF TypeInv
<1>2. \A a, b, c \in Snapshot : Older(b, c) /\ ~Older(b, a) => Older(a, c)
  BY DEF Older, Core!OlderOrder, Snapshot
<1>3. \A a, b \in Snapshot : Older(a, b) => ~SameOrder(a, b) /\ ~SameOrder(b, a) /\ ~Older(b, a)
  BY DEF Older, Core!OlderOrder, SameOrder, Snapshot
<1>4. \A a \in Snapshot : ~Older(a, a)
  BY DEF Older, Core!OlderOrder, Snapshot
<1>5. /\ \A a \in Old : ~Older(CoreSnapshot, a)
      /\ \A a, b \in Old : SameOrder(a, b) => a = b
  BY DEF SameOrderSameContent
<1>6. CASE CoreSnapshot' = CoreSnapshot
  <2>1. Snapshots' \cup {CoreSnapshot'} \subseteq Old
    BY <1>1, <1>6
  <2>. QED
    BY <1>5, <1>6, <2>1 DEF SameOrderSameContent, Older, SameOrder
<1>7. CASE Older(CoreSnapshot, CoreSnapshot')
  <2>1. \A a \in Old : Older(a, CoreSnapshot')
    BY <1>1, <1>2, <1>5, <1>7
  <2>2. \A a \in Snapshots' \cup {CoreSnapshot'} : ~Older(CoreSnapshot', a)
    BY <1>1, <1>3, <1>4, <2>1
  <2>3. \A a, b \in Snapshots' \cup {CoreSnapshot'} : SameOrder(a, b) => a = b
    BY <1>1, <1>3, <1>5, <2>1
  <2>. QED
    BY <2>2, <2>3 DEF SameOrderSameContent, Older, SameOrder
<1>. QED
  BY <1>1, <1>6, <1>7

LEMMA VersionInvariant == Spec => []VersionInv
<1>1. Init => VersionInv
  <2> SUFFICES ASSUME Init PROVE VersionInv
    OBVIOUS
  <2>1. TypeInv
    BY TypeInit
  <2>2. Snapshots = {}
    BY SnapshotsAre DEF Init, Elements
  <2>3. ~Older(CoreSnapshot, CoreSnapshot)
    BY DEF Init, Core!Init, Older, Core!OlderOrder, CoreSnapshot
  <2>. QED
    BY <2>1, <2>2, <2>3 DEF VersionInv, SameOrderSameContent
<1>2. VersionInv /\ [Next]_vars => VersionInv'
  BY VersionStep, TypeStep DEF VersionInv
<1>. QED
  BY <1>1, <1>2, PTL DEF Spec

\* No snapshot that is held, on its way or remembered is ahead of the core, and
\* two of one order are one snapshot: the order identifies the content.
THEOREM VersionsIdentify == Spec => []SameOrderSameContent
<1>1. VersionInv => SameOrderSameContent
  BY DEF VersionInv
<1>. QED
  BY <1>1, VersionInvariant, PTL

-----------------------------------------------------------------------------
(* Wake-ups. *)

\* The version d's connection is to receive, by a frame under way or received.
LEMMA ReachedByWire ==
  ASSUME NEW d \in Devices
  PROVE  Reached(d) <=>
           \/ slot[d].last # NoSnapshot /\ SameOrder(slot[d].last, CoreSnapshot)
           \/ \E s \in Elements(wire[d]) : SameOrder(s, CoreSnapshot)
  BY DEF Reached, Elements

LEMMA ReachedStays ==
  ASSUME NEW d \in Devices, UNCHANGED core, slot'[d].last = slot[d].last,
         Elements(wire[d]) \subseteq Elements(wire'[d])
  PROVE  /\ Reached(d) => Reached(d)'
         /\ \A s \in Elements(wire'[d]) : SameOrder(s, CoreSnapshot) => Reached(d)'
<1>1. CoreSnapshot' = CoreSnapshot
  BY DEF core, CoreSnapshot
<1>2. Reached(d)' <=>
        \/ slot'[d].last # NoSnapshot /\ SameOrder(slot'[d].last, CoreSnapshot)
        \/ \E s \in Elements(wire'[d]) : SameOrder(s, CoreSnapshot)
  BY <1>1 DEF Reached, Elements, SameOrder
<1>. QED
  BY <1>2, ReachedByWire

\* Receiving frames never loses the core's version: nothing is ahead of it.
LEMMA ReachedByDelivery ==
  ASSUME VersionInv, NEW d \in Devices, Deliver(d), Reached(d)
  PROVE  Reached(d)'
<1> USE DEF VersionInv, TypeInv
<1> DEFINE f == Head(wire[d])
<1>1. /\ slot \in [Devices -> Slot] /\ wire \in [Devices -> Seq(Snapshot)]
      /\ CoreSnapshot \in Snapshot /\ CoreSnapshot' = CoreSnapshot
  BY CoreSnapshotType DEF TypeOK, Deliver, core, CoreSnapshot
<1>2. /\ f \in Snapshot /\ f \in Elements(wire[d])
      /\ Elements(wire[d]) = {f} \cup Elements(Tail(wire[d]))
  BY <1>1, TailElements DEF Deliver
<1>3. slot'[d] = Handled(slot[d], f) /\ wire'[d] = Tail(wire[d])
  BY <1>1 DEF Deliver
<1>4. f # NoSnapshot /\ f \in Snapshots /\ ~Older(CoreSnapshot, f)
  BY <1>2, SnapshotsAre, FeedAssumption DEF SameOrderSameContent, FeedAssumption, Snapshot
<1>5. slot[d].last # NoSnapshot =>
        slot[d].last \in Snapshot /\ ~Older(CoreSnapshot, slot[d].last)
  BY <1>1, SnapshotsAre DEF SameOrderSameContent, Slot
<1>6. CASE \E s \in Elements(Tail(wire[d])) : SameOrder(s, CoreSnapshot)
  BY <1>1, <1>3, <1>6, ReachedByWire DEF Reached, Elements, SameOrder
<1>7. CASE SameOrder(f, CoreSnapshot)
  <2>1. slot'[d].last # NoSnapshot /\ SameOrder(slot'[d].last, CoreSnapshot)
    BY <1>1, <1>2, <1>3, <1>4, <1>5, <1>7
       DEF Handled, Older, Core!OlderOrder, SameOrder, Snapshot, Slot
  <2>. QED
    BY <1>1, <2>1 DEF Reached, SameOrder
<1>8. CASE slot[d].last # NoSnapshot /\ SameOrder(slot[d].last, CoreSnapshot)
  <2>1. slot'[d].last # NoSnapshot /\ SameOrder(slot'[d].last, CoreSnapshot)
    BY <1>1, <1>2, <1>3, <1>4, <1>5, <1>8
       DEF Handled, Older, Core!OlderOrder, SameOrder, Snapshot, Slot
  <2>. QED
    BY <1>1, <2>1 DEF Reached, SameOrder
<1>. QED
  BY <1>2, <1>6, <1>7, <1>8, ReachedByWire

\* The present version, or a reason to expect it.
Expected(d) ==
  \/ Reached(d)
  \/ owes # {} \/ notify \/ loop = "awake"
  \/ loop = "taken" /\ SameOrder(snap, CoreSnapshot)
  \/ loop = "writing" /\ d \in todo /\ SameOrder(snap, CoreSnapshot)
  \/ feed[d] = "joined"
  \/ feed[d] = "holding" /\ SameOrder(held[d], CoreSnapshot)

LEMMA WakeupStep ==
  ASSUME VersionInv, NoLostWakeup, [Next]_vars, NEW d \in hub'
  PROVE  Expected(d)'
<1> USE DEF VersionInv, TypeInv
<1>0. /\ slot \in [Devices -> Slot] /\ wire \in [Devices -> Seq(Snapshot)]
      /\ held \in [Devices -> Snapshot \cup {NoSnapshot}] /\ hub \subseteq Devices
      /\ feed \in [Devices -> {"none", "upgraded", "joined", "holding", "serving"}]
      /\ SameOrder(CoreSnapshot, CoreSnapshot)
      /\ d \in hub => Expected(d)
  BY DEF TypeOK, SameOrder, NoLostWakeup, Expected
<1>1. ASSUME NEW m \in Mutators, Change(m) PROVE Expected(d)'
  BY <1>1 DEF Change, Expected
<1>2. ASSUME NEW m \in Mutators, Signal(m) PROVE Expected(d)'
  BY <1>2 DEF Signal, Expected
<1>3. CASE Wake
  BY <1>3 DEF Wake, Expected
<1>4. CASE TakeSnapshot
  <2>1. CoreSnapshot' = CoreSnapshot /\ snap' = CoreSnapshot /\ loop' = "taken"
    BY <1>4 DEF TakeSnapshot, core, CoreSnapshot
  <2>. QED
    BY <1>0, <2>1 DEF Expected, SameOrder
<1>5. CASE ListClients
  <2>1. UNCHANGED <<core, owes, notify, snap, hub, feed, held, wire, slot>>
        /\ loop = "taken" /\ loop' = "writing" /\ todo' = hub
    BY <1>5 DEF ListClients, conns
  <2>. QED
    BY <1>0, <2>1 DEF Expected, Reached, CoreSnapshot, core, SameOrder
<1>6. CASE EndBroadcast
  <2>1. UNCHANGED <<core, owes, notify, todo, hub, feed, held, wire, slot>>
        /\ loop = "writing" /\ todo = {}
    BY <1>6 DEF EndBroadcast, conns
  <2>. QED
    BY <1>0, <2>1 DEF Expected, Reached, CoreSnapshot, core, SameOrder
<1>7. ASSUME NEW e \in Devices, Broadcast(e) PROVE Expected(d)'
  <2>1. UNCHANGED <<core, owes, notify, loop, snap, hub, feed, held, slot>>
        /\ todo' = todo \ {e} /\ snap \in Snapshot
        /\ wire' = [wire EXCEPT ![e] = Append(@, snap)]
    BY <1>7 DEF Broadcast, Writers
  <2>2. Elements(wire[d]) \subseteq Elements(wire'[d])
        /\ (d = e => snap \in Elements(wire'[d]))
    BY <1>0, <2>1, AppendElements
  <2>3. Reached(d) => Reached(d)'
    BY <1>0, <2>1, <2>2, ReachedStays
  <2>4. d = e /\ SameOrder(snap, CoreSnapshot) => Reached(d)'
    BY <1>0, <2>1, <2>2, ReachedStays
  <2>. QED
    BY <1>0, <2>1, <2>3, <2>4 DEF Expected, CoreSnapshot, core, SameOrder
<1>8. ASSUME NEW e \in Devices, Connect(e) PROVE Expected(d)'
  <2>1. UNCHANGED <<core, owes, notify, loop, snap, todo, hub, held, wire>>
    BY <1>8 DEF Connect, sender
  <2>2. slot'[d].last = slot[d].last
    BY <1>0, <2>1, <1>8 DEF Connect, Slot
  <2>3. feed[d] \in {"joined", "holding"} => feed'[d] = feed[d]
    BY <1>0, <1>8, <2>1 DEF Connect
  <2>. QED
    BY <1>0, <2>1, <2>2, <2>3 DEF Expected, Reached, CoreSnapshot, core, SameOrder
<1>9. ASSUME NEW e \in Devices, JoinHub(e) PROVE Expected(d)'
  <2>1. UNCHANGED <<core, owes, notify, loop, snap, todo, held, wire, slot>>
    BY <1>9 DEF JoinHub, sender
  <2>2. CASE d = e
    BY <1>0, <1>9, <2>2 DEF JoinHub, Expected
  <2>3. CASE d # e
    BY <1>0, <1>9, <2>1, <2>3 DEF JoinHub, Expected, Reached, CoreSnapshot, core, SameOrder
  <2>. QED
    BY <2>2, <2>3
<1>10. ASSUME NEW e \in Devices, TakeInitial(e) PROVE Expected(d)'
  <2>1. UNCHANGED <<core, owes, notify, loop, snap, todo, hub, wire, slot>>
    BY <1>10 DEF TakeInitial, sender
  <2>2. CASE d = e
    BY <1>0, <1>10, <2>1, <2>2 DEF TakeInitial, Expected, CoreSnapshot, core, SameOrder
  <2>3. CASE d # e
    BY <1>0, <1>10, <2>1, <2>3 DEF TakeInitial, Expected, Reached, CoreSnapshot, core, SameOrder
  <2>. QED
    BY <2>2, <2>3
<1>11. ASSUME NEW e \in Devices, WriteInitial(e) PROVE Expected(d)'
  <2>1. UNCHANGED <<core, owes, notify, loop, snap, todo, hub, slot>>
        /\ wire' = [wire EXCEPT ![e] = Append(@, held[e])]
        /\ held[e] \in Snapshot /\ feed[e] = "holding"
    BY <1>11 DEF WriteInitial, sender, Writers
  <2>2. Elements(wire[d]) \subseteq Elements(wire'[d])
        /\ (d = e => held[e] \in Elements(wire'[d]))
    BY <1>0, <2>1, AppendElements
  <2>3. Reached(d) => Reached(d)'
    BY <1>0, <2>1, <2>2, ReachedStays
  <2>4. d = e /\ SameOrder(held[d], CoreSnapshot) => Reached(d)'
    BY <1>0, <2>1, <2>2, ReachedStays
  <2>5. d # e => held'[d] = held[d] /\ feed'[d] = feed[d]
    BY <1>0, <1>11, <2>1 DEF WriteInitial
  <2>. QED
    BY <1>0, <2>1, <2>3, <2>4, <2>5 DEF Expected, CoreSnapshot, core, SameOrder
<1>12. ASSUME NEW e \in Devices, Deliver(e) PROVE Expected(d)'
  <2>1. UNCHANGED <<core, owes, notify, loop, snap, todo, hub, feed, held>>
    BY <1>12 DEF Deliver, sender
  <2>2. Reached(d) => Reached(d)'
    <3>1. CASE d = e
      BY <1>0, <1>12, <3>1, ReachedByDelivery
    <3>2. CASE d # e
      BY <1>0, <1>12, <2>1, <3>2 DEF Deliver, Reached, CoreSnapshot, core, SameOrder
    <3>. QED
      BY <3>1, <3>2
  <2>. QED
    BY <1>0, <2>1, <2>2 DEF Expected, CoreSnapshot, core, SameOrder
<1>13. ASSUME NEW e \in Devices, Drop(e) PROVE Expected(d)'
  <2>1. /\ UNCHANGED <<core, owes, notify, loop, snap>> /\ d # e /\ d \in hub
        /\ todo' = todo \ {e}
    BY <1>13 DEF Drop
  <2>2. feed'[d] = feed[d] /\ held'[d] = held[d] /\ wire'[d] = wire[d] /\ slot'[d] = slot[d]
    BY <1>0, <1>13, <2>1 DEF Drop
  <2>. QED
    BY <1>0, <2>1, <2>2 DEF Expected, Reached, CoreSnapshot, core, SameOrder
<1>14. CASE EdgeRestart
  BY <1>14 DEF EdgeRestart
<1>15. CASE UNCHANGED vars
  BY <1>0, <1>15 DEF vars, core, sender, conns, Expected, Reached, CoreSnapshot, SameOrder
<1>. QED
  BY <1>1, <1>2, <1>3, <1>4, <1>5, <1>6, <1>7, <1>8, <1>9, <1>10, <1>11, <1>12,
     <1>13, <1>14, <1>15 DEF Next, FeedSteps, LoopSteps

\* No change of the core is lost between it and a subscriber, for any number of
\* subscribers, connections lost and goroutines that change the core.
THEOREM NoWakeupLost == Spec => []NoLostWakeup
<1>1. Init => NoLostWakeup
  BY DEF Init, NoLostWakeup
<1>2. VersionInv /\ NoLostWakeup /\ [Next]_vars => NoLostWakeup'
  BY WakeupStep DEF Expected, NoLostWakeup
<1>. QED
  BY <1>1, <1>2, VersionInvariant, PTL DEF Spec

-----------------------------------------------------------------------------
(* What a device shows. *)

\* A frame that leaves the slot valid is not older than what the slot remembers.
LEMMA HandledNeverOlder ==
  ASSUME NEW sl \in Slot, NEW s \in Snapshot, sl.last # NoSnapshot,
         Handled(sl, s).valid
  PROVE  ~Older(Handled(sl, s).last, sl.last)
<1>1. sl.last \in Snapshot
  BY DEF Slot
<1>2. /\ Handled(sl, s).last = s
      /\ Older(sl.last, s) \/ SameOrder(sl.last, s)
  BY DEF Handled, Slot
<1>. QED
  BY <1>1, <1>2 DEF Older, SameOrder, Core!OlderOrder, Snapshot

LEMMA NeverOlderStep ==
  ASSUME TypeInv, [Next]_vars, NEW d \in Devices,
         slot'[d].valid, slot[d].last # NoSnapshot
  PROVE  ~Older(slot'[d].last, slot[d].last)
<1>1. /\ slot \in [Devices -> Slot] /\ slot[d] \in Slot /\ slot[d].last \in Snapshot
      /\ wire \in [Devices -> Seq(Snapshot)]
  BY DEF TypeInv, TypeOK, Slot
<1>2. CASE slot'[d].last = slot[d].last
  BY <1>1, <1>2 DEF Older, Core!OlderOrder, Snapshot
<1>3. ASSUME NEW e \in Devices, Deliver(e) PROVE ~Older(slot'[d].last, slot[d].last)
  <2>1. CASE e = d
    <3>1. Head(wire[d]) \in Snapshot /\ slot'[d] = Handled(slot[d], Head(wire[d]))
      BY <1>1, <1>3, <2>1, TailElements DEF Deliver
    <3>. QED
      BY <1>1, <3>1, HandledNeverOlder
  <2>2. CASE e # d
    BY <1>1, <1>2, <1>3, <2>2 DEF Deliver
  <2>. QED
    BY <2>1, <2>2
<1>4. CASE (\E e \in Devices : Connect(e) \/ Drop(e)) \/ EdgeRestart
  <2>1. \/ slot'[d] = slot[d] \/ slot'[d] = Disconnected(slot[d])
        \/ slot'[d] = [slot[d] EXCEPT !.connected = TRUE]
    BY <1>1, <1>4 DEF Connect, Drop, EdgeRestart
  <2>. QED
    BY <1>1, <1>2, <2>1 DEF Disconnected, Slot
<1>5. CASE \/ \E m \in Mutators : Change(m) \/ Signal(m)
           \/ LoopSteps
           \/ \E e \in Devices : Broadcast(e) \/ JoinHub(e) \/ TakeInitial(e) \/ WriteInitial(e)
           \/ UNCHANGED vars
  <2>1. slot' = slot
    BY <1>5 DEF Change, Signal, LoopSteps, Wake, TakeSnapshot, ListClients, EndBroadcast,
         Broadcast, JoinHub, TakeInitial, WriteInitial, vars
  <2>. QED
    BY <1>2, <2>1
<1>. QED
  BY <1>3, <1>4, <1>5 DEF Next, FeedSteps

\* Whatever order the two writers of a connection write in, and over lost
\* connections and restarts, a device never goes back to an older version.
THEOREM NeverGoesBack == Spec => DisplayNeverGoesBack
<1> DEFINE Step == \A d \in Devices :
                     slot'[d].valid /\ slot[d].last # NoSnapshot
                       => ~Older(slot'[d].last, slot[d].last)
<1>1. TypeInv /\ [Next]_vars => Step
  BY NeverOlderStep
<1>. HIDE DEF Step
<1>2. VersionInv => TypeInv
  BY DEF VersionInv
<1>3. Step <=> \A d \in Devices :
                 slot'[d].valid /\ slot[d].last # NoSnapshot
                   => ~Older(slot'[d].last, slot[d].last)
  BY DEF Step
<1>. QED
  BY <1>1, <1>2, <1>3, VersionInvariant, PTL DEF Spec, DisplayNeverGoesBack
=============================================================================
