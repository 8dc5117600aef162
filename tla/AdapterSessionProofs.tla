------------------------ MODULE AdapterSessionProofs -------------------------
(***************************************************************************)
(* Proofs about AdapterSession, for every number of sessions, states,      *)
(* connections, reports and faults: while the client holds the lease of    *)
(* its connection its presences belong to that lease, and with nothing     *)
(* under way the Edge shows what the client wants shown.                   *)
(***************************************************************************)
EXTENDS AdapterSession, SequenceTheorems, TLAPS

-----------------------------------------------------------------------------
(* Types *)

Shown == [Sessions -> States \cup {None}]

ReportFrames ==
  [type : {"report"}, lease : Conns, seq : Nat, states : Shown, ends : SUBSET Sessions]

Frames == [type : {"hello"}] \cup [type : {"heartbeat"}, lease : Conns] \cup ReportFrames

Stages == {<<>>, <<"close">>, <<"detach", "close">>}

Types ==
  /\ absolute \in Shown
  /\ socket \in 0..opened /\ leaseId \in 0..MaxConns /\ opened \in 0..MaxConns
  /\ pendingAck \in BOOLEAN /\ stopped \in BOOLEAN /\ abandoned \in BOOLEAN
  /\ producerSeq \in Nat
  /\ closed \subseteq Conns
  /\ toEdge \in [Conns -> Seq(Frames)]
  /\ toClient \in [Conns -> Seq(Conns)]
  /\ handler \in [Conns -> {"none", "hello", "serving", "returned"}]
  /\ deferred \in [Conns -> Stages]
  /\ lease \in [Conns -> Nat \cup {None}]
  /\ presence \in [Sessions -> [state : States, lease : Conns] \cup {None}]

LEMMA FrameForms ==
  \A f \in Frames :
    /\ f.type \in {"hello", "heartbeat", "report"}
    /\ f.type = "report" => f \in ReportFrames
  BY DEF Frames, ReportFrames

\* The report that sendReport writes.
LEMMA ReportForm ==
  ASSUME Types, NEW l \in Conns, NEW sts \in Shown, NEW ends \in SUBSET Sessions
  PROVE  /\ ReportFrame(l, sts, ends) \in Frames
         /\ ReportFrame(l, sts, ends).type = "report"
         /\ ReportFrame(l, sts, ends).lease = l
         /\ ReportFrame(l, sts, ends).states = sts /\ ReportFrame(l, sts, ends).ends = ends
<1>1. producerSeq + 1 \in Nat
  BY DEF Types
<1>. QED
  BY <1>1 DEF ReportFrame, Frames, ReportFrames

LEMMA ShownForms ==
  /\ NoStates \in Shown
  /\ \A s \in Sessions, st \in States : [NoStates EXCEPT ![s] = st] \in Shown
  BY DEF NoStates, Shown

\* What is written to a connection comes after what is under way there, unless
\* the Edge has closed it.
LEMMA SendForms ==
  ASSUME Types, NEW c \in 0..MaxConns, NEW f \in Frames, Send(c, f)
  PROVE  /\ toEdge' \in [Conns -> Seq(Frames)]
         /\ \A d \in Conns : d # c => toEdge'[d] = toEdge[d]
         /\ c \in Conns => toEdge'[c] = toEdge[c] \/ toEdge'[c] = Append(toEdge[c], f)
         /\ c \in Conns /\ handler[c] # "returned" => toEdge'[c] = Append(toEdge[c], f)
<1>1. CASE toEdge' = toEdge /\ (c = NoConn \/ handler[c] = "returned")
  BY <1>1 DEF Types, Conns, NoConn
<1>2. CASE c # NoConn /\ toEdge' = [toEdge EXCEPT ![c] = Append(@, f)]
  <2>1. c \in Conns
    BY <1>2, AdapterAssumption DEF AdapterAssumption, Conns, NoConn
  <2>2. toEdge[c] \in Seq(Frames)
    BY <2>1 DEF Types
  <2>3. Append(toEdge[c], f) \in Seq(Frames)
    BY <2>2, AppendProperties
  <2>. QED
    BY <1>2, <2>1, <2>3 DEF Types
<1>. QED
  BY <1>1, <1>2 DEF Send

LEMMA HeadForms ==
  ASSUME Types, NEW c \in Conns, toEdge[c] # <<>>
  PROVE  /\ Head(toEdge[c]) \in Frames /\ Head(toEdge[c]) = toEdge[c][1]
         /\ Tail(toEdge[c]) \in Seq(Frames)
<1>1. toEdge[c] \in Seq(Frames)
  BY DEF Types
<1>. QED
  BY <1>1, HeadTailProperties

\* What every report of the client does to the frames under way.
LEMMA ResendForms ==
  ASSUME Types, NEW l \in Conns, ResendAbsolute(l)
  PROVE  /\ producerSeq' \in Nat /\ toEdge' \in [Conns -> Seq(Frames)]
         /\ UNCHANGED toEdge \/ Send(socket, ReportFrame(l, absolute, {}))
         /\ absolute # NoStates => Send(socket, ReportFrame(l, absolute, {}))
<1>1. /\ socket \in 0..MaxConns /\ absolute \in Shown /\ producerSeq + 1 \in Nat
      /\ producerSeq \in Nat /\ toEdge \in [Conns -> Seq(Frames)] /\ {} \in SUBSET Sessions
  BY AdapterAssumption DEF Types, AdapterAssumption
<1>2. ReportFrame(l, absolute, {}) \in Frames
  BY <1>1, ReportForm
<1>. QED
  BY <1>1, <1>2, SendForms DEF ResendAbsolute, SendReport

LEMMA EndForms ==
  ASSUME Types, NEW s \in Sessions,
         IF leaseId = NoConn THEN UNCHANGED <<producerSeq, toEdge>>
         ELSE SendReport(socket, leaseId, NoStates, {s})
  PROVE  /\ producerSeq' \in Nat /\ toEdge' \in [Conns -> Seq(Frames)]
         /\ leaseId = NoConn => UNCHANGED toEdge
         /\ leaseId # NoConn => Send(socket, ReportFrame(leaseId, NoStates, {s}))
<1>1. /\ socket \in 0..MaxConns /\ producerSeq + 1 \in Nat /\ producerSeq \in Nat
      /\ toEdge \in [Conns -> Seq(Frames)] /\ {s} \in SUBSET Sessions
      /\ leaseId # NoConn => leaseId \in Conns
  BY AdapterAssumption DEF Types, AdapterAssumption, NoConn, Conns
<1>2. leaseId # NoConn => ReportFrame(leaseId, NoStates, {s}) \in Frames
  BY <1>1, ReportForm, ShownForms
<1>. QED
  BY <1>1, <1>2, SendForms DEF SendReport

LEMMA TypesStep == Types /\ [Next]_vars => Types'
<1> SUFFICES ASSUME Types, [Next]_vars PROVE Types'
  OBVIOUS
<1>0. /\ MaxConns \in Nat /\ opened \in 0..MaxConns /\ socket \in 0..opened
      /\ socket \in 0..MaxConns
      /\ \A c \in 1..opened : c \in Conns
  BY AdapterAssumption DEF Types, AdapterAssumption, Conns
<1>1. CASE SessionStart
  BY <1>1 DEF SessionStart, Types, wire, edge, history
<1>2. ASSUME NEW s \in Sessions, EndSession(s) PROVE Types'
  <2>1. producerSeq' \in Nat /\ toEdge' \in [Conns -> Seq(Frames)]
    BY <1>2, EndForms DEF EndSession, End
  <2>2. absolute' \in Shown
    BY <1>2 DEF EndSession, End, Types, Shown
  <2>. QED
    BY <1>2, <2>1, <2>2 DEF EndSession, Types, edge, history
<1>3. ASSUME NEW s \in Sessions, Shutdown(s) PROVE Types'
  <2>1. producerSeq' \in Nat /\ toEdge' \in [Conns -> Seq(Frames)]
    BY <1>3, EndForms DEF Shutdown
  <2>2. absolute' \in Shown
    BY <1>3, ShownForms DEF Shutdown
  <2>3. closed' \subseteq Conns /\ socket' \in 0..opened' /\ leaseId' \in 0..MaxConns
    BY <1>0, <1>3 DEF Shutdown, NoConn, Conns, Types
  <2>. QED
    BY <1>3, <2>1, <2>2, <2>3 DEF Shutdown, Types, edge, history
<1>4. ASSUME NEW s \in Sessions, NEW st \in States, Report(s, st) PROVE Types'
  <2>1. absolute' \in Shown
    BY <1>4 DEF Report, Types, Shown
  <2>2. producerSeq' \in Nat /\ toEdge' \in [Conns -> Seq(Frames)]
    <3>1. CASE UNCHANGED <<producerSeq, toEdge>>
      BY <3>1 DEF Types
    <3>2. CASE leaseId # NoConn /\ SendReport(socket, leaseId, [NoStates EXCEPT ![s] = st], {})
      <4>1. leaseId \in Conns /\ producerSeq + 1 \in Nat /\ {} \in SUBSET Sessions
        BY <1>0, <3>2 DEF Types, NoConn, Conns
      <4>2. ReportFrame(leaseId, [NoStates EXCEPT ![s] = st], {}) \in Frames
        BY <4>1, ReportForm, ShownForms
      <4>. QED
        BY <1>0, <3>2, <4>1, <4>2, SendForms DEF SendReport
    <3>. QED
      BY <1>4, <3>1, <3>2 DEF Report
  <2>. QED
    BY <1>4, <2>1, <2>2 DEF Report, Types, edge, history
<1>5. CASE Connected
  <2>1. opened + 1 \in Conns /\ opened + 1 \in 0..MaxConns
    BY <1>0, <1>5 DEF Connected, Conns
  <2>2. <<[type |-> "hello"]>> \in Seq(Frames)
    BY DEF Frames
  <2>3. /\ socket' \in 0..opened' /\ opened' \in 0..MaxConns
        /\ abandoned' \in BOOLEAN /\ pendingAck' \in BOOLEAN
    BY <1>0, <1>5, <2>1 DEF Connected, Types
  <2>4. /\ toEdge' \in [Conns -> Seq(Frames)]
        /\ handler' \in [Conns -> {"none", "hello", "serving", "returned"}]
    BY <1>5, <2>1, <2>2 DEF Connected, Types
  <2>. QED
    BY <1>5, <2>3, <2>4 DEF Connected, Types
<1>6. CASE DialFails \/ AckTimesOut \/ Reconnect
  BY <1>6 DEF DialFails, AckTimesOut, Reconnect, Types, wire, edge, history
<1>7. CASE Heartbeat
  <2>1. leaseId \in Conns
    BY <1>0, <1>7 DEF Heartbeat, Types, NoConn, Conns
  <2>2. [type |-> "heartbeat", lease |-> leaseId] \in Frames
    BY <2>1 DEF Frames
  <2>3. toEdge' \in [Conns -> Seq(Frames)]
    BY <1>0, <1>7, <2>2, SendForms DEF Heartbeat
  <2>. QED
    BY <1>7, <2>3 DEF Heartbeat, Types, client, edge, history
<1>8. ASSUME NEW c \in Conns, OnAck(c) PROVE Types'
  <2>1. /\ toClient[c] \in Seq(Conns) /\ toClient[c] # <<>>
        /\ toClient' = [toClient EXCEPT ![c] = Tail(@)]
    BY <1>8 DEF OnAck, Types
  <2>2. Head(toClient[c]) \in Conns /\ Tail(toClient[c]) \in Seq(Conns)
    BY <2>1, HeadTailProperties
  <2>3. toClient' \in [Conns -> Seq(Conns)]
    BY <2>1, <2>2 DEF Types
  <2>4. CASE pendingAck
    <3>1. producerSeq' \in Nat /\ toEdge' \in [Conns -> Seq(Frames)]
      BY <1>8, <2>2, <2>4, ResendForms DEF OnAck
    <3>2. pendingAck' \in BOOLEAN /\ leaseId' \in 0..MaxConns /\ abandoned' \in BOOLEAN
      <4>1. /\ pendingAck' = FALSE /\ leaseId' = Head(toClient[c])
            /\ abandoned' = (abandoned /\ ~(Open \subseteq {socket}))
        BY <1>8, <2>4 DEF OnAck
      <4>2. leaseId' \in 0..MaxConns
        BY <1>0, <2>2, <4>1 DEF Conns
      <4>. QED
        BY <4>1, <4>2
    <3>. QED
      BY <1>8, <2>3, <3>1, <3>2 DEF OnAck, Types, edge
  <2>5. CASE ~pendingAck
    BY <1>8, <2>3, <2>5 DEF OnAck, Types, edge
  <2>. QED
    BY <2>4, <2>5
<1>9. ASSUME NEW c \in Conns, OnClose(c) PROVE Types'
  <2>1. toClient' \in [Conns -> Seq(Conns)] /\ closed' \subseteq Conns
    BY <1>9, EmptySeq DEF OnClose, Types
  <2>2. socket' \in 0..opened' /\ leaseId' \in 0..MaxConns /\ opened' = opened
    BY <1>0, <1>9 DEF OnClose, HandleDrop, NoConn, Types
  <2>. QED
    BY <1>9, <2>1, <2>2 DEF OnClose, Types, edge
<1>10. ASSUME NEW c \in Conns, Hello(c) PROVE Types'
  <2>1. Tail(toEdge[c]) \in Seq(Frames)
    BY <1>10, HeadForms DEF Hello
  <2>2. Append(toClient[c], c) \in Seq(Conns)
    BY AppendProperties DEF Types
  <2>3. /\ toEdge' \in [Conns -> Seq(Frames)] /\ toClient' \in [Conns -> Seq(Conns)]
        /\ lease' \in [Conns -> Nat \cup {None}]
        /\ handler' \in [Conns -> {"none", "hello", "serving", "returned"}]
    BY <1>10, <2>1, <2>2 DEF Hello, Types
  <2>. QED
    BY <1>10, <2>3 DEF Hello, Types, client, history
<1>11. ASSUME NEW c \in Conns, Serve(c) PROVE Types'
  <2> DEFINE f == Head(toEdge[c])
  <2>1. f \in Frames /\ Tail(toEdge[c]) \in Seq(Frames)
    BY <1>11, HeadForms DEF Serve
  <2>2. toEdge' \in [Conns -> Seq(Frames)]
    BY <1>11, <2>1 DEF Serve, Types
  <2>3. UNCHANGED <<client, opened, closed, toClient, up, reports, faults, history>>
    BY <1>11 DEF Serve
  <2>4. CASE Accepted(c, f) /\ f.type = "report"
    <3>1. lease' = [lease EXCEPT ![c] = f.seq] /\ presence' = AfterReports(c, f)
          /\ UNCHANGED <<handler, deferred>>
      BY <1>11, <2>4 DEF Serve
    <3>2. f.seq \in Nat /\ f.states \in Shown
      BY <2>1, <2>4, FrameForms DEF ReportFrames
    <3> HIDE DEF f
    <3>3. presence' \in [Sessions -> [state : States, lease : Conns] \cup {None}]
      BY <3>1, <3>2 DEF AfterReports, Shown, Types
    <3>. QED
      BY <2>2, <2>3, <3>1, <3>2, <3>3 DEF Types, client, history
  <2>5. CASE Accepted(c, f) /\ f.type # "report"
    BY <1>11, <2>2, <2>3, <2>5 DEF Serve, Types, client, history
  <2>6. CASE ~Accepted(c, f)
    <3>1. Return(c) /\ UNCHANGED <<lease, presence>>
      BY <1>11, <2>6 DEF Serve
    <3>2. /\ handler' \in [Conns -> {"none", "hello", "serving", "returned"}]
          /\ deferred' \in [Conns -> Stages]
      BY <3>1 DEF Return, Deferred, Stages, Types
    <3>. QED
      BY <2>2, <2>3, <3>1, <3>2 DEF Types, client, history
  <2>. QED
    BY <2>4, <2>5, <2>6
<1>12. ASSUME NEW c \in Conns, ReadEOF(c) PROVE Types'
  <2>1. /\ handler' \in [Conns -> {"none", "hello", "serving", "returned"}]
        /\ deferred' \in [Conns -> Stages]
    BY <1>12 DEF ReadEOF, Return, Deferred, Stages, Types
  <2>. QED
    BY <1>12, <2>1 DEF ReadEOF, Types, client, wire, history
<1>13. ASSUME NEW c \in Conns
       PROVE  Without(c) \in [Sessions -> [state : States, lease : Conns] \cup {None}]
  BY DEF Without, Types
<1>14. ASSUME NEW c \in Conns, RunDeferred(c) PROVE Types'
  <2>1. deferred' \in [Conns -> Stages]
    <3>1. deferred[c] \in {<<"close">>, <<"detach", "close">>}
      BY <1>14 DEF RunDeferred, Types, Stages
    <3>2. Tail(<<"close">>) = <<>> /\ Tail(<<"detach", "close">>) = <<"close">>
      OBVIOUS
    <3>3. Tail(deferred[c]) \in Stages
      BY <3>1, <3>2 DEF Stages
    <3>. QED
      BY <1>14, <3>3 DEF RunDeferred, Types
  <2>2. /\ lease' \in [Conns -> Nat \cup {None}] /\ toEdge' \in [Conns -> Seq(Frames)]
        /\ presence' \in [Sessions -> [state : States, lease : Conns] \cup {None}]
    <3>1. <<>> \in Seq(Frames)
      BY EmptySeq
    <3>2. CASE Head(deferred[c]) = "detach"
      BY <1>13, <1>14, <3>2 DEF RunDeferred, Types
    <3>3. CASE Head(deferred[c]) # "detach"
      BY <1>14, <3>1, <3>3 DEF RunDeferred, Types
    <3>. QED
      BY <3>2, <3>3
  <2>. QED
    BY <1>14, <2>1, <2>2 DEF RunDeferred, Types, client, history
<1>15. ASSUME NEW c \in Conns, Expire(c) PROVE Types'
  <2>1. /\ lease' \in [Conns -> Nat \cup {None}]
        /\ presence' \in [Sessions -> [state : States, lease : Conns] \cup {None}]
    BY <1>13, <1>15 DEF Expire, Types
  <2>. QED
    BY <1>15, <2>1 DEF Expire, Types, client, wire, history
<1>16. ASSUME NEW s \in Sessions, Dismiss(s) PROVE Types'
  BY <1>16 DEF Dismiss, Types, client, wire, history
<1>17. CASE Crash
  <2>1. /\ toEdge' \in [Conns -> Seq(Frames)] /\ deferred' \in [Conns -> Stages]
        /\ handler' \in [Conns -> {"none", "hello", "serving", "returned"}]
    BY <1>17, EmptySeq DEF Crash, Stages
  <2>2. /\ lease' \in [Conns -> Nat \cup {None}]
        /\ presence' \in [Sessions -> [state : States, lease : Conns] \cup {None}]
    BY <1>17 DEF Crash, NoStates
  <2>. QED
    BY <1>17, <2>1, <2>2 DEF Crash, Types, client, history
<1>18. CASE Restart
  BY <1>18 DEF Restart, Types, client, wire, history
<1>19. CASE UNCHANGED vars
  BY <1>19 DEF vars, client, wire, edge, history, Types
<1>. QED
  BY <1>1, <1>2, <1>3, <1>4, <1>5, <1>6, <1>7, <1>8, <1>9, <1>10, <1>11, <1>12, <1>14, <1>15,
     <1>16, <1>17, <1>18, <1>19 DEF Next, Extension, Events, Faults

-----------------------------------------------------------------------------
(* Leases *)

Live(c) == lease[c] # None

\* What a connection's handler and acks say of it, and where a lease may be live:
\* in a connection that is open, until the client has stopped.
Tidy(c) ==
  /\ opened < c => handler[c] = "none"
  /\ handler[c] # "returned" => deferred[c] = <<>>
  /\ handler[c] = "hello" => toEdge[c] # <<>> /\ Head(toEdge[c]).type = "hello"
  /\ handler[c] \in {"none", "hello"} => toClient[c] = <<>> /\ leaseId # c
  /\ \A i \in 1..Len(toClient[c]) : toClient[c][i] = c
  /\ Live(c) => \/ handler[c] = "serving"
                \/ handler[c] = "returned" /\ deferred[c] = <<"detach", "close">>
  /\ ~stopped /\ c \in closed => Hung(c)

Owned == \A s \in Sessions : presence[s] # None => Live(presence[s].lease)

Sole == ~stopped /\ ~abandoned => Open \subseteq {socket}

Orderly == (\A c \in Conns : Tidy(c)) /\ Owned /\ Sole

LEMMA HungIs ==
  ASSUME NEW c, deferred[c] \in Stages
  PROVE  Hung(c) <=> handler[c] = "returned" /\ deferred[c] = <<>>
<1>1. CASE deferred[c] = <<>>
  <2>1. DOMAIN deferred[c] = {}
    BY <1>1
  <2>. QED
    BY <1>1, <2>1 DEF Hung
<1>2. CASE deferred[c] = <<"close">>
  <2>1. 1 \in DOMAIN deferred[c] /\ deferred[c][1] = "close" /\ deferred[c] # <<>>
    BY <1>2
  <2>. QED
    BY <2>1 DEF Hung
<1>3. CASE deferred[c] = <<"detach", "close">>
  <2>1. 2 \in DOMAIN deferred[c] /\ deferred[c][2] = "close" /\ deferred[c] # <<>>
    BY <1>3
  <2>. QED
    BY <2>1 DEF Hung
<1>. QED
  BY <1>1, <1>2, <1>3 DEF Stages

LEMMA HungBoth ==
  ASSUME Types, Types'
  PROVE  /\ \A c \in Conns : Hung(c) <=> handler[c] = "returned" /\ deferred[c] = <<>>
         /\ \A c \in Conns : Hung(c)' <=> handler'[c] = "returned" /\ deferred'[c] = <<>>
         /\ \A c \in Conns : c \in Open <=> c <= opened /\ c \notin closed /\ ~Hung(c)
         /\ \A c \in Conns : c \in Open' <=> c <= opened' /\ c \notin closed' /\ ~Hung(c)'
         /\ Open \subseteq Conns /\ Open' \subseteq Conns
<1>1. \A c \in Conns : Hung(c) <=> handler[c] = "returned" /\ deferred[c] = <<>>
  BY HungIs DEF Types
<1>2. ASSUME NEW c \in Conns
      PROVE  Hung(c)' <=> handler'[c] = "returned" /\ deferred'[c] = <<>>
  <2>1. deferred'[c] \in Stages
    BY DEF Types
  <2>2. CASE deferred'[c] = <<>>
    <3>1. DOMAIN deferred'[c] = {}
      BY <2>2
    <3>. QED
      BY <2>2, <3>1 DEF Hung
  <2>3. CASE deferred'[c] = <<"close">>
    <3>1. 1 \in DOMAIN deferred'[c] /\ deferred'[c][1] = "close" /\ deferred'[c] # <<>>
      BY <2>3
    <3>. QED
      BY <3>1 DEF Hung
  <2>4. CASE deferred'[c] = <<"detach", "close">>
    <3>1. 2 \in DOMAIN deferred'[c] /\ deferred'[c][2] = "close" /\ deferred'[c] # <<>>
      BY <2>4
    <3>. QED
      BY <3>1 DEF Hung
  <2>. QED
    BY <2>1, <2>2, <2>3, <2>4 DEF Stages
<1>3. /\ opened \in 0..MaxConns /\ opened' \in 0..MaxConns /\ MaxConns \in Nat
  BY AdapterAssumption DEF Types, AdapterAssumption
<1>4. /\ \A c \in Conns : c \in Open <=> c <= opened /\ c \notin closed /\ ~Hung(c)
      /\ \A c \in Conns : c \in Open' <=> c <= opened' /\ c \notin closed' /\ ~Hung(c)'
      /\ Open \subseteq Conns /\ Open' \subseteq Conns
  BY <1>3 DEF Open, Conns
<1>. QED
  BY <1>1, <1>2, <1>4

\* While the client runs, a live lease is an open connection's.
LEMMA LiveIsOpen ==
  ASSUME Types, Orderly, ~stopped, NEW c \in Conns, Live(c) PROVE c \in Open
<1>1. Hung(c) <=> handler[c] = "returned" /\ deferred[c] = <<>>
  BY HungIs DEF Types
<1>2. ~Hung(c) /\ c \notin closed /\ c <= opened
  <2>1. /\ ~(opened < c) /\ opened \in Nat
        /\ \/ handler[c] = "serving"
           \/ handler[c] = "returned" /\ deferred[c] = <<"detach", "close">>
    BY AdapterAssumption DEF Orderly, Tidy, Types, AdapterAssumption
  <2>. QED
    BY <1>1, <2>1 DEF Orderly, Tidy, Conns
<1>3. c \in 1..opened
  BY <1>2, AdapterAssumption DEF Types, AdapterAssumption, Conns
<1>. QED
  BY <1>2, <1>3 DEF Open

\* Frames that are only added leave hello where it is.
KeepsHeads ==
  \A c \in Conns : \/ toEdge'[c] = toEdge[c]
                   \/ toEdge[c] # <<>> =>
                        toEdge'[c] # <<>> /\ Head(toEdge'[c]) = Head(toEdge[c])

LEMMA SendKeepsHeads ==
  ASSUME Types, NEW c \in 0..MaxConns, NEW f \in Frames, Send(c, f) PROVE KeepsHeads
<1> SUFFICES ASSUME NEW d \in Conns, toEdge'[d] = Append(toEdge[d], f), toEdge[d] # <<>>
             PROVE  toEdge'[d] # <<>> /\ Head(toEdge'[d]) = Head(toEdge[d])
  BY SendForms DEF KeepsHeads
<1>1. toEdge[d] \in Seq(Frames)
  BY DEF Types
<1>2. /\ Append(toEdge[d], f) # <<>> /\ Append(toEdge[d], f) \in Seq(Frames)
      /\ Append(toEdge[d], f)[1] = toEdge[d][1]
  BY <1>1, AppendProperties, EmptySeq, LenProperties
<1>. QED
  BY <1>1, <1>2, HeadTailProperties

\* A step of the client that only writes.
LEMMA ClientWrites ==
  ASSUME Types, Types', Orderly, KeepsHeads,
         UNCHANGED <<handler, deferred, toClient, leaseId, lease, stopped, closed, opened,
                     presence, socket, abandoned>>
  PROVE  Orderly'
<1>1. ASSUME NEW c \in Conns PROVE Tidy(c)'
  BY DEF Orderly, Tidy, KeepsHeads, Live, Hung
<1>2. Owned'
  BY DEF Orderly, Owned, Live
<1>3. Sole'
  BY DEF Orderly, Sole, Open, Hung
<1>. QED
  BY <1>1, <1>2, <1>3 DEF Orderly

LEMMA OrderlyStep == Types /\ Types' /\ Orderly /\ [Next]_vars => Orderly'
<1> SUFFICES ASSUME Types, Types', Orderly, [Next]_vars PROVE Orderly'
  OBVIOUS
<1>0. /\ MaxConns \in Nat /\ opened \in 0..MaxConns /\ socket \in 0..opened
      /\ socket \in 0..MaxConns /\ opened \in Nat
      /\ \A c \in 1..opened : c \in Conns
      /\ \A c \in Conns : c \in Nat /\ c # 0
  BY AdapterAssumption DEF Types, AdapterAssumption, Conns
<1>1. ASSUME UNCHANGED toEdge PROVE KeepsHeads
  BY <1>1 DEF KeepsHeads
<1>2. CASE SessionStart \/ DialFails \/ AckTimesOut \/ Reconnect
  BY <1>1, <1>2, ClientWrites
     DEF SessionStart, DialFails, AckTimesOut, Reconnect, wire, edge, history
<1>3. ASSUME NEW s \in Sessions, EndSession(s) PROVE Orderly'
  <2>1. leaseId # NoConn => leaseId \in Conns /\ {s} \in SUBSET Sessions
    BY <1>0 DEF Types, NoConn, Conns
  <2>2. leaseId # NoConn => ReportFrame(leaseId, NoStates, {s}) \in Frames
    BY <2>1, ReportForm, ShownForms
  <2>3. KeepsHeads
    BY <1>0, <1>1, <1>3, <2>2, EndForms, SendKeepsHeads DEF EndSession, End
  <2>. QED
    BY <1>3, <2>3, ClientWrites DEF EndSession, edge, history
<1>4. ASSUME NEW s \in Sessions, NEW st \in States, Report(s, st) PROVE Orderly'
  <2>1. KeepsHeads
    <3>1. CASE leaseId # NoConn /\ SendReport(socket, leaseId, [NoStates EXCEPT ![s] = st], {})
      <4>1. leaseId \in Conns /\ {} \in SUBSET Sessions
        BY <1>0, <3>1 DEF Types, NoConn, Conns
      <4>2. ReportFrame(leaseId, [NoStates EXCEPT ![s] = st], {}) \in Frames
        BY <4>1, ReportForm, ShownForms
      <4>. QED
        BY <1>0, <3>1, <4>2, SendKeepsHeads DEF SendReport
    <3>. QED
      BY <1>1, <1>4, <3>1 DEF Report
  <2>. QED
    BY <1>4, <2>1, ClientWrites DEF Report, edge, history
<1>5. CASE Heartbeat
  <2>1. leaseId \in Conns
    BY <1>0, <1>5 DEF Heartbeat, Types, NoConn, Conns
  <2>2. [type |-> "heartbeat", lease |-> leaseId] \in Frames
    BY <2>1 DEF Frames
  <2>3. KeepsHeads
    BY <1>0, <1>5, <2>2, SendKeepsHeads DEF Heartbeat
  <2>. QED
    BY <1>5, <2>3, ClientWrites DEF Heartbeat, client, edge, history
<1>6. CASE UNCHANGED vars
  BY <1>1, <1>6, ClientWrites DEF vars, client, wire, edge, history
<1>7. ASSUME NEW s \in Sessions, Shutdown(s) PROVE Orderly'
  <2>1. leaseId # NoConn => leaseId \in Conns /\ {s} \in SUBSET Sessions
    BY <1>0 DEF Types, NoConn, Conns
  <2>2. leaseId # NoConn => ReportFrame(leaseId, NoStates, {s}) \in Frames
    BY <2>1, ReportForm, ShownForms
  <2>3. KeepsHeads
    BY <1>0, <1>1, <1>7, <2>2, EndForms, SendKeepsHeads DEF Shutdown
  <2>4. /\ UNCHANGED <<handler, deferred, toClient, lease, opened, presence>>
        /\ stopped' /\ leaseId' = 0
    BY <1>7 DEF Shutdown, edge, NoConn
  <2>5. ASSUME NEW c \in Conns PROVE Tidy(c)'
    BY <1>0, <2>3, <2>4 DEF Orderly, Tidy, KeepsHeads, Live
  <2>. QED
    BY <2>4, <2>5 DEF Orderly, Owned, Sole, Live
<1>8. CASE Connected
  <2>0. PICK n \in Conns : n = opened + 1
    BY <1>0, <1>8 DEF Connected, Conns
  <2>1. /\ n \in Conns /\ opened < n /\ opened' = n /\ socket' = n
        /\ toEdge' = [toEdge EXCEPT ![n] = <<[type |-> "hello"]>>]
        /\ handler' = [handler EXCEPT ![n] = "hello"]
        /\ abandoned' = (abandoned \/ socket \in Open)
        /\ UNCHANGED <<leaseId, stopped, closed, toClient, deferred, lease, presence>>
    BY <1>0, <1>8, <2>0 DEF Connected
  <2>2. \A c \in Conns : c # n => (n < c => opened < c) /\ (c <= n => c <= opened)
    BY <1>0, <2>0
  <2>3. handler[n] = "none" /\ Tidy(n)
    BY <2>1 DEF Orderly, Tidy
  <2>4. ASSUME NEW c \in Conns, c # n PROVE Tidy(c)'
    BY <2>1, <2>2, <2>4 DEF Orderly, Tidy, Live, Hung, Types
  <2>5. Tidy(n)'
    <3>1. /\ handler'[n] = "hello" /\ toEdge'[n] = <<[type |-> "hello"]>> /\ ~(n < n)
          /\ deferred'[n] = <<>> /\ toClient'[n] = <<>> /\ leaseId' # n /\ lease'[n] = None
          /\ stopped' \/ n \notin closed'
      BY <1>0, <2>1, <2>3 DEF Tidy, Types, Live, Hung
    <3>2. 1..Len(toClient'[n]) = {}
      BY <3>1
    <3>3. toEdge'[n] # <<>> /\ Head(toEdge'[n]).type = "hello"
      BY <3>1
    <3>. QED
      BY <2>1, <3>1, <3>2, <3>3 DEF Tidy, Live
  <2>6. Sole'
    <3> SUFFICES ASSUME ~stopped, ~abandoned, socket \notin Open PROVE Open' \subseteq {n}
      BY <2>1 DEF Sole
    <3>1. Open = {}
      BY DEF Orderly, Sole
    <3>2. \A c \in Conns : c \in Open' /\ c # n => c \in Open
      BY <2>1, <2>2, HungBoth DEF Types
    <3>. QED
      BY <3>1, <3>2, HungBoth
  <2>. QED
    BY <2>1, <2>4, <2>5, <2>6 DEF Orderly, Owned, Live
<1>9. ASSUME NEW c \in Conns, OnAck(c) PROVE Orderly'
  <2>1. /\ toClient[c] \in Seq(Conns) /\ toClient[c] # <<>>
        /\ toClient' = [toClient EXCEPT ![c] = Tail(@)]
        /\ UNCHANGED <<socket, stopped, opened, closed, handler, deferred, lease, presence>>
    BY <1>9 DEF OnAck, Types, edge
  <2>2. /\ Len(toClient[c]) \in Nat /\ Len(toClient[c]) >= 1 /\ Head(toClient[c]) = toClient[c][1]
        /\ Len(Tail(toClient[c])) = Len(toClient[c]) - 1
        /\ \A i \in 1..Len(Tail(toClient[c])) : Tail(toClient[c])[i] = toClient[c][i + 1]
    BY <2>1, HeadTailProperties, EmptySeq, LenProperties
  <2>3. Head(toClient[c]) = c /\ handler[c] \notin {"none", "hello"}
        /\ \A i \in 1..Len(Tail(toClient[c])) : Tail(toClient[c])[i] = c
    BY <2>1, <2>2 DEF Orderly, Tidy
  <2>4. KeepsHeads /\ (leaseId' = leaseId \/ leaseId' = c)
    <3>1. CASE ~pendingAck
      BY <1>1, <1>9, <3>1 DEF OnAck
    <3>2. CASE pendingAck
      <4>1. leaseId' = c /\ ResendAbsolute(c) /\ absolute \in Shown /\ {} \in SUBSET Sessions
        BY <1>9, <2>3, <3>2 DEF OnAck, Types
      <4>2. ReportFrame(c, absolute, {}) \in Frames
        BY <4>1, ReportForm
      <4>. QED
        BY <1>0, <1>1, <4>1, <4>2, ResendForms, SendKeepsHeads
    <3>. QED
      BY <3>1, <3>2
  <2>5. ASSUME NEW d \in Conns PROVE Tidy(d)'
    <3>1. CASE d = c
      BY <2>1, <2>3, <2>4, <3>1 DEF Orderly, Tidy, KeepsHeads, Live, Hung, Types
    <3>2. CASE d # c
      <4>1. toClient'[d] = toClient[d] /\ (Live(d)' <=> Live(d)) /\ (Hung(d)' <=> Hung(d))
        BY <2>1, <3>2 DEF Live, Hung, Types
      <4>2. leaseId' = d => leaseId = d
        BY <2>4, <3>2
      <4>. QED
        BY <2>1, <2>4, <4>1, <4>2 DEF Orderly, Tidy, KeepsHeads
    <3>. QED
      BY <3>1, <3>2
  <2>6. Open' = Open
    BY <2>1 DEF Open, Hung
  <2>7. abandoned' = abandoned \/ abandoned' = (abandoned /\ ~(Open \subseteq {socket}))
    BY <1>9 DEF OnAck
  <2>8. Sole'
    BY <2>1, <2>6, <2>7 DEF Orderly, Sole
  <2>. QED
    BY <2>1, <2>5, <2>8 DEF Orderly, Owned, Live
<1>10. ASSUME NEW c \in Conns, OnClose(c) PROVE Orderly'
  <2>1. /\ Hung(c) /\ closed' = closed \cup {c} /\ toClient' = [toClient EXCEPT ![c] = <<>>]
        /\ IF socket = c THEN socket' = 0 /\ leaseId' = 0 ELSE UNCHANGED <<socket, leaseId>>
        /\ UNCHANGED <<stopped, opened, toEdge, handler, deferred, lease, presence, abandoned>>
    BY <1>10 DEF OnClose, HandleDrop, NoConn, edge
  <2>2. ASSUME NEW d \in Conns PROVE Tidy(d)'
    <3>1. /\ toClient'[d] = toClient[d] \/ toClient'[d] = <<>>
          /\ leaseId' = leaseId \/ leaseId' = 0
          /\ d \in closed' => d \in closed \/ d = c
      BY <2>1 DEF Types
    <3>2. Hung(d)' <=> Hung(d)
      BY <2>1 DEF Hung
    <3>3. 1..Len(<<>>) = {}
      OBVIOUS
    <3>. QED
      BY <1>0, <2>1, <3>1, <3>2, <3>3 DEF Orderly, Tidy, Live
  <2>3. Sole'
    <3>1. Open' \subseteq Open /\ c \notin Open
      BY <2>1 DEF Open, Hung
    <3>. QED
      BY <2>1, <3>1 DEF Orderly, Sole
  <2>. QED
    BY <2>1, <2>2, <2>3 DEF Orderly, Owned, Live
<1>11. ASSUME NEW c \in Conns, Hello(c) PROVE Orderly'
  <2>1. /\ handler[c] = "hello" /\ toEdge' = [toEdge EXCEPT ![c] = Tail(@)]
        /\ lease' = [lease EXCEPT ![c] = 0] /\ toClient' = [toClient EXCEPT ![c] = Append(@, c)]
        /\ handler' = [handler EXCEPT ![c] = "serving"]
        /\ UNCHANGED <<socket, leaseId, stopped, opened, closed, deferred, presence, abandoned>>
    BY <1>11 DEF Hello, client, history
  <2>2. Tidy(c) /\ toClient[c] = <<>> /\ 0 # None
    BY <2>1, AdapterAssumption DEF Orderly, Tidy, AdapterAssumption
  <2>3. /\ toClient'[c] = <<c>> /\ handler'[c] = "serving" /\ lease'[c] = 0
        /\ \A i \in 1..Len(toClient'[c]) : toClient'[c][i] = c
    BY <2>1, <2>2 DEF Types
  <2>4. Tidy(c)'
    BY <2>1, <2>2, <2>3 DEF Tidy, Live, Hung
  <2>5. ASSUME NEW d \in Conns, d # c PROVE Tidy(d)'
    BY <2>1, <2>5 DEF Orderly, Tidy, Live, Hung, Types
  <2>6. Owned'
    BY <2>1, <2>2 DEF Orderly, Owned, Live, Types
  <2>7. Sole'
    <3>1. Open' \subseteq Open
      BY <2>1, HungBoth DEF Types
    <3>. QED
      BY <2>1, <3>1 DEF Orderly, Sole
  <2>. QED
    BY <2>4, <2>5, <2>6, <2>7 DEF Orderly
\* A handler that returns has a lease still; its connection stays open until then.
<1>12. ASSUME NEW c \in Conns, handler[c] = "serving", Return(c), UNCHANGED <<lease, presence>>,
              UNCHANGED <<socket, leaseId, stopped, opened, closed, toClient, abandoned>>,
              \A d \in Conns : d # c => toEdge'[d] = toEdge[d]
       PROVE  Orderly'
  <2>1. /\ handler' = [handler EXCEPT ![c] = "returned"]
        /\ deferred' = [deferred EXCEPT ![c] = <<"detach", "close">>]
    BY <1>12 DEF Return, Deferred
  <2>2. Tidy(c)'
    <3>1. Tidy(c) /\ ~Hung(c) /\ handler'[c] = "returned" /\ deferred'[c] = <<"detach", "close">>
      BY <1>12, <2>1 DEF Orderly, Hung, Types
    <3>. QED
      BY <1>12, <3>1 DEF Tidy, Live
  <2>3. ASSUME NEW d \in Conns, d # c PROVE Tidy(d)'
    BY <1>12, <2>1, <2>3 DEF Orderly, Tidy, Live, Hung, Types
  <2>4. Sole'
    <3>1. Open' \subseteq Open
      BY <1>12, <2>1, HungBoth DEF Types
    <3>. QED
      BY <1>12, <3>1 DEF Orderly, Sole
  <2>. QED
    BY <1>12, <2>2, <2>3, <2>4 DEF Orderly, Owned, Live
<1>13. ASSUME NEW c \in Conns, Serve(c) PROVE Orderly'
  <2> DEFINE f == Head(toEdge[c])
  <2>1. /\ handler[c] = "serving" /\ toEdge' = [toEdge EXCEPT ![c] = Tail(@)] /\ f \in Frames
        /\ UNCHANGED <<socket, leaseId, stopped, opened, closed, toClient, abandoned>>
        /\ \A d \in Conns : d # c => toEdge'[d] = toEdge[d]
    BY <1>13, HeadForms DEF Serve, client, history, Types
  <2>2. CASE ~Accepted(c, f)
    BY <1>12, <1>13, <2>1, <2>2 DEF Serve
  <2>3. CASE Accepted(c, f)
    <3>1. /\ UNCHANGED <<handler, deferred>> /\ Live(c)
          /\ \/ UNCHANGED <<lease, presence>>
             \/ /\ f.type = "report" /\ lease' = [lease EXCEPT ![c] = f.seq]
                /\ presence' = AfterReports(c, f)
      BY <1>13, <2>3 DEF Serve, Accepted, Live
    <3>2. f.type = "report" => f.seq \in Nat /\ f.seq # None
      BY <2>1, FrameForms, AdapterAssumption DEF ReportFrames, AdapterAssumption
    <3>3. \A d \in Conns : Live(d)' <=> Live(d)
      BY <3>1, <3>2 DEF Live, Types
    <3>4. ASSUME NEW d \in Conns PROVE Tidy(d)'
      BY <2>1, <3>1, <3>3 DEF Orderly, Tidy, Hung
    <3>5. Owned'
      <4>1. ASSUME NEW s \in Sessions, presence'[s] # None
            PROVE  \/ presence'[s].lease = c
                   \/ presence[s] # None /\ presence'[s].lease = presence[s].lease
        <5>1. CASE UNCHANGED presence
          BY <4>1, <5>1
        <5>2. CASE presence' = AfterReports(c, f)
          <6> HIDE DEF f
          <6>1. \/ presence'[s] = presence[s]
                \/ presence'[s] = [state |-> f.states[s], lease |-> c]
                \/ /\ presence[s] # None
                   /\ presence'[s] = [presence[s] EXCEPT !.state = f.states[s]]
            BY <4>1, <5>2 DEF AfterReports
          <6>2. presence[s] # None => presence[s] \in [state : States, lease : Conns]
            BY DEF Types
          <6>. QED
            BY <4>1, <6>1, <6>2
        <5>. QED
          BY <3>1, <5>1, <5>2
      <4>2. \A s \in Sessions : presence[s] # None => presence[s].lease \in Conns
        BY DEF Types
      <4>. QED
        BY <3>1, <3>3, <4>1, <4>2 DEF Orderly, Owned
    <3>6. Sole'
      BY <2>1, <3>1 DEF Orderly, Sole, Open, Hung
    <3>. QED
      BY <3>4, <3>5, <3>6 DEF Orderly
  <2>. QED
    BY <2>2, <2>3
<1>14. ASSUME NEW c \in Conns, ReadEOF(c) PROVE Orderly'
  BY <1>12, <1>14 DEF ReadEOF, client, wire, history
\* A lease that ends takes its presences with it.
<1>15. ASSUME NEW c \in Conns, lease' = [lease EXCEPT ![c] = None], presence' = Without(c)
       PROVE  Owned'
  <2>1. ASSUME NEW s \in Sessions, presence'[s] # None
        PROVE  presence[s] # None /\ presence'[s] = presence[s] /\ presence[s].lease # c
    BY <1>15, <2>1 DEF Without
  <2>. QED
    BY <1>15, <2>1 DEF Orderly, Owned, Live, Types
<1>16. ASSUME NEW c \in Conns, RunDeferred(c) PROVE Orderly'
  <2>1. /\ handler[c] = "returned" /\ deferred[c] # <<>>
        /\ deferred' = [deferred EXCEPT ![c] = Tail(@)]
        /\ UNCHANGED <<socket, leaseId, stopped, abandoned, opened, closed, toClient, handler>>
        /\ \/ /\ Head(deferred[c]) = "detach" /\ lease' = [lease EXCEPT ![c] = None]
              /\ presence' = Without(c) /\ UNCHANGED toEdge
           \/ /\ Head(deferred[c]) # "detach" /\ toEdge' = [toEdge EXCEPT ![c] = <<>>]
              /\ UNCHANGED <<lease, presence>>
    BY <1>16 DEF RunDeferred, client, history
  <2>2. Head(deferred[c]) # "detach" => deferred[c] # <<"detach", "close">>
    BY <2>1
  <2>3. ~Live(c)'
    BY <2>1, <2>2 DEF Orderly, Tidy, Live, Types
  <2>4. \A d \in Conns : d # c => (Live(d)' <=> Live(d)) /\ deferred'[d] = deferred[d]
                                  /\ toEdge'[d] = toEdge[d]
    BY <2>1 DEF Live, Types
  <2>5. Tidy(c)'
    <3>1. ~Hung(c)
      BY <2>1, HungBoth
    <3>. QED
      BY <2>1, <2>3, <3>1 DEF Orderly, Tidy
  <2>6. ASSUME NEW d \in Conns, d # c PROVE Tidy(d)'
    BY <2>1, <2>4, <2>6 DEF Orderly, Tidy, Hung
  <2>7. Owned'
    <3>1. CASE UNCHANGED <<lease, presence>>
      BY <3>1 DEF Orderly, Owned, Live
    <3>. QED
      BY <1>15, <2>1, <3>1
  <2>8. Sole'
    <3>1. \A d \in Conns : d \in Open' => d \in Open
      BY <2>1, <2>4, HungBoth
    <3>. QED
      BY <2>1, <3>1, HungBoth DEF Orderly, Sole
  <2>. QED
    BY <2>5, <2>6, <2>7, <2>8 DEF Orderly
<1>17. ASSUME NEW c \in Conns, Expire(c) PROVE Orderly'
  <2>1. /\ lease' = [lease EXCEPT ![c] = None] /\ presence' = Without(c)
        /\ UNCHANGED <<socket, leaseId, stopped, abandoned, opened, closed, toClient, toEdge,
                       handler, deferred>>
    BY <1>17 DEF Expire, client, wire, history
  <2>2. ASSUME NEW d \in Conns PROVE Tidy(d)'
    <3>1. Live(d)' => Live(d)
      BY <2>1 DEF Live, Types
    <3>. QED
      BY <2>1, <3>1 DEF Orderly, Tidy, Hung
  <2>3. Sole'
    BY <2>1 DEF Orderly, Sole, Open, Hung
  <2>. QED
    BY <1>15, <2>1, <2>2, <2>3 DEF Orderly
<1>18. ASSUME NEW s \in Sessions, Dismiss(s) PROVE Orderly'
  <2>1. /\ presence' = [presence EXCEPT ![s] = None]
        /\ UNCHANGED <<socket, leaseId, stopped, abandoned, opened, closed, toClient, toEdge,
                       handler, deferred, lease>>
    BY <1>18 DEF Dismiss, client, wire, history
  <2>2. ASSUME NEW d \in Conns PROVE Tidy(d)'
    BY <2>1 DEF Orderly, Tidy, Hung, Live
  <2>3. Owned'
    BY <2>1 DEF Orderly, Owned, Live, Types
  <2>4. Sole'
    BY <2>1 DEF Orderly, Sole, Open, Hung
  <2>. QED
    BY <2>2, <2>3, <2>4 DEF Orderly
<1>19. CASE Crash
  <2>1. /\ \A c \in Conns : /\ handler'[c] = IF handler[c] = "none" THEN "none" ELSE "returned"
                            /\ deferred'[c] = <<>> /\ ~Live(c)'
        /\ \A s \in Sessions : presence'[s] = None
        /\ UNCHANGED <<socket, leaseId, stopped, abandoned, opened, closed, toClient>>
    BY <1>19 DEF Crash, Live, NoStates, client, history
  <2>2. ASSUME NEW c \in Conns PROVE Tidy(c)'
    BY <2>1, HungBoth DEF Orderly, Tidy
  <2>3. Sole'
    <3>1. \A d \in Conns : d \in Open' => d \in Open
      BY <2>1, HungBoth
    <3>. QED
      BY <2>1, <3>1, HungBoth DEF Orderly, Sole
  <2>. QED
    BY <2>1, <2>2, <2>3 DEF Orderly, Owned
<1>20. CASE Restart
  BY <1>1, <1>20, ClientWrites DEF Restart, client, wire, history
<1>. QED
  BY <1>2, <1>3, <1>4, <1>5, <1>6, <1>7, <1>8, <1>9, <1>10, <1>11, <1>13, <1>14, <1>16, <1>17,
     <1>18, <1>19, <1>20 DEF Next, Extension, Events, Faults

LEMMA OrderlyHolds == Spec => [](Types /\ Orderly)
<1>1. Init => Types /\ Orderly
  <2> SUFFICES ASSUME Init PROVE Types /\ Orderly
    OBVIOUS
  <2>0. MaxConns \in Nat /\ 0 \in 0..MaxConns
    BY AdapterAssumption DEF AdapterAssumption
  <2>1. Types
    <3>1. <<>> \in Seq(Frames) /\ <<>> \in Seq(Conns) /\ <<>> \in Stages
      BY EmptySeq DEF Stages
    <3>2. /\ toEdge \in [Conns -> Seq(Frames)] /\ toClient \in [Conns -> Seq(Conns)]
          /\ deferred \in [Conns -> Stages]
          /\ handler \in [Conns -> {"none", "hello", "serving", "returned"}]
          /\ lease \in [Conns -> Nat \cup {None}]
      BY <3>1 DEF Init
    <3>3. /\ presence \in [Sessions -> [state : States, lease : Conns] \cup {None}]
          /\ absolute \in Shown
      BY ShownForms DEF Init, NoStates
    <3>4. /\ socket = 0 /\ leaseId = 0 /\ opened = 0 /\ producerSeq = 0 /\ closed = {}
          /\ pendingAck = FALSE /\ stopped = FALSE /\ abandoned = FALSE
      BY DEF Init, NoConn
    <3>5. /\ socket \in 0..opened /\ leaseId \in 0..MaxConns /\ opened \in 0..MaxConns
          /\ producerSeq \in Nat /\ closed \subseteq Conns
      BY <2>0, <3>4
    <3>6. pendingAck \in BOOLEAN /\ stopped \in BOOLEAN /\ abandoned \in BOOLEAN
      BY <3>4
    <3>. QED
      BY <3>2, <3>3, <3>5, <3>6 DEF Types
  <2>2. ASSUME NEW c \in Conns PROVE Tidy(c)
    <3>1. 1..Len(toClient[c]) = {} /\ c # 0
      BY <2>0 DEF Init, Conns
    <3>. QED
      BY <3>1 DEF Init, Tidy, Live, NoConn
  <2>3. Owned
    BY DEF Init, Owned, NoStates
  <2>4. Open = {}
    BY DEF Init, Open
  <2>. QED
    BY <2>1, <2>2, <2>3, <2>4 DEF Orderly, Sole
<1>2. Types /\ Orderly /\ [Next]_vars => (Types /\ Orderly)'
  BY TypesStep, OrderlyStep
<1>. QED
  BY <1>1, <1>2, PTL DEF Spec

\* While the client holds the lease of its connection and has dropped no other,
\* its presences belong to that lease: none is updated under an older one whose
\* end would take it away (Detach before Close, handleDrop, ApplyReports).
THEOREM LeaseOwns == Spec => []CurrentLeaseOwns
<1>1. ASSUME Types, Orderly PROVE CurrentLeaseOwns
  <2> SUFFICES ASSUME socket # NoConn, leaseId = socket, ~abandoned, ~stopped,
                      NEW s \in Sessions, presence[s] # None
               PROVE  presence[s].lease = leaseId
    BY DEF CurrentLeaseOwns
  <2>1. presence[s].lease \in Conns /\ Live(presence[s].lease)
    BY <1>1 DEF Types, Orderly, Owned
  <2>2. presence[s].lease \in Open
    BY <1>1, <2>1, LiveIsOpen
  <2>. QED
    BY <1>1, <2>2 DEF Orderly, Sole
<1>. QED
  BY <1>1, OrderlyHolds, PTL

-----------------------------------------------------------------------------
(* Frames.  What those under way say last of a session is what the Edge     *)
(* will show of it.                                                         *)

Mentions(f, s) == f.type = "report" /\ (s \in f.ends \/ f.states[s] # None)

Says(f, s) == IF s \in f.ends THEN None ELSE f.states[s]

Silent(q, s) == \A i \in 1..Len(q) : ~Mentions(q[i], s)

\* The last frame of q about s says v.
LastSays(q, s, v) ==
  \E i \in 1..Len(q) : /\ Mentions(q[i], s) /\ Says(q[i], s) = v
                       /\ \A j \in 1..Len(q) : i < j => ~Mentions(q[j], s)

LEMMA SaysAppend ==
  ASSUME NEW q \in Seq(Frames), NEW f \in Frames, NEW s
  PROVE  /\ Mentions(f, s) => LastSays(Append(q, f), s, Says(f, s))
         /\ ~Mentions(f, s) =>
              /\ \A v : LastSays(q, s, v) => LastSays(Append(q, f), s, v)
              /\ Silent(q, s) => Silent(Append(q, f), s)
         /\ \A i \in 1..Len(Append(q, f)) :
              Append(q, f)[i] = f \/ \E j \in 1..Len(q) : Append(q, f)[i] = q[j]
<1> DEFINE n == Len(q)
           p == Append(q, f)
<1>1. /\ n \in Nat /\ Len(p) = n + 1 /\ p[n + 1] = f /\ \A i \in 1..n : p[i] = q[i]
  BY AppendProperties, LenProperties
<1>2. /\ \A i \in 1..(n + 1) : i \in 1..n \/ i = n + 1
      /\ \A i \in 1..n : i \in 1..(n + 1) /\ i < n + 1 /\ ~(n + 1 < i)
      /\ n + 1 \in 1..(n + 1) /\ ~(n + 1 < n + 1)
  BY <1>1
<1> HIDE DEF n, p
<1>3. Mentions(f, s) => LastSays(p, s, Says(f, s))
  BY <1>1, <1>2 DEF LastSays
<1>4. ASSUME ~Mentions(f, s), NEW v, LastSays(q, s, v) PROVE LastSays(p, s, v)
  <2>1. PICK i \in 1..n : /\ Mentions(q[i], s) /\ Says(q[i], s) = v
                          /\ \A j \in 1..n : i < j => ~Mentions(q[j], s)
    BY <1>4 DEF LastSays, n
  <2>2. \A j \in 1..(n + 1) : i < j => ~Mentions(p[j], s)
    BY <1>1, <1>2, <1>4, <2>1
  <2>. QED
    BY <1>1, <1>2, <2>1, <2>2 DEF LastSays
<1>5. ASSUME ~Mentions(f, s), Silent(q, s) PROVE Silent(p, s)
  BY <1>1, <1>2, <1>5 DEF Silent, n
<1>6. \A i \in 1..Len(p) : p[i] = f \/ \E j \in 1..n : p[i] = q[j]
  BY <1>1, <1>2
<1>. QED
  BY <1>3, <1>4, <1>5, <1>6 DEF n, p

LEMMA SaysTail ==
  ASSUME NEW q \in Seq(Frames), q # <<>>, NEW s
  PROVE  /\ \A v : LastSays(q, s, v) =>
              \/ LastSays(Tail(q), s, v)
              \/ Mentions(Head(q), s) /\ Says(Head(q), s) = v /\ Silent(Tail(q), s)
         /\ Silent(q, s) => ~Mentions(Head(q), s) /\ Silent(Tail(q), s)
         /\ \A i \in 1..Len(Tail(q)) : \E j \in 1..Len(q) : Tail(q)[i] = q[j]
<1> DEFINE n == Len(q)
           p == Tail(q)
<1>1. /\ n \in Nat /\ n >= 1 /\ Len(p) = n - 1 /\ Head(q) = q[1]
      /\ \A i \in 1..(n - 1) : p[i] = q[i + 1]
  BY HeadTailProperties, EmptySeq, LenProperties
<1>2. /\ \A i \in 1..(n - 1) : i + 1 \in 1..n
      /\ \A i \in 1..n : i = 1 \/ (i - 1 \in 1..(n - 1) /\ (i - 1) + 1 = i)
      /\ 1 \in 1..n /\ \A i \in 1..(n - 1) : 1 < i + 1
  BY <1>1
<1> HIDE DEF n, p
<1>3. ASSUME NEW v, LastSays(q, s, v)
      PROVE  \/ LastSays(p, s, v)
             \/ Mentions(Head(q), s) /\ Says(Head(q), s) = v /\ Silent(p, s)
  <2>1. PICK i \in 1..n : /\ Mentions(q[i], s) /\ Says(q[i], s) = v
                          /\ \A j \in 1..n : i < j => ~Mentions(q[j], s)
    BY <1>3 DEF LastSays, n
  <2>2. CASE i = 1
    <3>1. \A j \in 1..(n - 1) : ~Mentions(p[j], s)
      BY <1>1, <1>2, <2>1, <2>2
    <3>. QED
      BY <1>1, <2>1, <2>2, <3>1 DEF Silent
  <2>3. CASE i # 1
    <3>1. PICK k \in 1..(n - 1) : i = k + 1
      BY <1>2, <2>3
    <3>2. \A j \in 1..(n - 1) : k < j => k + 1 < j + 1
      OBVIOUS
    <3>3. \A j \in 1..(n - 1) : k < j => ~Mentions(p[j], s)
      BY <1>1, <1>2, <2>1, <3>1, <3>2
    <3>4. Mentions(p[k], s) /\ Says(p[k], s) = v
      BY <1>1, <2>1, <3>1
    <3>. QED
      BY <1>1, <3>3, <3>4 DEF LastSays
  <2>. QED
    BY <2>2, <2>3
<1>4. Silent(q, s) => ~Mentions(Head(q), s) /\ Silent(p, s)
  BY <1>1, <1>2 DEF Silent, n
<1>5. \A i \in 1..Len(p) : \E j \in 1..n : p[i] = q[j]
  BY <1>1, <1>2
<1>. QED
  BY <1>3, <1>4, <1>5 DEF n, p

-----------------------------------------------------------------------------
(* The client's connection *)

Reading(c) == ~stopped /\ handler[c] \in {"hello", "serving"}

\* What is under way on connection c: nothing before the client has a lease; no
\* report under c's lease before the client has that; and of a session that is
\* over, its end if anything.
Ahead(c) ==
  /\ leaseId = NoConn => \A i \in 1..Len(toEdge[c]) : toEdge[c][i].type = "hello"
  /\ leaseId # c =>
       /\ \A i \in 1..Len(toEdge[c]) : toEdge[c][i].type = "report" => toEdge[c][i].lease # c
       /\ \A s \in Sessions : presence[s] # None => presence[s].lease # c
  /\ \A s \in Sessions : absolute[s] = None =>
       Silent(toEdge[c], s) \/ LastSays(toEdge[c], s, None)

\* When all of it is served, the Edge shows what the client wants shown.
WillShow(c) ==
  \A s \in Sessions : \/ LastSays(toEdge[c], s, absolute[s])
                      \/ Silent(toEdge[c], s) /\ Agrees(s)

Served(c) == leaseId = c /\ ~abandoned /\ ~stopped /\ Live(c) /\ handler[c] = "serving"

UnderWay ==
  /\ leaseId = socket /\ socket # NoConn => ~pendingAck
  /\ \A c \in Conns : socket = c /\ Reading(c) => Ahead(c)

WillAgree == \A c \in Conns : socket = c /\ Served(c) => WillShow(c)

\* A frame that is added, and what it says of each session.
LEMMA AheadWrites ==
  ASSUME Types, NEW c \in Conns, Ahead(c), NEW f \in Frames,
         toEdge'[c] = Append(toEdge[c], f), UNCHANGED presence, leaseId' # NoConn,
         leaseId' # c => leaseId # c /\ (f.type = "report" => f.lease # c),
         \A s \in Sessions : absolute'[s] = None =>
           \/ Mentions(f, s) /\ Says(f, s) = None
           \/ ~Mentions(f, s) /\ absolute[s] = None
  PROVE  Ahead(c)'
<1>1. toEdge[c] \in Seq(Frames)
  BY DEF Types
<1>2. leaseId' # c =>
        \A i \in 1..Len(toEdge'[c]) : toEdge'[c][i].type = "report" => toEdge'[c][i].lease # c
  BY <1>1, SaysAppend DEF Ahead
<1>3. ASSUME NEW s \in Sessions, absolute'[s] = None
      PROVE  Silent(toEdge'[c], s) \/ LastSays(toEdge'[c], s, None)
  <2>1. CASE Mentions(f, s) /\ Says(f, s) = None
    BY <1>1, <2>1, SaysAppend
  <2>2. CASE ~Mentions(f, s) /\ absolute[s] = None
    BY <1>1, <2>2, SaysAppend DEF Ahead
  <2>. QED
    BY <1>3, <2>1, <2>2
<1>. QED
  BY <1>2, <1>3 DEF Ahead

LEMMA ShowWrites ==
  ASSUME Types, NEW c \in Conns, WillShow(c), NEW f \in Frames,
         toEdge'[c] = Append(toEdge[c], f), UNCHANGED presence,
         \A s \in Sessions : \/ Mentions(f, s) /\ Says(f, s) = absolute'[s]
                             \/ ~Mentions(f, s) /\ absolute'[s] = absolute[s]
  PROVE  WillShow(c)'
<1>1. toEdge[c] \in Seq(Frames)
  BY DEF Types
<1> SUFFICES ASSUME NEW s \in Sessions
             PROVE  \/ LastSays(toEdge'[c], s, absolute'[s])
                    \/ Silent(toEdge'[c], s) /\ Agrees(s)'
  BY DEF WillShow
<1>2. CASE Mentions(f, s) /\ Says(f, s) = absolute'[s]
  BY <1>1, <1>2, SaysAppend
<1>3. CASE ~Mentions(f, s) /\ absolute'[s] = absolute[s]
  <2>1. Agrees(s)' <=> Agrees(s)
    BY <1>3 DEF Agrees
  <2>. QED
    BY <1>1, <1>3, <2>1, SaysAppend DEF WillShow
<1>. QED
  BY <1>2, <1>3

\* Nothing is read of c, and nothing is shown under its lease that was not.
LEMMA AheadKept ==
  ASSUME NEW c \in Conns, Ahead(c), toEdge'[c] = toEdge[c], UNCHANGED <<leaseId, absolute>>,
         \A s \in Sessions : presence'[s] # None =>
           presence'[s].lease # c \/ presence'[s] = presence[s]
  PROVE  Ahead(c)'
  BY DEF Ahead

LEMMA ShowKept ==
  ASSUME NEW c \in Conns, WillShow(c), toEdge'[c] = toEdge[c], UNCHANGED absolute,
         \A s \in Sessions : presence'[s] = presence[s]
  PROVE  WillShow(c)'
  BY DEF WillShow, Agrees

\* What a report or an end of the client says, and a resend.
LEMMA Sayings ==
  ASSUME Types, NEW l \in Conns
  PROVE  /\ \A s, t \in Sessions :
              /\ Mentions(ReportFrame(l, NoStates, {s}), t) <=> t = s
              /\ Says(ReportFrame(l, NoStates, {s}), s) = None
         /\ \A s, t \in Sessions, st \in States :
              /\ Mentions(ReportFrame(l, [NoStates EXCEPT ![s] = st], {}), t) <=> t = s
              /\ Says(ReportFrame(l, [NoStates EXCEPT ![s] = st], {}), s) = st
         /\ \A t \in Sessions :
              /\ Mentions(ReportFrame(l, absolute, {}), t) <=> absolute[t] # None
              /\ Says(ReportFrame(l, absolute, {}), t) = absolute[t]
<1>1. /\ absolute \in Shown /\ NoStates \in Shown /\ {} \in SUBSET Sessions
      /\ \A s \in Sessions, st \in States : [NoStates EXCEPT ![s] = st] \in Shown
  BY ShownForms DEF Types
<1>2. \A st \in States : st # None
  BY AdapterAssumption DEF AdapterAssumption
<1>3. ASSUME NEW s \in Sessions, NEW t \in Sessions
      PROVE  /\ Mentions(ReportFrame(l, NoStates, {s}), t) <=> t = s
             /\ Says(ReportFrame(l, NoStates, {s}), s) = None
  <2>1. {s} \in SUBSET Sessions
    OBVIOUS
  <2>. QED
    BY <1>1, <2>1, ReportForm DEF Mentions, Says, NoStates
<1>4. ASSUME NEW s \in Sessions, NEW t \in Sessions, NEW st \in States
      PROVE  /\ Mentions(ReportFrame(l, [NoStates EXCEPT ![s] = st], {}), t) <=> t = s
             /\ Says(ReportFrame(l, [NoStates EXCEPT ![s] = st], {}), s) = st
  <2> DEFINE sts == [NoStates EXCEPT ![s] = st]
  <2>1. sts \in Shown
    BY <1>1
  <2>2. (sts[t] # None <=> t = s) /\ sts[s] = st
    BY <1>2 DEF NoStates
  <2> HIDE DEF sts
  <2>3. /\ Mentions(ReportFrame(l, sts, {}), t) <=> t = s
        /\ Says(ReportFrame(l, sts, {}), s) = st
    BY <1>1, <2>1, <2>2, ReportForm DEF Mentions, Says
  <2>. QED
    BY <2>3 DEF sts
<1>5. ASSUME NEW t \in Sessions
      PROVE  /\ Mentions(ReportFrame(l, absolute, {}), t) <=> absolute[t] # None
             /\ Says(ReportFrame(l, absolute, {}), t) = absolute[t]
  BY <1>1, ReportForm DEF Mentions, Says
<1>. QED
  BY <1>3, <1>4, <1>5

\* Only hello is under way.
LEMMA AheadGreets ==
  ASSUME NEW c \in Conns, \A i \in 1..Len(toEdge'[c]) : toEdge'[c][i].type = "hello",
         \A s \in Sessions : presence'[s] # None => presence'[s].lease # c
  PROVE  Ahead(c)'
  BY DEF Ahead, Silent, Mentions

\* A frame is read; it may be shown only under the lease that the client has.
LEMMA AheadReads ==
  ASSUME Types, NEW c \in Conns, Ahead(c), toEdge[c] # <<>>, toEdge'[c] = Tail(toEdge[c]),
         UNCHANGED <<leaseId, absolute>>, leaseId = c \/ UNCHANGED presence
  PROVE  Ahead(c)'
<1>1. toEdge[c] \in Seq(Frames)
  BY DEF Types
<1>2. \A i \in 1..Len(toEdge'[c]) : \E j \in 1..Len(toEdge[c]) : toEdge'[c][i] = toEdge[c][j]
  BY <1>1, SaysTail
<1>3. ASSUME NEW s \in Sessions, absolute[s] = None
      PROVE  Silent(toEdge'[c], s) \/ LastSays(toEdge'[c], s, None)
  BY <1>1, <1>3, SaysTail DEF Ahead
<1>. QED
  BY <1>2, <1>3 DEF Ahead

\* The ack that is read is that of its connection.
LEMMA AckForms ==
  ASSUME Types, Orderly, NEW c \in Conns, toClient[c] # <<>>
  PROVE  Head(toClient[c]) = c /\ handler[c] \notin {"none", "hello"}
<1>1. toClient[c] \in Seq(Conns)
  BY DEF Types
<1>2. Head(toClient[c]) = toClient[c][1] /\ Len(toClient[c]) \in Nat /\ Len(toClient[c]) >= 1
  BY <1>1, HeadTailProperties, EmptySeq, LenProperties
<1>. QED
  BY <1>2 DEF Orderly, Tidy

-----------------------------------------------------------------------------
(* What is under way stays so *)

LEMMA UnderWayKept ==
  ASSUME UnderWay, UNCHANGED <<socket, leaseId, absolute>>, pendingAck' => pendingAck,
         \A c \in Conns : socket = c /\ Reading(c)' =>
           /\ Reading(c) /\ toEdge'[c] = toEdge[c]
           /\ \A s \in Sessions : presence'[s] # None =>
                presence'[s].lease # c \/ presence'[s] = presence[s]
  PROVE  UnderWay'
<1>1. ASSUME NEW c \in Conns, socket' = c, Reading(c)' PROVE Ahead(c)'
  BY <1>1, AheadKept DEF UnderWay
<1>. QED
  BY <1>1 DEF UnderWay

LEMMA UnderWayWrites ==
  ASSUME Types, UnderWay, NEW f \in Frames, Send(socket, f),
         UNCHANGED <<socket, handler, stopped, presence>>,
         leaseId' # NoConn, leaseId' = socket => ~pendingAck',
         leaseId' # socket => leaseId # socket /\ (f.type = "report" => f.lease # socket),
         \A s \in Sessions : absolute'[s] = None =>
           \/ Mentions(f, s) /\ Says(f, s) = None
           \/ ~Mentions(f, s) /\ absolute[s] = None
  PROVE  UnderWay'
<1>1. ASSUME NEW c \in Conns, socket' = c, Reading(c)' PROVE Ahead(c)'
  <2>1. Reading(c) /\ handler[c] # "returned" /\ socket = c /\ socket \in 0..MaxConns
    BY <1>1, AdapterAssumption DEF Reading, Conns, AdapterAssumption
  <2>2. toEdge'[c] = Append(toEdge[c], f)
    BY <2>1, SendForms
  <2>. QED
    BY <2>1, <2>2, AheadWrites DEF UnderWay
<1>. QED
  BY <1>1 DEF UnderWay

\* Nothing is written while the client has no lease: only hello is under way.
LEMMA UnderWayGreets ==
  ASSUME UnderWay, UNCHANGED <<socket, leaseId, pendingAck, handler, stopped, presence, toEdge>>,
         socket = NoConn \/ leaseId = NoConn
  PROVE  UnderWay'
<1>1. ASSUME NEW c \in Conns, socket' = c, Reading(c)' PROVE Ahead(c)'
  <2>1. Ahead(c) /\ leaseId = NoConn /\ leaseId # c
    BY <1>1, AdapterAssumption DEF UnderWay, Reading, Conns, NoConn, AdapterAssumption
  <2>. QED
    BY <2>1, AheadGreets DEF Ahead
<1>. QED
  BY <1>1 DEF UnderWay

LEMMA UnderWayStep == Types /\ Types' /\ Orderly /\ UnderWay /\ [Next]_vars => UnderWay'
<1> SUFFICES ASSUME Types, Types', Orderly, UnderWay, [Next]_vars PROVE UnderWay'
  OBVIOUS
<1>0. /\ MaxConns \in Nat /\ opened \in 0..MaxConns /\ socket \in 0..MaxConns
      /\ leaseId \in 0..MaxConns /\ opened \in Nat
      /\ \A c \in Conns : c \in Nat /\ c # 0
  BY AdapterAssumption DEF Types, AdapterAssumption, Conns
<1>1. CASE SessionStart \/ DialFails \/ AckTimesOut \/ Reconnect \/ Restart
  BY <1>1, UnderWayKept
     DEF SessionStart, DialFails, AckTimesOut, Reconnect, Restart, client, wire, edge, history,
         Reading
<1>2. ASSUME NEW s \in Sessions, EndSession(s) PROVE UnderWay'
  <2>1. /\ UNCHANGED <<socket, leaseId, pendingAck, handler, stopped, presence>>
        /\ absolute' = [absolute EXCEPT ![s] = None]
    BY <1>2 DEF EndSession, End, edge
  <2>2. CASE leaseId = NoConn
    BY <1>2, <2>1, <2>2, EndForms, UnderWayGreets DEF EndSession, End
  <2>3. CASE leaseId # NoConn
    <3> DEFINE f == ReportFrame(leaseId, NoStates, {s})
    <3>1. leaseId \in Conns /\ {s} \in SUBSET Sessions
      BY <1>0, <2>3 DEF NoConn, Conns
    <3>2. f \in Frames /\ f.lease = leaseId
      BY <3>1, ReportForm, ShownForms
    <3>3. Send(socket, f)
      BY <1>2, <2>3, EndForms DEF EndSession, End
    <3>4. \A t \in Sessions : (Mentions(f, t) <=> t = s) /\ Says(f, s) = None
      BY <3>1, Sayings
    <3> HIDE DEF f
    <3>5. CASE socket = NoConn
      BY <2>1, <3>5, <1>0 DEF UnderWay, NoConn
    <3>6. CASE socket # NoConn
      <4>1. leaseId' = socket => ~pendingAck'
        BY <2>1, <3>6 DEF UnderWay
      <4>2. \A t \in Sessions : absolute'[t] = None =>
              \/ Mentions(f, t) /\ Says(f, t) = None
              \/ ~Mentions(f, t) /\ absolute[t] = None
        BY <2>1, <3>4 DEF Types
      <4>. QED
        BY <2>1, <2>3, <3>2, <3>3, <4>1, <4>2, UnderWayWrites
    <3>. QED
      BY <3>5, <3>6
  <2>. QED
    BY <2>2, <2>3
<1>3. ASSUME NEW s \in Sessions, Shutdown(s) PROVE UnderWay'
  BY <1>3 DEF Shutdown, UnderWay, Reading
<1>4. ASSUME NEW s \in Sessions, NEW st \in States, Report(s, st) PROVE UnderWay'
  <2>1. /\ UNCHANGED <<socket, leaseId, pendingAck, handler, stopped, presence>>
        /\ absolute' = [absolute EXCEPT ![s] = st]
    BY <1>4 DEF Report, edge
  <2>2. CASE ~(socket # NoConn /\ leaseId # NoConn)
    BY <1>4, <2>1, <2>2, UnderWayGreets DEF Report
  <2>3. CASE socket # NoConn /\ leaseId # NoConn
    <3> DEFINE sts == [NoStates EXCEPT ![s] = st]
               f == ReportFrame(leaseId, sts, {})
    <3>1. leaseId \in Conns /\ {} \in SUBSET Sessions /\ sts \in Shown
      BY <1>0, <2>3, ShownForms DEF NoConn, Conns
    <3>2. \A t \in Sessions : Mentions(f, t) <=> t = s
      BY <3>1, Sayings
    <3>3. Send(socket, f)
      BY <1>4, <2>3 DEF Report, SendReport
    <3> HIDE DEF sts
    <3>4. f \in Frames /\ f.lease = leaseId
      BY <3>1, ReportForm
    <3> HIDE DEF f
    <3>5. leaseId' = socket => ~pendingAck'
      BY <2>1, <2>3 DEF UnderWay
    <3>6. \A t \in Sessions : absolute'[t] = None => ~Mentions(f, t) /\ absolute[t] = None
      BY <2>1, <3>2, AdapterAssumption DEF Types, AdapterAssumption, Shown
    <3>. QED
      BY <2>1, <2>3, <3>3, <3>4, <3>5, <3>6, UnderWayWrites
  <2>. QED
    BY <2>2, <2>3
<1>5. CASE Connected
  <2>0. PICK n \in Conns : n = opened + 1
    BY <1>0, <1>5 DEF Connected, Conns
  <2>1. /\ opened < n /\ socket' = n /\ toEdge' = [toEdge EXCEPT ![n] = <<[type |-> "hello"]>>]
        /\ UNCHANGED <<leaseId, presence, stopped>>
    BY <1>0, <1>5, <2>0 DEF Connected
  <2>2. handler[n] = "none" /\ leaseId # n /\ ~Live(n)
    BY <2>1 DEF Orderly, Tidy
  <2>3. toEdge'[n] = <<[type |-> "hello"]>>
    BY <2>1 DEF Types
  <2>4. \A s \in Sessions : presence'[s] # None => presence'[s].lease # n
    BY <2>1, <2>2 DEF Orderly, Owned
  <2>5. Ahead(n)'
    <3>1. \A i \in 1..Len(toEdge'[n]) : toEdge'[n][i].type = "hello"
      BY <2>3
    <3>. QED
      BY <2>4, <3>1, AheadGreets
  <2>. QED
    BY <2>1, <2>2, <2>5 DEF UnderWay
<1>6. CASE Heartbeat
  <2> DEFINE f == [type |-> "heartbeat", lease |-> leaseId]
  <2>1. leaseId \in Conns /\ leaseId # NoConn /\ socket # NoConn
    BY <1>0, <1>6 DEF Heartbeat, NoConn, Conns
  <2>2. f \in Frames /\ f.type = "heartbeat" /\ \A t \in Sessions : ~Mentions(f, t)
    BY <2>1 DEF Frames, Mentions
  <2>3. /\ Send(socket, f)
        /\ UNCHANGED <<socket, leaseId, absolute, pendingAck, handler, stopped, presence>>
    BY <1>6 DEF Heartbeat, client, edge
  <2> HIDE DEF f
  <2>4. leaseId' = socket => ~pendingAck'
    BY <2>1, <2>3 DEF UnderWay
  <2>. QED
    BY <2>1, <2>2, <2>3, <2>4, UnderWayWrites
<1>7. ASSUME NEW c \in Conns, OnAck(c) PROVE UnderWay'
  <2>1. UNCHANGED <<socket, absolute, handler, stopped, presence>>
    BY <1>7 DEF OnAck, edge
  <2>2. CASE ~pendingAck
    BY <1>7, <2>1, <2>2, UnderWayKept DEF OnAck, Reading
  <2>3. CASE pendingAck
    <3>1. ~pendingAck' /\ leaseId' = c /\ ResendAbsolute(c)
      BY <1>7, <2>3, AckForms DEF OnAck
    <3>2. socket # NoConn => leaseId # socket
      BY <2>3 DEF UnderWay
    <3>3. CASE absolute = NoStates
      <4>1. UNCHANGED toEdge
        BY <3>1, <3>3 DEF ResendAbsolute
      <4>2. ASSUME NEW d \in Conns, socket' = d, Reading(d)' PROVE Ahead(d)'
        <5>1. Ahead(d) /\ leaseId # d /\ leaseId' # NoConn
          BY <1>0, <2>1, <3>1, <3>2, <4>2 DEF UnderWay, Reading, NoConn
        <5>. QED
          BY <2>1, <4>1, <5>1 DEF Ahead
      <4>. QED
        BY <3>1, <4>2 DEF UnderWay
    <3>4. CASE absolute # NoStates
      <4> DEFINE f == ReportFrame(c, absolute, {})
      <4>1. absolute \in Shown /\ {} \in SUBSET Sessions
        BY DEF Types
      <4>2. f \in Frames /\ f.lease = c
        BY <4>1, ReportForm
      <4>3. Send(socket, f)
        BY <3>1, <3>4, ResendForms
      <4>4. \A t \in Sessions : Mentions(f, t) <=> absolute[t] # None
        BY Sayings
      <4> HIDE DEF f
      <4>5. CASE socket = NoConn
        BY <1>0, <2>1, <4>5 DEF UnderWay, NoConn
      <4>6. CASE socket # NoConn
        BY <1>0, <2>1, <3>1, <3>2, <4>2, <4>3, <4>4, <4>6, UnderWayWrites DEF NoConn
      <4>. QED
        BY <4>5, <4>6
    <3>. QED
      BY <3>3, <3>4
  <2>. QED
    BY <2>2, <2>3
<1>8. ASSUME NEW c \in Conns, OnClose(c) PROVE UnderWay'
  <2>1. CASE socket = c
    <3>1. socket' = 0
      BY <1>8, <2>1 DEF OnClose, HandleDrop, NoConn
    <3>. QED
      BY <1>0, <3>1 DEF UnderWay, NoConn
  <2>2. CASE socket # c
    BY <1>8, <2>2, UnderWayKept DEF OnClose, HandleDrop, edge, Reading
  <2>. QED
    BY <2>1, <2>2
\* A frame of connection c is read, and nothing changes on another.
<1>9. ASSUME NEW c \in Conns, UNCHANGED <<socket, leaseId, absolute, pendingAck, stopped>>,
             handler[c] \in {"hello", "serving"}, toEdge[c] # <<>>,
             toEdge' = [toEdge EXCEPT ![c] = Tail(@)],
             \A d \in Conns : d # c => handler'[d] = handler[d],
             leaseId = c \/ UNCHANGED presence,
             \A s \in Sessions : presence'[s] # None =>
               presence'[s].lease = c \/ (presence[s] # None /\ presence'[s].lease = presence[s].lease)
      PROVE  UnderWay'
  <2>1. ASSUME NEW d \in Conns, socket' = d, Reading(d)' PROVE Ahead(d)'
    <3>1. CASE d = c
      <4>1. Ahead(c) /\ toEdge'[c] = Tail(toEdge[c])
        BY <1>9, <2>1, <3>1 DEF UnderWay, Reading, Types
      <4>. QED
        BY <1>9, <3>1, <4>1, AheadReads
    <3>2. CASE d # c
      <4>1. Ahead(d) /\ toEdge'[d] = toEdge[d]
        BY <1>9, <2>1, <3>2 DEF UnderWay, Reading, Types
      <4>. QED
        BY <1>9, <3>2, <4>1 DEF Ahead
    <3>. QED
      BY <3>1, <3>2
  <2>. QED
    BY <1>9, <2>1 DEF UnderWay
<1>10. ASSUME NEW c \in Conns, Hello(c) PROVE UnderWay'
  BY <1>9, <1>10 DEF Hello, client, Types
<1>11. ASSUME NEW c \in Conns, Serve(c) PROVE UnderWay'
  <2> DEFINE f == Head(toEdge[c])
  <2>1. /\ handler[c] = "serving" /\ toEdge[c] # <<>> /\ toEdge' = [toEdge EXCEPT ![c] = Tail(@)]
        /\ UNCHANGED <<socket, leaseId, absolute, pendingAck, stopped>>
        /\ UNCHANGED handler \/ handler' = [handler EXCEPT ![c] = "returned"]
        /\ \/ UNCHANGED presence
           \/ f.type = "report" /\ f.lease = c /\ presence' = AfterReports(c, f)
    BY <1>11 DEF Serve, client, Accepted, Return
  <2>2. f = toEdge[c][1] /\ 1 \in 1..Len(toEdge[c])
    <3>1. toEdge[c] \in Seq(Frames)
      BY DEF Types
    <3>2. Len(toEdge[c]) \in Nat /\ Len(toEdge[c]) # 0
      BY <2>1, <3>1, EmptySeq, LenProperties
    <3>3. 1 \in 1..Len(toEdge[c])
      BY <3>2
    <3>. QED
      BY <2>1, <3>3, HeadForms
  <2> HIDE DEF f
  <2>3. \A s \in Sessions : presence[s] # None => presence[s] \in [state : States, lease : Conns]
    BY DEF Types
  <2>4. \A s \in Sessions : presence'[s] # None =>
          presence'[s].lease = c \/ (presence[s] # None /\ presence'[s].lease = presence[s].lease)
    BY <2>1, <2>3 DEF AfterReports
  <2>5. \A d \in Conns : d # c => handler'[d] = handler[d]
    BY <2>1 DEF Types
  <2>6. CASE socket = c /\ ~stopped
    <3>1. Ahead(c)
      BY <2>1, <2>6 DEF UnderWay, Reading
    <3>2. leaseId = c \/ UNCHANGED presence
      BY <2>1, <2>2, <3>1 DEF Ahead
    <3>. QED
      BY <1>9, <2>1, <2>4, <2>5, <3>2
  <2>7. CASE socket # c
    <3>1. ASSUME NEW d \in Conns, socket' = d, Reading(d)' PROVE Ahead(d)'
      <4>1. Ahead(d) /\ toEdge'[d] = toEdge[d] /\ d # c
        BY <2>1, <2>5, <2>7, <3>1 DEF UnderWay, Reading, Types
      <4>. QED
        BY <2>1, <2>4, <4>1 DEF Ahead
    <3>. QED
      BY <2>1, <3>1 DEF UnderWay
  <2>8. CASE stopped
    BY <2>1, <2>8 DEF UnderWay, Reading
  <2>. QED
    BY <2>6, <2>7, <2>8
<1>12. ASSUME NEW c \in Conns, ReadEOF(c) PROVE UnderWay'
  BY <1>12, UnderWayKept DEF ReadEOF, Return, client, wire, Reading, Types
<1>13. ASSUME NEW c \in Conns, RunDeferred(c) PROVE UnderWay'
  <2>1. /\ UNCHANGED <<socket, leaseId, absolute, pendingAck, stopped, handler>>
        /\ handler[c] = "returned"
        /\ UNCHANGED presence \/ presence' = Without(c)
        /\ UNCHANGED toEdge \/ toEdge' = [toEdge EXCEPT ![c] = <<>>]
    BY <1>13 DEF RunDeferred, client
  <2>2. \A s \in Sessions : presence'[s] # None => presence'[s] = presence[s]
    BY <2>1 DEF Without
  <2>3. \A d \in Conns : d # c => toEdge'[d] = toEdge[d]
    BY <2>1 DEF Types
  <2>. QED
    BY <2>1, <2>2, <2>3, UnderWayKept DEF Reading
<1>14. ASSUME NEW c \in Conns, Expire(c) PROVE UnderWay'
  <2>1. \A s \in Sessions : presence'[s] # None => presence'[s] = presence[s]
    BY <1>14 DEF Expire, Without
  <2>. QED
    BY <1>14, <2>1, UnderWayKept DEF Expire, client, wire, Reading
<1>15. ASSUME NEW s \in Sessions, Dismiss(s) PROVE UnderWay'
  <2>1. \A t \in Sessions : presence'[t] # None => presence'[t] = presence[t]
    BY <1>15 DEF Dismiss, Types
  <2>. QED
    BY <1>15, <2>1, UnderWayKept DEF Dismiss, client, wire, Reading
<1>16. CASE Crash
  BY <1>16 DEF Crash, client, UnderWay, Reading
<1>17. CASE UNCHANGED vars
  BY <1>17, UnderWayKept DEF vars, client, wire, edge, Reading
<1>. QED
  BY <1>1, <1>2, <1>3, <1>4, <1>5, <1>6, <1>7, <1>8, <1>10, <1>11, <1>12, <1>13, <1>14, <1>15,
     <1>16, <1>17 DEF Next, Extension, Events, Faults

-----------------------------------------------------------------------------
(* What the Edge will show is what the client wants *)

\* A presence is not None.
LEMMA PresenceForms ==
  ASSUME NEW c \in Conns, NEW st \in States, NEW p \in [state : States, lease : Conns]
  PROVE  [state |-> st, lease |-> c] # None /\ [p EXCEPT !.state = st] # None
<1>1. /\ [state |-> st, lease |-> c] \in [state : States, lease : Conns]
      /\ [p EXCEPT !.state = st] \in [state : States, lease : Conns]
  OBVIOUS
<1>. QED
  BY <1>1, AdapterAssumption DEF AdapterAssumption

LEMMA AgreeKept ==
  ASSUME WillAgree, UNCHANGED <<socket, leaseId, absolute, stopped, abandoned>>,
         \A c \in Conns : socket = c /\ Served(c)' =>
           /\ lease[c] # None /\ handler[c] = "serving" /\ toEdge'[c] = toEdge[c]
           /\ Served(c) => \A s \in Sessions : presence'[s] = presence[s]
  PROVE  WillAgree'
<1>1. ASSUME NEW c \in Conns, socket' = c, Served(c)' PROVE WillShow(c)'
  <2>1. Served(c)
    BY <1>1 DEF Served, Live
  <2>. QED
    BY <1>1, <2>1, ShowKept DEF WillAgree
<1>. QED
  BY <1>1 DEF WillAgree

LEMMA AgreeWrites ==
  ASSUME Types, WillAgree, NEW f \in Frames, Send(socket, f),
         UNCHANGED <<socket, leaseId, stopped, abandoned, lease, handler, presence>>,
         \A s \in Sessions : \/ Mentions(f, s) /\ Says(f, s) = absolute'[s]
                             \/ ~Mentions(f, s) /\ absolute'[s] = absolute[s]
  PROVE  WillAgree'
<1>1. ASSUME NEW c \in Conns, socket' = c, Served(c)' PROVE WillShow(c)'
  <2>1. Served(c) /\ socket \in 0..MaxConns /\ handler[c] # "returned" /\ socket = c
    BY <1>1, AdapterAssumption DEF Served, Live, Conns, AdapterAssumption
  <2>2. toEdge'[c] = Append(toEdge[c], f)
    BY <2>1, SendForms
  <2>. QED
    BY <2>1, <2>2, ShowWrites DEF WillAgree
<1>. QED
  BY <1>1 DEF WillAgree

LEMMA WillAgreeStep ==
  Types /\ Types' /\ Orderly /\ UnderWay /\ WillAgree /\ [Next]_vars => WillAgree'
<1> SUFFICES ASSUME Types, Types', Orderly, UnderWay, WillAgree, [Next]_vars PROVE WillAgree'
  OBVIOUS
<1>0. /\ MaxConns \in Nat /\ opened \in 0..MaxConns /\ socket \in 0..MaxConns
      /\ leaseId \in 0..MaxConns /\ opened \in Nat
      /\ \A c \in Conns : c \in Nat /\ c # 0
  BY AdapterAssumption DEF Types, AdapterAssumption, Conns
<1>1. CASE SessionStart \/ DialFails \/ AckTimesOut \/ Reconnect \/ Restart
  BY <1>1, AgreeKept
     DEF SessionStart, DialFails, AckTimesOut, Reconnect, Restart, client, wire, edge, history,
         Served, Live
\* A client without a lease holds none of a connection.
<1>2. ASSUME leaseId' = NoConn PROVE WillAgree'
  BY <1>0, <1>2 DEF WillAgree, Served, NoConn
<1>3. ASSUME NEW s \in Sessions, EndSession(s) PROVE WillAgree'
  <2>1. /\ UNCHANGED <<socket, leaseId, stopped, abandoned, lease, handler, presence>>
        /\ absolute' = [absolute EXCEPT ![s] = None]
    BY <1>3 DEF EndSession, End, edge, history
  <2>2. CASE leaseId = NoConn
    BY <1>2, <2>1, <2>2
  <2>3. CASE leaseId # NoConn
    <3> DEFINE f == ReportFrame(leaseId, NoStates, {s})
    <3>1. leaseId \in Conns /\ {s} \in SUBSET Sessions
      BY <1>0, <2>3 DEF NoConn, Conns
    <3>2. f \in Frames
      BY <3>1, ReportForm, ShownForms
    <3>3. Send(socket, f)
      BY <1>3, <2>3, EndForms DEF EndSession, End
    <3>4. \A t \in Sessions : (Mentions(f, t) <=> t = s) /\ Says(f, s) = None
      BY <3>1, Sayings
    <3> HIDE DEF f
    <3>5. \A t \in Sessions : absolute'[t] = IF t = s THEN None ELSE absolute[t]
      BY <2>1 DEF Types, Shown
    <3>6. \A t \in Sessions : \/ Mentions(f, t) /\ Says(f, t) = absolute'[t]
                              \/ ~Mentions(f, t) /\ absolute'[t] = absolute[t]
      BY <3>4, <3>5
    <3>. QED
      BY <2>1, <3>2, <3>3, <3>6, AgreeWrites
  <2>. QED
    BY <2>2, <2>3
<1>4. ASSUME NEW s \in Sessions, Shutdown(s) PROVE WillAgree'
  BY <1>2, <1>4 DEF Shutdown
<1>5. ASSUME NEW s \in Sessions, NEW st \in States, Report(s, st) PROVE WillAgree'
  <2>1. /\ UNCHANGED <<socket, leaseId, stopped, abandoned, lease, handler, presence>>
        /\ absolute' = [absolute EXCEPT ![s] = st]
    BY <1>5 DEF Report, edge, history
  <2>2. CASE leaseId = NoConn
    BY <1>2, <2>1, <2>2
  <2>3. CASE socket = NoConn
    BY <1>0, <2>1, <2>3 DEF WillAgree, NoConn
  <2>4. CASE socket # NoConn /\ leaseId # NoConn
    <3> DEFINE sts == [NoStates EXCEPT ![s] = st]
               f == ReportFrame(leaseId, sts, {})
    <3>1. leaseId \in Conns /\ {} \in SUBSET Sessions /\ sts \in Shown
      BY <1>0, <2>4, ShownForms DEF NoConn, Conns
    <3>2. \A t \in Sessions : (Mentions(f, t) <=> t = s) /\ Says(f, s) = st
      BY <3>1, Sayings
    <3>3. Send(socket, f)
      BY <1>5, <2>4 DEF Report, SendReport
    <3> HIDE DEF sts
    <3>4. f \in Frames
      BY <3>1, ReportForm
    <3> HIDE DEF f
    <3>5. \A t \in Sessions : absolute'[t] = IF t = s THEN st ELSE absolute[t]
      BY <2>1 DEF Types, Shown
    <3>6. \A t \in Sessions : \/ Mentions(f, t) /\ Says(f, t) = absolute'[t]
                              \/ ~Mentions(f, t) /\ absolute'[t] = absolute[t]
      BY <3>2, <3>5
    <3>. QED
      BY <2>1, <3>3, <3>4, <3>6, AgreeWrites
  <2>. QED
    BY <2>2, <2>3, <2>4
<1>6. CASE Connected
  <2>0. PICK n \in Conns : n = opened + 1
    BY <1>0, <1>6 DEF Connected, Conns
  <2>1. opened < n /\ socket' = n /\ leaseId' = leaseId
    BY <1>0, <1>6, <2>0 DEF Connected
  <2>2. leaseId # n
    BY <2>1 DEF Orderly, Tidy
  <2>. QED
    BY <2>1, <2>2 DEF WillAgree, Served
<1>7. CASE Heartbeat
  <2> DEFINE f == [type |-> "heartbeat", lease |-> leaseId]
  <2>1. leaseId \in Conns
    BY <1>0, <1>7 DEF Heartbeat, NoConn, Conns
  <2>2. f \in Frames /\ \A t \in Sessions : ~Mentions(f, t)
    BY <2>1 DEF Frames, Mentions
  <2>3. /\ Send(socket, f)
        /\ UNCHANGED <<socket, leaseId, absolute, stopped, abandoned, lease, handler, presence>>
    BY <1>7 DEF Heartbeat, client, edge, history
  <2> HIDE DEF f
  <2>. QED
    BY <2>2, <2>3, AgreeWrites
\* The ack: with none of an older lease shown, the resend says it all.
<1>8. ASSUME NEW c \in Conns, OnAck(c) PROVE WillAgree'
  <2>1. UNCHANGED <<socket, absolute, handler, stopped, lease, presence, opened, closed, deferred>>
    BY <1>8 DEF OnAck, edge
  <2>2. CASE ~pendingAck
    BY <1>8, <2>1, <2>2, AgreeKept DEF OnAck, Served, Live
  <2>3. CASE pendingAck
    <3>1. /\ leaseId' = c /\ ResendAbsolute(c)
          /\ abandoned' = (abandoned /\ ~(Open \subseteq {socket}))
      BY <1>8, <2>3, AckForms DEF OnAck
    <3> SUFFICES ASSUME socket = c, Served(c)' PROVE WillShow(c)'
      BY <2>1, <3>1 DEF WillAgree, Served
    <3>2. /\ handler[c] = "serving" /\ ~stopped /\ leaseId # c /\ Open \subseteq {c}
          /\ handler[c] # "returned"
      BY <1>0, <2>1, <2>3, <3>1 DEF Served, UnderWay, Orderly, Sole, NoConn
    <3>3. Ahead(c)
      BY <3>2 DEF UnderWay, Reading
    <3>4. ASSUME NEW s \in Sessions PROVE presence[s] = None
      <4> SUFFICES ASSUME presence[s] # None PROVE FALSE
        OBVIOUS
      <4>1. PICK d \in Conns : presence[s].lease = d
        BY DEF Types
      <4>2. Live(d) /\ d # c
        BY <3>2, <3>3, <4>1 DEF Orderly, Owned, Ahead
      <4>3. d \in Open
        BY <3>2, <4>2, LiveIsOpen
      <4>. QED
        BY <3>2, <4>2, <4>3
    <3>5. ASSUME NEW s \in Sessions, absolute[s] = None
          PROVE  /\ Silent(toEdge[c], s) \/ LastSays(toEdge[c], s, None)
                 /\ Agrees(s)'
      BY <2>1, <3>3, <3>4, <3>5 DEF Ahead, Agrees
    <3>6. CASE absolute = NoStates
      <4>1. UNCHANGED toEdge /\ \A s \in Sessions : absolute[s] = None
        BY <3>1, <3>6 DEF ResendAbsolute, NoStates
      <4>. QED
        BY <2>1, <3>5, <4>1 DEF WillShow
    <3>7. CASE absolute # NoStates
      <4> DEFINE f == ReportFrame(c, absolute, {})
      <4>1. absolute \in Shown /\ {} \in SUBSET Sessions /\ toEdge[c] \in Seq(Frames)
        BY DEF Types
      <4>2. f \in Frames
        BY <4>1, ReportForm
      <4>3. Send(socket, f)
        BY <3>1, <3>7, ResendForms
      <4>4. \A t \in Sessions : (Mentions(f, t) <=> absolute[t] # None) /\ Says(f, t) = absolute[t]
        BY Sayings
      <4> HIDE DEF f
      <4>5. toEdge'[c] = Append(toEdge[c], f)
        BY <1>0, <3>2, <4>2, <4>3, SendForms
      <4>6. ASSUME NEW s \in Sessions
            PROVE  \/ LastSays(toEdge'[c], s, absolute'[s])
                   \/ Silent(toEdge'[c], s) /\ Agrees(s)'
        <5>1. CASE absolute[s] # None
          BY <2>1, <4>1, <4>2, <4>4, <4>5, <5>1, SaysAppend
        <5>2. CASE absolute[s] = None
          BY <2>1, <3>5, <4>1, <4>2, <4>4, <4>5, <5>2, SaysAppend
        <5>. QED
          BY <5>1, <5>2
      <4>. QED
        BY <4>6 DEF WillShow
    <3>. QED
      BY <3>6, <3>7
  <2>. QED
    BY <2>2, <2>3
<1>9. ASSUME NEW c \in Conns, OnClose(c) PROVE WillAgree'
  <2>1. CASE socket = c
    BY <1>2, <1>9, <2>1 DEF OnClose, HandleDrop
  <2>2. CASE socket # c
    BY <1>9, <2>2, AgreeKept DEF OnClose, HandleDrop, edge, Served, Live
  <2>. QED
    BY <2>1, <2>2
<1>10. ASSUME NEW c \in Conns, Hello(c) PROVE WillAgree'
  <2>1. leaseId # c
    BY <1>10 DEF Hello, Orderly, Tidy
  <2>2. /\ UNCHANGED <<socket, leaseId, absolute, stopped, abandoned, presence>>
        /\ \A d \in Conns : d # c => /\ toEdge'[d] = toEdge[d] /\ lease'[d] = lease[d]
                                     /\ handler'[d] = handler[d]
    BY <1>10 DEF Hello, client, history, Types
  <2>. QED
    BY <2>1, <2>2, AgreeKept DEF Served, Live
<1>11. ASSUME NEW c \in Conns, Serve(c) PROVE WillAgree'
  <2> DEFINE f == Head(toEdge[c])
  <2>1. /\ handler[c] = "serving" /\ toEdge[c] # <<>> /\ toEdge' = [toEdge EXCEPT ![c] = Tail(@)]
        /\ UNCHANGED <<socket, leaseId, absolute, stopped, abandoned>>
        /\ \/ handler' = [handler EXCEPT ![c] = "returned"]
           \/ /\ lease[c] # None /\ UNCHANGED handler
              /\ \/ f.type # "report" /\ UNCHANGED presence
                 \/ f.type = "report" /\ presence' = AfterReports(c, f)
    BY <1>11 DEF Serve, client, history, Accepted, Return
  <2> SUFFICES ASSUME NEW d \in Conns, socket = d, Served(d)' PROVE WillShow(d)'
    BY <2>1 DEF WillAgree
  <2>2. ~stopped /\ ~abandoned /\ leaseId = d /\ handler'[d] = "serving"
    BY <2>1 DEF Served
  \* Only the current connection is served.
  <2>3. d = c
    <3>1. ~Hung(c) /\ c \notin closed /\ ~(opened < c)
      BY <2>1, <2>2 DEF Orderly, Tidy, Hung
    <3>2. c \in Open
      BY <1>0, <3>1, HungBoth DEF Conns
    <3>. QED
      BY <2>2, <3>2 DEF Orderly, Sole
  <2>4. /\ handler'[c] = "serving" /\ toEdge'[c] = Tail(toEdge[c]) /\ toEdge[c] \in Seq(Frames)
        /\ handler' = [handler EXCEPT ![c] = "returned"] => handler'[c] = "returned"
    BY <2>1, <2>2, <2>3 DEF Types
  <2>5. /\ lease[c] # None
        /\ \/ f.type # "report" /\ UNCHANGED presence
           \/ f.type = "report" /\ presence' = AfterReports(c, f)
    BY <2>1, <2>4
  <2>6. WillShow(c)
    BY <2>1, <2>2, <2>3, <2>5 DEF WillAgree, Served, Live
  <2>7. ASSUME NEW s \in Sessions
        PROVE  \/ LastSays(toEdge'[c], s, absolute'[s])
               \/ Silent(toEdge'[c], s) /\ Agrees(s)'
    <3>1. CASE LastSays(toEdge[c], s, absolute[s]) /\ ~LastSays(Tail(toEdge[c]), s, absolute[s])
      <4>1. Mentions(f, s) /\ Says(f, s) = absolute[s] /\ Silent(Tail(toEdge[c]), s)
        BY <2>1, <2>4, <3>1, SaysTail
      <4> HIDE DEF f
      <4>2. Agrees(s)'
        <5>1. presence' = AfterReports(c, f) /\ absolute'[s] = absolute[s]
          BY <2>1, <2>5, <4>1 DEF Mentions
        <5>2. CASE s \in f.ends
          <6>1. presence'[s] = None /\ absolute[s] = None
            BY <4>1, <5>1, <5>2 DEF AfterReports, Says
          <6>. QED
            BY <5>1, <6>1 DEF Agrees
        <5>3. CASE s \notin f.ends
          <6>1. f.states[s] = absolute[s] /\ absolute[s] # None
            BY <4>1, <5>3 DEF Mentions, Says
          <6>2. \/ presence'[s] = [state |-> f.states[s], lease |-> c]
                \/ presence[s] # None /\ presence'[s] = [presence[s] EXCEPT !.state = f.states[s]]
            BY <5>1, <5>3, <6>1 DEF AfterReports
          <6>3. presence[s] # None => presence[s] \in [state : States, lease : Conns]
            BY DEF Types
          <6>4. presence'[s] # None
            <7>1. PICK st \in States : f.states[s] = st
              BY <6>1 DEF Types, Shown
            <7>. QED
              BY <6>2, <6>3, <7>1, PresenceForms
          <6>5. presence'[s].state = f.states[s]
            BY <6>2, <6>3
          <6>. QED
            BY <5>1, <6>1, <6>4, <6>5 DEF Agrees
        <5>. QED
          BY <5>2, <5>3
      <4>. QED
        BY <2>4, <4>1, <4>2
    <3>2. CASE Silent(toEdge[c], s) /\ Agrees(s)
      <4>1. ~Mentions(f, s) /\ Silent(Tail(toEdge[c]), s)
        BY <2>1, <2>4, <3>2, SaysTail
      <4> HIDE DEF f
      <4>2. presence'[s] = presence[s]
        BY <2>5, <4>1 DEF AfterReports, Mentions
      <4>. QED
        BY <2>1, <2>4, <3>2, <4>1, <4>2 DEF Agrees
    <3>. QED
      BY <2>1, <2>4, <2>6, <3>1, <3>2 DEF WillShow
  <2>. QED
    BY <2>3, <2>7 DEF WillShow
<1>12. ASSUME NEW c \in Conns, ReadEOF(c) PROVE WillAgree'
  BY <1>12, AgreeKept DEF ReadEOF, Return, client, wire, history, Served, Live, Types
\* The end of another lease takes nothing that is shown.
<1>13. ASSUME NEW c \in Conns, presence' = Without(c) \/ UNCHANGED presence,
              NEW d \in Conns, socket = d, Served(d), d # c, NEW s \in Sessions
       PROVE  presence'[s] = presence[s]
  <2>1. presence[s] # None => presence[s].lease \in Conns /\ Live(presence[s].lease)
    BY DEF Types, Orderly, Owned
  <2>2. presence[s] # None => presence[s].lease \in Open
    BY <1>13, <2>1, LiveIsOpen DEF Served
  <2>3. presence[s] # None => presence[s].lease # c
    BY <1>13, <2>2 DEF Orderly, Sole, Served
  <2>. QED
    BY <1>13, <2>3 DEF Without
<1>14. ASSUME NEW c \in Conns, RunDeferred(c) PROVE WillAgree'
  <2>1. /\ UNCHANGED <<socket, leaseId, absolute, stopped, abandoned, handler>>
        /\ handler[c] = "returned"
        /\ presence' = Without(c) \/ UNCHANGED presence
        /\ \A d \in Conns : d # c => toEdge'[d] = toEdge[d] /\ lease'[d] = lease[d]
    BY <1>14 DEF RunDeferred, client, history, Types
  <2>. QED
    BY <1>13, <2>1, AgreeKept DEF Served, Live
<1>15. ASSUME NEW c \in Conns, Expire(c) PROVE WillAgree'
  <2>1. /\ UNCHANGED <<socket, leaseId, absolute, stopped, abandoned, handler, toEdge>>
        /\ lease'[c] = None /\ presence' = Without(c)
        /\ \A d \in Conns : d # c => lease'[d] = lease[d]
    BY <1>15 DEF Expire, client, wire, history, Types
  <2>. QED
    BY <1>13, <2>1, AgreeKept DEF Served, Live
\* What is dismissed was finished.
<1>16. ASSUME NEW s \in Sessions, Dismiss(s) PROVE WillAgree'
  <2>1. /\ UNCHANGED <<socket, leaseId, absolute, stopped, abandoned, handler, toEdge, lease>>
        /\ presence[s] # None /\ presence[s].state \in Terminal
        /\ presence' = [presence EXCEPT ![s] = None]
    BY <1>16 DEF Dismiss, client, wire, history
  <2>2. ASSUME NEW t \in Sessions, Agrees(t) PROVE Agrees(t)'
    <3>1. CASE t = s
      BY <2>1, <2>2, <3>1 DEF Agrees, Types
    <3>2. CASE t # s
      BY <2>1, <2>2, <3>2 DEF Agrees, Types
    <3>. QED
      BY <3>1, <3>2
  <2>3. ASSUME NEW c \in Conns, socket' = c, Served(c)' PROVE WillShow(c)'
    <3>1. WillShow(c)
      BY <2>1, <2>3 DEF WillAgree, Served, Live
    <3>. QED
      BY <2>1, <2>2, <3>1 DEF WillShow
  <2>. QED
    BY <2>3 DEF WillAgree
<1>17. CASE Crash
  BY <1>17 DEF Crash, WillAgree, Served
<1>18. CASE UNCHANGED vars
  BY <1>18, AgreeKept DEF vars, client, wire, edge, history, Served, Live
<1>. QED
  BY <1>1, <1>3, <1>4, <1>5, <1>6, <1>7, <1>8, <1>9, <1>10, <1>11, <1>12, <1>14, <1>15, <1>16,
     <1>17, <1>18 DEF Next, Extension, Events, Faults

\* With a live lease and nothing under way the Edge shows the adapter's absolute
\* state: a report or an end made while dialling is not lost (resendAbsolute).
THEOREM EdgeInStep == Spec => []InStep
<1>1. Init => UnderWay /\ WillAgree
  BY AdapterAssumption DEF Init, UnderWay, WillAgree, NoConn, Conns, AdapterAssumption
<1>2. /\ Types /\ Types' /\ Orderly /\ UnderWay /\ WillAgree /\ [Next]_vars
      => (UnderWay /\ WillAgree)'
  BY UnderWayStep, WillAgreeStep
<1>3. ASSUME Types, WillAgree PROVE InStep
  <2> SUFFICES ASSUME socket # NoConn, leaseId = socket, ~abandoned, ~stopped, lease[socket] # None,
                      toEdge[socket] = <<>>, handler[socket] = "serving", NEW s \in Sessions
               PROVE  Agrees(s)
    BY DEF InStep
  <2>1. socket \in 0..opened /\ opened \in 0..MaxConns /\ MaxConns \in Nat /\ socket # 0
    BY <1>3, AdapterAssumption DEF Types, NoConn, AdapterAssumption
  <2>2. PICK c \in Conns : c = socket
    BY <2>1 DEF Conns
  <2>3. WillShow(c)
    BY <1>3, <2>2 DEF WillAgree, Served, Live
  <2>4. 1..Len(toEdge[c]) = {}
    BY <2>2
  <2>. QED
    BY <2>3, <2>4 DEF WillShow, LastSays
<1>. QED
  BY <1>1, <1>2, <1>3, OrderlyHolds, PTL DEF Spec
=============================================================================
