--------------------------- MODULE AdapterSession ----------------------------
(***************************************************************************)
(* A persistent adapter and the Edge: the Pi extension's client            *)
(* (packages/pi-adapter/edge-ipc.ts), the socket, and the Edge's goroutine *)
(* for every connection (handleLeasedAdapter in internal/edge/ipc.go).     *)
(*                                                                         *)
(* The client is one JavaScript thread, so an event handler is an action.  *)
(* A connection has a lease of the same number.  The core is what this     *)
(* adapter can see of it: its leases and its sessions' presences.          *)
(***************************************************************************)
EXTENDS Integers, Sequences, FiniteSets

CONSTANTS
  Sessions,
  States, Terminal,    \* reported states; those Acknowledge and retention remove
  MaxConns, MaxReports, MaxFaults,   \* bounds
  None                 \* an absent report, presence or lease

Conns  == 1..MaxConns
NoConn == 0            \* undefined, of this.socket and this.leaseId

ASSUME AdapterAssumption ==
  /\ Terminal \subseteq States /\ None \notin States /\ None \notin Nat
  /\ None \notin [state : States, lease : Conns]
  /\ MaxConns \in Nat /\ MaxReports \in Nat /\ MaxFaults \in Nat

VARIABLES
  absolute,    \* what the adapter wants shown of every session, or None
  socket,      \* this.socket
  leaseId,     \* this.leaseId
  pendingAck,  \* whether this.pendingAck is set
  connecting,  \* this.connecting: "no", "dialing", or "greeted" (hello is sent)
  timers,      \* the ack's and the reconnect timer: both of 5 s, so the first
               \* one set is the first to fire
  producerSeq, \* this.producerSeq
  stopped,     \* the extension has shut down
  opened,      \* connections so far
  closed,      \* connections whose close the client has seen or made
  toEdge, toClient,   \* frames under way
  handler,     \* the Edge's goroutine: "none", "hello", "serving", "returned"
  deferred,    \* what it has left to do when it returns
  up,          \* whether the Edge runs
  lease,       \* the last sequence number of every lease, or None
  presence,    \* of every session: its state and lease, or None
  reports, faults,    \* how much has happened
  abandoned,   \* history: an open connection was dropped, since the last clean ack
  missed       \* history: during the last handshake the reconnect timer fired, or
               \* the connection ended while there was nothing to set it for

client == <<absolute, socket, leaseId, pendingAck, connecting, timers, producerSeq,
            stopped>>
wire   == <<opened, closed, toEdge, toClient>>
edge   == <<handler, deferred, up, lease, presence>>
history == <<abandoned, missed>>
vars   == <<client, wire, edge, reports, faults, history>>

-----------------------------------------------------------------------------
(* The client *)

\* send: what is written to a connection the Edge has closed is lost.
Send(c, frame) ==
  toEdge' = IF c = NoConn THEN toEdge
            ELSE IF handler[c] = "returned" /\ deferred[c] = <<>> THEN toEdge
            ELSE [toEdge EXCEPT ![c] = Append(@, frame)]

ReportFrame(l, states, ends) ==
  [type |-> "report", lease |-> l, seq |-> producerSeq + 1, states |-> states,
   ends |-> ends]

NoStates == [s \in Sessions |-> None]

\* sendReport
SendReport(c, l, states, ends) ==
  /\ producerSeq' = producerSeq + 1
  /\ Send(c, ReportFrame(l, states, ends))

\* connect()
Connect == connecting' = IF connecting = "no" THEN "dialing" ELSE connecting

\* report(): a fresh connection resends the absolute state anyway.
Report(s, st) ==
  /\ ~stopped /\ reports < MaxReports
  /\ reports' = reports + 1
  /\ absolute' = [absolute EXCEPT ![s] = st]
  /\ IF socket # NoConn /\ leaseId # NoConn
     THEN /\ SendReport(socket, leaseId, [NoStates EXCEPT ![s] = st], {})
          /\ UNCHANGED connecting
     ELSE Connect /\ UNCHANGED <<producerSeq, toEdge>>
  /\ UNCHANGED <<socket, leaseId, pendingAck, timers, stopped, opened, closed,
                 toClient, edge, faults, history>>

\* session_start: the extension connects before it has anything to report.
SessionStart ==
  /\ ~stopped /\ reports < MaxReports
  /\ socket = NoConn \/ leaseId = NoConn
  /\ reports' = reports + 1
  /\ Connect
  /\ UNCHANGED <<absolute, socket, leaseId, pendingAck, timers, producerSeq, stopped,
                 wire, edge, faults, history>>

\* Mutant: the next connection reports the session again.
EndButKeep(s) ==
  /\ IF leaseId = NoConn THEN UNCHANGED <<producerSeq, toEdge>>
     ELSE SendReport(socket, leaseId, NoStates, {s})
  /\ UNCHANGED absolute

\* end()
End(s) ==
  /\ absolute' = [absolute EXCEPT ![s] = None]
  /\ IF leaseId = NoConn THEN UNCHANGED <<producerSeq, toEdge>>
     ELSE SendReport(socket, leaseId, NoStates, {s})

EndSession(s) ==
  /\ ~stopped /\ reports < MaxReports
  /\ reports' = reports + 1
  /\ End(s)
  /\ UNCHANGED <<socket, leaseId, pendingAck, connecting, timers, stopped, opened,
                 closed, toClient, edge, faults, history>>

\* session_shutdown: end() and close().  A dial under way is not cancelled.
Shutdown(s) ==
  /\ ~stopped
  /\ stopped' = TRUE
  /\ absolute' = NoStates
  /\ IF leaseId = NoConn THEN UNCHANGED <<producerSeq, toEdge>>
     ELSE SendReport(socket, leaseId, NoStates, {s})
  /\ timers' = SelectSeq(timers, LAMBDA t : t = "ack")
  /\ closed' = closed \cup ({socket} \ {NoConn})
  /\ socket' = NoConn /\ leaseId' = NoConn
  /\ UNCHANGED <<pendingAck, connecting, opened, toClient, edge, reports, faults,
                 history>>

\* Whether the Edge has closed a connection.
Hung(c) == handler[c] = "returned"
           /\ "close" \notin {deferred[c][i] : i \in DOMAIN deferred[c]}

\* Connections neither end has closed.
Open == {c \in 1..opened \ closed : ~Hung(c)}

\* The socket connects: hello goes out, and the ack's timer starts.
Connected ==
  /\ connecting = "dialing" /\ up /\ opened < MaxConns
  /\ opened' = opened + 1
  /\ connecting' = "greeted"
  /\ socket' = opened + 1
  /\ pendingAck' = TRUE
  /\ timers' = Append(timers, "ack")
  /\ toEdge' = [toEdge EXCEPT ![opened + 1] = <<[type |-> "hello"]>>]
  /\ handler' = [handler EXCEPT ![opened + 1] = "hello"]
  /\ abandoned' = (abandoned \/ socket \in Open)
  /\ missed' = FALSE
  /\ UNCHANGED <<absolute, leaseId, producerSeq, stopped, closed, toClient,
                 deferred,
                 up, lease, presence, reports, faults>>

\* Mutant: a connection that is lost is not dialled again.
WithReconnectNever(ts) == ts

\* handleDrop's timer.
WithReconnect(ts) ==
  IF absolute = NoStates \/ "reconnect" \in {ts[i] : i \in DOMAIN ts} THEN ts
  ELSE Append(ts, "reconnect")

\* The socket cannot connect: its error rejects the dial.
DialFails ==
  /\ connecting = "dialing" /\ ~up
  /\ connecting' = "no"
  /\ timers' = WithReconnect(timers)
  /\ UNCHANGED <<absolute, socket, leaseId, pendingAck, producerSeq, stopped, wire,
                 edge, reports, faults, history>>

\* Mutant: only the current report survives a reconnect.
ResendNothing(l) == UNCHANGED <<producerSeq, toEdge>>

\* resendAbsolute, on whichever connection is the current one.
ResendAbsolute(l) ==
  IF absolute = NoStates THEN UNCHANGED <<producerSeq, toEdge>>
  ELSE SendReport(socket, l, absolute, {})

\* onData: the first frame of any connection is taken for the awaited ack.
OnAck(c) ==
  /\ c \in 1..opened \ closed /\ toClient[c] # <<>>
  /\ toClient' = [toClient EXCEPT ![c] = Tail(@)]
  /\ IF pendingAck
     THEN /\ pendingAck' = FALSE
          /\ leaseId' = Head(toClient[c])
          /\ connecting' = IF connecting = "greeted" THEN "no" ELSE connecting
          /\ timers' = SelectSeq(timers, LAMBDA t : t # "ack")
          /\ ResendAbsolute(Head(toClient[c]))
          /\ abandoned' = (abandoned /\ ~(Open \subseteq {socket}))
     ELSE UNCHANGED <<pendingAck, leaseId, connecting, timers, producerSeq, toEdge,
                      abandoned>>
  /\ UNCHANGED <<absolute, socket, stopped, opened, closed, edge, reports, faults,
                 missed>>

\* A heartbeat every half of the lease; by then the last frame has been read.
Heartbeat ==
  /\ leaseId # NoConn /\ socket # NoConn
  /\ toEdge[socket] = <<>>
  /\ Send(socket, [type |-> "heartbeat", lease |-> leaseId])
  /\ UNCHANGED <<client, opened, closed, toClient, edge, reports, faults, history>>

\* Mutant: a close that comes late is taken for the current connection's.
HandleDropAny(c) ==
  /\ socket' = NoConn /\ leaseId' = NoConn
  /\ timers' = WithReconnect(timers)

\* handleDrop: only the current connection's close forgets the lease.
HandleDrop(c) ==
  /\ IF socket = c THEN socket' = NoConn /\ leaseId' = NoConn
                   ELSE UNCHANGED <<socket, leaseId>>
  /\ timers' = WithReconnect(timers)

\* The close event, or the error of a write: unread frames may be lost.
OnClose(c) ==
  /\ c \in 1..opened \ closed /\ Hung(c)
  /\ closed' = closed \cup {c}
  /\ toClient' = [toClient EXCEPT ![c] = <<>>]
  /\ HandleDrop(c)
  /\ missed' = (missed \/ (connecting = "greeted" /\ absolute = NoStates))
  /\ UNCHANGED <<absolute, pendingAck, connecting, producerSeq, stopped, opened,
                 toEdge, edge, reports, faults, abandoned>>

\* The 5 s for the ack are over: the dial is rejected; pendingAck stays.  That an
\* Edge which still serves the connection is so slow is a fault.
AckTimesOut ==
  /\ timers # <<>> /\ Head(timers) = "ack"
  /\ IF socket = NoConn THEN UNCHANGED faults
     ELSE IF Hung(socket) THEN UNCHANGED faults
     ELSE faults < MaxFaults /\ faults' = faults + 1
  /\ timers' = Tail(timers)
  /\ connecting' = "no"
  /\ UNCHANGED <<absolute, socket, leaseId, pendingAck, producerSeq, stopped, wire,
                 edge, reports, history>>

\* The reconnect timer: connect() does nothing while a dial is pending.
Reconnect ==
  /\ timers # <<>> /\ Head(timers) = "reconnect"
  /\ timers' = Tail(timers)
  /\ IF socket # NoConn /\ leaseId # NoConn THEN UNCHANGED connecting ELSE Connect
  /\ missed' = (connecting = "greeted")
  /\ UNCHANGED <<absolute, socket, leaseId, pendingAck, producerSeq, stopped, wire,
                 edge, reports, faults, abandoned>>

-----------------------------------------------------------------------------
(* The Edge *)

\* What handleLeasedAdapter and handleIPCConnection deferred, in running order.
Deferred == <<"detach", "close">>

Return(c) ==
  /\ handler' = [handler EXCEPT ![c] = "returned"]
  /\ deferred' = [deferred EXCEPT ![c] = Deferred]

\* adapter_hello: Attach, and the ack.
Hello(c) ==
  /\ up /\ handler[c] = "hello" /\ toEdge[c] # <<>>
  /\ toEdge' = [toEdge EXCEPT ![c] = Tail(@)]
  /\ lease' = [lease EXCEPT ![c] = 0]
  /\ toClient' = [toClient EXCEPT ![c] = Append(@, c)]
  /\ handler' = [handler EXCEPT ![c] = "serving"]
  /\ UNCHANGED <<client, opened, closed, deferred, up, presence, reports, faults,
                 history>>

\* ApplyReports: a known session keeps the lease it was first reported under.
AfterReports(c, f) ==
  [s \in Sessions |->
     IF s \in f.ends THEN None
     ELSE IF f.states[s] = None THEN presence[s]
     ELSE IF presence[s] = None THEN [state |-> f.states[s], lease |-> c]
     ELSE [presence[s] EXCEPT !.state = f.states[s]]]

\* A frame of the connection's own, live lease, and of a new number if it reports.
Accepted(c, f) ==
  /\ f.lease = c
  /\ IF lease[c] = None THEN FALSE
     ELSE f.type = "report" => f.seq > lease[c]

\* One turn of the loop; a frame that is not accepted ends it.
Serve(c) ==
  /\ up /\ handler[c] = "serving" /\ toEdge[c] # <<>>
  /\ LET f == Head(toEdge[c]) IN
     /\ toEdge' = [toEdge EXCEPT ![c] = Tail(@)]
     /\ IF Accepted(c, f)
        THEN /\ IF f.type = "report"
                THEN /\ lease' = [lease EXCEPT ![c] = f.seq]
                     /\ presence' = AfterReports(c, f)
                ELSE UNCHANGED <<lease, presence>>
             /\ UNCHANGED <<handler, deferred>>
        ELSE Return(c) /\ UNCHANGED <<lease, presence>>
  /\ UNCHANGED <<client, opened, closed, toClient, up, reports, faults, history>>

\* The client has closed the connection, and all it wrote is read.
ReadEOF(c) ==
  /\ up /\ handler[c] = "serving" /\ c \in closed /\ toEdge[c] = <<>>
  /\ Return(c)
  /\ UNCHANGED <<client, wire, up, lease, presence, reports, faults, history>>

Without(c) ==
  [s \in Sessions |-> IF presence[s] = None THEN None
                      ELSE IF presence[s].lease = c THEN None ELSE presence[s]]

RunDeferred(c) ==
  /\ up /\ handler[c] = "returned" /\ deferred[c] # <<>>
  /\ deferred' = [deferred EXCEPT ![c] = Tail(@)]
  /\ IF Head(deferred[c]) = "detach"
     THEN /\ lease' = [lease EXCEPT ![c] = None]
          /\ presence' = Without(c)
          /\ UNCHANGED toEdge
     ELSE /\ toEdge' = [toEdge EXCEPT ![c] = <<>>]
          /\ UNCHANGED <<lease, presence>>
  /\ UNCHANGED <<client, opened, closed, toClient, handler, up, reports, faults,
                 history>>

\* maintenanceLoop finds a lease unrenewed: the client's machine slept, say.
Expire(c) ==
  /\ up /\ lease[c] # None /\ faults < MaxFaults
  /\ faults' = faults + 1
  /\ lease' = [lease EXCEPT ![c] = None]
  /\ presence' = Without(c)
  /\ UNCHANGED <<client, wire, handler, deferred, up, reports, history>>

\* A finished presence is acknowledged, or retention removes it.
Dismiss(s) ==
  /\ up /\ presence[s] # None /\ faults < MaxFaults
  /\ presence[s].state \in Terminal
  /\ faults' = faults + 1
  /\ presence' = [presence EXCEPT ![s] = None]
  /\ UNCHANGED <<client, wire, handler, deferred, up, lease, reports, history>>

\* The Edge stops: the kernel closes its sockets, and the core is forgotten.
Crash ==
  /\ up /\ faults < MaxFaults
  /\ faults' = faults + 1
  /\ up' = FALSE
  /\ handler' = [c \in Conns |-> IF handler[c] = "none" THEN "none" ELSE "returned"]
  /\ deferred' = [c \in Conns |-> <<>>]
  /\ toEdge' = [c \in Conns |-> <<>>]
  /\ lease' = [c \in Conns |-> None]
  /\ presence' = NoStates
  /\ UNCHANGED <<client, opened, closed, toClient, reports, history>>

Restart ==
  /\ ~up
  /\ up' = TRUE
  /\ UNCHANGED <<client, wire, handler, deferred, lease, presence, reports, faults,
                 history>>

-----------------------------------------------------------------------------
Init ==
  /\ absolute = NoStates
  /\ socket = NoConn /\ leaseId = NoConn /\ pendingAck = FALSE
  /\ connecting = "no" /\ timers = <<>> /\ producerSeq = 0 /\ stopped = FALSE
  /\ opened = 0 /\ closed = {}
  /\ toEdge = [c \in Conns |-> <<>>] /\ toClient = [c \in Conns |-> <<>>]
  /\ handler = [c \in Conns |-> "none"] /\ deferred = [c \in Conns |-> <<>>]
  /\ up = TRUE
  /\ lease = [c \in Conns |-> None]
  /\ presence = NoStates
  /\ reports = 0 /\ faults = 0 /\ abandoned = FALSE /\ missed = FALSE

Extension ==
  \/ SessionStart
  \/ \E s \in Sessions :
       EndSession(s) \/ Shutdown(s) \/ \E st \in States : Report(s, st)

Events == Connected \/ DialFails \/ Heartbeat \/ AckTimesOut \/ Reconnect

Faults == Crash \/ (\E c \in Conns : Expire(c)) \/ (\E s \in Sessions : Dismiss(s))

Next ==
  \/ Extension
  \/ Events
  \/ \E c \in Conns : OnAck(c) \/ OnClose(c)
  \/ \E c \in Conns : Hello(c) \/ Serve(c) \/ ReadEOF(c) \/ RunDeferred(c)
  \/ Faults
  \/ Restart

\* Node runs its event handlers and timers, Go its goroutines, and the Edge is
\* started again.  Nothing has to be reported, and no fault has to happen.
Fairness ==
  /\ WF_vars(Connected) /\ WF_vars(DialFails) /\ WF_vars(Heartbeat)
  /\ WF_vars(AckTimesOut) /\ WF_vars(Reconnect) /\ WF_vars(Restart)
  /\ \A c \in Conns :
       /\ WF_vars(OnAck(c)) /\ WF_vars(OnClose(c))
       /\ WF_vars(Hello(c)) /\ WF_vars(Serve(c))
       /\ WF_vars(ReadEOF(c)) /\ WF_vars(RunDeferred(c))

Spec == Init /\ [][Next]_vars /\ Fairness

-----------------------------------------------------------------------------
(* Properties *)

\* The properties except a client that has dialled again after an ack took 5 s, and
\* so has dropped an open connection without closing it.  It may have reported on
\* it meanwhile; nothing renews that lease, and when it ends, its presences go
\* although the client reports them elsewhere.

\* While the client holds the lease of its connection, its presences belong to
\* that lease, so each of them ends when the connection does: none is updated
\* under an older lease whose end would take it away (Detach before Close,
\* handleDrop, ApplyReports).
CurrentLeaseOwns ==
  socket # NoConn /\ leaseId = socket /\ ~abandoned /\ ~stopped =>
    \A s \in Sessions : presence[s] # None => presence[s].lease = leaseId

\* What the Edge shows of a session is what the adapter wants shown; a finished
\* presence may have been dismissed.
Agrees(s) ==
  IF presence[s] = None THEN absolute[s] \in Terminal \cup {None}
  ELSE presence[s].state = absolute[s]

\* With a live lease and nothing under way the Edge shows the adapter's absolute
\* state, however the connection came about and whatever ended meanwhile: a
\* report or an end made while dialling is not lost.
InStep ==
  socket # NoConn /\ leaseId = socket /\ ~abandoned /\ ~stopped =>
    (lease[socket] # None /\ toEdge[socket] = <<>> /\ handler[socket] = "serving"
       => \A s \in Sessions : Agrees(s))

\* The client waits for nothing: no connection, no dial and no timer.  A reconnect
\* timer that was set before a handshake and fires during it does nothing, and
\* keeps the close of that connection from setting another.  A connection that
\* ends before anything was reported sets none, and a report made before the
\* handshake's ack is given up waits for that handshake.
Stranded ==
  missed /\ socket = NoConn /\ connecting = "no" /\ timers = <<>>

\* Whatever crashes, restarts, expires or is slow, in the end the Edge shows the
\* adapter's absolute state, unless the client has dropped a connection; or it
\* shows nothing, and the client is stranded until the next report
\* (resendAbsolute, handleDrop).
Converges ==
  <>[](~abandoned => IF Stranded THEN presence = NoStates
                     ELSE \A s \in Sessions : Agrees(s))
=============================================================================
