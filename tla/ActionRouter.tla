---------------------------- MODULE ActionRouter -----------------------------
(***************************************************************************)
(* Device actions at the Edge: Router.Dispatch (internal/edge/router.go),  *)
(* dismissals (server.go, upstream.go) and the leased adapter session that *)
(* performs a focus (ipc.go).                                              *)
(*                                                                         *)
(* A connection's goroutine handles one action at a time.  It takes and    *)
(* releases the locks of the router and of the core several times on the   *)
(* way, so each stretch under one lock is an action here.  The core is cut *)
(* down to what the handlers read of it; PresenceCore has the whole.       *)
(***************************************************************************)
EXTENDS Naturals, Sequences, FiniteSets

CONSTANTS
  TaskIDs, NoID,    \* NoID is any string that is not a canonical UUID
  ActionIDs,
  Requests,         \* for each action ID, the capabilities and tasks it may name
  Feeds, Relay,     \* connections of devices, and the one to the Home
  States,           \* what reports say of a task
  Sessions, Local,  \* connections of leased adapters; the Codex focus handler
  MaxRemembered,    \* maxRememberedActions
  MaxRevision, MaxGeneration, MaxFrames,   \* bounds
  NoTask, NoFrame, NoHandler

Conns     == Feeds \cup {Relay}
Harnesses == {"codex", "leased"}
Dismissals == {"acknowledge", "snooze"}
Capabilities == {"focus", "other"} \cup Dismissals
Final     == {"ok", "stale", "unsupported", "failed"}

\* A feed action as its sender wrote it.  The frame has no generation: that is
\* kept here only to tell what the sender had seen.
Frame == [cap : Capabilities, task : TaskIDs \cup {NoID}, seen : Nat,
          generation : Nat]

Task == [state : States, snoozed : BOOLEAN,
         focus : BOOLEAN, owner : {Local} \cup Sessions]

Steps == {"idle", "arrived", "check", "find", "resolve", "recheck", "lookup",
          "invoke", "waiting", "finish", "dismiss", "settle"}

Handler ==
  [at : Steps, action : ActionIDs, frame : Frame \cup {NoFrame},
   status : Final \cup {""}, adapter : Harnesses,
   via : {Local, NoHandler} \cup Sessions, answer : {"", "ok", "rejected"},
   fresh : BOOLEAN]

ASSUME RouterAssumption ==
  /\ Requests \in
       [ActionIDs -> SUBSET [cap : Capabilities, task : TaskIDs \cup {NoID}]]
  /\ States \subseteq {"idle", "running", "needs_input", "ready", "blocked"}
  /\ ActionIDs # {} /\ NoID \notin TaskIDs /\ Relay \notin Feeds /\ Local \notin Sessions
  /\ MaxRemembered \in Nat \ {0} /\ MaxFrames \in Nat
  /\ MaxRevision \in Nat /\ MaxGeneration \in Nat \ {0}
  /\ NoTask \notin Task /\ NoFrame \notin Frame
  /\ NoHandler \notin {Local} \cup Sessions

VARIABLES
  tasks, revision, generation,   \* the core
  minted,     \* Task Presence IDs handed out
  session,    \* of each leased adapter connection: "new", "open", "gone"
  handlers,   \* r.handlers for the focus capability
  results,    \* r.results; "" is an absent key
  order,      \* r.resultID
  h,          \* the goroutine of each connection
  asked,      \* action requests on their way to each adapter
  answers,    \* action results on their way back
  frames,     \* what each action ID was sent with
  sent,       \* frames sent so far
  performed,  \* history: how often an adapter carried out an action
  forgotten   \* history: how often an action ID fell out of order

core    == <<tasks, revision, generation, minted>>
router  == <<handlers, results, order, forgotten>>
adapters == <<session, asked, answers, performed>>
clients == <<frames, sent>>
vars == <<core, router, adapters, clients, h>>

Live == {t \in TaskIDs : tasks[t] # NoTask}

Harness(owner) == IF owner = Local THEN "codex" ELSE "leased"

Idle(a) ==
  [at |-> "idle", action |-> a, frame |-> NoFrame, status |-> "",
   adapter |-> "codex", via |-> NoHandler, answer |-> "", fresh |-> FALSE]

Resting == Idle(CHOOSE a \in ActionIDs : TRUE)
AllIdle == [c \in Conns |-> Resting]

Init ==
  /\ tasks = [t \in TaskIDs |-> NoTask] /\ revision = 0 /\ generation = 1
  /\ minted = {}
  /\ session = [s \in Sessions |-> "new"]
  /\ handlers = [codex |-> Local, leased |-> NoHandler]
  /\ results = [a \in ActionIDs |-> ""] /\ order = <<>>
  /\ h = AllIdle
  /\ asked = [s \in Sessions |-> <<>>] /\ answers = [s \in Sessions |-> <<>>]
  /\ frames = [a \in ActionIDs |-> NoFrame] /\ sent = 0
  /\ performed = [a \in ActionIDs |-> 0] /\ forgotten = [a \in ActionIDs |-> 0]

-----------------------------------------------------------------------------
(* What others do to the core. *)

\* The bound is on what reports do, so that it never stops a handler.
CanBump == revision < MaxRevision
Bump    == revision' = revision + 1

Owners == {Local} \cup {s \in Sessions : session[s] = "open"}

\* Mutant: an ID that an earlier process used is handed out again.
AppearReusing(t) ==
  /\ t \notin Live /\ CanBump /\ Bump
  /\ \E s \in States, f \in BOOLEAN, o \in Owners :
       tasks' = [tasks EXCEPT ![t] =
                   [state |-> s, snoozed |-> FALSE, focus |-> f, owner |-> o]]
  /\ minted' = minted \cup {t}
  /\ UNCHANGED <<generation, router, adapters, clients, h>>

\* A session is reported for the first time, under a fresh ID.
Appear(t) ==
  /\ t \notin minted /\ CanBump /\ Bump
  /\ \E s \in States, f \in BOOLEAN, o \in Owners :
       tasks' = [tasks EXCEPT ![t] =
                   [state |-> s, snoozed |-> FALSE, focus |-> f, owner |-> o]]
  /\ minted' = minted \cup {t}
  /\ UNCHANGED <<generation, router, adapters, clients, h>>

\* A report changes its state.
Change(t) ==
  /\ t \in Live /\ CanBump /\ Bump
  /\ \E s \in States \ {tasks[t].state} :
       tasks' = [tasks EXCEPT ![t].state = s, ![t].snoozed = FALSE]
  /\ UNCHANGED <<generation, minted, router, adapters, clients, h>>

-----------------------------------------------------------------------------
(* Leased adapter sessions: handleLeasedAdapter. *)

Open(s) ==
  /\ session[s] = "new"
  /\ session' = [session EXCEPT ![s] = "open"]
  /\ handlers' = [handlers EXCEPT !.leased = s]
  /\ UNCHANGED <<core, results, order, forgotten, asked, answers, performed,
                 clients, h>>

\* The read loop ends: the deferred calls clear the handler, whoever set it, and
\* detach the lease with all its tasks.
Close(s) ==
  /\ session[s] = "open"
  /\ session' = [session EXCEPT ![s] = "gone"]
  /\ handlers' = [handlers EXCEPT !.leased = NoHandler]
  /\ LET owned == {t \in Live : tasks[t].owner = s}
     IN /\ tasks' = [t \in TaskIDs |-> IF t \in owned THEN NoTask ELSE tasks[t]]
        /\ IF owned = {} THEN UNCHANGED revision ELSE Bump
  /\ answers' = [answers EXCEPT ![s] = <<>>]
  /\ UNCHANGED <<generation, minted, results, order, forgotten, asked, performed,
                 clients, h>>

\* The adapter process carries out a request, or declines it, and answers.
Perform(s) ==
  /\ asked[s] # <<>>
  /\ asked' = [asked EXCEPT ![s] = Tail(@)]
  /\ \E status \in {"ok", "rejected"} :
       /\ answers' = IF session[s] = "open"
            THEN [answers EXCEPT ![s] = Append(@, <<Head(asked[s]), status>>)]
            ELSE answers
       /\ performed' = IF status = "ok"
                       THEN [performed EXCEPT ![Head(asked[s])] = @ + 1]
                       ELSE performed
  /\ UNCHANGED <<core, session, router, clients, h>>

\* The dispatches of a that wait on s: its entry in session.pending.
Waiting(s, a) ==
  {c \in Conns : h[c].at = "waiting" /\ h[c].via = s /\ h[c].action = a}

\* deliver: to the channel of the dispatch that waits, if one still does and its
\* buffer of one is empty.
DeliverAnswer(s) ==
  /\ session[s] = "open" /\ answers[s] # <<>>
  /\ answers' = [answers EXCEPT ![s] = Tail(@)]
  /\ LET a == Head(answers[s])[1]
     IN h' = [c \in Conns |->
          IF c \in Waiting(s, a) /\ h[c].answer = ""
          THEN [h[c] EXCEPT !.answer = Head(answers[s])[2]] ELSE h[c]]
  /\ UNCHANGED <<core, session, asked, performed, router, clients>>

-----------------------------------------------------------------------------
(* Arrival of an action. *)

\* A user acts on what the feed shows now; the frame may be on its way for long.
Compose(a) ==
  /\ frames[a] = NoFrame
  /\ \E r \in Requests[a] :
       /\ r.task \in Live \cup {NoID}
       /\ frames' = [frames EXCEPT ![a] = [cap |-> r.cap, task |-> r.task,
                                seen |-> revision, generation |-> generation]]
  /\ UNCHANGED <<core, router, adapters, sent, h>>

\* It arrives: for the first time, or as a retry on this connection or another.
Arrive(c, a) ==
  /\ h[c].at = "idle" /\ frames[a] # NoFrame
  /\ sent < MaxFrames /\ sent' = sent + 1
  /\ h' = [h EXCEPT ![c] = [Idle(a) EXCEPT !.at = "arrived", !.frame = frames[a],
             !.fresh = frames[a].seen = revision /\ frames[a].generation = generation]]
  /\ UNCHANGED <<core, router, adapters, frames>>

At(c, step) == h[c].at = step
IsDismissal(c) == h[c].frame.cap \in Dismissals

Goto(c, step) == h' = [h EXCEPT ![c].at = step]

\* The action is decided.  Dispatch remembers its result first.
Decide(c, status) ==
  h' = [h EXCEPT ![c].status = status, ![c].adapter = "codex",
                 ![c].via = NoHandler, ![c].answer = "",
                 ![c].at = IF IsDismissal(c) THEN "settle" ELSE "finish"]

ReadsOnly == UNCHANGED <<core, router, adapters, clients>>

-----------------------------------------------------------------------------
(* Router.Dispatch *)

\* Malformed: answered at once and not remembered.
Refuse(c) ==
  /\ At(c, "arrived") /\ ~IsDismissal(c) /\ h[c].frame.task = NoID
  /\ h' = [h EXCEPT ![c].status = "failed", ![c].at = "settle"]
  /\ ReadsOnly

Remembered(a) == results[a] # ""

\* A retry: answered from memory, with "failed" while the first is under way.
Recall(c) ==
  /\ At(c, "arrived") /\ ~IsDismissal(c) /\ h[c].frame.task # NoID
  /\ Remembered(h[c].action)
  /\ h' = [h EXCEPT ![c].status = IF results[h[c].action] = "pending"
                                  THEN "failed" ELSE results[h[c].action],
                    ![c].at = "settle"]
  /\ ReadsOnly

Full(ids) == Len(ids) > MaxRemembered

\* Mutant: only results are remembered, nothing is reserved.
ReserveNothing(c) ==
  /\ At(c, "arrived") /\ ~IsDismissal(c) /\ h[c].frame.task # NoID
  /\ ~Remembered(h[c].action)
  /\ Goto(c, "check")
  /\ UNCHANGED <<core, router, adapters, clients>>

\* The action ID is reserved; the oldest one is forgotten beyond the bound.
Reserve(c) ==
  /\ At(c, "arrived") /\ ~IsDismissal(c) /\ h[c].frame.task # NoID
  /\ ~Remembered(h[c].action)
  /\ LET a    == h[c].action
         next == Append(order, a)
         full == Full(next)
         old  == Head(next)
         kept == [results EXCEPT ![a] = "pending"]
     IN /\ order' = IF full THEN Tail(next) ELSE next
        /\ results' = IF full THEN [kept EXCEPT ![old] = ""] ELSE kept
        /\ forgotten' = IF full THEN [forgotten EXCEPT ![old] = @ + 1] ELSE forgotten
  /\ Goto(c, "check")
  /\ UNCHANGED <<core, handlers, adapters, clients>>

\* Both ways check the revision, then look for the task; without its lock held
\* in between, and without the generation.
CheckRevision(c) ==
  /\ At(c, "check") \/ (At(c, "arrived") /\ IsDismissal(c))
  /\ IF h[c].frame.seen # revision THEN Decide(c, "stale") ELSE Goto(c, "find")
  /\ ReadsOnly

CheckTask(c) ==
  /\ At(c, "find")
  /\ IF h[c].frame.task \notin Live THEN Decide(c, "stale")
     ELSE IF IsDismissal(c) THEN Goto(c, "dismiss")
     ELSE IF h[c].frame.cap # "focus" THEN Decide(c, "unsupported")
     ELSE Goto(c, "resolve")
  /\ ReadsOnly

Resolve(c) ==
  /\ At(c, "resolve")
  /\ LET t == h[c].frame.task
     IN IF t \in Live /\ tasks[t].focus
        THEN h' = [h EXCEPT ![c].adapter = Harness(tasks[t].owner), ![c].at = "lookup"]
        ELSE Goto(c, "recheck")
  /\ ReadsOnly

Recheck(c) ==
  /\ At(c, "recheck")
  /\ Decide(c, IF h[c].frame.task \in Live THEN "unsupported" ELSE "stale")
  /\ ReadsOnly

LookUp(c) ==
  /\ At(c, "lookup")
  /\ IF handlers[h[c].adapter] = NoHandler THEN Decide(c, "failed")
     ELSE h' = [h EXCEPT ![c].via = handlers[h[c].adapter], ![c].at = "invoke"]
  /\ ReadsOnly

\* Codex's handler opens the thread on this machine, or fails.
FocusLocally(c) ==
  /\ At(c, "invoke") /\ h[c].via = Local
  /\ \/ /\ performed' = [performed EXCEPT ![h[c].action] = @ + 1]
        /\ Decide(c, "ok")
     \/ Decide(c, "failed") /\ UNCHANGED performed
  /\ UNCHANGED <<core, session, asked, answers, router, clients>>

\* leasedAdapterSession.dispatch: a duplicate in flight or a failing write ends
\* it at once, otherwise the request is on its way.
AskAdapter(c) ==
  /\ At(c, "invoke") /\ h[c].via \in Sessions
  /\ LET s == h[c].via
     IN IF Waiting(s, h[c].action) # {} \/ session[s] # "open"
        THEN Decide(c, "failed") /\ UNCHANGED asked
        ELSE /\ asked' = [asked EXCEPT ![s] = Append(@, h[c].action)]
             /\ h' = [h EXCEPT ![c].answer = "", ![c].at = "waiting"]
  /\ UNCHANGED <<core, session, answers, performed, router, clients>>

TakeAnswer(c) ==
  /\ At(c, "waiting") /\ h[c].answer # ""
  /\ Decide(c, IF h[c].answer = "ok" THEN "ok" ELSE "failed")
  /\ ReadsOnly

\* Mutants: an adapter that says nothing is taken to have done it; or is waited
\* for as long as it takes.
GiveUpOptimistic(c) ==
  /\ At(c, "waiting")
  /\ Decide(c, "ok")
  /\ ReadsOnly

GiveUpIfGone(c) ==
  /\ At(c, "waiting") /\ h[c].answer # ""
  /\ Decide(c, "failed")
  /\ ReadsOnly

\* The five-second timer, or the end of the connection's context.
GiveUp(c) ==
  /\ At(c, "waiting")
  /\ Decide(c, "failed")
  /\ ReadsOnly

\* finish: the first final result of an action stands.  An action forgotten in
\* the meantime is remembered again.
Finish(c) ==
  /\ At(c, "finish")
  /\ LET known == results[h[c].action]
     IN IF known \in Final
        THEN /\ h' = [h EXCEPT ![c].status = known, ![c].at = "settle"]
             /\ UNCHANGED results
        ELSE /\ results' = [results EXCEPT ![h[c].action] = h[c].status]
             /\ Goto(c, "settle")
  /\ UNCHANGED <<core, handlers, order, forgotten, adapters, clients>>

-----------------------------------------------------------------------------
(* Dismissal and the end of an action *)

Terminal(t) == t \in Live /\ tasks[t].state \in {"ready", "blocked"}

Remove(t) == tasks' = [tasks EXCEPT ![t] = NoTask] /\ Bump

\* Core.Acknowledge or Core.Snooze, whatever became of the task since the check.
Dismiss(c) ==
  /\ At(c, "dismiss")
  /\ LET t == h[c].frame.task
         acknowledges == h[c].frame.cap = "acknowledge" /\ Terminal(t)
         snoozes == /\ h[c].frame.cap = "snooze" /\ t \in Live
                    /\ tasks[t].state = "needs_input"
     IN /\ IF acknowledges THEN Remove(t)
           ELSE IF snoozes /\ ~tasks[t].snoozed
           THEN tasks' = [tasks EXCEPT ![t].snoozed = TRUE] /\ Bump
           ELSE UNCHANGED <<tasks, revision>>
        /\ Decide(c, IF acknowledges \/ snoozes THEN "ok" ELSE "failed")
  /\ UNCHANGED <<generation, minted, router, adapters, clients>>

\* The reply.  Success also acknowledges, if the task is terminal by now: after
\* any action in handleFeed, after a routed one in connectOnce.
Settle(c) ==
  /\ At(c, "settle")
  /\ IF /\ h[c].status = "ok" /\ Terminal(h[c].frame.task)
        /\ c = Relay => ~IsDismissal(c)
     THEN Remove(h[c].frame.task) ELSE UNCHANGED <<tasks, revision>>
  /\ h' = [h EXCEPT ![c] = Resting]
  /\ UNCHANGED <<generation, minted, router, adapters, clients>>

\* The Edge process restarts: everything but the adapters' processes and what
\* clients have written down is gone.
EdgeRestart ==
  /\ generation < MaxGeneration
  /\ generation' = generation + 1 /\ revision' = 0
  /\ tasks' = [t \in TaskIDs |-> NoTask]
  /\ handlers' = [codex |-> Local, leased |-> NoHandler]
  /\ results' = [a \in ActionIDs |-> ""] /\ order' = <<>>
  /\ h' = AllIdle
  /\ session' = [s \in Sessions |-> IF session[s] = "open" THEN "gone" ELSE session[s]]
  /\ answers' = [s \in Sessions |-> <<>>]
  /\ UNCHANGED <<minted, asked, performed, forgotten, clients>>

-----------------------------------------------------------------------------
Dispatch(c) ==
  \/ Refuse(c) \/ Recall(c) \/ Reserve(c)
  \/ CheckRevision(c) \/ CheckTask(c)
  \/ Resolve(c) \/ Recheck(c) \/ LookUp(c)
  \/ FocusLocally(c) \/ AskAdapter(c) \/ TakeAnswer(c) \/ GiveUp(c)
  \/ Finish(c)
  \/ Dismiss(c) \/ Settle(c)

Next ==
  \/ \E t \in TaskIDs : Appear(t) \/ Change(t)
  \/ \E s \in Sessions : Open(s) \/ Close(s) \/ Perform(s) \/ DeliverAnswer(s)
  \/ \E a \in ActionIDs : Compose(a)
  \/ \E c \in Conns, a \in ActionIDs : Arrive(c, a)
  \/ \E c \in Conns : Dispatch(c)
  \/ EdgeRestart

Spec == Init /\ [][Next]_vars

-----------------------------------------------------------------------------
(* Properties *)

TypeOK ==
  /\ tasks \in [TaskIDs -> Task \cup {NoTask}]
  /\ revision \in Nat /\ generation \in Nat /\ minted \subseteq TaskIDs
  /\ session \in [Sessions -> {"new", "open", "gone"}]
  /\ handlers \in [Harnesses -> {Local, NoHandler} \cup Sessions]
  /\ results \in [ActionIDs -> Final \cup {"", "pending"}]
  /\ order \in Seq(ActionIDs) /\ Len(order) <= MaxRemembered
  /\ h \in [Conns -> Handler]
  /\ asked \in [Sessions -> Seq(ActionIDs)]
  /\ answers \in [Sessions -> Seq(ActionIDs \X {"ok", "rejected"})]
  /\ frames \in [ActionIDs -> Frame \cup {NoFrame}] /\ sent \in Nat
  /\ performed \in [ActionIDs -> Nat] /\ forgotten \in [ActionIDs -> Nat]

\* docs/THREAT_MODEL.md "action IDs deduplicate (at-most-once execution)":
\* however an action is retried, on whatever connection, across timeouts, closed
\* adapters and an Edge restart, it is carried out once, and once more at most
\* for each time the bounded memory let go of its ID (Dispatch, finish).
AtMostOnce == \A a \in ActionIDs : performed[a] <= 1 + forgotten[a]

\* docs/PROTOCOL.md "acknowledges only on exact success": nobody is told "ok"
\* for a focus that no adapter has carried out, be it a duplicate, a retry, a
\* timeout or a session that closed (Dispatch, dispatch, finish).
OkMeansPerformed ==
  \A c \in Conns :
    h[c].status = "ok" /\ ~IsDismissal(c) => performed[h[c].action] > 0

\* The revision check leaves out the generation; an action sent before an Edge
\* restart still never gets past it and HasTask, because Task Presence IDs are
\* never used again.  What gets past was current when it arrived.
OldViewsNeverAct ==
  \A c \in Conns :
    h[c].at \in {"dismiss", "resolve", "recheck", "lookup", "invoke", "waiting"}
      => h[c].fresh

\* Whatever adapters, clients and reports do or leave undone, a goroutine that
\* holds an action can go on by itself; every step it takes is nearer to the
\* reply, so the connection is never blocked for good (dispatch's timer).
NeverStuck == \A c \in Conns : ~At(c, "idle") => ENABLED Dispatch(c)

\* docs/THREAT_MODEL.md "Stale/replayed actions: seenRevision must equal the
\* current revision": an action that was out of date when it arrived changes
\* nothing in the core.
StaleHasNoEffect ==
  [][\A c \in Conns : h[c].at \in {"dismiss", "settle"} /\ h'[c].at # h[c].at
       /\ tasks' # tasks /\ generation' = generation => h[c].fresh]_vars
=============================================================================
