---------------------------- MODULE CodexReducer -----------------------------
(***************************************************************************)
(* How Codex reaches the core: hooks, each on a connection and a goroutine *)
(* of its own (hook.go, Service.applyCodexHook), the poller that reads     *)
(* thread status from the App Server (appserver/client.go,                 *)
(* Service.enrichFromAppServer), and the reducer both feed (reduce.go).    *)
(*                                                                         *)
(* The reducer has a mutex of its own, numbering another and the core a    *)
(* third; codexIngestMu is held around all of them, and every stretch      *)
(* under one of the inner locks is an action.  The core is its codex lease *)
(* alone: the last sequence number and the presence of every session.      *)
(***************************************************************************)
EXTENDS Integers, Sequences, FiniteSets

CONSTANTS
  Sessions, Agents, NoAgent,
  Titles, NoTitle,   \* thread names; NoTitle is ""
  Hooks,             \* goroutines of hook connections
  Poller,            \* the goroutine that polls the App Server
  Events,            \* the hook events Codex may send
  Statuses,          \* what the App Server may say of a thread
  MaxSeen,           \* maxSeenEvents
  EntropyMayFail,    \* whether crypto/rand may return an error
  MaxInputs, MaxCalls, MaxDismissals,  \* bounds: hooks and calls, calls
  None               \* an absent reduction, presence or job

Threads == Hooks \cup {Poller}

\* A sanitized hook.  EventID is a hash of these fields, so an event is its ID.
Event ==
  [session : Sessions, turn : Nat, event : STRING, question : BOOLEAN,
   agent : Agents \cup {NoAgent}]

\* What the App Server says of a thread.
Info == [session : Sessions, title : Titles \cup {NoTitle}, status : Statuses]

Outcomes ==
  {<<"running", "working">>, <<"needs_input", "question">>,
   <<"needs_input", "permission">>, <<"needs_input", "approval">>,
   <<"ready", "completed">>, <<"blocked", "failed">>}

Reduction ==
  [is : Outcomes, agents : SUBSET Agents, title : Titles \cup {NoTitle}]

\* The codex presence of a session as the core has it.
Presence == [is : Outcomes, subagents : Nat, focus : BOOLEAN]

\* What a goroutine reports, and what one is doing: it holds codexIngestMu, or it
\* is the poller waiting for an answer or for the lock.
Report ==
  [session : Sessions, end : {FALSE}, is : Outcomes, subagents : Nat, focus : BOOLEAN]
    \cup [session : Sessions, end : {TRUE}]

Job ==
  [pc : {"reduced", "numbered", "applied"}, seq : Nat, report : Report]
    \cup [pc : {"asking"}, session : Sessions]
    \cup [pc : {"answered"}, session : Sessions, info : Info, at : Nat]

ASSUME CodexAssumption ==
  /\ \A e \in Events : e \in Event
  /\ Poller \notin Hooks /\ IsFiniteSet(Agents) /\ NoAgent \notin Agents
  /\ Statuses \subseteq {"idle", "active", "waitingOnApproval", "systemError"}
  /\ MaxSeen \in Nat \ {0}
  /\ EntropyMayFail \in BOOLEAN
  /\ MaxInputs \in Nat /\ MaxCalls \in Nat /\ MaxDismissals \in Nat
  /\ None \notin Reduction /\ None \notin Presence /\ None \notin Job

VARIABLES
  reductions,  \* r.sessions
  seen,        \* r.seen and r.seenFIFO
  codexSeq,    \* s.codexSeq
  lastSeq,     \* the lease's last sequence number
  presence,    \* the core's presence of every session
  job,         \* what every goroutine is doing, or None
  server,      \* the App Server process
  round,       \* sessions left in this round of the poll
  calls,       \* requests made so far; the last one has this ID
  asked,       \* requests the App Server has not answered
  replies,     \* answers the readLoop has not read
  sent, dismissed,
  applied      \* history: hooks and statuses in the order they were reduced

reducer == <<reductions, seen, applied>>
core    == <<lastSeq, presence, dismissed>>
poll    == <<server, round, calls, asked, replies>>
vars    == <<reducer, codexSeq, core, job, poll, sent>>

Known == {s \in Sessions : reductions[s] # None}

SeqRange(q) == {q[i] : i \in DOMAIN q}

-----------------------------------------------------------------------------
(* The reducer *)

Initial ==
  [is |-> <<"ready", "completed">>, agents |-> {}, title |-> NoTitle]

Working == <<"running", "working">>

Waits(r) == r.is[1] = "needs_input"

\* Mutants: any tool's end answers a question; a subagent that starts does too.
ReduceAnyTool(r, e) ==
  CASE e.event = "UserPromptSubmit" -> [r EXCEPT !.is = Working]
    [] e.event = "PreToolUse" ->
         IF e.question THEN [r EXCEPT !.is = <<"needs_input", "question">>] ELSE r
    [] e.event = "PermissionRequest" ->
         [r EXCEPT !.is = <<"needs_input", "permission">>]
    [] e.event = "PostToolUse" -> IF Waits(r) THEN [r EXCEPT !.is = Working] ELSE r
    [] e.event = "SubagentStart" ->
         [r EXCEPT !.agents = @ \cup ({e.agent} \ {NoAgent}),
                   !.is = IF Waits(r) THEN @ ELSE Working]
    [] e.event = "SubagentStop" -> [r EXCEPT !.agents = @ \ {e.agent}]
    [] e.event = "Stop" -> [r EXCEPT !.is = Initial.is, !.agents = {}]
    [] OTHER -> r

\* Reduce, for every event but SessionEnd.
Reduce(r, e) ==
  CASE e.event = "UserPromptSubmit" -> [r EXCEPT !.is = Working]
    [] e.event = "PreToolUse" ->
         IF e.question THEN [r EXCEPT !.is = <<"needs_input", "question">>] ELSE r
    [] e.event = "PermissionRequest" ->
         [r EXCEPT !.is = <<"needs_input", "permission">>]
    [] e.event = "PostToolUse" ->
         IF Waits(r) /\ (e.question \/ r.is[2] \in {"permission", "approval"})
         THEN [r EXCEPT !.is = Working] ELSE r
    [] e.event = "SubagentStart" ->
         [r EXCEPT !.agents = @ \cup ({e.agent} \ {NoAgent}),
                   !.is = IF Waits(r) THEN @ ELSE Working]
    [] e.event = "SubagentStop" -> [r EXCEPT !.agents = @ \ {e.agent}]
    [] e.event = "Stop" -> [r EXCEPT !.is = Initial.is, !.agents = {}]
    [] OTHER -> r

\* Enrich: idle ends work, and nothing else.
Enriched(r, info) ==
  [r EXCEPT !.title = info.title,
            !.is = CASE info.status = "systemError" -> <<"blocked", "failed">>
                     [] info.status = "waitingOnApproval" -> <<"needs_input", "approval">>
                     [] info.status = "idle" /\ r.is = Working -> Initial.is
                     [] OTHER -> @]

\* Mutant: the memory is one event too short.
RememberedShort(e) ==
  LET longer == Append(seen, e)
  IN IF Len(longer) >= MaxSeen THEN Tail(longer) ELSE longer

\* remember: the oldest ID is forgotten.
Remembered(e) ==
  LET longer == Append(seen, e)
  IN IF Len(longer) > MaxSeen THEN Tail(longer) ELSE longer

-----------------------------------------------------------------------------
(* Goroutines *)

\* Under codexIngestMu; a hook that waits for it has done nothing yet.
Holding(g) == IF job[g] = None THEN FALSE
              ELSE job[g].pc \in {"reduced", "numbered", "applied"}

\* Mutant: without codexIngestMu.
AlwaysFree == TRUE

Free == \A g \in Threads : ~Holding(g)

Reported(s, r) == [session |-> s, end |-> FALSE, is |-> r.is,
                   subagents |-> Cardinality(r.agents), focus |-> TRUE]
Ended(s)       == [session |-> s, end |-> TRUE]

\* SendHook, the hook's connection, and Reducer.Apply on a new event.  Hooks come
\* in any order: nothing but codexIngestMu orders their goroutines.
ReduceHook(g, e) ==
  /\ Free
  /\ job[g] = None /\ sent + calls < MaxInputs
  /\ sent' = sent + 1
  /\ e \notin SeqRange(seen)
  /\ seen' = Remembered(e)
  /\ applied' = Append(applied, e)
  /\ LET r == Reduce(IF e.session \in Known THEN reductions[e.session] ELSE Initial, e)
         end == e.event = "SessionEnd"
     IN /\ reductions' = [reductions EXCEPT ![e.session] = IF end THEN None ELSE r]
        /\ job' = [job EXCEPT ![g] = [pc |-> "reduced", seq |-> 0, report |->
             IF end THEN Ended(e.session) ELSE Reported(e.session, r)]]
  /\ UNCHANGED <<codexSeq, core, poll>>

\* ... and on one it has seen: the hook is over.
IgnoreHook(g, e) ==
  /\ Free
  /\ job[g] = None /\ sent + calls < MaxInputs
  /\ sent' = sent + 1
  /\ e \in SeqRange(seen)
  /\ UNCHANGED <<reducer, codexSeq, core, job, poll>>

\* Reducer.Enrich: only a known session, and only a change, is reported.
EnrichThread ==
  /\ Free
  /\ job[Poller] # None /\ job[Poller].pc = "answered"
  /\ LET info == job[Poller].info
         r == Enriched(reductions[info.session], info)
     IN IF info.session \in Known /\ r # reductions[info.session]
        THEN /\ reductions' = [reductions EXCEPT ![info.session] = r]
             /\ applied' = Append(applied, info)
             /\ job' = [job EXCEPT ![Poller] = [pc |-> "reduced", seq |-> 0,
                  report |-> [Reported(info.session, r) EXCEPT !.focus = FALSE]]]
        ELSE /\ job' = [job EXCEPT ![Poller] = None]
             /\ UNCHANGED <<reductions, applied>>
  /\ UNCHANGED <<seen, codexSeq, core, poll, sent>>

\* Under seqMu.
Number(g) ==
  /\ job[g] # None /\ job[g].pc = "reduced"
  /\ codexSeq' = codexSeq + 1
  /\ job' = [job EXCEPT ![g].pc = "numbered", ![g].seq = codexSeq + 1]
  /\ UNCHANGED <<reducer, core, poll, sent>>

\* ApplyReports(codexLease, seq, ...): an old number, or an identity that cannot
\* be made for a new presence, is an error that ends the handler.
ApplyReports(g) ==
  /\ job[g] # None /\ job[g].pc = "numbered"
  /\ LET r == job[g].report
         Upsert == [is |-> r.is, subagents |-> r.subagents,
                    focus |-> IF presence[r.session] = None THEN FALSE
                              ELSE presence[r.session].focus]
     IN \/ /\ job[g].seq > lastSeq
           /\ lastSeq' = job[g].seq
           /\ presence' = [presence EXCEPT ![r.session] = IF r.end THEN None ELSE Upsert]
           /\ job' = [job EXCEPT ![g] =
                IF r.end THEN None ELSE IF r.focus THEN [job[g] EXCEPT !.pc = "applied"]
                ELSE None]
        \/ /\ \/ job[g].seq <= lastSeq /\ UNCHANGED lastSeq
              \/ /\ EntropyMayFail /\ ~r.end /\ presence[r.session] = None
                 /\ job[g].seq > lastSeq /\ lastSeq' = job[g].seq
           /\ job' = [job EXCEPT ![g] = None]
           /\ UNCHANGED presence
  /\ UNCHANGED <<reducer, codexSeq, dismissed, poll, sent>>

\* SetCapabilities, if the presence is still there.
AdvertiseFocus(g) ==
  /\ job[g] # None /\ job[g].pc = "applied"
  /\ LET s == job[g].report.session IN
     presence' = IF presence[s] = None THEN presence
                 ELSE [presence EXCEPT ![s].focus = TRUE]
  /\ job' = [job EXCEPT ![g] = None]
  /\ UNCHANGED <<reducer, codexSeq, lastSeq, dismissed, poll, sent>>

\* The core removes a terminal presence: Acknowledge or EnforceRetention.
Dismiss(s) ==
  /\ dismissed < MaxDismissals
  /\ presence[s] # None /\ presence[s].is[1] \in {"ready", "blocked"}
  /\ dismissed' = dismissed + 1
  /\ presence' = [presence EXCEPT ![s] = None]
  /\ UNCHANGED <<reducer, codexSeq, lastSeq, job, poll, sent>>

-----------------------------------------------------------------------------
(* The poller and the App Server *)

\* Start succeeds; failed attempts are repeated every 30 seconds.
StartServer ==
  /\ server = "down"
  /\ server' = "up"
  /\ UNCHANGED <<reducer, codexSeq, core, job, round, calls, asked, replies, sent>>

\* The process ends, readLoop returns and done is closed: the waiting call fails,
\* and so does every later one.  Poll does not return, so Start is never tried
\* again.
ServerDies ==
  /\ server = "up"
  /\ server' = "dead"
  /\ asked' = {} /\ replies' = {}
  /\ job' = IF job[Poller] = None THEN job
            ELSE IF job[Poller].pc = "asking" THEN [job EXCEPT ![Poller] = None] ELSE job
  /\ UNCHANGED <<reducer, codexSeq, core, round, calls, sent>>

\* The ticker: a round asks for the sessions known as it starts.
StartRound ==
  /\ server = "up" /\ round = {} /\ job[Poller] = None /\ Known # {}
  /\ round' = Known
  /\ UNCHANGED <<reducer, codexSeq, core, job, server, calls, asked, replies, sent>>

Ask(s) ==
  /\ server = "up" /\ job[Poller] = None /\ s \in round
  /\ calls < MaxCalls /\ sent + calls < MaxInputs
  /\ round' = round \ {s}
  /\ calls' = calls + 1
  /\ asked' = asked \cup {[id |-> calls + 1, session |-> s]}
  /\ job' = [job EXCEPT ![Poller] = [pc |-> "asking", session |-> s]]
  /\ UNCHANGED <<reducer, codexSeq, core, server, replies, sent>>

\* The App Server answers in its own time and in any order; at is the number of
\* calls made by then.
Reply(q, info) ==
  /\ q \in asked /\ info.session = q.session
  /\ asked' = asked \ {q}
  /\ replies' = replies \cup {[id |-> q.id, info |-> info, at |-> calls]}
  /\ UNCHANGED <<reducer, codexSeq, core, job, server, round, calls, sent>>

\* Mutant: an answer goes to whichever call is waiting.
IsPendingAny(a) == TRUE

IsPending(a) == a.id = calls

\* readLoop gives the answer to the call that is pending under its ID, if any.
ReadReply(a) ==
  /\ a \in replies
  /\ replies' = replies \ {a}
  /\ job' = IF job[Poller] = None THEN job
            ELSE IF job[Poller].pc = "asking" /\ IsPending(a)
            THEN [job EXCEPT ![Poller] = [pc |-> "answered", session |-> job[Poller].session,
                                          info |-> a.info, at |-> a.at]]
            ELSE job
  /\ UNCHANGED <<reducer, codexSeq, core, server, round, calls, asked, sent>>

\* Four seconds without an answer, or an error instead of one.
CallFails ==
  /\ job[Poller] # None /\ job[Poller].pc = "asking"
  /\ job' = [job EXCEPT ![Poller] = None]
  /\ UNCHANGED <<reducer, codexSeq, core, poll, sent>>

-----------------------------------------------------------------------------
Init ==
  /\ reductions = [s \in Sessions |-> None]
  /\ seen = <<>> /\ applied = <<>>
  /\ codexSeq = 0 /\ lastSeq = 0
  /\ presence = [s \in Sessions |-> None]
  /\ job = [g \in Threads |-> None]
  /\ server = "down" /\ round = {} /\ calls = 0 /\ asked = {} /\ replies = {}
  /\ sent = 0 /\ dismissed = 0

Next ==
  \/ \E g \in Hooks, e \in Events : ReduceHook(g, e) \/ IgnoreHook(g, e)
  \/ EnrichThread
  \/ \E g \in Threads : Number(g) \/ ApplyReports(g) \/ AdvertiseFocus(g)
  \/ \E s \in Sessions : Dismiss(s) \/ Ask(s)
  \/ StartServer \/ ServerDies \/ StartRound
  \/ \E q \in asked, info \in Info : Reply(q, info)
  \/ \E a \in replies : ReadReply(a)
  \/ CallFails

Spec == Init /\ [][Next]_vars

-----------------------------------------------------------------------------
(* Properties *)

\* Types, and the bound of the memory.
TypeOK ==
  /\ reductions \in [Sessions -> Reduction \cup {None}]
  /\ Len(seen) <= MaxSeen /\ SeqRange(seen) \subseteq Events
  /\ codexSeq \in Nat /\ lastSeq \in 0..codexSeq
  /\ presence \in [Sessions -> Presence \cup {None}]
  /\ job \in [Threads -> Job \cup {None}]
  /\ server \in {"down", "up", "dead"}
  /\ round \subseteq Sessions /\ calls \in 0..MaxCalls
  /\ \A q \in asked \cup replies : q.id \in 1..calls
  /\ sent \in 0..MaxInputs /\ dismissed \in 0..MaxDismissals

\* Whatever hooks and answers race, the core never keeps an older view of a
\* session than the reducer has, nor one of a session the reducer has ended: no
\* report overtakes another on its way to the core (codexIngestMu).
CoreFollowsReducer ==
  Free => \A s \in Sessions : presence[s] # None =>
    /\ s \in Known
    /\ presence[s].is = reductions[s].is
    /\ presence[s].subagents = Cardinality(reductions[s].agents)

IsHook(x) == "event" \in DOMAIN x

\* A hook is reduced again only after at least MaxSeen others (Reducer.remember).
AppliedOnce ==
  \A i, j \in DOMAIN applied : i < j /\ IsHook(applied[i]) /\ applied[i] = applied[j]
    => Cardinality({k \in (i + 1)..(j - 1) : IsHook(applied[k])}) >= MaxSeen

\* An answer is taken only by the call it answers: it is of the thread that was
\* asked for and was given after the question, never left over from a call that
\* timed out (Client.call, readLoop).
AnswersAreCurrent ==
  job[Poller] # None => (job[Poller].pc = "answered" =>
    job[Poller].info.session = job[Poller].session /\ job[Poller].at = calls)

HookIs(x, event)    == IsHook(x) /\ x.event = event
StatusIs(x, status) == ~IsHook(x) /\ x.status = status

\* What the reducer applied to a session since it last ended, by place.
History(s) ==
  {i \in DOMAIN applied : /\ applied[i].session = s
                          /\ \A j \in DOMAIN applied : j >= i /\ applied[j].session = s =>
                               ~HookIs(applied[j], "SessionEnd")}

\* The input x asks for, or "".
Need(x) ==
  CASE HookIs(x, "PreToolUse") -> IF x.question THEN "question" ELSE ""
    [] HookIs(x, "PermissionRequest") -> "permission"
    [] StatusIs(x, "waitingOnApproval") -> "approval"
    [] OTHER -> ""

Concludes(x) == HookIs(x, "Stop") \/ StatusIs(x, "systemError")

Settles(x, need) ==
  \/ HookIs(x, "UserPromptSubmit") \/ Concludes(x) \/ Need(x) # ""
  \/ HookIs(x, "PostToolUse") /\ (x.question \/ need # "question")

\* The needs of s nothing has settled by place n.
OpenNeeds(s, n) ==
  {Need(applied[i]) : i \in {i \in History(s) :
     /\ i <= n /\ Need(applied[i]) # ""
     /\ \A j \in History(s) : i < j /\ j <= n => ~Settles(applied[j], Need(applied[i]))}}

StartsWork(s, i) ==
  \/ HookIs(applied[i], "UserPromptSubmit")
  \/ HookIs(applied[i], "SubagentStart") /\ OpenNeeds(s, i) = {}
  \/ HookIs(applied[i], "PostToolUse") /\ OpenNeeds(s, i - 1) # {} /\ OpenNeeds(s, i) = {}

Conclusions(s) == {i \in History(s) : Concludes(applied[i])}

Work(s) == {i \in History(s) : StartsWork(s, i) /\ \A j \in Conclusions(s) : j < i}

\* The last word of a history, read as a whole: an open need; else work that
\* began after every stop and failure and was not idle since; else the last of
\* those.
LastWord(s) ==
  LET open   == OpenNeeds(s, Len(applied))
      idle   == \E k \in History(s) :
                  StatusIs(applied[k], "idle") /\ \A i \in Work(s) : i < k
      failed == \E i \in Conclusions(s) :
                  ~IsHook(applied[i]) /\ \A j \in Conclusions(s) : j <= i
  IN IF open # {} THEN <<"needs_input", CHOOSE x \in open : TRUE>>
     ELSE IF Work(s) # {} THEN IF idle THEN Initial.is ELSE Working
     ELSE IF failed THEN <<"blocked", "failed">> ELSE Initial.is

\* The subagents started and not stopped.
Subagents(s) ==
  {a \in Agents : \E i \in History(s) :
     /\ HookIs(applied[i], "SubagentStart") /\ applied[i].agent = a
     /\ \A j \in History(s) : j > i =>
          /\ ~HookIs(applied[j], "Stop")
          /\ ~(HookIs(applied[j], "SubagentStop") /\ applied[j].agent = a)}

\* However hooks and statuses alternate, the reduction of a session is what its
\* history says as a whole (Reduce, Enrich).
ReductionIsLastWord ==
  \A s \in Known : /\ reductions[s].is = LastWord(s)
                   /\ reductions[s].agents = Subagents(s)
=============================================================================
