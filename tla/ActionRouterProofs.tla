------------------------- MODULE ActionRouterProofs -------------------------
(***************************************************************************)
(* Proofs about ActionRouter, for every number of tasks, actions,          *)
(* connections and adapters: an action that was out of date when it        *)
(* arrived never gets past the checks, nobody is told "ok" for a focus     *)
(* that was not carried out, and each action is carried out at most once   *)
(* more than its ID was forgotten.                                         *)
(***************************************************************************)
EXTENDS ActionRouter, SequenceTheorems, FunctionTheorems, FiniteSetTheorems, TLAPS

-----------------------------------------------------------------------------
(* Types *)

Results == Final \cup {"", "pending"}

Answers == ActionIDs \X {"ok", "rejected"}

Types ==
  /\ revision \in Nat /\ generation \in Nat /\ minted \subseteq TaskIDs
  /\ tasks \in [TaskIDs -> Task \cup {NoTask}]
  /\ session \in [Sessions -> {"new", "open", "gone"}]
  /\ handlers \in [Harnesses -> {Local, NoHandler} \cup Sessions]
  /\ results \in [ActionIDs -> Results]
  /\ h \in [Conns -> Handler]
  /\ asked \in [Sessions -> Seq(ActionIDs)]
  /\ answers \in [Sessions -> Seq(Answers)]
  /\ frames \in [ActionIDs -> Frame \cup {NoFrame}]
  /\ performed \in [ActionIDs -> Nat]

LEMMA HandlerFields ==
  ASSUME NEW j \in Handler
  PROVE  /\ j.at \in Steps /\ j.action \in ActionIDs /\ j.frame \in Frame \cup {NoFrame}
         /\ j.status \in Final \cup {""} /\ j.adapter \in Harnesses
         /\ j.via \in {Local, NoHandler} \cup Sessions
         /\ j.answer \in {"", "ok", "rejected"} /\ j.fresh \in BOOLEAN
  BY DEF Handler

LEMMA IdleHandler ==
  /\ \A a \in ActionIDs : Idle(a) \in Handler
  /\ Resting \in Handler /\ Resting.at = "idle" /\ Resting.status = ""
  /\ Resting.answer = ""
  BY RouterAssumption DEF RouterAssumption, Idle, Resting, Handler, Steps, Harnesses

\* At a start only the Codex handler is there.
LEMMA FirstHandlers ==
  [codex |-> Local, leased |-> NoHandler] \in
    [Harnesses -> {Local, NoHandler} \cup Sessions]
<1> DEFINE f == [codex |-> Local, leased |-> NoHandler]
<1>1. f = [x \in Harnesses |-> f[x]]
  BY DEF Harnesses
<1>2. \A x \in Harnesses : f[x] \in {Local, NoHandler} \cup Sessions
  BY DEF Harnesses
<1>. QED
  BY <1>1, <1>2

\* What Goto and Decide make of the handlers.
LEMMA GotoEffect ==
  ASSUME Types, NEW c \in Conns, NEW step \in Steps, Goto(c, step)
  PROVE  /\ h' \in [Conns -> Handler]
         /\ h'[c].at = step /\ h'[c].action = h[c].action /\ h'[c].frame = h[c].frame
         /\ h'[c].status = h[c].status /\ h'[c].via = h[c].via
         /\ h'[c].answer = h[c].answer /\ h'[c].fresh = h[c].fresh
         /\ \A d \in Conns : d # c => h'[d] = h[d]
<1> DEFINE j == [h[c] EXCEPT !.at = step]
<1>1. h[c] \in Handler
  BY DEF Types
<1>2. h' = [h EXCEPT ![c] = j]
  BY DEF Goto, Types
<1>3. j \in Handler
  BY <1>1 DEF Handler
<1>4. j.at = step /\ j.action = h[c].action /\ j.frame = h[c].frame
  BY <1>1 DEF Handler
<1>5. /\ j.status = h[c].status /\ j.via = h[c].via
      /\ j.answer = h[c].answer /\ j.fresh = h[c].fresh
  BY <1>1 DEF Handler
<1> HIDE DEF j
<1>6. /\ h' \in [Conns -> Handler] /\ h'[c] = j
      /\ \A d \in Conns : d # c => h'[d] = h[d]
  BY <1>2, <1>3 DEF Types
<1>. QED
  BY <1>4, <1>5, <1>6

LEMMA DecideEffect ==
  ASSUME Types, NEW c \in Conns, NEW status \in Final, Decide(c, status)
  PROVE  /\ h' \in [Conns -> Handler]
         /\ h'[c].at = (IF IsDismissal(c) THEN "settle" ELSE "finish")
         /\ h'[c].action = h[c].action /\ h'[c].frame = h[c].frame
         /\ h'[c].status = status /\ h'[c].answer = "" /\ h'[c].fresh = h[c].fresh
         /\ \A d \in Conns : d # c => h'[d] = h[d]
<1> DEFINE step == IF IsDismissal(c) THEN "settle" ELSE "finish"
           j == [h[c] EXCEPT !.status = status, !.adapter = "codex",
                             !.via = NoHandler, !.answer = "", !.at = step]
<1>1. h[c] \in Handler /\ step \in Steps
  BY DEF Types, Steps
<1>2. h' = [h EXCEPT ![c] = j]
  BY DEF Decide, Types
<1> HIDE DEF step
<1>3. /\ j \in Handler
      /\ j.at = step /\ j.action = h[c].action /\ j.frame = h[c].frame
      /\ j.status = status /\ j.answer = "" /\ j.fresh = h[c].fresh
  BY <1>1 DEF Handler, Harnesses
<1> HIDE DEF j
<1>4. /\ h' \in [Conns -> Handler] /\ h'[c] = j
      /\ \A d \in Conns : d # c => h'[d] = h[d]
  BY <1>2, <1>3 DEF Types
<1>. QED
  BY <1>3, <1>4 DEF step

LEMMA RemoveTypes ==
  ASSUME Types, NEW t, Remove(t)
  PROVE  tasks' \in [TaskIDs -> Task \cup {NoTask}] /\ revision' \in Nat
<1>1. tasks' = [tasks EXCEPT ![t] = NoTask] /\ revision' = revision + 1
  BY DEF Remove, Bump
<1>2. tasks \in [TaskIDs -> Task \cup {NoTask}] /\ revision \in Nat
  BY DEF Types
<1>3. tasks' \in [TaskIDs -> Task \cup {NoTask}]
  <2> DEFINE Values == Task \cup {NoTask}
  <2>1. NoTask \in Values /\ tasks \in [TaskIDs -> Values]
    BY <1>2
  <2> HIDE DEF Values
  <2>2. tasks' \in [TaskIDs -> Values]
    BY <1>1, <2>1
  <2>. QED
    BY <2>2 DEF Values
<1>4. revision' \in Nat
  BY <1>1, <1>2
<1>. QED
  BY <1>3, <1>4

\* A goroutine's step.
LEMMA DispatchTypes == ASSUME Types, NEW c \in Conns, Dispatch(c) PROVE Types'
<1>0. /\ h[c] \in Handler /\ h[c].action \in ActionIDs
      /\ "stale" \in Final /\ "failed" \in Final /\ "ok" \in Final /\ "unsupported" \in Final
      /\ \A step \in {"find", "check", "dismiss", "resolve", "recheck", "settle", "finish",
                      "waiting", "lookup", "invoke"} : step \in Steps
  BY HandlerFields DEF Types, Final, Steps
<1>1. ASSUME h' \in [Conns -> Handler], ReadsOnly PROVE Types'
  BY <1>1 DEF ReadsOnly, Types, core, router, adapters, clients
<1>2. ASSUME Refuse(c) PROVE Types'
  <2>1. [h[c] EXCEPT !.status = "failed", !.at = "settle"] \in Handler
    BY <1>0 DEF Handler
  <2>2. h' = [h EXCEPT ![c] = [h[c] EXCEPT !.status = "failed", !.at = "settle"]]
    BY <1>2 DEF Refuse, Types
  <2>. QED
    BY <1>1, <1>2, <2>1, <2>2 DEF Refuse, Types
<1>3. ASSUME Recall(c) PROVE Types'
  <2> DEFINE status == IF results[h[c].action] = "pending" THEN "failed"
                       ELSE results[h[c].action]
  <2>1. status \in Final
    BY <1>0, <1>3 DEF Recall, Remembered, Types, Results
  <2>2. h' = [h EXCEPT ![c] = [h[c] EXCEPT !.status = status, !.at = "settle"]]
    BY <1>3 DEF Recall, Types
  <2> HIDE DEF status
  <2>3. [h[c] EXCEPT !.status = status, !.at = "settle"] \in Handler
    BY <1>0, <2>1 DEF Handler
  <2>4. h' \in [Conns -> Handler]
    BY <2>2, <2>3 DEF Types
  <2>. QED
    BY <1>1, <1>3, <2>4 DEF Recall
<1>4. ASSUME Reserve(c) PROVE Types'
  <2>1. h' \in [Conns -> Handler]
    BY <1>0, <1>4, GotoEffect DEF Reserve
  <2>2. results' \in [ActionIDs -> Results]
    BY <1>0, <1>4 DEF Reserve, Types, Results
  <2>. QED
    BY <1>4, <2>1, <2>2 DEF Reserve, Types, core, adapters, clients
<1>5. ASSUME CheckRevision(c) \/ CheckTask(c) \/ Recheck(c) PROVE Types'
  <2>1. h' \in [Conns -> Handler]
    BY <1>0, <1>5, GotoEffect, DecideEffect DEF CheckRevision, CheckTask, Recheck
  <2>. QED
    BY <1>1, <1>5, <2>1 DEF CheckRevision, CheckTask, Recheck
<1>6. ASSUME Resolve(c) PROVE Types'
  <2> DEFINE j == [h[c] EXCEPT !.adapter = Harness(tasks[h[c].frame.task].owner),
                               !.at = "lookup"]
  <2>1. j \in Handler
    BY <1>0 DEF Handler, Harness, Harnesses
  <2>2. h' = [h EXCEPT ![c] = j] \/ Goto(c, "recheck")
    BY <1>6 DEF Resolve, Types
  <2>3. h' \in [Conns -> Handler]
    <3> HIDE DEF j
    <3>. QED
      BY <1>0, <2>1, <2>2, GotoEffect DEF Types
  <2>. QED
    BY <1>1, <1>6, <2>3 DEF Resolve
<1>7. ASSUME LookUp(c) PROVE Types'
  <2> DEFINE j == [h[c] EXCEPT !.via = handlers[h[c].adapter], !.at = "invoke"]
  <2>1. j \in Handler
    BY <1>0 DEF Handler, Types
  <2>2. h' = [h EXCEPT ![c] = j] \/ Decide(c, "failed")
    BY <1>7 DEF LookUp, Types
  <2>3. h' \in [Conns -> Handler]
    <3> HIDE DEF j
    <3>. QED
      BY <1>0, <2>1, <2>2, DecideEffect DEF Types
  <2>. QED
    BY <1>1, <1>7, <2>3 DEF LookUp
<1>8. ASSUME FocusLocally(c) PROVE Types'
  <2>1. h' \in [Conns -> Handler]
    BY <1>0, <1>8, DecideEffect DEF FocusLocally
  <2>2. performed' \in [ActionIDs -> Nat]
    BY <1>0, <1>8 DEF FocusLocally, Types
  <2>. QED
    BY <1>8, <2>1, <2>2 DEF FocusLocally, Types, core, router, clients
<1>9. ASSUME AskAdapter(c) PROVE Types'
  <2> DEFINE s == h[c].via
             j == [h[c] EXCEPT !.answer = "", !.at = "waiting"]
  <2>1. j \in Handler
    BY <1>0 DEF Handler
  <2>2. \/ Decide(c, "failed") /\ UNCHANGED asked
        \/ /\ asked' = [asked EXCEPT ![s] = Append(@, h[c].action)]
           /\ h' = [h EXCEPT ![c] = j]
    BY <1>9 DEF AskAdapter, Types
  <2>3. h' \in [Conns -> Handler]
    <3> HIDE DEF j
    <3>. QED
      BY <1>0, <2>1, <2>2, DecideEffect DEF Types
  <2>4. asked' \in [Sessions -> Seq(ActionIDs)]
    <3>1. s \in Sessions
      BY <1>9 DEF AskAdapter
    <3>2. Append(asked[s], h[c].action) \in Seq(ActionIDs)
      BY <1>0, <3>1, AppendProperties DEF Types
    <3>. QED
      BY <2>2, <3>1, <3>2 DEF Types
  <2>. QED
    BY <1>9, <2>3, <2>4 DEF AskAdapter, Types, core, router, clients
<1>10. ASSUME TakeAnswer(c) \/ GiveUp(c) PROVE Types'
  <2>1. h' \in [Conns -> Handler]
    BY <1>0, <1>10, DecideEffect DEF TakeAnswer, GiveUp
  <2>. QED
    BY <1>1, <1>10, <2>1 DEF TakeAnswer, GiveUp
<1>11. ASSUME Finish(c) PROVE Types'
  <2>1. CASE results[h[c].action] \in Final
    <3>1. [h[c] EXCEPT !.status = results[h[c].action], !.at = "settle"] \in Handler
      BY <1>0, <2>1 DEF Handler
    <3>2. /\ h' = [h EXCEPT ![c] = [h[c] EXCEPT !.status = results[h[c].action],
                                               !.at = "settle"]]
          /\ UNCHANGED results
      BY <1>11, <2>1 DEF Finish, Types
    <3>. QED
      BY <1>11, <3>1, <3>2 DEF Finish, Types, core, adapters, clients
  <2>2. CASE results[h[c].action] \notin Final
    <3>1. /\ results' = [results EXCEPT ![h[c].action] = h[c].status]
          /\ Goto(c, "settle")
      BY <1>11, <2>2 DEF Finish
    <3>2. h' \in [Conns -> Handler]
      BY <1>0, <3>1, GotoEffect
    <3>3. results' \in [ActionIDs -> Results]
      BY <1>0, <3>1, HandlerFields DEF Types, Results
    <3>. QED
      BY <1>11, <3>2, <3>3 DEF Finish, Types, core, adapters, clients
  <2>. QED
    BY <2>1, <2>2
<1>12. ASSUME Dismiss(c) PROVE Types'
  <2> DEFINE t == h[c].frame.task
  <2>1. h' \in [Conns -> Handler]
    BY <1>0, <1>12, DecideEffect DEF Dismiss
  <2>2. tasks' \in [TaskIDs -> Task \cup {NoTask}] /\ revision' \in Nat
    <3>1. CASE Remove(t)
      BY <3>1, RemoveTypes
    <3>2. CASE UNCHANGED <<tasks, revision>>
      BY <3>2 DEF Types
    <3>3. CASE t \in Live /\ tasks' = [tasks EXCEPT ![t].snoozed = TRUE] /\ Bump
      <4>1. tasks[t] \in Task
        BY <3>3 DEF Live, Types
      <4>2. tasks' \in [TaskIDs -> Task \cup {NoTask}]
        BY <3>3, <4>1 DEF Types, Task
      <4>. QED
        BY <3>3, <4>2 DEF Bump, Types
    <3>. QED
      BY <1>12, <3>1, <3>2, <3>3 DEF Dismiss
  <2>. QED
    BY <1>12, <2>1, <2>2 DEF Dismiss, Types, router, adapters, clients
<1>13. ASSUME Settle(c) PROVE Types'
  <2>1. h' \in [Conns -> Handler]
    BY <1>13, IdleHandler DEF Settle, Types
  <2>2. tasks' \in [TaskIDs -> Task \cup {NoTask}] /\ revision' \in Nat
    <3>1. Remove(h[c].frame.task) \/ UNCHANGED <<tasks, revision>>
      BY <1>13 DEF Settle
    <3>. QED
      BY <3>1, RemoveTypes DEF Types
  <2>. QED
    BY <1>13, <2>1, <2>2 DEF Settle, Types, router, adapters, clients
<1>. QED
  BY <1>2, <1>3, <1>4, <1>5, <1>6, <1>7, <1>8, <1>9, <1>10, <1>11, <1>12, <1>13
     DEF Dispatch

LEMMA TypesStep == Types /\ [Next]_vars => Types'
<1> SUFFICES ASSUME Types, [Next]_vars PROVE Types'
  OBVIOUS
<1>1. ASSUME NEW t \in TaskIDs, Appear(t) PROVE Types'
  <2>1. PICK s \in States, f \in BOOLEAN, o \in Owners :
          tasks' = [tasks EXCEPT ![t] =
                      [state |-> s, snoozed |-> FALSE, focus |-> f, owner |-> o]]
    BY <1>1 DEF Appear
  <2>2. [state |-> s, snoozed |-> FALSE, focus |-> f, owner |-> o] \in Task
    BY DEF Task, Owners
  <2>3. tasks' \in [TaskIDs -> Task \cup {NoTask}]
    BY <2>1, <2>2 DEF Types
  <2>. QED
    BY <1>1, <2>3 DEF Appear, Bump, Types, router, adapters, clients
<1>2. ASSUME NEW t \in TaskIDs, Change(t) PROVE Types'
  <2>1. PICK s \in States : tasks' = [tasks EXCEPT ![t].state = s, ![t].snoozed = FALSE]
    BY <1>2 DEF Change
  <2>2. tasks[t] \in Task
    BY <1>2 DEF Change, Live, Types
  <2>3. [tasks[t] EXCEPT !.state = s, !.snoozed = FALSE] \in Task
    BY <2>2 DEF Task
  <2>4. tasks' = [tasks EXCEPT ![t] = [tasks[t] EXCEPT !.state = s, !.snoozed = FALSE]]
    BY <2>1 DEF Types
  <2>5. tasks' \in [TaskIDs -> Task \cup {NoTask}]
    BY <2>3, <2>4 DEF Types
  <2>. QED
    BY <1>2, <2>5 DEF Change, Bump, Types, router, adapters, clients
<1>3. ASSUME NEW s \in Sessions, Open(s) PROVE Types'
  BY <1>3 DEF Open, Types, core, clients, Harnesses
<1>4. ASSUME NEW s \in Sessions, Close(s) PROVE Types'
  <2>1. answers' \in [Sessions -> Seq(Answers)]
    BY <1>4, EmptySeq DEF Close, Types
  <2>2. handlers' \in [Harnesses -> {Local, NoHandler} \cup Sessions]
        /\ session' \in [Sessions -> {"new", "open", "gone"}]
    BY <1>4 DEF Close, Types
  <2>3. tasks' \in [TaskIDs -> Task \cup {NoTask}] /\ revision' \in Nat
    BY <1>4 DEF Close, Types, Bump
  <2>. QED
    BY <1>4, <2>1, <2>2, <2>3 DEF Close, Types, clients
<1>5. ASSUME NEW s \in Sessions, Perform(s) PROVE Types'
  <2>1. PICK status \in {"ok", "rejected"} :
          /\ answers' = IF session[s] = "open"
               THEN [answers EXCEPT ![s] = Append(@, <<Head(asked[s]), status>>)]
               ELSE answers
          /\ performed' = IF status = "ok"
                          THEN [performed EXCEPT ![Head(asked[s])] = @ + 1]
                          ELSE performed
    BY <1>5 DEF Perform
  <2>2. Head(asked[s]) \in ActionIDs /\ Tail(asked[s]) \in Seq(ActionIDs)
    BY <1>5, HeadTailProperties DEF Perform, Types
  <2>3. Append(answers[s], <<Head(asked[s]), status>>) \in Seq(Answers)
    BY <2>2, AppendProperties DEF Types, Answers
  <2>4. asked' \in [Sessions -> Seq(ActionIDs)] /\ answers' \in [Sessions -> Seq(Answers)]
    BY <1>5, <2>1, <2>2, <2>3 DEF Perform, Types
  <2>5. performed' \in [ActionIDs -> Nat]
    BY <2>1, <2>2 DEF Types
  <2>. QED
    BY <1>5, <2>4, <2>5 DEF Perform, Types, core, router, clients
<1>6. ASSUME NEW s \in Sessions, DeliverAnswer(s) PROVE Types'
  <2>1. Head(answers[s]) \in Answers /\ Tail(answers[s]) \in Seq(Answers)
    BY <1>6, HeadTailProperties DEF DeliverAnswer, Types
  <2>2. answers' \in [Sessions -> Seq(Answers)]
    BY <1>6, <2>1 DEF DeliverAnswer, Types
  <2>3. \A c \in Conns : [h[c] EXCEPT !.answer = Head(answers[s])[2]] \in Handler
    <3>1. Head(answers[s])[2] \in {"ok", "rejected"}
      BY <2>1 DEF Answers
    <3>2. ASSUME NEW answer \in {"ok", "rejected"}, NEW j \in Handler
          PROVE  [j EXCEPT !.answer = answer] \in Handler
      BY DEF Handler
    <3>. QED
      BY <3>1, <3>2 DEF Types
  <2>4. h' \in [Conns -> Handler]
    BY <1>6, <2>3 DEF DeliverAnswer, Types
  <2>. QED
    BY <1>6, <2>2, <2>4 DEF DeliverAnswer, Types, core, router, clients
<1>7. ASSUME NEW a \in ActionIDs, Compose(a) PROVE Types'
  <2>1. PICK r \in Requests[a] :
          frames' = [frames EXCEPT ![a] = [cap |-> r.cap, task |-> r.task,
                                seen |-> revision, generation |-> generation]]
    BY <1>7 DEF Compose
  <2>2. r \in [cap : Capabilities, task : TaskIDs \cup {NoID}]
    BY RouterAssumption DEF RouterAssumption
  <2>3. [cap |-> r.cap, task |-> r.task, seen |-> revision, generation |-> generation] \in Frame
    BY <2>2 DEF Frame, Types
  <2>4. frames' \in [ActionIDs -> Frame \cup {NoFrame}]
    BY <2>1, <2>3 DEF Types
  <2>. QED
    BY <1>7, <2>4 DEF Compose, Types, core, router, adapters
<1>8. ASSUME NEW c \in Conns, NEW a \in ActionIDs, Arrive(c, a) PROVE Types'
  <2> DEFINE f == frames[a].seen = revision /\ frames[a].generation = generation
  <2>1. h' = [h EXCEPT ![c] = [Idle(a) EXCEPT !.at = "arrived", !.frame = frames[a], !.fresh = f]]
    BY <1>8 DEF Arrive
  <2>2. f \in BOOLEAN /\ frames[a] \in Frame \cup {NoFrame} /\ Idle(a) \in Handler
    BY IdleHandler DEF Types
  <2> HIDE DEF f
  <2>3. [Idle(a) EXCEPT !.at = "arrived", !.frame = frames[a], !.fresh = f] \in Handler
    BY <2>2 DEF Handler, Steps
  <2>4. h' \in [Conns -> Handler]
    BY <2>1, <2>3 DEF Types
  <2>. QED
    BY <1>8, <2>4 DEF Arrive, Types, core, router, adapters
<1>9. ASSUME NEW c \in Conns, Dispatch(c) PROVE Types'
  BY <1>9, DispatchTypes
<1>10. ASSUME EdgeRestart PROVE Types'
  <2>1. h' \in [Conns -> Handler]
    BY <1>10, IdleHandler DEF EdgeRestart, AllIdle
  <2>2. answers' \in [Sessions -> Seq(Answers)]
    BY <1>10, EmptySeq DEF EdgeRestart
  <2>3. handlers' \in [Harnesses -> {Local, NoHandler} \cup Sessions]
    BY <1>10, FirstHandlers DEF EdgeRestart
  <2>5. session' \in [Sessions -> {"new", "open", "gone"}]
    BY <1>10 DEF EdgeRestart, Types
  <2>4. results' \in [ActionIDs -> Results] /\ tasks' \in [TaskIDs -> Task \cup {NoTask}]
    BY <1>10 DEF EdgeRestart, Results
  <2>6. revision' \in Nat /\ generation' \in Nat
    <3>1. generation' = generation + 1 /\ revision' = 0
      BY <1>10 DEF EdgeRestart
    <3>2. generation \in Nat
      BY DEF Types
    <3>. QED
      BY <3>1, <3>2
  <2>7. asked' \in [Sessions -> Seq(ActionIDs)] /\ performed' \in [ActionIDs -> Nat]
        /\ frames' \in [ActionIDs -> Frame \cup {NoFrame}] /\ minted' \subseteq TaskIDs
    BY <1>10 DEF EdgeRestart, Types, clients
  <2>. QED
    BY <2>1, <2>2, <2>3, <2>4, <2>5, <2>6, <2>7 DEF Types
<1>11. CASE UNCHANGED vars
  BY <1>11 DEF vars, core, router, adapters, clients, Types
<1>. QED
  BY <1>1, <1>2, <1>3, <1>4, <1>5, <1>6, <1>7, <1>8, <1>9, <1>10, <1>11 DEF Next

LEMMA InitTypes == Init => Types
<1> SUFFICES ASSUME Init PROVE Types
  OBVIOUS
<1>1. h \in [Conns -> Handler]
  BY IdleHandler DEF Init, AllIdle
<1>2. answers \in [Sessions -> Seq(Answers)] /\ asked \in [Sessions -> Seq(ActionIDs)]
  BY EmptySeq DEF Init
<1>3. handlers \in [Harnesses -> {Local, NoHandler} \cup Sessions]
  BY FirstHandlers DEF Init
<1>4. results \in [ActionIDs -> Results]
  BY DEF Init, Results
<1>. QED
  BY <1>1, <1>2, <1>3, <1>4 DEF Init, Types

-----------------------------------------------------------------------------
(* An action that was out of date when it arrived never gets past the checks. *)

\* The frame names a task that was shown to its sender, and if an earlier
\* process showed it, the task is gone for good.
FrameSound(f) ==
  /\ f.task \in minted \cup {NoID}
  /\ f.generation <= generation
  /\ f.generation = generation => f.seen <= revision
  /\ f.generation < generation => f.task \notin Live

Acting == {"dismiss", "resolve", "recheck", "lookup", "invoke", "waiting"}

HandlerSound(j) ==
  j.at # "idle" =>
    /\ j.frame \in Frame /\ FrameSound(j.frame)
    /\ ~j.fresh /\ j.frame.generation = generation => j.frame.seen < revision
    /\ ~j.fresh /\ j.at = "find" => j.frame.generation < generation
    /\ j.at \in Acting => j.fresh

Views ==
  /\ Live \subseteq minted
  /\ \A a \in ActionIDs : frames[a] # NoFrame => FrameSound(frames[a])
  /\ \A c \in Conns : HandlerSound(h[c])

\* What every step of one process does to the core.
MovesOn ==
  /\ generation' = generation /\ revision' >= revision
  /\ minted \subseteq minted' /\ minted' \subseteq TaskIDs
  /\ Live' \subseteq Live \cup (minted' \ minted)

LEMMA RemoveMovesOn ==
  ASSUME Types, NEW t, Remove(t), UNCHANGED <<generation, minted>> PROVE MovesOn
<1>1. tasks' = [tasks EXCEPT ![t] = NoTask] /\ revision' = revision + 1
  BY DEF Remove, Bump
<1>2. \A u \in TaskIDs : tasks'[u] = tasks[u] \/ tasks'[u] = NoTask
  BY <1>1 DEF Types
<1>3. Live' \subseteq Live
  BY <1>2 DEF Live
<1>4. revision' >= revision
  BY <1>1 DEF Types
<1>. QED
  BY <1>3, <1>4 DEF MovesOn, Types

LEMMA SteadyMovesOn == ASSUME Types, UNCHANGED core PROVE MovesOn
  BY DEF MovesOn, core, Types, Live

LEMMA DispatchMovesOn == ASSUME Types, NEW c \in Conns, Dispatch(c) PROVE MovesOn
<1>1. CASE UNCHANGED core
  BY <1>1, SteadyMovesOn
<1>2. CASE Dismiss(c)
  <2> DEFINE t == h[c].frame.task
  <2>1. CASE Remove(t)
    BY <1>2, <2>1, RemoveMovesOn DEF Dismiss
  <2>2. CASE UNCHANGED <<tasks, revision>>
    BY <1>2, <2>2, SteadyMovesOn DEF Dismiss, core
  <2>3. CASE t \in Live /\ tasks' = [tasks EXCEPT ![t].snoozed = TRUE] /\ Bump
    <3>1. \A u \in TaskIDs : u # t => tasks'[u] = tasks[u]
      BY <2>3 DEF Types
    <3>2. Live' \subseteq Live
      BY <2>3, <3>1 DEF Live
    <3>3. revision' >= revision
      BY <2>3 DEF Bump, Types
    <3>. QED
      BY <1>2, <3>2, <3>3 DEF MovesOn, Dismiss, Types
  <2>. QED
    BY <1>2, <2>1, <2>2, <2>3 DEF Dismiss
<1>3. CASE Settle(c)
  BY <1>3, RemoveMovesOn, SteadyMovesOn DEF Settle, core
<1>. QED
  BY <1>1, <1>2, <1>3
     DEF Dispatch, Refuse, Recall, Reserve, CheckRevision, CheckTask, Resolve, Recheck,
         LookUp, FocusLocally, AskAdapter, TakeAnswer, GiveUp, Finish, ReadsOnly

LEMMA NextMovesOn == ASSUME Types, [Next]_vars PROVE MovesOn \/ EdgeRestart
<1>1. ASSUME NEW t \in TaskIDs, Appear(t) PROVE MovesOn
  <2>1. \A u \in TaskIDs : u # t => tasks'[u] = tasks[u]
    BY <1>1 DEF Appear, Types
  <2>2. /\ t \notin minted /\ minted' = minted \cup {t} /\ generation' = generation
        /\ revision' = revision + 1
    BY <1>1 DEF Appear, Bump
  <2>3. Live' \subseteq Live \cup {t}
    BY <2>1 DEF Live
  <2>4. revision' >= revision
    BY <2>2 DEF Types
  <2>. QED
    BY <2>2, <2>3, <2>4 DEF MovesOn, Types
<1>2. ASSUME NEW t \in TaskIDs, Change(t) PROVE MovesOn
  <2>1. t \in Live /\ \A u \in TaskIDs : u # t => tasks'[u] = tasks[u]
    BY <1>2 DEF Change, Types
  <2>2. Live' \subseteq Live
    BY <2>1 DEF Live
  <2>3. revision' = revision + 1 /\ UNCHANGED <<generation, minted>>
    BY <1>2 DEF Change, Bump
  <2>4. revision' >= revision
    BY <2>3 DEF Types
  <2>. QED
    BY <2>2, <2>3, <2>4 DEF MovesOn, Types
<1>3. ASSUME NEW s \in Sessions, Close(s) PROVE MovesOn
  <2>1. \A u \in TaskIDs : tasks'[u] = tasks[u] \/ tasks'[u] = NoTask
    BY <1>3 DEF Close
  <2>2. Live' \subseteq Live
    BY <2>1 DEF Live
  <2>3. (revision' = revision \/ revision' = revision + 1) /\ UNCHANGED <<generation, minted>>
    BY <1>3 DEF Close, Bump
  <2>4. revision' >= revision
    BY <2>3 DEF Types
  <2>. QED
    BY <2>2, <2>3, <2>4 DEF MovesOn, Types
<1>4. ASSUME NEW c \in Conns, Dispatch(c) PROVE MovesOn
  BY <1>4, DispatchMovesOn
<1>5. CASE UNCHANGED core
  BY <1>5, SteadyMovesOn
<1>. QED
  BY <1>1, <1>2, <1>3, <1>4, <1>5
     DEF Next, vars, Open, Perform, DeliverAnswer, Compose, Arrive

LEMMA FrameStays ==
  ASSUME Types, Types', MovesOn, NEW f \in Frame, FrameSound(f) PROVE FrameSound(f)'
<1>1. /\ f.seen \in Nat /\ f.generation \in Nat
      /\ generation \in Nat /\ revision \in Nat /\ revision' \in Nat
      /\ revision' >= revision /\ generation' = generation
  BY DEF Frame, Types, MovesOn
<1>2. f.task \in (minted \cup {NoID})'
  BY DEF FrameSound, MovesOn
<1>3. f.generation < generation => f.task \notin Live'
  BY RouterAssumption DEF FrameSound, MovesOn, RouterAssumption, Live
<1>4. f.generation = generation' => f.seen <= revision'
  <2>1. f.generation = generation => f.seen <= revision
    BY DEF FrameSound
  <2>. QED
    BY <1>1, <2>1
<1>5. f.generation <= generation'
  BY <1>1 DEF FrameSound
<1>6. f.generation < generation' => f.task \notin Live'
  BY <1>1, <1>3
<1>. QED
  BY <1>2, <1>4, <1>5, <1>6 DEF FrameSound

LEMMA HandlerStays ==
  ASSUME Types, Types', MovesOn, NEW j \in Handler, HandlerSound(j) PROVE HandlerSound(j)'
<1> SUFFICES ASSUME j.at # "idle" PROVE HandlerSound(j)'
  BY DEF HandlerSound
<1>1. /\ j.frame \in Frame /\ FrameSound(j.frame)
      /\ ~j.fresh /\ j.frame.generation = generation => j.frame.seen < revision
      /\ ~j.fresh /\ j.at = "find" => j.frame.generation < generation
      /\ j.at \in Acting => j.fresh
  BY DEF HandlerSound
<1>2. FrameSound(j.frame)'
  BY <1>1, FrameStays
<1>3. /\ generation' = generation /\ j.frame.seen \in Nat
      /\ revision \in Nat /\ revision' \in Nat /\ revision' >= revision
  BY <1>1 DEF MovesOn, Types, Frame
<1>4. ~j.fresh /\ j.frame.generation = generation' => j.frame.seen < revision'
  BY <1>1, <1>3
<1>5. ~j.fresh /\ j.at = "find" => j.frame.generation < generation'
  BY <1>1, <1>3
<1>. QED
  BY <1>1, <1>2, <1>4, <1>5 DEF HandlerSound

\* A goroutine's own step: what it goes past was not out of date.
Onward(c) ==
  \/ h'[c].at = "idle"
  \/ /\ h[c].at # "idle" /\ h'[c].frame = h[c].frame /\ h'[c].fresh = h[c].fresh
     /\ h'[c].at = "find" /\ ~h[c].fresh => h[c].frame.generation < generation
     /\ h'[c].at \in Acting => h[c].fresh

LEMMA DispatchOnward ==
  ASSUME Types, NEW c \in Conns, HandlerSound(h[c]), Dispatch(c)
  PROVE  Onward(c) /\ \A d \in Conns : d # c => h'[d] = h[d]
<1> DEFINE Others == \A d \in Conns : d # c => h'[d] = h[d]
<1>0. /\ h[c] \in Handler /\ h[c].action \in ActionIDs /\ c \in DOMAIN h
      /\ "stale" \in Final /\ "failed" \in Final /\ "ok" \in Final /\ "unsupported" \in Final
      /\ \A step \in {"find", "check", "dismiss", "resolve", "recheck", "settle", "finish",
                      "waiting", "lookup", "invoke"} : step \in Steps
  BY HandlerFields DEF Types, Final, Steps
<1>1. ASSUME h[c].at # "idle", NEW status \in Final, Decide(c, status)
      PROVE  Onward(c) /\ Others
  BY <1>1, DecideEffect DEF Onward, Acting
<1>2. ASSUME h[c].at # "idle", NEW step \in Steps, Goto(c, step),
             step = "find" /\ ~h[c].fresh => h[c].frame.generation < generation,
             step \in Acting => h[c].fresh
      PROVE  Onward(c) /\ Others
  BY <1>2, GotoEffect DEF Onward
<1>3. ASSUME h[c].at # "idle", NEW j \in Handler, h' = [h EXCEPT ![c] = j],
             j.frame = h[c].frame, j.fresh = h[c].fresh, j.at # "find",
             j.at \in Acting => h[c].fresh
      PROVE  Onward(c) /\ Others
  BY <1>0, <1>3 DEF Onward
<1>4. ASSUME Refuse(c) PROVE Onward(c) /\ Others
  <2> DEFINE j == [h[c] EXCEPT !.status = "failed", !.at = "settle"]
  <2>1. j \in Handler /\ j.frame = h[c].frame /\ j.fresh = h[c].fresh /\ j.at = "settle"
    BY <1>0 DEF Handler
  <2>2. h[c].at # "idle" /\ h' = [h EXCEPT ![c] = j]
    BY <1>4 DEF Refuse, At, Types
  <2> HIDE DEF j
  <2>. QED
    BY <1>3, <2>1, <2>2 DEF Acting
<1>5. ASSUME Recall(c) PROVE Onward(c) /\ Others
  <2> DEFINE status == IF results[h[c].action] = "pending" THEN "failed"
                       ELSE results[h[c].action]
             j == [h[c] EXCEPT !.status = status, !.at = "settle"]
  <2>1. status \in Final
    BY <1>0, <1>5 DEF Recall, Remembered, Types, Results
  <2>2. h[c].at # "idle" /\ h' = [h EXCEPT ![c] = j]
    BY <1>5 DEF Recall, At, Types
  <2> HIDE DEF status
  <2>3. j \in Handler /\ j.frame = h[c].frame /\ j.fresh = h[c].fresh /\ j.at = "settle"
    BY <1>0, <2>1 DEF Handler
  <2> HIDE DEF j
  <2>. QED
    BY <1>3, <2>2, <2>3 DEF Acting
<1>6. ASSUME Reserve(c) PROVE Onward(c) /\ Others
  BY <1>0, <1>2, <1>6 DEF Reserve, At, Acting
<1>7. ASSUME CheckRevision(c) PROVE Onward(c) /\ Others
  <2>1. h[c].at # "idle"
    BY <1>7 DEF CheckRevision, At
  <2>2. CASE h[c].frame.seen # revision
    BY <1>0, <1>1, <1>7, <2>1, <2>2 DEF CheckRevision
  <2>3. CASE h[c].frame.seen = revision
    <3>1. ~h[c].fresh => h[c].frame.generation < generation
      <4>1. /\ h[c].frame \in Frame /\ h[c].frame.generation <= generation
            /\ ~h[c].fresh /\ h[c].frame.generation = generation => h[c].frame.seen < revision
        BY <2>1 DEF HandlerSound, FrameSound
      <4>2. revision \in Nat /\ generation \in Nat /\ h[c].frame.generation \in Nat
        BY <4>1 DEF Types, Frame
      <4>. QED
        BY <2>3, <4>1, <4>2
    <3>2. Goto(c, "find")
      BY <1>7, <2>3 DEF CheckRevision
    <3>. QED
      BY <1>0, <1>2, <2>1, <3>1, <3>2 DEF Acting
  <2>. QED
    BY <2>2, <2>3
<1>8. ASSUME CheckTask(c) PROVE Onward(c) /\ Others
  <2>1. h[c].at = "find"
    BY <1>8 DEF CheckTask, At
  <2>2. CASE h[c].frame.task \notin Live
    BY <1>0, <1>1, <1>8, <2>1, <2>2 DEF CheckTask
  <2>3. CASE h[c].frame.task \in Live
    <3>1. h[c].fresh
      BY <2>1, <2>3 DEF HandlerSound, FrameSound
    <3>2. PICK step \in {"dismiss", "resolve"} : Goto(c, step) \/ Decide(c, "unsupported")
      BY <1>8, <2>3 DEF CheckTask
    <3>. QED
      BY <1>0, <1>1, <1>2, <2>1, <3>1, <3>2
  <2>. QED
    BY <2>2, <2>3
<1>9. ASSUME Resolve(c) PROVE Onward(c) /\ Others
  <2> DEFINE j == [h[c] EXCEPT !.adapter = Harness(tasks[h[c].frame.task].owner),
                               !.at = "lookup"]
  <2>1. j \in Handler /\ j.frame = h[c].frame /\ j.fresh = h[c].fresh /\ j.at = "lookup"
    BY <1>0 DEF Handler, Harness, Harnesses
  <2>2. h[c].at = "resolve" /\ h[c].fresh
    BY <1>9 DEF Resolve, At, HandlerSound, Acting
  <2>3. h' = [h EXCEPT ![c] = j] \/ Goto(c, "recheck")
    BY <1>9 DEF Resolve, Types
  <2> HIDE DEF j
  <2>4. CASE h' = [h EXCEPT ![c] = j]
    BY <1>3, <2>1, <2>2, <2>4
  <2>5. CASE Goto(c, "recheck")
    BY <1>0, <1>2, <2>2, <2>5
  <2>. QED
    BY <2>3, <2>4, <2>5
<1>10. ASSUME LookUp(c) PROVE Onward(c) /\ Others
  <2> DEFINE j == [h[c] EXCEPT !.via = handlers[h[c].adapter], !.at = "invoke"]
  <2>1. j \in Handler /\ j.frame = h[c].frame /\ j.fresh = h[c].fresh /\ j.at = "invoke"
    BY <1>0 DEF Handler, Types
  <2>2. h[c].at = "lookup" /\ h[c].fresh
    BY <1>10 DEF LookUp, At, HandlerSound, Acting
  <2>3. h' = [h EXCEPT ![c] = j] \/ Decide(c, "failed")
    BY <1>10 DEF LookUp, Types
  <2> HIDE DEF j
  <2>4. CASE h' = [h EXCEPT ![c] = j]
    BY <1>3, <2>1, <2>2, <2>4
  <2>5. CASE Decide(c, "failed")
    BY <1>0, <1>1, <2>2, <2>5
  <2>. QED
    BY <2>3, <2>4, <2>5
<1>11. ASSUME AskAdapter(c) PROVE Onward(c) /\ Others
  <2> DEFINE j == [h[c] EXCEPT !.answer = "", !.at = "waiting"]
  <2>1. j \in Handler /\ j.frame = h[c].frame /\ j.fresh = h[c].fresh /\ j.at = "waiting"
    BY <1>0 DEF Handler
  <2>2. h[c].at = "invoke" /\ h[c].fresh
    BY <1>11 DEF AskAdapter, At, HandlerSound, Acting
  <2>3. h' = [h EXCEPT ![c] = j] \/ Decide(c, "failed")
    BY <1>11 DEF AskAdapter, Types
  <2> HIDE DEF j
  <2>4. CASE h' = [h EXCEPT ![c] = j]
    BY <1>3, <2>1, <2>2, <2>4
  <2>5. CASE Decide(c, "failed")
    BY <1>0, <1>1, <2>2, <2>5
  <2>. QED
    BY <2>3, <2>4, <2>5
<1>12. ASSUME Recheck(c) \/ FocusLocally(c) \/ TakeAnswer(c) \/ GiveUp(c) \/ Dismiss(c)
       PROVE  Onward(c) /\ Others
  <2>1. h[c].at # "idle" /\ \E status \in Final : Decide(c, status)
    BY <1>0, <1>12 DEF Recheck, FocusLocally, TakeAnswer, GiveUp, Dismiss, At
  <2>. QED
    BY <1>1, <2>1
<1>13. ASSUME Finish(c) PROVE Onward(c) /\ Others
  <2> DEFINE j == [h[c] EXCEPT !.status = results[h[c].action], !.at = "settle"]
  <2>1. h[c].at # "idle"
    BY <1>13 DEF Finish, At
  <2>2. CASE results[h[c].action] \in Final
    <3>1. j \in Handler /\ j.frame = h[c].frame /\ j.fresh = h[c].fresh /\ j.at = "settle"
      BY <1>0, <2>2 DEF Handler
    <3>2. h' = [h EXCEPT ![c] = j]
      BY <1>13, <2>2 DEF Finish, Types
    <3> HIDE DEF j
    <3>. QED
      BY <1>3, <2>1, <3>1, <3>2 DEF Acting
  <2>3. CASE results[h[c].action] \notin Final
    BY <1>0, <1>2, <1>13, <2>1, <2>3 DEF Finish, Acting
  <2>. QED
    BY <2>2, <2>3
<1>14. ASSUME Settle(c) PROVE Onward(c) /\ Others
  <2>1. h' = [h EXCEPT ![c] = Resting]
    BY <1>14 DEF Settle
  <2>2. h'[c] = Resting /\ Others
    BY <1>0, <2>1
  <2>. QED
    BY <2>2, IdleHandler DEF Onward
<1>. QED
  BY <1>4, <1>5, <1>6, <1>7, <1>8, <1>9, <1>10, <1>11, <1>12, <1>13, <1>14 DEF Dispatch

LEMMA DispatchSound ==
  ASSUME Types, Types', MovesOn, NEW c \in Conns, Views, Dispatch(c)
  PROVE  \A d \in Conns : HandlerSound(h[d])'
<1>1. HandlerSound(h[c])
  BY DEF Views
<1>2. Onward(c) /\ \A d \in Conns : d # c => h'[d] = h[d]
  BY <1>1, DispatchOnward
<1>3. ASSUME NEW d \in Conns, d # c PROVE HandlerSound(h[d])'
  <2>1. HandlerSound(h[d]) /\ h[d] \in Handler
    BY DEF Views, Types
  <2>2. PICK j \in Handler : j = h[d]
    BY <2>1
  <2>3. HandlerSound(j)'
    BY <2>1, <2>2, HandlerStays
  <2>. QED
    BY <1>2, <1>3, <2>2, <2>3
<1>4. HandlerSound(h[c])'
  <2>1. CASE h'[c].at = "idle"
    BY <2>1 DEF HandlerSound
  <2>2. CASE h'[c].at # "idle"
    <3>1. PICK j \in Handler : j = h'[c]
      BY DEF Types
    <3>2. HandlerSound(j)
      BY <1>1, <1>2, <2>2, <3>1 DEF Onward, HandlerSound
    <3>3. HandlerSound(j)'
      BY <3>2, HandlerStays
    <3>. QED
      BY <3>1, <3>3
  <2>. QED
    BY <2>1, <2>2
<1>. QED
  BY <1>3, <1>4

LEMMA ViewsStep == ASSUME Types, Types', Views, [Next]_vars PROVE Views'
<1>1. CASE MovesOn
  <2>1. (Live \subseteq minted)'
    BY <1>1 DEF Views, MovesOn
  <2>2. \A a \in ActionIDs : frames'[a] # NoFrame => FrameSound(frames[a])'
    <3> SUFFICES ASSUME NEW a \in ActionIDs, frames'[a] # NoFrame
                 PROVE  FrameSound(frames[a])'
      OBVIOUS
    <3>1. PICK f \in Frame : f = frames'[a]
      BY DEF Types
    <3>2. FrameSound(f)
      <4>1. CASE frames'[a] = frames[a]
        BY <3>1, <4>1 DEF Views
      <4>2. CASE frames'[a] # frames[a]
        <5>1. Compose(a)
          <6>1. PICK b \in ActionIDs : Compose(b)
            BY <4>2 DEF Next, Appear, Change, Open, Close, Perform, DeliverAnswer, Arrive,
                 Dispatch, Refuse, Recall, Reserve, CheckRevision, CheckTask, Resolve,
                 Recheck, LookUp, FocusLocally, AskAdapter, TakeAnswer, GiveUp, Finish,
                 Dismiss, Settle, EdgeRestart, ReadsOnly, clients, vars
          <6>2. a = b
            BY <4>2, <6>1 DEF Compose, Types
          <6>. QED
            BY <6>1, <6>2
        <5>2. PICK q \in Requests[a] :
                /\ q.task \in Live \cup {NoID}
                /\ frames' = [frames EXCEPT ![a] = [cap |-> q.cap, task |-> q.task,
                                seen |-> revision, generation |-> generation]]
          BY <5>1 DEF Compose
        <5>3. f = [cap |-> q.cap, task |-> q.task, seen |-> revision, generation |-> generation]
          BY <3>1, <5>2 DEF Types
        <5>4. generation \in Nat /\ revision \in Nat
          BY DEF Types
        <5>. QED
          BY <5>2, <5>3, <5>4 DEF FrameSound, Views
      <4>. QED
        BY <4>1, <4>2
    <3>3. FrameSound(f)'
      BY <1>1, <3>2, FrameStays
    <3>. QED
      BY <3>1, <3>3
  <2>3. \A d \in Conns : HandlerSound(h[d])'
    <3>1. ASSUME NEW d \in Conns, h'[d] = h[d] PROVE HandlerSound(h[d])'
      <4>1. PICK j \in Handler : j = h[d]
        BY DEF Types
      <4>2. HandlerSound(j)'
        BY <1>1, <4>1, HandlerStays DEF Views
      <4>. QED
        BY <3>1, <4>1, <4>2
    <3>2. ASSUME NEW c \in Conns, Dispatch(c) PROVE \A d \in Conns : HandlerSound(h[d])'
      BY <1>1, <3>2, DispatchSound
    <3>3. ASSUME NEW c \in Conns, NEW a \in ActionIDs, Arrive(c, a)
          PROVE  \A d \in Conns : HandlerSound(h[d])'
      <4> DEFINE fresh == frames[a].seen = revision /\ frames[a].generation = generation
                 k == [Idle(a) EXCEPT !.at = "arrived", !.frame = frames[a], !.fresh = fresh]
      <4>1. h' = [h EXCEPT ![c] = k] /\ frames[a] # NoFrame
        BY <3>3 DEF Arrive
      <4>2. frames[a] \in Frame /\ FrameSound(frames[a])
        BY <4>1 DEF Types, Views
      <4>3. k.at = "arrived" /\ k.frame = frames[a] /\ k.fresh = fresh /\ k \in Handler
        <5>1. fresh \in BOOLEAN /\ Idle(a) \in Handler
          BY IdleHandler
        <5> HIDE DEF fresh
        <5>. QED
          BY <4>2, <5>1 DEF Handler, Steps
      <4>4. ~fresh /\ frames[a].generation = generation => frames[a].seen < revision
        <5>1. frames[a].seen \in Nat /\ revision \in Nat
          BY <4>2 DEF Types, Frame
        <5>. QED
          BY <4>2, <5>1 DEF FrameSound
      <4> HIDE DEF fresh
      <4>5. HandlerSound(k)
        BY <4>2, <4>3, <4>4 DEF HandlerSound, Acting
      <4> HIDE DEF k
      <4>6. PICK j \in Handler : j = k
        BY <4>3
      <4>7. HandlerSound(j)'
        BY <1>1, <4>5, <4>6, HandlerStays
      <4>8. h'[c] = j /\ \A d \in Conns : d # c => h'[d] = h[d]
        BY <4>1, <4>6 DEF Types
      <4>9. HandlerSound(h[c])'
        BY <4>7, <4>8
      <4>. QED
        BY <3>1, <4>8, <4>9
    <3>4. ASSUME NEW s \in Sessions, DeliverAnswer(s)
          PROVE  \A d \in Conns : HandlerSound(h[d])'
      <4> SUFFICES ASSUME NEW d \in Conns PROVE HandlerSound(h[d])'
        OBVIOUS
      <4>1. /\ h'[d].at = h[d].at /\ h'[d].frame = h[d].frame /\ h'[d].fresh = h[d].fresh
        <5>1. h[d] \in Handler
          BY DEF Types
        <5>2. h'[d] = h[d] \/ h'[d] = [h[d] EXCEPT !.answer = Head(answers[s])[2]]
          BY <3>4 DEF DeliverAnswer
        <5>. QED
          BY <5>1, <5>2 DEF Handler
      <4>2. PICK j \in Handler : j = h'[d]
        BY DEF Types
      <4>3. HandlerSound(h[d])
        BY DEF Views
      <4>4. HandlerSound(j)
        BY <4>1, <4>2, <4>3 DEF HandlerSound
      <4>5. HandlerSound(j)'
        BY <1>1, <4>4, HandlerStays
      <4>. QED
        BY <4>2, <4>5
    <3>5. CASE EdgeRestart
      BY <3>5, IdleHandler DEF EdgeRestart, AllIdle, HandlerSound
    <3>6. CASE UNCHANGED h
      BY <3>1, <3>6
    <3>. QED
      BY <3>2, <3>3, <3>4, <3>5, <3>6
         DEF Next, vars, Appear, Change, Open, Close, Perform, Compose
  <2>. QED
    BY <2>1, <2>2, <2>3 DEF Views
<1>2. CASE EdgeRestart
  <2>1. Live' = {}
    BY <1>2 DEF EdgeRestart, Live
  <2>2. \A d \in Conns : HandlerSound(h[d])'
    BY <1>2, IdleHandler DEF EdgeRestart, AllIdle, HandlerSound
  <2>3. UNCHANGED <<minted, frames>> /\ generation' = generation + 1
    BY <1>2 DEF EdgeRestart, clients
  <2>4. \A a \in ActionIDs : frames'[a] # NoFrame => FrameSound(frames[a])'
    <3> SUFFICES ASSUME NEW a \in ActionIDs, frames[a] # NoFrame PROVE FrameSound(frames[a])'
      BY <2>3
    <3>1. frames[a] \in Frame /\ FrameSound(frames[a])
      BY DEF Types, Views
    <3>2. /\ frames[a].generation \in Nat /\ frames[a].generation <= generation
          /\ frames[a].task \in minted \cup {NoID} /\ generation \in Nat
      BY <3>1 DEF Types, Frame, FrameSound
    <3>3. frames'[a] = frames[a] /\ minted' = minted
      BY <2>3
    <3>4. frames[a].generation <= generation' /\ frames[a].generation # generation'
      BY <2>3, <3>2
    <3>. QED
      BY <2>1, <3>2, <3>3, <3>4 DEF FrameSound
  <2>. QED
    BY <2>1, <2>2, <2>4 DEF Views
<1>. QED
  BY <1>1, <1>2, NextMovesOn

LEMMA InitViews == Init => Views
<1> SUFFICES ASSUME Init PROVE Views
  OBVIOUS
<1>1. Live = {} /\ \A a \in ActionIDs : frames[a] = NoFrame
  BY DEF Init, Live
<1>2. \A c \in Conns : HandlerSound(h[c])
  BY IdleHandler DEF Init, AllIdle, HandlerSound
<1>. QED
  BY <1>1, <1>2 DEF Views

\* What gets past the checks was current when it arrived: CheckRevision and
\* CheckTask between them, although neither compares generations.
THEOREM OldViews == Spec => []OldViewsNeverAct
<1>1. Init => Types /\ Views
  BY InitTypes, InitViews
<1>2. Types /\ Views /\ [Next]_vars => (Types /\ Views)'
  BY TypesStep, ViewsStep
<1>3. Types /\ Views => OldViewsNeverAct
  BY DEF Views, HandlerSound, Acting, OldViewsNeverAct
<1>. QED
  BY <1>1, <1>2, <1>3, PTL DEF Spec

-----------------------------------------------------------------------------
(* Nobody is told "ok" for a focus that was not carried out. *)

Done(a) == performed[a] > 0

\* An "ok", wherever it is on its way, was earned; and a goroutine that will
\* decide in finish has no dismissal, one that will in dismiss has one.
HandlerEarned(j) ==
  /\ j.answer = "ok" => Done(j.action)
  /\ j.status = "ok" /\ j.frame.cap \notin Dismissals => Done(j.action)
  /\ j.at = "dismiss" => j.frame.cap \in Dismissals
  /\ j.at = "finish" => j.frame.cap \notin Dismissals

Earned ==
  /\ \A a \in ActionIDs : results[a] = "ok" => Done(a)
  /\ \A s \in Sessions : \A i \in 1..Len(answers[s]) :
       answers[s][i][2] = "ok" => Done(answers[s][i][1])
  /\ \A c \in Conns : HandlerEarned(h[c])

\* No step takes back what was carried out.
LEMMA DoneStays ==
  ASSUME Types, [Next]_vars, NEW a \in ActionIDs, Done(a) PROVE Done(a)'
<1>1. CASE UNCHANGED performed
  BY <1>1 DEF Done
<1>2. ASSUME NEW s \in Sessions, Perform(s) PROVE Done(a)'
  <2>1. /\ performed \in [ActionIDs -> Nat]
        /\ \/ performed' = [performed EXCEPT ![Head(asked[s])] = @ + 1]
           \/ performed' = performed
    BY <1>2 DEF Perform, Types
  <2>. QED
    BY <2>1 DEF Done
<1>3. ASSUME NEW c \in Conns, FocusLocally(c) PROVE Done(a)'
  <2>1. /\ performed \in [ActionIDs -> Nat]
        /\ \/ performed' = [performed EXCEPT ![h[c].action] = @ + 1]
           \/ performed' = performed
    BY <1>3 DEF FocusLocally, Types
  <2>. QED
    BY <2>1 DEF Done
<1>. QED
  BY <1>1, <1>2, <1>3
     DEF Next, vars, adapters, Appear, Change, Open, Close, DeliverAnswer, Compose, Arrive,
         Dispatch, Refuse, Recall, Reserve, CheckRevision, CheckTask, Resolve, Recheck,
         LookUp, AskAdapter, TakeAnswer, GiveUp, Finish, Dismiss, Settle, EdgeRestart,
         ReadsOnly

LEMMA EarnedStays ==
  ASSUME Types, [Next]_vars, NEW j \in Handler, HandlerEarned(j) PROVE HandlerEarned(j)'
<1>1. j.action \in ActionIDs
  BY DEF Handler
<1>2. Done(j.action) => Done(j.action)'
  BY <1>1, DoneStays
<1>. QED
  BY <1>2 DEF HandlerEarned

\* A goroutine's own step: an "ok" it comes by was earned.
Honest(c) ==
  \/ h'[c].at = "idle" /\ h'[c].answer = "" /\ h'[c].status = ""
  \/ /\ h'[c].action = h[c].action /\ h'[c].frame = h[c].frame
     /\ h'[c].answer \in {"", h[c].answer}
     /\ \/ h'[c].status \in {h[c].status, "failed", "stale", "unsupported"}
        \/ performed'[h[c].action] > 0 \/ h[c].frame.cap \in Dismissals
     /\ h'[c].at = "dismiss" => h[c].frame.cap \in Dismissals
     /\ h'[c].at = "finish" => h[c].frame.cap \notin Dismissals

LEMMA DispatchHonest ==
  ASSUME Types, Earned, NEW c \in Conns, Dispatch(c) PROVE Honest(c)
<1>0. /\ h[c] \in Handler /\ h[c].action \in ActionIDs /\ c \in DOMAIN h
      /\ HandlerEarned(h[c])
      /\ "stale" \in Final /\ "failed" \in Final /\ "ok" \in Final /\ "unsupported" \in Final
      /\ \A step \in {"find", "check", "dismiss", "resolve", "recheck", "settle", "finish",
                      "waiting", "lookup", "invoke"} : step \in Steps
  BY HandlerFields DEF Types, Final, Steps, Earned
<1>1. ASSUME NEW status \in Final, Decide(c, status),
             \/ status \in {"failed", "stale", "unsupported"}
             \/ performed'[h[c].action] > 0 \/ IsDismissal(c)
      PROVE  Honest(c)
  BY <1>1, DecideEffect DEF Honest, IsDismissal
<1>2. ASSUME NEW step \in Steps, Goto(c, step), step = "dismiss" => IsDismissal(c),
             step # "finish"
      PROVE  Honest(c)
  BY <1>2, GotoEffect DEF Honest, IsDismissal
<1>3. ASSUME NEW j \in Handler, h' = [h EXCEPT ![c] = j], j.action = h[c].action,
             j.frame = h[c].frame, j.answer \in {"", h[c].answer},
             j.at \notin {"dismiss", "finish"},
             \/ j.status \in {h[c].status, "failed"}
             \/ performed'[h[c].action] > 0 \/ IsDismissal(c)
      PROVE  Honest(c)
  BY <1>0, <1>3 DEF Honest, IsDismissal
<1>4. ASSUME Refuse(c) PROVE Honest(c)
  <2> DEFINE j == [h[c] EXCEPT !.status = "failed", !.at = "settle"]
  <2>1. /\ j \in Handler /\ j.action = h[c].action /\ j.frame = h[c].frame
        /\ j.answer = h[c].answer /\ j.status = "failed" /\ j.at = "settle"
    BY <1>0 DEF Handler
  <2>2. h' = [h EXCEPT ![c] = j]
    BY <1>4 DEF Refuse, Types
  <2> HIDE DEF j
  <2>. QED
    BY <1>3, <2>1, <2>2
<1>5. ASSUME Recall(c) PROVE Honest(c)
  <2> DEFINE status == IF results[h[c].action] = "pending" THEN "failed"
                       ELSE results[h[c].action]
             j == [h[c] EXCEPT !.status = status, !.at = "settle"]
  <2>1. status \in Final /\ (status = "ok" => performed'[h[c].action] > 0)
    BY <1>0, <1>5 DEF Recall, ReadsOnly, adapters, Remembered, Types, Results, Earned, Done
  <2>2. h' = [h EXCEPT ![c] = j]
    BY <1>5 DEF Recall, Types
  <2> HIDE DEF status
  <2>3. /\ j \in Handler /\ j.action = h[c].action /\ j.frame = h[c].frame
        /\ j.answer = h[c].answer /\ j.status = status /\ j.at = "settle"
    BY <1>0, <2>1 DEF Handler
  <2> HIDE DEF j
  <2>4. \/ h'[c].status \in {"failed", "stale", "unsupported"}
        \/ performed'[h[c].action] > 0
    BY <1>0, <2>1, <2>2, <2>3 DEF Final
  <2>. QED
    BY <1>0, <2>2, <2>3, <2>4 DEF Honest
<1>6. ASSUME Reserve(c) PROVE Honest(c)
  BY <1>0, <1>2, <1>6 DEF Reserve
<1>7. ASSUME CheckRevision(c) PROVE Honest(c)
  BY <1>0, <1>1, <1>2, <1>7 DEF CheckRevision
<1>8. ASSUME CheckTask(c) PROVE Honest(c)
  <2>1. \/ \E status \in {"stale", "unsupported"} : Decide(c, status)
        \/ Goto(c, "dismiss") /\ IsDismissal(c)
        \/ Goto(c, "resolve")
    BY <1>8 DEF CheckTask
  <2>. QED
    BY <1>0, <1>1, <1>2, <2>1
<1>9. ASSUME Resolve(c) PROVE Honest(c)
  <2> DEFINE j == [h[c] EXCEPT !.adapter = Harness(tasks[h[c].frame.task].owner),
                               !.at = "lookup"]
  <2>1. /\ j \in Handler /\ j.action = h[c].action /\ j.frame = h[c].frame
        /\ j.answer = h[c].answer /\ j.status = h[c].status /\ j.at = "lookup"
    BY <1>0 DEF Handler, Harness, Harnesses
  <2>2. h' = [h EXCEPT ![c] = j] \/ Goto(c, "recheck")
    BY <1>9 DEF Resolve, Types
  <2> HIDE DEF j
  <2>3. CASE h' = [h EXCEPT ![c] = j]
    BY <1>3, <2>1, <2>3
  <2>4. CASE Goto(c, "recheck")
    BY <1>0, <1>2, <2>4
  <2>. QED
    BY <2>2, <2>3, <2>4
<1>10. ASSUME LookUp(c) PROVE Honest(c)
  <2> DEFINE j == [h[c] EXCEPT !.via = handlers[h[c].adapter], !.at = "invoke"]
  <2>1. /\ j \in Handler /\ j.action = h[c].action /\ j.frame = h[c].frame
        /\ j.answer = h[c].answer /\ j.status = h[c].status /\ j.at = "invoke"
    BY <1>0 DEF Handler, Types
  <2>2. h' = [h EXCEPT ![c] = j] \/ Decide(c, "failed")
    BY <1>10 DEF LookUp, Types
  <2> HIDE DEF j
  <2>3. CASE h' = [h EXCEPT ![c] = j]
    BY <1>3, <2>1, <2>3
  <2>4. CASE Decide(c, "failed")
    BY <1>0, <1>1, <2>4
  <2>. QED
    BY <2>2, <2>3, <2>4
<1>11. ASSUME AskAdapter(c) PROVE Honest(c)
  <2> DEFINE j == [h[c] EXCEPT !.answer = "", !.at = "waiting"]
  <2>1. /\ j \in Handler /\ j.action = h[c].action /\ j.frame = h[c].frame
        /\ j.answer = "" /\ j.status = h[c].status /\ j.at = "waiting"
    BY <1>0 DEF Handler
  <2>2. h' = [h EXCEPT ![c] = j] \/ Decide(c, "failed")
    BY <1>11 DEF AskAdapter, Types
  <2> HIDE DEF j
  <2>3. CASE h' = [h EXCEPT ![c] = j]
    BY <1>3, <2>1, <2>3
  <2>4. CASE Decide(c, "failed")
    BY <1>0, <1>1, <2>4
  <2>. QED
    BY <2>2, <2>3, <2>4
<1>12. ASSUME Recheck(c) \/ GiveUp(c) PROVE Honest(c)
  <2>1. \E status \in {"failed", "stale", "unsupported"} : Decide(c, status)
    BY <1>12 DEF Recheck, GiveUp
  <2>. QED
    BY <1>0, <1>1, <2>1
<1>13. ASSUME TakeAnswer(c) PROVE Honest(c)
  <2>1. CASE h[c].answer = "ok"
    <3>1. performed'[h[c].action] > 0
      BY <1>0, <1>13, <2>1 DEF HandlerEarned, TakeAnswer, ReadsOnly, adapters, Done
    <3>. QED
      BY <1>0, <1>1, <1>13, <2>1, <3>1 DEF TakeAnswer
  <2>2. CASE h[c].answer # "ok"
    BY <1>0, <1>1, <1>13, <2>2 DEF TakeAnswer
  <2>. QED
    BY <2>1, <2>2
<1>14. ASSUME FocusLocally(c) PROVE Honest(c)
  <2>1. CASE Decide(c, "failed")
    BY <1>0, <1>1, <2>1
  <2>2. CASE Decide(c, "ok") /\ performed' = [performed EXCEPT ![h[c].action] = @ + 1]
    <3>1. performed'[h[c].action] > 0
      <4>1. /\ performed \in [ActionIDs -> Nat]
            /\ performed'[h[c].action] = performed[h[c].action] + 1
        BY <1>0, <2>2 DEF Types
      <4>. QED
        BY <1>0, <4>1
    <3>. QED
      BY <1>0, <1>1, <2>2, <3>1
  <2>. QED
    BY <1>14, <2>1, <2>2 DEF FocusLocally
<1>15. ASSUME Finish(c) PROVE Honest(c)
  <2> DEFINE j == [h[c] EXCEPT !.status = results[h[c].action], !.at = "settle"]
  <2>1. CASE results[h[c].action] \in Final
    <3>1. /\ j \in Handler /\ j.action = h[c].action /\ j.frame = h[c].frame
          /\ j.answer = h[c].answer /\ j.status = results[h[c].action] /\ j.at = "settle"
      BY <1>0, <2>1 DEF Handler
    <3>2. h' = [h EXCEPT ![c] = j]
      BY <1>15, <2>1 DEF Finish, Types
    <3>3. results[h[c].action] = "ok" => performed'[h[c].action] > 0
      BY <1>0, <1>15 DEF Finish, adapters, Earned, Done
    <3> HIDE DEF j
    <3>4. \/ h'[c].status \in {"failed", "stale", "unsupported"}
          \/ performed'[h[c].action] > 0
      BY <1>0, <2>1, <3>1, <3>2, <3>3 DEF Final
    <3>. QED
      BY <1>0, <3>1, <3>2, <3>4 DEF Honest
  <2>2. CASE results[h[c].action] \notin Final
    BY <1>0, <1>2, <1>15, <2>2 DEF Finish
  <2>. QED
    BY <2>1, <2>2
<1>16. ASSUME Dismiss(c) PROVE Honest(c)
  <2>1. IsDismissal(c) /\ \E status \in Final : Decide(c, status)
    BY <1>0, <1>16 DEF Dismiss, At, HandlerEarned, IsDismissal
  <2>. QED
    BY <1>1, <2>1
<1>17. ASSUME Settle(c) PROVE Honest(c)
  <2>1. h' = [h EXCEPT ![c] = Resting]
    BY <1>17 DEF Settle
  <2>2. h'[c] = Resting
    BY <1>0, <2>1
  <2>. QED
    BY <2>2, IdleHandler DEF Honest
<1>. QED
  BY <1>4, <1>5, <1>6, <1>7, <1>8, <1>9, <1>10, <1>11, <1>12, <1>13, <1>14, <1>15, <1>16,
     <1>17 DEF Dispatch

LEMMA DispatchTouchesOne ==
  ASSUME Types, NEW c \in Conns, Dispatch(c), NEW d \in Conns, d # c PROVE h'[d] = h[d]
  BY DEF Types, Dispatch, Refuse, Recall, Reserve, CheckRevision, CheckTask, Resolve, Recheck,
         LookUp, FocusLocally, AskAdapter, TakeAnswer, GiveUp, Finish, Dismiss, Settle,
         Goto, Decide

LEMMA HandlersEarned ==
  ASSUME Types, Types', Earned, [Next]_vars PROVE \A d \in Conns : HandlerEarned(h[d])'
<1> SUFFICES ASSUME NEW d \in Conns PROVE HandlerEarned(h[d])'
  OBVIOUS
<1>0. /\ HandlerEarned(h[d]) /\ h[d] \in Handler /\ h'[d] \in Handler
      /\ h[d].action \in ActionIDs
  BY HandlerFields DEF Earned, Types
<1>1. ASSUME h'[d] = h[d] PROVE HandlerEarned(h[d])'
  <2>1. PICK j \in Handler : j = h[d]
    BY <1>0
  <2>2. HandlerEarned(j)'
    BY <1>0, <2>1, EarnedStays
  <2>. QED
    BY <1>1, <2>1, <2>2
<1>2. ASSUME NEW c \in Conns, Dispatch(c) PROVE HandlerEarned(h[d])'
  <2>1. CASE d # c
    <3>1. h'[d] = h[d]
      BY <1>2, <2>1, DispatchTouchesOne
    <3>. QED
      BY <1>1, <3>1
  <2>2. CASE d = c
    <3>1. Honest(d)
      BY <1>2, <2>2, DispatchHonest
    <3>2. Done(h[d].action) => performed'[h[d].action] > 0
      <4>1. PICK a \in ActionIDs : a = h[d].action
        BY <1>0
      <4>2. Done(a) => Done(a)'
        BY DoneStays
      <4>. QED
        BY <4>1, <4>2 DEF Done
    <3>. QED
      BY <1>0, <3>1, <3>2 DEF Honest, HandlerEarned, Done
  <2>. QED
    BY <2>1, <2>2
<1>3. ASSUME NEW c \in Conns, NEW a \in ActionIDs, Arrive(c, a) PROVE HandlerEarned(h[d])'
  <2>1. CASE d # c
    BY <1>1, <1>3, <2>1 DEF Arrive, Types
  <2>2. CASE d = c
    <3>1. h'[d] = [Idle(a) EXCEPT !.at = "arrived", !.frame = frames[a],
             !.fresh = frames[a].seen = revision /\ frames[a].generation = generation]
      BY <1>3, <2>2 DEF Arrive, Types
    <3>2. h'[d].at = "arrived" /\ h'[d].answer = "" /\ h'[d].status = ""
      BY <3>1 DEF Idle
    <3>. QED
      BY <3>2 DEF HandlerEarned
  <2>. QED
    BY <2>1, <2>2
<1>4. ASSUME NEW s \in Sessions, DeliverAnswer(s) PROVE HandlerEarned(h[d])'
  <2>1. CASE h'[d] = h[d]
    BY <1>1, <2>1
  <2>2. CASE h'[d] # h[d]
    <3>1. /\ Head(answers[s])[1] = h[d].action
          /\ h'[d] = [h[d] EXCEPT !.answer = Head(answers[s])[2]]
      BY <1>4, <2>2 DEF DeliverAnswer, Waiting
    <3>2. h'[d].answer = "ok" => Done(h[d].action)
      <4>1. answers[s] # <<>> /\ answers[s] \in Seq(Answers)
        BY <1>4 DEF DeliverAnswer, Types
      <4>2. 1 \in 1..Len(answers[s]) /\ Head(answers[s]) = answers[s][1]
        BY <4>1, HeadTailProperties, LenProperties, EmptySeq
      <4>3. h'[d].answer = answers[s][1][2]
        BY <1>0, <3>1, <4>2 DEF Handler
      <4>. QED
        BY <3>1, <4>2, <4>3 DEF Earned
    <3>3. /\ h'[d].action = h[d].action /\ h'[d].frame = h[d].frame
          /\ h'[d].status = h[d].status /\ h'[d].at = h[d].at
      BY <1>0, <3>1 DEF Handler
    <3>4. performed' = performed
      BY <1>4 DEF DeliverAnswer
    <3>. QED
      BY <1>0, <3>2, <3>3, <3>4 DEF HandlerEarned, Done
  <2>. QED
    BY <2>1, <2>2
<1>5. CASE EdgeRestart
  <2>1. h'[d] = Resting
    BY <1>5 DEF EdgeRestart, AllIdle
  <2>. QED
    BY <2>1, IdleHandler DEF HandlerEarned
<1>6. CASE UNCHANGED h
  BY <1>1, <1>6
<1>. QED
  BY <1>2, <1>3, <1>4, <1>5, <1>6
     DEF Next, vars, Appear, Change, Open, Close, Perform, Compose

LEMMA ResultsEarned ==
  ASSUME Types, Earned, [Next]_vars, NEW a \in ActionIDs, results'[a] = "ok"
  PROVE  Done(a)'
<1>1. CASE results[a] = "ok"
  BY <1>1, DoneStays DEF Earned
<1>2. CASE results[a] # "ok"
  <2>1. results' # results
    BY <1>2
  <2>2. ~EdgeRestart
    BY DEF EdgeRestart
  <2>3. PICK c \in Conns : Reserve(c) \/ Finish(c)
    BY <2>1, <2>2
       DEF Next, vars, router, Appear, Change, Open, Close, Perform, DeliverAnswer, Compose,
           Arrive, Dispatch, Refuse, Recall, CheckRevision, CheckTask, Resolve, Recheck,
           LookUp, FocusLocally, AskAdapter, TakeAnswer, GiveUp, Dismiss, Settle, ReadsOnly
  <2>4. CASE Reserve(c)
    BY <1>2, <2>4 DEF Reserve, Types
  <2>5. CASE Finish(c)
    <3>1. /\ results' = [results EXCEPT ![h[c].action] = h[c].status]
          /\ h[c].at = "finish" /\ performed' = performed
      BY <2>1, <2>5 DEF Finish, At, adapters
    <3>2. a = h[c].action /\ h[c].status = "ok"
      BY <1>2, <3>1 DEF Types
    <3>. QED
      BY <3>1, <3>2 DEF Earned, HandlerEarned, Done
  <2>. QED
    BY <2>3, <2>4, <2>5
<1>. QED
  BY <1>1, <1>2

LEMMA AnswersEarned ==
  ASSUME Types, Types', Earned, [Next]_vars, NEW s \in Sessions, NEW i \in 1..Len(answers'[s]),
         answers'[s][i][2] = "ok"
  PROVE  Done(answers[s][i][1])'
<1>0. answers[s] \in Seq(Answers) /\ answers'[s] \in Seq(Answers)
  BY DEF Types
<1>1. ASSUME NEW k \in 1..Len(answers[s]), answers'[s][i] = answers[s][k]
      PROVE  Done(answers[s][i][1])'
  <2>1. answers[s][k] \in Answers
    BY <1>0, ElementOfSeq
  <2>2. PICK a \in ActionIDs : a = answers[s][k][1]
    BY <2>1 DEF Answers
  <2>3. Done(a)
    BY <1>1, <2>2 DEF Earned
  <2>4. Done(a)'
    BY <2>3, DoneStays
  <2>. QED
    BY <1>1, <2>2, <2>4 DEF Done
<1>2. CASE answers'[s] = answers[s]
  BY <1>1, <1>2
<1>3. CASE answers'[s] = <<>>
  BY <1>3, EmptySeq
<1>4. CASE answers[s] # <<>> /\ answers'[s] = Tail(answers[s])
  <2>1. i + 1 \in 1..Len(answers[s]) /\ answers'[s][i] = answers[s][i + 1]
    BY <1>0, <1>4, HeadTailProperties, LenProperties
  <2>. QED
    BY <1>1, <2>1
<1>5. ASSUME NEW status \in {"ok", "rejected"}, Len(asked[s]) > 0, asked[s] # <<>>,
             answers'[s] = Append(answers[s], <<Head(asked[s]), status>>),
             performed' = IF status = "ok" THEN [performed EXCEPT ![Head(asked[s])] = @ + 1]
                          ELSE performed
      PROVE  Done(answers[s][i][1])'
  <2>1. Head(asked[s]) \in ActionIDs
    BY <1>5, HeadTailProperties DEF Types
  <2>2. <<Head(asked[s]), status>> \in Answers
    BY <2>1 DEF Answers
  <2>3. /\ Len(answers'[s]) = Len(answers[s]) + 1
        /\ \A k \in 1..Len(answers[s]) : answers'[s][k] = answers[s][k]
        /\ answers'[s][Len(answers[s]) + 1] = <<Head(asked[s]), status>>
    BY <1>0, <1>5, <2>2, AppendProperties
  <2>4. CASE i \in 1..Len(answers[s])
    BY <1>1, <2>3, <2>4
  <2>5. CASE i = Len(answers[s]) + 1
    <3>1. status = "ok" /\ answers'[s][i][1] = Head(asked[s])
      BY <2>3, <2>5
    <3>2. performed'[Head(asked[s])] > 0
      <4>1. performed \in [ActionIDs -> Nat]
            /\ performed' = [performed EXCEPT ![Head(asked[s])] = @ + 1]
        BY <1>5, <3>1 DEF Types
      <4>. QED
        BY <2>1, <4>1
    <3>. QED
      BY <3>1, <3>2 DEF Done
  <2>. QED
    <3>1. Len(answers[s]) \in Nat
      BY <1>0, LenProperties
    <3>. QED
      BY <2>3, <2>4, <2>5, <3>1
<1>6. ASSUME NEW r \in Sessions, Close(r) PROVE Done(answers[s][i][1])'
  BY <1>2, <1>3, <1>6 DEF Close, Types
<1>7. ASSUME NEW r \in Sessions, DeliverAnswer(r) PROVE Done(answers[s][i][1])'
  BY <1>2, <1>4, <1>7 DEF DeliverAnswer, Types
<1>8. ASSUME NEW r \in Sessions, Perform(r) PROVE Done(answers[s][i][1])'
  <2>1. PICK status \in {"ok", "rejected"} :
          /\ answers' = IF session[r] = "open"
               THEN [answers EXCEPT ![r] = Append(@, <<Head(asked[r]), status>>)]
               ELSE answers
          /\ performed' = IF status = "ok"
                          THEN [performed EXCEPT ![Head(asked[r])] = @ + 1]
                          ELSE performed
    BY <1>8 DEF Perform
  <2>2. CASE answers'[s] = answers[s]
    BY <1>2, <2>2
  <2>3. CASE answers'[s] # answers[s]
    <3>1. r = s /\ answers'[s] = Append(answers[s], <<Head(asked[s]), status>>)
      BY <2>1, <2>3 DEF Types
    <3>2. asked[s] # <<>> /\ Len(asked[s]) > 0
      BY <1>8, <3>1, EmptySeq, LenProperties DEF Perform, Types
    <3>. QED
      BY <1>5, <2>1, <3>1, <3>2
  <2>. QED
    BY <2>2, <2>3
<1>9. CASE EdgeRestart
  BY <1>3, <1>9 DEF EdgeRestart
<1>10. CASE UNCHANGED answers
  BY <1>2, <1>10
<1>. QED
  BY <1>6, <1>7, <1>8, <1>9, <1>10
     DEF Next, vars, adapters, Appear, Change, Open, Compose, Arrive,
         Dispatch, Refuse, Recall, Reserve, CheckRevision, CheckTask, Resolve, Recheck,
         LookUp, FocusLocally, AskAdapter, TakeAnswer, GiveUp, Finish, Dismiss, Settle,
         ReadsOnly

\* "ok" is told only of a focus that some adapter carried out, through retries,
\* duplicates, timeouts, closed sessions and Edge restarts (Dispatch, dispatch,
\* deliver, finish).
THEOREM OkIsPerformed == Spec => []OkMeansPerformed
<1>1. Init => Types /\ Earned
  <2> SUFFICES ASSUME Init PROVE Earned
    BY InitTypes
  <2>1. \A c \in Conns : HandlerEarned(h[c])
    BY IdleHandler DEF Init, AllIdle, HandlerEarned
  <2>. QED
    <3>1. \A s \in Sessions : answers[s] = <<>>
      BY DEF Init
    <3>2. \A s \in Sessions : 1..Len(answers[s]) = {}
      BY <3>1, EmptySeq
    <3>3. \A a \in ActionIDs : results[a] # "ok"
      BY DEF Init
    <3>. QED
      BY <2>1, <3>2, <3>3 DEF Earned
<1>2. Types /\ Earned /\ [Next]_vars => (Types /\ Earned)'
  <2> SUFFICES ASSUME Types, Earned, [Next]_vars PROVE Types' /\ Earned'
    OBVIOUS
  <2>1. Types'
    BY TypesStep
  <2>2. \A d \in Conns : HandlerEarned(h[d])'
    BY <2>1, HandlersEarned
  <2>3. \A a \in ActionIDs : results'[a] = "ok" => Done(a)'
    BY ResultsEarned
  <2>4. \A s \in Sessions : \A i \in 1..Len(answers'[s]) :
          answers'[s][i][2] = "ok" => Done(answers[s][i][1])'
    BY <2>1, AnswersEarned
  <2>. QED
    BY <2>1, <2>2, <2>3, <2>4 DEF Earned
<1>3. Types /\ Earned => OkMeansPerformed
  BY DEF Earned, HandlerEarned, OkMeansPerformed, IsDismissal, Done
<1>. QED
  BY <1>1, <1>2, <1>3, PTL DEF Spec

-----------------------------------------------------------------------------
(* At most once.  Each execution of an action is paid for by a reservation   *)
(* of its ID, and an ID is reserved once more than it was forgotten.  After  *)
(* a restart the memory is empty, but what was reserved before names a task  *)
(* that is gone: it never gets as far as an adapter again.                   *)

Reserved(a) == \E i \in 1..Len(order) : order[i] = a

\* The goroutine may still have its action carried out.
Headed(j) ==
  \/ j.at \in {"lookup", "invoke"}
  \/ j.at \in {"check", "resolve"} /\ j.frame.task \in Live
  \/ j.at = "find" /\ j.frame.cap \notin Dismissals /\ j.frame.task \in Live

Going(a) == {c \in Conns : h[c].action = a /\ Headed(h[c])}

\* The requests for a on their way to an adapter.
Asked(a) ==
  {p \in Sessions \X Nat : p[2] \in 1..Len(asked[p[1]]) /\ asked[p[1]][p[2]] = a}

Outstanding(a) == Cardinality(Asked(a)) + performed[a]

Granted(a) == forgotten[a] + (IF Reserved(a) THEN 1 ELSE 0)

Credited(a) == Cardinality(Going(a)) + Outstanding(a) <= Granted(a)

\* An action of an earlier process.
Spent(a) ==
  /\ frames[a] # NoFrame /\ frames[a].generation < generation
  /\ Going(a) = {} /\ Outstanding(a) <= 1 + forgotten[a]

Covered(a) ==
  IsFiniteSet(Going(a)) /\ IsFiniteSet(Asked(a)) /\ (Credited(a) \/ Spent(a))

\* An ID in order is there once, is remembered, and was sent.
OrderKnown ==
  /\ order \in Seq(ActionIDs) /\ forgotten \in [ActionIDs -> Nat]
  /\ \A i, j \in 1..Len(order) : order[i] = order[j] => i = j
  /\ \A i \in 1..Len(order) : results[order[i]] # "" /\ frames[order[i]] # NoFrame

\* What a goroutine holds is what was sent under its action ID; what it will
\* remember is decided.
Carried(j) ==
  /\ j.at # "idle" => j.frame = frames[j.action]
  /\ j.at = "finish" => j.status # ""

Accounts ==
  /\ OrderKnown
  /\ \A c \in Conns : Carried(h[c])
  /\ \A a \in ActionIDs : Covered(a)

\* A goroutine's own step: only a reservation makes its action executable.
Progress(c) ==
  \/ h'[c].at = "idle"
  \/ /\ h[c].at # "idle" /\ h'[c].action = h[c].action /\ h'[c].frame = h[c].frame
     /\ h'[c].at = "finish" => h'[c].status # ""
     /\ Headed(h[c])' => Headed(h[c]) \/ Reserve(c)

LEMMA DispatchProgress == ASSUME Types, NEW c \in Conns, Dispatch(c) PROVE Progress(c)
<1> DEFINE Earlier == Headed(h[c])' => Headed(h[c]) \/ Reserve(c)
<1>0. /\ h[c] \in Handler /\ h[c].action \in ActionIDs /\ c \in DOMAIN h
      /\ "stale" \in Final /\ "failed" \in Final /\ "ok" \in Final /\ "unsupported" \in Final
      /\ \A step \in {"find", "check", "dismiss", "resolve", "recheck", "settle", "finish",
                      "waiting", "lookup", "invoke"} : step \in Steps
      /\ \A status \in Final : status # ""
  BY HandlerFields DEF Types, Final, Steps
<1>1. ASSUME h[c].at # "idle", NEW status \in Final, Decide(c, status) PROVE Progress(c)
  BY <1>0, <1>1, DecideEffect DEF Progress, Headed
<1>2. ASSUME h[c].at # "idle", NEW step \in Steps, Goto(c, step), step # "finish", Earlier
      PROVE  Progress(c)
  BY <1>2, GotoEffect DEF Progress
<1>3. ASSUME h[c].at # "idle", NEW j \in Handler, h' = [h EXCEPT ![c] = j],
             j.action = h[c].action, j.frame = h[c].frame, j.at # "finish", Earlier
      PROVE  Progress(c)
  BY <1>0, <1>3 DEF Progress
<1>4. ASSUME Refuse(c) PROVE Progress(c)
  <2> DEFINE j == [h[c] EXCEPT !.status = "failed", !.at = "settle"]
  <2>1. j \in Handler /\ j.action = h[c].action /\ j.frame = h[c].frame /\ j.at = "settle"
    BY <1>0 DEF Handler
  <2>2. h[c].at # "idle" /\ h' = [h EXCEPT ![c] = j]
    BY <1>4 DEF Refuse, At, Types
  <2> HIDE DEF j
  <2>. QED
    BY <1>0, <1>3, <2>1, <2>2 DEF Headed
<1>5. ASSUME Recall(c) PROVE Progress(c)
  <2> DEFINE status == IF results[h[c].action] = "pending" THEN "failed"
                       ELSE results[h[c].action]
             j == [h[c] EXCEPT !.status = status, !.at = "settle"]
  <2>1. status \in Final
    BY <1>0, <1>5 DEF Recall, Remembered, Types, Results
  <2>2. h[c].at # "idle" /\ h' = [h EXCEPT ![c] = j]
    BY <1>5 DEF Recall, At, Types
  <2> HIDE DEF status
  <2>3. j \in Handler /\ j.action = h[c].action /\ j.frame = h[c].frame /\ j.at = "settle"
    BY <1>0, <2>1 DEF Handler
  <2> HIDE DEF j
  <2>. QED
    BY <1>0, <1>3, <2>2, <2>3 DEF Headed
<1>6. ASSUME Reserve(c) PROVE Progress(c)
  BY <1>0, <1>2, <1>6 DEF Reserve, At
<1>7. ASSUME CheckRevision(c) PROVE Progress(c)
  <2>1. h[c].at # "idle" /\ (h[c].at = "check" \/ h[c].frame.cap \in Dismissals)
    BY <1>7 DEF CheckRevision, At, IsDismissal
  <2>2. CASE h[c].frame.seen # revision
    BY <1>0, <1>1, <1>7, <2>1, <2>2 DEF CheckRevision
  <2>3. CASE h[c].frame.seen = revision
    <3>1. Goto(c, "find") /\ Live' = Live
      BY <1>7, <2>3 DEF CheckRevision, ReadsOnly, core, Live
    <3>2. h'[c].at = "find" /\ h'[c].frame = h[c].frame
      BY <1>0, <3>1, GotoEffect
    <3>3. Earlier
      BY <2>1, <3>1, <3>2 DEF Headed
    <3>. QED
      BY <1>0, <1>2, <2>1, <3>1, <3>3
  <2>. QED
    BY <2>2, <2>3
<1>8. ASSUME CheckTask(c) PROVE Progress(c)
  <2>1. h[c].at = "find" /\ Live' = Live
    BY <1>8 DEF CheckTask, At, ReadsOnly, core, Live
  <2>2. CASE \E status \in {"stale", "unsupported"} : Decide(c, status)
    BY <1>0, <1>1, <2>1, <2>2
  <2>3. CASE Goto(c, "dismiss")
    <3>1. Earlier
      BY <1>0, <2>3, GotoEffect DEF Headed
    <3>. QED
      BY <1>0, <1>2, <2>1, <2>3, <3>1
  <2>4. CASE Goto(c, "resolve") /\ ~IsDismissal(c)
    <3>1. h'[c].at = "resolve" /\ h'[c].frame = h[c].frame
      BY <1>0, <2>4, GotoEffect
    <3>2. Earlier
      BY <2>1, <2>4, <3>1 DEF Headed, IsDismissal
    <3>. QED
      BY <1>0, <1>2, <2>1, <2>4, <3>2
  <2>. QED
    BY <1>8, <2>2, <2>3, <2>4 DEF CheckTask
<1>9. ASSUME Resolve(c) PROVE Progress(c)
  <2> DEFINE j == [h[c] EXCEPT !.adapter = Harness(tasks[h[c].frame.task].owner),
                               !.at = "lookup"]
  <2>1. j \in Handler /\ j.action = h[c].action /\ j.frame = h[c].frame /\ j.at = "lookup"
    BY <1>0 DEF Handler, Harness, Harnesses
  <2>2. h[c].at = "resolve"
    BY <1>9 DEF Resolve, At
  <2>3. \/ h[c].frame.task \in Live /\ h' = [h EXCEPT ![c] = j]
        \/ Goto(c, "recheck")
    BY <1>9 DEF Resolve, Types
  <2> HIDE DEF j
  <2>4. CASE h[c].frame.task \in Live /\ h' = [h EXCEPT ![c] = j]
    BY <1>3, <2>1, <2>2, <2>4 DEF Headed
  <2>5. CASE Goto(c, "recheck")
    <3>1. Earlier
      BY <1>0, <2>5, GotoEffect DEF Headed
    <3>. QED
      BY <1>0, <1>2, <2>2, <2>5, <3>1
  <2>. QED
    BY <2>3, <2>4, <2>5
<1>10. ASSUME LookUp(c) PROVE Progress(c)
  <2> DEFINE j == [h[c] EXCEPT !.via = handlers[h[c].adapter], !.at = "invoke"]
  <2>1. j \in Handler /\ j.action = h[c].action /\ j.frame = h[c].frame /\ j.at = "invoke"
    BY <1>0 DEF Handler, Types
  <2>2. h[c].at = "lookup"
    BY <1>10 DEF LookUp, At
  <2>3. h' = [h EXCEPT ![c] = j] \/ Decide(c, "failed")
    BY <1>10 DEF LookUp, Types
  <2> HIDE DEF j
  <2>4. CASE h' = [h EXCEPT ![c] = j]
    BY <1>3, <2>1, <2>2, <2>4 DEF Headed
  <2>5. CASE Decide(c, "failed")
    BY <1>0, <1>1, <2>2, <2>5
  <2>. QED
    BY <2>3, <2>4, <2>5
<1>11. ASSUME AskAdapter(c) PROVE Progress(c)
  <2> DEFINE j == [h[c] EXCEPT !.answer = "", !.at = "waiting"]
  <2>1. j \in Handler /\ j.action = h[c].action /\ j.frame = h[c].frame /\ j.at = "waiting"
    BY <1>0 DEF Handler
  <2>2. h[c].at = "invoke"
    BY <1>11 DEF AskAdapter, At
  <2>3. h' = [h EXCEPT ![c] = j] \/ Decide(c, "failed")
    BY <1>11 DEF AskAdapter, Types
  <2> HIDE DEF j
  <2>4. CASE h' = [h EXCEPT ![c] = j]
    BY <1>3, <2>1, <2>2, <2>4 DEF Headed
  <2>5. CASE Decide(c, "failed")
    BY <1>0, <1>1, <2>2, <2>5
  <2>. QED
    BY <2>3, <2>4, <2>5
<1>12. ASSUME Recheck(c) \/ FocusLocally(c) \/ TakeAnswer(c) \/ GiveUp(c) \/ Dismiss(c)
       PROVE  Progress(c)
  <2>1. h[c].at # "idle" /\ \E status \in Final : Decide(c, status)
    BY <1>0, <1>12 DEF Recheck, FocusLocally, TakeAnswer, GiveUp, Dismiss, At
  <2>. QED
    BY <1>1, <2>1
<1>13. ASSUME Finish(c) PROVE Progress(c)
  <2> DEFINE j == [h[c] EXCEPT !.status = results[h[c].action], !.at = "settle"]
  <2>1. h[c].at # "idle"
    BY <1>13 DEF Finish, At
  <2>2. CASE results[h[c].action] \in Final
    <3>1. j \in Handler /\ j.action = h[c].action /\ j.frame = h[c].frame /\ j.at = "settle"
      BY <1>0, <2>2 DEF Handler
    <3>2. h' = [h EXCEPT ![c] = j]
      BY <1>13, <2>2 DEF Finish, Types
    <3> HIDE DEF j
    <3>. QED
      BY <1>0, <1>3, <2>1, <3>1, <3>2 DEF Headed
  <2>3. CASE results[h[c].action] \notin Final
    <3>1. Goto(c, "settle")
      BY <1>13, <2>3 DEF Finish
    <3>2. Earlier
      BY <1>0, <3>1, GotoEffect DEF Headed
    <3>. QED
      BY <1>0, <1>2, <2>1, <3>1, <3>2
  <2>. QED
    BY <2>2, <2>3
<1>14. ASSUME Settle(c) PROVE Progress(c)
  <2>1. h' = [h EXCEPT ![c] = Resting]
    BY <1>14 DEF Settle
  <2>. QED
    BY <1>0, <2>1, IdleHandler DEF Progress
<1>. QED
  BY <1>4, <1>5, <1>6, <1>7, <1>8, <1>9, <1>10, <1>11, <1>12, <1>13, <1>14 DEF Dispatch

\* What becomes of a goroutine within one process.
LEMMA HandlerMoves ==
  ASSUME Types, Types', [Next]_vars, ~EdgeRestart, NEW d \in Conns
  PROVE  \/ /\ h'[d].at = h[d].at /\ h'[d].action = h[d].action
            /\ h'[d].frame = h[d].frame /\ h'[d].status = h[d].status
         \/ Dispatch(d)
         \/ /\ h'[d].at = "arrived" /\ h'[d].frame = frames[h'[d].action]
            /\ frames' = frames
<1>1. ASSUME NEW c \in Conns, Dispatch(c), c # d PROVE h'[d] = h[d]
  BY <1>1, DispatchTouchesOne
<1>2. ASSUME NEW c \in Conns, NEW b \in ActionIDs, Arrive(c, b)
      PROVE  \/ h'[d] = h[d]
             \/ /\ h'[d].at = "arrived" /\ h'[d].frame = frames[h'[d].action]
                /\ frames' = frames
  <2> DEFINE f == frames[b].seen = revision /\ frames[b].generation = generation
             j == [Idle(b) EXCEPT !.at = "arrived", !.frame = frames[b], !.fresh = f]
  <2>1. h' = [h EXCEPT ![c] = j] /\ frames' = frames
    BY <1>2 DEF Arrive
  <2>2. j.at = "arrived" /\ j.action = b /\ j.frame = frames[b]
    BY DEF Idle
  <2> HIDE DEF j
  <2>. QED
    BY <2>1, <2>2 DEF Types
<1>3. ASSUME NEW s \in Sessions, DeliverAnswer(s)
      PROVE  /\ h'[d].at = h[d].at /\ h'[d].action = h[d].action
             /\ h'[d].frame = h[d].frame /\ h'[d].status = h[d].status
  <2> DEFINE answer == Head(answers[s])[2]
  <2>1. h'[d] = h[d] \/ h'[d] = [h[d] EXCEPT !.answer = answer]
    BY <1>3 DEF DeliverAnswer
  <2>2. h[d] \in Handler
    BY DEF Types
  <2> HIDE DEF answer
  <2>. QED
    BY <2>1, <2>2 DEF Handler
<1>4. CASE UNCHANGED h
  BY <1>4
<1>. QED
  BY <1>1, <1>2, <1>3, <1>4
     DEF Next, vars, Appear, Change, Open, Close, Perform, Compose

LEMMA GoingKept ==
  ASSUME Types, Types', Views, MovesOn, [Next]_vars, ~EdgeRestart, NEW a \in ActionIDs,
         \A c \in Conns : Reserve(c) => h[c].action # a
  PROVE  Going(a)' \subseteq Going(a)
<1> SUFFICES ASSUME NEW d \in Conns, h'[d].action = a, Headed(h[d])'
             PROVE  h[d].action = a /\ Headed(h[d])
  BY DEF Going
<1>1. ASSUME h'[d].at = h[d].at, h'[d].action = h[d].action, h'[d].frame = h[d].frame
      PROVE  h[d].action = a /\ Headed(h[d])
  <2>1. h[d].at # "idle"
    BY <1>1 DEF Headed
  <2>2. h[d].frame.task \in minted \cup {NoID}
    BY <2>1 DEF Views, HandlerSound, FrameSound
  <2>3. h[d].frame.task \in Live' => h[d].frame.task \in Live
    BY <2>2, RouterAssumption DEF RouterAssumption, MovesOn, Live
  <2>. QED
    BY <1>1, <2>3 DEF Headed
<1>2. CASE Dispatch(d)
  BY <1>2, DispatchProgress DEF Progress, Headed
<1>3. CASE h'[d].at = "arrived"
  BY <1>3 DEF Headed
<1>. QED
  BY <1>1, <1>2, <1>3, HandlerMoves

\* How an action stays paid for.
LEMMA CoveredKept ==
  ASSUME Types, Types', NEW a \in ActionIDs, Covered(a), generation' = generation,
         frames[a] # NoFrame => frames'[a] = frames[a],
         Going(a)' \subseteq Going(a), IsFiniteSet(Asked(a)'),
         Cardinality(Going(a)') + Outstanding(a)' <= Cardinality(Going(a)) + Outstanding(a),
         Going(a) = {} => Outstanding(a)' <= Outstanding(a),
         Granted(a)' >= Granted(a), forgotten'[a] >= forgotten[a],
         forgotten[a] \in Nat, forgotten'[a] \in Nat
  PROVE  Covered(a)'
<1>1. IsFiniteSet(Going(a)') /\ IsFiniteSet(Asked(a)') /\ IsFiniteSet(Going(a))
      /\ IsFiniteSet(Asked(a))
  BY FS_Subset DEF Covered
<1>2. /\ Cardinality(Going(a)) \in Nat /\ Cardinality(Going(a)') \in Nat
      /\ Cardinality(Asked(a)) \in Nat /\ Cardinality(Asked(a)') \in Nat
      /\ performed[a] \in Nat /\ performed'[a] \in Nat
  BY <1>1, FS_CardinalityType DEF Types
<1>3. Outstanding(a) \in Nat /\ Outstanding(a)' \in Nat /\ Granted(a) \in Nat /\ Granted(a)' \in Nat
  BY <1>2 DEF Outstanding, Granted
<1>4. CASE Credited(a)
  <2>1. Credited(a)'
    BY <1>2, <1>3, <1>4 DEF Credited
  <2>. QED
    BY <1>1, <2>1 DEF Covered
<1>5. CASE Spent(a)
  <2>1. Going(a)' = {} /\ Outstanding(a)' <= 1 + forgotten'[a]
    BY <1>3, <1>5 DEF Spent
  <2>2. Spent(a)'
    BY <1>5, <2>1 DEF Spent
  <2>. QED
    BY <1>1, <2>2 DEF Covered
<1>. QED
  BY <1>4, <1>5 DEF Covered

LEMMA FramesStay ==
  ASSUME Types, [Next]_vars, NEW a \in ActionIDs, frames[a] # NoFrame
  PROVE  frames'[a] = frames[a]
<1>1. CASE UNCHANGED frames
  BY <1>1
<1>2. ASSUME NEW b \in ActionIDs, Compose(b) PROVE frames'[a] = frames[a]
  BY <1>2 DEF Compose, Types
<1>. QED
  BY <1>1, <1>2
     DEF Next, vars, clients, Appear, Change, Open, Close, Perform, DeliverAnswer, Arrive,
         EdgeRestart, Dispatch, Refuse, Recall, Reserve, CheckRevision, CheckTask, Resolve,
         Recheck, LookUp, FocusLocally, AskAdapter, TakeAnswer, GiveUp, Finish, Dismiss,
         Settle, ReadsOnly

LEMMA CarriedStep ==
  ASSUME Types, Types', Views, [Next]_vars, \A c \in Conns : Carried(h[c])
  PROVE  \A c \in Conns : Carried(h[c])'
<1> SUFFICES ASSUME NEW d \in Conns PROVE Carried(h[d])'
  OBVIOUS
<1>0. /\ Carried(h[d]) /\ HandlerSound(h[d]) /\ h[d].action \in ActionIDs
      /\ h'[d].action \in ActionIDs
  BY HandlerFields DEF Views, Types
<1>1. CASE EdgeRestart
  <2>1. h'[d].at = "idle"
    BY <1>1, IdleHandler DEF EdgeRestart, AllIdle
  <2>. QED
    BY <2>1 DEF Carried
<1>2. CASE ~EdgeRestart
  <2>1. h[d].at # "idle" => frames[h[d].action] # NoFrame
    BY <1>0, RouterAssumption DEF Carried, HandlerSound, RouterAssumption
  <2>2. h[d].at # "idle" => h[d].frame = frames'[h[d].action]
    BY <1>0, <2>1, FramesStay DEF Carried
  <2>3. CASE /\ h'[d].at = h[d].at /\ h'[d].action = h[d].action
             /\ h'[d].frame = h[d].frame /\ h'[d].status = h[d].status
    BY <1>0, <2>2, <2>3 DEF Carried
  <2>4. CASE Dispatch(d)
    BY <2>2, <2>4, DispatchProgress DEF Progress, Carried
  <2>5. CASE /\ h'[d].at = "arrived" /\ h'[d].frame = frames[h'[d].action]
             /\ frames' = frames
    BY <2>5 DEF Carried
  <2>. QED
    BY <1>2, <2>3, <2>4, <2>5, HandlerMoves
<1>. QED
  BY <1>1, <1>2

\* What a reservation does to the memory: the ID is new in it, and what it lets
\* go of in exchange is counted.
LEMMA ReserveEffect ==
  ASSUME Types, OrderKnown, NEW c \in Conns, Reserve(c), NEW a \in ActionIDs, a = h[c].action,
         frames[a] # NoFrame
  PROVE  /\ OrderKnown'
         /\ ~Reserved(a) /\ Reserved(a)' /\ forgotten'[a] = forgotten[a]
         /\ \A b \in ActionIDs : forgotten'[b] >= forgotten[b]
         /\ \A b \in ActionIDs \ {a} : Granted(b)' >= Granted(b)
<1> DEFINE next == Append(order, a)
           full == Full(next)
           old  == Head(next)
           kept == [results EXCEPT ![a] = "pending"]
           n    == Len(order)
<1>1. /\ order' = IF full THEN Tail(next) ELSE next
      /\ results' = IF full THEN [kept EXCEPT ![old] = ""] ELSE kept
      /\ forgotten' = IF full THEN [forgotten EXCEPT ![old] = @ + 1] ELSE forgotten
      /\ frames' = frames /\ results[a] = ""
  BY DEF Reserve, Remembered, clients
<1>2. /\ order \in Seq(ActionIDs) /\ n \in Nat
      /\ next \in Seq(ActionIDs) /\ Len(next) = n + 1
      /\ next[n + 1] = a /\ \A i \in 1..n : next[i] = order[i]
  <2>1. order \in Seq(ActionIDs)
    BY DEF OrderKnown
  <2>2. n \in Nat
    BY <2>1, LenProperties
  <2>. QED
    BY <2>1, <2>2, AppendProperties
<1>3. \A i \in 1..n : order[i] # a /\ order[i] \in ActionIDs
  BY <1>1, <1>2, ElementOfSeq DEF OrderKnown
<1>4. \A i, j \in 1..(n + 1) : next[i] = next[j] => i = j
  <2> SUFFICES ASSUME NEW i \in 1..(n + 1), NEW j \in 1..(n + 1), next[i] = next[j]
               PROVE  i = j
    OBVIOUS
  <2> HIDE DEF next
  <2>1. CASE i \in 1..n /\ j \in 1..n
    BY <1>2, <2>1 DEF OrderKnown
  <2>2. CASE i = n + 1 \/ j = n + 1
    <3> HIDE DEF n
    <3>. QED
      BY <1>2, <1>3, <2>2
  <2>. QED
    BY <1>2, <2>1, <2>2
<1>5. ~Reserved(a)
  BY <1>3 DEF Reserved
<1>6. /\ forgotten \in [ActionIDs -> Nat] /\ results \in [ActionIDs -> Results]
      /\ kept \in [ActionIDs -> Results] /\ kept[a] = "pending"
      /\ \A b \in ActionIDs \ {a} : kept[b] = results[b]
  BY DEF OrderKnown, Types, Results
<1>7. \A i \in 1..(n + 1) : /\ next[i] \in ActionIDs
                            /\ kept[next[i]] # "" /\ frames[next[i]] # NoFrame
  <2>1. \A i \in 1..n : kept[order[i]] # "" /\ frames[order[i]] # NoFrame
    BY <1>3, <1>6 DEF OrderKnown
  <2>2. kept[a] # "" /\ frames[a] # NoFrame
    BY <1>6
  <2> HIDE DEF next, kept, n
  <2>3. \A i \in 1..(n + 1) : i \in 1..n \/ i = n + 1
    BY <1>2
  <2>. QED
    BY <1>2, <1>3, <2>1, <2>2, <2>3
<1>8. CASE ~full
  <2>1. order' = next /\ results' = kept /\ forgotten' = forgotten
    BY <1>1, <1>8
  <2>2. OrderKnown'
    <3> HIDE DEF next, kept, n
    <3>1. /\ order' \in Seq(ActionIDs) /\ Len(order') = n + 1
          /\ forgotten' \in [ActionIDs -> Nat]
      BY <1>2, <1>6, <2>1
    <3>2. \A i, j \in 1..(n + 1) : order'[i] = order'[j] => i = j
      BY <1>4, <2>1
    <3>3. \A i \in 1..(n + 1) : results'[order'[i]] # "" /\ frames'[order'[i]] # NoFrame
      BY <1>1, <1>7, <2>1
    <3>. QED
      BY <3>1, <3>2, <3>3 DEF OrderKnown
  <2>3. Reserved(a)' /\ \A b \in ActionIDs : Reserved(b) => Reserved(b)'
    <3> HIDE DEF next
    <3>. QED
      BY <1>2, <2>1 DEF Reserved
  <2>4. \A b \in ActionIDs : forgotten'[b] = forgotten[b] /\ forgotten[b] \in Nat
    BY <1>6, <2>1
  <2>. QED
    BY <1>5, <2>2, <2>3, <2>4 DEF Granted
<1>9. CASE full
  <2>1. n >= 1
    BY <1>2, <1>9, RouterAssumption DEF RouterAssumption, Full
  <2>2. /\ order' = Tail(next) /\ results' = [kept EXCEPT ![old] = ""]
        /\ forgotten' = [forgotten EXCEPT ![old] = @ + 1]
    BY <1>1, <1>9
  <2>3. /\ order' \in Seq(ActionIDs) /\ Len(order') = n
        /\ \A i \in 1..n : order'[i] = next[i + 1]
        /\ old = next[1] /\ old = order[1] /\ old \in ActionIDs /\ old # a
    <3>1. next # <<>>
      BY <1>2, EmptySeq
    <3>2. /\ old = next[1] /\ Tail(next) \in Seq(ActionIDs) /\ Len(Tail(next)) = Len(next) - 1
          /\ \A i \in 1..Len(Tail(next)) : Tail(next)[i] = next[i + 1]
      <4> HIDE DEF next
      <4>. QED
        BY <1>2, <3>1, HeadTailProperties
    <3>3. 1 \in 1..n /\ (n + 1) - 1 = n
      BY <1>2, <2>1
    <3> HIDE DEF next, n, old
    <3>4. old = order[1] /\ old \in ActionIDs /\ old # a
      BY <1>2, <1>3, <3>2, <3>3
    <3>5. Len(Tail(next)) = n
      BY <1>2, <3>2, <3>3
    <3>. QED
      BY <2>2, <3>2, <3>4, <3>5
  <2> HIDE DEF next, kept, old
  <2>4. \A i \in 1..n : i + 1 \in 1..(n + 1) /\ next[i + 1] # old
    BY <1>2, <1>4, <2>3
  <2>5. OrderKnown'
    <3>1. forgotten' \in [ActionIDs -> Nat]
      <4>1. forgotten[old] + 1 \in Nat
        BY <1>6, <2>3
      <4>. QED
        BY <1>6, <2>2, <2>3, <4>1
    <3>2. ASSUME NEW i \in 1..n, NEW j \in 1..n, order'[i] = order'[j] PROVE i = j
      <4>1. i + 1 \in 1..(n + 1) /\ j + 1 \in 1..(n + 1) /\ next[i + 1] = next[j + 1]
        BY <2>3, <2>4, <3>2
      <4>2. i + 1 = j + 1
        BY <1>4, <4>1
      <4>. QED
        BY <4>2
    <3>3. \A i \in 1..n : results'[order'[i]] # "" /\ frames'[order'[i]] # NoFrame
      <4> SUFFICES ASSUME NEW i \in 1..n
                   PROVE  results'[order'[i]] # "" /\ frames'[order'[i]] # NoFrame
        OBVIOUS
      <4>1. /\ order'[i] = next[i + 1] /\ next[i + 1] \in ActionIDs /\ next[i + 1] # old
            /\ kept[next[i + 1]] # "" /\ frames[next[i + 1]] # NoFrame
        BY <1>7, <2>3, <2>4
      <4>2. results'[next[i + 1]] = kept[next[i + 1]]
        BY <1>6, <2>2, <4>1
      <4>. QED
        BY <1>1, <4>1, <4>2
    <3>. QED
      BY <2>3, <3>1, <3>2, <3>3 DEF OrderKnown
  <2>6. Reserved(a)'
    <3>1. n \in 1..n /\ order'[n] = a
      BY <1>2, <2>1, <2>3
    <3>. QED
      BY <2>3, <3>1 DEF Reserved
  <2>7. \A b \in ActionIDs : b # old /\ Reserved(b) => Reserved(b)'
    <3> SUFFICES ASSUME NEW b \in ActionIDs, b # old, NEW i \in 1..n, order[i] = b
                 PROVE  Reserved(b)'
      BY DEF Reserved
    <3>1. i # 1 /\ i - 1 \in 1..n /\ (i - 1) + 1 = i
      BY <1>2, <2>3
    <3>2. order'[i - 1] = b
      BY <1>2, <2>3, <3>1
    <3>. QED
      BY <2>3, <3>1, <3>2 DEF Reserved
  <2>8. /\ forgotten'[old] = forgotten[old] + 1 /\ forgotten[old] \in Nat
        /\ \A b \in ActionIDs : b # old => forgotten'[b] = forgotten[b] /\ forgotten[b] \in Nat
    BY <1>6, <2>2, <2>3
  <2>9. \A b \in ActionIDs \ {a} : Granted(b)' >= Granted(b)
    <3> SUFFICES ASSUME NEW b \in ActionIDs \ {a} PROVE Granted(b)' >= Granted(b)
      OBVIOUS
    <3>1. CASE b = old
      BY <2>8, <3>1 DEF Granted
    <3>2. CASE b # old
      BY <2>7, <2>8, <3>2 DEF Granted
    <3>. QED
      BY <3>1, <3>2
  <2>10. \A b \in ActionIDs : forgotten'[b] >= forgotten[b]
    <3> SUFFICES ASSUME NEW b \in ActionIDs PROVE forgotten'[b] >= forgotten[b]
      OBVIOUS
    <3>. QED
      BY <2>8
  <2>. QED
    BY <1>5, <2>3, <2>5, <2>6, <2>8, <2>9, <2>10
<1>. QED
  BY <1>8, <1>9

\* An action that a goroutine holds was sent.
LEMMA HeldWasSent ==
  ASSUME Types, Views, NEW c \in Conns, Carried(h[c]), h[c].at # "idle"
  PROVE  /\ h[c].action \in ActionIDs /\ frames[h[c].action] # NoFrame
         /\ h[c].frame = frames[h[c].action] /\ FrameSound(h[c].frame)
<1>1. h[c] \in Handler /\ h[c].action \in ActionIDs
  BY HandlerFields DEF Types
<1>2. h[c].frame \in Frame /\ FrameSound(h[c].frame) /\ h[c].frame = frames[h[c].action]
  BY DEF Views, HandlerSound, Carried
<1>. QED
  BY <1>1, <1>2, RouterAssumption DEF RouterAssumption

LEMMA OrderStep ==
  ASSUME Types, Types', Views, OrderKnown, \A c \in Conns : Carried(h[c]), [Next]_vars
  PROVE  OrderKnown'
<1>0. /\ order \in Seq(ActionIDs)
      /\ \A i \in 1..Len(order) : order[i] \in ActionIDs
  BY ElementOfSeq DEF OrderKnown
<1>1. ASSUME NEW c \in Conns, Reserve(c) PROVE OrderKnown'
  <2>1. h[c].at # "idle"
    BY <1>1 DEF Reserve, At
  <2>. QED
    BY <1>1, <2>1, HeldWasSent, ReserveEffect
<1>2. CASE EdgeRestart
  <2>1. order' = <<>> /\ forgotten' = forgotten
    BY <1>2 DEF EdgeRestart
  <2>2. order' \in Seq(ActionIDs) /\ 1..Len(order') = {}
    BY <2>1, EmptySeq
  <2>3. forgotten' \in [ActionIDs -> Nat]
    BY <2>1 DEF OrderKnown
  <2>. QED
    BY <2>2, <2>3 DEF OrderKnown
<1>3. ASSUME UNCHANGED <<order, forgotten>>, \A a \in ActionIDs : results[a] # "" => results'[a] # ""
      PROVE  OrderKnown'
  <2>1. \A i \in 1..Len(order) : frames'[order[i]] # NoFrame
    BY <1>0, FramesStay DEF OrderKnown
  <2>2. \A i \in 1..Len(order) : results'[order[i]] # ""
    BY <1>0, <1>3 DEF OrderKnown
  <2>. QED
    BY <1>3, <2>1, <2>2 DEF OrderKnown
<1>4. ASSUME NEW c \in Conns, Finish(c) PROVE OrderKnown'
  <2>1. h[c].status # "" /\ h[c].action \in ActionIDs
    BY <1>4, HandlerFields DEF Finish, At, Carried, Types
  <2>2. UNCHANGED results \/ results' = [results EXCEPT ![h[c].action] = h[c].status]
    BY <1>4 DEF Finish
  <2>3. \A a \in ActionIDs : results[a] # "" => results'[a] # ""
    BY <2>1, <2>2 DEF Types
  <2>. QED
    BY <1>3, <1>4, <2>3 DEF Finish
<1>5. CASE UNCHANGED <<results, order, forgotten>>
  BY <1>3, <1>5
<1>. QED
  BY <1>1, <1>2, <1>4, <1>5
     DEF Next, vars, router, Appear, Change, Open, Close, Perform, DeliverAnswer, Compose,
         Arrive, Dispatch, Refuse, Recall, CheckRevision, CheckTask, Resolve, Recheck,
         LookUp, FocusLocally, AskAdapter, TakeAnswer, GiveUp, Dismiss, Settle, ReadsOnly

\* An adapter that carries out a request takes it out of its queue.
LEMMA PerformSettles ==
  ASSUME Types, Types', NEW s \in Sessions, Perform(s), NEW a \in ActionIDs,
         IsFiniteSet(Asked(a))
  PROVE  IsFiniteSet(Asked(a)') /\ Outstanding(a)' <= Outstanding(a)
<1> DEFINE b == Head(asked[s])
           rest == Asked(a) \ {<<s, 1>>}
           f == [p \in Asked(a)' |-> IF p[1] = s THEN <<s, p[2] + 1>> ELSE p]
<1>1. /\ asked[s] \in Seq(ActionIDs) /\ asked[s] # <<>> /\ b \in ActionIDs
      /\ asked' = [asked EXCEPT ![s] = Tail(@)]
  BY HeadTailProperties DEF Perform, Types
<1>2. /\ Len(asked[s]) \in Nat \ {0} /\ Len(asked'[s]) = Len(asked[s]) - 1
      /\ \A i \in 1..Len(asked'[s]) : asked'[s][i] = asked[s][i + 1]
      /\ \A r \in Sessions \ {s} : asked'[r] = asked[r]
      /\ asked[s][1] = b
  <2>1. asked'[s] = Tail(asked[s]) /\ \A r \in Sessions \ {s} : asked'[r] = asked[r]
    BY <1>1 DEF Types
  <2>2. Len(asked[s]) \in Nat \ {0}
    BY <1>1, LenProperties, EmptySeq
  <2>3. asked[s][1] = b
    BY <1>1
  <2>4. /\ Len(Tail(asked[s])) = Len(asked[s]) - 1
        /\ \A i \in 1..Len(Tail(asked[s])) : Tail(asked[s])[i] = asked[s][i + 1]
    BY <1>1, HeadTailProperties
  <2>. QED
    BY <2>1, <2>2, <2>3, <2>4
<1>3. ASSUME NEW p \in Asked(a)' PROVE f[p] \in rest
  <2>1. /\ p \in Sessions \X Nat /\ p[2] \in 1..Len(asked'[p[1]]) /\ asked'[p[1]][p[2]] = a
        /\ p = <<p[1], p[2]>>
    BY DEF Asked
  <2>2. CASE p[1] = s
    <3>1. f[p] = <<s, p[2] + 1>> /\ p[2] + 1 \in Nat /\ p[2] + 1 # 1
      BY <2>1, <2>2
    <3>2. p[2] + 1 \in 1..Len(asked[s]) /\ asked[s][p[2] + 1] = a
      BY <1>2, <2>1, <2>2
    <3>3. <<s, p[2] + 1>> \in Asked(a) /\ <<s, p[2] + 1>> # <<s, 1>>
      BY <3>1, <3>2 DEF Asked
    <3> HIDE DEF f
    <3>. QED
      BY <3>1, <3>3
  <2>3. CASE p[1] # s
    <3>1. f[p] = p /\ asked'[p[1]] = asked[p[1]]
      BY <1>2, <2>1, <2>3
    <3>2. p \in Asked(a) /\ p # <<s, 1>>
      BY <2>1, <2>3, <3>1 DEF Asked
    <3> HIDE DEF f
    <3>. QED
      BY <3>1, <3>2
  <2>. QED
    BY <2>2, <2>3
<1>4. ASSUME NEW p \in Asked(a)', NEW q \in Asked(a)', f[p] = f[q] PROVE p = q
  <2>1. /\ p \in Sessions \X Nat /\ p = <<p[1], p[2]>> /\ p[2] \in Nat
        /\ q \in Sessions \X Nat /\ q = <<q[1], q[2]>> /\ q[2] \in Nat
    BY DEF Asked
  <2>2. /\ f[p] = IF p[1] = s THEN <<s, p[2] + 1>> ELSE p
        /\ f[q] = IF q[1] = s THEN <<s, q[2] + 1>> ELSE q
    OBVIOUS
  <2> HIDE DEF f
  <2>3. f[p][1] = p[1] /\ f[q][1] = q[1]
    BY <2>1, <2>2
  <2>4. f[p][2] = (IF p[1] = s THEN p[2] + 1 ELSE p[2])
        /\ f[q][2] = (IF q[1] = s THEN q[2] + 1 ELSE q[2])
    BY <2>1, <2>2
  <2>5. p[1] = q[1] /\ p[2] = q[2]
    BY <1>4, <2>1, <2>3, <2>4
  <2>. QED
    BY <2>1, <2>5
<1>5. f \in Injection(Asked(a)', rest)
  <2>1. f \in [Asked(a)' -> rest]
    BY <1>3
  <2> HIDE DEF f
  <2>. QED
    BY <1>4, <2>1, Fun_IsInj
<1>6. /\ IsFiniteSet(rest)
      /\ Cardinality(rest) = IF <<s, 1>> \in Asked(a) THEN Cardinality(Asked(a)) - 1
                             ELSE Cardinality(Asked(a))
  BY FS_RemoveElement
<1>7. IsFiniteSet(Asked(a)') /\ Cardinality(Asked(a)') <= Cardinality(rest)
  BY <1>5, <1>6, FS_Injection
<1>8. /\ Cardinality(Asked(a)) \in Nat /\ Cardinality(Asked(a)') \in Nat
      /\ performed[a] \in Nat /\ performed'[a] \in Nat
  BY <1>7, FS_CardinalityType DEF Types
<1>9. CASE a = b
  <2>1. <<s, 1>> \in Asked(a)
    BY <1>1, <1>2, <1>9 DEF Asked
  <2>2. performed'[a] <= performed[a] + 1
    BY <1>1, <1>8 DEF Perform, Types
  <2> HIDE DEF rest, f
  <2>. QED
    BY <1>6, <1>7, <1>8, <2>1, <2>2 DEF Outstanding
<1>10. CASE a # b
  <2>1. performed'[a] = performed[a]
    BY <1>1, <1>10 DEF Perform, Types
  <2>2. Cardinality(rest) <= Cardinality(Asked(a)) /\ Cardinality(rest) \in Nat
    BY <1>6, <1>8, FS_CardinalityType
  <2> HIDE DEF rest, f
  <2>. QED
    BY <1>7, <1>8, <2>1, <2>2 DEF Outstanding
<1>. QED
  BY <1>9, <1>10

\* What a step of c may do to the account of a.
Balanced(a) ==
  /\ IsFiniteSet(Asked(a)')
  /\ Cardinality(Going(a)') + Outstanding(a)' <= Cardinality(Going(a)) + Outstanding(a)
  /\ Going(a) = {} => Outstanding(a)' <= Outstanding(a)

LEMMA Numbers ==
  ASSUME Types, Types', NEW a \in ActionIDs, Covered(a), Going(a)' \subseteq Going(a),
         IsFiniteSet(Asked(a)')
  PROVE  /\ Cardinality(Going(a)) \in Nat /\ Cardinality(Going(a)') \in Nat
         /\ Cardinality(Asked(a)) \in Nat /\ Cardinality(Asked(a)') \in Nat
         /\ performed[a] \in Nat /\ performed'[a] \in Nat
         /\ Cardinality(Going(a)') <= Cardinality(Going(a))
         /\ \A c \in Going(a) \ Going(a)' :
              Cardinality(Going(a)') + 1 <= Cardinality(Going(a))
<1>1. /\ IsFiniteSet(Going(a)) /\ IsFiniteSet(Asked(a)) /\ IsFiniteSet(Going(a)')
      /\ Cardinality(Going(a)') <= Cardinality(Going(a))
  BY FS_Subset DEF Covered
<1>2. /\ Cardinality(Going(a)) \in Nat /\ Cardinality(Going(a)') \in Nat
      /\ Cardinality(Asked(a)) \in Nat /\ Cardinality(Asked(a)') \in Nat
      /\ performed[a] \in Nat /\ performed'[a] \in Nat
  BY <1>1, FS_CardinalityType DEF Types
<1>3. ASSUME NEW c \in Going(a) \ Going(a)'
      PROVE  Cardinality(Going(a)') + 1 <= Cardinality(Going(a))
  <2>1. Going(a)' # Going(a)
    BY <1>3
  <2>2. Cardinality(Going(a)') # Cardinality(Going(a))
    BY <1>1, <2>1, FS_Subset
  <2>. QED
    BY <1>1, <1>2, <2>2
<1>. QED
  BY <1>1, <1>2, <1>3

LEMMA BalancedIfSettled ==
  ASSUME Types, Types', NEW a \in ActionIDs, Covered(a), Going(a)' \subseteq Going(a),
         IsFiniteSet(Asked(a)'), Outstanding(a)' <= Outstanding(a)
  PROVE  Balanced(a)
<1>1. Outstanding(a) \in Nat /\ Outstanding(a)' \in Nat
  BY Numbers DEF Outstanding
<1>. QED
  BY <1>1, Numbers DEF Balanced

\* A request goes to an adapter: its goroutine will not ask another.
LEMMA AskBalanced ==
  ASSUME Types, Types', NEW a \in ActionIDs, Covered(a), Going(a)' \subseteq Going(a),
         NEW c \in Conns, AskAdapter(c)
  PROVE  Balanced(a)
<1> DEFINE s == h[c].via
           b == h[c].action
           p == <<s, Len(asked[s]) + 1>>
<1>1. /\ c \in DOMAIN h /\ h[c].at = "invoke" /\ s \in Sessions /\ b \in ActionIDs
      /\ performed' = performed
  BY HandlerFields DEF AskAdapter, At, Types
<1>2. CASE UNCHANGED asked
  <2>1. Asked(a)' = Asked(a) /\ Outstanding(a)' = Outstanding(a)
    BY <1>1, <1>2 DEF Asked, Outstanding
  <2>2. Outstanding(a) \in Nat
    BY <2>1, Numbers DEF Outstanding, Covered
  <2>. QED
    BY <2>1, <2>2, BalancedIfSettled DEF Covered
<1>3. CASE /\ asked' = [asked EXCEPT ![s] = Append(@, b)]
           /\ h' = [h EXCEPT ![c].answer = "", ![c].at = "waiting"]
  <2>1. /\ asked[s] \in Seq(ActionIDs) /\ Len(asked[s]) \in Nat
        /\ asked'[s] = Append(asked[s], b)
        /\ \A r \in Sessions : r # s => asked'[r] = asked[r]
    BY <1>1, <1>3, LenProperties DEF Types
  <2>2. /\ Len(asked'[s]) = Len(asked[s]) + 1
        /\ asked'[s][Len(asked[s]) + 1] = b
        /\ \A i \in 1..Len(asked[s]) : asked'[s][i] = asked[s][i]
    BY <1>1, <2>1, AppendProperties
  <2>3. CASE a # b
    <3>1. \A r \in Sessions, i \in Nat :
            /\ i \in 1..Len(asked'[r]) /\ asked'[r][i] = a
            <=> i \in 1..Len(asked[r]) /\ asked[r][i] = a
      <4> SUFFICES ASSUME NEW r \in Sessions, NEW i \in Nat
                   PROVE  /\ i \in 1..Len(asked'[r]) /\ asked'[r][i] = a
                          <=> i \in 1..Len(asked[r]) /\ asked[r][i] = a
        OBVIOUS
      <4>1. CASE r # s
        BY <2>1, <4>1
      <4>2. CASE r = s
        <5> HIDE DEF s, b
        <5>1. i \in 1..Len(asked[s]) \/ i = Len(asked[s]) + 1 \/ i \notin 1..Len(asked'[s])
          BY <2>1, <2>2
        <5>2. i \in 1..Len(asked[s]) => i \in 1..Len(asked'[s])
          BY <2>1, <2>2
        <5>3. Len(asked[s]) + 1 \notin 1..Len(asked[s])
          BY <2>1
        <5>. QED
          BY <2>2, <2>3, <4>2, <5>1, <5>2, <5>3
      <4>. QED
        BY <4>1, <4>2
    <3>2. Asked(a)' = Asked(a) /\ Outstanding(a)' = Outstanding(a)
      BY <1>1, <3>1 DEF Asked, Outstanding
    <3>3. Outstanding(a) \in Nat
      BY <3>2, Numbers DEF Outstanding, Covered
    <3>. QED
      BY <3>2, <3>3, BalancedIfSettled DEF Covered
  <2>4. CASE a = b
    <3>1. Asked(a)' \subseteq Asked(a) \cup {p}
      <4> SUFFICES ASSUME NEW q \in Asked(a)', q # p PROVE q \in Asked(a)
        OBVIOUS
      <4>1. /\ q \in Sessions \X Nat /\ q = <<q[1], q[2]>>
            /\ q[2] \in 1..Len(asked'[q[1]]) /\ asked'[q[1]][q[2]] = a
        BY DEF Asked
      <4>2. CASE q[1] = s
        <5>1. q[2] # Len(asked[s]) + 1
          BY <4>1, <4>2
        <5>2. q[2] \in 1..Len(asked[s]) /\ asked[s][q[2]] = a
          <6> HIDE DEF s, b
          <6>1. q[2] \in 1..(Len(asked[s]) + 1)
            BY <2>2, <4>1, <4>2
          <6>2. q[2] \in 1..Len(asked[s])
            BY <2>1, <5>1, <6>1
          <6>. QED
            BY <2>2, <4>1, <4>2, <6>2
        <5>. QED
          BY <4>1, <4>2, <5>2 DEF Asked
      <4>3. CASE q[1] # s
        BY <2>1, <4>1, <4>3 DEF Asked
      <4>. QED
        BY <4>2, <4>3
    <3>2. /\ IsFiniteSet(Asked(a) \cup {p}) /\ IsFiniteSet(Asked(a))
          /\ Cardinality(Asked(a) \cup {p}) =
               IF p \in Asked(a) THEN Cardinality(Asked(a)) ELSE Cardinality(Asked(a)) + 1
      BY FS_AddElement DEF Covered
    <3>3. /\ IsFiniteSet(Asked(a)')
          /\ Cardinality(Asked(a)') <= Cardinality(Asked(a) \cup {p})
      BY <3>1, <3>2, FS_Subset
    <3>4. c \in Going(a) /\ c \notin Going(a)'
      <4>1. h'[c].at = "waiting"
        <5>1. h[c] \in Handler /\ h' = [h EXCEPT ![c] = [h[c] EXCEPT !.answer = "", !.at = "waiting"]]
          BY <1>3 DEF Types
        <5>2. [h[c] EXCEPT !.answer = "", !.at = "waiting"].at = "waiting"
          BY <5>1 DEF Handler
        <5>. QED
          BY <1>1, <5>1, <5>2
      <4>. QED
        BY <1>1, <2>4, <4>1 DEF Going, Headed
    <3>5. Cardinality(Going(a)') + 1 <= Cardinality(Going(a))
      BY <3>3, <3>4, Numbers
    <3>. QED
      BY <1>1, <3>2, <3>3, <3>4, <3>5, Numbers DEF Balanced, Outstanding
  <2>. QED
    BY <2>3, <2>4
<1>. QED
  BY <1>2, <1>3 DEF AskAdapter

\* The Codex handler carries it out itself.
LEMMA FocusBalanced ==
  ASSUME Types, Types', NEW a \in ActionIDs, Covered(a), Going(a)' \subseteq Going(a),
         NEW c \in Conns, FocusLocally(c)
  PROVE  Balanced(a)
<1>1. /\ h[c].at = "invoke" /\ h[c].action \in ActionIDs /\ asked' = asked
      /\ "ok" \in Final /\ "failed" \in Final
  BY HandlerFields DEF FocusLocally, At, Types, Final
<1>2. Asked(a)' = Asked(a) /\ IsFiniteSet(Asked(a)')
  BY <1>1 DEF Asked, Covered
<1>3. CASE performed'[a] = performed[a]
  <2>1. Outstanding(a)' = Outstanding(a) /\ Outstanding(a) \in Nat
    BY <1>2, <1>3, Numbers DEF Outstanding
  <2>. QED
    BY <1>2, <2>1, BalancedIfSettled
<1>4. CASE performed'[a] # performed[a]
  <2>1. h[c].action = a /\ performed'[a] = performed[a] + 1 /\ Decide(c, "ok")
    BY <1>1, <1>4 DEF FocusLocally, Types
  <2>2. h'[c].at \in {"settle", "finish"}
    BY <1>1, <2>1, DecideEffect
  <2>3. c \in Going(a) /\ c \notin Going(a)'
    BY <1>1, <2>1, <2>2 DEF Going, Headed
  <2>4. Cardinality(Going(a)') + 1 <= Cardinality(Going(a))
    BY <1>2, <2>3, Numbers
  <2>. QED
    BY <1>2, <2>1, <2>3, <2>4, Numbers DEF Balanced, Outstanding
<1>. QED
  BY <1>3, <1>4

LEMMA RestartCovered ==
  ASSUME Types, Types', Views, OrderKnown, NEW a \in ActionIDs, Covered(a), EdgeRestart
  PROVE  Covered(a)'
<1>1. /\ generation' = generation + 1 /\ asked' = asked /\ performed' = performed
      /\ forgotten' = forgotten /\ frames' = frames /\ order' = <<>>
      /\ forgotten[a] \in Nat /\ generation \in Nat
  BY DEF EdgeRestart, clients, OrderKnown, Types
<1>2. Going(a)' = {}
  <2>1. \A c \in Conns : h'[c].at = "idle"
    BY IdleHandler DEF EdgeRestart, AllIdle
  <2>. QED
    BY <2>1 DEF Going, Headed
<1>3. Asked(a)' = Asked(a) /\ Outstanding(a)' = Outstanding(a)
  BY <1>1 DEF Asked, Outstanding
<1>4. ~Reserved(a)' /\ Granted(a)' = forgotten[a]
  <2>1. 1..Len(order') = {}
    BY <1>1, EmptySeq
  <2>2. ~Reserved(a)'
    BY <2>1 DEF Reserved
  <2>. QED
    BY <1>1, <2>2 DEF Granted
<1>5. /\ IsFiniteSet(Going(a)') /\ IsFiniteSet(Asked(a)')
      /\ Cardinality(Going(a)') = 0 /\ Cardinality(Going(a)) \in Nat
      /\ Outstanding(a) \in Nat
  BY <1>2, <1>3, FS_EmptySet, Numbers DEF Covered, Outstanding
<1>6. frames[a] # NoFrame => frames[a].generation < generation'
  <2>1. frames[a] # NoFrame => frames[a] \in Frame /\ FrameSound(frames[a])
    BY DEF Views, Types
  <2>2. frames[a] # NoFrame =>
          frames[a].generation \in Nat /\ frames[a].generation <= generation
    BY <2>1 DEF FrameSound, Frame
  <2>. QED
    BY <1>1, <2>2
<1>7. CASE Reserved(a) \/ Spent(a)
  <2>1. frames[a] # NoFrame
    BY <1>7 DEF Reserved, OrderKnown, Spent
  <2>2. Outstanding(a) <= 1 + forgotten[a]
    BY <1>1, <1>5, <1>7 DEF Covered, Credited, Granted, Spent
  <2>3. Spent(a)'
    BY <1>1, <1>2, <1>3, <1>6, <2>1, <2>2 DEF Spent
  <2>. QED
    BY <1>5, <2>3 DEF Covered
<1>8. CASE Credited(a) /\ ~Reserved(a)
  <2>1. Cardinality(Going(a)) + Outstanding(a) <= forgotten[a]
    BY <1>1, <1>8 DEF Credited, Granted
  <2>2. Credited(a)'
    BY <1>1, <1>3, <1>4, <1>5, <2>1 DEF Credited
  <2>. QED
    BY <1>5, <2>2 DEF Covered
<1>. QED
  BY <1>7, <1>8 DEF Covered

\* A reservation pays for the execution it makes possible; of an action of an
\* earlier process it makes none possible.
LEMMA ReserveCovered ==
  ASSUME Types, Types', Views, OrderKnown, NEW a \in ActionIDs, Covered(a),
         NEW c \in Conns, Carried(h[c]), Reserve(c), h[c].action = a
  PROVE  Covered(a)'
<1>1. /\ h[c].at # "idle" /\ generation' = generation /\ asked' = asked
      /\ performed' = performed /\ frames' = frames /\ Live' = Live /\ Goto(c, "check")
      /\ "check" \in Steps
  BY DEF Reserve, At, core, adapters, clients, Live, Steps
<1>2. frames[a] # NoFrame /\ h[c].frame = frames[a] /\ FrameSound(h[c].frame)
  BY <1>1, HeldWasSent
<1>3. ~Reserved(a) /\ Reserved(a)' /\ forgotten'[a] = forgotten[a] /\ forgotten[a] \in Nat
  BY <1>2, ReserveEffect DEF OrderKnown
<1>4. Asked(a)' = Asked(a) /\ Outstanding(a)' = Outstanding(a)
  BY <1>1 DEF Asked, Outstanding
<1>5. /\ h'[c].at = "check" /\ h'[c].frame = h[c].frame
      /\ \A d \in Conns : d # c => h'[d] = h[d]
  BY <1>1, GotoEffect
<1>6. Going(a)' \subseteq Going(a) \cup {c}
  BY <1>1, <1>5 DEF Going, Headed
<1>7. /\ IsFiniteSet(Going(a)) /\ IsFiniteSet(Asked(a)) /\ IsFiniteSet(Going(a) \cup {c})
      /\ Cardinality(Going(a) \cup {c}) <= Cardinality(Going(a)) + 1
  <2>1. IsFiniteSet(Going(a)) /\ Cardinality(Going(a)) \in Nat
    BY FS_CardinalityType DEF Covered
  <2>2. /\ IsFiniteSet(Going(a) \cup {c})
        /\ Cardinality(Going(a) \cup {c}) =
             IF c \in Going(a) THEN Cardinality(Going(a)) ELSE Cardinality(Going(a)) + 1
    BY <2>1, FS_AddElement
  <2>3. IsFiniteSet(Asked(a))
    BY DEF Covered
  <2>4. Cardinality(Going(a) \cup {c}) <= Cardinality(Going(a)) + 1
    BY <2>1, <2>2
  <2>. QED
    BY <2>1, <2>2, <2>3, <2>4
<1>8. /\ IsFiniteSet(Going(a)')
      /\ Cardinality(Going(a)') <= Cardinality(Going(a) \cup {c})
  BY <1>6, <1>7, FS_Subset
<1>9. /\ Cardinality(Going(a)) \in Nat /\ Cardinality(Going(a)') \in Nat
      /\ Cardinality(Going(a) \cup {c}) \in Nat
      /\ Outstanding(a) \in Nat
  BY <1>7, <1>8, FS_CardinalityType DEF Outstanding, Types
<1>10. CASE Credited(a)
  <2>1. Cardinality(Going(a)) + Outstanding(a) <= forgotten[a]
    BY <1>3, <1>10 DEF Credited, Granted
  <2>2. Granted(a)' = forgotten[a] + 1
    BY <1>3 DEF Granted
  <2>3. Credited(a)'
    BY <1>3, <1>4, <1>7, <1>8, <1>9, <2>1, <2>2 DEF Credited
  <2>. QED
    BY <1>4, <1>7, <1>8, <2>3 DEF Covered
<1>11. CASE Spent(a)
  <2>1. h[c].frame.task \notin Live
    BY <1>2, <1>11 DEF Spent, FrameSound
  <2>2. c \notin Going(a)'
    BY <1>1, <1>5, <2>1 DEF Going, Headed
  <2>3. Going(a)' = {}
    BY <1>1, <1>5, <1>6, <1>11, <2>2 DEF Spent
  <2>4. Spent(a)'
    BY <1>1, <1>3, <1>4, <1>11, <2>3 DEF Spent
  <2>. QED
    BY <1>4, <1>7, <1>8, <2>4 DEF Covered
<1>. QED
  BY <1>10, <1>11 DEF Covered

LEMMA CoveredStep ==
  ASSUME Types, Types', Views, Accounts, OrderKnown', [Next]_vars, NEW a \in ActionIDs
  PROVE  Covered(a)'
<1>0. /\ Covered(a) /\ OrderKnown /\ \A c \in Conns : Carried(h[c])
      /\ forgotten[a] \in Nat /\ forgotten'[a] \in Nat
  BY DEF Accounts, OrderKnown
<1>1. CASE EdgeRestart
  BY <1>0, <1>1, RestartCovered
<1>2. ASSUME NEW c \in Conns, Reserve(c), h[c].action = a PROVE Covered(a)'
  BY <1>0, <1>2, ReserveCovered
<1>3. CASE ~EdgeRestart /\ \A c \in Conns : Reserve(c) => h[c].action # a
  <2>1. MovesOn
    BY <1>3, NextMovesOn
  <2>2. Going(a)' \subseteq Going(a)
    BY <1>3, <2>1, GoingKept
  <2>3. Granted(a)' >= Granted(a) /\ forgotten'[a] >= forgotten[a]
    <3>1. ASSUME NEW c \in Conns, Reserve(c)
          PROVE  Granted(a)' >= Granted(a) /\ forgotten'[a] >= forgotten[a]
      <4>1. h[c].at # "idle"
        BY <3>1 DEF Reserve, At
      <4>2. h[c].action \in ActionIDs /\ frames[h[c].action] # NoFrame
        BY <1>0, <4>1, HeldWasSent
      <4>. QED
        BY <1>0, <1>3, <3>1, <4>2, ReserveEffect
    <3>2. CASE UNCHANGED <<order, forgotten>>
      <4>1. Granted(a)' = Granted(a) /\ Granted(a) \in Nat
        BY <1>0, <3>2 DEF Granted, Reserved
      <4>. QED
        BY <1>0, <3>2, <4>1
    <3>. QED
      BY <1>3, <3>1, <3>2
         DEF Next, vars, router, Appear, Change, Open, Close, Perform, DeliverAnswer,
             Compose, Arrive, Dispatch, Refuse, Recall, CheckRevision, CheckTask, Resolve,
             Recheck, LookUp, FocusLocally, AskAdapter, TakeAnswer, GiveUp, Finish,
             Dismiss, Settle, ReadsOnly
  <2>4. Balanced(a)
    <3>1. ASSUME NEW s \in Sessions, Perform(s) PROVE Balanced(a)
      <4>1. IsFiniteSet(Asked(a)') /\ Outstanding(a)' <= Outstanding(a)
        BY <1>0, <3>1, PerformSettles DEF Covered
      <4>. QED
        BY <1>0, <2>2, <4>1, BalancedIfSettled
    <3>2. ASSUME NEW c \in Conns, AskAdapter(c) PROVE Balanced(a)
      BY <1>0, <2>2, <3>2, AskBalanced
    <3>3. ASSUME NEW c \in Conns, FocusLocally(c) PROVE Balanced(a)
      BY <1>0, <2>2, <3>3, FocusBalanced
    <3>4. CASE UNCHANGED <<asked, performed>>
      <4>1. /\ Asked(a)' = Asked(a) /\ Outstanding(a)' = Outstanding(a)
            /\ IsFiniteSet(Asked(a)')
        BY <1>0, <3>4 DEF Asked, Outstanding, Covered
      <4>2. Outstanding(a) \in Nat
        BY <1>0, <2>2, <4>1, Numbers DEF Outstanding
      <4>. QED
        BY <1>0, <2>2, <4>1, <4>2, BalancedIfSettled
    <3>. QED
      BY <1>3, <3>1, <3>2, <3>3, <3>4
         DEF Next, vars, adapters, Appear, Change, Open, Close, DeliverAnswer, Compose,
             Arrive, Dispatch, Refuse, Recall, Reserve, CheckRevision, CheckTask, Resolve,
             Recheck, LookUp, TakeAnswer, GiveUp, Finish, Dismiss, Settle, ReadsOnly
  <2>5. frames[a] # NoFrame => frames'[a] = frames[a]
    BY FramesStay
  <2>. QED
    BY <1>0, <2>1, <2>2, <2>3, <2>4, <2>5, CoveredKept DEF Balanced, MovesOn
<1>. QED
  BY <1>1, <1>2, <1>3

LEMMA InitAccounts == Init => Accounts
<1> SUFFICES ASSUME Init PROVE Accounts
  OBVIOUS
<1>1. 1..Len(order) = {} /\ OrderKnown
  <2>1. order = <<>> /\ forgotten \in [ActionIDs -> Nat]
    BY DEF Init
  <2>2. order \in Seq(ActionIDs) /\ 1..Len(order) = {}
    BY <2>1, EmptySeq
  <2>. QED
    BY <2>1, <2>2 DEF OrderKnown
<1>2. \A c \in Conns : h[c].at = "idle"
  BY IdleHandler DEF Init, AllIdle
<1>3. ASSUME NEW a \in ActionIDs PROVE Covered(a)
  <2>1. Going(a) = {}
    BY <1>2 DEF Going, Headed
  <2>2. Asked(a) = {}
    <3>1. \A s \in Sessions : asked[s] = <<>>
      BY DEF Init
    <3>2. \A s \in Sessions : 1..Len(asked[s]) = {}
      BY <3>1, EmptySeq
    <3>. QED
      BY <3>2 DEF Asked
  <2>3. performed[a] = 0 /\ forgotten[a] = 0 /\ ~Reserved(a)
    BY <1>1 DEF Init, Reserved
  <2>. QED
    BY <2>1, <2>2, <2>3, FS_EmptySet DEF Covered, Credited, Outstanding, Granted
<1>. QED
  BY <1>1, <1>2, <1>3 DEF Accounts, Carried

LEMMA AccountsInvariant == Spec => [](Types /\ Views /\ Accounts)
<1>1. Init => Types /\ Views /\ Accounts
  BY InitTypes, InitViews, InitAccounts
<1>2. Types /\ Views /\ Accounts /\ [Next]_vars => (Types /\ Views /\ Accounts)'
  <2> SUFFICES ASSUME Types, Views, Accounts, [Next]_vars
               PROVE  Types' /\ Views' /\ Accounts'
    OBVIOUS
  <2>1. Types'
    BY TypesStep
  <2>2. Views'
    BY <2>1, ViewsStep
  <2>3. OrderKnown'
    BY <2>1, OrderStep DEF Accounts
  <2>4. \A c \in Conns : Carried(h[c])'
    BY <2>1, CarriedStep DEF Accounts
  <2>5. \A a \in ActionIDs : Covered(a)'
    BY <2>1, <2>3, CoveredStep
  <2>. QED
    BY <2>1, <2>2, <2>3, <2>4, <2>5 DEF Accounts
<1>. QED
  BY <1>1, <1>2, PTL DEF Spec

\* Retried on any connection, across timeouts, closed adapters and Edge restarts,
\* an action is carried out once, and once more at most for each time its ID fell
\* out of the bounded memory (Dispatch, finish).
THEOREM OnceAtMost == Spec => []AtMostOnce
<1>1. Types /\ Accounts => AtMostOnce
  <2> SUFFICES ASSUME Types, Accounts, NEW a \in ActionIDs
               PROVE  performed[a] <= 1 + forgotten[a]
    BY DEF AtMostOnce
  <2>1. /\ Covered(a) /\ forgotten[a] \in Nat /\ performed[a] \in Nat
    BY DEF Accounts, OrderKnown, Types
  <2>2. Cardinality(Going(a)) \in Nat /\ Cardinality(Asked(a)) \in Nat
    BY <2>1, FS_CardinalityType DEF Covered
  <2>3. Outstanding(a) <= 1 + forgotten[a]
    BY <2>1, <2>2 DEF Covered, Credited, Spent, Granted, Outstanding
  <2>. QED
    BY <2>1, <2>2, <2>3 DEF Outstanding
<1>. QED
  BY <1>1, AccountsInvariant, PTL

\* The memory of action IDs stays within its bound.
Sizes == sent \in Nat /\ Len(order) <= MaxRemembered

LEMMA SizesStep ==
  ASSUME Types, OrderKnown, Sizes, [Next]_vars PROVE Sizes'
<1>0. order \in Seq(ActionIDs) /\ Len(order) \in Nat /\ MaxRemembered \in Nat
  BY LenProperties, RouterAssumption DEF OrderKnown, RouterAssumption
<1>1. ASSUME NEW c \in Conns, Reserve(c) PROVE Sizes'
  <2> DEFINE next == Append(order, h[c].action)
  <2>1. /\ order' = (IF Full(next) THEN Tail(next) ELSE next) /\ sent' = sent
        /\ h[c].action \in ActionIDs
    BY <1>1, HandlerFields DEF Reserve, clients, Types
  <2>2. next \in Seq(ActionIDs) /\ next # <<>> /\ Len(next) = Len(order) + 1
    BY <1>0, <2>1, AppendProperties
  <2>3. Len(Tail(next)) = Len(order)
    <3> HIDE DEF next
    <3>. QED
      BY <1>0, <2>2, HeadTailProperties
  <2> HIDE DEF next
  <2>. QED
    BY <1>0, <2>1, <2>2, <2>3 DEF Sizes, Full
<1>2. ASSUME NEW c \in Conns, NEW a \in ActionIDs, Arrive(c, a) PROVE Sizes'
  BY <1>2 DEF Arrive, router, Sizes
<1>3. CASE EdgeRestart
  <2>1. order' = <<>> /\ sent' = sent /\ sent \in Nat
    BY <1>3 DEF EdgeRestart, clients, Sizes
  <2>2. Len(order') = 0
    BY <2>1, EmptySeq
  <2>. QED
    BY <1>0, <2>1, <2>2 DEF Sizes
<1>4. CASE UNCHANGED <<order, sent>>
  BY <1>4 DEF Sizes
<1>. QED
  BY <1>1, <1>2, <1>3, <1>4
     DEF Next, vars, router, clients, Appear, Change, Open, Close, Perform, DeliverAnswer,
         Compose, Dispatch, Refuse, Recall, CheckRevision, CheckTask, Resolve, Recheck,
         LookUp, FocusLocally, AskAdapter, TakeAnswer, GiveUp, Finish, Dismiss, Settle,
         ReadsOnly

\* The router's maps keep their types, and the memory of action IDs its bound.
THEOREM TypeCorrect == Spec => []TypeOK
<1>1. Init => Sizes
  <2> SUFFICES ASSUME Init PROVE Sizes
    OBVIOUS
  <2>1. order = <<>> /\ sent = 0
    BY DEF Init
  <2>2. Len(order) = 0
    BY <2>1, EmptySeq
  <2>3. MaxRemembered \in Nat
    BY RouterAssumption DEF RouterAssumption
  <2>. QED
    BY <2>1, <2>2, <2>3 DEF Sizes
<1>2. Types /\ Accounts /\ Sizes /\ [Next]_vars => Sizes'
  BY SizesStep DEF Accounts
<1>3. Types /\ Accounts /\ Sizes => TypeOK
  BY DEF Types, Results, Answers, Accounts, OrderKnown, Sizes, TypeOK
<1>. QED
  BY <1>1, <1>2, <1>3, AccountsInvariant, PTL DEF Spec
=============================================================================
