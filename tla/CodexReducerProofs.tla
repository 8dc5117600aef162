------------------------- MODULE CodexReducerProofs -------------------------
(***************************************************************************)
(* Proofs about CodexReducer, for every number of sessions, hook           *)
(* goroutines, events and calls: the core never has an older view of a     *)
(* session than the reducer, an answer of the App Server is only taken by  *)
(* the call it answers, a hook delivered again is ignored while it is      *)
(* remembered, and a reduction is the last word of what was applied to it. *)
(***************************************************************************)
EXTENDS CodexReducer, SequenceTheorems, FiniteSetTheorems, TLAPS

-----------------------------------------------------------------------------
(* Types *)

Query == [id : Nat, session : Sessions]
Answer == [id : Nat, info : Info, at : Nat]

Types ==
  /\ reductions \in [Sessions -> Reduction \cup {None}]
  /\ codexSeq \in Nat /\ lastSeq \in Nat
  /\ presence \in [Sessions -> Presence \cup {None}]
  /\ job \in [Threads -> Job \cup {None}]
  /\ round \subseteq Sessions /\ calls \in Nat
  /\ asked \subseteq Query /\ replies \subseteq Answer

\* Only reports have the first three states, only questions the last two.
LEMMA JobForms ==
  ASSUME Types, NEW g \in Threads, job[g] # None
  PROVE  /\ job[g] \in Job
         /\ job[g].pc \in {"reduced", "numbered", "applied", "asking", "answered"}
         /\ Holding(g) => job[g] \in [pc : {"reduced", "numbered", "applied"},
                                      seq : Nat, report : Report]
         /\ job[g].pc = "asking" => job[g] \in [pc : {"asking"}, session : Sessions]
         /\ job[g].pc = "answered" =>
              job[g] \in [pc : {"answered"}, session : Sessions, info : Info, at : Nat]
  BY DEF Types, Job, Holding

LEMMA ReportForms ==
  /\ \A s \in Sessions, r \in Reduction :
       /\ Reported(s, r) \in Report /\ Reported(s, r).session = s
       /\ ~Reported(s, r).end /\ Reported(s, r).is = r.is
       /\ Reported(s, r).subagents = Cardinality(r.agents)
       /\ [Reported(s, r) EXCEPT !.focus = FALSE] \in Report
       /\ [Reported(s, r) EXCEPT !.focus = FALSE].session = s
       /\ ~[Reported(s, r) EXCEPT !.focus = FALSE].end
       /\ [Reported(s, r) EXCEPT !.focus = FALSE].is = r.is
       /\ [Reported(s, r) EXCEPT !.focus = FALSE].subagents = Cardinality(r.agents)
  /\ \A s \in Sessions : Ended(s) \in Report /\ Ended(s).session = s /\ Ended(s).end
<1>1. ASSUME NEW s \in Sessions, NEW r \in Reduction
      PROVE  /\ Reported(s, r) \in Report /\ Reported(s, r).session = s
             /\ ~Reported(s, r).end /\ Reported(s, r).is = r.is
             /\ Reported(s, r).subagents = Cardinality(r.agents)
             /\ [Reported(s, r) EXCEPT !.focus = FALSE] \in Report
             /\ [Reported(s, r) EXCEPT !.focus = FALSE].session = s
             /\ ~[Reported(s, r) EXCEPT !.focus = FALSE].end
             /\ [Reported(s, r) EXCEPT !.focus = FALSE].is = r.is
             /\ [Reported(s, r) EXCEPT !.focus = FALSE].subagents = Cardinality(r.agents)
  <2>1. r.agents \subseteq Agents /\ r.is \in Outcomes
    BY DEF Reduction
  <2>2. Cardinality(r.agents) \in Nat
    BY <2>1, CodexAssumption, FS_Subset, FS_CardinalityType DEF CodexAssumption
  <2>. QED
    BY <2>1, <2>2 DEF Reported, Report
<1>2. ASSUME NEW s \in Sessions
      PROVE  Ended(s) \in Report /\ Ended(s).session = s /\ Ended(s).end
  BY DEF Ended, Report
<1>. QED
  BY <1>1, <1>2

LEMMA ReduceType ==
  /\ Initial \in Reduction
  /\ \A r \in Reduction, e \in Event : Reduce(r, e) \in Reduction
  /\ \A r \in Reduction, info \in Info : Enriched(r, info) \in Reduction
<1>1. Initial \in Reduction
  BY DEF Initial, Reduction, Outcomes
<1>2. ASSUME NEW r \in Reduction, NEW e \in Event PROVE Reduce(r, e) \in Reduction
  <2>1. /\ r = [is |-> r.is, agents |-> r.agents, title |-> r.title]
        /\ r.is \in Outcomes /\ r.agents \subseteq Agents /\ r.title \in Titles \cup {NoTitle}
    BY DEF Reduction
  <2>2. e.agent \in Agents \cup {NoAgent}
    BY DEF Event
  <2>3. \A o \in Outcomes : [r EXCEPT !.is = o] \in Reduction
    BY <2>1 DEF Reduction
  <2>4. <<"running", "working">> \in Outcomes /\ <<"needs_input", "question">> \in Outcomes
        /\ <<"needs_input", "permission">> \in Outcomes /\ Initial.is \in Outcomes
    BY DEF Outcomes, Initial
  <2>5. [r EXCEPT !.agents = @ \cup ({e.agent} \ {NoAgent}),
                  !.is = IF Waits(r) THEN @ ELSE Working] \in Reduction
    <3>1. (r.agents \cup ({e.agent} \ {NoAgent})) \subseteq Agents
      BY <2>1, <2>2
    <3>2. (IF Waits(r) THEN r.is ELSE Working) \in Outcomes
      BY <2>1, <2>4 DEF Working
    <3>. QED
      BY <3>1, <3>2 DEF Reduction
  <2>6. [r EXCEPT !.agents = @ \ {e.agent}] \in Reduction
    BY <2>1 DEF Reduction
  <2>7. [r EXCEPT !.is = Initial.is, !.agents = {}] \in Reduction
    BY <2>1, <2>4 DEF Reduction
  <2>. QED
    BY <2>3, <2>4, <2>5, <2>6, <2>7 DEF Reduce, Working
<1>3. ASSUME NEW r \in Reduction, NEW info \in Info PROVE Enriched(r, info) \in Reduction
  <2>1. info.title \in Titles \cup {NoTitle} /\ r.is \in Outcomes
    BY DEF Info, Reduction
  <2>2. (CASE info.status = "systemError" -> <<"blocked", "failed">>
           [] info.status = "waitingOnApproval" -> <<"needs_input", "approval">>
           [] info.status = "idle" /\ r.is = Working -> Initial.is
           [] OTHER -> r.is) \in Outcomes
    BY <2>1 DEF Outcomes, Initial
  <2>. QED
    BY <2>1, <2>2 DEF Enriched, Reduction
<1>. QED
  BY <1>1, <1>2, <1>3
\* A hook's step keeps the types; the others of the reducer and the core after it.
LEMMA HookTypes ==
  ASSUME Types, NEW g \in Hooks, NEW e \in Events, ReduceHook(g, e)
  PROVE  /\ Types' /\ e.session \in Sessions
         /\ \E r \in Reduction, end \in BOOLEAN :
              /\ reductions' = [reductions EXCEPT ![e.session] = IF end THEN None ELSE r]
              /\ job' = [job EXCEPT ![g] = [pc |-> "reduced", seq |-> 0, report |->
                   IF end THEN Ended(e.session) ELSE Reported(e.session, r)]]
<1> DEFINE r == Reduce(IF e.session \in Known THEN reductions[e.session] ELSE Initial, e)
           end == e.event = "SessionEnd"
<1>1. e \in Event /\ e.session \in Sessions
  BY CodexAssumption DEF CodexAssumption, Event
<1>2. r \in Reduction
  <2>1. (IF e.session \in Known THEN reductions[e.session] ELSE Initial) \in Reduction
    BY <1>1, ReduceType DEF Known, Types
  <2>. QED
    BY <1>1, <2>1, ReduceType
<1>3. /\ reductions' = [reductions EXCEPT ![e.session] = IF end THEN None ELSE r]
      /\ job' = [job EXCEPT ![g] = [pc |-> "reduced", seq |-> 0, report |->
           IF end THEN Ended(e.session) ELSE Reported(e.session, r)]]
      /\ UNCHANGED <<codexSeq, core, poll>>
  BY DEF ReduceHook
<1>4. (IF end THEN Ended(e.session) ELSE Reported(e.session, r)) \in Report
  BY <1>1, <1>2, ReportForms
<1> HIDE DEF r, end
<1>5. [pc |-> "reduced", seq |-> 0, report |->
         IF end THEN Ended(e.session) ELSE Reported(e.session, r)] \in Job
  BY <1>4 DEF Job
<1>6. Types'
  BY <1>2, <1>3, <1>5 DEF Types, core, poll
<1>7. end \in BOOLEAN
  BY DEF end
<1>. QED
  BY <1>1, <1>2, <1>3, <1>6, <1>7

\* A step of Enrich, if it is one that reports.
LEMMA EnrichTypes ==
  ASSUME Types, EnrichThread
  PROVE  /\ Types'
         /\ \/ UNCHANGED reductions /\ job' = [job EXCEPT ![Poller] = None]
            \/ \E s \in Sessions, r \in Reduction :
                 /\ reductions' = [reductions EXCEPT ![s] = r]
                 /\ job' = [job EXCEPT ![Poller] = [pc |-> "reduced", seq |-> 0,
                      report |-> [Reported(s, r) EXCEPT !.focus = FALSE]]]
<1> DEFINE info == job[Poller].info
           r == Enriched(reductions[info.session], info)
<1>1. /\ Poller \in Threads /\ job[Poller] # None /\ job[Poller].pc = "answered"
      /\ UNCHANGED <<codexSeq, core, poll>>
  BY DEF EnrichThread, Threads
<1>2. info \in Info /\ info.session \in Sessions
  BY <1>1, JobForms DEF Info
<1>3. CASE info.session \in Known /\ r # reductions[info.session]
  <2>1. r \in Reduction
    BY <1>2, <1>3, ReduceType DEF Known, Types
  <2>2. /\ reductions' = [reductions EXCEPT ![info.session] = r]
        /\ job' = [job EXCEPT ![Poller] = [pc |-> "reduced", seq |-> 0,
             report |-> [Reported(info.session, r) EXCEPT !.focus = FALSE]]]
    BY <1>3 DEF EnrichThread
  <2>3. [Reported(info.session, r) EXCEPT !.focus = FALSE] \in Report
    BY <1>2, <2>1, ReportForms
  <2> HIDE DEF r, info
  <2>4. [pc |-> "reduced", seq |-> 0,
         report |-> [Reported(info.session, r) EXCEPT !.focus = FALSE]] \in Job
    BY <2>3 DEF Job
  <2>5. Types'
    BY <1>1, <2>1, <2>2, <2>4 DEF Types, core, poll
  <2>. QED
    BY <1>2, <2>1, <2>2, <2>5
<1>4. CASE ~(info.session \in Known /\ r # reductions[info.session])
  <2>1. UNCHANGED reductions /\ job' = [job EXCEPT ![Poller] = None]
    BY <1>4 DEF EnrichThread
  <2>2. Types'
    BY <1>1, <2>1 DEF Types, core, poll
  <2>. QED
    BY <2>1, <2>2
<1>. QED
  BY <1>3, <1>4

LEMMA TypesStep == Types /\ [Next]_vars => Types'
<1> SUFFICES ASSUME Types, [Next]_vars PROVE Types'
  OBVIOUS
<1>0. Poller \in Threads
  BY DEF Threads
<1>1. ASSUME NEW g \in Hooks, NEW e \in Events, ReduceHook(g, e) PROVE Types'
  BY <1>1, HookTypes
<1>2. ASSUME NEW g \in Hooks, NEW e \in Events, IgnoreHook(g, e) PROVE Types'
  BY <1>2 DEF IgnoreHook, Types, reducer, core, poll
<1>3. ASSUME EnrichThread PROVE Types'
  BY <1>3, EnrichTypes
<1>4. ASSUME NEW g \in Threads, Number(g) PROVE Types'
  <2>1. job[g] \in [pc : {"reduced", "numbered", "applied"}, seq : Nat, report : Report]
    BY <1>4, JobForms DEF Number, Holding
  <2>0. codexSeq + 1 \in Nat
    BY DEF Types
  <2>2. [job[g] EXCEPT !.pc = "numbered", !.seq = codexSeq + 1] \in Job
    BY <2>0, <2>1 DEF Job
  <2>3. job' = [job EXCEPT ![g] = [job[g] EXCEPT !.pc = "numbered", !.seq = codexSeq + 1]]
    BY <1>4 DEF Number, Types
  <2>4. job' \in [Threads -> Job \cup {None}]
    BY <2>2, <2>3 DEF Types
  <2>. QED
    BY <1>4, <2>4 DEF Number, Types, reducer, core, poll
<1>5. ASSUME NEW g \in Threads, ApplyReports(g) PROVE Types'
  <2>1. job[g] \in [pc : {"reduced", "numbered", "applied"}, seq : Nat, report : Report]
    BY <1>5, JobForms DEF ApplyReports, Holding
  <2>2. [job[g] EXCEPT !.pc = "applied"] \in Job
    BY <2>1 DEF Job
  <2>3. job' \in [Threads -> Job \cup {None}]
    BY <1>5, <2>2 DEF ApplyReports, Types
  <2>4. presence' \in [Sessions -> Presence \cup {None}] /\ lastSeq' \in Nat
    <3> DEFINE r == job[g].report
               Upsert == [is |-> r.is, subagents |-> r.subagents,
                          focus |-> IF presence[r.session] = None THEN FALSE
                                    ELSE presence[r.session].focus]
    <3>1. r \in Report /\ r.session \in Sessions /\ job[g].seq \in Nat
      BY <2>1 DEF Report
    <3>2. ~r.end => Upsert \in Presence
      BY <3>1 DEF Report, Presence, Types
    <3>3. \/ lastSeq' = job[g].seq
             /\ presence' = [presence EXCEPT ![r.session] = IF r.end THEN None ELSE Upsert]
          \/ UNCHANGED presence /\ (lastSeq' = lastSeq \/ lastSeq' = job[g].seq)
      BY <1>5 DEF ApplyReports
    <3>4. (IF r.end THEN None ELSE Upsert) \in Presence \cup {None}
      BY <3>2
    <3> HIDE DEF Upsert
    <3>. QED
      BY <3>1, <3>3, <3>4 DEF Types
  <2>. QED
    BY <1>5, <2>3, <2>4 DEF ApplyReports, Types, reducer, poll
<1>6. ASSUME NEW g \in Threads, AdvertiseFocus(g) PROVE Types'
  <2>1. job[g].report.session \in Sessions
    BY <1>6, JobForms DEF AdvertiseFocus, Holding, Report
  <2>2. presence' \in [Sessions -> Presence \cup {None}]
    BY <1>6, <2>1 DEF AdvertiseFocus, Types, Presence
  <2>. QED
    BY <1>6, <2>2 DEF AdvertiseFocus, Types, reducer, poll
<1>7. ASSUME NEW s \in Sessions, Dismiss(s) PROVE Types'
  BY <1>7 DEF Dismiss, Types, reducer, poll
<1>8. ASSUME NEW s \in Sessions, Ask(s) PROVE Types'
  <2>1. [pc |-> "asking", session |-> s] \in Job /\ [id |-> calls + 1, session |-> s] \in Query
    BY DEF Job, Query, Types
  <2>. QED
    BY <1>0, <1>8, <2>1 DEF Ask, Types, reducer, core
<1>9. ASSUME StartServer \/ StartRound \/ CallFails PROVE Types'
  BY <1>0, <1>9 DEF StartServer, StartRound, CallFails, Types, Known, reducer, core, poll
<1>10. ASSUME ServerDies PROVE Types'
  BY <1>0, <1>10 DEF ServerDies, Types, reducer, core
<1>11. ASSUME NEW q \in asked, NEW info \in Info, Reply(q, info) PROVE Types'
  <2>1. [id |-> q.id, info |-> info, at |-> calls] \in Answer
    BY DEF Types, Query, Answer
  <2>. QED
    BY <1>11, <2>1 DEF Reply, Types, reducer, core
<1>12. ASSUME NEW a \in replies, ReadReply(a) PROVE Types'
  <2>1. job' \in [Threads -> Job \cup {None}]
    <3>1. CASE UNCHANGED job
      BY <3>1 DEF Types
    <3>2. CASE job[Poller] # None /\ job[Poller].pc = "asking" /\
               job' = [job EXCEPT ![Poller] = [pc |-> "answered",
                 session |-> job[Poller].session, info |-> a.info, at |-> a.at]]
      <4>1. job[Poller].session \in Sessions /\ a.info \in Info /\ a.at \in Nat
        BY <1>0, <3>2, JobForms DEF Types, Answer
      <4>2. [pc |-> "answered", session |-> job[Poller].session, info |-> a.info,
             at |-> a.at] \in Job
        BY <4>1 DEF Job
      <4>. QED
        BY <3>2, <4>2 DEF Types
    <3>. QED
      BY <1>12, <3>1, <3>2 DEF ReadReply
  <2>. QED
    BY <1>12, <2>1 DEF ReadReply, Types, reducer, core
<1>13. CASE UNCHANGED vars
  BY <1>13 DEF vars, reducer, core, poll, Types
<1>. QED
  BY <1>1, <1>2, <1>3, <1>4, <1>5, <1>6, <1>7, <1>8, <1>9, <1>10, <1>11, <1>12,
     <1>13 DEF Next

LEMMA TypesHold == Spec => []Types
<1>1. Init => Types
  BY DEF Init, Types
<1>. QED
  BY <1>1, TypesStep, PTL DEF Spec
-----------------------------------------------------------------------------
(* The core and the reducer *)

Carries(g) == Holding(g) /\ job[g].pc # "applied"

\* The core's presence of s is what the reducer has.
Follows(s) ==
  presence[s] # None =>
    /\ reductions[s] # None /\ presence[s].is = reductions[s].is
    /\ presence[s].subagents = Cardinality(reductions[s].agents)

\* r is what the reducer has.
Current(r) ==
  IF r.end THEN reductions[r.session] = None
  ELSE /\ reductions[r.session] # None /\ r.is = reductions[r.session].is
       /\ r.subagents = Cardinality(reductions[r.session].agents)

\* One goroutine at a time holds the lock; until the core has its report that is
\* the reducer's state and the highest number, and only its session may differ.
Serial ==
  /\ \A g, h \in Threads : Holding(g) /\ Holding(h) => g = h
  /\ lastSeq <= codexSeq
  /\ \A g \in Threads : Carries(g) =>
       /\ Current(job[g].report)
       /\ job[g].pc = "numbered" => job[g].seq = codexSeq /\ lastSeq < codexSeq
  /\ \A s \in Sessions :
       Follows(s) \/ \E g \in Threads : Carries(g) /\ job[g].report.session = s

\* After a reduction of s that g took the lock for.
LEMMA Reduced ==
  ASSUME Types, Types', Serial, Free, NEW g \in Threads, NEW s \in Sessions,
         UNCHANGED <<presence, codexSeq, lastSeq>>,
         \A t \in Sessions : t # s => reductions'[t] = reductions[t],
         \A h \in Threads : h # g => job'[h] = job[h],
         job'[g] # None, job'[g].pc = "reduced", job'[g].report.session = s,
         Current(job[g].report)'
  PROVE  Serial'
<1>1. \A h \in Threads : Holding(h)' => h = g
  BY DEF Free, Holding
<1>2. Carries(g)'
  BY DEF Carries, Holding
<1>3. \A h \in Threads : Carries(h)' => h = g
  BY <1>1 DEF Carries
<1>4. ASSUME NEW t \in Sessions
      PROVE  (Follows(t) \/ \E h \in Threads : Carries(h) /\ job[h].report.session = t)'
  <2>1. CASE t = s
    BY <1>2, <2>1
  <2>2. CASE t # s
    <3>1. Follows(t)
      BY DEF Serial, Free, Carries
    <3>. QED
      BY <2>2, <3>1 DEF Follows
  <2>. QED
    BY <2>1, <2>2
<1>. QED
  BY <1>1, <1>3, <1>4 DEF Serial, Types

\* After a step of a goroutine that does not hold the lock.
LEMMA Elsewhere ==
  ASSUME Serial, UNCHANGED <<reductions, presence, codexSeq, lastSeq>>,
         \A h \in Threads : job'[h] = job[h] \/ (~Holding(h) /\ ~Holding(h)')
  PROVE  Serial'
<1>1. \A h \in Threads : (Holding(h)' <=> Holding(h)) /\ (Holding(h) => job'[h] = job[h])
  BY DEF Holding
<1>2. \A h \in Threads : Carries(h)' <=> Carries(h)
  BY <1>1 DEF Carries
<1>. QED
  BY <1>1, <1>2 DEF Serial, Follows, Current, Carries

LEMMA SerialStep == Types /\ Types' /\ Serial /\ [Next]_vars => Serial'
<1> SUFFICES ASSUME Types, Types', Serial, [Next]_vars PROVE Serial'
  OBVIOUS
<1>0. Poller \in Threads /\ \A g \in Hooks : g \in Threads
  BY DEF Threads
<1>1. ASSUME NEW g \in Hooks, NEW e \in Events, ReduceHook(g, e) PROVE Serial'
  <2>1. PICK r \in Reduction, end \in BOOLEAN :
          /\ reductions' = [reductions EXCEPT ![e.session] = IF end THEN None ELSE r]
          /\ job' = [job EXCEPT ![g] = [pc |-> "reduced", seq |-> 0, report |->
               IF end THEN Ended(e.session) ELSE Reported(e.session, r)]]
    BY <1>1, HookTypes
  <2>2. e.session \in Sessions /\ Free /\ UNCHANGED <<presence, codexSeq, lastSeq>>
    BY <1>1, HookTypes DEF ReduceHook, core
  <2> DEFINE report == IF end THEN Ended(e.session) ELSE Reported(e.session, r)
             j == [pc |-> "reduced", seq |-> 0, report |-> report]
  <2>3. report \in Report
    BY <2>2, ReportForms
  <2>4. job'[g] = j /\ \A h \in Threads : h # g => job'[h] = job[h]
    BY <1>0, <2>1 DEF Types
  <2>5. j # None
    <3> HIDE DEF report
    <3>1. j \in Job
      BY <2>3 DEF Job
    <3>. QED
      BY <3>1, CodexAssumption DEF CodexAssumption
  <2>6. reductions'[e.session] = (IF end THEN None ELSE r)
        /\ \A t \in Sessions : t # e.session => reductions'[t] = reductions[t]
    BY <2>1, <2>2 DEF Types
  <2>7. report.session = e.session /\ Current(job[g].report)'
    <3>1. CASE end
      BY <2>2, <2>4, <2>6, <3>1, ReportForms DEF Current
    <3>2. CASE ~end
      <4>1. /\ report = Reported(e.session, r) /\ report.session = e.session /\ ~report.end
            /\ report.is = r.is /\ report.subagents = Cardinality(r.agents)
        BY <2>2, <3>2, ReportForms
      <4> HIDE DEF report
      <4>2. reductions'[e.session] = r /\ r # None
        BY <2>6, <3>2, CodexAssumption DEF CodexAssumption
      <4>. QED
        BY <2>4, <4>1, <4>2 DEF Current
    <3>. QED
      BY <3>1, <3>2
  <2>. QED
    BY <1>0, <2>2, <2>4, <2>5, <2>6, <2>7, Reduced
<1>2. ASSUME NEW g \in Hooks, NEW e \in Events, IgnoreHook(g, e) PROVE Serial'
  BY <1>2, Elsewhere DEF IgnoreHook, reducer, core
<1>3. ASSUME EnrichThread PROVE Serial'
  <2>1. Free /\ UNCHANGED <<presence, codexSeq, lastSeq>>
        /\ job[Poller] # None /\ job[Poller].pc = "answered"
    BY <1>3 DEF EnrichThread, core
  <2>2. CASE UNCHANGED reductions /\ job' = [job EXCEPT ![Poller] = None]
    BY <2>1, <2>2, Elsewhere DEF Holding, Types
  <2>3. CASE \E s \in Sessions, r \in Reduction :
               /\ reductions' = [reductions EXCEPT ![s] = r]
               /\ job' = [job EXCEPT ![Poller] = [pc |-> "reduced", seq |-> 0,
                    report |-> [Reported(s, r) EXCEPT !.focus = FALSE]]]
    <3>1. PICK s \in Sessions, r \in Reduction :
            /\ reductions' = [reductions EXCEPT ![s] = r]
            /\ job' = [job EXCEPT ![Poller] = [pc |-> "reduced", seq |-> 0,
                 report |-> [Reported(s, r) EXCEPT !.focus = FALSE]]]
      BY <2>3
    <3> DEFINE report == [Reported(s, r) EXCEPT !.focus = FALSE]
               j == [pc |-> "reduced", seq |-> 0, report |-> report]
    <3>2. /\ report \in Report /\ report.session = s /\ ~report.end
          /\ report.is = r.is /\ report.subagents = Cardinality(r.agents)
      BY ReportForms
    <3>3. job'[Poller] = j /\ \A h \in Threads : h # Poller => job'[h] = job[h]
      BY <1>0, <3>1 DEF Types
    <3> HIDE DEF report
    <3>4. j # None
      <4>1. j \in Job
        BY <3>2 DEF Job
      <4>. QED
        BY <4>1, CodexAssumption DEF CodexAssumption
    <3>5. reductions'[s] = r /\ \A t \in Sessions : t # s => reductions'[t] = reductions[t]
      BY <3>1 DEF Types
    <3>6. Current(job[Poller].report)'
      BY <3>2, <3>3, <3>5, CodexAssumption DEF Current, CodexAssumption
    <3>. QED
      BY <1>0, <2>1, <3>2, <3>3, <3>4, <3>5, <3>6, Reduced
  <2>. QED
    BY <1>3, <2>2, <2>3, EnrichTypes
<1>4. ASSUME NEW g \in Threads, Number(g) PROVE Serial'
  <2>1. job[g] \in [pc : {"reduced", "numbered", "applied"}, seq : Nat, report : Report]
        /\ Holding(g) /\ Carries(g)
    BY <1>4, JobForms DEF Number, Holding, Carries
  <2>2. /\ job'[g] = [job[g] EXCEPT !.pc = "numbered", !.seq = codexSeq + 1]
        /\ codexSeq' = codexSeq + 1 /\ UNCHANGED <<reductions, presence, lastSeq>>
        /\ \A h \in Threads : h # g => job'[h] = job[h]
    BY <1>4 DEF Number, Types, reducer, core
  <2>3. /\ job'[g].pc = "numbered" /\ job'[g].seq = codexSeq + 1
        /\ job'[g].report = job[g].report
    BY <2>1, <2>2
  <2>4. job'[g] # None
    <3>0. codexSeq + 1 \in Nat
      BY DEF Types
    <3>1. [job[g] EXCEPT !.pc = "numbered", !.seq = codexSeq + 1] \in Job
      BY <2>1, <3>0 DEF Job
    <3>. QED
      BY <2>2, <3>1, CodexAssumption DEF CodexAssumption
  <2>5. \A h \in Threads : Holding(h) => h = g
    BY <2>1 DEF Serial
  <2>6. \A h \in Threads : (Holding(h)' <=> Holding(h)) /\ (Carries(h)' <=> Carries(h))
    BY <2>1, <2>2, <2>3, <2>4 DEF Holding, Carries
  <2>7. Current(job[g].report)'
    BY <2>1, <2>2, <2>3 DEF Serial, Current
  <2>8. lastSeq' < codexSeq' /\ lastSeq' <= codexSeq'
    BY <2>2 DEF Serial, Types
  <2>9. \A s \in Sessions :
          (Follows(s) \/ \E h \in Threads : Carries(h) /\ job[h].report.session = s)'
    <3> SUFFICES ASSUME NEW s \in Sessions
                 PROVE  (Follows(s) \/ \E h \in Threads : Carries(h) /\ job[h].report.session = s)'
      OBVIOUS
    <3>1. CASE Follows(s)
      BY <2>2, <3>1 DEF Follows
    <3>2. CASE \E h \in Threads : Carries(h) /\ job[h].report.session = s
      BY <2>3, <2>5, <2>6, <3>2 DEF Carries
    <3>. QED
      BY <3>1, <3>2 DEF Serial
  <2>. QED
    BY <2>2, <2>3, <2>5, <2>6, <2>7, <2>8, <2>9 DEF Serial, Carries
\* The lock is given back, or is about to be.
<1>a. ASSUME NEW g \in Threads, Holding(g), ~Carries(g)',
             \A h \in Threads : h # g => job'[h] = job[h],
             lastSeq' <= codexSeq', UNCHANGED reductions,
             \A s \in Sessions : Follows(s)'
      PROVE  Serial'
  <2>1. \A h \in Threads : h # g => ~Holding(h)
    BY <1>a DEF Serial
  <2>2. \A h \in Threads : h # g => ~Holding(h)'
    BY <1>a, <2>1 DEF Holding
  <2>. QED
    BY <1>a, <2>2 DEF Serial, Carries
<1>5. ASSUME NEW g \in Threads, ApplyReports(g) PROVE Serial'
  <2> DEFINE r == job[g].report
             Upsert == [is |-> r.is, subagents |-> r.subagents,
                        focus |-> IF presence[r.session] = None THEN FALSE
                                  ELSE presence[r.session].focus]
  <2>1. /\ job[g] \in [pc : {"reduced", "numbered", "applied"}, seq : Nat, report : Report]
        /\ Holding(g) /\ Carries(g) /\ job[g].seq = codexSeq /\ lastSeq < codexSeq
        /\ Current(r)
    BY <1>5, JobForms DEF ApplyReports, Holding, Carries, Serial
  <2>2. r \in Report /\ r.session \in Sessions
    BY <2>1 DEF Report
  <2>3. /\ codexSeq' = codexSeq /\ UNCHANGED reductions
        /\ \A h \in Threads : h # g => job'[h] = job[h]
    BY <1>5 DEF ApplyReports, reducer, Types
  <2>4. ~Carries(g)'
    BY <1>5, <2>1 DEF ApplyReports, Carries, Holding, Types
  <2>5. \A s \in Sessions : s # r.session => Follows(s)
    BY <2>1 DEF Serial, Carries
  <2>6. CASE /\ lastSeq' = job[g].seq
             /\ presence' = [presence EXCEPT ![r.session] = IF r.end THEN None ELSE Upsert]
    <3>1. presence'[r.session] = (IF r.end THEN None ELSE Upsert)
          /\ \A s \in Sessions : s # r.session => presence'[s] = presence[s]
      BY <2>2, <2>6 DEF Types
    <3>2. ASSUME NEW s \in Sessions, s = r.session PROVE Follows(s)'
      <4>1. CASE r.end
        BY <2>2, <3>1, <3>2, <4>1 DEF Follows
      <4>2. CASE ~r.end
        BY <2>1, <2>3, <3>1, <3>2, <4>2 DEF Follows, Current
      <4>. QED
        BY <4>1, <4>2
    <3>3. \A s \in Sessions : s # r.session => Follows(s)'
      BY <2>3, <2>5, <3>1 DEF Follows
    <3>4. lastSeq' <= codexSeq'
      BY <2>1, <2>3, <2>6 DEF Types
    <3>5. \A s \in Sessions : Follows(s)'
      BY <3>2, <3>3
    <3>. QED
      BY <1>a, <2>1, <2>3, <2>4, <3>4, <3>5
  <2>7. CASE presence[r.session] = None /\ UNCHANGED presence /\ lastSeq' = job[g].seq
    <3>1. lastSeq' <= codexSeq'
      BY <2>1, <2>3, <2>7 DEF Types
    <3>2. \A s \in Sessions : Follows(s)'
      BY <2>3, <2>5, <2>7 DEF Follows
    <3>. QED
      BY <1>a, <2>1, <2>3, <2>4, <3>1, <3>2
  <2>8. ~(job[g].seq <= lastSeq)
    BY <2>1 DEF Types
  <2>. QED
    BY <1>5, <2>6, <2>7, <2>8 DEF ApplyReports
<1>6. ASSUME NEW g \in Threads, AdvertiseFocus(g) PROVE Serial'
  <2> DEFINE t == job[g].report.session
  <2>1. /\ Holding(g) /\ ~Carries(g) /\ t \in Sessions
        /\ UNCHANGED <<reductions, codexSeq, lastSeq>>
        /\ job'[g] = None /\ \A h \in Threads : h # g => job'[h] = job[h]
    BY <1>6, JobForms DEF AdvertiseFocus, Holding, Carries, Report, reducer, Types
  <2>2. \A s \in Sessions : Follows(s)
    BY <2>1 DEF Serial, Carries
  <2>3. ASSUME NEW s \in Sessions PROVE Follows(s)'
    <3>1. \/ presence'[s] = presence[s]
          \/ /\ presence[s] # None
             /\ presence'[s] = [presence[s] EXCEPT !.focus = TRUE]
      BY <1>6, <2>1 DEF AdvertiseFocus, Types
    <3>2. CASE presence'[s] = presence[s]
      BY <2>1, <2>2, <3>2 DEF Follows
    <3>3. CASE presence[s] # None /\ presence'[s] = [presence[s] EXCEPT !.focus = TRUE]
      <4>1. /\ presence'[s].is = presence[s].is
            /\ presence'[s].subagents = presence[s].subagents
        BY <3>3 DEF Types, Presence
      <4>. QED
        BY <2>1, <2>2, <3>3, <4>1 DEF Follows
    <3>. QED
      BY <3>1, <3>2, <3>3
  <2>4. ~Carries(g)' /\ lastSeq' <= codexSeq'
    BY <2>1 DEF Carries, Holding, Serial
  <2>. QED
    BY <1>a, <2>1, <2>3, <2>4
<1>7. ASSUME NEW s \in Sessions, Dismiss(s) PROVE Serial'
  <2>1. UNCHANGED <<reductions, codexSeq, lastSeq, job>>
    BY <1>7 DEF Dismiss, reducer
  <2>2. \A t \in Sessions : presence'[t] = presence[t] \/ presence'[t] = None
    BY <1>7 DEF Dismiss, Types
  <2>3. \A t \in Sessions : Follows(t) => Follows(t)'
    BY <2>1, <2>2 DEF Follows
  <2>. QED
    BY <2>1, <2>3 DEF Serial, Holding, Carries, Current
<1>8. ASSUME NEW s \in Sessions, Ask(s) PROVE Serial'
  BY <1>8, Elsewhere DEF Ask, Holding, Types, reducer, core
<1>9. ASSUME StartServer \/ StartRound PROVE Serial'
  BY <1>9, Elsewhere DEF StartServer, StartRound, reducer, core
<1>10. ASSUME ServerDies PROVE Serial'
  <2>1. \A h \in Threads : job'[h] = job[h] \/ (~Holding(h) /\ ~Holding(h)')
    BY <1>10 DEF ServerDies, Holding, Types
  <2>. QED
    BY <1>10, <2>1, Elsewhere DEF ServerDies, reducer, core
<1>11. ASSUME NEW q \in asked, NEW info \in Info, Reply(q, info) PROVE Serial'
  BY <1>11, Elsewhere DEF Reply, reducer, core
<1>12. ASSUME NEW a \in replies, ReadReply(a) PROVE Serial'
  <2>1. \A h \in Threads : job'[h] = job[h] \/ (~Holding(h) /\ ~Holding(h)')
    BY <1>12 DEF ReadReply, Holding, Types
  <2>. QED
    BY <1>12, <2>1, Elsewhere DEF ReadReply, reducer, core
<1>13. ASSUME CallFails PROVE Serial'
  <2>1. \A h \in Threads : job'[h] = job[h] \/ (~Holding(h) /\ ~Holding(h)')
    BY <1>13 DEF CallFails, Holding, Types
  <2>. QED
    BY <1>13, <2>1, Elsewhere DEF CallFails, reducer, core
<1>14. CASE UNCHANGED vars
  BY <1>14, Elsewhere DEF vars, reducer, core
<1>. QED
  BY <1>1, <1>2, <1>3, <1>4, <1>5, <1>6, <1>7, <1>8, <1>9, <1>10, <1>11, <1>12,
     <1>13, <1>14 DEF Next

\* However many hooks and answers race, no report overtakes another between the
\* reducer and the core (codexIngestMu in applyCodexHook and enrichFromAppServer).
THEOREM CoreIsCurrent == Spec => []CoreFollowsReducer
<1>1. Init => Serial
  BY DEF Init, Serial, Holding, Carries, Follows
<1>2. Types /\ Serial => CoreFollowsReducer
  BY DEF Serial, CoreFollowsReducer, Free, Carries, Follows, Known
<1>. QED
  BY <1>1, <1>2, SerialStep, TypesHold, PTL DEF Spec
-----------------------------------------------------------------------------
(* Calls to the App Server *)

Waiting(state) == IF job[Poller] = None THEN FALSE ELSE job[Poller].pc = state

\* Every call has a number of its own, and an answer was given after its question.
Matched ==
  /\ \A q \in asked : q.id <= calls
  /\ \A a \in replies : a.id <= a.at /\ a.at <= calls
  /\ Waiting("asking") =>
       /\ \A q \in asked : q.id = calls => q.session = job[Poller].session
       /\ \A a \in replies : a.id = calls => a.info.session = job[Poller].session
  /\ Waiting("answered") =>
       job[Poller].info.session = job[Poller].session /\ job[Poller].at = calls

LEMMA MatchedStep == Types /\ Types' /\ Matched /\ [Next]_vars => Matched'
<1> SUFFICES ASSUME Types, Types', Matched, [Next]_vars PROVE Matched'
  OBVIOUS
<1>0. /\ Poller \in Threads /\ \A g \in Hooks : g # Poller
      /\ \A q \in asked : q.id \in Nat /\ q.session \in Sessions
      /\ \A a \in replies : a.id \in Nat /\ a.at \in Nat /\ a.info \in Info
      /\ calls \in Nat
  BY CodexAssumption DEF Threads, CodexAssumption, Types, Query, Answer
\* The poller asks nothing, or goes on as it is, while calls and answers stay.
<1>1. ASSUME calls' = calls, asked' \subseteq asked, replies' \subseteq replies,
             job'[Poller] = job[Poller] \/ ~(Waiting("asking") \/ Waiting("answered"))'
      PROVE  Matched'
  BY <1>1 DEF Matched, Waiting
<1>2. ASSUME NEW g \in Hooks, NEW e \in Events, ReduceHook(g, e) \/ IgnoreHook(g, e)
      PROVE  Matched'
  BY <1>0, <1>1, <1>2 DEF ReduceHook, IgnoreHook, poll, Types
<1>3. ASSUME EnrichThread PROVE Matched'
  <2>1. UNCHANGED poll
    BY <1>3 DEF EnrichThread
  <2>2. ~(Waiting("asking") \/ Waiting("answered"))'
    <3>1. CASE job' = [job EXCEPT ![Poller] = None]
      BY <1>0, <3>1 DEF Waiting, Types
    <3>2. CASE \E s \in Sessions, r \in Reduction :
                 job' = [job EXCEPT ![Poller] = [pc |-> "reduced", seq |-> 0,
                   report |-> [Reported(s, r) EXCEPT !.focus = FALSE]]]
      BY <1>0, <3>2 DEF Waiting, Types
    <3>. QED
      BY <1>3, <3>1, <3>2, EnrichTypes
  <2>. QED
    BY <1>1, <2>1, <2>2 DEF poll
<1>4. ASSUME NEW g \in Threads, Number(g) \/ ApplyReports(g) \/ AdvertiseFocus(g)
      PROVE  Matched'
  <2>1. UNCHANGED poll /\ (g # Poller => job'[Poller] = job[Poller])
    BY <1>0, <1>4 DEF Number, ApplyReports, AdvertiseFocus, Types
  <2>2. g = Poller => ~(Waiting("asking") \/ Waiting("answered"))'
    <3> SUFFICES ASSUME g = Poller PROVE ~(Waiting("asking") \/ Waiting("answered"))'
      OBVIOUS
    <3>1. job[g] \in [pc : {"reduced", "numbered", "applied"}, seq : Nat, report : Report]
      BY <1>4, JobForms DEF Number, ApplyReports, AdvertiseFocus, Holding
    <3>2. CASE Number(g)
      BY <3>1, <3>2 DEF Number, Waiting, Types
    <3>3. CASE ApplyReports(g)
      BY <3>1, <3>3 DEF ApplyReports, Waiting, Types
    <3>4. CASE AdvertiseFocus(g)
      BY <3>4 DEF AdvertiseFocus, Waiting, Types
    <3>. QED
      BY <1>4, <3>2, <3>3, <3>4
  <2>. QED
    BY <1>1, <2>1, <2>2 DEF poll
<1>5. ASSUME NEW s \in Sessions, Dismiss(s) PROVE Matched'
  BY <1>1, <1>5 DEF Dismiss, poll
<1>6. ASSUME NEW s \in Sessions, Ask(s) PROVE Matched'
  <2>1. /\ calls' = calls + 1 /\ replies' = replies
        /\ asked' = asked \cup {[id |-> calls + 1, session |-> s]}
        /\ job'[Poller] = [pc |-> "asking", session |-> s]
    BY <1>0, <1>6 DEF Ask, Types
  <2>2. \A q \in asked' : \/ q.id <= calls /\ q \in asked
                          \/ q.id = calls + 1 /\ q.session = s
    BY <2>1 DEF Matched
  <2>3. \A a \in replies' : a.id <= a.at /\ a.at <= calls
    BY <2>1 DEF Matched
  <2>4. \A q \in asked' : q.id <= calls' /\ (q.id = calls' => q.session = s)
    BY <1>0, <2>1, <2>2
  <2>5. \A a \in replies' : a.at <= calls' /\ a.id # calls'
    BY <1>0, <2>1, <2>3
  <2>. QED
    BY <2>1, <2>3, <2>4, <2>5 DEF Matched, Waiting
<1>7. ASSUME StartServer \/ StartRound PROVE Matched'
  BY <1>1, <1>7 DEF StartServer, StartRound
<1>8. ASSUME ServerDies PROVE Matched'
  <2>1. job'[Poller] = job[Poller] \/ ~(Waiting("asking") \/ Waiting("answered"))'
    BY <1>0, <1>8 DEF ServerDies, Waiting, Types
  <2>. QED
    BY <1>1, <1>8, <2>1 DEF ServerDies
<1>9. ASSUME CallFails PROVE Matched'
  <2>1. ~(Waiting("asking") \/ Waiting("answered"))' /\ UNCHANGED poll
    BY <1>0, <1>9 DEF CallFails, Waiting, Types
  <2>. QED
    BY <1>1, <2>1 DEF poll
<1>10. ASSUME NEW q \in asked, NEW info \in Info, Reply(q, info) PROVE Matched'
  <2>1. /\ info.session = q.session /\ calls' = calls /\ job' = job
        /\ asked' \subseteq asked
        /\ replies' = replies \cup {[id |-> q.id, info |-> info, at |-> calls]}
    BY <1>10 DEF Reply
  <2>2. q.id <= calls
    BY DEF Matched
  <2>. QED
    BY <1>0, <2>1, <2>2 DEF Matched, Waiting
<1>11. ASSUME NEW a \in replies, ReadReply(a) PROVE Matched'
  <2>1. calls' = calls /\ asked' = asked /\ replies' \subseteq replies
    BY <1>11 DEF ReadReply
  <2>2. CASE job' = job
    BY <1>1, <2>1, <2>2
  <2>3. CASE job' # job
    <3>1. /\ Waiting("asking") /\ a.id = calls
          /\ job'[Poller] = [pc |-> "answered", session |-> job[Poller].session,
                             info |-> a.info, at |-> a.at]
      BY <1>0, <1>11, <2>3 DEF ReadReply, Waiting, IsPending, Types
    <3>2. a.info.session = job[Poller].session /\ a.at = calls
      BY <1>0, <3>1 DEF Matched
    <3>. QED
      BY <2>1, <3>1, <3>2 DEF Matched, Waiting
  <2>. QED
    BY <2>2, <2>3
<1>12. CASE UNCHANGED vars
  BY <1>1, <1>12 DEF vars, poll
<1>. QED
  BY <1>2, <1>3, <1>4, <1>5, <1>6, <1>7, <1>8, <1>9, <1>10, <1>11, <1>12 DEF Next

\* An answer left over from a call that timed out is never taken for the answer to
\* a later one (Client.call, readLoop).
THEOREM AnswersMatch == Spec => []AnswersAreCurrent
<1>1. Init => Matched
  BY DEF Init, Matched, Waiting, Threads
<1>2. Matched => AnswersAreCurrent
  BY DEF Matched, AnswersAreCurrent, Waiting
<1>. QED
  BY <1>1, <1>2, MatchedStep, TypesHold, PTL DEF Spec

-----------------------------------------------------------------------------
(* The memory of events.  seen is the end of what was applied, the hooks of *)
(* it: a hook is either at the place that the number of hooks applied after *)
(* it gives, or that many have been applied that it was let go of.          *)

Inputs == Events \cup Info

After(i) == {k \in (i + 1)..Len(applied) : IsHook(applied[k])}

Placed(i) ==
  \/ Cardinality(After(i)) >= MaxSeen
  \/ /\ Cardinality(After(i)) < Len(seen)
     /\ seen[Len(seen) - Cardinality(After(i))] = applied[i]

Recalled ==
  /\ applied \in Seq(Inputs) /\ seen \in Seq(Events) /\ Len(seen) <= MaxSeen
  /\ \A i \in 1..Len(applied) : IsHook(applied[i]) => Placed(i)
  /\ AppliedOnce

LEMMA AfterFinite ==
  ASSUME applied \in Seq(Inputs), NEW i \in Nat
  PROVE  IsFiniteSet(After(i)) /\ Cardinality(After(i)) \in Nat
<1>1. Len(applied) \in Nat
  BY LenProperties
<1>2. IsFiniteSet((i + 1)..Len(applied))
  BY <1>1, FS_Interval
<1>. QED
  BY <1>2, FS_Subset, FS_CardinalityType DEF After

\* What one more input does to the hooks after an earlier one.
LEMMA AfterAppend ==
  ASSUME applied \in Seq(Inputs), NEW x \in Inputs, applied' = Append(applied, x)
  PROVE  /\ applied' \in Seq(Inputs) /\ Len(applied) \in Nat
         /\ Len(applied') = Len(applied) + 1 /\ applied'[Len(applied) + 1] = x
         /\ \A i \in 1..Len(applied) : applied'[i] = applied[i]
         /\ \A i \in 1..Len(applied) :
              Cardinality(After(i)') =
                IF IsHook(x) THEN Cardinality(After(i)) + 1 ELSE Cardinality(After(i))
         /\ \A i \in Nat : i = Len(applied) + 1 => Cardinality(After(i)') = 0
<1> DEFINE n == Len(applied)
<1>1. /\ applied' \in Seq(Inputs) /\ n \in Nat
      /\ Len(applied') = n + 1 /\ applied'[n + 1] = x
      /\ \A i \in 1..n : applied'[i] = applied[i]
  BY AppendProperties, LenProperties
<1>2. ASSUME NEW i \in 1..n
      PROVE  Cardinality(After(i)') =
               IF IsHook(x) THEN Cardinality(After(i)) + 1 ELSE Cardinality(After(i))
  <2>1. /\ IsFiniteSet(After(i)) /\ Cardinality(After(i)) \in Nat
    BY AfterFinite
  <2>2. /\ (i + 1)..(n + 1) = ((i + 1)..n) \cup {n + 1}
        /\ \A k \in (i + 1)..n : k \in 1..n
    BY <1>1
  <2>3. After(i)' = {k \in (i + 1)..(n + 1) : IsHook(applied'[k])}
    BY <1>1 DEF After
  <2>4. After(i)' = IF IsHook(x) THEN After(i) \cup {n + 1} ELSE After(i)
    <3> HIDE DEF n
    <3>1. After(i) = {k \in (i + 1)..n : IsHook(applied[k])}
      BY DEF After, n
    <3>. QED
      BY <1>1, <2>2, <2>3, <3>1
  <2>5. n + 1 \notin After(i)
    BY <1>1 DEF After
  <2>. QED
    BY <2>1, <2>4, <2>5, FS_AddElement
<1>3. ASSUME NEW i \in Nat, i = n + 1 PROVE Cardinality(After(i)') = 0
  <2>1. After(i)' = {}
    BY <1>1, <1>3 DEF After
  <2>. QED
    BY <2>1, FS_EmptySet
<1>. QED
  BY <1>1, <1>2, <1>3

\* Reducer.remember, on an event it does not hold.
LEMMA RememberEvent ==
  ASSUME Recalled, NEW e \in Events, e \notin SeqRange(seen),
         seen' = Remembered(e), applied' = Append(applied, e)
  PROVE  Recalled'
<1> DEFINE n == Len(applied)
           l == Len(seen)
           longer == Append(seen, e)
<1>1. /\ applied \in Seq(Inputs) /\ seen \in Seq(Events) /\ l \in Nat /\ l <= MaxSeen
      /\ e \in Inputs /\ n \in Nat /\ MaxSeen \in Nat \ {0}
  BY LenProperties, CodexAssumption DEF Recalled, Inputs, CodexAssumption
<1>2. /\ applied' \in Seq(Inputs) /\ Len(applied') = n + 1 /\ applied'[n + 1] = e
      /\ \A i \in 1..n : applied'[i] = applied[i]
      /\ \A i \in 1..n : IsHook(e) => Cardinality(After(i)') = Cardinality(After(i)) + 1
      /\ \A i \in Nat : i = n + 1 => Cardinality(After(i)') = 0
  BY <1>1, AfterAppend
<1>3. IsHook(e)
  BY CodexAssumption DEF CodexAssumption, Event, IsHook
<1>4. /\ longer \in Seq(Events) /\ longer # <<>> /\ Len(longer) = l + 1 /\ longer[l + 1] = e
      /\ \A p \in 1..l : longer[p] = seen[p]
  BY <1>1, AppendProperties
<1>5. /\ seen' \in Seq(Events) /\ Len(seen') \in Nat /\ Len(seen') <= MaxSeen
      /\ \A p \in 0..l : p < Len(seen') => seen'[Len(seen') - p] = longer[l + 1 - p]
      /\ \A p \in 0..l : p < MaxSeen => p < Len(seen')
  <2>1. CASE l + 1 > MaxSeen
    <3>1. l = MaxSeen /\ seen' = Tail(longer)
      BY <1>1, <1>4, <2>1 DEF Remembered
    <3>2. /\ Tail(longer) \in Seq(Events) /\ Len(Tail(longer)) = l
          /\ \A p \in 1..l : Tail(longer)[p] = longer[p + 1]
      <4> HIDE DEF longer
      <4>. QED
        BY <1>1, <1>4, HeadTailProperties
    <3>3. \A p \in 0..l : p < l => l - p \in 1..l /\ (l - p) + 1 = l + 1 - p
      BY <1>1
    <3> HIDE DEF longer, l
    <3>. QED
      BY <1>1, <3>1, <3>2, <3>3
  <2>2. CASE l + 1 <= MaxSeen
    <3>1. seen' = longer
      BY <1>1, <1>4, <2>2 DEF Remembered
    <3>2. \A p \in 0..l : l + 1 - p \in 1..(l + 1) /\ p < l + 1
      BY <1>1
    <3>3. Len(seen') = l + 1
      BY <1>4, <3>1
    <3> HIDE DEF longer, l
    <3>4. \A p \in 0..l : seen'[Len(seen') - p] = longer[l + 1 - p]
      <4> SUFFICES ASSUME NEW p \in 0..l PROVE seen'[Len(seen') - p] = longer[l + 1 - p]
        OBVIOUS
      <4>1. Len(seen') - p = l + 1 - p
        BY <1>1, <3>3
      <4>2. seen'[l + 1 - p] = longer[l + 1 - p]
        BY <3>1
      <4>. QED
        BY <4>1, <4>2
    <3>5. seen' \in Seq(Events) /\ Len(seen') \in Nat /\ Len(seen') <= MaxSeen
      BY <1>1, <1>4, <2>2, <3>1, <3>3
    <3>6. \A p \in 0..l : p < Len(seen')
      BY <3>2, <3>3
    <3>. QED
      BY <3>4, <3>5, <3>6
  <2>. QED
    BY <1>1, <2>1, <2>2
<1>6. ASSUME NEW i \in 1..(n + 1), IsHook(applied'[i]) PROVE Placed(i)'
  <2>1. CASE i = n + 1
    <3>1. 0 \in 0..l /\ 0 < MaxSeen /\ l + 1 - 0 = l + 1
      BY <1>1
    <3>2. 0 < Len(seen') /\ seen'[Len(seen') - 0] = longer[l + 1]
      BY <1>5, <3>1
    <3>3. Cardinality(After(i)') = 0 /\ longer[l + 1] = applied'[i]
      BY <1>1, <1>2, <1>4, <2>1
    <3> HIDE DEF longer, l, n
    <3>. QED
      BY <3>2, <3>3 DEF Placed
  <2>2. CASE i \in 1..n
    <3> DEFINE p == Cardinality(After(i))
    <3>1. p \in Nat /\ Cardinality(After(i)') = p + 1
      BY <1>1, <1>2, <1>3, <2>2, AfterFinite
    <3>2. Placed(i)
      BY <1>2, <1>6, <2>2 DEF Recalled
    <3>3. CASE p + 1 >= MaxSeen
      BY <3>1, <3>3 DEF Placed
    <3>4. CASE p + 1 < MaxSeen
      <4>1. p < l /\ seen[l - p] = applied[i]
        BY <1>1, <3>1, <3>2, <3>4 DEF Placed
      <4>2. p + 1 \in 0..l /\ p + 1 < Len(seen') /\ l - p \in 1..l /\ l + 1 - (p + 1) = l - p
        BY <1>1, <1>5, <3>1, <3>4, <4>1
      <4>3. seen'[Len(seen') - (p + 1)] = longer[l - p]
        BY <1>5, <4>2
      <4>4. seen'[Len(seen') - (p + 1)] = applied'[i]
        BY <1>2, <1>4, <2>2, <4>1, <4>2, <4>3
      <4>. QED
        BY <3>1, <4>2, <4>4 DEF Placed
    <3>. QED
      BY <1>1, <3>1, <3>3, <3>4
  <2>. QED
    BY <1>1, <2>1, <2>2
<1>7. AppliedOnce'
  <2> SUFFICES ASSUME NEW i \in 1..(n + 1), NEW j \in 1..(n + 1), i < j, IsHook(applied'[i]),
                      applied'[i] = applied'[j]
               PROVE  Cardinality({k \in (i + 1)..(j - 1) : IsHook(applied'[k])}) >= MaxSeen
    <3>1. DOMAIN applied' = 1..(n + 1)
      BY <1>2, LenProperties
    <3>. QED
      BY <3>1 DEF AppliedOnce
  <2>1. i \in 1..n /\ j - 1 <= n
    BY <1>1
  <2>2. {k \in (i + 1)..(j - 1) : IsHook(applied'[k])} = {k \in (i + 1)..(j - 1) : IsHook(applied[k])}
    <3>1. \A k \in (i + 1)..(j - 1) : k \in 1..n
      BY <1>1, <2>1
    <3>. QED
      BY <1>2, <3>1
  <2>3. CASE j \in 1..n
    <3>1. IsHook(applied[i]) /\ applied[i] = applied[j] /\ i \in DOMAIN applied /\ j \in DOMAIN applied
      BY <1>1, <1>2, <2>1, <2>3, LenProperties
    <3>. QED
      BY <2>2, <3>1 DEF Recalled, AppliedOnce
  <2>4. CASE j = n + 1
    <3>1. applied[i] = e /\ Placed(i)
      BY <1>2, <1>3, <2>1, <2>4 DEF Recalled
    <3>2. After(i) = {k \in (i + 1)..(j - 1) : IsHook(applied[k])}
      BY <1>1, <2>4 DEF After
    <3>3. Cardinality(After(i)) \in Nat
      BY <1>1, <2>1, AfterFinite
    <3>4. Cardinality(After(i)) >= MaxSeen
      <4>1. SUFFICES ASSUME Cardinality(After(i)) < l, seen[l - Cardinality(After(i))] = e
                     PROVE  FALSE
        BY <3>1 DEF Placed
      <4>2. l - Cardinality(After(i)) \in 1..l
        BY <1>1, <3>3, <4>1
      <4>3. DOMAIN seen = 1..l
        BY <1>1, LenProperties
      <4>. QED
        BY <4>1, <4>2, <4>3 DEF SeqRange
    <3>. QED
      BY <2>2, <3>2, <3>4
  <2>5. j \in 1..n \/ j = n + 1
    <3>1. n \in Nat
      BY <1>1
    <3> HIDE DEF n
    <3>. QED
      BY <3>1
  <2>. QED
    BY <2>3, <2>4, <2>5
<1>. QED
  BY <1>2, <1>5, <1>6, <1>7 DEF Recalled

\* A status is no hook: it changes nothing of this.
LEMMA StatusRecalled ==
  ASSUME Recalled, NEW info \in Info, seen' = seen, applied' = Append(applied, info)
  PROVE  Recalled'
<1> DEFINE n == Len(applied)
<1>1. applied \in Seq(Inputs) /\ info \in Inputs /\ n \in Nat
  BY LenProperties DEF Recalled, Inputs
<1>2. ~IsHook(info)
  BY DEF Info, IsHook
<1>3. /\ applied' \in Seq(Inputs) /\ Len(applied') = n + 1 /\ applied'[n + 1] = info
      /\ \A i \in 1..n : applied'[i] = applied[i]
      /\ \A i \in 1..n : Cardinality(After(i)') = Cardinality(After(i))
  BY <1>1, <1>2, AfterAppend
<1>4. ASSUME NEW i \in 1..(n + 1), IsHook(applied'[i]) PROVE Placed(i)'
  <2>1. i \in 1..n
    BY <1>1, <1>2, <1>3, <1>4
  <2>2. Placed(i)
    BY <1>3, <1>4, <2>1 DEF Recalled
  <2>. QED
    BY <1>3, <2>1, <2>2 DEF Placed
<1>5. AppliedOnce'
  <2> SUFFICES ASSUME NEW i \in 1..(n + 1), NEW j \in 1..(n + 1), i < j, IsHook(applied'[i]),
                      applied'[i] = applied'[j]
               PROVE  Cardinality({k \in (i + 1)..(j - 1) : IsHook(applied'[k])}) >= MaxSeen
    <3>1. DOMAIN applied' = 1..(n + 1)
      BY <1>3, LenProperties
    <3>. QED
      BY <3>1 DEF AppliedOnce
  <2>1. i \in 1..n /\ j \in 1..n
    BY <1>1, <1>2, <1>3
  <2>2. \A k \in (i + 1)..(j - 1) : applied'[k] = applied[k]
    BY <1>1, <1>3, <2>1
  <2>3. {k \in (i + 1)..(j - 1) : IsHook(applied'[k])} = {k \in (i + 1)..(j - 1) : IsHook(applied[k])}
    BY <2>2
  <2>4. IsHook(applied[i]) /\ applied[i] = applied[j] /\ i \in DOMAIN applied /\ j \in DOMAIN applied
    BY <1>1, <1>3, <2>1, LenProperties
  <2>. QED
    BY <2>3, <2>4 DEF Recalled, AppliedOnce
<1>. QED
  BY <1>3, <1>4, <1>5 DEF Recalled

LEMMA RecalledStep == Types /\ Recalled /\ [Next]_vars => Recalled'
<1> SUFFICES ASSUME Types, Recalled, [Next]_vars PROVE Recalled'
  OBVIOUS
<1>1. ASSUME NEW g \in Hooks, NEW e \in Events, ReduceHook(g, e) PROVE Recalled'
  BY <1>1, RememberEvent DEF ReduceHook
<1>2. CASE EnrichThread
  <2>1. job[Poller] # None /\ job[Poller].pc = "answered"
    BY <1>2 DEF EnrichThread
  <2>2. job[Poller].info \in Info
    BY <2>1, JobForms DEF Threads
  <2>3. seen' = seen /\ (applied' = applied \/ applied' = Append(applied, job[Poller].info))
    BY <1>2 DEF EnrichThread
  <2>4. CASE applied' = applied
    BY <2>3, <2>4 DEF Recalled, Placed, After, AppliedOnce
  <2>. QED
    BY <2>2, <2>3, <2>4, StatusRecalled
<1>3. CASE UNCHANGED <<seen, applied>>
  BY <1>3 DEF Recalled, Placed, After, AppliedOnce
<1>. QED
  BY <1>1, <1>2, <1>3
     DEF Next, vars, reducer, IgnoreHook, Number, ApplyReports, AdvertiseFocus, Dismiss, Ask,
         StartServer, ServerDies, StartRound, Reply, ReadReply, CallFails

\* A hook that is delivered again is ignored until as many others as the memory
\* holds were applied since (Reducer.remember).
THEOREM HooksOnce == Spec => []AppliedOnce
<1>1. Init => Recalled
  <2> SUFFICES ASSUME Init PROVE Recalled
    OBVIOUS
  <2>1. applied = <<>> /\ seen = <<>>
    BY DEF Init
  <2>2. /\ applied \in Seq(Inputs) /\ seen \in Seq(Events) /\ Len(seen) = 0
        /\ 1..Len(applied) = {} /\ DOMAIN applied = {}
    BY <2>1, EmptySeq
  <2>. QED
    BY <2>2, CodexAssumption DEF CodexAssumption, Recalled, AppliedOnce
<1>2. Recalled => AppliedOnce
  BY DEF Recalled
<1>. QED
  BY <1>1, <1>2, RecalledStep, TypesHold, PTL DEF Spec

-----------------------------------------------------------------------------
(* Histories.  What one more input x, of the session s, makes of them, of   *)
(* the needs they leave open, of the work and of the conclusions.           *)

Needs == {"question", "permission", "approval"}

LEMMA NeedForms ==
  /\ \A x : Need(x) # "" => Need(x) \in Needs
  /\ \A x, q : Concludes(x) \/ Need(x) # "" => Settles(x, q)
<1>1. ASSUME NEW x, Need(x) # "" PROVE Need(x) \in Needs
  <2>1. CASE HookIs(x, "PreToolUse")
    BY <1>1, <2>1 DEF Need, Needs
  <2>2. CASE ~HookIs(x, "PreToolUse") /\ HookIs(x, "PermissionRequest")
    BY <1>1, <2>2 DEF Need, Needs
  <2>3. CASE ~HookIs(x, "PreToolUse") /\ ~HookIs(x, "PermissionRequest")
             /\ StatusIs(x, "waitingOnApproval")
    BY <1>1, <2>3 DEF Need, Needs
  <2>4. CASE ~HookIs(x, "PreToolUse") /\ ~HookIs(x, "PermissionRequest")
             /\ ~StatusIs(x, "waitingOnApproval")
    BY <1>1, <2>4 DEF Need, Needs
  <2>. QED
    BY <2>1, <2>2, <2>3, <2>4
<1>2. \A x, q : Concludes(x) \/ Need(x) # "" => Settles(x, q)
  BY DEF Settles
<1>. QED
  BY <1>1, <1>2

LEMMA HistoryPlaces ==
  ASSUME applied \in Seq(Inputs), NEW s
  PROVE  /\ History(s) \subseteq 1..Len(applied)
         /\ \A i \in History(s) : applied[i].session = s
  BY LenProperties DEF History

\* What the input at place m makes of a history.
LEMMA HistoryAppend ==
  ASSUME applied \in Seq(Inputs), NEW x \in Inputs, applied' = Append(applied, x),
         NEW s, NEW m \in Nat, m = Len(applied) + 1
  PROVE  History(s)' = IF x.session # s THEN History(s)
                       ELSE IF HookIs(x, "SessionEnd") THEN {}
                       ELSE History(s) \cup {m}
<1>1. /\ applied' \in Seq(Inputs) /\ Len(applied) \in Nat /\ Len(applied') = m
      /\ applied'[m] = x /\ \A i \in 1..Len(applied) : applied'[i] = applied[i]
  BY AppendProperties, LenProperties
<1>2. DOMAIN applied = 1..(m - 1) /\ DOMAIN applied' = 1..m
  BY <1>1, LenProperties
<1>3. 1..m = 1..(m - 1) \cup {m} /\ \A i \in 1..(m - 1) : i < m
  OBVIOUS
<1>4. \A i \in 1..(m - 1) : applied'[i] = applied[i]
  BY <1>1
<1> DEFINE Clear(i) == \A j \in 1..(m - 1) : j >= i /\ applied[j].session = s =>
                         ~HookIs(applied[j], "SessionEnd")
           Keeps == ~(x.session = s /\ HookIs(x, "SessionEnd"))
<1>5. History(s) = {i \in 1..(m - 1) : applied[i].session = s /\ Clear(i)}
  BY <1>2 DEF History
<1>6. History(s)' = {i \in 1..m : /\ applied'[i].session = s
                                  /\ \A j \in 1..m : j >= i /\ applied'[j].session = s =>
                                       ~HookIs(applied'[j], "SessionEnd")}
  BY <1>2 DEF History
<1>7. \A i \in 1..m : (\A j \in 1..m : j >= i /\ applied'[j].session = s =>
                                       ~HookIs(applied'[j], "SessionEnd"))
                      <=> (\A j \in 1..(m - 1) : j >= i /\ applied'[j].session = s =>
                                       ~HookIs(applied'[j], "SessionEnd")) /\ Keeps
  BY <1>1, <1>3
<1>8. \A i \in 1..m : (\A j \in 1..m : j >= i /\ applied'[j].session = s =>
                                       ~HookIs(applied'[j], "SessionEnd"))
                      <=> Clear(i) /\ Keeps
  <2>1. \A i \in 1..m : Clear(i) <=> \A j \in 1..(m - 1) : j >= i /\ applied'[j].session = s =>
                                                       ~HookIs(applied'[j], "SessionEnd")
    BY <1>4
  <2> HIDE DEF Clear, Keeps
  <2>. QED
    BY <1>7, <2>1
<1>9. Clear(m)
  BY <1>3
<1> HIDE DEF Clear
<1>10. History(s)' = {i \in 1..m : applied'[i].session = s /\ Clear(i) /\ Keeps}
  BY <1>6, <1>8
<1>11. \A i : i \in History(s)' <=> /\ Keeps
                                    /\ \/ i \in 1..(m - 1) /\ applied[i].session = s /\ Clear(i)
                                       \/ i = m /\ x.session = s
  BY <1>1, <1>3, <1>4, <1>9, <1>10
<1>12. \A i : i \in History(s)' <=> Keeps /\ (i \in History(s) \/ (i = m /\ x.session = s))
  BY <1>5, <1>11
<1>13. Keeps <=> x.session # s \/ ~HookIs(x, "SessionEnd")
  OBVIOUS
<1> HIDE DEF Keeps
<1>14. History(s) \subseteq {i \in 1..(m - 1) : applied[i].session = s}
  BY <1>5
<1>15. CASE x.session # s
  BY <1>12, <1>13, <1>15
<1>16. CASE x.session = s /\ HookIs(x, "SessionEnd")
  BY <1>12, <1>13, <1>16
<1>17. CASE x.session = s /\ ~HookIs(x, "SessionEnd")
  BY <1>12, <1>13, <1>17
<1>. QED
  BY <1>15, <1>16, <1>17

\* Appending x at place m, to a history that goes on.
Grows(s, x, m) ==
  /\ applied \in Seq(Inputs) /\ applied' \in Seq(Inputs)
  /\ m \in Nat /\ m = Len(applied) + 1 /\ m = Len(applied')
  /\ applied'[m] = x /\ \A i \in 1..(m - 1) : applied'[i] = applied[i]
  /\ History(s) \subseteq 1..(m - 1)
  /\ History(s)' = IF x.session = s THEN History(s) \cup {m} ELSE History(s)

LEMMA HistoryGrows ==
  ASSUME applied \in Seq(Inputs), NEW x \in Inputs, applied' = Append(applied, x),
         NEW s, NEW m \in Nat, m = Len(applied) + 1,
         x.session # s \/ ~HookIs(x, "SessionEnd")
  PROVE  Grows(s, x, m)
<1>1. /\ applied' \in Seq(Inputs) /\ Len(applied) \in Nat /\ Len(applied') = m
      /\ applied'[m] = x /\ \A i \in 1..Len(applied) : applied'[i] = applied[i]
  BY AppendProperties, LenProperties
<1>2. Len(applied) = m - 1
  BY <1>1
<1>3. History(s) \subseteq 1..(m - 1)
  BY <1>2, HistoryPlaces
<1>4. History(s)' = IF x.session = s THEN History(s) \cup {m} ELSE History(s)
  BY HistoryAppend
<1>. QED
  BY <1>1, <1>2, <1>3, <1>4 DEF Grows

\* The places of the needs of s that are open at place n.
OpenAt(s, n) ==
  {i \in History(s) :
     /\ i <= n /\ Need(applied[i]) # ""
     /\ \A j \in History(s) : i < j /\ j <= n => ~Settles(applied[j], Need(applied[i]))}

LEMMA OpenPlaces == \A s, n : OpenNeeds(s, n) = {Need(applied[i]) : i \in OpenAt(s, n)}
  BY DEF OpenNeeds, OpenAt

LEMMA OpenBefore ==
  ASSUME NEW s, NEW x, NEW m, Grows(s, x, m), NEW n \in Nat, n < m
  PROVE  OpenAt(s, n)' = OpenAt(s, n) /\ OpenNeeds(s, n)' = OpenNeeds(s, n)
<1>1. \A i \in History(s)' : i <= n => i \in History(s) /\ applied'[i] = applied[i]
  BY DEF Grows
<1>2. \A i \in History(s) : i \in History(s)' /\ applied'[i] = applied[i]
  BY DEF Grows
<1>3. \A i : i \in OpenAt(s, n)' => i \in OpenAt(s, n)
  <2> SUFFICES ASSUME NEW i, i \in OpenAt(s, n)' PROVE i \in OpenAt(s, n)
    OBVIOUS
  <2>1. /\ i \in History(s)' /\ i <= n /\ Need(applied'[i]) # ""
        /\ \A j \in History(s)' : i < j /\ j <= n => ~Settles(applied'[j], Need(applied'[i]))
    BY DEF OpenAt
  <2>. QED
    BY <1>1, <1>2, <2>1 DEF OpenAt
<1>4. \A i : i \in OpenAt(s, n) => i \in OpenAt(s, n)'
  <2> SUFFICES ASSUME NEW i, i \in OpenAt(s, n) PROVE i \in OpenAt(s, n)'
    OBVIOUS
  <2>1. /\ i \in History(s) /\ i <= n /\ Need(applied[i]) # ""
        /\ \A j \in History(s) : i < j /\ j <= n => ~Settles(applied[j], Need(applied[i]))
    BY DEF OpenAt
  <2>2. \A j \in History(s)' : i < j /\ j <= n => ~Settles(applied'[j], Need(applied'[i]))
    BY <1>1, <1>2, <2>1
  <2>. QED
    BY <1>2, <2>1, <2>2 DEF OpenAt
<1>5. OpenAt(s, n)' = OpenAt(s, n)
  BY <1>3, <1>4
<1>6. \A i \in OpenAt(s, n) : applied'[i] = applied[i]
  BY <1>2 DEF OpenAt
<1>7. OpenNeeds(s, n)' = {Need(applied'[i]) : i \in OpenAt(s, n)'}
  BY OpenPlaces DEF OpenNeeds, OpenAt
<1>. QED
  BY <1>5, <1>6, <1>7, OpenPlaces

\* With x, of s: its own need, or the old ones that x does not settle.
LEMMA OpenAfter ==
  ASSUME NEW s, NEW x, x.session = s, NEW m, Grows(s, x, m),
         NEW n \in Nat, n = m - 1
  PROVE  /\ Need(x) # "" => OpenNeeds(s, m)' = {Need(x)}
         /\ Need(x) = "" => \A q : q \in OpenNeeds(s, m)' <=> q \in OpenNeeds(s, n) /\ ~Settles(x, q)
<1>1. /\ History(s)' = History(s) \cup {m} /\ History(s) \subseteq 1..n /\ applied'[m] = x
      /\ m \in Nat /\ n < m /\ m \notin History(s)
      /\ \A i \in History(s) : applied'[i] = applied[i] /\ i <= n /\ i < m /\ i <= m
  BY DEF Grows
<1>2. \A i : i \in OpenAt(s, m)' <=>
        \/ i = m /\ Need(x) # ""
        \/ i \in OpenAt(s, n) /\ ~Settles(x, Need(applied[i]))
  <2>1. ASSUME NEW i PROVE i \in OpenAt(s, m)' <=>
          /\ i \in History(s)' /\ i <= m /\ Need(applied'[i]) # ""
          /\ \A j \in History(s)' : i < j /\ j <= m => ~Settles(applied'[j], Need(applied'[i]))
    BY DEF OpenAt
  <2>2. ASSUME NEW i, i \in History(s)
        PROVE  i \in OpenAt(s, m)' <=> i \in OpenAt(s, n) /\ ~Settles(x, Need(applied[i]))
    <3>1. (\A j \in History(s)' : i < j /\ j <= m => ~Settles(applied'[j], Need(applied'[i])))
          <=> /\ \A j \in History(s) : i < j /\ j <= n => ~Settles(applied[j], Need(applied[i]))
              /\ ~Settles(x, Need(applied[i]))
      BY <1>1, <2>2
    <3>. QED
      BY <1>1, <2>1, <2>2, <3>1 DEF OpenAt
  <2>3. m \in OpenAt(s, m)' <=> Need(x) # ""
    <3>1. \A j \in History(s)' : ~(m < j)
      BY <1>1
    <3>2. m \in OpenAt(s, m)' <=>
            /\ m \in History(s)' /\ m <= m /\ Need(applied'[m]) # ""
            /\ \A j \in History(s)' : m < j /\ j <= m => ~Settles(applied'[j], Need(applied'[m]))
      BY <2>1
    <3>3. m \in History(s)' /\ m <= m /\ Need(applied'[m]) = Need(x)
      BY <1>1
    <3>. QED
      BY <3>1, <3>2, <3>3
  <2>. QED
    BY <1>1, <2>1, <2>2, <2>3 DEF OpenAt
<1>3. OpenNeeds(s, m)' = {Need(applied'[i]) : i \in OpenAt(s, m)'}
  BY OpenPlaces DEF OpenNeeds, OpenAt
<1>4. \A i \in OpenAt(s, n) : applied'[i] = applied[i]
  BY <1>1 DEF OpenAt
<1>5. CASE Need(x) # ""
  <2>1. \A i : i \in OpenAt(s, m)' <=> i = m
    BY <1>2, <1>5, NeedForms
  <2>2. \A q : q \in OpenNeeds(s, m)' <=> \E i \in OpenAt(s, m)' : q = Need(applied'[i])
    BY <1>3
  <2>3. \A q : q \in OpenNeeds(s, m)' <=> q = Need(x)
    BY <1>1, <2>1, <2>2
  <2>4. OpenNeeds(s, m)' = {Need(x)}
    BY <2>3
  <2>. QED
    BY <1>5, <2>4
<1>6. CASE Need(x) = ""
  <2>1. \A i : i \in OpenAt(s, m)' <=> i \in OpenAt(s, n) /\ ~Settles(x, Need(applied[i]))
    BY <1>2, <1>6
  <2>2. \A q : q \in OpenNeeds(s, m)' <=> \E i \in OpenAt(s, m)' : q = Need(applied'[i])
    BY <1>3
  <2>3. \A q : q \in OpenNeeds(s, n) <=> \E i \in OpenAt(s, n) : q = Need(applied[i])
    BY OpenPlaces
  <2>4. \A q : q \in OpenNeeds(s, m)' <=> q \in OpenNeeds(s, n) /\ ~Settles(x, q)
    BY <1>4, <2>1, <2>2, <2>3
  <2>. QED
    BY <1>6, <2>4
<1>. QED
  BY <1>5, <1>6

\* The last status of a session said idle since its work began, and what concluded
\* it last was a failure.
IdleSince(s) ==
  \E k \in History(s) : StatusIs(applied[k], "idle") /\ \A i \in Work(s) : i < k

FailedLast(s) ==
  \E i \in Conclusions(s) : ~IsHook(applied[i]) /\ \A j \in Conclusions(s) : j <= i

LEMMA WorkPlaces ==
  \A s : Conclusions(s) \subseteq History(s) /\ Work(s) \subseteq History(s)
  BY DEF Conclusions, Work

LEMMA StartsWorkAfter ==
  ASSUME NEW s, NEW x, NEW m, Grows(s, x, m)
  PROVE  \A i \in History(s) : StartsWork(s, i)' <=> StartsWork(s, i)
<1> SUFFICES ASSUME NEW i \in History(s) PROVE StartsWork(s, i)' <=> StartsWork(s, i)
  OBVIOUS
<1>1. i \in 1..(m - 1) /\ applied'[i] = applied[i] /\ m \in Nat
  BY DEF Grows
<1>2. i \in Nat /\ i - 1 \in Nat /\ i < m /\ i - 1 < m
  BY <1>1
<1>3. OpenNeeds(s, i)' = OpenNeeds(s, i)
  BY <1>2, OpenBefore
<1>4. \A k \in Nat : k = i - 1 => OpenNeeds(s, k)' = OpenNeeds(s, k)
  BY <1>2, OpenBefore
<1>. QED
  BY <1>1, <1>2, <1>3, <1>4 DEF StartsWork

\* With x, of s.
LEMMA WorkAfter ==
  ASSUME NEW s, NEW x, x.session = s, NEW m, Grows(s, x, m)
  PROVE  /\ Conclusions(s)' = IF Concludes(x) THEN Conclusions(s) \cup {m} ELSE Conclusions(s)
         /\ Work(s)' = IF Concludes(x) THEN {}
                       ELSE IF StartsWork(s, m)' THEN Work(s) \cup {m} ELSE Work(s)
         /\ FailedLast(s)' <=> IF Concludes(x) THEN ~IsHook(x) ELSE FailedLast(s)
         /\ ~Concludes(x) =>
              (IdleSince(s)' <=> /\ ~StartsWork(s, m)'
                                 /\ IdleSince(s) \/ StatusIs(x, "idle"))
<1>1. /\ History(s)' = History(s) \cup {m} /\ applied'[m] = x /\ m \in Nat /\ m \notin History(s)
      /\ \A i \in History(s) : applied'[i] = applied[i] /\ i < m /\ ~(m < i) /\ ~(m <= i) /\ i <= m
      /\ m <= m /\ ~(m < m)
  BY DEF Grows
<1>2. Conclusions(s)' = IF Concludes(x) THEN Conclusions(s) \cup {m} ELSE Conclusions(s)
  <2>1. Conclusions(s)' = {i \in History(s)' : Concludes(applied'[i])}
    BY DEF Conclusions, Concludes, HookIs, StatusIs
  <2>2. \A i : i \in Conclusions(s)' <=> i \in Conclusions(s) \/ (i = m /\ Concludes(x))
    BY <1>1, <2>1 DEF Conclusions
  <2>. QED
    BY <2>2
<1>3. \A i \in History(s) : StartsWork(s, i)' <=> StartsWork(s, i)
  BY StartsWorkAfter
<1>4. Work(s)' = {i \in History(s)' : StartsWork(s, i)' /\ \A j \in Conclusions(s)' : j < i}
  BY DEF Work
<1>5. /\ Conclusions(s) \subseteq History(s) /\ Work(s) \subseteq History(s)
  BY WorkPlaces
<1>6. FailedLast(s)' <=> \E i \in Conclusions(s)' : ~IsHook(applied'[i]) /\ \A j \in Conclusions(s)' : j <= i
  BY DEF FailedLast, IsHook
<1>7. IdleSince(s)' <=> \E k \in History(s)' : StatusIs(applied'[k], "idle") /\ \A i \in Work(s)' : i < k
  BY DEF IdleSince, StatusIs
<1>8. CASE Concludes(x)
  <2>1. Conclusions(s)' = Conclusions(s) \cup {m}
    BY <1>2, <1>8
  <2>2. Work(s)' = {}
    BY <1>1, <1>4, <2>1
  <2>3. FailedLast(s)' <=> ~IsHook(x)
    BY <1>1, <1>5, <1>6, <2>1
  <2>. QED
    BY <1>8, <2>1, <2>2, <2>3
<1>9. CASE ~Concludes(x)
  <2>1. Conclusions(s)' = Conclusions(s)
    BY <1>2, <1>9
  <2>2. FailedLast(s)' <=> FailedLast(s)
    BY <1>1, <1>5, <1>6, <2>1 DEF FailedLast
  <2>3. \A i : i \in Work(s)' <=> i \in Work(s) \/ (i = m /\ StartsWork(s, m)')
    BY <1>1, <1>3, <1>4, <1>5, <2>1 DEF Work
  <2>4. CASE StartsWork(s, m)'
    <3>1. Work(s)' = Work(s) \cup {m} /\ m \in Work(s)'
      BY <2>3, <2>4
    <3>2. ~IdleSince(s)'
      BY <1>1, <1>7, <3>1
    <3>. QED
      BY <1>9, <2>1, <2>2, <2>4, <3>1, <3>2
  <2>5. CASE ~StartsWork(s, m)'
    <3>1. Work(s)' = Work(s)
      BY <2>3, <2>5
    <3>2. IdleSince(s)' <=> IdleSince(s) \/ StatusIs(x, "idle")
      <4>1. \A i \in Work(s) : i < m
        BY <1>1, <1>5
      <4>. QED
        BY <1>1, <1>7, <3>1, <4>1 DEF IdleSince
    <3>. QED
      BY <1>9, <2>1, <2>2, <2>5, <3>1, <3>2
  <2>. QED
    BY <2>4, <2>5
<1>. QED
  BY <1>8, <1>9

\* The last word, by what is open, worked on and concluded at place n.
Word(n, s) ==
  IF OpenNeeds(s, n) # {} THEN <<"needs_input", CHOOSE q \in OpenNeeds(s, n) : TRUE>>
  ELSE IF Work(s) # {} THEN IF IdleSince(s) THEN Initial.is ELSE Working
  ELSE IF FailedLast(s) THEN <<"blocked", "failed">> ELSE Initial.is

LEMMA WordIs == \A s : LastWord(s) = Word(Len(applied), s)
  BY DEF LastWord, Word, IdleSince, FailedLast

LEMMA WordIsAfter ==
  ASSUME NEW s, NEW x, NEW m, Grows(s, x, m) PROVE LastWord(s)' = Word(m, s)'
<1>1. m = Len(applied')
  BY DEF Grows
<1>. QED
  BY <1>1 DEF LastWord, Word, IdleSince, FailedLast

\* An input of another session changes none of this.
LEMMA OtherSession ==
  ASSUME NEW s, NEW x, x.session # s, NEW m, Grows(s, x, m), NEW n \in Nat, n = m - 1
  PROVE  /\ History(s)' = History(s) /\ OpenNeeds(s, m)' = OpenNeeds(s, n)
         /\ LastWord(s)' = LastWord(s) /\ Subagents(s)' = Subagents(s)
<1>1. /\ History(s)' = History(s) /\ m \in Nat /\ n < m /\ n = Len(applied)
      /\ \A i \in History(s) : applied'[i] = applied[i] /\ i <= n /\ i <= m
  BY DEF Grows
<1>2. OpenNeeds(s, n)' = OpenNeeds(s, n)
  BY <1>1, OpenBefore
<1>3. OpenNeeds(s, m)' = OpenNeeds(s, n)'
  <2>1. OpenAt(s, m)' = OpenAt(s, n)'
    BY <1>1 DEF OpenAt
  <2>2. /\ OpenNeeds(s, m)' = {Need(applied'[i]) : i \in OpenAt(s, m)'}
        /\ OpenNeeds(s, n)' = {Need(applied'[i]) : i \in OpenAt(s, n)'}
    BY OpenPlaces DEF OpenNeeds, OpenAt
  <2>. QED
    BY <2>1, <2>2
<1>4. \A i \in History(s) : StartsWork(s, i)' <=> StartsWork(s, i)
  BY StartsWorkAfter
<1>5. Conclusions(s)' = Conclusions(s)
  <2>1. Conclusions(s)' = {i \in History(s)' : Concludes(applied'[i])}
    BY DEF Conclusions, Concludes, HookIs, StatusIs
  <2>2. \A i : i \in Conclusions(s)' <=> i \in Conclusions(s)
    BY <1>1, <2>1 DEF Conclusions
  <2>3. \A i : i \in Conclusions(s)' => i \in History(s)'
    BY <2>1
  <2>. QED
    BY <1>1, <2>1, <2>2, <2>3 DEF Conclusions
<1>6. Work(s)' = Work(s)
  <2>1. Work(s)' = {i \in History(s)' : StartsWork(s, i)' /\ \A j \in Conclusions(s)' : j < i}
    BY DEF Work
  <2>. QED
    BY <1>1, <1>4, <1>5, <2>1 DEF Work
<1>7. IdleSince(s)' <=> IdleSince(s)
  BY <1>1, <1>6 DEF IdleSince, StatusIs
<1>8. FailedLast(s)' <=> FailedLast(s)
  <2>1. \A i \in Conclusions(s) : applied'[i] = applied[i]
    BY <1>1 DEF Conclusions
  <2>. QED
    BY <1>5, <2>1 DEF FailedLast, IsHook
<1>9. LastWord(s)' = LastWord(s)
  <2>1. /\ LastWord(s)' = Word(m, s)' /\ LastWord(s) = Word(n, s)
    BY <1>1, WordIs, WordIsAfter
  <2>2. (Word(m, s))' = Word(n, s)
    BY <1>2, <1>3, <1>6, <1>7, <1>8 DEF Word
  <2>. QED
    BY <2>1, <2>2
<1>10. Subagents(s)' = Subagents(s)
  BY <1>1 DEF Subagents, HookIs, IsHook
<1>. QED
  BY <1>1, <1>2, <1>3, <1>9, <1>10

\* An empty history says what a new reduction does.
LEMMA EmptyHistory ==
  ASSUME NEW s, History(s) = {}
  PROVE  LastWord(s) = Initial.is /\ Subagents(s) = {} /\ \A n : OpenNeeds(s, n) = {}
<1>1. \A n : OpenNeeds(s, n) = {}
  BY DEF OpenNeeds
<1>2. Work(s) = {} /\ Conclusions(s) = {}
  BY DEF Work, Conclusions
<1>3. ~FailedLast(s)
  BY <1>2 DEF FailedLast
<1>4. LastWord(s) = Initial.is
  BY <1>1, <1>2, <1>3, WordIs DEF Word
<1>. QED
  BY <1>1, <1>4 DEF Subagents

LEMMA SubagentsAfter ==
  ASSUME NEW s, NEW x, x.session = s, NEW m, Grows(s, x, m)
  PROVE  Subagents(s)' =
           IF HookIs(x, "Stop") THEN {}
           ELSE IF HookIs(x, "SubagentStop") THEN Subagents(s) \ {x.agent}
           ELSE IF HookIs(x, "SubagentStart") THEN Subagents(s) \cup ({x.agent} \cap Agents)
           ELSE Subagents(s)
<1> DEFINE Starts(y, a) == HookIs(y, "SubagentStart") /\ y.agent = a
           Ends(y, a) == HookIs(y, "Stop") \/ (HookIs(y, "SubagentStop") /\ y.agent = a)
<1>1. /\ History(s)' = History(s) \cup {m} /\ applied'[m] = x /\ m \in Nat
      /\ \A i \in History(s) : applied'[i] = applied[i] /\ m > i /\ ~(i > m)
      /\ ~(m > m)
  BY DEF Grows
<1>2. \A a : a \in Subagents(s) <=> a \in Agents /\ \E i \in History(s) :
        Starts(applied[i], a) /\ \A j \in History(s) : j > i => ~Ends(applied[j], a)
  BY DEF Subagents
<1>3. \A a : a \in Subagents(s)' <=> a \in Agents /\ \E i \in History(s)' :
        Starts(applied'[i], a) /\ \A j \in History(s)' : j > i => ~Ends(applied'[j], a)
  BY DEF Subagents, HookIs, IsHook
<1>4. \A a : Starts(x, a) => ~Ends(x, a)
  BY DEF HookIs
<1>5. /\ \A a : Starts(x, a) <=> HookIs(x, "SubagentStart") /\ x.agent = a
      /\ \A a : Ends(x, a) <=> HookIs(x, "Stop") \/ (HookIs(x, "SubagentStop") /\ x.agent = a)
      /\ HookIs(x, "SubagentStop") \/ HookIs(x, "SubagentStart") => ~HookIs(x, "Stop")
      /\ ~(HookIs(x, "SubagentStop") /\ HookIs(x, "SubagentStart"))
  BY DEF HookIs
<1> HIDE DEF Starts, Ends
<1>6. \A a : a \in Subagents(s)' <=>
               \/ a \in Subagents(s) /\ ~Ends(x, a)
               \/ a \in Agents /\ Starts(x, a)
  BY <1>1, <1>2, <1>3
<1>. QED
  BY <1>2, <1>5, <1>6

\* At most one need is open.
OneNeed(n, s) ==
  OpenNeeds(s, n) = {} \/ \E q \in Needs : OpenNeeds(s, n) = {q}

LEMMA OneNeedAfter ==
  ASSUME NEW s, NEW x, x.session = s, NEW m, Grows(s, x, m), NEW n \in Nat, n = m - 1,
         OneNeed(n, s)
  PROVE  OneNeed(m, s)'
<1>1. CASE Need(x) # ""
  BY <1>1, OpenAfter, NeedForms DEF OneNeed
<1>2. CASE Need(x) = ""
  <2>1. OpenNeeds(s, m)' = {q \in OpenNeeds(s, n) : ~Settles(x, q)}
    BY <1>2, OpenAfter
  <2>2. CASE OpenNeeds(s, n) = {}
    <3>1. OpenNeeds(s, m)' = {}
      BY <2>1, <2>2
    <3>. QED
      BY <3>1 DEF OneNeed
  <2>3. CASE \E q \in Needs : OpenNeeds(s, n) = {q}
    <3>1. PICK q \in Needs : OpenNeeds(s, n) = {q}
      BY <2>3
    <3>2. OpenNeeds(s, m)' = {} \/ OpenNeeds(s, m)' = {q}
      BY <2>1, <3>1
    <3>. QED
      BY <3>2 DEF OneNeed
  <2>. QED
    BY <2>2, <2>3 DEF OneNeed
<1>. QED
  BY <1>1, <1>2

\* What a last word says of the needs, and with no need open.
LEMMA WordForms ==
  ASSUME NEW s, NEW n, OneNeed(n, s)
  PROVE  /\ \A q : OpenNeeds(s, n) = {q} => Word(n, s) = <<"needs_input", q>>
         /\ OpenNeeds(s, n) = {} =>
              Word(n, s) = IF Work(s) # {} THEN IF IdleSince(s) THEN <<"ready", "completed">>
                                                ELSE <<"running", "working">>
                           ELSE IF FailedLast(s) THEN <<"blocked", "failed">>
                           ELSE <<"ready", "completed">>
         /\ Word(n, s)[1] = "needs_input" <=> OpenNeeds(s, n) # {}
         /\ Word(n, s) = Working => OpenNeeds(s, n) = {} /\ Work(s) # {} /\ ~IdleSince(s)
<1>1. ASSUME NEW q, OpenNeeds(s, n) = {q} PROVE Word(n, s) = <<"needs_input", q>>
  BY <1>1 DEF Word
<1>2. ASSUME OpenNeeds(s, n) = {}
      PROVE  Word(n, s) = IF Work(s) # {} THEN IF IdleSince(s) THEN <<"ready", "completed">>
                                               ELSE <<"running", "working">>
                          ELSE IF FailedLast(s) THEN <<"blocked", "failed">>
                          ELSE <<"ready", "completed">>
  BY <1>2 DEF Word, Working, Initial
<1>. QED
  BY <1>1, <1>2 DEF OneNeed, Working

\* x of s concerns neither a need that is open nor the work.
LEMMA WordKept ==
  ASSUME NEW s, NEW x, x.session = s, NEW m, Grows(s, x, m), NEW n \in Nat, n = m - 1,
         Need(x) = "", \A q \in OpenNeeds(s, n) : ~Settles(x, q),
         ~Concludes(x), ~StartsWork(s, m)', OpenNeeds(s, n) # {} \/ ~StatusIs(x, "idle")
  PROVE  Word(m, s)' = Word(n, s)
<1>1. OpenNeeds(s, m)' = {q \in OpenNeeds(s, n) : ~Settles(x, q)}
  BY OpenAfter
<1>2. OpenNeeds(s, m)' = OpenNeeds(s, n)
  BY <1>1
<1>3. /\ Work(s)' = Work(s) /\ (FailedLast(s)' <=> FailedLast(s))
      /\ OpenNeeds(s, n) = {} => (IdleSince(s)' <=> IdleSince(s))
  BY WorkAfter
<1>4. CASE OpenNeeds(s, n) = {}
  BY <1>2, <1>3, <1>4 DEF Word
<1>5. CASE OpenNeeds(s, n) # {}
  <2>1. /\ Word(n, s) = <<"needs_input", CHOOSE q \in OpenNeeds(s, n) : TRUE>>
        /\ Word(m, s)' = <<"needs_input", CHOOSE q \in OpenNeeds(s, m)' : TRUE>>
    BY <1>2, <1>5 DEF Word
  <2>2. (CHOOSE q \in OpenNeeds(s, m)' : TRUE) = (CHOOSE q \in OpenNeeds(s, n) : TRUE)
    BY <1>2
  <2>. QED
    BY <2>1, <2>2
<1>. QED
  BY <1>4, <1>5

\* The reducer on a hook that does not end its session.
LEMMA HookWord ==
  ASSUME NEW s, NEW x, x \in Event, x.session = s, NEW m, Grows(s, x, m),
         NEW n \in Nat, n = m - 1, OneNeed(n, s), ~HookIs(x, "SessionEnd")
  PROVE  \A r \in Reduction : r.is = Word(n, s) /\ r.agents = Subagents(s) =>
           Reduce(r, x).is = Word(m, s)' /\ Reduce(r, x).agents = Subagents(s)'
<1>0. /\ Need(x) # "" => OpenNeeds(s, m)' = {Need(x)}
      /\ Need(x) = "" => \A q : q \in OpenNeeds(s, m)' <=> q \in OpenNeeds(s, n) /\ ~Settles(x, q)
  <2>1. CASE Need(x) # ""
    BY <2>1, OpenAfter
  <2>2. CASE Need(x) = ""
    BY <2>2, OpenAfter
  <2>. QED
    BY <2>1, <2>2
<1> SUFFICES ASSUME NEW r \in Reduction, r.is = Word(n, s), r.agents = Subagents(s)
             PROVE  Reduce(r, x).is = Word(m, s)' /\ Reduce(r, x).agents = Subagents(s)'
  OBVIOUS
<1> DEFINE O == OpenNeeds(s, n)
           P == OpenNeeds(s, m)'
           New == StartsWork(s, m)'
<1>1. /\ Need(x) # "" => P = {Need(x)}
      /\ Need(x) = "" => \A q : q \in P <=> q \in O /\ ~Settles(x, q)
      /\ \A q : P = {q} => Word(m, s)' = <<"needs_input", q>>
  <2>1. /\ Need(x) # "" => P = {Need(x)}
        /\ Need(x) = "" => \A q : q \in P <=> q \in O /\ ~Settles(x, q)
    BY <1>0
  <2>2. ASSUME NEW q, P = {q} PROVE Word(m, s)' = <<"needs_input", q>>
    BY <2>2 DEF Word
  <2>. QED
    BY <2>1, <2>2
<1>2. IsHook(x) /\ \A e : HookIs(x, e) <=> x.event = e
  BY DEF Event, IsHook, HookIs
<1>3. \A t : ~StatusIs(x, t)
  BY <1>2 DEF StatusIs
<1>4. New <=> \/ x.event = "UserPromptSubmit"
              \/ x.event = "SubagentStart" /\ P = {}
              \/ x.event = "PostToolUse" /\ O # {} /\ P = {}
  <2>1. n < m /\ applied'[m] = x /\ m - 1 = n
    BY DEF Grows
  <2>2. OpenNeeds(s, n)' = O
    BY <2>1, OpenBefore
  <2>. QED
    BY <1>2, <2>1, <2>2 DEF StartsWork, HookIs, IsHook
<1>5. /\ Work(s)' = IF Concludes(x) THEN {} ELSE IF New THEN Work(s) \cup {m} ELSE Work(s)
      /\ FailedLast(s)' <=> IF Concludes(x) THEN ~IsHook(x) ELSE FailedLast(s)
      /\ New /\ ~Concludes(x) => ~IdleSince(s)'
  BY WorkAfter
<1>6. /\ Need(x) = IF x.event = "PreToolUse" THEN IF x.question THEN "question" ELSE ""
                   ELSE IF x.event = "PermissionRequest" THEN "permission" ELSE ""
      /\ Concludes(x) <=> x.event = "Stop"
  BY <1>2, <1>3 DEF Need, Concludes
<1>7. \A q : Settles(x, q) <=> \/ x.event = "UserPromptSubmit" \/ x.event = "Stop"
                               \/ Need(x) # ""
                               \/ x.event = "PostToolUse" /\ (x.question \/ q # "question")
  BY <1>2, <1>6 DEF Settles
<1>8. P = {} /\ New /\ ~Concludes(x) => Word(m, s)' = Working
  BY <1>5 DEF Word
<1>9. /\ Need(x) = "" /\ (\A q \in O : ~Settles(x, q)) /\ ~Concludes(x) /\ ~New
         => Word(m, s)' = r.is
  BY <1>3, WordKept
<1>10. /\ Waits(r) <=> O # {}
       /\ \A q : O = {q} => r.is = <<"needs_input", q>>
  BY WordForms DEF Waits
<1>11. Subagents(s)' = IF x.event = "Stop" THEN {}
                       ELSE IF x.event = "SubagentStop" THEN r.agents \ {x.agent}
                       ELSE IF x.event = "SubagentStart" THEN r.agents \cup ({x.agent} \cap Agents)
                       ELSE r.agents
  BY <1>2, SubagentsAfter
<1>12. /\ r = [is |-> r.is, agents |-> r.agents, title |-> r.title]
       /\ {x.agent} \cap Agents = {x.agent} \ {NoAgent} /\ x.question \in BOOLEAN
  <2>1. x.agent \in Agents \cup {NoAgent} /\ x.question \in BOOLEAN /\ NoAgent \notin Agents
    BY CodexAssumption DEF Event, CodexAssumption
  <2>. QED
    BY <2>1 DEF Reduction
<1>13. O = {} \/ \E q \in Needs : O = {q}
  BY DEF OneNeed
<1> HIDE DEF O, P, New
<1>14. CASE x.event = "UserPromptSubmit"
  <2>1. Reduce(r, x) = [r EXCEPT !.is = Working]
    BY <1>14 DEF Reduce
  <2>2. P = {}
    BY <1>1, <1>6, <1>7, <1>14
  <2>. QED
    BY <1>4, <1>6, <1>8, <1>11, <1>12, <1>14, <2>1, <2>2
<1>15. CASE x.event = "PreToolUse"
  <2>1. Reduce(r, x) = IF x.question THEN [r EXCEPT !.is = <<"needs_input", "question">>] ELSE r
    BY <1>15 DEF Reduce
  <2>2. CASE x.question
    <3>1. Need(x) = "question"
      BY <1>6, <1>15, <2>2
    <3>2. Word(m, s)' = <<"needs_input", "question">>
      BY <1>1, <3>1
    <3>. QED
      BY <1>11, <1>12, <1>15, <2>1, <2>2, <3>2
  <2>3. CASE ~x.question
    <3>1. Need(x) = "" /\ ~Concludes(x) /\ ~New /\ \A q : ~Settles(x, q)
      BY <1>4, <1>6, <1>7, <1>15, <2>3
    <3>. QED
      BY <1>9, <1>11, <1>15, <2>1, <2>3, <3>1
  <2>. QED
    BY <2>2, <2>3
<1>16. CASE x.event = "PermissionRequest"
  <2>1. Reduce(r, x) = [r EXCEPT !.is = <<"needs_input", "permission">>]
    BY <1>16 DEF Reduce
  <2>2. Need(x) = "permission"
    BY <1>6, <1>16
  <2>3. Word(m, s)' = <<"needs_input", "permission">>
    BY <1>1, <2>2
  <2>. QED
    BY <1>11, <1>12, <1>16, <2>1, <2>3
<1>17. CASE x.event = "PostToolUse"
  <2>1. Reduce(r, x) = IF Waits(r) /\ (x.question \/ r.is[2] \in {"permission", "approval"})
                       THEN [r EXCEPT !.is = Working] ELSE r
    BY <1>17 DEF Reduce
  <2>2. /\ Need(x) = "" /\ ~Concludes(x) /\ Subagents(s)' = r.agents
        /\ (\A q : q \in P <=> q \in O /\ ~Settles(x, q)) /\ (New <=> O # {} /\ P = {})
        /\ \A q : Settles(x, q) <=> x.question \/ q # "question"
    BY <1>1, <1>4, <1>6, <1>7, <1>11, <1>17
  <2>3. CASE O = {}
    <3>1. ~New /\ ~Waits(r)
      BY <1>10, <2>2, <2>3
    <3>2. Reduce(r, x) = r
      BY <2>1, <3>1
    <3>. QED
      BY <1>9, <2>2, <2>3, <3>1, <3>2
  <2>4. ASSUME NEW q \in Needs, O = {q}
        PROVE  Reduce(r, x).is = Word(m, s)' /\ Reduce(r, x).agents = Subagents(s)'
    <3>1. Waits(r) /\ r.is = <<"needs_input", q>> /\ r.is[2] = q
      BY <1>10, <2>4
    <3>2. CASE x.question \/ q # "question"
      <4>1. q \in {"permission", "approval"} \/ x.question
        BY <3>2 DEF Needs
      <4>2. P = {} /\ New
        BY <2>2, <2>4, <3>2
      <4>3. Reduce(r, x) = [r EXCEPT !.is = Working]
        BY <2>1, <3>1, <4>1
      <4>. QED
        BY <1>8, <1>12, <2>2, <4>2, <4>3
    <3>3. CASE ~(x.question \/ q # "question")
      <4>1. q = "question" /\ ~x.question
        BY <3>3
      <4>2. ~(r.is[2] \in {"permission", "approval"})
        BY <3>1, <4>1
      <4>3. Reduce(r, x) = r
        BY <2>1, <4>1, <4>2
      <4>4. P = {q} /\ ~New /\ \A p \in O : ~Settles(x, p)
        BY <2>2, <2>4, <4>1
      <4>. QED
        BY <1>9, <2>2, <4>3, <4>4
    <3>. QED
      BY <3>2, <3>3
  <2>. QED
    BY <1>13, <2>3, <2>4
<1>18. CASE x.event = "SubagentStart"
  <2>1. Reduce(r, x) = [r EXCEPT !.agents = @ \cup ({x.agent} \ {NoAgent}),
                                 !.is = IF Waits(r) THEN @ ELSE Working]
    BY <1>18 DEF Reduce
  <2>2. /\ Need(x) = "" /\ ~Concludes(x) /\ \A q : ~Settles(x, q)
        /\ Subagents(s)' = r.agents \cup ({x.agent} \ {NoAgent})
    BY <1>6, <1>7, <1>11, <1>12, <1>18
  <2>3. P = O
    BY <1>1, <2>2
  <2>4. New <=> O = {}
    BY <1>4, <1>18, <2>3
  <2>5. Word(m, s)' = IF Waits(r) THEN r.is ELSE Working
    BY <1>8, <1>9, <1>10, <2>2, <2>3, <2>4
  <2>6. /\ Reduce(r, x).is = IF Waits(r) THEN r.is ELSE Working
        /\ Reduce(r, x).agents = r.agents \cup ({x.agent} \ {NoAgent})
    BY <1>12, <2>1
  <2>. QED
    BY <2>2, <2>5, <2>6
<1>19. CASE x.event = "SubagentStop"
  <2>1. Reduce(r, x) = [r EXCEPT !.agents = @ \ {x.agent}]
    BY <1>19 DEF Reduce
  <2>2. Need(x) = "" /\ ~Concludes(x) /\ ~New /\ \A q : ~Settles(x, q)
    BY <1>4, <1>6, <1>7, <1>19
  <2>. QED
    BY <1>9, <1>11, <1>12, <1>19, <2>1, <2>2
<1>20. CASE x.event = "Stop"
  <2>1. Reduce(r, x) = [r EXCEPT !.is = Initial.is, !.agents = {}]
    BY <1>20 DEF Reduce
  <2>2. P = {} /\ Work(s)' = {} /\ ~FailedLast(s)'
    BY <1>1, <1>2, <1>5, <1>6, <1>7, <1>20
  <2>3. Word(m, s)' = Initial.is
    BY <2>2 DEF Word, P
  <2>. QED
    BY <1>11, <1>12, <1>20, <2>1, <2>3
<1>21. CASE x.event \notin {"UserPromptSubmit", "PreToolUse", "PermissionRequest",
                            "PostToolUse", "SubagentStart", "SubagentStop", "Stop"}
  <2>1. Reduce(r, x) = r
    BY <1>21 DEF Reduce
  <2>2. Need(x) = "" /\ ~Concludes(x) /\ ~New /\ \A q : ~Settles(x, q)
    BY <1>4, <1>6, <1>7, <1>21
  <2>. QED
    BY <1>9, <1>11, <1>21, <2>1, <2>2
<1>. QED
  BY <1>14, <1>15, <1>16, <1>17, <1>18, <1>19, <1>20, <1>21

\* The reducer on a status.
LEMMA StatusWord ==
  ASSUME NEW s, NEW x, x \in Info, x.session = s, NEW m, Grows(s, x, m),
         NEW n \in Nat, n = m - 1, OneNeed(n, s)
  PROVE  \A r \in Reduction : r.is = Word(n, s) /\ r.agents = Subagents(s) =>
           Enriched(r, x).is = Word(m, s)' /\ Enriched(r, x).agents = Subagents(s)'
<1>0. /\ Need(x) # "" => OpenNeeds(s, m)' = {Need(x)}
      /\ Need(x) = "" => \A q : q \in OpenNeeds(s, m)' <=> q \in OpenNeeds(s, n) /\ ~Settles(x, q)
  <2>1. CASE Need(x) # ""
    BY <2>1, OpenAfter
  <2>2. CASE Need(x) = ""
    BY <2>2, OpenAfter
  <2>. QED
    BY <2>1, <2>2
<1>1. ~IsHook(x) /\ \A t : StatusIs(x, t) <=> x.status = t
  BY DEF Info, IsHook, StatusIs
<1>2. \A e : ~HookIs(x, e)
  BY <1>1 DEF HookIs
<1>3. ~StartsWork(s, m)'
  <2>1. applied'[m] = x
    BY DEF Grows
  <2>. QED
    BY <1>2, <2>1 DEF StartsWork, HookIs, IsHook
<1>4. /\ Work(s)' = IF Concludes(x) THEN {} ELSE Work(s)
      /\ FailedLast(s)' <=> Concludes(x) \/ FailedLast(s)
      /\ ~Concludes(x) => (IdleSince(s)' <=> IdleSince(s) \/ x.status = "idle")
  <2>1. /\ Work(s)' = IF Concludes(x) THEN {}
                      ELSE IF StartsWork(s, m)' THEN Work(s) \cup {m} ELSE Work(s)
        /\ FailedLast(s)' <=> IF Concludes(x) THEN ~IsHook(x) ELSE FailedLast(s)
        /\ ~Concludes(x) => (IdleSince(s)' <=> /\ ~StartsWork(s, m)'
                                               /\ IdleSince(s) \/ StatusIs(x, "idle"))
    BY WorkAfter
  <2>. QED
    BY <1>1, <1>3, <2>1
<1>5. /\ Need(x) = IF x.status = "waitingOnApproval" THEN "approval" ELSE ""
      /\ Concludes(x) <=> x.status = "systemError"
  BY <1>1, <1>2 DEF Need, Concludes
<1>6. \A q : Settles(x, q) <=> x.status = "systemError" \/ Need(x) # ""
  BY <1>2, <1>5 DEF Settles
<1>7. Subagents(s)' = Subagents(s)
  BY <1>2, SubagentsAfter
<1> SUFFICES ASSUME NEW r \in Reduction, r.is = Word(n, s), r.agents = Subagents(s)
             PROVE  Enriched(r, x).is = Word(m, s)' /\ Enriched(r, x).agents = Subagents(s)'
  OBVIOUS
<1>8. /\ Enriched(r, x).agents = r.agents
      /\ Enriched(r, x).is = CASE x.status = "systemError" -> <<"blocked", "failed">>
                               [] x.status = "waitingOnApproval" -> <<"needs_input", "approval">>
                               [] x.status = "idle" /\ r.is = Working -> Initial.is
                               [] OTHER -> r.is
  BY DEF Enriched, Reduction
<1>9. CASE x.status = "systemError"
  <2>1. OpenNeeds(s, m)' = {} /\ Work(s)' = {} /\ FailedLast(s)'
    BY <1>0, <1>4, <1>5, <1>6, <1>9
  <2>2. Word(m, s)' = <<"blocked", "failed">>
    BY <2>1 DEF Word
  <2>3. Enriched(r, x).is = <<"blocked", "failed">>
    BY <1>8, <1>9
  <2>. QED
    BY <1>7, <1>8, <2>2, <2>3
<1>10. CASE x.status = "waitingOnApproval"
  <2>1. OpenNeeds(s, m)' = {"approval"}
    BY <1>0, <1>5, <1>10
  <2>2. Word(m, s)' = <<"needs_input", "approval">>
    BY <2>1 DEF Word
  <2>3. Enriched(r, x).is = <<"needs_input", "approval">>
    BY <1>8, <1>10
  <2>. QED
    BY <1>7, <1>8, <2>2, <2>3
<1>11. CASE x.status = "idle"
  <2>0. Need(x) = "" /\ ~Concludes(x) /\ \A q : ~Settles(x, q)
    BY <1>5, <1>6, <1>11
  <2>1. CASE OpenNeeds(s, n) # {}
    <3>1. Word(m, s)' = r.is
      BY <1>3, <2>0, <2>1, WordKept
    <3>2. r.is # Working
      BY <2>1, WordForms
    <3>3. Enriched(r, x).is = r.is
      BY <1>8, <1>11, <3>2
    <3>. QED
      BY <1>7, <1>8, <3>1, <3>3
  <2>2. CASE OpenNeeds(s, n) = {}
    <3>1. OpenNeeds(s, m)' = {}
      BY <1>0, <2>0, <2>2
    <3>2. Work(s)' = Work(s) /\ IdleSince(s)' /\ (FailedLast(s)' <=> FailedLast(s))
      BY <1>4, <1>11, <2>0
    <3>3. Word(m, s)' = IF Work(s) # {} THEN Initial.is
                        ELSE IF FailedLast(s) THEN <<"blocked", "failed">> ELSE Initial.is
      BY <3>1, <3>2 DEF Word
    <3>4. r.is = IF Work(s) # {} THEN IF IdleSince(s) THEN Initial.is ELSE Working
                 ELSE IF FailedLast(s) THEN <<"blocked", "failed">> ELSE Initial.is
      BY <2>2 DEF Word
    <3>5. Initial.is # Working /\ <<"blocked", "failed">> # Working
      BY DEF Initial, Working
    <3>6. Enriched(r, x).is = IF r.is = Working THEN Initial.is ELSE r.is
      BY <1>8, <1>11
    <3>7. Enriched(r, x).is = Word(m, s)'
      BY <3>3, <3>4, <3>5, <3>6
    <3>. QED
      BY <1>7, <1>8, <3>7
  <2>. QED
    BY <2>1, <2>2
<1>12. CASE x.status \notin {"systemError", "waitingOnApproval", "idle"}
  <2>1. Need(x) = "" /\ ~Concludes(x) /\ (\A q : ~Settles(x, q)) /\ ~StatusIs(x, "idle")
    BY <1>1, <1>5, <1>6, <1>12
  <2>2. Word(m, s)' = r.is
    BY <1>3, <2>1, WordKept
  <2>3. Enriched(r, x).is = r.is
    BY <1>8, <1>12
  <2>. QED
    BY <1>7, <1>8, <2>2, <2>3
<1>. QED
  BY <1>9, <1>10, <1>11, <1>12

-----------------------------------------------------------------------------
(* Every reduction is the last word of its history. *)

Kept(s) == IF reductions[s] = None THEN Initial ELSE reductions[s]

Told ==
  /\ applied \in Seq(Inputs)
  /\ \A s \in Sessions :
       /\ reductions[s] = None => History(s) = {}
       /\ OneNeed(Len(applied), s)
       /\ Kept(s).is = LastWord(s) /\ Kept(s).agents = Subagents(s)

\* Applying x, which leaves its session with r or ends it.
LEMMA ToldStep ==
  ASSUME Types, Told, NEW x \in Inputs, x.session \in Sessions,
         applied' = Append(applied, x),
         \A t \in Sessions : t # x.session => reductions'[t] = reductions[t],
         \/ /\ HookIs(x, "SessionEnd") /\ reductions'[x.session] = None
         \/ /\ ~HookIs(x, "SessionEnd")
            /\ \/ x \in Event /\ reductions'[x.session] = Reduce(Kept(x.session), x)
               \/ x \in Info /\ reductions'[x.session] = Enriched(Kept(x.session), x)
  PROVE  Told'
<1> DEFINE n == Len(applied)
           m == n + 1
<1>1. /\ applied \in Seq(Inputs) /\ applied' \in Seq(Inputs)
      /\ n \in Nat /\ m \in Nat /\ m = Len(applied') /\ m = n + 1 /\ n = m - 1
  BY AppendProperties, LenProperties DEF Told
<1>2. PICK k, l : k \in Nat /\ l \in Nat /\ k = Len(applied) + 1 /\ l = Len(applied) /\ l = k - 1
  BY <1>1
<1>3. k = Len(applied')
  BY <1>1, <1>2
<1>4. \A s : OneNeed(l, s) <=> OneNeed(Len(applied), s)
  BY <1>2
<1>5. \A s : OneNeed(Len(applied), s)' <=> OneNeed(k, s)'
  BY <1>3 DEF OneNeed
<1> HIDE DEF n, m
<1>6. ASSUME NEW s \in Sessions
      PROVE  /\ reductions'[s] = None => History(s)' = {}
             /\ OneNeed(k, s)'
             /\ Kept(s)'.is = LastWord(s)' /\ Kept(s)'.agents = Subagents(s)'
  <2>1. /\ reductions[s] = None => History(s) = {}
        /\ OneNeed(l, s)
        /\ Kept(s).is = LastWord(s) /\ Kept(s).agents = Subagents(s)
        /\ LastWord(s) = Word(l, s)
    BY <1>2, <1>4, WordIs DEF Told
  <2>2. Kept(s) \in Reduction
    BY ReduceType DEF Kept, Types
  <2>3. CASE x.session # s
    <3>1. Grows(s, x, k)
      BY <1>1, <1>2, <2>3, HistoryGrows
    <3>2. /\ History(s)' = History(s) /\ OpenNeeds(s, k)' = OpenNeeds(s, l)
          /\ LastWord(s)' = LastWord(s) /\ Subagents(s)' = Subagents(s)
      BY <1>2, <2>3, <3>1, OtherSession
    <3>3. reductions'[s] = reductions[s]
      BY <2>3
    <3>. QED
      BY <2>1, <3>2, <3>3 DEF Kept, OneNeed
  <2>4. CASE x.session = s /\ HookIs(x, "SessionEnd")
    <3>1. History(s)' = {} /\ reductions'[s] = None
      BY <1>1, <1>2, <2>4, HistoryAppend
    <3>2. OpenNeeds(s, k)' = {} /\ LastWord(s)' = Initial.is /\ Subagents(s)' = {}
      <4>1. OpenNeeds(s, k)' = {}
        BY <3>1 DEF OpenNeeds
      <4>2. Work(s)' = {} /\ Conclusions(s)' = {}
        BY <3>1 DEF Work, Conclusions
      <4>3. LastWord(s)' = Initial.is
        BY <1>3, <4>1, <4>2 DEF LastWord
      <4>. QED
        BY <3>1, <4>1, <4>3 DEF Subagents
    <3>3. Initial.agents = {}
      BY DEF Initial
    <3>. QED
      BY <3>1, <3>2, <3>3 DEF Kept, OneNeed
  <2>5. CASE x.session = s /\ ~HookIs(x, "SessionEnd")
    <3>1. Grows(s, x, k)
      BY <1>1, <1>2, <2>5, HistoryGrows
    <3>2. OneNeed(k, s)'
      BY <1>2, <2>1, <2>5, <3>1, OneNeedAfter
    <3>3. LastWord(s)' = Word(k, s)'
      BY <3>1, WordIsAfter
    <3>4. reductions'[s] \in Reduction /\ reductions'[s].is = Word(k, s)'
          /\ reductions'[s].agents = Subagents(s)'
      <4>1. CASE x \in Event /\ reductions'[s] = Reduce(Kept(s), x)
        <5>1. \A r \in Reduction : r.is = Word(l, s) /\ r.agents = Subagents(s) =>
                Reduce(r, x).is = Word(k, s)' /\ Reduce(r, x).agents = Subagents(s)'
          <6>1. /\ x \in Event /\ x.session = s /\ Grows(s, x, k) /\ l \in Nat /\ l = k - 1
                /\ OneNeed(l, s) /\ ~HookIs(x, "SessionEnd")
            BY <1>2, <2>1, <2>5, <3>1, <4>1
          <6>. QED
            BY ONLY <6>1, HookWord
        <5>2. Reduce(Kept(s), x) \in Reduction
          BY <2>2, <4>1, ReduceType
        <5>. QED
          BY <2>1, <2>2, <4>1, <5>1, <5>2
      <4>2. CASE x \in Info /\ reductions'[s] = Enriched(Kept(s), x)
        <5>1. \A r \in Reduction : r.is = Word(l, s) /\ r.agents = Subagents(s) =>
                Enriched(r, x).is = Word(k, s)' /\ Enriched(r, x).agents = Subagents(s)'
          <6>1. /\ x \in Info /\ x.session = s /\ Grows(s, x, k) /\ l \in Nat /\ l = k - 1
                /\ OneNeed(l, s)
            BY <1>2, <2>1, <2>5, <3>1, <4>2
          <6>. QED
            BY ONLY <6>1, StatusWord
        <5>2. Enriched(Kept(s), x) \in Reduction
          BY <2>2, <4>2, ReduceType
        <5>. QED
          BY <2>1, <2>2, <4>2, <5>1, <5>2
      <4>. QED
        BY <2>5, <4>1, <4>2
    <3>5. reductions'[s] # None
      BY <3>4, CodexAssumption DEF CodexAssumption
    <3>. QED
      BY <3>2, <3>3, <3>4, <3>5 DEF Kept
  <2>. QED
    BY <2>3, <2>4, <2>5
<1>. QED
  BY <1>1, <1>5, <1>6 DEF Told

LEMMA ToldNext == Types /\ Told /\ [Next]_vars => Told'
<1> SUFFICES ASSUME Types, Told, [Next]_vars PROVE Told'
  OBVIOUS
<1>1. ASSUME NEW g \in Hooks, NEW e \in Events, ReduceHook(g, e) PROVE Told'
  <2>1. e \in Event /\ e \in Inputs /\ e.session \in Sessions
    BY CodexAssumption DEF CodexAssumption, Event, Inputs
  <2>2. /\ applied' = Append(applied, e)
        /\ reductions' = [reductions EXCEPT ![e.session] =
             IF e.event = "SessionEnd" THEN None
             ELSE Reduce(IF e.session \in Known THEN reductions[e.session] ELSE Initial, e)]
    BY <1>1 DEF ReduceHook
  <2>3. (IF e.session \in Known THEN reductions[e.session] ELSE Initial) = Kept(e.session)
    BY <2>1 DEF Known, Kept
  <2>4. HookIs(e, "SessionEnd") <=> e.event = "SessionEnd"
    BY <2>1 DEF Event, HookIs, IsHook
  <2>5. /\ \A t \in Sessions : t # e.session => reductions'[t] = reductions[t]
        /\ reductions'[e.session] = IF e.event = "SessionEnd" THEN None
                                    ELSE Reduce(Kept(e.session), e)
    BY <2>1, <2>2, <2>3 DEF Types
  <2>. QED
    BY <2>1, <2>2, <2>4, <2>5, ToldStep
<1>2. CASE UNCHANGED <<reductions, applied>>
  <2>1. \A s \in Sessions :
          /\ History(s)' = History(s) /\ (OneNeed(Len(applied), s)' <=> OneNeed(Len(applied), s))
          /\ LastWord(s)' = LastWord(s) /\ Subagents(s)' = Subagents(s) /\ Kept(s)' = Kept(s)
    BY <1>2 DEF History, OneNeed, OpenNeeds, LastWord, Work, StartsWork, Conclusions,
                Subagents, Kept
  <2>. QED
    BY <1>2, <2>1 DEF Told
<1>3. CASE EnrichThread
  <2>1. /\ job[Poller] # None /\ job[Poller].pc = "answered"
        /\ \/ UNCHANGED <<reductions, applied>>
           \/ LET info == job[Poller].info
                  r == Enriched(reductions[info.session], info)
              IN /\ info.session \in Known
                 /\ reductions' = [reductions EXCEPT ![info.session] = r]
                 /\ applied' = Append(applied, info)
    BY <1>3 DEF EnrichThread
  <2>2. PICK info \in Info : info = job[Poller].info
    BY <2>1, JobForms DEF Threads
  <2>3. info.session \in Sessions /\ ~HookIs(info, "SessionEnd") /\ info \in Inputs
    BY DEF Info, HookIs, IsHook, Inputs
  <2>4. CASE UNCHANGED <<reductions, applied>>
    BY <1>2, <2>4
  <2>5. CASE /\ info.session \in Known
             /\ reductions' = [reductions EXCEPT ![info.session] =
                                 Enriched(reductions[info.session], info)]
             /\ applied' = Append(applied, info)
    <3>1. Kept(info.session) = reductions[info.session]
      BY <2>3, <2>5 DEF Kept, Known
    <3>2. /\ \A t \in Sessions : t # info.session => reductions'[t] = reductions[t]
          /\ reductions'[info.session] = Enriched(Kept(info.session), info)
      BY <2>3, <2>5, <3>1 DEF Types
    <3>. QED
      BY <2>3, <2>5, <3>2, ToldStep
  <2>. QED
    BY <2>1, <2>2, <2>4, <2>5
<1>. QED
  BY <1>1, <1>2, <1>3
     DEF Next, vars, reducer, IgnoreHook, Number, ApplyReports, AdvertiseFocus, Dismiss, Ask,
         StartServer, ServerDies, StartRound, Reply, ReadReply, CallFails

\* However hooks and statuses alternate, the reduction of a session is what its
\* history says as a whole (Reduce, Enrich).
THEOREM ReductionFollowsHistory == Spec => []ReductionIsLastWord
<1>1. Init => Told
  <2> SUFFICES ASSUME Init PROVE Told
    OBVIOUS
  <2>1. applied = <<>> /\ applied \in Seq(Inputs) /\ Len(applied) = 0
        /\ \A s \in Sessions : reductions[s] = None
    BY EmptySeq DEF Init
  <2>2. \A s \in Sessions : History(s) = {}
    BY <2>1 DEF History
  <2>3. Initial.agents = {}
    BY DEF Initial
  <2>. QED
    BY <2>1, <2>2, <2>3, EmptyHistory DEF Told, Kept, OneNeed
<1>2. Told => ReductionIsLastWord
  BY DEF Told, Kept, ReductionIsLastWord, Known
<1>. QED
  BY <1>1, <1>2, ToldNext, TypesHold, PTL DEF Spec
=============================================================================
