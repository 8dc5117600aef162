---------------------------- MODULE DeviceProofs ----------------------------
(***************************************************************************)
(* Proofs about DeviceMerge and DeviceUI, for any number of slots, frames, *)
(* tasks, pets and targets and any bounds.                                 *)
(*                                                                         *)
(* The recursive functions of the merge and of the queue are reasoned      *)
(* about through the values they take one after the other (RunExists), and *)
(* what holds of all of them by counting up (CountUp).                     *)
(***************************************************************************)
EXTENDS DeviceMerge, DeviceUI, FiniteSetTheorems, FunctionTheorems, TLAPS

LEMMA NatMin == ASSUME NEW T \in SUBSET Nat, T # {} PROVE \E x \in T : \A y \in T : x <= y
<1> DEFINE R == OpToRel(<, Nat)
<1>1. IsWellFoundedOn(R, Nat)
  BY NatLessThanWellFounded
<1>2. \A x, y \in T : y < x => <<y, x>> \in R
  BY DEF OpToRel
<1> HIDE DEF R
<1>3. \E x \in T : \A y \in T : ~(<<y, x>> \in R)
  BY <1>1, WFMin
<1>4. \A x, y \in T : x <= y \/ y < x
  OBVIOUS
<1>. QED
  BY <1>2, <1>3, <1>4

\* Induction up to n, over a set in place of a predicate.
LEMMA CountUp ==
  ASSUME NEW n \in Nat, NEW P, 0 \in P, \A k \in 1..n : k - 1 \in P => k \in P
  PROVE  \A k \in 0..n : k \in P
<1> DEFINE Bad == {k \in 0..n : k \notin P}
<1>1. SUFFICES ASSUME Bad # {} PROVE FALSE
  OBVIOUS
<1>2. Bad \in SUBSET Nat
  OBVIOUS
<1>3. PICK m \in Bad : \A k \in Bad : m <= k
  <2> HIDE DEF Bad
  <2>. QED
    BY <1>1, <1>2, NatMin
<1>4. m \in 1..n /\ m - 1 \in 0..n /\ m - 1 \notin Bad
  BY <1>3
<1>. QED
  BY <1>3, <1>4

\* step takes a value of S and one of the numbers 1..n to a value of S.
Steps(step, n, S) == \A k \in 1..n : \A x \in S : step[<<x, k>>] \in S

\* f has the values that step, applied in turn, makes of base.
Runs(f, base, step, n, S) ==
  /\ f \in [0..n -> S] /\ f[0] = base
  /\ \A k \in 1..n : f[k] = step[<<f[k - 1], k>>]

\* A recursive function over 0..n has values.
LEMMA RunExists ==
  ASSUME NEW S, NEW base \in S, NEW n \in Nat, NEW step, Steps(step, n, S)
  PROVE  \E f : Runs(f, base, step, n, S)
<1> USE DEF Steps, Runs
<1> DEFINE P == {m \in 0..n : \E f : Runs(f, base, step, m, S)}
<1>1. 0 \in P
  <2> DEFINE g == [k \in 0..0 |-> base]
  <2>1. g \in [0..0 -> S] /\ g[0] = base /\ 1..0 = {}
    OBVIOUS
  <2> HIDE DEF g
  <2>2. Runs(g, base, step, 0, S)
    BY <2>1
  <2>. QED
    BY <2>2
<1>2. ASSUME NEW m \in 1..n, m - 1 \in P PROVE m \in P
  <2>1. PICK g : Runs(g, base, step, m - 1, S)
    BY <1>2
  <2> DEFINE h == [k \in 0..m |-> IF k = m THEN step[<<g[m - 1], m>>] ELSE g[k]]
  <2>2. h \in [0..m -> S] /\ h[0] = base
    BY <2>1
  <2>3. ASSUME NEW k \in 1..m PROVE h[k] = step[<<h[k - 1], k>>]
    <3>1. k - 1 \in 0..m /\ k - 1 # m /\ h[k - 1] = g[k - 1]
      OBVIOUS
    <3>2. CASE k = m
      BY <3>1, <3>2
    <3>3. CASE k # m
      <4>1. k \in 1..(m - 1) /\ h[k] = g[k]
        BY <3>3
      <4>. QED
        BY <2>1, <3>1, <4>1
    <3>. QED
      BY <3>2, <3>3
  <2> HIDE DEF h
  <2>4. Runs(h, base, step, m, S)
    BY <2>2, <2>3
  <2>. QED
    BY <2>4
<1>3. n \in P
  <2> HIDE DEF P
  <2>. QED
    BY <1>1, <1>2, CountUp
<1>. QED
  BY <1>3

-----------------------------------------------------------------------------
(* Orders of 1..n. *)

InOrder(n, R) == CHOOSE p \in [1..n -> 1..n] : \A i, j \in 1..n : i < j => <<p[i], p[j]>> \in R

\* R orders 1..n: it is transitive and relates any two numbers one way.
Orders(R, n) ==
  /\ \A i, j \in 1..n : i # j => <<i, j>> \in R \/ <<j, i>> \in R
  /\ \A i, j \in 1..n : <<i, j>> \in R => <<j, i>> \notin R
  /\ \A i, j, k \in 1..n : <<i, j>> \in R /\ <<j, k>> \in R => <<i, k>> \in R

LEMMA OrderExists ==
  ASSUME NEW n \in Nat, NEW R, Orders(R, n)
  PROVE  /\ InOrder(n, R) \in [1..n -> 1..n]
         /\ \A i, j \in 1..n : i < j => <<InOrder(n, R)[i], InOrder(n, R)[j]>> \in R
<1> DEFINE D == 1..n
           Lower(i) == {j \in D : <<j, i>> \in R}
           place == [i \in D |-> 1 + Cardinality(Lower(i))]
<1>1. IsFiniteSet(D) /\ Cardinality(D) = n
  BY FS_Interval
<1>2. \A i \in D : /\ IsFiniteSet(Lower(i)) /\ Cardinality(Lower(i)) \in Nat
                  /\ Cardinality(Lower(i)) < n
  <2>1. SUFFICES ASSUME NEW i \in D
                 PROVE  /\ IsFiniteSet(Lower(i)) /\ Cardinality(Lower(i)) \in Nat
                        /\ Cardinality(Lower(i)) < n
    OBVIOUS
  <2>2. Lower(i) \in SUBSET (D \ {i})
    BY DEF Orders
  <2>3. IsFiniteSet(D \ {i}) /\ Cardinality(D \ {i}) = n - 1
    BY <1>1, FS_RemoveElement
  <2> HIDE DEF Lower, D
  <2>4. IsFiniteSet(Lower(i)) /\ Cardinality(Lower(i)) <= n - 1
    BY <2>2, <2>3, FS_Subset
  <2>. QED
    BY <2>4, FS_CardinalityType
<1>3. \A i, j \in D : <<i, j>> \in R => place[i] < place[j]
  <2>1. SUFFICES ASSUME NEW i \in D, NEW j \in D, <<i, j>> \in R PROVE place[i] < place[j]
    OBVIOUS
  <2>2. Lower(i) \in SUBSET Lower(j) /\ i \in Lower(j) /\ i \notin Lower(i)
    BY <2>1 DEF Orders
  <2> HIDE DEF Lower
  <2>3. /\ Cardinality(Lower(i)) <= Cardinality(Lower(j))
        /\ Cardinality(Lower(i)) # Cardinality(Lower(j))
    BY <1>2, <2>2, FS_Subset
  <2>. QED
    BY <1>2, <2>3
<1>4. place \in [D -> D]
  <2> HIDE DEF Lower
  <2>. QED
    BY <1>2
<1> HIDE DEF place, D
<1>5. \A i, j \in D : i # j => <<i, j>> \in R \/ <<j, i>> \in R
  BY DEF Orders, D
<1>6. \A i, j \in D : i # j => place[i] < place[j] \/ place[j] < place[i]
  BY <1>3, <1>5
<1>7. \A i \in D : place[i] \in Nat
  BY <1>4 DEF D
<1>8. \A i, j \in D : place[i] = place[j] => i = j
  BY <1>6, <1>7
<1>9. \A k \in D : \E i \in D : place[i] = k
  <2>1. place \in Injection(D, D)
    BY <1>4, <1>8, Fun_IsInj
  <2>2. place \in Surjection(D, D)
    BY <1>1, <2>1, FS_Injection
  <2>. QED
    BY <2>2, Fun_SurjectionProperties
<1> DEFINE p == [k \in D |-> CHOOSE i \in D : place[i] = k]
<1>10. p \in [D -> D] /\ \A k \in D : place[p[k]] = k
  BY <1>9
<1> HIDE DEF p
<1>11. ASSUME NEW i \in D, NEW j \in D, i < j PROVE <<p[i], p[j]>> \in R
  <2>1. p[i] \in D /\ p[j] \in D /\ place[p[i]] = i /\ place[p[j]] = j /\ i \in Nat /\ j \in Nat
    BY <1>10 DEF D
  <2>2. p[i] # p[j]
    BY <1>11, <2>1
  <2>3. <<p[j], p[i]>> \in R => place[p[j]] < place[p[i]]
    BY <1>3, <2>1
  <2>4. <<p[j], p[i]>> \notin R
    BY <1>11, <2>1, <2>3
  <2>. QED
    BY <1>5, <2>1, <2>2, <2>4
<1>12. p \in [1..n -> 1..n] /\ \A i, j \in 1..n : i < j => <<p[i], p[j]>> \in R
  BY <1>10, <1>11 DEF D
<1>. QED
  BY <1>12 DEF InOrder

LEMMA OrderInjective ==
  ASSUME NEW n \in Nat, NEW R, Orders(R, n)
  PROVE  /\ \A i, j \in 1..n : InOrder(n, R)[i] = InOrder(n, R)[j] => i = j
         /\ \A k \in 1..n : \E i \in 1..n : InOrder(n, R)[i] = k
<1> DEFINE p == InOrder(n, R)
           D == 1..n
<1>1. p \in [D -> D] /\ \A i, j \in D : i < j => <<p[i], p[j]>> \in R
  BY OrderExists
<1> HIDE DEF p
<1>2. \A i \in D : <<i, i>> \notin R
  BY DEF Orders
<1>3. \A i, j \in D : i # j => i < j \/ j < i
  OBVIOUS
<1>4. \A i, j \in D : p[i] = p[j] => i = j
  BY <1>1, <1>2, <1>3
<1>5. IsFiniteSet(D)
  BY FS_Interval
<1> HIDE DEF D
<1>6. p \in Injection(D, D)
  BY <1>1, <1>4, Fun_IsInj
<1>7. p \in Surjection(D, D)
  BY <1>5, <1>6, FS_Injection
<1>8. \A k \in D : \E i \in D : p[i] = k
  BY <1>7, Fun_SurjectionProperties
<1>. QED
  BY <1>4, <1>8 DEF p, D

-----------------------------------------------------------------------------
(* What a slot contributes.  The invariant adds to ContributionIsNewest that *)
(* the order a slot keeps is the highest it has seen, whatever was rejected  *)
(* and however often the connection was lost, and what holds while a frame   *)
(* is parsed.                                                                *)

Domains ==
  /\ DOMAIN snapshot = Slots /\ DOMAIN order = Slots /\ DOMAIN newest = Slots
  /\ stale \in [Slots -> BOOLEAN] /\ valid \in [Slots -> BOOLEAN]
  /\ connected \in [Slots -> BOOLEAN]
  /\ pc \in [Slots -> {"idle", "copying", "parsed", "report", "counted"}]

OrderIsNewest == \A s \in Slots : newest[s] = order[s]

ValidIsLive == \A s \in Slots : valid[s] => connected[s] /\ ~stale[s]

WritingIsLive == \A s \in Writing : connected[s]

SettledIsOrdered ==
  \A s \in Slots \ Writing : valid[s] => order[s] = OrderOf(snapshot[s])

SlotInv == Domains /\ OrderIsNewest /\ ValidIsLive /\ WritingIsLive /\ SettledIsOrdered

LEMMA SlotInit == Init => SlotInv
<1>. SUFFICES ASSUME Init PROVE SlotInv
  OBVIOUS
<1>1. Domains
  BY DEF Init, Domains
<1>. QED
  BY <1>1 DEF Init, SlotInv, OrderIsNewest, ValidIsLive, WritingIsLive, SettledIsOrdered, Writing

LEMMA SlotStep == SlotInv /\ [Next]_vars => SlotInv'
<1>. SUFFICES ASSUME SlotInv, [Next]_vars PROVE SlotInv'
  OBVIOUS
<1>. USE DEF SlotInv, Domains, OrderIsNewest, ValidIsLive, WritingIsLive, SettledIsOrdered, Writing
<1>1. ASSUME NEW s \in Slots, Arrive(s) PROVE SlotInv'
  BY <1>1 DEF Arrive, slotVars, netVars, OrderOf
<1>2. ASSUME NEW s \in Slots, Copied(s) PROVE SlotInv'
  BY <1>2 DEF Copied, netVars, OrderOf
<1>3. ASSUME NEW s \in Slots, Accept(s) PROVE SlotInv'
  <2>1. Newest(s) = OrderOf(snapshot[s])
    BY <1>3 DEF Accept, Acceptable, IsNewer, IsEqual, Newest
  <2>2. Domains'
    BY <1>3 DEF Accept, netVars
  <2>3. OrderIsNewest'
    BY <1>3, <2>1 DEF Accept
  <2>. QED
    BY <1>3, <2>2, <2>3 DEF Accept, netVars, OrderOf
<1>4. ASSUME NEW s \in Slots, Reject(s) PROVE SlotInv'
  <2>1. Newest(s) = newest[s]
    BY <1>4 DEF Reject, Acceptable, IsNewer, IsEqual, Newest
  <2>2. Domains'
    BY <1>4 DEF Reject, netVars
  <2>3. OrderIsNewest'
    BY <1>4, <2>1 DEF Reject
  <2>. QED
    BY <1>4, <2>2, <2>3 DEF Reject, netVars, OrderOf
<1>5. ASSUME NEW s \in Slots, Open(s) PROVE SlotInv'
  BY <1>5 DEF Open, slotVars, OrderOf
<1>6. ASSUME NEW s \in Slots, Lose(s) PROVE SlotInv'
  BY <1>6 DEF Lose, OrderOf
<1>7. ASSUME NEW s \in Slots, Count(s) PROVE SlotInv'
  BY <1>7 DEF Count, slotVars, OrderOf
<1>8. ASSUME NEW s \in Slots, Report(s) PROVE SlotInv'
  BY <1>8 DEF Report, slotVars, netVars, OrderOf
<1>9. CASE CountAll \/ ReportAll \/ Receive \/ UNCHANGED vars
  BY <1>9 DEF CountAll, ReportAll, Receive, vars, slotVars, netVars, tasks, OrderOf
<1>. QED
  BY <1>1, <1>2, <1>3, <1>4, <1>5, <1>6, <1>7, <1>8, <1>9 DEF Next

\* A contribution in the merge is of the highest order its slot has ever had,
\* whatever was rejected and lost in between (handle_snapshot).
THEOREM ContributionsAreNewest == Spec => []ContributionIsNewest
<1>1. SlotInv => ContributionIsNewest
  BY DEF SlotInv, OrderIsNewest, ValidIsLive, SettledIsOrdered, ContributionIsNewest
<1>. QED
  BY SlotInit, SlotStep, <1>1, PTL DEF Spec

-----------------------------------------------------------------------------
(* The fold of the merge. *)

MergedList == Seq(MergedTask)

MIDs(ts) == {ts[i].id : i \in DOMAIN ts}

LEMMA MergedTaskIs ==
  ASSUME NEW m \in MergedTask
  PROVE  m.generation \in Nat /\ m.revision \in Nat /\ m.rank \in Nat
  BY DEF MergedTask, Ranks

LEMMA InsertType ==
  ASSUME NEW ts \in MergedList, NEW c \in MergedTask
  PROVE  /\ Insert(ts, c) \in MergedList
         /\ Len(ts) <= MaxTasks => Len(Insert(ts, c)) <= MaxTasks
<1>1. ts \in Seq(MergedTask) /\ Len(ts) \in Nat /\ MaxTasks \in Nat
  BY DeviceAssumption DEF MergedList, DeviceAssumption
<1> DEFINE T == MergedTask
<1>2. ts \in Seq(T) /\ c \in T
  BY <1>1
<1> HIDE DEF T
<1>3. ASSUME NEW w PROVE [ts EXCEPT ![w] = c] \in Seq(T) /\ Len([ts EXCEPT ![w] = c]) = Len(ts)
  <2>1. ts \in [1..Len(ts) -> T] /\ Len(ts) \in Nat
    BY <1>2
  <2>2. [ts EXCEPT ![w] = c] \in [1..Len(ts) -> T]
    BY <1>2, <2>1
  <2>. QED
    BY <2>1, <2>2
<1>4. Append(ts, c) \in Seq(T) /\ Len(Append(ts, c)) = Len(ts) + 1
  BY <1>2
<1>5. \/ Insert(ts, c) = ts
      \/ \E w : Insert(ts, c) = [ts EXCEPT ![w] = c]
      \/ Insert(ts, c) = Append(ts, c) /\ Len(ts) < MaxTasks
  BY Zenon DEF Insert
<1>. QED
  BY <1>1, <1>2, <1>3, <1>4, <1>5 DEF MergedList, T

\* The copies of all tasks, each with its slot.
LEMMA CandidatesAre ==
  ASSUME NEW s \in Slots, NEW f \in Frame
  PROVE  /\ Candidates(s, f) \in MergedList /\ Len(Candidates(s, f)) = Len(f.tasks)
         /\ Len(f.tasks) \in Nat /\ DOMAIN f.tasks = 1..Len(f.tasks)
         /\ \A i \in DOMAIN f.tasks :
              /\ Candidates(s, f)[i].id = f.tasks[i].id
              /\ Candidates(s, f)[i].generation = f.generation
              /\ Candidates(s, f)[i].revision = f.revision
<1>1. /\ f.tasks \in Seq(Task) /\ f.generation \in Nat /\ f.revision \in Nat
      /\ Len(f.tasks) \in Nat /\ DOMAIN f.tasks = 1..Len(f.tasks)
      /\ \A i \in DOMAIN f.tasks : f.tasks[i].id \in TaskIDs \cup {Blank} /\ f.tasks[i].rank \in Ranks
  <2>1. f.tasks \in Seq(Task) /\ f.generation \in Nat /\ f.revision \in Nat
    BY DEF Frame
  <2>2. /\ Len(f.tasks) \in Nat /\ DOMAIN f.tasks = 1..Len(f.tasks)
        /\ \A i \in DOMAIN f.tasks : f.tasks[i] \in Task
    BY <2>1
  <2>. QED
    BY <2>1, <2>2 DEF Task
<1> DEFINE c(i) == [id |-> f.tasks[i].id, rank |-> f.tasks[i].rank, slot |-> s,
                    generation |-> f.generation, revision |-> f.revision]
           cs == [i \in 1..Len(f.tasks) |-> c(i)]
<1>2. \A i \in 1..Len(f.tasks) : c(i) \in MergedTask
  BY <1>1 DEF MergedTask
<1>3. Candidates(s, f) = cs /\ \A i \in 1..Len(f.tasks) : cs[i] = c(i)
  BY <1>1 DEF Candidates
<1>4. cs \in [1..Len(f.tasks) -> MergedTask]
  <2> HIDE DEF c
  <2>. QED
    BY <1>2
<1>5. cs \in Seq(MergedTask) /\ Len(cs) = Len(f.tasks)
  <2> HIDE DEF cs
  <2>. QED
    BY <1>1, <1>4
<1>6. \A i \in 1..Len(f.tasks) : /\ c(i).id = f.tasks[i].id
                                 /\ c(i).generation = f.generation /\ c(i).revision = f.revision
  OBVIOUS
<1>. QED
  BY <1>1, <1>3, <1>5, <1>6 DEF MergedList

LEMMA InsertAllRuns ==
  ASSUME NEW ts \in MergedList, NEW cs \in MergedList
  PROVE  \E f : /\ f \in [0..Len(cs) -> MergedList] /\ f[0] = ts
                /\ \A k \in 1..Len(cs) : f[k] = Insert(f[k - 1], cs[k])
                /\ InsertAll(ts, cs) = f[Len(cs)]
<1> DEFINE n == Len(cs)
           IsAfter(g) == g = [k \in 0..n |-> IF k = 0 THEN ts ELSE Insert(g[k - 1], cs[k])]
           after == CHOOSE g : IsAfter(g)
           step == [z \in MergedList \X (1..n) |-> Insert(z[1], cs[z[2]])]
<1>1. InsertAll(ts, cs) = after[n]
  BY DEF InsertAll
<1>2. n \in Nat /\ \A k \in 1..n : cs[k] \in MergedTask
  BY DEF MergedList
<1> HIDE DEF n
<1>3. \A k \in 1..n : \A x \in MergedList : step[<<x, k>>] = Insert(x, cs[k])
  OBVIOUS
<1>4. \A k \in 1..n : \A x \in MergedList : Insert(x, cs[k]) \in MergedList
  BY <1>2, InsertType
<1> HIDE DEF step
<1>5. Steps(step, n, MergedList)
  BY <1>3, <1>4 DEF Steps
<1>6. PICK g : Runs(g, ts, step, n, MergedList)
  BY <1>2, <1>5, RunExists
<1>7. \A k \in 1..n : g[k] = Insert(g[k - 1], cs[k])
  <2>1. \A k \in 1..n : k - 1 \in 0..n
    BY <1>2
  <2>. QED
    BY <1>3, <1>6, <2>1 DEF Runs
<1>8. IsAfter(g)
  <2>1. \A k \in 0..n : k = 0 \/ k \in 1..n
    BY <1>2
  <2>2. \A k \in 0..n : g[k] = IF k = 0 THEN ts ELSE Insert(g[k - 1], cs[k])
    BY <1>6, <1>7, <2>1 DEF Runs
  <2>3. g = [k \in 0..n |-> g[k]]
    BY <1>6 DEF Runs
  <2>. QED
    BY <2>2, <2>3
<1>9. IsAfter(after)
  <2> HIDE DEF IsAfter
  <2>. QED
    BY <1>8
<1> HIDE DEF after
<1>10. \A k \in 0..n : after[k] = IF k = 0 THEN ts ELSE Insert(after[k - 1], cs[k])
  BY <1>9
<1>11. after[0] = ts /\ \A k \in 1..n : after[k] = Insert(after[k - 1], cs[k])
  BY <1>2, <1>10
<1> DEFINE Typed == {k \in 0..n : after[k] \in MergedList}
<1>12. \A k \in 0..n : k \in Typed
  <2>1. 0 \in Typed
    BY <1>2, <1>11
  <2>2. ASSUME NEW k \in 1..n, k - 1 \in Typed PROVE k \in Typed
    BY <1>4, <1>11, <2>2
  <2> HIDE DEF Typed
  <2>. QED
    BY <1>2, <2>1, <2>2, CountUp
<1>13. after \in [0..n -> MergedList]
  <2>1. after = [k \in 0..n |-> after[k]]
    BY <1>9, <1>10
  <2>. QED
    BY <1>12, <2>1
<1>. QED
  BY <1>1, <1>11, <1>13 DEF n

LEMMA InsertAllType ==
  ASSUME NEW ts \in MergedList, NEW cs \in MergedList
  PROVE  /\ InsertAll(ts, cs) \in MergedList
         /\ Len(ts) <= MaxTasks => Len(InsertAll(ts, cs)) <= MaxTasks
<1> DEFINE n == Len(cs)
<1>1. PICK f : /\ f \in [0..n -> MergedList] /\ f[0] = ts
               /\ \A k \in 1..n : f[k] = Insert(f[k - 1], cs[k])
               /\ InsertAll(ts, cs) = f[n]
  BY InsertAllRuns
<1>2. n \in Nat /\ \A k \in 1..n : cs[k] \in MergedTask
  BY DEF MergedList
<1> HIDE DEF n
<1>3. InsertAll(ts, cs) \in MergedList
  BY <1>1, <1>2
<1> DEFINE P == {k \in 0..n : Len(f[k]) <= MaxTasks}
<1>4. ASSUME Len(ts) <= MaxTasks PROVE \A k \in 0..n : k \in P
  <2>1. 0 \in P
    BY <1>1, <1>2, <1>4
  <2>2. ASSUME NEW k \in 1..n, k - 1 \in P PROVE k \in P
    <3>1. f[k - 1] \in MergedList /\ Len(f[k - 1]) <= MaxTasks /\ cs[k] \in MergedTask
      BY <1>1, <1>2, <2>2
    <3>. QED
      BY <1>1, <3>1, InsertType
  <2> HIDE DEF P
  <2>. QED
    BY <1>2, <2>1, <2>2, CountUp
<1>. QED
  BY <1>1, <1>2, <1>3, <1>4

LEMMA MergedTasksRuns ==
  ASSUME NEW contributing, NEW view \in [Slots -> Frame]
  PROVE  \E f : /\ f \in [0..SlotCount -> MergedList] /\ f[0] = <<>>
                /\ \A n \in 1..SlotCount :
                     f[n] = IF contributing[n - 1]
                              THEN InsertAll(f[n - 1], Candidates(n - 1, view[n - 1]))
                              ELSE f[n - 1]
                /\ MergedTasks(contributing, view) = f[SlotCount]
<1> DEFINE add(ts, n) == IF contributing[n - 1]
                           THEN InsertAll(ts, Candidates(n - 1, view[n - 1])) ELSE ts
           IsUpTo(g) == g = [n \in 0..SlotCount |-> IF n = 0 THEN <<>> ELSE add(g[n - 1], n)]
           upTo == CHOOSE g : IsUpTo(g)
           step == [z \in MergedList \X (1..SlotCount) |-> add(z[1], z[2])]
<1>1. MergedTasks(contributing, view) = upTo[SlotCount]
  BY DEF MergedTasks
<1>2. SlotCount \in Nat /\ <<>> \in MergedList
  BY DeviceAssumption DEF DeviceAssumption, MergedList
<1>3. \A n \in 1..SlotCount : \A x \in MergedList : add(x, n) \in MergedList
  <2>1. SUFFICES ASSUME NEW n \in 1..SlotCount, NEW x \in MergedList PROVE add(x, n) \in MergedList
    OBVIOUS
  <2>2. n - 1 \in Slots
    BY <1>2 DEF Slots
  <2>3. Candidates(n - 1, view[n - 1]) \in MergedList
    BY <2>2, CandidatesAre
  <2>. QED
    BY <2>3, InsertAllType
<1> HIDE DEF add
<1>4. \A n \in 1..SlotCount : \A x \in MergedList : step[<<x, n>>] = add(x, n)
  OBVIOUS
<1> HIDE DEF step
<1>5. Steps(step, SlotCount, MergedList)
  BY <1>3, <1>4 DEF Steps
<1>6. PICK g : Runs(g, <<>>, step, SlotCount, MergedList)
  BY <1>2, <1>5, RunExists
<1>7. \A n \in 1..SlotCount : g[n] = add(g[n - 1], n)
  <2>1. \A n \in 1..SlotCount : n - 1 \in 0..SlotCount
    BY <1>2
  <2>. QED
    BY <1>4, <1>6, <2>1 DEF Runs
<1>8. IsUpTo(g)
  <2>1. \A n \in 0..SlotCount : n = 0 \/ n \in 1..SlotCount
    BY <1>2
  <2>2. \A n \in 0..SlotCount : g[n] = IF n = 0 THEN <<>> ELSE add(g[n - 1], n)
    BY <1>6, <1>7, <2>1 DEF Runs
  <2>3. g = [n \in 0..SlotCount |-> g[n]]
    BY <1>6 DEF Runs
  <2>. QED
    BY <2>2, <2>3
<1>9. IsUpTo(upTo)
  <2> HIDE DEF IsUpTo
  <2>. QED
    BY <1>8
<1> HIDE DEF upTo
<1>10. \A n \in 0..SlotCount : upTo[n] = IF n = 0 THEN <<>> ELSE add(upTo[n - 1], n)
  BY <1>9
<1>11. upTo[0] = <<>> /\ \A n \in 1..SlotCount : upTo[n] = add(upTo[n - 1], n)
  BY <1>2, <1>10
<1> DEFINE Typed == {n \in 0..SlotCount : upTo[n] \in MergedList}
<1>12. \A n \in 0..SlotCount : n \in Typed
  <2>1. 0 \in Typed
    BY <1>2, <1>11
  <2>2. ASSUME NEW n \in 1..SlotCount, n - 1 \in Typed PROVE n \in Typed
    BY <1>3, <1>11, <2>2
  <2> HIDE DEF Typed
  <2>. QED
    BY <1>2, <2>1, <2>2, CountUp
<1>13. upTo \in [0..SlotCount -> MergedList]
  <2>1. upTo = [n \in 0..SlotCount |-> upTo[n]]
    BY <1>9, <1>10
  <2>. QED
    BY <1>12, <2>1
<1>. QED
  BY <1>1, <1>11, <1>13 DEF add

LEMMA MergedTasksType ==
  ASSUME NEW contributing, NEW view \in [Slots -> Frame]
  PROVE  /\ MergedTasks(contributing, view) \in MergedList
         /\ Len(MergedTasks(contributing, view)) <= MaxTasks
<1>1. PICK f : /\ f \in [0..SlotCount -> MergedList] /\ f[0] = <<>>
               /\ \A n \in 1..SlotCount :
                     f[n] = IF contributing[n - 1]
                              THEN InsertAll(f[n - 1], Candidates(n - 1, view[n - 1]))
                              ELSE f[n - 1]
               /\ MergedTasks(contributing, view) = f[SlotCount]
  BY MergedTasksRuns
<1>2. SlotCount \in Nat /\ MaxTasks \in Nat
  BY DeviceAssumption DEF DeviceAssumption
<1> DEFINE P == {n \in 0..SlotCount : Len(f[n]) <= MaxTasks}
<1>3. 0 \in P
  BY <1>1, <1>2
<1>4. ASSUME NEW n \in 1..SlotCount, n - 1 \in P PROVE n \in P
  <2>1. f[n - 1] \in MergedList /\ Len(f[n - 1]) <= MaxTasks /\ n - 1 \in Slots
    BY <1>1, <1>2, <1>4 DEF Slots
  <2>2. Candidates(n - 1, view[n - 1]) \in MergedList
    BY <2>1, CandidatesAre
  <2>3. Len(f[n]) <= MaxTasks
    BY <1>1, <2>1, <2>2, InsertAllType
  <2>. QED
    BY <2>3
<1> HIDE DEF P
<1>5. \A n \in 0..SlotCount : n \in P
  BY <1>2, <1>3, <1>4, CountUp
<1>. QED
  BY <1>1, <1>2, <1>5 DEF P

\* Where no slot contributes nothing is merged.
LEMMA NothingMerged ==
  ASSUME NEW contributing, \A s \in Slots : ~contributing[s], NEW view \in [Slots -> Frame]
  PROVE  MergedTasks(contributing, view) = <<>>
<1>1. PICK f : /\ f \in [0..SlotCount -> MergedList] /\ f[0] = <<>>
               /\ \A n \in 1..SlotCount :
                     f[n] = IF contributing[n - 1]
                              THEN InsertAll(f[n - 1], Candidates(n - 1, view[n - 1]))
                              ELSE f[n - 1]
               /\ MergedTasks(contributing, view) = f[SlotCount]
  BY MergedTasksRuns
<1>2. SlotCount \in Nat
  BY DeviceAssumption DEF DeviceAssumption
<1> DEFINE P == {n \in 0..SlotCount : f[n] = <<>>}
<1>3. 0 \in P
  BY <1>1, <1>2
<1>4. ASSUME NEW n \in 1..SlotCount, n - 1 \in P PROVE n \in P
  <2>1. n - 1 \in Slots
    BY <1>2 DEF Slots
  <2>. QED
    BY <1>1, <1>4, <2>1
<1> HIDE DEF P
<1>5. \A n \in 0..SlotCount : n \in P
  BY <1>2, <1>3, <1>4, CountUp
<1>. QED
  BY <1>1, <1>2, <1>5 DEF P

-----------------------------------------------------------------------------
(* While there is room for the tasks of ids, no copy of them is forgotten. *)

Distinct(ts) == \A i, j \in DOMAIN ts : ts[i].id = ts[j].id => i = j

Fits(ts, ids) == ts \in MergedList /\ Distinct(ts) /\ MIDs(ts) \subseteq ids

\* A copy of the task of c that is not older than c is in ts.
Keeps(ts, c) == \E i \in DOMAIN ts : ts[i].id = c.id /\ ~OriginOlder(ts[i], c)

\* All that from holds in copies, to holds in copies that are not older.
Covers(to, from) == \A i \in DOMAIN from : Keeps(to, from[i])

LEMMA MergedListIs ==
  ASSUME NEW ts \in MergedList
  PROVE  /\ Len(ts) \in Nat /\ DOMAIN ts = 1..Len(ts)
         /\ \A i \in DOMAIN ts : ts[i] \in MergedTask /\ ts[i].id \in MIDs(ts)
  BY DEF MergedList, MIDs

LEMMA CoversItself ==
  ASSUME NEW ts \in MergedList
  PROVE  Covers(ts, ts)
<1>1. \A m \in MergedTask : ~OriginOlder(m, m)
  BY MergedTaskIs DEF OriginOlder
<1>. QED
  BY <1>1, MergedListIs DEF Covers, Keeps

LEMMA CoversCovers ==
  ASSUME NEW c \in MergedList, NEW d \in MergedList, Covers(c, d)
  PROVE  \A m \in MergedTask : Keeps(d, m) => Keeps(c, m)
<1>1. SUFFICES ASSUME NEW m \in MergedTask, Keeps(d, m) PROVE Keeps(c, m)
  OBVIOUS
<1>2. \A x, y, z \in MergedTask : ~OriginOlder(x, y) /\ ~OriginOlder(y, z) => ~OriginOlder(x, z)
  BY MergedTaskIs DEF OriginOlder
<1>3. PICK i \in DOMAIN d : d[i].id = m.id /\ ~OriginOlder(d[i], m)
  BY <1>1 DEF Keeps
<1>4. PICK k \in DOMAIN c : c[k].id = d[i].id /\ ~OriginOlder(c[k], d[i])
  BY DEF Covers, Keeps
<1>5. d[i] \in MergedTask /\ c[k] \in MergedTask
  BY MergedListIs
<1>. QED
  BY <1>2, <1>3, <1>4, <1>5 DEF Keeps

LEMMA UpTo == ASSUME NEW n \in Nat PROVE IsFiniteSet(1..n) /\ Cardinality(1..n) = n
  BY FS_Interval

LEMMA Room ==
  ASSUME NEW ts, NEW ids, Fits(ts, ids), IsFiniteSet(ids)
  PROVE  Len(ts) <= Cardinality(ids)
<1> DEFINE D == 1..Len(ts)
           f == [i \in D |-> ts[i].id]
<1>1. Len(ts) \in Nat /\ DOMAIN ts = D /\ \A i \in D : ts[i].id \in ids
  BY MergedListIs DEF Fits
<1>2. f \in [D -> ids] /\ \A i, j \in D : f[i] = f[j] => i = j
  BY <1>1 DEF Fits, Distinct
<1>3. IsFiniteSet(D) /\ Cardinality(D) = Len(ts)
  BY <1>1, UpTo
<1> HIDE DEF f, D
<1>4. f \in Injection(D, ids)
  BY <1>2, Fun_IsInj
<1>. QED
  BY <1>3, <1>4, FS_Injection

LEMMA InsertCovers ==
  ASSUME NEW ids, IsFiniteSet(ids), Cardinality(ids) <= MaxTasks,
         NEW ts, Fits(ts, ids), NEW c \in MergedTask, c.id \in ids
  PROVE  Fits(Insert(ts, c), ids) /\ Keeps(Insert(ts, c), c) /\ Covers(Insert(ts, c), ts)
<1> DEFINE existing == {i \in DOMAIN ts : ts[i].id = c.id}
           new == Insert(ts, c)
<1>1. /\ ts \in MergedList /\ Distinct(ts) /\ MIDs(ts) \subseteq ids
      /\ Len(ts) \in Nat /\ DOMAIN ts = 1..Len(ts)
      /\ \A i \in DOMAIN ts : ts[i] \in MergedTask /\ ts[i].id \in ids
  BY MergedListIs DEF Fits
<1>2. new \in MergedList
  BY <1>1, InsertType
<1>3. \A m \in MergedTask : ~OriginOlder(m, m)
  BY MergedTaskIs DEF OriginOlder
<1>4. CASE existing # {}
  <2>1. PICK e \in existing : \A k \in existing : e = k
    BY <1>1, <1>4 DEF Distinct
  <2>2. (CHOOSE j \in existing : \A k \in existing : j <= k) = e
    <3>1. e \in Nat /\ e <= e
      BY <1>1, <2>1
    <3>. QED
      BY <2>1, <3>1
  <2>3. new = IF CandidateIsNewer(c, ts[e]) THEN [ts EXCEPT ![e] = c] ELSE ts
    BY <1>4, <2>2 DEF Insert
  <2>4. e \in DOMAIN ts /\ ts[e].id = c.id /\ ts[e] \in MergedTask
    BY <1>1
  <2> HIDE DEF existing, new
  <2>5. CASE CandidateIsNewer(c, ts[e])
    <3>1. new = [ts EXCEPT ![e] = c]
      BY <2>3, <2>5
    <3>2. DOMAIN new = DOMAIN ts /\ new[e] = c /\ \A i \in DOMAIN ts : i # e => new[i] = ts[i]
      BY <1>1, <2>4, <3>1
    <3>3. \A i \in DOMAIN ts : new[i].id = ts[i].id
      BY <2>4, <3>2
    <3>4. Distinct(new) /\ MIDs(new) \subseteq ids
      BY <1>1, <3>2, <3>3 DEF Distinct, MIDs
    <3>5. ~OriginOlder(c, ts[e])
      BY <2>4, <2>5, MergedTaskIs DEF CandidateIsNewer, OriginOlder
    <3>6. Keeps(new, c)
      BY <1>3, <2>4, <3>2 DEF Keeps
    <3>7. Covers(new, ts)
      <4>1. SUFFICES ASSUME NEW i \in DOMAIN ts PROVE Keeps(new, ts[i])
        BY DEF Covers
      <4>2. CASE i = e
        BY <2>4, <3>2, <3>5, <4>2 DEF Keeps
      <4>3. CASE i # e
        BY <1>1, <1>3, <3>2, <4>3 DEF Keeps
      <4>. QED
        BY <4>2, <4>3
    <3>. QED
      BY <1>2, <3>4, <3>6, <3>7 DEF Fits, new
  <2>6. CASE ~CandidateIsNewer(c, ts[e])
    <3>1. new = ts
      BY <2>3, <2>6
    <3>2. ~OriginOlder(ts[e], c)
      BY <2>6 DEF CandidateIsNewer
    <3>3. Keeps(ts, c)
      BY <2>4, <3>2 DEF Keeps
    <3>. QED
      BY <1>1, <3>1, <3>3, CoversItself DEF Fits, new
  <2>. QED
    BY <2>5, <2>6
<1>5. CASE existing = {}
  <2>1. \A i \in DOMAIN ts : ts[i].id # c.id
    BY <1>5
  <2>2. Len(ts) < MaxTasks
    <3>1. Fits(ts, ids \ {c.id})
      BY <1>1, <2>1 DEF Fits, MIDs
    <3>2. IsFiniteSet(ids \ {c.id}) /\ Cardinality(ids \ {c.id}) = Cardinality(ids) - 1
      BY FS_RemoveElement
    <3>3. Len(ts) <= Cardinality(ids) - 1
      BY <3>1, <3>2, Room
    <3>4. Cardinality(ids) \in Nat /\ MaxTasks \in Nat
      BY FS_CardinalityType, DeviceAssumption DEF DeviceAssumption
    <3>. QED
      BY <1>1, <3>3, <3>4
  <2>3. new = Append(ts, c)
    BY <1>5, <2>2 DEF Insert
  <2>4. /\ DOMAIN new = 1..(Len(ts) + 1) /\ new[Len(ts) + 1] = c
        /\ \A i \in DOMAIN ts : new[i] = ts[i]
    BY <1>1, <2>3 DEF MergedList
  <2> HIDE DEF existing, new
  <2>5. \A i \in DOMAIN new : (i \in DOMAIN ts /\ new[i] = ts[i]) \/ (i = Len(ts) + 1 /\ new[i] = c)
    BY <1>1, <2>4
  <2>6. DOMAIN ts \subseteq DOMAIN new /\ Len(ts) + 1 \in DOMAIN new
    BY <1>1, <2>4
  <2>7. Distinct(new)
    BY <1>1, <2>1, <2>5 DEF Distinct
  <2>8. MIDs(new) \subseteq ids
    BY <1>1, <2>5 DEF MIDs
  <2>9. Keeps(new, c)
    BY <1>3, <2>4, <2>6 DEF Keeps
  <2>10. Covers(new, ts)
    BY <1>1, <1>3, <2>4, <2>6 DEF Covers, Keeps
  <2>. QED
    BY <1>2, <2>7, <2>8, <2>9, <2>10 DEF Fits, new
<1>. QED
  BY <1>4, <1>5

LEMMA InsertAllCovers ==
  ASSUME NEW ids, IsFiniteSet(ids), Cardinality(ids) <= MaxTasks,
         NEW ts, Fits(ts, ids), NEW cs \in MergedList, MIDs(cs) \subseteq ids
  PROVE  /\ Fits(InsertAll(ts, cs), ids)
         /\ Covers(InsertAll(ts, cs), ts) /\ Covers(InsertAll(ts, cs), cs)
<1> DEFINE n == Len(cs)
<1>1. ts \in MergedList
  BY DEF Fits
<1>2. PICK f : /\ f \in [0..n -> MergedList] /\ f[0] = ts
               /\ \A k \in 1..n : f[k] = Insert(f[k - 1], cs[k])
               /\ InsertAll(ts, cs) = f[n]
  BY <1>1, InsertAllRuns
<1>3. n \in Nat /\ DOMAIN cs = 1..n /\ \A k \in 1..n : cs[k] \in MergedTask /\ cs[k].id \in ids
  BY MergedListIs
<1> HIDE DEF n
<1> DEFINE P == {k \in 0..n : /\ Fits(f[k], ids) /\ Covers(f[k], ts)
                              /\ \A l \in 1..k : Keeps(f[k], cs[l])}
<1>4. 0 \in P
  BY <1>1, <1>2, <1>3, CoversItself
<1>5. ASSUME NEW k \in 1..n, k - 1 \in P PROVE k \in P
  <2>1. /\ Fits(f[k - 1], ids) /\ Covers(f[k - 1], ts)
        /\ \A l \in 1..(k - 1) : Keeps(f[k - 1], cs[l])
        /\ f[k - 1] \in MergedList /\ f[k] \in MergedList /\ cs[k] \in MergedTask /\ cs[k].id \in ids
    BY <1>2, <1>3, <1>5
  <2>2. Fits(f[k], ids) /\ Keeps(f[k], cs[k]) /\ Covers(f[k], f[k - 1])
    BY <1>2, <2>1, InsertCovers
  <2>3. \A m \in MergedTask : Keeps(f[k - 1], m) => Keeps(f[k], m)
    BY <2>1, <2>2, CoversCovers
  <2>4. Covers(f[k], ts)
    BY <1>1, <2>1, <2>3, MergedListIs DEF Covers
  <2>5. \A l \in 1..k : l = k \/ l \in 1..(k - 1)
    BY <1>3
  <2>6. \A l \in 1..k : l \in 1..n
    BY <1>3
  <2>7. \A l \in 1..k : Keeps(f[k], cs[l])
    BY <1>3, <2>1, <2>2, <2>3, <2>5, <2>6
  <2>. QED
    BY <2>2, <2>4, <2>7
<1> HIDE DEF P
<1>6. n \in P
  <2>1. \A k \in 0..n : k \in P
    BY <1>3, <1>4, <1>5, CountUp
  <2>. QED
    BY <1>3, <2>1
<1>. QED
  BY <1>2, <1>3, <1>6 DEF P, Covers

LEMMA MergedTasksCover ==
  ASSUME NEW ids, IsFiniteSet(ids), Cardinality(ids) <= MaxTasks,
         NEW contributing, NEW view \in [Slots -> Frame],
         \A s \in Slots : contributing[s] => MIDs(Candidates(s, view[s])) \subseteq ids
  PROVE  \A s \in Slots : contributing[s] =>
           Covers(MergedTasks(contributing, view), Candidates(s, view[s]))
<1>1. PICK f : /\ f \in [0..SlotCount -> MergedList] /\ f[0] = <<>>
               /\ \A n \in 1..SlotCount :
                     f[n] = IF contributing[n - 1]
                              THEN InsertAll(f[n - 1], Candidates(n - 1, view[n - 1]))
                              ELSE f[n - 1]
               /\ MergedTasks(contributing, view) = f[SlotCount]
  BY MergedTasksRuns
<1>2. SlotCount \in Nat /\ Slots = 0..(SlotCount - 1)
  BY DeviceAssumption DEF DeviceAssumption, Slots
<1>3. \A s \in Slots : Candidates(s, view[s]) \in MergedList
  BY CandidatesAre
<1> DEFINE P == {n \in 0..SlotCount :
                   /\ Fits(f[n], ids)
                   /\ \A s \in Slots : s < n /\ contributing[s] => Covers(f[n], Candidates(s, view[s]))}
<1>4. 0 \in P
  <2>1. Fits(<<>>, ids)
    BY DEF Fits, MergedList, Distinct, MIDs
  <2>. QED
    BY <1>1, <1>2, <2>1
<1>5. ASSUME NEW n \in 1..SlotCount, n - 1 \in P PROVE n \in P
  <2>1. /\ n - 1 \in Slots /\ n - 1 \in 0..SlotCount /\ n \in 0..SlotCount
        /\ f[n - 1] \in MergedList /\ f[n] \in MergedList
    BY <1>1, <1>2
  <2>2. /\ Fits(f[n - 1], ids)
        /\ \A s \in Slots : s < n - 1 /\ contributing[s] => Covers(f[n - 1], Candidates(s, view[s]))
    BY <1>5
  <2>3. \A s \in Slots : s < n => s < n - 1 \/ s = n - 1
    BY <1>2
  <2>4. CASE ~contributing[n - 1]
    <3>1. f[n] = f[n - 1]
      BY <1>1, <2>4
    <3>. QED
      BY <2>1, <2>2, <2>3, <2>4, <3>1
  <2>5. CASE contributing[n - 1]
    <3> DEFINE cs == Candidates(n - 1, view[n - 1])
    <3>1. cs \in MergedList /\ MIDs(cs) \subseteq ids /\ f[n] = InsertAll(f[n - 1], cs)
      BY <1>1, <1>3, <2>1, <2>5
    <3>2. Fits(f[n], ids) /\ Covers(f[n], f[n - 1]) /\ Covers(f[n], cs)
      <4> HIDE DEF cs
      <4>. QED
        BY <2>2, <3>1, InsertAllCovers
    <3>3. \A m \in MergedTask : Keeps(f[n - 1], m) => Keeps(f[n], m)
      BY <2>1, <3>2, CoversCovers
    <3>4. ASSUME NEW s \in Slots, s < n, contributing[s] PROVE Covers(f[n], Candidates(s, view[s]))
      <4>1. CASE s = n - 1
        BY <3>2, <4>1
      <4>2. CASE s < n - 1
        <5>1. Covers(f[n - 1], Candidates(s, view[s]))
          BY <2>2, <3>4, <4>2
        <5>2. \A i \in DOMAIN Candidates(s, view[s]) : Candidates(s, view[s])[i] \in MergedTask
          BY <1>3, MergedListIs
        <5>. QED
          BY <3>3, <5>1, <5>2 DEF Covers
      <4>. QED
        BY <2>3, <3>4, <4>1, <4>2
    <3>. QED
      BY <2>1, <3>2, <3>4
  <2>. QED
    BY <2>4, <2>5
<1> HIDE DEF P
<1>6. SlotCount \in P
  <2>1. \A n \in 0..SlotCount : n \in P
    BY <1>2, <1>4, <1>5, CountUp
  <2>. QED
    BY <1>2, <2>1
<1>7. \A s \in Slots : s < SlotCount
  BY <1>2
<1>. QED
  BY <1>1, <1>6, <1>7 DEF P

-----------------------------------------------------------------------------
(* No task is merged twice. *)

LEMMA InsertDistinct ==
  ASSUME NEW ts \in MergedList, Distinct(ts), NEW c \in MergedTask
  PROVE  Distinct(Insert(ts, c))
<1> DEFINE existing == {i \in DOMAIN ts : ts[i].id = c.id}
           new == Insert(ts, c)
<1>1. Len(ts) \in Nat /\ DOMAIN ts = 1..Len(ts)
  BY MergedListIs
<1>2. CASE existing # {}
  <2>1. PICK e \in existing : \A k \in existing : e = k
    BY <1>1, <1>2 DEF Distinct
  <2>2. (CHOOSE j \in existing : \A k \in existing : j <= k) = e
    <3>1. e \in Nat /\ e <= e
      BY <1>1, <2>1
    <3>. QED
      BY <2>1, <3>1
  <2>3. new = ts \/ new = [ts EXCEPT ![e] = c]
    BY <1>2, <2>2 DEF Insert
  <2>4. e \in DOMAIN ts /\ ts[e].id = c.id
    OBVIOUS
  <2> HIDE DEF existing, new
  <2>5. DOMAIN new = DOMAIN ts /\ \A i \in DOMAIN ts : new[i].id = ts[i].id
    BY <2>3, <2>4
  <2>. QED
    BY <2>5 DEF Distinct, new
<1>3. CASE existing = {}
  <2>1. \A i \in DOMAIN ts : ts[i].id # c.id
    BY <1>3
  <2>2. \/ new = Append(ts, c)
        \/ new = ts
        \/ \E w : new = [ts EXCEPT ![w] = c]
    BY <1>3, Zenon DEF Insert
  <2>3. CASE new = Append(ts, c)
    <3>1. /\ DOMAIN new = 1..(Len(ts) + 1) /\ new[Len(ts) + 1] = c
          /\ \A i \in DOMAIN ts : new[i] = ts[i]
      BY <1>1, <2>3 DEF MergedList
    <3> HIDE DEF existing, new
    <3>2. \A i \in DOMAIN new :
            (i \in DOMAIN ts /\ new[i] = ts[i]) \/ (i = Len(ts) + 1 /\ new[i] = c)
      BY <1>1, <3>1
    <3>. QED
      BY <1>1, <2>1, <3>2 DEF Distinct, new
  <2>4. CASE new = ts
    BY <2>4
  <2>5. CASE \E w : new = [ts EXCEPT ![w] = c]
    <3>1. PICK w : new = [ts EXCEPT ![w] = c]
      BY <2>5
    <3> HIDE DEF existing, new
    <3>2. /\ DOMAIN new = DOMAIN ts
          /\ \A i \in DOMAIN ts : new[i] = IF i = w THEN c ELSE ts[i]
      BY <3>1
    <3>. QED
      BY <2>1, <3>2 DEF Distinct, new
  <2>. QED
    BY <2>2, <2>3, <2>4, <2>5
<1>. QED
  BY <1>2, <1>3

LEMMA InsertAllDistinct ==
  ASSUME NEW ts \in MergedList, Distinct(ts), NEW cs \in MergedList
  PROVE  Distinct(InsertAll(ts, cs))
<1> DEFINE n == Len(cs)
<1>1. PICK f : /\ f \in [0..n -> MergedList] /\ f[0] = ts
               /\ \A k \in 1..n : f[k] = Insert(f[k - 1], cs[k])
               /\ InsertAll(ts, cs) = f[n]
  BY InsertAllRuns
<1>2. n \in Nat /\ \A k \in 1..n : cs[k] \in MergedTask
  BY MergedListIs
<1> HIDE DEF n
<1> DEFINE P == {k \in 0..n : Distinct(f[k])}
<1>3. 0 \in P
  BY <1>1, <1>2
<1>4. ASSUME NEW k \in 1..n, k - 1 \in P PROVE k \in P
  <2>1. f[k - 1] \in MergedList /\ Distinct(f[k - 1]) /\ cs[k] \in MergedTask
    BY <1>1, <1>2, <1>4
  <2>. QED
    BY <1>1, <2>1, InsertDistinct
<1> HIDE DEF P
<1>5. \A k \in 0..n : k \in P
  BY <1>2, <1>3, <1>4, CountUp
<1>. QED
  BY <1>1, <1>2, <1>5 DEF P

\* Whatever the contributions are, or were read as.
LEMMA MergedTasksDistinct ==
  ASSUME NEW contributing, NEW view \in [Slots -> Frame]
  PROVE  Distinct(MergedTasks(contributing, view))
<1>1. PICK f : /\ f \in [0..SlotCount -> MergedList] /\ f[0] = <<>>
               /\ \A n \in 1..SlotCount :
                     f[n] = IF contributing[n - 1]
                              THEN InsertAll(f[n - 1], Candidates(n - 1, view[n - 1]))
                              ELSE f[n - 1]
               /\ MergedTasks(contributing, view) = f[SlotCount]
  BY MergedTasksRuns
<1>2. SlotCount \in Nat
  BY DeviceAssumption DEF DeviceAssumption
<1> DEFINE P == {n \in 0..SlotCount : Distinct(f[n])}
<1>3. 0 \in P
  BY <1>1, <1>2 DEF Distinct
<1>4. ASSUME NEW n \in 1..SlotCount, n - 1 \in P PROVE n \in P
  <2>1. f[n - 1] \in MergedList /\ Distinct(f[n - 1]) /\ n - 1 \in Slots
    BY <1>1, <1>2, <1>4 DEF Slots
  <2>2. Candidates(n - 1, view[n - 1]) \in MergedList
    BY <2>1, CandidatesAre
  <2>3. Distinct(f[n])
    BY <1>1, <2>1, <2>2, InsertAllDistinct
  <2>. QED
    BY <2>3
<1> HIDE DEF P
<1>5. \A n \in 0..SlotCount : n \in P
  BY <1>2, <1>3, <1>4, CountUp
<1>. QED
  BY <1>1, <1>2, <1>5 DEF P

LEMMA DistinctCounts ==
  ASSUME NEW ts \in MergedList, Distinct(ts)
  PROVE  Cardinality(MIDs(ts)) = Len(ts)
<1> DEFINE D == 1..Len(ts)
           f == [i \in D |-> ts[i].id]
<1>1. Len(ts) \in Nat /\ DOMAIN ts = D
  BY MergedListIs
<1>2. /\ f \in [D -> MIDs(ts)] /\ \A x \in MIDs(ts) : \E i \in D : f[i] = x
      /\ \A i, j \in D : f[i] = f[j] => i = j
  BY <1>1 DEF MIDs, Distinct
<1>3. IsFiniteSet(D) /\ Cardinality(D) = Len(ts)
  BY <1>1, UpTo
<1> HIDE DEF f, D
<1>4. f \in Surjection(D, MIDs(ts)) /\ f \in Injection(D, MIDs(ts))
  BY <1>2, Fun_IsSurj, Fun_IsInj
<1>. QED
  BY <1>3, <1>4, FS_Surjection

-----------------------------------------------------------------------------
(* Types. *)

LEMMA SlotsAre == IsFiniteSet(Slots) /\ Cardinality(Slots) = SlotCount
<1>1. SlotCount \in Nat \ {0}
  BY DeviceAssumption DEF DeviceAssumption
<1>. QED
  BY <1>1, FS_Interval DEF Slots

LEMMA ConnectedFeedsIs == ConnectedFeeds \in 0..SlotCount
<1>1. {s \in Slots : connected[s]} \in SUBSET Slots /\ SlotCount \in Nat
  BY DeviceAssumption DEF DeviceAssumption
<1>. QED
  BY <1>1, SlotsAre, FS_Subset, FS_CardinalityType DEF ConnectedFeeds

LEMMA ZeroIsFrame == Zero \in Frame
<1>1. <<>> \in Seq(Task)
  OBVIOUS
<1>. QED
  BY <1>1 DEF Zero, Frame

\* A snapshot read while another is copied into it may mix the two, but it is a
\* snapshot.
LEMMA TornIsFrame ==
  ASSUME NEW old \in Frame, NEW new \in Frame, NEW f \in Torn(old, new)
  PROVE  f \in Frame
<1>1. PICK h \in {old, new}, n \in {old, new} :
        f \in {[generation |-> h.generation, revision |-> h.revision,
                tasks |-> [i \in DOMAIN pick |-> TaskAt(pick[i], i)]] :
                 pick \in [1..Len(n.tasks) -> {old, new}]}
  BY DEF Torn
<1>2. PICK pick \in [1..Len(n.tasks) -> {old, new}] :
        f = [generation |-> h.generation, revision |-> h.revision,
             tasks |-> [i \in DOMAIN pick |-> TaskAt(pick[i], i)]]
  BY <1>1
<1> DEFINE m == Len(n.tasks)
           ts == [i \in 1..m |-> TaskAt(pick[i], i)]
<1>3. /\ \A g \in {old, new} : /\ g.generation \in Nat /\ g.revision \in Nat
                               /\ g.tasks \in Seq(Task) /\ Len(g.tasks) \in Nat
                               /\ \A i \in 1..Len(g.tasks) : g.tasks[i] \in Task
  <2>1. \A g \in Frame : g.generation \in Nat /\ g.revision \in Nat /\ g.tasks \in Seq(Task)
    BY DEF Frame
  <2> SUFFICES ASSUME NEW g \in {old, new}
               PROVE  /\ g.generation \in Nat /\ g.revision \in Nat
                      /\ g.tasks \in Seq(Task) /\ Len(g.tasks) \in Nat
                      /\ \A i \in 1..Len(g.tasks) : g.tasks[i] \in Task
    OBVIOUS
  <2>2. g.generation \in Nat /\ g.revision \in Nat /\ g.tasks \in Seq(Task)
    BY <2>1
  <2>. QED
    BY <2>2
<1>4. m \in Nat /\ DOMAIN pick = 1..m
  BY <1>3
<1>5. [id |-> Blank, rank |-> 0] \in Task
  BY DEF Task, Ranks
<1>6. \A i \in 1..m : TaskAt(pick[i], i) \in Task
  <2> SUFFICES ASSUME NEW i \in 1..m PROVE TaskAt(pick[i], i) \in Task
    OBVIOUS
  <2>1. pick[i] \in {old, new} /\ i \in Nat /\ i >= 1
    BY <1>4
  <2>2. i <= Len(pick[i].tasks) => pick[i].tasks[i] \in Task
    BY <1>3, <2>1
  <2>. QED
    BY <1>5, <2>2 DEF TaskAt
<1>7. f = [generation |-> h.generation, revision |-> h.revision, tasks |-> ts]
  BY <1>2, <1>4
<1> HIDE DEF m
<1>8. ts \in [1..m -> Task]
  BY <1>6
<1>9. ts \in Seq(Task)
  <2> HIDE DEF ts
  <2>. QED
    BY <1>4, <1>8
<1> HIDE DEF ts
<1>. QED
  BY <1>3, <1>7, <1>9 DEF Frame

LEMMA ViewsAre ==
  ASSUME snapshot \in [Slots -> Frame], incoming \in [Slots -> Frame], NEW v \in Views
  PROVE  v \in [Slots -> Frame]
<1>1. v = [s \in Slots |-> v[s]] /\ \A s \in Slots : v[s] \in Readable(s)
  BY DEF Views
<1>2. \A s \in Slots : \A f \in Readable(s) : f \in Frame
  BY TornIsFrame DEF Readable
<1>. QED
  BY <1>1, <1>2

QueueOK == queue \in Seq(Event) /\ Len(queue) <= QueueDepth /\ lost \in BOOLEAN

LEMMA PostType ==
  ASSUME QueueOK, NEW e \in Event, Post(e)
  PROVE  QueueOK'
<1> DEFINE E == Event
<1>1. /\ queue \in Seq(E) /\ Len(queue) \in Nat /\ e \in E
      /\ Len(queue) <= QueueDepth /\ QueueDepth \in Nat \ {0}
  BY DeviceAssumption DEF DeviceAssumption, QueueOK
<1> HIDE DEF E
<1>2. Append(queue, e) \in Seq(E) /\ Len(Append(queue, e)) = Len(queue) + 1
  BY <1>1
<1>3. Len(queue) = QueueDepth =>
        /\ Tail(queue) \in Seq(E) /\ Len(Tail(queue)) = Len(queue) - 1
        /\ Append(Tail(queue), e) \in Seq(E) /\ Len(Append(Tail(queue), e)) = Len(queue)
  BY <1>1
<1>4. queue' \in Seq(E) /\ Len(queue') <= QueueDepth
  <2>1. \/ Len(queue) < QueueDepth /\ queue' = Append(queue, e)
        \/ Len(queue) = QueueDepth /\ queue' \in {Append(Tail(queue), e), Tail(queue), queue}
    BY DEF Post
  <2>. QED
    BY <1>1, <1>2, <1>3, <2>1
<1>5. lost' \in BOOLEAN
  BY Zenon DEF Post, QueueOK
<1>. QED
  BY <1>4, <1>5 DEF QueueOK, E

MergeOK == merged \in Merged /\ Len(merged.tasks) <= MaxTasks

LEMMA RebuildType ==
  ASSUME TypeOK, NEW contributing, RebuildAndPost(contributing)
  PROVE  MergeOK' /\ QueueOK'
<1>1. PICK v \in Views :
        /\ merged' = [seq |-> merged.seq + 1, tasks |-> MergedTasks(contributing, v)]
        /\ Post(merged')
  BY DEF RebuildAndPost
<1>2. v \in [Slots -> Frame]
  BY ViewsAre DEF TypeOK
<1>3. /\ MergedTasks(contributing, v) \in MergedList
      /\ Len(MergedTasks(contributing, v)) <= MaxTasks
  BY <1>2, MergedTasksType
<1>4. merged.seq + 1 \in Nat \ {0}
  BY DEF TypeOK, Merged
<1>5. merged' \in Merged /\ merged' \in Event /\ Len(merged'.tasks) <= MaxTasks
  BY <1>1, <1>3, <1>4 DEF Merged, Event, MergedList
<1>6. QueueOK
  BY DEF TypeOK, QueueOK
<1>. QED
  BY <1>1, <1>5, <1>6, PostType DEF MergeOK

LEMMA ReportType ==
  ASSUME TypeOK, NEW n \in 0..SlotCount, Post([feeds |-> n])
  PROVE  QueueOK'
<1>1. [feeds |-> n] \in Event /\ QueueOK
  BY DEF Event, TypeOK, QueueOK
<1>. QED
  BY <1>1, PostType

SlotOrders == {None} \cup [generation : Nat, revision : Nat]

SlotsOK ==
  /\ snapshot \in [Slots -> Frame] /\ incoming \in [Slots -> Frame]
  /\ \A s \in Slots : order[s] \in SlotOrders
  /\ \A s \in Slots : newest[s] \in SlotOrders
  /\ stale \in [Slots -> BOOLEAN] /\ valid \in [Slots -> BOOLEAN]

NetOK ==
  /\ connected \in [Slots -> BOOLEAN]
  /\ pc \in [Slots -> {"idle", "copying", "parsed", "report", "counted"}]
  /\ counted \in [Slots -> 0..SlotCount]
  /\ netCount \in {None} \cup 0..SlotCount

ShownOK == display \in Merged /\ status \in 0..SlotCount

LEMMA TypeIs == TypeOK <=> SlotsOK /\ NetOK /\ MergeOK /\ QueueOK /\ ShownOK
  BY DEF TypeOK, SlotsOK, SlotOrders, NetOK, MergeOK, QueueOK, ShownOK

LEMMA OrderOfIs == ASSUME NEW f \in Frame PROVE OrderOf(f) \in SlotOrders
  BY DEF Frame, OrderOf, SlotOrders

LEMMA NewestType ==
  ASSUME SlotsOK, NEW s \in Slots
  PROVE  Newest(s) \in SlotOrders /\ OrderOf(snapshot[s]) \in SlotOrders
  BY OrderOfIs DEF SlotsOK, Newest

LEMMA ReceiveType == TypeOK /\ Receive => QueueOK' /\ ShownOK'
<1> SUFFICES ASSUME TypeOK, Receive PROVE QueueOK' /\ ShownOK'
  OBVIOUS
<1> DEFINE E == Event
<1>1. /\ queue \in Seq(E) /\ Len(queue) <= QueueDepth /\ lost \in BOOLEAN
      /\ display \in Merged /\ status \in 0..SlotCount /\ QueueDepth \in Nat
  BY DeviceAssumption DEF TypeOK, DeviceAssumption
<1>2. /\ queue # <<>> /\ queue' = Tail(queue) /\ lost' = lost
      /\ IF IsSnapshot(Head(queue))
           THEN display' = Head(queue) /\ UNCHANGED status
           ELSE status' = Head(queue).feeds /\ UNCHANGED display
  BY DEF Receive
<1>3. \A e \in Event : IF IsSnapshot(e) THEN e \in Merged ELSE e.feeds \in 0..SlotCount
  BY DEF Event, Merged, IsSnapshot
<1> HIDE DEF E
<1>4. Head(queue) \in E /\ Tail(queue) \in Seq(E) /\ Len(Tail(queue)) <= QueueDepth
  BY <1>1, <1>2
<1>5. Head(queue) \in Event
  BY <1>4 DEF E
<1>6. ShownOK'
  BY <1>1, <1>2, <1>3, <1>5 DEF ShownOK
<1>. QED
  BY <1>1, <1>2, <1>4, <1>6 DEF QueueOK, E

LEMMA TypeStep == TypeOK /\ [Next]_vars => TypeOK'
<1> SUFFICES ASSUME TypeOK, [Next]_vars PROVE TypeOK'
  OBVIOUS
<1>0. SlotsOK /\ NetOK /\ MergeOK /\ QueueOK /\ ShownOK
  BY TypeIs
<1>a. ASSUME SlotsOK', NetOK', MergeOK', QueueOK', ShownOK' PROVE TypeOK'
  BY <1>a DEF TypeOK, SlotsOK, SlotOrders, NetOK, MergeOK, QueueOK, ShownOK
<1>1. ASSUME NEW s \in Slots, Arrive(s) PROVE TypeOK'
  <2>1. \A f \in Frames[s] : f \in Frame
    BY DeviceAssumption DEF DeviceAssumption
  <2>2. SlotsOK'
    BY <1>0, <1>1, <2>1 DEF Arrive, slotVars, SlotsOK
  <2>3. NetOK'
    BY <1>0, <1>1 DEF Arrive, netVars, NetOK
  <2>4. MergeOK' /\ QueueOK' /\ ShownOK'
    BY <1>0, <1>1 DEF Arrive, uiVars, MergeOK, QueueOK, ShownOK
  <2>. QED
    BY <1>a, <2>2, <2>3, <2>4
<1>2. ASSUME NEW s \in Slots, Copied(s) PROVE TypeOK'
  <2>1. SlotsOK'
    BY <1>0, <1>2, ZeroIsFrame DEF Copied, SlotsOK
  <2>2. NetOK'
    BY <1>0, <1>2 DEF Copied, netVars, NetOK
  <2>3. MergeOK' /\ QueueOK' /\ ShownOK'
    BY <1>0, <1>2 DEF Copied, uiVars, MergeOK, QueueOK, ShownOK
  <2>. QED
    BY <1>a, <2>1, <2>2, <2>3
<1>3. ASSUME NEW s \in Slots, Accept(s) \/ Reject(s) PROVE TypeOK'
  <2>1. Newest(s) \in SlotOrders /\ OrderOf(snapshot[s]) \in SlotOrders
    BY <1>0, NewestType
  <2>2. SlotsOK'
    <3>1. CASE Accept(s)
      BY <1>0, <2>1, <3>1 DEF Accept, SlotsOK
    <3>2. CASE Reject(s)
      BY <1>0, <2>1, <3>2 DEF Reject, SlotsOK
    <3>. QED
      BY <1>3, <3>1, <3>2
  <2>3. NetOK'
    BY <1>0, <1>3 DEF Accept, Reject, netVars, NetOK
  <2>4. MergeOK' /\ QueueOK'
    BY <1>3, RebuildType DEF Accept, Reject
  <2>5. ShownOK'
    BY <1>0, <1>3 DEF Accept, Reject, ShownOK
  <2>. QED
    BY <1>a, <2>2, <2>3, <2>4, <2>5
<1>4. ASSUME NEW s \in Slots, Open(s) PROVE TypeOK'
  <2>1. SlotsOK'
    BY <1>0, <1>4 DEF Open, slotVars, SlotsOK
  <2>2. NetOK'
    BY <1>0, <1>4 DEF Open, NetOK
  <2>3. MergeOK' /\ QueueOK' /\ ShownOK'
    BY <1>0, <1>4 DEF Open, uiVars, MergeOK, QueueOK, ShownOK
  <2>. QED
    BY <1>a, <2>1, <2>2, <2>3
<1>5. ASSUME NEW s \in Slots, Lose(s) PROVE TypeOK'
  <2>1. SlotsOK'
    BY <1>0, <1>5 DEF Lose, SlotsOK
  <2>2. NetOK'
    BY <1>0, <1>5 DEF Lose, NetOK
  <2>3. MergeOK' /\ QueueOK'
    <3>1. CASE valid[s]
      BY <1>5, <3>1, RebuildType DEF Lose
    <3>2. CASE ~valid[s]
      BY <1>0, <1>5, <3>2 DEF Lose, MergeOK, QueueOK
    <3>. QED
      BY <3>1, <3>2
  <2>4. ShownOK'
    BY <1>0, <1>5 DEF Lose, ShownOK
  <2>. QED
    BY <1>a, <2>1, <2>2, <2>3, <2>4
<1>6. ASSUME NEW s \in Slots, Count(s) PROVE TypeOK'
  <2>1. SlotsOK'
    BY <1>0, <1>6 DEF Count, slotVars, SlotsOK
  <2>2. NetOK'
    BY <1>0, <1>6, ConnectedFeedsIs DEF Count, NetOK
  <2>3. MergeOK' /\ QueueOK' /\ ShownOK'
    BY <1>0, <1>6 DEF Count, uiVars, MergeOK, QueueOK, ShownOK
  <2>. QED
    BY <1>a, <2>1, <2>2, <2>3
<1>7. ASSUME NEW s \in Slots, Report(s) PROVE TypeOK'
  <2>1. SlotsOK'
    BY <1>0, <1>7 DEF Report, slotVars, SlotsOK
  <2>2. NetOK'
    <3>1. 0 \in 0..SlotCount
      BY DeviceAssumption DEF DeviceAssumption
    <3>. QED
      BY <1>0, <1>7, <3>1 DEF Report, NetOK
  <2>3. QueueOK'
    <3>1. PICK o \in Slots : Post([feeds |-> counted[o]])
      BY <1>7 DEF Report
    <3>2. counted[o] \in 0..SlotCount
      BY <1>0 DEF NetOK
    <3>. QED
      BY <3>1, <3>2, ReportType
  <2>4. MergeOK' /\ ShownOK'
    BY <1>0, <1>7 DEF Report, MergeOK, ShownOK
  <2>. QED
    BY <1>a, <2>1, <2>2, <2>3, <2>4
<1>8. CASE CountAll
  <2>1. SlotsOK'
    BY <1>0, <1>8 DEF CountAll, slotVars, tasks, SlotsOK
  <2>2. NetOK'
    BY <1>0, <1>8, ConnectedFeedsIs DEF CountAll, tasks, NetOK
  <2>3. MergeOK' /\ QueueOK' /\ ShownOK'
    BY <1>0, <1>8 DEF CountAll, uiVars, MergeOK, QueueOK, ShownOK
  <2>. QED
    BY <1>a, <2>1, <2>2, <2>3
<1>9. CASE ReportAll
  <2>1. SlotsOK'
    BY <1>0, <1>9 DEF ReportAll, slotVars, tasks, SlotsOK
  <2>2. NetOK'
    BY <1>0, <1>9 DEF ReportAll, tasks, NetOK
  <2>3. QueueOK'
    <3>1. netCount # None /\ Post([feeds |-> netCount])
      BY <1>9 DEF ReportAll
    <3>2. netCount \in 0..SlotCount
      BY <1>0, <3>1 DEF NetOK
    <3>. QED
      BY <3>1, <3>2, ReportType
  <2>4. MergeOK' /\ ShownOK'
    BY <1>0, <1>9 DEF ReportAll, MergeOK, ShownOK
  <2>. QED
    BY <1>a, <2>1, <2>2, <2>3, <2>4
<1>10. CASE Receive
  <2>1. SlotsOK'
    BY <1>0, <1>10 DEF Receive, slotVars, tasks, SlotsOK
  <2>2. NetOK'
    BY <1>0, <1>10 DEF Receive, netVars, tasks, NetOK
  <2>3. MergeOK'
    BY <1>0, <1>10 DEF Receive, MergeOK
  <2>4. QueueOK' /\ ShownOK'
    BY <1>10, ReceiveType
  <2>. QED
    BY <1>a, <2>1, <2>2, <2>3, <2>4
<1>11. CASE UNCHANGED vars
  <2>1. SlotsOK' /\ NetOK'
    BY <1>0, <1>11 DEF vars, slotVars, netVars, tasks, SlotsOK, NetOK
  <2>2. MergeOK' /\ QueueOK' /\ ShownOK'
    BY <1>0, <1>11 DEF vars, uiVars, MergeOK, QueueOK, ShownOK
  <2>. QED
    BY <1>a, <2>1, <2>2
<1>. QED
  BY <1>1, <1>2, <1>3, <1>4, <1>5, <1>6, <1>7, <1>8, <1>9, <1>10, <1>11 DEF Next

LEMMA TypeInit == Init => TypeOK
<1> SUFFICES ASSUME Init PROVE TypeOK
  OBVIOUS
<1>1. SlotsOK
  BY ZeroIsFrame DEF Init, SlotsOK, SlotOrders
<1>2. NetOK
  <2>1. 0 \in 0..SlotCount
    BY DeviceAssumption DEF DeviceAssumption
  <2>. QED
    BY <2>1 DEF Init, NetOK
<1>3. /\ <<>> \in Seq(MergedTask) /\ <<>> \in Seq(Event) /\ Len(<<>>) = 0
      /\ SlotCount \in Nat /\ MaxTasks \in Nat /\ QueueDepth \in Nat
  BY DeviceAssumption DEF DeviceAssumption
<1>4. /\ merged = [seq |-> 0, tasks |-> <<>>] /\ display = merged
      /\ queue = <<>> /\ lost = FALSE /\ status = 0
  BY DEF Init
<1>5. merged \in Merged /\ Len(merged.tasks) <= MaxTasks
  BY <1>3, <1>4 DEF Merged
<1>6. MergeOK /\ ShownOK
  BY <1>3, <1>4, <1>5 DEF MergeOK, ShownOK
<1>7. QueueOK
  <2>1. queue \in Seq(Event)
    BY <1>3, <1>4
  <2>2. Len(queue) <= QueueDepth
    BY <1>3, <1>4
  <2>3. lost \in BOOLEAN
    BY <1>4
  <2>. QED
    BY <2>1, <2>2, <2>3 DEF QueueOK
<1>. QED
  BY <1>1, <1>2, <1>6, <1>7, TypeIs

\* Types, for any number of slots, frames, tasks and places of the queue: the
\* queue never holds more than UI_QUEUE_DEPTH and the merge never more than
\* APP_MAX_TASKS, also where it was made of a contribution half written
\* (app_ui_post, insert_task_locked).
THEOREM DeviceTypeCorrect == Spec => []TypeOK
  BY TypeInit, TypeStep, PTL DEF Spec

-----------------------------------------------------------------------------
(* The merge is current. *)

MergeInv == TypeOK /\ MergedIsCurrent

\* Who rebuilds while nobody copies reads what the slots hold.
LEMMA SettledViews ==
  ASSUME TypeOK, \A s \in Slots : pc[s] # "copying"
  PROVE  \A v \in Views : v = snapshot
<1>1. SUFFICES ASSUME NEW v \in Views PROVE v = snapshot
  OBVIOUS
<1>2. v = [s \in Slots |-> v[s]] /\ snapshot = [s \in Slots |-> snapshot[s]]
  BY DEF Views, TypeOK
<1>3. \A s \in Slots : v[s] = snapshot[s]
  BY DEF Views, Readable
<1>. QED
  BY <1>2, <1>3

LEMMA RebuildMerges ==
  ASSUME TypeOK, NEW contributing, RebuildAndPost(contributing),
         \A s \in Slots : pc[s] # "copying"
  PROVE  merged'.tasks = MergedTasks(contributing, snapshot)
<1>1. PICK v \in Views :
        merged' = [seq |-> merged.seq + 1, tasks |-> MergedTasks(contributing, v)]
  BY DEF RebuildAndPost
<1>2. v = snapshot
  BY SettledViews
<1>. QED
  BY <1>1, <1>2

\* A step that leaves the merge alone, and that no writer ends with.
LEMMA MergeKept ==
  ASSUME MergedIsCurrent, UNCHANGED <<snapshot, valid, merged>>, Writing' = {} => Writing = {}
  PROVE  MergedIsCurrent'
  BY DEF MergedIsCurrent

\* The end of a parse, on either verdict.
LEMMA MergeSettled ==
  ASSUME TypeOK, NEW s \in Slots, pc[s] = "parsed", pc' = [pc EXCEPT ![s] = "idle"],
         RebuildAndPost(valid'), UNCHANGED snapshot
  PROVE  MergedIsCurrent'
<1>1. SUFFICES ASSUME Writing' = {} PROVE merged'.tasks = MergedTasks(valid', snapshot)
  BY DEF MergedIsCurrent
<1>2. \A o \in Slots : pc[o] # "copying"
  BY <1>1 DEF Writing, TypeOK
<1>. QED
  BY <1>2, RebuildMerges

LEMMA MergeInit == Init => MergeInv
<1>. SUFFICES ASSUME Init PROVE MergeInv
  OBVIOUS
<1>1. TypeOK
  BY TypeInit
<1>2. MergedTasks(valid, snapshot) = <<>>
  <2>1. \A s \in Slots : ~valid[s]
    BY DEF Init
  <2>2. snapshot \in [Slots -> Frame]
    BY <1>1 DEF TypeOK
  <2>. QED
    BY <2>1, <2>2, NothingMerged
<1>3. merged.tasks = <<>>
  BY DEF Init
<1>. QED
  BY <1>1, <1>2, <1>3 DEF MergeInv, MergedIsCurrent

LEMMA MergeStep == MergeInv /\ [Next]_vars => MergeInv'
<1>. SUFFICES ASSUME MergeInv, [Next]_vars PROVE MergeInv'
  OBVIOUS
<1>0. TypeOK /\ MergedIsCurrent /\ TypeOK'
  BY TypeStep DEF MergeInv
<1>1. ASSUME NEW s \in Slots, Arrive(s) \/ Copied(s) PROVE MergedIsCurrent'
  <2>1. Writing' # {}
    BY <1>0, <1>1 DEF Arrive, Copied, Writing, TypeOK
  <2>. QED
    BY <2>1 DEF MergedIsCurrent
<1>2. ASSUME NEW s \in Slots, Accept(s) \/ Reject(s) PROVE MergedIsCurrent'
  BY <1>0, <1>2, MergeSettled DEF Accept, Reject
<1>3. ASSUME NEW s \in Slots, Open(s) \/ Count(s) \/ Report(s) PROVE MergedIsCurrent'
  <2>1. Writing' = {} => Writing = {}
    BY <1>0, <1>3 DEF Open, Count, Report, Writing, TypeOK
  <2>. QED
    BY <1>0, <1>3, <2>1, MergeKept DEF Open, Count, Report, slotVars
<1>4. ASSUME NEW s \in Slots, Lose(s) PROVE MergedIsCurrent'
  <2>1. Writing' = {} => Writing = {}
    BY <1>0, <1>4 DEF Lose, Writing, TypeOK
  <2>2. CASE valid[s]
    <3>1. RebuildAndPost(valid') /\ UNCHANGED snapshot
      BY <1>4, <2>2 DEF Lose
    <3>2. ASSUME Writing' = {} PROVE merged'.tasks = MergedTasks(valid', snapshot)
      <4>1. \A o \in Slots : pc[o] # "copying"
        BY <2>1, <3>2 DEF Writing
      <4>. QED
        BY <1>0, <3>1, <4>1, RebuildMerges
    <3>. QED
      BY <3>1, <3>2 DEF MergedIsCurrent
  <2>3. CASE ~valid[s]
    <3>1. UNCHANGED <<snapshot, valid, merged>>
      BY <1>0, <1>4, <2>3 DEF Lose, TypeOK
    <3>. QED
      BY <1>0, <2>1, <3>1, MergeKept
  <2>. QED
    BY <2>2, <2>3
<1>5. CASE CountAll \/ ReportAll \/ Receive \/ UNCHANGED vars
  <2>1. UNCHANGED <<snapshot, valid, pc, merged>>
    BY <1>5 DEF CountAll, ReportAll, Receive, vars, slotVars, tasks
  <2>2. Writing' = Writing
    BY <2>1 DEF Writing
  <2>. QED
    BY <1>0, <2>1, <2>2, MergeKept DEF MergeInv
<1>. QED
  BY <1>0, <1>1, <1>2, <1>3, <1>4, <1>5 DEF Next, MergeInv

\* Whenever no websocket task is between its copy and the lock, what was
\* merged last is the merge of what the slots hold: a rebuild that read a half
\* written contribution is always followed by one that did not (handle_snapshot,
\* rebuild_merged_snapshot_locked).
THEOREM MergeStaysCurrent == Spec => []MergedIsCurrent
<1>1. MergeInv => MergedIsCurrent
  BY DEF MergeInv
<1>. QED
  BY MergeInit, MergeStep, <1>1, PTL DEF Spec

\* The tasks of the slots in S are finitely many.
LEMMA FewTasks ==
  ASSUME NEW S, S \in SUBSET Slots, NEW view \in [Slots -> Frame]
  PROVE  IsFiniteSet(UNION {{t.id : t \in ToSet(view[s].tasks)} : s \in S})
<1> DEFINE of(s) == {t.id : t \in ToSet(view[s].tasks)}
           all == {of(s) : s \in S}
           g == [s \in S |-> of(s)]
<1>1. IsFiniteSet(S)
  BY SlotsAre, FS_Subset
<1>2. g \in [S -> all] /\ \A x \in all : \E s \in S : g[s] = x
  <2> HIDE DEF of
  <2>. QED
    OBVIOUS
<1>3. ASSUME NEW s \in S PROVE IsFiniteSet(of(s))
  <2> DEFINE ts == view[s].tasks
             D == 1..Len(ts)
             f == [i \in D |-> ts[i].id]
  <2>1. Len(ts) \in Nat /\ DOMAIN ts = D
    BY CandidatesAre
  <2>2. of(s) = {ts[i].id : i \in D}
    BY <2>1 DEF ToSet
  <2>3. f \in [D -> of(s)] /\ \A x \in of(s) : \E i \in D : f[i] = x
    BY <2>2
  <2>4. IsFiniteSet(D)
    BY <2>1, FS_Interval
  <2> HIDE DEF f, D, of
  <2>. QED
    BY <2>3, <2>4, Fun_IsSurj, FS_Surjection
<1> HIDE DEF of, g
<1>4. IsFiniteSet(all)
  <2> HIDE DEF all
  <2>. QED
    BY <1>1, <1>2, Fun_IsSurj, FS_Surjection
<1>5. \A T \in all : IsFiniteSet(T)
  BY <1>3
<1>6. IsFiniteSet(UNION all)
  <2> HIDE DEF all
  <2>. QED
    BY <1>4, <1>5, FS_UNION
<1>. QED
  BY <1>6 DEF of

LEMMA NewestCopiesWin == MergeInv => NewestCopyWins
<1> DEFINE contributed == {s \in Slots : valid[s]}
           ids == UNION {{t.id : t \in ToSet(snapshot[s].tasks)} : s \in contributed}
<1> SUFFICES ASSUME MergeInv, Writing = {}, Cardinality(ids) <= MaxTasks,
                    NEW s \in contributed, NEW t \in ToSet(snapshot[s].tasks)
             PROVE  \E m \in ToSet(merged.tasks) : m.id = t.id /\ ~OriginOlder(m, snapshot[s])
  BY DEF NewestCopyWins
<1>1. snapshot \in [Slots -> Frame] /\ merged.tasks = MergedTasks(valid, snapshot)
  BY DEF MergeInv, TypeOK, MergedIsCurrent
<1>2. IsFiniteSet(ids)
  BY <1>1, FewTasks
<1>3. ASSUME NEW o \in Slots, valid[o] PROVE MIDs(Candidates(o, snapshot[o])) \subseteq ids
  <2> DEFINE of(p) == {u.id : u \in ToSet(snapshot[p].tasks)}
  <2>1. /\ Candidates(o, snapshot[o]) \in MergedList
        /\ DOMAIN Candidates(o, snapshot[o]) = DOMAIN snapshot[o].tasks
        /\ \A i \in DOMAIN snapshot[o].tasks :
             Candidates(o, snapshot[o])[i].id = snapshot[o].tasks[i].id
    BY <1>1, CandidatesAre, MergedListIs
  <2>2. MIDs(Candidates(o, snapshot[o])) \subseteq of(o)
    BY <2>1 DEF MIDs, ToSet
  <2>3. o \in contributed
    BY <1>3
  <2>4. of(o) \subseteq ids
    <3> HIDE DEF contributed
    <3>. QED
      BY <2>3
  <2>. QED
    BY <2>2, <2>4
<1> HIDE DEF ids
<1>4. Covers(merged.tasks, Candidates(s, snapshot[s]))
  BY <1>1, <1>2, <1>3, MergedTasksCover
<1>5. PICK i \in DOMAIN snapshot[s].tasks : snapshot[s].tasks[i] = t
  BY DEF ToSet
<1>6. /\ i \in DOMAIN Candidates(s, snapshot[s])
      /\ Candidates(s, snapshot[s])[i].id = t.id
      /\ Candidates(s, snapshot[s])[i].generation = snapshot[s].generation
      /\ Candidates(s, snapshot[s])[i].revision = snapshot[s].revision
  BY <1>1, <1>5, CandidatesAre, MergedListIs
<1>7. PICK k \in DOMAIN merged.tasks :
        /\ merged.tasks[k].id = Candidates(s, snapshot[s])[i].id
        /\ ~OriginOlder(merged.tasks[k], Candidates(s, snapshot[s])[i])
  BY <1>4, <1>6 DEF Covers, Keeps
<1>. QED
  BY <1>6, <1>7 DEF ToSet, OriginOlder

\* While there is room for all of them, every task that a slot contributes is in
\* the merge, in no copy of a lower origin order, however many slots have one and
\* in whichever order they come (insert_task_locked, docs/PROTOCOL.md:173-175).
THEOREM NewestCopiesStay == Spec => []NewestCopyWins
  BY MergeInit, MergeStep, NewestCopiesWin, PTL DEF Spec

-----------------------------------------------------------------------------
(* The UI queue.  Its events have no type of their own here, as the tasks of *)
(* a merge are the result of a fold: a queue is a sequence of its elements.  *)

QueuedSnapshots == {i \in DOMAIN queue : IsSnapshot(queue[i])}

QueueType ==
  /\ queue \in Seq(ToSet(queue)) /\ Len(queue) <= QueueDepth
  /\ \A i \in QueuedSnapshots : queue[i].seq \in Nat
  /\ display.seq \in Nat /\ display.seq <= merged.seq /\ merged.seq \in Nat
  /\ lost \in BOOLEAN

PostsInv == QueueType /\ SnapshotsInOrder

LEMMA AppendQueue ==
  ASSUME NEW q, q \in Seq(ToSet(q)), NEW e
  PROVE  /\ Append(q, e) \in Seq(ToSet(Append(q, e)))
         /\ Len(Append(q, e)) = Len(q) + 1 /\ Len(q) \in Nat
         /\ DOMAIN q = 1..Len(q) /\ DOMAIN Append(q, e) = 1..(Len(q) + 1)
         /\ \A i \in 1..Len(q) : Append(q, e)[i] = q[i]
         /\ Append(q, e)[Len(q) + 1] = e
<1> DEFINE S == ToSet(q) \cup {e}
<1>1. q \in Seq(S) /\ e \in S
  OBVIOUS
<1> HIDE DEF S
<1>2. /\ Append(q, e) \in Seq(S) /\ Len(Append(q, e)) = Len(q) + 1 /\ Len(q) \in Nat
      /\ DOMAIN q = 1..Len(q) /\ DOMAIN Append(q, e) = 1..(Len(q) + 1)
      /\ \A i \in 1..Len(q) : Append(q, e)[i] = q[i]
      /\ Append(q, e)[Len(q) + 1] = e
  BY <1>1
<1>3. \A i \in 1..Len(Append(q, e)) : Append(q, e)[i] \in ToSet(Append(q, e))
  BY <1>2 DEF ToSet
<1>. QED
  BY <1>2, <1>3

LEMMA TailQueue ==
  ASSUME NEW q, q \in Seq(ToSet(q)), q # <<>>
  PROVE  /\ Tail(q) \in Seq(ToSet(Tail(q)))
         /\ Len(Tail(q)) = Len(q) - 1 /\ Len(q) \in Nat \ {0}
         /\ DOMAIN q = 1..Len(q) /\ DOMAIN Tail(q) = 1..(Len(q) - 1)
         /\ \A i \in 1..(Len(q) - 1) : Tail(q)[i] = q[i + 1]
         /\ Head(q) = q[1]
<1>1. /\ Tail(q) \in Seq(ToSet(q)) /\ Len(Tail(q)) = Len(q) - 1 /\ Len(q) \in Nat \ {0}
      /\ DOMAIN q = 1..Len(q) /\ DOMAIN Tail(q) = 1..(Len(q) - 1)
      /\ \A i \in 1..(Len(q) - 1) : Tail(q)[i] = q[i + 1]
      /\ Head(q) = q[1]
  OBVIOUS
<1>2. \A i \in 1..Len(Tail(q)) : Tail(q)[i] \in ToSet(Tail(q))
  BY <1>1 DEF ToSet
<1>3. \A T, w : w \in Seq(T) => (\A U : (\A i \in 1..Len(w) : w[i] \in U) => w \in Seq(U))
  OBVIOUS
<1>4. Tail(q) \in Seq(ToSet(Tail(q)))
  BY <1>1, <1>2, <1>3
<1>. QED
  BY <1>1, <1>4

\* The numbers of the queued snapshots of q grow, from low, and end at high.
Ascending(q, low, high) ==
  /\ \A i \in DOMAIN q : IsSnapshot(q[i]) =>
       q[i].seq \in Nat /\ low < q[i].seq /\ q[i].seq <= high
  /\ \A i, j \in DOMAIN q : IsSnapshot(q[i]) /\ IsSnapshot(q[j]) /\ i < j =>
       q[i].seq < q[j].seq

\* The snapshot numbered n is in q.
Holds(q, n) == \E i \in DOMAIN q : IsSnapshot(q[i]) /\ q[i].seq = n

LEMMA PostsInvIs ==
  PostsInv <=> /\ queue \in Seq(ToSet(queue)) /\ Len(queue) <= QueueDepth
               /\ display.seq \in Nat /\ display.seq <= merged.seq /\ merged.seq \in Nat
               /\ lost \in BOOLEAN
               /\ Ascending(queue, display.seq, merged.seq)
               /\ ~lost => display.seq = merged.seq \/ Holds(queue, merged.seq)
  BY DEF PostsInv, QueueType, SnapshotsInOrder, QueuedSnapshots, Ascending, Holds

LEMMA AscendingTail ==
  ASSUME NEW q, q \in Seq(ToSet(q)), q # <<>>, NEW low \in Nat, NEW high \in Nat,
         Ascending(q, low, high)
  PROVE  /\ Ascending(Tail(q), low, high)
         /\ IsSnapshot(Head(q)) => /\ Head(q).seq \in Nat /\ Head(q).seq <= high
                                   /\ Ascending(Tail(q), Head(q).seq, high)
         /\ \A n : Holds(Tail(q), n) => Holds(q, n)
         /\ \A n : Holds(q, n) => \/ Holds(Tail(q), n)
                                  \/ IsSnapshot(Head(q)) /\ Head(q).seq = n
<1>1. /\ Len(q) \in Nat \ {0} /\ DOMAIN q = 1..Len(q)
      /\ DOMAIN Tail(q) = 1..(Len(q) - 1) /\ Head(q) = q[1]
      /\ \A i \in DOMAIN Tail(q) : Tail(q)[i] = q[i + 1] /\ i + 1 \in DOMAIN q /\ 1 < i + 1
      /\ 1 \in DOMAIN q
  BY TailQueue
<1>2. Ascending(Tail(q), low, high)
  BY <1>1 DEF Ascending
<1>3. IsSnapshot(Head(q)) => /\ Head(q).seq \in Nat /\ Head(q).seq <= high
                             /\ Ascending(Tail(q), Head(q).seq, high)
  BY <1>1 DEF Ascending
<1>4. \A n : Holds(Tail(q), n) => Holds(q, n)
  BY <1>1 DEF Holds
<1>5. ASSUME NEW n, Holds(q, n)
      PROVE  Holds(Tail(q), n) \/ (IsSnapshot(Head(q)) /\ Head(q).seq = n)
  <2>1. PICK i \in DOMAIN q : IsSnapshot(q[i]) /\ q[i].seq = n
    BY <1>5 DEF Holds
  <2>2. CASE i = 1
    BY <1>1, <2>1, <2>2
  <2>3. CASE i # 1
    <3>1. i - 1 \in DOMAIN Tail(q) /\ Tail(q)[i - 1] = q[i]
      BY <1>1, <2>3
    <3>. QED
      BY <2>1, <3>1 DEF Holds
  <2>. QED
    BY <2>2, <2>3
<1>. QED
  BY <1>2, <1>3, <1>4, <1>5

LEMMA AscendingAppend ==
  ASSUME NEW q, q \in Seq(ToSet(q)), NEW low \in Nat, NEW high \in Nat, NEW top \in Nat,
         Ascending(q, low, high), high <= top, NEW e,
         IsSnapshot(e) => e.seq \in Nat /\ low < e.seq /\ high < e.seq /\ e.seq <= top
  PROVE  /\ Ascending(Append(q, e), low, top)
         /\ \A n : Holds(q, n) => Holds(Append(q, e), n)
         /\ IsSnapshot(e) => Holds(Append(q, e), e.seq)
<1> DEFINE w == Append(q, e)
<1>1. /\ Len(q) \in Nat /\ DOMAIN q = 1..Len(q) /\ DOMAIN w = 1..(Len(q) + 1)
      /\ \A i \in 1..Len(q) : w[i] = q[i]
      /\ w[Len(q) + 1] = e
  BY AppendQueue
<1>. HIDE DEF w
<1>2. \A i \in DOMAIN w : (i \in DOMAIN q /\ w[i] = q[i]) \/ (i = Len(q) + 1 /\ w[i] = e)
  BY <1>1
<1>3. \A i \in DOMAIN w : IsSnapshot(w[i]) =>
        w[i].seq \in Nat /\ low < w[i].seq /\ w[i].seq <= top
  BY <1>2 DEF Ascending
<1>4. ASSUME NEW i \in DOMAIN w, NEW j \in DOMAIN w, IsSnapshot(w[i]), IsSnapshot(w[j]), i < j
      PROVE  w[i].seq < w[j].seq
  <2>1. i \in DOMAIN q /\ w[i] = q[i]
    BY <1>1, <1>4
  <2>2. CASE j \in DOMAIN q
    BY <1>1, <1>4, <2>1, <2>2 DEF Ascending
  <2>3. CASE j = Len(q) + 1
    BY <1>1, <1>4, <2>1, <2>3 DEF Ascending
  <2>. QED
    BY <1>2, <2>2, <2>3
<1>5. Ascending(w, low, top)
  BY <1>3, <1>4 DEF Ascending
<1>6. \A n : Holds(q, n) => Holds(w, n)
  BY <1>1 DEF Holds
<1>7. IsSnapshot(e) => Holds(w, e.seq)
  BY <1>1 DEF Holds
<1>. QED
  BY <1>5, <1>6, <1>7 DEF w

\* What a post leaves in the queue: the latest snapshot, if it was not discarded.
LEMMA PostKeeps ==
  ASSUME PostsInv, NEW e, Post(e), UNCHANGED display,
         \/ IsSnapshot(e) /\ e = merged' /\ e.seq = merged.seq + 1
         \/ ~IsSnapshot(e) /\ merged' = merged
  PROVE  PostsInv'
<1> DEFINE low == display.seq
           top == merged'.seq
<1>1. /\ queue \in Seq(ToSet(queue)) /\ Len(queue) \in Nat
      /\ low \in Nat /\ merged.seq \in Nat /\ low <= merged.seq
      /\ lost \in BOOLEAN
      /\ Ascending(queue, low, merged.seq)
      /\ ~lost => low = merged.seq \/ Holds(queue, merged.seq)
  BY PostsInvIs, AppendQueue
<1>2. /\ top \in Nat /\ merged.seq <= top /\ display' = display
      /\ IsSnapshot(e) => e.seq \in Nat /\ low < e.seq /\ merged.seq < e.seq /\ e.seq <= top
      /\ IsSnapshot(e) => e.seq = top
      /\ ~IsSnapshot(e) => top = merged.seq
  BY <1>1
<1> HIDE DEF low, top
<1>3. CASE Len(queue) < QueueDepth
  <2>1. queue' = Append(queue, e) /\ lost' = (lost /\ ~IsSnapshot(e)) /\ Len(queue) # QueueDepth
    BY <1>1, <1>3, DeviceAssumption DEF Post, DeviceAssumption
  <2>2. /\ Ascending(queue', low, top)
        /\ \A n : Holds(queue, n) => Holds(queue', n)
        /\ IsSnapshot(e) => Holds(queue', e.seq)
    BY <1>1, <1>2, <2>1, AscendingAppend
  <2>3. queue' \in Seq(ToSet(queue')) /\ Len(queue') = Len(queue) + 1
    BY <1>1, <2>1, AppendQueue
  <2>4. Len(queue') <= QueueDepth /\ lost' \in BOOLEAN
    BY <1>1, <1>3, <2>1, <2>3, DeviceAssumption DEF DeviceAssumption
  <2>5. ~lost' => low = top \/ Holds(queue', top)
    BY <1>1, <1>2, <2>1, <2>2
  <2>. QED
    BY <1>1, <1>2, <2>2, <2>3, <2>4, <2>5 DEF low, top, PostsInv, QueueType,
       SnapshotsInOrder, QueuedSnapshots, Ascending, Holds
<1>4. CASE Len(queue) = QueueDepth
  <2>1. /\ queue # <<>>
        /\ queue' \in {Append(Tail(queue), e), Tail(queue), queue}
        /\ lost' = IF IsSnapshot(e) THEN e \notin ToSet(queue')
                   ELSE lost \/ \E d \in ToSet(queue) \ ToSet(queue') :
                                  IsSnapshot(d) /\ d.seq = merged.seq
    BY <1>1, <1>4, DeviceAssumption DEF Post, DeviceAssumption
  <2>2. /\ Tail(queue) \in Seq(ToSet(Tail(queue))) /\ Len(Tail(queue)) = Len(queue) - 1
        /\ Ascending(Tail(queue), low, merged.seq)
    BY <1>1, <2>1, TailQueue, AscendingTail
  <2>3. \A q : q \in Seq(ToSet(q)) /\ Ascending(q, low, merged.seq) =>
               /\ Append(q, e) \in Seq(ToSet(Append(q, e)))
               /\ Len(Append(q, e)) = Len(q) + 1
               /\ Ascending(Append(q, e), low, top)
    BY <1>1, <1>2, AppendQueue, AscendingAppend
  <2>4. /\ Ascending(Tail(queue), low, top) /\ Ascending(queue, low, top)
    BY <1>1, <1>2, <2>2 DEF Ascending
  <2>5. /\ queue' \in Seq(ToSet(queue')) /\ Len(queue') <= QueueDepth
        /\ Ascending(queue', low, top)
    <3>1. CASE queue' = Append(Tail(queue), e)
      <4> DEFINE rest == Tail(queue)
      <4>1. /\ rest \in Seq(ToSet(rest)) /\ Ascending(rest, low, merged.seq)
            /\ Len(rest) = Len(queue) - 1 /\ queue' = Append(rest, e)
        BY <2>2, <3>1
      <4> HIDE DEF rest
      <4>. QED
        BY <1>1, <1>4, <2>3, <4>1
    <3>2. CASE queue' = Tail(queue)
      <4> DEFINE rest == Tail(queue)
      <4>1. /\ rest \in Seq(ToSet(rest)) /\ Ascending(rest, low, top)
            /\ Len(rest) = Len(queue) - 1 /\ queue' = rest
        BY <2>2, <2>4, <3>2
      <4> HIDE DEF rest
      <4>. QED
        BY <1>1, <1>4, <4>1
    <3>3. CASE queue' = queue
      BY <1>1, <1>4, <2>4, <3>3
    <3>. QED
      BY <2>1, <3>1, <3>2, <3>3
  <2>6. lost' \in BOOLEAN
    BY <1>1, <2>1
  <2>7. ~lost' => low = top \/ Holds(queue', top)
    <3>1. ASSUME NEW d \in ToSet(queue'), IsSnapshot(d) PROVE Holds(queue', d.seq)
      BY <3>1 DEF ToSet, Holds
    <3>2. CASE IsSnapshot(e)
      BY <1>2, <2>1, <3>1, <3>2
    <3>3. CASE ~IsSnapshot(e)
      <4> SUFFICES ASSUME ~lost', low # top PROVE Holds(queue', top)
        OBVIOUS
      <4>1. PICK i \in DOMAIN queue : IsSnapshot(queue[i]) /\ queue[i].seq = merged.seq
        BY <1>1, <1>2, <2>1, <3>3 DEF Holds
      <4>2. queue[i] \in ToSet(queue')
        BY <2>1, <3>3, <4>1 DEF ToSet
      <4>. QED
        BY <1>2, <3>1, <3>3, <4>1, <4>2
    <3>. QED
      BY <3>2, <3>3
  <2>. QED
    BY <1>1, <1>2, <2>5, <2>6, <2>7 DEF low, top, PostsInv, QueueType,
       SnapshotsInOrder, QueuedSnapshots, Ascending, Holds
<1>. QED
  BY <1>3, <1>4 DEF Post

LEMMA RebuildPosts ==
  ASSUME PostsInv, NEW contributing, RebuildAndPost(contributing), UNCHANGED display
  PROVE  PostsInv'
<1>1. PICK ts : merged' = [seq |-> merged.seq + 1, tasks |-> ts] /\ Post(merged')
  BY DEF RebuildAndPost
<1>2. IsSnapshot(merged') /\ merged'.seq = merged.seq + 1
  BY <1>1 DEF IsSnapshot
<1>. QED
  BY <1>1, <1>2, PostKeeps

LEMMA ReportPosts ==
  ASSUME PostsInv, NEW n, Post([feeds |-> n]), UNCHANGED <<display, merged>>
  PROVE  PostsInv'
<1>1. ~IsSnapshot([feeds |-> n])
  BY DEF IsSnapshot
<1>. QED
  BY <1>1, PostKeeps

LEMMA ReceiveKeeps == PostsInv /\ Receive => PostsInv'
<1> SUFFICES ASSUME PostsInv, Receive PROVE PostsInv'
  OBVIOUS
<1>1. /\ queue \in Seq(ToSet(queue)) /\ Len(queue) <= QueueDepth
      /\ display.seq \in Nat /\ merged.seq \in Nat /\ display.seq <= merged.seq
      /\ lost \in BOOLEAN
      /\ Ascending(queue, display.seq, merged.seq)
      /\ ~lost => display.seq = merged.seq \/ Holds(queue, merged.seq)
  BY PostsInvIs
<1>2. /\ queue # <<>> /\ queue' = Tail(queue) /\ UNCHANGED <<merged, lost>>
      /\ IF IsSnapshot(Head(queue)) THEN display' = Head(queue) ELSE display' = display
  BY DEF Receive
<1>3. /\ queue' \in Seq(ToSet(queue')) /\ Len(queue') <= QueueDepth
  BY <1>1, <1>2, TailQueue, DeviceAssumption DEF DeviceAssumption
<1>4. /\ Ascending(queue', display.seq, merged.seq)
      /\ IsSnapshot(Head(queue)) => /\ Head(queue).seq \in Nat /\ Head(queue).seq <= merged.seq
                                    /\ Ascending(queue', Head(queue).seq, merged.seq)
      /\ Holds(queue, merged.seq) => \/ Holds(queue', merged.seq)
                                     \/ IsSnapshot(Head(queue)) /\ Head(queue).seq = merged.seq
  BY <1>1, <1>2, AscendingTail
<1>5. IsSnapshot(Head(queue)) /\ display.seq = merged.seq => FALSE
  <2>1. Head(queue) = queue[1] /\ 1 \in DOMAIN queue
    BY <1>1, <1>2, TailQueue
  <2>. QED
    BY <1>1, <2>1 DEF Ascending
<1>6. /\ display'.seq \in Nat /\ display'.seq <= merged.seq
      /\ Ascending(queue', display'.seq, merged.seq)
      /\ ~lost => display'.seq = merged.seq \/ Holds(queue', merged.seq)
  BY <1>1, <1>2, <1>4, <1>5
<1>. QED
  BY <1>1, <1>2, <1>3, <1>6 DEF PostsInv, QueueType, SnapshotsInOrder, QueuedSnapshots, Ascending, Holds

LEMMA PostsStep == PostsInv /\ [Next]_vars => PostsInv'
<1> SUFFICES ASSUME PostsInv, [Next]_vars PROVE PostsInv'
  OBVIOUS
<1>1. ASSUME UNCHANGED <<queue, lost, display, merged>> PROVE PostsInv'
  BY <1>1 DEF PostsInv, QueueType, SnapshotsInOrder, QueuedSnapshots
<1>2. ASSUME NEW s \in Slots, Accept(s) \/ Reject(s) PROVE PostsInv'
  BY <1>2, RebuildPosts DEF Accept, Reject
<1>3. ASSUME NEW s \in Slots, Lose(s) PROVE PostsInv'
  BY <1>1, <1>3, RebuildPosts DEF Lose
<1>4. ASSUME NEW s \in Slots, Report(s) PROVE PostsInv'
  BY <1>4, ReportPosts DEF Report
<1>5. CASE ReportAll
  BY <1>5, ReportPosts DEF ReportAll
<1>6. CASE Receive
  BY <1>6, ReceiveKeeps
<1>7. CASE \/ \E s \in Slots : Arrive(s) \/ Copied(s) \/ Open(s) \/ Count(s)
           \/ CountAll \/ UNCHANGED vars
  BY <1>1, <1>7 DEF Arrive, Copied, Open, Count, CountAll, vars, uiVars
<1>. QED
  BY <1>2, <1>3, <1>4, <1>5, <1>6, <1>7 DEF Next

\* Snapshots reach the UI task in the order they were made, and the last one made
\* is displayed, queued or was discarded at a full queue, for any number of slots
\* that post at once and any depth of the queue.
THEOREM SnapshotsAreInOrder == Spec => []SnapshotsInOrder
<1>1. Init => PostsInv
  <2> SUFFICES ASSUME Init PROVE PostsInv
    OBVIOUS
  <2>1. /\ queue = <<>> /\ merged.seq = 0 /\ display.seq = 0 /\ QueueDepth \in Nat
    BY DeviceAssumption DEF Init, DeviceAssumption
  <2>2. <<>> \in Seq(ToSet(<<>>)) /\ DOMAIN <<>> = {} /\ Len(<<>>) = 0
    OBVIOUS
  <2>3. QueuedSnapshots = {} /\ queue \in Seq(ToSet(queue)) /\ Len(queue) <= QueueDepth
    BY <2>1, <2>2 DEF QueuedSnapshots
  <2>4. SnapshotsInOrder
    BY <2>1, <2>3, Zenon DEF SnapshotsInOrder, QueuedSnapshots
  <2>5. /\ display.seq \in Nat /\ display.seq <= merged.seq /\ merged.seq \in Nat
    BY <2>1
  <2>6. lost \in BOOLEAN
    BY DEF Init
  <2>. QED
    BY <2>3, <2>4, <2>5, <2>6 DEF PostsInv, QueueType
<1>2. PostsInv => SnapshotsInOrder
  BY DEF PostsInv
<1>. QED
  BY <1>1, <1>2, PostsStep, PTL DEF Spec

-----------------------------------------------------------------------------
(* What the screen is given. *)

ListEvent(e) == IsSnapshot(e) => Len(e.tasks) <= MaxTasks /\ Distinct(e.tasks)

ListInv == TypeOK /\ \A e \in {merged, display} \cup ToSet(queue) : ListEvent(e)

\* A post adds its event to the queue, and no other.
LEMMA PostAdds ==
  ASSUME TypeOK, NEW e, Post(e)
  PROVE  ToSet(queue') \subseteq ToSet(queue) \cup {e}
<1>0. queue \in Seq(ToSet(queue))
  <2> DEFINE E == Event
  <2>1. queue \in Seq(E)
    BY DEF TypeOK
  <2> HIDE DEF E
  <2>2. Len(queue) \in Nat /\ DOMAIN queue = 1..Len(queue) /\ queue = [i \in 1..Len(queue) |-> queue[i]]
    BY <2>1
  <2>3. \A i \in 1..Len(queue) : queue[i] \in ToSet(queue)
    BY <2>2 DEF ToSet
  <2>. QED
    BY <2>2, <2>3
<1>1. ASSUME NEW q, q \in Seq(ToSet(q)) PROVE ToSet(Append(q, e)) \subseteq ToSet(q) \cup {e}
  <2>1. /\ DOMAIN q = 1..Len(q) /\ DOMAIN Append(q, e) = 1..(Len(q) + 1) /\ Len(q) \in Nat
        /\ \A i \in 1..Len(q) : Append(q, e)[i] = q[i]
        /\ Append(q, e)[Len(q) + 1] = e
    BY <1>1, AppendQueue
  <2>2. \A i \in 1..(Len(q) + 1) : i \in 1..Len(q) \/ i = Len(q) + 1
    BY <2>1
  <2> SUFFICES ASSUME NEW x \in ToSet(Append(q, e)) PROVE x \in ToSet(q) \cup {e}
    OBVIOUS
  <2>3. PICK i \in 1..(Len(q) + 1) : x = Append(q, e)[i]
    BY <2>1 DEF ToSet
  <2>. QED
    BY <2>1, <2>2, <2>3 DEF ToSet
<1>2. queue # <<>> => Tail(queue) \in Seq(ToSet(Tail(queue))) /\ ToSet(Tail(queue)) \subseteq ToSet(queue)
  <2>1. SUFFICES ASSUME queue # <<>>
                 PROVE  Tail(queue) \in Seq(ToSet(Tail(queue))) /\ ToSet(Tail(queue)) \subseteq ToSet(queue)
    OBVIOUS
  <2>2. /\ Tail(queue) \in Seq(ToSet(Tail(queue))) /\ Len(queue) \in Nat
        /\ DOMAIN queue = 1..Len(queue) /\ DOMAIN Tail(queue) = 1..(Len(queue) - 1)
        /\ \A i \in 1..(Len(queue) - 1) : Tail(queue)[i] = queue[i + 1]
    BY <1>0, <2>1, TailQueue
  <2>3. \A i \in 1..(Len(queue) - 1) : i + 1 \in 1..Len(queue)
    BY <2>2
  <2>. QED
    BY <2>2, <2>3 DEF ToSet
<1>3. Len(queue) = QueueDepth => queue # <<>>
  BY DeviceAssumption DEF DeviceAssumption
<1>4. queue' \in {Append(queue, e), Tail(queue), queue}
        \/ (queue # <<>> /\ queue' \in {Append(Tail(queue), e), Tail(queue)})
  BY <1>3 DEF Post
<1>5. CASE queue' = Append(queue, e)
  BY <1>0, <1>1, <1>5
<1>6. CASE queue # <<>> /\ queue' = Append(Tail(queue), e)
  <2> DEFINE t == Tail(queue)
  <2>1. t \in Seq(ToSet(t)) /\ ToSet(t) \subseteq ToSet(queue)
    BY <1>2, <1>6
  <2> HIDE DEF t
  <2>2. ToSet(Append(t, e)) \subseteq ToSet(t) \cup {e}
    BY <1>1, <2>1
  <2>3. queue' = Append(t, e)
    BY <1>6 DEF t
  <2>. QED
    BY <2>1, <2>2, <2>3
<1>7. CASE queue # <<>> /\ queue' = Tail(queue)
  BY <1>2, <1>7
<1>8. CASE queue' = queue
  BY <1>8
<1>. QED
  BY <1>3, <1>5, <1>6, <1>7, <1>8 DEF Post

LEMMA RebuildLists ==
  ASSUME ListInv, NEW contributing, RebuildAndPost(contributing), UNCHANGED display
  PROVE  \A e \in {merged', display'} \cup ToSet(queue') : ListEvent(e)
<1>1. TypeOK
  BY DEF ListInv
<1>2. PICK v \in Views :
        /\ merged' = [seq |-> merged.seq + 1, tasks |-> MergedTasks(contributing, v)]
        /\ Post(merged')
  BY DEF RebuildAndPost
<1>3. v \in [Slots -> Frame]
  BY <1>1, ViewsAre DEF TypeOK
<1>4. ListEvent(merged')
  BY <1>2, <1>3, MergedTasksType, MergedTasksDistinct DEF ListEvent
<1>5. ToSet(queue') \subseteq ToSet(queue) \cup {merged'}
  BY <1>1, <1>2, PostAdds
<1>. QED
  BY <1>4, <1>5 DEF ListInv

LEMMA ReportLists ==
  ASSUME ListInv, NEW n, Post([feeds |-> n]), UNCHANGED <<merged, display>>
  PROVE  \A e \in {merged', display'} \cup ToSet(queue') : ListEvent(e)
<1>1. TypeOK /\ ListEvent([feeds |-> n])
  BY DEF ListInv, ListEvent, IsSnapshot
<1>2. ToSet(queue') \subseteq ToSet(queue) \cup {[feeds |-> n]}
  BY <1>1, PostAdds
<1>. QED
  BY <1>1, <1>2 DEF ListInv

LEMMA ListStep == ListInv /\ [Next]_vars => ListInv'
<1> SUFFICES ASSUME ListInv, [Next]_vars PROVE ListInv'
  OBVIOUS
<1>0. TypeOK /\ TypeOK'
  BY TypeStep DEF ListInv
<1>1. SUFFICES \A e \in {merged', display'} \cup ToSet(queue') : ListEvent(e)
  BY <1>0 DEF ListInv, ListEvent, IsSnapshot, Distinct
<1>2. ASSUME UNCHANGED <<queue, display, merged>>
      PROVE  \A e \in {merged', display'} \cup ToSet(queue') : ListEvent(e)
  BY <1>2 DEF ListInv
<1>3. ASSUME NEW s \in Slots, Accept(s) \/ Reject(s)
      PROVE  \A e \in {merged', display'} \cup ToSet(queue') : ListEvent(e)
  BY <1>3, RebuildLists DEF Accept, Reject
<1>4. ASSUME NEW s \in Slots, Lose(s)
      PROVE  \A e \in {merged', display'} \cup ToSet(queue') : ListEvent(e)
  BY <1>2, <1>4, RebuildLists DEF Lose
<1>5. ASSUME NEW s \in Slots, Report(s)
      PROVE  \A e \in {merged', display'} \cup ToSet(queue') : ListEvent(e)
  BY <1>5, ReportLists DEF Report
<1>6. CASE ReportAll
  BY <1>6, ReportLists DEF ReportAll
<1>7. CASE Receive
  <2>1. /\ queue # <<>> /\ queue' = Tail(queue) /\ UNCHANGED merged
        /\ display' = display \/ display' = Head(queue)
    BY <1>7 DEF Receive
  <2> DEFINE E == Event
  <2>2. queue \in Seq(E)
    BY <1>0 DEF TypeOK
  <2> HIDE DEF E
  <2>3. /\ Len(queue) \in Nat \ {0} /\ DOMAIN queue = 1..Len(queue) /\ Head(queue) = queue[1]
        /\ DOMAIN Tail(queue) = 1..(Len(queue) - 1)
        /\ \A i \in 1..(Len(queue) - 1) : Tail(queue)[i] = queue[i + 1] /\ i + 1 \in 1..Len(queue)
    BY <2>1, <2>2
  <2>4. Head(queue) \in ToSet(queue) /\ ToSet(queue') \subseteq ToSet(queue)
    BY <2>1, <2>3 DEF ToSet
  <2>. QED
    BY <2>1, <2>4 DEF ListInv
<1>8. CASE \/ \E s \in Slots : Arrive(s) \/ Copied(s) \/ Open(s) \/ Count(s)
           \/ CountAll \/ UNCHANGED vars
  BY <1>2, <1>8 DEF Arrive, Copied, Open, Count, CountAll, vars, uiVars
<1>. QED
  BY <1>3, <1>4, <1>5, <1>6, <1>7, <1>8 DEF Next

LEMMA ListInit == Init => ListInv
<1> SUFFICES ASSUME Init PROVE ListInv
  OBVIOUS
<1>1. TypeOK /\ MaxTasks \in Nat
  BY TypeInit, DeviceAssumption DEF DeviceAssumption
<1>2. merged.tasks = <<>> /\ display = merged /\ queue = <<>>
  BY DEF Init
<1>3. ToSet(<<>>) = {} /\ Len(<<>>) = 0 /\ Distinct(<<>>)
  BY DEF ToSet, Distinct
<1>. QED
  BY <1>1, <1>2, <1>3 DEF ListInv, ListEvent

LEMMA ListsAreOnce == ListInv => OneCopyEach
<1> SUFFICES ASSUME ListInv, NEW e \in {merged, display} \cup ToSet(queue), IsSnapshot(e)
             PROVE  /\ Len(e.tasks) <= MaxTasks
                    /\ Cardinality({e.tasks[i].id : i \in DOMAIN e.tasks}) = Len(e.tasks)
  BY DEF OneCopyEach
<1>1. Len(e.tasks) <= MaxTasks /\ Distinct(e.tasks)
  BY DEF ListInv, ListEvent
<1>2. e.tasks \in MergedList
  <2>1. CASE e \in {merged, display}
    BY <2>1 DEF ListInv, TypeOK, Merged, MergedList
  <2>2. CASE e \in ToSet(queue)
    <3>1. e \in Event
      <4> DEFINE E == Event
      <4>1. queue \in Seq(E)
        BY DEF ListInv, TypeOK
      <4> HIDE DEF E
      <4>2. e \in E
        BY <2>2, <4>1 DEF ToSet
      <4>. QED
        BY <4>2 DEF E
    <3>. QED
      BY <3>1 DEF Event, IsSnapshot, MergedList
  <2>. QED
    BY <2>1, <2>2
<1>. QED
  BY <1>1, <1>2, DistinctCounts DEF MIDs

\* What is merged, queued and displayed is a list as DeviceUI assumes it: no task
\* is there twice and there are no more than APP_MAX_TASKS, whatever was read half
\* written (rebuild_merged_snapshot_locked).
THEOREM ScreenGetsLists == Spec => []OneCopyEach
  BY ListInit, ListStep, ListsAreOnce, PTL DEF Spec
-----------------------------------------------------------------------------
(* Sorting.  B is a strict weak order of the positions of ts. *)

WeakOrder(B, ts) ==
  /\ \A i, j \in DOMAIN ts : <<i, j>> \in B => <<j, i>> \notin B
  /\ \A i, j, k \in DOMAIN ts : <<i, j>> \in B => <<i, k>> \in B \/ <<k, j>> \in B

\* What Sorted returns: the tasks of ts, each once, none before one that B puts
\* ahead of it.
LEMMA SortedIs ==
  ASSUME NEW S, NEW ts \in Seq(S), NEW B, WeakOrder(B, ts)
  PROVE  \E o \in [DOMAIN ts -> DOMAIN ts] :
           /\ Sorted(ts, B) = [k \in DOMAIN ts |-> ts[o[k]]]
           /\ \A k, l \in DOMAIN ts : o[k] = o[l] => k = l
           /\ \A i \in DOMAIN ts : \E k \in DOMAIN ts : o[k] = i
           /\ \A k, l \in DOMAIN ts : k < l => <<o[l], o[k]>> \notin B
<1> DEFINE n == Len(ts)
           D == DOMAIN ts
           R == {p \in Pairs(ts) : p \in B \/ (<<p[2], p[1]>> \notin B /\ p[1] < p[2])}
<1>1. n \in Nat /\ D = 1..n
  OBVIOUS
<1>2. \A i, j \in D : <<i, j>> \in R <=> <<i, j>> \in B \/ (<<j, i>> \notin B /\ i < j)
  BY DEF Pairs
<1>3. R \subseteq D \X D
  BY DEF Pairs
<1> DEFINE sorting == CHOOSE o \in [D -> D] : \A k, l \in D : k < l => <<o[k], o[l]>> \in R
<1>4. Sorted(ts, B) = [k \in D |-> ts[sorting[k]]]
  BY DEF Sorted
<1> HIDE DEF R, n, D
<1>5. Orders(R, n)
  <2>1. \A i, j \in D : i # j => i < j \/ j < i
    BY <1>1
  <2>2. \A i, j \in D : <<i, j>> \in B => <<j, i>> \notin B
    BY DEF WeakOrder, D
  <2>3. \A i, j, k \in D : <<i, j>> \in B => <<i, k>> \in B \/ <<k, j>> \in B
    BY DEF WeakOrder, D
  <2>4. \A i, j \in D : i # j => <<i, j>> \in R \/ <<j, i>> \in R
    BY <1>2, <2>1
  <2>5. \A i, j \in D : i < j => ~(j < i)
    BY <1>1
  <2>6. \A i, j \in D : <<i, j>> \in R => <<j, i>> \notin R
    BY <1>2, <2>2, <2>5
  <2>7. ASSUME NEW i \in D, NEW j \in D, NEW k \in D, <<i, j>> \in R, <<j, k>> \in R
        PROVE  <<i, k>> \in R
    <3>1. i < j /\ j < k => i < k
      BY <1>1
    <3>2. CASE <<i, j>> \in B
      BY <1>2, <2>2, <2>3, <2>7, <3>2
    <3>3. CASE <<j, k>> \in B
      BY <1>2, <2>2, <2>3, <2>7, <3>3
    <3>4. CASE <<i, j>> \notin B /\ <<j, k>> \notin B
      <4>1. i < j /\ j < k /\ <<j, i>> \notin B /\ <<k, j>> \notin B
        BY <1>2, <2>7, <3>4
      <4>2. <<k, i>> \notin B
        BY <2>3, <4>1
      <4>. QED
        BY <1>2, <3>1, <4>1, <4>2
    <3>. QED
      BY <3>2, <3>3, <3>4
  <2>. QED
    BY <1>1, <2>4, <2>6, <2>7 DEF Orders
<1>6. sorting = InOrder(n, R)
  BY <1>1 DEF InOrder
<1>7. /\ sorting \in [D -> D] /\ \A k, l \in D : k < l => <<sorting[k], sorting[l]>> \in R
      /\ \A k, l \in D : sorting[k] = sorting[l] => k = l
      /\ \A i \in D : \E k \in D : sorting[k] = i
  <2>1. /\ InOrder(n, R) \in [1..n -> 1..n]
        /\ \A k, l \in 1..n : k < l => <<InOrder(n, R)[k], InOrder(n, R)[l]>> \in R
    BY <1>1, <1>5, OrderExists
  <2>2. /\ \A k, l \in 1..n : InOrder(n, R)[k] = InOrder(n, R)[l] => k = l
        /\ \A i \in 1..n : \E k \in 1..n : InOrder(n, R)[k] = i
    BY <1>1, <1>5, OrderInjective
  <2>. QED
    BY <1>1, <1>6, <2>1, <2>2
<1> HIDE DEF sorting
<1>8. ASSUME NEW k \in D, NEW l \in D, k < l PROVE <<sorting[l], sorting[k]>> \notin B
  <2>1. sorting[k] \in D /\ sorting[l] \in D /\ <<sorting[k], sorting[l]>> \in R
    BY <1>7, <1>8
  <2>. QED
    BY <1>2, <2>1 DEF WeakOrder, D
<1>. QED
  BY <1>4, <1>7, <1>8 DEF D

-----------------------------------------------------------------------------
(* The priority queue. *)

\* A list of tasks as a snapshot has it and the screen shows it.
List(ts) ==
  /\ ts \in Seq(UITask) /\ Len(ts) <= MaxTasks
  /\ \A i, j \in DOMAIN ts : ts[i].id = ts[j].id => i = j

\* A list has as many tasks as ids.
LEMMA ListIs ==
  ASSUME NEW ts, List(ts)
  PROVE  /\ Len(ts) \in Nat /\ DOMAIN ts = 1..Len(ts) /\ IDs(ts) \subseteq TaskIDs
         /\ \A i \in DOMAIN ts : ts[i] \in UITask /\ ts[i].id \in IDs(ts)
         /\ IsFiniteSet(IDs(ts)) /\ Cardinality(IDs(ts)) = Len(ts)
<1>1. /\ Len(ts) \in Nat /\ DOMAIN ts = 1..Len(ts) /\ ts \in Seq(UITask)
      /\ \A i \in DOMAIN ts : ts[i] \in UITask
  BY DEF List
<1>2. IDs(ts) \subseteq TaskIDs /\ \A i \in DOMAIN ts : ts[i].id \in IDs(ts)
  BY <1>1 DEF IDs, UITask
<1> DEFINE D == DOMAIN ts
           f == [i \in D |-> ts[i].id]
<1>3. f \in [D -> IDs(ts)] /\ (\A x \in IDs(ts) : \E i \in D : f[i] = x)
      /\ (\A i, j \in D : f[i] = f[j] => i = j)
  BY <1>2 DEF IDs, List
<1>4. IsFiniteSet(D) /\ Cardinality(D) = Len(ts)
  BY <1>1, UpTo
<1> HIDE DEF f, D
<1>5. f \in Surjection(D, IDs(ts)) /\ f \in Injection(D, IDs(ts))
  BY <1>3, Fun_IsSurj, Fun_IsInj
<1>6. IsFiniteSet(IDs(ts)) /\ Cardinality(IDs(ts)) = Cardinality(D)
  BY <1>4, <1>5, FS_Surjection
<1>. QED
  BY <1>1, <1>2, <1>4, <1>6

\* What the merge posts is a list.
LEMMA SnapshotIsList == ASSUME NEW ts \in Snapshots PROVE List(ts)
<1>1. /\ ts \in Seq(UITask) /\ Len(ts) <= MaxTasks /\ Cardinality(IDs(ts)) = Len(ts)
      /\ Len(ts) \in Nat /\ DOMAIN ts = 1..Len(ts)
  BY UIAssumption DEF UIAssumption
<1> DEFINE D == DOMAIN ts
           f == [i \in D |-> ts[i].id]
<1>2. f \in [D -> IDs(ts)] /\ \A x \in IDs(ts) : \E i \in D : f[i] = x
  BY DEF IDs
<1>3. IsFiniteSet(D) /\ Cardinality(D) = Len(ts)
  BY <1>1, UpTo
<1> HIDE DEF f, D
<1>4. f \in Surjection(D, IDs(ts))
  BY <1>2, Fun_IsSurj
<1>5. f \in Injection(D, IDs(ts))
  BY <1>1, <1>3, <1>4, FS_Surjection
<1>6. \A i, j \in D : f[i] = f[j] => i = j
  BY <1>5, Fun_InjectionProperties
<1>. QED
  BY <1>1, <1>6 DEF f, D, List

PriorityQueue == [priority : [TaskIDs -> {None} \cup PriorityRecord], entered : Nat]

\* Every record has a place of its own.
Places(q) ==
  \A t \in TaskIDs : q.priority[t] # None =>
    /\ q.priority[t].entered <= q.entered
    /\ \A u \in TaskIDs : u # t /\ q.priority[u] # None =>
         q.priority[u].entered # q.priority[t].entered

\* To enter a task is to put it behind all that were entered before.
LEMMA EnterIs ==
  ASSUME NEW q \in PriorityQueue, Places(q), NEW x \in UITask
  PROVE  /\ Enter(q, x) \in PriorityQueue /\ Places(Enter(q, x))
         /\ Enter(q, x).entered = q.entered + 1
         /\ Enter(q, x).priority[x.id] = [rank |-> x.rank, entered |-> q.entered + 1]
         /\ \A t \in TaskIDs : t # x.id => Enter(q, x).priority[t] = q.priority[t]
<1>1. /\ q.priority \in [TaskIDs -> {None} \cup PriorityRecord] /\ q.entered \in Nat
      /\ x.id \in TaskIDs /\ x.rank \in Ranks
  BY DEF PriorityQueue, UITask
<1> DEFINE rec == [rank |-> x.rank, entered |-> q.entered + 1]
<1>2. rec \in PriorityRecord /\ rec.entered = q.entered + 1
  BY <1>1 DEF PriorityRecord
<1>3. /\ Enter(q, x).priority = [q.priority EXCEPT ![x.id] = rec]
      /\ Enter(q, x).entered = q.entered + 1
      /\ Enter(q, x) = [priority |-> [q.priority EXCEPT ![x.id] = rec], entered |-> q.entered + 1]
  BY DEF Enter
<1> HIDE DEF rec
<1>4. /\ [q.priority EXCEPT ![x.id] = rec] \in [TaskIDs -> {None} \cup PriorityRecord]
      /\ [q.priority EXCEPT ![x.id] = rec][x.id] = rec
      /\ \A t \in TaskIDs : t # x.id => [q.priority EXCEPT ![x.id] = rec][t] = q.priority[t]
  BY <1>1, <1>2
<1>5. Enter(q, x) \in PriorityQueue
  BY <1>1, <1>3, <1>4 DEF PriorityQueue
<1>6. \A t \in TaskIDs : q.priority[t] # None => q.priority[t].entered \in Nat
  BY <1>1 DEF PriorityRecord
<1> DEFINE p == Enter(q, x).priority
<1>7. /\ p[x.id] = rec /\ \A t \in TaskIDs : t # x.id => p[t] = q.priority[t]
  BY <1>3, <1>4
<1> HIDE DEF p
<1>8. ASSUME NEW t \in TaskIDs, p[t] # None
      PROVE  /\ p[t].entered <= q.entered + 1
             /\ \A u \in TaskIDs : u # t /\ p[u] # None => p[u].entered # p[t].entered
  BY <1>1, <1>2, <1>6, <1>7, <1>8 DEF Places
<1>9. Places(Enter(q, x))
  BY <1>3, <1>8 DEF Places, p
<1>. QED
  BY <1>3, <1>5, <1>7, <1>9 DEF p, rec

\* What an update does with a record: it stays, or it enters behind all others.
Follows(p, x, q, r) ==
  /\ r.priority[x.id] # None /\ r.priority[x.id].rank = x.rank
  /\ IF p # None /\ p.rank = x.rank THEN r.priority[x.id] = p
     ELSE q.entered < r.priority[x.id].entered

\* A task that is queued, or that there is room for, is recorded at its rank.
LEMMA RecordIs ==
  ASSUME NEW q \in PriorityQueue, Places(q), NEW x \in UITask,
         q.priority[x.id] = None => Cardinality(Queued(q)) < MaxTasks
  PROVE  /\ Record(q, x) \in PriorityQueue /\ Places(Record(q, x))
         /\ q.entered <= Record(q, x).entered
         /\ Follows(q.priority[x.id], x, q, Record(q, x))
         /\ \A t \in TaskIDs : t # x.id => Record(q, x).priority[t] = q.priority[t]
<1>1. x.id \in TaskIDs /\ q.entered \in Nat /\ None \notin PriorityRecord /\ x.rank \in Ranks
  BY UIAssumption DEF UIAssumption, PriorityQueue, UITask
<1>2. /\ Enter(q, x) \in PriorityQueue /\ Places(Enter(q, x))
      /\ Enter(q, x).entered = q.entered + 1
      /\ Enter(q, x).priority[x.id] = [rank |-> x.rank, entered |-> q.entered + 1]
      /\ \A t \in TaskIDs : t # x.id => Enter(q, x).priority[t] = q.priority[t]
  BY EnterIs
<1>3. CASE q.priority[x.id] = None \/ q.priority[x.id].rank # x.rank
  <2>1. Record(q, x) = Enter(q, x)
    BY <1>3 DEF Record
  <2>2. [rank |-> x.rank, entered |-> q.entered + 1] \in PriorityRecord
    BY <1>1 DEF PriorityRecord
  <2>3. Follows(q.priority[x.id], x, q, Enter(q, x))
    BY <1>1, <1>2, <1>3, <2>2 DEF Follows
  <2>. QED
    BY <1>1, <1>2, <2>1, <2>3
<1>4. CASE q.priority[x.id] # None /\ q.priority[x.id].rank = x.rank
  <2>1. Record(q, x) = q
    BY <1>4 DEF Record
  <2>. QED
    BY <1>1, <1>4, <2>1 DEF Follows
<1>. QED
  BY <1>3, <1>4

\* To forget is to keep the tasks of the snapshot, and nothing else.
LEMMA ForgetIs ==
  ASSUME NEW q \in PriorityQueue, Places(q), NEW next
  PROVE  /\ Forget(q, next) \in PriorityQueue /\ Places(Forget(q, next))
         /\ Forget(q, next).entered = q.entered
         /\ \A t \in TaskIDs : Forget(q, next).priority[t] =
                                 IF t \in IDs(next) THEN q.priority[t] ELSE None
<1> DEFINE p == [t \in TaskIDs |-> IF t \in IDs(next) THEN q.priority[t] ELSE None]
<1>1. /\ q.priority \in [TaskIDs -> {None} \cup PriorityRecord] /\ q.entered \in Nat
      /\ q = [priority |-> q.priority, entered |-> q.entered]
  BY DEF PriorityQueue
<1>2. Forget(q, next) = [priority |-> p, entered |-> q.entered]
  BY <1>1 DEF Forget
<1>3. p \in [TaskIDs -> {None} \cup PriorityRecord]
      /\ \A t \in TaskIDs : p[t] = IF t \in IDs(next) THEN q.priority[t] ELSE None
  BY <1>1
<1> HIDE DEF p
<1>4. Forget(q, next).priority = p /\ Forget(q, next).entered = q.entered
      /\ Forget(q, next) \in PriorityQueue
  BY <1>1, <1>2, <1>3 DEF PriorityQueue
<1>5. Places(Forget(q, next))
  BY <1>3, <1>4 DEF Places
<1>. QED
  BY <1>3, <1>4, <1>5

\* The arrivals are the tasks of the snapshot in some order.
LEMMA ArrivalsAre ==
  ASSUME NEW q \in PriorityQueue, NEW next, List(next)
  PROVE  /\ Arrivals(q, next) \in Seq(UITask) /\ Len(Arrivals(q, next)) = Len(next)
         /\ \A k, l \in 1..Len(next) : Arrivals(q, next)[k].id = Arrivals(q, next)[l].id => k = l
         /\ \A k \in 1..Len(next) : Arrivals(q, next)[k].id \in IDs(next)
         /\ \A i \in 1..Len(next) : \E k \in 1..Len(next) : Arrivals(q, next)[k] = next[i]
<1> DEFINE D == DOMAIN next
           known(i) == q.priority[next[i].id] # None
           B == {p \in Pairs(next) :
                  ~known(p[2]) /\ (known(p[1]) \/ next[p[1]].updated > next[p[2]].updated)}
<1>1. next \in Seq(UITask) /\ D = 1..Len(next) /\ Len(next) \in Nat
      /\ \A i \in D : next[i] \in UITask /\ next[i].updated \in Nat
  BY ListIs DEF List, UITask
<1>2. \A i, j \in D : <<i, j>> \in B <=>
        ~known(j) /\ (known(i) \/ next[i].updated > next[j].updated)
  BY DEF Pairs
<1>3. Arrivals(q, next) = Sorted(next, B)
  BY DEF Arrivals
<1> HIDE DEF B, D
<1>4. WeakOrder(B, next)
  <2>1. \A i, j \in D : <<i, j>> \in B => <<j, i>> \notin B
    BY <1>1, <1>2
  <2>2. \A i, j, k \in D : <<i, j>> \in B => <<i, k>> \in B \/ <<k, j>> \in B
    BY <1>1, <1>2
  <2>. QED
    BY <2>1, <2>2 DEF WeakOrder, D
<1>a. \E o \in [D -> D] :
        /\ Sorted(next, B) = [k \in D |-> next[o[k]]]
        /\ \A k, l \in D : o[k] = o[l] => k = l
        /\ \A i \in D : \E k \in D : o[k] = i
        /\ \A k, l \in D : k < l => <<o[l], o[k]>> \notin B
  BY <1>1, <1>4, SortedIs, Zenon DEF D
<1>5. PICK o \in [D -> D] :
        /\ Sorted(next, B) = [k \in D |-> next[o[k]]]
        /\ \A k, l \in D : o[k] = o[l] => k = l
        /\ \A i \in D : \E k \in D : o[k] = i
  BY <1>a
<1> DEFINE a == [k \in D |-> next[o[k]]]
<1>6. \A k \in D : a[k] = next[o[k]] /\ o[k] \in D
  BY <1>5
<1>7. a \in [1..Len(next) -> UITask]
  BY <1>1, <1>5
<1>8. a \in Seq(UITask) /\ Len(a) = Len(next)
  <2> HIDE DEF a
  <2>. QED
    BY <1>1, <1>7
<1> HIDE DEF a
<1>b. \A i, j \in D : next[i].id = next[j].id => i = j
  BY DEF List, D
<1>9. \A k, l \in D : a[k].id = a[l].id => k = l
  BY <1>5, <1>6, <1>b
<1>10. \A k \in D : a[k].id \in IDs(next)
  BY <1>6 DEF IDs, D
<1>11. \A i \in D : \E k \in D : a[k] = next[i]
  BY <1>5, <1>6
<1>12. Arrivals(q, next) = a
  BY <1>3, <1>5 DEF a
<1>. QED
  BY <1>1, <1>8, <1>9, <1>10, <1>11, <1>12

LEMMA RecordType ==
  ASSUME NEW q \in PriorityQueue, NEW x \in UITask
  PROVE  Record(q, x) \in PriorityQueue
<1>1. /\ q.priority \in [TaskIDs -> {None} \cup PriorityRecord] /\ q.entered \in Nat
      /\ x.id \in TaskIDs /\ x.rank \in Ranks
  BY DEF PriorityQueue, UITask
<1> DEFINE rec == [rank |-> x.rank, entered |-> q.entered + 1]
<1>2. rec \in PriorityRecord
  BY <1>1 DEF PriorityRecord
<1>3. Enter(q, x) = [priority |-> [q.priority EXCEPT ![x.id] = rec], entered |-> q.entered + 1]
  BY DEF Enter
<1> HIDE DEF rec
<1>4. [q.priority EXCEPT ![x.id] = rec] \in [TaskIDs -> {None} \cup PriorityRecord]
  BY <1>1, <1>2
<1>5. Enter(q, x) \in PriorityQueue
  BY <1>1, <1>3, <1>4 DEF PriorityQueue
<1>. QED
  BY <1>5 DEF Record

\* The queue after each arrival.
LEMMA UpdateQueueRuns ==
  ASSUME NEW q \in PriorityQueue, Places(q), NEW next, List(next)
  PROVE  \E f : LET kept == Forget(q, next)
                    a == Arrivals(kept, next)
                IN /\ f \in [0..Len(a) -> PriorityQueue] /\ f[0] = kept
                   /\ \A k \in 1..Len(a) : f[k] = Record(f[k - 1], a[k])
                   /\ UpdateQueue(q, next) = f[Len(a)]
<1> DEFINE kept == Forget(q, next)
           a == Arrivals(kept, next)
           n == Len(a)
           IsAfter(g) == g = [k \in 0..n |-> IF k = 0 THEN kept ELSE Record(g[k - 1], a[k])]
           after == CHOOSE g : IsAfter(g)
<1>1. kept \in PriorityQueue
  BY ForgetIs
<1>2. a \in Seq(UITask)
  <2> HIDE DEF kept
  <2>. QED
    BY <1>1, ArrivalsAre
<1>3. UpdateQueue(q, next) = after[n]
  BY DEF UpdateQueue
<1> HIDE DEF kept, a
<1>4. n \in Nat /\ \A k \in 1..n : a[k] \in UITask
  BY <1>2
<1> HIDE DEF n
<1> DEFINE step == [z \in PriorityQueue \X (1..n) |-> Record(z[1], a[z[2]])]
<1>5. \A k \in 1..n : \A x \in PriorityQueue : step[<<x, k>>] = Record(x, a[k])
  OBVIOUS
<1>6. \A k \in 1..n : \A x \in PriorityQueue : Record(x, a[k]) \in PriorityQueue
  BY <1>4, RecordType
<1> HIDE DEF step
<1>7. Steps(step, n, PriorityQueue)
  BY <1>5, <1>6 DEF Steps
<1>8. PICK g : Runs(g, kept, step, n, PriorityQueue)
  BY <1>1, <1>4, <1>7, RunExists
<1>9. \A k \in 1..n : g[k] = Record(g[k - 1], a[k])
  <2>1. \A k \in 1..n : k - 1 \in 0..n
    BY <1>4
  <2>. QED
    BY <1>5, <1>8, <2>1 DEF Runs
<1>10. IsAfter(g)
  <2>1. \A k \in 0..n : k = 0 \/ k \in 1..n
    BY <1>4
  <2>2. \A k \in 0..n : g[k] = IF k = 0 THEN kept ELSE Record(g[k - 1], a[k])
    BY <1>8, <1>9, <2>1 DEF Runs
  <2>3. g = [k \in 0..n |-> g[k]]
    BY <1>8 DEF Runs
  <2>. QED
    BY <2>2, <2>3
<1>11. IsAfter(after)
  <2> HIDE DEF IsAfter
  <2>. QED
    BY <1>10
<1> HIDE DEF after
<1>12. \A k \in 0..n : after[k] = IF k = 0 THEN kept ELSE Record(after[k - 1], a[k])
  BY <1>11
<1>13. after[0] = kept /\ \A k \in 1..n : after[k] = Record(after[k - 1], a[k])
  BY <1>4, <1>12
<1> DEFINE Typed == {k \in 0..n : after[k] \in PriorityQueue}
<1>14. \A k \in 0..n : k \in Typed
  <2>1. 0 \in Typed
    BY <1>1, <1>4, <1>13
  <2>2. ASSUME NEW k \in 1..n, k - 1 \in Typed PROVE k \in Typed
    BY <1>6, <1>13, <2>2
  <2> HIDE DEF Typed
  <2>. QED
    BY <1>4, <2>1, <2>2, CountUp
<1>15. after \in [0..n -> PriorityQueue]
  <2>1. \A k \in 0..n : after[k] \in PriorityQueue
    BY <1>14
  <2>2. after = [k \in 0..n |-> after[k]]
    BY <1>11, <1>12
  <2>. QED
    BY <2>1, <2>2
<1>. QED
  BY <1>3, <1>13, <1>15 DEF kept, a, n

\* The whole update: every task of the snapshot is queued at its rank, in its
\* old place if it keeps its rank, else behind every task that was queued before.
LEMMA UpdateQueueIs ==
  ASSUME NEW q \in PriorityQueue, Places(q), NEW next, List(next)
  PROVE  LET r == UpdateQueue(q, next) IN
         /\ r \in PriorityQueue /\ Places(r) /\ q.entered <= r.entered
         /\ \A t \in TaskIDs : r.priority[t] # None <=> t \in IDs(next)
         /\ \A i \in DOMAIN next : Follows(q.priority[next[i].id], next[i], q, r)
<1> DEFINE kept == Forget(q, next)
           a == Arrivals(kept, next)
           n == Len(a)
<1>1. PICK f : /\ f \in [0..n -> PriorityQueue] /\ f[0] = kept
               /\ \A k \in 1..n : f[k] = Record(f[k - 1], a[k])
               /\ UpdateQueue(q, next) = f[n]
  BY UpdateQueueRuns
<1>2. /\ kept \in PriorityQueue /\ Places(kept) /\ kept.entered = q.entered
      /\ \A t \in TaskIDs : kept.priority[t] = IF t \in IDs(next) THEN q.priority[t] ELSE None
  BY ForgetIs
<1>3. /\ a \in Seq(UITask) /\ n = Len(next)
      /\ \A k, l \in 1..Len(next) : a[k].id = a[l].id => k = l
      /\ \A k \in 1..Len(next) : a[k].id \in IDs(next)
      /\ \A i \in 1..Len(next) : \E k \in 1..Len(next) : a[k] = next[i]
  <2> HIDE DEF kept
  <2>. QED
    BY <1>2, ArrivalsAre
<1> HIDE DEF kept, a
<1>4. /\ n \in Nat /\ n <= MaxTasks /\ DOMAIN next = 1..n
      /\ IsFiniteSet(IDs(next)) /\ Cardinality(IDs(next)) = n
      /\ IDs(next) \subseteq TaskIDs
  BY <1>3, ListIs DEF List
<1>5. /\ \A k \in 1..n : a[k] \in UITask /\ a[k].id \in IDs(next) /\ a[k].id \in TaskIDs
      /\ \A k, l \in 1..n : a[k].id = a[l].id => k = l
      /\ \A i \in 1..n : \E k \in 1..n : a[k] = next[i]
  BY <1>3, <1>4
<1> HIDE DEF n
<1> DEFINE Done(k) ==
      /\ Places(f[k]) /\ q.entered <= f[k].entered
      /\ \A t \in TaskIDs : f[k].priority[t] # None => t \in IDs(next)
      /\ \A i \in 1..k : Follows(q.priority[a[i].id], a[i], q, f[k])
      /\ \A i \in (k + 1)..n : f[k].priority[a[i].id] = q.priority[a[i].id]
<1>6. q.entered \in Nat /\ \A k \in 0..n : f[k] \in PriorityQueue /\ f[k].entered \in Nat
  BY <1>1 DEF PriorityQueue
<1>7. Done(0)
  <2>1. 1..0 = {} /\ \A i \in (0 + 1)..n : i \in 1..n
    BY <1>4
  <2>2. \A i \in (0 + 1)..n : kept.priority[a[i].id] = q.priority[a[i].id]
    BY <1>2, <1>5, <2>1
  <2>. QED
    BY <1>1, <1>2, <1>6, <2>1, <2>2
<1>8. ASSUME NEW k \in 1..n, Done(k - 1) PROVE Done(k)
  <2> DEFINE g == f[k - 1]
             x == a[k]
             r == f[k]
  <2>0. k - 1 \in 0..n /\ k \in ((k - 1) + 1)..n
    BY <1>4
  <2>1. /\ g \in PriorityQueue /\ x \in UITask /\ x.id \in IDs(next) /\ x.id \in TaskIDs /\ k - 1 \in 0..n
        /\ r = Record(g, x) /\ k \in ((k - 1) + 1)..n
    <3>1. g \in PriorityQueue /\ r = Record(g, x)
      BY <1>1, <2>0
    <3>2. x \in UITask /\ x.id \in IDs(next) /\ x.id \in TaskIDs
      BY <1>5
    <3>. QED
      BY <2>0, <3>1, <3>2
  <2>2. /\ Places(g) /\ q.entered <= g.entered
        /\ \A t \in TaskIDs : g.priority[t] # None => t \in IDs(next)
        /\ \A i \in 1..(k - 1) : Follows(q.priority[a[i].id], a[i], q, g)
        /\ \A i \in ((k - 1) + 1)..n : g.priority[a[i].id] = q.priority[a[i].id]
    BY <1>8
  <2>3. g.priority[x.id] = q.priority[x.id]
    BY <2>1, <2>2
  <2> HIDE DEF g
  <2>4. g.priority[x.id] = None => Cardinality(Queued(g)) < MaxTasks
    <3>1. SUFFICES ASSUME g.priority[x.id] = None PROVE Cardinality(Queued(g)) < MaxTasks
      OBVIOUS
    <3>2. Queued(g) \in SUBSET (IDs(next) \ {x.id})
      BY <2>2, <3>1 DEF Queued
    <3>3. IsFiniteSet(IDs(next) \ {x.id}) /\ Cardinality(IDs(next) \ {x.id}) = n - 1
      BY <1>4, <2>1, FS_RemoveElement
    <3>4. IsFiniteSet(Queued(g)) /\ Cardinality(Queued(g)) <= n - 1
      BY <3>2, <3>3, FS_Subset
    <3>5. Cardinality(Queued(g)) \in Nat /\ MaxTasks \in Nat
      BY <3>4, FS_CardinalityType, UIAssumption DEF UIAssumption
    <3>. QED
      BY <1>4, <3>4, <3>5
  <2>5. /\ r \in PriorityQueue /\ Places(r) /\ g.entered <= r.entered
        /\ Follows(g.priority[x.id], x, g, r)
        /\ \A t \in TaskIDs : t # x.id => r.priority[t] = g.priority[t]
    BY <2>1, <2>2, <2>4, RecordIs
  <2>6. g.entered \in Nat /\ r.entered \in Nat
    BY <1>6, <2>1 DEF g
  <2> HIDE DEF r, x
  <2>7. q.entered <= r.entered
    BY <1>6, <2>2, <2>5, <2>6
  <2>8. r.priority[x.id] # None => r.priority[x.id].entered \in Nat
    BY <2>1, <2>5 DEF PriorityQueue, PriorityRecord
  <2>9. Follows(q.priority[x.id], x, q, r)
    BY <1>6, <2>2, <2>3, <2>5, <2>6, <2>8 DEF Follows
  <2>10. \A t \in TaskIDs : r.priority[t] # None => t \in IDs(next)
    BY <2>1, <2>2, <2>5
  <2>11. \A i \in 1..n : i # k => a[i].id # x.id /\ a[i].id \in TaskIDs
    BY <1>5 DEF x
  <2>12. \A i \in 1..k : Follows(q.priority[a[i].id], a[i], q, r)
    <3>1. SUFFICES ASSUME NEW i \in 1..k PROVE Follows(q.priority[a[i].id], a[i], q, r)
      OBVIOUS
    <3>2. CASE i = k
      BY <2>9, <3>2 DEF x
    <3>3. CASE i # k
      <4>1. i \in 1..(k - 1) /\ i \in 1..n
        BY <1>4, <3>3
      <4>2. Follows(q.priority[a[i].id], a[i], q, g)
        BY <2>2, <4>1
      <4>3. r.priority[a[i].id] = g.priority[a[i].id]
        BY <2>5, <2>11, <3>3, <4>1
      <4>. QED
        BY <4>2, <4>3 DEF Follows
    <3>. QED
      BY <3>2, <3>3
  <2>13. \A i \in (k + 1)..n : r.priority[a[i].id] = q.priority[a[i].id]
    <3>1. SUFFICES ASSUME NEW i \in (k + 1)..n PROVE r.priority[a[i].id] = q.priority[a[i].id]
      OBVIOUS
    <3>2. i \in ((k - 1) + 1)..n /\ i \in 1..n /\ i # k
      BY <1>4
    <3>. QED
      BY <2>2, <2>5, <2>11, <3>2
  <2>. QED
    BY <2>5, <2>7, <2>10, <2>12, <2>13 DEF r
<1> DEFINE P == {k \in 0..n : Done(k)}
<1>9. \A k \in 0..n : k \in P
  <2> HIDE DEF Done
  <2>1. 0 \in P
    BY <1>4, <1>7
  <2>2. ASSUME NEW k \in 1..n, k - 1 \in P PROVE k \in P
    BY <1>8, <2>2
  <2> HIDE DEF P
  <2>. QED
    BY <1>4, <2>1, <2>2, CountUp
<1>10. Done(n)
  <2> HIDE DEF Done
  <2>. QED
    BY <1>4, <1>9
<1> DEFINE r == f[n]
<1>11. /\ Places(r) /\ q.entered <= r.entered /\ r \in PriorityQueue
       /\ \A t \in TaskIDs : r.priority[t] # None => t \in IDs(next)
       /\ \A i \in 1..n : Follows(q.priority[a[i].id], a[i], q, r)
  BY <1>4, <1>6, <1>10
<1> HIDE DEF r
<1>12. \A i \in DOMAIN next : Follows(q.priority[next[i].id], next[i], q, r)
  <2>1. SUFFICES ASSUME NEW i \in 1..n PROVE Follows(q.priority[next[i].id], next[i], q, r)
    BY <1>4
  <2>2. PICK k \in 1..n : a[k] = next[i]
    BY <1>5
  <2>. QED
    BY <1>11, <2>2
<1>13. \A t \in IDs(next) : r.priority[t] # None
  BY <1>12 DEF IDs, Follows
<1>14. UpdateQueue(q, next) = r
  BY <1>1 DEF r
<1>. QED
  BY <1>11, <1>12, <1>13, <1>14

-----------------------------------------------------------------------------
(* Order and feature. *)

\* Every task of ts is queued at its rank.
Recorded(q, ts) ==
  \A i \in DOMAIN ts : q.priority[ts[i].id] # None /\ q.priority[ts[i].id].rank = ts[i].rank

\* x is in front of y.
InFront(q, x, y) ==
  \/ x.rank > y.rank
  \/ x.rank = y.rank /\ q.priority[x.id].entered < q.priority[y.id].entered

\* No two tasks of a recorded list have the same place.
LEMMA PlacesOf ==
  ASSUME NEW q \in PriorityQueue, Places(q), NEW ts, List(ts), Recorded(q, ts)
  PROVE  /\ \A i \in DOMAIN ts : /\ q.priority[ts[i].id].entered \in Nat /\ ts[i].rank \in Nat
                                 /\ ts[i].rank <= 4 /\ ts[i].id \in TaskIDs
         /\ \A i, j \in DOMAIN ts : i # j =>
              q.priority[ts[i].id].entered # q.priority[ts[j].id].entered
<1>1. \A i \in DOMAIN ts : ts[i].id \in TaskIDs /\ ts[i].rank \in Ranks
  BY ListIs DEF UITask
<1>2. \A t \in TaskIDs : q.priority[t] # None => q.priority[t].entered \in Nat
  BY DEF PriorityQueue, PriorityRecord
<1>3. \A i, j \in DOMAIN ts : i # j => ts[i].id # ts[j].id
  BY DEF List
<1>4. \A i, j \in DOMAIN ts : i # j =>
        q.priority[ts[i].id].entered # q.priority[ts[j].id].entered
  BY <1>1, <1>3 DEF Places, Recorded
<1>. QED
  BY <1>1, <1>2, <1>4 DEF Recorded, Ranks

\* The insertion sort of the screen: the tasks of ts in the order of the queue.
LEMMA OrderedIs ==
  ASSUME NEW q \in PriorityQueue, Places(q), NEW ts, List(ts), Recorded(q, ts)
  PROVE  /\ List(Ordered(q, ts)) /\ IDs(Ordered(q, ts)) = IDs(ts)
         /\ \A k \in DOMAIN Ordered(q, ts) : \E i \in DOMAIN ts : Ordered(q, ts)[k] = ts[i]
         /\ \A i \in DOMAIN ts : \E k \in DOMAIN Ordered(q, ts) : Ordered(q, ts)[k] = ts[i]
         /\ \A k, l \in DOMAIN Ordered(q, ts) :
              k < l => InFront(q, Ordered(q, ts)[k], Ordered(q, ts)[l])
<1> DEFINE D == DOMAIN ts
           B == {p \in Pairs(ts) : Before(q, ts[p[1]], ts[p[2]])}
           front(i, j) == InFront(q, ts[i], ts[j])
<1>1. /\ ts \in Seq(UITask) /\ Len(ts) \in Nat /\ D = 1..Len(ts)
      /\ \A i \in D : ts[i] \in UITask /\ ts[i].id \in IDs(ts)
  BY ListIs DEF List
<1>2. \A i \in D : q.priority[ts[i].id].entered \in Nat /\ ts[i].rank \in Nat
  BY PlacesOf
<1>3. \A i, j \in D : i # j => q.priority[ts[i].id].entered # q.priority[ts[j].id].entered
  BY PlacesOf
<1>4. \A i \in D : q.priority[ts[i].id] # None /\ q.priority[ts[i].id].rank = ts[i].rank
  BY DEF Recorded
<1>5. Ordered(q, ts) = Sorted(ts, B)
  BY DEF Ordered
<1>6. \A i, j \in D : <<i, j>> \in B <=> Before(q, ts[i], ts[j])
  BY DEF Pairs
<1> HIDE DEF D, B
<1>7. \A i, j \in D : i # j => (<<i, j>> \in B <=> front(i, j))
  BY <1>2, <1>3, <1>4, <1>6 DEF Before, InFront
<1>8. \A i \in D : <<i, i>> \notin B
  <2>1. \A i \in D : ~Before(q, ts[i], ts[i])
    <3>1. \A i \in D : ts[i].updated \in Nat
      BY <1>1 DEF UITask
    <3>. QED
      BY <1>4, <3>1 DEF Before
  <2>. QED
    BY <1>6, <2>1
<1>9. \A i, j \in D : front(i, j) => ~front(j, i)
  BY <1>2 DEF InFront
<1>10. \A i, j, k \in D : front(i, j) => front(i, k) \/ front(k, j)
  BY <1>2 DEF InFront
<1>11. \A i, j \in D : i # j => front(i, j) \/ front(j, i)
  BY <1>2, <1>3 DEF InFront
<1> HIDE DEF front
<1>12. WeakOrder(B, ts)
  <2>1. \A i, j \in D : <<i, j>> \in B => <<j, i>> \notin B
    BY <1>7, <1>8, <1>9
  <2>2. \A i, j, k \in D : <<i, j>> \in B => <<i, k>> \in B \/ <<k, j>> \in B
    BY <1>7, <1>8, <1>10
  <2>. QED
    BY <2>1, <2>2 DEF WeakOrder, D
<1>13. \E o \in [D -> D] :
        /\ Sorted(ts, B) = [k \in D |-> ts[o[k]]]
        /\ \A k, l \in D : o[k] = o[l] => k = l
        /\ \A i \in D : \E k \in D : o[k] = i
        /\ \A k, l \in D : k < l => <<o[l], o[k]>> \notin B
  BY <1>1, <1>12, SortedIs, Zenon DEF D
<1>14. PICK o \in [D -> D] :
        /\ Sorted(ts, B) = [k \in D |-> ts[o[k]]]
        /\ \A k, l \in D : o[k] = o[l] => k = l
        /\ \A i \in D : \E k \in D : o[k] = i
        /\ \A k, l \in D : k < l => <<o[l], o[k]>> \notin B
  BY <1>13
<1> DEFINE s == [k \in D |-> ts[o[k]]]
<1>15. Ordered(q, ts) = s /\ DOMAIN s = D /\ \A k \in D : s[k] = ts[o[k]] /\ o[k] \in D
  BY <1>5, <1>14
<1>16. s \in [1..Len(ts) -> UITask]
  BY <1>1, <1>14
<1>17. s \in Seq(UITask) /\ Len(s) = Len(ts)
  <2> HIDE DEF s
  <2>. QED
    BY <1>1, <1>16
<1> HIDE DEF s
<1>18. \A k, l \in D : k < l => front(o[k], o[l])
  <2>1. SUFFICES ASSUME NEW k \in D, NEW l \in D, k < l PROVE front(o[k], o[l])
    OBVIOUS
  <2>2. k # l /\ o[k] \in D /\ o[l] \in D
    BY <1>1, <1>15, <2>1
  <2>3. o[k] # o[l] /\ <<o[l], o[k]>> \notin B
    BY <1>14, <2>1, <2>2
  <2>. QED
    BY <1>7, <1>11, <2>2, <2>3
<1>19. \A i, j \in D : ts[i].id = ts[j].id => i = j
  BY DEF List, D
<1>20. \A k, l \in D : s[k].id = s[l].id => k = l
  BY <1>14, <1>15, <1>19
<1>21. \A i \in D : \E k \in D : s[k] = ts[i]
  BY <1>14, <1>15
<1>22. IDs(s) = IDs(ts)
  <2>1. IDs(s) \subseteq IDs(ts)
    BY <1>15 DEF IDs, D
  <2>2. IDs(ts) \subseteq IDs(s)
    <3>1. \A i \in D : \E k \in DOMAIN s : s[k].id = ts[i].id
      BY <1>15, <1>21
    <3>. QED
      BY <3>1 DEF IDs, D
  <2>. QED
    BY <2>1, <2>2
<1>23. List(s)
  BY <1>15, <1>17, <1>20 DEF List
<1>24. \A k, l \in D : k < l => InFront(q, s[k], s[l])
  BY <1>15, <1>18 DEF front
<1>. QED
  BY <1>15, <1>21, <1>22, <1>23, <1>24 DEF D

\* f is none of ts, and all are snoozed, or one that no task not snoozed exceeds.
Urgent(f, ts) ==
  \/ f = NoTask /\ \A i \in DOMAIN ts : ts[i].snoozed
  \/ \E i \in DOMAIN ts :
       ts[i].id = f /\ \A j \in DOMAIN ts : ~ts[j].snoozed => ts[j].rank <= ts[i].rank

\* The task the pet features by itself is most urgent.
LEMMA AutomaticIs ==
  ASSUME NEW q \in PriorityQueue, Places(q), NEW ts, List(ts), Recorded(q, ts)
  PROVE  Urgent(Automatic(q, ts), ts)
<1> DEFINE E == {i \in DOMAIN ts : ~ts[i].snoozed /\ q.priority[ts[i].id] # None}
           leads(i, j) ==
             \/ q.priority[ts[i].id].rank > q.priority[ts[j].id].rank
             \/ /\ q.priority[ts[i].id].rank = q.priority[ts[j].id].rank
                /\ q.priority[ts[i].id].entered <= q.priority[ts[j].id].entered
           first == CHOOSE i \in E : \A j \in E : leads(i, j)
<1>1. Automatic(q, ts) = IF E = {} THEN NoTask ELSE ts[first].id
  BY DEF Automatic
<1>2. \A i \in DOMAIN ts : ~ts[i].snoozed => i \in E
  BY DEF Recorded
<1>3. \A i \in E : /\ i \in DOMAIN ts /\ ts[i].rank \in Nat /\ ts[i].rank <= 4
                   /\ q.priority[ts[i].id].entered \in Nat
                   /\ q.priority[ts[i].id].rank = ts[i].rank
  BY PlacesOf DEF Recorded
<1>4. CASE E = {}
  <2> HIDE DEF E
  <2>. QED
    BY <1>1, <1>2, <1>4 DEF Urgent
<1>5. CASE E # {}
  <2> HIDE DEF E
  <2> DEFINE ranks == {4 - ts[i].rank : i \in E}
  <2>1. ranks \in SUBSET Nat /\ ranks # {}
    BY <1>3, <1>5
  <2>2. PICK r \in ranks : \A x \in ranks : r <= x
    <3> HIDE DEF ranks
    <3>. QED
      BY <2>1, NatMin
  <2>3. PICK m \in E : r = 4 - ts[m].rank
    BY <2>2
  <2>4. \A j \in E : ts[j].rank <= ts[m].rank
    <3>1. \A j \in E : r <= 4 - ts[j].rank
      BY <2>2
    <3> HIDE DEF ranks
    <3>. QED
      BY <1>3, <2>3, <3>1
  <2> DEFINE top == {i \in E : ts[i].rank = ts[m].rank}
             places == {q.priority[ts[i].id].entered : i \in top}
  <2>5. places \in SUBSET Nat /\ places # {}
    BY <1>3, <2>3
  <2>6. PICK e \in places : \A x \in places : e <= x
    <3> HIDE DEF places
    <3>. QED
      BY <2>5, NatMin
  <2>7. PICK i \in top : e = q.priority[ts[i].id].entered
    BY <2>6
  <2>8. \A j \in E : leads(i, j)
    <3>1. SUFFICES ASSUME NEW j \in E PROVE leads(i, j)
      OBVIOUS
    <3>2. CASE ts[j].rank = ts[m].rank
      BY <1>3, <2>6, <2>7, <3>2
    <3>3. CASE ts[j].rank # ts[m].rank
      BY <1>3, <2>4, <2>7, <3>3
    <3>. QED
      BY <3>2, <3>3
  <2> HIDE DEF leads
  <2>9. first \in E /\ \A j \in E : leads(first, j)
    BY <2>7, <2>8
  <2> HIDE DEF first
  <2>10. \A j \in E : ts[j].rank <= ts[first].rank
    BY <1>3, <2>9 DEF leads
  <2>. QED
    BY <1>1, <1>2, <1>3, <1>5, <2>9, <2>10 DEF Urgent
<1>. QED
  BY <1>4, <1>5

\* Whatever was chosen before, what is featured then is most urgent.
LEMMA ReconcileFeatures ==
  ASSUME NEW q \in PriorityQueue, Places(q), NEW ts, List(ts), Recorded(q, ts),
         NEW chosen, Reconcile(q, ts, chosen)
  PROVE  Urgent(featured', ts) /\ {manual', featured'} \subseteq IDs(ts) \cup {NoTask}
<1> DEFINE auto == Automatic(q, ts)
           m == ManualAfter(q, ts, chosen)
<1>1. Urgent(auto, ts)
  BY AutomaticIs
<1>2. manual' = m /\ featured' = IF m # NoTask THEN m ELSE auto
  BY DEF Reconcile
<1>3. \A f : Urgent(f, ts) => f \in IDs(ts) \cup {NoTask}
  BY DEF Urgent, IDs
<1>4. NoTask \notin IDs(ts)
  BY ListIs, UIAssumption DEF UIAssumption
<1>5. \A i \in DOMAIN ts : /\ ts[i].rank \in Nat /\ q.priority[ts[i].id] # None
                           /\ q.priority[ts[i].id].rank = ts[i].rank
  BY PlacesOf DEF Recorded
<1>6. ASSUME m # NoTask PROVE Urgent(m, ts) /\ m \in IDs(ts)
  <2>1. /\ m = chosen /\ chosen \in IDs(ts)
        /\ ~(/\ auto # NoTask /\ q.priority[chosen] # None
             /\ q.priority[auto].rank > q.priority[chosen].rank)
    BY <1>6 DEF ManualAfter
  <2>2. PICK i \in DOMAIN ts : ts[i].id = chosen
    BY <2>1 DEF IDs
  <2> HIDE DEF auto, m
  <2>3. CASE auto = NoTask
    <3>1. \A j \in DOMAIN ts : ts[j].snoozed
      BY <1>1, <1>4, <2>3 DEF Urgent, IDs
    <3>. QED
      BY <2>1, <2>2, <3>1 DEF Urgent
  <2>4. CASE auto # NoTask
    <3>1. PICK a \in DOMAIN ts :
            ts[a].id = auto /\ \A j \in DOMAIN ts : ~ts[j].snoozed => ts[j].rank <= ts[a].rank
      BY <1>1, <2>4 DEF Urgent
    <3>2. ts[a].rank <= ts[i].rank
      BY <1>5, <2>1, <2>2, <2>4, <3>1
    <3>3. \A j \in DOMAIN ts : ~ts[j].snoozed => ts[j].rank <= ts[i].rank
      BY <1>5, <3>1, <3>2
    <3>. QED
      BY <2>1, <2>2, <3>3 DEF Urgent
  <2>. QED
    BY <2>3, <2>4
<1> HIDE DEF auto, m
<1>. QED
  BY <1>1, <1>2, <1>3, <1>6

-----------------------------------------------------------------------------
(* The invariant of the screen. *)

\* The queue of the screen.
Q == [priority |-> priority, entered |-> entered]

\* The inductive invariant: the queue is exact and has distinct places, of which
\* priority_sequence is the last, and the featured task is most urgent.
ScreenInv ==
  /\ UITypeOK /\ List(shown) /\ Places(Q)
  /\ QueueIsExact /\ Urgent(featured, shown)

\* Urgent says of positions what FeaturedIsMostUrgent says of tasks.
LEMMA FeaturedIs == List(shown) /\ Urgent(featured, shown) => FeaturedIsMostUrgent
<1> SUFFICES ASSUME List(shown), Urgent(featured, shown) PROVE FeaturedIsMostUrgent
  OBVIOUS
<1>1. \A i \in DOMAIN shown : shown[i].id \in TaskIDs
  BY ListIs DEF UITask
<1>2. NoTask \notin TaskIDs
  BY UIAssumption DEF UIAssumption
<1>3. CASE featured = NoTask
  BY <1>1, <1>2, <1>3 DEF Urgent, FeaturedIsMostUrgent, ToSet
<1>4. CASE featured # NoTask
  <2>1. PICK i \in DOMAIN shown :
          /\ shown[i].id = featured
          /\ \A j \in DOMAIN shown : ~shown[j].snoozed => shown[j].rank <= shown[i].rank
    BY <1>4 DEF Urgent
  <2>2. \A task \in ToSet(shown) : task.id = featured => task = shown[i]
    BY <2>1 DEF List, ToSet
  <2>3. shown[i] \in ToSet(shown) /\ featured \in IDs(shown)
    BY <2>1 DEF ToSet, IDs
  <2>4. (CHOOSE task \in ToSet(shown) : task.id = featured) = shown[i]
    BY <2>1, <2>2, <2>3
  <2>5. RankOf(featured) = shown[i].rank
    BY <2>4 DEF RankOf
  <2>. QED
    BY <1>4, <2>1, <2>3, <2>5 DEF FeaturedIsMostUrgent, ToSet
<1>. QED
  BY <1>3, <1>4

LEMMA QIs ==
  ASSUME UITypeOK
  PROVE  Q \in PriorityQueue /\ Q.priority = priority /\ Q.entered = entered
  BY DEF UITypeOK, Q, PriorityQueue

LEMMA ShownRecorded ==
  ASSUME List(shown), QueueIsExact
  PROVE  Recorded(Q, shown)
<1>1. \A i \in DOMAIN shown : shown[i].id \in TaskIDs /\ shown[i].id \in IDs(shown)
  BY ListIs DEF UITask
<1>. QED
  BY <1>1 DEF QueueIsExact, Recorded, Q

\* A snapshot is applied.
LEMMA ApplyKeeps ==
  ASSUME ScreenInv, NEW next \in Snapshots, Apply(next)
  PROVE  ScreenInv'
<1> DEFINE r == UpdateQueue(Q, next)
           s == Ordered(r, next)
<1>1. List(next) /\ Q \in PriorityQueue /\ Places(Q)
  BY SnapshotIsList, QIs DEF ScreenInv
<1>2. /\ priority' = r.priority /\ entered' = r.entered /\ shown' = s
      /\ Reconcile(r, s, manual)
      /\ switched' = (switched \/ (touch = Pet /\ featured' # featured))
      /\ UNCHANGED <<dismissed, touchVars>>
  BY DEF Apply, Q
<1>3. /\ r \in PriorityQueue /\ Places(r)
      /\ \A t \in TaskIDs : r.priority[t] # None <=> t \in IDs(next)
      /\ \A i \in DOMAIN next : Follows(Q.priority[next[i].id], next[i], Q, r)
  <2> HIDE DEF r
  <2>1. r = UpdateQueue(Q, next)
    BY DEF r
  <2>. QED
    BY <1>1, <2>1, UpdateQueueIs
<1> HIDE DEF r
<1>4. Recorded(r, next)
  BY <1>3 DEF Recorded, Follows
<1>5. /\ List(s) /\ IDs(s) = IDs(next)
      /\ \A k \in DOMAIN s : \E i \in DOMAIN next : s[k] = next[i]
      /\ \A k, l \in DOMAIN s : k < l => InFront(r, s[k], s[l])
  BY <1>1, <1>3, <1>4, OrderedIs
<1> HIDE DEF s
<1>6. Recorded(r, s)
  BY <1>4, <1>5 DEF Recorded
<1>7. Urgent(featured', s) /\ {manual', featured'} \subseteq IDs(s) \cup {NoTask}
  BY <1>2, <1>3, <1>5, <1>6, ReconcileFeatures
<1>8. Q' = r
  BY <1>2, <1>3 DEF Q, PriorityQueue
<1>9. QueueIsExact'
  BY <1>2, <1>3, <1>5, <1>6 DEF QueueIsExact, Recorded, InFront
<1>10. UITypeOK'
  <2>1. IDs(s) \subseteq TaskIDs /\ s \in Seq(UITask) /\ Len(s) <= MaxTasks
    BY <1>5, ListIs DEF List
  <2>2. switched' \in BOOLEAN
    BY <1>2 DEF ScreenInv, UITypeOK
  <2>3. priority' \in [TaskIDs -> {None} \cup PriorityRecord] /\ entered' \in Nat
    BY <1>2, <1>3 DEF PriorityQueue
  <2>. QED
    BY <1>2, <1>7, <2>1, <2>2, <2>3 DEF ScreenInv, UITypeOK, touchVars
<1>. QED
  BY <1>2, <1>3, <1>5, <1>7, <1>8, <1>9, <1>10 DEF ScreenInv

\* A request is queued or, with focus_queue full, dropped.
LEMMA RequestIs ==
  ASSUME UITypeOK, NEW task \in TaskIDs, NEW capability \in Capability, Request(task, capability)
  PROVE  /\ requests' \in Seq([task : TaskIDs, capability : Capability])
         /\ Len(requests') <= FocusDepth
         /\ sent' \in SUBSET Capability
         /\ sent' = sent \/ sent' = sent \cup {capability}
<1>1. /\ requests \in Seq([task : TaskIDs, capability : Capability])
      /\ Len(requests) <= FocusDepth /\ Len(requests) \in Nat /\ FocusDepth \in Nat
      /\ sent \in SUBSET Capability
  BY UIAssumption DEF UITypeOK, UIAssumption
<1> DEFINE e == [task |-> task, capability |-> capability]
<1>2. e \in [task : TaskIDs, capability : Capability]
  OBVIOUS
<1>3. IF Len(requests) < FocusDepth
        THEN requests' = Append(requests, e) /\ sent' = sent \cup {capability}
        ELSE requests' = requests /\ sent' = sent
  BY DEF Request
<1> HIDE DEF e
<1>4. sent' \in SUBSET Capability /\ (sent' = sent \/ sent' = sent \cup {capability})
  BY <1>1, <1>3
<1> DEFINE R == [task : TaskIDs, capability : Capability]
<1>5. requests \in Seq(R) /\ e \in R
  BY <1>1, <1>2
<1> HIDE DEF R
<1>6. requests' \in Seq(R) /\ Len(requests') <= FocusDepth
  BY <1>1, <1>3, <1>5
<1>. QED
  BY <1>4, <1>6 DEF R

\* Touches and transmissions leave the queue and the order alone.
LEMMA ScreenKept ==
  ASSUME ScreenInv, UITypeOK', UNCHANGED <<shown, priority, entered>>, Urgent(featured', shown)
  PROVE  ScreenInv'
<1>1. QueueIsExact'
  BY DEF ScreenInv, QueueIsExact
<1>2. Places(Q')
  BY DEF ScreenInv, Q
<1>. QED
  BY <1>1, <1>2 DEF ScreenInv

LEMMA PressKeeps == ASSUME ScreenInv, NEW target \in Target, Press(target) PROVE ScreenInv'
<1>1. UITypeOK'
  BY DEF Press, ScreenInv, UITypeOK
<1>. QED
  BY <1>1, ScreenKept DEF Press, ScreenInv

LEMMA TouchedIs ==
  ASSUME List(shown), NEW i \in Touched
  PROVE  i \in DOMAIN shown /\ shown[i].id \in TaskIDs
<1>1. i \in DOMAIN shown
  BY DEF Touched
<1>. QED
  BY <1>1, ListIs

LEMMA LongPressKeeps == ASSUME ScreenInv, LongPress PROVE ScreenInv'
<1>1. UITypeOK /\ List(shown)
  BY DEF ScreenInv
<1>2. UITypeOK'
  <2>1. CASE \E i \in Touched : shown[i].rank \in {Ready, Blocked, NeedsInput}
    <3>1. PICK i \in Touched : dismissed' = shown[i].id /\ Request(shown[i].id, Dismissal(shown[i]))
      BY <2>1 DEF LongPress
    <3>2. shown[i].id \in TaskIDs /\ Dismissal(shown[i]) \in Capability
      BY <1>1, TouchedIs DEF Dismissal, Capability
    <3>3. /\ requests' \in Seq([task : TaskIDs, capability : Capability])
          /\ Len(requests') <= FocusDepth /\ sent' \in SUBSET Capability
      BY <1>1, <3>1, <3>2, RequestIs
    <3>. QED
      BY <1>1, <3>1, <3>2, <3>3 DEF LongPress, UITypeOK
  <2>2. CASE ~\E i \in Touched : shown[i].rank \in {Ready, Blocked, NeedsInput}
    BY <1>1, <2>2 DEF LongPress, UITypeOK
  <2>. QED
    BY <2>1, <2>2
<1>. QED
  BY <1>2, ScreenKept DEF LongPress, ScreenInv

LEMMA ReleasePetKeeps == ASSUME ScreenInv, ReleasePet PROVE ScreenInv'
<1>1. UITypeOK /\ List(shown)
  BY DEF ScreenInv
<1>2. UITypeOK'
  <2>1. CASE dismissed' = NoTask /\ UNCHANGED <<requests, sent>>
    BY <1>1, <2>1 DEF ReleasePet, UITypeOK
  <2>2. CASE /\ UNCHANGED dismissed
             /\ IF \E i \in Touched : shown[i].id \in Focusable
                  THEN \E i \in Touched : Request(shown[i].id, "focus")
                  ELSE UNCHANGED <<requests, sent>>
    <3>1. CASE \E i \in Touched : Request(shown[i].id, "focus")
      <4>1. PICK i \in Touched : Request(shown[i].id, "focus")
        BY <3>1
      <4>2. shown[i].id \in TaskIDs /\ "focus" \in Capability
        BY <1>1, TouchedIs DEF Capability
      <4>3. /\ requests' \in Seq([task : TaskIDs, capability : Capability])
            /\ Len(requests') <= FocusDepth /\ sent' \in SUBSET Capability
        BY <1>1, <4>1, <4>2, RequestIs
      <4>. QED
        BY <1>1, <2>2, <4>3 DEF ReleasePet, UITypeOK
    <3>2. CASE UNCHANGED <<requests, sent>>
      BY <1>1, <2>2, <3>2 DEF ReleasePet, UITypeOK
    <3>. QED
      BY <2>2, <3>1, <3>2
  <2>. QED
    BY <2>1, <2>2 DEF ReleasePet
<1>. QED
  BY <1>2, ScreenKept DEF ReleasePet, ScreenInv

LEMMA ReleaseRowKeeps == ASSUME ScreenInv, ReleaseRow PROVE ScreenInv'
<1>1. UITypeOK /\ List(shown) /\ Urgent(featured, shown)
  BY DEF ScreenInv
<1>2. CASE UNCHANGED <<manual, featured>>
  <2>1. dismissed' \in TaskIDs \cup {NoTask}
    BY <1>1 DEF ReleaseRow, UITypeOK
  <2>2. UITypeOK'
    BY <1>1, <1>2, <2>1 DEF ReleaseRow, UITypeOK
  <2>. QED
    BY <1>1, <1>2, <2>2, ScreenKept DEF ReleaseRow
<1>3. CASE ~UNCHANGED <<manual, featured>>
  <2>1. PICK chosen : Reconcile(Q, shown, chosen)
    BY <1>3 DEF ReleaseRow, Q
  <2>2. Q \in PriorityQueue /\ Places(Q) /\ Recorded(Q, shown)
    BY QIs, ShownRecorded DEF ScreenInv
  <2>3. Urgent(featured', shown) /\ {manual', featured'} \subseteq IDs(shown) \cup {NoTask}
    BY <1>1, <2>1, <2>2, ReconcileFeatures
  <2>4. IDs(shown) \subseteq TaskIDs
    BY <1>1, ListIs
  <2>5. dismissed' \in TaskIDs \cup {NoTask}
    BY <1>1 DEF ReleaseRow, UITypeOK
  <2>6. UITypeOK'
    BY <1>1, <2>3, <2>4, <2>5 DEF ReleaseRow, UITypeOK
  <2>. QED
    BY <2>3, <2>6, ScreenKept DEF ReleaseRow
<1>. QED
  BY <1>2, <1>3

LEMMA TransmitKeeps == ASSUME ScreenInv, Transmit PROVE ScreenInv'
<1>1. UITypeOK /\ FocusDepth \in Nat
  BY UIAssumption DEF ScreenInv, UIAssumption
<1>2. /\ requests' \in Seq([task : TaskIDs, capability : Capability])
      /\ Len(requests') <= FocusDepth
  <2>1. /\ requests \in Seq([task : TaskIDs, capability : Capability]) /\ requests # <<>>
        /\ Len(requests) <= FocusDepth /\ requests' = Tail(requests)
    BY <1>1 DEF UITypeOK, Transmit
  <2>. QED
    BY <1>1, <2>1
<1>3. UITypeOK'
  BY <1>1, <1>2 DEF UITypeOK, Transmit
<1>. QED
  BY <1>3, ScreenKept DEF Transmit, ScreenInv

LEMMA ScreenInit == UIInit => ScreenInv
<1> SUFFICES ASSUME UIInit PROVE ScreenInv
  OBVIOUS
<1>1. /\ shown = <<>> /\ DOMAIN shown = {} /\ Len(shown) = 0 /\ shown \in Seq(UITask)
      /\ MaxTasks \in Nat /\ FocusDepth \in Nat
  BY UIAssumption DEF UIInit, UIAssumption
<1>2. UITypeOK
  <2>1. requests \in Seq([task : TaskIDs, capability : Capability]) /\ Len(requests) <= FocusDepth
    BY <1>1 DEF UIInit
  <2>2. priority \in [TaskIDs -> {None} \cup PriorityRecord]
    BY DEF UIInit
  <2>3. shown \in Seq(UITask) /\ Len(shown) <= MaxTasks /\ entered \in Nat
    BY <1>1 DEF UIInit
  <2>5. /\ {manual, featured, dismissed} \subseteq TaskIDs \cup {NoTask}
        /\ touch \in Target \cup {None} /\ long \in BOOLEAN /\ switched \in BOOLEAN
    BY DEF UIInit
  <2>4. sent \in SUBSET Capability
    BY DEF UIInit
  <2>. QED
    BY <2>1, <2>2, <2>3, <2>4, <2>5 DEF UITypeOK
<1>3. IDs(shown) = {} /\ List(shown)
  BY <1>1 DEF IDs, List
<1>4. Places(Q)
  BY DEF UIInit, Q, Places
<1>5. QueueIsExact
  BY <1>1, <1>3 DEF UIInit, QueueIsExact
<1>6. Urgent(featured, shown)
  BY <1>1 DEF UIInit, Urgent
<1>. QED
  BY <1>2, <1>3, <1>4, <1>5, <1>6 DEF ScreenInv

LEMMA ScreenStep == ScreenInv /\ [UINext]_screen => ScreenInv'
<1> SUFFICES ASSUME ScreenInv, [UINext]_screen PROVE ScreenInv'
  OBVIOUS
<1>1. CASE UNCHANGED screen
  <2>1. UITypeOK'
    BY <1>1 DEF screen, touchVars, ScreenInv, UITypeOK
  <2>. QED
    BY <1>1, <2>1, ScreenKept DEF screen, ScreenInv
<1>2. CASE \E next \in Snapshots : Apply(next)
  BY <1>2, ApplyKeeps
<1>3. CASE \E target \in Target : Press(target)
  BY <1>3, PressKeeps
<1>. QED
  BY <1>1, <1>2, <1>3, LongPressKeeps, ReleasePetKeeps, ReleaseRowKeeps, TransmitKeeps DEF UINext

\* Types, for any tasks, snapshots and bounds: the screen shows no more than
\* APP_MAX_TASKS tasks and focus_queue never holds more than its length
\* (apply_snapshot, app_network_request_focus).
THEOREM ScreenTypeCorrect == UISpec => []UITypeOK
<1>1. ScreenInv => UITypeOK
  BY DEF ScreenInv
<1>. QED
  BY <1>1, ScreenInit, ScreenStep, PTL DEF UISpec

\* After any sequence of snapshots and touches exactly the tasks shown are
\* queued, each at its rank and place, and they are shown in that order: the
\* records never run out, since the ones of tasks that are gone are forgotten
\* before the arrivals are recorded (update_priority_queue, sort_snapshot_tasks).
THEOREM QueueStaysExact == UISpec => []QueueIsExact
<1>1. ScreenInv => QueueIsExact
  BY DEF ScreenInv
<1>. QED
  BY <1>1, ScreenInit, ScreenStep, PTL DEF UISpec

\* The pet features a task of the snapshot that no task not snoozed exceeds,
\* or none only if all are snoozed, whatever was browsed and whatever came in
\* between (reconcile_featured_task).
THEOREM FeaturedStaysMostUrgent == UISpec => []FeaturedIsMostUrgent
<1>1. ScreenInv => FeaturedIsMostUrgent
  BY FeaturedIs DEF ScreenInv
<1>. QED
  BY <1>1, ScreenInit, ScreenStep, PTL DEF UISpec

-----------------------------------------------------------------------------
(* One touch, one request. *)

\* What has been asked for while the finger is down: nothing before the long
\* press, and what the long press asked for is about the task that is featured,
\* which the release finds dismissed.
TouchInv ==
  /\ ~switched => sent = {} \/ \E c \in Capability : sent = {c}
  /\ touch # None /\ ~long => sent = {}
  /\ touch = Pet /\ sent # {} /\ ~switched => featured = dismissed /\ featured # NoTask

GestureInv == ScreenInv /\ TouchInv

\* A finger on the pet touches the task that is featured, and no other.
LEMMA PetTouches ==
  ASSUME ScreenInv, touch = Pet
  PROVE  /\ \A i \in Touched : i \in DOMAIN shown /\ shown[i].id = featured
         /\ featured # NoTask => Touched # {}
<1>1. List(shown) /\ Urgent(featured, shown) /\ QueueIsExact /\ UITypeOK
  BY DEF ScreenInv
<1>2. NoTask \notin IDs(shown)
  BY <1>1, ListIs, UIAssumption DEF UIAssumption
<1>3. Touched = {i \in DOMAIN shown : shown[i].id = Featured}
  BY DEF Touched
<1>4. CASE featured \in IDs(shown)
  BY <1>2, <1>3, <1>4 DEF Featured, IDs
<1>5. CASE featured \notin IDs(shown)
  <2>1. featured = NoTask /\ \A i \in DOMAIN shown : shown[i].snoozed
    BY <1>1, <1>5 DEF Urgent, IDs
  <2>2. Featured = NoTask
    BY <1>5, <2>1 DEF Featured, Automatic
  <2>3. Touched = {}
    BY <1>2, <1>3, <2>2 DEF IDs
  <2>. QED
    BY <2>1, <2>3
<1>. QED
  BY <1>4, <1>5

LEMMA TouchInit == UIInit => TouchInv
  BY DEF UIInit, TouchInv

LEMMA TouchStep == ScreenInv /\ TouchInv /\ [UINext]_screen => TouchInv'
<1> SUFFICES ASSUME ScreenInv, TouchInv, [UINext]_screen PROVE TouchInv'
  OBVIOUS
<1>1. UITypeOK /\ List(shown)
  BY DEF ScreenInv
<1>2. CASE UNCHANGED screen
  BY <1>2 DEF screen, touchVars, TouchInv
<1>3. ASSUME NEW next \in Snapshots, Apply(next) PROVE TouchInv'
  BY <1>1, <1>3 DEF Apply, touchVars, TouchInv, UITypeOK
<1>4. ASSUME NEW target \in Target, Press(target) PROVE TouchInv'
  BY <1>4 DEF Press, TouchInv
<1>5. CASE LongPress
  <2>1. /\ sent = {} /\ touch # None /\ touch' = touch /\ long' = TRUE
        /\ UNCHANGED <<featured, switched, shown>>
    BY <1>5 DEF LongPress, TouchInv
  <2>2. CASE UNCHANGED <<dismissed, sent>>
    BY <2>1, <2>2 DEF TouchInv
  <2>3. CASE \E i \in Touched : dismissed' = shown[i].id /\ Request(shown[i].id, Dismissal(shown[i]))
    <3>1. PICK i \in Touched : dismissed' = shown[i].id /\ Request(shown[i].id, Dismissal(shown[i]))
      BY <2>3
    <3>2. shown[i].id \in TaskIDs /\ Dismissal(shown[i]) \in Capability
      BY <1>1, TouchedIs DEF Dismissal, Capability
    <3>3. sent' = sent \/ sent' = sent \cup {Dismissal(shown[i])}
      BY <1>1, <3>1, <3>2, RequestIs
    <3>4. sent' = {} \/ sent' = {Dismissal(shown[i])}
      BY <2>1, <3>3
    <3>5. touch = Pet => dismissed' = featured /\ featured # NoTask
      <4>1. NoTask \notin TaskIDs
        BY UIAssumption DEF UIAssumption
      <4>. QED
        BY <3>1, <3>2, <4>1, PetTouches
    <3>. QED
      BY <2>1, <3>2, <3>4, <3>5 DEF TouchInv
  <2>. QED
    BY <1>5, <2>2, <2>3 DEF LongPress
<1>6. CASE ReleasePet
  <2>1. touch = Pet /\ touch' = None /\ UNCHANGED <<featured, switched>>
    BY <1>6 DEF ReleasePet
  <2>2. Pet # None
    BY UIAssumption DEF UIAssumption, Pet, Target
  <2>3. CASE UNCHANGED sent
    BY <2>1, <2>2, <2>3 DEF TouchInv
  <2>4. CASE /\ \A i \in Touched : shown[i].id # dismissed
             /\ \E i \in Touched : Request(shown[i].id, "focus")
    <3>1. PICK i \in Touched : Request(shown[i].id, "focus")
      BY <2>4
    <3>2. shown[i].id = featured /\ shown[i].id # dismissed
      BY <2>1, <2>4, PetTouches
    <3>3. sent = {} \/ switched
      BY <2>1, <3>2 DEF TouchInv
    <3>4. shown[i].id \in TaskIDs /\ "focus" \in Capability
      BY <1>1, TouchedIs DEF Capability
    <3>5. sent' = sent \/ sent' = sent \cup {"focus"}
      BY <1>1, <3>1, <3>4, RequestIs
    <3>. QED
      BY <2>1, <2>2, <3>3, <3>4, <3>5 DEF TouchInv
  <2>. QED
    BY <1>6, <2>3, <2>4 DEF ReleasePet
<1>7. CASE ReleaseRow
  <2>1. touch' = None /\ UNCHANGED <<sent, switched>> /\ None # Pet
    BY <1>7, UIAssumption DEF ReleaseRow, UIAssumption, Pet, Target
  <2>. QED
    BY <2>1 DEF TouchInv
<1>8. CASE Transmit
  BY <1>8 DEF Transmit, TouchInv
<1>. QED
  BY <1>2, <1>3, <1>4, <1>5, <1>6, <1>7, <1>8 DEF UINext

LEMMA AtMostOne == UITypeOK /\ TouchInv => OneRequestPerTouch
<1>1. Cardinality({}) = 0 /\ \A c : Cardinality({c}) = 1
  BY FS_EmptySet, FS_Singleton
<1>2. ASSUME TouchInv, ~switched PROVE Cardinality(sent) = 0 \/ Cardinality(sent) = 1
  BY <1>1, <1>2 DEF TouchInv
<1>. QED
  BY <1>2 DEF UITypeOK, OneRequestPerTouch

\* One touch asks for one thing, whichever snapshots come between press, long
\* press and release, unless one of them puts another task under the finger
\* (pet_click_handler, row_event_handler).
THEOREM TouchesAskOnce == UISpec => []OneRequestPerTouch
<1>1. GestureInv => OneRequestPerTouch
  BY AtMostOne DEF GestureInv, ScreenInv
<1>2. UIInit => GestureInv
  BY ScreenInit, TouchInit DEF GestureInv
<1>3. GestureInv /\ [UINext]_screen => GestureInv'
  BY ScreenStep, TouchStep DEF GestureInv
<1>. QED
  BY <1>1, <1>2, <1>3, PTL DEF UISpec

-----------------------------------------------------------------------------
(* First come, first shown. *)

\* What FirstComeFirstShown says of a step.
StaysInOrder ==
  \A i \in DOMAIN shown, k, l \in DOMAIN shown' :
       (/\ shown'[k].id = shown[i].id /\ shown'[k].rank = shown[i].rank
        /\ shown'[l].rank = shown[i].rank
        /\ \A j \in 1..i : shown[j].id = shown'[l].id => shown[j].rank # shown[i].rank)
       => k <= l

\* A task that keeps its rank keeps its place (UpdateQueueIs), and one that comes
\* to that rank has a place behind all that were given before.
LEMMA ApplyOrders ==
  ASSUME ScreenInv, NEW next \in Snapshots, Apply(next)
  PROVE  StaysInOrder
<1> DEFINE r == UpdateQueue(Q, next)
           s == Ordered(r, next)
<1>1. List(next) /\ Q \in PriorityQueue /\ Places(Q) /\ List(shown) /\ QueueIsExact
  BY SnapshotIsList, QIs DEF ScreenInv
<1>2. shown' = s
  BY DEF Apply, Q
<1>3. /\ r \in PriorityQueue /\ Places(r) /\ Q.entered <= r.entered
      /\ \A i \in DOMAIN next : Follows(Q.priority[next[i].id], next[i], Q, r)
  <2> HIDE DEF r
  <2>1. r = UpdateQueue(Q, next)
    BY DEF r
  <2>. QED
    BY <1>1, <2>1, UpdateQueueIs
<1> HIDE DEF r
<1>4. Recorded(r, next)
  BY <1>3 DEF Recorded, Follows
<1>5. /\ List(s)
      /\ \A k \in DOMAIN s : \E i \in DOMAIN next : s[k] = next[i]
      /\ \A k, l \in DOMAIN s : k < l => InFront(r, s[k], s[l])
  BY <1>1, <1>3, <1>4, OrderedIs
<1> HIDE DEF s
<1>6. Recorded(r, s)
  BY <1>4, <1>5 DEF Recorded
<1>7. \A k \in DOMAIN s : Follows(priority[s[k].id], s[k], Q, r)
  BY <1>3, <1>5 DEF Q
<1> SUFFICES ASSUME NEW i \in DOMAIN shown, NEW k \in DOMAIN s, NEW l \in DOMAIN s,
                    s[k].id = shown[i].id, s[k].rank = shown[i].rank, s[l].rank = shown[i].rank,
                    \A j \in 1..i : shown[j].id = s[l].id => shown[j].rank # shown[i].rank
             PROVE  k <= l
  BY <1>2 DEF StaysInOrder
<1>8. /\ DOMAIN shown = 1..Len(shown) /\ Len(shown) \in Nat
      /\ DOMAIN s = 1..Len(s) /\ Len(s) \in Nat
      /\ IDs(shown) \subseteq TaskIDs
      /\ \A j \in DOMAIN shown : shown[j].id \in IDs(shown)
      /\ s[l].id \in TaskIDs
  BY <1>1, <1>5, ListIs
<1> DEFINE place(t) == r.priority[t].entered
<1>9. /\ \A j \in DOMAIN shown : /\ priority[shown[j].id] # None
                                 /\ priority[shown[j].id].rank = shown[j].rank
      /\ \A j \in DOMAIN shown : i < j =>
           \/ shown[i].rank > shown[j].rank
           \/ /\ shown[i].rank = shown[j].rank
              /\ priority[shown[i].id].entered < priority[shown[j].id].entered
      /\ \A t \in TaskIDs : priority[t] # None => t \in IDs(shown)
  BY <1>1, <1>8 DEF QueueIsExact
<1>10. /\ priority[shown[i].id].entered \in Nat /\ Q.entered \in Nat
       /\ priority[shown[i].id].entered <= Q.entered
       /\ \A m \in DOMAIN s : place(s[m].id) \in Nat /\ s[m].rank \in Nat
  <2>1. \A t \in TaskIDs : priority[t] # None =>
          priority[t].entered \in Nat /\ priority[t].entered <= Q.entered
    BY <1>1 DEF PriorityQueue, PriorityRecord, Places, Q
  <2>2. \A m \in DOMAIN s : place(s[m].id) \in Nat /\ s[m].rank \in Nat
    BY <1>3, <1>5, <1>6, PlacesOf
  <2>3. Q.entered \in Nat
    BY <1>1 DEF PriorityQueue
  <2>. QED
    BY <1>8, <1>9, <2>1, <2>2, <2>3
<1>11. place(s[k].id) = priority[shown[i].id].entered
  BY <1>7, <1>9 DEF Follows
<1>12. place(s[k].id) < place(s[l].id)
  <2>1. CASE \E j \in DOMAIN shown : shown[j].id = s[l].id /\ shown[j].rank = s[l].rank
    <3>1. PICK j \in DOMAIN shown : shown[j].id = s[l].id /\ shown[j].rank = s[l].rank
      BY <2>1
    <3>2. i < j
      BY <1>8, <3>1
    <3>3. priority[shown[i].id].entered < priority[shown[j].id].entered
      <4>1. ~(shown[i].rank > shown[j].rank)
        BY <1>10, <3>1
      <4>. QED
        BY <1>9, <3>2, <4>1
    <3>4. place(s[l].id) = priority[shown[j].id].entered
      BY <1>7, <1>9, <3>1 DEF Follows
    <3>. QED
      BY <1>11, <3>3, <3>4
  <2>2. CASE ~\E j \in DOMAIN shown : shown[j].id = s[l].id /\ shown[j].rank = s[l].rank
    <3>1. ~(priority[s[l].id] # None /\ priority[s[l].id].rank = s[l].rank)
      BY <1>8, <1>9, <2>2 DEF IDs
    <3>2. Q.entered < place(s[l].id)
      BY <1>7, <3>1 DEF Follows
    <3>. QED
      BY <1>10, <1>11, <3>2
  <2>. QED
    BY <2>1, <2>2
<1>13. ~(l < k)
  <2>1. SUFFICES ASSUME l < k PROVE FALSE
    OBVIOUS
  <2>2. InFront(r, s[l], s[k])
    BY <1>5, <2>1
  <2> HIDE DEF place
  <2>3. s[l].rank = s[k].rank /\ s[l].rank \in Nat
    BY <1>10
  <2>4. place(s[l].id) < place(s[k].id)
    BY <2>2, <2>3 DEF InFront, place
  <2>. QED
    BY <1>10, <1>12, <2>4
<1>. QED
  BY <1>8, <1>13

LEMMA StepOrders == ScreenInv /\ [UINext]_screen => [StaysInOrder]_shown
<1> SUFFICES ASSUME ScreenInv, [UINext]_screen PROVE StaysInOrder \/ UNCHANGED shown
  OBVIOUS
<1>1. ASSUME NEW next \in Snapshots, Apply(next) PROVE StaysInOrder
  BY <1>1, ApplyOrders
<1>2. CASE ~\E next \in Snapshots : Apply(next)
  BY <1>2 DEF UINext, Press, LongPress, ReleasePet, ReleaseRow, Transmit, screen
<1>. QED
  BY <1>1, <1>2

\* A task that comes to a rank, or comes back to it, is shown behind those that
\* were there, and those that stay keep their order, in every step that changes
\* what is shown (record_priority_task, task_display_before).
THEOREM FirstComeIsFirstShown == UISpec => FirstComeFirstShown
<1>1. UISpec => [][StaysInOrder]_shown
  BY ScreenInit, ScreenStep, StepOrders, PTL DEF UISpec
<1>. QED
  BY <1>1 DEF FirstComeFirstShown, StaysInOrder
=============================================================================
